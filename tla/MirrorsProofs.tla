--------------------------- MODULE MirrorsProofs ---------------------------
(***************************************************************************)
(* The type invariant of Mirrors and its properties OKOnEveryMirror,       *)
(* UndoneNowhere, DoesWhatWasAsked and MirrorsAgree are invariants, for    *)
(* any set of clients, any list of mirrors, any methods that the switch    *)
(* knows and any bound on calls, with or without failures.                 *)
(*                                                                         *)
(* None of them is inductive. What the master reports rests on what each   *)
(* mirror it has passed without an error has done, and that on what the    *)
(* transaction had kept there when the end came (MirrorsInvariant). What a *)
(* mirror does rests on the tables of the requests and the handlers        *)
(* (AllFit).                                                               *)
(*                                                                         *)
(* That undisturbed mirrors agree rests on the order in which the master   *)
(* asks them (InOrder): a transaction has the role wherever it has         *)
(* written, so that of two that have written one has only begun to, has    *)
(* written nothing on the mirrors it has ahead, and cannot be committing.  *)
(* Only one commit with changes is therefore ever under way, and what it   *)
(* has stored on the mirrors behind is what it stores on those ahead.      *)
(***************************************************************************)
EXTENDS Mirrors, FiniteSetTheorems, SequenceTheorems, TLAPS

IsWork(w) ==
    /\ w = [pc |-> w.pc, intran |-> w.intran, method |-> w.method, todo |-> w.todo,
            errors |-> w.errors, did |-> w.did]
    /\ w.pc \in {"begin", "undo", "call", "commit", "rollback"}
    /\ w.intran \in BOOLEAN
    /\ w.todo \in Seq(Names)
    /\ w.errors \in BOOLEAN

MirrorTyped ==
    /\ role \in [Names -> Ids \cup {Nil}]
    /\ holder \in [Names -> Clients \cup {Nil}]
    /\ tran \in [Names -> [Clients -> {"new", "live", "ended"}]]
    /\ written \in [Names -> [Clients -> Seq(Ids)]]
    /\ stored \in [Names -> SUBSET Ids]

AtTyped ==
    /\ at = [c \in Clients |-> at[c]]
    /\ \A c \in Clients :
          \/ at[c] = Idle
          \/ /\ IsWork(at[c])
             /\ at[c].pc = "call" => at[c].method \in Called[c]

MasterTyped ==
    /\ transaction_map \subseteq Clients
    /\ calls \in [Clients -> 0 .. MaxCalls]
    /\ agreed \in [Clients -> SUBSET Ids]
    /\ okd \subseteq Ids
    /\ undone \subseteq Ids
    /\ disturbed \in BOOLEAN

Typed == MirrorTyped /\ AtTyped /\ MasterTyped

----------------------------------------------------------------------------
(* The invariant, client by client.                                        *)

IdOf(c) == <<c, calls[c]>>

\* Who works in a transaction has one, begun on every mirror.
BegunEverywhere(c) ==
    /\ (c \in transaction_map \/ agreed[c] # {}) => \A s \in Names : tran[s][c] # "new"
    /\ at[c].pc = "begin" =>
          /\ c \notin transaction_map
          /\ agreed[c] = {}
          /\ ~at[c].errors =>
                \A s \in Names : s \in Elements(at[c].todo) \/ tran[s][c] # "new"
    /\ at[c].pc \in {"commit", "rollback"} \/ (at[c].pc = "call" /\ at[c].intran) =>
          c \in transaction_map /\ at[c].intran

\* Every change bears the number of a call that has been made, and the current one is new.
Numbered(c) ==
    /\ \A id \in agreed[c] : id[1] = c /\ id[2] <= calls[c]
    /\ \A s \in Names : \A id \in Elements(written[s][c]) : id[1] = c /\ id[2] <= calls[c]
    /\ \A s \in Names : \A id \in stored[s] \cup undone : id[1] = c => id[2] <= calls[c]
    /\ at[c].pc = "call" => calls[c] >= 1 /\ IdOf(c) \notin agreed[c] \cup undone
    /\ at[c].pc = "call" /\ at[c].intran => \A s \in Names : IdOf(c) \notin stored[s]

\* As long as a transaction lives at a mirror, the mirror keeps what it was told is done.
Kept(c) ==
    \A s \in Names :
        /\ tran[s][c] # "live" => written[s][c] = << >>
        /\ tran[s][c] = "live" => agreed[c] \subseteq Elements(written[s][c])

\* The mirror has done what the master asks for.
Helped(c, s) ==
    /\ at[c].pc = "call" /\ Changes(OperationOf(at[c].intran, at[c].method)) =>
          IF at[c].intran
          THEN tran[s][c] = "live" => IdOf(c) \in Elements(written[s][c])
          ELSE IdOf(c) \in stored[s]
    /\ at[c].pc = "commit" => agreed[c] \subseteq stored[s]
    /\ at[c].pc = "rollback" => tran[s][c] = "ended"

\* So have those that it has passed without an error.
Passed(c) ==
    at[c] # Idle /\ ~at[c].errors =>
        \A s \in Names : s \in Elements(at[c].todo) \/ Helped(c, s)

DidAsAsked(c) ==
    at[c].pc = "call" => at[c].did \subseteq {OperationOf(at[c].intran, at[c].method)}

\* Nothing that is undone can come back, and nothing is stored before it is committed.
Apart(c) ==
    /\ \A s \in Names : Elements(written[s][c]) \cap undone = {}
    /\ c \in transaction_map /\ at[c].pc # "commit" =>
          \A s \in Names : agreed[c] \cap stored[s] = {}

ClientInv(c) ==
    /\ BegunEverywhere(c)
    /\ Numbered(c)
    /\ Kept(c)
    /\ Passed(c)
    /\ DidAsAsked(c)
    /\ Apart(c)

Reported == \A s \in Names : okd \subseteq stored[s] /\ undone \cap stored[s] = {}

MirrorsInvariant == Typed /\ (\A c \in Clients : ClientInv(c)) /\ Reported

----------------------------------------------------------------------------
(* Sequences.                                                              *)

LEMMA ElementsOf == ASSUME NEW S, NEW q \in Seq(S) PROVE Elements(q) \subseteq S
BY DEF Elements

LEMMA ElementsOfEmpty == Elements(<< >>) = {}
BY DEF Elements

LEMMA ElementsOfAppend ==
    ASSUME NEW S, NEW q \in Seq(S), NEW e \in S
    PROVE  Elements(Append(q, e)) = Elements(q) \cup {e}
<1>1. /\ DOMAIN Append(q, e) = 1 .. Len(q) + 1
      /\ DOMAIN q = 1 .. Len(q)
      /\ Len(q) \in Nat
  OBVIOUS
<1>2. \A i \in 1 .. Len(q) + 1 : Append(q, e)[i] = IF i <= Len(q) THEN q[i] ELSE e
  OBVIOUS
<1>3. Elements(Append(q, e)) \subseteq Elements(q) \cup {e}
  BY <1>1, <1>2 DEF Elements
<1>4. \A i \in DOMAIN q : i \in DOMAIN Append(q, e) /\ Append(q, e)[i] = q[i]
  BY <1>1, <1>2
<1>5. Len(q) + 1 \in DOMAIN Append(q, e) /\ Append(q, e)[Len(q) + 1] = e
  BY <1>1, <1>2
<1>6. QED
  BY <1>3, <1>4, <1>5 DEF Elements

LEMMA ElementsOfTail ==
    ASSUME NEW S, NEW q \in Seq(S), q # << >>
    PROVE  /\ Tail(q) \in Seq(S)
           /\ Head(q) \in S
           /\ \A e : e \in Elements(q) => e = Head(q) \/ e \in Elements(Tail(q))
<1>1. /\ DOMAIN q = 1 .. Len(q) /\ Len(q) \in Nat \ {0}
      /\ Head(q) = q[1]
      /\ Tail(q) \in Seq(S) /\ DOMAIN Tail(q) = 1 .. Len(q) - 1
      /\ \A i \in 1 .. Len(q) - 1 : Tail(q)[i] = q[i + 1]
  OBVIOUS
<1>2. ASSUME NEW i \in 1 .. Len(q), i # 1
      PROVE  i - 1 \in DOMAIN Tail(q) /\ Tail(q)[i - 1] = q[i]
  BY <1>1, <1>2
<1>3. ASSUME NEW i \in DOMAIN q PROVE q[i] = Head(q) \/ q[i] \in Elements(Tail(q))
  <2>1. CASE i = 1
    BY <1>1, <2>1
  <2>2. CASE i # 1
    <3>1. i - 1 \in DOMAIN Tail(q) /\ Tail(q)[i - 1] = q[i]
      BY <1>1, <1>2, <2>2
    <3>2. QED
      BY <3>1 DEF Elements
  <2>3. QED
    BY <2>1, <2>2
<1>4. \A e : e \in Elements(q) => \E i \in DOMAIN q : e = q[i]
  BY DEF Elements
<1>5. QED
  BY <1>1, <1>3, <1>4

LEMMA FunctionIsSequence == ASSUME NEW S, NEW n \in Nat, NEW f \in [1 .. n -> S] PROVE f \in Seq(S)
<1>1. Seq(S) = UNION {[1 .. m -> S] : m \in Nat}
  BY SeqDef
<1>2. f \in UNION {[1 .. m -> S] : m \in Nat}
  BY Zenon
<1>3. QED
  BY <1>1, <1>2

LEMMA NamesFinite == IsFiniteSet(Names)
<1>1. Mirrors \in [1 .. Len(Mirrors) -> Names] /\ Len(Mirrors) \in Nat
  BY MirrorsAssumption
<1>2. Mirrors \in Surjection(1 .. Len(Mirrors), Names)
  BY <1>1 DEF Surjection, Names
<1>3. QED
  BY <1>1, <1>2, FS_Interval, FS_Surjection

LEMMA OrdersTyped ==
    ASSUME NEW S \in SUBSET Names, NEW q \in Orders(S)
    PROVE  q \in Seq(Names) /\ Elements(q) = S
<1>1. Cardinality(S) \in Nat
  BY NamesFinite, FS_Subset, FS_CardinalityType
<1>2. q \in [1 .. Cardinality(S) -> Names]
  BY DEF Orders
<1>3. QED
  BY <1>1, <1>2, FunctionIsSequence DEF Orders

----------------------------------------------------------------------------
(* The tables fit together.                                                *)

LEMMA CallableNames == Callable \subseteq
    {"ExistRole", "ReadFather", "ReadChildren", "ExistChild", "ReadFriends", "ReadFriendStatus",
     "ExistContext", "ReadContext", "ReadContextSameBind", "ReadContextsName", "ReadContextStatus",
     "ReadContexts", "ReadData", "ReadDataToByte", "ReadRole", "StoreRole",
     "StoreRoleFromMiddleData", "DeleteRole", "WriteFather", "WriteChildren", "WriteFriends",
     "WriteContexts", "WriteChild", "DeleteChild", "WriteFriendStatus", "CreateContext",
     "DropContext", "DeleteContextBind", "WriteContextStatus", "WriteData", "WriteDataFromByte",
     "DeleteFriend", "WriteContext"}
BY DEF Callable, O!Methods, OT!Methods, T!Methods

Sends(m, operate) == O!Methods[m].operate = operate /\ OT!Methods[m].operate = operate

LEMMA Sent ==
    /\ Sends("ExistRole", "OPERATE_EXIST_ROLE") /\ Sends("ReadFather", "OPERATE_GET_FATHER")
    /\ Sends("ReadChildren", "OPERATE_GET_CHILDREN") /\ Sends("ExistChild", "OPERATE_EXIST_CHILD")
    /\ Sends("ReadFriends", "OPERATE_GET_FRIENDS")
    /\ Sends("ReadFriendStatus", "OPERATE_GET_FRIEND_STATUS")
    /\ Sends("ExistContext", "OPERATE_EXIST_CONTEXT")
    /\ Sends("ReadContext", "OPERATE_READ_CONTEXT")
    /\ Sends("ReadContextSameBind", "OPERATE_CONTEXT_SAME_BIND")
    /\ Sends("ReadContextsName", "OPERATE_GET_CONTEXTS_NAME")
    /\ Sends("ReadContextStatus", "OPERATE_GET_CONTEXT_STATUS")
    /\ Sends("ReadContexts", "OPERATE_GET_CONTEXTS") /\ Sends("ReadData", "OPERATE_GET_DATA")
    /\ Sends("ReadDataToByte", "OPERATE_GET_DATA") /\ Sends("ReadRole", "OPERATE_READ_ROLE")
    /\ Sends("StoreRole", "OPERATE_WRITE_ROLE")
    /\ Sends("StoreRoleFromMiddleData", "OPERATE_WRITE_ROLE")
    /\ Sends("DeleteRole", "OPERATE_DEL_ROLE") /\ Sends("WriteFather", "OPERATE_SET_FATHER")
    /\ Sends("WriteChildren", "OPERATE_SET_CHILDREN")
    /\ Sends("WriteFriends", "OPERATE_SET_FRIENDS")
    /\ Sends("WriteContexts", "OPERATE_SET_CONTEXTS") /\ Sends("WriteChild", "OPERATE_ADD_CHILD")
    /\ Sends("DeleteChild", "OPERATE_DEL_CHILD")
    /\ Sends("WriteFriendStatus", "OPERATE_SET_FRIEND_STATUS")
    /\ Sends("CreateContext", "OPERATE_ADD_CONTEXT")
    /\ Sends("DropContext", "OPERATE_DROP_CONTEXT")
    /\ Sends("DeleteContextBind", "OPERATE_DEL_CONTEXT_BIND")
    /\ Sends("WriteContextStatus", "OPERATE_SET_CONTEXT_STATUS")
    /\ Sends("WriteData", "OPERATE_SET_DATA") /\ Sends("WriteDataFromByte", "OPERATE_SET_DATA")
    /\ Sends("DeleteFriend", "OPERATE_DEL_FRIEND")
    /\ Sends("WriteContext", "OPERATE_WRITE_CONTEXT")
    /\ Sends("ReadRoleToMiddleData", "OPERATE_READ_ROLE")
BY SMTT(60) DEF Sends, O!Methods, O!Request, O!Normal, O!GoingOn, OT!Methods, OT!Normal,
    OT!GoingOn, O!ExistRole, O!ReadFather, O!ReadChildren, O!ExistChild, O!ReadFriends,
    O!ReadFriendStatus, O!ExistContext, O!ReadContext, O!ReadContextSameBind, O!ReadContextsName,
    O!ReadContextStatus, O!ReadContexts, O!ReadData, O!ReadDataToByte, O!ReadRole, O!StoreRole,
    O!StoreRoleFromMiddleData, O!DeleteRole, O!WriteFather, O!WriteChildren, O!WriteFriends,
    O!WriteContexts, O!WriteChild, O!DeleteChild, O!WriteFriendStatus, O!CreateContext,
    O!DropContext, O!DeleteContextBind, O!WriteContextStatus, O!WriteData, O!WriteDataFromByte,
    O!DeleteFriend, O!WriteContext, O!ReadRoleToMiddleData, OT!ExistRole, OT!ReadFather,
    OT!ReadChildren, OT!ExistChild, OT!ReadFriends, OT!ReadFriendStatus, OT!ExistContext,
    OT!ReadContext, OT!ReadContextSameBind, OT!ReadContextsName, OT!ReadContextStatus,
    OT!ReadContexts, OT!ReadData, OT!ReadDataToByte, OT!ReadRole, OT!StoreRole,
    OT!StoreRoleFromMiddleData, OT!DeleteRole, OT!WriteFather, OT!WriteChildren, OT!WriteFriends,
    OT!WriteContexts, OT!WriteChild, OT!DeleteChild, OT!WriteFriendStatus, OT!CreateContext,
    OT!DropContext, OT!DeleteContextBind, OT!WriteContextStatus, OT!WriteData,
    OT!WriteDataFromByte, OT!DeleteFriend, OT!WriteContext, OT!ReadRoleToMiddleData

Leads(operate, local, remote, writes) ==
    /\ H!Dispatch[operate].local = local
    /\ H!Dispatch[operate].remote = remote
    /\ H!Dispatch[operate].writes = writes

LEMMA Led ==
    /\ Leads("OPERATE_EXIST_ROLE", "ExistRole", "ExistRole", FALSE)
    /\ Leads("OPERATE_GET_FATHER", "ReadFather", "ReadFather", FALSE)
    /\ Leads("OPERATE_GET_CHILDREN", "ReadChildren", "ReadChildren", FALSE)
    /\ Leads("OPERATE_EXIST_CHILD", "ExistChild", "ExistChild", FALSE)
    /\ Leads("OPERATE_GET_FRIENDS", "ReadFriends", "ReadFriends", FALSE)
    /\ Leads("OPERATE_GET_FRIEND_STATUS", "ReadFriendStatus", "ReadFriendStatus", FALSE)
    /\ Leads("OPERATE_EXIST_CONTEXT", "ExistContext", "ExistContext", FALSE)
    /\ Leads("OPERATE_READ_CONTEXT", "ReadContext", "ReadContext", FALSE)
    /\ Leads("OPERATE_CONTEXT_SAME_BIND", "ReadContextSameBind", "ReadContextSameBind", FALSE)
    /\ Leads("OPERATE_GET_CONTEXTS_NAME", "ReadContextsName", "ReadContextsName", FALSE)
    /\ Leads("OPERATE_GET_CONTEXT_STATUS", "ReadContextStatus", "ReadContextStatus", FALSE)
    /\ Leads("OPERATE_GET_CONTEXTS", "ReadContexts", "ReadContexts", FALSE)
    /\ Leads("OPERATE_GET_DATA", "ReadDataToByte", "ReadDataToByte", FALSE)
    /\ Leads("OPERATE_READ_ROLE", "ReadRoleMiddleData", "ReadRoleToMiddleData", FALSE)
    /\ Leads("OPERATE_WRITE_ROLE", "StoreRoleFromMiddleData", "StoreRoleFromMiddleData", TRUE)
    /\ Leads("OPERATE_DEL_ROLE", "DeleteRole", "DeleteRole", TRUE)
    /\ Leads("OPERATE_SET_FATHER", "WriteFather", "WriteFather", TRUE)
    /\ Leads("OPERATE_SET_CHILDREN", "WriteChildren", "WriteChildren", TRUE)
    /\ Leads("OPERATE_SET_FRIENDS", "WriteFriends", "WriteFriends", TRUE)
    /\ Leads("OPERATE_SET_CONTEXTS", "WriteContexts", "WriteContexts", TRUE)
    /\ Leads("OPERATE_ADD_CHILD", "WriteChild", "WriteChild", TRUE)
    /\ Leads("OPERATE_DEL_CHILD", "DeleteChild", "DeleteChild", TRUE)
    /\ Leads("OPERATE_SET_FRIEND_STATUS", "WriteFriendStatus", "WriteFriendStatus", TRUE)
    /\ Leads("OPERATE_ADD_CONTEXT", "CreateContext", "CreateContext", TRUE)
    /\ Leads("OPERATE_DROP_CONTEXT", "DropContext", "DropContext", TRUE)
    /\ Leads("OPERATE_DEL_CONTEXT_BIND", "DeleteContextBind", "DeleteContextBind", TRUE)
    /\ Leads("OPERATE_SET_CONTEXT_STATUS", "WriteContextStatus", "WriteContextStatus", TRUE)
    /\ Leads("OPERATE_SET_DATA", "WriteDataFromByte", "WriteDataFromByte", TRUE)
    /\ Leads("OPERATE_DEL_FRIEND", "DeleteFriend", "DeleteFriend", TRUE)
    /\ Leads("OPERATE_WRITE_CONTEXT", "WriteContext", "WriteContext", TRUE)
<1> USE DEF Leads, H!Dispatch, H!Handler, H!ToAll, H!FromOne
<1>1. Leads("OPERATE_EXIST_ROLE", "ExistRole", "ExistRole", FALSE)
  BY DEF H!normalExitRole
<1>2. Leads("OPERATE_GET_FATHER", "ReadFather", "ReadFather", FALSE)
  BY DEF H!normalReadFather
<1>3. Leads("OPERATE_GET_CHILDREN", "ReadChildren", "ReadChildren", FALSE)
  BY DEF H!normalReadChildren
<1>4. Leads("OPERATE_EXIST_CHILD", "ExistChild", "ExistChild", FALSE)
  BY DEF H!normalExistChild
<1>5. Leads("OPERATE_GET_FRIENDS", "ReadFriends", "ReadFriends", FALSE)
  BY DEF H!normalReadFriends
<1>6. Leads("OPERATE_GET_FRIEND_STATUS", "ReadFriendStatus", "ReadFriendStatus", FALSE)
  BY DEF H!normalReadFriendStatus
<1>7. Leads("OPERATE_EXIST_CONTEXT", "ExistContext", "ExistContext", FALSE)
  BY DEF H!normalExistContext
<1>8. Leads("OPERATE_READ_CONTEXT", "ReadContext", "ReadContext", FALSE)
  BY DEF H!normalReadContext
<1>9. Leads("OPERATE_CONTEXT_SAME_BIND", "ReadContextSameBind", "ReadContextSameBind", FALSE)
  BY DEF H!normalReadContextSameBind
<1>10. Leads("OPERATE_GET_CONTEXTS_NAME", "ReadContextsName", "ReadContextsName", FALSE)
  BY DEF H!normalReadContextsName
<1>11. Leads("OPERATE_GET_CONTEXT_STATUS", "ReadContextStatus", "ReadContextStatus", FALSE)
  BY DEF H!normalReadContextStatus
<1>12. Leads("OPERATE_GET_CONTEXTS", "ReadContexts", "ReadContexts", FALSE)
  BY DEF H!normalReadContexts
<1>13. Leads("OPERATE_GET_DATA", "ReadDataToByte", "ReadDataToByte", FALSE)
  BY DEF H!normalReadData
<1>14. Leads("OPERATE_READ_ROLE", "ReadRoleMiddleData", "ReadRoleToMiddleData", FALSE)
  BY DEF H!normalReadRole
<1>15. Leads("OPERATE_WRITE_ROLE", "StoreRoleFromMiddleData", "StoreRoleFromMiddleData", TRUE)
  BY DEF H!normalStoreRole
<1>16. Leads("OPERATE_DEL_ROLE", "DeleteRole", "DeleteRole", TRUE)
  BY DEF H!normalDeleteRole
<1>17. Leads("OPERATE_SET_FATHER", "WriteFather", "WriteFather", TRUE)
  BY DEF H!normalWriteFather
<1>18. Leads("OPERATE_SET_CHILDREN", "WriteChildren", "WriteChildren", TRUE)
  BY DEF H!normalWriteChildren
<1>19. Leads("OPERATE_SET_FRIENDS", "WriteFriends", "WriteFriends", TRUE)
  BY DEF H!normalWriteFriends
<1>20. Leads("OPERATE_SET_CONTEXTS", "WriteContexts", "WriteContexts", TRUE)
  BY DEF H!normalWriteContexts
<1>21. Leads("OPERATE_ADD_CHILD", "WriteChild", "WriteChild", TRUE)
  BY DEF H!normalWriteChild
<1>22. Leads("OPERATE_DEL_CHILD", "DeleteChild", "DeleteChild", TRUE)
  BY DEF H!normalDeleteChild
<1>23. Leads("OPERATE_SET_FRIEND_STATUS", "WriteFriendStatus", "WriteFriendStatus", TRUE)
  BY DEF H!normalWriteFriendStatus
<1>24. Leads("OPERATE_ADD_CONTEXT", "CreateContext", "CreateContext", TRUE)
  BY DEF H!normalCreateContext
<1>25. Leads("OPERATE_DROP_CONTEXT", "DropContext", "DropContext", TRUE)
  BY DEF H!normalDropContext
<1>26. Leads("OPERATE_DEL_CONTEXT_BIND", "DeleteContextBind", "DeleteContextBind", TRUE)
  BY DEF H!normalDeleteContextBind
<1>27. Leads("OPERATE_SET_CONTEXT_STATUS", "WriteContextStatus", "WriteContextStatus", TRUE)
  BY DEF H!normalWriteContextStatus
<1>28. Leads("OPERATE_SET_DATA", "WriteDataFromByte", "WriteDataFromByte", TRUE)
  BY DEF H!normalWriteData
<1>29. Leads("OPERATE_DEL_FRIEND", "DeleteFriend", "DeleteFriend", TRUE)
  BY DEF H!normalDeleteFriend
<1>30. Leads("OPERATE_WRITE_CONTEXT", "WriteContext", "WriteContext", TRUE)
  BY DEF H!normalWriteContext
<1> HIDE DEF Leads
<1> QED
  BY <1>1, <1>2, <1>3, <1>4, <1>5, <1>6, <1>7, <1>8, <1>9, <1>10, <1>11, <1>12, <1>13, <1>14,
     <1>15, <1>16, <1>17, <1>18, <1>19, <1>20, <1>21, <1>22, <1>23, <1>24, <1>25, <1>26, <1>27,
     <1>28, <1>29, <1>30

\* What a method of the client ends in at a mirror, in a transaction and without.
Runs(m, local, writes) ==
    \A intran \in BOOLEAN : LocalOf(intran, m) = local /\ HandlerOf(intran, m).writes = writes

LEMMA AllRun ==
    /\ Runs("ExistRole", "ExistRole", FALSE) /\ Runs("ReadFather", "ReadFather", FALSE)
    /\ Runs("ReadChildren", "ReadChildren", FALSE) /\ Runs("ExistChild", "ExistChild", FALSE)
    /\ Runs("ReadFriends", "ReadFriends", FALSE)
    /\ Runs("ReadFriendStatus", "ReadFriendStatus", FALSE)
    /\ Runs("ExistContext", "ExistContext", FALSE) /\ Runs("ReadContext", "ReadContext", FALSE)
    /\ Runs("ReadContextSameBind", "ReadContextSameBind", FALSE)
    /\ Runs("ReadContextsName", "ReadContextsName", FALSE)
    /\ Runs("ReadContextStatus", "ReadContextStatus", FALSE)
    /\ Runs("ReadContexts", "ReadContexts", FALSE) /\ Runs("ReadData", "ReadDataToByte", FALSE)
    /\ Runs("ReadDataToByte", "ReadDataToByte", FALSE)
    /\ Runs("ReadRole", "ReadRoleMiddleData", FALSE)
    /\ Runs("StoreRole", "StoreRoleFromMiddleData", TRUE)
    /\ Runs("StoreRoleFromMiddleData", "StoreRoleFromMiddleData", TRUE)
    /\ Runs("DeleteRole", "DeleteRole", TRUE) /\ Runs("WriteFather", "WriteFather", TRUE)
    /\ Runs("WriteChildren", "WriteChildren", TRUE) /\ Runs("WriteFriends", "WriteFriends", TRUE)
    /\ Runs("WriteContexts", "WriteContexts", TRUE) /\ Runs("WriteChild", "WriteChild", TRUE)
    /\ Runs("DeleteChild", "DeleteChild", TRUE)
    /\ Runs("WriteFriendStatus", "WriteFriendStatus", TRUE)
    /\ Runs("CreateContext", "CreateContext", TRUE) /\ Runs("DropContext", "DropContext", TRUE)
    /\ Runs("DeleteContextBind", "DeleteContextBind", TRUE)
    /\ Runs("WriteContextStatus", "WriteContextStatus", TRUE)
    /\ Runs("WriteData", "WriteDataFromByte", TRUE)
    /\ Runs("WriteDataFromByte", "WriteDataFromByte", TRUE)
    /\ Runs("DeleteFriend", "DeleteFriend", TRUE) /\ Runs("WriteContext", "WriteContext", TRUE)
<1> USE Sent, Led DEF Sends, Leads, LocalOf, HandlerOf, Runs
<1>1. Runs("ExistRole", "ExistRole", FALSE)
  OBVIOUS
<1>2. Runs("ReadFather", "ReadFather", FALSE)
  OBVIOUS
<1>3. Runs("ReadChildren", "ReadChildren", FALSE)
  OBVIOUS
<1>4. Runs("ExistChild", "ExistChild", FALSE)
  OBVIOUS
<1>5. Runs("ReadFriends", "ReadFriends", FALSE)
  OBVIOUS
<1>6. Runs("ReadFriendStatus", "ReadFriendStatus", FALSE)
  OBVIOUS
<1>7. Runs("ExistContext", "ExistContext", FALSE)
  OBVIOUS
<1>8. Runs("ReadContext", "ReadContext", FALSE)
  OBVIOUS
<1>9. Runs("ReadContextSameBind", "ReadContextSameBind", FALSE)
  OBVIOUS
<1>10. Runs("ReadContextsName", "ReadContextsName", FALSE)
  OBVIOUS
<1>11. Runs("ReadContextStatus", "ReadContextStatus", FALSE)
  OBVIOUS
<1>12. Runs("ReadContexts", "ReadContexts", FALSE)
  OBVIOUS
<1>13. Runs("ReadData", "ReadDataToByte", FALSE)
  OBVIOUS
<1>14. Runs("ReadDataToByte", "ReadDataToByte", FALSE)
  OBVIOUS
<1>15. Runs("ReadRole", "ReadRoleMiddleData", FALSE)
  OBVIOUS
<1>16. Runs("StoreRole", "StoreRoleFromMiddleData", TRUE)
  OBVIOUS
<1>17. Runs("StoreRoleFromMiddleData", "StoreRoleFromMiddleData", TRUE)
  OBVIOUS
<1>18. Runs("DeleteRole", "DeleteRole", TRUE)
  OBVIOUS
<1>19. Runs("WriteFather", "WriteFather", TRUE)
  OBVIOUS
<1>20. Runs("WriteChildren", "WriteChildren", TRUE)
  OBVIOUS
<1>21. Runs("WriteFriends", "WriteFriends", TRUE)
  OBVIOUS
<1>22. Runs("WriteContexts", "WriteContexts", TRUE)
  OBVIOUS
<1>23. Runs("WriteChild", "WriteChild", TRUE)
  OBVIOUS
<1>24. Runs("DeleteChild", "DeleteChild", TRUE)
  OBVIOUS
<1>25. Runs("WriteFriendStatus", "WriteFriendStatus", TRUE)
  OBVIOUS
<1>26. Runs("CreateContext", "CreateContext", TRUE)
  OBVIOUS
<1>27. Runs("DropContext", "DropContext", TRUE)
  OBVIOUS
<1>28. Runs("DeleteContextBind", "DeleteContextBind", TRUE)
  OBVIOUS
<1>29. Runs("WriteContextStatus", "WriteContextStatus", TRUE)
  OBVIOUS
<1>30. Runs("WriteData", "WriteDataFromByte", TRUE)
  OBVIOUS
<1>31. Runs("WriteDataFromByte", "WriteDataFromByte", TRUE)
  OBVIOUS
<1>32. Runs("DeleteFriend", "DeleteFriend", TRUE)
  OBVIOUS
<1>33. Runs("WriteContext", "WriteContext", TRUE)
  OBVIOUS
<1> HIDE Sent, Led DEF Runs
<1> QED
  BY <1>1, <1>2, <1>3, <1>4, <1>5, <1>6, <1>7, <1>8, <1>9, <1>10, <1>11, <1>12, <1>13, <1>14,
     <1>15, <1>16, <1>17, <1>18, <1>19, <1>20, <1>21, <1>22, <1>23, <1>24, <1>25, <1>26, <1>27,
     <1>28, <1>29, <1>30, <1>31, <1>32, <1>33

\* A method of TRule makes the operation of the same name.
LEMMA SameOperation ==
    /\ A!Methods["ExistRole"].op = T!Methods["ExistRole"]
    /\ A!Methods["ReadFather"].op = T!Methods["ReadFather"]
    /\ A!Methods["ReadChildren"].op = T!Methods["ReadChildren"]
    /\ A!Methods["ExistChild"].op = T!Methods["ExistChild"]
    /\ A!Methods["ReadFriends"].op = T!Methods["ReadFriends"]
    /\ A!Methods["ReadFriendStatus"].op = T!Methods["ReadFriendStatus"]
    /\ A!Methods["ExistContext"].op = T!Methods["ExistContext"]
    /\ A!Methods["ReadContext"].op = T!Methods["ReadContext"]
    /\ A!Methods["ReadContextSameBind"].op = T!Methods["ReadContextSameBind"]
    /\ A!Methods["ReadContextsName"].op = T!Methods["ReadContextsName"]
    /\ A!Methods["ReadContextStatus"].op = T!Methods["ReadContextStatus"]
    /\ A!Methods["ReadContexts"].op = T!Methods["ReadContexts"]
    /\ A!Methods["ReadDataToByte"].op = T!Methods["ReadDataToByte"]
    /\ A!Methods["ReadRoleMiddleData"].op = T!Methods["ReadRoleMiddleData"]
    /\ A!Methods["StoreRoleFromMiddleData"].op = T!Methods["StoreRoleFromMiddleData"]
    /\ A!Methods["DeleteRole"].op = T!Methods["DeleteRole"]
    /\ A!Methods["WriteFather"].op = T!Methods["WriteFather"]
    /\ A!Methods["WriteChildren"].op = T!Methods["WriteChildren"]
    /\ A!Methods["WriteFriends"].op = T!Methods["WriteFriends"]
    /\ A!Methods["WriteContexts"].op = T!Methods["WriteContexts"]
    /\ A!Methods["WriteChild"].op = T!Methods["WriteChild"]
    /\ A!Methods["DeleteChild"].op = T!Methods["DeleteChild"]
    /\ A!Methods["WriteFriendStatus"].op = T!Methods["WriteFriendStatus"]
    /\ A!Methods["CreateContext"].op = T!Methods["CreateContext"]
    /\ A!Methods["DropContext"].op = T!Methods["DropContext"]
    /\ A!Methods["DeleteContextBind"].op = T!Methods["DeleteContextBind"]
    /\ A!Methods["WriteContextStatus"].op = T!Methods["WriteContextStatus"]
    /\ A!Methods["WriteDataFromByte"].op = T!Methods["WriteDataFromByte"]
    /\ A!Methods["DeleteFriend"].op = T!Methods["DeleteFriend"]
    /\ A!Methods["WriteContext"].op = T!Methods["WriteContext"]
<1> USE DEF A!Methods, A!Auto, A!Direct, T!Methods,
           T!Reading, T!Locking, T!Writing, T!Replacing, T!Extending, T!Modifying, T!MayFail,
           A!T!Reading, A!T!Locking, A!T!Writing, A!T!Replacing, A!T!Extending, A!T!Modifying,
           A!T!MayFail
<1>1. A!Methods["ExistRole"].op = T!Methods["ExistRole"]
  BY DEF A!ExistRole, T!ExistRole, A!T!ExistRole
<1>2. A!Methods["ReadFather"].op = T!Methods["ReadFather"]
  BY DEF A!ReadFather, T!ReadFather, A!T!ReadFather
<1>3. A!Methods["ReadChildren"].op = T!Methods["ReadChildren"]
  BY DEF A!ReadChildren, T!ReadChildren, A!T!ReadChildren
<1>4. A!Methods["ExistChild"].op = T!Methods["ExistChild"]
  BY DEF A!ExistChild, T!ExistChild, A!T!ExistChild
<1>5. A!Methods["ReadFriends"].op = T!Methods["ReadFriends"]
  BY DEF A!ReadFriends, T!ReadFriends, A!T!ReadFriends
<1>6. A!Methods["ReadFriendStatus"].op = T!Methods["ReadFriendStatus"]
  BY DEF A!ReadFriendStatus, T!ReadFriendStatus, A!T!ReadFriendStatus
<1>7. A!Methods["ExistContext"].op = T!Methods["ExistContext"]
  BY DEF A!ExistContext, T!ExistContext, A!T!ExistContext
<1>8. A!Methods["ReadContext"].op = T!Methods["ReadContext"]
  BY DEF A!ReadContext, T!ReadContext, A!T!ReadContext
<1>9. A!Methods["ReadContextSameBind"].op = T!Methods["ReadContextSameBind"]
  BY DEF A!ReadContextSameBind, T!ReadContextSameBind, A!T!ReadContextSameBind
<1>10. A!Methods["ReadContextsName"].op = T!Methods["ReadContextsName"]
  BY DEF A!ReadContextsName, T!ReadContextsName, A!T!ReadContextsName
<1>11. A!Methods["ReadContextStatus"].op = T!Methods["ReadContextStatus"]
  BY DEF A!ReadContextStatus, T!ReadContextStatus, A!T!ReadContextStatus
<1>12. A!Methods["ReadContexts"].op = T!Methods["ReadContexts"]
  BY DEF A!ReadContexts, T!ReadContexts, A!T!ReadContexts
<1>13. A!Methods["ReadDataToByte"].op = T!Methods["ReadDataToByte"]
  BY DEF A!ReadDataToByte, T!ReadDataToByte, A!T!ReadDataToByte
<1>14. A!Methods["ReadRoleMiddleData"].op = T!Methods["ReadRoleMiddleData"]
  BY DEF A!ReadRoleMiddleData, T!ReadRoleMiddleData, A!T!ReadRoleMiddleData
<1>15. A!Methods["StoreRoleFromMiddleData"].op = T!Methods["StoreRoleFromMiddleData"]
  BY DEF A!StoreRoleFromMiddleData, T!StoreRoleFromMiddleData, A!T!StoreRoleFromMiddleData,
         T!StoreRole, A!T!StoreRole
<1>16. A!Methods["DeleteRole"].op = T!Methods["DeleteRole"]
  BY DEF A!DeleteRole, T!DeleteRole, A!T!DeleteRole
<1>17. A!Methods["WriteFather"].op = T!Methods["WriteFather"]
  BY DEF A!WriteFather, T!WriteFather, A!T!WriteFather
<1>18. A!Methods["WriteChildren"].op = T!Methods["WriteChildren"]
  BY DEF A!WriteChildren, T!WriteChildren, A!T!WriteChildren
<1>19. A!Methods["WriteFriends"].op = T!Methods["WriteFriends"]
  BY DEF A!WriteFriends, T!WriteFriends, A!T!WriteFriends
<1>20. A!Methods["WriteContexts"].op = T!Methods["WriteContexts"]
  BY DEF A!WriteContexts, T!WriteContexts, A!T!WriteContexts
<1>21. A!Methods["WriteChild"].op = T!Methods["WriteChild"]
  BY DEF A!WriteChild, T!WriteChild, A!T!WriteChild
<1>22. A!Methods["DeleteChild"].op = T!Methods["DeleteChild"]
  BY DEF A!DeleteChild, T!DeleteChild, A!T!DeleteChild
<1>23. A!Methods["WriteFriendStatus"].op = T!Methods["WriteFriendStatus"]
  BY DEF A!WriteFriendStatus, T!WriteFriendStatus, A!T!WriteFriendStatus
<1>24. A!Methods["CreateContext"].op = T!Methods["CreateContext"]
  BY DEF A!CreateContext, T!CreateContext, A!T!CreateContext
<1>25. A!Methods["DropContext"].op = T!Methods["DropContext"]
  BY DEF A!DropContext, T!DropContext, A!T!DropContext
<1>26. A!Methods["DeleteContextBind"].op = T!Methods["DeleteContextBind"]
  BY DEF A!DeleteContextBind, T!DeleteContextBind, A!T!DeleteContextBind
<1>27. A!Methods["WriteContextStatus"].op = T!Methods["WriteContextStatus"]
  BY DEF A!WriteContextStatus, T!WriteContextStatus, A!T!WriteContextStatus
<1>28. A!Methods["WriteDataFromByte"].op = T!Methods["WriteDataFromByte"]
  BY DEF A!WriteDataFromByte, T!WriteDataFromByte, A!T!WriteDataFromByte
<1>29. A!Methods["DeleteFriend"].op = T!Methods["DeleteFriend"]
  BY DEF A!DeleteFriend, T!DeleteFriend, A!T!DeleteFriend
<1>30. A!Methods["WriteContext"].op = T!Methods["WriteContext"]
  BY DEF A!WriteContext, T!WriteContext, A!T!WriteContext
<1> QED
  BY <1>1, <1>2, <1>3, <1>4, <1>5, <1>6, <1>7, <1>8, <1>9, <1>10, <1>11, <1>12, <1>13, <1>14,
     <1>15, <1>16, <1>17, <1>18, <1>19, <1>20, <1>21, <1>22, <1>23, <1>24, <1>25, <1>26, <1>27,
     <1>28, <1>29, <1>30

Alike(op, asked) == op.part = asked.part /\ op.effect = asked.effect /\ op.lock = asked.lock

\* The operations that go by another name at the mirror, and those that are asked of one
\* mirror only.
LEMMA OperationKinds ==
    /\ Alike(T!Methods["ReadDataToByte"], T!Methods["ReadData"])
    /\ Alike(T!Methods["ReadRoleMiddleData"], T!Methods["ReadRole"])
    /\ Alike(T!Methods["StoreRoleFromMiddleData"], T!Methods["StoreRole"])
    /\ Alike(T!Methods["WriteDataFromByte"], T!Methods["WriteData"])
    /\ ~Changes(T!Methods["ExistChild"]) /\ ~Changes(T!Methods["ExistContext"])
    /\ ~Changes(T!Methods["ExistRole"]) /\ ~Changes(T!Methods["ReadChildren"])
    /\ ~Changes(T!Methods["ReadContext"]) /\ ~Changes(T!Methods["ReadContextSameBind"])
    /\ ~Changes(T!Methods["ReadContextStatus"]) /\ ~Changes(T!Methods["ReadContexts"])
    /\ ~Changes(T!Methods["ReadContextsName"]) /\ ~Changes(T!Methods["ReadDataToByte"])
    /\ ~Changes(T!Methods["ReadFather"]) /\ ~Changes(T!Methods["ReadFriendStatus"])
    /\ ~Changes(T!Methods["ReadFriends"]) /\ ~Changes(T!Methods["ReadRoleMiddleData"])
<1> USE DEF Alike, Changes, T!Methods, T!Reading, T!Locking, T!Writing, T!Replacing, T!Extending,
            T!Modifying, T!MayFail
<1>1. Alike(T!Methods["ReadDataToByte"], T!Methods["ReadData"])
  BY DEF T!ReadData, T!ReadDataToByte
<1>2. Alike(T!Methods["ReadRoleMiddleData"], T!Methods["ReadRole"])
  BY DEF T!ReadRole, T!ReadRoleMiddleData
<1>3. Alike(T!Methods["StoreRoleFromMiddleData"], T!Methods["StoreRole"])
  BY DEF T!StoreRole, T!StoreRoleFromMiddleData
<1>4. Alike(T!Methods["WriteDataFromByte"], T!Methods["WriteData"])
  BY DEF T!WriteData, T!WriteDataFromByte
<1>5. ~Changes(T!Methods["ExistChild"])
  BY DEF T!ExistChild
<1>6. ~Changes(T!Methods["ExistContext"])
  BY DEF T!ExistContext
<1>7. ~Changes(T!Methods["ExistRole"])
  BY DEF T!ExistRole
<1>8. ~Changes(T!Methods["ReadChildren"])
  BY DEF T!ReadChildren
<1>9. ~Changes(T!Methods["ReadContext"])
  BY DEF T!ReadContext
<1>10. ~Changes(T!Methods["ReadContextSameBind"])
  BY DEF T!ReadContextSameBind
<1>11. ~Changes(T!Methods["ReadContextStatus"])
  BY DEF T!ReadContextStatus
<1>12. ~Changes(T!Methods["ReadContexts"])
  BY DEF T!ReadContexts
<1>13. ~Changes(T!Methods["ReadContextsName"])
  BY DEF T!ReadContextsName
<1>14. ~Changes(T!Methods["ReadDataToByte"])
  BY DEF T!ReadDataToByte
<1>15. ~Changes(T!Methods["ReadFather"])
  BY DEF T!ReadFather
<1>16. ~Changes(T!Methods["ReadFriendStatus"])
  BY DEF T!ReadFriendStatus
<1>17. ~Changes(T!Methods["ReadFriends"])
  BY DEF T!ReadFriends
<1>18. ~Changes(T!Methods["ReadRoleMiddleData"])
  BY DEF T!ReadRoleMiddleData
<1> HIDE DEF Alike, Changes
<1> QED
  BY <1>1, <1>2, <1>3, <1>4, <1>5, <1>6, <1>7, <1>8, <1>9, <1>10, <1>11, <1>12, <1>13, <1>14,
     <1>15, <1>16, <1>17, <1>18

\* What is done at a mirror is what the client's method does on a store of its own, and if
\* it changes the role the master's handler passes it on to all mirrors.
Fits(m) ==
    \A intran \in BOOLEAN :
        /\ Alike(OperationOf(intran, m), T!Methods[m])
        /\ Changes(OperationOf(intran, m)) => HandlerOf(intran, m).writes

LEMMA FitsIf ==
    ASSUME NEW m, NEW local, NEW writes \in BOOLEAN, Runs(m, local, writes),
           A!Methods[local].op = T!Methods[local], Alike(T!Methods[local], T!Methods[m]),
           writes \/ ~Changes(T!Methods[local])
    PROVE  Fits(m)
BY DEF Runs, Fits, OperationOf

LEMMA AllFit == \A m \in Callable : Fits(m)
<1>1. \A m : Alike(T!Methods[m], T!Methods[m])
  BY DEF Alike
<1> QED
  BY CallableNames, FitsIf, AllRun, SameOperation, OperationKinds, <1>1

LEMMA ChangesGoToAll ==
    ASSUME NEW c \in Clients, NEW m \in Called[c], NEW intran \in BOOLEAN,
           Changes(OperationOf(intran, m))
    PROVE  HandlerOf(intran, m).writes
BY AllFit, CalledAssumption DEF Fits

----------------------------------------------------------------------------
(* Steps.                                                                  *)

LEMMA GoesDoes ==
    ASSUME AtTyped, NEW c \in Clients, NEW w, Goes(c, w),
           w = Idle \/ (IsWork(w) /\ (w.pc = "call" => w.method \in Called[c]))
    PROVE  AtTyped' /\ at'[c] = w /\ \A d \in Clients \ {c} : at'[d] = at[d]
<1>1. /\ at' = [d \in Clients |-> at'[d]]
      /\ at'[c] = w
      /\ \A d \in Clients \ {c} : at'[d] = at[d]
  BY DEF AtTyped, Goes
<1>2. QED
  BY <1>1 DEF AtTyped

\* What a step of one client leaves of the others.
Frame(c) ==
    /\ \A d \in Clients \ {c} :
          /\ at'[d] = at[d] /\ calls'[d] = calls[d] /\ agreed'[d] = agreed[d]
          /\ d \in transaction_map' <=> d \in transaction_map
          /\ \A s \in Names : tran'[s][d] = tran[s][d] /\ written'[s][d] = written[s][d]
    /\ \A s \in Names :
          /\ stored[s] \subseteq stored'[s]
          /\ \A id \in stored'[s] : id \in stored[s] \/ id[1] = c
    /\ \A id \in undone' : id \in undone \/ id[1] = c

LEMMA Others ==
    ASSUME NEW c \in Clients, NEW d \in Clients, d # c, ClientInv(d), Frame(c)
    PROVE  ClientInv(d)'
<1> USE DEF Frame, ClientInv
<1>1. BegunEverywhere(d)'
  BY DEF BegunEverywhere
<1>2. Numbered(d)'
  BY DEF Numbered, IdOf
<1>3. Kept(d)'
  BY DEF Kept
<1>4. Passed(d)'
  BY DEF Passed, Helped, IdOf
<1>5. DidAsAsked(d)'
  BY DEF DidAsAsked
<1>6. Apart(d)'
  BY DEF Apart, Numbered
<1>7. QED
  BY <1>1, <1>2, <1>3, <1>4, <1>5, <1>6

LEMMA ByClient ==
    ASSUME MirrorsInvariant, NEW c \in Clients, Frame(c), Typed', ClientInv(c)', Reported'
    PROVE  MirrorsInvariant'
BY Others DEF MirrorsInvariant

\* The end of a transaction at a mirror.
LEMMA EndedDoes ==
    ASSUME MirrorTyped, NEW s \in Names, NEW c \in Clients, NEW keep \in BOOLEAN, Ended(s, c, keep)
    PROVE  /\ MirrorTyped'
           /\ tran'[s][c] = "ended" /\ written'[s][c] = << >>
           /\ \A r \in Names, d \in Clients :
                 (r = s /\ d = c) \/ (tran'[r][d] = tran[r][d] /\ written'[r][d] = written[r][d])
           /\ \A r \in Names : r # s => stored'[r] = stored[r]
           /\ stored'[s] = IF keep THEN stored[s] \cup Elements(written[s][c]) ELSE stored[s]
<1> USE DEF MirrorTyped, Ended
<1> DEFINE w == written[s][c]
<1>1. w \in Seq(Ids) /\ Elements(w) \subseteq Ids
  BY ElementsOf
<1>2. tran' \in [Names -> [Clients -> {"new", "live", "ended"}]]
  OBVIOUS
<1>3. written' \in [Names -> [Clients -> Seq(Ids)]]
  OBVIOUS
<1>4. holder' \in [Names -> Clients \cup {Nil}]
  OBVIOUS
<1>5. /\ role' \in [Names -> Ids \cup {Nil}]
      /\ stored' \in [Names -> SUBSET Ids]
      /\ \A r \in Names : r # s => stored'[r] = stored[r]
      /\ stored'[s] = IF keep THEN stored[s] \cup Elements(w) ELSE stored[s]
  <2>1. CASE keep /\ w # << >>
    <3>1. w[Len(w)] \in Ids
      BY <1>1, <2>1
    <3>2. QED
      BY <1>1, <2>1, <3>1
  <2>2. CASE ~(keep /\ w # << >>)
    BY <2>2, ElementsOfEmpty
  <2>3. QED
    BY <2>1, <2>2
<1>6. QED
  BY <1>2, <1>3, <1>4, <1>5

\* An operation in a transaction.
LEMMA TranOperationDoes ==
    ASSUME MirrorTyped, NEW s \in Names, NEW c \in Clients, NEW op, TranOperation(s, c, op),
           IdOf(c) \in Ids
    PROVE  /\ MirrorTyped'
           /\ tran' = tran /\ stored' = stored
           /\ \A r \in Names, d \in Clients : (r = s /\ d = c) \/ written'[r][d] = written[r][d]
           /\ Changes(op) => Elements(written'[s][c]) = Elements(written[s][c]) \cup {IdOf(c)}
           /\ ~Changes(op) => written'[s][c] = written[s][c]
<1> USE DEF MirrorTyped, TranOperation, mirrorVars, IdOf
<1>1. CASE op.lock = "READ"
  BY <1>1 DEF Changes
<1>2. CASE op.lock # "READ" /\ ~Changes(op)
  BY <1>2
<1>3. CASE op.lock # "READ" /\ Changes(op)
  <2> DEFINE new == Append(written[s][c], IdOf(c))
  <2>1. written[s][c] \in Seq(Ids) /\ new \in Seq(Ids)
    OBVIOUS
  <2>2. written' = [written EXCEPT ![s][c] = new]
    BY <1>3
  <2>3. Elements(new) = Elements(written[s][c]) \cup {IdOf(c)}
    <3> HIDE DEF IdOf
    <3>1. QED
      BY <2>1, ElementsOfAppend
  <2>4. /\ holder' \in [Names -> Clients \cup {Nil}]
        /\ role' = role /\ tran' = tran /\ stored' = stored
    BY <1>3
  <2> HIDE DEF new
  <2>5. /\ written' \in [Names -> [Clients -> Seq(Ids)]]
        /\ written'[s][c] = new
        /\ \A r \in Names, d \in Clients : (r = s /\ d = c) \/ written'[r][d] = written[r][d]
    BY <2>1, <2>2
  <2>6. QED
    BY <1>3, <2>3, <2>4, <2>5
<1>4. QED
  BY <1>1, <1>2, <1>3

LEMMA AutoOperationDoes ==
    ASSUME MirrorTyped, NEW s \in Names, NEW c \in Clients, NEW e, AutoOperation(s, c, e),
           IdOf(c) \in Ids
    PROVE  /\ MirrorTyped'
           /\ tran' = tran /\ written' = written
           /\ \A r \in Names : r # s => stored'[r] = stored[r]
           /\ stored'[s] = IF Changes(e.op) THEN stored[s] \cup {IdOf(c)} ELSE stored[s]
<1>1. CASE Changes(e.op)
  <2>1. /\ role' = [role EXCEPT ![s] = IdOf(c)]
        /\ stored' = [stored EXCEPT ![s] = @ \cup {IdOf(c)}]
        /\ UNCHANGED <<holder, tran, written>>
    BY <1>1 DEF AutoOperation, IdOf
  <2>2. /\ role' \in [Names -> Ids \cup {Nil}]
        /\ stored' \in [Names -> SUBSET Ids]
        /\ stored'[s] = stored[s] \cup {IdOf(c)}
        /\ \A r \in Names : r # s => stored'[r] = stored[r]
    BY <2>1 DEF MirrorTyped
  <2>3. QED
    BY <1>1, <2>1, <2>2 DEF MirrorTyped
<1>2. CASE ~Changes(e.op)
  BY <1>2 DEF MirrorTyped, AutoOperation
<1>3. QED
  BY <1>1, <1>2

----------------------------------------------------------------------------
(* What the clients ask for.                                               *)

LEMMA NamesThere == \E s : s \in Names
<1>1. 1 \in DOMAIN Mirrors
  BY MirrorsAssumption
<1>2. QED
  BY <1>1 DEF Names

\* A request: only the master's work for the client is new, and perhaps a call counted.
LEMMA AskDoes ==
    ASSUME MirrorsInvariant, NEW c \in Clients, NEW w, Ask(c, w), IsWork(w),
           w.pc = "call" => w.method \in Called[c],
           calls' \in [Clients -> 0 .. MaxCalls],
           \A d \in Clients \ {c} : calls'[d] = calls[d],
           disturbed' \in BOOLEAN
    PROVE  Typed' /\ at[c] = Idle /\ at'[c] = w /\ Frame(c) /\ Reported'
<1> USE DEF MirrorsInvariant, Typed, Ask, mirrorVars
<1>1. AtTyped' /\ at'[c] = w /\ \A d \in Clients \ {c} : at'[d] = at[d]
  BY GoesDoes
<1>2. MirrorTyped' /\ MasterTyped' /\ Reported'
  BY DEF MirrorTyped, MasterTyped, Reported
<1>3. Frame(c)
  BY <1>1 DEF Frame
<1>4. QED
  BY <1>1, <1>2, <1>3

LEMMA BeginNext == ASSUME MirrorsInvariant, NEW c \in Clients, Begin(c) PROVE MirrorsInvariant'
<1>1. PICK order \in Orders(Names) : Ask(c, Work("begin", FALSE, Nil, order))
  BY DEF Begin
<1> DEFINE w == Work("begin", FALSE, Nil, order)
<1>2. order \in Seq(Names) /\ Elements(order) = Names
  BY OrdersTyped
<1>3. IsWork(w) /\ w.pc = "begin" /\ w.todo = order
  BY <1>2 DEF IsWork, Work
<1>4. calls' = calls /\ disturbed' = disturbed /\ \A s \in Names : tran[s][c] = "new"
  BY DEF Begin
<1>5. Typed' /\ at[c] = Idle /\ at'[c] = w /\ Frame(c) /\ Reported'
  <2> HIDE DEF w
  <2>1. Ask(c, w)
    BY <1>1 DEF w
  <2>2. QED
    BY <1>3, <1>4, <2>1, AskDoes DEF MirrorsInvariant, Typed, MasterTyped
<1>6. c \notin transaction_map /\ agreed[c] = {}
  BY <1>4, NamesThere DEF MirrorsInvariant, ClientInv, BegunEverywhere
<1> HIDE DEF w
<1>7. ClientInv(c)'
  <2> USE <1>1, <1>2, <1>3, <1>4, <1>5, <1>6 DEF MirrorsInvariant, ClientInv, Ask, mirrorVars
  <2>1. BegunEverywhere(c)'
    BY DEF BegunEverywhere
  <2>2. Numbered(c)' /\ Kept(c)' /\ DidAsAsked(c)'
    BY DEF Numbered, Kept, DidAsAsked
  <2>3. Passed(c)'
    BY DEF Passed, Helped
  <2>4. Apart(c)'
    BY DEF Apart
  <2>5. QED
    BY <2>1, <2>2, <2>3, <2>4
<1>8. QED
  BY <1>5, <1>7, ByClient

LEMMA EndingNext ==
    ASSUME MirrorsInvariant, NEW c \in Clients, Commit(c) \/ Rollback(c)
    PROVE  MirrorsInvariant'
<1>1. PICK pc \in {"commit", "rollback"} : \E order \in Orders(Names) : Ask(c, Work(pc, TRUE, Nil, order))
  BY DEF Commit, Rollback
<1>2. PICK order \in Orders(Names) : Ask(c, Work(pc, TRUE, Nil, order))
  BY <1>1
<1> DEFINE w == Work(pc, TRUE, Nil, order)
<1>3. order \in Seq(Names) /\ Elements(order) = Names
  BY OrdersTyped
<1>4. IsWork(w) /\ w.pc = pc /\ w.todo = order /\ w.intran
  BY <1>3 DEF IsWork, Work
<1>5. calls' = calls /\ disturbed' = disturbed /\ c \in transaction_map
  BY DEF Commit, Rollback
<1> HIDE DEF w
<1>6. Typed' /\ at[c] = Idle /\ at'[c] = w /\ Frame(c) /\ Reported'
  <2>1. Ask(c, w)
    BY <1>2 DEF w
  <2>2. QED
    BY <1>1, <1>4, <1>5, <2>1, AskDoes DEF MirrorsInvariant, Typed, MasterTyped
<1>7. ClientInv(c)'
  <2> USE <1>1, <1>2, <1>3, <1>4, <1>5, <1>6 DEF MirrorsInvariant, ClientInv, Ask, mirrorVars
  <2>1. BegunEverywhere(c)'
    BY DEF BegunEverywhere
  <2>2. Numbered(c)' /\ Kept(c)' /\ DidAsAsked(c)'
    BY DEF Numbered, Kept, DidAsAsked
  <2>3. Passed(c)'
    BY DEF Passed, Helped
  <2>4. Apart(c)'
    BY DEF Apart, Idle
  <2>5. QED
    BY <2>1, <2>2, <2>3, <2>4
<1>8. QED
  BY <1>6, <1>7, ByClient

LEMMA RequestNext ==
    ASSUME MirrorsInvariant, NEW c \in Clients, NEW method \in Called[c], NEW intran \in BOOLEAN,
           Request(c, method, intran)
    PROVE  MirrorsInvariant'
<1>1. PICK todo \in Seq(Names) :
         /\ Ask(c, Work("call", intran, method, todo))
         /\ HandlerOf(intran, method).writes => Elements(todo) = Names
  <2>1. CASE HandlerOf(intran, method).writes
    <3>1. Mirrors \in Seq(Names) /\ Elements(Mirrors) = Names
      BY MirrorsAssumption DEF Elements, Names
    <3>2. QED
      BY <2>1, <3>1 DEF Request
  <2>2. CASE ~HandlerOf(intran, method).writes
    <3>1. PICK s \in RandomOne : Ask(c, Work("call", intran, method, <<s>>))
      BY <2>2 DEF Request
    <3>2. <<s>> \in Seq(Names)
      BY DEF RandomOne
    <3>3. QED
      BY <2>2, <3>1, <3>2
  <2>3. QED
    BY <2>1, <2>2
<1> DEFINE w == Work("call", intran, method, todo)
<1>2. /\ IsWork(w) /\ w.pc = "call" /\ w.todo = todo /\ w.intran = intran /\ w.method = method
      /\ w.did = {}
  BY DEF IsWork, Work
<1>3. /\ calls[c] < MaxCalls /\ calls' = [calls EXCEPT ![c] = @ + 1]
      /\ disturbed' \in BOOLEAN
      /\ intran => c \in transaction_map
  BY DEF Request, MirrorsInvariant, Typed, MasterTyped
<1>4. /\ calls' \in [Clients -> 0 .. MaxCalls]
      /\ calls'[c] = calls[c] + 1 /\ calls[c] \in Nat
      /\ \A d \in Clients \ {c} : calls'[d] = calls[d]
  BY <1>3, MirrorsAssumption DEF MirrorsInvariant, Typed, MasterTyped
<1>5. Changes(OperationOf(intran, method)) => Elements(todo) = Names
  BY <1>1, ChangesGoToAll
<1> HIDE DEF w
<1>6. Typed' /\ at[c] = Idle /\ at'[c] = w /\ Frame(c) /\ Reported'
  <2>1. Ask(c, w)
    BY <1>1 DEF w
  <2>2. QED
    BY <1>2, <1>3, <1>4, <2>1, AskDoes DEF MirrorsInvariant
<1>7. /\ MirrorTyped /\ MasterTyped
      /\ UNCHANGED <<mirrorVars, transaction_map, agreed, okd, undone>>
  BY <1>1 DEF MirrorsInvariant, Typed, Ask
<1>8. \A id \in Ids : id[1] \in Clients /\ id[2] \in Nat
  BY DEF Ids
<1>9. ClientInv(c)'
  <2> USE <1>1, <1>2, <1>3, <1>4, <1>5, <1>6, <1>7 DEF MirrorsInvariant, ClientInv, mirrorVars
  <2>1. BegunEverywhere(c)'
    BY DEF BegunEverywhere
  <2>2. Numbered(c)'
    <3>1. /\ \A id \in agreed[c] : id \in Ids
          /\ \A s \in Names : \A id \in stored[s] \cup undone : id \in Ids
          /\ \A s \in Names : \A id \in Elements(written[s][c]) : id \in Ids
      BY ElementsOf DEF MirrorTyped, MasterTyped
    <3>2. Numbered(c)
      OBVIOUS
    <3>3. /\ \A id \in agreed[c] : id[1] = c /\ id[2] < calls'[c]
          /\ \A s \in Names : \A id \in Elements(written[s][c]) : id[1] = c /\ id[2] < calls'[c]
          /\ \A s \in Names : \A id \in stored[s] \cup undone : id[1] = c => id[2] < calls'[c]
      BY <3>1, <3>2, <1>8 DEF Numbered
    <3>4. IdOf(c)' = <<c, calls'[c]>>
      BY DEF IdOf
    <3>5. IdOf(c)' \notin agreed[c] \cup undone /\ \A s \in Names : IdOf(c)' \notin stored[s]
      BY <3>3, <3>4, NamesThere
    <3>6. QED
      BY <3>1, <3>3, <3>5, <1>8 DEF Numbered
  <2>3. Kept(c)' /\ DidAsAsked(c)'
    BY DEF Kept, DidAsAsked
  <2>4. Passed(c)'
    BY DEF Passed, Helped
  <2>5. Apart(c)'
    BY DEF Apart, Idle
  <2>6. QED
    BY <2>1, <2>2, <2>3, <2>4, <2>5
<1>10. QED
  BY <1>6, <1>9, ByClient

----------------------------------------------------------------------------
(* What the master does, mirror by mirror.                                 *)

\* On to the next mirror, or not: what is known of the work afterwards.
HeardFrom(c, error, did) ==
    /\ AtTyped'
    /\ \A d \in Clients \ {c} : at'[d] = at[d]
    /\ at'[c] # Idle
    /\ at'[c].pc = at[c].pc /\ at'[c].intran = at[c].intran /\ at'[c].method = at[c].method
    /\ at'[c].did = did
    /\ at'[c].errors = (at[c].errors \/ error)
    /\ ~error => at'[c].todo = Tail(at[c].todo)
    /\ \A s \in Elements(at[c].todo) : s = Mirror(c) \/ s \in Elements(at'[c].todo)

LEMMA HeardDoes ==
    ASSUME AtTyped, NEW c \in Clients, NEW error \in BOOLEAN, NEW did, Going(c), Heard(c, error, did)
    PROVE  /\ Mirror(c) \in Names /\ at[c] # Idle
           /\ HeardFrom(c, error, did)
<1> DEFINE todo == IF error /\ at[c].pc = "begin" THEN at[c].todo ELSE Tail(at[c].todo)
           w == [at[c] EXCEPT !.todo = todo, !.errors = at[c].errors \/ error, !.did = did]
<1>1. IsWork(at[c]) /\ at[c] # Idle /\ at[c].todo # << >>
      /\ (at[c].pc = "call" => at[c].method \in Called[c])
  BY DEF AtTyped, Going, Asks, Idle
<1>2. at[c].todo \in Seq(Names)
  BY <1>1 DEF IsWork
<1>3. /\ todo \in Seq(Names) /\ Mirror(c) \in Names
      /\ \A s \in Elements(at[c].todo) : s = Mirror(c) \/ s \in Elements(todo)
  BY <1>1, <1>2, ElementsOfTail DEF Mirror
<1>4. Goes(c, w)
  BY DEF Heard
<1> HIDE DEF todo
<1>5. w = [pc |-> at[c].pc, intran |-> at[c].intran, method |-> at[c].method, todo |-> todo,
           errors |-> (at[c].errors \/ error), did |-> did]
  <2> DEFINE a == at[c]
  <2>1. a = [pc |-> a.pc, intran |-> a.intran, method |-> a.method, todo |-> a.todo,
             errors |-> a.errors, did |-> a.did]
    BY <1>1 DEF IsWork
  <2>2. w = [a EXCEPT !.todo = todo, !.errors = a.errors \/ error, !.did = did]
    OBVIOUS
  <2> HIDE DEF a, w
  <2>3. w = [pc |-> a.pc, intran |-> a.intran, method |-> a.method, todo |-> todo,
             errors |-> (a.errors \/ error), did |-> did]
    BY <2>1, <2>2
  <2>4. QED
    BY <2>3 DEF a
<1> HIDE DEF w
<1>6. /\ w.pc = at[c].pc /\ w.intran = at[c].intran /\ w.method = at[c].method /\ w.todo = todo
      /\ w.errors = (at[c].errors \/ error) /\ w.did = did
  BY <1>5
<1>7. IsWork(w) /\ w # Idle
  <2>1. w.errors \in BOOLEAN /\ w.intran \in BOOLEAN
        /\ w.pc \in {"begin", "undo", "call", "commit", "rollback"}
    BY <1>1, <1>6 DEF IsWork
  <2>2. w = [pc |-> w.pc, intran |-> w.intran, method |-> w.method, todo |-> w.todo,
             errors |-> w.errors, did |-> w.did]
    BY <1>5, <1>6
  <2>3. IsWork(w)
    BY <1>3, <1>6, <2>1, <2>2 DEF IsWork
  <2>4. w # Idle
    BY <2>1 DEF Idle
  <2>5. QED
    BY <2>3, <2>4
<1>8. AtTyped' /\ at'[c] = w /\ \A d \in Clients \ {c} : at'[d] = at[d]
  BY <1>1, <1>4, <1>6, <1>7, GoesDoes
<1>9. QED
  BY <1>1, <1>3, <1>6, <1>7, <1>8 DEF HeardFrom, todo

LEMMA UnhelpedNext ==
    ASSUME MirrorsInvariant, NEW c \in Clients, Unserved(c) \/ Unreached(c)
    PROVE  MirrorsInvariant'
<1>1. PICK error \in BOOLEAN :
         /\ Heard(c, error, at[c].did)
         /\ error \/ (at[c].pc = "call" /\ at[c].intran /\ tran[Mirror(c)][c] = "ended")
  <2>1. CASE Unreached(c)
    BY <2>1 DEF Unreached
  <2>2. CASE Unserved(c)
    <3> DEFINE e == at[c].pc # "call" \/ HandlerOf(TRUE, at[c].method).checks
    <3>1. Heard(c, e, at[c].did) /\ e \in BOOLEAN
      BY <2>2 DEF Unserved
    <3>2. e \/ at[c].pc = "call"
      OBVIOUS
    <3> HIDE DEF e
    <3>3. at[c].intran /\ tran[Mirror(c)][c] = "ended"
      BY <2>2 DEF Unserved, NeedsTransaction
    <3>4. QED
      BY <3>1, <3>2, <3>3
  <2>3. QED
    BY <2>1, <2>2
<1>2. /\ Going(c)
      /\ UNCHANGED <<mirrorVars, transaction_map, calls, agreed, okd, undone>>
      /\ disturbed' \in BOOLEAN
  BY DEF Unserved, Unreached, MirrorsInvariant, Typed, MasterTyped
<1>3. HeardFrom(c, error, at[c].did) /\ at[c] # Idle
  BY <1>1, <1>2, HeardDoes DEF MirrorsInvariant, Typed
<1>4. Typed' /\ Frame(c) /\ Reported'
  BY <1>2, <1>3 DEF MirrorsInvariant, Typed, MirrorTyped, MasterTyped, Reported, Frame, HeardFrom, mirrorVars
<1>5. ClientInv(c)'
  <2> USE <1>1, <1>2, <1>3 DEF MirrorsInvariant, ClientInv, HeardFrom, mirrorVars
  <2>1. at[c].pc = "begin" => error
    OBVIOUS
  <2>2. BegunEverywhere(c)'
    BY <2>1 DEF BegunEverywhere
  <2>3. Numbered(c)' /\ Kept(c)' /\ DidAsAsked(c)' /\ Apart(c)'
    BY DEF Numbered, Kept, DidAsAsked, Apart, IdOf
  <2>4. Passed(c)'
    BY DEF Passed, Helped, IdOf
  <2>5. QED
    BY <2>2, <2>3, <2>4
<1>6. QED
  BY <1>4, <1>5, ByClient

LEMMA ServedNext == ASSUME MirrorsInvariant, NEW c \in Clients, Served(c) PROVE MirrorsInvariant'
<1>1. Going(c) /\ AtTyped
  BY DEF Served, MirrorsInvariant, Typed
<1>2. PICK error \in BOOLEAN, did \in {at[c].did, Did(c)} : Heard(c, error, did)
  BY DEF Served
<1>3. Mirror(c) \in Names /\ at[c] # Idle /\ HeardFrom(c, error, did)
  BY <1>1, <1>2, HeardDoes
<1>4. PICK s \in Names : s = Mirror(c)
  BY <1>3
<1>5. /\ Going(c)
      /\ NeedsTransaction(c) => tran[s][c] = "live"
      /\ Answers(c, s)
      /\ UNCHANGED <<transaction_map, calls, agreed, okd, undone>>
      /\ disturbed' \in BOOLEAN
  BY <1>4 DEF Served, MirrorsInvariant, Typed, MasterTyped
<1>6. s \in Names /\ at[c] # Idle /\ HeardFrom(c, error, did)
  BY <1>3, <1>4
<1>7. DidAsAsked(c)'
  BY <1>2, <1>6 DEF DidAsAsked, Did, HeardFrom, MirrorsInvariant, ClientInv
<1>8. MasterTyped' /\ AtTyped'
  BY <1>5, <1>6 DEF MirrorsInvariant, Typed, MasterTyped, HeardFrom
<1>9. at[c].pc = "call" => IdOf(c) \in Ids /\ at[c].intran \in BOOLEAN
  BY MirrorsAssumption, <1>6
     DEF MirrorsInvariant, Typed, MasterTyped, AtTyped, IsWork, ClientInv, Numbered, IdOf, Ids
<1>10. ASSUME Helped(c, s)', \A r \in Names \ {s} : Helped(c, r) => Helped(c, r)'
       PROVE  Passed(c)'
  <2>1. Passed(c)
    BY DEF MirrorsInvariant, ClientInv
  <2>2. QED
    BY <1>6, <1>10, <1>4, <2>1 DEF Passed, HeardFrom
<1>11. CASE at[c].pc = "begin"
  <2>1. tran' = [tran EXCEPT ![s][c] = "live"] /\ UNCHANGED <<role, holder, written, stored>>
    BY <1>5, <1>11 DEF Answers
  <2>2. MirrorTyped' /\ tran'[s][c] = "live"
        /\ \A r \in Names, d \in Clients : (r = s /\ d = c) \/ tran'[r][d] = tran[r][d]
    BY <1>6, <2>1 DEF MirrorsInvariant, Typed, MirrorTyped
  <2>3. Typed' /\ Frame(c) /\ Reported'
    BY <1>5, <1>6, <1>8, <2>1, <2>2 DEF Typed, Frame, Reported, MirrorsInvariant, HeardFrom
  <2>4. ClientInv(c)'
    <3> USE <1>5, <1>6, <1>11, <2>1, <2>2 DEF MirrorsInvariant, ClientInv, HeardFrom
    <3>1. BegunEverywhere(c)'
      BY <1>4 DEF BegunEverywhere
    <3>2. Numbered(c)' /\ Kept(c)' /\ Apart(c)' /\ Passed(c)'
      BY <1>4 DEF Numbered, Kept, Apart, Passed, Helped, BegunEverywhere
    <3>3. QED
      BY <1>7, <3>1, <3>2
  <2>5. QED
    BY <2>3, <2>4, ByClient
<1>12. CASE at[c].pc = "call" /\ at[c].intran
  <2> DEFINE op == OperationOf(TRUE, at[c].method)
  <2>1. TranOperation(s, c, op) /\ tran[s][c] = "live"
    BY <1>5, <1>12 DEF Answers, NeedsTransaction
  <2>2. op = OperationOf(at[c].intran, at[c].method)
    BY <1>9, <1>12
  <2> HIDE DEF op
  <2>3. /\ MirrorTyped'
        /\ tran' = tran /\ stored' = stored
        /\ \A r \in Names, d \in Clients : (r = s /\ d = c) \/ written'[r][d] = written[r][d]
        /\ Changes(op) => Elements(written'[s][c]) = Elements(written[s][c]) \cup {IdOf(c)}
        /\ ~Changes(op) => written'[s][c] = written[s][c]
    BY <1>6, <1>9, <1>12, <2>1, TranOperationDoes DEF MirrorsInvariant, Typed
  <2>4. Typed' /\ Frame(c) /\ Reported'
    BY <1>5, <1>6, <1>8, <2>3 DEF Typed, Frame, Reported, MirrorsInvariant, HeardFrom
  <2>5. /\ Elements(written[s][c]) \subseteq Elements(written'[s][c])
        /\ \A id \in Elements(written'[s][c]) : id \in Elements(written[s][c]) \/ id = IdOf(c)
        /\ Changes(op) => IdOf(c) \in Elements(written'[s][c])
    BY <2>3
  <2>6. IdOf(c)[1] = c /\ IdOf(c)[2] = calls[c] /\ IdOf(c)' = IdOf(c) /\ calls[c] \in Nat
    BY <1>5 DEF IdOf, MirrorsInvariant, Typed, MasterTyped
  <2>7. ClientInv(c)'
    <3> USE <1>5, <1>6, <1>12, <2>1, <2>2, <2>3, <2>5, <2>6 DEF MirrorsInvariant, ClientInv, HeardFrom
    <3>1. BegunEverywhere(c)'
      BY DEF BegunEverywhere
    <3>2. Numbered(c)'
      BY DEF Numbered
    <3>3. Kept(c)'
      BY DEF Kept
    <3>4. Passed(c)'
      <4>1. Helped(c, s)'
        BY DEF Helped
      <4>2. \A r \in Names \ {s} : Helped(c, r) => Helped(c, r)'
        BY DEF Helped
      <4>3. QED
        BY <1>10, <4>1, <4>2
    <3>5. Apart(c)'
      BY DEF Apart, Numbered
    <3>6. QED
      BY <1>7, <3>1, <3>2, <3>3, <3>4, <3>5
  <2>8. QED
    BY <2>4, <2>7, ByClient
<1>13. CASE at[c].pc = "call" /\ ~at[c].intran
  <2> DEFINE e == A!Methods[LocalOf(FALSE, at[c].method)]
  <2>1. AutoOperation(s, c, e)
    BY <1>5, <1>13 DEF Answers
  <2>2. e.op = OperationOf(at[c].intran, at[c].method)
    BY <1>9, <1>13 DEF OperationOf
  <2> HIDE DEF e
  <2>3. /\ MirrorTyped'
        /\ tran' = tran /\ written' = written
        /\ \A r \in Names : r # s => stored'[r] = stored[r]
        /\ stored'[s] = IF Changes(e.op) THEN stored[s] \cup {IdOf(c)} ELSE stored[s]
    BY <1>6, <1>9, <1>13, <2>1, AutoOperationDoes DEF MirrorsInvariant, Typed
  <2>4. IdOf(c)[1] = c /\ IdOf(c)[2] = calls[c] /\ IdOf(c)' = IdOf(c) /\ calls[c] \in Nat
    BY <1>5 DEF IdOf, MirrorsInvariant, Typed, MasterTyped
  <2>5. /\ \A r \in Names : stored[r] \subseteq stored'[r]
        /\ \A r \in Names : \A id \in stored'[r] : id \in stored[r] \/ id = IdOf(c)
        /\ Changes(e.op) => IdOf(c) \in stored'[s]
    BY <2>3
  <2>6. IdOf(c) \notin agreed[c] \cup undone
    BY <1>13 DEF MirrorsInvariant, ClientInv, Numbered
  <2>7. Typed' /\ Frame(c) /\ Reported'
    BY <1>5, <1>6, <1>8, <2>3, <2>4, <2>5, <2>6 DEF Typed, Frame, Reported, MirrorsInvariant, HeardFrom
  <2>8. ClientInv(c)'
    <3> USE <1>5, <1>6, <1>13, <2>2, <2>3, <2>4, <2>5, <2>6 DEF MirrorsInvariant, ClientInv, HeardFrom
    <3>1. BegunEverywhere(c)' /\ Kept(c)'
      BY DEF BegunEverywhere, Kept
    <3>2. Numbered(c)'
      BY DEF Numbered
    <3>3. Passed(c)'
      <4>1. Helped(c, s)'
        BY DEF Helped
      <4>2. \A r \in Names \ {s} : Helped(c, r) => Helped(c, r)'
        BY DEF Helped
      <4>3. QED
        BY <1>10, <4>1, <4>2
    <3>4. Apart(c)'
      BY DEF Apart
    <3>5. QED
      BY <1>7, <3>1, <3>2, <3>3, <3>4
  <2>9. QED
    BY <2>7, <2>8, ByClient
<1>14. CASE at[c].pc \in {"commit", "rollback"}
  <2>1. PICK keep \in BOOLEAN : Ended(s, c, keep) /\ keep = (at[c].pc = "commit")
    BY <1>5, <1>14 DEF Answers
  <2>2. tran[s][c] = "live" /\ agreed[c] \subseteq Elements(written[s][c])
    BY <1>5, <1>6, <1>14 DEF NeedsTransaction, MirrorsInvariant, ClientInv, BegunEverywhere, Kept
  <2>3. /\ MirrorTyped'
        /\ tran'[s][c] = "ended" /\ written'[s][c] = << >>
        /\ \A r \in Names, d \in Clients :
              (r = s /\ d = c) \/ (tran'[r][d] = tran[r][d] /\ written'[r][d] = written[r][d])
        /\ \A r \in Names : r # s => stored'[r] = stored[r]
        /\ stored'[s] = IF keep THEN stored[s] \cup Elements(written[s][c]) ELSE stored[s]
    <3>1. MirrorTyped
      BY DEF MirrorsInvariant, Typed
    <3>2. CASE keep
      <4>1. Ended(s, c, TRUE)
        BY <2>1, <3>2
      <4>2. QED
        BY <1>6, <3>1, <3>2, <4>1, EndedDoes
    <3>3. CASE ~keep
      <4>1. Ended(s, c, FALSE)
        BY <2>1, <3>3
      <4>2. QED
        BY <1>6, <3>1, <3>3, <4>1, EndedDoes
    <3>4. QED
      BY <3>2, <3>3
  <2>4. /\ \A r \in Names : stored[r] \subseteq stored'[r]
        /\ \A r \in Names : \A id \in stored'[r] : id \in stored[r] \/ id \in Elements(written[s][c])
        /\ keep => agreed[c] \subseteq stored'[s]
        /\ ~keep => \A r \in Names : stored'[r] = stored[r]
    BY <2>2, <2>3
  <2>5. \A id \in Elements(written[s][c]) : id[1] = c /\ id[2] <= calls[c] /\ id \notin undone
    BY <1>6 DEF MirrorsInvariant, ClientInv, Numbered, Apart
  <2>6. Typed' /\ Frame(c) /\ Reported'
    BY <1>5, <1>6, <1>8, <2>3, <2>4, <2>5 DEF Typed, Frame, Reported, MirrorsInvariant, HeardFrom
  <2>7. Elements(written'[s][c]) = {}
    BY <2>3, ElementsOfEmpty
  <2>8. ClientInv(c)'
    <3> USE <1>5, <1>6, <1>14, <2>1, <2>2, <2>3, <2>4, <2>5, <2>7 DEF MirrorsInvariant, ClientInv, HeardFrom
    <3>1. BegunEverywhere(c)' /\ Kept(c)'
      BY DEF BegunEverywhere, Kept
    <3>2. Numbered(c)'
      BY DEF Numbered
    <3>3. Passed(c)'
      <4>1. Helped(c, s)'
        BY DEF Helped
      <4>2. \A r \in Names \ {s} : Helped(c, r) => Helped(c, r)'
        BY DEF Helped
      <4>3. QED
        BY <1>10, <4>1, <4>2
    <3>4. Apart(c)'
      <4>1. \A r \in Names : Elements(written'[r][c]) \cap undone = {}
        BY DEF Apart
      <4>2. at[c].pc # "commit" => \A r \in Names : stored'[r] = stored[r]
        OBVIOUS
      <4>3. QED
        BY <4>1, <4>2 DEF Apart
    <3>5. QED
      BY <1>7, <3>1, <3>2, <3>3, <3>4
  <2>9. QED
    BY <2>6, <2>8, ByClient
<1>15. QED
  BY <1>5, <1>9, <1>11, <1>12, <1>13, <1>14 DEF Going, Asks

----------------------------------------------------------------------------
(* A Begin that has failed, and the end of a transaction that no client asks for. *)

\* Work that is moved on.
LEMMA Moved ==
    ASSUME NEW a, NEW p, NEW q,
           a = [pc |-> a.pc, intran |-> a.intran, method |-> a.method, todo |-> a.todo,
                errors |-> a.errors, did |-> a.did]
    PROVE  /\ [a EXCEPT !.pc = p, !.todo = q] =
                 [pc |-> p, intran |-> a.intran, method |-> a.method, todo |-> q,
                  errors |-> a.errors, did |-> a.did]
           /\ [a EXCEPT !.todo = q] =
                 [pc |-> a.pc, intran |-> a.intran, method |-> a.method, todo |-> q,
                  errors |-> a.errors, did |-> a.did]
<1>1. PICK b : b = [pc |-> a.pc, intran |-> a.intran, method |-> a.method, todo |-> a.todo,
                errors |-> a.errors, did |-> a.did]
  OBVIOUS
<1>2. [b EXCEPT !.pc = p, !.todo = q] =
                 [pc |-> p, intran |-> a.intran, method |-> a.method, todo |-> q,
                  errors |-> a.errors, did |-> a.did]
  <2>1. PICK d : d = [b EXCEPT !.pc = p]
    OBVIOUS
  <2>2. d = [pc |-> p, intran |-> a.intran, method |-> a.method, todo |-> a.todo,
             errors |-> a.errors, did |-> a.did]
    BY <1>1, <2>1
  <2>3. [d EXCEPT !.todo = q] = [pc |-> p, intran |-> a.intran, method |-> a.method, todo |-> q,
             errors |-> a.errors, did |-> a.did]
    BY <2>2
  <2>4. [b EXCEPT !.pc = p, !.todo = q] = [d EXCEPT !.todo = q]
    BY <2>1
  <2>5. QED
    BY <2>3, <2>4
<1>3. [b EXCEPT !.todo = q] =
                 [pc |-> a.pc, intran |-> a.intran, method |-> a.method, todo |-> q,
                  errors |-> a.errors, did |-> a.did]
  BY <1>1
<1>4. QED
  BY <1>1, <1>2, <1>3

LEMMA BeginFailsNext == ASSUME MirrorsInvariant, NEW c \in Clients, BeginFails(c) PROVE MirrorsInvariant'
<1>1. PICK begun \in Orders(Names \ Elements(at[c].todo)) :
         Goes(c, [at[c] EXCEPT !.pc = "undo", !.todo = begun])
  BY DEF BeginFails
<1>2. /\ at[c].pc = "begin" /\ at[c].errors
      /\ UNCHANGED <<mirrorVars, transaction_map, calls, agreed, okd, undone, disturbed>>
  BY DEF BeginFails
<1>3. IsWork(at[c])
  BY <1>2 DEF MirrorsInvariant, Typed, AtTyped, Idle
<1>4. begun \in Seq(Names)
  BY OrdersTyped
<1> DEFINE a == at[c]
           w == [pc |-> "undo", intran |-> a.intran, method |-> a.method, todo |-> begun,
                 errors |-> a.errors, did |-> a.did]
<1>5. Goes(c, w)
  <2>1. a = [pc |-> a.pc, intran |-> a.intran, method |-> a.method, todo |-> a.todo,
             errors |-> a.errors, did |-> a.did]
    BY <1>3 DEF IsWork
  <2>2. Goes(c, [a EXCEPT !.pc = "undo", !.todo = begun])
    BY <1>1
  <2> HIDE DEF a
  <2>3. [a EXCEPT !.pc = "undo", !.todo = begun] = w
    BY <2>1, Moved
  <2>4. QED
    BY <2>2, <2>3
<1>6. IsWork(w) /\ w.pc = "undo" /\ w.errors
  BY <1>2, <1>3, <1>4 DEF IsWork
<1> HIDE DEF w
<1>7. AtTyped' /\ at'[c] = w /\ \A d \in Clients \ {c} : at'[d] = at[d]
  BY <1>5, <1>6, GoesDoes DEF MirrorsInvariant, Typed
<1>8. Typed' /\ Frame(c) /\ Reported'
  BY <1>2, <1>7 DEF MirrorsInvariant, Typed, MirrorTyped, MasterTyped, Reported, Frame, mirrorVars
<1>9. ClientInv(c)'
  <2> USE <1>2, <1>6, <1>7 DEF MirrorsInvariant, ClientInv, mirrorVars
  <2>1. BegunEverywhere(c)' /\ Passed(c)'
    BY DEF BegunEverywhere, Passed
  <2>2. Numbered(c)' /\ Kept(c)' /\ DidAsAsked(c)' /\ Apart(c)'
    BY DEF Numbered, Kept, DidAsAsked, Apart
  <2>3. QED
    BY <2>1, <2>2
<1>10. QED
  BY <1>8, <1>9, ByClient

\* Without its changes, a transaction may end at a mirror at any time but when the
\* master is committing, and what the invariant says of its client remains.
LEMMA Dropped ==
    ASSUME MirrorsInvariant, NEW c \in Clients, NEW s \in Names, Ended(s, c, FALSE),
           AtTyped', \A d \in Clients \ {c} : at'[d] = at[d],
           at'[c] = at[c] \/ (at[c].pc = "undo" /\ at'[c].pc = "undo"),
           UNCHANGED <<transaction_map, calls, agreed, okd, undone>>,
           disturbed' \in BOOLEAN
    PROVE  MirrorsInvariant'
<1>1. /\ MirrorTyped'
      /\ tran'[s][c] = "ended" /\ written'[s][c] = << >>
      /\ \A r \in Names, d \in Clients :
            (r = s /\ d = c) \/ (tran'[r][d] = tran[r][d] /\ written'[r][d] = written[r][d])
      /\ \A r \in Names : stored'[r] = stored[r]
  <2>1. MirrorTyped
    BY DEF MirrorsInvariant, Typed
  <2>2. /\ \A r \in Names : r # s => stored'[r] = stored[r]
        /\ stored'[s] = stored[s]
    BY <2>1, EndedDoes
  <2>3. MirrorTyped' /\ tran'[s][c] = "ended" /\ written'[s][c] = << >>
    BY <2>1, EndedDoes
  <2>4. \A r \in Names, d \in Clients :
            (r = s /\ d = c) \/ (tran'[r][d] = tran[r][d] /\ written'[r][d] = written[r][d])
    BY <2>1 DEF MirrorTyped, Ended
  <2>5. QED
    BY <2>2, <2>3, <2>4
<1>2. Typed' /\ Frame(c) /\ Reported'
  BY <1>1 DEF MirrorsInvariant, Typed, MasterTyped, Reported, Frame
<1>3. Elements(written'[s][c]) = {}
  BY <1>1, ElementsOfEmpty
<1>4. ClientInv(c)'
  <2> USE <1>1, <1>3 DEF MirrorsInvariant, ClientInv
  <2>1. BegunEverywhere(c)'
    BY DEF BegunEverywhere
  <2>2. Numbered(c)' /\ DidAsAsked(c)'
    BY DEF Numbered, DidAsAsked, IdOf
  <2>3. Kept(c)' /\ Apart(c)'
    BY DEF Kept, Apart
  <2>4. Passed(c)'
    <3>1. CASE at'[c] = at[c]
      <4>1. \A r \in Names : Helped(c, r) => Helped(c, r)'
        BY <3>1 DEF Helped, IdOf
      <4>2. QED
        BY <3>1, <4>1 DEF Passed
    <3>2. CASE at'[c].pc = "undo"
      BY <3>2 DEF Passed, Helped
    <3>3. QED
      BY <3>1, <3>2
  <2>5. QED
    BY <2>1, <2>2, <2>3, <2>4
<1>5. QED
  BY <1>2, <1>4, ByClient

LEMMA ExpireNext ==
    ASSUME MirrorsInvariant, NEW c \in Clients, NEW s \in Names, Expire(s, c)
    PROVE  MirrorsInvariant'
<1>1. /\ Ended(s, c, FALSE)
      /\ disturbed' = TRUE
      /\ UNCHANGED <<transaction_map, at, calls, agreed, okd, undone>>
  BY DEF Expire
<1>2. AtTyped'
  BY <1>1 DEF MirrorsInvariant, Typed, AtTyped
<1>3. QED
  BY <1>1, <1>2, Dropped

LEMMA UndoBeginNext == ASSUME MirrorsInvariant, NEW c \in Clients, UndoBegin(c) PROVE MirrorsInvariant'
<1> DEFINE a == at[c]
           w == [pc |-> "undo", intran |-> a.intran, method |-> a.method, todo |-> Tail(a.todo),
                 errors |-> a.errors, did |-> a.did]
<1>1. /\ a.pc = "undo" /\ a.todo # << >>
      /\ UNCHANGED <<transaction_map, calls, agreed, okd, undone>>
  BY DEF UndoBegin, Asks
<1>2. IsWork(a)
  BY <1>1 DEF MirrorsInvariant, Typed, AtTyped, Idle
<1>3. Head(a.todo) \in Names /\ Tail(a.todo) \in Seq(Names)
  BY <1>1, <1>2, ElementsOfTail DEF IsWork
<1>4. Goes(c, w)
  <2>1. a = [pc |-> a.pc, intran |-> a.intran, method |-> a.method, todo |-> a.todo,
             errors |-> a.errors, did |-> a.did]
    BY <1>2 DEF IsWork
  <2>2. Goes(c, [a EXCEPT !.todo = Tail(a.todo)])
    BY DEF UndoBegin
  <2>3. a.pc = "undo"
    BY <1>1
  <2> HIDE DEF a
  <2>4. [a EXCEPT !.todo = Tail(a.todo)] = w
    BY <2>1, <2>3, Moved
  <2>5. QED
    BY <2>2, <2>4
<1>5. IsWork(w) /\ w.pc = "undo"
  BY <1>2, <1>3 DEF IsWork
<1> HIDE DEF w
<1>6. AtTyped' /\ at'[c] = w /\ \A d \in Clients \ {c} : at'[d] = at[d]
  BY <1>4, <1>5, GoesDoes DEF MirrorsInvariant, Typed
<1>7. CASE Ended(Mirror(c), c, FALSE) /\ disturbed' = disturbed
  <2>1. PICK s \in Names : Ended(s, c, FALSE)
    BY <1>3, <1>7 DEF Mirror
  <2>2. disturbed' \in BOOLEAN
    BY <1>7 DEF MirrorsInvariant, Typed, MasterTyped
  <2>3. QED
    BY <1>1, <1>5, <1>6, <2>1, <2>2, Dropped
<1>8. CASE Fails /\ disturbed' = TRUE /\ UNCHANGED mirrorVars
  <2>1. Typed' /\ Frame(c) /\ Reported'
    BY <1>1, <1>6, <1>8 DEF MirrorsInvariant, Typed, MirrorTyped, MasterTyped, Reported, Frame, mirrorVars
  <2>2. ClientInv(c)'
    <3> USE <1>1, <1>5, <1>6, <1>8 DEF MirrorsInvariant, ClientInv, mirrorVars
    <3>1. BegunEverywhere(c)' /\ Passed(c)'
      BY DEF BegunEverywhere, Passed, Helped
    <3>2. Numbered(c)' /\ Kept(c)' /\ DidAsAsked(c)' /\ Apart(c)'
      BY DEF Numbered, Kept, DidAsAsked, Apart
    <3>3. QED
      BY <3>1, <3>2
  <2>3. QED
    BY <2>1, <2>2, ByClient
<1>9. QED
  BY <1>7, <1>8 DEF UndoBegin

----------------------------------------------------------------------------
(* The answers.                                                            *)

LEMMA BeginAnswerNext == ASSUME MirrorsInvariant, NEW c \in Clients, BeginAnswer(c) PROVE MirrorsInvariant'
<1>1. /\ Goes(c, Idle)
      /\ UNCHANGED <<mirrorVars, calls, agreed, okd, undone, disturbed>>
  BY DEF BeginAnswer
<1>2. AtTyped' /\ at'[c] = Idle /\ \A d \in Clients \ {c} : at'[d] = at[d]
  BY <1>1, GoesDoes DEF MirrorsInvariant, Typed
<1>3. /\ transaction_map' \in {transaction_map, transaction_map \cup {c}}
      /\ transaction_map' # transaction_map =>
            /\ agreed[c] = {}
            /\ \A s \in Names : tran[s][c] # "new"
  BY ElementsOfEmpty DEF BeginAnswer, Done, MirrorsInvariant, ClientInv, BegunEverywhere
<1>4. Typed' /\ Frame(c) /\ Reported'
  BY <1>1, <1>2, <1>3 DEF MirrorsInvariant, Typed, MirrorTyped, MasterTyped, Reported, Frame, mirrorVars
<1>5. ClientInv(c)'
  <2> USE <1>1, <1>2, <1>3 DEF MirrorsInvariant, ClientInv, mirrorVars, Idle
  <2>1. BegunEverywhere(c)' /\ Passed(c)'
    BY DEF BegunEverywhere, Passed
  <2>2. Numbered(c)' /\ Kept(c)' /\ DidAsAsked(c)'
    BY DEF Numbered, Kept, DidAsAsked
  <2>3. Apart(c)'
    BY DEF Apart, BeginAnswer, Done
  <2>4. QED
    BY <2>1, <2>2, <2>3
<1>6. QED
  BY <1>4, <1>5, ByClient

LEMMA CallAnswerNext == ASSUME MirrorsInvariant, NEW c \in Clients, CallAnswer(c) PROVE MirrorsInvariant'
<1> DEFINE ok == IF ~at[c].errors /\ \E op \in at[c].did : Changes(op) THEN {IdOf(c)} ELSE {}
<1>1. /\ at[c].pc = "call" /\ at[c].todo = << >>
      /\ Goes(c, Idle)
      /\ UNCHANGED <<mirrorVars, transaction_map, calls, undone, disturbed>>
      /\ IF at[c].intran THEN agreed' = [agreed EXCEPT ![c] = @ \cup ok] /\ okd' = okd
                         ELSE okd' = okd \cup ok /\ agreed' = agreed
  BY DEF CallAnswer, Done, IdOf
<1>2. AtTyped' /\ at'[c] = Idle /\ \A d \in Clients \ {c} : at'[d] = at[d]
  BY <1>1, GoesDoes DEF MirrorsInvariant, Typed
<1>3. IdOf(c) \in Ids /\ IdOf(c)[1] = c /\ IdOf(c)[2] = calls[c] /\ calls[c] \in Nat
  BY <1>1 DEF MirrorsInvariant, Typed, MasterTyped, ClientInv, Numbered, IdOf, Ids
<1>4. at[c] # Idle /\ at[c].intran \in BOOLEAN
  BY <1>1 DEF MirrorsInvariant, Typed, AtTyped, IsWork, Idle
<1>5. ok \subseteq {IdOf(c)}
  OBVIOUS
<1>6. ASSUME ok # {} PROVE \A s \in Names :
         IF at[c].intran THEN tran[s][c] = "live" => IdOf(c) \in Elements(written[s][c])
                         ELSE IdOf(c) \in stored[s]
  <2>1. ~at[c].errors /\ Changes(OperationOf(at[c].intran, at[c].method))
    BY <1>1, <1>6 DEF MirrorsInvariant, ClientInv, DidAsAsked
  <2>2. \A s \in Names : Helped(c, s)
    BY <1>1, <1>4, <2>1, ElementsOfEmpty DEF MirrorsInvariant, ClientInv, Passed
  <2>3. QED
    BY <1>1, <2>1, <2>2 DEF Helped
<1> HIDE DEF ok
<1>7. Typed' /\ Frame(c) /\ Reported'
  <2>1. agreed' \in [Clients -> SUBSET Ids] /\ okd' \subseteq Ids
        /\ \A d \in Clients \ {c} : agreed'[d] = agreed[d]
    BY <1>1, <1>3, <1>4, <1>5 DEF MirrorsInvariant, Typed, MasterTyped
  <2>2. Reported'
    BY <1>1, <1>4, <1>5, <1>6 DEF MirrorsInvariant, Reported, mirrorVars
  <2>3. QED
    BY <1>1, <1>2, <2>1, <2>2 DEF MirrorsInvariant, Typed, MirrorTyped, MasterTyped, Frame, mirrorVars
<1>8. CASE at[c].intran
  <2>1. agreed'[c] = agreed[c] \cup ok /\ c \in transaction_map
    BY <1>1, <1>8 DEF MirrorsInvariant, Typed, MasterTyped, ClientInv, BegunEverywhere
  <2>2. ClientInv(c)'
    <3> USE <1>1, <1>2, <1>3, <1>5, <1>6, <1>8, <2>1 DEF MirrorsInvariant, ClientInv, mirrorVars, Idle
    <3>1. BegunEverywhere(c)' /\ Passed(c)' /\ DidAsAsked(c)'
      BY DEF BegunEverywhere, Passed, DidAsAsked
    <3>2. Numbered(c)'
      BY DEF Numbered
    <3>3. Kept(c)'
      BY DEF Kept
    <3>4. Apart(c)'
      BY DEF Apart, Numbered
    <3>5. QED
      BY <3>1, <3>2, <3>3, <3>4
  <2>3. QED
    BY <1>7, <2>2, ByClient
<1>9. CASE ~at[c].intran
  <2>1. ClientInv(c)'
    <3> USE <1>1, <1>2, <1>9 DEF MirrorsInvariant, ClientInv, mirrorVars, Idle
    <3>1. BegunEverywhere(c)' /\ Passed(c)' /\ DidAsAsked(c)'
      BY DEF BegunEverywhere, Passed, DidAsAsked
    <3>2. Numbered(c)' /\ Kept(c)'
      BY DEF Numbered, Kept
    <3>3. Apart(c)'
      BY DEF Apart
    <3>4. QED
      BY <3>1, <3>2, <3>3
  <2>2. QED
    BY <1>7, <2>1, ByClient
<1>10. QED
  BY <1>8, <1>9

LEMMA EndAnswerNext == ASSUME MirrorsInvariant, NEW c \in Clients, EndAnswer(c) PROVE MirrorsInvariant'
<1>1. /\ at[c].pc \in {"commit", "rollback"} /\ at[c].todo = << >>
      /\ Goes(c, Idle)
      /\ transaction_map' = transaction_map \ {c}
      /\ okd' = IF at[c].pc = "commit" /\ ~at[c].errors THEN okd \cup agreed[c] ELSE okd
      /\ undone' = IF at[c].pc = "rollback" /\ ~at[c].errors THEN undone \cup agreed[c] ELSE undone
      /\ UNCHANGED <<mirrorVars, calls, agreed, disturbed>>
  BY DEF EndAnswer, Done
<1>2. AtTyped' /\ at'[c] = Idle /\ \A d \in Clients \ {c} : at'[d] = at[d]
  BY <1>1, GoesDoes DEF MirrorsInvariant, Typed
<1>3. c \in transaction_map /\ at[c] # Idle /\ agreed[c] \subseteq Ids
  BY <1>1 DEF MirrorsInvariant, Typed, MasterTyped, ClientInv, BegunEverywhere, Idle
<1>4. ~at[c].errors => \A s \in Names : Helped(c, s)
  BY <1>1, <1>3, ElementsOfEmpty DEF MirrorsInvariant, ClientInv, Passed
<1>5. at[c].pc = "commit" /\ ~at[c].errors => \A s \in Names : agreed[c] \subseteq stored[s]
  BY <1>4 DEF Helped
<1>6. at[c].pc = "rollback" => \A s \in Names : agreed[c] \cap stored[s] = {}
  BY <1>3 DEF MirrorsInvariant, ClientInv, Apart
<1>7. at[c].pc = "rollback" /\ ~at[c].errors => \A s \in Names : Elements(written[s][c]) = {}
  BY <1>4, ElementsOfEmpty DEF Helped, MirrorsInvariant, ClientInv, Kept
<1>8. \A id \in agreed[c] : id[1] = c /\ id[2] <= calls[c]
  BY DEF MirrorsInvariant, ClientInv, Numbered
<1>9. Typed' /\ Frame(c) /\ Reported'
  <2>1. Reported'
    BY <1>1, <1>5, <1>6 DEF MirrorsInvariant, Reported, mirrorVars
  <2>2. MasterTyped'
    BY <1>1, <1>3 DEF MirrorsInvariant, Typed, MasterTyped
  <2>3. Frame(c)
    BY <1>1, <1>2, <1>8 DEF Frame, mirrorVars
  <2>4. QED
    BY <1>1, <1>2, <2>1, <2>2, <2>3 DEF MirrorsInvariant, Typed, MirrorTyped, mirrorVars
<1>10. ClientInv(c)'
  <2> USE <1>1, <1>2, <1>7, <1>8 DEF MirrorsInvariant, ClientInv, mirrorVars, Idle
  <2>1. BegunEverywhere(c)' /\ Passed(c)' /\ DidAsAsked(c)'
    BY DEF BegunEverywhere, Passed, DidAsAsked
  <2>2. Numbered(c)'
    BY DEF Numbered
  <2>3. Kept(c)'
    BY DEF Kept
  <2>4. Apart(c)'
    BY DEF Apart
  <2>5. QED
    BY <2>1, <2>2, <2>3, <2>4
<1>11. QED
  BY <1>9, <1>10, ByClient

----------------------------------------------------------------------------
(* The mirrors in step, as long as nothing disturbs them.                  *)

Ahead(c) == Names \cap Elements(at[c].todo)

Distinct(q) == \A i, j \in DOMAIN q : q[i] = q[j] => i = j

\* Nothing has gone wrong, and what is done outside a transaction is a read.
Sound(c) ==
    at[c] # Idle =>
        /\ ~at[c].errors /\ at[c].pc # "undo" /\ Distinct(at[c].todo)
        /\ at[c].pc = "call" /\ ~at[c].intran => ~HandlerOf(FALSE, at[c].method).writes

Ending(c) == at[c].pc \in {"commit", "rollback"}

\* A transaction lives at every mirror until the mirror is told of its end.
Living(c) ==
    /\ at[c].pc = "begin" => \A s \in Names \ Ahead(c) : tran[s][c] = "live"
    /\ c \in transaction_map => \A s \in Names : ~Ending(c) \/ s \in Ahead(c) => tran[s][c] = "live"

Writing(c) == at[c].pc = "call" /\ at[c].intran /\ Changes(OperationOf(TRUE, at[c].method))

\* Whoever has written on a mirror has the role there, and has written the same on all
\* mirrors, but for the call or the end that some of them have behind and some ahead.
InStep(c) ==
    /\ \A s \in Names : written[s][c] # << >> => holder[s] = c
    /\ \A r, s \in Names :
          ~(Writing(c) \/ Ending(c)) \/ (r \in Ahead(c) <=> s \in Ahead(c)) => written[r][c] = written[s][c]
    /\ Writing(c) => \A r \in Names \ Ahead(c) :
          /\ written[r][c] # << >>
          /\ \A s \in Ahead(c) : written[r][c] = Append(written[s][c], IdOf(c))
    /\ Ending(c) => \A r \in Names \ Ahead(c) : written[r][c] = << >>

OrderedClient(c) == Sound(c) /\ Living(c) /\ InStep(c)

\* Of two that have written one has just begun to: it has none of the mirrors ahead.
HasWritten(c) == \E s \in Names : written[s][c] # << >>

Starts(c) == Writing(c) /\ Ahead(c) # {} /\ \A s \in Ahead(c) : written[s][c] = << >>

OneThrough == \A c, d \in Clients : c # d /\ HasWritten(c) /\ HasWritten(d) => Starts(c) \/ Starts(d)

\* r has been told to commit what c has written, and s has not.
Between(c, r, s) ==
    at[c].pc = "commit" /\ r \in Names \ Ahead(c) /\ s \in Ahead(c) /\ written[s][c] # << >>

Newest(w) == w[Len(w)]

\* What has been committed at one of the mirrors is what is going to be at the other.
Caught(c) == \A r, s \in Names : Between(c, r, s) => role[r] = Newest(written[s][c])

\* Only a commit under way keeps mirrors apart.
Agreed == \A r, s \in Names : role[r] = role[s] \/ \E c \in Clients : Between(c, r, s) \/ Between(c, s, r)

InOrder ==
    /\ \A c \in Clients : OrderedClient(c) /\ Caught(c)
    /\ OneThrough
    /\ Agreed

LEMMA OrdersDistinct == ASSUME NEW S \in SUBSET Names, NEW q \in Orders(S) PROVE Distinct(q)
<1>1. Cardinality(S) \in Nat /\ IsFiniteSet(S)
  BY NamesFinite, FS_Subset, FS_CardinalityType
<1>2. q \in [1 .. Cardinality(S) -> S] /\ Elements(q) = S
  BY DEF Orders
<1>3. q \in Surjection(1 .. Cardinality(S), S)
  BY <1>2 DEF Surjection, Elements
<1>4. IsFiniteSet(1 .. Cardinality(S)) /\ Cardinality(1 .. Cardinality(S)) = Cardinality(S)
  BY <1>1, FS_Interval
<1>5. q \in Injection(1 .. Cardinality(S), S)
  BY <1>3, <1>4, FS_SurjSameCardinalityImpliesInj
<1>6. QED
  BY <1>2, <1>5 DEF Injection, IsInjective, Distinct

LEMMA MirrorsDistinct == Distinct(Mirrors) /\ Elements(Mirrors) = Names
<1>1. /\ Mirrors \in [1 .. Len(Mirrors) -> Names] /\ Len(Mirrors) \in Nat
      /\ Cardinality(Names) = Len(Mirrors)
  BY MirrorsAssumption
<1>2. Elements(Mirrors) = Names
  BY DEF Elements, Names
<1>3. Mirrors \in Orders(Names)
  BY <1>1, <1>2 DEF Orders
<1>4. QED
  BY <1>2, <1>3, OrdersDistinct

LEMMA DistinctTail ==
    ASSUME NEW S, NEW q \in Seq(S), q # << >>, Distinct(q)
    PROVE  /\ Distinct(Tail(q))
           /\ Elements(Tail(q)) = Elements(q) \ {Head(q)}
           /\ Head(q) \in Elements(q)
<1>1. /\ DOMAIN q = 1 .. Len(q) /\ Len(q) \in Nat \ {0}
      /\ Head(q) = q[1]
      /\ Tail(q) \in Seq(S) /\ DOMAIN Tail(q) = 1 .. Len(q) - 1
      /\ \A i \in 1 .. Len(q) - 1 : Tail(q)[i] = q[i + 1]
  OBVIOUS
<1>2. 1 \in DOMAIN q /\ \A i \in DOMAIN Tail(q) : i + 1 \in DOMAIN q /\ i + 1 # 1 /\ Tail(q)[i] = q[i + 1]
  BY <1>1
<1>3. Distinct(Tail(q))
  <2> SUFFICES ASSUME NEW i \in DOMAIN Tail(q), NEW j \in DOMAIN Tail(q), Tail(q)[i] = Tail(q)[j]
               PROVE  i = j
    BY DEF Distinct
  <2>1. i + 1 = j + 1
    BY <1>2 DEF Distinct
  <2>2. QED
    BY <1>1, <2>1
<1>4. Head(q) \in Elements(q)
  BY <1>1, <1>2 DEF Elements
<1>5. Elements(Tail(q)) \subseteq Elements(q) \ {Head(q)}
  BY <1>1, <1>2 DEF Elements, Distinct
<1>6. QED
  BY <1>3, <1>4, <1>5, ElementsOfTail

\* What a step of one client leaves of the others.
Spares(c) ==
    \A d \in Clients \ {c} :
        /\ at'[d] = at[d] /\ calls'[d] = calls[d]
        /\ d \in transaction_map' <=> d \in transaction_map
        /\ \A s \in Names :
              /\ tran'[s][d] = tran[s][d] /\ written'[s][d] = written[s][d]
              /\ holder[s] = d => holder'[s] = d

LEMMA Spared ==
    ASSUME NEW c \in Clients, NEW d \in Clients, d # c, Spares(c), OrderedClient(d)
    PROVE  /\ OrderedClient(d)'
           /\ HasWritten(d)' <=> HasWritten(d)
           /\ Starts(d)' <=> Starts(d)
           /\ \A r, s \in Names : /\ Between(d, r, s)' <=> Between(d, r, s)
                                  /\ written'[s][d] = written[s][d]
<1>1. /\ at'[d] = at[d] /\ Ahead(d)' = Ahead(d) /\ IdOf(d)' = IdOf(d)
      /\ d \in transaction_map' <=> d \in transaction_map
      /\ \A s \in Names : /\ tran'[s][d] = tran[s][d] /\ written'[s][d] = written[s][d]
                          /\ holder[s] = d => holder'[s] = d
  BY DEF Spares, Ahead, IdOf
<1>2. (Writing(d)' <=> Writing(d)) /\ (Ending(d)' <=> Ending(d))
  BY <1>1 DEF Writing, Ending
<1>3. Sound(d)'
  BY <1>1 DEF OrderedClient, Sound
<1>4. Living(d)'
  BY <1>1, <1>2 DEF OrderedClient, Living
<1>5. InStep(d)'
  <2>1. \A s \in Names : written'[s][d] # << >> => holder'[s] = d
    BY <1>1 DEF OrderedClient, InStep
  <2>2. Ahead(d) \subseteq Names
    BY DEF Ahead
  <2>3. InStep(d)
    BY DEF OrderedClient
  <2>4. \A r, s \in Names :
           ~(Writing(d)' \/ Ending(d)') \/ (r \in Ahead(d)' <=> s \in Ahead(d)')
              => written'[r][d] = written'[s][d]
    BY <1>1, <1>2, <2>3 DEF InStep
  <2>5. Writing(d)' => \A r \in Names \ Ahead(d)' :
           /\ written'[r][d] # << >>
           /\ \A s \in Ahead(d)' : written'[r][d] = Append(written'[s][d], IdOf(d)')
    <3>1. ASSUME Writing(d)', NEW r \in Names \ Ahead(d)' PROVE written'[r][d] # << >>
      BY <1>1, <1>2, <2>3, <3>1 DEF InStep
    <3>2. ASSUME Writing(d)', NEW r \in Names \ Ahead(d)', NEW s \in Ahead(d)'
          PROVE  written'[r][d] = Append(written'[s][d], IdOf(d)')
      <4>1. Writing(d) /\ r \in Names \ Ahead(d) /\ s \in Ahead(d) /\ s \in Names
        BY <1>1, <1>2, <2>2, <3>2
      <4>2. written[r][d] = Append(written[s][d], IdOf(d))
        BY <2>3, <4>1 DEF InStep
      <4>3. written'[r][d] = written[r][d] /\ written'[s][d] = written[s][d] /\ IdOf(d)' = IdOf(d)
        BY <1>1, <4>1
      <4>4. QED
        BY <4>2, <4>3
    <3>3. QED
      BY <3>1, <3>2
  <2>6. Ending(d)' => \A r \in Names \ Ahead(d)' : written'[r][d] = << >>
    BY <1>1, <1>2, <2>3 DEF InStep
  <2>7. QED
    BY <2>1, <2>4, <2>5, <2>6 DEF InStep
<1>6. HasWritten(d)' <=> HasWritten(d)
  BY <1>1 DEF HasWritten
<1>7. Starts(d)' <=> Starts(d)
  <2>1. Ahead(d) \subseteq Names
    BY DEF Ahead
  <2>2. QED
    BY <1>1, <1>2, <2>1 DEF Starts
<1>8. \A r, s \in Names : (Between(d, r, s)' <=> Between(d, r, s)) /\ written'[s][d] = written[s][d]
  BY <1>1 DEF Between
<1>9. QED
  BY <1>3, <1>4, <1>5, <1>6, <1>7, <1>8 DEF OrderedClient

\* A step that stores nothing.
LEMMA Quietly ==
    ASSUME InOrder, NEW c \in Clients, Spares(c), role' = role, OrderedClient(c)', ~Starts(c),
           \A s \in Names : written'[s][c] # << >> => written[s][c] # << >>,
           \A r, s \in Names : ~Between(c, r, s) /\ ~Between(c, r, s)'
    PROVE  InOrder'
<1>1. ASSUME NEW d \in Clients, d # c
      PROVE  /\ OrderedClient(d)'
             /\ HasWritten(d)' <=> HasWritten(d)
             /\ Starts(d)' <=> Starts(d)
             /\ \A r, s \in Names : /\ Between(d, r, s)' <=> Between(d, r, s)
                                    /\ written'[s][d] = written[s][d]
  BY <1>1, Spared DEF InOrder
<1>2. HasWritten(c)' => HasWritten(c)
  BY DEF HasWritten
<1>3. OneThrough'
  BY <1>1, <1>2 DEF InOrder, OneThrough
<1>4. \A d \in Clients : Caught(d)'
  BY <1>1 DEF InOrder, Caught, Newest
<1>5. Agreed'
  BY <1>1 DEF InOrder, Agreed
<1>6. QED
  BY <1>1, <1>3, <1>4, <1>5 DEF InOrder

\* A request starts with all the mirrors ahead, if it is for all of them.
LEMMA AskedInOrder ==
    ASSUME MirrorsInvariant, InOrder, NEW c \in Clients, NEW w, Ask(c, w),
           IsWork(w), w.pc = "call" => w.method \in Called[c],
           \A d \in Clients \ {c} : calls'[d] = calls[d],
           ~w.errors, w.pc # "undo", Distinct(w.todo),
           w.pc = "call" /\ ~w.intran => ~HandlerOf(FALSE, w.method).writes,
           w.pc # "call" \/ (w.intran /\ Changes(OperationOf(TRUE, w.method))) => Elements(w.todo) = Names
    PROVE  InOrder'
<1>1. /\ at[c] = Idle /\ at'[c] = w /\ \A d \in Clients \ {c} : at'[d] = at[d]
      /\ UNCHANGED <<role, holder, tran, written, transaction_map>>
  <2>1. AtTyped
    BY DEF MirrorsInvariant, Typed
  <2>2. QED
    BY <2>1, GoesDoes DEF Ask, mirrorVars
<1>2. ~Writing(c) /\ ~Ending(c) /\ at[c].pc # "commit"
  BY <1>1 DEF Idle, Writing, Ending
<1>3. Living(c) /\ InStep(c)
  BY DEF InOrder, OrderedClient
<1>4. /\ \A s \in Names : written[s][c] # << >> => holder[s] = c
      /\ \A r, s \in Names : written[r][c] = written[s][c]
  BY <1>2, <1>3 DEF InStep
<1>5. Ahead(c)' = Names \cap Elements(w.todo)
  BY <1>1 DEF Ahead
<1>6. Writing(c)' \/ Ending(c)' \/ w.pc = "begin" => Ahead(c)' = Names
  BY <1>1, <1>5 DEF Writing, Ending
<1>7. OrderedClient(c)'
  <2>1. Sound(c)'
    BY <1>1 DEF Sound
  <2>2. Living(c)'
    <3>1. c \in transaction_map => \A s \in Names : tran[s][c] = "live"
      BY <1>2, <1>3 DEF Living
    <3>2. QED
      BY <1>1, <1>6, <3>1 DEF Living
  <2>3. InStep(c)'
    BY <1>1, <1>4, <1>6 DEF InStep
  <2>4. QED
    BY <2>1, <2>2, <2>3 DEF OrderedClient
<1>8. Spares(c)
  BY <1>1 DEF Spares
<1>9. ~Starts(c) /\ \A r, s \in Names : ~Between(c, r, s) /\ ~Between(c, r, s)'
  BY <1>1, <1>2, <1>6 DEF Starts, Between, Ending
<1>10. QED
  BY <1>1, <1>7, <1>8, <1>9, Quietly

LEMMA BeginInOrder ==
    ASSUME MirrorsInvariant, InOrder, NEW c \in Clients, Begin(c) PROVE InOrder'
<1>1. PICK order \in Orders(Names) : Ask(c, Work("begin", FALSE, Nil, order))
  BY DEF Begin
<1> DEFINE w == Work("begin", FALSE, Nil, order)
<1>2. order \in Seq(Names) /\ Elements(order) = Names /\ Distinct(order)
  BY OrdersTyped, OrdersDistinct
<1>3. IsWork(w) /\ w.pc = "begin" /\ w.todo = order /\ ~w.errors
  BY <1>2 DEF IsWork, Work
<1>4. Ask(c, w)
  BY <1>1
<1> HIDE DEF w
<1>5. calls' = calls
  BY DEF Begin
<1>6. QED
  BY <1>2, <1>3, <1>4, <1>5, AskedInOrder

LEMMA EndingInOrder ==
    ASSUME MirrorsInvariant, InOrder, NEW c \in Clients, Commit(c) \/ Rollback(c) PROVE InOrder'
<1>1. PICK pc \in {"commit", "rollback"} : \E order \in Orders(Names) : Ask(c, Work(pc, TRUE, Nil, order))
  BY DEF Commit, Rollback
<1>2. PICK order \in Orders(Names) : Ask(c, Work(pc, TRUE, Nil, order))
  BY <1>1
<1> DEFINE w == Work(pc, TRUE, Nil, order)
<1>3. order \in Seq(Names) /\ Elements(order) = Names /\ Distinct(order)
  BY OrdersTyped, OrdersDistinct
<1>4. IsWork(w) /\ w.pc = pc /\ w.todo = order /\ ~w.errors
  BY <1>3 DEF IsWork, Work
<1>5. Ask(c, w)
  BY <1>2
<1> HIDE DEF w
<1>6. calls' = calls
  BY DEF Commit, Rollback
<1>7. QED
  BY <1>3, <1>4, <1>5, <1>6, AskedInOrder

LEMMA RequestInOrder ==
    ASSUME MirrorsInvariant, InOrder, ~disturbed', NEW c \in Clients, NEW method \in Called[c],
           NEW intran \in BOOLEAN, Request(c, method, intran)
    PROVE  InOrder'
<1>1. PICK todo \in Seq(Names) :
         /\ Ask(c, Work("call", intran, method, todo))
         /\ Distinct(todo)
         /\ HandlerOf(intran, method).writes => Elements(todo) = Names
  <2>1. CASE HandlerOf(intran, method).writes
    BY <2>1, MirrorsAssumption, MirrorsDistinct DEF Request
  <2>2. CASE ~HandlerOf(intran, method).writes
    <3>1. PICK s \in RandomOne : Ask(c, Work("call", intran, method, <<s>>))
      BY <2>2 DEF Request
    <3>2. <<s>> \in Seq(Names)
      BY DEF RandomOne
    <3>3. Distinct(<<s>>)
      BY DEF Distinct
    <3>4. QED
      BY <2>2, <3>1, <3>2, <3>3
  <2>3. QED
    BY <2>1, <2>2
<1> DEFINE w == Work("call", intran, method, todo)
<1>2. /\ IsWork(w) /\ w.pc = "call" /\ w.todo = todo /\ w.intran = intran /\ w.method = method
      /\ ~w.errors
  BY DEF IsWork, Work
<1>3. Ask(c, w)
  BY <1>1
<1> HIDE DEF w
<1>4. \A d \in Clients \ {c} : calls'[d] = calls[d]
  BY DEF Request, MirrorsInvariant, Typed, MasterTyped
<1>5. ~intran => ~HandlerOf(FALSE, method).writes
  BY DEF Request
<1>6. Changes(OperationOf(TRUE, method)) => HandlerOf(TRUE, method).writes
  BY ChangesGoToAll
<1>7. QED
  BY <1>1, <1>2, <1>3, <1>4, <1>5, <1>6, AskedInOrder

\* One mirror is done with.
Onward(c, s) ==
    /\ s \in Ahead(c) /\ Ahead(c)' = Ahead(c) \ {s}
    /\ at[c].pc = "begin" \/ at[c].pc = "call" \/ Ending(c)
    /\ at'[c].pc = at[c].pc /\ at'[c].intran = at[c].intran /\ at'[c].method = at[c].method
    /\ Sound(c)' /\ AtTyped'
    /\ \A d \in Clients \ {c} : at'[d] = at[d]
    /\ UNCHANGED <<transaction_map, calls>>
    /\ Writing(c)' <=> Writing(c)
    /\ Ending(c)' <=> Ending(c)
    /\ IdOf(c)' = IdOf(c)

LEMMA GoesOnward ==
    ASSUME MirrorsInvariant, InOrder, NEW c \in Clients, NEW did, Going(c), Heard(c, FALSE, did),
           UNCHANGED <<transaction_map, calls>>
    PROVE  Mirror(c) \in Names /\ Onward(c, Mirror(c))
<1>1. AtTyped /\ Sound(c)
  BY DEF MirrorsInvariant, Typed, InOrder, OrderedClient
<1>2. Mirror(c) \in Names /\ at[c] # Idle /\ HeardFrom(c, FALSE, did)
  BY <1>1, HeardDoes
<1>3. /\ at[c].todo \in Seq(Names) /\ at[c].todo # << >> /\ at[c].errors \in BOOLEAN
      /\ at[c].pc \in {"begin", "call", "commit", "rollback"}
  BY <1>1, <1>2 DEF AtTyped, IsWork, Going, Asks
<1>4. ~at[c].errors /\ Distinct(at[c].todo)
  BY <1>1, <1>2 DEF Sound
<1>5. /\ at'[c].todo = Tail(at[c].todo) /\ ~at'[c].errors /\ AtTyped'
      /\ at'[c].pc = at[c].pc /\ at'[c].intran = at[c].intran /\ at'[c].method = at[c].method
      /\ \A d \in Clients \ {c} : at'[d] = at[d]
  BY <1>2, <1>4 DEF HeardFrom
<1>6. /\ Distinct(Tail(at[c].todo))
      /\ Elements(Tail(at[c].todo)) = Elements(at[c].todo) \ {Mirror(c)}
      /\ Mirror(c) \in Elements(at[c].todo)
  BY <1>3, <1>4, DistinctTail DEF Mirror
<1>7. Mirror(c) \in Ahead(c) /\ Ahead(c)' = Ahead(c) \ {Mirror(c)}
  BY <1>2, <1>5, <1>6 DEF Ahead
<1>8. Sound(c)'
  BY <1>1, <1>2, <1>3, <1>5, <1>6 DEF Sound
<1>9. (Writing(c)' <=> Writing(c)) /\ (Ending(c)' <=> Ending(c)) /\ IdOf(c)' = IdOf(c)
  BY <1>5 DEF Writing, Ending, IdOf
<1>10. QED
  BY <1>2, <1>3, <1>5, <1>7, <1>8, <1>9 DEF Onward, Ending

\* A mirror begins the transaction.
LEMMA BegunInOrder ==
    ASSUME MirrorsInvariant, InOrder, NEW c \in Clients, NEW s \in Names, Onward(c, s),
           at[c].pc = "begin", Answers(c, s)
    PROVE  InOrder'
<1>1. tran' = [tran EXCEPT ![s][c] = "live"] /\ UNCHANGED <<role, holder, written>>
  BY DEF Answers
<1>2. /\ tran'[s][c] = "live"
      /\ \A r \in Names, d \in Clients : (r = s /\ d = c) \/ tran'[r][d] = tran[r][d]
  BY <1>1 DEF MirrorsInvariant, Typed, MirrorTyped
<1>3. c \notin transaction_map
  BY DEF MirrorsInvariant, ClientInv, BegunEverywhere
<1>4. Living(c) /\ InStep(c) /\ ~Writing(c) /\ ~Ending(c)
  BY DEF InOrder, OrderedClient, Writing, Ending
<1>5. OrderedClient(c)'
  <2>1. Living(c)'
    BY <1>2, <1>3, <1>4 DEF Living, Onward
  <2>2. InStep(c)'
    BY <1>1, <1>4 DEF InStep, Onward
  <2>3. QED
    BY <2>1, <2>2 DEF OrderedClient, Onward
<1>6. Spares(c)
  BY <1>1, <1>2 DEF Spares, Onward
<1>7. ~Starts(c) /\ \A r, q \in Names : ~Between(c, r, q) /\ ~Between(c, r, q)'
  BY <1>4 DEF Starts, Between, Onward
<1>8. QED
  BY <1>1, <1>5, <1>6, <1>7, Quietly

\* A read outside a transaction.
LEMMA AutoInOrder ==
    ASSUME MirrorsInvariant, InOrder, NEW c \in Clients, NEW s \in Names, Onward(c, s),
           at[c].pc = "call", ~at[c].intran, Answers(c, s)
    PROVE  InOrder'
<1>1. at[c] # Idle /\ at[c].method \in Called[c]
  BY DEF MirrorsInvariant, Typed, AtTyped, Idle
<1>2. ~HandlerOf(FALSE, at[c].method).writes
  BY <1>1 DEF InOrder, OrderedClient, Sound
<1>3. ~Changes(A!Methods[LocalOf(FALSE, at[c].method)].op)
  BY <1>1, <1>2, ChangesGoToAll DEF OperationOf
<1>4. UNCHANGED <<role, holder, tran, written>>
  BY <1>3 DEF Answers, AutoOperation
<1>5. Living(c) /\ InStep(c) /\ ~Writing(c) /\ ~Ending(c)
  BY DEF InOrder, OrderedClient, Writing, Ending
<1>6. OrderedClient(c)'
  <2>1. Living(c)'
    BY <1>4, <1>5 DEF Living, Onward
  <2>2. InStep(c)'
    BY <1>4, <1>5 DEF InStep, Onward
  <2>3. QED
    BY <2>1, <2>2 DEF OrderedClient, Onward
<1>7. Spares(c)
  BY <1>4 DEF Spares, Onward
<1>8. ~Starts(c) /\ \A r, q \in Names : ~Between(c, r, q) /\ ~Between(c, r, q)'
  BY <1>5 DEF Starts, Between, Onward
<1>9. QED
  BY <1>4, <1>6, <1>7, <1>8, Quietly

\* A call in a transaction that leaves the role as it is, but may take it.
LEMMA LookedInOrder ==
    ASSUME MirrorsInvariant, InOrder, NEW c \in Clients, NEW s \in Names, Onward(c, s),
           at[c].pc = "call", at[c].intran, ~Writing(c), Answers(c, s)
    PROVE  InOrder'
<1>1. TranOperation(s, c, OperationOf(TRUE, at[c].method))
      /\ ~Changes(OperationOf(TRUE, at[c].method))
  BY DEF Answers, Writing
<1>2. /\ UNCHANGED <<role, tran, written>>
      /\ holder' = holder \/ (holder[s] \in {Nil, c} /\ holder' = [holder EXCEPT ![s] = c])
  BY <1>1 DEF TranOperation, mirrorVars
<1>3. \A d \in Clients, r \in Names : holder[r] = d => holder'[r] = d
  BY <1>2, MirrorsAssumption DEF MirrorsInvariant, Typed, MirrorTyped
<1>4. Living(c) /\ InStep(c) /\ ~Ending(c)
  BY DEF InOrder, OrderedClient, Ending
<1>5. OrderedClient(c)'
  <2>1. Living(c)'
    BY <1>2, <1>4 DEF Living, Onward
  <2>2. InStep(c)'
    BY <1>2, <1>3, <1>4 DEF InStep, Onward
  <2>3. QED
    BY <2>1, <2>2 DEF OrderedClient, Onward
<1>6. Spares(c)
  BY <1>2, <1>3 DEF Spares, Onward
<1>7. ~Starts(c) /\ \A r, q \in Names : ~Between(c, r, q) /\ ~Between(c, r, q)'
  BY <1>4 DEF Starts, Between, Onward
<1>8. QED
  BY <1>2, <1>5, <1>6, <1>7, Quietly

\* A change is made at a mirror: where the role is free, so that nobody else has it on all.
LEMMA WroteInOrder ==
    ASSUME MirrorsInvariant, InOrder, NEW c \in Clients, NEW s \in Names, Onward(c, s),
           Writing(c), Answers(c, s)
    PROVE  InOrder'
<1> DEFINE new == Append(written[s][c], IdOf(c))
<1>1. TranOperation(s, c, OperationOf(TRUE, at[c].method))
      /\ Changes(OperationOf(TRUE, at[c].method))
  BY DEF Answers, Writing
<1>2. /\ holder[s] \in {Nil, c} /\ holder' = [holder EXCEPT ![s] = c]
      /\ written' = [written EXCEPT ![s][c] = new]
      /\ UNCHANGED <<role, tran>>
  BY <1>1 DEF TranOperation, Changes, IdOf
<1> HIDE DEF new
<1>3. /\ \A r \in Names : r # s => holder'[r] = holder[r]
      /\ holder'[s] = c
      /\ written'[s][c] = new
      /\ \A r \in Names, d \in Clients : (r = s /\ d = c) \/ written'[r][d] = written[r][d]
      /\ \A d \in Clients : d # c => holder[s] # d
  BY <1>2, MirrorsAssumption DEF MirrorsInvariant, Typed, MirrorTyped
<1>4. new # << >>
  <2>1. written[s][c] \in Seq(Ids)
    BY DEF MirrorsInvariant, Typed, MirrorTyped
  <2>2. QED
    BY <2>1 DEF new
<1>5. Living(c) /\ InStep(c) /\ ~Ending(c) /\ at[c].pc = "call" /\ s \in Ahead(c) /\ Ahead(c) \subseteq Names
  BY DEF InOrder, OrderedClient, Ending, Writing, Onward, Ahead
<1>6. /\ \A r \in Ahead(c) : written[r][c] = written[s][c]
      /\ \A r \in Names \ Ahead(c) : written[r][c] # << >> /\ written[r][c] = new
  BY <1>5 DEF InStep, new
<1>7. OrderedClient(c)'
  <2>1. Living(c)'
    BY <1>2, <1>5 DEF Living, Onward
  <2>2. InStep(c)'
    <3>1. \A r \in Names : written'[r][c] # << >> => holder'[r] = c
      BY <1>3, <1>5 DEF InStep
    <3>2. \A r \in Names : /\ r \in Ahead(c)' => written'[r][c] = written[s][c]
                           /\ r \notin Ahead(c)' => written'[r][c] = new
      BY <1>3, <1>6 DEF Onward
    <3>3. new = Append(written[s][c], IdOf(c)') /\ ~Ending(c)'
      BY <1>5 DEF Onward, new
    <3>4. Ahead(c)' \subseteq Names
      BY <1>5 DEF Onward
    <3>5. \A r, q \in Names :
             ~(Writing(c)' \/ Ending(c)') \/ (r \in Ahead(c)' <=> q \in Ahead(c)')
                => written'[r][c] = written'[q][c]
      <4>1. Writing(c)'
        BY DEF Onward
      <4>2. QED
        BY <3>2, <4>1
    <3>6. \A r \in Names \ Ahead(c)' :
             /\ written'[r][c] # << >>
             /\ \A q \in Ahead(c)' : written'[r][c] = Append(written'[q][c], IdOf(c)')
      BY <1>4, <3>2, <3>3, <3>4
    <3>7. QED
      BY <3>1, <3>3, <3>5, <3>6 DEF InStep
  <2>3. QED
    BY <2>1, <2>2 DEF OrderedClient, Onward
<1>8. Spares(c)
  BY <1>2, <1>3 DEF Spares, Onward
<1>9. ASSUME NEW d \in Clients, d # c
      PROVE  /\ OrderedClient(d)'
             /\ HasWritten(d)' <=> HasWritten(d)
             /\ Starts(d)' <=> Starts(d)
             /\ \A r, q \in Names : /\ Between(d, r, q)' <=> Between(d, r, q)
                                    /\ written'[q][d] = written[q][d]
  BY <1>8, <1>9, Spared DEF InOrder
<1>10. ASSUME NEW d \in Clients, d # c, HasWritten(d), ~Starts(d) PROVE Starts(c)'
  <2>1. \A r \in Ahead(c) : written[r][c] = << >>
    <3>1. HasWritten(c) => Starts(c)
      BY <1>10 DEF InOrder, OneThrough
    <3>2. QED
      BY <1>5, <3>1 DEF HasWritten, Starts
  <2>2. \A r \in Ahead(c)' : written'[r][c] = << >>
    BY <1>3, <1>5, <2>1 DEF Onward
  <2>3. Ahead(c)' # {}
    <3>1. PICK t \in Names : written[t][d] # << >>
      BY <1>10 DEF HasWritten
    <3>2. holder[t] = d
      BY <3>1 DEF InOrder, OrderedClient, InStep
    <3>3. t # s
      BY <1>3, <1>10, <3>2
    <3>4. t \in Ahead(c)
      BY <1>5, <1>6, <1>10, <3>2 DEF InStep
    <3>5. QED
      BY <3>3, <3>4 DEF Onward
  <2>4. QED
    BY <2>2, <2>3 DEF Starts, Onward
<1>11. OneThrough'
  <2> SUFFICES ASSUME NEW a \in Clients, NEW d \in Clients, a # d, HasWritten(a)', HasWritten(d)'
               PROVE  Starts(a)' \/ Starts(d)'
    BY DEF OneThrough
  <2>1. CASE a = c
    BY <1>9, <1>10, <2>1
  <2>2. CASE d = c
    BY <1>9, <1>10, <2>2
  <2>3. CASE a # c /\ d # c
    BY <1>9, <2>3 DEF InOrder, OneThrough
  <2>4. QED
    BY <2>1, <2>2, <2>3
<1>12. \A r, q \in Names : ~Between(c, r, q) /\ ~Between(c, r, q)'
  BY <1>5 DEF Between, Onward
<1>13. \A d \in Clients : Caught(d)'
  BY <1>2, <1>9, <1>12 DEF InOrder, Caught, Newest
<1>14. Agreed'
  BY <1>2, <1>9, <1>12 DEF InOrder, Agreed
<1>15. QED
  BY <1>7, <1>9, <1>11, <1>13, <1>14 DEF InOrder

\* The end of c's transaction at a mirror.
LEMMA EndedInOrder ==
    ASSUME MirrorsInvariant, InOrder, NEW c \in Clients, NEW s \in Names, NEW keep \in BOOLEAN,
           Onward(c, s), Ending(c), Ended(s, c, keep)
    PROVE  /\ OrderedClient(c)' /\ Spares(c)
           /\ written'[s][c] = << >>
           /\ \A r \in Names : r # s => written'[r][c] = written[r][c]
           /\ \A r \in Ahead(c) : written[r][c] = written[s][c]
<1>1. MirrorTyped
  BY DEF MirrorsInvariant, Typed
<1>2. /\ tran' = [tran EXCEPT ![s][c] = "ended"] /\ written' = [written EXCEPT ![s][c] = << >>]
      /\ holder' = [holder EXCEPT ![s] = IF holder[s] = c THEN Nil ELSE holder[s]]
  BY DEF Ended
<1>3. /\ written'[s][c] = << >>
      /\ \A r \in Names, d \in Clients :
            (r = s /\ d = c) \/ (tran'[r][d] = tran[r][d] /\ written'[r][d] = written[r][d])
      /\ \A r \in Names : r # s => holder'[r] = holder[r]
      /\ \A d \in Clients : d # c /\ holder[s] = d => holder'[s] = d
  BY <1>1, <1>2 DEF MirrorTyped
<1>4. Living(c) /\ InStep(c) /\ s \in Ahead(c) /\ Ahead(c) \subseteq Names /\ ~Writing(c) /\ at[c].pc # "begin"
  BY DEF InOrder, OrderedClient, Onward, Ahead, Ending, Writing
<1>5. /\ \A r \in Ahead(c) : written[r][c] = written[s][c]
      /\ \A r \in Names \ Ahead(c) : written[r][c] = << >>
  BY <1>4 DEF InStep
<1>6. Living(c)'
  BY <1>3, <1>4 DEF Living, Onward
<1>7. InStep(c)'
  <2>1. \A r \in Names : written'[r][c] # << >> => holder'[r] = c
    BY <1>3, <1>4 DEF InStep
  <2>2. \A r \in Names : /\ r \in Ahead(c)' => written'[r][c] = written[s][c]
                         /\ r \notin Ahead(c)' => written'[r][c] = << >>
    BY <1>3, <1>4, <1>5 DEF Onward
  <2>3. ~Writing(c)'
    BY <1>4 DEF Onward
  <2>4. \A r, q \in Names :
           ~(Writing(c)' \/ Ending(c)') \/ (r \in Ahead(c)' <=> q \in Ahead(c)')
              => written'[r][c] = written'[q][c]
    <3>1. Ending(c)'
      BY DEF Onward
    <3>2. QED
      BY <2>2, <3>1
  <2>5. QED
    BY <2>1, <2>2, <2>3, <2>4 DEF InStep
<1>8. Spares(c)
  BY <1>3 DEF Spares, Onward
<1>9. QED
  BY <1>3, <1>5, <1>6, <1>7, <1>8 DEF OrderedClient, Onward

\* The end of a transaction that stores nothing.
LEMMA DroppedInOrder ==
    ASSUME MirrorsInvariant, InOrder, NEW c \in Clients, NEW s \in Names, NEW keep \in BOOLEAN,
           Onward(c, s), Ending(c), keep = (at[c].pc = "commit"), Ended(s, c, keep),
           ~keep \/ written[s][c] = << >>
    PROVE  InOrder'
<1>1. /\ OrderedClient(c)' /\ Spares(c)
      /\ written'[s][c] = << >>
      /\ \A r \in Names : r # s => written'[r][c] = written[r][c]
      /\ \A r \in Ahead(c) : written[r][c] = written[s][c]
  BY EndedInOrder
<1>2. role' = role
  BY DEF Ended
<1>3. ~Starts(c)
  BY DEF Starts, Writing, Ending
<1>4. \A r \in Names : written'[r][c] # << >> => written[r][c] # << >>
  BY <1>1
<1>5. \A r, q \in Names : ~Between(c, r, q) /\ ~Between(c, r, q)'
  BY <1>1 DEF Between, Onward
<1>6. QED
  BY <1>1, <1>2, <1>3, <1>4, <1>5, Quietly

\* A change is stored: all others that have written have only begun to, so that it is the
\* only commit under way.
LEMMA CommittedInOrder ==
    ASSUME MirrorsInvariant, InOrder, NEW c \in Clients, NEW s \in Names,
           Onward(c, s), at[c].pc = "commit", Ended(s, c, TRUE), written[s][c] # << >>
    PROVE  InOrder'
<1> DEFINE last == Newest(written[s][c])
<1>1. Ending(c) /\ ~Writing(c) /\ s \in Ahead(c) /\ Ahead(c) \subseteq Names /\ HasWritten(c)
  BY DEF Ending, Writing, Onward, Ahead, HasWritten
<1>2. /\ OrderedClient(c)' /\ Spares(c)
      /\ written'[s][c] = << >>
      /\ \A r \in Names : r # s => written'[r][c] = written[r][c]
      /\ \A r \in Ahead(c) : written[r][c] = written[s][c]
  BY <1>1, EndedInOrder
<1>3. role'[s] = last /\ \A r \in Names : r # s => role'[r] = role[r]
  BY DEF Ended, Newest, MirrorsInvariant, Typed, MirrorTyped
<1>4. ASSUME NEW d \in Clients, d # c
      PROVE  /\ OrderedClient(d)'
             /\ HasWritten(d)' <=> HasWritten(d)
             /\ Starts(d)' <=> Starts(d)
             /\ \A r, q \in Names : Between(d, r, q)' <=> Between(d, r, q)
             /\ HasWritten(d) => Starts(d)
  <2>1. ~Starts(c)
    BY <1>1 DEF Starts
  <2>2. HasWritten(d) => Starts(d)
    BY <1>1, <1>4, <2>1 DEF InOrder, OneThrough
  <2>3. QED
    BY <1>2, <1>4, <2>2, Spared DEF InOrder
<1>5. ASSUME NEW d \in Clients, d # c, NEW r \in Names, NEW q \in Names
      PROVE  ~Between(d, r, q) /\ ~Between(d, r, q)'
  <2>1. Between(d, r, q) => HasWritten(d) /\ ~Starts(d)
    BY DEF Between, HasWritten, Starts, Writing
  <2>2. QED
    BY <1>4, <1>5, <2>1
<1>6. OneThrough'
  <2>1. HasWritten(c)' => HasWritten(c)
    BY <1>1
  <2>2. QED
    BY <1>4 DEF OneThrough
<1> HIDE DEF last
<1>7. \A r \in Names \ Ahead(c)' : role'[r] = last
  <2> SUFFICES ASSUME NEW r \in Names \ Ahead(c)', r # s PROVE role'[r] = last
    BY <1>3
  <2>1. r \notin Ahead(c)
    BY DEF Onward
  <2>2. Between(c, r, s)
    BY <1>1, <2>1 DEF Between
  <2>3. role[r] = last
    BY <2>2 DEF InOrder, Caught, last
  <2>4. QED
    BY <1>3, <2>3
<1>8. \A q \in Ahead(c)' : /\ q \in Ahead(c) /\ q # s
                           /\ written'[q][c] = written[s][c] /\ role'[q] = role[q]
  BY <1>1, <1>2, <1>3 DEF Onward
<1>9. \A d \in Clients : Caught(d)'
  <2>1. \A d \in Clients \ {c} : Caught(d)'
    BY <1>5 DEF Caught
  <2>2. Caught(c)'
    BY <1>7, <1>8 DEF Caught, Between, last, Newest
  <2>3. QED
    BY <2>1, <2>2
<1>10. Agreed'
  <2> SUFFICES ASSUME NEW r \in Names, NEW q \in Names
               PROVE  role'[r] = role'[q] \/ Between(c, r, q)' \/ Between(c, q, r)'
    BY DEF Agreed
  <2>1. CASE r \in Ahead(c)' /\ q \in Ahead(c)'
    <3>1. ~Between(c, r, q) /\ ~Between(c, q, r)
      BY <1>8, <2>1 DEF Between
    <3>2. role[r] = role[q]
      BY <1>5, <3>1 DEF InOrder, Agreed
    <3>3. QED
      BY <1>8, <2>1, <3>2
  <2>2. CASE r \notin Ahead(c)' /\ q \notin Ahead(c)'
    BY <1>7, <2>2
  <2>3. CASE r \notin Ahead(c)' /\ q \in Ahead(c)'
    BY <1>8, <2>3 DEF Between, Onward
  <2>4. CASE r \in Ahead(c)' /\ q \notin Ahead(c)'
    BY <1>8, <2>4 DEF Between, Onward
  <2>5. QED
    BY <2>1, <2>2, <2>3, <2>4
<1>11. QED
  BY <1>2, <1>4, <1>6, <1>9, <1>10 DEF InOrder

LEMMA ServedInOrder ==
    ASSUME MirrorsInvariant, InOrder, ~disturbed', NEW c \in Clients, Served(c) PROVE InOrder'
<1>1. /\ Going(c)
      /\ Answers(c, Mirror(c))
      /\ Heard(c, FALSE, Did(c))
      /\ UNCHANGED <<transaction_map, calls>>
  BY DEF Served
<1>2. PICK s \in Names : Onward(c, s) /\ Answers(c, s)
  BY <1>1, GoesOnward
<1>3. CASE at[c].pc = "begin"
  BY <1>2, <1>3, BegunInOrder
<1>4. CASE at[c].pc = "call" /\ ~at[c].intran
  BY <1>2, <1>4, AutoInOrder
<1>5. CASE at[c].pc = "call" /\ at[c].intran
  <2>1. CASE Writing(c)
    BY <1>2, <2>1, WroteInOrder
  <2>2. CASE ~Writing(c)
    BY <1>2, <1>5, <2>2, LookedInOrder
  <2>3. QED
    BY <2>1, <2>2
<1>6. CASE Ending(c)
  <2>1. PICK keep \in BOOLEAN : keep = (at[c].pc = "commit") /\ Ended(s, c, keep)
    BY <1>2, <1>6 DEF Answers, Ending
  <2>2. CASE ~keep \/ written[s][c] = << >>
    BY <1>2, <1>6, <2>1, <2>2, DroppedInOrder
  <2>3. CASE keep /\ written[s][c] # << >>
    <3>1. Ended(s, c, TRUE) /\ at[c].pc = "commit"
      BY <2>1, <2>3
    <3>2. QED
      BY <1>2, <2>3, <3>1, CommittedInOrder
  <2>4. QED
    BY <2>2, <2>3
<1>7. QED
  BY <1>2, <1>3, <1>4, <1>5, <1>6 DEF Onward

\* Nobody finds its transaction ended.
LEMMA NoneUnserved == ASSUME MirrorsInvariant, InOrder, NEW c \in Clients, Unserved(c) PROVE FALSE
<1>1. Going(c) /\ NeedsTransaction(c) /\ tran[Mirror(c)][c] = "ended"
  BY DEF Unserved
<1>2. at[c].todo \in Seq(Names) /\ at[c].todo # << >>
  BY <1>1 DEF Going, Asks, MirrorsInvariant, Typed, AtTyped, IsWork, Idle
<1>3. Mirror(c) \in Names /\ Mirror(c) \in Elements(at[c].todo)
  <2>1. at[c] # Idle /\ Sound(c)
    BY <1>1 DEF Going, Asks, Idle, InOrder, OrderedClient
  <2>2. QED
    BY <1>2, <2>1, ElementsOfTail, DistinctTail DEF Sound, Mirror
<1>4. c \in transaction_map
  BY <1>1 DEF NeedsTransaction, MirrorsInvariant, ClientInv, BegunEverywhere
<1>5. tran[Mirror(c)][c] = "live"
  BY <1>3, <1>4 DEF InOrder, OrderedClient, Living, Ahead
<1>6. QED
  BY <1>1, <1>5

\* The answers: nothing is ahead any more.
LEMMA AnsweredInOrder ==
    ASSUME MirrorsInvariant, InOrder, NEW c \in Clients,
           BeginAnswer(c) \/ CallAnswer(c) \/ EndAnswer(c)
    PROVE  InOrder'
<1>1. /\ at[c].todo = << >> /\ Goes(c, Idle)
      /\ UNCHANGED <<role, holder, tran, written, calls>>
      /\ at[c].pc \in {"begin", "undo", "call", "commit", "rollback"}
  BY DEF BeginAnswer, CallAnswer, EndAnswer, Done, mirrorVars
<1>2. at'[c] = Idle /\ \A d \in Clients \ {c} : at'[d] = at[d]
  BY <1>1, GoesDoes DEF MirrorsInvariant, Typed
<1>3. Sound(c) /\ Living(c) /\ InStep(c) /\ at[c].pc # "undo" /\ Ahead(c) = {}
  <2>1. Sound(c) /\ Living(c) /\ InStep(c)
    BY DEF InOrder, OrderedClient
  <2>2. at[c] # Idle
    BY <1>1 DEF Idle
  <2>3. Ahead(c) = {}
    BY <1>1, ElementsOfEmpty DEF Ahead
  <2>4. QED
    BY <2>1, <2>2, <2>3 DEF Sound
<1>4. /\ \A s \in Names : written[s][c] # << >> => holder[s] = c
      /\ \A r, s \in Names : written[r][c] = written[s][c]
  BY <1>3 DEF InStep
<1>5. /\ transaction_map' \in {transaction_map, transaction_map \cup {c}, transaction_map \ {c}}
      /\ c \in transaction_map' => \A s \in Names : tran[s][c] = "live"
  <2>1. CASE BeginAnswer(c)
    <3>1. at[c].pc = "begin" /\ transaction_map' = transaction_map \cup {c}
      BY <1>3, <2>1 DEF BeginAnswer, Done
    <3>2. QED
      BY <1>3, <3>1 DEF Living
  <2>2. CASE CallAnswer(c)
    BY <1>3, <2>2 DEF CallAnswer, Done, Living, Ending
  <2>3. CASE EndAnswer(c)
    BY <2>3 DEF EndAnswer
  <2>4. QED
    BY <2>1, <2>2, <2>3
<1>6. OrderedClient(c)'
  <2>1. Sound(c)' /\ Living(c)'
    BY <1>1, <1>2, <1>5 DEF Sound, Living, Idle
  <2>2. InStep(c)'
    BY <1>1, <1>2, <1>4 DEF InStep, Writing, Ending, Idle
  <2>3. QED
    BY <2>1, <2>2 DEF OrderedClient
<1>7. Spares(c)
  BY <1>1, <1>2, <1>5 DEF Spares
<1>8. ~Starts(c) /\ \A r, s \in Names : ~Between(c, r, s) /\ ~Between(c, r, s)'
  BY <1>2, <1>3 DEF Starts, Between, Idle
<1>9. QED
  BY <1>1, <1>6, <1>7, <1>8, Quietly

LEMMA MasterInOrder ==
    ASSUME MirrorsInvariant, InOrder, ~disturbed', NEW c \in Clients, Master(c) PROVE InOrder'
<1>1. CASE Served(c)
  BY <1>1, ServedInOrder
<1>2. CASE Unserved(c)
  BY <1>2, NoneUnserved
<1>3. CASE Unreached(c)
  BY <1>3 DEF Unreached
<1>4. CASE BeginFails(c) \/ UndoBegin(c)
  <2>1. at[c].pc = "undo" \/ (at[c].pc = "begin" /\ at[c].errors)
    BY <1>4 DEF BeginFails, UndoBegin, Asks
  <2>2. at[c] # Idle
    BY <2>1 DEF Idle
  <2>3. Sound(c)
    BY DEF InOrder, OrderedClient
  <2>4. QED
    BY <2>1, <2>2, <2>3 DEF Sound
<1>5. CASE BeginAnswer(c) \/ CallAnswer(c) \/ EndAnswer(c)
  BY <1>5, AnsweredInOrder
<1>6. QED
  BY <1>1, <1>2, <1>3, <1>4, <1>5 DEF Master

----------------------------------------------------------------------------
(* The theorems.                                                           *)

LEMMA MirrorsInit == Init => MirrorsInvariant
<1> SUFFICES ASSUME Init PROVE MirrorsInvariant
  OBVIOUS
<1>1. Typed
  <2>1. MirrorTyped
    BY DEF Init, MirrorTyped
  <2>2. AtTyped
    BY DEF Init, AtTyped
  <2>3. MasterTyped
    <3>1. calls \in [Clients -> 0 .. MaxCalls]
      BY MirrorsAssumption DEF Init
    <3>2. agreed \in [Clients -> SUBSET Ids]
      BY DEF Init
    <3>3. QED
      BY <3>1, <3>2 DEF Init, MasterTyped
  <2>4. QED
    BY <2>1, <2>2, <2>3 DEF Typed
<1>2. ASSUME NEW c \in Clients PROVE ClientInv(c)
  <2>1. Numbered(c) /\ Apart(c)
    BY ElementsOfEmpty DEF Init, Numbered, Apart, Idle
  <2>2. BegunEverywhere(c) /\ Kept(c) /\ Passed(c) /\ DidAsAsked(c)
    BY DEF Init, BegunEverywhere, Kept, Passed, DidAsAsked, Idle
  <2>3. QED
    BY <2>1, <2>2 DEF ClientInv
<1>3. Reported
  BY DEF Init, Reported
<1>4. QED
  BY <1>1, <1>2, <1>3 DEF MirrorsInvariant

LEMMA MirrorsNext == MirrorsInvariant /\ [Next]_vars => MirrorsInvariant'
<1> SUFFICES ASSUME MirrorsInvariant, [Next]_vars PROVE MirrorsInvariant'
  OBVIOUS
<1>1. CASE UNCHANGED vars
  BY <1>1 DEF vars, mirrorVars, MirrorsInvariant, Typed, MirrorTyped, AtTyped, MasterTyped, Reported,
              ClientInv, BegunEverywhere, Numbered, IdOf, Kept, Passed, Helped, DidAsAsked, Apart
<1>2. CASE Next
  <2>1. PICK c \in Clients :
           \/ Begin(c)
           \/ \E method \in Called[c], intran \in BOOLEAN : Request(c, method, intran)
           \/ Commit(c)
           \/ Rollback(c)
           \/ Master(c)
           \/ \E s \in Names : Expire(s, c)
    BY <1>2 DEF Next
  <2>2. CASE Begin(c)
    BY <2>2, BeginNext
  <2>3. CASE \E method \in Called[c], intran \in BOOLEAN : Request(c, method, intran)
    BY <2>3, RequestNext
  <2>4. CASE Commit(c) \/ Rollback(c)
    BY <2>4, EndingNext
  <2>5. CASE Served(c)
    BY <2>5, ServedNext
  <2>6. CASE Unserved(c) \/ Unreached(c)
    BY <2>6, UnhelpedNext
  <2>7. CASE BeginFails(c)
    BY <2>7, BeginFailsNext
  <2>8. CASE UndoBegin(c)
    BY <2>8, UndoBeginNext
  <2>9. CASE BeginAnswer(c)
    BY <2>9, BeginAnswerNext
  <2>10. CASE CallAnswer(c)
    BY <2>10, CallAnswerNext
  <2>11. CASE EndAnswer(c)
    BY <2>11, EndAnswerNext
  <2>12. CASE \E s \in Names : Expire(s, c)
    BY <2>12, ExpireNext
  <2>13. QED
    BY <2>1, <2>2, <2>3, <2>4, <2>5, <2>6, <2>7, <2>8, <2>9, <2>10, <2>11, <2>12 DEF Master
<1>3. QED
  BY <1>1, <1>2

\* Whatever disturbs is remembered.
LEMMA StaysDisturbed == ASSUME [Next]_vars, disturbed, MirrorsInvariant PROVE disturbed'
<1>1. CASE UNCHANGED vars
  BY <1>1 DEF vars
<1>2. CASE Next
  BY <1>2 DEF Next, Begin, Request, Commit, Rollback, Master, Served, Unserved, Unreached, BeginFails,
              UndoBegin, BeginAnswer, CallAnswer, EndAnswer, Expire
<1>3. QED
  BY <1>1, <1>2

LEMMA OrderInit == Init => InOrder
<1> SUFFICES ASSUME Init PROVE InOrder
  OBVIOUS
<1>1. ASSUME NEW c \in Clients PROVE ~Writing(c) /\ ~Ending(c) /\ at[c] = Idle /\ at[c].pc = "idle"
  BY DEF Init, Writing, Ending, Idle
<1>2. ASSUME NEW c \in Clients PROVE OrderedClient(c)
  BY <1>1 DEF Init, OrderedClient, Sound, Living, InStep
<1>3. ASSUME NEW c \in Clients PROVE Caught(c) /\ ~HasWritten(c)
  BY <1>1 DEF Init, Caught, Between, HasWritten
<1>4. Agreed
  BY DEF Init, Agreed
<1>5. QED
  BY <1>2, <1>3, <1>4 DEF InOrder, OneThrough

LEMMA OrderNext ==
    MirrorsInvariant /\ (~disturbed => InOrder) /\ [Next]_vars => (~disturbed => InOrder)'
<1> SUFFICES ASSUME MirrorsInvariant, ~disturbed => InOrder, [Next]_vars, ~disturbed' PROVE InOrder'
  OBVIOUS
<1>1. InOrder
  BY StaysDisturbed
<1>2. CASE UNCHANGED vars
  <2>1. UNCHANGED <<role, holder, tran, written, transaction_map, at, calls>>
    BY <1>2 DEF vars, mirrorVars
  <2>2. ASSUME NEW c \in Clients
        PROVE  /\ OrderedClient(c)'
               /\ HasWritten(c)' <=> HasWritten(c)
               /\ Starts(c)' <=> Starts(c)
               /\ \A r, s \in Names : Between(c, r, s)' <=> Between(c, r, s)
    <3>1. Ahead(c)' = Ahead(c) /\ IdOf(c)' = IdOf(c) /\ Writing(c)' = Writing(c) /\ Ending(c)' = Ending(c)
      BY <2>1 DEF Ahead, IdOf, Writing, Ending
    <3>2. Sound(c) /\ Living(c) /\ InStep(c)
      BY <1>1 DEF InOrder, OrderedClient
    <3>3. Sound(c)' /\ Living(c)' /\ InStep(c)'
      BY <2>1, <3>1, <3>2 DEF Sound, Living, InStep
    <3>4. QED
      BY <2>1, <3>1, <3>3 DEF OrderedClient, HasWritten, Starts, Between
  <2>3. \A c \in Clients : Caught(c)'
    BY <1>1, <2>1, <2>2 DEF InOrder, Caught, Newest
  <2>4. OneThrough' /\ Agreed'
    BY <1>1, <2>1, <2>2 DEF InOrder, OneThrough, Agreed
  <2>5. QED
    BY <2>2, <2>3, <2>4 DEF InOrder
<1>3. CASE Next
  <2>1. PICK c \in Clients :
           \/ Begin(c)
           \/ \E method \in Called[c], intran \in BOOLEAN : Request(c, method, intran)
           \/ Commit(c)
           \/ Rollback(c)
           \/ Master(c)
           \/ \E s \in Names : Expire(s, c)
    BY <1>3 DEF Next
  <2>2. CASE Begin(c)
    BY <1>1, <2>2, BeginInOrder
  <2>3. CASE \E method \in Called[c], intran \in BOOLEAN : Request(c, method, intran)
    BY <1>1, <2>3, RequestInOrder
  <2>4. CASE Commit(c) \/ Rollback(c)
    BY <1>1, <2>4, EndingInOrder
  <2>5. CASE Master(c)
    BY <1>1, <2>5, MasterInOrder
  <2>6. CASE \E s \in Names : Expire(s, c)
    BY <2>6 DEF Expire
  <2>7. QED
    BY <2>1, <2>2, <2>3, <2>4, <2>5, <2>6
<1>4. QED
  BY <1>2, <1>3

LEMMA MirrorsAlways == Spec => []MirrorsInvariant
<1>1. QED
  BY MirrorsInit, MirrorsNext, PTL DEF Spec

\* The mirrors' stores and the master's transaction_map, and the requests under way,
\* are of their types.
THEOREM MirrorsType == Spec => []TypeOK
<1>1. MirrorsInvariant => TypeOK
  BY DEF MirrorsInvariant, Typed, MirrorTyped, AtTyped, MasterTyped, IsWork, TypeOK
<1>2. QED
  BY <1>1, MirrorsAlways, PTL

\* A change that a client was told is stored, by the answer to the call outside a
\* transaction or by that to normalTranCommit, is stored by every mirror.
THEOREM OKEverywhere == Spec => []OKOnEveryMirror
<1>1. MirrorsInvariant => OKOnEveryMirror
  BY DEF MirrorsInvariant, Reported, OKOnEveryMirror
<1>2. QED
  BY <1>1, MirrorsAlways, PTL

\* A change that a client was told is rolled back (normalTranRollback) is stored by none.
THEOREM UndoneStaysOut == Spec => []UndoneNowhere
<1>1. MirrorsInvariant => UndoneNowhere
  BY DEF MirrorsInvariant, Reported, UndoneNowhere
<1>2. QED
  BY <1>1, MirrorsAlways, PTL

\* What a mirror has done for a call of a client in work is what the client's method does on
\* a store of its own, whichever of the methods that the switch knows it calls: the codes of
\* the operators, the switch of drule_operate and the handlers fit together.
THEOREM DoneAsAsked == Spec => []DoesWhatWasAsked
<1>1. MirrorsInvariant => DoesWhatWasAsked
  <2> SUFFICES ASSUME MirrorsInvariant, NEW c \in Clients, at[c].pc = "call", NEW op \in at[c].did
               PROVE  Alike(op, T!Methods[at[c].method])
    BY DEF DoesWhatWasAsked, Alike
  <2>1. at[c].method \in Called[c] /\ at[c].intran \in BOOLEAN
    BY DEF MirrorsInvariant, Typed, AtTyped, IsWork, Idle
  <2>2. op = OperationOf(at[c].intran, at[c].method)
    BY DEF MirrorsInvariant, ClientInv, DidAsAsked
  <2>3. QED
    BY <2>1, <2>2, AllFit, CalledAssumption DEF Fits
<1>2. QED
  BY <1>1, MirrorsAlways, PTL

\* As long as nothing breaks, nothing times out and all changes are made in transactions, the
\* mirrors have the same role whenever the master commits for no client.
THEOREM MirrorsInStep == Spec => []MirrorsAgree
<1>1. InOrder => MirrorsAgree
  BY DEF InOrder, Agreed, Between, MirrorsAgree
<1>2. Spec => [](~disturbed => InOrder)
  <2>1. Init => (~disturbed => InOrder)
    BY OrderInit
  <2>2. MirrorsInvariant /\ (~disturbed => InOrder) /\ [Next]_vars => (~disturbed => InOrder)'
    BY OrderNext
  <2>3. QED
    BY <2>1, <2>2, MirrorsAlways, PTL DEF Spec
<1>3. (~disturbed => InOrder) => MirrorsAgree
  BY <1>1 DEF MirrorsAgree
<1>4. QED
  BY <1>2, <1>3, PTL
=============================================================================
