---------------------------- MODULE NetMessages ----------------------------
(***************************************************************************)
(* The messages between an operator and a DRule                            *)
(* (src/srule/operator/struct_net.go).  Each type has its fields, the      *)
(* steps in which MarshalBinary writes them, and the steps in which        *)
(* UnmarshalBinary reads them; all are written by hand.  One message after *)
(* the other goes over the connection, which keeps it whole.               *)
(***************************************************************************)
EXTENDS NetCodec, FiniteSets, TLC

CONSTANTS Strings, Ids, Numbers,    \* what is sent: no string is as long as Base
          NoMessage

VARIABLES name,         \* the type of the message under way
          sent,         \* the message, or NoMessage
          wire,         \* its bytes
          received      \* what the receiver has made of them, or NoMessage

vars == <<name, sent, wire, received>>

----------------------------------------------------------------------------
\* Head of every request.
O_OperatorSend ==
    [ OperateZone |-> "int", Operate |-> "int", OperatorName |-> "string",
      InTransaction |-> "bool", TransactionId |-> "id", SpotId |-> "string",
      AreaId |-> "string", User |-> "string", Unid |-> "string" ]

O_OperatorSendMarshal ==
    << As("int", "OperateZone"), As("int", "Operate"), As("string", "OperatorName"),
       As("bool", "InTransaction"), When([InTransaction |-> {TRUE}], As("id", "TransactionId")),
       As("string", "SpotId"), As("string", "AreaId"), As("string", "User"),
       As("string", "Unid") >>

O_OperatorSendUnmarshal ==
    << As("int", "OperateZone"), As("int", "Operate"), As("string", "OperatorName"),
       As("bool", "InTransaction"), When([InTransaction |-> {TRUE}], As("id", "TransactionId")),
       As("string", "SpotId"), As("string", "AreaId"), As("string", "User"),
       As("string", "Unid") >>

\* Head of every answer.
O_DRuleReceipt == [DataStat |-> "int", Error |-> "string"]

O_DRuleReceiptMarshal == << As("int", "DataStat"), As("string", "Error") >>

O_DRuleReceiptUnmarshal == << As("int", "DataStat"), As("string", "Error") >>

\* An error and its code; one without an error cannot be written.
DRuleError == [Code |-> "int", Err |-> "string"]

DRuleErrorMarshal == << As("int", "Code"), As("string", "Err") >>

DRuleErrorUnmarshal == << As("int", "Code"), As("string", "Err") >>

O_Transaction ==
    [ TransactionId |-> "id", InTransaction |-> "bool", Area |-> "string",
      PrepareIDs |-> "strings" ]

O_TransactionMarshal ==
    << As("bool", "InTransaction"), When([InTransaction |-> {TRUE}], As("id", "TransactionId")),
       As("string", "Area"), As("strings", "PrepareIDs") >>

O_TransactionUnmarshal ==
    << As("bool", "InTransaction"), When([InTransaction |-> {TRUE}], As("id", "TransactionId")),
       As("string", "Area"), As("strings", "PrepareIDs") >>

----------------------------------------------------------------------------
\* The spots.

O_SpotSendAndReceive == [IfHave |-> "bool", Area |-> "string", SpotId |-> "string"]

O_SpotSendAndReceiveMarshal ==
    << As("bool", "IfHave"), As("string", "Area"), As("string", "SpotId") >>

O_SpotSendAndReceiveUnmarshal ==
    << As("bool", "IfHave"), As("string", "Area"), As("string", "SpotId") >>

O_SpotFatherChange == [Area |-> "string", SpotId |-> "string", Father |-> "string"]

O_SpotFatherChangeMarshal ==
    << As("string", "Area"), As("string", "SpotId"), As("string", "Father") >>

O_SpotFatherChangeUnmarshal ==
    << As("string", "Area"), As("string", "SpotId"), As("string", "Father") >>

O_SpotAndChildren == [Area |-> "string", SpotId |-> "string", Children |-> "strings"]

O_SpotAndChildrenMarshal ==
    << As("string", "Area"), As("string", "SpotId"), As("strings", "Children") >>

O_SpotAndChildrenUnmarshal ==
    << As("string", "Area"), As("string", "SpotId"), As("strings", "Children") >>

O_SpotAndChild ==
    [Area |-> "string", SpotId |-> "string", Child |-> "string", Exist |-> "bool"]

O_SpotAndChildMarshal ==
    << As("string", "Area"), As("string", "SpotId"), As("string", "Child"), As("bool", "Exist") >>

O_SpotAndChildUnmarshal ==
    << As("string", "Area"), As("string", "SpotId"), As("string", "Child"), As("bool", "Exist") >>

O_SpotAndFriends == [Area |-> "string", SpotId |-> "string", Friends |-> "friends"]

O_SpotAndFriendsMarshal ==
    << As("string", "Area"), As("string", "SpotId"), As("friends", "Friends") >>

O_SpotAndFriendsUnmarshal ==
    << As("string", "Area"), As("string", "SpotId"), As("friends", "Friends") >>

O_SpotAndFriend ==
    [Area |-> "string", SpotId |-> "string", Friend |-> "string", Exist |-> "bool"]

O_SpotAndFriendMarshal ==
    << As("string", "Area"), As("string", "SpotId"), As("string", "Friend"), As("bool", "Exist") >>

O_SpotAndFriendUnmarshal ==
    << As("string", "Area"), As("string", "SpotId"), As("string", "Friend"), As("bool", "Exist") >>

\* Single says which value goes: 0 for a whole Status, 1 to 4 for one by its type.
O_SpotAndFriend_Data ==
    [ Single |-> "uint8", Status |-> "status", Bit |-> "int", Int |-> "int",
      Float |-> "int", Complex |-> "complex", String |-> "string" ]

O_SpotAndFriend_DataMarshal ==
    << As("uint8", "Single"), When([Single |-> {0}], As("status", "Status")),
       When([Single |-> 1..4], As("int", "Bit")), When([Single |-> {1}], As("int", "Int")),
       When([Single |-> {2}], As("int", "Float")), When([Single |-> {3}], As("complex", "Complex")),
       When([Single |-> {4}], As("string", "String")) >>

O_SpotAndFriend_DataUnmarshal ==
    << As("uint8", "Single"), When([Single |-> {0}], As("status", "Status")),
       When([Single |-> 1..4], As("int", "Bit")), When([Single |-> {1}], As("int", "Int")),
       When([Single |-> {2}], As("int", "Float")), When([Single |-> {3}], As("complex", "Complex")),
       When([Single |-> {4}], As("string", "String")) >>

O_SpotAndContext ==
    [ Area |-> "string", SpotId |-> "string", Context |-> "string", UpOrDown |-> "uint8",
      BindSpot |-> "string", Exist |-> "bool" ]

O_SpotAndContextMarshal ==
    << As("string", "Area"), As("string", "SpotId"), As("string", "Context"),
       As("uint8", "UpOrDown"), As("string", "BindSpot"), As("bool", "Exist") >>

\* Mutant of O_SpotAndContextUnmarshal: two steps have changed places.
O_SpotAndContextUnmarshalSwapped ==
    << As("string", "Area"), As("string", "SpotId"), As("string", "Context"),
       As("string", "BindSpot"), As("uint8", "UpOrDown"), As("bool", "Exist") >>

O_SpotAndContextUnmarshal ==
    << As("string", "Area"), As("string", "SpotId"), As("string", "Context"),
       As("uint8", "UpOrDown"), As("string", "BindSpot"), As("bool", "Exist") >>

\* Type says what goes, and Single which value if it is one; but Single itself neither
\* method has a step for.
O_SpotAndContext_Data ==
    [ Type |-> "uint8", Single |-> "uint8", Status |-> "status", ContextBody |-> "context",
      Gather |-> "strings", Bit |-> "int", Int |-> "int", Float |-> "int",
      Complex |-> "complex", String |-> "string" ]

O_SpotAndContext_DataMarshal ==
    << As("uint8", "Type"), When([Type |-> {1}], As("int", "Bit")),
       When([Type |-> {1}, Single |-> {1}], As("int", "Int")),
       When([Type |-> {1}, Single |-> {2}], As("int", "Float")),
       When([Type |-> {1}, Single |-> {3}], As("complex", "Complex")),
       When([Type |-> {1}, Single |-> {0, 4}], As("string", "String")),
       When([Type |-> {2}], As("status", "Status")),
       When([Type |-> {3}], As("context", "ContextBody")),
       When([Type |-> {4}], As("strings", "Gather")) >>

O_SpotAndContext_DataUnmarshal ==
    << As("uint8", "Type"), When([Type |-> {1}], As("int", "Bit")),
       When([Type |-> {1}, Single |-> {1}], As("int", "Int")),
       When([Type |-> {1}, Single |-> {2}], As("int", "Float")),
       When([Type |-> {1}, Single |-> {3}], As("complex", "Complex")),
       When([Type |-> {1}, Single |-> {0, 4}], As("string", "String")),
       When([Type |-> {2}], As("status", "Status")),
       When([Type |-> {3}], As("context", "ContextBody")),
       When([Type |-> {4}], As("strings", "Gather")) >>

O_SpotAndContexts == [Area |-> "string", SpotId |-> "string", Contexts |-> "contexts"]

O_SpotAndContextsMarshal ==
    << As("string", "Area"), As("string", "SpotId"), As("contexts", "Contexts") >>

O_SpotAndContextsUnmarshal ==
    << As("string", "Area"), As("string", "SpotId"), As("contexts", "Contexts") >>

O_SpotData == [Area |-> "string", SpotId |-> "string", Name |-> "string", Data |-> "string"]

O_SpotDataMarshal ==
    << As("string", "Area"), As("string", "SpotId"), As("string", "Name"), As("string", "Data") >>

O_SpotDataUnmarshal ==
    << As("string", "Area"), As("string", "SpotId"), As("string", "Name"), As("string", "Data") >>

----------------------------------------------------------------------------
\* The areas, the users, and the other DRules.

O_Area == [AreaName |-> "string", Rename |-> "string", Exist |-> "bool"]

O_AreaMarshal == << As("string", "AreaName"), As("string", "Rename"), As("bool", "Exist") >>

O_AreaUnmarshal == << As("string", "AreaName"), As("string", "Rename"), As("bool", "Exist") >>

O_DRuleUserKeep == [UserName |-> "string", Unid |-> "id"]

O_DRuleUserKeepMarshal == << As("string", "UserName"), As("id", "Unid") >>

O_DRuleUserKeepUnmarshal == << As("string", "UserName"), As("id", "Unid") >>

O_DRuleUserLog == [UserName |-> "string", Password |-> "id"]

O_DRuleUserLogMarshal == << As("string", "UserName"), As("id", "Password") >>

O_DRuleUserLogUnmarshal == << As("string", "UserName"), As("id", "Password") >>

O_DRuleUserReg == [UserName |-> "string", Password |-> "id", Email |-> "string"]

O_DRuleUserRegMarshal == << As("string", "UserName"), As("id", "Password"), As("string", "Email") >>

O_DRuleUserRegUnmarshal == << As("string", "UserName"), As("id", "Password"), As("string", "Email") >>

O_Area_User == [UserName |-> "string", Area |-> "string", Add |-> "bool", WRable |-> "bool"]

O_Area_UserMarshal ==
    << As("string", "UserName"), As("string", "Area"), As("bool", "Add"), As("bool", "WRable") >>

\* WRable is read into Add.
O_Area_UserUnmarshal ==
    << As("string", "UserName"), As("string", "Area"), As("bool", "Add"), As("bool", "Add") >>

O_DRuleOperator ==
    [ Name |-> "string", Address |-> "string", ConnNum |-> "int", TLS |-> "bool",
      UserName |-> "string", Password |-> "string" ]

O_DRuleOperatorMarshal ==
    << As("string", "Name"), As("string", "Address"), As("int", "ConnNum"), As("bool", "TLS"),
       As("string", "UserName"), As("string", "Password") >>

O_DRuleOperatorUnmarshal ==
    << As("string", "Name"), As("string", "Address"), As("int", "ConnNum"), As("bool", "TLS"),
       As("string", "UserName"), As("string", "Password") >>

O_AreasRouter ==
    [AreaName |-> "string", Mirror |-> "bool", Mirrors |-> "strings", Chars |-> "chars"]

O_AreasRouterMarshal ==
    << As("string", "AreaName"), As("bool", "Mirror"), As("strings", "Mirrors"),
       As("chars", "Chars") >>

\* The map for Chars is not made.
O_AreasRouterUnmarshal ==
    << As("string", "AreaName"), As("bool", "Mirror"), As("strings", "Mirrors"),
       As("nil map", "Chars") >>

----------------------------------------------------------------------------
(* The connection.                                                         *)

Type(fields, marshal, unmarshal) ==
    [fields |-> fields, marshal |-> marshal, unmarshal |-> unmarshal]

Types ==
    [ O_OperatorSend |->
          Type(O_OperatorSend, O_OperatorSendMarshal, O_OperatorSendUnmarshal),
      O_DRuleReceipt |->
          Type(O_DRuleReceipt, O_DRuleReceiptMarshal, O_DRuleReceiptUnmarshal),
      DRuleError |-> Type(DRuleError, DRuleErrorMarshal, DRuleErrorUnmarshal),
      O_Transaction |-> Type(O_Transaction, O_TransactionMarshal, O_TransactionUnmarshal),
      O_SpotSendAndReceive |->
          Type(O_SpotSendAndReceive, O_SpotSendAndReceiveMarshal, O_SpotSendAndReceiveUnmarshal),
      O_SpotFatherChange |->
          Type(O_SpotFatherChange, O_SpotFatherChangeMarshal, O_SpotFatherChangeUnmarshal),
      O_SpotAndChildren |->
          Type(O_SpotAndChildren, O_SpotAndChildrenMarshal, O_SpotAndChildrenUnmarshal),
      O_SpotAndChild |-> Type(O_SpotAndChild, O_SpotAndChildMarshal, O_SpotAndChildUnmarshal),
      O_SpotAndFriends |->
          Type(O_SpotAndFriends, O_SpotAndFriendsMarshal, O_SpotAndFriendsUnmarshal),
      O_SpotAndFriend |-> Type(O_SpotAndFriend, O_SpotAndFriendMarshal, O_SpotAndFriendUnmarshal),
      O_SpotAndFriend_Data |->
          Type(O_SpotAndFriend_Data, O_SpotAndFriend_DataMarshal, O_SpotAndFriend_DataUnmarshal),
      O_SpotAndContext |->
          Type(O_SpotAndContext, O_SpotAndContextMarshal, O_SpotAndContextUnmarshal),
      O_SpotAndContext_Data |->
          Type(O_SpotAndContext_Data, O_SpotAndContext_DataMarshal, O_SpotAndContext_DataUnmarshal),
      O_SpotAndContexts |->
          Type(O_SpotAndContexts, O_SpotAndContextsMarshal, O_SpotAndContextsUnmarshal),
      O_SpotData |-> Type(O_SpotData, O_SpotDataMarshal, O_SpotDataUnmarshal),
      O_Area |-> Type(O_Area, O_AreaMarshal, O_AreaUnmarshal),
      O_DRuleUserKeep |-> Type(O_DRuleUserKeep, O_DRuleUserKeepMarshal, O_DRuleUserKeepUnmarshal),
      O_DRuleUserLog |-> Type(O_DRuleUserLog, O_DRuleUserLogMarshal, O_DRuleUserLogUnmarshal),
      O_DRuleUserReg |-> Type(O_DRuleUserReg, O_DRuleUserRegMarshal, O_DRuleUserRegUnmarshal),
      O_Area_User |-> Type(O_Area_User, O_Area_UserMarshal, O_Area_UserUnmarshal),
      O_DRuleOperator |-> Type(O_DRuleOperator, O_DRuleOperatorMarshal, O_DRuleOperatorUnmarshal),
      O_AreasRouter |-> Type(O_AreasRouter, O_AreasRouterMarshal, O_AreasRouterUnmarshal) ]

MapsTo(S) == UNION {[keys -> S] : keys \in SUBSET Strings}

Statuses == {[Int |-> i, Float |-> 2 * i, Complex |-> 3 * i, String |-> s] : i \in Numbers, s \in Strings}

OneStatus == CHOOSE s \in Statuses : s.Int # 0 /\ s.String # << >>

Contexts == [Up : MapsTo({OneStatus}), Down : MapsTo({OneStatus})]

Slices == {<< >>} \cup {<<s>> : s \in Strings} \cup {<<s, t>> : s, t \in Strings}

Values(kind) ==
    CASE kind \in {"int", "complex"} -> Numbers
      [] kind = "uint8"    -> 0..4
      [] kind = "bool"     -> BOOLEAN
      [] kind = "string"   -> Strings
      [] kind = "id"       -> Ids
      [] kind = "strings"  -> Slices
      [] kind = "status"   -> Statuses
      [] kind = "context"  -> Contexts
      [] kind = "friends"  -> MapsTo(Statuses)
      [] kind = "contexts" -> MapsTo(Contexts)
      [] kind = "chars"    -> MapsTo(Slices)

\* What a field is that has not been set; a Status and a Context without slots or names
\* are as good as new ones.
Zero(kind) ==
    CASE kind \in {"int", "complex", "uint8"} -> 0
      [] kind = "bool"    -> FALSE
      [] kind = "status"  -> [Int |-> 0, Float |-> 0, Complex |-> 0, String |-> << >>]
      [] kind = "context" -> [Up |-> << >>, Down |-> << >>]
      [] OTHER            -> << >>

Empty(n) == [f \in DOMAIN Types[n].fields |-> Zero(Types[n].fields[f])]

\* The fields on which steps depend; and those a message has something in.
Conditions(n) == UNION {DOMAIN step.when : step \in ToSet(Types[n].marshal)}

Messages(n) ==
    LET fields == Types[n].fields
        Set(M, c) == UNION {{[m EXCEPT ![c] = v] : v \in Values(fields[c])} : m \in M}
        Used(m) == {step.field : step \in {s \in ToSet(Types[n].marshal) : Applies(s, m)}}
        Filled(m) == FoldFunction(LAMBDA f, M : Set(M, f), {m}, [f \in Used(m) \ Conditions(n) |-> f])
    IN  UNION {Filled(m) : m \in FoldFunction(LAMBDA f, M : Set(M, f), {Empty(n)},
                                              [f \in Conditions(n) |-> f])}

Init == name = "" /\ sent = NoMessage /\ wire = << >> /\ received = NoMessage

Send(n) ==
    /\ sent = NoMessage
    /\ \E m \in Messages(n) : sent' = m /\ wire' = Marshal(Types[n].marshal, m)
    /\ name' = n
    /\ UNCHANGED received

Receive ==
    /\ sent # NoMessage /\ received = NoMessage
    /\ received' = Unmarshal(Types[name].unmarshal, Empty(name), wire)
    /\ UNCHANGED <<name, sent, wire>>

\* The next message is a new one for both.
Done ==
    /\ received # NoMessage
    /\ name' = "" /\ sent' = NoMessage /\ wire' = << >> /\ received' = NoMessage

Next == (\E n \in DOMAIN Types : Send(n)) \/ Receive \/ Done

Spec == Init /\ [][Next]_vars

----------------------------------------------------------------------------
\* What struct_net.go loses: of O_Area_User the two flags, for WRable is read into Add;
\* the routes of an O_AreasRouter, whose map is not made; and of a single value for a
\* context its type, and so the value.
Lost ==
    CASE name = "O_Area_User"           -> {"Add", "WRable"}
      [] name = "O_AreasRouter"         -> {"Chars"}
      [] name = "O_SpotAndContext_Data" ->
             {"Single"} \cup IF sent.Type = 1 THEN {"Int", "Float", "Complex", "String"} ELSE {}
      [] OTHER                          -> {}

\* The two that end in a panic or stop too early.
Misread == name = "O_AreasRouter" \/ (name = "O_SpotAndContext_Data" /\ sent.Type = 1)

\* What is received is what was sent, but for Lost; and nothing of it is left unread,
\* so that what follows the head of a request is read from where it starts.  Each
\* UnmarshalBinary of struct_net.go must read what its MarshalBinary has written,
\* step by step, for whatever lengths and conditions.
WhatIsSentArrives ==
    received # NoMessage =>
        /\ \A f \in DOMAIN sent \ Lost : received.value[f] = sent[f]
        /\ ~Misread => received.ok /\ received.rest = << >>
=============================================================================
