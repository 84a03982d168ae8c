----------------------------- MODULE RoleFiles -----------------------------
(***************************************************************************)
(* The files of one role (src/drule2/hardstorage/hardstorage.go).  In each *)
(* area the role has three: the main file with its version, which alone    *)
(* says that the role exists, and those with its data and its relation.    *)
(*                                                                         *)
(* One client of the storage holds the role in memory: it encodes a Go     *)
(* object or reads the files, changes what it holds, as it is              *)
(* (RoleMiddleData) or as a Go object (RoleObject), and stores it, here or *)
(* in another area.  ioutil.WriteFile truncates before it writes, and both *)
(* steps may fail; RemoveAll of an area runs between the steps of a store; *)
(* the program may crash between any two steps.                            *)
(***************************************************************************)
EXTENDS RoleObject, Sequences, FiniteSets

CONSTANTS Areas, NoRole, NoArea, Missing, Torn,
          MaxCalls,     \* bound: calls of the client
          MaxFaults     \* bound: writes that fail, and crashes

VARIABLES role,         \* what the client holds
          disk,         \* of each area: its three files, or NoArea
          call,         \* the store or delete under way
          emptying,     \* the areas that an AreaDelete is emptying
          synced,       \* the area whose files hold the role, where not marked; or NoArea
          clean,        \* the role has not been changed since it was read or stored
          broken,       \* areas where a fault, or half a role stored, may have left pieces
          calls, faults

vars == <<role, disk, call, emptying, synced, clean, broken, calls, faults>>

Files == {"version", "data", "relation"}

\* What the files hold when they are whole: the parts of the role of the same names.
Contents == [version |-> Values, data |-> [Fields -> Values], relation |-> Relations]

Pieces == {Missing, Torn} \cup UNION {Contents[f] : f \in Files}

ASSUME RoleFilesAssumption ==
    /\ {0, 2} \subseteq Values
    /\ NoRole \notin Roles
    /\ NoArea \notin Areas \cup [Files -> Pieces]
    /\ Missing # Torn
    /\ \A f \in Files : Missing \notin Contents[f] /\ Torn \notin Contents[f]
    /\ MaxCalls \in Nat /\ MaxFaults \in Nat

NoFiles == [f \in Files |-> Missing]

Idle == [op |-> "idle", area |-> NoArea, files |-> << >>, opened |-> FALSE]

RoleTyped == role # NoRole => role \in Roles

DiskTyped ==
    \A a \in Areas : disk[a] # NoArea =>
        /\ DOMAIN disk[a] = Files
        /\ \A f \in Files : disk[a][f] \notin {Missing, Torn} => disk[a][f] \in Contents[f]

\* Everything has its type; what is under way has files left, and a role to store.
TypeOK ==
    /\ RoleTyped
    /\ DOMAIN disk = Areas /\ DiskTyped
    /\ call.op \in {"idle", "store", "delete"} /\ call.area \in Areas \cup {NoArea}
    /\ call.files \in UNION {[1..n -> Files] : n \in 0..3} /\ call.opened \in BOOLEAN
    /\ (call.op = "idle") <=> (call.files = << >>)
    /\ call.op = "store" => role # NoRole
    /\ emptying \subseteq Areas /\ broken \subseteq Areas
    /\ synced \in Areas \cup {NoArea} /\ clean \in BOOLEAN
    /\ calls \in 0..MaxCalls /\ faults \in 0..MaxFaults

Init ==
    /\ role = NoRole /\ disk = [a \in Areas |-> NoArea] /\ call = Idle /\ emptying = {}
    /\ synced = NoArea /\ clean = TRUE /\ broken = {} /\ calls = 0 /\ faults = 0

----------------------------------------------------------------------------
existArea(a) == disk[a] # NoArea

\* roleExist: the area and the main file are looked at, and no other.
roleExist(a) == existArea(a) /\ disk[a]["version"] # Missing

Calls == call = Idle /\ calls < MaxCalls /\ calls' = calls + 1 /\ UNCHANGED faults

\* The client gets a role: a new one, from a Go object.
Encode ==
    /\ Calls
    /\ \E d \in [Fields -> Values] : role' = Encoded(RoleNew(d))
    /\ synced' = NoArea /\ clean' = FALSE
    /\ UNCHANGED <<disk, call, emptying, broken>>

\* A status that has come from a file has all its slots.
WithSlots(statuses) == [n \in DOMAIN statuses |-> [statuses[n] EXCEPT !.strings = TRUE]]

Decoded(relation) ==
    [relation EXCEPT
       !.friends = WithSlots(@),
       !.contexts = [c \in DOMAIN @ |-> [up |-> WithSlots(@[c].up),
                                         down |-> WithSlots(@[c].down)]]]

\* Mutant of RoleReadMiddleData: only the main file must be there whole.
RoleReadMiddleDataByMainFile(a) ==
    /\ Calls /\ roleExist(a)
    /\ disk[a]["version"] # Torn
    /\ role' = [ version |-> disk[a]["version"], data |-> disk[a]["data"],
                 relation |-> disk[a]["relation"],
                 VersionChange |-> FALSE, DataChange |-> FALSE, RelationChange |-> FALSE ]
    /\ synced' = IF a \in emptying THEN NoArea ELSE a
    /\ clean' = TRUE
    /\ UNCHANGED <<disk, call, emptying, broken>>

\* RoleReadMiddleData: all three files must decode, or there is an error.
RoleReadMiddleData(a) ==
    /\ Calls /\ roleExist(a)
    /\ \A f \in Files : disk[a][f] \notin {Missing, Torn}
    /\ role' = [ version |-> disk[a]["version"], data |-> disk[a]["data"],
                 relation |-> Decoded(disk[a]["relation"]),
                 VersionChange |-> FALSE, DataChange |-> FALSE, RelationChange |-> FALSE ]
    /\ synced' = IF a \in emptying THEN NoArea ELSE a
    /\ clean' = TRUE
    /\ UNCHANGED <<disk, call, emptying, broken>>

\* The client calls a method of what it holds; a panic ends the program, which takes
\* what is under way in other goroutines with it.
Change ==
    /\ Calls /\ role # NoRole
    /\ \E result \in Changes(role) :
          IF result.answer = "panic"
          THEN /\ role' = NoRole /\ synced' = NoArea /\ clean' = TRUE /\ emptying' = {}
          ELSE /\ role' = result.role /\ clean' = FALSE
               /\ UNCHANGED <<synced, emptying>>
    /\ UNCHANGED <<disk, call, broken>>

\* The client makes a Go object of what it holds (RoleRead), calls a method of it, and
\* makes it what is stored (RoleStore and RoleUpdate).
ChangeObject ==
    /\ Calls /\ role # NoRole
    /\ \E result \in RoleChanges(DecodeMiddleToRole(role)) :
          IF result.answer = "panic"
          THEN /\ role' = NoRole /\ synced' = NoArea /\ clean' = TRUE /\ emptying' = {}
          ELSE /\ role' = Encoded(result.role) /\ clean' = FALSE
               /\ UNCHANGED <<synced, emptying>>
    /\ UNCHANGED <<disk, call, broken>>

----------------------------------------------------------------------------
Marks(f) ==
    \/ f = "version" /\ role.VersionChange
    \/ f = "data" /\ role.DataChange
    \/ f = "relation" /\ role.RelationChange

AllMarked == \A f \in Files : Marks(f)

\* storeRoleMiddle: the files of the marked parts, in this order.
StoreOrder ==
    LET IfMarked(f) == IF Marks(f) THEN <<f>> ELSE << >>
    IN  IfMarked("version") \o IfMarked("data") \o IfMarked("relation")

\* A store of the whole role makes good what was broken; one of parts of a role that
\* the area does not hold leaves half a role.
Begun(a) ==
    /\ call' = IF StoreOrder = << >> THEN Idle
               ELSE [op |-> "store", area |-> a, files |-> StoreOrder, opened |-> FALSE]
    /\ broken' = IF AllMarked /\ a \notin emptying THEN broken \ {a}
                 ELSE IF synced = a THEN broken ELSE broken \cup {a}
    /\ UNCHANGED <<role, disk, emptying, synced, clean>>

\* RoleStoreMiddleData, RoleAddMiddleData and RoleAdd ask for the area, and no more: a
\* role that is there is written over.
RoleStoreMiddleData(a) == Calls /\ role # NoRole /\ existArea(a) /\ Begun(a)

\* RoleUpdateMiddleData and RoleUpdate ask for the role as well.
RoleUpdateMiddleData(a) == RoleStoreMiddleData(a) /\ roleExist(a)

\* Mutant of RoleDelete: the main file stays.
RoleDeleteWithoutMainFile(a) ==
    /\ Calls /\ roleExist(a)
    /\ call' = [op |-> "delete", area |-> a, files |-> <<"relation", "data">>,
                opened |-> FALSE]
    /\ synced' = IF synced = a THEN NoArea ELSE synced
    /\ UNCHANGED <<role, disk, emptying, clean, broken>>

RoleDelete(a) ==
    /\ Calls /\ roleExist(a)
    /\ call' = [op |-> "delete", area |-> a, files |-> <<"version", "relation", "data">>,
                opened |-> FALSE]
    /\ synced' = IF synced = a THEN NoArea ELSE synced
    /\ UNCHANGED <<role, disk, emptying, clean, broken>>

----------------------------------------------------------------------------
\* The steps of a store and of a delete.

File == Head(call.files)

FileDone ==
    call' = IF Tail(call.files) = << >> THEN Idle
            ELSE [call EXCEPT !.files = Tail(@), !.opened = FALSE]

\* The last step of a store leaves the whole role in the area, if all of it was
\* written or the rest was there, and nothing has come between.
Stored ==
    IF /\ Tail(call.files) = << >> /\ (AllMarked \/ synced = call.area)
       /\ existArea(call.area) /\ call.area \notin broken \cup emptying
    THEN synced' = call.area /\ clean' = TRUE
    ELSE UNCHANGED <<synced, clean>>

\* WriteFile opens the file, and so truncates or creates it.
Truncate ==
    /\ call.op = "store" /\ ~call.opened /\ existArea(call.area)
    /\ disk' = [disk EXCEPT ![call.area][File] = Torn]
    /\ call' = [call EXCEPT !.opened = TRUE]
    /\ UNCHANGED <<role, emptying, synced, clean, broken, calls, faults>>

\* What is written to a file that was removed meanwhile is gone.
Write ==
    /\ call.op = "store" /\ call.opened
    /\ disk' = IF existArea(call.area) /\ disk[call.area][File] = Torn
               THEN [disk EXCEPT ![call.area][File] = role[File]] ELSE disk
    /\ FileDone /\ Stored
    /\ UNCHANGED <<role, emptying, broken, calls, faults>>

\* An error ends the store; the role in memory keeps its marks.
StoreEnds ==
    /\ call' = Idle
    /\ synced' = IF synced = call.area THEN NoArea ELSE synced
    /\ broken' = broken \cup {call.area}
    /\ UNCHANGED <<role, disk, emptying, clean, calls>>

\* The file cannot be opened: its directory is gone, or is going.
OpenFails ==
    /\ call.op = "store" /\ ~call.opened
    /\ ~existArea(call.area) \/ call.area \in emptying
    /\ StoreEnds /\ UNCHANGED faults

\* The disk refuses the open or the write.
WriteFails ==
    call.op = "store" /\ faults < MaxFaults /\ faults' = faults + 1 /\ StoreEnds

\* RoleDelete removes the files that are there, one after the other.
Remove ==
    /\ call.op = "delete"
    /\ disk' = IF existArea(call.area) THEN [disk EXCEPT ![call.area][File] = Missing]
               ELSE disk
    /\ FileDone
    /\ broken' = IF Tail(call.files) = << >> THEN broken \ {call.area} ELSE broken
    /\ UNCHANGED <<role, emptying, synced, clean, calls, faults>>

\* The program stops between any two steps, and starts again with nothing in memory.
Crash ==
    /\ faults < MaxFaults /\ faults' = faults + 1
    /\ role' = NoRole /\ call' = Idle /\ emptying' = {} /\ synced' = NoArea /\ clean' = TRUE
    /\ broken' = IF call = Idle THEN broken \cup emptying
                 ELSE broken \cup emptying \cup {call.area}
    /\ UNCHANGED <<disk, calls>>

----------------------------------------------------------------------------
\* The areas.  An area that is deleted is emptied file by file, in any order, while a
\* store or a delete goes on.

AreaInit(a) ==
    /\ Calls /\ ~existArea(a)
    /\ disk' = [disk EXCEPT ![a] = NoFiles]
    /\ UNCHANGED <<role, call, emptying, synced, clean, broken>>

AreaReName(a, b) ==
    /\ Calls /\ existArea(a) /\ ~existArea(b) /\ a \notin emptying
    /\ disk' = [disk EXCEPT ![b] = disk[a], ![a] = NoArea]
    /\ synced' = IF synced = a THEN b ELSE synced
    /\ broken' = {IF x = a THEN b ELSE x : x \in broken \ {b}}
    /\ UNCHANGED <<role, call, emptying, clean>>

AreaDelete(a) ==
    /\ existArea(a) /\ a \notin emptying
    /\ calls < MaxCalls /\ calls' = calls + 1
    /\ emptying' = emptying \cup {a}
    /\ synced' = IF synced = a THEN NoArea ELSE synced
    /\ broken' = broken \cup {a}
    /\ UNCHANGED <<role, disk, call, clean, faults>>

RemoveFile(a) ==
    /\ a \in emptying
    /\ \E f \in Files : disk[a][f] # Missing /\ disk' = [disk EXCEPT ![a][f] = Missing]
    /\ UNCHANGED <<role, call, emptying, synced, clean, broken, calls, faults>>

RemoveArea(a) ==
    /\ a \in emptying /\ disk[a] = NoFiles
    /\ disk' = [disk EXCEPT ![a] = NoArea] /\ emptying' = emptying \ {a}
    /\ broken' = IF call.area = a THEN broken ELSE broken \ {a}
    /\ UNCHANGED <<role, call, synced, clean, calls, faults>>

\* A file made meanwhile, or one that cannot be removed, keeps the directory, and
\* AreaDelete is an error.
RemoveAreaFails(a) ==
    /\ a \in emptying /\ disk[a] # NoFiles
    /\ emptying' = emptying \ {a} /\ broken' = broken \cup {a}
    /\ UNCHANGED <<role, disk, call, synced, clean, calls, faults>>

----------------------------------------------------------------------------
Next ==
    \/ Encode \/ Change \/ ChangeObject
    \/ \E a \in Areas :
          \/ RoleReadMiddleData(a) \/ RoleStoreMiddleData(a) \/ RoleUpdateMiddleData(a)
          \/ RoleDelete(a)
          \/ AreaInit(a) \/ AreaDelete(a) \/ RemoveFile(a) \/ RemoveArea(a)
          \/ RemoveAreaFails(a)
          \/ \E b \in Areas : AreaReName(a, b)
    \/ Truncate \/ Write \/ OpenFails \/ WriteFails \/ Remove \/ Crash

Spec == Init /\ [][Next]_vars

----------------------------------------------------------------------------
Busy(a) == call.area = a \/ a \in emptying

\* What a change that does not mark the relation leaves alone: DelContext, a call of
\* SetContextStatus that ends in an error, and the setters of one friend's status by
\* type change the rest.
UpToUnmarked(relation, stored) ==
    /\ relation.father = stored.father /\ relation.children = stored.children
    /\ DOMAIN stored.friends \subseteq DOMAIN relation.friends

OnDisk(f, a) ==
    LET stored == disk[a][f] IN
    /\ stored \notin {Missing, Torn}
    /\ \/ stored = role[f]
       \/ f = "relation" /\ ~Marks(f) /\ UpToUnmarked(role.relation, stored)

\* The role in memory and the files it was read from or stored to differ only in parts
\* that are marked and have changed since: the next store of the marked files leaves the
\* whole role on the disk, but for what UpToUnmarked leaves out.  A store of the marked
\* files only (hardstorage.go storeRoleMiddle) rests on this.
StoredOrMarked ==
    synced # NoArea /\ ~Busy(synced) =>
        \A f \in Files : clean \/ ~Marks(f) => OnDisk(f, synced)

\* What a method of the role says it has set, the method that reads it says is there,
\* whatever was done to the role before, in memory or through the files: a status that
\* AddFriend has made has no slots for strings, one made by SetFriendStatus or read
\* from a file has them.  Not so for a side that is neither up nor down, which is no
\* error to SetContextStatusInt and its kind, and loses the value.
WhatIsSetIsRead ==
    role # NoRole /\ call = Idle /\ ~clean =>
        \A n, c \in Names, v \in Values \ {0} :
            LET Reads(set, Read(_)) == set.answer = "ok" => Read(set.role) = Have(v)
                Lists(set, List(_)) == set.answer = "ok" => n \in List(set.role)
                Friend(r)  == FriendBind(r, n)
                Alike(r)   == GetSameBindFriendsId(r, v)
                Up(r)      == GetContextUp(r, c, n)
                Down(r)    == GetContextDown(r, c, n)
                UpAlike(r) == GetContextUpSameBind(r, c, v).value
                DownAlike(r) == GetContextDownSameBind(r, c, v).value
            IN
            /\ \A f \in Fields : Reads(SetData(role, f, v), LAMBDA r : GetData(r, f))
            /\ Reads(AddFriend(role, n, v), Friend) /\ Lists(AddFriend(role, n, v), Alike)
            /\ Reads(AddContextUp(role, c, n, v), Up)
            /\ Lists(AddContextUp(role, c, n, v), UpAlike)
            /\ Reads(AddContextDown(role, c, n, v), Down)
            /\ Lists(AddContextDown(role, c, n, v), DownAlike)
            /\ Reads(SetFriendStatusInt(role, n, 0, v), LAMBDA r : GetFriendStatusInt(r, n, 0))
            /\ Reads(SetFriendStatusFloat(role, n, 0, v), LAMBDA r : GetFriendStatusFloat(r, n, 0))
            /\ Reads(SetFriendStatusComplex(role, n, 0, v),
                     LAMBDA r : GetFriendStatusComplex(r, n, 0))
            /\ Reads(SetFriendStatusString(role, n, 0, v),
                     LAMBDA r : GetFriendStatusString(r, n, 0))
            /\ \A t \in {"number", "string"} :
                  Reads(SetFriendStatus(role, n, 0, t, v), LAMBDA r : GetFriendStatus(r, n, 0, t))
            /\ \A side \in {"up", "down"} :
                  /\ Reads(SetContextStatusInt(role, c, side, n, 0, v),
                           LAMBDA r : GetContextStatusInt(r, c, side, n, 0))
                  /\ Reads(SetContextStatusFloat(role, c, side, n, 0, v),
                           LAMBDA r : GetContextStatusFloat(r, c, side, n, 0))
                  /\ Reads(SetContextStatusComplex(role, c, side, n, 0, v),
                           LAMBDA r : GetContextStatusComplex(r, c, side, n, 0))
                  /\ Reads(SetContextStatusString(role, c, side, n, 0, v),
                           LAMBDA r : GetContextStatusString(r, c, side, n, 0))
                  /\ \A t \in {"number", "string"} :
                        Reads(SetContextStatus(role, c, side, n, 0, t, v),
                              LAMBDA r : GetContextStatus(r, c, side, n, 0, t))

\* Two calls end in the same way and leave the same role, but for marks; or one that is
\* the same once it has been stored and read again.
EndAlike(result, other) ==
    /\ result.answer = other.answer
    /\ \A part \in {"version", "data", "relation"} : result.role[part] = other.role[part]

EndAlikeOnceStored(result, other) ==
    /\ result.answer = other.answer
    /\ \A part \in {"version", "data"} : result.role[part] = other.role[part]
    /\ Decoded(result.role.relation) = Decoded(other.role.relation)

MethodsAgree(o, r) ==
    /\ EndAlike(RoleResetFather(o), ResetFather(r))
    /\ EndAlike(RoleResetChilren(o), ResetChilren(r))
    /\ EndAlike(RoleResetFriends(o), ResetFriends(r))
    /\ \A names \in SUBSET Names :
          LET friends  == [n \in names |-> Status(0)]
              contexts == [n \in names |-> EmptyContext]
          IN  /\ EndAlike(RoleSetChildren(o, names), SetChildren(r, names))
              /\ EndAlike(RoleSetFriends(o, friends), SetFriends(r, friends))
              /\ EndAlike(RoleSetContexts(o, contexts), SetContexts(r, contexts))
    /\ \A n \in Names :
          /\ EndAlike(RoleSetFather(o, n), SetFather(r, n))
          /\ EndAlike(RoleAddChild(o, n), AddChild(r, n))
          /\ EndAlike(RoleDeleteChild(o, n), DeleteChild(r, n))
          /\ EndAlike(RoleDeleteFriend(o, n), DeleteFriend(r, n))
          /\ ~RoleExistContext(o, n) => EndAlike(RoleNewContext(o, n), NewContext(r, n))
          /\ EndAlike(RoleDelContext(o, n), DelContext(r, n))
    /\ \A c, n \in Names :
          /\ EndAlike(RoleDelContextUp(o, c, n), DelContextUp(r, c, n))
          /\ EndAlike(RoleDelContextDown(o, c, n), DelContextDown(r, c, n))
    /\ \A v \in Values :
          /\ EndAlike(RoleSetVersion(o, v), SetVersion(r, v))
          /\ \A f \in Fields : EndAlike(SetField(o, f, v), SetData(r, f, v))
          /\ \A n \in Names :
                /\ EndAlikeOnceStored(RoleAddFriend(o, n, v), AddFriend(r, n, v))
                /\ EndAlike(RoleChangeFriend(o, n, v), ChangeFriend(r, n, v))
          /\ \A c, n \in Names :
                /\ EndAlikeOnceStored(RoleAddContextUp(o, c, n, v), AddContextUp(r, c, n, v))
                /\ EndAlikeOnceStored(RoleAddContextDown(o, c, n, v), AddContextDown(r, c, n, v))
          /\ \A n \in Names, b \in Bits, t \in Types :
                EndAlike(RoleSetFriendStatus(o, n, b, t, v), SetFriendStatus(r, n, b, t, v))
          /\ \A c, n \in Names, s \in Sides, b \in Bits, t \in Types :
                EndAlike(RoleSetContextStatus(o, c, s, n, b, t, v),
                         SetContextStatus(r, c, s, n, b, t, v))

\* A friend that is not there is an error to the role only.
ReadsAgree(o, r) ==
    /\ RoleGetContextsName(o) = GetContextsName(r)
    /\ \A c \in Names : RoleGetContext(o, c) = GetContext(r, c)
    /\ \A c, n \in Names :
          /\ RoleGetContextUp(o, c, n) = GetContextUp(r, c, n)
          /\ RoleGetContextDown(o, c, n) = GetContextDown(r, c, n)
    /\ \A v \in Values :
          /\ RoleGetSameBindFriendsId(o, v) = GetSameBindFriendsId(r, v)
          /\ \A c \in Names :
                /\ RoleGetContextUpSameBind(o, c, v) = GetContextUpSameBind(r, c, v)
                /\ RoleGetContextDownSameBind(o, c, v) = GetContextDownSameBind(r, c, v)
    /\ \A n \in Names, b \in Bits, t \in Types :
          LET read == RoleGetFriendStatus(o, n, b, t)
              other == GetFriendStatus(r, n, b, t)
          IN  read.have = other.have /\ read.value = other.value
    /\ \A c, n \in Names, s \in Sides, b \in Bits, t \in Types :
          RoleGetContextStatus(o, c, s, n, b, t) = GetContextStatus(r, c, s, n, b, t)

\* A method called on the role, and the method of the same name called on the Go object
\* made of it, end in the same way, leave the same role and read the same, whatever was
\* done before: the two sets of methods, which are written twice (roles/role.go and
\* roles/middle_data_operate.go), have not drifted apart.  A friend or a name of a context
\* that is added to the object has slots for strings, and one that is added to the role
\* has them only once it has been stored and read; and a context that is there is made
\* again by the role, and refused by the object.
ObjectAgrees ==
    role # NoRole /\ call = Idle /\ ~clean =>
        MethodsAgree(DecodeMiddleToRole(role), role) /\ ReadsAgree(DecodeMiddleToRole(role), role)

\* Where no store or delete has been broken off since a whole role was last stored or
\* removed, a role that exists can be read: its main file, which is written first and
\* which alone is looked at, never stands without the two others.  In particular what
\* an earlier delete that crashed has left is never taken for part of a new role.
ExistsReadable ==
    \A a \in Areas \ broken :
        roleExist(a) /\ ~Busy(a) => \A f \in Files : disk[a][f] \notin {Missing, Torn}
=============================================================================
