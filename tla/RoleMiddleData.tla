-------------------------- MODULE RoleMiddleData --------------------------
(***************************************************************************)
(* A role as the stores keep it in memory (src/roles): what each method of *)
(* RoleMiddleData that changes it does to its parts and to its marks.  The *)
(* marks say which of the role's three files the next store writes.        *)
(*                                                                         *)
(* A Status is reduced to one value that stands for its slots, and to      *)
(* whether it has slots for strings: AddFriend, AddContextUp and           *)
(* AddContextDown make one without.  The slice of the children has no      *)
(* duplicates here and is a set.  A method ends well (Ok), in an error     *)
(* (Refused), which may leave a change behind, or in a panic.              *)
(***************************************************************************)
EXTENDS Integers

CONSTANTS Names,      \* of roles, and of contexts
          Values,     \* of a Status, of the version, of a field of data; 0 is the zero value
          Fields,     \* the fields of the Go type whose role this is
          NoName      \* "", the father of a role that has none

NoFunction == [n \in {} |-> n]

PartialFunctions(S) == UNION {[D -> S] : D \in SUBSET Names}

Statuses == [bind : Values, strings : BOOLEAN]

Relations ==
    [ father : Names \cup {NoName}, children : SUBSET Names,
      friends : PartialFunctions(Statuses),
      contexts : PartialFunctions([up : PartialFunctions(Statuses),
                                   down : PartialFunctions(Statuses)]) ]

Roles == [ version : Values, relation : Relations, data : [Fields -> Values],
           VersionChange : BOOLEAN, RelationChange : BOOLEAN, DataChange : BOOLEAN ]

\* EncodeRoleToMiddle: a role made from a Go object, every part of it marked.
EncodeRoleToMiddle(version, relation, data) ==
    [ version |-> version, relation |-> relation, data |-> data,
      VersionChange |-> TRUE, RelationChange |-> TRUE, DataChange |-> TRUE ]

NewRelation == [father |-> NoName, children |-> {}, friends |-> NoFunction,
                contexts |-> NoFunction]

----------------------------------------------------------------------------
Ok(role) == [role |-> role, answer |-> "ok"]

Refused(role) == [role |-> role, answer |-> "error"]

Panic(role) == [role |-> role, answer |-> "panic"]

\* recover() turns a panic into an error; what was changed before stays.
Recovered(result) ==
    IF result.answer = "panic" THEN Refused(result.role) ELSE result

Marked(role) == [role EXCEPT !.RelationChange = TRUE]

With(f, name, value) ==
    [n \in DOMAIN f \cup {name} |-> IF n = name THEN value ELSE f[n]]

Without(f, name) == [n \in DOMAIN f \ {name} |-> f[n]]

EmptyContext == [up |-> NoFunction, down |-> NoFunction]

Status(value) == [bind |-> value, strings |-> TRUE]

StatusWithoutStrings(value) == [bind |-> value, strings |-> FALSE]

\* The name is given the status if it has none yet.
Present(f, name, status) == IF name \in DOMAIN f THEN f ELSE With(f, name, status)

----------------------------------------------------------------------------
\* The version and the data.

SetVersion(r, version) == Ok([r EXCEPT !.version = version, !.VersionChange = TRUE])

\* The pointer to a field that is not there is nil.
SetData(r, name, value) ==
    IF name \in DOMAIN r.data
    THEN Ok([r EXCEPT !.data[name] = value, !.DataChange = TRUE])
    ELSE Panic(r)

\* The father, the children and the friends.

SetFather(r, id) == Ok(Marked([r EXCEPT !.relation.father = id]))

ResetFather(r) == SetFather(r, NoName)

SetChildren(r, children) == Ok(Marked([r EXCEPT !.relation.children = children]))

ResetChilren(r) == SetChildren(r, {})

SetFriends(r, friends) == Ok(Marked([r EXCEPT !.relation.friends = friends]))

ResetFriends(r) == SetFriends(r, NoFunction)

ExistChild(r, name) == name \in r.relation.children

ExistFriend(r, name) == name \in DOMAIN r.relation.friends

\* Mutant of AddChild: the relation is not marked.
AddChildUnmarked(r, cid) ==
    IF ExistChild(r, cid) THEN Refused(r)
    ELSE Ok([r EXCEPT !.relation.children = @ \cup {cid}])

AddChild(r, cid) ==
    IF ExistChild(r, cid) THEN Refused(r)
    ELSE Ok(Marked([r EXCEPT !.relation.children = @ \cup {cid}]))

DeleteChild(r, child) ==
    IF ~ExistChild(r, child) THEN Refused(r)
    ELSE Ok(Marked([r EXCEPT !.relation.children = @ \ {child}]))

AddFriend(r, id, bind) ==
    IF ExistFriend(r, id) THEN Refused(r)
    ELSE Ok(Marked([r EXCEPT !.relation.friends = With(@, id, StatusWithoutStrings(bind))]))

\* The test for the friend is the wrong way round: a friend that is there is not
\* deleted, and to delete one that is not there only marks the relation.
DeleteFriend(r, id) == IF ExistFriend(r, id) THEN Refused(r) ELSE Ok(Marked(r))

\* Here too; and the friend that is not there has a bind of 0, and no slots.
ChangeFriend(r, id, bind) ==
    IF ExistFriend(r, id) THEN Refused(r)
    ELSE IF bind = 0 THEN Ok(r)
    ELSE Panic(r)

\* A friend that is not there is made first, whatever becomes of the call.  These
\* do not mark the relation.
FriendPresent(r, id) == [r EXCEPT !.relation.friends = Present(@, id, Status(0))]

SetFriendStatusInt(r, id, bit, value) ==
    IF bit > 9 THEN Refused(FriendPresent(r, id))
    ELSE IF bit < 0 THEN Panic(FriendPresent(r, id))
    ELSE Ok([FriendPresent(r, id) EXCEPT !.relation.friends[id].bind = value])

SetFriendStatusFloat(r, id, bit, value) == SetFriendStatusInt(r, id, bit, value)

SetFriendStatusComplex(r, id, bit, value) == SetFriendStatusInt(r, id, bit, value)

SetFriendStatusString(r, id, bit, value) ==
    IF bit <= 9 /\ ~FriendPresent(r, id).relation.friends[id].strings
    THEN Panic(r)
    ELSE SetFriendStatusInt(r, id, bit, value)

\* By the Go type of the value; this one marks the relation when it ends well.
SetFriendStatus(r, id, bit, type, value) ==
    LET set == CASE type = "string" -> SetFriendStatusString(r, id, bit, value)
                 [] type \in {"number", "narrow"} -> SetFriendStatusInt(r, id, bit, value)
                 [] OTHER           -> Refused(FriendPresent(r, id))
    IN  IF set.answer = "ok" THEN Ok(Marked(set.role)) ELSE Recovered(set)

\* The contexts.

SetContexts(r, contexts) == Ok(Marked([r EXCEPT !.relation.contexts = contexts]))

ContextPresent(r, name) ==
    [r EXCEPT !.relation.contexts = Present(@, name, EmptyContext)]

NewContext(r, name) == Ok(Marked(ContextPresent(r, name)))

ExistContext(r, name) == name \in DOMAIN r.relation.contexts

\* The name is made together with its context only: in a context that is there, a
\* name that is not has no slots to write to.
AddContextSide(r, name, side, id, bind) ==
    IF ExistContext(r, name)
    THEN IF id \in DOMAIN r.relation.contexts[name][side]
         THEN Ok(Marked([r EXCEPT !.relation.contexts[name][side][id].bind = bind]))
         ELSE Panic(r)
    ELSE Ok(Marked([ContextPresent(r, name) EXCEPT
                      !.relation.contexts[name][side] =
                          With(@, id, StatusWithoutStrings(bind))]))

AddContextUp(r, name, upname, bind) == AddContextSide(r, name, "up", upname, bind)

AddContextDown(r, name, downname, bind) == AddContextSide(r, name, "down", downname, bind)

DelContextSide(r, name, side, id) ==
    Ok(Marked(IF ExistContext(r, name)
              THEN [r EXCEPT !.relation.contexts[name][side] = Without(@, id)]
              ELSE r))

DelContextUp(r, name, upname) == DelContextSide(r, name, "up", upname)

DelContextDown(r, name, downname) == DelContextSide(r, name, "down", downname)

\* The one change of the contexts that does not mark the relation.
DelContext(r, name) == Ok([r EXCEPT !.relation.contexts = Without(@, name)])

\* The context and the name are made if they are not there.  A side that is neither
\* up nor down makes the context, and is no error.
SetContextStatusInt(r, name, side, id, bit, value) ==
    LET made == ContextPresent(r, name)
        with == [made EXCEPT !.relation.contexts[name][side] = Present(@, id, Status(0))]
    IN  IF bit > 9 THEN Refused(r)
        ELSE IF side \notin {"up", "down"} THEN Ok(Marked(made))
        ELSE IF bit < 0 THEN Panic(with)
        ELSE Ok(Marked([with EXCEPT !.relation.contexts[name][side][id].bind = value]))

SetContextStatusFloat(r, name, side, id, bit, value) ==
    SetContextStatusInt(r, name, side, id, bit, value)

SetContextStatusComplex(r, name, side, id, bit, value) ==
    SetContextStatusInt(r, name, side, id, bit, value)

SetContextStatusString(r, name, side, id, bit, value) ==
    LET made == ContextPresent(r, name) IN
    IF /\ bit <= 9
       /\ side \in {"up", "down"}
       /\ id \in DOMAIN made.relation.contexts[name][side]
       /\ ~made.relation.contexts[name][side][id].strings
    THEN Panic(made)
    ELSE SetContextStatusInt(r, name, side, id, bit, value)

\* By the type of the value; here a side that is neither is an error, after the
\* context has been made, and so is another type, after the name has.
SetContextStatus(r, name, side, id, bit, type, value) ==
    LET made == ContextPresent(r, name)
        set  == IF type = "string" THEN SetContextStatusString(r, name, side, id, bit, value)
                ELSE SetContextStatusInt(r, name, side, id, bit, value)
    IN  IF bit > 9 THEN Refused(r)
        ELSE IF side \notin {"up", "down"} THEN Refused(made)
        ELSE IF type = "other"
        THEN Refused([made EXCEPT !.relation.contexts[name][side] =
                                      Present(@, id, Status(0))])
        ELSE Recovered(set)

----------------------------------------------------------------------------
\* What the methods that read say: a value, whether it is there, and an error.

Have(value) == [value |-> value, have |-> TRUE, answer |-> "ok"]

HaveNot == [value |-> 0, have |-> FALSE, answer |-> "ok"]

ReadError(have) == [value |-> 0, have |-> have, answer |-> "error"]

ReadPanic == [value |-> 0, have |-> FALSE, answer |-> "panic"]

\* The methods that recover have said that the value is there before they look.
ReadRecovered(read) == IF read.answer = "panic" THEN ReadError(TRUE) ELSE read

GetData(r, name) == IF name \in DOMAIN r.data THEN Have(r.data[name]) ELSE ReadError(FALSE)

SameBind(statuses, bind) == {id \in DOMAIN statuses : statuses[id].bind = bind}

GetSameBindFriendsId(r, bind) == SameBind(r.relation.friends, bind)

FriendBind(r, name) == IF ExistFriend(r, name) THEN Have(r.relation.friends[name].bind) ELSE HaveNot

GetContextsName(r) == DOMAIN r.relation.contexts

GetContext(r, name) == IF ExistContext(r, name) THEN Have(r.relation.contexts[name]) ELSE HaveNot

GetContextSide(r, name, side, id) ==
    IF ExistContext(r, name) /\ id \in DOMAIN r.relation.contexts[name][side]
    THEN Have(r.relation.contexts[name][side][id].bind) ELSE HaveNot

GetContextUp(r, name, upname) == GetContextSide(r, name, "up", upname)

GetContextDown(r, name, downname) == GetContextSide(r, name, "down", downname)

GetContextUpSameBind(r, name, bind) ==
    IF ExistContext(r, name) THEN Have(SameBind(r.relation.contexts[name].up, bind)) ELSE HaveNot

GetContextDownSameBind(r, name, bind) ==
    IF ExistContext(r, name) THEN Have(SameBind(r.relation.contexts[name].down, bind)) ELSE HaveNot

\* A slot of a status; a status may have none for strings.
Slot(status, bit, type) ==
    IF bit < 0 \/ (type = "string" /\ ~status.strings) THEN ReadPanic ELSE Have(status.bind)

FriendStatus(r, id, bit, type) ==
    IF ~ExistFriend(r, id) \/ bit > 9 THEN ReadError(FALSE)
    ELSE Slot(r.relation.friends[id], bit, type)

GetFriendStatusInt(r, id, bit) == FriendStatus(r, id, bit, "number")

GetFriendStatusFloat(r, id, bit) == FriendStatus(r, id, bit, "number")

GetFriendStatusComplex(r, id, bit) == FriendStatus(r, id, bit, "number")

GetFriendStatusString(r, id, bit) == FriendStatus(r, id, bit, "string")

GetFriendStatus(r, id, bit, type) ==
    IF ~ExistFriend(r, id) THEN ReadError(FALSE)
    ELSE IF bit > 9 \/ type \notin {"number", "string"} THEN ReadError(TRUE)
    ELSE ReadRecovered(FriendStatus(r, id, bit, type))

\* On a side that is neither up nor down there is a zero, and no error.
ContextStatus(r, name, side, id, bit, type) ==
    IF bit > 9 \/ ~ExistContext(r, name) THEN ReadError(FALSE)
    ELSE IF side \notin {"up", "down"} THEN Have(0)
    ELSE IF id \notin DOMAIN r.relation.contexts[name][side] THEN HaveNot
    ELSE Slot(r.relation.contexts[name][side][id], bit, type)

\* Mutant of GetContextStatusInt: the two sides are taken for each other.
GetContextStatusIntOtherSide(r, name, side, id, bit) ==
    ContextStatus(r, name, CASE side = "up" -> "down" [] side = "down" -> "up" [] OTHER -> side,
                  id, bit, "number")

GetContextStatusInt(r, name, side, id, bit) == ContextStatus(r, name, side, id, bit, "number")

GetContextStatusFloat(r, name, side, id, bit) == ContextStatus(r, name, side, id, bit, "number")

GetContextStatusComplex(r, name, side, id, bit) == ContextStatus(r, name, side, id, bit, "number")

GetContextStatusString(r, name, side, id, bit) == ContextStatus(r, name, side, id, bit, "string")

\* Here a context that is not there is an error too, but "have".
GetContextStatus(r, name, side, id, bit, type) ==
    IF bit > 9 \/ ~ExistContext(r, name) \/ side \notin {"up", "down"} THEN ReadError(TRUE)
    ELSE IF id \notin DOMAIN r.relation.contexts[name][side] THEN HaveNot
    ELSE IF type \notin {"number", "string"} THEN ReadError(TRUE)
    ELSE ReadRecovered(ContextStatus(r, name, side, id, bit, type))

----------------------------------------------------------------------------
\* What one call can make of a role, over the arguments that make a difference: a
\* bit that is there, the one after the last, and one before the first.

Bits == {0, 10, -1}

Sides == {"up", "down", "neither"}

\* int64, float64 and complex128; int and complex64, which can be set but not read;
\* string; and the rest.
Types == {"number", "narrow", "string", "other"}

Changes(r) ==
    {SetVersion(r, v) : v \in Values}
    \cup {SetData(r, f, v) : f \in Fields \cup {NoName}, v \in Values}
    \cup {SetFather(r, id) : id \in Names} \cup {ResetFather(r)}
    \cup {SetChildren(r, c) : c \in SUBSET Names} \cup {ResetChilren(r)}
    \cup {SetFriends(r, [n \in F |-> Status(0)]) : F \in SUBSET Names} \cup {ResetFriends(r)}
    \cup (UNION {{AddChild(r, n), DeleteChild(r, n), DeleteFriend(r, n), NewContext(r, n),
                  DelContext(r, n)} : n \in Names})
    \cup (UNION {{AddFriend(r, n, v), ChangeFriend(r, n, v)} : n \in Names, v \in Values})
    \cup (UNION {{SetFriendStatusInt(r, n, b, v), SetFriendStatusFloat(r, n, b, v),
                  SetFriendStatusComplex(r, n, b, v), SetFriendStatusString(r, n, b, v)} :
                 n \in Names, b \in Bits, v \in Values})
    \cup {SetFriendStatus(r, n, b, t, v) : n \in Names, b \in Bits, t \in Types, v \in Values}
    \cup {SetContexts(r, [n \in C |-> EmptyContext]) : C \in SUBSET Names}
    \cup (UNION {{AddContextUp(r, c, n, v), AddContextDown(r, c, n, v)} :
                 c \in Names, n \in Names, v \in Values})
    \cup (UNION {{DelContextUp(r, c, n), DelContextDown(r, c, n)} : c \in Names, n \in Names})
    \cup (UNION {{SetContextStatusInt(r, c, s, n, b, v), SetContextStatusFloat(r, c, s, n, b, v),
                  SetContextStatusComplex(r, c, s, n, b, v),
                  SetContextStatusString(r, c, s, n, b, v)} :
                 c \in Names, s \in Sides, n \in Names, b \in Bits, v \in Values})
    \cup {SetContextStatus(r, c, s, n, b, t, v) :
          c \in Names, s \in Sides, n \in Names, b \in Bits, t \in Types, v \in Values}
=============================================================================
