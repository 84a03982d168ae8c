---------------------------- MODULE RoleObject ----------------------------
(***************************************************************************)
(* A role as a program holds it: a Go object that embeds Role              *)
(* (src/roles/role.go), what each method does to its parts and its marks,  *)
(* and how it becomes RoleMiddleData to be stored and is made from it when *)
(* read.  The methods of both have the same names and are written twice in *)
(* the code; those of the object have the prefix Role here.  Every Status  *)
(* that an object makes has slots for strings.                             *)
(***************************************************************************)
EXTENDS RoleMiddleData

RoleParts == {"father", "children", "friends", "context", "data"}

\* Of the parts, the changed ones are marked.
Objects == [ version : Values, relation : Relations, data : [Fields -> Values],
             changed : SUBSET RoleParts, be_delete : BOOLEAN ]

RoleMarked(o, part) == [o EXCEPT !.changed = @ \cup {part}]

\* A new object, with what the program has put in its fields.
RoleNew(data) == [version |-> 2, relation |-> NewRelation, data |-> data,
                  changed |-> {"data"}, be_delete |-> FALSE]

\* The marks of the object are left behind, and so is whether it is to be deleted.
Encoded(o) == EncodeRoleToMiddle(o.version, o.relation, o.data)

\* New, and then the setters of the parts, which mark all of them but the contexts.
DecodeMiddleToRole(r) == [version |-> r.version, relation |-> r.relation, data |-> r.data,
                          changed |-> {"father", "children", "friends", "data"},
                          be_delete |-> FALSE]

----------------------------------------------------------------------------
\* The program assigns to a field of its object.
SetField(o, name, value) == Ok([o EXCEPT !.data[name] = value])

RoleSetVersion(o, version) == Ok([o EXCEPT !.version = version])

RoleSetDataChanged(o) == Ok(RoleMarked(o, "data"))

RoleSetDelete(o, del) == Ok([o EXCEPT !.be_delete = del])

RoleReturnChanged(o, part) ==
    IF part = "self" THEN o.changed \ {"data"} # {} ELSE part \in o.changed

\* The father, the children and the friends.

RoleSetFather(o, id) == Ok(RoleMarked([o EXCEPT !.relation.father = id], "father"))

RoleResetFather(o) == RoleSetFather(o, NoName)

RoleSetChildren(o, children) ==
    Ok(RoleMarked([o EXCEPT !.relation.children = children], "children"))

RoleResetChilren(o) == RoleSetChildren(o, {})

RoleSetFriends(o, friends) ==
    Ok(RoleMarked([o EXCEPT !.relation.friends = friends], "friends"))

RoleResetFriends(o) == RoleSetFriends(o, NoFunction)

RoleExistChild(o, name) == name \in o.relation.children

RoleExistFriend(o, name) == name \in DOMAIN o.relation.friends

RoleAddChild(o, cid) ==
    IF RoleExistChild(o, cid) THEN Refused(o)
    ELSE Ok(RoleMarked([o EXCEPT !.relation.children = @ \cup {cid}], "children"))

RoleDeleteChild(o, child) ==
    IF ~RoleExistChild(o, child) THEN Refused(o)
    ELSE Ok(RoleMarked([o EXCEPT !.relation.children = @ \ {child}], "children"))

RoleAddFriend(o, id, bind) ==
    IF RoleExistFriend(o, id) THEN Refused(o)
    ELSE Ok(RoleMarked([o EXCEPT !.relation.friends = With(@, id, Status(bind))], "friends"))

\* The test for the friend is the wrong way round here too, and in ChangeFriend.
RoleDeleteFriend(o, id) ==
    IF RoleExistFriend(o, id) THEN Refused(o) ELSE Ok(RoleMarked(o, "friends"))

RoleChangeFriend(o, id, bind) ==
    IF RoleExistFriend(o, id) THEN Refused(o)
    ELSE IF bind = 0 THEN Ok(o)
    ELSE Panic(o)

\* The friend is made first, whatever becomes of the call; a panic is recovered.
RoleSetFriendStatus(o, id, bit, type, value) ==
    LET made    == [o EXCEPT !.relation.friends = Present(@, id, Status(0))]
        noSlots == type = "string" /\ ~made.relation.friends[id].strings
    IN  IF bit > 9 \/ bit < 0 \/ type = "other" \/ noSlots THEN Refused(made)
        ELSE Ok(RoleMarked([made EXCEPT !.relation.friends[id].bind = value], "friends"))

\* The contexts; of these methods only SetContext and those of one side mark them.

RoleSetContexts(o, contexts) == Ok([o EXCEPT !.relation.contexts = contexts])

RoleExistContext(o, name) == name \in DOMAIN o.relation.contexts

RoleNewContext(o, name) ==
    IF RoleExistContext(o, name) THEN Refused(o)
    ELSE Ok([o EXCEPT !.relation.contexts = With(@, name, EmptyContext)])

\* The name is made together with its context only, as in RoleMiddleData.
RoleAddContextSide(o, name, side, id, bind) ==
    IF ~RoleExistContext(o, name)
    THEN Ok(RoleMarked([o EXCEPT !.relation.contexts =
                          With(@, name, [EmptyContext EXCEPT ![side] = With(@, id, Status(bind))])],
                       "context"))
    ELSE IF id \in DOMAIN o.relation.contexts[name][side]
    THEN Ok(RoleMarked([o EXCEPT !.relation.contexts[name][side][id].bind = bind], "context"))
    ELSE Panic(o)

RoleAddContextUp(o, name, upname, bind) == RoleAddContextSide(o, name, "up", upname, bind)

RoleAddContextDown(o, name, downname, bind) == RoleAddContextSide(o, name, "down", downname, bind)

RoleDelContextSide(o, name, side, id) ==
    Ok(RoleMarked(IF RoleExistContext(o, name)
                  THEN [o EXCEPT !.relation.contexts[name][side] = Without(@, id)]
                  ELSE o, "context"))

RoleDelContextUp(o, name, upname) == RoleDelContextSide(o, name, "up", upname)

\* Mutant of RoleDelContextDown: it takes the name from the other side.
RoleDelContextDownOfUp(o, name, downname) == RoleDelContextSide(o, name, "up", downname)

RoleDelContextDown(o, name, downname) == RoleDelContextSide(o, name, "down", downname)

RoleDelContext(o, name) == Ok([o EXCEPT !.relation.contexts = Without(@, name)])

RoleSetContext(o, name, context) ==
    Ok(RoleMarked([o EXCEPT !.relation.contexts = With(@, name, context)], "context"))

RoleContextMade(o, name) == [o EXCEPT !.relation.contexts = Present(@, name, EmptyContext)]

RoleNameMade(o, name, side, id) ==
    [RoleContextMade(o, name) EXCEPT
       !.relation.contexts[name][side] = Present(@, id, Status(0))]

\* The bit is looked at first; the context is made before the side is looked at, and
\* the name before the type.
RoleSetContextStatus(o, name, side, id, bit, type, value) ==
    LET made    == RoleNameMade(o, name, side, id)
        noSlots == type = "string" /\ ~made.relation.contexts[name][side][id].strings
    IN  IF bit > 9 THEN Refused(o)
        ELSE IF side \notin {"up", "down"} THEN Refused(RoleContextMade(o, name))
        ELSE IF bit < 0 \/ type = "other" \/ noSlots THEN Refused(made)
        ELSE Ok([made EXCEPT !.relation.contexts[name][side][id].bind = value])

----------------------------------------------------------------------------
\* What the methods that read say.

RoleGetSameBindFriendsId(o, bind) == SameBind(o.relation.friends, bind)

RoleGetContextsName(o) == DOMAIN o.relation.contexts

RoleGetContext(o, name) ==
    IF RoleExistContext(o, name) THEN Have(o.relation.contexts[name]) ELSE HaveNot

RoleGetContextSide(o, name, side, id) ==
    IF RoleExistContext(o, name) /\ id \in DOMAIN o.relation.contexts[name][side]
    THEN Have(o.relation.contexts[name][side][id].bind) ELSE HaveNot

RoleGetContextUp(o, name, upname) == RoleGetContextSide(o, name, "up", upname)

RoleGetContextDown(o, name, downname) == RoleGetContextSide(o, name, "down", downname)

RoleGetContextUpSameBind(o, name, bind) ==
    IF RoleExistContext(o, name) THEN Have(SameBind(o.relation.contexts[name].up, bind)) ELSE HaveNot

RoleGetContextDownSameBind(o, name, bind) ==
    IF RoleExistContext(o, name) THEN Have(SameBind(o.relation.contexts[name].down, bind)) ELSE HaveNot

\* A friend that is not there is no error.
RoleGetFriendStatus(o, id, bit, type) ==
    IF ~RoleExistFriend(o, id) THEN HaveNot
    ELSE IF bit > 9 \/ type \notin {"number", "string"} THEN ReadError(TRUE)
    ELSE ReadRecovered(Slot(o.relation.friends[id], bit, type))

\* A context that is not there is an error, and a name that is not there is none.
RoleGetContextStatus(o, name, side, id, bit, type) ==
    IF bit > 9 \/ ~RoleExistContext(o, name) \/ side \notin {"up", "down"} THEN ReadError(TRUE)
    ELSE IF id \notin DOMAIN o.relation.contexts[name][side] THEN HaveNot
    ELSE IF type \notin {"number", "string"} THEN ReadError(TRUE)
    ELSE ReadRecovered(Slot(o.relation.contexts[name][side][id], bit, type))

----------------------------------------------------------------------------
\* What one call can make of an object, as Changes says of a role.
RoleChanges(o) ==
    {SetField(o, f, v) : f \in Fields, v \in Values}
    \cup {RoleSetVersion(o, v) : v \in Values} \cup {RoleSetDataChanged(o)}
    \cup {RoleSetDelete(o, del) : del \in BOOLEAN}
    \cup {RoleSetFather(o, id) : id \in Names} \cup {RoleResetFather(o)}
    \cup {RoleSetChildren(o, c) : c \in SUBSET Names} \cup {RoleResetChilren(o)}
    \cup {RoleSetFriends(o, [n \in F |-> Status(0)]) : F \in SUBSET Names} \cup {RoleResetFriends(o)}
    \cup (UNION {{RoleAddChild(o, n), RoleDeleteChild(o, n), RoleDeleteFriend(o, n),
                  RoleNewContext(o, n), RoleDelContext(o, n)} : n \in Names})
    \cup (UNION {{RoleAddFriend(o, n, v), RoleChangeFriend(o, n, v)} : n \in Names, v \in Values})
    \cup {RoleSetFriendStatus(o, n, b, t, v) : n \in Names, b \in Bits, t \in Types, v \in Values}
    \cup {RoleSetContexts(o, [n \in C |-> EmptyContext]) : C \in SUBSET Names}
    \cup {RoleSetContext(o, n, EmptyContext) : n \in Names}
    \cup (UNION {{RoleAddContextUp(o, c, n, v), RoleAddContextDown(o, c, n, v)} :
                 c \in Names, n \in Names, v \in Values})
    \cup (UNION {{RoleDelContextUp(o, c, n), RoleDelContextDown(o, c, n)} :
                 c \in Names, n \in Names})
    \cup {RoleSetContextStatus(o, c, s, n, b, t, v) :
          c \in Names, s \in Sides, n \in Names, b \in Bits, t \in Types, v \in Values}

\* A call that ends well has marked the parts that it has changed, the contexts left out.
MarksTell(o, result) ==
    result.answer = "ok" =>
        \A part \in {"father", "children", "friends"} :
            result.role.relation[part] # o.relation[part] => RoleReturnChanged(result.role, part)
=============================================================================
