--------------------------- MODULE RoleFilesProofs ---------------------------
(***************************************************************************)
(* Theorems about RoleFiles, for any areas, names, values and fields, any  *)
(* number of calls and of faults: first what each method of RoleMiddleData *)
(* makes of a role and its marks, then the methods of the Go object        *)
(* against those, then the files.                                          *)
(***************************************************************************)
EXTENDS RoleFiles, TLAPS

----------------------------------------------------------------------------
(* Maps by name.                                                           *)

LEMMA Partial ==
    ASSUME NEW S, NEW f
    PROVE  /\ f \in PartialFunctions(S) => f \in [DOMAIN f -> S] /\ DOMAIN f \subseteq Names
           /\ \A D \in SUBSET Names : f \in [D -> S] => f \in PartialFunctions(S)
BY DEF PartialFunctions

LEMMA PartialEmpty ==
    ASSUME NEW S
    PROVE  NoFunction \in PartialFunctions(S) /\ DOMAIN NoFunction = {}
BY DEF PartialFunctions, NoFunction

LEMMA WithValue ==
    ASSUME NEW f, NEW n, NEW v
    PROVE  DOMAIN With(f, n, v) = DOMAIN f \cup {n} /\ With(f, n, v)[n] = v
BY DEF With

LEMMA PartialWith ==
    ASSUME NEW S, NEW f \in PartialFunctions(S), NEW n \in Names, NEW v \in S
    PROVE  With(f, n, v) \in PartialFunctions(S)
<1>1. f \in [DOMAIN f -> S] /\ DOMAIN f \subseteq Names
  BY Partial
<1>2. With(f, n, v) \in [DOMAIN f \cup {n} -> S]
  BY <1>1 DEF With
<1> QED
  BY <1>1, <1>2, Partial

LEMMA PartialWithout ==
    ASSUME NEW S, NEW f \in PartialFunctions(S), NEW n
    PROVE  Without(f, n) \in PartialFunctions(S)
<1>1. f \in [DOMAIN f -> S] /\ DOMAIN f \subseteq Names
  BY Partial
<1>2. Without(f, n) \in [DOMAIN f \ {n} -> S]
  BY <1>1 DEF Without
<1> QED
  BY <1>1, <1>2, Partial

LEMMA PresentDomain ==
    ASSUME NEW f, NEW n, NEW v
    PROVE  DOMAIN Present(f, n, v) = DOMAIN f \cup {n}
BY WithValue DEF Present

LEMMA PartialPresent ==
    ASSUME NEW S, NEW f \in PartialFunctions(S), NEW n \in Names, NEW v \in S
    PROVE  Present(f, n, v) \in PartialFunctions(S)
BY PartialWith DEF Present

LEMMA PartialBind ==
    ASSUME NEW f \in PartialFunctions(Statuses), NEW n \in DOMAIN f, NEW v \in Values
    PROVE  LET g == [f EXCEPT ![n].bind = v]
           IN  /\ g \in PartialFunctions(Statuses) /\ DOMAIN g = DOMAIN f
               /\ g[n].bind = v /\ g[n].strings = f[n].strings
<1> DEFINE g == [f EXCEPT ![n].bind = v]
<1>1. f \in [DOMAIN f -> Statuses] /\ DOMAIN f \subseteq Names
  BY Partial
<1>2. g \in [DOMAIN f -> Statuses]
  BY <1>1 DEF Statuses
<1>3. g[n].bind = v /\ g[n].strings = f[n].strings
  BY <1>1 DEF Statuses
<1>4. g \in PartialFunctions(Statuses) /\ DOMAIN g = DOMAIN f
  BY <1>1, <1>2, Partial
<1> QED
  BY <1>3, <1>4

LEMMA StatusTypes ==
    ASSUME NEW v \in Values
    PROVE  Status(v) \in Statuses /\ StatusWithoutStrings(v) \in Statuses
BY DEF Status, StatusWithoutStrings, Statuses

\* A name is given a zero status if it has none.
LEMMA StatusPresent ==
    ASSUME NEW f \in PartialFunctions(Statuses), NEW n \in Names
    PROVE  /\ Present(f, n, Status(0)) \in PartialFunctions(Statuses)
           /\ DOMAIN Present(f, n, Status(0)) = DOMAIN f \cup {n}
<1>1. Status(0) \in Statuses
  BY StatusTypes, RoleFilesAssumption
<1> QED
  BY <1>1, PartialPresent, PresentDomain

----------------------------------------------------------------------------
(* Methods: what they change is marked, but for what UpToUnmarked leaves   *)
(* out, and marks stay.                                                    *)

Kept(r, q) ==
    /\ q \in Roles
    /\ r.VersionChange => q.VersionChange
    /\ r.DataChange => q.DataChange
    /\ r.RelationChange => q.RelationChange
    /\ q.VersionChange \/ q.version = r.version
    /\ q.DataChange \/ q.data = r.data
    /\ q.RelationChange \/ UpToUnmarked(q.relation, r.relation)

\* So also when the method ends in an error or in a panic.
Keeps(r, result) == Kept(r, result.role)

LEMMA Results ==
    ASSUME NEW r
    PROVE  /\ Ok(r).role = r /\ Ok(r).answer = "ok"
           /\ Refused(r).role = r /\ Refused(r).answer = "error"
           /\ Panic(r).role = r /\ Panic(r).answer = "panic"
BY DEF Ok, Refused, Panic

LEMMA KeptSame ==
    ASSUME NEW r \in Roles
    PROVE  Kept(r, r)
BY DEF Kept, UpToUnmarked

LEMMA KeptTransitive ==
    ASSUME NEW r, NEW q, NEW p, Kept(r, q), Kept(q, p)
    PROVE  Kept(r, p)
BY DEF Kept, UpToUnmarked

\* A relation is put in the role, and marked or not.
LEMMA KeptRelation ==
    ASSUME NEW r \in Roles, NEW relation \in Relations
    PROVE  LET q == [r EXCEPT !.relation = relation]
           IN  /\ q \in Roles /\ Marked(q) \in Roles
               /\ q.relation = relation /\ Marked(q).relation = relation
               /\ Kept(r, Marked(q))
               /\ UpToUnmarked(relation, r.relation) => Kept(r, q)
BY DEF Kept, Marked, Roles

LEMMA KeptMarked ==
    ASSUME NEW r \in Roles
    PROVE  Marked(r) \in Roles /\ Marked(r).relation = r.relation /\ Kept(r, Marked(r))
BY DEF Kept, Marked, Roles

LEMMA RelationOf ==
    ASSUME NEW r \in Roles
    PROVE  /\ r.relation \in Relations
           /\ r.relation.friends \in PartialFunctions(Statuses)
           /\ r.relation.contexts \in PartialFunctions([up : PartialFunctions(Statuses),
                                                        down : PartialFunctions(Statuses)])
BY DEF Roles, Relations

LEMMA VersionAndData ==
    ASSUME NEW r \in Roles, NEW v \in Values, NEW f
    PROVE  Keeps(r, SetVersion(r, v)) /\ Keeps(r, SetData(r, f, v))
<1> DEFINE p == [r EXCEPT !.version = v, !.VersionChange = TRUE]
           q == [r EXCEPT !.data[f] = v, !.DataChange = TRUE]
<1>1. Kept(r, p)
  BY DEF Kept, Roles, UpToUnmarked
<1>2. f \in DOMAIN r.data => Kept(r, q)
  BY DEF Kept, Roles, UpToUnmarked
<1>3. SetVersion(r, v) = Ok(p) /\ SetData(r, f, v) = IF f \in DOMAIN r.data THEN Ok(q) ELSE Panic(r)
  BY DEF SetVersion, SetData
<1> HIDE DEF p, q
<1> QED
  BY <1>1, <1>2, <1>3, KeptSame, Results DEF Keeps

\* The relation with a part of it replaced.
LEMMA FatherAndChildren ==
    ASSUME NEW r \in Roles, NEW id \in Names \cup {NoName}, NEW c \in SUBSET Names
    PROVE  /\ Keeps(r, SetFather(r, id))
           /\ Keeps(r, SetChildren(r, c))
<1>1. /\ [r.relation EXCEPT !.father = id] \in Relations
      /\ [r.relation EXCEPT !.children = c] \in Relations
  BY RelationOf DEF Relations
<1>2. /\ [r EXCEPT !.relation.father = id] = [r EXCEPT !.relation = [r.relation EXCEPT !.father = id]]
      /\ [r EXCEPT !.relation.children = c] = [r EXCEPT !.relation = [r.relation EXCEPT !.children = c]]
  OBVIOUS
<1> QED
  BY <1>1, <1>2, KeptRelation, Results DEF Keeps, SetFather, SetChildren

LEMMA OneChild ==
    ASSUME NEW r \in Roles, NEW n \in Names
    PROVE  Keeps(r, AddChild(r, n)) /\ Keeps(r, DeleteChild(r, n))
<1> DEFINE c == r.relation.children
<1>1. c \in SUBSET Names
  BY RelationOf DEF Relations
<1>2. Keeps(r, SetChildren(r, c \cup {n})) /\ Keeps(r, SetChildren(r, c \ {n}))
  <2>1. c \cup {n} \in SUBSET Names /\ c \ {n} \in SUBSET Names
    BY <1>1
  <2> QED
    BY <2>1, FatherAndChildren
<1> QED
  BY <1>2, KeptSame, Results DEF AddChild, DeleteChild, SetChildren, Keeps

\* The friends are replaced: the relation may stay unmarked if none of them goes.
LEMMA KeptFriends ==
    ASSUME NEW r \in Roles, NEW f \in PartialFunctions(Statuses)
    PROVE  LET q == [r EXCEPT !.relation.friends = f]
           IN  /\ q \in Roles /\ q.relation.friends = f
               /\ q.relation.contexts = r.relation.contexts
               /\ Kept(r, Marked(q))
               /\ DOMAIN r.relation.friends \subseteq DOMAIN f => Kept(r, q)
<1> DEFINE relation == [r.relation EXCEPT !.friends = f]
<1>1. /\ relation \in Relations /\ relation.friends = f
      /\ relation.contexts = r.relation.contexts
      /\ DOMAIN r.relation.friends \subseteq DOMAIN f => UpToUnmarked(relation, r.relation)
  BY RelationOf DEF Relations, UpToUnmarked
<1>2. [r EXCEPT !.relation.friends = f] = [r EXCEPT !.relation = relation]
  OBVIOUS
<1> HIDE DEF relation
<1> QED
  BY <1>1, <1>2, KeptRelation

LEMMA FriendsSet ==
    ASSUME NEW r \in Roles, NEW f \in PartialFunctions(Statuses)
    PROVE  Keeps(r, SetFriends(r, f))
<1> DEFINE q == [r EXCEPT !.relation.friends = f]
<1>1. Kept(r, Marked(q))
  BY KeptFriends
<1>2. SetFriends(r, f) = Ok(Marked(q))
  BY DEF SetFriends
<1> HIDE DEF q
<1> QED
  BY <1>1, <1>2, Results DEF Keeps

LEMMA OneFriend ==
    ASSUME NEW r \in Roles, NEW n \in Names, NEW v \in Values
    PROVE  /\ Keeps(r, AddFriend(r, n, v)) /\ Keeps(r, DeleteFriend(r, n))
           /\ Keeps(r, ChangeFriend(r, n, v))
<1>1. Keeps(r, AddFriend(r, n, v))
  <2> DEFINE f == With(r.relation.friends, n, StatusWithoutStrings(v))
  <2>1. f \in PartialFunctions(Statuses)
    BY RelationOf, StatusTypes, PartialWith
  <2>2. AddFriend(r, n, v) = Refused(r) \/ AddFriend(r, n, v) = SetFriends(r, f)
    BY DEF AddFriend, SetFriends
  <2> HIDE DEF f
  <2> QED
    BY <2>1, <2>2, FriendsSet, KeptSame, Results DEF Keeps
<1>2. Keeps(r, DeleteFriend(r, n)) /\ Keeps(r, ChangeFriend(r, n, v))
  BY KeptSame, KeptMarked, Results DEF Keeps, DeleteFriend, ChangeFriend
<1> QED
  BY <1>1, <1>2

LEMMA FriendMade ==
    ASSUME NEW r \in Roles, NEW n \in Names
    PROVE  /\ FriendPresent(r, n) \in Roles /\ Kept(r, FriendPresent(r, n))
           /\ n \in DOMAIN FriendPresent(r, n).relation.friends
<1> DEFINE f == Present(r.relation.friends, n, Status(0))
<1>1. /\ f \in PartialFunctions(Statuses)
      /\ DOMAIN f = DOMAIN r.relation.friends \cup {n}
  BY RelationOf, StatusPresent
<1>2. FriendPresent(r, n) = [r EXCEPT !.relation.friends = f]
  BY DEF FriendPresent
<1> HIDE DEF f
<1> QED
  BY <1>1, <1>2, KeptFriends

LEMMA FriendStatusInt ==
    ASSUME NEW r \in Roles, NEW n \in Names, NEW b \in Int, NEW v \in Values
    PROVE  Keeps(r, SetFriendStatusInt(r, n, b, v))
<1> DEFINE p == FriendPresent(r, n)
           f == [p.relation.friends EXCEPT ![n].bind = v]
           q == [p EXCEPT !.relation.friends[n].bind = v]
<1>1. /\ p \in Roles /\ Kept(r, p) /\ n \in DOMAIN p.relation.friends
  BY FriendMade
<1>2. /\ f \in PartialFunctions(Statuses) /\ DOMAIN f = DOMAIN p.relation.friends
  BY <1>1, RelationOf, PartialBind
<1>3. q = [p EXCEPT !.relation.friends = f]
  OBVIOUS
<1> HIDE DEF f
<1>4. Kept(p, q)
  BY <1>1, <1>2, <1>3, KeptFriends
<1>5. Kept(r, q)
  BY <1>1, <1>4, KeptTransitive
<1> QED
  BY <1>1, <1>5, Results DEF Keeps, SetFriendStatusInt

LEMMA FriendStatuses ==
    ASSUME NEW r \in Roles, NEW n \in Names, NEW b \in Int, NEW v \in Values, NEW t
    PROVE  /\ Keeps(r, SetFriendStatusInt(r, n, b, v)) /\ Keeps(r, SetFriendStatusFloat(r, n, b, v))
           /\ Keeps(r, SetFriendStatusComplex(r, n, b, v))
           /\ Keeps(r, SetFriendStatusString(r, n, b, v))
           /\ Keeps(r, SetFriendStatus(r, n, b, t, v))
<1>1. Keeps(r, SetFriendStatusInt(r, n, b, v)) /\ Keeps(r, SetFriendStatusString(r, n, b, v))
  BY FriendStatusInt, KeptSame, Results DEF Keeps, SetFriendStatusString
<1>2. Keeps(r, SetFriendStatusFloat(r, n, b, v)) /\ Keeps(r, SetFriendStatusComplex(r, n, b, v))
  BY <1>1 DEF SetFriendStatusFloat, SetFriendStatusComplex
<1>3. Keeps(r, SetFriendStatus(r, n, b, t, v))
  <2>1. \A s : Recovered(s).role = s.role
    BY Results DEF Recovered
  <2>2. Kept(r, FriendPresent(r, n))
    BY FriendMade
  <2>3. ASSUME NEW s, Kept(r, s.role)
        PROVE  Kept(r, (IF s.answer = "ok" THEN Ok(Marked(s.role)) ELSE Recovered(s)).role)
    <3>1. s.role \in Roles
      BY <2>3 DEF Kept
    <3>2. Kept(r, Marked(s.role))
      BY <2>3, <3>1, KeptMarked, KeptTransitive
    <3> QED
      BY <2>1, <2>3, <3>2, Results
  <2>4. CASE t = "string"
    BY <1>1, <2>3, <2>4 DEF SetFriendStatus, Keeps
  <2>5. CASE t \in {"number", "narrow"}
    BY <1>1, <2>3, <2>5 DEF SetFriendStatus, Keeps
  <2>6. CASE t \notin {"string", "number", "narrow"}
    BY <2>2, <2>3, <2>6, Results DEF SetFriendStatus, Keeps
  <2> QED
    BY <2>4, <2>5, <2>6
<1> QED
  BY <1>1, <1>2, <1>3

\* The contexts, which no change has to mark.
AContext == [up : PartialFunctions(Statuses), down : PartialFunctions(Statuses)]

LEMMA ContextsOf ==
    ASSUME NEW r \in Roles
    PROVE  /\ r.relation.contexts \in PartialFunctions(AContext)
           /\ \A n \in DOMAIN r.relation.contexts :
                 /\ n \in Names
                 /\ r.relation.contexts[n] \in AContext
                 /\ \A side \in {"up", "down"} :
                       r.relation.contexts[n][side] \in PartialFunctions(Statuses)
<1>1. r.relation.contexts \in PartialFunctions(AContext)
  BY RelationOf DEF AContext
<1>2. /\ r.relation.contexts \in [DOMAIN r.relation.contexts -> AContext]
      /\ DOMAIN r.relation.contexts \subseteq Names
  BY <1>1, Partial
<1>3. \A c \in AContext, side \in {"up", "down"} : c[side] \in PartialFunctions(Statuses)
  BY DEF AContext
<1> QED
  BY <1>1, <1>2, <1>3

LEMMA KeptContexts ==
    ASSUME NEW r \in Roles, NEW c \in PartialFunctions(AContext)
    PROVE  LET q == [r EXCEPT !.relation.contexts = c]
           IN  /\ q \in Roles /\ q.relation.contexts = c
               /\ Kept(r, q) /\ Kept(r, Marked(q)) /\ Keeps(r, Ok(q)) /\ Keeps(r, Ok(Marked(q)))
<1> DEFINE relation == [r.relation EXCEPT !.contexts = c]
           q == [r EXCEPT !.relation.contexts = c]
<1>1. /\ relation \in Relations /\ relation.contexts = c
      /\ UpToUnmarked(relation, r.relation)
  BY RelationOf DEF Relations, UpToUnmarked, AContext
<1>2. q = [r EXCEPT !.relation = relation]
  OBVIOUS
<1> HIDE DEF relation, q
<1>3. /\ q \in Roles /\ q.relation.contexts = c /\ Kept(r, q) /\ Kept(r, Marked(q))
  BY <1>1, <1>2, KeptRelation
<1>4. Keeps(r, Ok(q)) /\ Keeps(r, Ok(Marked(q)))
  BY <1>3, Results DEF Keeps
<1> QED
  BY <1>3, <1>4 DEF q

\* One side of a context is replaced.
LEMMA KeptSide ==
    ASSUME NEW r \in Roles, NEW n \in DOMAIN r.relation.contexts, NEW side \in {"up", "down"},
           NEW f \in PartialFunctions(Statuses)
    PROVE  LET q == [r EXCEPT !.relation.contexts[n][side] = f]
           IN  /\ q \in Roles /\ DOMAIN q.relation.contexts = DOMAIN r.relation.contexts
               /\ q.relation.contexts[n][side] = f
               /\ Kept(r, q) /\ Kept(r, Marked(q)) /\ Keeps(r, Ok(q)) /\ Keeps(r, Ok(Marked(q)))
<1> DEFINE old == r.relation.contexts
           c   == [old EXCEPT ![n][side] = f]
<1>1. old \in [DOMAIN old -> AContext] /\ DOMAIN old \subseteq Names
  BY ContextsOf, Partial
<1>2. [old[n] EXCEPT ![side] = f] \in AContext /\ [old[n] EXCEPT ![side] = f][side] = f
  BY <1>1 DEF AContext
<1>3. c \in [DOMAIN old -> AContext] /\ c[n][side] = f
  BY <1>1, <1>2
<1>4. c \in PartialFunctions(AContext) /\ DOMAIN c = DOMAIN old
  BY <1>1, <1>3, Partial
<1>5. [r EXCEPT !.relation.contexts[n][side] = f] = [r EXCEPT !.relation.contexts = c]
  OBVIOUS
<1> HIDE DEF c
<1> QED
  BY <1>3, <1>4, <1>5, KeptContexts

LEMMA ContextMade ==
    ASSUME NEW r \in Roles, NEW n \in Names
    PROVE  /\ ContextPresent(r, n) \in Roles
           /\ Kept(r, ContextPresent(r, n)) /\ Kept(r, Marked(ContextPresent(r, n)))
           /\ n \in DOMAIN ContextPresent(r, n).relation.contexts
<1> DEFINE c == Present(r.relation.contexts, n, EmptyContext)
<1>1. EmptyContext \in AContext
  BY PartialEmpty DEF EmptyContext, AContext
<1>2. /\ c \in PartialFunctions(AContext)
      /\ DOMAIN c = DOMAIN r.relation.contexts \cup {n}
  BY <1>1, ContextsOf, PartialPresent, PresentDomain
<1>3. ContextPresent(r, n) = [r EXCEPT !.relation.contexts = c]
  BY DEF ContextPresent
<1> HIDE DEF c
<1> QED
  BY <1>2, <1>3, KeptContexts

LEMMA ContextsSet ==
    ASSUME NEW r \in Roles, NEW c \in PartialFunctions(AContext)
    PROVE  Keeps(r, SetContexts(r, c))
BY KeptContexts DEF SetContexts

LEMMA OneContext ==
    ASSUME NEW r \in Roles, NEW n \in Names
    PROVE  Keeps(r, NewContext(r, n)) /\ Keeps(r, DelContext(r, n))
<1>1. Keeps(r, NewContext(r, n))
  BY ContextMade, Results DEF Keeps, NewContext
<1>2. Without(r.relation.contexts, n) \in PartialFunctions(AContext)
  BY ContextsOf, PartialWithout
<1>3. Keeps(r, DelContext(r, n))
  BY <1>2, KeptContexts DEF DelContext
<1> QED
  BY <1>1, <1>3

LEMMA ContextSides ==
    ASSUME NEW r \in Roles, NEW n \in Names, NEW side \in {"up", "down"}, NEW id \in Names,
           NEW v \in Values
    PROVE  /\ Keeps(r, AddContextSide(r, n, side, id, v))
           /\ Keeps(r, DelContextSide(r, n, side, id))
<1>1. CASE ExistContext(r, n)
  <2> DEFINE f == r.relation.contexts[n][side]
  <2>1. n \in DOMAIN r.relation.contexts /\ f \in PartialFunctions(Statuses)
    BY <1>1, ContextsOf DEF ExistContext
  <2>2. Keeps(r, DelContextSide(r, n, side, id))
    <3> DEFINE g == Without(f, id)
               q == [r EXCEPT !.relation.contexts[n][side] = g]
    <3>1. g \in PartialFunctions(Statuses)
      BY <2>1, PartialWithout
    <3> HIDE DEF g
    <3>2. Keeps(r, Ok(Marked(q)))
      BY <2>1, <3>1, KeptSide
    <3>3. DelContextSide(r, n, side, id) = Ok(Marked(q))
      BY <1>1 DEF DelContextSide, g
    <3> QED
      BY <3>2, <3>3
  <2>3. Keeps(r, AddContextSide(r, n, side, id, v))
    <3>1. CASE id \in DOMAIN f
      <4> DEFINE g == [f EXCEPT ![id].bind = v]
                 q == [r EXCEPT !.relation.contexts[n][side] = g]
      <4>1. g \in PartialFunctions(Statuses)
        BY <2>1, <3>1, PartialBind
      <4>2. [r EXCEPT !.relation.contexts[n][side][id].bind = v] = q
        OBVIOUS
      <4> HIDE DEF g
      <4>3. Keeps(r, Ok(Marked(q)))
        BY <2>1, <4>1, KeptSide
      <4>4. AddContextSide(r, n, side, id, v) = Ok(Marked(q))
        BY <1>1, <3>1, <4>2 DEF AddContextSide
      <4> QED
        BY <4>3, <4>4
    <3>2. CASE id \notin DOMAIN f
      BY <1>1, <3>2, KeptSame, Results DEF AddContextSide, Keeps
    <3> QED
      BY <3>1, <3>2
  <2> QED
    BY <2>2, <2>3
<1>2. CASE ~ExistContext(r, n)
  <2> DEFINE p == ContextPresent(r, n)
             f == With(p.relation.contexts[n][side], id, StatusWithoutStrings(v))
             q == [p EXCEPT !.relation.contexts[n][side] = f]
  <2>1. p \in Roles /\ Kept(r, p) /\ n \in DOMAIN p.relation.contexts
    BY ContextMade
  <2>2. p.relation.contexts[n][side] \in PartialFunctions(Statuses)
    BY <2>1, ContextsOf
  <2>3. f \in PartialFunctions(Statuses)
    BY <2>2, StatusTypes, PartialWith
  <2> HIDE DEF f
  <2>4. Kept(p, Marked(q))
    BY <2>1, <2>3, KeptSide
  <2>5. AddContextSide(r, n, side, id, v) = Ok(Marked(q))
    BY <1>2 DEF AddContextSide, f
  <2> HIDE DEF p, q
  <2>6. Keeps(r, AddContextSide(r, n, side, id, v))
    BY <2>1, <2>4, <2>5, KeptTransitive, Results DEF Keeps
  <2>7. Keeps(r, DelContextSide(r, n, side, id))
    <3>1. DelContextSide(r, n, side, id) = Ok(Marked(r))
      BY <1>2 DEF DelContextSide
    <3> QED
      BY <3>1, KeptMarked, Results DEF Keeps
  <2> QED
    BY <2>6, <2>7
<1> QED
  BY <1>1, <1>2

\* The context and the name are made, on either side.
\* The role with the name in its context; and then with its bind, and marked.
NameMade(r, n, side, id) ==
    [ContextPresent(r, n) EXCEPT !.relation.contexts[n][side] = Present(@, id, Status(0))]

NameSet(r, n, side, id, v) ==
    Marked([NameMade(r, n, side, id) EXCEPT !.relation.contexts[n][side][id].bind = v])

LEMMA ContextNameMade ==
    ASSUME NEW r \in Roles, NEW n \in Names, NEW side \in {"up", "down"}, NEW id \in Names,
           NEW v \in Values
    PROVE  LET f == Present(ContextPresent(r, n).relation.contexts[n][side], id, Status(0))
               g == NameSet(r, n, side, id, v).relation.contexts[n][side]
           IN  /\ Kept(r, NameMade(r, n, side, id)) /\ Kept(r, NameSet(r, n, side, id, v))
               /\ n \in DOMAIN NameSet(r, n, side, id, v).relation.contexts
               /\ id \in DOMAIN g /\ g[id].bind = v /\ g[id].strings = f[id].strings
<1> DEFINE made == ContextPresent(r, n)
           f    == Present(made.relation.contexts[n][side], id, Status(0))
           with == [made EXCEPT !.relation.contexts[n][side] = f]
           g    == [f EXCEPT ![id].bind = v]
           q    == [with EXCEPT !.relation.contexts[n][side] = g]
<1>1. /\ made \in Roles /\ Kept(r, made) /\ n \in DOMAIN made.relation.contexts
  BY ContextMade
<1>2. made.relation.contexts[n][side] \in PartialFunctions(Statuses)
  BY <1>1, ContextsOf
<1>3. f \in PartialFunctions(Statuses) /\ id \in DOMAIN f
  BY <1>2, StatusPresent
<1>4. /\ g \in PartialFunctions(Statuses)
      /\ id \in DOMAIN g /\ g[id].bind = v /\ g[id].strings = f[id].strings
  BY <1>3, PartialBind
<1>5. NameMade(r, n, side, id) = with
  BY DEF NameMade
<1> HIDE DEF f, made
<1>6. /\ with \in Roles /\ n \in DOMAIN with.relation.contexts
      /\ with.relation.contexts[n][side] = f /\ Kept(made, with)
  BY <1>1, <1>3, KeptSide
<1> HIDE DEF with
<1>7. NameSet(r, n, side, id, v) = Marked(q)
  BY <1>5, <1>6 DEF NameSet
<1> HIDE DEF g
<1>8. /\ Kept(with, Marked(q)) /\ q \in Roles
      /\ DOMAIN q.relation.contexts = DOMAIN with.relation.contexts
      /\ q.relation.contexts[n][side] = g
  BY <1>4, <1>6, KeptSide
<1> HIDE DEF q
<1>9. Kept(r, with) /\ Kept(r, Marked(q)) /\ Marked(q).relation = q.relation
  BY <1>1, <1>6, <1>8, KeptTransitive, KeptMarked
<1> QED
  BY <1>4, <1>5, <1>6, <1>7, <1>8, <1>9 DEF f, made

LEMMA ContextStatusInt ==
    ASSUME NEW r \in Roles, NEW n \in Names, NEW side, NEW id \in Names, NEW b \in Int,
           NEW v \in Values
    PROVE  Keeps(r, SetContextStatusInt(r, n, side, id, b, v))
<1> DEFINE made == ContextPresent(r, n)
           with == NameMade(r, n, side, id)
           q    == NameSet(r, n, side, id, v)
           set  == SetContextStatusInt(r, n, side, id, b, v)
<1>1. Kept(r, r) /\ Kept(r, Marked(made))
  BY ContextMade, KeptSame
<1>2. side \in {"up", "down"} => Kept(r, with) /\ Kept(r, q)
  BY ContextNameMade
<1>3. \/ set = Refused(r)
      \/ set = Ok(Marked(made))
      \/ side \in {"up", "down"} /\ set = Panic(with)
      \/ side \in {"up", "down"} /\ set = Ok(q)
  BY DEF SetContextStatusInt, NameMade, NameSet
<1> HIDE DEF made, with, q, set
<1>4. Keeps(r, set)
  BY <1>1, <1>2, <1>3, Results DEF Keeps
<1> QED
  BY <1>4 DEF set

LEMMA ContextStatuses ==
    ASSUME NEW r \in Roles, NEW n \in Names, NEW side, NEW id \in Names, NEW b \in Int,
           NEW v \in Values, NEW t
    PROVE  /\ Keeps(r, SetContextStatusInt(r, n, side, id, b, v))
           /\ Keeps(r, SetContextStatusFloat(r, n, side, id, b, v))
           /\ Keeps(r, SetContextStatusComplex(r, n, side, id, b, v))
           /\ Keeps(r, SetContextStatusString(r, n, side, id, b, v))
           /\ Keeps(r, SetContextStatus(r, n, side, id, b, t, v))
<1> DEFINE made == ContextPresent(r, n)
           with == NameMade(r, n, side, id)
           int  == SetContextStatusInt(r, n, side, id, b, v)
           str  == SetContextStatusString(r, n, side, id, b, v)
           set  == SetContextStatus(r, n, side, id, b, t, v)
<1>1. Kept(r, r) /\ Kept(r, made) /\ Keeps(r, int)
  BY ContextMade, KeptSame, ContextStatusInt
<1>2. /\ Keeps(r, SetContextStatusFloat(r, n, side, id, b, v))
      /\ Keeps(r, SetContextStatusComplex(r, n, side, id, b, v))
  BY <1>1 DEF SetContextStatusFloat, SetContextStatusComplex
<1>3. str = Panic(made) \/ str = int
  BY DEF SetContextStatusString
<1>4. side \in {"up", "down"} => Kept(r, with)
  BY ContextNameMade
<1>5. \/ set = Refused(r)
      \/ set = Refused(made)
      \/ side \in {"up", "down"} /\ set = Refused(with)
      \/ set = Recovered(str)
      \/ set = Recovered(int)
  BY DEF SetContextStatus, NameMade
<1>6. \A s : Recovered(s).role = s.role
  BY Results DEF Recovered
<1> HIDE DEF made, with, int, str, set
<1>7. Keeps(r, str) /\ Keeps(r, set)
  BY <1>1, <1>3, <1>4, <1>5, <1>6, Results DEF Keeps
<1> QED
  BY <1>1, <1>2, <1>7 DEF int, str, set

\* Whatever is done to a role, by whatever method and however it ends.
LEMMA ChangesKeep ==
    ASSUME NEW r \in Roles, NEW result \in Changes(r)
    PROVE  Kept(r, result.role)
<1>0. {} \in SUBSET Names /\ Bits \subseteq Int
  BY DEF Bits
<1>1. \A v \in Values, f \in Fields \cup {NoName} :
         Keeps(r, SetVersion(r, v)) /\ Keeps(r, SetData(r, f, v))
  BY VersionAndData
<1>2. /\ \A id \in Names : Keeps(r, SetFather(r, id))
      /\ \A c \in SUBSET Names : Keeps(r, SetChildren(r, c))
  <2>1. \A id \in Names \cup {NoName}, c \in SUBSET Names :
           Keeps(r, SetFather(r, id)) /\ Keeps(r, SetChildren(r, c))
    BY FatherAndChildren
  <2> QED
    BY <1>0, <2>1
<1>3. Keeps(r, ResetFather(r)) /\ Keeps(r, ResetChilren(r))
  BY <1>0, FatherAndChildren DEF ResetFather, ResetChilren
<1>4. \A F \in SUBSET Names : Keeps(r, SetFriends(r, [n \in F |-> Status(0)]))
  <2> SUFFICES ASSUME NEW F \in SUBSET Names
               PROVE  Keeps(r, SetFriends(r, [n \in F |-> Status(0)]))
    OBVIOUS
  <2> DEFINE f == [n \in F |-> Status(0)]
  <2>1. f \in [F -> Statuses]
    BY StatusTypes, RoleFilesAssumption
  <2>2. f \in PartialFunctions(Statuses)
    BY <2>1, Partial
  <2> HIDE DEF f
  <2>3. Keeps(r, SetFriends(r, f))
    BY <2>2, FriendsSet
  <2> QED
    BY <2>3 DEF f
<1>5. Keeps(r, ResetFriends(r))
  BY PartialEmpty, FriendsSet DEF ResetFriends
<1>6. \A n \in Names :
         /\ Keeps(r, AddChild(r, n)) /\ Keeps(r, DeleteChild(r, n))
         /\ Keeps(r, DeleteFriend(r, n)) /\ Keeps(r, NewContext(r, n)) /\ Keeps(r, DelContext(r, n))
         /\ \A v \in Values : Keeps(r, AddFriend(r, n, v)) /\ Keeps(r, ChangeFriend(r, n, v))
  <2>1. \A n \in Names : \A v \in Values :
           Keeps(r, AddFriend(r, n, v)) /\ Keeps(r, ChangeFriend(r, n, v)) /\ Keeps(r, DeleteFriend(r, n))
    BY OneFriend
  <2>2. \A n \in Names : Keeps(r, DeleteFriend(r, n))
    BY <2>1, RoleFilesAssumption
  <2> QED
    BY <2>1, <2>2, OneChild, OneContext
<1>7. \A C \in SUBSET Names : Keeps(r, SetContexts(r, [n \in C |-> EmptyContext]))
  <2> SUFFICES ASSUME NEW C \in SUBSET Names
               PROVE  Keeps(r, SetContexts(r, [n \in C |-> EmptyContext]))
    OBVIOUS
  <2> DEFINE c == [n \in C |-> EmptyContext]
  <2>1. EmptyContext \in AContext
    BY PartialEmpty DEF EmptyContext, AContext
  <2>2. c \in [C -> AContext]
    BY <2>1
  <2>3. c \in PartialFunctions(AContext)
    BY <2>2, Partial
  <2> HIDE DEF c
  <2>4. Keeps(r, SetContexts(r, c))
    BY <2>3, ContextsSet
  <2> QED
    BY <2>4 DEF c
<1>8. \A n \in Names, b \in Bits, v \in Values :
         /\ Keeps(r, SetFriendStatusInt(r, n, b, v)) /\ Keeps(r, SetFriendStatusFloat(r, n, b, v))
         /\ Keeps(r, SetFriendStatusComplex(r, n, b, v))
         /\ Keeps(r, SetFriendStatusString(r, n, b, v))
         /\ \A t \in Types : Keeps(r, SetFriendStatus(r, n, b, t, v))
  BY <1>0, FriendStatuses
<1>9. \A c \in Names, n \in Names :
         /\ \A v \in Values : Keeps(r, AddContextUp(r, c, n, v)) /\ Keeps(r, AddContextDown(r, c, n, v))
         /\ Keeps(r, DelContextUp(r, c, n)) /\ Keeps(r, DelContextDown(r, c, n))
  <2>1. \A c \in Names, n \in Names, side \in {"up", "down"}, v \in Values :
           Keeps(r, AddContextSide(r, c, side, n, v)) /\ Keeps(r, DelContextSide(r, c, side, n))
    BY ContextSides
  <2> QED
    BY <2>1, RoleFilesAssumption
    DEF AddContextUp, AddContextDown, DelContextUp, DelContextDown
<1>10. \A c \in Names, s \in Sides, n \in Names, b \in Bits, v \in Values :
          /\ Keeps(r, SetContextStatusInt(r, c, s, n, b, v))
          /\ Keeps(r, SetContextStatusFloat(r, c, s, n, b, v))
          /\ Keeps(r, SetContextStatusComplex(r, c, s, n, b, v))
          /\ Keeps(r, SetContextStatusString(r, c, s, n, b, v))
          /\ \A t \in Types : Keeps(r, SetContextStatus(r, c, s, n, b, t, v))
  BY <1>0, ContextStatuses
<1>11. Keeps(r, result)
  <2> DEFINE
       S1  == {SetVersion(r, v) : v \in Values}
       S2  == {SetData(r, f, v) : f \in Fields \cup {NoName}, v \in Values}
       S3  == {SetFather(r, id) : id \in Names}
       S4  == {ResetFather(r)}
       S5  == {SetChildren(r, c) : c \in SUBSET Names}
       S6  == {ResetChilren(r)}
       S7  == {SetFriends(r, [n \in F |-> Status(0)]) : F \in SUBSET Names}
       S8  == {ResetFriends(r)}
       S9  == UNION {{AddChild(r, n), DeleteChild(r, n), DeleteFriend(r, n), NewContext(r, n),
                         DelContext(r, n)} : n \in Names}
       S10 == UNION {{AddFriend(r, n, v), ChangeFriend(r, n, v)} : n \in Names, v \in Values}
       S11 == UNION {{SetFriendStatusInt(r, n, b, v), SetFriendStatusFloat(r, n, b, v),
                         SetFriendStatusComplex(r, n, b, v), SetFriendStatusString(r, n, b, v)} :
                        n \in Names, b \in Bits, v \in Values}
       S12 == {SetFriendStatus(r, n, b, t, v) : n \in Names, b \in Bits, t \in Types, v \in Values}
       S13 == {SetContexts(r, [n \in C |-> EmptyContext]) : C \in SUBSET Names}
       S14 == UNION {{AddContextUp(r, c, n, v), AddContextDown(r, c, n, v)} :
                        c \in Names, n \in Names, v \in Values}
       S15 == UNION {{DelContextUp(r, c, n), DelContextDown(r, c, n)} : c \in Names, n \in Names}
       S16 == UNION {{SetContextStatusInt(r, c, s, n, b, v), SetContextStatusFloat(r, c, s, n, b, v),
                         SetContextStatusComplex(r, c, s, n, b, v),
                         SetContextStatusString(r, c, s, n, b, v)} :
                        c \in Names, s \in Sides, n \in Names, b \in Bits, v \in Values}
       S17 == {SetContextStatus(r, c, s, n, b, t, v) :
                  c \in Names, s \in Sides, n \in Names, b \in Bits, t \in Types, v \in Values}
  <2>0. result \in S1 \/ result \in S2 \/ result \in S3 \/ result \in S4 \/ result \in S5 \/ result \in S6 
        \/ result \in S7 \/ result \in S8 \/ result \in S9 \/ result \in S10 \/ result \in S11 \/ result \in S12 
        \/ result \in S13 \/ result \in S14 \/ result \in S15 \/ result \in S16 \/ result \in S17
    BY DEF Changes
  <2>1. result \in S1 => Keeps(r, result)
    BY <1>1
  <2>2. result \in S2 => Keeps(r, result)
    BY <1>1
  <2>3. result \in S3 => Keeps(r, result)
    BY <1>2
  <2>4. result \in S4 => Keeps(r, result)
    BY <1>3
  <2>5. result \in S5 => Keeps(r, result)
    BY <1>2
  <2>6. result \in S6 => Keeps(r, result)
    BY <1>3
  <2>7. result \in S7 => Keeps(r, result)
    BY <1>4
  <2>8. result \in S8 => Keeps(r, result)
    BY <1>5
  <2>9. result \in S9 => Keeps(r, result)
    BY <1>6
  <2>10. result \in S10 => Keeps(r, result)
    BY <1>6
  <2>11. result \in S11 => Keeps(r, result)
    BY <1>8
  <2>12. result \in S12 => Keeps(r, result)
    BY <1>8
  <2>13. result \in S13 => Keeps(r, result)
    BY <1>7
  <2>14. result \in S14 => Keeps(r, result)
    BY <1>9
  <2>15. result \in S15 => Keeps(r, result)
    BY <1>9
  <2>16. result \in S16 => Keeps(r, result)
    BY <1>10
  <2>17. result \in S17 => Keeps(r, result)
    BY <1>10
  <2> HIDE DEF S1, S2, S3, S4, S5, S6, S7, S8, S9, S10, S11, S12, S13, S14, S15, S16, S17
  <2> QED
    BY <2>0, <2>1, <2>2, <2>3, <2>4, <2>5, <2>6, <2>7, <2>8, <2>9, <2>10, <2>11, <2>12, <2>13, <2>14, <2>15, <2>16, <2>17
<1> QED
  BY <1>11 DEF Keeps

----------------------------------------------------------------------------
(* The Go object: its methods against those of RoleMiddleData that have    *)
(* the same names, and what it makes of itself to be stored.               *)

\* An object and a role of the same parts; the marks are different ones.
SameParts(o, r) ==
    o.version = r.version /\ o.relation = r.relation /\ o.data = r.data

LEMMA ObjectAndRole ==
    /\ \A r \in Roles : DecodeMiddleToRole(r) \in Objects /\ SameParts(DecodeMiddleToRole(r), r)
    /\ \A o \in Objects : Encoded(o) \in Roles /\ SameParts(o, Encoded(o))
BY DEF DecodeMiddleToRole, Encoded, EncodeRoleToMiddle, Objects, Roles, RoleParts, SameParts

\* What the same change of the relation leaves of both.
LEMMA AlikeRelation ==
    ASSUME NEW o \in Objects, NEW r \in Roles, SameParts(o, r), NEW relation, NEW part
    PROVE  LET p == [o EXCEPT !.relation = relation]
               q == [r EXCEPT !.relation = relation]
           IN  /\ EndAlike(Ok(p), Ok(q)) /\ EndAlike(Ok(RoleMarked(p, part)), Ok(Marked(q)))
               /\ EndAlike(Ok(p), Ok(Marked(q)))
               /\ EndAlike(Refused(p), Refused(q))
BY DEF Objects, Roles, SameParts, EndAlike, Ok, Refused, RoleMarked, Marked

LEMMA AlikeSame ==
    ASSUME NEW o \in Objects, NEW r \in Roles, SameParts(o, r), NEW part
    PROVE  /\ EndAlike(Ok(o), Ok(r)) /\ EndAlike(Refused(o), Refused(r)) /\ EndAlike(Panic(o), Panic(r))
           /\ EndAlike(Ok(RoleMarked(o, part)), Ok(Marked(r)))
BY DEF Objects, Roles, SameParts, EndAlike, Ok, Refused, Panic, RoleMarked, Marked

LEMMA AlikeVersion ==
    ASSUME NEW o \in Objects, NEW r \in Roles, SameParts(o, r), NEW v \in Values, NEW f \in Fields
    PROVE  /\ EndAlike(RoleSetVersion(o, v), SetVersion(r, v))
           /\ EndAlike(SetField(o, f, v), SetData(r, f, v))
BY DEF Objects, Roles, SameParts, EndAlike, Ok, RoleSetVersion, SetVersion, SetField, SetData

LEMMA AlikeFamily ==
    ASSUME NEW o \in Objects, NEW r \in Roles, SameParts(o, r), NEW id, NEW c
    PROVE  /\ EndAlike(RoleSetFather(o, id), SetFather(r, id))
           /\ EndAlike(RoleSetChildren(o, c), SetChildren(r, c))
           /\ EndAlike(RoleSetFriends(o, c), SetFriends(r, c))
           /\ EndAlike(RoleAddChild(o, id), AddChild(r, id))
           /\ EndAlike(RoleDeleteChild(o, id), DeleteChild(r, id))
<1>1. /\ [o EXCEPT !.relation.father = id] = [o EXCEPT !.relation = [o.relation EXCEPT !.father = id]]
      /\ [r EXCEPT !.relation.father = id] = [r EXCEPT !.relation = [r.relation EXCEPT !.father = id]]
      /\ \A d : /\ [o EXCEPT !.relation.children = d] = [o EXCEPT !.relation = [o.relation EXCEPT !.children = d]]
                /\ [r EXCEPT !.relation.children = d] = [r EXCEPT !.relation = [r.relation EXCEPT !.children = d]]
                /\ [o EXCEPT !.relation.friends = d] = [o EXCEPT !.relation = [o.relation EXCEPT !.friends = d]]
                /\ [r EXCEPT !.relation.friends = d] = [r EXCEPT !.relation = [r.relation EXCEPT !.friends = d]]
  OBVIOUS
<1>2. EndAlike(RoleSetFather(o, id), SetFather(r, id))
  BY <1>1, AlikeRelation DEF SameParts, RoleSetFather, SetFather
<1>3. \A d : /\ EndAlike(RoleSetChildren(o, d), SetChildren(r, d))
             /\ EndAlike(RoleSetFriends(o, d), SetFriends(r, d))
  BY <1>1, AlikeRelation DEF SameParts, RoleSetChildren, SetChildren, RoleSetFriends, SetFriends
<1>4. EndAlike(RoleAddChild(o, id), AddChild(r, id)) /\ EndAlike(RoleDeleteChild(o, id), DeleteChild(r, id))
  BY <1>3, AlikeSame DEF SameParts, RoleAddChild, AddChild, RoleDeleteChild, DeleteChild,
     RoleExistChild, ExistChild, RoleSetChildren, SetChildren
<1> QED
  BY <1>2, <1>3, <1>4

\* The same friends, or the same contexts, put in both.
LEMMA AlikeFriends ==
    ASSUME NEW o \in Objects, NEW r \in Roles, SameParts(o, r), NEW f
    PROVE  LET p == [o EXCEPT !.relation.friends = f]
               q == [r EXCEPT !.relation.friends = f]
           IN  EndAlike(Ok(RoleMarked(p, "friends")), Ok(Marked(q))) /\ EndAlike(Refused(p), Refused(q))
<1>1. /\ [o EXCEPT !.relation.friends = f] = [o EXCEPT !.relation = [o.relation EXCEPT !.friends = f]]
      /\ [r EXCEPT !.relation.friends = f] = [r EXCEPT !.relation = [r.relation EXCEPT !.friends = f]]
  OBVIOUS
<1> QED
  BY <1>1, AlikeRelation DEF SameParts

LEMMA AlikeContexts ==
    ASSUME NEW o \in Objects, NEW r \in Roles, SameParts(o, r), NEW c
    PROVE  LET p == [o EXCEPT !.relation.contexts = c]
               q == [r EXCEPT !.relation.contexts = c]
           IN  /\ EndAlike(Ok(p), Ok(q)) /\ EndAlike(Ok(p), Ok(Marked(q)))
               /\ EndAlike(Ok(RoleMarked(p, "context")), Ok(Marked(q)))
               /\ EndAlike(Refused(p), Refused(q))
<1>1. /\ [o EXCEPT !.relation.contexts = c] = [o EXCEPT !.relation = [o.relation EXCEPT !.contexts = c]]
      /\ [r EXCEPT !.relation.contexts = c] = [r EXCEPT !.relation = [r.relation EXCEPT !.contexts = c]]
  OBVIOUS
<1> QED
  BY <1>1, AlikeRelation DEF SameParts

LEMMA AlikeOneFriend ==
    ASSUME NEW o \in Objects, NEW r \in Roles, SameParts(o, r), NEW n, NEW v
    PROVE  /\ EndAlike(RoleDeleteFriend(o, n), DeleteFriend(r, n))
           /\ EndAlike(RoleChangeFriend(o, n, v), ChangeFriend(r, n, v))
BY AlikeSame DEF SameParts, RoleDeleteFriend, DeleteFriend, RoleChangeFriend, ChangeFriend,
   RoleExistFriend, ExistFriend

LEMMA AlikeFriendStatus ==
    ASSUME NEW o \in Objects, NEW r \in Roles, SameParts(o, r), NEW n \in Names, NEW b \in Bits,
           NEW t \in Types, NEW v \in Values
    PROVE  EndAlike(RoleSetFriendStatus(o, n, b, t, v), SetFriendStatus(r, n, b, t, v))
<1> DEFINE f    == Present(r.relation.friends, n, Status(0))
           g    == [f EXCEPT ![n].bind = v]
           p    == [o EXCEPT !.relation.friends = f]
           made == FriendPresent(r, n)
           no   == t = "string" /\ ~f[n].strings
<1>1. /\ o.relation.friends = r.relation.friends
      /\ [o EXCEPT !.relation.friends = Present(@, n, Status(0))] = p
      /\ p.relation.friends = f /\ [p EXCEPT !.relation.friends[n].bind = v] = [o EXCEPT !.relation.friends = g]
  BY DEF SameParts, Objects, Relations
<1>2. /\ made = [r EXCEPT !.relation.friends = f] /\ made.relation.friends = f
      /\ [made EXCEPT !.relation.friends[n].bind = v] = [r EXCEPT !.relation.friends = g]
  BY DEF FriendPresent, Roles, Relations
<1>3. CASE b > 9 \/ b < 0 \/ t = "other" \/ no
  <2>1. RoleSetFriendStatus(o, n, b, t, v) = Refused(p)
    BY <1>1, <1>3 DEF RoleSetFriendStatus
  <2>2. SetFriendStatus(r, n, b, t, v) = Refused(made)
    <3>1. no => made = r
      <4>1. no => f = r.relation.friends
        BY DEF Present, With, Status
      <4>2. [r EXCEPT !.relation.friends = r.relation.friends] = r
        BY DEF Roles, Relations
      <4> QED
        BY <1>2, <4>1, <4>2
    <3>2. CASE t = "string"
      <4>1. \/ no /\ b <= 9 /\ SetFriendStatusString(r, n, b, v) = Panic(r)
            \/ SetFriendStatusString(r, n, b, v) = SetFriendStatusInt(r, n, b, v) /\ (b > 9 \/ b < 0)
        BY <1>2, <1>3, <3>2 DEF SetFriendStatusString, Bits
      <4>2. b > 9 \/ b < 0 => SetFriendStatusInt(r, n, b, v) \in {Refused(made), Panic(made)}
        BY DEF SetFriendStatusInt
      <4>3. SetFriendStatusString(r, n, b, v) \in {Refused(made), Panic(made)}
        BY <3>1, <4>1, <4>2
      <4> QED
        BY <3>2, <4>3, Results DEF SetFriendStatus, Recovered
    <3>3. CASE t \in {"number", "narrow"}
      <4>1. SetFriendStatusInt(r, n, b, v) \in {Refused(made), Panic(made)}
        BY <1>3, <3>3 DEF SetFriendStatusInt
      <4> QED
        BY <3>3, <4>1, Results DEF SetFriendStatus, Recovered
    <3>4. CASE t = "other"
      BY <3>4, Results DEF SetFriendStatus, Recovered
    <3> QED
      BY <3>2, <3>3, <3>4 DEF Types
  <2> QED
    BY <1>2, <2>1, <2>2, AlikeFriends
<1>4. CASE ~(b > 9 \/ b < 0 \/ t = "other" \/ no)
  <2>1. RoleSetFriendStatus(o, n, b, t, v) = Ok(RoleMarked([o EXCEPT !.relation.friends = g], "friends"))
    BY <1>1, <1>4 DEF RoleSetFriendStatus
  <2>2. SetFriendStatus(r, n, b, t, v) = Ok(Marked([r EXCEPT !.relation.friends = g]))
    <3>1. SetFriendStatusInt(r, n, b, v) = Ok([r EXCEPT !.relation.friends = g])
      BY <1>2, <1>4 DEF SetFriendStatusInt
    <3>2. t = "string" => SetFriendStatusString(r, n, b, v) = SetFriendStatusInt(r, n, b, v)
      BY <1>2, <1>4 DEF SetFriendStatusString
    <3>3. t \in {"number", "narrow", "string"}
      BY <1>4 DEF Types
    <3> QED
      BY <3>1, <3>2, <3>3, Results DEF SetFriendStatus
  <2> QED
    BY <2>1, <2>2, AlikeFriends
<1> QED
  BY <1>3, <1>4

LEMMA AlikeWholeContexts ==
    ASSUME NEW o \in Objects, NEW r \in Roles, SameParts(o, r), NEW n \in Names, NEW c
    PROVE  /\ EndAlike(RoleSetContexts(o, c), SetContexts(r, c))
           /\ ~RoleExistContext(o, n) => EndAlike(RoleNewContext(o, n), NewContext(r, n))
           /\ EndAlike(RoleDelContext(o, n), DelContext(r, n))
BY AlikeContexts DEF SameParts, RoleSetContexts, SetContexts, RoleExistContext, RoleNewContext,
   NewContext, RoleDelContext, DelContext, ContextPresent, Present

LEMMA AlikeDelSide ==
    ASSUME NEW o \in Objects, NEW r \in Roles, SameParts(o, r), NEW n \in Names, NEW id \in Names,
           NEW side \in {"up", "down"}
    PROVE  EndAlike(RoleDelContextSide(o, n, side, id), DelContextSide(r, n, side, id))
<1> DEFINE c == [r.relation.contexts EXCEPT ![n][side] = Without(@, id)]
<1>1. /\ o.relation.contexts = r.relation.contexts
      /\ [o EXCEPT !.relation.contexts[n][side] = Without(@, id)] = [o EXCEPT !.relation.contexts = c]
      /\ [r EXCEPT !.relation.contexts[n][side] = Without(@, id)] = [r EXCEPT !.relation.contexts = c]
  BY DEF SameParts
<1> HIDE DEF c
<1> QED
  BY <1>1, AlikeContexts, AlikeSame DEF RoleDelContextSide, DelContextSide, RoleExistContext, ExistContext

LEMMA ReadAlike ==
    ASSUME NEW o \in Objects, NEW r \in Roles, SameParts(o, r)
    PROVE  ReadsAgree(o, r)
<1>1. o.relation = r.relation
  BY DEF SameParts
<1>2. \A b \in Bits : b > 9 \/ b \in Int
  BY DEF Bits
<1>3. ASSUME NEW n \in Names, NEW b \in Bits, NEW t \in Types
      PROVE  LET read == RoleGetFriendStatus(o, n, b, t)
                 other == GetFriendStatus(r, n, b, t)
             IN  read.have = other.have /\ read.value = other.value
  BY <1>1 DEF RoleGetFriendStatus, GetFriendStatus, FriendStatus, RoleExistFriend, ExistFriend,
     HaveNot, ReadError, Types
<1>4. ASSUME NEW c \in Names, NEW n \in Names, NEW s \in Sides, NEW b \in Bits, NEW t \in Types
      PROVE  RoleGetContextStatus(o, c, s, n, b, t) = GetContextStatus(r, c, s, n, b, t)
  BY <1>1 DEF RoleGetContextStatus, GetContextStatus, ContextStatus, RoleExistContext, ExistContext
<1>5. /\ RoleGetContextsName(o) = GetContextsName(r)
      /\ \A c \in Names : RoleGetContext(o, c) = GetContext(r, c)
  BY <1>1 DEF RoleGetContextsName, GetContextsName, RoleGetContext, GetContext, RoleExistContext, ExistContext
<1>6. \A c, n \in Names :
         /\ RoleGetContextUp(o, c, n) = GetContextUp(r, c, n)
         /\ RoleGetContextDown(o, c, n) = GetContextDown(r, c, n)
  BY <1>1 DEF RoleGetContextUp, GetContextUp, RoleGetContextDown, GetContextDown, RoleGetContextSide,
     GetContextSide, RoleExistContext, ExistContext
<1>7. \A v \in Values :
         /\ RoleGetSameBindFriendsId(o, v) = GetSameBindFriendsId(r, v)
         /\ \A c \in Names :
               /\ RoleGetContextUpSameBind(o, c, v) = GetContextUpSameBind(r, c, v)
               /\ RoleGetContextDownSameBind(o, c, v) = GetContextDownSameBind(r, c, v)
  BY <1>1 DEF RoleGetSameBindFriendsId, GetSameBindFriendsId, RoleGetContextUpSameBind,
     GetContextUpSameBind, RoleGetContextDownSameBind, GetContextDownSameBind, RoleExistContext, ExistContext
<1> QED
  BY <1>3, <1>4, <1>5, <1>6, <1>7 DEF ReadsAgree

\* With and without slots for strings, once stored and read.
LEMMA SlotsFilled ==
    ASSUME NEW f, NEW n, NEW v \in Values
    PROVE  WithSlots(With(f, n, Status(v))) = WithSlots(With(f, n, StatusWithoutStrings(v)))
<1> DEFINE g == With(f, n, Status(v))
           h == With(f, n, StatusWithoutStrings(v))
<1>1. DOMAIN g = DOMAIN h
  BY DEF With
<1>2. ASSUME NEW m \in DOMAIN g
      PROVE  [g[m] EXCEPT !.strings = TRUE] = [h[m] EXCEPT !.strings = TRUE]
  <2>1. CASE m = n
    <3>1. g[m] = Status(v) /\ h[m] = StatusWithoutStrings(v)
      BY <2>1 DEF With
    <3>2. [Status(v) EXCEPT !.strings = TRUE] = [StatusWithoutStrings(v) EXCEPT !.strings = TRUE]
      <4>1. \A s \in Statuses : [s EXCEPT !.strings = TRUE] \in Statuses
                               /\ [s EXCEPT !.strings = TRUE].bind = s.bind
                               /\ [s EXCEPT !.strings = TRUE].strings = TRUE
        BY DEF Statuses
      <4>2. \A x, y \in Statuses : x.bind = y.bind /\ x.strings = y.strings => x = y
        BY DEF Statuses
      <4>3. \A x, y \in Statuses : x.bind = y.bind => [x EXCEPT !.strings = TRUE] = [y EXCEPT !.strings = TRUE]
        BY <4>1, <4>2
      <4>4. /\ Status(v) \in Statuses /\ StatusWithoutStrings(v) \in Statuses
            /\ Status(v).bind = v /\ StatusWithoutStrings(v).bind = v
        BY StatusTypes DEF Status, StatusWithoutStrings
      <4> HIDE DEF g, h
      <4> QED
        BY <4>3, <4>4, Zenon
    <3> QED
      BY <3>1, <3>2
  <2>2. CASE m # n
    <3>1. g[m] = h[m]
      BY <2>2 DEF With
    <3> QED
      BY <3>1
  <2> QED
    BY <2>1, <2>2
<1> QED
  BY <1>1, <1>2 DEF WithSlots

\* Two relations that are the same once they have been stored and read.
LEMMA DecodedAlike ==
    ASSUME NEW x \in Relations, NEW y \in Relations,
           x.father = y.father, x.children = y.children,
           WithSlots(x.friends) = WithSlots(y.friends), DOMAIN x.contexts = DOMAIN y.contexts,
           \A c \in DOMAIN x.contexts : /\ WithSlots(x.contexts[c].up) = WithSlots(y.contexts[c].up)
                                       /\ WithSlots(x.contexts[c].down) = WithSlots(y.contexts[c].down)
    PROVE  Decoded(x) = Decoded(y)
<1> DEFINE C(z) == [c \in DOMAIN z.contexts |-> [up |-> WithSlots(z.contexts[c].up),
                                                 down |-> WithSlots(z.contexts[c].down)]]
           D(z) == [father |-> z.father, children |-> z.children,
                    friends |-> WithSlots(z.friends), contexts |-> C(z)]
<1>1. C(x) = C(y)
  OBVIOUS
<1>2. \A z \in Relations : Decoded(z) = [[z EXCEPT !.friends = WithSlots(z.friends)] EXCEPT !.contexts = C(z)]
  BY DEF Decoded, Relations
<1> HIDE DEF C
<1>3. \A z \in Relations : Decoded(z) = D(z)
  BY <1>2 DEF Relations
<1> QED
  BY <1>1, <1>3

LEMMA AlikeAddFriend ==
    ASSUME NEW o \in Objects, NEW r \in Roles, SameParts(o, r), NEW n \in Names, NEW v \in Values
    PROVE  EndAlikeOnceStored(RoleAddFriend(o, n, v), AddFriend(r, n, v))
<1> DEFINE f == With(r.relation.friends, n, Status(v))
           g == With(r.relation.friends, n, StatusWithoutStrings(v))
           p == RoleMarked([o EXCEPT !.relation.friends = f], "friends")
           q == Marked([r EXCEPT !.relation.friends = g])
<1>1. CASE ExistFriend(r, n)
  <2>1. RoleAddFriend(o, n, v) = Refused(o) /\ AddFriend(r, n, v) = Refused(r)
    BY <1>1 DEF SameParts, RoleAddFriend, AddFriend, RoleExistFriend, ExistFriend
  <2> QED
    BY <2>1, Results DEF EndAlikeOnceStored, SameParts
<1>2. CASE ~ExistFriend(r, n)
  <2>1. RoleAddFriend(o, n, v) = Ok(p) /\ AddFriend(r, n, v) = Ok(q)
    BY <1>2 DEF SameParts, RoleAddFriend, AddFriend, RoleExistFriend, ExistFriend
  <2> HIDE DEF f, g
  <2>2. /\ p.version = q.version /\ p.data = q.data
        /\ p.relation = [r.relation EXCEPT !.friends = f]
        /\ q.relation = [r.relation EXCEPT !.friends = g]
    BY DEF SameParts, Objects, Roles, RoleMarked, Marked
  <2>3. WithSlots(f) = WithSlots(g)
    BY SlotsFilled DEF f, g
  <2>4. f \in PartialFunctions(Statuses) /\ g \in PartialFunctions(Statuses)
    BY RelationOf, StatusTypes, PartialWith DEF f, g
  <2>5. p.relation \in Relations /\ q.relation \in Relations
    BY <2>2, <2>4, RelationOf DEF Relations
  <2> HIDE DEF p, q
  <2>6. Decoded(p.relation) = Decoded(q.relation)
    <3>1. /\ p.relation.father = q.relation.father /\ p.relation.children = q.relation.children
          /\ p.relation.contexts = q.relation.contexts
          /\ p.relation.friends = f /\ q.relation.friends = g
      BY <2>2, RelationOf DEF Relations
    <3> QED
      BY <2>3, <2>5, <3>1, DecodedAlike
  <2> HIDE DEF p, q
  <2> QED
    BY <2>1, <2>2, <2>6, Results DEF EndAlikeOnceStored
<1> QED
  BY <1>1, <1>2

LEMMA AlikeAddSide ==
    ASSUME NEW o \in Objects, NEW r \in Roles, SameParts(o, r), NEW n \in Names,
           NEW side \in {"up", "down"}, NEW id \in Names, NEW v \in Values
    PROVE  EndAlikeOnceStored(RoleAddContextSide(o, n, side, id, v), AddContextSide(r, n, side, id, v))
<1> DEFINE old == r.relation.contexts
<1>0. o.relation = r.relation /\ o.version = r.version /\ o.data = r.data
  BY DEF SameParts
<1>1. CASE ExistContext(r, n)
  <2> DEFINE c == [old EXCEPT ![n][side][id].bind = v]
             p == RoleMarked([o EXCEPT !.relation.contexts = c], "context")
             q == Marked([r EXCEPT !.relation.contexts = c])
  <2>1. CASE id \in DOMAIN old[n][side]
    <3>1. /\ RoleAddContextSide(o, n, side, id, v) = Ok(p)
          /\ AddContextSide(r, n, side, id, v) = Ok(q)
      BY <1>0, <1>1, <2>1 DEF RoleAddContextSide, AddContextSide, RoleExistContext, ExistContext
    <3>2. EndAlike(Ok(p), Ok(q))
      BY AlikeContexts
    <3> QED
      BY <3>1, <3>2 DEF EndAlike, EndAlikeOnceStored
  <2>2. CASE id \notin DOMAIN old[n][side]
    <3>1. /\ RoleAddContextSide(o, n, side, id, v) = Panic(o)
          /\ AddContextSide(r, n, side, id, v) = Panic(r)
      BY <1>0, <1>1, <2>2 DEF RoleAddContextSide, AddContextSide, RoleExistContext, ExistContext
    <3> QED
      BY <1>0, <3>1, Results DEF EndAlikeOnceStored
  <2> QED
    BY <2>1, <2>2
<1>2. CASE ~ExistContext(r, n)
  <2> DEFINE f == With(NoFunction, id, Status(v))
             g == With(NoFunction, id, StatusWithoutStrings(v))
             x == With(old, n, [EmptyContext EXCEPT ![side] = f])
             y == With(old, n, [EmptyContext EXCEPT ![side] = g])
             p == RoleMarked([o EXCEPT !.relation.contexts = x], "context")
             q == Marked([r EXCEPT !.relation.contexts = y])
  <2>0. EmptyContext[side] = NoFunction
    BY DEF EmptyContext
  <2>1. RoleAddContextSide(o, n, side, id, v) = Ok(p)
    <3>1. [EmptyContext EXCEPT ![side] = With(@, id, Status(v))] = [EmptyContext EXCEPT ![side] = f]
      BY <2>0
    <3> HIDE DEF f
    <3> QED
      BY <1>0, <1>2, <3>1 DEF RoleAddContextSide, RoleExistContext, ExistContext
  <2>2. AddContextSide(r, n, side, id, v) = Ok(q)
    <3> DEFINE w    == With(old, n, EmptyContext)
               made == [r EXCEPT !.relation.contexts = w]
    <3>1. ContextPresent(r, n) = made /\ made.relation.contexts = w /\ w[n] = EmptyContext
      <4>1. Present(old, n, EmptyContext) = w /\ w[n] = EmptyContext
        BY <1>2 DEF Present, ExistContext, With
      <4> HIDE DEF w
      <4> QED
        BY <4>1 DEF ContextPresent, Roles, Relations
    <3>2. [w EXCEPT ![n][side] = g] = y
      <4>1. DOMAIN w = DOMAIN y /\ n \in DOMAIN w
        BY DEF With
      <4>2. \A m \in DOMAIN w : m # n => w[m] = y[m]
        BY DEF With
      <4>3. y[n] = [EmptyContext EXCEPT ![side] = g]
        BY DEF With
      <4>4. w = [m \in DOMAIN w |-> w[m]] /\ y = [m \in DOMAIN y |-> y[m]]
        BY DEF With
      <4> HIDE DEF w, y, g
      <4> QED
        BY <3>1, <4>1, <4>2, <4>3, <4>4
    <3>3. [made EXCEPT !.relation.contexts[n][side] = With(@, id, StatusWithoutStrings(v))]
            = [r EXCEPT !.relation.contexts = [w EXCEPT ![n][side] = g]]
      BY <2>0, <3>1 DEF Roles, Relations
    <3> HIDE DEF y, w, g
    <3> QED
      BY <1>2, <3>1, <3>2, <3>3 DEF AddContextSide
  <2>3. WithSlots(f) = WithSlots(g)
    BY SlotsFilled
  <2>4. DOMAIN x = DOMAIN y
    BY DEF With
  <2>5. ASSUME NEW m \in DOMAIN x
        PROVE  WithSlots(x[m].up) = WithSlots(y[m].up) /\ WithSlots(x[m].down) = WithSlots(y[m].down)
    BY <2>3 DEF With, EmptyContext
  <2> HIDE DEF x, y
  <2>6. /\ p.version = q.version /\ p.data = q.data
        /\ p.relation = [r.relation EXCEPT !.contexts = x]
        /\ q.relation = [r.relation EXCEPT !.contexts = y]
    BY <1>0 DEF Objects, Roles, RoleMarked, Marked
  <2>7. x \in PartialFunctions(AContext) /\ y \in PartialFunctions(AContext)
    <3>1. f \in PartialFunctions(Statuses) /\ g \in PartialFunctions(Statuses)
      BY PartialEmpty, StatusTypes, PartialWith
    <3> HIDE DEF f, g
    <3>2. [EmptyContext EXCEPT ![side] = f] \in AContext /\ [EmptyContext EXCEPT ![side] = g] \in AContext
      BY <3>1, PartialEmpty DEF EmptyContext, AContext
    <3> QED
      BY <3>2, ContextsOf, PartialWith DEF x, y
  <2>8. p.relation \in Relations /\ q.relation \in Relations
    BY <2>6, <2>7, RelationOf DEF Relations, AContext
  <2>9. Decoded(p.relation) = Decoded(q.relation)
    <3> HIDE DEF p, q
    <3>1. /\ p.relation.father = q.relation.father /\ p.relation.children = q.relation.children
          /\ p.relation.friends = q.relation.friends
          /\ p.relation.contexts = x /\ q.relation.contexts = y
      BY <2>6, RelationOf DEF Relations
    <3> QED
      BY <2>4, <2>5, <2>8, <3>1, DecodedAlike
  <2> HIDE DEF p, q
  <2> QED
    BY <2>1, <2>2, <2>6, <2>9, Results DEF EndAlikeOnceStored
<1> QED
  BY <1>1, <1>2

LEMMA AlikeContextStatus ==
    ASSUME NEW o \in Objects, NEW r \in Roles, SameParts(o, r), NEW n \in Names, NEW side \in Sides,
           NEW id \in Names, NEW b \in Bits, NEW t \in Types, NEW v \in Values
    PROVE  EndAlike(RoleSetContextStatus(o, n, side, id, b, t, v),
                    SetContextStatus(r, n, side, id, b, t, v))
<1> DEFINE c    == Present(r.relation.contexts, n, EmptyContext)
           p    == [o EXCEPT !.relation.contexts = c]
           made == ContextPresent(r, n)
           set  == SetContextStatus(r, n, side, id, b, t, v)
           role_set == RoleSetContextStatus(o, n, side, id, b, t, v)
<1>1. /\ o.relation.contexts = r.relation.contexts
      /\ RoleContextMade(o, n) = p
      /\ made = [r EXCEPT !.relation.contexts = c]
  BY DEF SameParts, ContextPresent, RoleContextMade
<1>2. p.relation.contexts = c /\ made.relation.contexts = c
  BY <1>1 DEF Objects, Roles, Relations
<1> HIDE DEF c
<1>3. CASE b > 9
  <2>1. role_set = Refused(o) /\ set = Refused(r)
    BY <1>3 DEF RoleSetContextStatus, SetContextStatus
  <2> QED
    BY <2>1, AlikeSame
<1>4. CASE ~(b > 9) /\ side \notin {"up", "down"}
  <2>1. role_set = Refused(p)
    BY <1>1, <1>4 DEF RoleSetContextStatus
  <2>2. set = Refused(made)
    BY <1>4 DEF SetContextStatus
  <2> QED
    BY <1>1, <2>1, <2>2, AlikeContexts
<1>5. CASE ~(b > 9) /\ side \in {"up", "down"}
  <2> DEFINE f == Present(c[n][side], id, Status(0))
             d == [c EXCEPT ![n][side] = f]
             with == NameMade(r, n, side, id)
             e == [d EXCEPT ![n][side][id].bind = v]
             x == [o EXCEPT !.relation.contexts = d]
             no == t = "string" /\ ~f[id].strings
  <2>0. /\ made \in Roles /\ n \in DOMAIN c /\ c \in [DOMAIN c -> AContext]
        /\ c[n] \in AContext /\ c[n][side] \in PartialFunctions(Statuses)
    BY <1>2, <1>5, ContextMade, ContextsOf, Partial
  <2>1. d[n][side] = f
    BY <1>5, <2>0 DEF AContext
  <2>2. /\ with = [r EXCEPT !.relation.contexts = d]
        /\ RoleNameMade(o, n, side, id) = x
    <3>1. /\ with = [made EXCEPT !.relation.contexts[n][side] = f]
          /\ RoleNameMade(o, n, side, id) = [p EXCEPT !.relation.contexts[n][side] = f]
      BY <1>1, <1>2 DEF NameMade, RoleNameMade
    <3> HIDE DEF f
    <3>2. /\ [[r EXCEPT !.relation.contexts = c] EXCEPT !.relation.contexts[n][side] = f]
               = [r EXCEPT !.relation.contexts = d]
          /\ [[o EXCEPT !.relation.contexts = c] EXCEPT !.relation.contexts[n][side] = f]
               = [o EXCEPT !.relation.contexts = d]
      BY DEF Roles, Objects, Relations
    <3> QED
      BY <1>1, <3>1, <3>2, Zenon
  <2>3. /\ with.relation.contexts = d /\ x.relation.contexts = d
    <3> HIDE DEF d
    <3>1. /\ [r EXCEPT !.relation.contexts = d].relation.contexts = d
          /\ [o EXCEPT !.relation.contexts = d].relation.contexts = d
      BY DEF Roles, Objects, Relations
    <3> QED
      BY <2>2, <3>1, Zenon
  <2>4. /\ [with EXCEPT !.relation.contexts[n][side][id].bind = v] = [r EXCEPT !.relation.contexts = e]
        /\ [x EXCEPT !.relation.contexts[n][side][id].bind = v] = [o EXCEPT !.relation.contexts = e]
    <3> HIDE DEF d
    <3>1. /\ [[r EXCEPT !.relation.contexts = d] EXCEPT !.relation.contexts[n][side][id].bind = v]
               = [r EXCEPT !.relation.contexts = e]
          /\ [[o EXCEPT !.relation.contexts = d] EXCEPT !.relation.contexts[n][side][id].bind = v]
               = [o EXCEPT !.relation.contexts = e]
      BY DEF Roles, Objects, Relations
    <3> QED
      BY <2>2, <3>1, Zenon
  <2> HIDE DEF d, e, f
  <2>5. role_set = IF b < 0 \/ t = "other" \/ no THEN Refused(x)
                   ELSE Ok([o EXCEPT !.relation.contexts = e])
    BY <1>5, <2>1, <2>2, <2>3, <2>4 DEF RoleSetContextStatus
  <2>6. set = IF b < 0 \/ t = "other" \/ no THEN Refused(with)
              ELSE Ok(Marked([r EXCEPT !.relation.contexts = e]))
    <3> DEFINE int == SetContextStatusInt(r, n, side, id, b, v)
               str == SetContextStatusString(r, n, side, id, b, v)
               q   == NameSet(r, n, side, id, v)
    <3>1. q = Marked([r EXCEPT !.relation.contexts = e])
      BY <2>4 DEF NameSet
    <3>2. int = IF b < 0 THEN Panic(with) ELSE Ok(q)
      BY <1>5 DEF SetContextStatusInt, NameMade, NameSet
    <3>3. str = IF ~f[id].strings THEN Panic(made) ELSE int
      <4>1. ~f[id].strings <=> id \in DOMAIN c[n][side] /\ ~c[n][side][id].strings
        BY DEF Present, With, Status, f
      <4>2. b <= 9
        BY <1>5 DEF Bits
      <4> QED
        BY <1>2, <1>5, <4>1, <4>2 DEF SetContextStatusString
    <3>4. ~f[id].strings => made = with
      <4>1. ~f[id].strings => f = c[n][side]
        BY DEF Present, With, Status, f
      <4>2. [c EXCEPT ![n][side] = c[n][side]] = c
        BY <2>0 DEF AContext
      <4>3. ~f[id].strings => d = c
        BY <4>1, <4>2 DEF d
      <4> QED
        BY <1>1, <2>2, <4>3
    <3>5. set = IF t = "other" THEN Refused(with)
                ELSE Recovered(IF t = "string" THEN str ELSE int)
      BY <1>5 DEF SetContextStatus, NameMade
    <3>6. \A p1 : Recovered(Panic(p1)) = Refused(p1) /\ Recovered(Ok(p1)) = Ok(p1)
      BY Results DEF Recovered
    <3> HIDE DEF int, str, q, with, made, set
    <3>7. CASE t = "other"
      BY <3>5, <3>7
    <3>8. CASE t = "string"
      BY <3>1, <3>2, <3>3, <3>4, <3>5, <3>6, <3>8
    <3>9. CASE t \notin {"other", "string"}
      BY <3>1, <3>2, <3>5, <3>6, <3>9
    <3> QED
      BY <3>7, <3>8, <3>9
  <2> QED
    BY <2>2, <2>5, <2>6, AlikeContexts
<1> QED
  BY <1>3, <1>4, <1>5

LEMMA ObjectMethodsAgree ==
    ASSUME NEW o \in Objects, NEW r \in Roles, SameParts(o, r)
    PROVE  MethodsAgree(o, r)
<1>1. /\ EndAlike(RoleResetFather(o), ResetFather(r))
      /\ EndAlike(RoleResetChilren(o), ResetChilren(r))
      /\ EndAlike(RoleResetFriends(o), ResetFriends(r))
  BY AlikeFamily DEF RoleResetFather, ResetFather, RoleResetChilren, ResetChilren,
     RoleResetFriends, ResetFriends
<1>2. \A names \in SUBSET Names :
         LET friends  == [n \in names |-> Status(0)]
             contexts == [n \in names |-> EmptyContext]
         IN  /\ EndAlike(RoleSetChildren(o, names), SetChildren(r, names))
             /\ EndAlike(RoleSetFriends(o, friends), SetFriends(r, friends))
             /\ EndAlike(RoleSetContexts(o, contexts), SetContexts(r, contexts))
  <2>1. \A c : EndAlike(RoleSetContexts(o, c), SetContexts(r, c))
    BY AlikeContexts DEF RoleSetContexts, SetContexts
  <2>2. \A c : /\ EndAlike(RoleSetChildren(o, c), SetChildren(r, c))
               /\ EndAlike(RoleSetFriends(o, c), SetFriends(r, c))
    BY AlikeFamily
  <2> QED
    BY <2>1, <2>2
<1>3. \A n \in Names :
         /\ EndAlike(RoleSetFather(o, n), SetFather(r, n))
         /\ EndAlike(RoleAddChild(o, n), AddChild(r, n))
         /\ EndAlike(RoleDeleteChild(o, n), DeleteChild(r, n))
         /\ EndAlike(RoleDeleteFriend(o, n), DeleteFriend(r, n))
         /\ ~RoleExistContext(o, n) => EndAlike(RoleNewContext(o, n), NewContext(r, n))
         /\ EndAlike(RoleDelContext(o, n), DelContext(r, n))
  BY AlikeFamily, AlikeOneFriend, AlikeWholeContexts
<1>4. \A c, n \in Names :
         /\ EndAlike(RoleDelContextUp(o, c, n), DelContextUp(r, c, n))
         /\ EndAlike(RoleDelContextDown(o, c, n), DelContextDown(r, c, n))
  BY AlikeDelSide DEF RoleDelContextUp, DelContextUp, RoleDelContextDown, DelContextDown
<1>5. \A v \in Values :
         /\ EndAlike(RoleSetVersion(o, v), SetVersion(r, v))
         /\ \A f \in Fields : EndAlike(SetField(o, f, v), SetData(r, f, v))
  <2>1. \A v \in Values : EndAlike(RoleSetVersion(o, v), SetVersion(r, v))
    BY DEF Objects, Roles, SameParts, EndAlike, Ok, RoleSetVersion, SetVersion
  <2> QED
    BY <2>1, AlikeVersion
<1>6. \A v \in Values, n \in Names :
         /\ EndAlikeOnceStored(RoleAddFriend(o, n, v), AddFriend(r, n, v))
         /\ EndAlike(RoleChangeFriend(o, n, v), ChangeFriend(r, n, v))
  BY AlikeAddFriend, AlikeOneFriend
<1>7. \A v \in Values, c, n \in Names :
         /\ EndAlikeOnceStored(RoleAddContextUp(o, c, n, v), AddContextUp(r, c, n, v))
         /\ EndAlikeOnceStored(RoleAddContextDown(o, c, n, v), AddContextDown(r, c, n, v))
  BY AlikeAddSide DEF RoleAddContextUp, AddContextUp, RoleAddContextDown, AddContextDown
<1>8. \A v \in Values, n \in Names, b \in Bits, t \in Types :
         EndAlike(RoleSetFriendStatus(o, n, b, t, v), SetFriendStatus(r, n, b, t, v))
  BY AlikeFriendStatus
<1>9. \A v \in Values, c, n \in Names, s \in Sides, b \in Bits, t \in Types :
         EndAlike(RoleSetContextStatus(o, c, s, n, b, t, v), SetContextStatus(r, c, s, n, b, t, v))
  BY AlikeContextStatus
<1> QED
  BY <1>1, <1>2, <1>3, <1>4, <1>5, <1>6, <1>7, <1>8, <1>9 DEF MethodsAgree

\* What a call that marks one part leaves of the others.
LEMMA MarksOfOnePart ==
    ASSUME NEW o \in Objects, NEW x
    PROVE  /\ MarksTell(o, Refused(x)) /\ MarksTell(o, Panic(x)) /\ MarksTell(o, Ok(o))
           /\ MarksTell(o, Ok(RoleMarked([o EXCEPT !.relation.father = x], "father")))
           /\ MarksTell(o, Ok(RoleMarked([o EXCEPT !.relation.children = x], "children")))
           /\ MarksTell(o, Ok(RoleMarked([o EXCEPT !.relation.friends = x], "friends")))
           /\ MarksTell(o, Ok(RoleMarked([o EXCEPT !.relation.contexts = x], "context")))
           /\ MarksTell(o, Ok([o EXCEPT !.relation.contexts = x]))
           /\ \A part \in RoleParts : MarksTell(o, Ok(RoleMarked(o, part)))
BY DEF MarksTell, Refused, Panic, Ok, RoleMarked, RoleReturnChanged, Objects, Relations, RoleParts

\* What a call makes of an object can be stored, and has told its changes by its marks.
Remade(o, result) == Encoded(result.role) \in Roles /\ MarksTell(o, result)

LEMMA EncodedAlike ==
    ASSUME NEW r \in Roles, NEW result, NEW other, EndAlike(result, other), Keeps(r, other)
    PROVE  Encoded(result.role) \in Roles
BY DEF EndAlike, Keeps, Kept, Encoded, EncodeRoleToMiddle, Roles

LEMMA RemadeVersion ==
    ASSUME NEW o \in Objects, NEW v \in Values
    PROVE  /\ \A f \in Fields : Remade(o, SetField(o, f, v))
           /\ Remade(o, RoleSetVersion(o, v)) /\ Remade(o, RoleSetDataChanged(o))
           /\ \A del \in BOOLEAN : Remade(o, RoleSetDelete(o, del))
<1>1. \A f \in Fields : Remade(o, SetField(o, f, v))
  BY DEF Remade, MarksTell, SetField, Ok, Objects, Relations, Encoded, EncodeRoleToMiddle, Roles
<1>2. Remade(o, RoleSetVersion(o, v)) /\ Remade(o, RoleSetDataChanged(o))
  BY DEF Remade, MarksTell, RoleSetVersion, RoleSetDataChanged, RoleMarked, Ok, Objects, Relations,
     Encoded, EncodeRoleToMiddle, Roles
<1>3. \A del \in BOOLEAN : Remade(o, RoleSetDelete(o, del))
  BY DEF Remade, MarksTell, RoleSetDelete, Ok, Objects, Relations, Encoded, EncodeRoleToMiddle, Roles
<1> QED
  BY <1>1, <1>2, <1>3

LEMMA RemadeFamily ==
    ASSUME NEW o \in Objects, NEW id \in Names \cup {NoName}, NEW c \in SUBSET Names,
           NEW f \in PartialFunctions(Statuses)
    PROVE  /\ Remade(o, RoleSetFather(o, id)) /\ Remade(o, RoleSetChildren(o, c))
           /\ Remade(o, RoleSetFriends(o, f))
           /\ id \in Names => Remade(o, RoleAddChild(o, id)) /\ Remade(o, RoleDeleteChild(o, id))
<1> DEFINE r == Encoded(o)
<1>1. r \in Roles /\ SameParts(o, r)
  BY ObjectAndRole
<1> HIDE DEF r
<1>2. /\ EndAlike(RoleSetFather(o, id), SetFather(r, id)) /\ EndAlike(RoleSetChildren(o, c), SetChildren(r, c))
      /\ EndAlike(RoleSetFriends(o, f), SetFriends(r, f))
      /\ EndAlike(RoleAddChild(o, id), AddChild(r, id)) /\ EndAlike(RoleDeleteChild(o, id), DeleteChild(r, id))
  BY <1>1, AlikeFamily
<1>3. /\ Keeps(r, SetFather(r, id)) /\ Keeps(r, SetChildren(r, c)) /\ Keeps(r, SetFriends(r, f))
      /\ id \in Names => Keeps(r, AddChild(r, id)) /\ Keeps(r, DeleteChild(r, id))
  BY <1>1, FatherAndChildren, FriendsSet, OneChild
<1>4. /\ MarksTell(o, RoleSetFather(o, id)) /\ MarksTell(o, RoleSetChildren(o, c))
      /\ MarksTell(o, RoleSetFriends(o, f))
      /\ MarksTell(o, RoleAddChild(o, id)) /\ MarksTell(o, RoleDeleteChild(o, id))
  BY MarksOfOnePart DEF RoleSetFather, RoleSetChildren, RoleSetFriends, RoleAddChild, RoleDeleteChild
<1> QED
  BY <1>1, <1>2, <1>3, <1>4, EncodedAlike DEF Remade

LEMMA RemadeFriend ==
    ASSUME NEW o \in Objects, NEW n \in Names, NEW v \in Values
    PROVE  /\ Remade(o, RoleAddFriend(o, n, v)) /\ Remade(o, RoleDeleteFriend(o, n))
           /\ Remade(o, RoleChangeFriend(o, n, v))
           /\ \A b \in Bits, t \in Types : Remade(o, RoleSetFriendStatus(o, n, b, t, v))
<1> DEFINE r == Encoded(o)
<1>1. r \in Roles /\ SameParts(o, r)
  BY ObjectAndRole
<1> HIDE DEF r
<1>2. Remade(o, RoleAddFriend(o, n, v))
  <2> DEFINE f == With(o.relation.friends, n, Status(v))
  <2>1. f \in PartialFunctions(Statuses)
    BY StatusTypes, PartialWith DEF Objects, Relations
  <2>2. Remade(o, RoleSetFriends(o, f))
    BY <2>1, RemadeFamily
  <2>3. RoleAddFriend(o, n, v) = Refused(o) \/ RoleAddFriend(o, n, v) = RoleSetFriends(o, f)
    BY DEF RoleAddFriend, RoleSetFriends
  <2>4. Remade(o, Refused(o))
    BY ObjectAndRole, MarksOfOnePart, Results DEF Remade
  <2> HIDE DEF f
  <2> QED
    BY <2>2, <2>3, <2>4
<1>3. Remade(o, RoleDeleteFriend(o, n)) /\ Remade(o, RoleChangeFriend(o, n, v))
  <2>1. /\ EndAlike(RoleDeleteFriend(o, n), DeleteFriend(r, n))
        /\ EndAlike(RoleChangeFriend(o, n, v), ChangeFriend(r, n, v))
    BY <1>1, AlikeOneFriend
  <2>2. Keeps(r, DeleteFriend(r, n)) /\ Keeps(r, ChangeFriend(r, n, v))
    BY <1>1, OneFriend
  <2>3. MarksTell(o, RoleDeleteFriend(o, n)) /\ MarksTell(o, RoleChangeFriend(o, n, v))
    BY MarksOfOnePart DEF RoleDeleteFriend, RoleChangeFriend, RoleParts
  <2> QED
    BY <1>1, <2>1, <2>2, <2>3, EncodedAlike DEF Remade
<1>4. ASSUME NEW b \in Bits, NEW t \in Types
      PROVE  Remade(o, RoleSetFriendStatus(o, n, b, t, v))
  <2>1. EndAlike(RoleSetFriendStatus(o, n, b, t, v), SetFriendStatus(r, n, b, t, v))
    BY <1>1, AlikeFriendStatus
  <2>2. b \in Int
    BY DEF Bits
  <2>3. Keeps(r, SetFriendStatus(r, n, b, t, v))
    BY <1>1, <2>2, FriendStatuses
  <2>4. MarksTell(o, RoleSetFriendStatus(o, n, b, t, v))
    <3> DEFINE made == [o EXCEPT !.relation.friends = Present(@, n, Status(0))]
               g == [Present(o.relation.friends, n, Status(0)) EXCEPT ![n].bind = v]
    <3>1. [made EXCEPT !.relation.friends[n].bind = v] = [o EXCEPT !.relation.friends = g]
      BY DEF Objects, Relations
    <3>2. \/ RoleSetFriendStatus(o, n, b, t, v) = Refused(made)
          \/ RoleSetFriendStatus(o, n, b, t, v) = Ok(RoleMarked([o EXCEPT !.relation.friends = g], "friends"))
      BY <3>1 DEF RoleSetFriendStatus
    <3> HIDE DEF made, g
    <3> QED
      BY <3>2, MarksOfOnePart
  <2> QED
    BY <1>1, <2>1, <2>3, <2>4, EncodedAlike DEF Remade
<1> QED
  BY <1>2, <1>3, <1>4

\* The contexts are replaced, by contexts.
LEMMA RemadeWith ==
    ASSUME NEW o \in Objects, NEW c \in PartialFunctions(AContext)
    PROVE  LET p == [o EXCEPT !.relation.contexts = c]
           IN  Remade(o, Ok(p)) /\ Remade(o, Refused(p)) /\ Remade(o, Ok(RoleMarked(p, "context")))
<1> DEFINE r == Encoded(o)
           p == [o EXCEPT !.relation.contexts = c]
           q == [r EXCEPT !.relation.contexts = c]
<1>1. r \in Roles /\ SameParts(o, r)
  BY ObjectAndRole
<1> HIDE DEF r
<1>2. /\ EndAlike(Ok(p), Ok(q)) /\ EndAlike(Ok(RoleMarked(p, "context")), Ok(Marked(q)))
      /\ EndAlike(Refused(p), Refused(q))
  BY <1>1, AlikeContexts
<1>3. /\ Keeps(r, Ok(q)) /\ Keeps(r, Ok(Marked(q))) /\ Keeps(r, Refused(q))
  <2>1. Keeps(r, Ok(q)) /\ Keeps(r, Ok(Marked(q)))
    BY <1>1, KeptContexts
  <2> HIDE DEF q
  <2> QED
    BY <2>1, Results DEF Keeps
<1>4. MarksTell(o, Ok(p)) /\ MarksTell(o, Refused(p)) /\ MarksTell(o, Ok(RoleMarked(p, "context")))
  BY MarksOfOnePart
<1> HIDE DEF p, q
<1>5. Remade(o, Ok(p)) /\ Remade(o, Refused(p)) /\ Remade(o, Ok(RoleMarked(p, "context")))
  BY <1>1, <1>2, <1>3, <1>4, EncodedAlike DEF Remade
<1> QED
  BY <1>5 DEF p

LEMMA RemadeSame ==
    ASSUME NEW o \in Objects
    PROVE  /\ Remade(o, Ok(o)) /\ Remade(o, Refused(o)) /\ Remade(o, Panic(o))
           /\ Remade(o, Ok(RoleMarked(o, "context")))
<1>1. Encoded(RoleMarked(o, "context")) = Encoded(o)
  BY DEF Encoded, RoleMarked, Objects
<1>2. Encoded(o) \in Roles
  BY ObjectAndRole
<1>3. /\ MarksTell(o, Ok(o)) /\ MarksTell(o, Refused(o)) /\ MarksTell(o, Panic(o))
      /\ MarksTell(o, Ok(RoleMarked(o, "context")))
  BY MarksOfOnePart DEF RoleParts
<1> QED
  BY <1>1, <1>2, <1>3, Results DEF Remade

LEMMA ObjectContexts ==
    ASSUME NEW o \in Objects
    PROVE  /\ o.relation.contexts \in PartialFunctions(AContext)
           /\ EmptyContext \in AContext
           /\ \A n \in Names, x \in AContext : With(o.relation.contexts, n, x) \in PartialFunctions(AContext)
<1>1. o.relation.contexts \in PartialFunctions(AContext)
  BY DEF Objects, Relations, AContext
<1>2. EmptyContext \in AContext
  BY PartialEmpty DEF EmptyContext, AContext
<1> QED
  BY <1>1, <1>2, PartialWith

LEMMA RemadeContexts ==
    ASSUME NEW o \in Objects, NEW n \in Names, NEW c \in PartialFunctions(AContext)
    PROVE  /\ Remade(o, RoleSetContexts(o, c)) /\ Remade(o, RoleNewContext(o, n))
           /\ Remade(o, RoleDelContext(o, n)) /\ Remade(o, RoleSetContext(o, n, EmptyContext))
<1> DEFINE old == o.relation.contexts
           x   == With(old, n, EmptyContext)
           y   == Without(old, n)
<1>1. x \in PartialFunctions(AContext) /\ y \in PartialFunctions(AContext)
  BY ObjectContexts, PartialWithout
<1>2. /\ RoleSetContexts(o, c) = Ok([o EXCEPT !.relation.contexts = c])
      /\ \/ RoleNewContext(o, n) = Refused(o)
         \/ RoleNewContext(o, n) = Ok([o EXCEPT !.relation.contexts = x])
      /\ RoleDelContext(o, n) = Ok([o EXCEPT !.relation.contexts = y])
      /\ RoleSetContext(o, n, EmptyContext) = Ok(RoleMarked([o EXCEPT !.relation.contexts = x], "context"))
  BY DEF RoleSetContexts, RoleNewContext, RoleDelContext, RoleSetContext
<1> HIDE DEF x, y
<1>3. Remade(o, RoleSetContexts(o, c)) /\ Remade(o, RoleDelContext(o, n))
  BY <1>1, <1>2, RemadeWith
<1>4. Remade(o, RoleSetContext(o, n, EmptyContext))
  BY <1>1, <1>2, RemadeWith
<1>5. Remade(o, RoleNewContext(o, n))
  BY <1>1, <1>2, RemadeWith, RemadeSame
<1> QED
  BY <1>3, <1>4, <1>5

LEMMA RemadeSides ==
    ASSUME NEW o \in Objects, NEW n \in Names, NEW side \in {"up", "down"}, NEW id \in Names,
           NEW v \in Values
    PROVE  /\ Remade(o, RoleAddContextSide(o, n, side, id, v))
           /\ Remade(o, RoleDelContextSide(o, n, side, id))
<1> DEFINE old == o.relation.contexts
<1>1. Remade(o, RoleAddContextSide(o, n, side, id, v))
  <2>1. CASE ~RoleExistContext(o, n)
    <3> DEFINE f == With(NoFunction, id, Status(v))
               x == With(old, n, [EmptyContext EXCEPT ![side] = f])
    <3>0. EmptyContext[side] = NoFunction
      BY DEF EmptyContext
    <3>1. [EmptyContext EXCEPT ![side] = With(@, id, Status(v))] = [EmptyContext EXCEPT ![side] = f]
      BY <3>0
    <3>2. f \in PartialFunctions(Statuses)
      BY PartialEmpty, StatusTypes, PartialWith
    <3> HIDE DEF f
    <3>3. [EmptyContext EXCEPT ![side] = f] \in AContext
      BY <3>2, PartialEmpty DEF EmptyContext, AContext
    <3>4. x \in PartialFunctions(AContext)
      BY <3>3, ObjectContexts
    <3>5. RoleAddContextSide(o, n, side, id, v) = Ok(RoleMarked([o EXCEPT !.relation.contexts = x], "context"))
      BY <2>1, <3>1 DEF RoleAddContextSide
    <3> HIDE DEF x
    <3> QED
      BY <3>4, <3>5, RemadeWith
  <2>2. CASE RoleExistContext(o, n)
    <3> DEFINE r == Encoded(o)
               f == old[n][side]
               g == [f EXCEPT ![id].bind = v]
               q == [r EXCEPT !.relation.contexts[n][side] = g]
               c == [old EXCEPT ![n][side] = g]
    <3>1. r \in Roles /\ r.relation.contexts = old /\ n \in DOMAIN old
      BY <2>2, ObjectAndRole DEF SameParts, RoleExistContext
    <3> HIDE DEF r
    <3>2. CASE id \in DOMAIN f
      <4>1. f \in PartialFunctions(Statuses)
        BY <3>1, ContextsOf
      <4>2. g \in PartialFunctions(Statuses)
        BY <3>2, <4>1, PartialBind
      <4>3. [o EXCEPT !.relation.contexts[n][side][id].bind = v] = [o EXCEPT !.relation.contexts = c]
        OBVIOUS
      <4> HIDE DEF g
      <4>4. q \in Roles
        BY <3>1, <4>2, KeptSide
      <4>5. q.relation.contexts = c
        BY <3>1 DEF Roles, Relations
      <4>6. c \in PartialFunctions(AContext)
        BY <4>4, <4>5, ContextsOf
      <4>7. RoleAddContextSide(o, n, side, id, v) = Ok(RoleMarked([o EXCEPT !.relation.contexts = c], "context"))
        BY <2>2, <3>2, <4>3 DEF RoleAddContextSide
      <4> HIDE DEF c
      <4> QED
        BY <4>6, <4>7, RemadeWith
    <3>3. CASE id \notin DOMAIN f
      BY <2>2, <3>3, RemadeSame DEF RoleAddContextSide
    <3> QED
      BY <3>2, <3>3
  <2> QED
    BY <2>1, <2>2
<1>2. Remade(o, RoleDelContextSide(o, n, side, id))
  <2> DEFINE r == Encoded(o)
  <2>1. r \in Roles /\ SameParts(o, r)
    BY ObjectAndRole
  <2> HIDE DEF r
  <2>2. Keeps(r, DelContextSide(r, n, side, id)) /\ EndAlike(RoleDelContextSide(o, n, side, id), DelContextSide(r, n, side, id))
    BY <2>1, RoleFilesAssumption, ContextSides, AlikeDelSide
  <2>3. MarksTell(o, RoleDelContextSide(o, n, side, id))
    <3> DEFINE c == [old EXCEPT ![n][side] = Without(@, id)]
    <3>1. [o EXCEPT !.relation.contexts[n][side] = Without(@, id)] = [o EXCEPT !.relation.contexts = c]
      OBVIOUS
    <3> HIDE DEF c
    <3> QED
      BY <3>1, MarksOfOnePart DEF RoleDelContextSide, RoleParts
  <2> QED
    BY <2>1, <2>2, <2>3, EncodedAlike DEF Remade
<1> QED
  BY <1>1, <1>2

LEMMA RemadeContextStatus ==
    ASSUME NEW o \in Objects, NEW n \in Names, NEW side \in Sides, NEW id \in Names,
           NEW b \in Bits, NEW t \in Types, NEW v \in Values
    PROVE  Remade(o, RoleSetContextStatus(o, n, side, id, b, t, v))
<1> DEFINE r   == Encoded(o)
           set == RoleSetContextStatus(o, n, side, id, b, t, v)
           p   == RoleNameMade(o, n, side, id)
           q   == [p EXCEPT !.relation.contexts[n][side][id].bind = v]
<1>1. r \in Roles /\ SameParts(o, r)
  BY ObjectAndRole
<1> HIDE DEF r
<1>2. EndAlike(set, SetContextStatus(r, n, side, id, b, t, v))
  BY <1>1, AlikeContextStatus
<1>3. Keeps(r, SetContextStatus(r, n, side, id, b, t, v))
  <2>1. b \in Int
    BY DEF Bits
  <2> QED
    BY <1>1, <2>1, ContextStatuses
<1>4. MarksTell(o, set)
  <2>1. set = Ok(q) \/ set.answer = "error"
    BY Results DEF RoleSetContextStatus
  <2>2. /\ q.relation.father = o.relation.father /\ q.relation.children = o.relation.children
        /\ q.relation.friends = o.relation.friends
    BY DEF RoleNameMade, RoleContextMade, Objects, Relations
  <2> HIDE DEF q, set
  <2> QED
    BY <2>1, <2>2, Results DEF MarksTell
<1> QED
  BY <1>1, <1>2, <1>3, <1>4, EncodedAlike DEF Remade

\* Whatever is done to an object, by whatever method and however it ends.
LEMMA RoleChangesKeep ==
    ASSUME NEW o \in Objects, NEW result \in RoleChanges(o)
    PROVE  Remade(o, result)
<1>0. 0 \in Values /\ {} \in SUBSET Names /\ NoFunction \in PartialFunctions(Statuses)
      /\ NoFunction \in PartialFunctions(AContext)
  BY RoleFilesAssumption, PartialEmpty
<1>1. /\ \A v \in Values : /\ \A f \in Fields : Remade(o, SetField(o, f, v))
                           /\ Remade(o, RoleSetVersion(o, v))
      /\ Remade(o, RoleSetDataChanged(o)) /\ \A del \in BOOLEAN : Remade(o, RoleSetDelete(o, del))
  BY <1>0, RemadeVersion
<1>2. /\ \A id \in Names \cup {NoName} : Remade(o, RoleSetFather(o, id))
      /\ \A c \in SUBSET Names : Remade(o, RoleSetChildren(o, c))
      /\ \A f \in PartialFunctions(Statuses) : Remade(o, RoleSetFriends(o, f))
      /\ \A n \in Names : Remade(o, RoleAddChild(o, n)) /\ Remade(o, RoleDeleteChild(o, n))
  <2>1. \A id \in Names \cup {NoName}, c \in SUBSET Names, f \in PartialFunctions(Statuses) :
           /\ Remade(o, RoleSetFather(o, id)) /\ Remade(o, RoleSetChildren(o, c))
           /\ Remade(o, RoleSetFriends(o, f))
           /\ id \in Names => Remade(o, RoleAddChild(o, id)) /\ Remade(o, RoleDeleteChild(o, id))
    BY RemadeFamily
  <2>2. NoName \in Names \cup {NoName}
    OBVIOUS
  <2> QED
    BY <1>0, <2>1, <2>2
<1>3. /\ Remade(o, RoleResetFather(o)) /\ Remade(o, RoleResetChilren(o)) /\ Remade(o, RoleResetFriends(o))
  BY <1>0, <1>2 DEF RoleResetFather, RoleResetChilren, RoleResetFriends
<1>4. \A F \in SUBSET Names : Remade(o, RoleSetFriends(o, [n \in F |-> Status(0)]))
  <2> SUFFICES ASSUME NEW F \in SUBSET Names
               PROVE  Remade(o, RoleSetFriends(o, [n \in F |-> Status(0)]))
    OBVIOUS
  <2>1. [n \in F |-> Status(0)] \in [F -> Statuses]
    BY StatusTypes, RoleFilesAssumption
  <2>2. [n \in F |-> Status(0)] \in PartialFunctions(Statuses)
    BY <2>1, Partial
  <2> QED
    BY <1>2, <2>2
<1>5. \A C \in SUBSET Names : Remade(o, RoleSetContexts(o, [n \in C |-> EmptyContext]))
  <2> SUFFICES ASSUME NEW C \in SUBSET Names
               PROVE  Remade(o, RoleSetContexts(o, [n \in C |-> EmptyContext]))
    OBVIOUS
  <2> DEFINE c == [n \in C |-> EmptyContext]
  <2>1. c \in [C -> AContext]
    BY ObjectContexts
  <2>2. c \in PartialFunctions(AContext)
    BY <2>1, Partial
  <2> HIDE DEF c
  <2>3. Remade(o, Ok([o EXCEPT !.relation.contexts = c]))
    BY <2>2, RemadeWith
  <2> QED
    BY <2>3 DEF RoleSetContexts, c
<1>6. \A n \in Names :
         /\ Remade(o, RoleNewContext(o, n)) /\ Remade(o, RoleDelContext(o, n))
         /\ Remade(o, RoleSetContext(o, n, EmptyContext))
  BY <1>0, RemadeContexts
<1>7. \A n \in Names, v \in Values :
         /\ Remade(o, RoleAddFriend(o, n, v)) /\ Remade(o, RoleDeleteFriend(o, n))
         /\ Remade(o, RoleChangeFriend(o, n, v))
         /\ \A b \in Bits, t \in Types : Remade(o, RoleSetFriendStatus(o, n, b, t, v))
  BY RemadeFriend
<1>8. \A c \in Names, n \in Names, v \in Values :
         /\ Remade(o, RoleAddContextUp(o, c, n, v)) /\ Remade(o, RoleAddContextDown(o, c, n, v))
         /\ Remade(o, RoleDelContextUp(o, c, n)) /\ Remade(o, RoleDelContextDown(o, c, n))
  BY RemadeSides DEF RoleAddContextUp, RoleAddContextDown, RoleDelContextUp, RoleDelContextDown
<1>9. \A c \in Names, s \in Sides, n \in Names, b \in Bits, t \in Types, v \in Values :
         Remade(o, RoleSetContextStatus(o, c, s, n, b, t, v))
  BY RemadeContextStatus
<1> DEFINE
     S1  == {SetField(o, f, v) : f \in Fields, v \in Values}
     S2  == {RoleSetVersion(o, v) : v \in Values} \cup {RoleSetDataChanged(o)}
            \cup {RoleSetDelete(o, del) : del \in BOOLEAN}
     S3  == {RoleSetFather(o, id) : id \in Names} \cup {RoleResetFather(o)}
     S4  == {RoleSetChildren(o, c) : c \in SUBSET Names} \cup {RoleResetChilren(o)}
     S5  == {RoleSetFriends(o, [n \in F |-> Status(0)]) : F \in SUBSET Names} \cup {RoleResetFriends(o)}
     S6  == UNION {{RoleAddChild(o, n), RoleDeleteChild(o, n), RoleDeleteFriend(o, n),
                    RoleNewContext(o, n), RoleDelContext(o, n)} : n \in Names}
     S7  == UNION {{RoleAddFriend(o, n, v), RoleChangeFriend(o, n, v)} : n \in Names, v \in Values}
     S8  == {RoleSetFriendStatus(o, n, b, t, v) : n \in Names, b \in Bits, t \in Types, v \in Values}
     S9  == {RoleSetContexts(o, [n \in C |-> EmptyContext]) : C \in SUBSET Names}
     S10 == {RoleSetContext(o, n, EmptyContext) : n \in Names}
     S11 == UNION {{RoleAddContextUp(o, c, n, v), RoleAddContextDown(o, c, n, v)} :
                   c \in Names, n \in Names, v \in Values}
     S12 == UNION {{RoleDelContextUp(o, c, n), RoleDelContextDown(o, c, n)} :
                   c \in Names, n \in Names}
     S13 == {RoleSetContextStatus(o, c, s, n, b, t, v) :
             c \in Names, s \in Sides, n \in Names, b \in Bits, t \in Types, v \in Values}
<1>10. \/ result \in S1 \/ result \in S2 \/ result \in S3 \/ result \in S4 \/ result \in S5
       \/ result \in S6 \/ result \in S7 \/ result \in S8 \/ result \in S9 \/ result \in S10
       \/ result \in S11 \/ result \in S12 \/ result \in S13
  BY DEF RoleChanges
<1>11. result \in S1 \cup S2 => Remade(o, result)
  BY <1>1
<1>12. result \in S3 \cup S4 => Remade(o, result)
  BY <1>2, <1>3
<1>13. result \in S5 => Remade(o, result)
  BY <1>3, <1>4
<1>14. result \in S6 => Remade(o, result)
  BY <1>0, <1>2, <1>6, <1>7
<1>15. result \in S7 => Remade(o, result)
  BY <1>7
<1>16. result \in S8 => Remade(o, result)
  BY <1>7
<1>17. result \in S9 => Remade(o, result)
  BY <1>5
<1>18. result \in S10 => Remade(o, result)
  BY <1>6
<1>19. result \in S11 => Remade(o, result)
  BY <1>8
<1>20. result \in S12 => Remade(o, result)
  BY <1>0, <1>8
<1>21. result \in S13 => Remade(o, result)
  BY <1>9
<1> HIDE DEF S1, S2, S3, S4, S5, S6, S7, S8, S9, S10, S11, S12, S13
<1> QED
  BY <1>10, <1>11, <1>12, <1>13, <1>14, <1>15, <1>16, <1>17, <1>18, <1>19, <1>20, <1>21

----------------------------------------------------------------------------
(* Lines of files to be written or removed.                                *)

StoreLines == {<<"version", "data", "relation">>, <<"version", "data">>,
               <<"version", "relation">>, <<"data", "relation">>,
               <<"version">>, <<"data">>, <<"relation">>}

DeleteLines == {<<"version", "relation", "data">>, <<"relation", "data">>, <<"data">>}

FilesOf(line) == {line[i] : i \in DOMAIN line}

LEMMA NoLine == FilesOf(<< >>) = {}
BY DEF FilesOf

LEMMA LineOfOne ==
    ASSUME NEW f
    PROVE  /\ <<f>> # << >> /\ Head(<<f>>) = f /\ Tail(<<f>>) = << >>
           /\ FilesOf(<<f>>) = {f}
BY DEF FilesOf

LEMMA LineOfTwo ==
    ASSUME NEW f, NEW g
    PROVE  /\ <<f, g>> # << >> /\ Head(<<f, g>>) = f /\ Tail(<<f, g>>) = <<g>>
           /\ FilesOf(<<f, g>>) = {f, g}
<1>1. DOMAIN <<f, g>> = {1, 2} /\ <<f, g>>[1] = f /\ <<f, g>>[2] = g
  OBVIOUS
<1> QED
  BY <1>1 DEF FilesOf

LEMMA LineOfThree ==
    ASSUME NEW f, NEW g, NEW h
    PROVE  /\ <<f, g, h>> # << >> /\ Head(<<f, g, h>>) = f /\ Tail(<<f, g, h>>) = <<g, h>>
           /\ FilesOf(<<f, g, h>>) = {f, g, h}
<1>1. /\ DOMAIN <<f, g, h>> = {1, 2, 3}
      /\ <<f, g, h>>[1] = f /\ <<f, g, h>>[2] = g /\ <<f, g, h>>[3] = h
  OBVIOUS
<1> QED
  BY <1>1 DEF FilesOf

\* Every line has a first file, and the rest is a line or nothing.
LEMMA StoreLine ==
    ASSUME NEW line \in StoreLines
    PROVE  /\ line # << >> /\ Head(line) \in Files
           /\ FilesOf(line) = {Head(line)} \cup FilesOf(Tail(line))
           /\ Tail(line) \in StoreLines \cup {<< >>}
<1>1. CASE line = <<"version", "data", "relation">>
  <2>1. /\ line # << >> /\ Head(line) = "version" /\ Tail(line) = <<"data", "relation">>
        /\ FilesOf(line) = {"version", "data", "relation"}
    BY <1>1, LineOfThree
  <2>2. FilesOf(<<"data", "relation">>) = {"data", "relation"}
    BY LineOfTwo
  <2>3. Tail(line) \in StoreLines
    BY <2>1 DEF StoreLines
  <2> QED
    BY <2>1, <2>2, <2>3 DEF Files
<1>2. CASE line = <<"version", "data">>
  BY <1>2, LineOfOne, LineOfTwo DEF StoreLines, Files
<1>3. CASE line = <<"version", "relation">>
  BY <1>3, LineOfOne, LineOfTwo DEF StoreLines, Files
<1>4. CASE line = <<"data", "relation">>
  BY <1>4, LineOfOne, LineOfTwo DEF StoreLines, Files
<1>5. CASE line \in {<<"version">>, <<"data">>, <<"relation">>}
  BY <1>5, LineOfOne, NoLine DEF StoreLines, Files
<1> QED
  BY <1>1, <1>2, <1>3, <1>4, <1>5 DEF StoreLines

LEMMA DeleteLine ==
    ASSUME NEW line \in DeleteLines
    PROVE  /\ line # << >> /\ Head(line) \in Files
           /\ FilesOf(line) = {Head(line)} \cup FilesOf(Tail(line))
           /\ Tail(line) \in DeleteLines \cup {<< >>}
<1>1. CASE line = <<"version", "relation", "data">>
  <2>1. /\ line # << >> /\ Head(line) = "version" /\ Tail(line) = <<"relation", "data">>
        /\ FilesOf(line) = {"version", "relation", "data"}
    BY <1>1, LineOfThree
  <2>2. FilesOf(<<"relation", "data">>) = {"relation", "data"}
    BY LineOfTwo
  <2>3. Tail(line) \in DeleteLines
    BY <2>1 DEF DeleteLines
  <2> QED
    BY <2>1, <2>2, <2>3 DEF Files
<1>2. CASE line = <<"relation", "data">>
  BY <1>2, LineOfOne, LineOfTwo DEF DeleteLines, Files
<1>3. CASE line = <<"data">>
  BY <1>3, LineOfOne, NoLine DEF DeleteLines, Files
<1> QED
  BY <1>1, <1>2, <1>3 DEF DeleteLines

LEMMA LineTyped ==
    ASSUME NEW line \in StoreLines \cup DeleteLines \cup {<< >>}
    PROVE  line \in UNION {[1..n -> Files] : n \in 0..3}
<1>1. CASE line = << >>
  <2>1. line \in [1..0 -> Files]
    BY <1>1
  <2> QED
    BY <2>1
<1>2. CASE line \in {<<"version">>, <<"data">>, <<"relation">>}
  <2>1. line \in [1..1 -> Files]
    BY <1>2 DEF Files
  <2> QED
    BY <2>1
<1>3. CASE line \in {<<"version", "data">>, <<"version", "relation">>, <<"data", "relation">>,
                     <<"relation", "data">>}
  <2>1. line \in [1..2 -> Files]
    BY <1>3 DEF Files
  <2> QED
    BY <2>1
<1>4. CASE line \in {<<"version", "data", "relation">>, <<"version", "relation", "data">>}
  <2>1. line \in [1..3 -> Files]
    BY <1>4 DEF Files
  <2> QED
    BY <2>1
<1> QED
  BY <1>1, <1>2, <1>3, <1>4 DEF StoreLines, DeleteLines

LEMMA WholeDeleteLine ==
    /\ <<"version", "relation", "data">> \in DeleteLines
    /\ FilesOf(<<"version", "relation", "data">>) = Files
<1>1. FilesOf(<<"version", "relation", "data">>) = {"version", "relation", "data"}
  BY LineOfThree
<1>2. <<"version", "relation", "data">> \in DeleteLines
  BY DEF DeleteLines
<1> QED
  BY <1>1, <1>2 DEF Files

LEMMA LinesJoined ==
    ASSUME NEW f, NEW g, NEW h
    PROVE  /\ <<f>> \o <<g>> = <<f, g>> /\ <<f, g>> \o << >> = <<f, g>>
           /\ <<f, g>> \o <<h>> = <<f, g, h>> /\ <<f>> \o <<g, h>> = <<f, g, h>>
<1> DEFINE S == {f, g, h}
           p == <<f>> \o <<g>>
           q == <<f, g>> \o << >>
           r == <<f, g>> \o <<h>>
           s == <<f>> \o <<g, h>>
<1>1. /\ << >> \in Seq(S) /\ Len(<< >>) = 0
      /\ <<f>> \in Seq(S) /\ <<g>> \in Seq(S) /\ <<h>> \in Seq(S)
      /\ Len(<<f>>) = 1 /\ Len(<<g>>) = 1 /\ Len(<<h>>) = 1
  OBVIOUS
<1>2. /\ <<f, g>> \in Seq(S) /\ Len(<<f, g>>) = 2 /\ <<f, g>>[1] = f /\ <<f, g>>[2] = g
      /\ <<g, h>> \in Seq(S) /\ Len(<<g, h>>) = 2 /\ <<g, h>>[1] = g /\ <<g, h>>[2] = h
  OBVIOUS
<1>3. /\ <<f, g, h>> \in Seq(S) /\ Len(<<f, g, h>>) = 3
      /\ <<f, g, h>>[1] = f /\ <<f, g, h>>[2] = g /\ <<f, g, h>>[3] = h
  OBVIOUS
<1>4. p = <<f, g>>
  <2>1. p \in Seq(S) /\ Len(p) = 2 /\ p[1] = f /\ p[2] = g
    BY <1>1
  <2> HIDE DEF p
  <2> QED
    BY <2>1, <1>2
<1>5. q = <<f, g>>
  <2>1. q \in Seq(S) /\ Len(q) = 2 /\ q[1] = f /\ q[2] = g
    BY <1>1, <1>2
  <2> HIDE DEF q
  <2> QED
    BY <2>1, <1>2
<1>6. r = <<f, g, h>>
  <2>1. r \in Seq(S) /\ Len(r) = 3 /\ r[1] = f /\ r[2] = g /\ r[3] = h
    BY <1>1, <1>2
  <2> HIDE DEF r
  <2> QED
    BY <2>1, <1>3
<1>7. s = <<f, g, h>>
  <2>1. s \in Seq(S) /\ Len(s) = 3 /\ s[1] = f /\ s[2] = g /\ s[3] = h
    BY <1>1, <1>2
  <2> HIDE DEF s
  <2> QED
    BY <2>1, <1>3
<1> QED
  BY <1>4, <1>5, <1>6, <1>7

LEMMA StoreOrderLine ==
    /\ StoreOrder \in StoreLines \cup {<< >>}
    /\ FilesOf(StoreOrder) = {f \in Files : Marks(f)}
<1> DEFINE V == IF Marks("version") THEN <<"version">> ELSE << >>
           D == IF Marks("data") THEN <<"data">> ELSE << >>
           R == IF Marks("relation") THEN <<"relation">> ELSE << >>
<1>1. StoreOrder = V \o D \o R
  BY DEF StoreOrder
<1>2. \A f : << >> \o << >> = << >> /\ <<f>> \o << >> = <<f>> /\ << >> \o <<f>> = <<f>>
  OBVIOUS
<1>3. \A f, g : <<f>> \o <<g>> = <<f, g>> /\ <<f, g>> \o << >> = <<f, g>>
  BY LinesJoined
<1>4. \A f, g, h : <<f, g>> \o <<h>> = <<f, g, h>> /\ <<f>> \o <<g, h>> = <<f, g, h>>
  BY LinesJoined
<1>5. \A f \in Files : f = "version" \/ f = "data" \/ f = "relation"
  BY DEF Files
<1>9. CASE Marks("version") /\ Marks("data") /\ Marks("relation")
  <2>0. /\ V = <<"version">> /\ D = <<"data">> /\ R = <<"relation">>
        /\ <<"version">> \o <<"data">> = <<"version", "data">>
        /\ <<"version", "data">> \o <<"relation">> = <<"version", "data", "relation">>
    BY <1>9, LinesJoined
  <2> HIDE DEF V, D, R
  <2>1. StoreOrder = <<"version", "data", "relation">>
    BY <1>1, <2>0
  <2>2. FilesOf(StoreOrder) = {"version", "data", "relation"}
    BY <2>1, LineOfThree
  <2>3. StoreOrder \in StoreLines
    BY <2>1 DEF StoreLines
  <2> QED
    BY <1>5, <1>9, <2>2, <2>3 DEF Files
<1>10. CASE Marks("version") /\ Marks("data") /\ ~Marks("relation")
  <2>1. StoreOrder = <<"version", "data">>
    BY <1>1, <1>3, <1>10
  <2>2. FilesOf(StoreOrder) = {"version", "data"}
    BY <2>1, LineOfTwo
  <2>3. StoreOrder \in StoreLines
    BY <2>1 DEF StoreLines
  <2> QED
    BY <1>5, <1>10, <2>2, <2>3 DEF Files
<1>11. CASE Marks("version") /\ ~Marks("data") /\ Marks("relation")
  <2>1. StoreOrder = <<"version", "relation">>
    BY <1>1, <1>2, <1>3, <1>11
  <2>2. FilesOf(StoreOrder) = {"version", "relation"}
    BY <2>1, LineOfTwo
  <2>3. StoreOrder \in StoreLines
    BY <2>1 DEF StoreLines
  <2> QED
    BY <1>5, <1>11, <2>2, <2>3 DEF Files
<1>12. CASE ~Marks("version") /\ Marks("data") /\ Marks("relation")
  <2>1. StoreOrder = <<"data", "relation">>
    BY <1>1, <1>2, <1>3, <1>12
  <2>2. FilesOf(StoreOrder) = {"data", "relation"}
    BY <2>1, LineOfTwo
  <2>3. StoreOrder \in StoreLines
    BY <2>1 DEF StoreLines
  <2> QED
    BY <1>5, <1>12, <2>2, <2>3 DEF Files
<1>13. CASE Marks("version") /\ ~Marks("data") /\ ~Marks("relation")
  <2>1. StoreOrder = <<"version">>
    BY <1>1, <1>2, <1>13
  <2> QED
    BY <1>5, <1>13, <2>1, LineOfOne DEF StoreLines, Files
<1>14. CASE ~Marks("version") /\ Marks("data") /\ ~Marks("relation")
  <2>1. StoreOrder = <<"data">>
    BY <1>1, <1>2, <1>14
  <2> QED
    BY <1>5, <1>14, <2>1, LineOfOne DEF StoreLines, Files
<1>15. CASE ~Marks("version") /\ ~Marks("data") /\ Marks("relation")
  <2>1. StoreOrder = <<"relation">>
    BY <1>1, <1>2, <1>15
  <2> QED
    BY <1>5, <1>15, <2>1, LineOfOne DEF StoreLines, Files
<1>16. CASE ~Marks("version") /\ ~Marks("data") /\ ~Marks("relation")
  <2>1. StoreOrder = << >>
    BY <1>1, <1>2, <1>16
  <2> QED
    BY <1>5, <1>16, <2>1, NoLine
<1> QED
  BY <1>9, <1>10, <1>11, <1>12, <1>13, <1>14, <1>15, <1>16

----------------------------------------------------------------------------
(* The inductive invariant.                                                *)

FileStates ==
    {files \in [Files -> Pieces] : \A f \in Files : files[f] \in Contents[f] \cup {Missing, Torn}}

Typed ==
    /\ RoleTyped
    /\ disk \in [Areas -> FileStates \cup {NoArea}]
    /\ emptying \in SUBSET Areas /\ broken \in SUBSET Areas
    /\ synced \in Areas \cup {NoArea} /\ clean \in BOOLEAN
    /\ calls \in 0..MaxCalls /\ faults \in 0..MaxFaults

Left == FilesOf(call.files)

\* What is under way: the files left of a store are marked in the role.
CallOK ==
    /\ call \in [op : {"idle", "store", "delete"}, area : Areas \cup {NoArea},
                 files : StoreLines \cup DeleteLines \cup {<< >>}, opened : BOOLEAN]
    /\ call.op = "idle" => call = Idle
    /\ call.op # "idle" => call.area \in Areas
    /\ call.op = "store" => call.files \in StoreLines /\ role # NoRole /\ \A f \in Left : Marks(f)
    /\ call.op = "delete" => call.files \in DeleteLines

\* A store in an area that is not broken has written what it no longer has to write, and
\* what it will not write is there.
StoreOK ==
    (call.op = "store" /\ (call.area \notin broken \/ synced = call.area)) =>
        /\ existArea(call.area) /\ call.area \notin emptying
        /\ AllMarked \/ synced = call.area
        /\ \A f \in Files \ Left : Marks(f) => disk[call.area][f] = role[f]
        /\ call.opened => disk[call.area][File] = Torn

\* What a delete no longer has to remove is not there.
DeleteOK ==
    (call.op = "delete" /\ existArea(call.area)) =>
        \A f \in Files \ Left : disk[call.area][f] = Missing

\* The unmarked parts are there at any time, and the others when nothing writes them and
\* the role has not been changed.
SyncedOK ==
    synced # NoArea =>
        /\ role # NoRole /\ existArea(synced) /\ synced \notin emptying
        /\ ~(call.op = "delete" /\ call.area = synced)
        /\ \A f \in Files : ~Marks(f) => OnDisk(f, synced)
        /\ call.area # synced => \A f \in Files : clean => OnDisk(f, synced)

Whole(a) == \A f \in Files : disk[a][f] \notin {Missing, Torn}

AreasOK ==
    \A a \in Areas \ broken :
        /\ a \in emptying => disk[a] = NoFiles
        /\ (roleExist(a) /\ call.area # a /\ a \notin emptying) => Whole(a)

EmptyingOK == \A a \in emptying : existArea(a)

IInv == Typed /\ CallOK /\ StoreOK /\ DeleteOK /\ SyncedOK /\ AreasOK /\ EmptyingOK

----------------------------------------------------------------------------
(* Facts about the types.                                                  *)

LEMMA FileFacts ==
    /\ NoArea \notin FileStates /\ NoArea \notin Areas
    /\ NoFiles \in FileStates
    /\ \A files \in FileStates, f \in Files : \A piece \in Contents[f] \cup {Missing, Torn} :
          [files EXCEPT ![f] = piece] \in FileStates
    /\ \A f \in Files : Missing \notin Contents[f] /\ Torn \notin Contents[f]
<1>1. \A f \in Files : \A piece \in Contents[f] \cup {Missing, Torn} : piece \in Pieces
  BY DEF Pieces
<1> QED
  BY <1>1, RoleFilesAssumption DEF FileStates, NoFiles

LEMMA IdleFacts ==
    Idle.op = "idle" /\ Idle.area = NoArea /\ Idle.files = << >> /\ Idle.opened = FALSE
BY DEF Idle

LEMMA PartsTyped ==
    ASSUME NEW r \in Roles, NEW f \in Files
    PROVE  r[f] \in Contents[f] /\ r[f] \notin {Missing, Torn}
<1>1. r[f] \in Contents[f]
  BY DEF Files, Contents, Roles
<1> QED
  BY <1>1, FileFacts

LEMMA NothingUnderWay ==
    ASSUME call' = Idle
    PROVE  CallOK' /\ StoreOK' /\ DeleteOK'
BY IdleFacts DEF CallOK, StoreOK, DeleteOK, Idle

LEMMA AreasUntouched ==
    ASSUME IInv, UNCHANGED <<disk, call, emptying, broken>>
    PROVE  AreasOK' /\ EmptyingOK'
BY DEF IInv, AreasOK, EmptyingOK, roleExist, existArea, Whole

LEMMA SameOnDisk ==
    ASSUME NEW a, NEW f, role' = role, disk'[a] = disk[a], OnDisk(f, a)
    PROVE  OnDisk(f, a)'
BY DEF OnDisk, Marks

LEMMA SameMarks ==
    ASSUME NEW f, role' = role
    PROVE  Marks(f)' <=> Marks(f)
BY DEF Marks

LEMMA CallTyped ==
    ASSUME IInv
    PROVE  /\ call.op \in {"idle", "store", "delete"}
           /\ call.op = "idle" => call = Idle
           /\ call.op # "idle" => call.area \in Areas
           /\ call = [op |-> call.op, area |-> call.area, files |-> call.files, opened |-> call.opened]
BY DEF IInv, CallOK

LEMMA OneCallMore ==
    ASSUME IInv, calls < MaxCalls, calls' = calls + 1
    PROVE  calls' \in 0..MaxCalls
BY RoleFilesAssumption DEF IInv, Typed

LEMMA OneFaultMore ==
    ASSUME IInv, faults < MaxFaults, faults' = faults + 1
    PROVE  faults' \in 0..MaxFaults
BY RoleFilesAssumption DEF IInv, Typed

LEMMA InitOK == Init => IInv
<1> SUFFICES ASSUME Init
             PROVE  IInv
  OBVIOUS
<1>1. Typed
  BY RoleFilesAssumption DEF Init, Typed, RoleTyped
<1>2. CallOK /\ StoreOK /\ DeleteOK
  BY IdleFacts DEF Init, CallOK, StoreOK, DeleteOK, Idle
<1>3. SyncedOK /\ AreasOK /\ EmptyingOK
  BY DEF Init, SyncedOK, AreasOK, EmptyingOK, roleExist, existArea
<1> QED
  BY <1>1, <1>2, <1>3 DEF IInv

----------------------------------------------------------------------------
(* The steps keep it.                                                      *)

LEMMA EncodeKeeps ==
    ASSUME IInv, Encode
    PROVE  IInv'
<1>1. PICK d \in [Fields -> Values] : role' = Encoded(RoleNew(d))
  BY DEF Encode
<1>2. NewRelation \in Relations
  BY PartialEmpty DEF NewRelation, Relations
<1>3. role' \in Roles
  BY <1>1, <1>2, RoleFilesAssumption DEF RoleNew, Encoded, EncodeRoleToMiddle, Roles
<1>4. Typed'
  BY <1>3, OneCallMore DEF Encode, Calls, IInv, Typed, RoleTyped
<1>5. CallOK' /\ StoreOK' /\ DeleteOK' /\ SyncedOK' /\ AreasOK' /\ EmptyingOK'
  BY NothingUnderWay, AreasUntouched DEF Encode, Calls, SyncedOK
<1> QED
  BY <1>4, <1>5 DEF IInv

\* A relation read from a file is one, and differs only in the slots for strings.
LEMMA DecodedRelation ==
    ASSUME NEW relation \in Relations
    PROVE  Decoded(relation) \in Relations /\ UpToUnmarked(Decoded(relation), relation)
<1>1. \A s \in PartialFunctions(Statuses) :
         WithSlots(s) \in PartialFunctions(Statuses) /\ DOMAIN WithSlots(s) = DOMAIN s
  <2> SUFFICES ASSUME NEW s \in PartialFunctions(Statuses)
               PROVE  WithSlots(s) \in PartialFunctions(Statuses) /\ DOMAIN WithSlots(s) = DOMAIN s
    OBVIOUS
  <2>1. s \in [DOMAIN s -> Statuses] /\ DOMAIN s \subseteq Names
    BY Partial
  <2>2. \A n \in DOMAIN s : [s[n] EXCEPT !.strings = TRUE] \in Statuses
    BY <2>1 DEF Statuses
  <2>3. WithSlots(s) \in [DOMAIN s -> Statuses]
    BY <2>2 DEF WithSlots
  <2> QED
    BY <2>1, <2>3, Partial
<1> DEFINE friends  == WithSlots(relation.friends)
           old      == relation.contexts
           contexts == [c \in DOMAIN old |-> [up |-> WithSlots(old[c].up),
                                              down |-> WithSlots(old[c].down)]]
<1>2. /\ relation.friends \in PartialFunctions(Statuses)
      /\ old \in PartialFunctions(AContext)
  BY DEF Relations, AContext
<1>3. friends \in PartialFunctions(Statuses) /\ DOMAIN friends = DOMAIN relation.friends
  BY <1>1, <1>2
<1>4. contexts \in PartialFunctions(AContext)
  <2>1. old \in [DOMAIN old -> AContext] /\ DOMAIN old \subseteq Names
    BY <1>2, Partial
  <2>2. \A c \in DOMAIN old : /\ WithSlots(old[c].up) \in PartialFunctions(Statuses)
                              /\ WithSlots(old[c].down) \in PartialFunctions(Statuses)
    BY <1>1, <2>1 DEF AContext
  <2>3. contexts \in [DOMAIN old -> AContext]
    BY <2>2 DEF AContext
  <2> HIDE DEF contexts
  <2> QED
    BY <2>1, <2>3, Partial
<1>5. Decoded(relation) = [[relation EXCEPT !.friends = friends] EXCEPT !.contexts = contexts]
  BY DEF Decoded, Relations
<1> HIDE DEF friends, contexts
<1>6. [[relation EXCEPT !.friends = friends] EXCEPT !.contexts = contexts] \in Relations
  BY <1>3, <1>4 DEF Relations, AContext
<1> QED
  BY <1>3, <1>5, <1>6 DEF UpToUnmarked, Relations

LEMMA ReadKeeps ==
    ASSUME IInv, NEW a \in Areas, RoleReadMiddleData(a)
    PROVE  IInv'
<1> DEFINE files == disk[a]
<1>1. /\ files \in FileStates /\ existArea(a)
      /\ \A f \in Files : files[f] \in Contents[f] /\ files[f] \notin {Missing, Torn}
  BY FileFacts DEF IInv, Typed, RoleReadMiddleData, roleExist, existArea, FileStates
<1>2. /\ files["version"] \in Values /\ files["data"] \in [Fields -> Values]
      /\ files["relation"] \in Relations
  BY <1>1 DEF Files, Contents
<1>3. /\ Decoded(files["relation"]) \in Relations
      /\ UpToUnmarked(Decoded(files["relation"]), files["relation"])
  BY <1>2, DecodedRelation
<1>4. role' = [ version |-> files["version"], data |-> files["data"],
                relation |-> Decoded(files["relation"]),
                VersionChange |-> FALSE, DataChange |-> FALSE, RelationChange |-> FALSE ]
  BY DEF RoleReadMiddleData
<1> HIDE DEF files
<1>5. role' \in Roles
  BY <1>2, <1>3, <1>4 DEF Roles
<1>6. \A f \in Files : /\ ~Marks(f)'
                       /\ role'[f] = files[f]
                          \/ (f = "relation" /\ UpToUnmarked(role'.relation, files[f]))
  BY <1>3, <1>4 DEF Marks, Files
<1>7. disk' = disk /\ emptying' = emptying /\ call' = Idle /\ call = Idle /\ broken' = broken
  BY DEF RoleReadMiddleData, Calls
<1>8. \A f \in Files : OnDisk(f, a)'
  BY <1>1, <1>6, <1>7 DEF OnDisk, files
<1>9. Typed'
  BY <1>5, OneCallMore DEF RoleReadMiddleData, Calls, IInv, Typed, RoleTyped
<1>10. role' # NoRole
  BY <1>5, RoleFilesAssumption
<1>11. SyncedOK'
  <2>1. synced' = NoArea \/ (synced' = a /\ a \notin emptying)
    BY DEF RoleReadMiddleData
  <2>2. existArea(a)'
    BY <1>1, <1>7 DEF existArea
  <2> QED
    BY <1>7, <1>8, <1>10, <2>1, <2>2, IdleFacts DEF SyncedOK
<1>12. CallOK' /\ StoreOK' /\ DeleteOK' /\ AreasOK' /\ EmptyingOK'
  BY <1>7, NothingUnderWay, AreasUntouched
<1> QED
  BY <1>9, <1>11, <1>12 DEF IInv

\* A panic ends the program: nothing is left in memory, or under way.
LEMMA PanicKeeps ==
    ASSUME IInv, call = Idle, call' = Idle, disk' = disk, broken' = broken,
           calls' \in 0..MaxCalls, faults' = faults,
           role' = NoRole, synced' = NoArea, clean' = TRUE, emptying' = {}
    PROVE  IInv'
<1>1. Typed'
  BY DEF IInv, Typed, RoleTyped
<1>2. CallOK' /\ StoreOK' /\ DeleteOK'
  BY NothingUnderWay
<1>3. SyncedOK' /\ EmptyingOK'
  BY DEF SyncedOK, EmptyingOK
<1>4. AreasOK'
  <2> SUFFICES ASSUME NEW a \in Areas \ broken, roleExist(a), ~Whole(a)
               PROVE  FALSE
    BY DEF AreasOK, roleExist, existArea, Whole
  <2>1. CASE a \in emptying
    <3>1. disk[a] = NoFiles
      BY <2>1 DEF IInv, AreasOK
    <3> QED
      BY <3>1 DEF roleExist, NoFiles, Files
  <2>2. CASE a \notin emptying
    <3>1. call.area # a
      BY IdleFacts, FileFacts
    <3> QED
      BY <2>2, <3>1 DEF IInv, AreasOK
  <2> QED
    BY <2>1, <2>2
<1> QED
  BY <1>1, <1>2, <1>3, <1>4 DEF IInv

LEMMA ChangeKeeps ==
    ASSUME IInv, Change
    PROVE  IInv'
<1>1. PICK result \in Changes(role) :
         \/ /\ result.answer = "panic"
            /\ role' = NoRole /\ synced' = NoArea /\ clean' = TRUE /\ emptying' = {}
         \/ /\ role' = result.role /\ clean' = FALSE
            /\ UNCHANGED <<synced, emptying>>
  BY DEF Change
<1>2. /\ disk' = disk /\ call' = Idle /\ call = Idle /\ broken' = broken
      /\ role \in Roles /\ calls' \in 0..MaxCalls /\ faults' = faults
  BY OneCallMore DEF Change, Calls, IInv, Typed, RoleTyped
<1>3. Kept(role, result.role)
  BY <1>2, ChangesKeep
<1>4. Typed'
  BY <1>1, <1>2, <1>3 DEF IInv, Typed, RoleTyped, Kept
<1>5. CallOK' /\ StoreOK' /\ DeleteOK'
  BY <1>2, NothingUnderWay
<1>6. CASE role' = NoRole /\ synced' = NoArea /\ clean' = TRUE /\ emptying' = {}
  BY <1>2, <1>6, PanicKeeps
<1>7. CASE role' = result.role /\ clean' = FALSE /\ UNCHANGED <<synced, emptying>>
  <2>1. AreasOK' /\ EmptyingOK'
    BY <1>2, <1>7, AreasUntouched
  <2>2. SyncedOK'
    <3> SUFFICES ASSUME synced # NoArea
                 PROVE  /\ role' # NoRole /\ existArea(synced) /\ synced \notin emptying
                        /\ \A f \in Files : ~Marks(f)' => OnDisk(f, synced)'
      BY <1>2, <1>7, IdleFacts DEF SyncedOK, existArea
    <3>1. /\ existArea(synced) /\ synced \notin emptying
          /\ \A f \in Files : ~Marks(f) => OnDisk(f, synced)
      BY DEF IInv, SyncedOK
    <3>2. role' # NoRole
      BY <1>3, <1>7, RoleFilesAssumption DEF Kept
    <3>3. ASSUME NEW f \in Files, ~Marks(f)'
          PROVE  OnDisk(f, synced)'
      <4>1. ~Marks(f)
        BY <1>3, <1>7, <3>3 DEF Marks, Kept, Files
      <4>2. OnDisk(f, synced)
        BY <3>1, <4>1
      <4>3. \/ f # "relation" /\ role'[f] = role[f]
            \/ f = "relation" /\ UpToUnmarked(role'.relation, role.relation)
        BY <1>3, <1>7, <3>3 DEF Marks, Kept, Files
      <4>4. CASE f # "relation"
        BY <1>2, <1>7, <4>2, <4>3, <4>4 DEF OnDisk
      <4>5. CASE f = "relation"
        <5> DEFINE stored == disk[synced][f]
        <5>1. /\ stored \notin {Missing, Torn}
              /\ stored = role.relation \/ UpToUnmarked(role.relation, stored)
          BY <4>2, <4>5 DEF OnDisk
        <5>2. UpToUnmarked(role'.relation, stored)
          BY <4>3, <4>5, <5>1 DEF UpToUnmarked
        <5> QED
          BY <1>2, <1>7, <3>3, <4>5, <5>1, <5>2 DEF OnDisk
      <4> QED
        BY <4>4, <4>5
    <3> QED
      BY <3>1, <3>2, <3>3
  <2> QED
    BY <1>4, <1>5, <2>1, <2>2 DEF IInv
<1> QED
  BY <1>1, <1>6, <1>7

\* What an object becomes has all its marks, so that the next store writes it whole.
LEMMA ChangeObjectKeeps ==
    ASSUME IInv, ChangeObject
    PROVE  IInv'
<1>1. /\ disk' = disk /\ call' = Idle /\ call = Idle /\ broken' = broken
      /\ role \in Roles /\ calls' \in 0..MaxCalls /\ faults' = faults
  BY OneCallMore DEF ChangeObject, Calls, IInv, Typed, RoleTyped
<1>2. PICK result \in RoleChanges(DecodeMiddleToRole(role)) :
         \/ /\ result.answer = "panic"
            /\ role' = NoRole /\ synced' = NoArea /\ clean' = TRUE /\ emptying' = {}
         \/ /\ role' = Encoded(result.role) /\ clean' = FALSE
            /\ UNCHANGED <<synced, emptying>>
  BY DEF ChangeObject
<1>3. Encoded(result.role) \in Roles
  BY <1>1, ObjectAndRole, RoleChangesKeep DEF Remade
<1>4. CASE role' = NoRole /\ synced' = NoArea /\ clean' = TRUE /\ emptying' = {}
  BY <1>1, <1>4, PanicKeeps
<1>5. CASE role' = Encoded(result.role) /\ clean' = FALSE /\ UNCHANGED <<synced, emptying>>
  <2>1. Typed'
    BY <1>1, <1>3, <1>5 DEF IInv, Typed, RoleTyped
  <2>2. CallOK' /\ StoreOK' /\ DeleteOK' /\ AreasOK' /\ EmptyingOK'
    BY <1>1, <1>5, NothingUnderWay, AreasUntouched
  <2>3. \A f \in Files : Marks(f)'
    BY <1>5 DEF Files, Marks, Encoded, EncodeRoleToMiddle
  <2>4. role' # NoRole
    BY <1>3, <1>5, RoleFilesAssumption
  <2>5. SyncedOK'
    BY <1>1, <1>5, <2>3, <2>4, IdleFacts DEF IInv, SyncedOK, existArea
  <2> QED
    BY <2>1, <2>2, <2>5 DEF IInv
<1> QED
  BY <1>2, <1>4, <1>5

LEMMA StoreKeeps ==
    ASSUME IInv, NEW a \in Areas, RoleStoreMiddleData(a)
    PROVE  IInv'
<1>1. /\ call = Idle /\ existArea(a) /\ role # NoRole /\ calls' \in 0..MaxCalls
      /\ UNCHANGED <<role, disk, emptying, synced, clean, faults>>
  BY OneCallMore DEF RoleStoreMiddleData, Calls, Begun
<1>2. \/ StoreOrder = << >> /\ call' = Idle
      \/ /\ StoreOrder # << >>
         /\ call' = [op |-> "store", area |-> a, files |-> StoreOrder, opened |-> FALSE]
  BY DEF RoleStoreMiddleData, Begun
<1>3. \/ AllMarked /\ a \notin emptying /\ broken' = broken \ {a}
      \/ synced = a /\ broken' = broken
      \/ broken' = broken \cup {a}
  BY DEF RoleStoreMiddleData, Begun
<1>4. /\ StoreOrder \in StoreLines \cup {<< >>}
      /\ FilesOf(StoreOrder) = {f \in Files : Marks(f)}
  BY StoreOrderLine
<1>5. Typed'
  BY <1>1, <1>3 DEF IInv, Typed, RoleTyped
<1>6. SyncedOK'
  <2>1. \A f \in Files : synced # NoArea =>
            /\ ~Marks(f) => OnDisk(f, synced)
            /\ clean => OnDisk(f, synced)
    BY <1>1, IdleFacts DEF IInv, SyncedOK
  <2>2. \A f \in Files : synced # NoArea => /\ ~Marks(f)' => OnDisk(f, synced)'
                                            /\ clean' => OnDisk(f, synced)'
    BY <1>1, <2>1, SameMarks, SameOnDisk
  <2>3. call'.op # "delete"
    BY <1>2, IdleFacts
  <2> QED
    BY <1>1, <2>2, <2>3 DEF IInv, SyncedOK, existArea
<1>7. EmptyingOK'
  BY <1>1 DEF IInv, EmptyingOK, existArea
<1>8. CASE StoreOrder = << >>
  <2>1. call' = Idle /\ CallOK' /\ StoreOK' /\ DeleteOK'
    BY <1>2, <1>8, NothingUnderWay
  <2>2. ~AllMarked
    <3>1. ~Marks("version")
      BY <1>4, <1>8, NoLine DEF Files
    <3> QED
      BY <3>1 DEF AllMarked, Files
  <2>3. broken \subseteq broken'
    BY <1>3, <2>2
  <2>4. AreasOK'
    BY <1>1, <2>1, <2>3 DEF IInv, AreasOK, roleExist, existArea, Whole
  <2> QED
    BY <1>5, <1>6, <1>7, <2>1, <2>4 DEF IInv
<1>9. CASE StoreOrder # << >>
  <2>1. /\ call'.op = "store" /\ call'.area = a /\ call'.files = StoreOrder /\ call'.opened = FALSE
    BY <1>2, <1>9
  <2>2. Left' = {f \in Files : Marks(f)} /\ StoreOrder \in StoreLines
    BY <1>4, <1>9, <2>1 DEF Left
  <2>3. CallOK'
    BY <1>1, <1>2, <1>9, <2>1, <2>2, SameMarks DEF CallOK
  <2>4. DeleteOK'
    BY <2>1 DEF DeleteOK
  <2>5. StoreOK'
    <3> SUFFICES ASSUME a \notin broken' \/ synced = a
                 PROVE  existArea(a) /\ a \notin emptying /\ (AllMarked \/ synced = a)
      <4>1. \A f \in Files \ Left' : ~Marks(f)'
        BY <1>1, <2>2, SameMarks
      <4>2. AllMarked' <=> AllMarked
        BY <1>1, SameMarks DEF AllMarked
      <4> QED
        BY <1>1, <2>1, <4>1, <4>2 DEF StoreOK, existArea
    <3>1. CASE synced = a
      BY <1>1, <3>1, FileFacts DEF IInv, SyncedOK
    <3>2. CASE synced # a
      BY <1>1, <1>3, <3>2
    <3> QED
      BY <3>1, <3>2
  <2>6. AreasOK'
    <3>1. \A b \in Areas \ broken' : b \notin broken \/ (b = a /\ a \notin emptying)
      BY <1>3
    <3> QED
      BY <1>1, <2>1, <3>1, IdleFacts, FileFacts
      DEF IInv, AreasOK, roleExist, existArea, Whole
  <2> QED
    BY <1>5, <1>6, <1>7, <2>3, <2>4, <2>5, <2>6 DEF IInv
<1> QED
  BY <1>8, <1>9

LEMMA DeleteKeeps ==
    ASSUME IInv, NEW a \in Areas, RoleDelete(a)
    PROVE  IInv'
<1>1. /\ call = Idle /\ calls' \in 0..MaxCalls
      /\ UNCHANGED <<role, disk, emptying, clean, broken, faults>>
      /\ synced' = NoArea \/ (synced' = synced /\ synced # a)
      /\ call' = [op |-> "delete", area |-> a, files |-> <<"version", "relation", "data">>,
                  opened |-> FALSE]
  BY OneCallMore DEF RoleDelete, Calls
<1>2. /\ call'.op = "delete" /\ call'.area = a
      /\ call'.files = <<"version", "relation", "data">> /\ call'.opened = FALSE
  BY <1>1
<1>3. Typed'
  BY <1>1 DEF IInv, Typed, RoleTyped
<1>4. CallOK'
  BY <1>1, <1>2, WholeDeleteLine DEF CallOK
<1>5. StoreOK' /\ DeleteOK'
  BY <1>2, WholeDeleteLine DEF StoreOK, DeleteOK, Left
<1>6. SyncedOK'
  <2>1. \A f \in Files : synced # NoArea =>
            /\ ~Marks(f) => OnDisk(f, synced)
            /\ clean => OnDisk(f, synced)
    BY <1>1, IdleFacts DEF IInv, SyncedOK
  <2>2. ASSUME synced' # NoArea, NEW f \in Files
        PROVE  /\ ~Marks(f)' => OnDisk(f, synced)'
               /\ clean' => OnDisk(f, synced)'
    BY <1>1, <2>1, <2>2, SameMarks, SameOnDisk
  <2> QED
    BY <1>1, <1>2, <2>2 DEF IInv, SyncedOK, existArea
<1>7. AreasOK' /\ EmptyingOK'
  BY <1>1, <1>2, IdleFacts, FileFacts
  DEF IInv, AreasOK, EmptyingOK, roleExist, existArea, Whole
<1> QED
  BY <1>3, <1>4, <1>5, <1>6, <1>7 DEF IInv

\* One file of an area is replaced or removed.
LEMMA OneFile ==
    ASSUME IInv, NEW a \in Areas, existArea(a), NEW f \in Files,
           NEW piece \in Contents[f] \cup {Missing, Torn}, disk' = [disk EXCEPT ![a][f] = piece]
    PROVE  /\ disk' \in [Areas -> FileStates \cup {NoArea}]
           /\ disk'[a][f] = piece
           /\ \A g \in Files \ {f} : disk'[a][g] = disk[a][g]
           /\ \A b \in Areas \ {a} : disk'[b] = disk[b]
           /\ \A b \in Areas : existArea(b)' <=> existArea(b)
<1>1. disk \in [Areas -> FileStates \cup {NoArea}] /\ disk[a] \in FileStates
  BY DEF IInv, Typed, existArea
<1>2. [disk[a] EXCEPT ![f] = piece] \in FileStates
  BY <1>1, FileFacts
<1>3. disk' = [disk EXCEPT ![a] = [disk[a] EXCEPT ![f] = piece]]
  OBVIOUS
<1>4. /\ [disk[a] EXCEPT ![f] = piece][f] = piece
      /\ \A g \in Files \ {f} : [disk[a] EXCEPT ![f] = piece][g] = disk[a][g]
  BY <1>1 DEF FileStates
<1> DEFINE new == [disk[a] EXCEPT ![f] = piece]
<1> HIDE DEF new
<1>5. disk' = [disk EXCEPT ![a] = new] /\ new \in FileStates /\ new[f] = piece
      /\ \A g \in Files \ {f} : new[g] = disk[a][g]
  BY <1>2, <1>3, <1>4 DEF new
<1> QED
  BY <1>1, <1>5, FileFacts DEF existArea

LEMMA StoreUnderWay ==
    ASSUME IInv, call.op = "store"
    PROVE  /\ call.area \in Areas /\ role \in Roles /\ role # NoRole
           /\ File \in Files /\ Marks(File) /\ call.files \in StoreLines
           /\ Left = {File} \cup FilesOf(Tail(call.files))
           /\ \A f \in Left : Marks(f)
           /\ Tail(call.files) \in StoreLines \cup {<< >>}
BY StoreLine DEF IInv, Typed, RoleTyped, CallOK, Left, File

LEMMA DeleteUnderWay ==
    ASSUME IInv, call.op = "delete"
    PROVE  /\ call.area \in Areas
           /\ File \in Files /\ call.files \in DeleteLines
           /\ Left = {File} \cup FilesOf(Tail(call.files))
           /\ Tail(call.files) \in DeleteLines \cup {<< >>}
BY DeleteLine DEF IInv, CallOK, Left, File

\* Either it was the last file, or the call goes on with the rest.
LEMMA FileIsDone ==
    ASSUME IInv, FileDone
    PROVE  \/ Tail(call.files) = << >> /\ call' = Idle
           \/ /\ Tail(call.files) # << >>
              /\ call' = [op |-> call.op, area |-> call.area, files |-> Tail(call.files),
                          opened |-> FALSE]
BY CallTyped DEF FileDone

LEMMA TruncateKeeps ==
    ASSUME IInv, Truncate
    PROVE  IInv'
<1> DEFINE a == call.area
           f == File
<1>1. /\ call.op = "store" /\ ~call.opened /\ existArea(a)
      /\ disk' = [disk EXCEPT ![a][f] = Torn]
      /\ UNCHANGED <<role, emptying, synced, clean, broken, calls, faults>>
  BY DEF Truncate
<1>2. /\ a \in Areas /\ role \in Roles /\ role # NoRole /\ f \in Files /\ Marks(f)
      /\ f \in Left /\ call.files \in StoreLines /\ \A g \in Left : Marks(g)
  BY <1>1, StoreUnderWay
<1>3. call' = [op |-> call.op, area |-> call.area, files |-> call.files, opened |-> TRUE]
  BY CallTyped DEF Truncate
<1>4. /\ call'.op = "store" /\ call'.area = a /\ call'.files = call.files /\ call'.opened = TRUE
  BY <1>1, <1>3
<1>5. Left' = Left /\ File' = f
  BY <1>4 DEF Left, File
<1> HIDE DEF a, f
<1>6. /\ disk' \in [Areas -> FileStates \cup {NoArea}]
      /\ disk'[a][f] = Torn
      /\ \A g \in Files \ {f} : disk'[a][g] = disk[a][g]
      /\ \A b \in Areas \ {a} : disk'[b] = disk[b]
      /\ \A b \in Areas : existArea(b)' <=> existArea(b)
  BY <1>1, <1>2, OneFile
<1>7. Typed'
  BY <1>1, <1>6 DEF IInv, Typed, RoleTyped
<1>8. CallOK'
  BY <1>1, <1>2, <1>3, <1>4, <1>5, SameMarks DEF CallOK, a
<1>9. DeleteOK'
  BY <1>4 DEF DeleteOK
<1>10. StoreOK'
  <2> SUFFICES ASSUME a \notin broken \/ synced = a
               PROVE  /\ existArea(a) /\ a \notin emptying
                      /\ AllMarked \/ synced = a
                      /\ \A g \in Files \ Left : Marks(g) => disk'[a][g] = role[g]
    <3>1. (AllMarked' <=> AllMarked) /\ \A g \in Files : Marks(g)' <=> Marks(g)
      BY <1>1, SameMarks DEF AllMarked
    <3> QED
      BY <1>1, <1>2, <1>4, <1>5, <1>6, <3>1 DEF StoreOK
  <2>1. /\ existArea(a) /\ a \notin emptying
        /\ AllMarked \/ synced = a
        /\ \A g \in Files \ Left : Marks(g) => disk[a][g] = role[g]
    BY <1>1 DEF IInv, StoreOK, a
  <2> QED
    BY <1>2, <1>6, <2>1
<1>11. SyncedOK'
  <2> SUFFICES ASSUME synced # NoArea
               PROVE  /\ existArea(synced)' /\ synced \notin emptying
                      /\ \A g \in Files : ~Marks(g)' => OnDisk(g, synced)'
                      /\ a # synced => \A g \in Files : clean => OnDisk(g, synced)'
    BY <1>1, <1>2, <1>4 DEF SyncedOK
  <2>1. /\ existArea(synced) /\ synced \notin emptying /\ synced \in Areas
        /\ \A g \in Files : ~Marks(g) => OnDisk(g, synced)
        /\ a # synced => \A g \in Files : clean => OnDisk(g, synced)
    BY DEF IInv, SyncedOK, Typed, a
  <2>2. ASSUME NEW g \in Files, ~Marks(g)'
        PROVE  OnDisk(g, synced)'
    <3>1. ~Marks(g) /\ OnDisk(g, synced) /\ g # f
      BY <1>1, <1>2, <2>1, <2>2, SameMarks
    <3>2. disk'[synced][g] = disk[synced][g]
      BY <1>6, <2>1, <3>1
    <3> QED
      BY <1>1, <3>1, <3>2 DEF OnDisk, Marks
  <2>3. ASSUME a # synced, NEW g \in Files, clean
        PROVE  OnDisk(g, synced)'
    BY <1>1, <1>6, <2>1, <2>3, SameOnDisk
  <2> QED
    BY <1>1, <1>6, <2>1, <2>2, <2>3
<1>12. AreasOK'
  <2> SUFFICES ASSUME NEW b \in Areas \ broken
               PROVE  /\ b \in emptying => disk'[b] = NoFiles
                      /\ (roleExist(b)' /\ a # b /\ b \notin emptying) => Whole(b)'
    BY <1>1, <1>4 DEF AreasOK
  <2>1. CASE b = a
    BY <1>1, <2>1 DEF IInv, StoreOK, a
  <2>2. CASE b # a
    BY <1>6, <2>2 DEF IInv, AreasOK, roleExist, existArea, Whole, a
  <2> QED
    BY <2>1, <2>2
<1>13. EmptyingOK'
  BY <1>1, <1>6 DEF IInv, Typed, EmptyingOK
<1> QED
  BY <1>7, <1>8, <1>9, <1>10, <1>11, <1>12, <1>13 DEF IInv

\* A store that ends in an error.
LEMMA StoreEndsKeeps ==
    ASSUME IInv, call.op = "store", StoreEnds, faults' \in 0..MaxFaults
    PROVE  IInv'
<1>1. /\ call' = Idle /\ broken' = broken \cup {call.area} /\ call.area \in Areas
      /\ synced' = NoArea \/ (synced' = synced /\ synced # call.area)
      /\ UNCHANGED <<role, disk, emptying, clean, calls>>
  BY StoreUnderWay DEF StoreEnds
<1>2. Typed'
  BY <1>1 DEF IInv, Typed, RoleTyped
<1>3. CallOK' /\ StoreOK' /\ DeleteOK'
  BY <1>1, NothingUnderWay
<1>4. SyncedOK'
  <2>1. ASSUME synced' # NoArea, NEW f \in Files
        PROVE  /\ ~Marks(f)' => OnDisk(f, synced)'
               /\ clean' => OnDisk(f, synced)'
    <3>1. /\ ~Marks(f) => OnDisk(f, synced)
          /\ clean => OnDisk(f, synced)
      BY <1>1, <2>1 DEF IInv, SyncedOK
    <3> QED
      BY <1>1, <2>1, <3>1, SameMarks, SameOnDisk
  <2> QED
    BY <1>1, <2>1, IdleFacts DEF IInv, SyncedOK, existArea
<1>5. AreasOK' /\ EmptyingOK'
  BY <1>1 DEF IInv, AreasOK, EmptyingOK, roleExist, existArea, Whole
<1> QED
  BY <1>2, <1>3, <1>4, <1>5 DEF IInv

LEMMA FailuresKeep ==
    ASSUME IInv, OpenFails \/ WriteFails
    PROVE  IInv'
<1>1. call.op = "store" /\ StoreEnds
  BY DEF OpenFails, WriteFails
<1>2. faults' \in 0..MaxFaults
  BY OneFaultMore DEF OpenFails, WriteFails, IInv, Typed
<1> QED
  BY <1>1, <1>2, StoreEndsKeeps

LEMMA CrashKeeps ==
    ASSUME IInv, Crash
    PROVE  IInv'
<1>1. /\ role' = NoRole /\ call' = Idle /\ emptying' = {} /\ synced' = NoArea /\ clean' = TRUE
      /\ disk' = disk /\ calls' = calls /\ faults' \in 0..MaxFaults
      /\ broken \cup emptying \subseteq broken'
      /\ call # Idle => call.area \in broken'
      /\ broken' \subseteq Areas
  BY OneFaultMore, CallTyped DEF Crash, IInv, Typed
<1>2. Typed'
  BY <1>1 DEF IInv, Typed, RoleTyped
<1>3. CallOK' /\ StoreOK' /\ DeleteOK'
  BY <1>1, NothingUnderWay
<1>4. SyncedOK' /\ EmptyingOK'
  BY <1>1 DEF SyncedOK, EmptyingOK
<1>5. AreasOK'
  BY <1>1, IdleFacts, FileFacts DEF IInv, AreasOK, roleExist, existArea, Whole
<1> QED
  BY <1>2, <1>3, <1>4, <1>5 DEF IInv

\* What a write leaves on the disk: where the file was opened and is still there, the
\* part of the role.
LEMMA Written ==
    ASSUME IInv, Write
    PROVE  /\ disk' \in [Areas -> FileStates \cup {NoArea}]
           /\ \A b \in Areas : existArea(b)' <=> existArea(b)
           /\ \A b \in Areas \ {call.area} : disk'[b] = disk[b]
           /\ existArea(call.area) =>
                 /\ disk[call.area][File] = Torn => disk'[call.area][File] = role[File]
                 /\ \A g \in Files \ {File} : disk'[call.area][g] = disk[call.area][g]
<1> DEFINE a == call.area
           f == File
<1>1. a \in Areas /\ f \in Files /\ role[f] \in Contents[f] \cup {Missing, Torn}
  BY StoreUnderWay, PartsTyped DEF Write
<1>2. \/ /\ existArea(a) /\ disk[a][f] = Torn
         /\ disk' = [disk EXCEPT ![a][f] = role[f]]
      \/ ~(existArea(a) /\ disk[a][f] = Torn) /\ disk' = disk
  BY DEF Write
<1> HIDE DEF a, f
<1>3. CASE disk' = disk /\ ~(existArea(a) /\ disk[a][f] = Torn)
  BY <1>3 DEF IInv, Typed, existArea, a, f
<1>4. CASE /\ existArea(a) /\ disk[a][f] = Torn
           /\ disk' = [disk EXCEPT ![a][f] = role[f]]
  <2>1. /\ disk' \in [Areas -> FileStates \cup {NoArea}]
        /\ disk'[a][f] = role[f]
        /\ \A g \in Files \ {f} : disk'[a][g] = disk[a][g]
        /\ \A b \in Areas \ {a} : disk'[b] = disk[b]
        /\ \A b \in Areas : existArea(b)' <=> existArea(b)
    BY <1>1, <1>4, OneFile
  <2> QED
    BY <2>1 DEF a, f
<1> QED
  BY <1>2, <1>3, <1>4

\* A store that has its area to itself: what it has written, with the file just written.
LEMMA WrittenSoFar ==
    ASSUME IInv, Write, call.area \notin broken \/ synced = call.area
    PROVE  /\ existArea(call.area) /\ call.area \notin emptying
           /\ AllMarked \/ synced = call.area
           /\ \A g \in Files \ FilesOf(Tail(call.files)) :
                 Marks(g) => disk'[call.area][g] = role[g]
<1>1. /\ File \in Files /\ Left = {File} \cup FilesOf(Tail(call.files))
  BY StoreUnderWay DEF Write
<1>2. /\ existArea(call.area) /\ call.area \notin emptying
      /\ AllMarked \/ synced = call.area
      /\ \A g \in Files \ Left : Marks(g) => disk[call.area][g] = role[g]
      /\ disk[call.area][File] = Torn
  BY DEF Write, IInv, StoreOK
<1>3. /\ disk'[call.area][File] = role[File]
      /\ \A g \in Files \ {File} : disk'[call.area][g] = disk[call.area][g]
  BY <1>2, Written
<1> QED
  BY <1>1, <1>2, <1>3

\* After the last file, the area holds the whole role.
LEMMA WrittenWhole ==
    ASSUME IInv, Write, NEW a, a = call.area, a \notin broken \/ synced = a,
           Tail(call.files) = << >>
    PROVE  \A g \in Files : OnDisk(g, a)'
<1>1. /\ existArea(a)
      /\ AllMarked \/ synced = a
      /\ \A g \in Files : Marks(g) => disk'[a][g] = role[g]
  BY WrittenSoFar, NoLine
<1>2. /\ role \in Roles /\ role' = role /\ a \in Areas /\ Marks(File) /\ File \in Files
  BY StoreUnderWay DEF Write
<1>3. /\ \A g \in Files \ {File} : disk'[a][g] = disk[a][g]
  BY <1>1, Written
<1>4. ASSUME NEW g \in Files
      PROVE  /\ disk'[a][g] \notin {Missing, Torn}
             /\ \/ disk'[a][g] = role[g]
                \/ g = "relation" /\ ~Marks(g) /\ UpToUnmarked(role.relation, disk'[a][g])
  <2>1. CASE Marks(g)
    BY <1>1, <1>2, <2>1, PartsTyped
  <2>2. CASE ~Marks(g)
    <3>1. synced = a /\ g # File /\ disk'[a][g] = disk[a][g]
      BY <1>1, <1>2, <1>3, <2>2 DEF AllMarked
    <3>2. OnDisk(g, a)
      BY <1>2, <2>2, <3>1, FileFacts DEF IInv, SyncedOK
    <3> QED
      BY <3>1, <3>2 DEF OnDisk
  <2> QED
    BY <2>1, <2>2
<1> QED
  BY <1>2, <1>4 DEF OnDisk, Marks

LEMMA WriteKeeps ==
    ASSUME IInv, Write
    PROVE  IInv'
<1> DEFINE rest == Tail(call.files)
<1>0. PICK a : a = call.area
  OBVIOUS
<1>1. /\ call.op = "store" /\ call.opened
      /\ UNCHANGED <<role, emptying, broken, calls, faults>>
  BY DEF Write
<1>2. /\ a \in Areas /\ role \in Roles /\ role # NoRole /\ File \in Files /\ Marks(File)
      /\ Left = {File} \cup FilesOf(rest) /\ \A g \in Left : Marks(g)
      /\ rest \in StoreLines \cup {<< >>}
  BY <1>0, <1>1, StoreUnderWay
<1>3. \/ rest = << >> /\ call' = Idle
      \/ /\ rest # << >>
         /\ call' = [op |-> "store", area |-> a, files |-> rest, opened |-> FALSE]
  BY <1>0, <1>1, FileIsDone DEF Write
<1>4. \/ /\ rest = << >> /\ existArea(a) /\ a \notin broken /\ a \notin emptying
         /\ synced' = a /\ clean' = TRUE
      \/ /\ ~(/\ rest = << >> /\ (AllMarked \/ synced = a) /\ existArea(a)
              /\ a \notin broken \cup emptying)
         /\ synced' = synced /\ clean' = clean
  BY <1>0 DEF Write, Stored
<1>5. /\ disk' \in [Areas -> FileStates \cup {NoArea}]
      /\ \A b \in Areas : existArea(b)' <=> existArea(b)
      /\ \A b \in Areas \ {a} : disk'[b] = disk[b]
      /\ existArea(a) => \A g \in Files \ {File} : disk'[a][g] = disk[a][g]
  BY <1>0, Written
<1>6. (a \notin broken \/ synced = a) =>
         /\ existArea(a) /\ a \notin emptying
         /\ AllMarked \/ synced = a
         /\ \A g \in Files \ FilesOf(rest) : Marks(g) => disk'[a][g] = role[g]
  BY <1>0, WrittenSoFar
<1>7. ((a \notin broken \/ synced = a) /\ rest = << >>) => \A g \in Files : OnDisk(g, a)'
  BY <1>0, WrittenWhole
<1> HIDE DEF rest
<1>8. Typed'
  BY <1>1, <1>2, <1>4, <1>5 DEF IInv, Typed, RoleTyped
<1>9. EmptyingOK'
  BY <1>1, <1>5 DEF IInv, Typed, EmptyingOK
<1>10. ASSUME synced' = synced, synced # NoArea, synced # a
       PROVE  \A g \in Files : /\ ~Marks(g)' => OnDisk(g, synced)'
                               /\ clean => OnDisk(g, synced)'
  <2>1. \A g \in Files : /\ ~Marks(g) => OnDisk(g, synced)
                         /\ clean => OnDisk(g, synced)
    BY <1>0, <1>10 DEF IInv, SyncedOK
  <2>2. disk'[synced] = disk[synced]
    BY <1>5, <1>10 DEF IInv, Typed
  <2> QED
    BY <1>1, <1>10, <2>1, <2>2, SameMarks, SameOnDisk
<1>11. synced' = a \/ (synced' = synced /\ synced # a /\ clean' = clean)
  BY <1>4
<1>12. CASE rest = << >>
  <2>1. call' = Idle
    BY <1>3, <1>12
  <2>2. CallOK' /\ StoreOK' /\ DeleteOK'
    BY <2>1, NothingUnderWay
  <2>3. SyncedOK'
    <3>1. CASE synced' = a
      <4>1. \A g \in Files : OnDisk(g, a)'
        BY <1>4, <1>7, <1>12, <3>1
      <4>2. \A g \in Files : OnDisk(g, synced)'
        BY <3>1, <4>1 DEF OnDisk
      <4>3. existArea(a) /\ a \notin emptying
        BY <1>4, <1>6, <3>1
      <4>4. existArea(synced)'
        BY <1>2, <1>5, <3>1, <4>3 DEF existArea
      <4> QED
        BY <1>1, <1>2, <2>1, <3>1, <4>2, <4>3, <4>4, IdleFacts DEF SyncedOK
    <3>2. CASE synced' = synced /\ synced # a /\ clean' = clean
      <4>1. synced # NoArea => existArea(synced) /\ synced \notin emptying /\ synced \in Areas
        BY DEF IInv, SyncedOK, Typed
      <4>2. synced # NoArea => existArea(synced)'
        BY <1>5, <3>2, <4>1 DEF existArea
      <4> QED
        BY <1>1, <1>2, <1>10, <2>1, <3>2, <4>1, <4>2, IdleFacts DEF SyncedOK
    <3> QED
      BY <1>11, <3>1, <3>2
  <2>4. AreasOK'
    <3> SUFFICES ASSUME NEW b \in Areas \ broken
                 PROVE  /\ b \in emptying => disk'[b] = NoFiles
                        /\ (roleExist(b)' /\ b \notin emptying) => Whole(b)'
      BY <1>1 DEF AreasOK
    <3>1. CASE b = a
      BY <1>6, <1>7, <1>12, <3>1 DEF OnDisk, Whole
    <3>2. CASE b # a
      BY <1>0, <1>5, <3>2 DEF IInv, AreasOK, roleExist, existArea, Whole
    <3> QED
      BY <3>1, <3>2
  <2> QED
    BY <1>8, <1>9, <2>2, <2>3, <2>4 DEF IInv
<1>13. CASE rest # << >>
  <2>1. call' = [op |-> "store", area |-> a, files |-> rest, opened |-> FALSE]
    BY <1>3, <1>13
  <2>2. /\ call'.op = "store" /\ call'.area = a /\ call'.files = rest /\ call'.opened = FALSE
        /\ synced' = synced /\ clean' = clean
    BY <1>4, <1>13, <2>1
  <2>3. Left' = FilesOf(rest) /\ rest \in StoreLines
    BY <1>2, <1>13, <2>2 DEF Left
  <2>4. CallOK'
    BY <1>1, <1>2, <2>1, <2>2, <2>3, SameMarks DEF CallOK
  <2>5. DeleteOK'
    BY <2>2 DEF DeleteOK
  <2>6. StoreOK'
    <3>1. (AllMarked' <=> AllMarked) /\ \A g \in Files : Marks(g)' <=> Marks(g)
      BY <1>1, SameMarks DEF AllMarked
    <3> QED
      BY <1>1, <1>2, <1>5, <1>6, <2>2, <2>3, <3>1 DEF StoreOK
  <2>7. SyncedOK'
    <3> SUFFICES ASSUME synced # NoArea
                 PROVE  /\ existArea(synced)' /\ synced \notin emptying
                        /\ \A g \in Files : ~Marks(g)' => OnDisk(g, synced)'
                        /\ a # synced => \A g \in Files : clean => OnDisk(g, synced)'
      BY <1>1, <1>2, <2>2 DEF SyncedOK
    <3>1. /\ existArea(synced) /\ synced \notin emptying /\ synced \in Areas
          /\ \A g \in Files : ~Marks(g) => OnDisk(g, synced)
      BY DEF IInv, SyncedOK, Typed
    <3>2. existArea(synced)'
      BY <1>5, <2>2, <3>1 DEF existArea
    <3>3. CASE synced # a
      BY <1>10, <2>2, <3>1, <3>2, <3>3
    <3>4. CASE synced = a
      <4>1. ASSUME NEW g \in Files, ~Marks(g)'
            PROVE  OnDisk(g, synced)'
        <5>1. ~Marks(g) /\ OnDisk(g, synced) /\ g # File
          BY <1>1, <1>2, <3>1, <4>1, SameMarks
        <5>2. disk'[synced][g] = disk[synced][g]
          BY <1>5, <3>1, <3>4, <5>1
        <5> QED
          BY <1>1, <2>2, <5>1, <5>2 DEF OnDisk, Marks
      <4> QED
        BY <3>1, <3>2, <3>4, <4>1
    <3> QED
      BY <3>3, <3>4
  <2>8. AreasOK'
    <3> SUFFICES ASSUME NEW b \in Areas \ broken
                 PROVE  /\ b \in emptying => disk'[b] = NoFiles
                        /\ (roleExist(b)' /\ a # b /\ b \notin emptying) => Whole(b)'
      BY <1>1, <2>2 DEF AreasOK
    <3>1. CASE b = a
      BY <1>6, <3>1
    <3>2. CASE b # a
      BY <1>0, <1>5, <3>2 DEF IInv, AreasOK, roleExist, existArea, Whole
    <3> QED
      BY <3>1, <3>2
  <2> QED
    BY <1>8, <1>9, <2>4, <2>5, <2>6, <2>7, <2>8 DEF IInv
<1> QED
  BY <1>12, <1>13

LEMMA RemoveKeeps ==
    ASSUME IInv, Remove
    PROVE  IInv'
<1> DEFINE f == File
           rest == Tail(call.files)
<1>0. PICK a : a = call.area
  OBVIOUS
<1>1. /\ call.op = "delete"
      /\ UNCHANGED <<role, emptying, synced, clean, calls, faults>>
      /\ broken' \subseteq broken
      /\ broken' = broken \/ (rest = << >> /\ broken' = broken \ {a})
      /\ existArea(a) => disk' = [disk EXCEPT ![a][f] = Missing]
      /\ ~existArea(a) => disk' = disk
  BY <1>0 DEF Remove
<1>2. /\ a \in Areas /\ f \in Files /\ Left = {f} \cup FilesOf(rest)
      /\ rest \in DeleteLines \cup {<< >>}
  BY <1>0, <1>1, DeleteUnderWay
<1>3. \/ rest = << >> /\ call' = Idle
      \/ /\ rest # << >>
         /\ call' = [op |-> "delete", area |-> a, files |-> rest, opened |-> FALSE]
  BY <1>0, <1>1, FileIsDone DEF Remove
<1> HIDE DEF f, rest
<1>4. /\ disk' \in [Areas -> FileStates \cup {NoArea}]
      /\ \A b \in Areas : existArea(b)' <=> existArea(b)
      /\ \A b \in Areas \ {a} : disk'[b] = disk[b]
      /\ existArea(a) =>
            /\ disk'[a][f] = Missing
            /\ \A g \in Files \ {f} : disk'[a][g] = disk[a][g]
  <2>1. CASE existArea(a)
    BY <1>1, <1>2, <2>1, OneFile
  <2>2. CASE ~existArea(a)
    BY <1>1, <2>2 DEF IInv, Typed, existArea
  <2> QED
    BY <2>1, <2>2
<1>5. existArea(a) => \A g \in Files \ FilesOf(rest) : disk'[a][g] = Missing
  <2>1. existArea(a) => \A g \in Files \ Left : disk[a][g] = Missing
    BY <1>0, <1>1 DEF IInv, DeleteOK
  <2> QED
    BY <1>2, <1>4, <2>1
<1>6. Typed'
  BY <1>1, <1>4 DEF IInv, Typed, RoleTyped
<1>7. EmptyingOK'
  BY <1>1, <1>4 DEF IInv, Typed, EmptyingOK
<1>8. synced # a
  BY <1>0, <1>1, <1>2, FileFacts DEF IInv, SyncedOK
<1>9. SyncedOK'
  <2> SUFFICES ASSUME synced # NoArea
               PROVE  /\ role # NoRole /\ existArea(synced)' /\ synced \notin emptying
                      /\ \A g \in Files : /\ ~Marks(g)' => OnDisk(g, synced)'
                                          /\ clean => OnDisk(g, synced)'
    BY <1>1, <1>3, <1>8, IdleFacts DEF SyncedOK
  <2>1. /\ role # NoRole /\ existArea(synced) /\ synced \notin emptying /\ synced \in Areas
        /\ \A g \in Files : /\ ~Marks(g) => OnDisk(g, synced)
                            /\ clean => OnDisk(g, synced)
    BY <1>0, <1>8 DEF IInv, SyncedOK, Typed
  <2>2. disk'[synced] = disk[synced]
    BY <1>4, <1>8, <2>1
  <2>3. existArea(synced)'
    BY <1>1, <2>1, <2>2 DEF existArea
  <2> QED
    BY <1>1, <2>1, <2>2, <2>3, SameMarks, SameOnDisk
<1>10. AreasOK'
  <2> SUFFICES ASSUME NEW b \in Areas \ broken'
               PROVE  /\ b \in emptying => disk'[b] = NoFiles
                      /\ (roleExist(b)' /\ call'.area # b /\ b \notin emptying) => Whole(b)'
    BY <1>1 DEF AreasOK
  <2>1. CASE b # a
    <3>1. b \notin broken
      BY <1>1, <2>1
    <3> QED
      BY <1>0, <1>4, <2>1, <3>1 DEF IInv, AreasOK, roleExist, existArea, Whole
  <2>2. CASE b = a /\ rest = << >>
    <3>1. existArea(a) => \A g \in Files : disk'[a][g] = Missing
      BY <1>5, <2>2, NoLine
    <3>2. b \in emptying => existArea(a)
      BY <2>2 DEF IInv, EmptyingOK
    <3>3. existArea(a) => disk'[a] = NoFiles
      <4>1. existArea(a) => disk'[a] \in FileStates
        BY <1>2, <1>4 DEF existArea
      <4> QED
        BY <3>1, <4>1 DEF NoFiles, FileStates
    <3>4. ~roleExist(b)'
      <4>1. roleExist(b)' => existArea(a)
        BY <1>2, <1>4, <2>2 DEF roleExist
      <4>2. "version" \in Files
        BY DEF Files
      <4> QED
        BY <2>2, <3>1, <4>1, <4>2 DEF roleExist
    <3> QED
      BY <2>2, <3>2, <3>3, <3>4
  <2>3. CASE b = a /\ rest # << >>
    <3>1. b \notin broken /\ call'.area = b
      BY <1>1, <1>3, <2>3
    <3>2. b \in emptying => disk[a] = NoFiles /\ existArea(a)
      BY <2>3, <3>1 DEF IInv, AreasOK, EmptyingOK
    <3>3. b \in emptying => disk'[a] = NoFiles
      <4>1. b \in emptying => disk'[a] \in FileStates /\ \A g \in Files : disk'[a][g] = Missing
        BY <1>2, <1>4, <3>2 DEF existArea, NoFiles
      <4> QED
        BY <4>1 DEF NoFiles, FileStates
    <3> QED
      BY <2>3, <3>1, <3>3
  <2> QED
    BY <2>1, <2>2, <2>3
<1>11. CASE rest = << >>
  <2>1. CallOK' /\ StoreOK' /\ DeleteOK'
    BY <1>3, <1>11, NothingUnderWay
  <2> QED
    BY <1>6, <1>7, <1>9, <1>10, <2>1 DEF IInv
<1>12. CASE rest # << >>
  <2>1. call' = [op |-> "delete", area |-> a, files |-> rest, opened |-> FALSE]
    BY <1>3, <1>12
  <2>2. /\ call'.op = "delete" /\ call'.area = a /\ call'.files = rest /\ call'.opened = FALSE
    BY <2>1
  <2>3. Left' = FilesOf(rest) /\ rest \in DeleteLines
    BY <1>2, <1>12, <2>2 DEF Left
  <2>4. CallOK'
    BY <1>1, <1>2, <2>1, <2>2, <2>3 DEF CallOK
  <2>5. StoreOK' /\ DeleteOK'
    BY <1>2, <1>4, <1>5, <2>2, <2>3 DEF StoreOK, DeleteOK
  <2> QED
    BY <1>6, <1>7, <1>9, <1>10, <2>4, <2>5 DEF IInv
<1> QED
  BY <1>11, <1>12

LEMMA AreaInitKeeps ==
    ASSUME IInv, NEW a \in Areas, AreaInit(a)
    PROVE  IInv'
<1>1. /\ call = Idle /\ call' = Idle /\ ~existArea(a) /\ disk' = [disk EXCEPT ![a] = NoFiles]
      /\ UNCHANGED <<role, emptying, synced, clean, broken, faults>> /\ calls' \in 0..MaxCalls
  BY OneCallMore DEF AreaInit, Calls
<1>2. /\ disk' \in [Areas -> FileStates \cup {NoArea}]
      /\ disk'[a] = NoFiles /\ \A b \in Areas \ {a} : disk'[b] = disk[b]
      /\ NoFiles["version"] = Missing
  BY <1>1, FileFacts DEF IInv, Typed, NoFiles, Files
<1>3. Typed'
  BY <1>1, <1>2 DEF IInv, Typed, RoleTyped
<1>4. CallOK' /\ StoreOK' /\ DeleteOK'
  BY <1>1, NothingUnderWay
<1>5. SyncedOK'
  <2>1. synced # NoArea => /\ role # NoRole /\ existArea(synced) /\ synced \notin emptying
                           /\ synced \in Areas
                           /\ \A g \in Files : /\ ~Marks(g) => OnDisk(g, synced)
                                               /\ clean => OnDisk(g, synced)
    BY <1>1, IdleFacts DEF IInv, SyncedOK, Typed
  <2>2. synced # NoArea => disk'[synced] = disk[synced]
    BY <1>1, <1>2, <2>1
  <2>3. synced # NoArea => existArea(synced)'
    BY <1>1, <2>1, <2>2 DEF existArea
  <2>4. synced # NoArea => \A g \in Files : /\ ~Marks(g)' => OnDisk(g, synced)'
                                            /\ clean' => OnDisk(g, synced)'
    BY <1>1, <2>1, <2>2, SameMarks, SameOnDisk
  <2> QED
    BY <1>1, <2>1, <2>3, <2>4, IdleFacts DEF SyncedOK
<1>6. EmptyingOK'
  BY <1>1, <1>2, FileFacts DEF IInv, Typed, EmptyingOK, existArea
<1>7. AreasOK'
  BY <1>1, <1>2 DEF IInv, AreasOK, EmptyingOK, roleExist, existArea, Whole
<1> QED
  BY <1>3, <1>4, <1>5, <1>6, <1>7 DEF IInv

LEMMA AreaReNameKeeps ==
    ASSUME IInv, NEW a \in Areas, NEW b \in Areas, AreaReName(a, b)
    PROVE  IInv'
<1>1. /\ call = Idle /\ call' = Idle /\ existArea(a) /\ ~existArea(b) /\ a \notin emptying
      /\ disk' = [disk EXCEPT ![b] = disk[a], ![a] = NoArea]
      /\ synced' = IF synced = a THEN b ELSE synced
      /\ broken' = {IF x = a THEN b ELSE x : x \in broken \ {b}}
      /\ UNCHANGED <<role, emptying, clean, faults>> /\ calls' \in 0..MaxCalls
  BY OneCallMore DEF AreaReName, Calls
<1>2. a # b /\ b \notin emptying
  BY <1>1 DEF IInv, EmptyingOK
<1>3. /\ disk' \in [Areas -> FileStates \cup {NoArea}]
      /\ disk'[a] = NoArea /\ disk'[b] = disk[a]
      /\ \A c \in Areas \ {a, b} : disk'[c] = disk[c]
  BY <1>1, <1>2 DEF IInv, Typed
<1>4. Typed'
  BY <1>1, <1>3 DEF IInv, Typed, RoleTyped
<1>5. CallOK' /\ StoreOK' /\ DeleteOK'
  BY <1>1, NothingUnderWay
<1>6. SyncedOK'
  <2> SUFFICES ASSUME synced' # NoArea
               PROVE  SyncedOK'
    BY DEF SyncedOK
  <2>1. /\ synced # NoArea /\ role # NoRole /\ existArea(synced) /\ synced \notin emptying
        /\ synced \in Areas
        /\ \A g \in Files : /\ ~Marks(g) => OnDisk(g, synced)
                            /\ clean => OnDisk(g, synced)
    BY <1>1, IdleFacts, FileFacts DEF IInv, SyncedOK, Typed
  <2>2. disk'[synced'] = disk[synced] /\ synced' \notin emptying
    BY <1>1, <1>2, <1>3, <2>1
  <2>3. existArea(synced)'
    BY <2>1, <2>2 DEF existArea
  <2>4. \A g \in Files : /\ ~Marks(g)' => OnDisk(g, synced)'
                         /\ clean' => OnDisk(g, synced)'
    BY <1>1, <2>1, <2>2 DEF OnDisk, Marks
  <2> QED
    BY <1>1, <2>1, <2>2, <2>3, <2>4, IdleFacts DEF SyncedOK
<1>7. EmptyingOK'
  BY <1>1, <1>2, <1>3 DEF IInv, Typed, EmptyingOK, existArea
<1>8. AreasOK'
  <2> SUFFICES ASSUME NEW c \in Areas \ broken'
               PROVE  /\ c \in emptying => disk'[c] = NoFiles
                      /\ (roleExist(c)' /\ c \notin emptying) => Whole(c)'
    BY <1>1 DEF AreasOK
  <2>0. \A x \in Areas : call.area # x
    BY <1>1, IdleFacts, FileFacts
  <2>1. CASE c = a
    BY <1>1, <1>3, <2>1 DEF roleExist, existArea
  <2>2. CASE c = b
    <3>1. a \notin broken
      BY <1>1, <1>2, <2>2
    <3> QED
      BY <1>1, <1>2, <1>3, <2>0, <2>2, <3>1 DEF IInv, AreasOK, roleExist, existArea, Whole
  <2>3. CASE c # a /\ c # b
    <3>1. c \notin broken
      BY <1>1, <2>3
    <3> QED
      BY <1>1, <1>3, <2>0, <2>3, <3>1 DEF IInv, AreasOK, roleExist, existArea, Whole
  <2> QED
    BY <2>1, <2>2, <2>3
<1> QED
  BY <1>4, <1>5, <1>6, <1>7, <1>8 DEF IInv

LEMMA AreaDeleteKeeps ==
    ASSUME IInv, NEW a \in Areas, AreaDelete(a)
    PROVE  IInv'
<1>1. /\ existArea(a) /\ emptying' = emptying \cup {a} /\ broken' = broken \cup {a}
      /\ UNCHANGED <<role, disk, call, clean, faults>> /\ calls' \in 0..MaxCalls
      /\ (synced' = NoArea /\ synced = a) \/ (synced' = synced /\ synced # a)
  BY OneCallMore DEF AreaDelete
<1>2. a # NoArea
  BY FileFacts
<1>3. Typed'
  BY <1>1 DEF IInv, Typed, RoleTyped
<1>4. CallOK' /\ DeleteOK'
  BY <1>1 DEF IInv, CallOK, DeleteOK, Left, Marks, existArea
<1>5. StoreOK'
  <2> SUFFICES ASSUME call.op = "store", call.area \notin broken' \/ synced' = call.area
               PROVE  StoreOK'
    BY <1>1 DEF StoreOK
  <2>1. call.area # a /\ (call.area \notin broken \/ synced = call.area)
        /\ (synced = call.area => synced' = synced)
    <3>1. call.area \in Areas /\ call.area # NoArea
      BY StoreUnderWay, FileFacts
    <3> QED
      BY <1>1, <3>1
  <2> QED
    BY <1>1, <2>1 DEF IInv, StoreOK, Left, Marks, AllMarked, File, existArea
<1>6. SyncedOK'
  BY <1>1 DEF IInv, SyncedOK, OnDisk, Marks, existArea
<1>7. AreasOK' /\ EmptyingOK'
  BY <1>1 DEF IInv, AreasOK, EmptyingOK, roleExist, existArea, Whole
<1> QED
  BY <1>3, <1>4, <1>5, <1>6, <1>7 DEF IInv

LEMMA RemoveFileKeeps ==
    ASSUME IInv, NEW a \in Areas, RemoveFile(a)
    PROVE  IInv'
<1>1. PICK f \in Files : disk[a][f] # Missing /\ disk' = [disk EXCEPT ![a][f] = Missing]
  BY DEF RemoveFile
<1>2. /\ a \in emptying /\ existArea(a)
      /\ UNCHANGED <<role, call, emptying, synced, clean, broken, calls, faults>>
  BY DEF RemoveFile, IInv, EmptyingOK
<1>3. /\ disk' \in [Areas -> FileStates \cup {NoArea}]
      /\ disk'[a][f] = Missing
      /\ \A g \in Files \ {f} : disk'[a][g] = disk[a][g]
      /\ \A b \in Areas \ {a} : disk'[b] = disk[b]
      /\ \A b \in Areas : existArea(b)' <=> existArea(b)
  BY <1>1, <1>2, OneFile
<1>4. synced # a /\ a # NoArea
  BY <1>2, FileFacts DEF IInv, SyncedOK
<1>5. a \in broken
  <2>1. a \notin broken => disk[a] = NoFiles
    BY <1>2 DEF IInv, AreasOK
  <2> QED
    BY <1>1, <2>1 DEF NoFiles
<1>6. Typed'
  BY <1>2, <1>3 DEF IInv, Typed, RoleTyped
<1>7. CallOK' /\ EmptyingOK'
  BY <1>2, <1>3 DEF IInv, Typed, CallOK, Left, Marks, EmptyingOK
<1>8. StoreOK'
  <2> SUFFICES ASSUME call.op = "store", call.area \notin broken \/ synced = call.area
               PROVE  StoreOK'
    BY <1>2 DEF StoreOK
  <2>1. call.area \in Areas \ {a}
    BY <1>4, <1>5, StoreUnderWay
  <2>2. disk'[call.area] = disk[call.area]
    BY <1>3, <2>1
  <2> QED
    BY <1>2, <2>1, <2>2 DEF IInv, StoreOK, Left, Marks, AllMarked, File, existArea
<1>9. DeleteOK'
  <2> SUFFICES ASSUME call.op = "delete", existArea(call.area)
               PROVE  \A g \in Files \ Left : disk'[call.area][g] = Missing
    BY <1>2, <1>3, CallTyped DEF DeleteOK, Left, existArea
  <2>1. call.area \in Areas /\ \A g \in Files \ Left : disk[call.area][g] = Missing
    BY DeleteUnderWay DEF IInv, DeleteOK
  <2> QED
    BY <1>3, <2>1
<1>10. SyncedOK'
  <2>1. synced # NoArea => disk'[synced] = disk[synced]
    BY <1>3, <1>4 DEF IInv, Typed
  <2> QED
    BY <1>2, <2>1 DEF IInv, SyncedOK, OnDisk, Marks, existArea
<1>11. AreasOK'
  BY <1>2, <1>3, <1>5 DEF IInv, AreasOK, roleExist, existArea, Whole
<1> QED
  BY <1>6, <1>7, <1>8, <1>9, <1>10, <1>11 DEF IInv

LEMMA RemoveAreaKeeps ==
    ASSUME IInv, NEW a \in Areas, RemoveArea(a)
    PROVE  IInv'
<1>1. /\ a \in emptying /\ disk' = [disk EXCEPT ![a] = NoArea] /\ emptying' = emptying \ {a}
      /\ (call.area = a /\ broken' = broken) \/ (call.area # a /\ broken' = broken \ {a})
      /\ UNCHANGED <<role, call, synced, clean, calls, faults>>
  BY DEF RemoveArea
<1>2. /\ disk' \in [Areas -> FileStates \cup {NoArea}]
      /\ disk'[a] = NoArea /\ \A b \in Areas \ {a} : disk'[b] = disk[b]
  BY <1>1 DEF IInv, Typed
<1>3. synced # a /\ a # NoArea
  BY <1>1, FileFacts DEF IInv, SyncedOK
<1>4. Typed'
  BY <1>1, <1>2 DEF IInv, Typed, RoleTyped
<1>5. CallOK' /\ EmptyingOK'
  BY <1>1, <1>2 DEF IInv, Typed, CallOK, Left, Marks, EmptyingOK, existArea
<1>6. StoreOK'
  <2> SUFFICES ASSUME call.op = "store", call.area \notin broken' \/ synced = call.area
               PROVE  StoreOK'
    BY <1>1 DEF StoreOK
  <2>1. call.area \notin broken \/ synced = call.area
    BY <1>1
  <2>2. call.area \notin emptying
    BY <2>1 DEF IInv, StoreOK
  <2>3. call.area \in Areas \ {a} /\ disk'[call.area] = disk[call.area]
    BY <1>1, <1>2, <2>2, StoreUnderWay
  <2> QED
    BY <1>1, <2>1, <2>2, <2>3 DEF IInv, StoreOK, Left, Marks, AllMarked, File, existArea
<1>7. DeleteOK'
  <2> SUFFICES ASSUME call.op = "delete", disk'[call.area] # NoArea
               PROVE  \A g \in Files \ Left : disk'[call.area][g] = Missing
    BY <1>1 DEF DeleteOK, Left, existArea
  <2>1. call.area \in Areas \ {a}
    BY <1>2, DeleteUnderWay
  <2> QED
    BY <1>2, <2>1 DEF IInv, DeleteOK, existArea
<1>8. SyncedOK'
  <2>1. synced # NoArea => disk'[synced] = disk[synced]
    BY <1>2, <1>3 DEF IInv, Typed
  <2> QED
    BY <1>1, <2>1 DEF IInv, SyncedOK, OnDisk, Marks, existArea
<1>9. AreasOK'
  <2> SUFFICES ASSUME NEW b \in Areas \ broken'
               PROVE  /\ b \in emptying \ {a} => disk'[b] = NoFiles
                      /\ (roleExist(b)' /\ call.area # b /\ b \notin emptying \ {a}) => Whole(b)'
    BY <1>1 DEF AreasOK
  <2>1. CASE b = a
    BY <1>2, <2>1 DEF roleExist, existArea
  <2>2. CASE b # a
    BY <1>1, <1>2, <2>2 DEF IInv, AreasOK, roleExist, existArea, Whole
  <2> QED
    BY <2>1, <2>2
<1> QED
  BY <1>4, <1>5, <1>6, <1>7, <1>8, <1>9 DEF IInv

LEMMA RemoveAreaFailsKeeps ==
    ASSUME IInv, NEW a \in Areas, RemoveAreaFails(a)
    PROVE  IInv'
<1>1. /\ a \in emptying /\ emptying' = emptying \ {a} /\ broken' = broken \cup {a}
      /\ UNCHANGED <<role, disk, call, synced, clean, calls, faults>>
  BY DEF RemoveAreaFails
<1>2. Typed'
  BY <1>1 DEF IInv, Typed, RoleTyped
<1>3. CallOK' /\ DeleteOK' /\ EmptyingOK'
  BY <1>1 DEF IInv, CallOK, DeleteOK, Left, Marks, EmptyingOK, existArea
<1>4. StoreOK' /\ SyncedOK'
  BY <1>1 DEF IInv, StoreOK, SyncedOK, OnDisk, Left, Marks, AllMarked, File, existArea
<1>5. AreasOK'
  BY <1>1 DEF IInv, AreasOK, roleExist, existArea, Whole
<1> QED
  BY <1>2, <1>3, <1>4, <1>5 DEF IInv

LEMMA NextKeeps == IInv /\ [Next]_vars => IInv'
<1> SUFFICES ASSUME IInv, [Next]_vars
             PROVE  IInv'
  OBVIOUS
<1>1. CASE Encode \/ Change \/ ChangeObject
  BY <1>1, EncodeKeeps, ChangeKeeps, ChangeObjectKeeps
<1>2. ASSUME NEW a \in Areas,
             \/ RoleReadMiddleData(a) \/ RoleStoreMiddleData(a) \/ RoleUpdateMiddleData(a)
             \/ RoleDelete(a)
      PROVE  IInv'
  BY <1>2, ReadKeeps, StoreKeeps, DeleteKeeps DEF RoleUpdateMiddleData
<1>3. ASSUME NEW a \in Areas,
             \/ AreaInit(a) \/ AreaDelete(a) \/ RemoveFile(a) \/ RemoveArea(a)
             \/ RemoveAreaFails(a)
      PROVE  IInv'
  BY <1>3, AreaInitKeeps, AreaDeleteKeeps, RemoveFileKeeps, RemoveAreaKeeps, RemoveAreaFailsKeeps
<1>4. ASSUME NEW a \in Areas, NEW b \in Areas, AreaReName(a, b)
      PROVE  IInv'
  BY <1>4, AreaReNameKeeps
<1>5. CASE Truncate \/ Write \/ OpenFails \/ WriteFails \/ Remove \/ Crash
  BY <1>5, TruncateKeeps, WriteKeeps, FailuresKeep, RemoveKeeps, CrashKeeps
<1>6. CASE UNCHANGED vars
  <2> USE <1>6 DEF vars
  <2>1. Typed' /\ CallOK' /\ StoreOK' /\ DeleteOK'
    BY DEF IInv, Typed, RoleTyped, CallOK, StoreOK, DeleteOK, Left, Marks, AllMarked, File, existArea
  <2>2. SyncedOK' /\ AreasOK' /\ EmptyingOK'
    BY AreasUntouched DEF IInv, SyncedOK, OnDisk, Marks, existArea
  <2> QED
    BY <2>1, <2>2 DEF IInv
<1> QED
  BY <1>1, <1>2, <1>3, <1>4, <1>5, <1>6 DEF Next

----------------------------------------------------------------------------
(* Theorems.                                                               *)

\* The inductive invariant holds in every state (hardstorage.go, all of its methods).
THEOREM RoleFilesInvariant == Spec => []IInv
BY InitOK, NextKeeps, PTL DEF Spec

\* Everything has its type, whatever methods of a role are called in whatever order
\* (middledata.go) and whatever becomes of its files (hardstorage.go).
THEOREM RoleFilesType == Spec => []TypeOK
<1>1. IInv => TypeOK
  <2> SUFFICES ASSUME IInv
               PROVE  TypeOK
    OBVIOUS
  <2>1. RoleTyped /\ DOMAIN disk = Areas
    BY DEF IInv, Typed
  <2>2. DiskTyped
    BY DEF IInv, Typed, DiskTyped, FileStates
  <2>3. /\ call.op \in {"idle", "store", "delete"} /\ call.area \in Areas \cup {NoArea}
        /\ call.files \in StoreLines \cup DeleteLines \cup {<< >>} /\ call.opened \in BOOLEAN
        /\ call.op = "store" => role # NoRole
    BY DEF IInv, CallOK
  <2>4. call.files \in UNION {[1..n -> Files] : n \in 0..3}
    BY <2>3, LineTyped
  <2>5. (call.op = "idle") <=> (call.files = << >>)
    BY <2>3, StoreLine, DeleteLine, IdleFacts DEF IInv, CallOK
  <2>6. /\ emptying \subseteq Areas /\ broken \subseteq Areas
        /\ synced \in Areas \cup {NoArea} /\ clean \in BOOLEAN
        /\ calls \in 0..MaxCalls /\ faults \in 0..MaxFaults
    BY DEF IInv, Typed
  <2> QED
    BY <2>1, <2>2, <2>3, <2>4, <2>5, <2>6 DEF TypeOK
<1> QED
  BY <1>1, RoleFilesInvariant, PTL

\* The role in memory and the files it was read from or stored to differ only in what is
\* marked, so that a store of the marked files alone stores the whole role
\* (hardstorage.go, storeRoleMiddle), whatever happened to its area in between.
THEOREM SyncedOrMarked == Spec => []StoredOrMarked
<1>1. IInv => StoredOrMarked
  BY DEF IInv, SyncedOK, StoredOrMarked, Busy
<1> QED
  BY <1>1, RoleFilesInvariant, PTL

\* Where no store or delete was broken off, a role that exists has all its files whole
\* (hardstorage.go, roleExist against RoleReadMiddleData).
THEOREM ExistsIsReadable == Spec => []ExistsReadable
<1>1. IInv => ExistsReadable
  BY DEF IInv, AreasOK, ExistsReadable, Busy, Whole
<1> QED
  BY <1>1, RoleFilesInvariant, PTL

----------------------------------------------------------------------------
(* What is set is read: of whatever role, so that no invariant beyond its  *)
(* type is needed.                                                         *)

\* A call that ends well is followed by a read of the value.
ReadBack(set, read, v) == set.answer = "ok" => read = Have(v)

\* The slots of a status: those for strings may be missing.
LEMMA SlotRead ==
    ASSUME NEW status, NEW v, NEW t, status.bind = v, t = "string" => status.strings
    PROVE  Slot(status, 0, t) = Have(v)
BY DEF Slot

LEMMA FriendRead ==
    ASSUME NEW r, NEW n \in DOMAIN r.relation.friends, NEW v, r.relation.friends[n].bind = v
    PROVE  /\ FriendBind(r, n) = Have(v) /\ n \in GetSameBindFriendsId(r, v)
           /\ GetFriendStatusInt(r, n, 0) = Have(v)
           /\ GetFriendStatusFloat(r, n, 0) = Have(v) /\ GetFriendStatusComplex(r, n, 0) = Have(v)
           /\ GetFriendStatus(r, n, 0, "number") = Have(v)
           /\ r.relation.friends[n].strings =>
                 /\ GetFriendStatusString(r, n, 0) = Have(v)
                 /\ GetFriendStatus(r, n, 0, "string") = Have(v)
<1>1. FriendBind(r, n) = Have(v) /\ n \in GetSameBindFriendsId(r, v)
  BY DEF FriendBind, ExistFriend, GetSameBindFriendsId, SameBind
<1>2. FriendStatus(r, n, 0, "number") = Have(v)
  BY SlotRead DEF FriendStatus, ExistFriend
<1>3. r.relation.friends[n].strings => FriendStatus(r, n, 0, "string") = Have(v)
  BY SlotRead DEF FriendStatus, ExistFriend
<1>4. ReadRecovered(Have(v)) = Have(v)
  BY DEF ReadRecovered, Have
<1> QED
  BY <1>1, <1>2, <1>3, <1>4
  DEF GetFriendStatusInt, GetFriendStatusFloat, GetFriendStatusComplex, GetFriendStatusString,
      GetFriendStatus, ExistFriend

LEMMA ContextRead ==
    ASSUME NEW r, NEW c \in DOMAIN r.relation.contexts, NEW side \in {"up", "down"},
           NEW n \in DOMAIN r.relation.contexts[c][side], NEW v,
           r.relation.contexts[c][side][n].bind = v
    PROVE  /\ GetContextSide(r, c, side, n) = Have(v)
           /\ n \in SameBind(r.relation.contexts[c][side], v)
           /\ GetContextStatusInt(r, c, side, n, 0) = Have(v)
           /\ GetContextStatusFloat(r, c, side, n, 0) = Have(v)
           /\ GetContextStatusComplex(r, c, side, n, 0) = Have(v)
           /\ GetContextStatus(r, c, side, n, 0, "number") = Have(v)
           /\ r.relation.contexts[c][side][n].strings =>
                 /\ GetContextStatusString(r, c, side, n, 0) = Have(v)
                 /\ GetContextStatus(r, c, side, n, 0, "string") = Have(v)
<1>1. /\ GetContextSide(r, c, side, n) = Have(v)
      /\ n \in SameBind(r.relation.contexts[c][side], v)
  BY DEF GetContextSide, ExistContext, SameBind
<1>2. ContextStatus(r, c, side, n, 0, "number") = Have(v)
  BY SlotRead DEF ContextStatus, ExistContext
<1>3. r.relation.contexts[c][side][n].strings => ContextStatus(r, c, side, n, 0, "string") = Have(v)
  BY SlotRead DEF ContextStatus, ExistContext
<1>4. ReadRecovered(Have(v)) = Have(v)
  BY DEF ReadRecovered, Have
<1>5. /\ GetContextStatusInt(r, c, side, n, 0) = Have(v)
      /\ GetContextStatusFloat(r, c, side, n, 0) = Have(v)
      /\ GetContextStatusComplex(r, c, side, n, 0) = Have(v)
  BY <1>2 DEF GetContextStatusInt, GetContextStatusFloat, GetContextStatusComplex
<1>6. \A t \in {"number", "string"} :
         GetContextStatus(r, c, side, n, 0, t) = ReadRecovered(ContextStatus(r, c, side, n, 0, t))
  <2>1. ~(0 > 9) /\ ExistContext(r, c) /\ side \in {"up", "down"}
    BY DEF ExistContext
  <2> QED
    BY <2>1 DEF GetContextStatus
<1>7. /\ GetContextStatus(r, c, side, n, 0, "number") = Have(v)
      /\ r.relation.contexts[c][side][n].strings =>
            GetContextStatus(r, c, side, n, 0, "string") = Have(v)
  BY <1>2, <1>3, <1>4, <1>6
<1> QED
  BY <1>1, <1>3, <1>5, <1>7 DEF GetContextStatusString

\* A call that ends well leaves the value in the friend's status.
LEMMA FriendIsSet ==
    ASSUME NEW r \in Roles, NEW n \in Names, NEW v \in Values
    PROVE  /\ AddFriend(r, n, v).answer = "ok" =>
                 LET f == AddFriend(r, n, v).role.relation.friends
                 IN  n \in DOMAIN f /\ f[n].bind = v
           /\ LET set == SetFriendStatusInt(r, n, 0, v)
                  f   == set.role.relation.friends
              IN  /\ set.answer = "ok" /\ set.role \in Roles
                  /\ n \in DOMAIN f /\ f[n].bind = v
                  /\ f[n].strings = FriendPresent(r, n).relation.friends[n].strings
<1>1. AddFriend(r, n, v).answer = "ok" =>
         LET f == AddFriend(r, n, v).role.relation.friends
         IN  n \in DOMAIN f /\ f[n].bind = v
  <2> DEFINE g == With(r.relation.friends, n, StatusWithoutStrings(v))
             q == [r EXCEPT !.relation.friends = g]
  <2>1. g \in PartialFunctions(Statuses)
    BY RelationOf, StatusTypes, PartialWith
  <2>2. n \in DOMAIN g /\ g[n].bind = v
    <3>1. n \in DOMAIN g /\ g[n] = StatusWithoutStrings(v)
      BY DEF With
    <3> QED
      BY <3>1 DEF StatusWithoutStrings
  <2>3. AddFriend(r, n, v) = Refused(r) \/ AddFriend(r, n, v) = Ok(Marked(q))
    BY DEF AddFriend
  <2> HIDE DEF g
  <2>4. q \in Roles /\ q.relation.friends = g
    BY <2>1, KeptFriends
  <2> HIDE DEF q
  <2>5. Marked(q).relation.friends = g
    BY <2>4, KeptMarked
  <2> QED
    BY <2>2, <2>3, <2>5, Results
<1>2. LET set == SetFriendStatusInt(r, n, 0, v)
          f   == set.role.relation.friends
      IN  /\ set.answer = "ok" /\ set.role \in Roles
          /\ n \in DOMAIN f /\ f[n].bind = v
          /\ f[n].strings = FriendPresent(r, n).relation.friends[n].strings
  <2> DEFINE p == FriendPresent(r, n)
             g == [p.relation.friends EXCEPT ![n].bind = v]
             q == [p EXCEPT !.relation.friends = g]
  <2>1. p \in Roles /\ n \in DOMAIN p.relation.friends
    BY FriendMade
  <2>2. /\ g \in PartialFunctions(Statuses) /\ DOMAIN g = DOMAIN p.relation.friends
        /\ g[n].bind = v /\ g[n].strings = p.relation.friends[n].strings
    BY <2>1, RelationOf, PartialBind
  <2>3. SetFriendStatusInt(r, n, 0, v) = Ok(q)
    BY DEF SetFriendStatusInt
  <2> HIDE DEF g
  <2>4. q \in Roles /\ q.relation.friends = g
    BY <2>1, <2>2, KeptFriends
  <2> HIDE DEF q
  <2> QED
    BY <2>1, <2>2, <2>3, <2>4, Results
<1> QED
  BY <1>1, <1>2

LEMMA FriendSetIsRead ==
    ASSUME NEW r \in Roles, NEW n \in Names, NEW v \in Values
    PROVE  /\ ReadBack(AddFriend(r, n, v), FriendBind(AddFriend(r, n, v).role, n), v)
           /\ AddFriend(r, n, v).answer = "ok" => n \in GetSameBindFriendsId(AddFriend(r, n, v).role, v)
           /\ ReadBack(SetFriendStatusInt(r, n, 0, v),
                       GetFriendStatusInt(SetFriendStatusInt(r, n, 0, v).role, n, 0), v)
           /\ ReadBack(SetFriendStatusFloat(r, n, 0, v),
                       GetFriendStatusFloat(SetFriendStatusFloat(r, n, 0, v).role, n, 0), v)
           /\ ReadBack(SetFriendStatusComplex(r, n, 0, v),
                       GetFriendStatusComplex(SetFriendStatusComplex(r, n, 0, v).role, n, 0), v)
           /\ ReadBack(SetFriendStatusString(r, n, 0, v),
                       GetFriendStatusString(SetFriendStatusString(r, n, 0, v).role, n, 0), v)
           /\ \A t \in {"number", "string"} :
                 ReadBack(SetFriendStatus(r, n, 0, t, v),
                          GetFriendStatus(SetFriendStatus(r, n, 0, t, v).role, n, 0, t), v)
<1> DEFINE int == SetFriendStatusInt(r, n, 0, v)
           str == SetFriendStatusString(r, n, 0, v)
<1>1. /\ ReadBack(AddFriend(r, n, v), FriendBind(AddFriend(r, n, v).role, n), v)
      /\ AddFriend(r, n, v).answer = "ok" => n \in GetSameBindFriendsId(AddFriend(r, n, v).role, v)
  BY FriendIsSet, FriendRead DEF ReadBack
<1>2. /\ int.answer = "ok" /\ int.role \in Roles /\ n \in DOMAIN int.role.relation.friends
      /\ int.role.relation.friends[n].bind = v
      /\ int.role.relation.friends[n].strings = FriendPresent(r, n).relation.friends[n].strings
  BY FriendIsSet
<1>3. str = Panic(r) \/ (str = int /\ FriendPresent(r, n).relation.friends[n].strings)
  BY DEF SetFriendStatusString
<1>4. str.answer = "ok" => str = int /\ int.role.relation.friends[n].strings
  BY <1>2, <1>3, Results
<1>5. /\ SetFriendStatus(r, n, 0, "number", v) = Ok(Marked(int.role))
      /\ str.answer = "ok" => SetFriendStatus(r, n, 0, "string", v) = Ok(Marked(str.role))
      /\ str.answer # "ok" => SetFriendStatus(r, n, 0, "string", v) = Recovered(str)
  BY <1>2 DEF SetFriendStatus
<1>6. Marked(int.role).relation = int.role.relation
  BY <1>2, KeptMarked
<1>7. str.answer # "ok" => Recovered(str).answer # "ok"
  BY Results DEF Recovered
<1>8. ReadBack(int, GetFriendStatusInt(int.role, n, 0), v)
      /\ ReadBack(int, GetFriendStatusFloat(int.role, n, 0), v)
      /\ ReadBack(int, GetFriendStatusComplex(int.role, n, 0), v)
  BY <1>2, FriendRead DEF ReadBack
<1>9. ReadBack(str, GetFriendStatusString(str.role, n, 0), v)
  BY <1>2, <1>4, FriendRead DEF ReadBack
<1> HIDE DEF int, str
<1>10. /\ n \in DOMAIN Marked(int.role).relation.friends
       /\ Marked(int.role).relation.friends[n].bind = v
       /\ str.answer = "ok" => Marked(str.role).relation.friends[n].strings /\ str = int
  BY <1>2, <1>4, <1>6
<1>11. /\ GetFriendStatus(Marked(int.role), n, 0, "number") = Have(v)
       /\ str.answer = "ok" => GetFriendStatus(Marked(str.role), n, 0, "string") = Have(v)
  BY <1>10, FriendRead
<1>12. \A t \in {"number", "string"} :
          ReadBack(SetFriendStatus(r, n, 0, t, v),
                   GetFriendStatus(SetFriendStatus(r, n, 0, t, v).role, n, 0, t), v)
  BY <1>5, <1>7, <1>11, Results DEF ReadBack
<1> QED
  BY <1>1, <1>8, <1>9, <1>12 DEF int, str, SetFriendStatusFloat, SetFriendStatusComplex

\* A call that ends well leaves the value in the status of the context's name.
LEMMA ContextIsSet ==
    ASSUME NEW r \in Roles, NEW c \in Names, NEW side \in {"up", "down"}, NEW n \in Names,
           NEW v \in Values
    PROVE  /\ AddContextSide(r, c, side, n, v).answer = "ok" =>
                 LET q == AddContextSide(r, c, side, n, v).role
                     f == q.relation.contexts[c][side]
                 IN  c \in DOMAIN q.relation.contexts /\ n \in DOMAIN f /\ f[n].bind = v
           /\ LET made == ContextPresent(r, c)
                  with == Present(made.relation.contexts[c][side], n, Status(0))
                  set  == SetContextStatusInt(r, c, side, n, 0, v)
                  f    == set.role.relation.contexts[c][side]
              IN  /\ set.answer = "ok" /\ c \in DOMAIN set.role.relation.contexts
                  /\ n \in DOMAIN f /\ f[n].bind = v /\ f[n].strings = with[n].strings
<1>1. AddContextSide(r, c, side, n, v).answer = "ok" =>
         LET q == AddContextSide(r, c, side, n, v).role
             f == q.relation.contexts[c][side]
         IN  c \in DOMAIN q.relation.contexts /\ n \in DOMAIN f /\ f[n].bind = v
  <2>0. ASSUME NEW p \in Roles, c \in DOMAIN p.relation.contexts, NEW g \in PartialFunctions(Statuses),
               n \in DOMAIN g, g[n].bind = v,
               AddContextSide(r, c, side, n, v)
                  = Ok(Marked([p EXCEPT !.relation.contexts[c][side] = g]))
        PROVE  LET q == AddContextSide(r, c, side, n, v).role
                   f == q.relation.contexts[c][side]
               IN  c \in DOMAIN q.relation.contexts /\ n \in DOMAIN f /\ f[n].bind = v
    <3> DEFINE q == [p EXCEPT !.relation.contexts[c][side] = g]
    <3>1. /\ q \in Roles /\ DOMAIN q.relation.contexts = DOMAIN p.relation.contexts
          /\ q.relation.contexts[c][side] = g
      BY <2>0, KeptSide
    <3>2. AddContextSide(r, c, side, n, v) = Ok(Marked(q))
      BY <2>0
    <3> HIDE DEF q
    <3>3. AddContextSide(r, c, side, n, v).role.relation = q.relation
      BY <3>1, <3>2, KeptMarked, Results
    <3> QED
      BY <2>0, <3>1, <3>3
  <2>1. CASE ExistContext(r, c) /\ n \notin DOMAIN r.relation.contexts[c][side]
    BY <2>1, Results DEF AddContextSide
  <2>2. CASE ExistContext(r, c) /\ n \in DOMAIN r.relation.contexts[c][side]
    <3> DEFINE f == r.relation.contexts[c][side]
               g == [f EXCEPT ![n].bind = v]
    <3>1. c \in DOMAIN r.relation.contexts /\ f \in PartialFunctions(Statuses)
      BY <2>2, ContextsOf DEF ExistContext
    <3>2. g \in PartialFunctions(Statuses) /\ n \in DOMAIN g /\ g[n].bind = v
      BY <2>2, <3>1, PartialBind
    <3>3. AddContextSide(r, c, side, n, v)
             = Ok(Marked([r EXCEPT !.relation.contexts[c][side] = g]))
      BY <2>2 DEF AddContextSide
    <3> HIDE DEF g
    <3> QED
      BY <2>0, <3>1, <3>2, <3>3
  <2>3. CASE ~ExistContext(r, c)
    <3> DEFINE p == ContextPresent(r, c)
               g == With(p.relation.contexts[c][side], n, StatusWithoutStrings(v))
    <3>1. p \in Roles /\ c \in DOMAIN p.relation.contexts
      BY ContextMade
    <3>2. g \in PartialFunctions(Statuses)
      BY <3>1, ContextsOf, StatusTypes, PartialWith
    <3>3. n \in DOMAIN g /\ g[n] = StatusWithoutStrings(v)
      BY DEF With
    <3>4. g[n].bind = v
      BY <3>3 DEF StatusWithoutStrings
    <3>5. AddContextSide(r, c, side, n, v)
             = Ok(Marked([p EXCEPT !.relation.contexts[c][side] = g]))
      BY <2>3 DEF AddContextSide
    <3> HIDE DEF g, p
    <3> QED
      BY <2>0, <3>1, <3>2, <3>3, <3>4, <3>5
  <2> QED
    BY <2>1, <2>2, <2>3
<1> DEFINE f   == Present(ContextPresent(r, c).relation.contexts[c][side], n, Status(0))
           q   == NameSet(r, c, side, n, v)
           set == SetContextStatusInt(r, c, side, n, 0, v)
<1>2. /\ c \in DOMAIN q.relation.contexts /\ n \in DOMAIN q.relation.contexts[c][side]
      /\ q.relation.contexts[c][side][n].bind = v
      /\ q.relation.contexts[c][side][n].strings = f[n].strings
  BY ContextNameMade
<1>3. set = Ok(q)
  BY DEF SetContextStatusInt, NameMade, NameSet
<1> HIDE DEF f, q, set
<1>4. /\ set.answer = "ok" /\ c \in DOMAIN set.role.relation.contexts
      /\ n \in DOMAIN set.role.relation.contexts[c][side]
      /\ set.role.relation.contexts[c][side][n].bind = v
      /\ set.role.relation.contexts[c][side][n].strings = f[n].strings
  BY <1>2, <1>3, Results
<1> QED
  BY <1>1, <1>4 DEF set, f

LEMMA ContextSetIsRead ==
    ASSUME NEW r \in Roles, NEW c \in Names, NEW side \in {"up", "down"}, NEW n \in Names,
           NEW v \in Values
    PROVE  /\ ReadBack(SetContextStatusInt(r, c, side, n, 0, v),
                 GetContextStatusInt(SetContextStatusInt(r, c, side, n, 0, v).role, c, side, n, 0), v)
           /\ ReadBack(SetContextStatusFloat(r, c, side, n, 0, v),
                 GetContextStatusFloat(SetContextStatusFloat(r, c, side, n, 0, v).role, c, side, n, 0), v)
           /\ ReadBack(SetContextStatusComplex(r, c, side, n, 0, v),
                 GetContextStatusComplex(SetContextStatusComplex(r, c, side, n, 0, v).role, c, side, n, 0), v)
           /\ ReadBack(SetContextStatusString(r, c, side, n, 0, v),
                 GetContextStatusString(SetContextStatusString(r, c, side, n, 0, v).role, c, side, n, 0), v)
           /\ \A t \in {"number", "string"} :
                 ReadBack(SetContextStatus(r, c, side, n, 0, t, v),
                    GetContextStatus(SetContextStatus(r, c, side, n, 0, t, v).role, c, side, n, 0, t), v)
<1> DEFINE made == ContextPresent(r, c)
           f    == made.relation.contexts[c][side]
           with == Present(f, n, Status(0))
           int  == SetContextStatusInt(r, c, side, n, 0, v)
           str  == SetContextStatusString(r, c, side, n, 0, v)
           any(t) == SetContextStatus(r, c, side, n, 0, t, v)
<1>1. /\ int.answer = "ok" /\ c \in DOMAIN int.role.relation.contexts
      /\ n \in DOMAIN int.role.relation.contexts[c][side]
      /\ int.role.relation.contexts[c][side][n].bind = v
      /\ int.role.relation.contexts[c][side][n].strings = with[n].strings
  BY ContextIsSet
<1>2. \/ n \in DOMAIN f /\ ~f[n].strings /\ str = Panic(made)
      \/ ~(n \in DOMAIN f /\ ~f[n].strings) /\ str = int
  BY DEF SetContextStatusString
<1>3. n \notin DOMAIN f => with[n].strings
  <2>1. n \notin DOMAIN f => with[n] = Status(0)
    BY DEF Present, With
  <2> QED
    BY <2>1 DEF Status
<1>4. n \in DOMAIN f => with = f
  BY DEF Present
<1>5. any("number") = Recovered(int) /\ any("string") = Recovered(str)
  BY DEF SetContextStatus
<1>6. \A s : Recovered(s).answer = "ok" => Recovered(s) = s
  BY Results DEF Recovered
<1>7. /\ SetContextStatusFloat(r, c, side, n, 0, v) = int
      /\ SetContextStatusComplex(r, c, side, n, 0, v) = int
  BY DEF SetContextStatusFloat, SetContextStatusComplex
<1> HIDE DEF made, f, with, int, str, any
<1>8. str.answer = "ok" => str = int /\ int.role.relation.contexts[c][side][n].strings
  BY <1>1, <1>2, <1>3, <1>4, Results
<1>9. /\ GetContextStatusInt(int.role, c, side, n, 0) = Have(v)
      /\ GetContextStatusFloat(int.role, c, side, n, 0) = Have(v)
      /\ GetContextStatusComplex(int.role, c, side, n, 0) = Have(v)
      /\ GetContextStatus(int.role, c, side, n, 0, "number") = Have(v)
      /\ int.role.relation.contexts[c][side][n].strings =>
            /\ GetContextStatusString(int.role, c, side, n, 0) = Have(v)
            /\ GetContextStatus(int.role, c, side, n, 0, "string") = Have(v)
  <2> DEFINE p == int.role
  <2>1. /\ c \in DOMAIN p.relation.contexts /\ n \in DOMAIN p.relation.contexts[c][side]
        /\ p.relation.contexts[c][side][n].bind = v
    BY <1>1
  <2> HIDE DEF p
  <2>2. /\ GetContextStatusInt(p, c, side, n, 0) = Have(v)
        /\ GetContextStatusFloat(p, c, side, n, 0) = Have(v)
        /\ GetContextStatusComplex(p, c, side, n, 0) = Have(v)
        /\ GetContextStatus(p, c, side, n, 0, "number") = Have(v)
        /\ p.relation.contexts[c][side][n].strings =>
              /\ GetContextStatusString(p, c, side, n, 0) = Have(v)
              /\ GetContextStatus(p, c, side, n, 0, "string") = Have(v)
    BY <2>1, ContextRead
  <2> QED
    BY <2>2 DEF p
<1>10. /\ ReadBack(int, GetContextStatusInt(int.role, c, side, n, 0), v)
       /\ ReadBack(int, GetContextStatusFloat(int.role, c, side, n, 0), v)
       /\ ReadBack(int, GetContextStatusComplex(int.role, c, side, n, 0), v)
       /\ ReadBack(str, GetContextStatusString(str.role, c, side, n, 0), v)
  BY <1>8, <1>9 DEF ReadBack
<1>11. \A t \in {"number", "string"} :
          ReadBack(any(t), GetContextStatus(any(t).role, c, side, n, 0, t), v)
  BY <1>5, <1>6, <1>8, <1>9 DEF ReadBack
<1> QED
  BY <1>7, <1>10, <1>11 DEF int, str, any

LEMMA SetIsRead ==
    ASSUME NEW r \in Roles, NEW n \in Names, NEW c \in Names, NEW v \in Values
    PROVE  /\ \A f \in Fields : ReadBack(SetData(r, f, v), GetData(SetData(r, f, v).role, f), v)
           /\ ReadBack(AddFriend(r, n, v), FriendBind(AddFriend(r, n, v).role, n), v)
           /\ AddFriend(r, n, v).answer = "ok" => n \in GetSameBindFriendsId(AddFriend(r, n, v).role, v)
           /\ ReadBack(AddContextUp(r, c, n, v), GetContextUp(AddContextUp(r, c, n, v).role, c, n), v)
           /\ AddContextUp(r, c, n, v).answer = "ok" =>
                 n \in GetContextUpSameBind(AddContextUp(r, c, n, v).role, c, v).value
           /\ ReadBack(AddContextDown(r, c, n, v), GetContextDown(AddContextDown(r, c, n, v).role, c, n), v)
           /\ AddContextDown(r, c, n, v).answer = "ok" =>
                 n \in GetContextDownSameBind(AddContextDown(r, c, n, v).role, c, v).value
           /\ ReadBack(SetFriendStatusInt(r, n, 0, v),
                       GetFriendStatusInt(SetFriendStatusInt(r, n, 0, v).role, n, 0), v)
           /\ ReadBack(SetFriendStatusFloat(r, n, 0, v),
                       GetFriendStatusFloat(SetFriendStatusFloat(r, n, 0, v).role, n, 0), v)
           /\ ReadBack(SetFriendStatusComplex(r, n, 0, v),
                       GetFriendStatusComplex(SetFriendStatusComplex(r, n, 0, v).role, n, 0), v)
           /\ ReadBack(SetFriendStatusString(r, n, 0, v),
                       GetFriendStatusString(SetFriendStatusString(r, n, 0, v).role, n, 0), v)
           /\ \A t \in {"number", "string"} :
                 ReadBack(SetFriendStatus(r, n, 0, t, v),
                          GetFriendStatus(SetFriendStatus(r, n, 0, t, v).role, n, 0, t), v)
           /\ \A side \in {"up", "down"} :
                 /\ ReadBack(SetContextStatusInt(r, c, side, n, 0, v),
                       GetContextStatusInt(SetContextStatusInt(r, c, side, n, 0, v).role, c, side, n, 0), v)
                 /\ ReadBack(SetContextStatusFloat(r, c, side, n, 0, v),
                       GetContextStatusFloat(SetContextStatusFloat(r, c, side, n, 0, v).role, c, side, n, 0), v)
                 /\ ReadBack(SetContextStatusComplex(r, c, side, n, 0, v),
                       GetContextStatusComplex(SetContextStatusComplex(r, c, side, n, 0, v).role, c, side, n, 0), v)
                 /\ ReadBack(SetContextStatusString(r, c, side, n, 0, v),
                       GetContextStatusString(SetContextStatusString(r, c, side, n, 0, v).role, c, side, n, 0), v)
                 /\ \A t \in {"number", "string"} :
                       ReadBack(SetContextStatus(r, c, side, n, 0, t, v),
                          GetContextStatus(SetContextStatus(r, c, side, n, 0, t, v).role, c, side, n, 0, t), v)
<1>1. \A f \in Fields : ReadBack(SetData(r, f, v), GetData(SetData(r, f, v).role, f), v)
  <2> SUFFICES ASSUME NEW f \in Fields
               PROVE  ReadBack(SetData(r, f, v), GetData(SetData(r, f, v).role, f), v)
    OBVIOUS
  <2> DEFINE q == [r EXCEPT !.data[f] = v, !.DataChange = TRUE]
  <2>1. f \in DOMAIN q.data /\ q.data[f] = v /\ SetData(r, f, v) = Ok(q)
    BY DEF Roles, SetData
  <2> HIDE DEF q
  <2>2. SetData(r, f, v).role = q
    BY <2>1, Results
  <2>3. GetData(q, f) = Have(v)
    BY <2>1 DEF GetData
  <2> QED
    BY <2>2, <2>3 DEF ReadBack
<1>2. \A side \in {"up", "down"} :
         LET set == AddContextSide(r, c, side, n, v)
         IN  set.answer = "ok" => /\ c \in DOMAIN set.role.relation.contexts
                                  /\ GetContextSide(set.role, c, side, n) = Have(v)
                                  /\ n \in SameBind(set.role.relation.contexts[c][side], v)
  <2> SUFFICES ASSUME NEW side \in {"up", "down"}, AddContextSide(r, c, side, n, v).answer = "ok"
               PROVE  LET q == AddContextSide(r, c, side, n, v).role
                      IN  /\ c \in DOMAIN q.relation.contexts
                          /\ GetContextSide(q, c, side, n) = Have(v)
                          /\ n \in SameBind(q.relation.contexts[c][side], v)
    OBVIOUS
  <2> DEFINE q == AddContextSide(r, c, side, n, v).role
  <2>1. /\ c \in DOMAIN q.relation.contexts /\ n \in DOMAIN q.relation.contexts[c][side]
        /\ q.relation.contexts[c][side][n].bind = v
    BY ContextIsSet
  <2> HIDE DEF q
  <2>2. /\ GetContextSide(q, c, side, n) = Have(v)
        /\ n \in SameBind(q.relation.contexts[c][side], v)
    BY <2>1, ContextRead
  <2> QED
    BY <2>1, <2>2 DEF q
<1>3. \A q : c \in DOMAIN q.relation.contexts =>
         /\ GetContextUpSameBind(q, c, v).value = SameBind(q.relation.contexts[c]["up"], v)
         /\ GetContextDownSameBind(q, c, v).value = SameBind(q.relation.contexts[c]["down"], v)
  BY DEF GetContextUpSameBind, GetContextDownSameBind, ExistContext, Have
<1>4. /\ ReadBack(AddContextUp(r, c, n, v), GetContextUp(AddContextUp(r, c, n, v).role, c, n), v)
      /\ AddContextUp(r, c, n, v).answer = "ok" =>
            n \in GetContextUpSameBind(AddContextUp(r, c, n, v).role, c, v).value
      /\ ReadBack(AddContextDown(r, c, n, v),
                  GetContextDown(AddContextDown(r, c, n, v).role, c, n), v)
      /\ AddContextDown(r, c, n, v).answer = "ok" =>
            n \in GetContextDownSameBind(AddContextDown(r, c, n, v).role, c, v).value
  BY <1>2, <1>3 DEF ReadBack, AddContextUp, AddContextDown, GetContextUp, GetContextDown
<1> QED
  BY <1>1, <1>4, FriendSetIsRead, ContextSetIsRead

\* What a method of the role (middledata.go) says it has set, the method that reads it
\* says is there, whatever was done to the role before, in memory or through its files.
THEOREM SetIsReadBack == Spec => []WhatIsSetIsRead
<1>1. IInv => WhatIsSetIsRead
  <2> SUFFICES ASSUME IInv, role # NoRole
               PROVE  WhatIsSetIsRead
    BY DEF WhatIsSetIsRead
  <2>1. role \in Roles
    BY DEF IInv, Typed, RoleTyped
  <2> QED
    BY <2>1, SetIsRead DEF WhatIsSetIsRead, ReadBack
<1> QED
  BY <1>1, RoleFilesInvariant, PTL

----------------------------------------------------------------------------
(* The Go object and the role made of it.                                  *)

\* Of a role and of the Go object made of it, methods of the same name (roles/role.go
\* and roles/middle_data_operate.go) end alike, leave the same and read the same,
\* whatever was done to the role before, in memory or through its files.
THEOREM ObjectAgreesWithRole == Spec => []ObjectAgrees
<1>1. IInv => ObjectAgrees
  BY ObjectAndRole, ObjectMethodsAgree, ReadAlike DEF IInv, Typed, RoleTyped, ObjectAgrees
<1> QED
  BY <1>1, RoleFilesInvariant, PTL

\* Of any object, a method of roles/role.go that ends well has marked the father, the
\* children or the friends, if it has changed them: ReturnChanged says so to whoever asks
\* what must be stored.  It says nothing of that kind of the contexts, which SetContexts,
\* NewContext, DelContext and SetContextStatus leave unmarked.
THEOREM ObjectMarksTell ==
    \A o \in Objects : \A result \in RoleChanges(o) : MarksTell(o, result)
BY RoleChangesKeep DEF Remade
=============================================================================
