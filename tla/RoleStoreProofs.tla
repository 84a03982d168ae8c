--------------------------- MODULE RoleStoreProofs ---------------------------
(***************************************************************************)
(* Theorems about RoleStore, for any transactions, roles and operations of *)
(* the code, any number of objects and of calls.                           *)
(***************************************************************************)
EXTENDS RoleStore, SequenceTheorems, TLAPS

----------------------------------------------------------------------------
(* Facts about the types.                                                  *)

LEMMA Markers == Nil \notin Trans /\ Nil \notin Objs /\ Absent \notin Content /\ Ops \subseteq All
BY RoleStoreAssumption DEF Objs, Content

\* Of the operations: what has an effect on a part names it, and the father is written
\* under the write lock only, and replaced.
OpOK(op) ==
    /\ op \in Operations
    /\ op.effect \in {"replace", "extend", "modify"} => op.part \in Parts
    /\ op.effect \in {"store", "delete"} => op.part = "whole" /\ op.lock = "WRITE"
    /\ op.part = "father" /\ op.effect # "none" => op.effect = "replace" /\ op.lock = "WRITE"

LEMMA ReadingOK ==
    ASSUME NEW p \in Parts \cup {"whole"}
    PROVE  OpOK(Reading(p)) /\ OpOK(MayFail(Reading(p))) /\ OpOK(Locking(p)) /\ OpOK(MayFail(Locking(p)))
BY DEF OpOK, Operations, Reading, MayFail, Locking

LEMMA WritingOK ==
    ASSUME NEW p \in Parts
    PROVE  /\ OpOK(Replacing(p)) /\ OpOK(Extending("children"))
           /\ p # "father" => OpOK(Modifying(p)) /\ OpOK(MayFail(Modifying(p)))
BY DEF OpOK, Operations, Replacing, Extending, Modifying, Writing, MayFail, Parts

LEMMA ReadsOK ==
    /\ OpOK(ExistRole) /\ OpOK(ReadFather) /\ OpOK(ReadChildren) /\ OpOK(ExistChild)
    /\ OpOK(ReadFriends) /\ OpOK(ReadFriendStatus) /\ OpOK(ExistContext) /\ OpOK(ReadContext)
    /\ OpOK(ReadContextSameBind) /\ OpOK(ReadContextsName) /\ OpOK(ReadContextStatus)
    /\ OpOK(ReadContexts) /\ OpOK(ReadData) /\ OpOK(ReadDataToByte) /\ OpOK(ReadRole)
    /\ OpOK(ReadRoleMiddleData) /\ OpOK(ReadRoleByte) /\ OpOK(LockRole)
BY ReadingOK DEF Parts, ExistRole, ReadFather, ReadChildren, ExistChild, ReadFriends,
    ReadFriendStatus, ExistContext, ReadContext, ReadContextSameBind, ReadContextsName,
    ReadContextStatus, ReadContexts, ReadData, ReadDataToByte, ReadRole, ReadRoleMiddleData,
    ReadRoleByte, LockRole

LEMMA WritesOK ==
    /\ OpOK(WriteFather) /\ OpOK(ResetFather) /\ OpOK(WriteChildren) /\ OpOK(ResetChildren)
    /\ OpOK(WriteFriends) /\ OpOK(ResetFriends) /\ OpOK(WriteContexts) /\ OpOK(ResetContexts)
    /\ OpOK(WriteChild) /\ OpOK(DeleteChild) /\ OpOK(WriteFriendStatus) /\ OpOK(WriteFriend)
    /\ OpOK(CreateContext) /\ OpOK(DropContext) /\ OpOK(DeleteContextBind)
    /\ OpOK(WriteContextStatus) /\ OpOK(WriteData) /\ OpOK(WriteDataFromByte)
BY WritingOK DEF Parts, WriteFather, ResetFather, WriteChildren, ResetChildren, WriteFriends,
    ResetFriends, WriteContexts, ResetContexts, WriteChild, DeleteChild, WriteFriendStatus,
    WriteFriend, CreateContext, DropContext, DeleteContextBind, WriteContextStatus, WriteData,
    WriteDataFromByte

LEMMA OthersOK ==
    /\ OpOK(StoreRole) /\ OpOK(StoreRoleFromMiddleData) /\ OpOK(StoreRoleByte)
    /\ OpOK(DeleteRole) /\ OpOK(DeleteFriend) /\ OpOK(WriteContext)
BY DEF OpOK, Operations, Parts, StoreRole, StoreRoleFromMiddleData, StoreRoleByte, DeleteRole,
    DeleteFriend, WriteContext, Locking, Reading, Writing, Modifying

LEMMA MethodsOK == \A m \in DOMAIN Methods : OpOK(Methods[m])
<1> HIDE DEF OpOK
<1> QED
  BY ReadsOK, WritesOK, OthersOK DEF Methods

LEMMA OpsOK == \A op \in Ops : OpOK(op)
BY MethodsOK, Markers DEF All

LEMMA CallCases ==
    ASSUME NEW c \in Calls
    PROVE  /\ c.pc \in {"idle", "sent", "ask", "get", "blocked", "wait", "got", "told"}
           /\ c.pc = "idle" => c = Idle
           /\ c.pc = "ask" => c.ask \in {"commit", "rollback"}
           /\ c.pc \in {"get", "blocked"} =>
                  /\ c.op \in Ops /\ c.role \in Roles
                  /\ c = [pc |-> c.pc, op |-> c.op, role |-> c.role]
           /\ c.pc \in {"wait", "got", "told"} =>
                  /\ c.op \in Ops /\ c.role \in Roles /\ c.obj \in Objs
                  /\ c = [pc |-> c.pc, op |-> c.op, role |-> c.role, obj |-> c.obj]
BY DEF Calls, Idle

LEMMA CallMade ==
    /\ Idle \in Calls /\ [pc |-> "sent"] \in Calls
    /\ \A ask \in {"commit", "rollback"} : [pc |-> "ask", ask |-> ask] \in Calls
    /\ \A op \in Ops, k \in Roles :
          /\ \A pc \in {"get", "blocked"} : [pc |-> pc, op |-> op, role |-> k] \in Calls
          /\ \A pc \in {"wait", "got", "told"}, o \in Objs :
                [pc |-> pc, op |-> op, role |-> k, obj |-> o] \in Calls
BY DEF Calls

LEMMA HandlerCases ==
    ASSUME NEW h \in Handlers
    PROVE  /\ h.pc \in {"idle", "lock", "look", "act", "remove", "stuck"}
           /\ h = Nobody <=> h.pc = "idle"
           /\ h # Nobody => /\ h.tran \in Trans /\ h.ask \in {"commit", "rollback"}
                            /\ h.by \in {"client", "monitor"}
           /\ h.pc \in {"look", "act", "remove", "stuck"} => h.todo \subseteq Entries
           /\ h.pc \in {"act", "remove", "stuck"} =>
                  /\ h.entry \in Entries /\ h.waiting \in BOOLEAN
                  /\ h = [pc |-> h.pc, ask |-> h.ask, by |-> h.by, tran |-> h.tran,
                          todo |-> h.todo, entry |-> h.entry, waiting |-> h.waiting]
BY DEF Handlers, Nobody

----------------------------------------------------------------------------
(* The inductive invariant.                                                *)

\* Who knows an object knows it as that of one role.
Uses(o, k) ==
    \/ role_cache[k] = o
    \/ \E t \in Trans :
          \/ tran_cache[t][k] = o \/ new_cache[t][k] = o
          \/ at[t].pc \in {"wait", "got", "told"} /\ at[t].obj = o /\ at[t].role = k

OneRole == \A o \in Objs, j, k \in Roles : Uses(o, j) /\ Uses(o, k) => j = k

\* Only a live transaction has taken roles, waits for one or is handled; one that waits is
\* not handled, and only one that stores a role is told.
LivesOK ==
    \A t \in Trans :
        /\ state[t] # "live" => \A k \in Roles : tran_cache[t][k] = Nil
        /\ at[t].pc \in {"wait", "told"} => state[t] = "live" /\ ~HandledNow(t)
        /\ at[t].pc = "told" => at[t].op.effect = "store"
        /\ t \in undone => state[t] = "ended"
        /\ (handler # Nobody /\ handler.tran = t) => state[t] = "live"
        /\ t \in monitor.expired => state[t] # "new"
        /\ \A k \in Roles : new_cache[t][k] # Nil => k \in stored

\* Who has asked for the end of a transaction waits for the answer, and has asked once.
Asker(s) ==
    /\ state[s.tran] # "new"
    /\ s.by = "client" => at[s.tran].pc = "sent"
    /\ s.by = "monitor" => monitor.asked = s.tran /\ s.ask = "rollback"

AsksOK ==
    /\ \A s \in asks : Asker(s)
    /\ \A r, s \in asks : r.tran = s.tran /\ r.by = s.by => r = s
    /\ handler # Nobody =>
          Asker(handler) /\ \A s \in asks : ~(s.tran = handler.tran /\ s.by = handler.by)

\* The handler has yet to work on what its transaction has taken.
EntryOK(e) ==
    IF e.key = "id" THEN new_cache[handler.tran][e.role] = e.obj
                    ELSE tran_cache[handler.tran][e.role] = e.obj

EntriesOK ==
    /\ handler.pc \in {"look", "act", "remove", "stuck"} => \A e \in handler.todo : EntryOK(e)
    /\ handler.pc \in {"act", "remove", "stuck"} =>
          EntryOK(handler.entry) /\ handler.entry \notin handler.todo

\* A place of one who has not been told is the place of one who waits there, and a line
\* that the handler has seen somebody in is not empty.
TicketsOK ==
    /\ \A o \in Objs :
          LET line == obj[o].wait_line
          IN  /\ \A i \in 1 .. Len(line) : ~line[i].told =>
                     at[line[i].tran].pc = "wait" /\ at[line[i].tran].obj = o
              /\ \A i, j \in 1 .. Len(line) :
                     ~line[i].told /\ ~line[j].told /\ line[i].tran = line[j].tran => i = j
    /\ handler.pc = "act" /\ handler.waiting => obj[handler.entry.obj].wait_line # << >>

\* The handler is done with what t had taken of k.
Passed(t, k) ==
    /\ HandledNow(t)
    /\ \A e \in handler.todo : e.role # k
    /\ handler.pc = "act" => handler.entry.role # k

\* A role that has been taken is its transaction's until the handler has passed it.
HoldersOK ==
    \A t \in Trans, k \in Roles \ stored :
        tran_cache[t][k] # Nil => obj[tran_cache[t][k]].tran_id = t \/ Passed(t, k)

\* What a transaction has written may be in a file: it is being committed, it has been,
\* or the monitor has rolled it back, which a client at work does not notice.
Loose(t) ==
    \/ state[t] = "ended" /\ t \notin undone
    \/ HandledNow(t) /\ (handler.ask = "commit" \/ handler.by = "monitor")

AllLoose(fathers) == \A t \in fathers : Loose(t)

\* The father in memory is that of the occupier, or may be in a file; the one that a
\* rollback puts back may be in a file.
RoleOK(c, k) ==
    /\ c.role_store # Absent
    /\ c.role = Absent => c.be_delete # "NO"
    /\ k \notin stored =>
          /\ c.be_delete = "COMMIT" => c.role = Absent
          /\ AllLoose(c.role_store.father)
          /\ c.role # Absent => AllLoose(c.role.father \ {c.tran_id})

RolesOK == \A o \in Objs, k \in Roles : Uses(o, k) => RoleOK(obj[o], k)

DiskOK == \A k \in Roles \ stored : disk[k] # Absent => AllLoose(disk[k].father)

\* Who has got a role for writing has taken it, or has been rolled back by the monitor.
GotOK ==
    \A t \in Trans : at[t].pc = "got" =>
        /\ at[t].op.effect = "store" => at[t].role \in stored
        /\ (at[t].op.lock = "WRITE" /\ at[t].role \notin stored) =>
               \/ tran_cache[t][at[t].role] = at[t].obj
               \/ state[t] = "ended" /\ t \notin undone

IInv ==
    /\ TypeOK /\ OneRole /\ LivesOK /\ AsksOK /\ EntriesOK /\ TicketsOK /\ HoldersOK
    /\ RolesOK /\ DiskOK /\ GotOK
----------------------------------------------------------------------------
(* What a step of a client leaves alone.                                   *)

LEMMA UnusedUses ==
    ASSUME TypeOK, NEW o
    PROVE  Unused(o) <=> \A k \in Roles : ~Uses(o, k)
<1>1. \A t \in Trans : at[t].pc \in {"wait", "got", "told"} => at[t].role \in Roles
  BY CallCases DEF TypeOK
<1> QED
  BY <1>1 DEF Unused, Uses

LEMMA SameHandler ==
    ASSUME UNCHANGED <<state, handler, undone>>
    PROVE  \A t \in Trans : /\ Loose(t)' <=> Loose(t)
                            /\ HandledNow(t)' <=> HandledNow(t)
                            /\ \A k \in Roles : Passed(t, k)' <=> Passed(t, k)
BY DEF Loose, HandledNow, Passed

\* The client of t does something else than before, and may have taken a role.
ClientMoves(t) ==
    /\ UNCHANGED <<disk, state, asks, handler, monitor, undone>>
    /\ stored \subseteq stored'
    /\ at[t].pc \notin {"sent", "wait"} /\ at'[t].pc \notin {"sent", "told"}
    /\ \A u \in Trans \ {t} : at'[u] = at[u]
    /\ at'[t].pc = "wait" => state[t] = "live" /\ ~HandledNow(t)
    /\ \A u \in Trans \ {t}, k \in Roles :
          tran_cache'[u][k] = tran_cache[u][k] /\ new_cache'[u][k] = new_cache[u][k]
    /\ \/ \A k \in Roles : tran_cache'[t][k] = tran_cache[t][k] /\ new_cache'[t][k] = new_cache[t][k]
       \/ state[t] = "live" /\ ~HandledNow(t)
    /\ \A k \in Roles : new_cache'[t][k] = new_cache[t][k] \/ k \in stored'
    /\ at'[t].pc = "got" =>
          /\ at'[t].op.effect = "store" => at'[t].role \in stored'
          /\ at'[t].op.lock = "WRITE" =>
                \/ tran_cache'[t][at'[t].role] = at'[t].obj
                \/ at'[t].role \in stored'

LEMMA ClientMoved ==
    ASSUME IInv, NEW t \in Trans, ClientMoves(t), TypeOK'
    PROVE  LivesOK' /\ AsksOK' /\ EntriesOK' /\ DiskOK' /\ GotOK'
<1>1. \A u \in Trans : /\ Loose(u)' <=> Loose(u)
                       /\ HandledNow(u)' <=> HandledNow(u)
  BY SameHandler DEF ClientMoves
<1>2. TypeOK
  BY DEF IInv
<1>3. LivesOK'
  BY <1>1 DEF IInv, LivesOK, ClientMoves
<1>4. AsksOK'
  <2>1. ASSUME NEW s, s.tran \in Trans, Asker(s)
        PROVE  Asker(s)'
    BY <2>1 DEF ClientMoves, Asker
  <2>2. handler # Nobody => handler.tran \in Trans
    BY <1>2, HandlerCases DEF TypeOK
  <2>3. \A s \in asks : s.tran \in Trans
    BY <1>2 DEF TypeOK
  <2>4. handler # Nobody => Asker(handler)'
    <3> SUFFICES ASSUME handler # Nobody
                 PROVE  Asker(handler)'
      OBVIOUS
    <3>1. handler.tran \in Trans /\ Asker(handler) /\ handler' = handler
      BY <2>2 DEF IInv, AsksOK, ClientMoves
    <3> QED
      BY <3>1 DEF ClientMoves, Asker
  <2>5. \A s \in asks : Asker(s)'
    BY <2>1, <2>3 DEF IInv, AsksOK
  <2> QED
    BY <2>4, <2>5 DEF IInv, AsksOK, ClientMoves
<1>5. EntriesOK'
  <2>1. ASSUME NEW e \in Entries, EntryOK(e), handler.pc \in {"look", "act", "remove", "stuck"}
        PROVE  EntryOK(e)'
    <3>1. handler.tran \in Trans /\ handler # Nobody /\ handler' = handler /\ e.role \in Roles
      BY <1>2, <2>1, HandlerCases DEF ClientMoves, TypeOK, Entries
    <3>2. HandledNow(handler.tran)
      BY <2>1, <3>1 DEF HandledNow
    <3>3. /\ tran_cache'[handler.tran][e.role] = tran_cache[handler.tran][e.role]
          /\ new_cache'[handler.tran][e.role] = new_cache[handler.tran][e.role]
      BY <3>1, <3>2 DEF ClientMoves
    <3> QED
      BY <2>1, <3>1, <3>3 DEF EntryOK
  <2>2. handler \in Handlers /\ handler' = handler
    BY <1>2 DEF TypeOK, ClientMoves
  <2> QED
    BY <2>1, <2>2, HandlerCases DEF IInv, EntriesOK
<1>6. DiskOK'
  BY <1>1, <1>2 DEF IInv, DiskOK, AllLoose, ClientMoves, TypeOK, Content, Parts
<1>7. GotOK'
  <2> SUFFICES ASSUME NEW u \in Trans, at'[u].pc = "got"
               PROVE  /\ at'[u].op.effect = "store" => at'[u].role \in stored'
                      /\ (at'[u].op.lock = "WRITE" /\ at'[u].role \notin stored') =>
                             \/ tran_cache'[u][at'[u].role] = at'[u].obj
                             \/ state'[u] = "ended" /\ u \notin undone'
    BY DEF GotOK
  <2>1. CASE u = t
    BY <2>1 DEF ClientMoves
  <2>2. CASE u # t
    <3>1. at'[u] = at[u] /\ at[u].role \in Roles
      BY <2>2, <1>2, CallCases DEF ClientMoves, TypeOK
    <3> QED
      BY <2>2, <3>1 DEF IInv, GotOK, ClientMoves
  <2> QED
    BY <2>1, <2>2
<1> QED
  BY <1>3, <1>4, <1>5, <1>6, <1>7

LEMMA LineType ==
    ASSUME TypeOK, NEW o \in Objs
    PROVE  LET line == obj[o].wait_line
           IN  /\ line \in Seq([tran : Trans, told : BOOLEAN]) /\ Len(line) \in Nat
               /\ \A i \in 1 .. Len(line) : line[i].tran \in Trans /\ line[i].told \in BOOLEAN
<1>1. obj[o].wait_line \in Seq([tran : Trans, told : BOOLEAN])
  BY DEF TypeOK, RoleCaches
<1>2. \A i \in 1 .. Len(obj[o].wait_line) : obj[o].wait_line[i] \in [tran : Trans, told : BOOLEAN]
  BY <1>1, ElementOfSeq
<1> QED
  BY <1>1, <1>2, LenProperties

\* What the handler works on.
LEMMA EntryUsed ==
    ASSUME IInv, handler.pc \in {"act", "remove", "stuck"}
    PROVE  handler.entry.obj \in Objs /\ handler.entry.role \in Roles
           /\ Uses(handler.entry.obj, handler.entry.role)
<1>1. /\ handler.tran \in Trans /\ handler.entry \in Entries
      /\ EntryOK(handler.entry)
  BY HandlerCases DEF IInv, TypeOK, EntriesOK
<1> QED
  BY <1>1 DEF EntryOK, Entries, Uses

\* No place is made for anybody.
LEMMA LinesKept ==
    ASSUME IInv, TypeOK', NEW t \in Trans, at[t].pc # "wait", \A u \in Trans \ {t} : at'[u] = at[u],
           handler' = handler,
           \A o \in Objs : \/ obj'[o].wait_line = obj[o].wait_line
                           \/ Unused(o) /\ obj'[o].wait_line = << >>
    PROVE  TicketsOK'
<1>1. ASSUME NEW o \in Objs
      PROVE  LET line == obj'[o].wait_line
             IN  /\ \A i \in 1 .. Len(line) : ~line[i].told =>
                        at'[line[i].tran].pc = "wait" /\ at'[line[i].tran].obj = o
                 /\ \A i, j \in 1 .. Len(line) :
                        ~line[i].told /\ ~line[j].told /\ line[i].tran = line[j].tran => i = j
  <2>1. CASE obj'[o].wait_line = obj[o].wait_line
    <3>1. \A i \in 1 .. Len(obj[o].wait_line) : obj[o].wait_line[i].tran \in Trans
      BY LineType DEF IInv
    <3> QED
      BY <2>1, <3>1 DEF IInv, TicketsOK
  <2>2. CASE obj'[o].wait_line = << >>
    BY <2>2
  <2> QED
    BY <2>1, <2>2
<1>2. ASSUME handler.pc = "act", handler.waiting
      PROVE  obj'[handler.entry.obj].wait_line # << >>
  <2>1. obj[handler.entry.obj].wait_line # << >>
    BY <1>2 DEF IInv, TicketsOK
  <2>2. handler.entry.obj \in Objs /\ ~Unused(handler.entry.obj)
    BY <1>2, EntryUsed, UnusedUses DEF IInv
  <2> QED
    BY <2>1, <2>2
<1> QED
  BY <1>1, <1>2 DEF TicketsOK

\* A role stays what it has to be when only its occupier changes, or was nobody.
LEMMA RoleKept ==
    ASSUME IInv, UNCHANGED <<state, handler, undone>>, stored \subseteq stored',
           NEW o \in Objs, NEW k \in Roles, Uses(o, k),
           obj'[o].role = obj[o].role, obj'[o].role_store = obj[o].role_store,
           obj'[o].be_delete = obj[o].be_delete, obj[o].tran_id \in {Nil, obj'[o].tran_id}
    PROVE  RoleOK(obj[o], k)'
<1>1. RoleOK(obj[o], k)
  BY DEF IInv, RolesOK
<1>2. obj[o].role # Absent => obj[o].role.father \subseteq Trans
  BY DEF IInv, TypeOK, RoleCaches, Content, Parts
<1>3. \A t \in Trans : Loose(t)' <=> Loose(t)
  BY SameHandler
<1>4. obj[o].role_store # Absent => obj[o].role_store.father \subseteq Trans
  BY DEF IInv, TypeOK, RoleCaches, Content, Parts
<1> QED
  BY <1>1, <1>2, <1>3, <1>4, Markers DEF RoleOK, AllLoose

----------------------------------------------------------------------------
(* The steps of a client.                                                  *)

\* The client does something that has nothing to do with a role it knows.
LEMMA Quits ==
    ASSUME IInv, NEW t \in Trans, NEW w \in Calls, w.pc \notin {"wait", "got", "told", "sent"},
           at[t].pc \notin {"sent", "wait"}, Goes(t, w), calls' \in [Trans -> Nat],
           locked' \in BOOLEAN, crashed' \in BOOLEAN,
           UNCHANGED <<disk, role_cache, obj, state, tran_cache, newVars, asks, handler, monitor,
                       undone>>
    PROVE  IInv'
<1>1. TypeOK /\ at' = [at EXCEPT ![t] = w] /\ at \in [Trans -> Calls]
  BY DEF IInv, TypeOK, Goes
<1>2. TypeOK'
  BY <1>1 DEF TypeOK, newVars
<1>3. at'[t] = w /\ \A u \in Trans \ {t} : at'[u] = at[u]
  BY <1>1
<1>4. ClientMoves(t)
  BY <1>3 DEF ClientMoves, newVars
<1>5. LivesOK' /\ AsksOK' /\ EntriesOK' /\ DiskOK' /\ GotOK'
  BY <1>2, <1>4, ClientMoved
<1>6. TicketsOK'
  BY <1>2, <1>3, LinesKept
<1>7. \A o \in Objs, k \in Roles : Uses(o, k)' => Uses(o, k)
  BY <1>3 DEF Uses, newVars
<1>8. OneRole'
  BY <1>7 DEF IInv, OneRole
<1>9. RolesOK'
  <2> SUFFICES ASSUME NEW o \in Objs, NEW k \in Roles, Uses(o, k)
               PROVE  RoleOK(obj[o], k)'
    BY <1>7 DEF RolesOK
  <2> QED
    BY RoleKept DEF newVars
<1>10. HoldersOK'
  BY SameHandler DEF IInv, HoldersOK, newVars
<1> QED
  BY <1>2, <1>5, <1>6, <1>8, <1>9, <1>10 DEF IInv

LEMMA EnterStep ==
    ASSUME IInv, NEW t \in Trans, NEW op \in Ops, NEW k \in Roles, Enter(t, op, k)
    PROVE  IInv'
<1>1. [pc |-> "get", op |-> op, role |-> k] \in Calls
  BY CallMade
<1>2. at[t].pc = "idle" /\ calls' \in [Trans -> Nat] /\ locked' \in BOOLEAN /\ crashed' \in BOOLEAN
  BY DEF IInv, TypeOK, Enter, Idle, storeVars
<1> QED
  BY <1>1, <1>2, Quits DEF Enter, storeVars

LEMMA AskStep ==
    ASSUME IInv, NEW t \in Trans, NEW ask \in {"commit", "rollback"}, Ask(t, ask)
    PROVE  IInv'
<1>1. [pc |-> "ask", ask |-> ask] \in Calls
  BY CallMade
<1>2. at[t].pc = "idle" /\ calls' \in [Trans -> Nat] /\ locked' \in BOOLEAN /\ crashed' \in BOOLEAN
  BY DEF IInv, TypeOK, Ask, Idle, storeVars
<1> QED
  BY <1>1, <1>2, Quits DEF Ask, storeVars

LEMMA GetBlockedStep ==
    ASSUME IInv, NEW t \in Trans, GetBlocked(t)
    PROVE  IInv'
<1> DEFINE w == [at[t] EXCEPT !.pc = "blocked"]
<1>1. at[t].pc = "get" /\ at[t] \in Calls /\ calls' \in [Trans -> Nat] /\ locked' \in BOOLEAN
      /\ crashed' \in BOOLEAN
  BY DEF IInv, TypeOK, GetBlocked, storeVars
<1>2. w = [pc |-> "blocked", op |-> at[t].op, role |-> at[t].role]
  BY <1>1, CallCases
<1>3. w \in Calls /\ w.pc = "blocked"
  BY <1>1, <1>2, CallCases, CallMade
<1>4. Goes(t, w)
  BY DEF GetBlocked, Goes
<1> HIDE DEF w
<1> QED
  BY <1>1, <1>3, <1>4, Quits DEF GetBlocked, storeVars

LEMMA GivesUpStep ==
    ASSUME IInv, NEW t \in Trans, GiveUp(t) \/ GetDeleted(t) \/ (GetLoad(t) /\ disk[at[t].role] = Absent)
    PROVE  IInv'
<1>1. at[t].pc \notin {"sent", "wait"} /\ Goes(t, Idle)
  BY DEF GiveUp, GetDeleted, GetLoad, AsksService, AtGetrole
<1>2. Idle \in Calls /\ Idle.pc = "idle"
  BY CallMade DEF Idle
<1>3. /\ calls' \in [Trans -> Nat] /\ locked' \in BOOLEAN /\ crashed' \in BOOLEAN
      /\ UNCHANGED <<disk, role_cache, obj, state, tran_cache, newVars, asks, handler, monitor,
                       undone>>
  BY DEF IInv, TypeOK, GiveUp, GetDeleted, GetLoad, storeVars
<1> QED
  BY <1>1, <1>2, <1>3, Quits

LEMMA GetAfterEndStep ==
    ASSUME IInv, NEW t \in Trans, GetAfterEnd(t)
    PROVE  IInv'
<1>1. at[t].pc \notin {"sent", "wait", "got", "told"} /\ at[t] \in Calls /\ at' = at
  BY DEF IInv, TypeOK, GetAfterEnd, AtGetrole, tranVars
<1>2. Goes(t, at[t])
  BY <1>1 DEF Goes, IInv, TypeOK
<1>3. /\ calls' \in [Trans -> Nat] /\ locked' \in BOOLEAN /\ crashed' \in BOOLEAN
      /\ UNCHANGED <<disk, role_cache, obj, state, tran_cache, newVars, asks, handler, monitor,
                       undone>>
  BY DEF IInv, TypeOK, GetAfterEnd, storeVars, tranVars
<1> QED
  BY <1>1, <1>2, <1>3, Quits

\* The client works on object o of role k, which nobody has known before or all know as
\* that of k: it becomes c.
Worked(t, o, k, c) ==
    /\ obj' = [obj EXCEPT ![o] = c]
    /\ Unused(o) \/ Uses(o, k)
    /\ at'[t].pc \in {"wait", "got", "told"} => at'[t].obj = o /\ at'[t].role = k
    /\ \A j \in Roles : role_cache'[j] = role_cache[j] \/ (j = k /\ role_cache'[j] = o)
    /\ \A j \in Roles : tran_cache'[t][j] = tran_cache[t][j] \/ (j = k /\ tran_cache'[t][j] = o)
    /\ \A j \in Roles : new_cache'[t][j] = new_cache[t][j] \/ (j = k /\ new_cache'[t][j] = o)
    /\ RoleOK(c, k) \/ (k \in stored' /\ c.role_store # Absent /\ c.role # Absent)
    /\ \/ k \in stored'
       \/ /\ Unused(o) \/ obj[o].tran_id \in {Nil, c.tran_id}
          /\ tran_cache'[t][k] # tran_cache[t][k] => c.tran_id = t

LEMMA Works ==
    ASSUME IInv, TypeOK', TicketsOK', NEW t \in Trans, NEW o \in Objs, NEW k \in Roles, NEW c,
           ClientMoves(t), Worked(t, o, k, c)
    PROVE  IInv'
<1> USE DEF Worked
<1>1. LivesOK' /\ AsksOK' /\ EntriesOK' /\ DiskOK' /\ GotOK'
  BY ClientMoved
<1>2. TypeOK /\ obj'[o] = c /\ \A p \in Objs \ {o} : obj'[p] = obj[p]
  BY DEF IInv, TypeOK
<1>3. \A p \in Objs, j \in Roles : Uses(p, j)' => Uses(p, j) \/ (p = o /\ j = k)
  BY DEF Uses, ClientMoves
<1>4. \A j \in Roles : Uses(o, j) => j = k
  BY <1>2, UnusedUses DEF IInv, OneRole
<1>5. OneRole'
  BY <1>3, <1>4 DEF IInv, OneRole
<1>6. UNCHANGED <<state, handler, undone>> /\ stored \subseteq stored'
  BY DEF ClientMoves
<1>7. RolesOK'
  <2> SUFFICES ASSUME NEW p \in Objs, NEW j \in Roles, Uses(p, j)'
               PROVE  RoleOK(obj[p], j)'
    BY DEF RolesOK
  <2>1. CASE p = o
    <3>1. j = k /\ obj'[p] = c
      BY <1>2, <1>3, <1>4, <2>1
    <3>2. \A u \in Trans : Loose(u)' <=> Loose(u)
      BY <1>6, SameHandler
    <3>3. c \in RoleCaches
      BY <1>2 DEF TypeOK
    <3>4. /\ c.role # Absent => c.role.father \subseteq Trans
          /\ c.role_store # Absent => c.role_store.father \subseteq Trans
      BY <3>3 DEF RoleCaches, Content, Parts
    <3> QED
      BY <3>1, <3>2, <3>4, <1>6 DEF RoleOK, AllLoose
  <2>2. CASE p # o
    BY <1>2, <1>3, <1>6, <2>2, RoleKept
  <2> QED
    BY <2>1, <2>2
<1>8. HoldersOK'
  <2> SUFFICES ASSUME NEW u \in Trans, NEW j \in Roles \ stored', tran_cache'[u][j] # Nil
               PROVE  obj'[tran_cache'[u][j]].tran_id = u \/ Passed(u, j)'
    BY DEF HoldersOK
  <2>1. CASE tran_cache'[u][j] = tran_cache[u][j]
    <3>1. /\ tran_cache[u][j] \in Objs /\ Uses(tran_cache[u][j], j)
          /\ obj[tran_cache[u][j]].tran_id = u \/ Passed(u, j)
      BY <1>2, <1>6, <2>1 DEF IInv, HoldersOK, TypeOK, Uses
    <3>2. CASE tran_cache[u][j] # o
      BY <1>2, <1>6, <2>1, <3>1, <3>2, SameHandler
    <3>3. CASE tran_cache[u][j] = o
      <4>1. j = k /\ ~Unused(o)
        BY <1>2, <1>4, <3>1, <3>3, UnusedUses
      <4>2. obj[o].tran_id \in {Nil, c.tran_id}
        BY <4>1
      <4> QED
        BY <1>2, <1>6, <2>1, <3>1, <3>3, <4>2, SameHandler, Markers
    <3> QED
      BY <3>2, <3>3
  <2>2. CASE tran_cache'[u][j] # tran_cache[u][j]
    <3>1. u = t
      BY <2>2 DEF ClientMoves
    <3>2. j = k /\ tran_cache'[u][j] = o
      BY <2>2, <3>1
    <3>3. c.tran_id = t
      BY <2>2, <3>1, <3>2
    <3> QED
      BY <1>2, <3>1, <3>2, <3>3
  <2> QED
    BY <2>1, <2>2
<1> QED
  BY <1>1, <1>5, <1>7, <1>8 DEF IInv

\* What is remembered.
LEMMA Remembered1 ==
    ASSUME TypeOK, NEW t \in Trans, NEW k \in Roles, NEW o \in Objs, Remembers(t, k, o)
    PROVE  /\ tran_cache' \in [Trans -> [Roles -> Objs \cup {Nil}]]
           /\ new_cache' \in [Trans -> [Roles -> Objs \cup {Nil}]]
           /\ stored \subseteq stored' /\ stored' \subseteq Roles
           /\ \A u \in Trans \ {t}, j \in Roles :
                 tran_cache'[u][j] = tran_cache[u][j] /\ new_cache'[u][j] = new_cache[u][j]
           /\ \A j \in Roles : tran_cache'[t][j] = tran_cache[t][j] \/ (j = k /\ tran_cache'[t][j] = o)
           /\ \A j \in Roles : new_cache'[t][j] = new_cache[t][j] \/ (j = k /\ new_cache'[t][j] = o)
           /\ \A j \in Roles : new_cache'[t][j] = new_cache[t][j] \/ j \in stored'
           /\ at[t].op.effect = "store" => k \in stored'
           /\ at[t].op.effect # "store" /\ at[t].op.lock = "WRITE" => tran_cache'[t][k] = o
           /\ tran_cache'[t][k] # tran_cache[t][k] => at[t].op.lock = "WRITE"
<1> DEFINE Put(cache) == [cache EXCEPT ![t][k] = o]
<1>1. ASSUME NEW cache \in [Trans -> [Roles -> Objs \cup {Nil}]]
      PROVE  /\ Put(cache) \in [Trans -> [Roles -> Objs \cup {Nil}]]
             /\ \A u \in Trans \ {t} : Put(cache)[u] = cache[u]
             /\ Put(cache)[t][k] = o /\ \A j \in Roles \ {k} : Put(cache)[t][j] = cache[t][j]
  <2>1. cache[t] \in [Roles -> Objs \cup {Nil}] /\ Put(cache)[t] = [cache[t] EXCEPT ![k] = o]
    OBVIOUS
  <2>2. Put(cache)[t] \in [Roles -> Objs \cup {Nil}]
    BY <2>1
  <2> QED
    BY <2>1, <2>2
<1>2. CASE at[t].op.effect = "store"
  <2>1. new_cache' = Put(new_cache) /\ tran_cache' = tran_cache /\ stored' = stored \cup {k}
    BY <1>2 DEF Remembers
  <2> HIDE DEF Put
  <2> QED
    BY <1>1, <1>2, <2>1 DEF TypeOK
<1>3. CASE at[t].op.effect # "store"
  <2>1. new_cache' = new_cache /\ stored' = stored
    BY <1>3 DEF Remembers, newVars
  <2>2. tran_cache' = IF at[t].op.lock = "WRITE" THEN Put(tran_cache) ELSE tran_cache
    BY <1>3 DEF Remembers
  <2> HIDE DEF Put
  <2> QED
    BY <1>1, <1>3, <2>1, <2>2 DEF TypeOK
<1> QED
  BY <1>2, <1>3

\* Objects and calls that are made.
LEMMA NewCache ==
    ASSUME TypeOK, NEW role \in Content, NEW dirty \in SUBSET Groups, NEW changed \in BOOLEAN,
           NEW t \in Trans \cup {Nil}
    PROVE  RoleCache(role, dirty, changed, t) \in RoleCaches
BY EmptySeq DEF RoleCache, RoleCaches, Shareable

LEMMA StoredContent == \A t \in Trans : Stored(t) \in Content
BY DEF Stored, Content

\* The client has got the role.
LEMMA GotIt ==
    ASSUME TypeOK, NEW t \in Trans, AtGetrole(t), NEW o \in Objs, Got(t, o)
    PROVE  /\ at' \in [Trans -> Calls]
           /\ at'[t] = [pc |-> "got", op |-> at[t].op, role |-> at[t].role, obj |-> o]
           /\ \A u \in Trans \ {t} : at'[u] = at[u]
           /\ at[t].pc \in {"get", "blocked"} /\ at[t].op \in Ops /\ at[t].role \in Roles
<1>1. at[t].pc \in {"get", "blocked"} /\ at[t] \in Calls
  BY DEF AtGetrole, TypeOK
<1>2. at[t].op \in Ops /\ at[t].role \in Roles
  BY <1>1, CallCases
<1>3. [pc |-> "got", op |-> at[t].op, role |-> at[t].role, obj |-> o] \in Calls
  BY <1>2, CallMade
<1> QED
  BY <1>1, <1>2, <1>3 DEF Got, Goes, TypeOK

LEMMA Idles ==
    ASSUME TypeOK, NEW t \in Trans, Goes(t, Idle)
    PROVE  /\ at' \in [Trans -> Calls]
           /\ at'[t] = Idle /\ Idle.pc = "idle"
           /\ \A u \in Trans \ {t} : at'[u] = at[u]
BY CallMade DEF Goes, TypeOK, Idle

LEMMA GetOwnStep ==
    ASSUME IInv, NEW t \in Trans, GetOwn(t)
    PROVE  IInv'
<1> DEFINE k == at[t].role
           o == Remembered(t)
<1>1. TypeOK /\ AtGetrole(t) /\ state[t] = "live" /\ ~HandledNow(t) /\ o # Nil /\ Got(t, o)
  BY DEF IInv, GetOwn, AtGetrole
<1>2. /\ UNCHANGED <<disk, role_cache, obj, locked, state, tran_cache, new_cache, stored, calls,
                     asks, handler, monitor, crashed, undone>>
  BY DEF GetOwn, storeVars, newVars
<1>3. at[t].op \in Ops /\ k \in Roles
  BY <1>1, CallCases DEF AtGetrole, TypeOK
<1>4. o \in Objs /\ Uses(o, k)
  BY <1>1, <1>3 DEF Remembered, TypeOK, Uses
<1> HIDE DEF o
<1>5. /\ at' \in [Trans -> Calls]
      /\ at'[t] = [pc |-> "got", op |-> at[t].op, role |-> k, obj |-> o]
      /\ \A u \in Trans \ {t} : at'[u] = at[u]
      /\ at[t].pc \in {"get", "blocked"}
  BY <1>1, <1>4, GotIt
<1>6. TypeOK'
  BY <1>1, <1>2, <1>5 DEF TypeOK
<1>7. TicketsOK'
  BY <1>2, <1>5, <1>6, LinesKept
<1>8. IF at[t].op.effect = "store" THEN k \in stored ELSE tran_cache[t][k] = o
  BY <1>1, <1>3 DEF o, Remembered, IInv, LivesOK
<1>9. ClientMoves(t)
  BY <1>1, <1>2, <1>5, <1>8 DEF ClientMoves
<1>10. RoleOK(obj[o], k)
  BY <1>3, <1>4 DEF IInv, RolesOK
<1>11. obj' = [obj EXCEPT ![o] = obj[o]]
  BY <1>1, <1>2 DEF TypeOK
<1> HIDE DEF k
<1>12. Worked(t, o, k, obj[o])
  <2>1. obj' = [obj EXCEPT ![o] = obj[o]]
    BY <1>11
  <2>2. Unused(o) \/ Uses(o, k)
    BY <1>4
  <2>3. at'[t].obj = o /\ at'[t].role = k
    BY <1>5
  <2>4. RoleOK(obj[o], k)
    BY <1>10
  <2> QED
    BY <1>2, <2>1, <2>2, <2>3, <2>4 DEF Worked
<1> QED
  BY <1>3, <1>4, <1>6, <1>7, <1>9, <1>12, Works

LEMMA SpareUnused == \A o : Spare(o) => Unused(o)
BY DEF Spare

LEMMA GetLoadStep ==
    ASSUME IInv, NEW t \in Trans, GetLoad(t)
    PROVE  IInv'
<1> DEFINE k == at[t].role
           c == RoleCache(disk[k], {}, FALSE, IF at[t].op.lock = "WRITE" THEN t ELSE Nil)
<1> SUFFICES ASSUME disk[k] # Absent
             PROVE  IInv'
  BY GivesUpStep
<1>1. PICK o \in Objs : /\ Spare(o) /\ obj' = [obj EXCEPT ![o] = c]
                        /\ role_cache' = [role_cache EXCEPT ![k] = o]
                        /\ Remembers(t, k, o) /\ Got(t, o)
  BY DEF GetLoad
<1>2. TypeOK /\ AtGetrole(t) /\ state[t] = "live" /\ ~HandledNow(t) /\ at[t].op.effect # "store"
  BY DEF IInv, GetLoad, AsksService, AtGetrole
<1>3. UNCHANGED <<disk, locked, state, calls, asks, handler, monitor, crashed, undone>>
  BY DEF GetLoad
<1>4. /\ at' \in [Trans -> Calls]
      /\ at'[t] = [pc |-> "got", op |-> at[t].op, role |-> k, obj |-> o]
      /\ \A u \in Trans \ {t} : at'[u] = at[u]
      /\ at[t].pc \in {"get", "blocked"} /\ at[t].op \in Ops /\ k \in Roles
  BY <1>1, <1>2, GotIt
<1>5. disk[k] \in Content
  BY <1>2, <1>4 DEF TypeOK
<1>6. c \in RoleCaches
  BY <1>2, <1>5, NewCache DEF Groups
<1>7. /\ c.role = disk[k] /\ c.role_store = disk[k] /\ c.be_delete = "NO" /\ c.wait_line = << >>
      /\ c.tran_id = IF at[t].op.lock = "WRITE" THEN t ELSE Nil
  BY DEF RoleCache
<1> HIDE DEF k, c
<1>8. /\ tran_cache' \in [Trans -> [Roles -> Objs \cup {Nil}]]
      /\ new_cache' \in [Trans -> [Roles -> Objs \cup {Nil}]]
      /\ stored \subseteq stored' /\ stored' \subseteq Roles
      /\ \A u \in Trans \ {t}, j \in Roles :
            tran_cache'[u][j] = tran_cache[u][j] /\ new_cache'[u][j] = new_cache[u][j]
      /\ \A j \in Roles : tran_cache'[t][j] = tran_cache[t][j] \/ (j = k /\ tran_cache'[t][j] = o)
      /\ \A j \in Roles : new_cache'[t][j] = new_cache[t][j] \/ (j = k /\ new_cache'[t][j] = o)
      /\ \A j \in Roles : new_cache'[t][j] = new_cache[t][j] \/ j \in stored'
      /\ at[t].op.lock = "WRITE" => tran_cache'[t][k] = o
      /\ tran_cache'[t][k] # tran_cache[t][k] => at[t].op.lock = "WRITE"
  BY <1>1, <1>2, <1>4, Remembered1
<1>9. TypeOK'
  BY <1>1, <1>2, <1>3, <1>4, <1>6, <1>8 DEF TypeOK
<1>10. TicketsOK'
  <2>1. \A p \in Objs : \/ obj'[p].wait_line = obj[p].wait_line
                        \/ Unused(p) /\ obj'[p].wait_line = << >>
    <3>1. Unused(o)
      BY <1>1, SpareUnused
    <3>2. \A p \in Objs \ {o} : obj'[p] = obj[p]
      BY <1>1, <1>2 DEF TypeOK
    <3>3. obj'[o].wait_line = << >>
      BY <1>1, <1>2, <1>7 DEF TypeOK
    <3> QED
      BY <3>1, <3>2, <3>3
  <2> QED
    BY <1>3, <1>4, <1>9, <2>1, LinesKept
<1>11. ClientMoves(t)
  BY <1>2, <1>3, <1>4, <1>8 DEF ClientMoves
<1>12. RoleOK(c, k)
  BY <1>4, <1>5, <1>7 DEF RoleOK, IInv, DiskOK, AllLoose, k
<1>13. \A j \in Roles : role_cache'[j] = role_cache[j] \/ (j = k /\ role_cache'[j] = o)
  BY <1>1, <1>2 DEF TypeOK
<1>14. Unused(o)
  BY <1>1, SpareUnused
<1>15. tran_cache'[t][k] # tran_cache[t][k] => c.tran_id = t
  BY <1>7, <1>8
<1>16. Worked(t, o, k, c)
  BY <1>1, <1>4, <1>8, <1>12, <1>13, <1>14, <1>15 DEF Worked
<1> QED
  BY <1>4, <1>9, <1>10, <1>11, <1>16, Works

LEMMA AddNewStep ==
    ASSUME IInv, NEW t \in Trans, AddNew(t)
    PROVE  IInv'
<1> DEFINE k == at[t].role
           c == RoleCache(Stored(t), Groups, TRUE, t)
<1>1. PICK o \in Objs : /\ Spare(o) /\ obj' = [obj EXCEPT ![o] = c]
                        /\ role_cache' = [role_cache EXCEPT ![k] = o]
                        /\ Remembers(t, k, o)
  BY DEF AddNew
<1>2. /\ TypeOK /\ at[t].pc \in {"get", "blocked"} /\ state[t] = "live" /\ ~HandledNow(t)
      /\ at[t].op.effect = "store" /\ Goes(t, Idle)
  BY DEF IInv, AddNew, AsksService, AtGetrole
<1>3. UNCHANGED <<disk, locked, state, calls, asks, handler, monitor, crashed, undone>>
  BY DEF AddNew
<1>4. at' \in [Trans -> Calls] /\ at'[t].pc = "idle" /\ \A u \in Trans \ {t} : at'[u] = at[u]
  BY <1>2, Idles
<1>5. k \in Roles
  BY <1>2, CallCases DEF TypeOK
<1>6. c \in RoleCaches
  BY <1>2, NewCache, StoredContent DEF Groups
<1>7. /\ c.role = Stored(t) /\ c.role_store = Stored(t) /\ c.wait_line = << >>
      /\ c.role # Absent
  BY StoredContent, Markers DEF RoleCache
<1> HIDE DEF k, c
<1>8. /\ tran_cache' \in [Trans -> [Roles -> Objs \cup {Nil}]]
      /\ new_cache' \in [Trans -> [Roles -> Objs \cup {Nil}]]
      /\ stored \subseteq stored' /\ stored' \subseteq Roles
      /\ \A u \in Trans \ {t}, j \in Roles :
            tran_cache'[u][j] = tran_cache[u][j] /\ new_cache'[u][j] = new_cache[u][j]
      /\ \A j \in Roles : tran_cache'[t][j] = tran_cache[t][j] \/ (j = k /\ tran_cache'[t][j] = o)
      /\ \A j \in Roles : new_cache'[t][j] = new_cache[t][j] \/ (j = k /\ new_cache'[t][j] = o)
      /\ \A j \in Roles : new_cache'[t][j] = new_cache[t][j] \/ j \in stored'
      /\ k \in stored'
  BY <1>1, <1>2, <1>5, Remembered1
<1>9. TypeOK'
  BY <1>1, <1>2, <1>3, <1>4, <1>6, <1>8 DEF TypeOK
<1>10. TicketsOK'
  <2>1. \A p \in Objs : \/ obj'[p].wait_line = obj[p].wait_line
                        \/ Unused(p) /\ obj'[p].wait_line = << >>
    <3>1. Unused(o)
      BY <1>1, SpareUnused
    <3>2. \A p \in Objs \ {o} : obj'[p] = obj[p]
      BY <1>1, <1>2 DEF TypeOK
    <3>3. obj'[o].wait_line = << >>
      BY <1>1, <1>2, <1>7 DEF TypeOK
    <3> QED
      BY <3>1, <3>2, <3>3
  <2> QED
    BY <1>2, <1>3, <1>4, <1>9, <2>1, LinesKept
<1>11. ClientMoves(t)
  BY <1>2, <1>3, <1>4, <1>8 DEF ClientMoves
<1>12. \A j \in Roles : role_cache'[j] = role_cache[j] \/ (j = k /\ role_cache'[j] = o)
  BY <1>1, <1>2 DEF TypeOK
<1>13. Unused(o)
  BY <1>1, SpareUnused
<1>14. Worked(t, o, k, c)
  BY <1>1, <1>4, <1>7, <1>8, <1>12, <1>13 DEF Worked
<1> QED
  BY <1>5, <1>9, <1>10, <1>11, <1>14, Works

LEMMA GetCachedStep ==
    ASSUME IInv, NEW t \in Trans, GetCached(t)
    PROVE  IInv'
<1> DEFINE k == at[t].role
           o == role_cache[k]
           c == IF at[t].op.lock = "WRITE" THEN [obj[o] EXCEPT !.tran_id = t] ELSE obj[o]
<1>1. /\ TypeOK /\ AtGetrole(t) /\ state[t] = "live" /\ ~HandledNow(t) /\ at[t].op.effect # "store"
      /\ o # Nil /\ Remembers(t, k, o) /\ Got(t, o)
      /\ at[t].op.lock = "READ" \/ obj[o].tran_id \in {Nil, t}
  BY DEF IInv, GetCached, AsksService, AtGetrole, MayHave
<1>2. UNCHANGED <<disk, role_cache, locked, state, calls, asks, handler, monitor, crashed, undone>>
  BY DEF GetCached
<1>3. at[t].op \in Ops /\ k \in Roles
  BY <1>1, CallCases DEF AtGetrole, TypeOK
<1>4. o \in Objs /\ Uses(o, k)
  BY <1>1, <1>3 DEF TypeOK, Uses
<1>5. obj' = [obj EXCEPT ![o] = c]
  BY <1>1, <1>4 DEF GetCached, TypeOK
<1>6. obj[o] \in RoleCaches
  BY <1>1, <1>4 DEF TypeOK
<1>7. /\ c \in RoleCaches /\ c.role = obj[o].role /\ c.role_store = obj[o].role_store
      /\ c.be_delete = obj[o].be_delete /\ c.wait_line = obj[o].wait_line
      /\ c.tran_id = IF at[t].op.lock = "WRITE" THEN t ELSE obj[o].tran_id
  BY <1>6 DEF RoleCaches
<1>8. /\ at' \in [Trans -> Calls]
      /\ at'[t] = [pc |-> "got", op |-> at[t].op, role |-> k, obj |-> o]
      /\ \A u \in Trans \ {t} : at'[u] = at[u]
      /\ at[t].pc \in {"get", "blocked"}
  BY <1>1, <1>4, GotIt
<1>9. Operations = Operations /\ at[t].op.lock \in {"READ", "WRITE"}
  BY <1>3, OpsOK DEF OpOK, Operations
<1>10. obj[o].tran_id \in {Nil, c.tran_id}
  BY <1>1, <1>7, <1>9
<1>11. RoleOK(obj[o], k)
  BY <1>3, <1>4 DEF IInv, RolesOK
<1> HIDE DEF k, o, c
<1>12. /\ tran_cache' \in [Trans -> [Roles -> Objs \cup {Nil}]]
       /\ new_cache' \in [Trans -> [Roles -> Objs \cup {Nil}]]
       /\ stored \subseteq stored' /\ stored' \subseteq Roles
       /\ \A u \in Trans \ {t}, j \in Roles :
             tran_cache'[u][j] = tran_cache[u][j] /\ new_cache'[u][j] = new_cache[u][j]
       /\ \A j \in Roles : tran_cache'[t][j] = tran_cache[t][j] \/ (j = k /\ tran_cache'[t][j] = o)
       /\ \A j \in Roles : new_cache'[t][j] = new_cache[t][j] \/ (j = k /\ new_cache'[t][j] = o)
       /\ \A j \in Roles : new_cache'[t][j] = new_cache[t][j] \/ j \in stored'
       /\ at[t].op.lock = "WRITE" => tran_cache'[t][k] = o
       /\ tran_cache'[t][k] # tran_cache[t][k] => at[t].op.lock = "WRITE"
  BY <1>1, <1>3, <1>4, Remembered1
<1>13. TypeOK'
  BY <1>1, <1>2, <1>5, <1>7, <1>8, <1>12 DEF TypeOK
<1>14. TicketsOK'
  <2>1. \A p \in Objs : obj'[p].wait_line = obj[p].wait_line
    BY <1>1, <1>5, <1>7 DEF TypeOK
  <2> QED
    BY <1>2, <1>8, <1>13, <2>1, LinesKept
<1>15. ClientMoves(t)
  BY <1>1, <1>2, <1>8, <1>12 DEF ClientMoves
<1>16. RoleOK(c, k)
  <2>1. obj[o].role # Absent => Nil \notin obj[o].role.father
    BY <1>6, Markers DEF RoleCaches, Content, Parts
  <2> QED
    BY <1>7, <1>10, <1>11, <2>1 DEF RoleOK, AllLoose
<1>17. Worked(t, o, k, c)
  BY <1>2, <1>4, <1>5, <1>7, <1>8, <1>10, <1>12, <1>16 DEF Worked
<1> QED
  BY <1>3, <1>4, <1>13, <1>14, <1>15, <1>17, Works

LEMMA ReplacedFacts ==
    ASSUME TypeOK, NEW t \in Trans, NEW o \in Objs
    PROVE  LET c == Replaced(o, t)
           IN  /\ c \in RoleCaches /\ c.role = Stored(t) /\ c.role # Absent
               /\ c.role_store = obj[o].role_store /\ c.wait_line = obj[o].wait_line
               /\ c.be_delete = obj[o].be_delete /\ c.tran_id = t
<1> DEFINE c == [obj[o] EXCEPT !.role = Stored(t), !.dirty = Groups, !.shared = {}, !.tran_id = t,
                               !.be_change = TRUE]
<1>1. obj[o] \in RoleCaches
  BY DEF TypeOK
<1>2. Stored(t) \in Content /\ Stored(t) # Absent
  BY StoredContent, Markers
<1>3. /\ c.role = Stored(t) /\ c.role_store = obj[o].role_store /\ c.wait_line = obj[o].wait_line
      /\ c.be_delete = obj[o].be_delete /\ c.tran_id = t
  BY <1>1 DEF RoleCaches
<1>4. c \in RoleCaches
  BY <1>1, <1>2 DEF RoleCaches
<1>5. Replaced(o, t) = c
  BY DEF Replaced
<1> HIDE DEF c
<1> QED
  BY <1>2, <1>3, <1>4, <1>5

LEMMA AddCachedStep ==
    ASSUME IInv, NEW t \in Trans, AddCached(t)
    PROVE  IInv'
<1> DEFINE k == at[t].role
           o == role_cache[k]
           c == Replaced(o, t)
<1>1. /\ TypeOK /\ AtGetrole(t) /\ state[t] = "live" /\ ~HandledNow(t) /\ at[t].op.effect = "store"
      /\ o # Nil /\ Remembers(t, k, o) /\ Goes(t, Idle) /\ obj' = [obj EXCEPT ![o] = c]
      /\ at[t].pc \in {"get", "blocked"}
  BY DEF IInv, AddCached, AsksService, AtGetrole
<1>2. UNCHANGED <<disk, role_cache, locked, state, calls, asks, handler, monitor, crashed, undone>>
  BY DEF AddCached
<1>3. k \in Roles
  BY <1>1, CallCases DEF TypeOK
<1>4. o \in Objs /\ Uses(o, k)
  BY <1>1, <1>3 DEF TypeOK, Uses
<1>5. /\ c \in RoleCaches /\ c.role # Absent /\ c.role_store = obj[o].role_store
      /\ c.wait_line = obj[o].wait_line
  BY <1>1, <1>4, ReplacedFacts
<1>6. at' \in [Trans -> Calls] /\ at'[t].pc = "idle" /\ \A u \in Trans \ {t} : at'[u] = at[u]
  BY <1>1, Idles
<1>7. c.role_store # Absent
  BY <1>3, <1>4, <1>5 DEF IInv, RolesOK, RoleOK
<1> HIDE DEF k, o, c
<1>8. /\ tran_cache' \in [Trans -> [Roles -> Objs \cup {Nil}]]
      /\ new_cache' \in [Trans -> [Roles -> Objs \cup {Nil}]]
      /\ stored \subseteq stored' /\ stored' \subseteq Roles
      /\ \A u \in Trans \ {t}, j \in Roles :
            tran_cache'[u][j] = tran_cache[u][j] /\ new_cache'[u][j] = new_cache[u][j]
      /\ \A j \in Roles : tran_cache'[t][j] = tran_cache[t][j] \/ (j = k /\ tran_cache'[t][j] = o)
      /\ \A j \in Roles : new_cache'[t][j] = new_cache[t][j] \/ (j = k /\ new_cache'[t][j] = o)
      /\ \A j \in Roles : new_cache'[t][j] = new_cache[t][j] \/ j \in stored'
      /\ k \in stored'
  BY <1>1, <1>3, <1>4, Remembered1
<1>9. TypeOK'
  BY <1>1, <1>2, <1>5, <1>6, <1>8 DEF TypeOK
<1>10. TicketsOK'
  <2>1. \A p \in Objs : obj'[p].wait_line = obj[p].wait_line
    BY <1>1, <1>5 DEF TypeOK
  <2> QED
    BY <1>1, <1>2, <1>6, <1>9, <2>1, LinesKept
<1>11. ClientMoves(t)
  BY <1>1, <1>2, <1>6, <1>8 DEF ClientMoves
<1>12. Worked(t, o, k, c)
  BY <1>1, <1>2, <1>4, <1>5, <1>6, <1>7, <1>8 DEF Worked
<1> QED
  BY <1>3, <1>4, <1>9, <1>10, <1>11, <1>12, Works

LEMMA AddAfterWaitStep ==
    ASSUME IInv, NEW t \in Trans, AddAfterWait(t)
    PROVE  IInv'
<1> DEFINE k == at[t].role
           o == at[t].obj
           r == Replaced(o, t)
           c == IF r.be_delete = "NO" THEN r
                ELSE [r EXCEPT !.role_store = Stored(t), !.store_dirty = Groups,
                               !.shared = Shareable, !.be_delete = "NO"]
<1>1. /\ TypeOK /\ at[t].pc = "told" /\ Remembers(t, k, o) /\ Goes(t, Idle)
      /\ obj' = [obj EXCEPT ![o] = c]
  BY DEF IInv, AddAfterWait
<1>2. UNCHANGED <<disk, role_cache, locked, state, calls, asks, handler, monitor, crashed, undone>>
  BY DEF AddAfterWait
<1>3. k \in Roles /\ o \in Objs
  BY <1>1, CallCases DEF TypeOK
<1>4. state[t] = "live" /\ ~HandledNow(t) /\ Uses(o, k) /\ at[t].op.effect = "store"
  BY <1>1 DEF IInv, LivesOK, Uses
<1>5. /\ r \in RoleCaches /\ r.role # Absent /\ r.role_store = obj[o].role_store
      /\ r.wait_line = obj[o].wait_line
  BY <1>1, <1>3, ReplacedFacts
<1>6. r.role_store # Absent
  BY <1>3, <1>4, <1>5 DEF IInv, RolesOK, RoleOK
<1> HIDE DEF r
<1>7. /\ c \in RoleCaches /\ c.role # Absent /\ c.role_store # Absent
      /\ c.wait_line = obj[o].wait_line
  BY <1>5, <1>6, StoredContent, Markers DEF RoleCaches, Groups
<1>8. at' \in [Trans -> Calls] /\ at'[t].pc = "idle" /\ \A u \in Trans \ {t} : at'[u] = at[u]
  BY <1>1, Idles
<1> HIDE DEF k, o, c
<1>9. /\ tran_cache' \in [Trans -> [Roles -> Objs \cup {Nil}]]
      /\ new_cache' \in [Trans -> [Roles -> Objs \cup {Nil}]]
      /\ stored \subseteq stored' /\ stored' \subseteq Roles
      /\ \A u \in Trans \ {t}, j \in Roles :
            tran_cache'[u][j] = tran_cache[u][j] /\ new_cache'[u][j] = new_cache[u][j]
      /\ \A j \in Roles : tran_cache'[t][j] = tran_cache[t][j] \/ (j = k /\ tran_cache'[t][j] = o)
      /\ \A j \in Roles : new_cache'[t][j] = new_cache[t][j] \/ (j = k /\ new_cache'[t][j] = o)
      /\ \A j \in Roles : new_cache'[t][j] = new_cache[t][j] \/ j \in stored'
      /\ k \in stored'
  BY <1>1, <1>3, <1>4, Remembered1
<1>10. TypeOK'
  BY <1>1, <1>2, <1>7, <1>8, <1>9 DEF TypeOK
<1>11. TicketsOK'
  <2>1. \A p \in Objs : obj'[p].wait_line = obj[p].wait_line
    BY <1>1, <1>7 DEF TypeOK
  <2> QED
    BY <1>1, <1>2, <1>8, <1>10, <2>1, LinesKept
<1>12. ClientMoves(t)
  BY <1>1, <1>2, <1>4, <1>8, <1>9 DEF ClientMoves
<1>13. Worked(t, o, k, c)
  BY <1>1, <1>2, <1>4, <1>7, <1>8, <1>9 DEF Worked
<1> QED
  BY <1>3, <1>10, <1>11, <1>12, <1>13, Works

LEMMA WaitStep ==
    ASSUME IInv, NEW t \in Trans, Wait(t)
    PROVE  IInv'
<1> DEFINE k == at[t].role
           o == role_cache[k]
           w == [pc |-> "wait", op |-> at[t].op, role |-> k, obj |-> o]
           ticket == [tran |-> t, told |-> FALSE]
           line == Append(obj[o].wait_line, ticket)
           c == [obj[o] EXCEPT !.wait_line = line]
<1>1. /\ TypeOK /\ at[t].pc \in {"get", "blocked"} /\ state[t] = "live" /\ ~HandledNow(t)
      /\ o # Nil /\ Goes(t, w) /\ obj' = [obj EXCEPT ![o].wait_line = Append(@, ticket)]
  BY DEF IInv, Wait, AsksService, AtGetrole
<1>2. UNCHANGED <<disk, role_cache, locked, state, tran_cache, new_cache, stored, calls, asks,
                  handler, monitor, crashed, undone>>
  BY DEF Wait, newVars
<1>3. k \in Roles /\ at[t].op \in Ops
  BY <1>1, CallCases DEF TypeOK
<1>4. o \in Objs /\ Uses(o, k)
  BY <1>1, <1>3 DEF TypeOK, Uses
<1>5. /\ w \in Calls /\ w.pc = "wait" /\ w.obj = o /\ w.role = k
  BY <1>3, <1>4, CallMade
<1>6. at' \in [Trans -> Calls] /\ at'[t] = w /\ \A u \in Trans \ {t} : at'[u] = at[u]
  <2> HIDE DEF w
  <2> QED
    BY <1>1, <1>5 DEF TypeOK, Goes
<1>7. obj[o] \in RoleCaches /\ obj[o].wait_line \in Seq([tran : Trans, told : BOOLEAN])
  BY <1>1, <1>4 DEF TypeOK, RoleCaches
<1>8. line \in Seq([tran : Trans, told : BOOLEAN])
  BY <1>7, AppendProperties
<1>9. obj' = [obj EXCEPT ![o] = c]
  BY <1>1, <1>4 DEF TypeOK
<1> HIDE DEF line
<1>10. /\ c \in RoleCaches /\ c.role = obj[o].role /\ c.role_store = obj[o].role_store
       /\ c.be_delete = obj[o].be_delete /\ c.tran_id = obj[o].tran_id /\ c.wait_line = line
  BY <1>7, <1>8 DEF RoleCaches
<1>11. RoleOK(c, k)
  BY <1>3, <1>4, <1>10 DEF IInv, RolesOK, RoleOK
<1> HIDE DEF c, w, o, k
<1>12. TypeOK'
  <2>1. obj' \in [Objs -> RoleCaches]
    BY <1>1, <1>9, <1>10 DEF TypeOK
  <2> QED
    BY <1>1, <1>2, <1>6, <2>1 DEF TypeOK
<1>13. ClientMoves(t)
  BY <1>1, <1>2, <1>5, <1>6 DEF ClientMoves
<1>14. TicketsOK'
  <2>0. handler.pc = "act" /\ handler.waiting => obj'[handler.entry.obj].wait_line # << >>
    <3> SUFFICES ASSUME handler.pc = "act", handler.waiting
                 PROVE  obj'[handler.entry.obj].wait_line # << >>
      OBVIOUS
    <3>1. obj[handler.entry.obj].wait_line # << >> /\ handler.entry.obj \in Objs
      BY EntryUsed DEF IInv, TicketsOK
    <3>2. line # << >>
      BY <1>7, AppendProperties DEF line
    <3> QED
      BY <1>1, <1>9, <1>10, <3>1, <3>2 DEF TypeOK
  <2> SUFFICES ASSUME NEW p \in Objs
               PROVE  LET l == obj'[p].wait_line
                      IN  /\ \A i \in 1 .. Len(l) : ~l[i].told =>
                                 at'[l[i].tran].pc = "wait" /\ at'[l[i].tran].obj = p
                          /\ \A i, j \in 1 .. Len(l) :
                                 ~l[i].told /\ ~l[j].told /\ l[i].tran = l[j].tran => i = j
    BY <1>2, <2>0 DEF TicketsOK
  <2> DEFINE old == obj[p].wait_line
  <2>1. /\ Len(old) \in Nat
        /\ \A i \in 1 .. Len(old) : old[i].tran \in Trans
        /\ \A i \in 1 .. Len(old) : ~old[i].told =>
              old[i].tran # t /\ at[old[i].tran].pc = "wait" /\ at[old[i].tran].obj = p
        /\ \A i, j \in 1 .. Len(old) :
              ~old[i].told /\ ~old[j].told /\ old[i].tran = old[j].tran => i = j
    BY <1>1, LineType DEF IInv, TicketsOK
  <2>2. \A i \in 1 .. Len(old) : ~old[i].told =>
            at'[old[i].tran].pc = "wait" /\ at'[old[i].tran].obj = p
    BY <1>6, <2>1
  <2>3. CASE p # o
    <3>1. obj'[p].wait_line = old
      BY <1>1, <1>9, <2>3 DEF TypeOK
    <3> QED
      BY <2>1, <2>2, <3>1
  <2>4. CASE p = o
    <3>1. obj'[p].wait_line = line
      BY <1>1, <1>4, <1>9, <1>10, <2>4 DEF TypeOK
    <3>2. /\ Len(line) = Len(old) + 1 /\ line[Len(old) + 1] = ticket
          /\ \A i \in 1 .. Len(old) : line[i] = old[i]
      BY <1>7, <2>4, AppendProperties DEF line
    <3>3. ASSUME NEW i \in 1 .. Len(line), i \notin 1 .. Len(old)
          PROVE  i = Len(old) + 1
      BY <2>1, <3>2, <3>3
    <3>4. \A i \in 1 .. Len(line) : ~line[i].told =>
              at'[line[i].tran].pc = "wait" /\ at'[line[i].tran].obj = p
      BY <1>5, <1>6, <2>2, <2>4, <3>2, <3>3
    <3>5. \A i, j \in 1 .. Len(line) :
              ~line[i].told /\ ~line[j].told /\ line[i].tran = line[j].tran => i = j
      <4>1. ticket.tran = t
        OBVIOUS
      <4> HIDE DEF ticket
      <4> SUFFICES ASSUME NEW i \in 1 .. Len(line), NEW j \in 1 .. Len(line),
                          ~line[i].told, ~line[j].told, line[i].tran = line[j].tran
                   PROVE  i = j
        OBVIOUS
      <4>2. CASE i \in 1 .. Len(old) /\ j \in 1 .. Len(old)
        BY <2>1, <3>2, <4>2
      <4>3. CASE i \in 1 .. Len(old) /\ j \notin 1 .. Len(old)
        BY <2>1, <3>2, <3>3, <4>1, <4>3
      <4>4. CASE i \notin 1 .. Len(old) /\ j \in 1 .. Len(old)
        BY <2>1, <3>2, <3>3, <4>1, <4>4
      <4>5. CASE i \notin 1 .. Len(old) /\ j \notin 1 .. Len(old)
        BY <3>3, <4>5
      <4> QED
        BY <4>2, <4>3, <4>4, <4>5
    <3> QED
      BY <3>1, <3>4, <3>5
  <2> QED
    BY <2>3, <2>4
<1>15. Worked(t, o, k, c)
  BY <1>2, <1>4, <1>5, <1>6, <1>9, <1>10, <1>11 DEF Worked
<1> QED
  BY <1>3, <1>4, <1>12, <1>13, <1>14, <1>15, Works

\* What an operation makes of a role, when it does not replace it whole.
LEMMA Effects ==
    ASSUME NEW c \in RoleCaches, NEW op \in Ops, NEW t \in Trans, op.effect # "store",
           c.role # Absent \/ op.effect = "delete" \/ op.part = "whole", c.role_store # Absent
    PROVE  LET d == Changed(c, op, t)
           IN  /\ d \in RoleCaches /\ d.role_store # Absent /\ d.tran_id = c.tran_id
               /\ d.wait_line = c.wait_line /\ d.role_store.father = c.role_store.father
               /\ d.role = Absent <=> c.role = Absent
               /\ d.be_delete = IF op.effect = "delete" THEN "YES" ELSE c.be_delete
               /\ c.role # Absent =>
                     d.role.father = IF op.effect = "replace" /\ op.part = "father"
                                     THEN {t} ELSE c.role.father
<1> DEFINE p == op.part
           touched == Touched(c, op)
<1>1. OpOK(op) /\ op \in Operations
  BY OpsOK DEF OpOK
<1>2. Group(p) \in Groups
  BY DEF Group, Groups
<1>3. /\ touched \in RoleCaches /\ touched.role = c.role /\ touched.role_store = c.role_store
      /\ touched.tran_id = c.tran_id /\ touched.wait_line = c.wait_line
      /\ touched.be_delete = c.be_delete /\ touched.shared = c.shared
  BY <1>2 DEF RoleCaches, Touched
<1>4. c.role_store \in Content /\ c.role \in Content \cup {Absent}
  BY DEF RoleCaches
<1> HIDE DEF touched
<1>5. ASSUME NEW r \in Content, NEW part \in Parts, NEW x \in SUBSET Trans
      PROVE  /\ [r EXCEPT ![part] = x] \in Content /\ [r EXCEPT ![part] = x] # Absent
             /\ [r EXCEPT ![part] = x].father = IF part = "father" THEN x ELSE r.father
             /\ r[part] \in SUBSET Trans
  BY Markers DEF Content, Parts
<1>6. CASE op.effect = "replace"
  <2> DEFINE n == [c.role EXCEPT ![p] = {t}]
             d == [touched EXCEPT !.role[p] = {t}, !.shared = @ \ {p}]
  <2>1. p \in Parts /\ c.role \in Content
    BY <1>1, <1>4, <1>6 DEF OpOK, Parts
  <2>2. n \in Content /\ n # Absent /\ n.father = IF p = "father" THEN {t} ELSE c.role.father
    <3>1. {t} \in SUBSET Trans
      OBVIOUS
    <3> QED
      BY <2>1, <3>1, Markers DEF Content, Parts
  <2>3. d = [touched EXCEPT !.role = n, !.shared = @ \ {p}]
    BY <1>3 DEF RoleCaches
  <2> HIDE DEF n
  <2>4. /\ d \in RoleCaches /\ d.role_store = c.role_store /\ d.tran_id = c.tran_id
        /\ d.wait_line = c.wait_line /\ d.role = n /\ d.be_delete = c.be_delete
    BY <1>3, <2>2, <2>3 DEF RoleCaches
  <2>5. Changed(c, op, t) = d
    BY <1>6 DEF Changed, touched
  <2> HIDE DEF d
  <2> QED
    BY <1>6, <2>1, <2>2, <2>4, <2>5, Markers
<1>7. CASE op.effect = "extend"
  <2> DEFINE n == [c.role EXCEPT ![p] = c.role[p] \cup {t}]
             d == [touched EXCEPT !.role[p] = @ \cup {t}, !.shared = @ \ {p}]
  <2>1. p \in Parts /\ c.role \in Content /\ p # "father"
    BY <1>1, <1>4, <1>7 DEF OpOK, Parts
  <2>2. n \in Content /\ n # Absent /\ n.father = c.role.father
    <3>1. c.role[p] \cup {t} \in SUBSET Trans
      BY <1>5, <2>1
    <3> QED
      BY <2>1, <3>1, Markers DEF Content, Parts
  <2>3. d = [touched EXCEPT !.role = n, !.shared = @ \ {p}]
    BY <1>3 DEF RoleCaches
  <2> HIDE DEF n
  <2>4. /\ d \in RoleCaches /\ d.role_store = c.role_store /\ d.tran_id = c.tran_id
        /\ d.wait_line = c.wait_line /\ d.role = n /\ d.be_delete = c.be_delete
    BY <1>3, <2>2, <2>3 DEF RoleCaches
  <2>5. Changed(c, op, t) = d
    BY <1>7 DEF Changed, touched
  <2> HIDE DEF d
  <2> QED
    BY <1>7, <2>1, <2>2, <2>4, <2>5, Markers
<1>8. CASE op.effect = "modify"
  <2> DEFINE n == [c.role EXCEPT ![p] = c.role[p] \cup {t}]
             m == [c.role_store EXCEPT ![p] = c.role_store[p] \cup {t}]
             d == IF p \in c.shared
                  THEN [touched EXCEPT !.role[p] = @ \cup {t}, !.role_store[p] = @ \cup {t}]
                  ELSE [touched EXCEPT !.role[p] = @ \cup {t}]
  <2>1. p \in Parts /\ c.role \in Content /\ p # "father"
    BY <1>1, <1>4, <1>8 DEF OpOK, Parts
  <2>2. /\ n \in Content /\ n # Absent /\ n.father = c.role.father
        /\ m \in Content /\ m # Absent /\ m.father = c.role_store.father
    <3>1. c.role[p] \cup {t} \in SUBSET Trans /\ c.role_store[p] \cup {t} \in SUBSET Trans
      BY <1>4, <1>5, <2>1
    <3> QED
      BY <1>4, <2>1, <3>1, Markers DEF Content, Parts
  <2>3. d = IF p \in c.shared THEN [touched EXCEPT !.role = n, !.role_store = m]
                              ELSE [touched EXCEPT !.role = n]
    BY <1>3 DEF RoleCaches
  <2> HIDE DEF n, m
  <2>4. /\ d \in RoleCaches /\ d.role_store \in {c.role_store, m} /\ d.tran_id = c.tran_id
        /\ d.wait_line = c.wait_line /\ d.role = n /\ d.be_delete = c.be_delete
    BY <1>3, <2>2, <2>3 DEF RoleCaches
  <2>5. Changed(c, op, t) = d
    BY <1>8 DEF Changed, touched
  <2> HIDE DEF d
  <2> QED
    BY <1>8, <2>1, <2>2, <2>4, <2>5, Markers
<1>9. CASE op.effect = "delete"
  <2> DEFINE d == [c EXCEPT !.be_delete = "YES"]
  <2>1. Changed(c, op, t) = d
    BY <1>9 DEF Changed
  <2>2. /\ d \in RoleCaches /\ d.role_store = c.role_store /\ d.tran_id = c.tran_id
        /\ d.wait_line = c.wait_line /\ d.role = c.role /\ d.be_delete = "YES"
    BY DEF RoleCaches
  <2> HIDE DEF d
  <2> QED
    BY <1>9, <2>1, <2>2
<1>10. CASE op.effect = "none"
  <2>1. Changed(c, op, t) = IF op.marks THEN touched ELSE c
    BY <1>10 DEF Changed, touched
  <2> QED
    BY <1>3, <1>10, <2>1
<1> QED
  BY <1>1, <1>6, <1>7, <1>8, <1>9, <1>10 DEF Operations

\* What the client does with the role it has got leaves the role what it has to be.
LEMMA UsedRole ==
    ASSUME IInv, NEW t \in Trans, at[t].pc = "got", NEW d \in RoleCaches,
           obj[at[t].obj].role # Absent \/ at[t].op.effect \in {"delete", "store"}
                                        \/ at[t].op.part = "whole",
           \/ d = Changed(obj[at[t].obj], at[t].op, t)
           \/ \E dirty \in SUBSET Groups : d = [obj[at[t].obj] EXCEPT !.dirty = dirty]
    PROVE  /\ d.wait_line = obj[at[t].obj].wait_line
           /\ \/ at[t].role \in stored /\ d.role_store # Absent /\ d.role # Absent
              \/ RoleOK(d, at[t].role) /\ d.tran_id = obj[at[t].obj].tran_id
<1> DEFINE o == at[t].obj
           k == at[t].role
           op == at[t].op
           c == obj[o]
<1>1. o \in Objs /\ k \in Roles /\ op \in Ops
  BY CallCases DEF IInv, TypeOK
<1>2. Uses(o, k) /\ RoleOK(c, k)
  BY <1>1 DEF IInv, RolesOK, Uses
<1>3. c \in RoleCaches
  BY <1>1 DEF IInv, TypeOK
<1>4. CASE d # Changed(c, op, t)
  <2>1. PICK dirty \in SUBSET Groups : d = [c EXCEPT !.dirty = dirty]
    BY <1>4
  <2> QED
    BY <1>2, <1>3, <2>1 DEF RoleOK, RoleCaches
<1>5. CASE d = Changed(c, op, t) /\ op.effect = "store"
  <2>1. k \in stored
    BY <1>5 DEF IInv, GotOK
  <2>2. d = [Replaced(o, t) EXCEPT !.tran_id = c.tran_id, !.be_delete = "NO"]
    BY <1>5 DEF Changed
  <2>3. /\ d.role = Replaced(o, t).role /\ d.role_store = Replaced(o, t).role_store
        /\ d.wait_line = Replaced(o, t).wait_line
    BY <1>1, <2>2, ReplacedFacts DEF IInv, RoleCaches
  <2> QED
    BY <1>1, <1>2, <2>1, <2>3, ReplacedFacts DEF IInv, RoleOK
<1>6. CASE d = Changed(c, op, t) /\ op.effect # "store"
  <2>1. c.role_store # Absent
    BY <1>2 DEF RoleOK
  <2>2. /\ d.role_store # Absent /\ d.tran_id = c.tran_id
        /\ d.wait_line = c.wait_line /\ d.role_store.father = c.role_store.father
        /\ d.role = Absent <=> c.role = Absent
        /\ d.be_delete = IF op.effect = "delete" THEN "YES" ELSE c.be_delete
        /\ c.role # Absent =>
              d.role.father = IF op.effect = "replace" /\ op.part = "father"
                              THEN {t} ELSE c.role.father
    <3>1. c.role # Absent \/ op.effect = "delete" \/ op.part = "whole"
      BY <1>6
    <3> HIDE DEF o, k, op, c
    <3> QED
      BY <1>1, <1>3, <1>6, <2>1, <3>1, Effects
  <2>3. ASSUME op.effect = "replace", op.part = "father", k \notin stored
        PROVE  c.tran_id = t \/ Loose(t)
    <3>1. op.lock = "WRITE"
      BY <1>1, <2>3, OpsOK DEF OpOK
    <3>2. tran_cache[t][k] = o \/ Loose(t)
      BY <2>3, <3>1 DEF IInv, GotOK, Loose
    <3>3. ASSUME Passed(t, k)
          PROVE  Loose(t)
      <4>1. HandledNow(t) /\ handler # Nobody /\ handler.tran = t
        BY <3>3 DEF Passed, HandledNow
      <4>2. handler.by = "monitor"
        BY <4>1, HandlerCases DEF IInv, AsksOK, Asker, TypeOK
      <4> QED
        BY <4>1, <4>2 DEF Loose
    <3>4. o # Nil
      BY <1>1, Markers
    <3> QED
      BY <1>1, <2>3, <3>2, <3>3, <3>4 DEF IInv, HoldersOK
  <2>4. RoleOK(d, k)
    <3> HIDE DEF o, k, op, c
    <3>1. d.role = Absent => d.be_delete # "NO"
      BY <1>2, <2>2 DEF RoleOK
    <3>2. ASSUME k \notin stored
          PROVE  /\ d.be_delete = "COMMIT" => d.role = Absent
                 /\ AllLoose(d.role_store.father)
                 /\ d.role # Absent => AllLoose(d.role.father \ {d.tran_id})
      <4>1. d.be_delete = "COMMIT" => d.role = Absent
        BY <1>2, <2>2, <3>2 DEF RoleOK
      <4>2. AllLoose(d.role_store.father)
        BY <1>2, <2>2, <3>2 DEF RoleOK
      <4>3. ASSUME d.role # Absent
            PROVE  AllLoose(d.role.father \ {d.tran_id})
        BY <1>2, <2>2, <2>3, <3>2, <4>3 DEF RoleOK, AllLoose
      <4> QED
        BY <4>1, <4>2, <4>3
    <3> QED
      BY <2>2, <3>1, <3>2 DEF RoleOK
  <2> QED
    BY <2>2, <2>4
<1> QED
  BY <1>4, <1>5, <1>6

LEMMA UseStep ==
    ASSUME IInv, NEW t \in Trans, Use(t)
    PROVE  IInv'
<1> DEFINE o == at[t].obj
           k == at[t].role
           op == at[t].op
<1>1. /\ TypeOK /\ at[t].pc = "got" /\ Goes(t, Idle)
      /\ UNCHANGED <<disk, role_cache, locked, state, tran_cache, newVars, calls, asks, handler,
                     monitor, undone>>
  BY DEF IInv, Use
<1>2. o \in Objs /\ k \in Roles /\ op \in Ops /\ op \in Operations
  BY <1>1, CallCases, OpsOK DEF TypeOK, OpOK
<1>3. obj[o] \in RoleCaches
  BY <1>1, <1>2 DEF TypeOK
<1>4. CASE crashed' = TRUE /\ obj' = obj
  <2>1. calls' \in [Trans -> Nat] /\ locked' \in BOOLEAN /\ crashed' \in BOOLEAN
    BY <1>1, <1>4 DEF TypeOK
  <2>2. Idle \in Calls /\ Idle.pc = "idle"
    BY CallMade DEF Idle
  <2> QED
    BY <1>1, <1>4, <2>1, <2>2, Quits
<1>5. CASE ~(crashed' = TRUE /\ obj' = obj)
  <2> DEFINE touched == Touched(obj[o], op)
  <2>1. /\ crashed' = crashed
        /\ obj[o].role # Absent \/ op.effect \in {"delete", "store"} \/ op.part = "whole"
    BY <1>5 DEF Use
  <2>2. \/ obj' = [obj EXCEPT ![o] = Marked(Changed(obj[o], op, t), op)]
        \/ obj' = [obj EXCEPT ![o] = Marked(touched, op)]
    BY <1>5 DEF Use
  <2>3. Changed(obj[o], op, t) \in RoleCaches
    <3>1. Uses(o, k) /\ RoleOK(obj[o], k)
      BY <1>1, <1>2 DEF IInv, RolesOK, Uses
    <3>2. CASE op.effect # "store"
      BY <1>2, <1>3, <2>1, <3>1, <3>2, Effects DEF RoleOK
    <3>3. CASE op.effect = "store"
      <4>1. Replaced(o, t) \in RoleCaches
        BY <1>1, <1>2, ReplacedFacts
      <4>2. Changed(obj[o], op, t) = [Replaced(o, t) EXCEPT !.tran_id = obj[o].tran_id, !.be_delete = "NO"]
        BY <3>3 DEF Changed
      <4> QED
        BY <1>3, <4>1, <4>2 DEF RoleCaches
    <3> QED
      BY <3>2, <3>3
  <2>4. touched \in RoleCaches /\ \E dirty \in SUBSET Groups : touched = [obj[o] EXCEPT !.dirty = dirty]
    <3>1. obj[o].dirty \cup {Group(op.part)} \in SUBSET Groups
      BY <1>3 DEF RoleCaches, Group, Groups
    <3> QED
      BY <1>3, <3>1 DEF RoleCaches, Touched
  <2>5. PICK d \in RoleCaches :
            /\ obj' = [obj EXCEPT ![o] = Marked(d, op)]
            /\ \/ d = Changed(obj[o], op, t)
               \/ \E dirty \in SUBSET Groups : d = [obj[o] EXCEPT !.dirty = dirty]
    <3> HIDE DEF touched
    <3> QED
      BY <2>2, <2>3, <2>4
  <2>6. /\ d.wait_line = obj[o].wait_line
        /\ \/ k \in stored /\ d.role_store # Absent /\ d.role # Absent
           \/ RoleOK(d, k) /\ d.tran_id = obj[o].tran_id
    BY <1>1, <2>1, <2>5, UsedRole
  <2> DEFINE c == Marked(d, op)
  <2>7. /\ c \in RoleCaches /\ c.wait_line = d.wait_line /\ c.role = d.role
        /\ c.role_store = d.role_store /\ c.tran_id = d.tran_id /\ c.be_delete = d.be_delete
    BY <1>2 DEF Marked, RoleCaches, Operations
  <2>8. RoleOK(d, k) => RoleOK(c, k)
    BY <2>7 DEF RoleOK
  <2>9. at' \in [Trans -> Calls] /\ at'[t].pc = "idle" /\ \A u \in Trans \ {t} : at'[u] = at[u]
    BY <1>1, Idles
  <2>10. Uses(o, k)
    BY <1>1, <1>2 DEF Uses
  <2>11. obj' = [obj EXCEPT ![o] = c]
    BY <2>5
  <2> HIDE DEF o, k, op, c
  <2>12. TypeOK'
    <3>1. obj' \in [Objs -> RoleCaches]
      BY <1>1, <2>7, <2>11 DEF TypeOK
    <3> QED
      BY <1>1, <2>1, <2>9, <3>1 DEF TypeOK, newVars
  <2>13. TicketsOK'
    <3>1. \A p \in Objs : obj'[p].wait_line = obj[p].wait_line
      BY <1>1, <2>6, <2>7, <2>11 DEF TypeOK
    <3> QED
      BY <1>1, <2>9, <2>12, <3>1, LinesKept
  <2>14. ClientMoves(t)
    BY <1>1, <2>9 DEF ClientMoves, newVars
  <2>15. Worked(t, o, k, c)
    BY <1>1, <2>6, <2>7, <2>8, <2>9, <2>10, <2>11 DEF Worked, newVars
  <2> QED
    BY <1>2, <2>12, <2>13, <2>14, <2>15, Works
<1> QED
  BY <1>4, <1>5

----------------------------------------------------------------------------
(* The other steps.                                                        *)

\* Nobody takes a role or gets one, and no role changes.
Quiet ==
    /\ UNCHANGED <<disk, obj, stored>>
    /\ \A u \in Trans : Loose(u) => Loose(u)'
    /\ \A u \in Trans : \/ at'[u] = at[u]
                        \/ at[u].pc # "wait" /\ at'[u].pc \notin {"wait", "got", "told"}
    /\ \A k \in Roles : role_cache'[k] \in {role_cache[k], Nil}
    /\ \A u \in Trans, k \in Roles :
          tran_cache'[u][k] \in {tran_cache[u][k], Nil} /\ new_cache'[u][k] \in {new_cache[u][k], Nil}
    /\ \A u \in Trans : at[u].pc = "got" =>
          \/ /\ \A k \in Roles : tran_cache'[u][k] = tran_cache[u][k]
             /\ state[u] = "ended" /\ u \notin undone => state'[u] = "ended" /\ u \notin undone'
          \/ at'[u].pc # "got"
          \/ state'[u] = "ended" /\ u \notin undone'
    /\ handler'.pc = "act" /\ handler'.waiting => obj[handler'.entry.obj].wait_line # << >>

LEMMA RoleLoosens ==
    ASSUME IInv, \A u \in Trans : Loose(u) => Loose(u)', stored' = stored,
           NEW o \in Objs, NEW k \in Roles, Uses(o, k), obj'[o] = obj[o]
    PROVE  RoleOK(obj[o], k)'
<1>1. RoleOK(obj[o], k)
  BY DEF IInv, RolesOK
<1>2. /\ obj[o].role # Absent => obj[o].role.father \subseteq Trans
      /\ obj[o].role_store # Absent => obj[o].role_store.father \subseteq Trans
  BY DEF IInv, TypeOK, RoleCaches, Content, Parts
<1> QED
  BY <1>1, <1>2 DEF RoleOK, AllLoose

LEMMA Quiets ==
    ASSUME IInv, Quiet, TypeOK', LivesOK', AsksOK', EntriesOK', HoldersOK'
    PROVE  IInv'
<1> USE DEF Quiet
<1>1. TypeOK
  BY DEF IInv
<1>2. \A o \in Objs, k \in Roles : Uses(o, k)' => Uses(o, k)
  <2> SUFFICES ASSUME NEW o \in Objs, NEW k \in Roles, Uses(o, k)'
               PROVE  Uses(o, k)
    OBVIOUS
  <2>1. o # Nil
    BY Markers
  <2> QED
    BY <2>1 DEF Uses
<1>3. OneRole'
  BY <1>2 DEF IInv, OneRole
<1>4. TicketsOK'
  <2>1. \A o \in Objs : \A i \in 1 .. Len(obj[o].wait_line) : obj[o].wait_line[i].tran \in Trans
    BY <1>1, LineType
  <2> QED
    BY <2>1 DEF IInv, TicketsOK
<1>5. RolesOK'
  BY <1>2, RoleLoosens DEF RolesOK
<1>6. DiskOK'
  BY <1>1 DEF IInv, DiskOK, AllLoose, TypeOK, Content, Parts
<1>7. GotOK'
  <2> SUFFICES ASSUME NEW u \in Trans, at'[u].pc = "got"
               PROVE  /\ at'[u].op.effect = "store" => at'[u].role \in stored'
                      /\ (at'[u].op.lock = "WRITE" /\ at'[u].role \notin stored') =>
                             \/ tran_cache'[u][at'[u].role] = at'[u].obj
                             \/ state'[u] = "ended" /\ u \notin undone'
    BY DEF GotOK
  <2>1. at'[u] = at[u] /\ at[u].role \in Roles
    BY <1>1, CallCases DEF TypeOK
  <2> QED
    BY <2>1 DEF IInv, GotOK
<1> QED
  BY <1>3, <1>4, <1>5, <1>6, <1>7 DEF IInv

\* Where the handler is not involved.
LEMMA BesidesHandler ==
    ASSUME IInv, UNCHANGED <<disk, role_cache, obj, locked, tran_cache, newVars, handler, undone>>,
           \A u \in Trans : state'[u] = "ended" <=> state[u] = "ended",
           \A u \in Trans : \/ at'[u] = at[u]
                            \/ at[u].pc # "wait" /\ at'[u].pc \notin {"wait", "got", "told"},
           TypeOK', LivesOK', AsksOK'
    PROVE  IInv'
<1>1. \A u \in Trans : Loose(u) => Loose(u)'
  BY DEF Loose, HandledNow
<1>2. EntriesOK'
  BY DEF IInv, EntriesOK, EntryOK, newVars
<1>3. HoldersOK'
  BY DEF IInv, HoldersOK, Passed, HandledNow, newVars
<1>4. handler'.pc = "act" /\ handler'.waiting => obj[handler'.entry.obj].wait_line # << >>
  BY DEF IInv, TicketsOK
<1>5. Quiet
  BY <1>1, <1>4 DEF Quiet, newVars
<1> QED
  BY <1>2, <1>3, <1>5, Quiets

LEMMA BeginStep ==
    ASSUME IInv, NEW t \in Trans, Begin(t)
    PROVE  IInv'
<1>1. /\ state[t] = "new" /\ state' = [state EXCEPT ![t] = "live"] /\ TypeOK
      /\ UNCHANGED <<disk, role_cache, obj, locked, tran_cache, new_cache, stored, at, calls, asks,
                     handler, monitor, crashed, undone>>
  BY DEF IInv, Begin, storeVars, newVars
<1>2. TypeOK'
  BY <1>1 DEF TypeOK
<1>3. state'[t] = "live" /\ \A u \in Trans \ {t} : state'[u] = state[u]
  BY <1>1 DEF TypeOK
<1>4. LivesOK'
  BY <1>1, <1>3 DEF IInv, LivesOK, HandledNow
<1>5. AsksOK'
  <2>1. handler # Nobody => handler.tran \in Trans
    BY <1>1, HandlerCases DEF TypeOK
  <2>2. \A s \in asks : s.tran \in Trans
    BY <1>1 DEF TypeOK
  <2>3. ASSUME NEW s, s.tran \in Trans, Asker(s)
        PROVE  Asker(s)'
    BY <1>1, <1>3, <2>3 DEF Asker
  <2>4. handler # Nobody => Asker(handler)'
    <3> SUFFICES ASSUME handler # Nobody
                 PROVE  Asker(handler)'
      OBVIOUS
    <3>1. handler.tran \in Trans /\ Asker(handler) /\ handler' = handler
      BY <1>1, <2>1 DEF IInv, AsksOK
    <3> QED
      BY <1>1, <1>3, <3>1 DEF Asker
  <2> QED
    BY <1>1, <2>2, <2>3, <2>4 DEF IInv, AsksOK
<1> QED
  BY <1>1, <1>2, <1>3, <1>4, <1>5, BesidesHandler DEF newVars

LEMMA SendStep ==
    ASSUME IInv, NEW t \in Trans, Send(t)
    PROVE  IInv'
<1>0. PICK n : n = [tran |-> t, ask |-> at[t].ask, by |-> "client"]
  OBVIOUS
<1>1. /\ state[t] = "live" /\ at[t].pc = "ask" /\ asks' = asks \cup {n} /\ TypeOK
      /\ Goes(t, [pc |-> "sent"])
      /\ UNCHANGED <<disk, role_cache, obj, locked, state, tran_cache, new_cache, stored, calls,
                     handler, monitor, crashed, undone>>
  BY <1>0 DEF IInv, Send, storeVars, newVars
<1>2. n.tran = t /\ n.by = "client" /\ n \in [tran : Trans, ask : {"commit", "rollback"}, by : {"client", "monitor"}]
  BY <1>0, <1>1, CallCases DEF TypeOK
<1>3. /\ at' \in [Trans -> Calls]
      /\ at'[t].pc = "sent" /\ \A u \in Trans \ {t} : at'[u] = at[u]
  BY <1>1, CallMade DEF Goes, TypeOK
<1>4. TypeOK'
  BY <1>1, <1>2, <1>3 DEF TypeOK
<1>5. LivesOK'
  BY <1>1, <1>3 DEF IInv, LivesOK, HandledNow
<1>6. AsksOK'
  <2>1. handler # Nobody => handler.tran \in Trans
    BY <1>1, HandlerCases DEF TypeOK
  <2>2. \A s \in asks : s.tran \in Trans
    BY <1>1 DEF TypeOK
  <2>3. ASSUME NEW s, s.tran \in Trans, Asker(s)
        PROVE  Asker(s)' /\ ~(s.tran = t /\ s.by = "client")
    BY <1>1, <1>3, <2>3 DEF Asker
  <2>4. Asker(n)'
    BY <1>1, <1>2, <1>3 DEF Asker
  <2>5. handler # Nobody => Asker(handler)' /\ ~(handler.tran = t /\ handler.by = "client")
    <3> SUFFICES ASSUME handler # Nobody
                 PROVE  Asker(handler)' /\ ~(handler.tran = t /\ handler.by = "client")
      OBVIOUS
    <3>1. handler.tran \in Trans /\ Asker(handler) /\ handler' = handler
      BY <1>1, <2>1 DEF IInv, AsksOK
    <3> QED
      BY <1>1, <1>3, <3>1 DEF Asker
  <2>6. \A s \in asks' : Asker(s)'
    BY <1>1, <2>2, <2>3, <2>4 DEF IInv, AsksOK
  <2>7. \A r, s \in asks' : r.tran = s.tran /\ r.by = s.by => r = s
    BY <1>1, <1>2, <2>2, <2>3 DEF IInv, AsksOK
  <2>8. handler' # Nobody =>
            Asker(handler)' /\ \A s \in asks' : ~(s.tran = handler'.tran /\ s.by = handler'.by)
    BY <1>1, <1>2, <2>5 DEF IInv, AsksOK
  <2> QED
    BY <2>6, <2>7, <2>8 DEF AsksOK
<1> QED
  BY <1>1, <1>3, <1>4, <1>5, <1>6, BesidesHandler DEF newVars

LEMMA MonitorScanStep ==
    ASSUME IInv, NEW expired \in SUBSET Trans, MonitorScan(expired)
    PROVE  IInv'
<1>1. /\ \A t \in expired : state[t] = "live"
      /\ monitor' = [expired |-> expired, asked |-> Nil] /\ monitor.asked = Nil /\ TypeOK
      /\ UNCHANGED <<disk, role_cache, obj, locked, state, tran_cache, new_cache, stored, at, calls,
                     asks, handler, crashed, undone>>
  BY DEF IInv, MonitorScan, storeVars, tranVars, newVars
<1>2. monitor'.asked = monitor.asked /\ monitor'.expired = expired
  BY <1>1
<1>3. TypeOK'
  BY <1>1 DEF TypeOK
<1>4. LivesOK'
  BY <1>1, <1>2 DEF IInv, LivesOK, HandledNow
<1>5. AsksOK'
  BY <1>1, <1>2 DEF IInv, AsksOK, Asker
<1> QED
  BY <1>1, <1>3, <1>4, <1>5, BesidesHandler DEF newVars

LEMMA MonitorRollbackStep ==
    ASSUME IInv, NEW t \in Trans, MonitorRollback(t)
    PROVE  IInv'
<1> DEFINE n == [tran |-> t, ask |-> "rollback", by |-> "monitor"]
<1>1. /\ t \in monitor.expired /\ monitor.asked = Nil /\ TypeOK
      /\ UNCHANGED <<disk, role_cache, obj, locked, state, tran_cache, new_cache, stored, at, calls,
                     handler, undone>>
  BY DEF IInv, MonitorRollback, storeVars, tranVars, newVars
<1>2. CASE crashed' = TRUE /\ UNCHANGED <<monitor, asks>>
  <2>1. TypeOK'
    BY <1>1, <1>2 DEF TypeOK
  <2>2. LivesOK'
    BY <1>1, <1>2 DEF IInv, LivesOK, HandledNow
  <2>3. AsksOK'
    BY <1>1, <1>2 DEF IInv, AsksOK, Asker
  <2> QED
    BY <1>1, <2>1, <2>2, <2>3, BesidesHandler DEF newVars
<1>3. CASE /\ monitor' = [expired |-> monitor.expired \ {t}, asked |-> t]
           /\ asks' = asks \cup {n} /\ crashed' = crashed
  <2>1. n.tran = t /\ n.by = "monitor" /\ n.ask = "rollback"
        /\ n \in [tran : Trans, ask : {"commit", "rollback"}, by : {"client", "monitor"}]
    OBVIOUS
  <2>2. state[t] # "new"
    BY <1>1 DEF IInv, LivesOK
  <2>3. monitor'.asked = t /\ monitor'.expired \subseteq monitor.expired
    BY <1>3
  <2> HIDE DEF n
  <2>4. TypeOK'
    BY <1>1, <1>3, <2>1 DEF TypeOK
  <2>5. LivesOK'
    BY <1>1, <2>3 DEF IInv, LivesOK, HandledNow
  <2>6. AsksOK'
    <3>1. handler # Nobody => handler.tran \in Trans
      BY <1>1, HandlerCases DEF TypeOK
    <3>2. \A s \in asks : s.tran \in Trans
      BY <1>1 DEF TypeOK
    <3>3. ASSUME NEW s, s.tran \in Trans, Asker(s)
          PROVE  Asker(s)' /\ s.by # "monitor"
      BY <1>1, <3>3, Markers DEF Asker
    <3>4. Asker(n)'
      BY <1>1, <2>1, <2>2, <2>3 DEF Asker
    <3>5. handler # Nobody => Asker(handler)' /\ handler.by # "monitor"
      <4> SUFFICES ASSUME handler # Nobody
                   PROVE  Asker(handler)' /\ handler.by # "monitor"
        OBVIOUS
      <4>1. handler.tran \in Trans /\ Asker(handler) /\ handler' = handler
        BY <1>1, <3>1 DEF IInv, AsksOK
      <4> QED
        BY <1>1, <4>1, Markers DEF Asker
    <3>6. \A s \in asks' : Asker(s)'
      BY <1>3, <3>2, <3>3, <3>4 DEF IInv, AsksOK
    <3>7. \A r, s \in asks' : r.tran = s.tran /\ r.by = s.by => r = s
      BY <1>3, <2>1, <3>2, <3>3 DEF IInv, AsksOK
    <3>8. handler' # Nobody =>
              Asker(handler)' /\ \A s \in asks' : ~(s.tran = handler'.tran /\ s.by = handler'.by)
      BY <1>1, <1>3, <2>1, <3>5 DEF IInv, AsksOK
    <3> QED
      BY <3>6, <3>7, <3>8 DEF AsksOK
  <2> QED
    BY <1>1, <2>4, <2>5, <2>6, BesidesHandler DEF newVars
<1> QED
  BY <1>2, <1>3 DEF MonitorRollback

----------------------------------------------------------------------------
(* The steps of tranSignalHandle.                                          *)

\* The handler goes on to h with the signal it has, and may send to those that wait.
GoesOn(h) ==
    /\ handler.pc \in {"look", "act", "remove"} /\ handler' = h
    /\ h.tran = handler.tran /\ h.ask = handler.ask /\ h.by = handler.by
    /\ \/ h.pc = "look" /\ h.todo = handler.todo
       \/ /\ h.pc \in {"remove", "stuck"} /\ handler.pc = "act"
          /\ h.todo = handler.todo /\ h.entry = handler.entry
       \/ /\ h.pc = "act" /\ handler.pc = "look"
          /\ h.entry \in handler.todo /\ h.todo = handler.todo \ {h.entry}
    /\ UNCHANGED <<state, new_cache, stored, asks, monitor, undone>>
    /\ \A u \in Trans :
          \/ at'[u] = at[u]
          \/ /\ at[u].pc = "wait" /\ at'[u].pc \in {"idle", "got", "told"}
             /\ at'[u].pc = "told" => at'[u].op.effect = "store"
    /\ \A u \in Trans : \/ \A k \in Roles : tran_cache'[u][k] = tran_cache[u][k]
                        \/ at[u].pc = "wait"

LEMMA OnItGoes ==
    ASSUME IInv, NEW h \in Handlers, GoesOn(h)
    PROVE  /\ LivesOK' /\ AsksOK' /\ EntriesOK'
           /\ \A u \in Trans : /\ Loose(u)' <=> Loose(u)
                               /\ HandledNow(u)' <=> HandledNow(u)
                               /\ \A k \in Roles : Passed(u, k) => Passed(u, k)'
<1> USE DEF GoesOn
<1>1. TypeOK /\ handler \in Handlers
  BY DEF IInv, TypeOK
<1>2. /\ handler # Nobody /\ h # Nobody /\ handler.tran \in Trans /\ h.pc # "idle" /\ h.pc # "lock"
      /\ handler.pc # "lock"
  BY <1>1, HandlerCases
<1>3. \A u \in Trans : HandledNow(u)' <=> HandledNow(u)
  BY <1>2 DEF HandledNow
<1>4. \A u \in Trans : Loose(u)' <=> Loose(u)
  BY <1>3 DEF Loose
<1>5. ASSUME NEW u \in Trans, NEW k \in Roles, Passed(u, k)
      PROVE  Passed(u, k)'
  BY <1>3, <1>5 DEF Passed
<1>6. \A u \in Trans : at[u].pc = "wait" => state[u] = "live" /\ ~HandledNow(u)
  BY DEF IInv, LivesOK
<1>7. LivesOK'
  <2> SUFFICES ASSUME NEW u \in Trans
               PROVE  /\ state[u] # "live" => \A k \in Roles : tran_cache'[u][k] = Nil
                      /\ at'[u].pc \in {"wait", "told"} => state[u] = "live" /\ ~HandledNow(u)
                      /\ at'[u].pc = "told" => at'[u].op.effect = "store"
                      /\ u \in undone => state[u] = "ended"
                      /\ h.tran = u => state[u] = "live"
                      /\ u \in monitor.expired => state[u] # "new"
                      /\ \A k \in Roles : new_cache[u][k] # Nil => k \in stored
    BY <1>3 DEF LivesOK
  <2>1. at'[u].pc \in {"wait", "told"} => state[u] = "live" /\ ~HandledNow(u)
    BY <1>6 DEF IInv, LivesOK
  <2>2. at'[u].pc = "told" => at'[u].op.effect = "store"
    BY DEF IInv, LivesOK
  <2>3. state[u] # "live" => \A k \in Roles : tran_cache'[u][k] = Nil
    BY <1>6 DEF IInv, LivesOK
  <2>4. h.tran = u => state[u] = "live"
    BY <1>2 DEF IInv, LivesOK
  <2> QED
    BY <2>1, <2>2, <2>3, <2>4 DEF IInv, LivesOK
<1>8. AsksOK'
  <2>1. ASSUME NEW s, s.tran \in Trans, Asker(s)
        PROVE  Asker(s)'
    <3>1. at[s.tran].pc = "sent" => at'[s.tran].pc = "sent"
      BY <2>1
    <3> QED
      BY <2>1, <3>1 DEF Asker
  <2>2. \A s \in asks : s.tran \in Trans /\ Asker(s)
    BY <1>1 DEF TypeOK, IInv, AsksOK
  <2>3. Asker(h)
    BY <1>2 DEF IInv, AsksOK, Asker
  <2>4. Asker(h)'
    BY <1>2, <2>1, <2>3
  <2> QED
    BY <1>2, <2>1, <2>2, <2>4 DEF IInv, AsksOK
<1>9. EntriesOK'
  <2>1. ~(at[handler.tran].pc = "wait")
    BY <1>2, <1>6 DEF HandledNow
  <2>2. ASSUME NEW e \in Entries, EntryOK(e)
        PROVE  EntryOK(e)'
    BY <1>2, <2>1, <2>2 DEF EntryOK, Entries
  <2>3. handler.todo \subseteq Entries /\ \A e \in handler.todo : EntryOK(e)
    BY <1>1, HandlerCases DEF IInv, EntriesOK
  <2>4. handler.pc = "act" =>
            handler.entry \in Entries /\ EntryOK(handler.entry) /\ handler.entry \notin handler.todo
    BY <1>1, HandlerCases DEF IInv, EntriesOK
  <2>5. h.pc \in {"act", "remove", "stuck"} => h.entry \in Entries /\ EntryOK(h.entry) /\ h.entry \notin h.todo
    <3>1. CASE h.pc \in {"remove", "stuck"}
      <4>1. EntryOK(h.entry)
        BY <2>4, <3>1 DEF EntryOK
      <4> QED
        BY <2>4, <3>1, <4>1
    <3>2. CASE h.pc = "act"
      BY <2>3, <3>2
    <3> QED
      BY <3>1, <3>2
  <2>6. h.todo \subseteq handler.todo
    OBVIOUS
  <2>7. \A e \in handler'.todo : EntryOK(e)'
    BY <2>2, <2>3, <2>6
  <2>8. h.pc \in {"act", "remove", "stuck"} => EntryOK(h.entry)' /\ h.entry \notin h.todo
    BY <2>2, <2>5
  <2> QED
    BY <2>7, <2>8 DEF EntriesOK
<1> QED
  BY <1>3, <1>4, <1>5, <1>7, <1>8, <1>9

\* Where the handler only goes on, and may take a role from the cache.
LEMMA OnQuietly ==
    ASSUME IInv, NEW h \in Handlers, GoesOn(h), UNCHANGED <<disk, obj, locked, tranVars, crashed>>,
           role_cache' = role_cache \/ (handler.pc \in {"act", "remove"} /\ role_cache' = Uncached(handler.entry)),
           h.pc = "act" /\ h.waiting => obj[h.entry.obj].wait_line # << >>
    PROVE  IInv'
<1>1. TypeOK
  BY DEF IInv
<1>2. /\ LivesOK' /\ AsksOK' /\ EntriesOK'
      /\ \A u \in Trans : /\ Loose(u)' <=> Loose(u)
                          /\ HandledNow(u)' <=> HandledNow(u)
                          /\ \A k \in Roles : Passed(u, k) => Passed(u, k)'
  BY OnItGoes
<1>3. /\ role_cache' \in [Roles -> Objs \cup {Nil}]
      /\ \A k \in Roles : role_cache'[k] \in {role_cache[k], Nil}
  BY <1>1 DEF Uncached, TypeOK
<1>4. /\ UNCHANGED <<state, tran_cache, new_cache, stored, at, calls, asks, monitor, undone>>
      /\ handler' = h
  BY DEF tranVars, newVars, GoesOn
<1>5. TypeOK'
  BY <1>1, <1>3, <1>4 DEF TypeOK
<1>6. HoldersOK'
  BY <1>2, <1>4 DEF IInv, HoldersOK
<1>7. Quiet
  BY <1>2, <1>3, <1>4 DEF Quiet
<1> QED
  BY <1>2, <1>5, <1>6, <1>7, Quiets

LEMMA OnMade ==
    ASSUME TypeOK, handler.pc \in {"look", "act", "remove"}
    PROVE  /\ [pc |-> "look", ask |-> handler.ask, by |-> handler.by, tran |-> handler.tran,
               todo |-> handler.todo] \in Handlers
           /\ handler.pc = "act" => \A pc \in {"remove", "stuck"} :
                  /\ [handler EXCEPT !.pc = pc] \in Handlers
                  /\ [handler EXCEPT !.pc = pc] =
                        [pc |-> pc, ask |-> handler.ask, by |-> handler.by, tran |-> handler.tran,
                         todo |-> handler.todo, entry |-> handler.entry, waiting |-> handler.waiting]
<1>1. /\ handler \in Handlers /\ handler.tran \in Trans /\ handler.ask \in {"commit", "rollback"}
      /\ handler.by \in {"client", "monitor"} /\ handler.todo \subseteq Entries
      /\ handler.pc = "act" =>
            /\ handler.entry \in Entries /\ handler.waiting \in BOOLEAN
            /\ handler = [pc |-> handler.pc, ask |-> handler.ask, by |-> handler.by,
                          tran |-> handler.tran, todo |-> handler.todo, entry |-> handler.entry,
                          waiting |-> handler.waiting]
  BY HandlerCases DEF TypeOK
<1>2. [pc |-> "look", ask |-> handler.ask, by |-> handler.by, tran |-> handler.tran,
       todo |-> handler.todo] \in Handlers
  BY <1>1 DEF Handlers
<1>3. ASSUME handler.pc = "act", NEW pc \in {"remove", "stuck"}
      PROVE  /\ [handler EXCEPT !.pc = pc] \in Handlers
             /\ [handler EXCEPT !.pc = pc] =
                    [pc |-> pc, ask |-> handler.ask, by |-> handler.by, tran |-> handler.tran,
                     todo |-> handler.todo, entry |-> handler.entry, waiting |-> handler.waiting]
  <2>1. [handler EXCEPT !.pc = pc] =
            [pc |-> pc, ask |-> handler.ask, by |-> handler.by, tran |-> handler.tran,
             todo |-> handler.todo, entry |-> handler.entry, waiting |-> handler.waiting]
    BY <1>1, <1>3
  <2>2. [pc |-> pc, ask |-> handler.ask, by |-> handler.by, tran |-> handler.tran,
         todo |-> handler.todo, entry |-> handler.entry, waiting |-> handler.waiting] \in Handlers
    BY <1>1, <1>3 DEF Handlers
  <2> QED
    BY <2>1, <2>2
<1> QED
  BY <1>2, <1>3

LEMMA OnToNextStep ==
    ASSUME IInv, OnToNext, UNCHANGED <<disk, obj, locked, tranVars, asks, monitor, undone, crashed>>,
           handler.pc \in {"act", "remove"},
           role_cache' = role_cache \/ role_cache' = Uncached(handler.entry)
    PROVE  IInv'
<1>1. PICK h : h = [pc |-> "look", ask |-> handler.ask, by |-> handler.by, tran |-> handler.tran,
                    todo |-> handler.todo]
  OBVIOUS
<1>2. h \in Handlers /\ handler' = h
  BY <1>1, OnMade DEF IInv, OnToNext
<1>3. GoesOn(h)
  BY <1>1, <1>2 DEF GoesOn, tranVars, newVars
<1> QED
  BY <1>1, <1>2, <1>3, OnQuietly

LEMMA CommitPassesStep ==
    ASSUME IInv, CommitPasses
    PROVE  IInv'
BY OnToNextStep DEF CommitPasses, Acts, storeVars

LEMMA RemoveFromCacheStep ==
    ASSUME IInv, RemoveFromCache
    PROVE  IInv'
BY OnToNextStep DEF RemoveFromCache

LEMMA RollbackAloneStep ==
    ASSUME IInv, RollbackAlone
    PROVE  IInv'
BY OnToNextStep DEF RollbackAlone, Acts

LEMMA LookStep ==
    ASSUME IInv, Look
    PROVE  IInv'
<1>1. PICK e \in handler.todo :
          handler' = [pc |-> "act", ask |-> handler.ask, by |-> handler.by, tran |-> handler.tran,
                      todo |-> handler.todo \ {e}, entry |-> e,
                      waiting |-> obj[e.obj].wait_line # << >>]
  BY DEF Look
<1>2. PICK h : h = [pc |-> "act", ask |-> handler.ask, by |-> handler.by, tran |-> handler.tran,
                    todo |-> handler.todo \ {e}, entry |-> e,
                    waiting |-> obj[e.obj].wait_line # << >>]
  OBVIOUS
<1>3. /\ handler.pc = "look"
      /\ UNCHANGED <<disk, role_cache, obj, locked, tranVars, state, tran_cache, new_cache, stored, at,
                     calls, asks, monitor, crashed, undone>>
  BY DEF Look, storeVars, tranVars, newVars
<1>4. /\ handler \in Handlers /\ handler.tran \in Trans /\ handler.ask \in {"commit", "rollback"}
      /\ handler.by \in {"client", "monitor"} /\ handler.todo \subseteq Entries
  BY <1>3, HandlerCases DEF IInv, TypeOK
<1>5. h \in Handlers
  <2>1. e \in Entries /\ (obj[e.obj].wait_line # << >>) \in BOOLEAN /\ handler.todo \ {e} \in SUBSET Entries
    BY <1>4
  <2> QED
    BY <1>2, <1>4, <2>1 DEF Handlers
<1>6. GoesOn(h)
  BY <1>1, <1>2, <1>3 DEF GoesOn
<1> QED
  BY <1>2, <1>3, <1>5, <1>6, OnQuietly

LEMMA TakeStep ==
    ASSUME IInv, NEW s \in asks, Take(s)
    PROVE  IInv'
<1> DEFINE t == s.tran
<1>1. /\ handler = Nobody /\ handler.pc = "idle" /\ asks' = asks \ {s} /\ TypeOK
      /\ UNCHANGED <<disk, role_cache, obj, locked, state, tran_cache, new_cache, stored, calls,
                     crashed, undone>>
  BY DEF IInv, Take, Nobody, storeVars, newVars
<1>2. /\ t \in Trans /\ s.by \in {"client", "monitor"} /\ s.ask \in {"commit", "rollback"}
      /\ Asker(s)
      /\ \A r \in asks : r.tran \in Trans /\ r.by \in {"client", "monitor"} /\ Asker(r)
      /\ \A r \in asks' : r \in asks /\ ~(r.tran = t /\ r.by = s.by)
  BY <1>1 DEF TypeOK, IInv, AsksOK
<1>3. CASE state[t] = "ended"
  <2>1. Answer(t, s.by) /\ handler' = handler
    BY <1>3 DEF Take
  <2>2. CASE s.by = "client"
    <3>1. Goes(t, Idle) /\ monitor' = monitor
      BY <2>1, <2>2 DEF Answer
    <3>2. at' \in [Trans -> Calls] /\ at'[t] = Idle /\ Idle.pc = "idle" /\ \A u \in Trans \ {t} : at'[u] = at[u]
      BY <1>1, <1>2, <3>1, Idles
    <3>3. at[t].pc = "sent"
      BY <1>2, <2>2 DEF Asker
    <3>4. TypeOK'
      BY <1>1, <2>1, <3>1, <3>2 DEF TypeOK
    <3>5. LivesOK'
      BY <1>1, <2>1, <3>1, <3>2 DEF IInv, LivesOK, HandledNow
    <3>6. \A r \in asks' : Asker(r)'
      BY <1>1, <1>2, <2>2, <3>1, <3>2 DEF Asker
    <3>7. AsksOK'
      BY <1>1, <2>1, <3>6 DEF IInv, AsksOK
    <3> QED
      BY <1>1, <2>1, <3>2, <3>3, <3>4, <3>5, <3>7, BesidesHandler DEF newVars
  <2>3. CASE s.by = "monitor"
    <3>1. monitor' = [monitor EXCEPT !.asked = Nil] /\ at' = at
      BY <2>1, <2>3 DEF Answer
    <3>2. monitor' \in [expired : SUBSET Trans, asked : Trans \cup {Nil}] /\ monitor'.expired = monitor.expired
      BY <1>1, <3>1 DEF TypeOK
    <3>3. \A r \in asks' : r.by # "monitor"
      BY <1>2, <2>3 DEF Asker
    <3>4. TypeOK'
      BY <1>1, <2>1, <3>1, <3>2 DEF TypeOK
    <3>5. LivesOK'
      BY <1>1, <2>1, <3>1, <3>2 DEF IInv, LivesOK, HandledNow
    <3>6. \A r \in asks' : Asker(r)'
      BY <1>1, <1>2, <3>1, <3>3 DEF Asker
    <3>7. AsksOK'
      BY <1>1, <2>1, <3>6 DEF IInv, AsksOK
    <3> QED
      BY <1>1, <2>1, <3>1, <3>4, <3>5, <3>7, BesidesHandler DEF newVars
  <2> QED
    BY <1>2, <2>2, <2>3
<1>4. CASE state[t] # "ended"
  <2>1. PICK h : h = [pc |-> "lock", ask |-> s.ask, by |-> s.by, tran |-> t]
    OBVIOUS
  <2>2. /\ handler' = h /\ at' = at /\ monitor' = monitor
        /\ h.pc = "lock" /\ h.tran = t /\ h.ask = s.ask /\ h.by = s.by /\ h # Nobody
    BY <1>4, <2>1 DEF Take, Nobody
  <2>3. h \in Handlers
    BY <1>2, <2>1 DEF Handlers
  <2>4. TypeOK'
    BY <1>1, <2>2, <2>3 DEF TypeOK
  <2>5. state[t] = "live"
    BY <1>1, <1>2, <1>4 DEF Asker, TypeOK
  <2>6. \A u \in Trans : ~HandledNow(u) /\ ~HandledNow(u)'
    BY <1>1, <2>2 DEF HandledNow
  <2>7. LivesOK'
    BY <1>1, <2>2, <2>5, <2>6 DEF IInv, LivesOK
  <2>8. Asker(h)' /\ \A r \in asks : Asker(r)'
    BY <1>1, <1>2, <2>2 DEF Asker
  <2>9. AsksOK'
    BY <1>1, <1>2, <2>2, <2>8 DEF IInv, AsksOK
  <2>10. EntriesOK'
    BY <2>2 DEF EntriesOK
  <2>11. HoldersOK'
    BY <1>1, <2>6 DEF IInv, HoldersOK, Passed
  <2>12. \A u \in Trans : Loose(u) => Loose(u)'
    BY <1>1, <2>6 DEF Loose
  <2>13. Quiet
    BY <1>1, <2>2, <2>12 DEF Quiet
  <2> QED
    BY <2>4, <2>7, <2>9, <2>10, <2>11, <2>13, Quiets
<1> QED
  BY <1>3, <1>4

LEMMA LockStep ==
    ASSUME IInv, Lock
    PROVE  IInv'
<1> DEFINE t == handler.tran
           Taken(key, cache) == {[key |-> key, role |-> k, obj |-> cache[k]] :
                                    k \in {i \in Roles : cache[i] # Nil}}
           todo == Taken("area id", tran_cache[t]) \cup Taken("id", new_cache[t])
<1>1. /\ handler.pc = "lock" /\ at[t].pc \notin {"wait", "told"} /\ TypeOK
      /\ UNCHANGED <<disk, role_cache, obj, locked, state, tran_cache, new_cache, stored, at, calls,
                     asks, monitor, crashed, undone>>
  BY DEF IInv, Lock, storeVars, tranVars, newVars
<1>2. PICK h : h = [pc |-> "look", ask |-> handler.ask, by |-> handler.by, tran |-> t, todo |-> todo]
  OBVIOUS
<1>3. handler' = h
  BY <1>2 DEF Lock
<1>4. /\ handler \in Handlers /\ t \in Trans /\ handler.ask \in {"commit", "rollback"}
      /\ handler.by \in {"client", "monitor"} /\ handler # Nobody
  BY <1>1, HandlerCases DEF TypeOK
<1>5. /\ h.pc = "look" /\ h.tran = t /\ h.ask = handler.ask /\ h.by = handler.by
      /\ h.todo = todo /\ h # Nobody
  BY <1>2 DEF Nobody
<1>6. ASSUME NEW e \in todo
      PROVE  e \in Entries /\ e.role \in Roles
             /\ e.obj = IF e.key = "id" THEN new_cache[t][e.role] ELSE tran_cache[t][e.role]
  <2>1. tran_cache[t] \in [Roles -> Objs \cup {Nil}] /\ new_cache[t] \in [Roles -> Objs \cup {Nil}]
    BY <1>1, <1>4 DEF TypeOK
  <2>2. CASE e \in Taken("area id", tran_cache[t])
    <3>1. PICK k \in Roles : tran_cache[t][k] # Nil /\ e = [key |-> "area id", role |-> k, obj |-> tran_cache[t][k]]
      BY <2>2
    <3>2. tran_cache[t][k] \in Objs
      BY <2>1, <3>1
    <3> QED
      BY <3>1, <3>2 DEF Entries
  <2>3. CASE e \in Taken("id", new_cache[t])
    <3>1. PICK k \in Roles : new_cache[t][k] # Nil /\ e = [key |-> "id", role |-> k, obj |-> new_cache[t][k]]
      BY <2>3
    <3>2. new_cache[t][k] \in Objs
      BY <2>1, <3>1
    <3> QED
      BY <3>1, <3>2 DEF Entries
  <2> QED
    BY <2>2, <2>3
<1> HIDE DEF todo
<1>7. h \in Handlers
  BY <1>2, <1>4, <1>6 DEF Handlers
<1> HIDE DEF t
<1>8. TypeOK'
  BY <1>1, <1>3, <1>7 DEF TypeOK
<1>9. \A u \in Trans : ~HandledNow(u) /\ (HandledNow(u)' => u = t)
  BY <1>1, <1>3, <1>5 DEF HandledNow
<1>10. LivesOK'
  <2>1. t \in Trans /\ state[t] = "live"
    BY <1>4 DEF IInv, LivesOK, t
  <2>2. \A u \in Trans : at[u].pc \in {"wait", "told"} => u # t
    BY <1>1
  <2> QED
    BY <1>1, <1>3, <1>5, <1>9, <2>1, <2>2 DEF IInv, LivesOK
<1>11. AsksOK'
  <2>1. Asker(h) /\ Asker(handler)
    BY <1>4, <1>5 DEF IInv, AsksOK, Asker, t
  <2>2. Asker(h)'
    BY <1>1, <2>1 DEF Asker
  <2>3. \A s \in asks : Asker(s)'
    BY <1>1 DEF IInv, AsksOK, Asker
  <2> QED
    BY <1>1, <1>3, <1>4, <1>5, <2>2, <2>3 DEF IInv, AsksOK, t
<1>12. EntriesOK'
  <2>1. \A e \in h.todo : EntryOK(e)'
    BY <1>1, <1>3, <1>5, <1>6 DEF EntryOK
  <2> QED
    BY <1>3, <1>5, <2>1 DEF EntriesOK
<1>13. HoldersOK'
  BY <1>1, <1>9 DEF IInv, HoldersOK, Passed
<1>14. \A u \in Trans : Loose(u) => Loose(u)'
  BY <1>1, <1>9 DEF Loose
<1>15. Quiet
  BY <1>1, <1>3, <1>5, <1>14 DEF Quiet
<1> QED
  BY <1>8, <1>10, <1>11, <1>12, <1>13, <1>15, Quiets

LEMMA FinishStep ==
    ASSUME IInv, Finish
    PROVE  IInv'
<1> DEFINE none == [k \in Roles |-> Nil]
<1>0. PICK t : t = handler.tran
  OBVIOUS
<1>1. /\ handler.pc = "look" /\ TypeOK
      /\ state' = [state EXCEPT ![t] = "ended"]
      /\ tran_cache' = [tran_cache EXCEPT ![t] = none] /\ new_cache' = [new_cache EXCEPT ![t] = none]
      /\ Answer(t, handler.by)
      /\ undone' = IF handler.ask = "rollback" /\ handler.by = "client" THEN undone \cup {t} ELSE undone
      /\ handler' = Nobody
      /\ UNCHANGED <<disk, role_cache, obj, locked, stored, calls, asks, crashed>>
  BY <1>0 DEF IInv, Finish, storeVars
<1>2. /\ t \in Trans /\ handler.by \in {"client", "monitor"} /\ handler # Nobody
      /\ handler.ask \in {"commit", "rollback"}
  BY <1>0, <1>1, HandlerCases DEF TypeOK
<1>3. /\ state[t] = "live" /\ t \notin undone /\ HandledNow(t) /\ at[t].pc \notin {"wait", "told"}
      /\ handler.by = "client" => at[t].pc = "sent"
      /\ handler.by = "monitor" => monitor.asked = t
      /\ \A s \in asks : Asker(s) /\ s.tran \in Trans /\ ~(s.tran = t /\ s.by = handler.by)
  <2>1. HandledNow(t)
    BY <1>0, <1>1, <1>2 DEF HandledNow
  <2> QED
    BY <1>0, <1>1, <1>2, <2>1 DEF IInv, LivesOK, AsksOK, Asker, TypeOK
<1>4. /\ state' \in [Trans -> {"new", "live", "ended"}]
      /\ state'[t] = "ended" /\ \A u \in Trans \ {t} : state'[u] = state[u]
      /\ tran_cache' \in [Trans -> [Roles -> Objs \cup {Nil}]]
      /\ new_cache' \in [Trans -> [Roles -> Objs \cup {Nil}]]
      /\ \A k \in Roles : tran_cache'[t][k] = Nil /\ new_cache'[t][k] = Nil
      /\ \A u \in Trans \ {t} : tran_cache'[u] = tran_cache[u] /\ new_cache'[u] = new_cache[u]
  BY <1>1, <1>2 DEF TypeOK
<1>5. /\ at' \in [Trans -> Calls] /\ \A u \in Trans \ {t} : at'[u] = at[u]
      /\ IF handler.by = "client" THEN at'[t].pc = "idle" ELSE at'[t] = at[t]
  <2>1. CASE handler.by = "client"
    BY <1>1, <1>2, <2>1, Idles DEF Answer
  <2>2. CASE handler.by # "client"
    BY <1>1, <2>2 DEF Answer, TypeOK
  <2> QED
    BY <2>1, <2>2
<1>6. /\ monitor' \in [expired : SUBSET Trans, asked : Trans \cup {Nil}]
      /\ monitor'.expired = monitor.expired
      /\ handler.by = "client" => monitor' = monitor
  BY <1>1 DEF Answer, TypeOK
<1>7. TypeOK'
  BY <1>1, <1>2, <1>4, <1>5, <1>6 DEF TypeOK, Handlers, Nobody
<1>8. \A u \in Trans : ~HandledNow(u)' /\ (u # t => ~HandledNow(u))
  BY <1>0, <1>1 DEF HandledNow, Nobody
<1>9. LivesOK'
  <2> SUFFICES ASSUME NEW u \in Trans
               PROVE  /\ state'[u] # "live" => \A k \in Roles : tran_cache'[u][k] = Nil
                      /\ at'[u].pc \in {"wait", "told"} => state'[u] = "live"
                      /\ at'[u].pc = "told" => at'[u].op.effect = "store"
                      /\ u \in undone' => state'[u] = "ended"
                      /\ u \in monitor'.expired => state'[u] # "new"
                      /\ \A k \in Roles : new_cache'[u][k] # Nil => k \in stored'
    BY <1>1, <1>8 DEF LivesOK
  <2>1. CASE u = t
    BY <1>3, <1>4, <1>5, <2>1
  <2>2. CASE u # t
    BY <1>1, <1>4, <1>5, <1>6, <2>2 DEF IInv, LivesOK
  <2> QED
    BY <2>1, <2>2
<1>10. AsksOK'
  <2>1. ASSUME NEW s \in asks
        PROVE  Asker(s)'
    <3>1. Asker(s) /\ s.tran \in Trans /\ ~(s.tran = t /\ s.by = handler.by)
      BY <1>3
    <3>2. state'[s.tran] # "new"
      BY <1>4, <3>1 DEF Asker
    <3>3. s.by = "client" => at'[s.tran].pc = "sent"
      BY <1>5, <3>1 DEF Asker
    <3>4. s.by = "monitor" => handler.by = "client"
      BY <1>2, <1>3, <3>1 DEF Asker
    <3>5. s.by = "monitor" => monitor'.asked = s.tran /\ s.ask = "rollback"
      BY <1>6, <3>1, <3>4 DEF Asker
    <3> QED
      BY <3>2, <3>3, <3>5 DEF Asker
  <2> QED
    BY <1>1, <2>1 DEF IInv, AsksOK
<1>11. EntriesOK'
  BY <1>1 DEF EntriesOK, Nobody
<1>12. HoldersOK'
  <2> SUFFICES ASSUME NEW u \in Trans, NEW k \in Roles \ stored, tran_cache'[u][k] # Nil
               PROVE  obj[tran_cache'[u][k]].tran_id = u
    BY <1>1 DEF HoldersOK
  <2>1. u # t
    BY <1>4
  <2> QED
    BY <1>4, <1>8, <2>1 DEF IInv, HoldersOK, Passed
<1>13. \A u \in Trans : Loose(u) => Loose(u)'
  <2> SUFFICES ASSUME NEW u \in Trans, Loose(u)
               PROVE  state'[u] = "ended" /\ u \notin undone'
    BY DEF Loose
  <2>1. CASE u = t
    BY <1>1, <1>2, <1>3, <1>4, <2>1 DEF Loose
  <2>2. CASE u # t
    BY <1>1, <1>4, <1>8, <2>2 DEF Loose
  <2> QED
    BY <2>1, <2>2
<1>14. \A u \in Trans : at[u].pc = "got" =>
           \/ /\ \A k \in Roles : tran_cache'[u][k] = tran_cache[u][k]
              /\ state[u] = "ended" /\ u \notin undone => state'[u] = "ended" /\ u \notin undone'
           \/ at'[u].pc # "got"
           \/ state'[u] = "ended" /\ u \notin undone'
  <2> SUFFICES ASSUME NEW u \in Trans, at[u].pc = "got"
               PROVE  \/ /\ \A k \in Roles : tran_cache'[u][k] = tran_cache[u][k]
                         /\ state[u] = "ended" /\ u \notin undone => state'[u] = "ended" /\ u \notin undone'
                      \/ at'[u].pc # "got"
                      \/ state'[u] = "ended" /\ u \notin undone'
    OBVIOUS
  <2>1. CASE u = t
    BY <1>1, <1>3, <1>4, <2>1
  <2>2. CASE u # t
    BY <1>1, <1>4, <2>2
  <2> QED
    BY <2>1, <2>2
<1>15. Quiet
  <2>1. \A u \in Trans : \/ at'[u] = at[u]
                         \/ at[u].pc # "wait" /\ at'[u].pc \notin {"wait", "got", "told"}
    BY <1>3, <1>5
  <2>2. \A u \in Trans, k \in Roles :
            tran_cache'[u][k] \in {tran_cache[u][k], Nil} /\ new_cache'[u][k] \in {new_cache[u][k], Nil}
    BY <1>4
  <2>3. handler'.pc # "act"
    BY <1>1 DEF Nobody
  <2> QED
    BY <1>1, <1>13, <1>14, <2>1, <2>2, <2>3 DEF Quiet
<1> QED
  BY <1>7, <1>9, <1>10, <1>11, <1>12, <1>15, Quiets

\* The role the handler works on: unless it has been stored whole, it is taken by the
\* transaction that ends, and by nobody else, and the handler is done with it.
LEMMA ActsOn ==
    ASSUME IInv, handler.pc = "act",
           NEW o, o = handler.entry.obj, NEW k, k = handler.entry.role, NEW t, t = handler.tran
    PROVE  /\ t \in Trans /\ HandledNow(t) /\ k \in Roles /\ o \in Objs
           /\ Uses(o, k) /\ RoleOK(obj[o], k) /\ \A j \in Roles : Uses(o, j) => j = k
           /\ k \notin stored =>
                 /\ obj[o].tran_id = t
                 /\ \A e \in handler.todo : e.role # k
                 /\ \A u \in Trans : tran_cache[u][k] = o => u = t
<1>1. /\ t \in Trans /\ handler # Nobody /\ handler.entry \in Entries
      /\ handler.todo \subseteq Entries
  BY HandlerCases DEF IInv, TypeOK
<1>2. HandledNow(t)
  BY <1>1 DEF HandledNow
<1>3. k \in Roles /\ o \in Objs /\ Uses(o, k)
  BY EntryUsed
<1>4. RoleOK(obj[o], k) /\ \A j \in Roles : Uses(o, j) => j = k
  BY <1>3 DEF IInv, RolesOK, OneRole
<1>5. ASSUME k \notin stored
      PROVE  /\ obj[o].tran_id = t
             /\ \A e \in handler.todo : e.role # k
             /\ \A u \in Trans : tran_cache[u][k] = o => u = t
  <2>1. new_cache[t][k] = Nil /\ o # Nil
    BY <1>1, <1>3, <1>5, Markers DEF IInv, LivesOK
  <2>2. tran_cache[t][k] = o /\ handler.entry.key = "area id"
    BY <1>1, <2>1 DEF IInv, EntriesOK, EntryOK, Entries
  <2>3. ~Passed(t, k)
    BY DEF Passed
  <2>4. obj[o].tran_id = t
    BY <1>1, <1>3, <1>5, <2>1, <2>2, <2>3 DEF IInv, HoldersOK
  <2>5. ASSUME NEW e \in handler.todo, e.role = k
        PROVE  FALSE
    <3>1. e \in Entries /\ EntryOK(e) /\ e.obj # Nil
      BY <1>1, <2>5, Markers DEF IInv, EntriesOK, Entries
    <3>2. e.key = "area id" /\ e.obj = o
      BY <2>1, <2>2, <2>5, <3>1 DEF EntryOK, Entries
    <3>3. e = handler.entry
      <4>1. ASSUME NEW f \in Entries
            PROVE  f = [key |-> f.key, role |-> f.role, obj |-> f.obj]
        BY DEF Entries
      <4> QED
        BY <1>1, <2>2, <2>5, <3>1, <3>2, <4>1
    <3> QED
      BY <2>5, <3>3 DEF IInv, EntriesOK
  <2>6. ASSUME NEW u \in Trans, tran_cache[u][k] = o
        PROVE  u = t
    <3>1. obj[o].tran_id = u \/ Passed(u, k)
      BY <1>3, <1>5, <2>1, <2>6 DEF IInv, HoldersOK
    <3>2. Passed(u, k) => u = t
      BY DEF Passed, HandledNow
    <3> QED
      BY <2>4, <3>1, <3>2
  <2> QED
    BY <2>4, <2>5, <2>6
<1> QED
  BY <1>1, <1>2, <1>3, <1>4, <1>5

\* The file after a commit.
LEMMA FileAfter ==
    ASSUME IInv, NEW k \in Roles, NEW c \in RoleCaches, c.role # Absent
    PROVE  /\ DiskAfter(k, c) \in [Roles -> Content \cup {Absent}]
           /\ \A j \in Roles \ {k} : DiskAfter(k, c)[j] = disk[j]
           /\ DiskAfter(k, c)[k] # Absent =>
                 \/ disk[k] # Absent /\ DiskAfter(k, c)[k].father = disk[k].father
                 \/ DiskAfter(k, c)[k].father = c.role.father
<1>1. disk \in [Roles -> Content \cup {Absent}] /\ c.role \in Content
  BY DEF IInv, TypeOK, RoleCaches
<1>2. /\ StoredRole(k, c) \in Content
      /\ \/ disk[k] # Absent /\ StoredRole(k, c).father = disk[k].father
         \/ StoredRole(k, c).father = c.role.father
  BY <1>1 DEF StoredRole, Content, Parts
<1>3. CASE c.be_change /\ WritesRole(k, c)
  <2>1. DiskAfter(k, c) = [disk EXCEPT ![k] = StoredRole(k, c)]
    BY <1>3 DEF DiskAfter
  <2> QED
    BY <1>1, <1>2, <2>1
<1>4. CASE ~(c.be_change /\ WritesRole(k, c))
  <2>1. DiskAfter(k, c) = disk
    BY <1>4 DEF DiskAfter
  <2> QED
    BY <1>1, <2>1
<1> QED
  BY <1>3, <1>4

\* A commit writes what its transaction has written.
LEMMA Commits ==
    ASSUME IInv, handler.pc = "act", handler.ask = "commit",
           NEW o, o = handler.entry.obj, NEW k, k = handler.entry.role,
           obj[o].be_delete = "NO", disk' = DiskAfter(k, obj[o]), stored' = stored,
           \A u \in Trans : Loose(u) => Loose(u)'
    PROVE  /\ disk' \in [Roles -> Content \cup {Absent}] /\ DiskOK'
           /\ k \notin stored => AllLoose(obj[o].role.father)
<1>1. PICK t : t = handler.tran
  OBVIOUS
<1>2. /\ t \in Trans /\ HandledNow(t) /\ k \in Roles /\ o \in Objs /\ RoleOK(obj[o], k)
      /\ k \notin stored => obj[o].tran_id = t
  BY <1>1, ActsOn
<1>3. obj[o] \in RoleCaches /\ obj[o].role # Absent
  BY <1>2 DEF IInv, TypeOK, RoleOK
<1>4. Loose(t)
  BY <1>1, <1>2 DEF Loose
<1>5. k \notin stored => AllLoose(obj[o].role.father)
  BY <1>2, <1>3, <1>4 DEF RoleOK, AllLoose
<1>6. /\ disk' \in [Roles -> Content \cup {Absent}]
      /\ \A j \in Roles \ {k} : disk'[j] = disk[j]
      /\ disk'[k] # Absent => \/ disk[k] # Absent /\ disk'[k].father = disk[k].father
                              \/ disk'[k].father = obj[o].role.father
  BY <1>2, <1>3, FileAfter
<1>7. DiskOK'
  <2> SUFFICES ASSUME NEW j \in Roles \ stored, disk'[j] # Absent
               PROVE  \A u \in disk'[j].father : Loose(u)'
    BY DEF DiskOK, AllLoose
  <2>1. AllLoose(disk'[j].father)
    BY <1>5, <1>6 DEF IInv, DiskOK, AllLoose
  <2>2. disk'[j].father \subseteq Trans
    BY <1>6 DEF Content, Parts
  <2> QED
    BY <2>1, <2>2 DEF AllLoose
<1> QED
  BY <1>5, <1>6, <1>7

\* Nobody but one that waits gets the role, and it is the occupier that remembers it.
GivesOnly(o, k, c) ==
    /\ \A u \in Trans, j \in Roles : \/ tran_cache'[u][j] = tran_cache[u][j]
                                     \/ j = k /\ tran_cache'[u][j] = o /\ c.tran_id = u
    /\ \A u \in Trans : \/ at'[u] = at[u]
                        \/ at'[u].pc = "idle"
                        \/ at'[u].obj = o /\ at'[u].role = k
    /\ UNCHANGED role_cache

\* The handler makes c of the role it works on, and may give it to those that wait.
LEMMA Acted ==
    ASSUME IInv, handler.pc = "act",
           NEW o, o = handler.entry.obj, NEW k, k = handler.entry.role,
           NEW h \in Handlers, GoesOn(h), h.pc # "act", NEW c, obj' = [obj EXCEPT ![o] = c],
           RoleOK(c, k), GivesOnly(o, k, c), TypeOK', TicketsOK', DiskOK', GotOK'
    PROVE  IInv'
<1> USE DEF GivesOnly
<1>0. PICK t : t = handler.tran
  OBVIOUS
<1>1. /\ LivesOK' /\ AsksOK' /\ EntriesOK'
      /\ \A u \in Trans : /\ Loose(u)' <=> Loose(u)
                          /\ HandledNow(u)' <=> HandledNow(u)
                          /\ \A j \in Roles : Passed(u, j) => Passed(u, j)'
  BY OnItGoes
<1>2. /\ t \in Trans /\ HandledNow(t) /\ k \in Roles /\ o \in Objs
      /\ Uses(o, k) /\ \A j \in Roles : Uses(o, j) => j = k
      /\ k \notin stored =>
            /\ \A e \in handler.todo : e.role # k
            /\ \A u \in Trans : tran_cache[u][k] = o => u = t
  BY <1>0, ActsOn
<1>3. TypeOK /\ obj'[o] = c /\ \A p \in Objs \ {o} : obj'[p] = obj[p]
  BY <1>2 DEF IInv, TypeOK
<1>4. UNCHANGED <<state, new_cache, stored, undone>> /\ handler' = h /\ h.todo = handler.todo
  BY DEF GoesOn
<1>5. \A p \in Objs, j \in Roles : Uses(p, j)' => Uses(p, j) \/ (p = o /\ j = k)
  BY <1>4 DEF Uses
<1>6. OneRole'
  BY <1>2, <1>5 DEF IInv, OneRole
<1>7. RolesOK'
  <2> SUFFICES ASSUME NEW p \in Objs, NEW j \in Roles, Uses(p, j)'
               PROVE  RoleOK(obj[p], j)'
    BY DEF RolesOK
  <2>1. CASE p = o
    <3>1. j = k /\ obj'[p] = c
      BY <1>2, <1>3, <1>5, <2>1
    <3>2. c \in RoleCaches
      BY <1>2, <1>3 DEF TypeOK
    <3>3. /\ c.role # Absent => c.role.father \subseteq Trans
          /\ c.role_store # Absent => c.role_store.father \subseteq Trans
      BY <3>2 DEF RoleCaches, Content, Parts
    <3> QED
      BY <1>1, <1>4, <3>1, <3>3 DEF RoleOK, AllLoose
  <2>2. CASE p # o
    BY <1>1, <1>3, <1>4, <1>5, <2>2, RoleLoosens
  <2> QED
    BY <2>1, <2>2
<1>8. HoldersOK'
  <2> SUFFICES ASSUME NEW u \in Trans, NEW j \in Roles \ stored', tran_cache'[u][j] # Nil
               PROVE  obj'[tran_cache'[u][j]].tran_id = u \/ Passed(u, j)'
    BY DEF HoldersOK
  <2>1. CASE j = k /\ tran_cache'[u][j] = o /\ c.tran_id = u
    BY <1>3, <2>1
  <2>2. CASE tran_cache'[u][j] = tran_cache[u][j] /\ tran_cache[u][j] # o
    <3>1. tran_cache[u][j] \in Objs /\ (obj[tran_cache[u][j]].tran_id = u \/ Passed(u, j))
      BY <1>3, <1>4, <2>2 DEF IInv, HoldersOK, TypeOK
    <3> QED
      BY <1>1, <1>3, <2>2, <3>1
  <2>3. CASE tran_cache'[u][j] = tran_cache[u][j] /\ tran_cache[u][j] = o
    <3>1. j = k
      BY <1>2, <2>3 DEF Uses
    <3>2. u = t /\ \A e \in handler.todo : e.role # k
      BY <1>2, <1>4, <2>3, <3>1
    <3> QED
      BY <1>1, <1>2, <1>4, <3>1, <3>2 DEF Passed
  <2> QED
    BY <2>1, <2>2, <2>3
<1> QED
  BY <1>1, <1>6, <1>7, <1>8 DEF IInv

LEMMA CommitAloneStep ==
    ASSUME IInv, CommitAlone
    PROVE  IInv'
<1>0. PICK k, o, h : k = handler.entry.role /\ o = handler.entry.obj /\ h = [handler EXCEPT !.pc = "remove"]
  OBVIOUS
<1>1. /\ handler.pc = "act" /\ handler.ask = "commit" /\ handler' = h /\ TypeOK
      /\ UNCHANGED <<role_cache, locked, state, tran_cache, new_cache, stored, at, calls, asks,
                     monitor, crashed, undone>>
  BY <1>0 DEF IInv, CommitAlone, Acts, OnTo, tranVars, newVars
<1>2. h \in Handlers /\ h.pc = "remove" /\ GoesOn(h)
  <2>1. /\ h \in Handlers
        /\ h = [pc |-> "remove", ask |-> handler.ask, by |-> handler.by, tran |-> handler.tran,
                todo |-> handler.todo, entry |-> handler.entry, waiting |-> handler.waiting]
    BY <1>0, <1>1, OnMade
  <2> QED
    BY <1>1, <2>1 DEF GoesOn
<1>3. k \in Roles /\ o \in Objs /\ RoleOK(obj[o], k)
  BY <1>0, <1>1, ActsOn
<1>4. \A u \in Trans : Loose(u)' <=> Loose(u)
  BY <1>2, OnItGoes
<1>5. obj[o] \in RoleCaches
  BY <1>1, <1>3 DEF TypeOK
<1>6. PICK c \in RoleCaches : /\ obj' = [obj EXCEPT ![o] = c] /\ RoleOK(c, k)
                              /\ c.wait_line = obj[o].wait_line
  <2>1. CASE obj[o].be_delete = "NO"
    <3> DEFINE c == [obj[o] EXCEPT !.be_change = FALSE, !.tran_id = Nil]
    <3>1. obj' = [obj EXCEPT ![o] = c] /\ disk' = DiskAfter(k, obj[o])
      BY <1>0, <1>3, <2>1 DEF CommitAlone
    <3>2. /\ c \in RoleCaches /\ c.wait_line = obj[o].wait_line /\ c.role = obj[o].role
          /\ c.role_store = obj[o].role_store /\ c.be_delete = obj[o].be_delete
      BY <1>5 DEF RoleCaches
    <3>3. k \notin stored => AllLoose(obj[o].role.father)
      BY <1>0, <1>1, <1>4, <2>1, <3>1, Commits
    <3>4. RoleOK(c, k)
      BY <1>3, <2>1, <3>2, <3>3 DEF RoleOK, AllLoose
    <3> QED
      BY <3>1, <3>2, <3>4
  <2>2. CASE obj[o].be_delete # "NO"
    <3>1. obj' = obj
      BY <1>0, <1>5, <2>2 DEF CommitAlone, RoleCaches
    <3>2. obj' = [obj EXCEPT ![o] = obj[o]]
      BY <1>1, <1>3, <3>1 DEF TypeOK
    <3> QED
      BY <1>3, <1>5, <3>2
  <2> QED
    BY <2>1, <2>2
<1>7. disk' \in [Roles -> Content \cup {Absent}] /\ DiskOK'
  <2>1. CASE obj[o].be_delete = "NO"
    <3>1. disk' = DiskAfter(k, obj[o])
      BY <1>0, <2>1 DEF CommitAlone
    <3> QED
      BY <1>0, <1>1, <1>4, <2>1, <3>1, Commits
  <2>2. CASE obj[o].be_delete # "NO"
    <3>1. disk' \in {disk, [disk EXCEPT ![k] = Absent]}
      BY <1>0, <1>5, <2>2 DEF CommitAlone, RoleCaches
    <3>2. /\ disk' \in [Roles -> Content \cup {Absent}]
          /\ \A j \in Roles : disk'[j] \in {disk[j], Absent}
      BY <1>1, <3>1 DEF TypeOK
    <3> QED
      BY <1>1, <1>4, <3>2 DEF IInv, DiskOK, AllLoose, TypeOK, Content, Parts
  <2> QED
    BY <2>1, <2>2
<1>8. TypeOK'
  BY <1>1, <1>2, <1>6, <1>7 DEF TypeOK
<1>9. TicketsOK'
  <2>1. \A p \in Objs : obj'[p].wait_line = obj[p].wait_line
    BY <1>1, <1>6 DEF TypeOK
  <2> QED
    BY <1>1, <1>2, <2>1 DEF IInv, TicketsOK
<1>10. GotOK'
  BY <1>1 DEF IInv, GotOK
<1>11. GivesOnly(o, k, c)
  BY <1>1 DEF GivesOnly
<1> QED
  BY <1>0, <1>1, <1>2, <1>6, <1>7, <1>8, <1>9, <1>10, <1>11, Acted

LEMMA CommitHandsOnStep ==
    ASSUME IInv, CommitHandsOn
    PROVE  IInv'
<1>0. PICK k, o : k = handler.entry.role /\ o = handler.entry.obj
  OBVIOUS
<1>1. /\ handler.pc = "act" /\ handler.ask = "commit" /\ obj[o].be_delete = "NO" /\ TypeOK
      /\ disk' = DiskAfter(k, obj[o]) /\ crashed' \in BOOLEAN
      /\ UNCHANGED <<role_cache, obj, locked, state, tran_cache, new_cache, stored, at, calls, asks,
                     handler, monitor, undone>>
  BY <1>0 DEF IInv, CommitHandsOn, Acts, tranVars, newVars
<1>2. \A u \in Trans : /\ Loose(u)' <=> Loose(u)
                       /\ HandledNow(u)' <=> HandledNow(u)
                       /\ \A j \in Roles : Passed(u, j)' <=> Passed(u, j)
  BY <1>1, SameHandler
<1>3. disk' \in [Roles -> Content \cup {Absent}] /\ DiskOK'
  BY <1>0, <1>1, <1>2, Commits
<1>4. TypeOK'
  BY <1>1, <1>3 DEF TypeOK
<1>5. \A o2 \in Objs, j \in Roles : Uses(o2, j)' <=> Uses(o2, j)
  BY <1>1 DEF Uses
<1>6. RolesOK'
  BY <1>1, <1>2, <1>5, RoleLoosens DEF RolesOK
<1>7. OneRole'
  BY <1>5 DEF IInv, OneRole
<1>8. LivesOK' /\ HoldersOK'
  BY <1>1, <1>2 DEF IInv, LivesOK, HoldersOK
<1>9. AsksOK' /\ EntriesOK'
  BY <1>1 DEF IInv, AsksOK, Asker, EntriesOK, EntryOK
<1>10. TicketsOK' /\ GotOK'
  BY <1>1 DEF IInv, TicketsOK, GotOK
<1> QED
  BY <1>3, <1>4, <1>6, <1>7, <1>8, <1>9, <1>10 DEF IInv

\* What those that wait get to know.
LEMMA WokenFacts ==
    ASSUME TypeOK, NEW u \in Trans, at[u].pc = "wait", NEW have \in BOOLEAN
    PROVE  LET w == Woken(u, have)
           IN  /\ w \in Calls /\ w.pc \in {"idle", "got", "told"}
               /\ w.pc = "told" => w.op.effect = "store"
               /\ w.pc = "got" => w.op.effect # "store" /\ have
               /\ w.pc # "idle" => w.op = at[u].op /\ w.role = at[u].role /\ w.obj = at[u].obj
<1>1. /\ at[u].op \in Ops /\ at[u].role \in Roles /\ at[u].obj \in Objs
      /\ at[u] = [pc |-> at[u].pc, op |-> at[u].op, role |-> at[u].role, obj |-> at[u].obj]
  BY CallCases DEF TypeOK
<1>2. ASSUME NEW pc \in {"got", "told"}
      PROVE  /\ [at[u] EXCEPT !.pc = pc] \in Calls /\ [at[u] EXCEPT !.pc = pc].pc = pc
             /\ [at[u] EXCEPT !.pc = pc].op = at[u].op
             /\ [at[u] EXCEPT !.pc = pc].role = at[u].role
             /\ [at[u] EXCEPT !.pc = pc].obj = at[u].obj
  <2>1. [at[u] EXCEPT !.pc = pc] =
            [pc |-> pc, op |-> at[u].op, role |-> at[u].role, obj |-> at[u].obj]
    BY <1>1
  <2>2. [pc |-> pc, op |-> at[u].op, role |-> at[u].role, obj |-> at[u].obj] \in Calls
    BY <1>1, CallMade
  <2> QED
    BY <2>1, <2>2
<1>3. CASE at[u].op.effect = "store"
  <2>1. Woken(u, have) = [at[u] EXCEPT !.pc = "told"]
    BY <1>3 DEF Woken
  <2> QED
    BY <1>2, <1>3, <2>1
<1>4. CASE at[u].op.effect # "store" /\ have
  <2>1. Woken(u, have) = [at[u] EXCEPT !.pc = "got"]
    BY <1>4 DEF Woken
  <2> QED
    BY <1>2, <1>4, <2>1
<1>5. CASE at[u].op.effect # "store" /\ ~have
  <2>1. Woken(u, have) = Idle
    BY <1>5 DEF Woken
  <2> QED
    BY <2>1, CallMade DEF Idle
<1> QED
  BY <1>3, <1>4, <1>5

LEMMA CommitDeletesStep ==
    ASSUME IInv, CommitDeletes
    PROVE  IInv'
<1> DEFINE toldIn(l) == {i \in DOMAIN l : \A j \in 1 .. i : ~l[j].told}
           all(l) == [i \in DOMAIN l |-> [l[i] EXCEPT !.told = TRUE]]
<1>0. PICK k, o, line : k = handler.entry.role /\ o = handler.entry.obj /\ line = obj[o].wait_line
  OBVIOUS
<1>1. PICK waiters : waiters = {line[i].tran : i \in toldIn(line)}
  OBVIOUS
<1>2. PICK pc \in {"remove", "stuck"} : handler' = [handler EXCEPT !.pc = pc]
  BY DEF CommitDeletes, OnTo
<1>3. /\ handler.pc = "act" /\ TypeOK
      /\ disk' = [disk EXCEPT ![k] = Absent]
      /\ obj' = [obj EXCEPT ![o].role = Absent, ![o].tran_id = Nil, ![o].be_delete = "COMMIT",
                            ![o].wait_line = all(line)]
      /\ at' = [u \in Trans |-> IF u \in waiters THEN Woken(u, FALSE) ELSE at[u]]
      /\ UNCHANGED <<role_cache, locked, state, tran_cache, new_cache, stored, calls, asks, monitor,
                     crashed, undone>>
  BY <1>0, <1>1 DEF IInv, CommitDeletes, Acts, newVars
<1>4. PICK h : h = [handler EXCEPT !.pc = pc]
  OBVIOUS
<1>5. k \in Roles /\ o \in Objs /\ RoleOK(obj[o], k) /\ \A j \in Roles : Uses(o, j) => j = k
  BY <1>0, <1>3, ActsOn
<1>6. /\ obj[o] \in RoleCaches /\ line \in Seq([tran : Trans, told : BOOLEAN])
      /\ DOMAIN line = 1 .. Len(line) /\ Len(line) \in Nat
      /\ \A i \in 1 .. Len(line) : line[i] \in [tran : Trans, told : BOOLEAN]
  <2>1. obj[o] \in RoleCaches /\ line \in Seq([tran : Trans, told : BOOLEAN])
    BY <1>0, <1>3, <1>5 DEF TypeOK, RoleCaches
  <2> QED
    BY <2>1, LenProperties, ElementOfSeq
<1>7. \A u \in waiters : u \in Trans /\ at[u].pc = "wait" /\ at[u].obj = o /\ at[u].role = k
  <2> SUFFICES ASSUME NEW u \in waiters
               PROVE  u \in Trans /\ at[u].pc = "wait" /\ at[u].obj = o /\ at[u].role = k
    OBVIOUS
  <2>1. PICK i \in 1 .. Len(line) : u = line[i].tran /\ ~line[i].told
    BY <1>1, <1>6
  <2>2. u \in Trans /\ at[u].pc = "wait" /\ at[u].obj = o
    BY <1>0, <1>5, <1>6, <2>1 DEF IInv, TicketsOK
  <2>3. at[u].role \in Roles /\ Uses(o, at[u].role)
    BY <1>3, <2>2, CallCases DEF TypeOK, Uses
  <2> QED
    BY <1>5, <2>2, <2>3
<1>8. /\ at' \in [Trans -> Calls]
      /\ \A u \in Trans \ waiters : at'[u] = at[u]
      /\ \A u \in waiters :
            /\ at'[u].pc \in {"idle", "told"}
            /\ at'[u].pc = "told" => /\ at'[u].op.effect = "store"
                                     /\ at'[u].obj = o /\ at'[u].role = k
  <2>1. \A u \in waiters :
            /\ Woken(u, FALSE) \in Calls /\ Woken(u, FALSE).pc \in {"idle", "told"}
            /\ Woken(u, FALSE).pc = "told" =>
                  /\ Woken(u, FALSE).op.effect = "store"
                  /\ Woken(u, FALSE).obj = o /\ Woken(u, FALSE).role = k
    BY <1>3, <1>7, WokenFacts
  <2> QED
    BY <1>3, <1>7, <2>1 DEF TypeOK
<1>9. h \in Handlers /\ h.pc \in {"remove", "stuck"} /\ GoesOn(h)
  <2>1. /\ h \in Handlers
        /\ h = [pc |-> pc, ask |-> handler.ask, by |-> handler.by, tran |-> handler.tran,
                todo |-> handler.todo, entry |-> handler.entry, waiting |-> handler.waiting]
    BY <1>3, <1>4, OnMade
  <2> QED
    BY <1>2, <1>3, <1>4, <1>7, <1>8, <2>1 DEF GoesOn
<1>10. \A u \in Trans : Loose(u)' <=> Loose(u)
  BY <1>9, OnItGoes
<1>11. /\ all(line) \in Seq([tran : Trans, told : BOOLEAN]) /\ Len(all(line)) = Len(line)
       /\ \A i \in 1 .. Len(line) : all(line)[i].told
  <2>1. \A i \in 1 .. Len(line) : [line[i] EXCEPT !.told = TRUE] \in [tran : Trans, told : BOOLEAN]
                                  /\ [line[i] EXCEPT !.told = TRUE].told
    BY <1>6
  <2>2. all(line) \in [1 .. Len(line) -> [tran : Trans, told : BOOLEAN]]
    BY <1>6, <2>1
  <2>3. all(line) \in Seq([tran : Trans, told : BOOLEAN]) /\ Len(all(line)) = Len(line)
    BY <1>6, <2>2, SeqDef, LenProperties
  <2> QED
    BY <1>6, <2>1, <2>3
<1>12. PICK new : new = all(line)
  OBVIOUS
<1>13. PICK c : c = [obj[o] EXCEPT !.role = Absent, !.tran_id = Nil, !.be_delete = "COMMIT", !.wait_line = new]
  OBVIOUS
<1>14. obj' = [obj EXCEPT ![o] = c]
  <2> HIDE DEF all
  <2> QED
    BY <1>3, <1>5, <1>12, <1>13 DEF TypeOK
<1>15. /\ c \in RoleCaches /\ c.role = Absent /\ c.be_delete = "COMMIT" /\ c.wait_line = new
       /\ c.role_store = obj[o].role_store
  <2> HIDE DEF all
  <2> QED
    BY <1>6, <1>11, <1>12, <1>13 DEF RoleCaches
<1>16. RoleOK(c, k)
  BY <1>5, <1>15 DEF RoleOK
<1>17. /\ disk' \in [Roles -> Content \cup {Absent}]
       /\ \A j \in Roles : disk'[j] \in {disk[j], Absent}
  BY <1>3 DEF TypeOK
<1>18. DiskOK'
  BY <1>3, <1>10, <1>17 DEF IInv, DiskOK, AllLoose, TypeOK, Content, Parts
<1>19. TypeOK'
  <2>1. handler' \in Handlers
    BY <1>2, <1>4, <1>9
  <2>2. obj' \in [Objs -> RoleCaches]
    BY <1>3, <1>14, <1>15 DEF TypeOK
  <2>3. UNCHANGED <<role_cache, locked, state, tran_cache, new_cache, stored, calls, asks, monitor,
                    crashed, undone>> /\ TypeOK
    BY <1>3
  <2> QED
    BY <1>8, <1>17, <2>1, <2>2, <2>3 DEF TypeOK
<1>20. TicketsOK'
  <2>1. obj'[o] = c /\ \A p \in Objs \ {o} : obj'[p] = obj[p]
    BY <1>3, <1>5, <1>14 DEF TypeOK
  <2>2. ASSUME NEW p \in Objs, p # o
        PROVE  LET l == obj'[p].wait_line
               IN  /\ \A i \in 1 .. Len(l) : ~l[i].told =>
                          at'[l[i].tran].pc = "wait" /\ at'[l[i].tran].obj = p
                   /\ \A i, j \in 1 .. Len(l) :
                          ~l[i].told /\ ~l[j].told /\ l[i].tran = l[j].tran => i = j
    <3>1. \A i \in 1 .. Len(obj[p].wait_line) : obj[p].wait_line[i].tran \in Trans
      BY <1>3, LineType
    <3>2. obj'[p].wait_line = obj[p].wait_line
      BY <2>1, <2>2
    <3> QED
      BY <1>7, <1>8, <2>2, <3>1, <3>2 DEF IInv, TicketsOK
  <2>3. \A i \in 1 .. Len(obj'[o].wait_line) : obj'[o].wait_line[i].told
    <3> HIDE DEF all
    <3> QED
      BY <1>11, <1>12, <1>15, <2>1
  <2>4. handler'.pc # "act"
    BY <1>2, <1>4, <1>9
  <2> QED
    BY <2>2, <2>3, <2>4 DEF TicketsOK
<1>21. GotOK'
  <2>1. \A u \in Trans : at'[u].pc = "got" => at'[u] = at[u]
    BY <1>8
  <2> QED
    BY <1>3, <2>1 DEF IInv, GotOK
<1>22. GivesOnly(o, k, c) /\ handler.pc = "act"
  BY <1>3, <1>8 DEF GivesOnly
<1> QED
  BY <1>0, <1>9, <1>14, <1>16, <1>18, <1>19, <1>20, <1>21, <1>22, Acted

\* A rollback puts role_store back and takes the head off the line.
LEMMA RestoredFacts ==
    ASSUME TypeOK, NEW o \in Objs, NEW k \in Roles, RoleOK(obj[o], k), NEW u \in Trans,
           obj[o].wait_line # << >>
    PROVE  LET c == Restored(obj[o], u)
           IN  /\ c \in RoleCaches /\ RoleOK(c, k) /\ c.tran_id = u
               /\ c.wait_line = Tail(obj[o].wait_line)
<1> DEFINE b == obj[o]
           r == IF b.be_delete = "COMMIT" THEN b.role ELSE b.role_store
           d == IF b.be_delete = "YES" THEN "NO" ELSE b.be_delete
           back == IF b.be_delete = "COMMIT" THEN b
                   ELSE [b EXCEPT !.role = b.role_store, !.dirty = b.store_dirty, !.shared = Shareable]
<1>1. b \in RoleCaches
  BY DEF TypeOK
<1>2. /\ back \in RoleCaches /\ back.role = r /\ back.role_store = b.role_store
      /\ back.be_delete = b.be_delete /\ back.wait_line = b.wait_line
  BY <1>1 DEF RoleCaches
<1>3. Tail(b.wait_line) \in Seq([tran : Trans, told : BOOLEAN])
  BY <1>1, HeadTailProperties DEF RoleCaches
<1>4. Restored(b, u) = [back EXCEPT !.be_delete = d, !.be_change = FALSE, !.tran_id = u,
                                    !.wait_line = Tail(b.wait_line)]
  <2>1. Restored(b, u) = [back EXCEPT !.be_delete = IF back.be_delete = "YES" THEN "NO" ELSE back.be_delete,
                                      !.be_change = FALSE, !.tran_id = u,
                                      !.wait_line = Tail(back.wait_line)]
    BY DEF Restored
  <2> HIDE DEF back
  <2> QED
    BY <1>2, <2>1
<1> HIDE DEF back, b
<1>5. PICK c : c = Restored(b, u)
  OBVIOUS
<1>6. /\ c \in RoleCaches /\ c.role = r /\ c.role_store = b.role_store /\ c.tran_id = u
      /\ c.wait_line = Tail(b.wait_line) /\ c.be_delete = d
  <2>1. d \in {"NO", "YES", "COMMIT"}
    BY <1>1 DEF RoleCaches
  <2> HIDE DEF d, r
  <2> QED
    BY <1>2, <1>3, <1>4, <1>5, <2>1 DEF RoleCaches
<1>7. RoleOK(c, k)
  <2>1. c.role = Absent => c.be_delete # "NO"
    BY <1>6 DEF RoleOK, b
  <2>2. ASSUME k \notin stored
        PROVE  /\ c.be_delete = "COMMIT" => c.role = Absent
               /\ AllLoose(c.role_store.father)
               /\ c.role # Absent => AllLoose(c.role.father \ {c.tran_id})
    BY <1>6, <2>2 DEF RoleOK, AllLoose, b
  <2> QED
    BY <1>6, <2>1, <2>2 DEF RoleOK, b
<1> QED
  BY <1>5, <1>6, <1>7 DEF b

LEMMA HeadServed ==
    ASSUME IInv, NEW o \in Objs, obj[o].wait_line # << >>,
           obj'[o].wait_line = Tail(obj[o].wait_line), \A p \in Objs \ {o} : obj'[p] = obj[p],
           \A u \in Trans : \/ at'[u] = at[u]
                            \/ u = Head(obj[o].wait_line).tran /\ ~Head(obj[o].wait_line).told,
           handler'.pc # "act"
    PROVE  TicketsOK'
<1> DEFINE line == obj[o].wait_line
<1>1. /\ line \in Seq([tran : Trans, told : BOOLEAN]) /\ Len(line) \in Nat /\ Len(line) > 0
      /\ \A i \in 1 .. Len(line) : line[i].tran \in Trans
  <2>1. line \in Seq([tran : Trans, told : BOOLEAN]) /\ \A i \in 1 .. Len(line) : line[i].tran \in Trans
    BY LineType DEF IInv
  <2>2. line # << >>
    OBVIOUS
  <2> HIDE DEF line
  <2> QED
    BY <2>1, <2>2, EmptySeq, LenProperties
<1>2. /\ Head(line) = line[1] /\ Len(Tail(line)) = Len(line) - 1
      /\ \A i \in 1 .. Len(Tail(line)) : Tail(line)[i] = line[i + 1]
  BY <1>1, HeadTailProperties
<1>3. /\ \A i \in 1 .. Len(line) : ~line[i].told => at[line[i].tran].pc = "wait" /\ at[line[i].tran].obj = o
      /\ \A i, j \in 1 .. Len(line) : ~line[i].told /\ ~line[j].told /\ line[i].tran = line[j].tran => i = j
  BY DEF IInv, TicketsOK
<1> HIDE DEF line
<1>4. ASSUME NEW i \in 1 .. Len(Tail(line))
      PROVE  i + 1 \in 1 .. Len(line) /\ i + 1 # 1 /\ 1 \in 1 .. Len(line)
  BY <1>1, <1>2
<1>5. ASSUME NEW i \in 1 .. Len(Tail(line)), ~Tail(line)[i].told
      PROVE  at'[Tail(line)[i].tran].pc = "wait" /\ at'[Tail(line)[i].tran].obj = o
  <2>1. /\ i + 1 \in 1 .. Len(line) /\ 1 \in 1 .. Len(line) /\ i + 1 # 1
        /\ Tail(line)[i] = line[i + 1] /\ ~line[i + 1].told
    BY <1>2, <1>4, <1>5
  <2>2. at'[line[i + 1].tran] = at[line[i + 1].tran]
    BY <1>1, <1>2, <1>3, <2>1 DEF line
  <2> QED
    BY <1>3, <2>1, <2>2
<1>6. ASSUME NEW i \in 1 .. Len(Tail(line)), NEW j \in 1 .. Len(Tail(line)),
             ~Tail(line)[i].told, ~Tail(line)[j].told, Tail(line)[i].tran = Tail(line)[j].tran
      PROVE  i = j
  <2>1. /\ i + 1 \in 1 .. Len(line) /\ j + 1 \in 1 .. Len(line)
        /\ Tail(line)[i] = line[i + 1] /\ Tail(line)[j] = line[j + 1]
    BY <1>2, <1>4
  <2>2. i + 1 = j + 1
    BY <1>3, <1>6, <2>1
  <2> QED
    BY <2>2
<1>7. ASSUME NEW p \in Objs, p # o
      PROVE  LET l == obj'[p].wait_line
             IN  /\ \A i \in 1 .. Len(l) : ~l[i].told =>
                        at'[l[i].tran].pc = "wait" /\ at'[l[i].tran].obj = p
                 /\ \A i, j \in 1 .. Len(l) :
                        ~l[i].told /\ ~l[j].told /\ l[i].tran = l[j].tran => i = j
  <2>1. \A i \in 1 .. Len(obj[p].wait_line) : obj[p].wait_line[i].tran \in Trans
    BY LineType DEF IInv
  <2>2. obj'[p].wait_line = obj[p].wait_line
    BY <1>7
  <2>3. ~line[1].told => at[line[1].tran].obj = o
    BY <1>1, <1>3
  <2>4. \A u \in Trans : at[u].obj = p => at'[u] = at[u]
    BY <1>2, <1>7, <2>3 DEF line
  <2> QED
    BY <2>1, <2>2, <2>4 DEF IInv, TicketsOK
<1>8. obj'[o].wait_line = Tail(line)
  BY DEF line
<1>9. ASSUME NEW p \in Objs
      PROVE  LET l == obj'[p].wait_line
             IN  /\ \A i \in 1 .. Len(l) : ~l[i].told =>
                        at'[l[i].tran].pc = "wait" /\ at'[l[i].tran].obj = p
                 /\ \A i, j \in 1 .. Len(l) :
                        ~l[i].told /\ ~l[j].told /\ l[i].tran = l[j].tran => i = j
  <2>1. CASE p = o
    <3>1. obj'[p].wait_line = Tail(line)
      BY <1>8, <2>1
    <3>2. \A i \in 1 .. Len(Tail(line)) : ~Tail(line)[i].told =>
              at'[Tail(line)[i].tran].pc = "wait" /\ at'[Tail(line)[i].tran].obj = p
      BY <1>5, <2>1
    <3>3. \A i, j \in 1 .. Len(Tail(line)) :
              ~Tail(line)[i].told /\ ~Tail(line)[j].told
              /\ Tail(line)[i].tran = Tail(line)[j].tran => i = j
      BY <1>6
    <3> QED
      BY <3>1, <3>2, <3>3
  <2>2. CASE p # o
    BY <1>7, <2>2
  <2> QED
    BY <2>1, <2>2
<1> QED
  BY <1>9 DEF TicketsOK

LEMMA RollbackHandsOnStep ==
    ASSUME IInv, RollbackHandsOn
    PROVE  IInv'
<1>0. PICK k, o, u : k = handler.entry.role /\ o = handler.entry.obj /\ u = Head(obj[o].wait_line).tran
  OBVIOUS
<1>1. PICK h : h = [pc |-> "look", ask |-> handler.ask, by |-> handler.by, tran |-> handler.tran,
                    todo |-> handler.todo]
  OBVIOUS
<1>2. /\ handler.pc = "act" /\ handler.waiting = TRUE /\ TypeOK /\ handler' = h
      /\ ~Head(obj[o].wait_line).told
      /\ obj' = [obj EXCEPT ![o] = Restored(obj[o], u)]
      /\ at' = [at EXCEPT ![u] = Woken(u, TRUE)]
      /\ tran_cache' = IF at[u].op.effect = "store" THEN tran_cache
                       ELSE [tran_cache EXCEPT ![u][at[u].role] = o]
      /\ UNCHANGED <<disk, role_cache, locked, state, new_cache, stored, calls, asks, monitor,
                     crashed, undone>>
  BY <1>0, <1>1 DEF IInv, RollbackHandsOn, Acts, OnToNext, newVars
<1>3. k \in Roles /\ o \in Objs /\ RoleOK(obj[o], k) /\ \A j \in Roles : Uses(o, j) => j = k
  BY <1>0, <1>2, ActsOn
<1>4. obj[o].wait_line # << >> /\ handler \in Handlers
  BY <1>0, <1>2 DEF IInv, TicketsOK, TypeOK
<1>5. u \in Trans /\ at[u].pc = "wait" /\ at[u].obj = o
  <2>1. Len(obj[o].wait_line) > 0 /\ Head(obj[o].wait_line) = obj[o].wait_line[1]
    BY <1>2, <1>3, <1>4, LineType, HeadTailProperties, EmptySeq, LenProperties
  <2>2. 1 \in 1 .. Len(obj[o].wait_line)
    BY <1>2, <1>3, <2>1, LineType
  <2>3. obj[o].wait_line[1].tran \in Trans
    BY <1>2, <1>3, <2>2, LineType
  <2>4. ~obj[o].wait_line[1].told =>
            at[obj[o].wait_line[1].tran].pc = "wait" /\ at[obj[o].wait_line[1].tran].obj = o
    BY <1>3, <2>2 DEF IInv, TicketsOK
  <2> QED
    BY <1>0, <1>2, <2>1, <2>3, <2>4
<1>6. at[u].role = k
  BY <1>2, <1>3, <1>5, CallCases DEF TypeOK, Uses
<1>7. PICK w : w = Woken(u, TRUE)
  OBVIOUS
<1>8. /\ w \in Calls /\ w.pc \in {"idle", "got", "told"}
      /\ w.pc = "told" => w.op.effect = "store"
      /\ w.pc = "got" => w.op.effect # "store"
      /\ w.pc # "idle" => w.op = at[u].op /\ w.role = k /\ w.obj = o
  BY <1>2, <1>5, <1>6, <1>7, WokenFacts
<1>9. at' \in [Trans -> Calls] /\ at'[u] = w /\ \A v \in Trans \ {u} : at'[v] = at[v]
  BY <1>2, <1>5, <1>7, <1>8 DEF TypeOK
<1>10. /\ tran_cache' \in [Trans -> [Roles -> Objs \cup {Nil}]]
       /\ \A v \in Trans \ {u} : tran_cache'[v] = tran_cache[v]
       /\ \A j \in Roles \ {k} : tran_cache'[u][j] = tran_cache[u][j]
       /\ tran_cache'[u][k] = IF at[u].op.effect = "store" THEN tran_cache[u][k] ELSE o
  <2>1. CASE at[u].op.effect = "store"
    BY <1>2, <2>1 DEF TypeOK
  <2>2. CASE at[u].op.effect # "store"
    <3>1. tran_cache' = [tran_cache EXCEPT ![u][k] = o]
      BY <1>2, <1>6, <2>2
    <3>2. tran_cache \in [Trans -> [Roles -> Objs \cup {Nil}]] /\ tran_cache[u] \in [Roles -> Objs \cup {Nil}]
      BY <1>2, <1>5 DEF TypeOK
    <3>3. tran_cache'[u] = [tran_cache[u] EXCEPT ![k] = o] /\ tran_cache'[u] \in [Roles -> Objs \cup {Nil}]
      BY <1>3, <1>5, <3>1, <3>2
    <3> QED
      BY <1>3, <1>5, <2>2, <3>1, <3>2, <3>3
  <2> QED
    BY <2>1, <2>2
<1>11. h \in Handlers /\ h.pc = "look" /\ GoesOn(h)
  <2>1. h \in Handlers
    BY <1>1, <1>2, OnMade
  <2>2. \A v \in Trans : \/ \A j \in Roles : tran_cache'[v][j] = tran_cache[v][j]
                         \/ at[v].pc = "wait"
    BY <1>5, <1>10
  <2>3. \A v \in Trans :
            \/ at'[v] = at[v]
            \/ /\ at[v].pc = "wait" /\ at'[v].pc \in {"idle", "got", "told"}
               /\ at'[v].pc = "told" => at'[v].op.effect = "store"
    BY <1>5, <1>8, <1>9
  <2> QED
    BY <1>1, <1>2, <2>1, <2>2, <2>3 DEF GoesOn
<1>12. PICK c : c = Restored(obj[o], u)
  OBVIOUS
<1>13. /\ c \in RoleCaches /\ RoleOK(c, k) /\ c.tran_id = u /\ c.wait_line = Tail(obj[o].wait_line)
       /\ obj' = [obj EXCEPT ![o] = c]
  BY <1>2, <1>3, <1>4, <1>5, <1>12, RestoredFacts
<1>14. obj'[o] = c /\ \A p \in Objs \ {o} : obj'[p] = obj[p]
  BY <1>2, <1>3, <1>13 DEF TypeOK
<1>15. TypeOK'
  <2>1. handler' \in Handlers
    BY <1>2, <1>11
  <2>2. obj' \in [Objs -> RoleCaches]
    BY <1>2, <1>13 DEF TypeOK
  <2>3. UNCHANGED <<disk, role_cache, locked, state, new_cache, stored, calls, asks, monitor,
                    crashed, undone>> /\ TypeOK
    BY <1>2
  <2> QED
    BY <1>9, <1>10, <2>1, <2>2, <2>3 DEF TypeOK
<1>16. TicketsOK'
  <2>1. handler'.pc # "act"
    BY <1>2, <1>11
  <2>2. \A v \in Trans : \/ at'[v] = at[v]
                         \/ v = Head(obj[o].wait_line).tran /\ ~Head(obj[o].wait_line).told
    BY <1>0, <1>2, <1>9
  <2> QED
    BY <1>3, <1>4, <1>13, <1>14, <2>1, <2>2, HeadServed
<1>17. DiskOK'
  <2>1. \A v \in Trans : Loose(v)' <=> Loose(v)
    BY <1>11, OnItGoes
  <2> QED
    BY <1>2, <2>1 DEF IInv, DiskOK, AllLoose, TypeOK, Content, Parts
<1>18. GotOK'
  <2> SUFFICES ASSUME NEW v \in Trans, at'[v].pc = "got"
               PROVE  /\ at'[v].op.effect = "store" => at'[v].role \in stored'
                      /\ (at'[v].op.lock = "WRITE" /\ at'[v].role \notin stored') =>
                             \/ tran_cache'[v][at'[v].role] = at'[v].obj
                             \/ state'[v] = "ended" /\ v \notin undone'
    BY DEF GotOK
  <2>1. CASE v = u
    <3>1. w.pc = "got" /\ w.op.effect # "store" /\ w.op = at[u].op /\ w.role = k /\ w.obj = o
      BY <1>8, <1>9, <2>1
    <3>2. tran_cache'[u][k] = o
      BY <1>10, <3>1
    <3> QED
      BY <1>9, <2>1, <3>1, <3>2
  <2>2. CASE v # u
    BY <1>2, <1>9, <1>10, <2>2 DEF IInv, GotOK
  <2> QED
    BY <2>1, <2>2
<1>19. GivesOnly(o, k, c) /\ handler.pc = "act"
  <2>1. ASSUME NEW v \in Trans, NEW j \in Roles
        PROVE  \/ tran_cache'[v][j] = tran_cache[v][j]
               \/ j = k /\ tran_cache'[v][j] = o /\ c.tran_id = v
    BY <1>10, <1>13
  <2>2. ASSUME NEW v \in Trans
        PROVE  \/ at'[v] = at[v]
               \/ at'[v].pc = "idle"
               \/ at'[v].obj = o /\ at'[v].role = k
    BY <1>8, <1>9
  <2>3. role_cache' = role_cache /\ handler.pc = "act"
    BY <1>2
  <2> QED
    BY <2>1, <2>2, <2>3 DEF GivesOnly
<1> QED
  BY <1>0, <1>11, <1>13, <1>15, <1>16, <1>17, <1>18, <1>19, Acted

LEMMA RollbackStuckStep ==
    ASSUME IInv, RollbackStuck
    PROVE  IInv'
<1>0. PICK k, o, u, h : /\ k = handler.entry.role /\ o = handler.entry.obj
                        /\ u = Head(obj[o].wait_line).tran /\ h = [handler EXCEPT !.pc = "stuck"]
  OBVIOUS
<1>1. /\ handler.pc = "act" /\ handler.waiting = TRUE /\ TypeOK /\ handler' = h
      /\ obj' = [obj EXCEPT ![o] = Restored(obj[o], u)]
      /\ UNCHANGED <<disk, role_cache, locked, state, tran_cache, new_cache, stored, at, calls, asks,
                     monitor, crashed, undone>>
  BY <1>0 DEF IInv, RollbackStuck, Acts, OnTo, tranVars, newVars
<1>2. k \in Roles /\ o \in Objs /\ RoleOK(obj[o], k)
  BY <1>0, <1>1, ActsOn
<1>3. obj[o].wait_line # << >>
  BY <1>0, <1>1 DEF IInv, TicketsOK
<1>4. u \in Trans
  <2>1. Len(obj[o].wait_line) > 0 /\ Head(obj[o].wait_line) = obj[o].wait_line[1]
    BY <1>1, <1>2, <1>3, LineType, HeadTailProperties, EmptySeq, LenProperties
  <2>2. 1 \in 1 .. Len(obj[o].wait_line)
    BY <1>1, <1>2, <2>1, LineType
  <2> QED
    BY <1>0, <1>1, <1>2, <2>1, <2>2, LineType
<1>5. h \in Handlers /\ h.pc = "stuck" /\ GoesOn(h)
  <2>1. /\ h \in Handlers
        /\ h = [pc |-> "stuck", ask |-> handler.ask, by |-> handler.by, tran |-> handler.tran,
                todo |-> handler.todo, entry |-> handler.entry, waiting |-> handler.waiting]
    BY <1>0, <1>1, OnMade
  <2> QED
    BY <1>1, <2>1 DEF GoesOn
<1>6. PICK c : c = Restored(obj[o], u)
  OBVIOUS
<1>7. /\ c \in RoleCaches /\ RoleOK(c, k) /\ c.wait_line = Tail(obj[o].wait_line)
      /\ obj' = [obj EXCEPT ![o] = c]
  BY <1>1, <1>2, <1>3, <1>4, <1>6, RestoredFacts
<1>8. obj'[o] = c /\ \A p \in Objs \ {o} : obj'[p] = obj[p]
  BY <1>1, <1>2, <1>7 DEF TypeOK
<1>9. TypeOK'
  <2>1. handler' \in Handlers
    BY <1>1, <1>5
  <2>2. obj' \in [Objs -> RoleCaches]
    BY <1>1, <1>7 DEF TypeOK
  <2>3. UNCHANGED <<disk, role_cache, locked, state, tran_cache, new_cache, stored, at, calls, asks,
                    monitor, crashed, undone>> /\ TypeOK
    BY <1>1
  <2> QED
    BY <2>1, <2>2, <2>3 DEF TypeOK
<1>10. TicketsOK'
  BY <1>1, <1>2, <1>3, <1>5, <1>7, <1>8, HeadServed
<1>11. DiskOK'
  <2>1. \A v \in Trans : Loose(v)' <=> Loose(v)
    BY <1>5, OnItGoes
  <2> QED
    BY <1>1, <2>1 DEF IInv, DiskOK, AllLoose, TypeOK, Content, Parts
<1>12. GotOK'
  BY <1>1 DEF IInv, GotOK
<1>13. GivesOnly(o, k, c) /\ handler.pc = "act"
  BY <1>1 DEF GivesOnly
<1> QED
  BY <1>0, <1>5, <1>7, <1>9, <1>10, <1>11, <1>12, <1>13, Acted

----------------------------------------------------------------------------
(* The theorems.                                                           *)

LEMMA InitOK == Init => IInv
<1> SUFFICES ASSUME Init
             PROVE  IInv
  OBVIOUS
<1>1. /\ disk \in [Roles -> {[p \in Parts |-> {}], Absent}]
      /\ role_cache = [k \in Roles |-> Nil]
      /\ obj = [o \in Objs |-> RoleCache(Absent, {}, FALSE, Nil)]
      /\ locked = FALSE /\ state = [t \in Trans |-> "new"]
      /\ tran_cache = [t \in Trans |-> [k \in Roles |-> Nil]]
      /\ new_cache = [t \in Trans |-> [k \in Roles |-> Nil]]
      /\ at = [t \in Trans |-> Idle] /\ calls = [t \in Trans |-> 0] /\ asks = {}
      /\ handler = Nobody /\ monitor = [expired |-> {}, asked |-> Nil]
      /\ crashed = FALSE /\ undone = {} /\ stored = {}
  BY DEF Init
<1>2. Idle \in Calls /\ Idle.pc = "idle" /\ Nobody \in Handlers /\ Nobody.pc = "idle"
  BY CallMade DEF Idle, Handlers, Nobody
<1>3. /\ RoleCache(Absent, {}, FALSE, Nil) \in RoleCaches
      /\ RoleCache(Absent, {}, FALSE, Nil).wait_line = << >>
  BY EmptySeq DEF RoleCache, RoleCaches, Shareable
<1>4. /\ disk \in [Roles -> Content \cup {Absent}]
      /\ \A k \in Roles : disk[k] # Absent => disk[k].father = {}
  <2>1. [p \in Parts |-> {}] \in Content /\ [p \in Parts |-> {}].father = {}
    BY DEF Content, Parts
  <2> QED
    BY <1>1, <2>1
<1>5. TypeOK
  BY <1>1, <1>2, <1>3, <1>4 DEF TypeOK
<1>6. \A o \in Objs, k \in Roles : ~Uses(o, k)
  BY <1>1, <1>2, Markers DEF Uses
<1>7. OneRole /\ RolesOK
  BY <1>6 DEF OneRole, RolesOK
<1>8. LivesOK /\ AsksOK /\ EntriesOK /\ HoldersOK /\ GotOK
  BY <1>1, <1>2 DEF LivesOK, AsksOK, EntriesOK, HoldersOK, GotOK
<1>9. TicketsOK
  <2>1. \A o \in Objs : obj[o].wait_line = << >>
    BY <1>1, <1>3
  <2>2. handler.pc # "act"
    BY <1>1, <1>2
  <2>3. \A o \in Objs : 1 .. Len(obj[o].wait_line) = {}
    BY <2>1
  <2> QED
    BY <2>2, <2>3 DEF TicketsOK
<1>10. DiskOK
  BY <1>4 DEF DiskOK, AllLoose
<1> QED
  BY <1>5, <1>7, <1>8, <1>9, <1>10 DEF IInv

LEMMA StutterOK == IInv /\ UNCHANGED vars => IInv'
<1> SUFFICES ASSUME IInv, UNCHANGED vars
             PROVE  IInv'
  OBVIOUS
<1>1. UNCHANGED <<disk, role_cache, obj, locked, state, tran_cache, new_cache, stored, at, calls,
                  asks, handler, monitor, crashed, undone>>
  BY DEF vars, storeVars, tranVars, newVars
<1>2. TypeOK'
  BY <1>1 DEF IInv, TypeOK
<1>3. LivesOK' /\ AsksOK'
  BY <1>1 DEF IInv, LivesOK, HandledNow, AsksOK, Asker
<1> QED
  BY <1>1, <1>2, <1>3, BesidesHandler DEF newVars

LEMMA GetStep ==
    ASSUME IInv, NEW t \in Trans, Get(t)
    PROVE  IInv'
BY GetOwnStep, GetAfterEndStep, GetBlockedStep, GetLoadStep, AddNewStep, GivesUpStep, GetCachedStep,
   AddCachedStep, WaitStep, AddAfterWaitStep, UseStep, SendStep DEF Get

LEMMA HandleStep ==
    ASSUME IInv, Handle
    PROVE  IInv'
BY TakeStep, LockStep, LookStep, CommitAloneStep, CommitHandsOnStep, CommitDeletesStep,
   CommitPassesStep, RemoveFromCacheStep, RollbackAloneStep, RollbackHandsOnStep, RollbackStuckStep,
   FinishStep DEF Handle

LEMMA NextOK == IInv /\ Next => IInv'
<1> SUFFICES ASSUME IInv, Next
             PROVE  IInv'
  OBVIOUS
<1>1. ASSUME NEW t \in Trans, Begin(t)
      PROVE  IInv'
  BY <1>1, BeginStep
<1>2. ASSUME NEW t \in Trans, NEW op \in Ops, NEW k \in Roles, Enter(t, op, k)
      PROVE  IInv'
  BY <1>2, EnterStep
<1>3. ASSUME NEW t \in Trans, Get(t)
      PROVE  IInv'
  BY <1>3, GetStep
<1>4. ASSUME NEW t \in Trans, Commit(t) \/ Rollback(t)
      PROVE  IInv'
  BY <1>4, AskStep DEF Commit, Rollback
<1>5. ASSUME NEW t \in Trans, MonitorRollback(t)
      PROVE  IInv'
  BY <1>5, MonitorRollbackStep
<1>6. ASSUME NEW expired \in SUBSET Trans, MonitorScan(expired)
      PROVE  IInv'
  BY <1>6, MonitorScanStep
<1>7. ASSUME Handle
      PROVE  IInv'
  BY <1>7, HandleStep
<1> QED
  BY <1>1, <1>2, <1>3, <1>4, <1>5, <1>6, <1>7 DEF Next

\* The inductive invariant, on which the rest depends.
THEOREM RoleStoreInvariant == Spec => []IInv
<1>1. IInv /\ [Next]_vars => IInv'
  BY NextOK, StutterOK
<1> QED
  BY InitOK, <1>1, PTL DEF Spec

\* The state of the store has its types, whatever the clients, the handler and the monitor do.
THEOREM RoleStoreTypes == Spec => []TypeOK
<1>1. IInv => TypeOK
  BY DEF IInv
<1> QED
  BY <1>1, RoleStoreInvariant, PTL

\* Of any number of transactions at work no two have taken the role in the cache, as long as
\* nobody has stored it whole (getRole's tran_id and handleRollbackSignal's wait_first).
THEOREM RoleStoreOneWriter == Spec => []OneWriterPerCachedRole
<1>1. IInv => OneWriterPerCachedRole
  <2> SUFFICES ASSUME IInv, NEW k \in Roles \ stored, role_cache[k] # Nil
               PROVE  \A t, u \in Trans :
                         /\ Working(t) /\ tran_cache[t][k] = role_cache[k]
                         /\ Working(u) /\ tran_cache[u][k] = role_cache[k]
                         => t = u
    BY DEF OneWriterPerCachedRole
  <2>1. ASSUME NEW t \in Trans, Working(t), tran_cache[t][k] = role_cache[k]
        PROVE  obj[role_cache[k]].tran_id = t
    <3>1. obj[role_cache[k]].tran_id = t \/ Passed(t, k)
      BY <2>1 DEF IInv, HoldersOK
    <3>2. ASSUME HandledNow(t)
          PROVE  FALSE
      <4>1. handler # Nobody /\ handler.tran = t /\ handler.by \in {"client", "monitor"}
        BY <3>2, HandlerCases DEF HandledNow, IInv, TypeOK
      <4>2. Asker(handler)
        BY <4>1 DEF IInv, AsksOK
      <4> QED
        BY <2>1, <4>1, <4>2 DEF Asker, Working
    <3> QED
      BY <3>1, <3>2 DEF Passed
  <2> QED
    BY <2>1
<1> QED
  BY <1>1, RoleStoreInvariant, PTL

\* What a transaction has written as the father, and its client has rolled back, is in no file
\* of a role that nobody has stored whole.
THEOREM RoleStoreNoUndoneFather == Spec => []NoUndoneFather
<1>1. IInv => NoUndoneFather
  <2> SUFFICES ASSUME IInv, NEW k \in Roles \ stored, disk[k] # Absent,
                      NEW t \in disk[k].father, t \in undone
               PROVE  FALSE
    BY DEF NoUndoneFather
  <2>1. t \in Trans /\ state[t] = "ended" /\ Loose(t)
    BY DEF IInv, TypeOK, LivesOK, DiskOK, AllLoose
  <2>2. handler # Nobody /\ handler.tran = t
    BY <2>1 DEF Loose, HandledNow
  <2> QED
    BY <2>1, <2>2 DEF IInv, LivesOK
<1> QED
  BY <1>1, RoleStoreInvariant, PTL
=============================================================================
