----------------------------- MODULE RoleStore -----------------------------
(***************************************************************************)
(* The store of roles, src/drule2/trule2: transactions that take roles for *)
(* writing and queue for them (tservice.go, transaction.go), one goroutine *)
(* that carries out commits and rollbacks role by role, and a monitor that *)
(* rolls idle transactions back (trule.go).                                *)
(*                                                                         *)
(* The content of a part of a role is the set of the transactions that     *)
(* have contributed to it since the start.  A roleCache object is known to *)
(* whoever got hold of it, not by its entry in role_cache: objects are     *)
(* numbered.                                                               *)
(***************************************************************************)
EXTENDS RoleOperations, Naturals, FiniteSets, Sequences

CONSTANTS
    Trans,          \* transactions, each begun once by a client of its own
    Roles,          \* roles, each an (area, id) pair
    Nil,            \* no object, no transaction
    Absent,         \* no role: no file on the disk, a nil pointer in memory
    Ops,            \* the operations the clients use
    MaxObj,         \* bound: roleCache objects in use at a time
    MaxCalls        \* bound: calls of one client

ASSUME RoleStoreAssumption ==
    /\ Nil \notin Trans \cup (1 .. MaxObj)
    /\ Absent \notin [Parts -> SUBSET Trans]
    /\ Ops \subseteq All
    /\ MaxObj \in Nat \ {0}
    /\ MaxCalls \in Nat

VARIABLES
    disk,           \* local_store
    role_cache,     \* the object cached for each role
    obj,            \* the roleCache objects
    locked,         \* a goroutine has returned with the lock of tranService held
    state,          \* of each transaction: in the list of TRule, or not (be_delete)
    tran_cache,     \* its tran_cache, for what getrole put there under area and id,
    new_cache,      \* and for what StoreRole put there under the id alone
    at,             \* what its client's goroutine is doing
    calls,          \* calls made (the bound counts them)
    asks,           \* those that are sending on tran_commit_signal
    handler,        \* tranSignalHandle
    monitor,        \* tranTimeOutMonitor: found expired, and asked to roll back
    crashed,        \* a panic has ended the process
    undone,         \* history: transactions that their clients have rolled back,
    stored          \* and roles that have been stored whole by StoreRole

storeVars == <<disk, role_cache, obj, locked>>
newVars == <<new_cache, stored>>
tranVars == <<state, tran_cache, newVars, at, calls>>
vars == <<storeVars, tranVars, asks, handler, monitor, crashed, undone>>

Objs == 1 .. MaxObj

Content == [Parts -> SUBSET Trans]

\* The files of a role, and the *Change marks that say which of them a store
\* writes.
Groups == {"version", "relation", "data"}

Group(part) == IF part = "data" THEN "data" ELSE "relation"

\* The parts of a role that a copy of the struct goes on sharing with it: the
\* slice and the maps.
Shareable == Parts \ {"father"}

RoleCaches ==
    [ role        : Content \cup {Absent},
      dirty       : SUBSET Groups,
      role_store  : Content \cup {Absent},
      store_dirty : SUBSET Groups,
      shared      : SUBSET Shareable,   \* parts that role and role_store still share
      be_delete   : {"NO", "YES", "COMMIT"},
      be_change   : BOOLEAN,
      tran_id     : Trans \cup {Nil},
      wait_line   : Seq([tran : Trans, told : BOOLEAN]) ]

RoleCache(role, dirty, changed, t) ==
    [ role |-> role, dirty |-> dirty, role_store |-> role, store_dirty |-> dirty,
      shared |-> Shareable, be_delete |-> "NO", be_change |-> changed, tran_id |-> t,
      wait_line |-> << >> ]

\* What the client's goroutine is doing: about to get a role ("get"), waiting
\* for the lock of tranService ("blocked") or in the role's wait_line ("wait"),
\* back with the role ("got") or woken in addRole ("told"), about to
\* send its commit or rollback ("ask") or waiting for the answer to it ("sent").
Idle == [pc |-> "idle"]

Calls ==
    {Idle} \cup [pc : {"sent"}] \cup [pc : {"ask"}, ask : {"commit", "rollback"}]
        \cup [pc : {"get", "blocked"}, op : Ops, role : Roles]
        \cup [pc : {"wait", "got", "told"}, op : Ops, role : Roles, obj : Objs]

\* The handler works on a pair of a cache key and an object; the key that
\* StoreRole uses is none of role_cache's.
Entries == [key : {"area id", "id"}, role : Roles, obj : Objs]

Handlers ==
    [pc : {"idle"}]
        \cup [pc : {"lock"}, ask : {"commit", "rollback"}, by : {"client", "monitor"}, tran : Trans]
        \cup [pc : {"look"}, ask : {"commit", "rollback"}, by : {"client", "monitor"}, tran : Trans,
              todo : SUBSET Entries]
        \cup [pc : {"act", "remove", "stuck"}, ask : {"commit", "rollback"}, by : {"client", "monitor"},
              tran : Trans, todo : SUBSET Entries, entry : Entries, waiting : BOOLEAN]

TypeOK ==
    /\ disk \in [Roles -> Content \cup {Absent}]
    /\ role_cache \in [Roles -> Objs \cup {Nil}]
    /\ obj \in [Objs -> RoleCaches]
    /\ locked \in BOOLEAN
    /\ state \in [Trans -> {"new", "live", "ended"}]
    /\ tran_cache \in [Trans -> [Roles -> Objs \cup {Nil}]]
    /\ new_cache \in [Trans -> [Roles -> Objs \cup {Nil}]]
    /\ at \in [Trans -> Calls]
    /\ calls \in [Trans -> Nat]
    /\ asks \subseteq [tran : Trans, ask : {"commit", "rollback"}, by : {"client", "monitor"}]
    /\ handler \in Handlers
    /\ monitor \in [expired : SUBSET Trans, asked : Trans \cup {Nil}]
    /\ crashed \in BOOLEAN
    /\ undone \subseteq Trans
    /\ stored \subseteq Roles

Nobody == [pc |-> "idle"]

Init ==
    /\ disk \in [Roles -> {[p \in Parts |-> {}], Absent}]
    /\ role_cache = [k \in Roles |-> Nil]
    /\ obj = [o \in Objs |-> RoleCache(Absent, {}, FALSE, Nil)]
    /\ locked = FALSE
    /\ state = [t \in Trans |-> "new"]
    /\ tran_cache = [t \in Trans |-> [k \in Roles |-> Nil]]
    /\ new_cache = [t \in Trans |-> [k \in Roles |-> Nil]]
    /\ at = [t \in Trans |-> Idle]
    /\ calls = [t \in Trans |-> 0]
    /\ asks = {}
    /\ handler = Nobody
    /\ monitor = [expired |-> {}, asked |-> Nil]
    /\ crashed = FALSE
    /\ undone = {}
    /\ stored = {}

----------------------------------------------------------------------------
(* A client and its transaction.                                           *)

Goes(t, where) == at' = [at EXCEPT ![t] = where]

\* Commits are carried out with tran_lock held, rollbacks without.
TranLockFree == handler # Nobody => handler.ask = "rollback"

Begin(t) ==
    /\ state[t] = "new"
    /\ TranLockFree
    /\ state' = [state EXCEPT ![t] = "live"]
    /\ UNCHANGED <<storeVars, tran_cache, newVars, at, calls, asks, handler, monitor, crashed,
                   undone>>

\* An operation up to the check of be_delete; nothing keeps the transaction
\* from being ended between the check and what follows it.
Enter(t, op, k) ==
    /\ state[t] = "live"
    /\ at[t] = Idle
    /\ calls[t] < MaxCalls
    /\ Goes(t, [pc |-> "get", op |-> op, role |-> k])
    /\ calls' = [calls EXCEPT ![t] = @ + 1]
    /\ UNCHANGED <<storeVars, state, tran_cache, newVars, asks, handler, monitor, crashed, undone>>

\* The handler keeps tran.lock from the moment it has it to the end.
HandledNow(t) == handler # Nobody /\ handler.tran = t /\ handler.pc # "lock"

\* An object of no further use to anybody.
Unused(o) ==
    /\ \A k \in Roles : role_cache[k] # o
    /\ \A t \in Trans, k \in Roles : tran_cache[t][k] # o /\ new_cache[t][k] # o
    /\ \A t \in Trans : at[t].pc \in {"wait", "got", "told"} => at[t].obj # o

Spare(o) == Unused(o) /\ \A p \in Objs : Unused(p) => o <= p

\* The goroutine gets the role, as object o.
Got(t, o) == Goes(t, [pc |-> "got", op |-> at[t].op, role |-> at[t].role, obj |-> o])

\* What a transaction takes for writing it remembers.
Remembers(t, k, o) ==
    IF at[t].op.effect = "store"
    THEN /\ new_cache' = [new_cache EXCEPT ![t][k] = o]
         /\ stored' = stored \cup {k}
         /\ UNCHANGED tran_cache
    ELSE /\ tran_cache' = IF at[t].op.lock = "WRITE" THEN [tran_cache EXCEPT ![t][k] = o]
                                                     ELSE tran_cache
         /\ UNCHANGED newVars

\* getrole and StoreRole look in the transaction's own cache first, ...
Remembered(t) ==
    LET k == at[t].role
    IN  IF at[t].op.effect = "store" THEN new_cache[t][k] ELSE tran_cache[t][k]

AtGetrole(t) == at[t].pc \in {"get", "blocked"} /\ ~HandledNow(t)

GetOwn(t) ==
    /\ AtGetrole(t)
    /\ at[t].pc = "get"
    /\ state[t] = "live"
    /\ Remembered(t) # Nil
    /\ Got(t, Remembered(t))
    /\ UNCHANGED <<storeVars, state, tran_cache, newVars, calls, asks, handler, monitor, crashed,
                   undone>>

\* which a transaction that has been ended meanwhile has no more, nor the
\* tranService to ask: the nil pointer brings the process down.
GetAfterEnd(t) ==
    /\ AtGetrole(t)
    /\ state[t] = "ended"
    /\ crashed' = TRUE
    /\ UNCHANGED <<storeVars, tranVars, asks, handler, monitor, undone>>

AsksService(t) == AtGetrole(t) /\ state[t] = "live" /\ Remembered(t) = Nil

\* The lock of tranService, which getRole and addRole take first, may be gone.
GetBlocked(t) ==
    /\ AsksService(t)
    /\ at[t].pc = "get"
    /\ locked
    /\ at' = [at EXCEPT ![t].pc = "blocked"]
    /\ UNCHANGED <<storeVars, state, tran_cache, newVars, calls, asks, handler, monitor, crashed,
                   undone>>

\* Not cached: getRole reads the disk, addRole makes the role.
GetLoad(t) ==
    LET k == at[t].role
        op == at[t].op
    IN  /\ AsksService(t)
        /\ ~locked
        /\ role_cache[k] = Nil
        /\ op.effect # "store"
        /\ IF disk[k] = Absent
           THEN Goes(t, Idle) /\ UNCHANGED <<role_cache, obj, tran_cache, newVars>>
           ELSE \E o \in Objs :
                  /\ Spare(o)
                  /\ obj' = [obj EXCEPT ![o] = RoleCache(disk[k], {}, FALSE,
                                                  IF op.lock = "WRITE" THEN t ELSE Nil)]
                  /\ role_cache' = [role_cache EXCEPT ![k] = o]
                  /\ Remembers(t, k, o)
                  /\ Got(t, o)
        /\ UNCHANGED <<disk, locked, state, calls, asks, handler, monitor, crashed, undone>>

\* The role that StoreRole is given: t's work, every part of it.
Stored(t) == [p \in Parts |-> {t}]

AddNew(t) ==
    LET k == at[t].role
    IN  /\ AsksService(t)
        /\ ~locked
        /\ role_cache[k] = Nil
        /\ at[t].op.effect = "store"
        /\ \E o \in Objs :
              /\ Spare(o)
              /\ obj' = [obj EXCEPT ![o] = RoleCache(Stored(t), Groups, TRUE, t)]
              /\ role_cache' = [role_cache EXCEPT ![k] = o]
              /\ Remembers(t, k, o)
        /\ Goes(t, Idle)
        /\ UNCHANGED <<disk, locked, state, calls, asks, handler, monitor, crashed, undone>>

\* Cached but deleted: getRole returns the error and forgets to unlock.
GetDeleted(t) ==
    /\ AsksService(t)
    /\ ~locked
    /\ at[t].op.effect # "store"
    /\ role_cache[at[t].role] # Nil
    /\ obj[role_cache[at[t].role]].be_delete # "NO"
    /\ locked' = TRUE
    /\ Goes(t, Idle)
    /\ UNCHANGED <<disk, role_cache, obj, state, tran_cache, newVars, calls, asks, handler,
                   monitor, crashed, undone>>

\* Mutant of MayHave: whoever asks has the role.
MayHaveAny(t, o) == TRUE

\* Cached, and free or the transaction's own or only to be read.
MayHave(t, o) == obj[o].tran_id \in {Nil, t} \/ at[t].op.lock = "READ"

GetCached(t) ==
    LET k == at[t].role
        o == role_cache[k]
    IN  /\ AsksService(t)
        /\ ~locked
        /\ at[t].op.effect # "store"
        /\ o # Nil
        /\ obj[o].be_delete = "NO"
        /\ MayHave(t, o)
        /\ obj' = IF at[t].op.lock = "WRITE" THEN [obj EXCEPT ![o].tran_id = t] ELSE obj
        /\ Remembers(t, k, o)
        /\ Got(t, o)
        /\ UNCHANGED <<disk, role_cache, locked, state, calls, asks, handler, monitor, crashed,
                       undone>>

\* rolec.role = &mid: nothing is shared any more.
Replaced(o, t) ==
    [obj[o] EXCEPT !.role = Stored(t), !.dirty = Groups, !.shared = {}, !.tran_id = t,
                   !.be_change = TRUE]

AddCached(t) ==
    LET k == at[t].role
        o == role_cache[k]
    IN  /\ AsksService(t)
        /\ ~locked
        /\ at[t].op.effect = "store"
        /\ o # Nil
        /\ obj[o].tran_id \in {Nil, t}
        /\ obj' = [obj EXCEPT ![o] = Replaced(o, t)]
        /\ Remembers(t, k, o)
        /\ Goes(t, Idle)
        /\ UNCHANGED <<disk, role_cache, locked, state, calls, asks, handler, monitor, crashed,
                       undone>>

\* Cached and occupied by another: to the end of the line.
Wait(t) ==
    LET o == role_cache[at[t].role]
    IN  /\ AsksService(t)
        /\ ~locked
        /\ o # Nil
        /\ IF at[t].op.effect = "store" THEN obj[o].tran_id \notin {Nil, t}
                                        ELSE obj[o].be_delete = "NO" /\ ~MayHave(t, o)
        /\ obj' = [obj EXCEPT ![o].wait_line = Append(@, [tran |-> t, told |-> FALSE])]
        /\ Goes(t, [pc |-> "wait", op |-> at[t].op, role |-> at[t].role, obj |-> o])
        /\ UNCHANGED <<disk, role_cache, locked, state, tran_cache, newVars, calls, asks, handler,
                       monitor, crashed, undone>>

\* addRole after its wait, whatever it was told.
AddAfterWait(t) ==
    LET k == at[t].role
        o == at[t].obj
        c == Replaced(o, t)
    IN  /\ at[t].pc = "told"
        /\ obj' = [obj EXCEPT ![o] =
                      IF c.be_delete = "NO" THEN c
                      ELSE [c EXCEPT !.role_store = Stored(t), !.store_dirty = Groups,
                                     !.shared = Shareable, !.be_delete = "NO"]]
        /\ Remembers(t, k, o)
        /\ Goes(t, Idle)
        /\ UNCHANGED <<disk, role_cache, locked, state, calls, asks, handler, monitor, crashed,
                       undone>>

\* What is changed, or was to be, is marked as changed.
Touched(c, op) == [c EXCEPT !.dirty = @ \cup {Group(op.part)}]

\* What an operation does to the role it got, through the pointer, without a
\* lock that anybody else would take.
Changed(c, op, t) ==
    LET p == op.part
        touched == Touched(c, op)
    IN  CASE op.effect = "replace" -> [touched EXCEPT !.role[p] = {t}, !.shared = @ \ {p}]
          [] op.effect = "extend" -> [touched EXCEPT !.role[p] = @ \cup {t}, !.shared = @ \ {p}]
          [] op.effect = "modify" /\ p \in c.shared ->
                [touched EXCEPT !.role[p] = @ \cup {t}, !.role_store[p] = @ \cup {t}]
          [] op.effect = "modify" /\ p \notin c.shared -> [touched EXCEPT !.role[p] = @ \cup {t}]
          [] op.effect = "delete" -> [c EXCEPT !.be_delete = "YES"]
          [] op.effect = "store" -> [Replaced(at[t].obj, t) EXCEPT !.tran_id = c.tran_id,
                                                                   !.be_delete = "NO"]
          [] op.effect = "none" /\ op.marks -> touched
          [] OTHER -> c

Marked(c, op) == [c EXCEPT !.be_change = @ \/ op.marks]

\* A change that fails leaves the role, but marks it all the same.  A role
\* that has been deleted for good meanwhile is a nil pointer.
Use(t) ==
    LET o == at[t].obj
        op == at[t].op
    IN  /\ at[t].pc = "got"
        /\ Goes(t, Idle)
        /\ IF obj[o].role = Absent /\ op.effect \notin {"delete", "store"} /\ op.part # "whole"
           THEN crashed' = TRUE /\ obj' = obj
           ELSE /\ crashed' = crashed
                /\ \/ obj' = [obj EXCEPT ![o] = Marked(Changed(@, op, t), op)]
                   \/ op.fails /\ op.marks
                      /\ obj' = [obj EXCEPT ![o] = Marked(Touched(@, op), op)]
        /\ UNCHANGED <<disk, role_cache, locked, state, tran_cache, newVars, calls, asks, handler,
                       monitor, undone>>

\* getrole looks once more whether the role has been deleted for good.
GiveUp(t) ==
    /\ at[t].pc = "got"
    /\ obj[at[t].obj].be_delete = "COMMIT"
    /\ Goes(t, Idle)
    /\ UNCHANGED <<storeVars, state, tran_cache, newVars, calls, asks, handler, monitor, crashed,
                   undone>>

\* Commit and Rollback up to the check of be_delete, ...
Ask(t, ask) ==
    /\ state[t] = "live"
    /\ at[t] = Idle
    /\ Goes(t, [pc |-> "ask", ask |-> ask])
    /\ UNCHANGED <<storeVars, state, tran_cache, newVars, calls, asks, handler, monitor, crashed,
                   undone>>

Commit(t) == Ask(t, "commit")

Rollback(t) == Ask(t, "rollback")

\* ... and the send: of a transaction that the monitor has ended meanwhile the
\* channel is nil, and the send never returns.
Send(t) ==
    /\ at[t].pc = "ask"
    /\ state[t] = "live"
    /\ asks' = asks \cup {[tran |-> t, ask |-> at[t].ask, by |-> "client"]}
    /\ Goes(t, [pc |-> "sent"])
    /\ UNCHANGED <<storeVars, state, tran_cache, newVars, calls, handler, monitor, crashed, undone>>

----------------------------------------------------------------------------
(* tranSignalHandle: one signal at a time, one role of it at a time.       *)

\* The answer to whoever waits for it.
Answer(t, by) ==
    IF by = "client" THEN Goes(t, Idle) /\ UNCHANGED monitor
                     ELSE monitor' = [monitor EXCEPT !.asked = Nil] /\ UNCHANGED at

\* Mutant of Take: an unknown transaction is not answered.
TakeInSilence(s) ==
    /\ handler = Nobody
    /\ s \in asks
    /\ asks' = asks \ {s}
    /\ handler' = IF state[s.tran] = "ended" THEN handler
                  ELSE [pc |-> "lock", ask |-> s.ask, by |-> s.by, tran |-> s.tran]
    /\ UNCHANGED <<storeVars, tranVars, monitor, crashed, undone>>

Take(s) ==
    /\ handler = Nobody
    /\ s \in asks
    /\ asks' = asks \ {s}
    /\ IF state[s.tran] = "ended"
       THEN Answer(s.tran, s.by) /\ UNCHANGED handler
       ELSE /\ handler' = [pc |-> "lock", ask |-> s.ask, by |-> s.by, tran |-> s.tran]
            /\ UNCHANGED <<at, monitor>>
    /\ UNCHANGED <<storeVars, state, tran_cache, newVars, calls, crashed, undone>>

\* tran.lock, which a client keeps for reading while it waits for a role.
Lock ==
    LET t == handler.tran
        Taken(key, cache) == {[key |-> key, role |-> k, obj |-> cache[k]] :
                                 k \in {i \in Roles : cache[i] # Nil}}
    IN  /\ handler.pc = "lock"
        /\ at[t].pc \notin {"wait", "blocked", "told"}
        /\ handler' = [pc |-> "look", ask |-> handler.ask, by |-> handler.by, tran |-> t,
                       todo |-> Taken("area id", tran_cache[t]) \cup Taken("id", new_cache[t])]
        /\ UNCHANGED <<storeVars, tranVars, asks, monitor, crashed, undone>>

\* wait_count: the line is looked at without its lock, and acted on later.
Look ==
    /\ handler.pc = "look"
    /\ \E e \in handler.todo :
          handler' = [pc |-> "act", ask |-> handler.ask, by |-> handler.by, tran |-> handler.tran,
                      todo |-> handler.todo \ {e}, entry |-> e,
                      waiting |-> obj[e.obj].wait_line # << >>]
    /\ UNCHANGED <<storeVars, tranVars, asks, monitor, crashed, undone>>

Acts(ask, waiting) ==
    handler.pc = "act" /\ handler.ask = ask /\ handler.waiting = waiting

OnTo(pc) == handler' = [handler EXCEPT !.pc = pc]

OnToNext ==
    handler' = [pc |-> "look", ask |-> handler.ask, by |-> handler.by, tran |-> handler.tran,
                todo |-> handler.todo]

\* RoleStoreMiddleData, its error ignored: the files of the marked groups.
StoredRole(k, c) ==
    [p \in Parts |-> IF disk[k] = Absent \/ Group(p) \in c.dirty THEN c.role[p] ELSE disk[k][p]]

\* For its version file there is no mark but that of a new role; without it the
\* other files do not make a role.
WritesRole(k, c) == disk[k] # Absent \/ "version" \in c.dirty

DiskAfter(k, c) ==
    IF c.be_change /\ WritesRole(k, c) THEN [disk EXCEPT ![k] = StoredRole(k, c)] ELSE disk

CommitAlone ==
    LET k == handler.entry.role
        o == handler.entry.obj
        c == obj[o]
    IN  /\ Acts("commit", FALSE)
        /\ CASE c.be_delete = "NO" ->
                  /\ disk' = DiskAfter(k, c)
                  /\ obj' = [obj EXCEPT ![o].be_change = FALSE, ![o].tran_id = Nil]
             [] c.be_delete = "YES" -> disk' = [disk EXCEPT ![k] = Absent] /\ obj' = obj
             [] c.be_delete = "COMMIT" -> UNCHANGED <<disk, obj>>
        /\ OnTo("remove")
        /\ UNCHANGED <<role_cache, locked, tranVars, asks, monitor, crashed, undone>>

\* The role is stored and handed on, but for the Unlock of a lock that nobody
\* holds: the runtime ends the process.
CommitHandsOn ==
    LET k == handler.entry.role
        c == obj[handler.entry.obj]
    IN  /\ Acts("commit", TRUE)
        /\ c.be_delete = "NO"
        /\ disk' = DiskAfter(k, c)
        /\ crashed' = TRUE
        /\ UNCHANGED <<role_cache, obj, locked, tranVars, asks, handler, monitor, undone>>

\* What a waiter does with the news: getRole's gives up when the role is gone,
\* addRole's does not ask.
Woken(t, have) ==
    CASE at[t].op.effect = "store" -> [at[t] EXCEPT !.pc = "told"]
      [] at[t].op.effect # "store" /\ have -> [at[t] EXCEPT !.pc = "got"]
      [] OTHER -> Idle

\* The line stays as it is; a send to one who has been told before, and is gone,
\* never returns.
CommitDeletes ==
    LET e == handler.entry
        line == obj[e.obj].wait_line
        told == {i \in DOMAIN line : \A j \in 1 .. i : ~line[j].told}
        waiters == {line[i].tran : i \in told}
    IN  /\ Acts("commit", TRUE)
        /\ obj[e.obj].be_delete = "YES"
        /\ disk' = [disk EXCEPT ![e.role] = Absent]
        /\ obj' = [obj EXCEPT ![e.obj].role = Absent, ![e.obj].tran_id = Nil,
                              ![e.obj].be_delete = "COMMIT",
                              ![e.obj].wait_line = [i \in DOMAIN line |-> [line[i] EXCEPT !.told = TRUE]]]
        /\ at' = [t \in Trans |-> IF t \in waiters THEN Woken(t, FALSE) ELSE at[t]]
        /\ OnTo(IF told = DOMAIN line THEN "remove" ELSE "stuck")
        /\ UNCHANGED <<role_cache, locked, state, tran_cache, newVars, calls, asks, monitor,
                       crashed, undone>>

\* Deleted for good before, under the role's other key: nothing is done.
CommitPasses ==
    /\ Acts("commit", TRUE)
    /\ obj[handler.entry.obj].be_delete = "COMMIT"
    /\ OnToNext
    /\ UNCHANGED <<storeVars, tranVars, asks, monitor, crashed, undone>>

\* delete(role_cache, cacheid), whatever is there by now; the key of StoreRole
\* finds nothing.
Uncached(e) == IF e.key = "area id" THEN [role_cache EXCEPT ![e.role] = Nil] ELSE role_cache

RemoveFromCache ==
    /\ handler.pc = "remove"
    /\ ~locked
    /\ role_cache' = Uncached(handler.entry)
    /\ OnToNext
    /\ UNCHANGED <<disk, obj, locked, tranVars, asks, monitor, crashed, undone>>

\* A rollback does not take the lock of tranService for it.
RollbackAlone ==
    /\ Acts("rollback", FALSE)
    /\ role_cache' = Uncached(handler.entry)
    /\ OnToNext
    /\ UNCHANGED <<disk, obj, locked, tranVars, asks, monitor, crashed, undone>>

\* Mutant of Restored: the role is handed on as it is.
RestoredAsItIs(c, head) ==
    [c EXCEPT !.be_delete = IF @ = "YES" THEN "NO" ELSE @, !.tran_id = head, !.wait_line = Tail(@)]

\* The role goes back to role_store, as far as that has not changed with it, and
\* on to the head of the line.
Restored(c, head) ==
    LET back == IF c.be_delete = "COMMIT" THEN c
                ELSE [c EXCEPT !.role = c.role_store, !.dirty = c.store_dirty,
                               !.shared = Shareable]
    IN  [back EXCEPT !.be_delete = IF @ = "YES" THEN "NO" ELSE @, !.be_change = FALSE,
                     !.tran_id = head, !.wait_line = Tail(@)]

RollbackHandsOn ==
    LET o == handler.entry.obj
        head == Head(obj[o].wait_line).tran
    IN  /\ Acts("rollback", TRUE)
        /\ ~Head(obj[o].wait_line).told
        /\ obj' = [obj EXCEPT ![o] = Restored(@, head)]
        /\ at' = [at EXCEPT ![head] = Woken(head, TRUE)]
        /\ tran_cache' = IF at[head].op.effect = "store" THEN tran_cache
                         ELSE [tran_cache EXCEPT ![head][at[head].role] = o]
        /\ OnToNext
        /\ UNCHANGED <<disk, role_cache, locked, state, newVars, calls, asks, monitor, crashed,
                       undone>>

\* CommitDeletes left the line as it was: there is nobody to take the role.
RollbackStuck ==
    LET o == handler.entry.obj
    IN  /\ Acts("rollback", TRUE)
        /\ Head(obj[o].wait_line).told
        /\ obj' = [obj EXCEPT ![o] = Restored(@, Head(@.wait_line).tran)]
        /\ OnTo("stuck")
        /\ UNCHANGED <<disk, role_cache, locked, tranVars, asks, monitor, crashed, undone>>

Finish ==
    LET t == handler.tran
    IN  /\ handler.pc = "look"
        /\ handler.todo = {}
        /\ state' = [state EXCEPT ![t] = "ended"]
        /\ tran_cache' = [tran_cache EXCEPT ![t] = [k \in Roles |-> Nil]]
        /\ new_cache' = [new_cache EXCEPT ![t] = [k \in Roles |-> Nil]]
        /\ Answer(t, handler.by)
        /\ undone' = IF handler.ask = "rollback" /\ handler.by = "client"
                     THEN undone \cup {t} ELSE undone
        /\ handler' = Nobody
        /\ UNCHANGED <<storeVars, stored, calls, asks, crashed>>

Handle ==
    \/ \E s \in asks : Take(s)
    \/ Lock
    \/ Look
    \/ CommitAlone
    \/ CommitHandsOn
    \/ CommitDeletes
    \/ CommitPasses
    \/ RemoveFromCache
    \/ RollbackAlone
    \/ RollbackHandsOn
    \/ RollbackStuck
    \/ Finish

----------------------------------------------------------------------------
(* tranTimeOutMonitor.                                                     *)

\* It collects the transactions that have not been used for tran_timeout: any
\* set of the live ones, ...
MonitorScan(expired) ==
    /\ monitor = [expired |-> {}, asked |-> Nil]
    /\ TranLockFree
    /\ expired # {}
    /\ \A t \in expired : state[t] = "live"
    /\ monitor' = [monitor EXCEPT !.expired = expired]
    /\ UNCHANGED <<storeVars, tranVars, asks, handler, crashed, undone>>

\* and rolls them back one after the other; one that has ended meanwhile is a
\* nil pointer.
MonitorRollback(t) ==
    /\ t \in monitor.expired
    /\ monitor.asked = Nil
    /\ IF state[t] = "ended"
       THEN crashed' = TRUE /\ UNCHANGED <<monitor, asks>>
       ELSE /\ monitor' = [expired |-> monitor.expired \ {t}, asked |-> t]
            /\ asks' = asks \cup {[tran |-> t, ask |-> "rollback", by |-> "monitor"]}
            /\ crashed' = crashed
    /\ UNCHANGED <<storeVars, tranVars, handler, undone>>

----------------------------------------------------------------------------
Get(t) ==
    \/ GetOwn(t)
    \/ GetAfterEnd(t)
    \/ GetBlocked(t)
    \/ GetLoad(t)
    \/ AddNew(t)
    \/ GetDeleted(t)
    \/ GetCached(t)
    \/ AddCached(t)
    \/ Wait(t)
    \/ AddAfterWait(t)
    \/ Use(t)
    \/ GiveUp(t)
    \/ Send(t)

Next ==
    /\ ~crashed
    /\ \/ \E t \in Trans :
             \/ Begin(t)
             \/ \E op \in Ops, k \in Roles : Enter(t, op, k)
             \/ Get(t)
             \/ Commit(t)
             \/ Rollback(t)
             \/ MonitorRollback(t)
       \/ \E expired \in SUBSET Trans : MonitorScan(expired)
       \/ Handle

Spec == Init /\ [][Next]_vars

----------------------------------------------------------------------------
(* What must hold.                                                         *)

\* Nobody has asked for the end of t.
Working(t) ==
    /\ state[t] = "live"
    /\ at[t].pc \notin {"ask", "sent"}
    /\ monitor.asked # t

\* Two transactions at work have never both taken the role that is in the cache
\* for writing, whatever commits, rollbacks, time-outs and hand-overs came before
\* (getRole's tran_id and handleRollbackSignal's wait_first).  StoreRole does not
\* keep to this: what it stored is handed on twice, under both its keys, and those
\* that wait in addRole for a role that gets deleted all have it.
OneWriterPerCachedRole ==
    \A k \in Roles \ stored : role_cache[k] # Nil =>
        \A t, u \in Trans :
            /\ Working(t) /\ tran_cache[t][k] = role_cache[k]
            /\ Working(u) /\ tran_cache[u][k] = role_cache[k]
            => t = u

\* The father that a transaction wrote before its client rolled it back is not in
\* a file: the rollback has put role_store back before anybody else can store the
\* role (the "replace" effect shares nothing with role_store).
NoUndoneFather ==
    \A k \in Roles \ stored : disk[k] # Absent => disk[k].father \cap undone = {}

RollbackWaits == handler.pc = "lock" /\ at[handler.tran].pc = "wait"

\* Commit and Rollback are answered in the end: unless the process is down, the
\* lock of tranService is gone with a deleted role, or a rollback has been asked
\* for a transaction whose client waits for a role.
EndingAnswered ==
    \A t \in Trans : at[t].pc = "sent" ~> (at[t].pc # "sent" \/ crashed \/ locked \/ RollbackWaits)

\* The goroutines of the store run on: the handler's, the monitor's once it has
\* begun, and a client's while it is inside a call.
FairSpec ==
    /\ Spec
    /\ WF_vars(~crashed /\ Handle)
    /\ \A t \in Trans :
          WF_vars(~crashed /\ Get(t)) /\ WF_vars(~crashed /\ MonitorRollback(t))
=============================================================================
