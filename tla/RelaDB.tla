------------------------------ MODULE RelaDB ------------------------------
(***************************************************************************)
(* One table of the relational layer (src/drule2/reladb).  A table is a    *)
(* main role with its increment count, an index role per indexed field,    *)
(* and a role per row; the control role lists the tables as its children.  *)
(*                                                                         *)
(* NewTable stores these roles one by one, each in a transaction of its    *)
(* own.  Every other change looks whether the table exists, begins a       *)
(* transaction, locks the main role, works, and commits: what it has       *)
(* written is in `work` until then.  The store is what its operations      *)
(* promise (RoleStore has the transactions themselves): a lock is waited   *)
(* for, a deleted role is an error, and any call may fail.  Commit's error *)
(* is dropped by every caller, so a commit that is lost looks like any     *)
(* other.                                                                  *)
(***************************************************************************)
EXTENDS Integers, Sequences, FiniteSets, SequencesExt

CONSTANTS Clients,
          Fields,       \* the fields of the prototype
          IndexField,   \* those that the table indexes
          AutoField,    \* the one that takes the id; NoField over DRule, or for ""
          Values,
          NoField, NoTable, NoIndex, NoRow, Nobody,
          Error,        \* what a read returns with an error
          MaxId,        \* bound on the increment count
          MaxCalls,     \* bound: calls of all clients
          MaxFails      \* bound: calls to the store that fail, commits that are lost

Ids == 1..MaxId

Rows == [Fields -> Values]

\* IndexGather: the ids of the rows with one value, in the order they came.
Gathers == {g \in Seq(Ids) : IsInjective(g)}

\* The map of an index role has the values that rows have or had.
IsIndex(index) == \E V \in SUBSET Values : index \in [V -> Gathers]

Mains == [count : 0..MaxId, index : SUBSET Fields]

ASSUME RelaDBAssumption ==
    /\ IndexField \subseteq Fields
    /\ AutoField \in Fields \cup {NoField} /\ NoField \notin Fields
    /\ AutoField # NoField => Ids \subseteq Values
    /\ MaxId \in Nat /\ MaxCalls \in Nat /\ MaxFails \in Nat
    /\ Nobody \notin Clients
    /\ NoTable \notin Mains /\ ~IsIndex(NoIndex) /\ NoRow \notin Rows
    /\ Error \notin Seq(Gathers)

VARIABLES db,           \* the table as it is committed
          call,         \* of each client: the call it makes
          holder,       \* who has locked the main role
          work,         \* what the holder's transaction has written
          used,         \* the ids of all rows the table has ever had
          calls, fails

vars == <<db, call, holder, work, used, calls, fails>>

\* Some index roles, or what is there in the place of one.
AreIndexes(indexes) == \A f \in DOMAIN indexes : indexes[f] = NoIndex \/ IsIndex(indexes[f])

IsTable(table) ==
    /\ table.main \in Mains \cup {NoTable}
    /\ table.rows \in [Ids -> Rows \cup {NoRow}]
    /\ DOMAIN table.indexes \subseteq Fields /\ AreIndexes(table.indexes)

\* The fields that are given, with their values.
Given == UNION {[F -> Values] : F \in SUBSET Fields}

NothingGiven == [f \in {} |-> f]

Calls ==
    [ op   : {"idle", "NewTable", "DropTable", "Insert", "InsertForAutoField",
              "Delete", "UpdateFields", "Update"},
      at   : {"idle", "main", "indexes", "row", "lock", "body", "commit"},
      left : SUBSET IndexField, id : 0..MaxId, row : Given ]

Idle == [op |-> "idle", at |-> "idle", left |-> {}, id |-> 0, row |-> NothingGiven]

\* Every table has its type, and no gather names a row twice; who holds the main
\* role is at work or has finished its work.
TypeOK ==
    /\ IsTable(db) /\ DOMAIN db.indexes = Fields /\ db.listed \in BOOLEAN
    /\ work # NoTable => IsTable(work)
    /\ call \in [Clients -> Calls]
    /\ holder \in Clients \cup {Nobody}
    /\ \A c \in Clients : holder = c <=> call[c].at \in {"body", "commit"}
    /\ used \subseteq Ids /\ calls \in 0..MaxCalls /\ fails \in 0..MaxFails

NoDB ==
    [ main |-> NoTable, indexes |-> [f \in Fields |-> NoIndex],
      rows |-> [i \in Ids |-> NoRow], listed |-> FALSE ]

Init ==
    /\ db = NoDB /\ call = [c \in Clients |-> Idle] /\ holder = Nobody /\ work = NoTable
    /\ used = {} /\ calls = 0 /\ fails = 0

----------------------------------------------------------------------------
EmptyIndex == [v \in {} |-> << >>]

TableExist == db.main # NoTable

Goes(c, to) == call' = [call EXCEPT ![c].at = to]

Ends(c) == call' = [call EXCEPT ![c] = Idle]

\* A call is made, with the id and the row it is given.
Begin(c, op, to, id, row) ==
    /\ call[c] = Idle /\ calls < MaxCalls /\ calls' = calls + 1
    /\ call' = [call EXCEPT ![c] = [op |-> op, at |-> to, left |-> IndexField,
                                    id |-> id, row |-> row]]
    /\ UNCHANGED <<db, holder, work, used, fails>>

Makes(c) == call[c].op \in {"NewTable", "DropTable"}

\* Bound: the table is created and dropped by one client at a time.
NobodyMakes == \A c \in Clients : ~Makes(c)

\* NewTable looks for the main role, and then stores the roles.  A prototype that does not
\* have the fields, or has them of the wrong type, is an error before any is stored.
NewTable(c) == NobodyMakes /\ ~TableExist /\ Begin(c, "NewTable", "main", 0, NothingGiven)

\* StoreRole puts a new main role there, whatever has been there, and whoever has it.
StoreMain(c) ==
    /\ call[c].at = "main"
    /\ db' = [db EXCEPT !.main = [count |-> 0, index |-> IndexField]]
    /\ used' = {}
    /\ Goes(c, "indexes")
    /\ UNCHANGED <<holder, work, calls, fails>>

\* The index roles, in the order in which Go goes through the map.
StoreIndex(c) ==
    /\ call[c].at = "indexes"
    /\ \E f \in call[c].left :
          /\ db' = [db EXCEPT !.indexes[f] = EmptyIndex]
          /\ call' = [call EXCEPT ![c].left = @ \ {f}]
    /\ UNCHANGED <<holder, work, used, calls, fails>>

WriteChild(c) ==
    /\ call[c].at = "indexes" /\ call[c].left = {}
    /\ db' = [db EXCEPT !.listed = TRUE]
    /\ Ends(c)
    /\ UNCHANGED <<holder, work, used, calls, fails>>

----------------------------------------------------------------------------
\* The calls in one transaction.  Update looks for the row before it locks the main
\* role; the others go to the lock.

DropTable(c) == NobodyMakes /\ TableExist /\ Begin(c, "DropTable", "lock", 0, NothingGiven)

Insert(c) == TableExist /\ \E row \in Rows : Begin(c, "Insert", "lock", 0, row)

InsertForAutoField(c) ==
    TableExist /\ \E row \in Rows : Begin(c, "InsertForAutoField", "lock", 0, row)

Delete(c) == TableExist /\ \E id \in Ids : Begin(c, "Delete", "lock", id, NothingGiven)

UpdateFields(c) ==
    TableExist /\ \E id \in Ids, new \in Given : Begin(c, "UpdateFields", "lock", id, new)

Update(c) == TableExist /\ \E id \in Ids, new \in Rows : Begin(c, "Update", "row", id, new)

RowExist(c) ==
    /\ call[c].at = "row"
    /\ IF db.rows[call[c].id] = NoRow THEN Ends(c) ELSE Goes(c, "lock")
    /\ UNCHANGED <<db, holder, work, used, calls, fails>>

\* Mutant of LockRole: it does not wait.
LockRoleAtOnce(c) ==
    /\ call[c].at = "lock"
    /\ IF TableExist THEN holder' = c /\ Goes(c, "body") ELSE Ends(c) /\ UNCHANGED holder
    /\ UNCHANGED <<db, work, used, calls, fails>>

\* LockRole waits for the holder, and finds the role or not.
LockRole(c) ==
    /\ call[c].at = "lock" /\ holder = Nobody
    /\ IF TableExist THEN holder' = c /\ Goes(c, "body") ELSE Ends(c) /\ UNCHANGED holder
    /\ UNCHANGED <<db, work, used, calls, fails>>

----------------------------------------------------------------------------
\* What a transaction does to one index.

\* The loop that looks for the id leaves the count at 0 when it is not there: the first
\* of the gather goes in its place.  Of an empty gather there is no first: the code
\* panics, the definition has no value, and a run that comes here stops.
WithoutId(gather, id) ==
    LET count == CHOOSE n \in 1..Len(gather) :
                     \/ gather[n] = id
                     \/ n = 1 /\ ~Contains(gather, id)
    IN  RemoveAt(gather, count)

\* Insert's part in one index: a gather with the id, or the id at its end.
AddToIndex(index, value, id) ==
    [v \in DOMAIN index \cup {value} |->
        IF v # value THEN index[v]
        ELSE IF v \in DOMAIN index THEN Append(index[v], id) ELSE <<id>>]

\* What Delete, and changeOneFieldIndex first of all, take out of one index: nothing
\* when the map does not have the value.
TakeFromIndex(index, value, id) ==
    [v \in DOMAIN index |-> IF v = value THEN WithoutId(index[v], id) ELSE index[v]]

\* Mutant of changeOneFieldIndex: the id is put back under the old value.
changeOneFieldIndexBack(index, id, old, new) ==
    AddToIndex(TakeFromIndex(index, old, id), old, id)

changeOneFieldIndex(index, id, old, new) ==
    AddToIndex(TakeFromIndex(index, old, id), new, id)

----------------------------------------------------------------------------
\* What a transaction writes.

\* The row an insertion stores: InsertForAutoField writes the id into its field.
StoredRow(c, ai) ==
    [f \in Fields |-> IF call[c].op = "InsertForAutoField" /\ f = AutoField
                      THEN ai ELSE call[c].row[f]]

InsertedAs(c, ai) ==
    [ main    |-> [db.main EXCEPT !.count = ai],
      indexes |-> [f \in db.main.index |->
                      AddToIndex(db.indexes[f], StoredRow(c, ai)[f], ai)],
      rows    |-> [db.rows EXCEPT ![ai] = StoredRow(c, ai)] ]

\* Mutant of Inserted: the increment is the number of the rows.
InsertedByNumber(c) == InsertedAs(c, Cardinality({i \in Ids : db.rows[i] # NoRow}) + 1)

Inserted(c) == InsertedAs(c, db.main.count + 1)

Deleted(id) ==
    [ main    |-> db.main,
      indexes |-> [f \in db.main.index |->
                      TakeFromIndex(db.indexes[f], db.rows[id][f], id)],
      rows    |-> [db.rows EXCEPT ![id] = NoRow] ]

\* The fields that are given change, and with them the indexes of those that have one.
Updated(id, new) ==
    [ main    |-> db.main,
      indexes |-> [f \in db.main.index \cap DOMAIN new |->
                      changeOneFieldIndex(db.indexes[f], id, db.rows[id][f], new[f])],
      rows    |-> [db.rows EXCEPT ![id] =
                      [f \in Fields |-> IF f \in DOMAIN new THEN new[f] ELSE @[f]]] ]

\* The index roles that DropTable finds.
IndexesFound == {f \in db.main.index : db.indexes[f] # NoIndex}

\* Mutant of Dropped: the loop ends before the increment count.
DroppedButTheLast ==
    [ main    |-> NoTable,
      indexes |-> [f \in IndexesFound |-> NoIndex],
      rows    |-> [i \in Ids |-> IF i < db.main.count THEN NoRow ELSE db.rows[i]] ]

\* The rows are those from 0 to the increment count, the index roles those there are.
Dropped ==
    [ main    |-> NoTable,
      indexes |-> [f \in IndexesFound |-> NoIndex],
      rows    |-> [i \in Ids |-> IF i <= db.main.count THEN NoRow ELSE db.rows[i]] ]

Inserts(c) == call[c].op \in {"Insert", "InsertForAutoField"}

Updates(c) == call[c].op \in {"Update", "UpdateFields"}

\* The index roles it reads: those of every field, or of the fields that are given.
Reads(c) == IF Updates(c) THEN db.main.index \cap DOMAIN call[c].row ELSE db.main.index

\* An index role that is missing is an error, and so is a row; Update reads the row
\* only for the old values of its indexes, and without any goes on: the row is back.
WorksOn(c) ==
    call[c].op # "DropTable" =>
        /\ \A f \in Reads(c) : db.indexes[f] # NoIndex
        /\ \/ Inserts(c)
           \/ \E id \in Ids : id = call[c].id /\ db.rows[id] # NoRow
           \/ call[c].op = "Update" /\ Reads(c) = {}

Result(c) ==
    CASE Inserts(c)                -> Inserted(c)
      [] call[c].op = "Delete"     -> Deleted(call[c].id)
      [] Updates(c)                -> Updated(call[c].id, call[c].row)
      [] call[c].op = "DropTable"  -> Dropped

\* The work of a call, all of it under the lock of the main role.
Body(c) ==
    /\ call[c].at = "body" /\ WorksOn(c)
    /\ Inserts(c) => db.main.count < MaxId      \* bound
    /\ work' = Result(c)
    /\ Goes(c, "commit")
    /\ UNCHANGED <<db, holder, used, calls, fails>>

\* The roles the transaction has are as it has written them; DropTable has taken the
\* table off the list as well.
Commit(c) ==
    /\ call[c].at = "commit"
    /\ db' = [ main    |-> work.main,
               indexes |-> [f \in Fields |-> IF f \in DOMAIN work.indexes
                                             THEN work.indexes[f] ELSE db.indexes[f]],
               rows    |-> work.rows,
               listed  |-> db.listed /\ call[c].op # "DropTable" ]
    /\ work' = NoTable /\ holder' = Nobody /\ Ends(c)
    /\ used' = IF Inserts(c) THEN used \cup {work.main.count} ELSE used
    /\ UNCHANGED <<calls, fails>>

\* Rollback, or the end of a transaction that never began.
GivesUp(c) ==
    /\ Ends(c)
    /\ holder' = IF holder = c THEN Nobody ELSE holder
    /\ work' = IF holder = c THEN NoTable ELSE work
    /\ UNCHANGED <<db, used, calls>>

\* A role that is not there; an instance of another type than the prototype; parameters
\* that are not names of fields, each with its value.
Refused(c) ==
    /\ call[c].at = "body" /\ (~WorksOn(c) \/ Inserts(c) \/ Updates(c))
    /\ GivesUp(c) /\ UNCHANGED fails

\* A call to the store fails, or the commit is lost.
Fails(c) ==
    /\ call[c] # Idle /\ fails < MaxFails /\ fails' = fails + 1
    /\ GivesUp(c)

----------------------------------------------------------------------------
\* What is read: rows, count and indexes as they have been committed.  Each of these
\* calls is given with what it returns when nothing is committed between its reads.

\* TableList reads the name of each table that is listed, and fails with the first
\* that it cannot read.
TableListFails == db.listed /\ ~TableExist

Count == IF TableExist THEN db.main.count ELSE Error

Exist(id) == IF TableExist THEN db.rows[id] # NoRow ELSE Error

\* Some fields of a row; of no field, nobody asks whether the row is there.
SelectFields(id, F) ==
    IF TableExist /\ (F = {} \/ db.rows[id] # NoRow)
    THEN [f \in F |-> db.rows[id][f]] ELSE Error

Select(id) == SelectFields(id, Fields)

\* find reads the index of each field of the request; a value that the map does not
\* have is one with an empty gather.
find(requests) ==
    IF TableExist /\ \A n \in DOMAIN requests : db.indexes[requests[n].field] # NoIndex
    THEN [n \in DOMAIN requests |->
             LET index == db.indexes[requests[n].field]
             IN  IF requests[n].value \in DOMAIN index THEN index[requests[n].value]
                                                       ELSE << >>]
    ELSE Error

\* Mutant of slicesCollection: what is there already comes again.
slicesCollectionAll(gather1, gather2) == gather1 \o gather2

slicesCollection(gather1, gather2) ==
    LET got[n \in 0..Len(gather2)] ==
            IF n = 0 THEN gather1
            ELSE IF Contains(got[n - 1], gather2[n]) THEN got[n - 1]
            ELSE Append(got[n - 1], gather2[n])
    IN  got[Len(gather2)]

\* Those of the second, each as often as the first has it.
slicesIntersection(gather1, gather2) ==
    LET Found(id) == [m \in 1..Cardinality({k \in DOMAIN gather1 : gather1[k] = id}) |-> id]
        got[n \in 0..Len(gather2)] ==
            IF n = 0 THEN << >> ELSE got[n - 1] \o Found(gather2[n])
    IN  got[Len(gather2)]

FindOr(requests) ==
    LET g == find(requests)
        got[n \in 0..Len(requests)] ==
            IF n = 0 THEN << >> ELSE slicesCollection(got[n - 1], g[n])
    IN  IF g = Error THEN Error ELSE got[Len(requests)]

\* The loop starts with the first two gathers and ends before the last one: of more
\* than two the last is not looked at, and one alone finds nothing.
FindAnd(requests) ==
    LET g == find(requests)
        last == IF Len(requests) = 2 THEN 2 ELSE Len(requests) - 1
        got[n \in 2..last] ==
            slicesIntersection(IF n = 2 THEN g[1] ELSE got[n - 1], g[n])
    IN  IF g = Error THEN Error
        ELSE IF Len(requests) < 2 THEN << >> ELSE got[last]

----------------------------------------------------------------------------
Next ==
    \E c \in Clients :
        \/ NewTable(c) \/ StoreMain(c) \/ StoreIndex(c) \/ WriteChild(c)
        \/ DropTable(c) \/ Insert(c) \/ InsertForAutoField(c) \/ Delete(c)
        \/ UpdateFields(c) \/ Update(c)
        \/ RowExist(c) \/ LockRole(c) \/ Body(c) \/ Commit(c) \/ Refused(c) \/ Fails(c)

Spec == Init /\ [][Next]_vars

----------------------------------------------------------------------------
\* Every index of the table names exactly the rows with the value, each once: Insert,
\* Delete and the two updates write the row and every index in one transaction, under
\* the lock of the main role (reladb.go, Insert to changeOneFieldIndexDRule).  An index
\* that loses a row takes another one out with the next Delete, or panics.
IndexMatchesRows ==
    TableExist =>
        \A f \in db.main.index : db.indexes[f] # NoIndex =>
            \A v \in Values, id \in Ids :
                v \in DOMAIN db.indexes[f] /\ Contains(db.indexes[f][v], id)
                    <=> db.rows[id] # NoRow /\ db.rows[id][f] = v

\* An id that a row of the table has had is not given to another, also when the row has
\* been deleted or another insertion has failed since: row and count are committed
\* together, and the count is read under the lock (reladb.go Insert).
IdsNotUsedAgain ==
    [][ \A c \in Clients : Commit(c) /\ Inserts(c) => work.main.count \notin used ]_vars

\* A table that is listed is there to be read, or TableList fails for all of them; and
\* nothing is left of rows when there is no table (reladb.go NewTable, DropTable).
ListedIsThere ==
    /\ ~TableListFails
    /\ ~TableExist => \A id \in Ids : db.rows[id] = NoRow

Requests == [field : {f \in Fields : db.indexes[f] # NoIndex}, value : Values]

Matches(id, request) ==
    Exist(id) /\ Select(id)[request.field] = request.value

\* FindOr, and FindAnd of two conditions, find what they are asked for: each row that
\* Select would show to match, once, and no other; and Count counts every row there
\* is (reladb.go FindOr, FindAnd, Select, Count).
FindsWhatMatches ==
    TableExist =>
        /\ \A id \in Ids : Exist(id) => id <= Count
        /\ \A r1, r2 \in Requests :
               /\ IsInjective(FindOr(<<r1, r2>>))
               /\ ToSet(FindOr(<<r1, r2>>)) = {id \in Ids : Matches(id, r1) \/ Matches(id, r2)}
               /\ IsInjective(FindAnd(<<r1, r2>>))
               /\ ToSet(FindAnd(<<r1, r2>>)) = {id \in Ids : Matches(id, r1) /\ Matches(id, r2)}
=============================================================================
