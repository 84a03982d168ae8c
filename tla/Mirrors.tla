------------------------------ MODULE Mirrors ------------------------------
(***************************************************************************)
(* A role of a mirrored area: the master (src/drule2/drule) hands every    *)
(* request of its clients on to the DRules that mirror the area, through   *)
(* an operator for each (src/drule2/operator), and keeps the transactions  *)
(* of its clients in transaction_map, each with an OTransaction on every   *)
(* operator.                                                               *)
(*                                                                         *)
(* A request goes through the tables: the client's method sends an         *)
(* operate code, the code is dispatched to a handler of the master, the    *)
(* handler calls the method of its operators, and that goes the same way   *)
(* to the store of a mirror, which is taken to do what TRule is meant to:  *)
(* one writer at a time, kept until its transaction has ended (RoleStore   *)
(* has what becomes of it in detail).                                      *)
(***************************************************************************)
EXTENDS Naturals, FiniteSets, Sequences

CONSTANTS
    Clients,        \* each with at most one transaction
    Mirrors,        \* the DRules of the area's Mirrors list, in its order
    Nil,
    Called,         \* the methods that each client calls
    AutoCommits,    \* clients that also call them outside a transaction
    Fails,          \* whether connections break and mirrors time transactions out
    MaxCalls        \* bound: calls of one client

Names == {Mirrors[i] : i \in DOMAIN Mirrors}

ASSUME MirrorsAssumption ==
    /\ Mirrors \in Seq(Names)
    /\ Cardinality(Names) = Len(Mirrors)
    /\ Len(Mirrors) > 0
    /\ Nil \notin Clients
    /\ AutoCommits \subseteq Clients
    /\ Fails \in BOOLEAN
    /\ MaxCalls \in Nat

O == INSTANCE OperatorRequests
OT == INSTANCE OTransactionRequests
H == INSTANCE NormalHandlers
T == INSTANCE RoleOperations
A == INSTANCE RoleAutoCommit

\* A call of a client: what it writes bears its name.
Ids == Clients \X (1 .. MaxCalls)

VARIABLES
    role,           \* of each mirror: the call that wrote the role it has stored
    holder,         \* the transaction that has the role for writing there
    tran,           \* the state there of each client's transaction
    written,        \* the calls that have changed the role in a transaction, in order
    transaction_map,\* of the master: clients with a transaction
    at,             \* what the master is doing for each client
    calls,          \* calls made (the bound counts them)
    agreed,         \* history: changes in the client's transaction answered DATA_ALL_OK,
    stored,         \* changes stored by each mirror,
    okd,            \* changes reported to have been stored,
    undone,         \* and changes reported to have been rolled back
    disturbed       \* history: a connection broke, a transaction timed out, or a change
                    \* was made outside a transaction

mirrorVars == <<role, holder, tran, written, stored>>
vars == <<mirrorVars, transaction_map, at, calls, agreed, okd, undone, disturbed>>

Idle == [pc |-> "idle"]

\* Mutant of Work: the errors are not initialised.
WorkUninitialised(pc, intran, method, todo) ==
    [pc |-> pc, intran |-> intran, method |-> method, todo |-> todo, errors |-> Nil, did |-> {}]

\* A request being worked on: the mirrors still to be asked, in turn, and whether
\* one of them has been in error.
Work(pc, intran, method, todo) ==
    [pc |-> pc, intran |-> intran, method |-> method, todo |-> todo, errors |-> FALSE, did |-> {}]

\* The handler that a method of the client, or of the master's own operator, ends at.
HandlerOf(intran, method) ==
    H!Dispatch[IF intran THEN OT!Methods[method].operate ELSE O!Methods[method].operate]

\* What is done to the role at a mirror when a client calls the method: the method of
\* the master's operator is handled there in turn.
LocalOf(intran, method) == HandlerOf(intran, HandlerOf(intran, method).remote).local

OperationOf(intran, method) ==
    IF intran THEN T!Methods[LocalOf(TRUE, method)] ELSE A!Methods[LocalOf(FALSE, method)].op

\* What is sure to be stored with the transaction: not the change that WriteContext
\* makes under the read lock, which is stored when another operation happens to
\* mark the role, and not DeleteFriend, which changes nothing.
Changes(op) == op.effect # "none" /\ op.lock = "WRITE"

\* The methods of both kinds of operator that a store has too, and that send a code
\* which the switch knows.
Callable ==
    {m \in DOMAIN O!Methods \cap DOMAIN OT!Methods \cap DOMAIN T!Methods :
        OT!Methods[m].operate \in DOMAIN H!Dispatch}

ASSUME CalledAssumption == \A c \in Clients : Called[c] \subseteq Callable

TypeOK ==
    /\ role \in [Names -> Ids \cup {Nil}]
    /\ holder \in [Names -> Clients \cup {Nil}]
    /\ tran \in [Names -> [Clients -> {"new", "live", "ended"}]]
    /\ \A s \in Names, c \in Clients : written[s][c] \in Seq(Ids)
    /\ transaction_map \subseteq Clients
    /\ \A c \in Clients :
          \/ at[c] = Idle
          \/ /\ at[c].pc \in {"begin", "undo", "call", "commit", "rollback"}
             /\ {at[c].todo[i] : i \in DOMAIN at[c].todo} \subseteq Names
             /\ at[c].errors \in BOOLEAN
    /\ calls \in [Clients -> 0 .. MaxCalls]
    /\ agreed \in [Clients -> SUBSET Ids]
    /\ stored \in [Names -> SUBSET Ids]
    /\ okd \subseteq Ids
    /\ undone \subseteq Ids
    /\ disturbed \in BOOLEAN

Init ==
    /\ role = [s \in Names |-> Nil]
    /\ holder = [s \in Names |-> Nil]
    /\ tran = [s \in Names |-> [c \in Clients |-> "new"]]
    /\ written = [s \in Names |-> [c \in Clients |-> << >>]]
    /\ transaction_map = {}
    /\ at = [c \in Clients |-> Idle]
    /\ calls = [c \in Clients |-> 0]
    /\ agreed = [c \in Clients |-> {}]
    /\ stored = [s \in Names |-> {}]
    /\ okd = {}
    /\ undone = {}
    /\ disturbed = FALSE

Goes(c, work) == at' = [at EXCEPT ![c] = work]

----------------------------------------------------------------------------
(* A mirror.                                                               *)

Elements(seq) == {seq[i] : i \in DOMAIN seq}

\* Mutant of Ended: the changes stay when they should not.
EndedKeeping(s, c, keep) ==
    LET w == written[s][c]
    IN  /\ tran' = [tran EXCEPT ![s][c] = "ended"]
        /\ holder' = [holder EXCEPT ![s] = IF @ = c THEN Nil ELSE @]
        /\ written' = [written EXCEPT ![s][c] = << >>]
        /\ role' = [role EXCEPT ![s] = IF w # << >> THEN w[Len(w)] ELSE @]
        /\ stored' = [stored EXCEPT ![s] = @ \cup Elements(w)]

\* The end of c's transaction at s, with or without its changes.
Ended(s, c, keep) ==
    LET w == written[s][c]
    IN  /\ tran' = [tran EXCEPT ![s][c] = "ended"]
        /\ holder' = [holder EXCEPT ![s] = IF @ = c THEN Nil ELSE @]
        /\ written' = [written EXCEPT ![s][c] = << >>]
        /\ IF keep /\ w # << >>
           THEN /\ role' = [role EXCEPT ![s] = w[Len(w)]]
                /\ stored' = [stored EXCEPT ![s] = @ \cup Elements(w)]
           ELSE UNCHANGED <<role, stored>>

\* Mutant of TranOperation: nobody waits.
TranOperationAtOnce(s, c, op) ==
    IF op.lock = "READ"
    THEN UNCHANGED mirrorVars
    ELSE /\ holder' = [holder EXCEPT ![s] = c]
         /\ written' = IF Changes(op)
                       THEN [written EXCEPT ![s][c] = Append(@, <<c, calls[c]>>)]
                       ELSE written
         /\ UNCHANGED <<role, tran, stored>>

\* An operation of c's transaction; one that asks for the lock waits for it.
TranOperation(s, c, op) ==
    IF op.lock = "READ"
    THEN UNCHANGED mirrorVars
    ELSE /\ holder[s] \in {Nil, c}
         /\ holder' = [holder EXCEPT ![s] = c]
         /\ written' = IF Changes(op)
                       THEN [written EXCEPT ![s][c] = Append(@, <<c, calls[c]>>)]
                       ELSE written
         /\ UNCHANGED <<role, tran, stored>>

\* An operation outside a transaction: one of its own, that waits for the others,
\* or straight on the disk, that does not.
AutoOperation(s, c, entry) ==
    /\ entry.transaction /\ entry.op.lock = "WRITE" => holder[s] = Nil
    /\ IF Changes(entry.op)
       THEN /\ role' = [role EXCEPT ![s] = <<c, calls[c]>>]
            /\ stored' = [stored EXCEPT ![s] = @ \cup {<<c, calls[c]>>}]
       ELSE UNCHANGED <<role, stored>>
    /\ UNCHANGED <<holder, tran, written>>

\* Its transactions time out one by one (tranTimeOutMonitor of its TRule).
Expire(s, c) ==
    /\ Fails
    /\ tran[s][c] = "live"
    /\ Ended(s, c, FALSE)
    /\ disturbed' = TRUE
    /\ UNCHANGED <<transaction_map, at, calls, agreed, okd, undone>>

----------------------------------------------------------------------------
(* The clients.                                                            *)

\* The operators of a transaction are a map: any order.
Orders(S) == {seq \in [1 .. Cardinality(S) -> S] : Elements(seq) = S}

Ask(c, work) ==
    /\ at[c] = Idle
    /\ Goes(c, work)
    /\ UNCHANGED <<mirrorVars, transaction_map, agreed, okd, undone>>

Begin(c) ==
    /\ \A s \in Names : tran[s][c] = "new"
    /\ \E order \in Orders(Names) : Ask(c, Work("begin", FALSE, Nil, order))
    /\ UNCHANGED <<calls, disturbed>>

\* randomOneOperator draws from all but the last, unless there is but one.
RandomOne == IF Len(Mirrors) = 1 THEN Names ELSE Names \ {Mirrors[Len(Mirrors)]}

Request(c, method, intran) ==
    /\ calls[c] < MaxCalls
    /\ calls' = [calls EXCEPT ![c] = @ + 1]
    /\ IF intran THEN c \in transaction_map ELSE c \in AutoCommits
    /\ disturbed' = (disturbed \/ (~intran /\ HandlerOf(intran, method).writes))
    /\ IF HandlerOf(intran, method).writes
       THEN Ask(c, Work("call", intran, method, Mirrors))
       ELSE \E s \in RandomOne : Ask(c, Work("call", intran, method, <<s>>))

Commit(c) ==
    /\ c \in transaction_map
    /\ \E order \in Orders(Names) : Ask(c, Work("commit", TRUE, Nil, order))
    /\ UNCHANGED <<calls, disturbed>>

Rollback(c) ==
    /\ c \in transaction_map
    /\ \E order \in Orders(Names) : Ask(c, Work("rollback", TRUE, Nil, order))
    /\ UNCHANGED <<calls, disturbed>>

----------------------------------------------------------------------------
(* The master, one mirror after the other.                                 *)

Mirror(c) == Head(at[c].todo)

Asks(c, pcs) == at[c].pc \in pcs /\ at[c].todo # << >>

\* A Begin stops with the first error, at the mirror that has not begun; the others
\* go on.
Going(c) ==
    \/ Asks(c, {"begin"}) /\ ~at[c].errors
    \/ Asks(c, {"call", "commit", "rollback"})

\* Mutant of Heard: the last answer counts.
HeardLast(c, error, did) ==
    Goes(c, [at[c] EXCEPT !.todo = IF error /\ at[c].pc = "begin" THEN @ ELSE Tail(@),
                          !.errors = error,
                          !.did = did])

\* On to the next mirror; an error is kept.
Heard(c, error, did) ==
    Goes(c, [at[c] EXCEPT !.todo = IF error /\ at[c].pc = "begin" THEN @ ELSE Tail(@),
                          !.errors = @ \/ error,
                          !.did = did])

\* The handler of a mirror carries the request out.
Answers(c, s) ==
    \/ /\ at[c].pc = "begin"
       /\ tran' = [tran EXCEPT ![s][c] = "live"]
       /\ UNCHANGED <<role, holder, written, stored>>
    \/ /\ at[c].pc \in {"commit", "rollback"}
       /\ Ended(s, c, at[c].pc = "commit")
    \/ /\ at[c].pc = "call"
       /\ IF at[c].intran
          THEN TranOperation(s, c, OperationOf(TRUE, at[c].method))
          ELSE AutoOperation(s, c, A!Methods[LocalOf(FALSE, at[c].method)])

NeedsTransaction(c) == at[c].intran /\ at[c].pc \in {"call", "commit", "rollback"}

\* What it does there, for the record.
Did(c) ==
    at[c].did \cup (IF at[c].pc = "call" THEN {OperationOf(at[c].intran, at[c].method)} ELSE {})

Served(c) ==
    LET s == Mirror(c)
    IN  /\ Going(c)
        /\ NeedsTransaction(c) => tran[s][c] = "live"
        /\ Answers(c, s)
        /\ \/ Heard(c, FALSE, Did(c)) /\ disturbed' = disturbed
           \/ \* the answer is lost
              Fails /\ Heard(c, TRUE, at[c].did) /\ disturbed' = TRUE
        /\ UNCHANGED <<transaction_map, calls, agreed, okd, undone>>

\* The transaction has ended there: a write, a commit or a rollback is told so, a
\* read is told DATA_ALL_OK.
Unserved(c) ==
    /\ Going(c)
    /\ NeedsTransaction(c)
    /\ tran[Mirror(c)][c] = "ended"
    /\ Heard(c, at[c].pc # "call" \/ HandlerOf(TRUE, at[c].method).checks,
             at[c].did)
    /\ UNCHANGED <<mirrorVars, transaction_map, calls, agreed, okd, undone, disturbed>>

\* The request does not get there.
Unreached(c) ==
    /\ Fails
    /\ Going(c)
    /\ Heard(c, TRUE, at[c].did)
    /\ disturbed' = TRUE
    /\ UNCHANGED <<mirrorVars, transaction_map, calls, agreed, okd, undone>>

\* normalTranBigen: with the first error the transactions that have begun are rolled
\* back, and nothing is looked at.
BeginFails(c) ==
    /\ at[c].pc = "begin"
    /\ at[c].errors
    /\ \E begun \in Orders(Names \ Elements(at[c].todo)) :
          Goes(c, [at[c] EXCEPT !.pc = "undo", !.todo = begun])
    /\ UNCHANGED <<mirrorVars, transaction_map, calls, agreed, okd, undone, disturbed>>

UndoBegin(c) ==
    /\ Asks(c, {"undo"})
    /\ \/ Ended(Mirror(c), c, FALSE) /\ disturbed' = disturbed
       \/ Fails /\ disturbed' = TRUE /\ UNCHANGED mirrorVars
    /\ Goes(c, [at[c] EXCEPT !.todo = Tail(@)])
    /\ UNCHANGED <<transaction_map, calls, agreed, okd, undone>>

\* Nothing left to do: the answer, DATA_ALL_OK unless there were errors.
Done(c, pc) == at[c].pc = pc /\ at[c].todo = << >>

BeginAnswer(c) ==
    /\ \/ Done(c, "begin") /\ ~at[c].errors /\ transaction_map' = transaction_map \cup {c}
       \/ Done(c, "undo") /\ UNCHANGED transaction_map
    /\ Goes(c, Idle)
    /\ UNCHANGED <<mirrorVars, calls, agreed, okd, undone, disturbed>>

CallAnswer(c) ==
    /\ Done(c, "call")
    /\ Goes(c, Idle)
    /\ LET ok == IF ~at[c].errors /\ \E op \in at[c].did : Changes(op) THEN {<<c, calls[c]>>} ELSE {}
       IN  IF at[c].intran THEN agreed' = [agreed EXCEPT ![c] = @ \cup ok] /\ okd' = okd
                           ELSE okd' = okd \cup ok /\ agreed' = agreed
    /\ UNCHANGED <<mirrorVars, transaction_map, calls, undone, disturbed>>

\* The transaction is forgotten whatever the mirrors have said.
EndAnswer(c) ==
    /\ Done(c, "commit") \/ Done(c, "rollback")
    /\ Goes(c, Idle)
    /\ transaction_map' = transaction_map \ {c}
    /\ okd' = IF at[c].pc = "commit" /\ ~at[c].errors THEN okd \cup agreed[c] ELSE okd
    /\ undone' = IF at[c].pc = "rollback" /\ ~at[c].errors THEN undone \cup agreed[c] ELSE undone
    /\ UNCHANGED <<mirrorVars, calls, agreed, disturbed>>

Master(c) ==
    \/ Served(c)
    \/ Unserved(c)
    \/ Unreached(c)
    \/ BeginFails(c)
    \/ UndoBegin(c)
    \/ BeginAnswer(c)
    \/ CallAnswer(c)
    \/ EndAnswer(c)

Next ==
    \E c \in Clients :
        \/ Begin(c)
        \/ \E method \in Called[c], intran \in BOOLEAN : Request(c, method, intran)
        \/ Commit(c)
        \/ Rollback(c)
        \/ Master(c)
        \/ \E s \in Names : Expire(s, c)

Spec == Init /\ [][Next]_vars

----------------------------------------------------------------------------
(* What must hold.                                                         *)

\* A change that a client was told is stored is stored by every mirror: the write
\* was answered outside a transaction, or the transaction was committed, whatever
\* broke or timed out in between (normalTranCommit, the loops over o_s).
OKOnEveryMirror == \A s \in Names : okd \subseteq stored[s]

\* A change that a client was told is rolled back has not been stored anywhere.
UndoneNowhere == \A s \in Names : undone \cap stored[s] = {}

\* As long as nothing breaks and all changes are made in transactions, the mirrors
\* have the same role whenever no commit is under way, however their commits have
\* followed each other on each mirror: nobody commits a change before it holds the
\* role on all of them.
MirrorsAgree ==
    (~disturbed /\ \A c \in Clients : at[c].pc # "commit")
        => \A r, s \in Names : role[r] = role[s]

\* What a mirror does for a request is what the client's method does on a store of
\* its own: the codes, the switch and the handlers fit together.
DoesWhatWasAsked ==
    \A c \in Clients : at[c].pc = "call" => \A op \in at[c].did :
        LET asked == T!Methods[at[c].method]
        IN  op.part = asked.part /\ op.effect = asked.effect /\ op.lock = asked.lock
=============================================================================
