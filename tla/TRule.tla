------------------------------- MODULE TRule -------------------------------
(***************************************************************************)
(* src/srule/trule put together: the spot cache (SpotCacheOp), the         *)
(* transaction pool (TransactionOp), and the clients, each a goroutine     *)
(* that begins one transaction, makes calls on it one after the other      *)
(* (transaction.go) and ends it with Commit or Rollback.                   *)
(*                                                                         *)
(* A client may stop calling at any time.  Once a nil dereference has      *)
(* crashed the process nothing moves any more.                             *)
(***************************************************************************)
EXTENDS TransactionOp, FiniteSets

CONSTANTS
    AllowedOps,     \* the operations the clients use: all of Ops, or some
    MaxCalls        \* bound: calls of one client on its transaction

ASSUME TRuleAssumption == AllowedOps \subseteq Ops /\ MaxCalls \in Nat

VARIABLES
    client,         \* what each client is doing
    calls           \* how many calls it has made (the bound counts them)

clientVars == <<client, calls>>
vars == <<cacheVars, poolVars, clientVars>>

ClientTypeOK ==
    /\ client \in [Trans -> {"new", "beginning", "idle", "calling", "ending"}]
    /\ calls \in [Trans -> Nat]

TypeOK == CacheTypeOK /\ PoolTypeOK /\ ClientTypeOK

Init ==
    /\ CacheInit
    /\ PoolInit
    /\ client = [t \in Trans |-> "new"]
    /\ calls = [t \in Trans |-> 0]

Becomes(t, state) == client' = [client EXCEPT ![t] = state]

StartsCall(t, state) ==
    /\ calls' = [calls EXCEPT ![t] = @ + 1]
    /\ Becomes(t, state)

----------------------------------------------------------------------------
(* Beginning and ending.                                                   *)

\* Begin (of TRule): ask, and wait to be given the transaction.
Begin(t) ==
    /\ client[t] = "new"
    /\ SendTranSignal("begin", t)
    /\ Becomes(t, "beginning")
    /\ UNCHANGED <<cacheVars, calls>>

Begun(t) ==
    /\ ToBegin(t)
    /\ Becomes(t, "idle")
    /\ UNCHANGED <<cacheVars, calls>>

\* Commit and Rollback.  Neither looks at be_delete: a client may end its
\* transaction again, and is told that it does not exist.  The bound never
\* keeps a client from ending it the first time.
MayEnd(t) == client[t] = "idle" /\ (fate[t] = "open" \/ calls[t] < MaxCalls)

Commit(t) ==
    /\ MayEnd(t)
    /\ SendTranSignal("commit", t)
    /\ StartsCall(t, "ending")
    /\ UNCHANGED cacheVars

Rollback(t) ==
    /\ MayEnd(t)
    /\ SendTranSignal("rollback", t)
    /\ StartsCall(t, "ending")
    /\ UNCHANGED cacheVars

End(t) ==
    /\ ToEnd(t)
    /\ UNCHANGED <<cacheVars, clientVars>>

EndUnknown(t) ==
    /\ ToEndUnknown(t)
    /\ Becomes(t, "idle")
    /\ UNCHANGED <<cacheVars, calls>>

\* gotoCommit and gotoRollback: a store or reset signal for one more spot.
FinishSpot(t, s) ==
    /\ GotoFinishSpot(t, s)
    /\ UNCHANGED clientVars

Ended(t) ==
    /\ GotoReply(t)
    /\ Becomes(t, "idle")
    /\ UNCHANGED <<cacheVars, calls>>

----------------------------------------------------------------------------
(* The operations on a spot.                                               *)

\* getSpot and getSpotForNew up to the wait for the answer.
CallSpot(t, op, s) ==
    /\ client[t] = "idle"
    /\ fate[t] = "open"
    /\ calls[t] < MaxCalls
    /\ StartsCall(t, "calling")
    /\ SendSignal(IF op = "StoreSpot" THEN "write" ELSE "get", t, s)
    /\ call' = [call EXCEPT ![t] = NewCall(op, s)]
    /\ UNCHANGED <<disk, gen, cached, obj, fin, clean_count, cleaners, crashed, poolVars>>

\* Faulty variant of Receive: readers list their spots too.
ReceiveListsReaders(t) ==
    /\ Reply(t)
    /\ IF call[t].re = "error"
       THEN /\ call' = [call EXCEPT ![t] = NoCall]
            /\ Becomes(t, "idle")
            /\ spot_cache' = spot_cache
       ELSE /\ call' = [call EXCEPT ![t].pc = "got"]
            /\ client' = client
            /\ spot_cache' = [spot_cache EXCEPT ![t] = @ \cup {call[t].spot}]
    /\ UNCHANGED <<tsignal, transaction, count_transaction, fate, going, calls>>

\* The answer reaches getSpot.  A spot asked for writing is listed in the
\* transaction's spot_cache, unless the answer is an error: the call is then
\* over, and the spot is not listed although askToGet was done.
Receive(t) ==
    /\ Reply(t)
    /\ IF call[t].re = "error"
       THEN /\ call' = [call EXCEPT ![t] = NoCall]
            /\ Becomes(t, "idle")
            /\ spot_cache' = spot_cache
       ELSE /\ call' = [call EXCEPT ![t].pc = "got"]
            /\ client' = client
            /\ spot_cache' = IF ForWrite(call[t].op)
                             THEN [spot_cache EXCEPT ![t] = @ \cup {call[t].spot}]
                             ELSE spot_cache
    /\ UNCHANGED <<tsignal, transaction, count_transaction, fate, going, calls>>

\* An operation that uses the pointer it was given: the process dies if that
\* pointer is nil, and otherwise the object becomes c and the call is over.
Touches(t, isnil, c) ==
    /\ crashed' = isnil
    /\ obj' = IF isnil THEN obj ELSE [obj EXCEPT ![call[t].spot][call[t].gen] = c]
    /\ call' = [call EXCEPT ![t] = NoCall]
    /\ Becomes(t, "idle")
    /\ UNCHANGED <<disk, gen, cached, signal, fin, clean_count, cleaners, poolVars, calls>>

Answered(t, op) == call[t].pc = "got" /\ call[t].op = op

\* The spotc that getSpot returned (when it is not nil).
Spotc(t) == obj[call[t].spot][call[t].gen]

\* The two that only look whether there is a spot, or fetch its pointer.
ExistSpot(t) == Answered(t, "ExistSpot") /\ Touches(t, FALSE, Spotc(t))

ReadSpot(t) == Answered(t, "ReadSpot") /\ Touches(t, FALSE, Spotc(t))

\* ReadFather, ReadChildren, ReadFriends and the reads of statuses, contexts
\* and data: all dereference the spot.
ReadField(t) == Answered(t, "ReadField") /\ Touches(t, Spotc(t).spot = Nil, Spotc(t))

\* WriteFather, WriteChildren and the other writes of a part change the spot in
\* place (a write of data that fails on the body leaves what ReadSpot leaves).
WriteField(t) ==
    /\ Answered(t, "WriteField")
    /\ Touches(t, Spotc(t).spot = Nil, [Spotc(t) EXCEPT !.spot = t, !.be_change = TRUE])

\* WriteContext does as much to a spot it has asked to read, which its
\* transaction does not occupy and will neither store nor reset.
WriteContext(t) ==
    /\ Answered(t, "WriteContext")
    /\ Touches(t, Spotc(t).spot = Nil, [Spotc(t) EXCEPT !.spot = t, !.be_change = TRUE])

\* StoreSpot replaces the spot; without one the answer had no spotc either.
StoreSpot(t) ==
    /\ Answered(t, "StoreSpot")
    /\ Touches(t, call[t].re = "empty", [Spotc(t) EXCEPT !.spot = t, !.be_change = TRUE])

DeleteSpot(t) ==
    /\ Answered(t, "DeleteSpot")
    /\ Touches(t, FALSE, [Spotc(t) EXCEPT !.be_delete = "yes", !.be_change = TRUE])

Use(t) ==
    \/ ExistSpot(t) \/ ReadSpot(t) \/ ReadField(t)
    \/ WriteField(t) \/ WriteContext(t) \/ StoreSpot(t) \/ DeleteSpot(t)

----------------------------------------------------------------------------

CacheRuns == CacheStep /\ UNCHANGED <<poolVars, clientVars>>

ClientStep(t) ==
    \/ Begin(t) \/ Begun(t)
    \/ Commit(t) \/ Rollback(t) \/ End(t) \/ EndUnknown(t) \/ Ended(t)
    \/ \E s \in Spots : FinishSpot(t, s)
    \/ \E op \in AllowedOps, s \in Spots : CallSpot(t, op, s)
    \/ Receive(t)
    \/ Use(t)

Next ==
    /\ ~crashed
    /\ CacheRuns \/ \E t \in Trans : ClientStep(t)

Spec == Init /\ [][Next]_vars

(* Fairness, one condition per goroutine.  The Go scheduler runs every     *)
(* goroutine that can run (weak fairness), and the senders blocked on a    *)
(* full channel get in first come, first served (strong fairness for those *)
(* that send).  Clients owe nothing beyond the call they are in, except    *)
(* where ClientsEnd is assumed: each one then ends its transaction.        *)

Runs(A) == ~crashed /\ A /\ UNCHANGED <<poolVars, clientVars>>

CacheListener == Runs(AskGetSpot \/ AskFinishSpot \/ AskCleanSpots)
PoolListener  == ~crashed /\ \E t \in Trans : Begun(t) \/ End(t) \/ EndUnknown(t)
Server(t)     == Runs(LoadSpot(t) \/ AskForSpot(t))
Caller(t)     == ~crashed /\ (Receive(t) \/ Use(t))
Finisher(f)   == Runs(StoreTheSpot(f) \/ ResetTheSpot(f))
Ender(t)      == ~crashed /\ (Ended(t) \/ \E s \in Spots : FinishSpot(t, s))
Ending(t)     == ~crashed /\ fate[t] = "open" /\ (Commit(t) \/ Rollback(t))

Fairness ==
    /\ WF_vars(CacheListener) /\ WF_vars(PoolListener)
    /\ SF_vars(Runs(ConsCleanSig))
    /\ \A f \in Finishers : WF_vars(Finisher(f))
    /\ \A t \in Trans :
          WF_vars(Server(t)) /\ WF_vars(Caller(t)) /\ SF_vars(Ender(t))

FairSpec == Spec /\ Fairness

\* What WritersServed assumes besides.
ClientsEnd == \A t \in Trans : SF_vars(Ending(t))

----------------------------------------------------------------------------
(* Properties.                                                             *)

\* No cleaning has been asked for yet.  askCleanSpots runs besides the
\* goroutines of calls already dispatched, and what it then does to the
\* occupation of a spot no property here covers.
Quiet == clean_count < CleanCycle

\* t's store or reset of s is on its way: in the channel, or dispatched.
Finishing(t, s) ==
    \/ \E i \in 1 .. Len(signal) :
          signal[i].ask \in {"store", "reset"} /\ signal[i].tran = t /\ signal[i].spot = s
    \/ \E f \in fin : f.tran = t /\ f.spot = s

\* t has written s, or may, and its changes are not settled yet.
Holds(t, s) == s \in spot_cache[t] \/ Finishing(t, s)

\* A spot that a transaction has taken for writing stays occupied by it until
\* its store or reset has been carried out, wherever that is by then: in the
\* pool's loop, in the channel, or in a goroutine not yet run.  So no other
\* transaction can have taken it (askToGet, askToRelease, gotoCommit).
OccupiedByHolder ==
    Quiet => \A t \in Trans, s \in Spots : Holds(t, s) => obj[s][gen[s]].tran_id = t

\* Only content of transactions that asked to commit ever reaches the disk,
\* whatever else was in memory at the time (storeTheSpot, resetTheSpot).
DiskCommitted ==
    Quiet => \A s \in Spots : disk[s] \in Trans => fate[disk[s]] = "commit"

\* A call that took its spot for writing finds there what the disk had, what
\* a committed transaction left, or the transaction's own changes; never what
\* a transaction wrote that was, or will be, rolled back (resetTheSpot).
ReadsCommitted ==
    Quiet => \A t \in Trans :
        call[t].pc = "got" /\ call[t].re = "ok" /\ ForWrite(call[t].op) =>
            LET v == obj[call[t].spot][call[t].gen].spot
            IN  v \in Trans \ {t} => fate[v] = "commit"

\* A free spot that is in memory and not deleted is what its file says, and a
\* deleted one has no file, so that the next transaction starts from what the
\* last one settled (getSpotFromStorage, storeTheSpot, resetTheSpot).  A disk
\* that fails can leave it behind a commit, never behind anything else.
CacheCoherent ==
    Quiet => \A s \in Spots :
        LET c == obj[s][gen[s]]
            unwritten == IOFails /\ c.spot \in Trans /\ fate[c.spot] = "commit"
        IN  gen[s] > 0 /\ c.tran_id = NoTran =>
                /\ c.be_delete # "yes"
                /\ c.be_delete = "commit" => disk[s] = Nil \/ IOFails
                /\ c.be_delete = "no" /\ c.spot # Nil => disk[s] = c.spot \/ unwritten

\* The places of t in the queues: object and position.
Tickets(t) ==
    {place \in Spots \X Gens \X (1 .. Cardinality(Trans)) :
        LET line == obj[place[1]][place[2]].wait_line
        IN  place[3] <= Len(line) /\ line[place[3]].tran = t}

\* Each goroutine that waits for a spot has exactly one place in exactly the
\* queue it waits in, and nobody else has one: a wake-up always finds its
\* sleeper, and none is sent twice (askToGet, askToRelease).
WaitersQueued ==
    \A t \in Trans :
        IF call[t].pc = "wait"
        THEN \E i \in 1 .. Cardinality(Trans) :
                Tickets(t) = {<<call[t].spot, call[t].gen, i>>}
        ELSE Tickets(t) = {}

\* Who occupies the spot, as far as the map knows.
occupier == [s \in Spots |-> IF gen[s] = 0 THEN NoTran ELSE obj[s][gen[s]].tran_id]

Abstract == INSTANCE ExclusiveStore WITH owner <- occupier, disk <- disk, fate <- fate

\* A file only ever changes while its spot is occupied, and then into what the
\* occupier left there, and the spot changes hands only as that is settled:
\* the cache, the pool and their goroutines implement ExclusiveStore.
ImplementsExclusiveStore == Abstract!Spec

\* Commit and Rollback are always answered (listen, gotoCommit, gotoRollback),
\* whatever the state of the spots, of the channels and of the other clients.
EndAnswered ==
    \A t \in Trans : (client[t] = "ending") ~> (client[t] # "ending" \/ crashed)

\* When every client ends its transaction, every writer of an existing spot
\* has its turn (askToRelease hands each spot on in the order of its queue).
WritersServed ==
    (\A s \in Spots : disk[s] # Nil) /\ ClientsEnd =>
        \A t \in Trans : (client[t] = "calling") ~> (client[t] # "calling")
=============================================================================
