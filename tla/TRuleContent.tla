---------------------------- MODULE TRuleContent ---------------------------
(***************************************************************************)
(* An inductive invariant of TRule, on top of HoldsInvariant, that implies *)
(* CacheCoherent, ReadsCommitted and DiskCommitted as long as nobody calls *)
(* WriteContext.  Those properties speak of spots that are free, or in the *)
(* hands of a caller; the invariant has to follow the content of a spot    *)
(* through every hand it passes: the writer that changed it, its store or  *)
(* reset, the object in memory and the file.                               *)
(***************************************************************************)
EXTENDS TRuleInvariant

\* No call is one that writes to a spot it does not occupy.
WritersAsk == \A t \in Trans : call[t].op # "WriteContext"

\* A transaction of the pool, or not yet of it, has not ended.
PoolOpen ==
    \A t \in Trans :
        t \in transaction \/ client[t] \in {"new", "beginning"} => fate[t] = "open"

\* What a transaction has asked of the cache is what its end calls for: a
\* store after Commit, a reset after Rollback.
FinishersAgree ==
    /\ \A i \in 1 .. Len(signal) :
          IsFinish(signal[i]) => signal[i].ask = FinishAsk(signal[i].tran)
    /\ \A f \in fin : f.kind = FinishAsk(f.tran)

\* A call that may write has its spot on its transaction's list.
WritersListed ==
    \A t \in Trans :
        call[t].pc = "got" /\ ForWrite(call[t].op) => call[t].spot \in spot_cache[t]

\* Only the last object made for a spot has ever been used.
OthersFresh ==
    \A s \in Spots, g \in Gens : g # gen[s] => obj[s][g] = InitSpotC

Committed(v) == v \in Trans /\ fate[v] = "commit"

\* The spot holds what its occupier wrote.
Own(c) == c.spot \in Trans /\ c.spot = c.tran_id

\* What an object may hold while its file holds d: a deletion mark is a change
\* and its occupier's, or was carried out; an object without changes has what
\* the file has; and content of a transaction is its occupier's, or committed
\* and in the file, unless it could not be written.
Coherent(c, d) ==
    /\ c.be_delete = "yes" => c.tran_id # NoTran
    /\ c.be_delete # "no" => c.be_change
    /\ ~c.be_change /\ c.spot # Nil => c.spot = d
    /\ c.be_delete = "commit" => d = Nil \/ IOFails
    /\ c.spot \in Trans => Committed(c.spot) \/ (Own(c) /\ c.be_change)
    /\ c.be_delete = "no" /\ c.spot # Nil /\ ~Own(c) =>
          d = c.spot \/ (IOFails /\ Committed(c.spot))

ContentCoherent ==
    /\ OthersFresh
    /\ \A s \in Spots, g \in Gens : Coherent(obj[s][g], disk[s])
    /\ \A s \in Spots : disk[s] \in Trans => Committed(disk[s])

\* Each content is where the code will look for it, and says what the
\* transaction that wrote it asked for.
ContentInvariant ==
    /\ WritersAsk
    /\ PoolOpen
    /\ FinishersAgree
    /\ WritersListed
    /\ Quiet => ContentCoherent
=============================================================================
