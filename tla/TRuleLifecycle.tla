--------------------------- MODULE TRuleLifecycle --------------------------
(***************************************************************************)
(* Starting and stopping a TRule (src/srule/trule: TRule.Start and Stop,   *)
(* and the Start, Stop and listen of transactionOp and spotCacheOp) while  *)
(* clients begin transactions, take spots and end their transactions.      *)
(*                                                                         *)
(* What TRule models in full is reduced here to what the listeners do: a   *)
(* call on a spot is served when the spot listener takes its signal, and   *)
(* ending a transaction that took a spot costs one store signal.           *)
(***************************************************************************)
EXTENDS Naturals, Sequences, FiniteSets

CONSTANTS
    Clients,        \* goroutines with one transaction each
    Clean,          \* the signal of consCleanSig
    SignalLen,      \* SPOT_CACHE_SIGNAL_CHANNEL_LEN
    TranSignalLen,  \* TRANSACTION_SIGNAL_CHANNEL_LEN
    MaxStarts       \* bound: calls of Start

ASSUME LifecycleAssumption ==
    /\ IsFiniteSet(Clients)
    /\ Clean \notin Clients
    /\ SignalLen \in Nat \ {0} /\ TranSignalLen \in Nat \ {0} /\ MaxStarts \in Nat

VARIABLES
    work_status,    \* "paused", "running" or "pauseing"
    closed,         \* closed of transactionOp: 0, 1 or 2
    checking,       \* the pool's listen goroutines at the top of their loop
    selecting,      \* ... and in the select below it
    spotListeners,  \* listen goroutines of the spot cache
    stopper,        \* where the goroutine in TRule.Stop stands
    starts,         \* calls of Start so far (the bound counts them)
    client,         \* what each client is doing
    took,           \* whether its transaction has taken a spot
    tsignal,        \* the channel of transactionSig: whose signals
    signal,         \* the channel of spotCacheSig: whose signals, and Clean
    count_transaction

adminVars == <<work_status, closed, checking, selecting, spotListeners, stopper, starts>>
vars == <<adminVars, client, took, tsignal, signal, count_transaction>>

TypeOK ==
    /\ work_status \in {"paused", "running", "pauseing"}
    /\ closed \in {0, 1, 2}
    /\ checking \in Nat /\ selecting \in Nat /\ spotListeners \in Nat /\ starts \in 0 .. MaxStarts
    /\ stopper \in {"none", "pool", "cache", "clean", "answer"}
    /\ client \in [Clients -> {"new", "beginning", "open", "asking", "ending",
                               "storing", "stored", "over"}]
    /\ took \in [Clients -> BOOLEAN]
    /\ tsignal \in Seq(Clients) /\ Len(tsignal) <= TranSignalLen
    /\ signal \in Seq(Clients \cup {Clean}) /\ Len(signal) <= SignalLen
    /\ count_transaction \in 0 .. Cardinality(Clients)

Init ==
    /\ work_status = "paused"
    /\ closed = 2
    /\ checking = 0 /\ selecting = 0 /\ spotListeners = 0
    /\ stopper = "none" /\ starts = 0
    /\ client = [c \in Clients |-> "new"]
    /\ took = [c \in Clients |-> FALSE]
    /\ tsignal = << >> /\ signal = << >>
    /\ count_transaction = 0

----------------------------------------------------------------------------
(* Start and Stop.                                                         *)

\* Faulty variant of Start: the pool does not look at closed.
StartAnyway ==
    /\ starts < MaxStarts
    /\ work_status # "running"
    /\ starts' = starts + 1
    /\ spotListeners' = spotListeners + 1
    /\ closed' = 0 /\ checking' = checking + 1 /\ work_status' = "running"
    /\ UNCHANGED <<selecting, stopper, client, took, tsignal, signal, count_transaction>>

\* The spot listener is started before the pool has agreed to start.
Start ==
    /\ starts < MaxStarts
    /\ work_status # "running"
    /\ starts' = starts + 1
    /\ spotListeners' = spotListeners + 1
    /\ IF closed = 2
       THEN closed' = 0 /\ checking' = checking + 1 /\ work_status' = "running"
       ELSE UNCHANGED <<closed, checking, work_status>>
    /\ UNCHANGED <<selecting, stopper, client, took, tsignal, signal, count_transaction>>

\* Stop, up to the pool's closesig.
Stop ==
    /\ work_status = "running" /\ stopper = "none"
    /\ work_status' = "pauseing"
    /\ closed' = 1
    /\ stopper' = "pool"
    /\ UNCHANGED <<checking, selecting, spotListeners, starts, client, took, tsignal,
                   signal, count_transaction>>

\* Faulty variant of PoolCloseSig: the listener returns in any case.
PoolCloseSigReturns ==
    /\ stopper = "pool" /\ selecting > 0
    /\ stopper' = "cache"
    /\ selecting' = selecting - 1
    /\ UNCHANGED <<work_status, closed, checking, spotListeners, starts, client, took,
                   tsignal, signal, count_transaction>>

\* closesig of the pool: its listener returns if no transaction is left,
\* without setting closed to 2, and otherwise goes on.
PoolCloseSig ==
    /\ stopper = "pool" /\ selecting > 0
    /\ stopper' = "cache"
    /\ selecting' = selecting - 1
    /\ checking' = IF count_transaction = 0 THEN checking ELSE checking + 1
    /\ UNCHANGED <<work_status, closed, spotListeners, starts, client, took, tsignal,
                   signal, count_transaction>>

\* closesig of the spot cache: its listener returns, whatever it has to do.
CacheCloseSig ==
    /\ stopper = "cache" /\ spotListeners > 0
    /\ stopper' = "clean"
    /\ spotListeners' = spotListeners - 1
    /\ UNCHANGED <<work_status, closed, checking, selecting, starts, client, took,
                   tsignal, signal, count_transaction>>

\* consCleanSig, which then waits for the answer to its signal.
StopClean ==
    /\ stopper = "clean" /\ Len(signal) < SignalLen
    /\ signal' = Append(signal, Clean)
    /\ stopper' = "answer"
    /\ UNCHANGED <<work_status, closed, checking, selecting, spotListeners, starts, client,
                   took, tsignal, count_transaction>>

----------------------------------------------------------------------------
(* The pool's listener.                                                    *)

\* Faulty variant of PoolCheck: the loop does not look at closed.
PoolCheckNothing ==
    /\ checking > 0
    /\ checking' = checking - 1
    /\ selecting' = selecting + 1
    /\ UNCHANGED <<work_status, closed, spotListeners, stopper, starts, client, took,
                   tsignal, signal, count_transaction>>

\* The top of the loop: a closing pool without transactions is closed.
PoolCheck ==
    /\ checking > 0
    /\ checking' = checking - 1
    /\ IF closed = 1 /\ count_transaction = 0
       THEN closed' = 2 /\ UNCHANGED selecting
       ELSE selecting' = selecting + 1 /\ UNCHANGED closed
    /\ UNCHANGED <<work_status, spotListeners, stopper, starts, client, took, tsignal,
                   signal, count_transaction>>

\* toBegin, toCommit and toRollback.
PoolSignal ==
    /\ selecting > 0 /\ tsignal # << >>
    /\ tsignal' = Tail(tsignal)
    /\ LET c == Head(tsignal)
       IN  IF client[c] = "beginning"
           THEN /\ client' = [client EXCEPT ![c] = "open"]
                /\ count_transaction' = count_transaction + 1
           ELSE /\ client' = [client EXCEPT ![c] = IF took[c] THEN "storing" ELSE "over"]
                /\ count_transaction' = count_transaction - 1
    /\ selecting' = selecting - 1
    /\ checking' = checking + 1
    /\ UNCHANGED <<work_status, closed, spotListeners, stopper, starts, took, signal>>

----------------------------------------------------------------------------
(* The spot cache's listener: a call's signal, a store, or a cleaning.     *)

CacheSignal ==
    /\ spotListeners > 0 /\ signal # << >>
    /\ signal' = Tail(signal)
    /\ IF Head(signal) # Clean /\ client[Head(signal)] = "asking"
       THEN /\ client' = [client EXCEPT ![Head(signal)] = "open"]
            /\ took' = [took EXCEPT ![Head(signal)] = TRUE]
       ELSE UNCHANGED <<client, took>>
    /\ UNCHANGED <<adminVars, tsignal, count_transaction>>

----------------------------------------------------------------------------
(* The clients, and the goroutine of their commit or rollback.             *)

\* Faulty variant of PoolCall: the channel has room for one more.
PoolCallPastTheEnd(c, from, to) ==
    /\ client[c] = from
    /\ Len(tsignal) <= TranSignalLen
    /\ tsignal' = Append(tsignal, c)
    /\ client' = [client EXCEPT ![c] = to]
    /\ UNCHANGED <<adminVars, took, signal, count_transaction>>

\* A signal to the pool: Begin, or Commit and Rollback.
PoolCall(c, from, to) ==
    /\ client[c] = from
    /\ Len(tsignal) < TranSignalLen
    /\ tsignal' = Append(tsignal, c)
    /\ client' = [client EXCEPT ![c] = to]
    /\ UNCHANGED <<adminVars, took, signal, count_transaction>>

\* A signal to the spot cache: getSpot, or the store of gotoCommit.
CacheCall(c, from, to) ==
    /\ client[c] = from
    /\ Len(signal) < SignalLen
    /\ signal' = Append(signal, c)
    /\ client' = [client EXCEPT ![c] = to]
    /\ UNCHANGED <<adminVars, took, tsignal, count_transaction>>

Begin(c)      == PoolCall(c, "new", "beginning")
End(c)        == PoolCall(c, "open", "ending")
Take(c)       == ~took[c] /\ CacheCall(c, "open", "asking")
GotoCommit(c) == CacheCall(c, "storing", "stored")

Next ==
    \/ Start \/ Stop \/ PoolCloseSig \/ CacheCloseSig \/ StopClean
    \/ PoolCheck \/ PoolSignal \/ CacheSignal
    \/ \E c \in Clients : Begin(c) \/ End(c) \/ Take(c) \/ GotoCommit(c)

Spec == Init /\ [][Next]_vars

\* Every goroutine that can run does; the senders on a full channel are served
\* in turn; every client that has begun ends its transaction if it can.
FairSpec ==
    /\ Spec
    /\ WF_vars(PoolCloseSig) /\ WF_vars(CacheCloseSig) /\ SF_vars(StopClean)
    /\ WF_vars(PoolCheck) /\ WF_vars(PoolSignal) /\ WF_vars(CacheSignal)
    /\ \A c \in Clients : SF_vars(End(c)) /\ SF_vars(GotoCommit(c))

----------------------------------------------------------------------------
(* Properties.                                                             *)

\* Whatever the interleaving of Start, Stop, the drain of the pool and a
\* close signal that comes late, two listeners never serve one pool (the map
\* and the count of transactions are theirs alone).
OnePoolListener == checking + selecting <= 1

\* A transaction of the pool can always be ended: a listener is there to take
\* its commit (the two returns of listen, and Start in between).
PoolServed == count_transaction > 0 => checking + selecting > 0

\* A pool that is closing and has no transaction left loses its listener, or
\* gets another transaction: the listener is never left in its select with
\* nobody to wake it (closed set before the close signal, and looked at after
\* every signal).
EmptyPoolCloses ==
    (closed = 1 /\ count_transaction = 0)
        ~> (checking + selecting = 0 \/ count_transaction > 0)

=============================================================================
