--------------------------- MODULE OperatorClient ---------------------------
(***************************************************************************)
(* An Operator (src/drule2/operator/operator.go), the client's end of a    *)
(* DRule: the transactions begun through it, the goroutines that count them*)
(* down and time them out, and Close, which waits for all of them.         *)
(*                                                                         *)
(* A goroutine of the program uses each transaction; transactionSignal-    *)
(* Handle takes their END signals, tranTimeOutMonitor rolls idle ones back,*)
(* closeSignalHandle waits for tran_wait, autoKeepLife keeps the login.    *)
(* The DRule, in turn, ends transactions that it finds idle.               *)
(***************************************************************************)
EXTENDS Naturals, Sequences, FiniteSets

CONSTANTS
    Trans,          \* the transactions begun, each by a goroutine of its own
    Monitor,        \* tranTimeOutMonitor
    Nil,
    SignalLen,      \* capacity of tran_signal
    TimesOut,       \* whether the DRule ends idle transactions by itself
    MaxWork,        \* bound: operations in one transaction
    MaxFails        \* bound: requests or answers lost

ASSUME OperatorClientAssumption ==
    /\ Monitor \notin Trans
    /\ Nil \notin Trans \cup {Monitor}
    /\ SignalLen \in Nat \ {0}
    /\ TimesOut \in BOOLEAN
    /\ MaxWork \in Nat /\ MaxFails \in Nat

VARIABLES
    runstatus,      \* OPERATOR_RUN_*
    closer,         \* where closeSignalHandle is
    lock,           \* who holds transaction_lock over a step
    transaction,    \* the map of transactions
    tran_wait,      \* the WaitGroup
    tran_signal,    \* END signals sent
    taken,          \* the signal that transactionSignalHandle is at
    idle,           \* transactions whose activetime is too old
    bedelete,
    detached,       \* transactions that were begun without a druleInfo
    pc,             \* of each goroutine
    keys,           \* the transactions that the monitor has yet to roll back
    keeping,        \* autoKeepLife is running
    server,         \* each transaction at the DRule
    panicked,       \* a nil pointer was used, and the process is gone
    work, fails,    \* counts for the bounds
    waited_for,     \* history: the transactions there when Close was called,
    lost            \* and those that ended at the DRule without an answer that says so

closeVars == <<runstatus, closer, waited_for>>
tranVars == <<transaction, tran_wait, tran_signal, taken>>
boundVars == <<work, fails>>
serverVars == <<server, lost>>
vars == <<closeVars, lock, tranVars, idle, bedelete, detached, pc, keys, keeping, serverVars,
          panicked, boundVars>>

Actors == Trans \cup {Monitor}

TypeOK ==
    /\ runstatus \in {"RUNNING", "CLOSEING", "CLOSED"}
    /\ closer \in {"listening", "waiting", "done"}
    /\ lock \in Trans \cup {Nil}
    /\ transaction \subseteq Trans
    /\ tran_wait = Cardinality(transaction)
    /\ tran_signal \in Seq(Trans) /\ Len(tran_signal) <= SignalLen
    /\ taken \in Trans \cup {Nil}
    /\ idle \subseteq Trans /\ bedelete \subseteq Trans /\ detached \subseteq Trans
    /\ \A t \in Trans : pc[t] \in {"new", "begin", "add", "open", "signal", "mark", "over"}
    /\ pc[Monitor] \in {"open", "signal", "mark"}
    /\ keys \in Seq(Trans)
    /\ keeping \in BOOLEAN
    /\ server \in [Trans -> {"none", "live", "ended"}]
    /\ panicked \in BOOLEAN
    /\ work \in [Trans -> 0 .. MaxWork]
    /\ fails \in 0 .. MaxFails
    /\ waited_for \subseteq Trans /\ lost \subseteq Trans

\* NewOperator has logged in and started the goroutines.
Init ==
    /\ runstatus = "RUNNING"
    /\ closer = "listening"
    /\ lock = Nil
    /\ transaction = {} /\ tran_wait = 0
    /\ tran_signal = << >> /\ taken = Nil
    /\ idle = {} /\ bedelete = {} /\ detached = {}
    /\ pc = [p \in Actors |-> IF p = Monitor THEN "open" ELSE "new"]
    /\ keys = << >>
    /\ keeping = TRUE
    /\ server = [t \in Trans |-> "none"]
    /\ panicked = FALSE
    /\ work = [t \in Trans |-> 0]
    /\ fails = 0
    /\ waited_for = {} /\ lost = {}

Goes(p, where) == pc' = [pc EXCEPT ![p] = where]

Panics ==
    /\ panicked' = TRUE
    /\ UNCHANGED <<closeVars, lock, tranVars, idle, bedelete, detached, pc, keys, keeping,
                   serverVars, boundVars>>

\* o.drule is nil once Close has returned.
Drule == runstatus # "CLOSED"

Fail == fails < MaxFails /\ fails' = fails + 1

----------------------------------------------------------------------------
(* Begin, under transaction_lock from first to last.                       *)

Begin(t) ==
    /\ pc[t] = "new"
    /\ lock = Nil
    /\ IF runstatus = "RUNNING"
       THEN lock' = t /\ Goes(t, "begin")
       ELSE lock' = lock /\ Goes(t, "over")
    /\ UNCHANGED <<closeVars, tranVars, idle, bedelete, detached, keys, keeping, serverVars,
                   panicked, boundVars>>

\* checkLogin and the request; without an answer there is no transaction.
BeginSend(t) ==
    /\ pc[t] = "begin"
    /\ \/ ~Drule /\ Panics
       \/ /\ Drule
          /\ lost' = lost
          /\ \/ /\ server' = [server EXCEPT ![t] = "live"]
                /\ Goes(t, "add")
                /\ UNCHANGED <<lock, fails>>
             \/ /\ Fail
                /\ server' \in {server, [server EXCEPT ![t] = "live"]}
                /\ Goes(t, "over")
                /\ lock' = Nil
          /\ UNCHANGED <<closeVars, tranVars, idle, bedelete, detached, keys, keeping, panicked, work>>

\* Into the map and the WaitGroup, with the druleInfo as it is now.
BeginAdd(t) ==
    /\ pc[t] = "add"
    /\ transaction' = transaction \cup {t}
    /\ tran_wait' = tran_wait + 1
    /\ detached' = IF Drule THEN detached ELSE detached \cup {t}
    /\ Goes(t, "open")
    /\ lock' = Nil
    /\ UNCHANGED <<closeVars, tran_signal, taken, idle, bedelete, keys, keeping, serverVars,
                   panicked, boundVars>>

\* An operation renews the transaction here and, when it gets there, at the DRule.
Work(t) ==
    /\ pc[t] = "open"
    /\ t \notin bedelete \cup detached
    /\ work[t] < MaxWork
    /\ work' = [work EXCEPT ![t] = @ + 1]
    /\ idle' = idle \ {t}
    /\ UNCHANGED <<closeVars, lock, tranVars, bedelete, detached, pc, keys, keeping, serverVars,
                   panicked, fails>>

Age(t) ==
    /\ pc[t] \notin {"new", "begin", "add"}
    /\ t \notin idle
    /\ idle' = idle \cup {t}
    /\ UNCHANGED <<closeVars, lock, tranVars, bedelete, detached, pc, keys, keeping, serverVars,
                   panicked, boundVars>>

----------------------------------------------------------------------------
(* Commit and Rollback, by the transaction's goroutine or by the monitor.  *)

Of(p) == IF p = Monitor THEN Head(keys) ELSE p

\* The monitor goes on to the next key, whatever came of it; a goroutine may try again.
Leave(p, again) ==
    IF p = Monitor
    THEN keys' = Tail(keys) /\ Goes(p, "open")
    ELSE keys' = keys /\ Goes(p, IF again THEN "open" ELSE "over")

EndsUnheard(t) ==
    /\ server' = [server EXCEPT ![t] = "ended"]
    /\ lost' = lost \cup {t}

\* Mutant of End: the signal is sent before the DRule has answered.
EndUnanswered(p, t) ==
    /\ pc[p] = "open"
    /\ t \notin bedelete
    /\ Goes(p, "signal")
    /\ UNCHANGED <<closeVars, lock, tranVars, idle, bedelete, detached, keys, keeping, serverVars,
                   panicked, boundVars>>

\* The request: the DRule ends a transaction that it has.  An error answer, or none,
\* leaves everything as it was here.
End(p, t) ==
    /\ pc[p] = "open"
    /\ \/ /\ t \in bedelete
          /\ Leave(p, FALSE)
          /\ UNCHANGED <<serverVars, fails, panicked>>
       \/ /\ t \in detached \ bedelete
          /\ panicked' = TRUE
          /\ UNCHANGED <<pc, keys, serverVars, fails>>
       \/ /\ t \notin bedelete \cup detached
          /\ \/ /\ server[t] = "live"
                /\ server' = [server EXCEPT ![t] = "ended"]
                /\ Goes(p, "signal")
                /\ UNCHANGED <<keys, fails, lost>>
             \/ /\ server[t] = "ended"
                /\ Leave(p, TRUE)
                /\ UNCHANGED <<serverVars, fails>>
             \/ /\ Fail
                /\ \/ UNCHANGED serverVars
                   \/ server[t] = "live" /\ EndsUnheard(t)
                /\ Leave(p, TRUE)
          /\ UNCHANGED panicked
    /\ UNCHANGED <<closeVars, lock, tranVars, idle, bedelete, detached, keeping, work>>

\* Mutant of EndSignal: a transaction that was rolled back is only marked.
EndSignalUnsent(p, t) ==
    /\ pc[p] = "signal"
    /\ Goes(p, "mark")
    /\ UNCHANGED <<closeVars, lock, tranVars, idle, bedelete, detached, keys, keeping, serverVars,
                   panicked, boundVars>>

EndSignal(p, t) ==
    /\ pc[p] = "signal"
    /\ Len(tran_signal) < SignalLen
    /\ tran_signal' = Append(tran_signal, t)
    /\ Goes(p, "mark")
    /\ UNCHANGED <<closeVars, lock, transaction, tran_wait, taken, idle, bedelete, detached,
                   keys, keeping, serverVars, panicked, boundVars>>

EndMark(p, t) ==
    /\ pc[p] = "mark"
    /\ bedelete' = bedelete \cup {t}
    /\ Leave(p, FALSE)
    /\ UNCHANGED <<closeVars, lock, tranVars, idle, detached, keeping, serverVars, panicked, boundVars>>

Ending(p) ==
    /\ p = Monitor => keys # << >>
    /\ \/ EndSignal(p, Of(p))
       \/ EndMark(p, Of(p))

\* The goroutine gives the transaction up without ending it.
GiveUp(t) ==
    /\ pc[t] = "open"
    /\ Goes(t, "over")
    /\ UNCHANGED <<closeVars, lock, tranVars, idle, bedelete, detached, keys, keeping, serverVars,
                   panicked, boundVars>>

----------------------------------------------------------------------------
(* The goroutines of the operator.                                         *)

\* transactionSignalHandle, which ends with the operator.
TakeSignal ==
    /\ Drule
    /\ taken = Nil
    /\ tran_signal # << >>
    /\ taken' = Head(tran_signal)
    /\ tran_signal' = Tail(tran_signal)
    /\ UNCHANGED <<closeVars, lock, transaction, tran_wait, idle, bedelete, detached, pc, keys,
                   keeping, serverVars, panicked, boundVars>>

\* Mutant of HandleSignal: the count is not taken down.
HandleSignalUncounted ==
    /\ taken # Nil
    /\ lock = Nil
    /\ taken' = Nil
    /\ transaction' = transaction \ {taken}
    /\ UNCHANGED <<closeVars, lock, tran_wait, tran_signal, idle, bedelete, detached, pc, keys,
                   keeping, serverVars, panicked, boundVars>>

\* transactionSignalHandleDo, under the lock.
HandleSignal ==
    /\ taken # Nil
    /\ lock = Nil
    /\ taken' = Nil
    /\ transaction' = transaction \ {taken}
    /\ tran_wait' = IF taken \in transaction THEN tran_wait - 1 ELSE tran_wait
    /\ UNCHANGED <<closeVars, lock, tran_signal, idle, bedelete, detached, pc, keys, keeping,
                   serverVars, panicked, boundVars>>

\* tranTimeOutMonitor wakes up and collects the idle ones under the lock, in the
\* order of a map: any.
Collect ==
    /\ Drule
    /\ pc[Monitor] = "open" /\ keys = << >>
    /\ lock = Nil
    /\ LET old == transaction \cap idle
       IN  /\ old # {}
           /\ keys' \in {s \in [1 .. Cardinality(old) -> old] :
                            \A i, j \in DOMAIN s : s[i] = s[j] => i = j}
    /\ UNCHANGED <<closeVars, lock, tranVars, idle, bedelete, detached, pc, keeping, serverVars,
                   panicked, boundVars>>

\* It looks each of them up again, without the lock, and rolls it back.
RollbackIdle ==
    /\ keys # << >>
    /\ IF Head(keys) \in transaction \/ pc[Monitor] # "open"
       THEN End(Monitor, Head(keys))
       ELSE Panics

\* autoKeepLife: with the first error it stops.
KeepLife ==
    /\ keeping
    /\ \/ ~Drule /\ Panics
       \/ /\ Drule
          /\ Fail
          /\ keeping' = FALSE
          /\ UNCHANGED <<closeVars, lock, tranVars, idle, bedelete, detached, pc, keys, serverVars,
                         panicked, work>>

----------------------------------------------------------------------------
(* Close.                                                                  *)

Close ==
    /\ runstatus = "RUNNING"
    /\ runstatus' = "CLOSEING"
    /\ waited_for' = transaction
    /\ UNCHANGED <<closer, lock, tranVars, idle, bedelete, detached, pc, keys, keeping, serverVars,
                   panicked, boundVars>>

\* closeing_signal, then tran_wait.Wait, then closed_signal.
CloseSignal ==
    /\ runstatus = "CLOSEING"
    /\ closer = "listening"
    /\ closer' = "waiting"
    /\ UNCHANGED <<runstatus, waited_for, lock, tranVars, idle, bedelete, detached, pc, keys,
                   keeping, serverVars, panicked, boundVars>>

CloseWaited ==
    /\ closer = "waiting"
    /\ tran_wait = 0
    /\ closer' = "done"
    /\ UNCHANGED <<runstatus, waited_for, lock, tranVars, idle, bedelete, detached, pc, keys,
                   keeping, serverVars, panicked, boundVars>>

Closed ==
    /\ closer = "done"
    /\ runstatus = "CLOSEING"
    /\ runstatus' = "CLOSED"
    /\ UNCHANGED <<closer, waited_for, lock, tranVars, idle, bedelete, detached, pc, keys,
                   keeping, serverVars, panicked, boundVars>>

----------------------------------------------------------------------------
\* The DRule ends a transaction that it finds idle (tranTimeOutMonitor of its TRule).
ServerEnds(t) ==
    /\ TimesOut
    /\ server[t] = "live"
    /\ EndsUnheard(t)
    /\ UNCHANGED <<closeVars, lock, tranVars, idle, bedelete, detached, pc, keys, keeping,
                   panicked, boundVars>>

\* Steps that are taken once they can be.
Goroutine(t) == ~panicked /\ (BeginSend(t) \/ BeginAdd(t) \/ Ending(t))
Monitoring == ~panicked /\ (Collect \/ RollbackIdle \/ Ending(Monitor))
Handling == ~panicked /\ (TakeSignal \/ HandleSignal)
Closing == ~panicked /\ (CloseSignal \/ CloseWaited \/ Closed)

Next ==
    \/ \E t \in Trans :
          \/ ~panicked /\ (Begin(t) \/ Work(t) \/ End(t, t) \/ GiveUp(t) \/ ServerEnds(t))
          \/ ~panicked /\ Age(t)
          \/ Goroutine(t)
    \/ Monitoring
    \/ Handling
    \/ ~panicked /\ KeepLife
    \/ ~panicked /\ Close
    \/ Closing

Spec == Init /\ [][Next]_vars

\* Goroutines go on, and time passes for a transaction; nobody has to begin, work,
\* end or close, and nothing has to fail.
Fairness ==
    /\ \A t \in Trans : WF_vars(Goroutine(t)) /\ WF_vars(~panicked /\ Age(t))
    /\ WF_vars(Monitoring)
    /\ WF_vars(Handling)
    /\ WF_vars(Closing)

FairSpec == Spec /\ Fairness

----------------------------------------------------------------------------
(* What must hold.                                                         *)

\* When Close has returned, the DRule has ended every transaction that was there when
\* it was called, whoever has ended it and whatever was lost in between (closeSignal-
\* Handle waits for tran_wait).
ClosedAfterAll == runstatus = "CLOSED" => \A t \in waited_for : server[t] = "ended"

\* Close returns, as long as the answer to the end of a transaction
\* is not lost, the DRule ends none by itself, and the process lives: idle
\* transactions are rolled back, their signals are handled, the count comes down to
\* zero (tranTimeOutMonitor, transactionSignalHandle, closeSignalHandle).
CloseReturns == runstatus = "CLOSEING" ~> (runstatus = "CLOSED" \/ lost \cap transaction # {} \/ panicked)
=============================================================================
