--------------------------- MODULE TransactionOp ---------------------------
(***************************************************************************)
(* The transaction pool of src/srule/trule/transactionOp.go: one listener  *)
(* takes begin, commit and rollback signals off a buffered channel; the    *)
(* goroutine of a commit or rollback (gotoCommit, gotoRollback) sends the  *)
(* spot cache one store or reset for each spot the transaction wrote, and  *)
(* answers without waiting for any of them to be carried out.              *)
(*                                                                         *)
(* Closing the pool is the subject of TRuleLifecycle.                      *)
(***************************************************************************)
EXTENDS SpotCacheOp, Integers

CONSTANT
    TranSignalLen       \* TRANSACTION_SIGNAL_CHANNEL_LEN

ASSUME TransactionOpAssumption == TranSignalLen \in Nat \ {0}

VARIABLES
    tsignal,            \* the channel of transactionSig
    transaction,        \* the pool: ids of the transactions not ended
    count_transaction,  \* count_transaction
    fate,               \* how each ended; not "open" means be_delete
    spot_cache,         \* per transaction: the spots it has taken for writing
    going               \* whether its gotoCommit or gotoRollback is under way

poolVars == <<tsignal, transaction, count_transaction, fate, spot_cache, going>>

TranSignals == [ask : {"begin", "commit", "rollback"}, tran : Trans]

PoolTypeOK ==
    /\ tsignal \in Seq(TranSignals) /\ Len(tsignal) <= TranSignalLen
    /\ transaction \subseteq Trans
    /\ count_transaction \in Int
    /\ fate \in [Trans -> {"open", "commit", "rollback"}]
    /\ spot_cache \in [Trans -> SUBSET Spots]
    /\ going \in [Trans -> BOOLEAN]

PoolInit ==
    /\ tsignal = << >>
    /\ transaction = {}
    /\ count_transaction = 0
    /\ fate = [t \in Trans |-> "open"]
    /\ spot_cache = [t \in Trans |-> {}]
    /\ going = [t \in Trans |-> FALSE]

----------------------------------------------------------------------------

\* Send a signal, blocking while the channel is full.
SendTranSignal(ask, t) ==
    /\ Len(tsignal) < TranSignalLen
    /\ tsignal' = Append(tsignal, [ask |-> ask, tran |-> t])
    /\ UNCHANGED <<transaction, count_transaction, fate, spot_cache, going>>

\* toBegin, and gotoBegin's answer.
ToBegin(t) ==
    /\ tsignal # << >> /\ Head(tsignal) = [ask |-> "begin", tran |-> t]
    /\ tsignal' = Tail(tsignal)
    /\ transaction' = transaction \cup {t}
    /\ count_transaction' = count_transaction + 1
    /\ UNCHANGED <<fate, spot_cache, going>>

\* Faulty variant of ToEnd: the goroutine that finishes the spots and answers
\* is not started.
ToEndOnly(t) ==
    /\ tsignal # << >> /\ Head(tsignal).tran = t /\ Head(tsignal).ask # "begin"
    /\ t \in transaction
    /\ tsignal' = Tail(tsignal)
    /\ transaction' = transaction \ {t}
    /\ count_transaction' = count_transaction - 1
    /\ fate' = [fate EXCEPT ![t] = Head(tsignal).ask]
    /\ UNCHANGED <<spot_cache, going>>

\* toCommit and toRollback of a transaction of the pool.
ToEnd(t) ==
    /\ tsignal # << >> /\ Head(tsignal).tran = t /\ Head(tsignal).ask # "begin"
    /\ t \in transaction
    /\ tsignal' = Tail(tsignal)
    /\ transaction' = transaction \ {t}
    /\ count_transaction' = count_transaction - 1
    /\ fate' = [fate EXCEPT ![t] = Head(tsignal).ask]
    /\ going' = [going EXCEPT ![t] = TRUE]
    /\ UNCHANGED spot_cache

\* toCommit and toRollback of any other: an error, sent by the listener.
ToEndUnknown(t) ==
    /\ tsignal # << >> /\ Head(tsignal).tran = t /\ Head(tsignal).ask # "begin"
    /\ t \notin transaction
    /\ tsignal' = Tail(tsignal)
    /\ UNCHANGED <<transaction, count_transaction, fate, spot_cache, going>>

\* Faulty variant of FinishAsk: a rollback sends what a commit sends.
FinishAskStore(t) == "store"

\* What gotoCommit and gotoRollback ask of the spot cache.
FinishAsk(t) == IF fate[t] = "commit" THEN "store" ELSE "reset"

\* One turn of the loop over tran.spot_cache: a store or reset for one spot.
\* The spots leave the set one by one here and all together after the loop in
\* the code, which reads the map nowhere in between.
GotoFinishSpot(t, s) ==
    /\ going[t] /\ s \in spot_cache[t]
    /\ SendSignal(FinishAsk(t), t, s)
    /\ spot_cache' = [spot_cache EXCEPT ![t] = @ \ {s}]
    /\ UNCHANGED <<tsignal, transaction, count_transaction, fate, going>>
    /\ UNCHANGED <<disk, gen, cached, obj, call, fin, clean_count, cleaners, crashed>>

\* The answer after the loop.
GotoReply(t) ==
    /\ going[t] /\ spot_cache[t] = {}
    /\ going' = [going EXCEPT ![t] = FALSE]
    /\ UNCHANGED <<tsignal, transaction, count_transaction, fate, spot_cache>>
=============================================================================
