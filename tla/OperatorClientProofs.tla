------------------------ MODULE OperatorClientProofs -----------------------
(***************************************************************************)
(* TypeOK and ClosedAfterAll are invariants of OperatorClient, for any set *)
(* of transactions, any capacity of tran_signal and any number of lost     *)
(* answers, with or without timeouts at the DRule.                         *)
(*                                                                         *)
(* ClosedAfterAll is not inductive: Close waits for a count, and what the  *)
(* count says about the DRule rests on the way of each END signal, from    *)
(* the answer that caused it to the handler that takes the count down.     *)
(***************************************************************************)
EXTENDS OperatorClient, FiniteSetTheorems, SequenceTheorems, TLAPS

PCs == {"new", "begin", "add", "open", "signal", "mark", "over"}

Typed == TypeOK /\ pc \in [Actors -> PCs] /\ IsFiniteSet(transaction)

\* A transaction enters the map once, and is asked for at the DRule once.
EnteredOnce ==
    \A t \in Trans :
        /\ pc[t] \in {"new", "begin", "add"} => t \notin transaction
        /\ pc[t] \in {"new", "begin"} => server[t] = "none"

\* Wherever an END signal is on its way, the DRule has ended the transaction.
SignalsEnded ==
    /\ \A t \in Trans : pc[t] = "signal" => server[t] = "ended"
    /\ pc[Monitor] = "signal" => keys # << >> /\ server[Head(keys)] = "ended"
    /\ \A i \in 1 .. Len(tran_signal) : server[tran_signal[i]] = "ended"
    /\ taken # Nil => server[taken] = "ended"

\* Close goes through its stages in order, and passes the WaitGroup when all
\* that it waits for have ended.
CloseInOrder ==
    /\ closer # "listening" => runstatus # "RUNNING"
    /\ runstatus = "CLOSED" => closer = "done"
    /\ \A t \in waited_for : t \in transaction \/ server[t] = "ended"
    /\ closer = "done" => \A t \in waited_for : server[t] = "ended"

ClientInvariant == Typed /\ EnteredOnce /\ SignalsEnded /\ CloseInOrder

LEMMA ClientInit == Init => ClientInvariant
<1> SUFFICES ASSUME Init PROVE ClientInvariant
  OBVIOUS
<1> USE OperatorClientAssumption DEF Init, Actors
<1>1. Typed
  <2>1. IsFiniteSet(transaction) /\ tran_wait = Cardinality(transaction)
    BY FS_EmptySet
  <2>2. pc \in [Actors -> PCs]
    BY DEF PCs
  <2>3. work \in [Trans -> 0 .. MaxWork] /\ fails \in 0 .. MaxFails
    OBVIOUS
  <2>4. server \in [Trans -> {"none", "live", "ended"}]
    OBVIOUS
  <2>5. /\ \A t \in Trans : pc[t] \in {"new", "begin", "add", "open", "signal", "mark", "over"}
        /\ pc[Monitor] \in {"open", "signal", "mark"}
    OBVIOUS
  <2>6. /\ keys \in Seq(Trans)
        /\ tran_signal \in Seq(Trans) /\ Len(tran_signal) <= SignalLen
    OBVIOUS
  <2>7. QED
    BY <2>1, <2>2, <2>3, <2>4, <2>5, <2>6 DEF Typed, TypeOK
<1>2. QED
  BY <1>1 DEF ClientInvariant, EnteredOnce, SignalsEnded, CloseInOrder

----------------------------------------------------------------------------
(* Steps that leave the map, the signals and Close alone.                  *)

Quietly == UNCHANGED <<closeVars, tranVars>>

LEMMA Unmoved ==
    ASSUME ClientInvariant, Quietly,
           pc' \in [Actors -> PCs], pc'[Monitor] \in {"open", "signal", "mark"},
           keys' \in Seq(Trans), lock' \in Trans \cup {Nil},
           idle' \subseteq Trans, bedelete' \subseteq Trans, detached' \subseteq Trans,
           keeping' \in BOOLEAN, panicked' \in BOOLEAN, lost' \subseteq Trans,
           server' \in [Trans -> {"none", "live", "ended"}],
           work' \in [Trans -> 0 .. MaxWork], fails' \in 0 .. MaxFails,
           \A t \in Trans : server[t] = "ended" => server'[t] = "ended",
           \A t \in Trans : pc'[t] \in {"new", "begin", "add"} => pc[t] \in {"new", "begin", "add"},
           \A t \in Trans : pc'[t] \in {"new", "begin"} => pc[t] \in {"new", "begin"} /\ server'[t] = server[t],
           \A t \in Trans : pc'[t] = "signal" => server'[t] = "ended",
           pc'[Monitor] = "signal" => keys' # << >> /\ server'[Head(keys')] = "ended"
    PROVE  ClientInvariant'
<1> USE DEF ClientInvariant, Typed, TypeOK, Quietly, closeVars, tranVars
<1>1. Typed'
  BY DEF PCs, Actors
<1>2. EnteredOnce'
  BY DEF EnteredOnce
<1>3. \A i \in 1 .. Len(tran_signal) : tran_signal[i] \in Trans
  OBVIOUS
<1>4. SignalsEnded'
  BY <1>3 DEF SignalsEnded
<1>5. CloseInOrder'
  BY DEF CloseInOrder
<1>6. QED
  BY <1>1, <1>2, <1>4, <1>5

LEMMA UnmovedStutter == ASSUME ClientInvariant, UNCHANGED vars PROVE ClientInvariant'
<1> USE DEF ClientInvariant, vars, closeVars, tranVars, serverVars, boundVars
<1>1. Typed'
  BY DEF Typed, TypeOK
<1>2. EnteredOnce' /\ SignalsEnded' /\ CloseInOrder'
  BY DEF EnteredOnce, SignalsEnded, CloseInOrder
<1>3. QED
  BY <1>1, <1>2

LEMMA PanicsNext == ASSUME ClientInvariant, Panics PROVE ClientInvariant'
<1> USE DEF Panics, closeVars, tranVars, serverVars, boundVars
<1>1. ClientInvariant
  OBVIOUS
<1>2. Quietly
  BY DEF Quietly
<1>3. /\ pc' = pc /\ keys' = keys /\ server' = server
  OBVIOUS
<1>4. QED
  BY <1>1, <1>2, <1>3, Unmoved DEF ClientInvariant, Typed, TypeOK, EnteredOnce, SignalsEnded

LEMMA BeginNext == ASSUME ClientInvariant, NEW t \in Trans, Begin(t) PROVE ClientInvariant'
<1> USE OperatorClientAssumption
    DEF Begin, Goes, closeVars, tranVars, serverVars, boundVars, ClientInvariant, Typed, TypeOK, Actors
<1>1. Quietly
  BY DEF Quietly
<1>2. /\ pc' \in [Actors -> PCs]
      /\ pc'[Monitor] = pc[Monitor]
      /\ \A u \in Trans : pc'[u] = pc[u] \/ (u = t /\ pc'[u] \in {"begin", "over"})
      /\ keys' = keys /\ server' = server /\ pc[t] = "new"
  BY DEF PCs
<1>3. QED
  BY <1>1, <1>2, Unmoved DEF EnteredOnce, SignalsEnded

LEMMA FailBounded == ASSUME fails \in 0 .. MaxFails, Fail PROVE fails' \in 0 .. MaxFails
  BY OperatorClientAssumption DEF Fail

LEMMA BeginSendNext == ASSUME ClientInvariant, NEW t \in Trans, BeginSend(t) PROVE ClientInvariant'
<1>1. CASE ~Drule /\ Panics
  BY <1>1, PanicsNext
<1>2. CASE ~(~Drule /\ Panics)
  <2> USE <1>2, OperatorClientAssumption
      DEF BeginSend, Goes, Fail, closeVars, tranVars, serverVars, boundVars, ClientInvariant,
          Typed, TypeOK, Actors
  <2>1. Quietly
    BY DEF Quietly
  <2>2. /\ pc' \in [Actors -> PCs]
        /\ pc'[Monitor] = pc[Monitor]
        /\ \A u \in Trans : pc'[u] = pc[u] \/ (u = t /\ pc'[u] \in {"add", "over"})
        /\ pc'[t] \in {"add", "over"}
        /\ keys' = keys /\ pc[t] = "begin"
    BY DEF PCs
  <2>3. /\ server' \in [Trans -> {"none", "live", "ended"}]
        /\ \A u \in Trans : u # t => server'[u] = server[u]
        /\ server[t] = "none"
    BY DEF EnteredOnce
  <2>4. lock' \in Trans \cup {Nil}
    OBVIOUS
  <2>7. fails' \in 0 .. MaxFails
    BY FailBounded
  <2>8. \A u \in Trans :
           /\ server[u] = "ended" => server'[u] = "ended"
           /\ pc'[u] \in {"new", "begin", "add"} => pc[u] \in {"new", "begin", "add"}
           /\ pc'[u] \in {"new", "begin"} => pc[u] \in {"new", "begin"} /\ server'[u] = server[u]
           /\ pc'[u] = "signal" => server'[u] = "ended"
    BY <2>2, <2>3 DEF SignalsEnded
  <2>9. /\ lost' = lost /\ keys' = keys /\ idle' = idle /\ bedelete' = bedelete
        /\ detached' = detached /\ keeping' = keeping /\ panicked' = panicked /\ work' = work
    OBVIOUS
  <2>5. pc'[Monitor] = "signal" => keys' # << >> /\ server'[Head(keys')] = "ended"
    BY <2>2, <2>3 DEF SignalsEnded
  <2>6. QED
    BY <2>1, <2>2, <2>3, <2>4, <2>5, <2>7, <2>8, <2>9, Unmoved
<1>3. QED
  BY <1>1, <1>2

LEMMA WorkNext == ASSUME ClientInvariant, NEW t \in Trans, Work(t) \/ Age(t) PROVE ClientInvariant'
<1> USE OperatorClientAssumption
    DEF Work, Age, closeVars, tranVars, serverVars, boundVars, ClientInvariant, Typed, TypeOK
<1>1. Quietly
  BY DEF Quietly
<1>2. /\ pc' = pc /\ keys' = keys /\ server' = server
  OBVIOUS
<1>3. work' \in [Trans -> 0 .. MaxWork] /\ fails' \in 0 .. MaxFails
  OBVIOUS
<1>4. QED
  BY <1>1, <1>2, <1>3, Unmoved DEF EnteredOnce, SignalsEnded

LEMMA GiveUpNext == ASSUME ClientInvariant, NEW t \in Trans, GiveUp(t) PROVE ClientInvariant'
<1> USE OperatorClientAssumption
    DEF GiveUp, Goes, closeVars, tranVars, serverVars, boundVars, ClientInvariant, Typed, TypeOK, Actors
<1>1. Quietly
  BY DEF Quietly
<1>2. /\ pc' \in [Actors -> PCs]
      /\ pc'[Monitor] = pc[Monitor]
      /\ \A u \in Trans : pc'[u] = pc[u] \/ (u = t /\ pc'[u] = "over")
      /\ keys' = keys /\ server' = server
  BY DEF PCs
<1>3. QED
  BY <1>1, <1>2, Unmoved DEF EnteredOnce, SignalsEnded

LEMMA ServerEndsNext == ASSUME ClientInvariant, NEW t \in Trans, ServerEnds(t) PROVE ClientInvariant'
<1> USE OperatorClientAssumption
    DEF ServerEnds, EndsUnheard, closeVars, tranVars, boundVars, ClientInvariant, Typed, TypeOK
<1>1. Quietly
  BY DEF Quietly
<1>2. /\ server' \in [Trans -> {"none", "live", "ended"}]
      /\ \A u \in Trans : server'[u] = server[u] \/ (u = t /\ server'[u] = "ended")
      /\ server[t] = "live"
  OBVIOUS
<1>3. pc' = pc /\ keys' = keys
  OBVIOUS
<1>4. pc'[Monitor] = "signal" => keys' # << >> /\ server'[Head(keys')] = "ended"
  BY <1>2, <1>3 DEF SignalsEnded
<1>5. QED
  BY <1>1, <1>2, <1>3, <1>4, Unmoved DEF EnteredOnce, SignalsEnded

----------------------------------------------------------------------------
(* Commit, Rollback and the monitor.                                       *)

\* What End and EndMark make of the goroutine and of the monitor's keys.
LEMMA LeaveSteps ==
    ASSUME ClientInvariant, NEW p \in Actors, NEW again \in BOOLEAN, Leave(p, again),
           p = Monitor => keys # << >>, pc[p] \in {"open", "mark"}
    PROVE  /\ pc' \in [Actors -> PCs]
           /\ keys' \in Seq(Trans)
           /\ pc'[Monitor] \in {"open", "signal", "mark"}
           /\ pc'[Monitor] = "signal" => keys' = keys /\ pc[Monitor] = "signal"
           /\ \A u \in Trans : pc'[u] = pc[u] \/ pc'[u] \in {"open", "over"}
<1> USE OperatorClientAssumption DEF Leave, Goes, ClientInvariant, Typed, TypeOK, Actors, PCs
<1>1. CASE p = Monitor
  <2>1. pc' = [pc EXCEPT ![Monitor] = "open"] /\ keys' = Tail(keys)
    BY <1>1
  <2>2. Tail(keys) \in Seq(Trans)
    BY <1>1
  <2>3. QED
    BY <2>1, <2>2
<1>2. CASE p # Monitor
  BY <1>2
<1>3. QED
  BY <1>1, <1>2

LEMMA EndNext ==
    ASSUME ClientInvariant, NEW p \in Actors, p = Monitor => keys # << >>,
           End(p, Of(p))
    PROVE  ClientInvariant'
<1> DEFINE t == Of(p)
<1>1. t \in Trans
  BY OperatorClientAssumption DEF Of, Actors, ClientInvariant, Typed, TypeOK
<1>2. Quietly
  BY DEF End, Quietly, closeVars, tranVars
<1>3. /\ pc[p] = "open"
      /\ lock' = lock /\ idle' = idle /\ bedelete' = bedelete /\ detached' = detached
      /\ keeping' = keeping /\ work' = work
  BY DEF End, closeVars, tranVars
<1>4. panicked' \in BOOLEAN /\ fails' \in 0 .. MaxFails
  <2>1. panicked' \in BOOLEAN /\ fails \in 0 .. MaxFails
    BY DEF End, ClientInvariant, Typed, TypeOK
  <2>2. fails' = fails \/ Fail
    BY DEF End
  <2>3. QED
    BY <2>1, <2>2, FailBounded
<1>5. /\ server' \in [Trans -> {"none", "live", "ended"}]
      /\ lost' \subseteq Trans
      /\ server' = server \/ (server[t] = "live" /\ server' = [server EXCEPT ![t] = "ended"])
  BY <1>1 DEF End, EndsUnheard, ClientInvariant, Typed, TypeOK, serverVars
<1>6. \A u \in Trans : server'[u] = server[u] \/ (server[u] = "live" /\ server'[u] = "ended")
  BY <1>1, <1>5 DEF ClientInvariant, Typed, TypeOK
<1>7. \/ pc' = pc /\ keys' = keys
      \/ \E again \in BOOLEAN : Leave(p, again)
      \/ pc' = [pc EXCEPT ![p] = "signal"] /\ keys' = keys /\ server' = [server EXCEPT ![t] = "ended"]
  BY DEF End, Goes, Fail
<1>8. /\ pc' \in [Actors -> PCs]
      /\ keys' \in Seq(Trans)
      /\ pc'[Monitor] \in {"open", "signal", "mark"}
      /\ pc'[Monitor] = "signal" => keys' # << >> /\ server'[Head(keys')] = "ended"
      /\ \A u \in Trans :
            \/ pc'[u] = pc[u]
            \/ pc'[u] \in {"open", "over"}
            \/ pc'[u] = "signal" /\ server'[u] = "ended"
  <2>1. keys # << >> => Head(keys) \in Trans
    BY DEF ClientInvariant, Typed, TypeOK
  <2>2. pc[Monitor] = "signal" => keys # << >> /\ server'[Head(keys)] = "ended"
    BY <2>1, <1>6 DEF SignalsEnded, ClientInvariant, Typed, TypeOK
  <2>3. CASE pc' = pc /\ keys' = keys
    BY <2>2, <2>3 DEF ClientInvariant, Typed, TypeOK
  <2>4. CASE \E again \in BOOLEAN : Leave(p, again)
    BY <1>3, <2>2, <2>4, LeaveSteps
  <2>5. CASE pc' = [pc EXCEPT ![p] = "signal"] /\ keys' = keys /\ server' = [server EXCEPT ![t] = "ended"]
    <3> USE OperatorClientAssumption DEF ClientInvariant, Typed, TypeOK, Actors, PCs
    <3>1. server'[t] = "ended"
      BY <1>1, <2>5
    <3>2. pc' \in [Actors -> PCs] /\ keys' \in Seq(Trans) /\ pc'[Monitor] \in {"open", "signal", "mark"}
      BY <2>5
    <3>3. pc'[Monitor] = "signal" => keys' # << >> /\ server'[Head(keys')] = "ended"
      BY <2>5, <2>2, <3>1 DEF Of
    <3>4. \A u \in Trans : pc'[u] = pc[u] \/ (pc'[u] = "signal" /\ server'[u] = "ended")
      BY <2>5, <3>1 DEF Of
    <3>5. QED
      BY <3>2, <3>3, <3>4
  <2>6. QED
    BY <1>7, <2>3, <2>4, <2>5
<1>9. \A u \in Trans : pc[u] \in {"new", "begin"} => server'[u] = server[u]
  BY <1>6 DEF ClientInvariant, EnteredOnce
<1>10. \A u \in Trans : pc'[u] = "signal" => server'[u] = "ended"
  BY <1>6, <1>8 DEF ClientInvariant, SignalsEnded
<1>11. QED
  BY <1>2, <1>3, <1>4, <1>5, <1>6, <1>8, <1>9, <1>10, Unmoved DEF ClientInvariant, Typed, TypeOK

LEMMA EndMarkNext ==
    ASSUME ClientInvariant, NEW p \in Actors, p = Monitor => keys # << >>, EndMark(p, Of(p))
    PROVE  ClientInvariant'
<1>1. Of(p) \in Trans
  BY OperatorClientAssumption DEF Of, Actors, ClientInvariant, Typed, TypeOK
<1>2. Quietly /\ server' = server /\ pc[p] = "mark" /\ Leave(p, FALSE)
  BY DEF EndMark, Quietly, closeVars, tranVars, serverVars
<1>3. /\ pc' \in [Actors -> PCs]
      /\ keys' \in Seq(Trans)
      /\ pc'[Monitor] \in {"open", "signal", "mark"}
      /\ pc'[Monitor] = "signal" => keys' = keys /\ pc[Monitor] = "signal"
      /\ \A u \in Trans : pc'[u] = pc[u] \/ pc'[u] \in {"open", "over"}
  BY <1>2, LeaveSteps
<1>4. /\ lock' = lock /\ idle' = idle /\ bedelete' \subseteq Trans /\ detached' = detached
      /\ keeping' = keeping /\ work' = work /\ fails' = fails /\ lost' = lost /\ panicked' = panicked
  BY <1>1 DEF EndMark, closeVars, tranVars, serverVars, boundVars, ClientInvariant, Typed, TypeOK
<1>5. QED
  BY <1>2, <1>3, <1>4, Unmoved DEF ClientInvariant, Typed, TypeOK, SignalsEnded

LEMMA KeepLifeNext == ASSUME ClientInvariant, KeepLife PROVE ClientInvariant'
<1>1. CASE ~Drule /\ Panics
  BY <1>1, PanicsNext
<1>2. CASE ~(~Drule /\ Panics)
  <2> USE <1>2 DEF KeepLife, Fail, closeVars, tranVars, serverVars, boundVars, ClientInvariant, Typed, TypeOK
  <2>1. Quietly /\ pc' = pc /\ keys' = keys /\ server' = server
    BY DEF Quietly
  <2>2. fails' \in 0 .. MaxFails /\ keeping' \in BOOLEAN
    BY FailBounded
  <2>3. QED
    BY <2>1, <2>2, Unmoved DEF EnteredOnce, SignalsEnded
<1>3. QED
  BY <1>1, <1>2

LEMMA FunctionIsSequence == ASSUME NEW S, NEW n \in Nat, NEW f \in [1 .. n -> S] PROVE f \in Seq(S)
<1>1. Seq(S) = UNION {[1 .. m -> S] : m \in Nat}
  BY SeqDef
<1>2. f \in UNION {[1 .. m -> S] : m \in Nat}
  BY Zenon
<1>3. QED
  BY <1>1, <1>2

LEMMA CollectNext == ASSUME ClientInvariant, Collect PROVE ClientInvariant'
<1> USE DEF Collect, closeVars, tranVars, serverVars, boundVars, ClientInvariant, Typed, TypeOK
<1>1. Quietly /\ pc' = pc /\ server' = server /\ pc[Monitor] = "open"
  BY DEF Quietly
<1>2. keys' \in Seq(Trans)
  <2> DEFINE old == transaction \cap idle
  <2>1. Cardinality(old) \in Nat
    BY FS_Subset, FS_CardinalityType
  <2>2. keys' \in [1 .. Cardinality(old) -> old]
    OBVIOUS
  <2>3. keys' \in [1 .. Cardinality(old) -> Trans]
    BY <2>2
  <2>4. \E n \in Nat : keys' \in [1 .. n -> Trans]
    BY <2>1, <2>3
  <2>5. QED
    BY <2>4, FunctionIsSequence
<1>3. QED
  BY <1>1, <1>2, Unmoved DEF EnteredOnce, SignalsEnded

----------------------------------------------------------------------------
(* Into the map and out of it, by way of the signals.                      *)

LEMMA BeginAddNext == ASSUME ClientInvariant, NEW t \in Trans, BeginAdd(t) PROVE ClientInvariant'
<1> USE OperatorClientAssumption
    DEF BeginAdd, Goes, closeVars, tranVars, serverVars, boundVars, ClientInvariant, Actors
<1>1. t \notin transaction /\ pc[t] = "add"
  BY DEF EnteredOnce
<1>2. IsFiniteSet(transaction') /\ tran_wait' = Cardinality(transaction')
  BY <1>1, FS_AddElement DEF Typed, TypeOK
<1>3. /\ pc' \in [Actors -> PCs]
      /\ pc'[Monitor] = pc[Monitor]
      /\ \A u \in Trans : u # t => pc'[u] = pc[u]
      /\ pc'[t] = "open"
  BY DEF Typed, TypeOK, PCs
<1>4. Typed'
  BY <1>2, <1>3 DEF Typed, TypeOK, PCs
<1>5. EnteredOnce'
  BY <1>3 DEF EnteredOnce
<1>6. SignalsEnded'
  BY <1>3 DEF SignalsEnded
<1>7. CloseInOrder'
  <2>1. closer = "done" => \A u \in waited_for : server[u] = "ended"
    BY DEF CloseInOrder
  <2>2. QED
    BY <2>1 DEF CloseInOrder
<1>8. QED
  BY <1>4, <1>5, <1>6, <1>7

LEMMA EndSignalNext ==
    ASSUME ClientInvariant, NEW p \in Actors, p = Monitor => keys # << >>, EndSignal(p, Of(p))
    PROVE  ClientInvariant'
<1> USE DEF EndSignal, Goes, closeVars, serverVars, boundVars, ClientInvariant, Actors
<1>1. Of(p) \in Trans /\ server[Of(p)] = "ended" /\ pc[p] = "signal"
  BY OperatorClientAssumption DEF Of, Typed, TypeOK, SignalsEnded
<1>2. /\ pc' \in [Actors -> PCs]
      /\ \A q \in Actors : pc'[q] = pc[q] \/ (q = p /\ pc'[q] = "mark")
  BY DEF Typed, PCs
<1>3. /\ tran_signal' \in Seq(Trans)
      /\ Len(tran_signal') = Len(tran_signal) + 1
      /\ \A i \in 1 .. Len(tran_signal') :
            tran_signal'[i] = IF i = Len(tran_signal') THEN Of(p) ELSE tran_signal[i]
  BY <1>1 DEF Typed, TypeOK
<1>4. Len(tran_signal') <= SignalLen
  BY <1>3, OperatorClientAssumption DEF Typed, TypeOK
<1>5. Typed'
  <2>1. /\ \A t \in Trans : pc'[t] \in {"new", "begin", "add", "open", "signal", "mark", "over"}
        /\ pc'[Monitor] \in {"open", "signal", "mark"}
    BY <1>2 DEF Typed, TypeOK
  <2>2. QED
    BY <1>2, <1>3, <1>4, <2>1 DEF Typed, TypeOK
<1>6. EnteredOnce'
  BY <1>2 DEF EnteredOnce
<1>7. SignalsEnded'
  <2>1. \A i \in 1 .. Len(tran_signal') : server'[tran_signal'[i]] = "ended"
    BY <1>1, <1>3 DEF SignalsEnded, Typed, TypeOK
  <2>2. /\ \A t \in Trans : pc'[t] = "signal" => server'[t] = "ended"
        /\ pc'[Monitor] = "signal" => keys' # << >> /\ server'[Head(keys')] = "ended"
    BY <1>2 DEF SignalsEnded
  <2>3. taken' # Nil => server'[taken'] = "ended"
    BY DEF SignalsEnded
  <2>4. QED
    BY <2>1, <2>2, <2>3 DEF SignalsEnded
<1>8. CloseInOrder'
  BY DEF CloseInOrder
<1>9. QED
  BY <1>5, <1>6, <1>7, <1>8

LEMMA TakeSignalNext == ASSUME ClientInvariant, TakeSignal PROVE ClientInvariant'
<1> USE DEF TakeSignal, closeVars, serverVars, boundVars, ClientInvariant
<1>1. /\ taken' \in Trans /\ server[taken'] = "ended"
      /\ tran_signal' \in Seq(Trans)
      /\ Len(tran_signal') = Len(tran_signal) - 1
      /\ \A i \in 1 .. Len(tran_signal') : tran_signal'[i] = tran_signal[i + 1]
  BY DEF Typed, TypeOK, SignalsEnded
<1>2. Len(tran_signal') <= SignalLen
  BY <1>1, OperatorClientAssumption DEF Typed, TypeOK
<1>3. Typed'
  BY <1>1, <1>2 DEF Typed, TypeOK
<1>4. SignalsEnded'
  <2>1. Len(tran_signal) \in Nat
    BY DEF Typed, TypeOK
  <2>2. \A i \in 1 .. Len(tran_signal') : server'[tran_signal'[i]] = "ended"
    BY <1>1, <2>1 DEF SignalsEnded
  <2>3. QED
    BY <1>1, <2>2 DEF SignalsEnded
<1>5. EnteredOnce' /\ CloseInOrder'
  BY DEF EnteredOnce, CloseInOrder
<1>6. QED
  BY <1>3, <1>4, <1>5

LEMMA HandleSignalNext == ASSUME ClientInvariant, HandleSignal PROVE ClientInvariant'
<1> USE DEF HandleSignal, closeVars, serverVars, boundVars, ClientInvariant
<1>1. IsFiniteSet(transaction') /\ tran_wait' = Cardinality(transaction')
  <2>1. CASE taken \in transaction
    BY <2>1, FS_RemoveElement DEF Typed, TypeOK
  <2>2. CASE taken \notin transaction
    <3>1. transaction' = transaction
      BY <2>2
    <3>2. QED
      BY <2>2, <3>1 DEF Typed, TypeOK
  <2>3. QED
    BY <2>1, <2>2
<1>2. Typed'
  BY <1>1 DEF Typed, TypeOK
<1>3. EnteredOnce' /\ SignalsEnded'
  BY DEF EnteredOnce, SignalsEnded
<1>4. CloseInOrder'
  BY DEF CloseInOrder, SignalsEnded
<1>5. QED
  BY <1>2, <1>3, <1>4

----------------------------------------------------------------------------
(* Close.                                                                  *)

LEMMA ClosingNext ==
    ASSUME ClientInvariant, Close \/ CloseSignal \/ CloseWaited \/ Closed
    PROVE  ClientInvariant'
<1> USE DEF Close, CloseSignal, CloseWaited, Closed, tranVars, serverVars, boundVars, ClientInvariant
<1>1. Typed' /\ EnteredOnce' /\ SignalsEnded'
  BY DEF Typed, TypeOK, EnteredOnce, SignalsEnded
<1>2. CASE CloseWaited
  <2>1. transaction = {}
    BY <1>2, FS_EmptySet DEF Typed, TypeOK
  <2>2. CloseInOrder'
    BY <1>2, <2>1 DEF CloseInOrder
  <2>3. QED
    BY <1>1, <2>2
<1>3. CASE Close \/ CloseSignal \/ Closed
  <2>1. CloseInOrder'
    BY <1>3 DEF CloseInOrder
  <2>2. QED
    BY <1>1, <2>1
<1>4. QED
  BY <1>2, <1>3

----------------------------------------------------------------------------

LEMMA ClientNext == ClientInvariant /\ [Next]_vars => ClientInvariant'
<1> SUFFICES ASSUME ClientInvariant, [Next]_vars PROVE ClientInvariant'
  OBVIOUS
<1> USE DEF ClientInvariant
<1>1. CASE UNCHANGED vars
  BY <1>1, UnmovedStutter
<1>2. ASSUME NEW t \in Trans, Begin(t) \/ Work(t) \/ End(t, t) \/ GiveUp(t) \/ ServerEnds(t) \/ Age(t)
      PROVE  ClientInvariant'
  <2>1. Of(t) = t /\ t # Monitor /\ t \in Actors
    BY OperatorClientAssumption DEF Of, Actors
  <2>2. QED
    BY <1>2, <2>1, BeginNext, WorkNext, EndNext, GiveUpNext, ServerEndsNext
<1>3. ASSUME NEW p \in Actors, Ending(p) PROVE ClientInvariant'
  BY <1>3, EndSignalNext, EndMarkNext DEF Ending
<1>4. ASSUME NEW t \in Trans, Goroutine(t) PROVE ClientInvariant'
  <2>1. t \in Actors
    BY DEF Actors
  <2>2. QED
    BY <1>3, <1>4, <2>1, BeginSendNext, BeginAddNext DEF Goroutine
<1>5. CASE Monitoring
  <2>1. CASE RollbackIdle
    <3>1. Of(Monitor) = Head(keys) /\ Monitor \in Actors
      BY DEF Of, Actors
    <3>2. QED
      BY <2>1, <3>1, EndNext, PanicsNext DEF RollbackIdle
  <2>2. Monitor \in Actors
    BY DEF Actors
  <2>3. QED
    BY <1>3, <1>5, <2>1, <2>2, CollectNext DEF Monitoring
<1>6. CASE Handling
  BY <1>6, TakeSignalNext, HandleSignalNext DEF Handling
<1>7. CASE KeepLife \/ Close \/ Closing
  BY <1>7, KeepLifeNext, ClosingNext DEF Closing
<1>8. QED
  BY <1>1, <1>2, <1>4, <1>5, <1>6, <1>7 DEF Next

\* Everything an Operator keeps is well typed; tran_wait counts the map, and END
\* signals never exceed their channel.
THEOREM ClientType == Spec => []TypeOK
<1>1. ClientInvariant => TypeOK
  BY DEF ClientInvariant, Typed
<1>2. QED
  BY <1>1, ClientInit, ClientNext, PTL DEF Spec

\* When Close has returned, every transaction that was there when it was called has
\* ended at the DRule (closeSignalHandle).
THEOREM CloseIsLast == Spec => []ClosedAfterAll
<1>1. ClientInvariant => ClosedAfterAll
  BY DEF ClientInvariant, CloseInOrder, ClosedAfterAll
<1>2. QED
  BY <1>1, ClientInit, ClientNext, PTL DEF Spec
=============================================================================
