---------------------------- MODULE TRuleProofs ----------------------------
(***************************************************************************)
(* Theorems about TRule, for any sets of transactions and spots, any       *)
(* lengths of the channels and any number of calls: the types; then        *)
(* HoldsInvariant, and with it OccupiedByHolder, with or without a failing *)
(* disk; then that who waits has a place in a queue.  When nobody calls    *)
(* WriteContext, also CacheCoherent, ReadsCommitted and DiskCommitted, and *)
(* that TRule implements ExclusiveStore.                                   *)
(***************************************************************************)
EXTENDS TRuleContent, FiniteSetTheorems, TLAPS

----------------------------------------------------------------------------
(* The operators on one spotCache.                                         *)

\* askToGet and askToRelease keep a spotCache a spotCache.
LEMMA AskToGetType ==
    ASSUME NEW c \in SpotCaches, NEW w \in Ticket
    PROVE  AskToGet(c, w) \in SpotCaches
<1>1. CASE ~Grants(c, w)
  <2>1. Append(c.wait_line, w) \in Seq(Ticket)
    BY DEF SpotCaches
  <2>2. QED
    BY <1>1, <2>1 DEF AskToGet, SpotCaches
<1>2. CASE Grants(c, w)
  BY <1>2 DEF AskToGet, SpotCaches, Ticket
<1>3. QED
  BY <1>1, <1>2

LEMMA AskToReleaseType ==
    ASSUME NEW c \in SpotCaches
    PROVE  AskToRelease(c) \in SpotCaches
<1>1. CASE c.wait_line = << >>
  BY <1>1 DEF AskToRelease, SpotCaches
<1>2. CASE c.wait_line # << >>
  <2>1. Head(c.wait_line) \in Ticket /\ Tail(c.wait_line) \in Seq(Ticket)
    BY <1>2 DEF SpotCaches
  <2>2. QED
    BY <1>2, <2>1 DEF AskToRelease, SpotCaches, Ticket
<1>3. QED
  BY <1>1, <1>2

----------------------------------------------------------------------------
(* Type correctness.                                                       *)

\* Changing one element of a table of tables keeps its type.
LEMMA TypedUpdate ==
    ASSUME NEW S, NEW G, NEW C, NEW f \in [S -> [G -> C]], NEW s, NEW g, NEW c,
           s \in S /\ g \in G => c \in C
    PROVE  [f EXCEPT ![s][g] = c] \in [S -> [G -> C]]
<1>1. CASE s \in S /\ g \in G
  BY <1>1
<1>2. CASE ~(s \in S /\ g \in G)
  <2>1. ASSUME NEW r \in S, NEW h \in G
        PROVE  [f EXCEPT ![s][g] = c][r][h] \in C
    BY <1>2
  <2>2. QED
    BY <2>1
<1>3. QED
  BY <1>1, <1>2

\* A count of the loads stays a number, and does not go down.
LEMMA CountedType ==
    ASSUME clean_count \in Nat, NEW t, NEW n \in Counted(t)
    PROVE  n \in Nat /\ clean_count <= n
<1>1. n = clean_count + 1 \/ n = clean_count
  BY DEF Counted
<1>2. QED
  BY <1>1

\* A transaction without a call has the record of a call.
LEMMA NoCallType == NoCall \in Calls
BY SpotCacheOpAssumption DEF NoCall, Calls

\* So has one that has just made a call.
LEMMA NewCallType ==
    ASSUME NEW op \in Ops, NEW s \in Spots
    PROVE  NewCall(op, s) \in Calls
BY SpotCacheOpAssumption DEF NewCall, Calls

\* The initial states are well typed.
LEMMA InitType == Init => TypeOK
<1> SUFFICES ASSUME Init PROVE TypeOK
  OBVIOUS
<1> USE TransAssumption, SpotCacheOpAssumption, TransactionOpAssumption
<1>1. CacheTypeOK
  <2>1. InitSpotC \in SpotCaches
    BY DEF InitSpotC, SpotCaches
  <2>2. NoCall \in Calls
    BY NoCallType
  <2>3. disk \in [Spots -> Content \cup {Nil}]
    BY DEF Init, CacheInit, Content
  <2>4. signal \in Seq(Signals) /\ Len(signal) <= SignalLen
    BY DEF Init, CacheInit
  <2>5. obj \in [Spots -> [Gens -> SpotCaches]] /\ call \in [Trans -> Calls]
    BY <2>1, <2>2 DEF Init, CacheInit
  <2>6. gen \in [Spots -> 0 .. MaxGen] /\ cached \in [Spots -> BOOLEAN]
    BY DEF Init, CacheInit
  <2>7. \A s \in Spots : cached[s] => gen[s] > 0
    BY DEF Init, CacheInit
  <2>8. fin \subseteq Finishers /\ clean_count \in Nat /\ cleaners \in Nat /\ crashed \in BOOLEAN
    BY DEF Init, CacheInit
  <2>9. QED
    BY <2>3, <2>4, <2>5, <2>6, <2>7, <2>8 DEF CacheTypeOK
<1>2. PoolTypeOK
  BY DEF Init, PoolInit, PoolTypeOK
<1>3. ClientTypeOK
  BY DEF Init, ClientTypeOK
<1>4. QED
  BY <1>1, <1>2, <1>3 DEF TypeOK

\* The ways the steps change the record of a call.
LEMMA CallType ==
    ASSUME call \in [Trans -> Calls], NEW t,
           NEW p \in {"load", "ask", "wait", "reply", "got"}
    PROVE  /\ [call EXCEPT ![t].pc = p] \in [Trans -> Calls]
           /\ \A g \in 0 .. MaxGen :
                 [call EXCEPT ![t].pc = p, ![t].gen = g] \in [Trans -> Calls]
           /\ \A re \in {"none", "ok", "empty", "error"} :
                 [call EXCEPT ![t].pc = p, ![t].re = re] \in [Trans -> Calls]
<1>1. ASSUME NEW u \in Trans
      PROVE  /\ [call[u] EXCEPT !.pc = p] \in Calls
             /\ \A g \in 0 .. MaxGen : [call[u] EXCEPT !.pc = p, !.gen = g] \in Calls
             /\ \A re \in {"none", "ok", "empty", "error"} :
                   [call[u] EXCEPT !.pc = p, !.re = re] \in Calls
  <2>1. call[u] \in Calls
    OBVIOUS
  <2>2. [call[u] EXCEPT !.pc = p] \in Calls
    BY <2>1 DEF Calls
  <2>3. \A g \in 0 .. MaxGen : [call[u] EXCEPT !.pc = p, !.gen = g] \in Calls
    BY <2>1 DEF Calls
  <2>4. \A re \in {"none", "ok", "empty", "error"} : [call[u] EXCEPT !.pc = p, !.re = re] \in Calls
    BY <2>1 DEF Calls
  <2>5. QED
    BY <2>2, <2>3, <2>4
<1>2. QED
  BY <1>1

\* A signal sent is one, and the channel is no longer than it may be.
LEMMA SendSignalType ==
    ASSUME NEW ask, NEW t, NEW s, CacheTypeOK, SendSignal(ask, t, s),
           [ask |-> ask, tran |-> t, spot |-> s] \in Signals
    PROVE  signal' \in Seq(Signals) /\ Len(signal') <= SignalLen
BY SpotCacheOpAssumption DEF CacheTypeOK, SendSignal

\* The step of the listener that serves a get or write keeps the cache well typed.
LEMMA AskGetSpotType == CacheTypeOK /\ AskGetSpot => CacheTypeOK'
<1> SUFFICES ASSUME CacheTypeOK, AskGetSpot PROVE CacheTypeOK'
  OBVIOUS
<1> USE SpotCacheOpAssumption
<1> DEFINE m == Head(signal)
           g == IF cached[m.spot] THEN gen[m.spot] ELSE gen[m.spot] + 1
<1>1. m \in Signals /\ signal' \in Seq(Signals) /\ Len(signal') <= SignalLen
  BY DEF CacheTypeOK, AskGetSpot, Receives
<1>2. m.tran \in Trans /\ m.spot \in Spots
  BY <1>1 DEF Signals, AskGetSpot, Receives
<1>3. g \in 1 .. MaxGen
  BY <1>2 DEF CacheTypeOK, AskGetSpot
<1>4. gen' \in [Spots -> 0 .. MaxGen] /\ cached' \in [Spots -> BOOLEAN]
  BY <1>2, <1>3 DEF CacheTypeOK, AskGetSpot
<1>5. \A s \in Spots : cached'[s] => gen'[s] > 0
  BY <1>2, <1>3 DEF CacheTypeOK, AskGetSpot
<1>6. call' \in [Trans -> Calls]
  <2>1. call' = [call EXCEPT ![m.tran].pc = "load", ![m.tran].gen = g]
    BY DEF AskGetSpot
  <2>2. g \in 0 .. MaxGen
    BY <1>3
  <2>3. [call EXCEPT ![m.tran].pc = "load", ![m.tran].gen = g] \in [Trans -> Calls]
    BY <2>2, CallType DEF CacheTypeOK
  <2>4. QED
    BY <2>1, <2>3
<1>7. QED
  BY <1>1, <1>4, <1>5, <1>6 DEF CacheTypeOK, AskGetSpot

\* So does the one that starts a storeTheSpot or resetTheSpot goroutine,
LEMMA AskFinishSpotType == CacheTypeOK /\ AskFinishSpot => CacheTypeOK'
<1> SUFFICES ASSUME CacheTypeOK, AskFinishSpot PROVE CacheTypeOK'
  OBVIOUS
<1> USE SpotCacheOpAssumption
<1> DEFINE m == Head(signal)
<1>1. m \in Signals /\ signal' \in Seq(Signals) /\ Len(signal') <= SignalLen
  BY DEF CacheTypeOK, AskFinishSpot, Receives
<1>2. m.tran \in Trans /\ m.spot \in Spots /\ m.ask \in {"store", "reset"}
  BY <1>1 DEF Signals, AskFinishSpot, Receives
<1>3. cached[m.spot] => gen[m.spot] \in Gens
  BY <1>2 DEF CacheTypeOK, Gens
<1>4. fin' \subseteq Finishers /\ crashed' \in BOOLEAN
  <2>1. CASE cached[m.spot]
    <3>1. [kind |-> m.ask, tran |-> m.tran, spot |-> m.spot, gen |-> gen[m.spot]] \in Finishers
      BY <1>2, <1>3, <2>1 DEF Finishers
    <3>2. QED
      BY <2>1, <3>1 DEF CacheTypeOK, AskFinishSpot
  <2>2. CASE ~cached[m.spot]
    BY <2>2 DEF CacheTypeOK, AskFinishSpot
  <2>3. QED
    BY <2>1, <2>2
<1>5. QED
  BY <1>1, <1>4 DEF CacheTypeOK, AskFinishSpot

\* the one that cleans the map,
LEMMA AskCleanSpotsType == CacheTypeOK /\ AskCleanSpots => CacheTypeOK'
<1> SUFFICES ASSUME CacheTypeOK, AskCleanSpots PROVE CacheTypeOK'
  OBVIOUS
<1> USE SpotCacheOpAssumption
<1>1. signal' \in Seq(Signals) /\ Len(signal') <= SignalLen
  BY DEF CacheTypeOK, AskCleanSpots, Receives
<1>2. cached' \in [Spots -> BOOLEAN] /\ \A s \in Spots : cached'[s] => cached[s]
  BY DEF CacheTypeOK, AskCleanSpots
<1>3. QED
  BY <1>1, <1>2 DEF CacheTypeOK, AskCleanSpots

\* and the goroutine that asks for the cleaning.
LEMMA ConsCleanSigType == CacheTypeOK /\ ConsCleanSig => CacheTypeOK'
<1> SUFFICES ASSUME CacheTypeOK, ConsCleanSig PROVE CacheTypeOK'
  OBVIOUS
<1>1. signal' \in Seq(Signals) /\ Len(signal') <= SignalLen
  BY SendSignalType DEF ConsCleanSig, Signals
<1>2. cleaners' \in Nat
  BY DEF CacheTypeOK, ConsCleanSig
<1>3. QED
  BY <1>1, <1>2 DEF CacheTypeOK, ConsCleanSig

\* Loading a spot keeps the cache well typed.
LEMMA LoadSpotType ==
    ASSUME CacheTypeOK, NEW t \in Trans, LoadSpot(t)
    PROVE  CacheTypeOK'
<1> DEFINE s == call[t].spot
           g == call[t].gen
<1>1. call' \in [Trans -> Calls]
  <2>1. PICK re \in {"ok", "empty", "error"} :
              call' = [call EXCEPT ![t].pc = "ask", ![t].re = re]
    BY DEF LoadSpot
  <2>2. [call EXCEPT ![t].pc = "ask", ![t].re = re] \in [Trans -> Calls]
    BY CallType DEF CacheTypeOK
  <2>3. QED
    BY <2>1, <2>2
<1>2. clean_count' \in Nat
  <2>1. clean_count' = clean_count \/ clean_count' \in Counted(t)
    BY DEF LoadSpot
  <2>2. QED
    BY <2>1, CountedType DEF CacheTypeOK
<1>3. obj' \in [Spots -> [Gens -> SpotCaches]]
  <2> DEFINE d == [obj[s][g] EXCEPT !.spot = disk[s], !.exist = TRUE]
  <2>1. obj' = obj \/ obj' = [obj EXCEPT ![s][g] = d]
    BY DEF LoadSpot
  <2>2. ASSUME s \in Spots, g \in Gens
        PROVE  d \in SpotCaches
    <3>1. obj[s][g] \in SpotCaches /\ disk[s] \in Content \cup {Nil}
      BY <2>2 DEF CacheTypeOK
    <3>2. QED
      BY <3>1 DEF SpotCaches
  <2>3. obj \in [Spots -> [Gens -> SpotCaches]]
    BY DEF CacheTypeOK
  <2> HIDE DEF d, s, g
  <2>4. [obj EXCEPT ![s][g] = d] \in [Spots -> [Gens -> SpotCaches]]
    BY <2>2, <2>3, TypedUpdate, Zenon
  <2>5. QED
    BY <2>1, <2>3, <2>4
<1>4. QED
  BY <1>1, <1>2, <1>3 DEF CacheTypeOK, LoadSpot

\* So does taking a place in an object's queue.
LEMMA AskForSpotType ==
    ASSUME CacheTypeOK, NEW t \in Trans, AskForSpot(t)
    PROVE  CacheTypeOK'
<1> DEFINE w == [tran |-> t, forwrite |-> ForWrite(call[t].op)]
<1>1. w \in Ticket
  BY DEF Ticket, ForWrite
<1>2. obj' \in [Spots -> [Gens -> SpotCaches]]
  <2> DEFINE s == call[t].spot
             g == call[t].gen
             d == AskToGet(obj[s][g], w)
  <2>1. s \in Spots /\ g \in Gens => d \in SpotCaches
    BY <1>1, AskToGetType DEF CacheTypeOK
  <2>2. obj' = [obj EXCEPT ![s][g] = d]
    BY DEF AskForSpot
  <2>3. obj \in [Spots -> [Gens -> SpotCaches]]
    BY DEF CacheTypeOK
  <2> HIDE DEF s, g, d
  <2>4. [obj EXCEPT ![s][g] = d] \in [Spots -> [Gens -> SpotCaches]]
    BY <2>1, <2>3, TypedUpdate, Zenon
  <2>5. QED
    BY <2>2, <2>4
<1>3. call' \in [Trans -> Calls]
  <2>1. PICK p \in {"reply", "wait"} : call' = [call EXCEPT ![t].pc = p]
    BY DEF AskForSpot
  <2>2. [call EXCEPT ![t].pc = p] \in [Trans -> Calls]
    BY CallType DEF CacheTypeOK
  <2>3. QED
    BY <2>1, <2>2
<1>4. QED
  BY <1>2, <1>3 DEF CacheTypeOK, AskForSpot

\* A release keeps the objects, the calls and the goroutines well typed,
LEMMA ReleaseType ==
    ASSUME CacheTypeOK, NEW f \in fin, NEW c \in SpotCaches, Release(f, c)
    PROVE  /\ obj' \in [Spots -> [Gens -> SpotCaches]]
           /\ call' \in [Trans -> Calls]
           /\ fin' \subseteq Finishers
<1>1. AskToRelease(c) \in SpotCaches
  BY AskToReleaseType
<1>2. obj' \in [Spots -> [Gens -> SpotCaches]]
  <2>1. obj' = [obj EXCEPT ![f.spot][f.gen] = AskToRelease(c)]
    BY DEF Release
  <2>2. obj \in [Spots -> [Gens -> SpotCaches]]
    BY DEF CacheTypeOK
  <2>3. [obj EXCEPT ![f.spot][f.gen] = AskToRelease(c)] \in [Spots -> [Gens -> SpotCaches]]
    BY <1>1, <2>2, TypedUpdate, Zenon
  <2>4. QED
    BY <2>1, <2>3
<1>3. call' \in [Trans -> Calls]
  <2>1. [call EXCEPT ![Woken(c)].pc = "reply"] \in [Trans -> Calls]
    BY CallType DEF CacheTypeOK
  <2>2. QED
    BY <2>1 DEF CacheTypeOK, Release
<1>4. QED
  BY <1>2, <1>3 DEF CacheTypeOK, Release

\* so storeTheSpot does,
LEMMA StoreTheSpotType ==
    ASSUME CacheTypeOK, NEW f \in fin, StoreTheSpot(f)
    PROVE  CacheTypeOK'
<1> DEFINE c == obj[f.spot][f.gen]
<1>1. f \in Finishers /\ c \in SpotCaches
  BY DEF CacheTypeOK, Finishers
<1>2. disk' \in [Spots -> Content \cup {Nil}]
  BY <1>1 DEF CacheTypeOK, StoreTheSpot, Written, SpotCaches
<1>3. [c EXCEPT !.be_delete = "commit"] \in SpotCaches
  BY <1>1 DEF SpotCaches
<1>4. QED
  BY <1>1, <1>2, <1>3, ReleaseType DEF CacheTypeOK, StoreTheSpot

\* and resetTheSpot.
LEMMA ResetTheSpotType ==
    ASSUME CacheTypeOK, NEW f \in fin, ResetTheSpot(f)
    PROVE  CacheTypeOK'
<1> DEFINE c == obj[f.spot][f.gen]
           d(v) == [c EXCEPT !.spot = v, !.be_change = FALSE, !.be_delete = "no"]
<1>1. f \in Finishers /\ c \in SpotCaches
  BY DEF CacheTypeOK, Finishers
<1>2. PICK v \in IF c.be_change THEN Restored(f.spot, c) ELSE {c.spot} : Release(f, d(v))
  BY DEF ResetTheSpot
<1>3. v \in Content \cup {Nil}
  BY <1>1 DEF CacheTypeOK, Restored, SpotCaches, Finishers
<1>4. d(v) \in SpotCaches
  BY <1>1, <1>3 DEF SpotCaches
<1>5. QED
  BY <1>1, <1>2, <1>4, ReleaseType DEF CacheTypeOK, ResetTheSpot

\* Every step of the cache keeps it well typed.
LEMMA CacheStepType == CacheTypeOK /\ CacheStep => CacheTypeOK'
BY AskGetSpotType, AskFinishSpotType, AskCleanSpotsType, ConsCleanSigType, LoadSpotType,
   AskForSpotType, StoreTheSpotType, ResetTheSpotType DEF CacheStep

\* A signal to the pool keeps the pool well typed.
LEMMA SendTranSignalType ==
    ASSUME PoolTypeOK, NEW ask \in {"begin", "commit", "rollback"}, NEW t \in Trans,
           SendTranSignal(ask, t)
    PROVE  PoolTypeOK'
<1>1. [ask |-> ask, tran |-> t] \in TranSignals
  BY DEF TranSignals
<1>2. tsignal' \in Seq(TranSignals) /\ Len(tsignal') <= TranSignalLen
  BY <1>1, TransactionOpAssumption DEF PoolTypeOK, SendTranSignal
<1>3. QED
  BY <1>2 DEF PoolTypeOK, SendTranSignal

\* Taking a signal off the pool's channel.
LEMMA TranSignalTaken ==
    ASSUME PoolTypeOK, tsignal # << >>, tsignal' = Tail(tsignal)
    PROVE  /\ Head(tsignal) \in TranSignals
           /\ tsignal' \in Seq(TranSignals) /\ Len(tsignal') <= TranSignalLen
BY TransactionOpAssumption DEF PoolTypeOK

\* Beginning a transaction in the pool, and
LEMMA ToBeginType ==
    ASSUME PoolTypeOK, NEW t \in Trans, ToBegin(t)
    PROVE  PoolTypeOK'
BY TranSignalTaken DEF PoolTypeOK, ToBegin

\* ending it, keep the pool well typed.
LEMMA ToEndType ==
    ASSUME PoolTypeOK, NEW t \in Trans, ToEnd(t) \/ ToEndUnknown(t)
    PROVE  PoolTypeOK'
<1>1. CASE ToEndUnknown(t)
  BY <1>1, TranSignalTaken DEF PoolTypeOK, ToEndUnknown
<1>2. CASE ToEnd(t)
  <2>1. Head(tsignal).ask \in {"commit", "rollback"}
    BY <1>2, TranSignalTaken DEF ToEnd, TranSignals
  <2>2. QED
    BY <1>2, <2>1, TranSignalTaken DEF PoolTypeOK, ToEnd
<1>3. QED
  BY <1>1, <1>2

\* Beginning and ending a transaction keep the state well typed.
LEMMA BeginEndType ==
    ASSUME TypeOK, NEW t \in Trans,
           Begin(t) \/ Begun(t) \/ Commit(t) \/ Rollback(t) \/ End(t) \/ EndUnknown(t) \/ Ended(t)
    PROVE  TypeOK'
<1> USE DEF TypeOK
<1>1. CASE Begin(t)
  BY <1>1, SendTranSignalType DEF Begin, ClientTypeOK, CacheTypeOK, cacheVars, Becomes
<1>2. CASE Begun(t)
  BY <1>2, ToBeginType DEF Begun, ClientTypeOK, CacheTypeOK, cacheVars, Becomes
<1>3. CASE Commit(t)
  BY <1>3, SendTranSignalType
  DEF Commit, ClientTypeOK, CacheTypeOK, cacheVars, StartsCall, Becomes
<1>4. CASE Rollback(t)
  BY <1>4, SendTranSignalType
  DEF Rollback, ClientTypeOK, CacheTypeOK, cacheVars, StartsCall, Becomes
<1>5. CASE End(t)
  BY <1>5, ToEndType DEF End, ClientTypeOK, CacheTypeOK, cacheVars, clientVars
<1>6. CASE EndUnknown(t)
  BY <1>6, ToEndType DEF EndUnknown, ClientTypeOK, CacheTypeOK, cacheVars, Becomes
<1>7. CASE Ended(t)
  BY <1>7 DEF Ended, GotoReply, PoolTypeOK, ClientTypeOK, CacheTypeOK, cacheVars, Becomes
<1>8. QED
  BY <1>1, <1>2, <1>3, <1>4, <1>5, <1>6, <1>7

\* A client that asks for one of its spots to be stored or reset.
LEMMA FinishSpotType ==
    ASSUME TypeOK, NEW t \in Trans, NEW s \in Spots, FinishSpot(t, s)
    PROVE  TypeOK'
<1> USE DEF TypeOK, FinishSpot, GotoFinishSpot
<1>1. [ask |-> FinishAsk(t), tran |-> t, spot |-> s] \in Signals
  BY DEF FinishAsk, Signals
<1>2. signal' \in Seq(Signals) /\ Len(signal') <= SignalLen
  BY <1>1, SendSignalType
<1>3. CacheTypeOK'
  BY <1>2 DEF CacheTypeOK
<1>4. PoolTypeOK' /\ ClientTypeOK'
  BY DEF PoolTypeOK, ClientTypeOK, clientVars
<1>5. QED
  BY <1>3, <1>4

\* A client that calls an operation on a spot,
LEMMA CallSpotType ==
    ASSUME TypeOK, NEW t \in Trans, NEW op \in AllowedOps, NEW s \in Spots, CallSpot(t, op, s)
    PROVE  TypeOK'
<1> USE DEF TypeOK, CallSpot
<1> DEFINE ask == IF op = "StoreSpot" THEN "write" ELSE "get"
           new == NewCall(op, s)
<1>1. [ask |-> ask, tran |-> t, spot |-> s] \in Signals
  BY DEF Signals
<1>2. signal' \in Seq(Signals) /\ Len(signal') <= SignalLen
  BY <1>1, SendSignalType
<1>3. new \in Calls
  BY TRuleAssumption, NewCallType
<1>4. call' \in [Trans -> Calls]
  BY <1>3 DEF CacheTypeOK
<1>5. CacheTypeOK'
  BY <1>2, <1>4 DEF CacheTypeOK
<1>6. PoolTypeOK' /\ ClientTypeOK'
  BY DEF PoolTypeOK, ClientTypeOK, poolVars, StartsCall, Becomes
<1>7. QED
  BY <1>5, <1>6

\* receives the answer,
LEMMA ReceiveType ==
    ASSUME TypeOK, NEW t \in Trans, Receive(t)
    PROVE  TypeOK'
<1> USE DEF TypeOK, Receive
<1>1. call' \in [Trans -> Calls]
  <2>1. NoCall \in Calls
    BY NoCallType
  <2>2. [call EXCEPT ![t].pc = "got"] \in [Trans -> Calls]
    BY CallType DEF CacheTypeOK
  <2>3. QED
    BY <2>1, <2>2 DEF CacheTypeOK
<1>2. CacheTypeOK'
  BY <1>1 DEF CacheTypeOK, Reply
<1>3. spot_cache' \in [Trans -> SUBSET Spots]
  <2>1. ForWrite(call[t].op) => call[t].spot \in Spots
    <3>1. call[t] \in Calls
      BY DEF CacheTypeOK
    <3>2. QED
      BY <3>1 DEF Calls, ForWrite
  <2>2. QED
    BY <2>1 DEF PoolTypeOK
<1>4. PoolTypeOK' /\ ClientTypeOK'
  BY <1>3 DEF PoolTypeOK, ClientTypeOK, Becomes
<1>5. QED
  BY <1>2, <1>4

\* and uses the spot.
LEMMA UseType ==
    ASSUME TypeOK, NEW t \in Trans, Use(t)
    PROVE  TypeOK'
<1> USE DEF TypeOK
<1> DEFINE c == obj[call[t].spot][call[t].gen]
           d == [c EXCEPT !.spot = t, !.be_change = TRUE]
           e == [c EXCEPT !.be_delete = "yes", !.be_change = TRUE]
<1>1. PICK isnil \in BOOLEAN, b \in {c, d, e} : Touches(t, isnil, b)
  BY DEF Use, Spotc, ExistSpot, ReadSpot, ReadField, WriteField, WriteContext, StoreSpot, DeleteSpot
<1>2. ASSUME call[t].spot \in Spots, call[t].gen \in Gens
      PROVE  b \in SpotCaches
  <2>1. c \in SpotCaches
    BY <1>2 DEF CacheTypeOK
  <2>2. d \in SpotCaches /\ e \in SpotCaches
    BY <2>1 DEF SpotCaches, Content
  <2>3. QED
    BY <2>1, <2>2
<1>3. obj' \in [Spots -> [Gens -> SpotCaches]]
  <2> DEFINE s == call[t].spot
             g == call[t].gen
  <2>1. obj' = obj \/ obj' = [obj EXCEPT ![s][g] = b]
    BY <1>1 DEF Touches
  <2>2. obj \in [Spots -> [Gens -> SpotCaches]]
    BY DEF CacheTypeOK
  <2>3. s \in Spots /\ g \in Gens => b \in SpotCaches
    BY <1>2
  <2> HIDE DEF s, g, c, d, e
  <2>4. [obj EXCEPT ![s][g] = b] \in [Spots -> [Gens -> SpotCaches]]
    BY <2>2, <2>3, TypedUpdate, Zenon
  <2>5. QED
    BY <2>1, <2>2, <2>4
<1>4. call' \in [Trans -> Calls]
  BY <1>1, NoCallType DEF Touches, CacheTypeOK
<1>5. CacheTypeOK'
  BY <1>1, <1>3, <1>4 DEF CacheTypeOK, Touches
<1>6. PoolTypeOK' /\ ClientTypeOK'
  BY <1>1 DEF PoolTypeOK, ClientTypeOK, Touches, poolVars, Becomes
<1>7. QED
  BY <1>5, <1>6

\* Every step keeps the state well typed.
LEMMA NextType == TypeOK /\ [Next]_vars => TypeOK'
<1> SUFFICES ASSUME TypeOK, [Next]_vars PROVE TypeOK'
  OBVIOUS
<1>1. CASE CacheRuns
  <2>1. CacheTypeOK'
    BY <1>1, CacheStepType DEF TypeOK, CacheRuns
  <2>2. PoolTypeOK' /\ ClientTypeOK'
    BY <1>1 DEF TypeOK, CacheRuns, PoolTypeOK, ClientTypeOK, poolVars, clientVars
  <2>3. QED
    BY <2>1, <2>2 DEF TypeOK
<1>2. ASSUME NEW t \in Trans, ClientStep(t)
      PROVE  TypeOK'
  BY <1>2, BeginEndType, FinishSpotType, CallSpotType, ReceiveType, UseType
  DEF ClientStep
<1>3. CASE UNCHANGED vars
  BY <1>3 DEF vars, cacheVars, poolVars, clientVars, TypeOK, CacheTypeOK, PoolTypeOK, ClientTypeOK
<1>4. QED
  BY <1>1, <1>2, <1>3 DEF Next

\* In every reachable state each variable has its type: the channels never
\* hold more than their length, every place in a queue is a transaction's, and
\* a spot of the map has an object.
THEOREM TypeCorrect == Spec => []TypeOK
<1>1. Init => TypeOK
  BY InitType
<1>2. TypeOK /\ [Next]_vars => TypeOK'
  BY NextType
<1>3. QED
  BY <1>1, <1>2, PTL DEF Spec

----------------------------------------------------------------------------
(* Sequences.                                                              *)

\* What is in a channel or a queue after its first element has been taken.
LEMMA Taken ==
    ASSUME NEW S, NEW q \in Seq(S), q # << >>
    PROVE  /\ 1 \in 1 .. Len(q) /\ q[1] = Head(q) /\ Head(q) \in S
           /\ Tail(q) \in Seq(S) /\ Len(Tail(q)) = Len(q) - 1
           /\ \A i \in 1 .. Len(Tail(q)) :
                 i + 1 \in 1 .. Len(q) /\ i \in Nat /\ Tail(q)[i] = q[i + 1]
OBVIOUS

\* What is in a channel or a queue after an element has been added.
LEMMA Added ==
    ASSUME NEW S, NEW q \in Seq(S), NEW e \in S
    PROVE  /\ Append(q, e) \in Seq(S) /\ Len(Append(q, e)) = Len(q) + 1
           /\ \A i \in 1 .. Len(Append(q, e)) :
                 \/ i \in 1 .. Len(q) /\ Append(q, e)[i] = q[i]
                 \/ i = Len(q) + 1 /\ Append(q, e)[i] = e
           /\ \A i \in 1 .. Len(q) :
                 i \in 1 .. Len(Append(q, e)) /\ Append(q, e)[i] = q[i]
           /\ Len(q) + 1 \in 1 .. Len(Append(q, e)) /\ Append(q, e)[Len(q) + 1] = e
OBVIOUS

----------------------------------------------------------------------------
(* The parts of the invariant, step by step.                               *)

HI == TypeOK /\ HoldsInvariant

\* The initial states satisfy all of the invariant.
LEMMA InitHolds == Init => HoldsInvariant
<1> SUFFICES ASSUME Init PROVE HoldsInvariant
  OBVIOUS
<1> USE TransAssumption DEF Init, CacheInit, PoolInit
<1>1. OneThingAtATime /\ AsksAwaited
  BY DEF OneThingAtATime, AsksAwaited, NoCall
<1>2. PlacesAwaited
  BY DEF PlacesAwaited, Awaited, InitSpotC
<1>3. ReleasedOnce /\ \A t \in Trans, s \in Spots : ~Holds(t, s)
  BY DEF ReleasedOnce, Holds, Finishing
<1>4. OneObjectEach /\ Occupied
  BY <1>3 DEF OneObjectEach, Occupied, NoCall
<1>5. QED
  BY <1>1, <1>2, <1>3, <1>4 DEF HoldsInvariant

\* The signals in the channels are signals of transactions.
LEMMA SignalsTyped ==
    ASSUME HI
    PROVE  /\ \A i \in 1 .. Len(tsignal) : tsignal[i] \in TranSignals /\ tsignal[i].tran \in Trans
           /\ \A i \in 1 .. Len(signal) :
                 /\ signal[i] \in Signals
                 /\ IsAsk(signal[i]) \/ IsFinish(signal[i]) =>
                        signal[i].tran \in Trans /\ signal[i].spot \in Spots
<1>1. tsignal \in Seq(TranSignals) /\ signal \in Seq(Signals)
  BY DEF HI, TypeOK, CacheTypeOK, PoolTypeOK
<1>2. \A i \in 1 .. Len(tsignal) : tsignal[i] \in TranSignals
  BY <1>1
<1>3. \A i \in 1 .. Len(signal) : signal[i] \in Signals
  BY <1>1
<1>4. \A m \in Signals : IsAsk(m) \/ IsFinish(m) => m.tran \in Trans /\ m.spot \in Spots
  BY DEF Signals, IsAsk, IsFinish
<1>5. QED
  BY <1>2, <1>3, <1>4 DEF TranSignals

\* The goroutine that a release wakes is one that waits for that object.
LEMMA WokenWaits ==
    ASSUME HI, NEW s \in Spots, NEW g \in Gens, NEW c, c.wait_line = obj[s][g].wait_line,
           Woken(c) # NoTran
    PROVE  /\ c.wait_line # << >> /\ Woken(c) = obj[s][g].wait_line[1].tran
           /\ Woken(c) \in Trans
           /\ call[Woken(c)].pc = "wait"
           /\ call[Woken(c)].spot = s
           /\ call[Woken(c)].gen = g
<1> DEFINE line == obj[s][g].wait_line
<1>1. line \in Seq(Ticket)
  BY DEF HI, TypeOK, CacheTypeOK, SpotCaches
<1>2. line # << >> /\ Woken(c) = Head(line).tran
  BY DEF Woken
<1>3. 1 \in 1 .. Len(line) /\ Head(line) = line[1] /\ Head(line) \in Ticket
  BY <1>1, <1>2, Taken
<1>4. Awaited(line, s, g, call)
  BY DEF HI, HoldsInvariant, PlacesAwaited
<1>5. line[1].tran \in Trans
  BY <1>3 DEF Ticket
<1>6. c.wait_line = line /\ obj[s][g].wait_line = line
  OBVIOUS
<1> HIDE DEF line
<1>7. call[line[1].tran].pc = "wait" /\ call[line[1].tran].spot = s /\ call[line[1].tran].gen = g
  BY <1>3, <1>4 DEF Awaited
<1>8. QED
  BY <1>2, <1>3, <1>5, <1>6, <1>7

\* storeTheSpot and resetTheSpot release the object they work on, with the
\* queue and the occupier it has.
LEMMA ReleaseOnly ==
    ASSUME HI, NEW f \in fin, StoreTheSpot(f) \/ ResetTheSpot(f)
    PROVE  /\ f.spot \in Spots /\ f.gen \in Gens /\ f.tran \in Trans
           /\ \E c \in SpotCaches :
                 /\ c.wait_line = obj[f.spot][f.gen].wait_line
                 /\ c.tran_id = obj[f.spot][f.gen].tran_id
                 /\ Release(f, c)
           /\ UNCHANGED <<gen, cached, signal, clean_count, cleaners, crashed>>
<1> USE DEF HI, TypeOK, CacheTypeOK
<1> DEFINE b == obj[f.spot][f.gen]
<1>1. f \in Finishers /\ f.spot \in Spots /\ f.gen \in Gens /\ f.tran \in Trans
  BY DEF Finishers
<1>2. b \in SpotCaches
  BY <1>1
<1>3. CASE StoreTheSpot(f)
  <2>1. [b EXCEPT !.be_delete = "commit"] \in SpotCaches
    BY <1>2 DEF SpotCaches
  <2>2. QED
    BY <1>1, <1>2, <1>3, <2>1 DEF StoreTheSpot, SpotCaches
<1>4. CASE ResetTheSpot(f)
  <2> DEFINE d(v) == [b EXCEPT !.spot = v, !.be_change = FALSE, !.be_delete = "no"]
  <2>1. PICK v \in IF b.be_change THEN Restored(f.spot, b) ELSE {b.spot} : Release(f, d(v))
    BY <1>4 DEF ResetTheSpot
  <2>2. v \in Content \cup {Nil}
    BY <1>1, <1>2, <2>1 DEF Restored, SpotCaches
  <2>3. d(v) \in SpotCaches /\ d(v).wait_line = b.wait_line /\ d(v).tran_id = b.tran_id
    BY <1>2, <2>2 DEF SpotCaches
  <2>4. QED
    BY <1>1, <1>4, <2>1, <2>3 DEF ResetTheSpot
<1>5. QED
  BY <1>3, <1>4

\* The goroutine of a call moves on from loading to asking for the spot, and
\* from there to its answer or the queue.
LEMMA ServedCall ==
    ASSUME HI, NEW t \in Trans, LoadSpot(t) \/ AskForSpot(t)
    PROVE  /\ call[t].pc \in {"load", "ask"} /\ call'[t].pc \in {"ask", "reply", "wait"}
           /\ UNCHANGED <<call[t].op, call[t].spot, call[t].gen>>
           /\ \A u \in Trans : u # t => call'[u] = call[u]
           /\ UNCHANGED <<signal, fin, gen, cached, cleaners>>
<1>1. call \in [Trans -> Calls]
  BY DEF HI, TypeOK, CacheTypeOK
<1>2. CASE LoadSpot(t)
  <2>1. PICK re \in {"ok", "empty", "error"} : call' = [call EXCEPT ![t].pc = "ask", ![t].re = re]
    BY <1>2 DEF LoadSpot
  <2>2. call[t].pc = "load" /\ UNCHANGED <<signal, fin, gen, cached, cleaners>>
    BY <1>2 DEF LoadSpot
  <2>3. QED
    BY <1>1, <2>1, <2>2 DEF Calls
<1>3. CASE AskForSpot(t)
  <2>1. PICK p \in {"reply", "wait"} : call' = [call EXCEPT ![t].pc = p]
    BY <1>3 DEF AskForSpot
  <2>2. call[t].pc = "ask" /\ UNCHANGED <<signal, fin, gen, cached, cleaners>>
    BY <1>3 DEF AskForSpot
  <2>3. QED
    BY <1>1, <2>1, <2>2 DEF Calls
<1>4. QED
  BY <1>2, <1>3

\* A client uses the spot it has got once: then its call is over.
LEMMA UsedOnce ==
    ASSUME HI, NEW t \in Trans, Use(t)
    PROVE  /\ call[t].pc = "got" /\ call'[t] = NoCall
           /\ \A u \in Trans : u # t => call'[u] = call[u]
           /\ UNCHANGED <<signal, fin, gen, cached, cleaners>>
<1>1. call \in [Trans -> Calls]
  BY DEF HI, TypeOK, CacheTypeOK
<1>2. call[t].pc = "got"
  BY DEF Use, Answered, ExistSpot, ReadSpot, ReadField, WriteField, WriteContext, StoreSpot, DeleteSpot
<1>3. call' = [call EXCEPT ![t] = NoCall] /\ UNCHANGED <<signal, fin, gen, cached, cleaners>>
  BY DEF Use, Touches, ExistSpot, ReadSpot, ReadField, WriteField, WriteContext, StoreSpot, DeleteSpot
<1>4. QED
  BY <1>1, <1>2, <1>3

\* The one that receives its answer was replied to, and then is not.
LEMMA ReceivedOnce ==
    ASSUME HI, NEW t \in Trans, Receive(t)
    PROVE  /\ call[t].pc = "reply" /\ call'[t].pc \in {"none", "got"}
           /\ \A u \in Trans : u # t => call'[u] = call[u]
<1> USE DEF HI
<1>1. call[t].pc = "reply"
  BY DEF Receive, Reply
<1>2. call' = [call EXCEPT ![t] = NoCall] \/ call' = [call EXCEPT ![t].pc = "got"]
  BY DEF Receive
<1>3. call \in [Trans -> Calls]
  BY DEF TypeOK, CacheTypeOK
<1>4. CASE call' = [call EXCEPT ![t] = NoCall]
  BY <1>1, <1>3, <1>4 DEF NoCall
<1>5. CASE call' = [call EXCEPT ![t].pc = "got"]
  BY <1>1, <1>3, <1>5 DEF Calls
<1>6. QED
  BY <1>2, <1>4, <1>5

\* A step of the cache only moves on the calls that are under way, and leaves
\* the pool and the clients alone.
LEMMA CallsGoOn ==
    ASSUME HI, CacheRuns
    PROVE  \A t \in Trans : call'[t].pc # "none" => call[t].pc # "none"
<1> USE DEF HI, TypeOK, CacheTypeOK
<1>1. CASE AskGetSpot
  <2> DEFINE m == Head(signal)
  <2>1. m \in Signals /\ 1 \in 1 .. Len(signal) /\ m = signal[1] /\ IsAsk(m)
    BY <1>1, Taken DEF AskGetSpot, Receives, IsAsk
  <2>2. call[m.tran].pc = "signalled"
    BY <2>1 DEF HoldsInvariant, AsksAwaited
  <2>3. \A t \in Trans : t # m.tran => call'[t] = call[t]
    BY <1>1 DEF AskGetSpot
  <2>4. QED
    BY <2>2, <2>3
<1>2. CASE \E t \in Trans : LoadSpot(t)
  BY <1>2, ServedCall
<1>3. CASE \E t \in Trans : AskForSpot(t)
  BY <1>3, ServedCall
<1>4. ASSUME NEW f \in fin, NEW c, c.wait_line = obj[f.spot][f.gen].wait_line, Release(f, c)
      PROVE  \A t \in Trans : call'[t].pc # "none" => call[t].pc # "none"
  <2>1. f.spot \in Spots /\ f.gen \in Gens
    BY DEF Finishers
  <2>2. CASE Woken(c) = NoTran
    BY <1>4, <2>2 DEF Release
  <2>3. CASE Woken(c) # NoTran
    <3>1. call[Woken(c)].pc = "wait"
      BY <1>4, <2>1, <2>3, WokenWaits
    <3>2. \A t \in Trans : t # Woken(c) => call'[t] = call[t]
      BY <1>4, <2>3 DEF Release
    <3>3. QED
      BY <3>1, <3>2
  <2>4. QED
    BY <2>2, <2>3
<1>5. CASE \E f \in fin : StoreTheSpot(f) \/ ResetTheSpot(f)
  BY <1>4, <1>5, ReleaseOnly
<1>6. CASE AskFinishSpot \/ AskCleanSpots \/ ConsCleanSig
  BY <1>6 DEF AskFinishSpot, AskCleanSpots, ConsCleanSig
<1>7. QED
  BY <1>1, <1>2, <1>3, <1>5, <1>6 DEF CacheRuns, CacheStep

\* Beginning and ending signals, as they are sent and as they are taken.
LEMMA TranSignalSent ==
    ASSUME HI, NEW ask \in {"begin", "commit", "rollback"}, NEW t \in Trans,
           SendTranSignal(ask, t), client[t] \in {"new", "idle"}, call' = call,
           Becomes(t, IF ask = "begin" THEN "beginning" ELSE "ending")
    PROVE  OneThingAtATime'
<1> USE DEF HI, TypeOK, HoldsInvariant
<1> DEFINE e == [ask |-> ask, tran |-> t]
<1>1. /\ tsignal \in Seq(TranSignals) /\ e \in TranSignals /\ tsignal' = Append(tsignal, e)
      /\ fate' = fate /\ going' = going
  BY DEF PoolTypeOK, TranSignals, SendTranSignal
<1>2. client' = [client EXCEPT ![t] = IF ask = "begin" THEN "beginning" ELSE "ending"]
  BY DEF Becomes
<1>3. \A u \in Trans : u # t => client'[u] = client[u]
  BY <1>2 DEF ClientTypeOK
<1>4. client'[t] = (IF ask = "begin" THEN "beginning" ELSE "ending") /\ ~going[t] /\ call[t].pc = "none"
  BY <1>2 DEF ClientTypeOK, OneThingAtATime
<1>5. \A i \in 1 .. Len(tsignal) : tsignal[i].tran \in Trans \ {t}
  BY SignalsTyped DEF OneThingAtATime
<1>6. \A i \in 1 .. Len(tsignal') :
          \/ i \in 1 .. Len(tsignal) /\ tsignal'[i] = tsignal[i]
          \/ i = Len(tsignal) + 1 /\ tsignal'[i] = e
  BY <1>1, Added
<1>7. \A u \in Trans : call'[u].pc # "none" => client'[u] = "calling" /\ fate'[u] = "open"
  BY <1>1, <1>3, <1>4 DEF OneThingAtATime
<1>8. \A u \in Trans : going'[u] => client'[u] = "ending" /\ fate'[u] # "open"
  BY <1>1, <1>3, <1>4 DEF OneThingAtATime
<1>9. \A i \in 1 .. Len(tsignal') :
          /\ client'[tsignal'[i].tran] = IF tsignal'[i].ask = "begin" THEN "beginning" ELSE "ending"
          /\ ~going'[tsignal'[i].tran]
  BY <1>1, <1>3, <1>4, <1>5, <1>6 DEF OneThingAtATime
<1>10. \A i, j \in 1 .. Len(tsignal') : tsignal'[i].tran = tsignal'[j].tran => i = j
  BY <1>5, <1>6 DEF OneThingAtATime
<1>11. QED
  BY <1>7, <1>8, <1>9, <1>10 DEF OneThingAtATime

LEMMA TranSignalTakenOnce ==
    ASSUME HI, tsignal # << >>, tsignal' = Tail(tsignal)
    PROVE  /\ Head(tsignal).tran \in Trans
           /\ client[Head(tsignal).tran] =
                 IF Head(tsignal).ask = "begin" THEN "beginning" ELSE "ending"
           /\ ~going[Head(tsignal).tran]
           /\ \A i \in 1 .. Len(tsignal') :
                 /\ tsignal'[i].tran \in Trans \ {Head(tsignal).tran}
                 /\ client[tsignal'[i].tran] =
                        IF tsignal'[i].ask = "begin" THEN "beginning" ELSE "ending"
                 /\ ~going[tsignal'[i].tran]
           /\ \A i, j \in 1 .. Len(tsignal') : tsignal'[i].tran = tsignal'[j].tran => i = j
<1> USE DEF HI, TypeOK, HoldsInvariant, OneThingAtATime
<1>1. tsignal \in Seq(TranSignals)
  BY DEF PoolTypeOK
<1>2. /\ 1 \in 1 .. Len(tsignal) /\ tsignal[1] = Head(tsignal) /\ Head(tsignal) \in TranSignals
      /\ \A i \in 1 .. Len(tsignal') :
            i + 1 \in 1 .. Len(tsignal) /\ i \in Nat /\ tsignal'[i] = tsignal[i + 1]
  BY <1>1, Taken
<1>3. \A i \in 1 .. Len(tsignal') : tsignal'[i] \in TranSignals /\ i + 1 # 1
  BY <1>1, <1>2
<1>4. \A i \in 1 .. Len(tsignal') : tsignal'[i].tran \in Trans \ {Head(tsignal).tran}
  BY <1>2, <1>3 DEF TranSignals
<1>5. \A i, j \in 1 .. Len(tsignal') : tsignal'[i].tran = tsignal'[j].tran => i + 1 = j + 1
  BY <1>2
<1>6. \A i, j \in 1 .. Len(tsignal') : tsignal'[i].tran = tsignal'[j].tran => i = j
  BY <1>2, <1>5
<1>7. \A i \in 1 .. Len(tsignal') :
          /\ client[tsignal'[i].tran] = IF tsignal'[i].ask = "begin" THEN "beginning" ELSE "ending"
          /\ ~going[tsignal'[i].tran]
  BY <1>2
<1>8. QED
  BY <1>2, <1>4, <1>6, <1>7 DEF TranSignals

\* Every step keeps each transaction to one thing at a time.
LEMMA OneThingAtATimeNext == HI /\ Next => OneThingAtATime'
<1> SUFFICES ASSUME HI, Next PROVE OneThingAtATime'
  OBVIOUS
<1> USE DEF HI, TypeOK, HoldsInvariant
<1>1. CASE CacheRuns
  BY <1>1, CallsGoOn DEF CacheRuns, OneThingAtATime, poolVars, clientVars
<1>2. ASSUME NEW t \in Trans, ClientStep(t)
      PROVE  OneThingAtATime'
  <2>1. CASE Begin(t)
    <3>1. SendTranSignal("begin", t) /\ client[t] = "new" /\ call' = call
      BY <2>1 DEF Begin, cacheVars
    <3>2. Becomes(t, "beginning")
      BY <2>1 DEF Begin
    <3>3. QED
      BY <3>1, <3>2, TranSignalSent
  <2>2. CASE Commit(t) \/ Rollback(t)
    <3>1. PICK ask \in {"commit", "rollback"} : SendTranSignal(ask, t)
      BY <2>2 DEF Commit, Rollback
    <3>2. client[t] = "idle" /\ call' = call /\ Becomes(t, "ending")
      BY <2>2 DEF Commit, Rollback, MayEnd, cacheVars, StartsCall
    <3>3. QED
      BY <3>1, <3>2, TranSignalSent
  <2>3. CASE Begun(t) \/ EndUnknown(t)
    <3>1. /\ tsignal # << >> /\ tsignal' = Tail(tsignal) /\ Head(tsignal).tran = t
          /\ client' = [client EXCEPT ![t] = "idle"]
          /\ UNCHANGED <<call, fate, going>>
      BY <2>3 DEF Begun, EndUnknown, ToBegin, ToEndUnknown, Becomes, cacheVars
    <3>2. ~going[t] /\ call[t].pc = "none"
      BY <3>1, TranSignalTakenOnce DEF OneThingAtATime
    <3>3. \A u \in Trans : u # t => client'[u] = client[u]
      BY <3>1 DEF ClientTypeOK
    <3>4. QED
      BY <3>1, <3>2, <3>3, TranSignalTakenOnce DEF OneThingAtATime
  <2>4. CASE End(t)
    <3>1. /\ tsignal # << >> /\ tsignal' = Tail(tsignal) /\ Head(tsignal).tran = t
          /\ Head(tsignal).ask # "begin"
          /\ fate' = [fate EXCEPT ![t] = Head(tsignal).ask]
          /\ going' = [going EXCEPT ![t] = TRUE]
          /\ UNCHANGED <<call, client>>
      BY <2>4 DEF End, ToEnd, cacheVars, clientVars
    <3>2. Head(tsignal).ask \in {"commit", "rollback"}
      BY <3>1, TranSignalTaken DEF TranSignals
    <3>3. call[t].pc = "none"
      BY <3>1, TranSignalTakenOnce DEF OneThingAtATime
    <3>4. client[t] = "ending" /\ client' = client
      BY <3>1, TranSignalTakenOnce
    <3>5. fate'[t] # "open" /\ \A u \in Trans : u # t => fate'[u] = fate[u] /\ going'[u] = going[u]
      BY <3>1, <3>2 DEF PoolTypeOK
    <3>6. QED
      BY <3>1, <3>3, <3>4, <3>5, TranSignalTakenOnce DEF OneThingAtATime
  <2>5. CASE Ended(t)
    <3>1. /\ going[t] /\ going' = [going EXCEPT ![t] = FALSE]
          /\ client' = [client EXCEPT ![t] = "idle"]
          /\ UNCHANGED <<call, fate, tsignal>>
      BY <2>5 DEF Ended, GotoReply, Becomes, cacheVars
    <3>2. ~going'[t] /\ \A u \in Trans : u # t => client'[u] = client[u] /\ going'[u] = going[u]
      BY <3>1 DEF PoolTypeOK, ClientTypeOK
    <3>3. call[t].pc = "none"
      BY <3>1 DEF OneThingAtATime
    <3>4. \A i \in 1 .. Len(tsignal) : tsignal[i].tran \in Trans \ {t}
      BY <3>1, SignalsTyped DEF OneThingAtATime
    <3>5. QED
      BY <3>1, <3>2, <3>3, <3>4 DEF OneThingAtATime
  <2>6. CASE \E s \in Spots : FinishSpot(t, s)
    BY <2>6 DEF FinishSpot, GotoFinishSpot, clientVars, OneThingAtATime
  <2>7. CASE \E op \in AllowedOps, s \in Spots : CallSpot(t, op, s)
    <3>1. /\ client[t] = "idle" /\ fate[t] = "open" /\ client' = [client EXCEPT ![t] = "calling"]
          /\ \A u \in Trans : u # t => call'[u] = call[u]
          /\ UNCHANGED <<fate, going, tsignal>>
      BY <2>7 DEF CallSpot, StartsCall, Becomes, poolVars, CacheTypeOK
    <3>2. client'[t] = "calling" /\ \A u \in Trans : u # t => client'[u] = client[u]
      BY <3>1 DEF ClientTypeOK
    <3>3. ~going[t]
      BY <3>1 DEF OneThingAtATime
    <3>4. \A i \in 1 .. Len(tsignal) : tsignal[i].tran \in Trans \ {t}
      BY <3>1, SignalsTyped DEF OneThingAtATime
    <3>5. QED
      BY <3>1, <3>2, <3>3, <3>4 DEF OneThingAtATime
  <2>8. CASE Receive(t) \/ Use(t)
    <3>1. /\ call[t].pc # "none"
          /\ \/ client' = client
             \/ client' = [client EXCEPT ![t] = "idle"] /\ call'[t] = NoCall
          /\ \A u \in Trans : u # t => call'[u] = call[u]
          /\ UNCHANGED <<fate, going, tsignal>>
      BY <2>8 DEF Receive, Reply, Use, Answered, Touches, ExistSpot, ReadSpot, ReadField,
                  WriteField, WriteContext, StoreSpot, DeleteSpot, Becomes, poolVars, CacheTypeOK
    <3>2. client[t] = "calling" /\ ~going[t]
      BY <3>1 DEF OneThingAtATime
    <3>3. client' = client \/ call'[t].pc = "none"
      BY <3>1 DEF NoCall
    <3>4. \A u \in Trans : u # t => client'[u] = client[u]
      BY <3>1 DEF ClientTypeOK
    <3>5. \A i \in 1 .. Len(tsignal) : tsignal[i].tran \in Trans \ {t}
      BY <3>2, SignalsTyped DEF OneThingAtATime
    <3>6. QED
      BY <3>1, <3>2, <3>3, <3>4, <3>5 DEF OneThingAtATime
  <2>9. QED
    BY <1>2, <2>1, <2>2, <2>3, <2>4, <2>5, <2>6, <2>7, <2>8 DEF ClientStep
<1>3. QED
  BY <1>1, <1>2 DEF Next

\* What a step of the listener leaves of the spot cache's channel.
LEMMA SignalTaken ==
    ASSUME HI, signal # << >>, signal' = Tail(signal)
    PROVE  /\ 1 \in 1 .. Len(signal) /\ signal[1] = Head(signal) /\ Head(signal) \in Signals
           /\ \A i \in 1 .. Len(signal') :
                 /\ i \in Nat /\ i + 1 \in 1 .. Len(signal) /\ i + 1 # 1
                 /\ signal'[i] = signal[i + 1] /\ signal'[i] \in Signals
<1>1. signal \in Seq(Signals)
  BY DEF HI, TypeOK, CacheTypeOK
<1>2. QED
  BY <1>1, Taken

\* What a step that sends a signal adds to it.
LEMMA SignalSent ==
    ASSUME HI, NEW ask, NEW t, NEW s, SendSignal(ask, t, s),
           [ask |-> ask, tran |-> t, spot |-> s] \in Signals
    PROVE  \A i \in 1 .. Len(signal') :
              \/ i \in 1 .. Len(signal) /\ signal'[i] = signal[i]
              \/ /\ i = Len(signal) + 1
                 /\ signal'[i] = [ask |-> ask, tran |-> t, spot |-> s]
<1>1. signal \in Seq(Signals)
  BY DEF HI, TypeOK, CacheTypeOK
<1>2. QED
  BY <1>1, Added DEF SendSignal

\* The steps of a call's goroutine and of its client, and the wake-up, leave
\* the calls that are still in the channel alone.
LEMMA SignalledKept ==
    ASSUME HI,
           \/ \E t \in Trans : LoadSpot(t) \/ AskForSpot(t) \/ Receive(t) \/ Use(t)
           \/ \E f \in fin : StoreTheSpot(f) \/ ResetTheSpot(f)
    PROVE  /\ \A u \in Trans : call[u].pc = "signalled" => call'[u] = call[u]
           /\ signal' = signal
<1> USE DEF HI, TypeOK, CacheTypeOK
<1>1. CASE \E t \in Trans : LoadSpot(t) \/ AskForSpot(t)
  BY <1>1, ServedCall
<1>2. CASE \E t \in Trans : Receive(t) \/ Use(t)
  <2>1. ASSUME NEW t \in Trans, Receive(t)
        PROVE  call[t].pc = "reply" /\ signal' = signal /\ \A u \in Trans : u # t => call'[u] = call[u]
    BY <2>1, ReceivedOnce DEF Receive, Reply
  <2>2. QED
    BY <1>2, <2>1, UsedOnce
<1>3. ASSUME NEW f \in fin, StoreTheSpot(f) \/ ResetTheSpot(f)
      PROVE  /\ \A u \in Trans : call[u].pc = "signalled" => call'[u] = call[u]
             /\ signal' = signal
  <2>1. PICK c \in SpotCaches : c.wait_line = obj[f.spot][f.gen].wait_line /\ Release(f, c)
    BY <1>3, ReleaseOnly
  <2>2. f.spot \in Spots /\ f.gen \in Gens /\ signal' = signal
    BY <1>3, ReleaseOnly
  <2>3. Woken(c) # NoTran => call[Woken(c)].pc = "wait"
    BY <2>1, <2>2, WokenWaits
  <2>4. QED
    BY <2>1, <2>2, <2>3 DEF Release
<1>4. QED
  BY <1>1, <1>2, <1>3

\* Every step keeps the gets and writes in the channel those of their calls.
LEMMA AsksAwaitedNext == HI /\ Next => AsksAwaited'
<1> SUFFICES ASSUME HI, Next PROVE AsksAwaited'
  OBVIOUS
<1> USE DEF HI, HoldsInvariant
<1>1. CASE UNCHANGED <<signal, call>>
  BY <1>1 DEF AsksAwaited
<1>2. CASE /\ \A u \in Trans : call[u].pc = "signalled" => call'[u] = call[u]
           /\ signal' = signal
  BY <1>2, SignalsTyped DEF AsksAwaited
<1>3. CASE \/ \E t \in Trans : LoadSpot(t) \/ AskForSpot(t) \/ Receive(t) \/ Use(t)
           \/ \E f \in fin : StoreTheSpot(f) \/ ResetTheSpot(f)
  BY <1>2, <1>3, SignalledKept
<1>4. CASE signal # << >> /\ signal' = Tail(signal) /\ call' = call
  <2>1. \A i, j \in 1 .. Len(signal') :
            IsAsk(signal'[i]) /\ IsAsk(signal'[j]) /\ signal'[i].tran = signal'[j].tran
            => i + 1 = j + 1 /\ i \in Nat /\ j \in Nat
    BY <1>4, SignalTaken DEF AsksAwaited
  <2>2. \A i \in 1 .. Len(signal') : IsAsk(signal'[i]) =>
            /\ call[signal'[i].tran].pc = "signalled"
            /\ call[signal'[i].tran].spot = signal'[i].spot
    BY <1>4, SignalTaken DEF AsksAwaited
  <2>3. \A i, j \in 1 .. Len(signal') :
            IsAsk(signal'[i]) /\ IsAsk(signal'[j]) /\ signal'[i].tran = signal'[j].tran => i = j
    BY <2>1
  <2>4. QED
    BY <1>4, <2>2, <2>3 DEF AsksAwaited
<1>5. CASE AskGetSpot
  <2> DEFINE m == Head(signal)
  <2>1. signal # << >> /\ signal' = Tail(signal) /\ IsAsk(m)
    BY <1>5 DEF AskGetSpot, Receives, IsAsk
  <2>2. \A i, j \in 1 .. Len(signal') :
            IsAsk(signal'[i]) /\ IsAsk(signal'[j]) /\ signal'[i].tran = signal'[j].tran
            => i + 1 = j + 1 /\ i \in Nat /\ j \in Nat
    BY <2>1, SignalTaken DEF AsksAwaited
  <2>3. \A i \in 1 .. Len(signal') : IsAsk(signal'[i]) =>
            /\ call[signal'[i].tran].pc = "signalled"
            /\ call[signal'[i].tran].spot = signal'[i].spot
            /\ signal'[i].tran \in Trans \ {m.tran}
    BY <2>1, SignalTaken, SignalsTyped DEF AsksAwaited
  <2>4. \A u \in Trans : u # m.tran => call'[u] = call[u]
    BY <1>5 DEF AskGetSpot, TypeOK, CacheTypeOK
  <2>5. \A i, j \in 1 .. Len(signal') :
            IsAsk(signal'[i]) /\ IsAsk(signal'[j]) /\ signal'[i].tran = signal'[j].tran => i = j
    BY <2>2
  <2>6. QED
    BY <2>3, <2>4, <2>5 DEF AsksAwaited
<1>6. ASSUME NEW ask \in {"store", "reset", "clean"}, NEW t, NEW s,
             SendSignal(ask, t, s), call' = call,
             [ask |-> ask, tran |-> t, spot |-> s] \in Signals
      PROVE  AsksAwaited'
  <2>1. \A i \in 1 .. Len(signal') : IsAsk(signal'[i]) =>
            i \in 1 .. Len(signal) /\ signal'[i] = signal[i]
    BY <1>6, SignalSent DEF IsAsk
  <2>2. QED
    BY <1>6, <2>1 DEF AsksAwaited
<1>7. CASE ConsCleanSig
  BY <1>6, <1>7 DEF ConsCleanSig, Signals
<1>8. CASE \E t \in Trans, s \in Spots : FinishSpot(t, s)
  BY <1>6, <1>8 DEF FinishSpot, GotoFinishSpot, FinishAsk, Signals
<1>9. ASSUME NEW t \in Trans, NEW op \in AllowedOps, NEW s \in Spots, CallSpot(t, op, s)
      PROVE  AsksAwaited'
  <2>1. PICK ask \in {"get", "write"} : SendSignal(ask, t, s)
    BY <1>9 DEF CallSpot
  <2> DEFINE m == [ask |-> ask, tran |-> t, spot |-> s]
  <2>2. m \in Signals
    BY DEF Signals
  <2>3. \A i \in 1 .. Len(signal') :
            \/ i \in 1 .. Len(signal) /\ signal'[i] = signal[i]
            \/ i = Len(signal) + 1 /\ signal'[i] = m
    BY <2>1, <2>2, SignalSent
  <2>4. call[t].pc = "none"
    BY <1>9 DEF CallSpot, OneThingAtATime
  <2>5. \A i \in 1 .. Len(signal) : IsAsk(signal[i]) => signal[i].tran # t
    BY <2>4 DEF AsksAwaited
  <2>6. \A u \in Trans : u # t => call'[u] = call[u]
    BY <1>9 DEF CallSpot, TypeOK, CacheTypeOK
  <2>7. call'[t].pc = "signalled" /\ call'[t].spot = s
    BY <1>9 DEF CallSpot, NewCall, TypeOK, CacheTypeOK
  <2>8. \A i \in 1 .. Len(signal') : IsAsk(signal'[i]) =>
            /\ call'[signal'[i].tran].pc = "signalled"
            /\ call'[signal'[i].tran].spot = signal'[i].spot
    BY <2>3, <2>5, <2>6, <2>7, SignalsTyped DEF AsksAwaited
  <2>9. \A i, j \in 1 .. Len(signal') :
            IsAsk(signal'[i]) /\ IsAsk(signal'[j]) /\ signal'[i].tran = signal'[j].tran => i = j
    BY <2>3, <2>5 DEF AsksAwaited
  <2>10. QED
    BY <2>8, <2>9 DEF AsksAwaited
<1>10. CASE AskFinishSpot \/ AskCleanSpots
  BY <1>4, <1>10 DEF AskFinishSpot, AskCleanSpots, Receives
<1>11. ASSUME NEW t \in Trans,
              Begin(t) \/ Begun(t) \/ Commit(t) \/ Rollback(t) \/ End(t) \/ EndUnknown(t) \/ Ended(t)
       PROVE  AsksAwaited'
  BY <1>1, <1>11 DEF Begin, Begun, Commit, Rollback, End, EndUnknown, Ended, cacheVars
<1>12. QED
  BY <1>3, <1>5, <1>7, <1>8, <1>9, <1>10, <1>11 DEF Next, CacheRuns, CacheStep, ClientStep

\* The places in the queues are places of transactions.
LEMMA PlacesTyped ==
    ASSUME HI, NEW s \in Spots, NEW g \in Gens
    PROVE  /\ obj[s][g].wait_line \in Seq(Ticket)
           /\ \A i \in 1 .. Len(obj[s][g].wait_line) : obj[s][g].wait_line[i].tran \in Trans
<1>1. obj[s][g].wait_line \in Seq(Ticket)
  BY DEF HI, TypeOK, CacheTypeOK, SpotCaches
<1>2. \A q \in Seq(Ticket) : \A i \in 1 .. Len(q) : q[i] \in Ticket
  OBVIOUS
<1>3. QED
  BY <1>1, <1>2 DEF Ticket

\* The steps that queue nobody and wake nobody leave the places of those who
\* wait alone.
LEMMA PlacesKept ==
    ASSUME HI,
           \A u \in Trans : call[u].pc = "wait" => call'[u] = call[u],
           \A s \in Spots, g \in Gens : obj'[s][g].wait_line = obj[s][g].wait_line
    PROVE  PlacesAwaited'
<1>1. ASSUME NEW s \in Spots, NEW g \in Gens
      PROVE  Awaited(obj'[s][g].wait_line, s, g, call')
  <2> DEFINE line == obj[s][g].wait_line
  <2>1. Awaited(line, s, g, call)
    BY DEF HI, HoldsInvariant, PlacesAwaited
  <2>2. \A i \in 1 .. Len(line) : line[i].tran \in Trans
    BY PlacesTyped
  <2>3. \A i \in 1 .. Len(line) : call'[line[i].tran] = call[line[i].tran]
    BY <2>1, <2>2 DEF Awaited
  <2>4. obj'[s][g].wait_line = line
    OBVIOUS
  <2> HIDE DEF line
  <2>5. QED
    BY <2>1, <2>3, <2>4 DEF Awaited
<1>2. QED
  BY <1>1 DEF PlacesAwaited

\* The use of a spot leaves its occupation and its queue alone, and so does
\* loading it.
LEMMA ObjectKept ==
    ASSUME HI, NEW t \in Trans, LoadSpot(t) \/ Use(t)
    PROVE  \A s \in Spots, g \in Gens :
              /\ obj'[s][g].wait_line = obj[s][g].wait_line
              /\ obj'[s][g].tran_id = obj[s][g].tran_id
<1> USE DEF HI, TypeOK, CacheTypeOK
<1> DEFINE cs == call[t].spot
           cg == call[t].gen
           b  == obj[cs][cg]
           ld == [b EXCEPT !.spot = disk[cs], !.exist = TRUE]
           wr == [b EXCEPT !.spot = t, !.be_change = TRUE]
           dl == [b EXCEPT !.be_delete = "yes", !.be_change = TRUE]
<1>1. CASE obj' = obj
  BY <1>1
<1>2. ASSUME cs \in Spots, cg \in Gens
      PROVE  \A n \in {b, ld, wr, dl} : n.wait_line = b.wait_line /\ n.tran_id = b.tran_id
  <2>1. b \in SpotCaches
    BY <1>2
  <2>2. QED
    BY <2>1 DEF SpotCaches
<1>3. ASSUME NEW n \in {b, ld, wr, dl}, obj' = [obj EXCEPT ![cs][cg] = n]
      PROVE  \A s \in Spots, g \in Gens :
                /\ obj'[s][g].wait_line = obj[s][g].wait_line
                /\ obj'[s][g].tran_id = obj[s][g].tran_id
  <2>1. \A s \in Spots, g \in Gens :
            obj'[s][g] = IF s = cs /\ g = cg THEN n ELSE obj[s][g]
    BY <1>3
  <2>2. cs \in Spots /\ cg \in Gens => n.wait_line = b.wait_line /\ n.tran_id = b.tran_id
    BY <1>2
  <2>3. b = obj[cs][cg]
    OBVIOUS
  <2> HIDE DEF HI, TypeOK, CacheTypeOK, cs, cg, b, ld, wr, dl
  <2>4. QED
    BY <2>1, <2>2, <2>3
<1>4. CASE LoadSpot(t)
  <2>1. obj' = obj \/ obj' = [obj EXCEPT ![cs][cg] = ld]
    BY <1>4 DEF LoadSpot
  <2>2. QED
    BY <1>1, <1>3, <2>1
<1>5. CASE Use(t)
  <2>1. \/ obj' = obj
        \/ \E n \in {b, ld, wr, dl} : obj' = [obj EXCEPT ![cs][cg] = n]
    BY <1>5 DEF Use, Touches, Spotc, ExistSpot, ReadSpot, ReadField, WriteField, WriteContext, StoreSpot, DeleteSpot
  <2>2. QED
    BY <1>1, <1>3, <2>1
<1>6. QED
  BY <1>4, <1>5

\* A call that has to wait gets its place at the end of its queue.
LEMMA AskPlaced ==
    ASSUME HI, NEW t \in Trans, AskForSpot(t)
    PROVE  PlacesAwaited'
<1> DEFINE cs == call[t].spot
           cg == call[t].gen
           b  == obj[cs][cg]
           w  == [tran |-> t, forwrite |-> ForWrite(call[t].op)]
           n  == AskToGet(b, w)
<1> USE DEF HI, TypeOK, CacheTypeOK
<1>1. /\ call[t].pc = "ask"
      /\ obj' = [obj EXCEPT ![cs][cg] = n]
      /\ call' = [call EXCEPT ![t].pc = IF Grants(b, w) THEN "reply" ELSE "wait"]
  BY DEF AskForSpot
<1>2. \A u \in Trans : call[u].pc = "wait" => call'[u] = call[u]
  BY <1>1
<1>3. \A s \in Spots, g \in Gens :
          obj'[s][g] = IF s = cs /\ g = cg THEN n ELSE obj[s][g]
  BY <1>1
<1>4. CASE cs \notin Spots \/ cg \notin Gens \/ Grants(b, w)
  <2>1. Grants(b, w) /\ cs \in Spots /\ cg \in Gens => n.wait_line = b.wait_line
    <3>1. cs \in Spots /\ cg \in Gens => b \in SpotCaches
      OBVIOUS
    <3>2. QED
      BY <3>1 DEF AskToGet, SpotCaches
  <2>2. \A s \in Spots, g \in Gens : obj'[s][g].wait_line = obj[s][g].wait_line
    BY <1>3, <1>4, <2>1
  <2>3. QED
    BY <1>2, <2>2, PlacesKept
<1>5. CASE cs \in Spots /\ cg \in Gens /\ ~Grants(b, w)
  <2>1. b \in SpotCaches /\ w \in Ticket
    BY <1>5 DEF Ticket, ForWrite
  <2>2. b.wait_line \in Seq(Ticket) /\ n.wait_line = Append(b.wait_line, w)
    BY <1>5, <2>1 DEF AskToGet, SpotCaches
  <2>3. ASSUME NEW s \in Spots, NEW g \in Gens
        PROVE  /\ Awaited(obj[s][g].wait_line, s, g, call')
               /\ \A i \in 1 .. Len(obj[s][g].wait_line) : obj[s][g].wait_line[i].tran # t
    <3> DEFINE line == obj[s][g].wait_line
    <3>1. Awaited(line, s, g, call)
      BY DEF HoldsInvariant, PlacesAwaited
    <3>2. \A i \in 1 .. Len(line) : line[i].tran \in Trans
      BY PlacesTyped
    <3> HIDE DEF line
    <3>3. \A i \in 1 .. Len(line) : line[i].tran # t /\ call'[line[i].tran] = call[line[i].tran]
      BY <1>1, <1>2, <3>1, <3>2 DEF Awaited
    <3>4. Awaited(line, s, g, call')
      BY <3>1, <3>3 DEF Awaited
    <3>5. QED
      BY <3>3, <3>4 DEF line
  <2>4. Awaited(n.wait_line, cs, cg, call')
    <3> DEFINE old == b.wait_line
               new == n.wait_line
    <3>1. Awaited(old, cs, cg, call') /\ \A i \in 1 .. Len(old) : old[i].tran # t
      BY <1>5, <2>3
    <3>2. call'[t].pc = "wait" /\ call'[t].spot = cs /\ call'[t].gen = cg /\ call'[t].op = call[t].op
      BY <1>1, <1>5
    <3>3. \A i \in 1 .. Len(new) :
              \/ i \in 1 .. Len(old) /\ new[i] = old[i]
              \/ i = Len(old) + 1 /\ new[i] = w
      <4>1. old \in Seq(Ticket) /\ w \in Ticket /\ new = Append(old, w)
        BY <2>1, <2>2
      <4> HIDE DEF old, new, w
      <4>2. QED
        BY <4>1, Added
    <3>4. w.tran = t /\ w.forwrite = ForWrite(call'[t].op)
      BY <3>2
    <3> HIDE DEF old, new, w, cs, cg
    <3>5. ASSUME NEW i \in 1 .. Len(new)
          PROVE  LET c == call'[new[i].tran]
                 IN  /\ c.pc = "wait" /\ c.spot = cs /\ c.gen = cg
                     /\ new[i].forwrite = ForWrite(c.op)
      <4>1. CASE i \in 1 .. Len(old) /\ new[i] = old[i]
        BY <3>1, <4>1 DEF Awaited
      <4>2. CASE new[i] = w
        BY <3>2, <3>4, <4>2
      <4>3. QED
        BY <3>3, <4>1, <4>2
    <3>6. \A i, j \in 1 .. Len(new) : new[i].tran = new[j].tran => i = j
      <4>1. \A i, j \in 1 .. Len(old) : old[i].tran = old[j].tran => i = j
        BY <3>1 DEF Awaited
      <4>2. QED
        BY <3>1, <3>3, <3>4, <4>1
    <3>7. Awaited(new, cs, cg, call')
      BY <3>5, <3>6 DEF Awaited
    <3>8. QED
      BY <3>7 DEF new
  <2>5. ASSUME NEW s \in Spots, NEW g \in Gens
        PROVE  Awaited(obj'[s][g].wait_line, s, g, call')
    BY <1>3, <2>3, <2>4
  <2>6. QED
    BY <2>5 DEF PlacesAwaited
<1>6. QED
  BY <1>4, <1>5

\* A release takes the place at the head of the queue, if there is one, and the
\* call it belonged to no longer waits.
LEMMA ReleasePlaced ==
    ASSUME HI, NEW f \in fin, StoreTheSpot(f) \/ ResetTheSpot(f)
    PROVE  PlacesAwaited'
<1> DEFINE cs == f.spot
           cg == f.gen
           old == obj[cs][cg].wait_line
<1>1. PICK c \in SpotCaches : c.wait_line = old /\ Release(f, c)
  BY ReleaseOnly
<1>2. cs \in Spots /\ cg \in Gens
  BY ReleaseOnly
<1> DEFINE n == AskToRelease(c)
<1>3. \A s \in Spots, g \in Gens :
          obj'[s][g] = IF s = cs /\ g = cg THEN n ELSE obj[s][g]
  <2>1. obj' = [obj EXCEPT ![cs][cg] = n]
    BY <1>1 DEF Release
  <2> HIDE DEF n
  <2>2. QED
    BY <2>1 DEF HI, TypeOK, CacheTypeOK
<1>4. \A s \in Spots, g \in Gens : Awaited(obj[s][g].wait_line, s, g, call)
  BY DEF HI, HoldsInvariant, PlacesAwaited
<1>5. old \in Seq(Ticket)
  BY <1>2, PlacesTyped
<1>6. CASE old = << >>
  <2>1. n.wait_line = old
    BY <1>1, <1>6 DEF AskToRelease, SpotCaches
  <2>2. call' = call
    BY <1>1, <1>6 DEF Release, Woken
  <2>3. \A s \in Spots, g \in Gens : obj'[s][g].wait_line = obj[s][g].wait_line
    BY <1>3, <2>1
  <2>4. QED
    BY <2>2, <2>3, PlacesKept
<1>7. CASE old # << >>
  <2> DEFINE w == Woken(c)
  <2>1. Head(old) \in Ticket /\ old[1] = Head(old) /\ w = Head(old).tran
    BY <1>1, <1>5, <1>7, Taken DEF Woken
  <2>2. w \in Trans /\ w # NoTran
    BY <2>1, TransAssumption DEF Ticket
  <2>3. call[w].pc = "wait" /\ call[w].spot = cs /\ call[w].gen = cg
    BY <1>1, <1>2, <2>2, WokenWaits
  <2>4. \A u \in Trans : u # w => call'[u] = call[u]
    BY <1>1, <2>2 DEF Release, HI, TypeOK, CacheTypeOK
  <2>5. n.wait_line = Tail(old)
    BY <1>1, <1>7 DEF AskToRelease, SpotCaches
  <2> HIDE DEF w, n
  <2>6. Awaited(Tail(old), cs, cg, call')
    <3>1. Awaited(old, cs, cg, call)
      BY <1>2, <1>4
    <3> DEFINE new == Tail(old)
    <3>2. \A i \in 1 .. Len(new) :
              i \in Nat /\ i + 1 \in 1 .. Len(old) /\ new[i] = old[i + 1] /\ i + 1 # 1
      BY <1>5, <1>7, Taken
    <3>3. 1 \in 1 .. Len(old) /\ old[1].tran = w
      BY <1>5, <1>7, <2>1, Taken
    <3>4. \A i \in 1 .. Len(old) : old[i].tran \in Trans
      BY <1>2, PlacesTyped
    <3> HIDE DEF old, new, cs, cg
    <3>5. \A i \in 1 .. Len(new) : new[i].tran \in Trans /\ new[i].tran # w
      BY <3>1, <3>2, <3>3, <3>4 DEF Awaited
    <3>6. \A i \in 1 .. Len(new) : call'[new[i].tran] = call[new[i].tran]
      BY <2>4, <3>5
    <3>7. ASSUME NEW i \in 1 .. Len(new), NEW j \in 1 .. Len(new), new[i].tran = new[j].tran
          PROVE  i = j
      <4>1. i + 1 \in 1 .. Len(old) /\ j + 1 \in 1 .. Len(old) /\ old[i + 1].tran = old[j + 1].tran
        BY <3>2, <3>7
      <4>2. i + 1 = j + 1
        BY <3>1, <4>1 DEF Awaited
      <4>3. QED
        BY <3>2, <4>2
    <3>8. \A i, j \in 1 .. Len(new) : new[i].tran = new[j].tran => i = j
      BY <3>7
    <3>9. QED
      BY <3>1, <3>2, <3>6, <3>8 DEF Awaited, new
  <2>7. ASSUME NEW s \in Spots, NEW g \in Gens, ~(s = cs /\ g = cg)
        PROVE  Awaited(obj[s][g].wait_line, s, g, call')
    <3> DEFINE line == obj[s][g].wait_line
    <3>1. Awaited(line, s, g, call)
      BY <1>4
    <3>2. \A i \in 1 .. Len(line) : line[i].tran \in Trans
      BY PlacesTyped
    <3> HIDE DEF line
    <3>3. \A i \in 1 .. Len(line) : line[i].tran # w
      BY <2>3, <2>7, <3>1 DEF Awaited
    <3>4. \A i \in 1 .. Len(line) : call'[line[i].tran] = call[line[i].tran]
      BY <2>4, <3>2, <3>3
    <3>5. QED
      BY <3>1, <3>4 DEF Awaited, line
  <2>8. ASSUME NEW s \in Spots, NEW g \in Gens
        PROVE  Awaited(obj'[s][g].wait_line, s, g, call')
    BY <1>3, <2>5, <2>6, <2>7
  <2>9. QED
    BY <2>8 DEF PlacesAwaited
<1>8. QED
  BY <1>6, <1>7

\* Every step keeps the places in the queues those of calls that wait there.
LEMMA PlacesAwaitedNext == HI /\ Next => PlacesAwaited'
<1> SUFFICES ASSUME HI, Next PROVE PlacesAwaited'
  OBVIOUS
<1> USE DEF HI, TypeOK, CacheTypeOK
<1>1. CASE UNCHANGED <<obj, call>>
  BY <1>1, PlacesKept
<1>2. CASE AskGetSpot
  <2> DEFINE m == Head(signal)
  <2>1. signal # << >> /\ signal' = Tail(signal) /\ IsAsk(m)
    BY <1>2 DEF AskGetSpot, Receives, IsAsk
  <2>2. call[m.tran].pc = "signalled"
    BY <2>1, SignalTaken DEF HoldsInvariant, AsksAwaited
  <2>3. obj' = obj /\ \A u \in Trans : u # m.tran => call'[u] = call[u]
    BY <1>2 DEF AskGetSpot
  <2>4. QED
    BY <2>2, <2>3, PlacesKept
<1>3. CASE AskFinishSpot \/ AskCleanSpots \/ ConsCleanSig
  BY <1>1, <1>3 DEF AskFinishSpot, AskCleanSpots, ConsCleanSig
<1>4. ASSUME NEW t \in Trans, LoadSpot(t)
      PROVE  PlacesAwaited'
  <2>1. \A u \in Trans : call[u].pc = "wait" => call'[u] = call[u]
    BY <1>4, ServedCall
  <2>2. QED
    BY <1>4, <2>1, ObjectKept, PlacesKept
<1>5. ASSUME NEW t \in Trans, Use(t)
      PROVE  PlacesAwaited'
  <2>1. \A u \in Trans : call[u].pc = "wait" => call'[u] = call[u]
    BY <1>5, UsedOnce
  <2>2. QED
    BY <1>5, <2>1, ObjectKept, PlacesKept
<1>6. ASSUME NEW t \in Trans, Receive(t)
      PROVE  PlacesAwaited'
  <2>1. obj' = obj /\ \A u \in Trans : call[u].pc = "wait" => call'[u] = call[u]
    BY <1>6 DEF Receive, Reply
  <2>2. QED
    BY <2>1, PlacesKept
<1>7. ASSUME NEW t \in Trans, NEW op \in AllowedOps, NEW s \in Spots, CallSpot(t, op, s)
      PROVE  PlacesAwaited'
  <2>1. call[t].pc = "none"
    BY <1>7 DEF CallSpot, HoldsInvariant, OneThingAtATime
  <2>2. obj' = obj /\ \A u \in Trans : call[u].pc = "wait" => call'[u] = call[u]
    BY <1>7, <2>1 DEF CallSpot
  <2>3. QED
    BY <2>2, PlacesKept
<1>8. ASSUME NEW t \in Trans,
             \/ Begin(t) \/ Begun(t) \/ Commit(t) \/ Rollback(t) \/ End(t) \/ EndUnknown(t) \/ Ended(t)
             \/ \E s \in Spots : FinishSpot(t, s)
      PROVE  PlacesAwaited'
  BY <1>1, <1>8 DEF Begin, Begun, Commit, Rollback, End, EndUnknown, Ended, FinishSpot,
                    GotoFinishSpot, cacheVars
<1>9. QED
  BY <1>2, <1>3, <1>4, <1>5, <1>6, <1>7, <1>8, AskPlaced, ReleasePlaced
  DEF Next, CacheRuns, CacheStep, ClientStep

\* What is being finished, in terms of IsFinish.
LEMMA FinishingIs ==
    /\ \A t, s : Finishing(t, s) <=>
          \/ \E i \in 1 .. Len(signal) :
                IsFinish(signal[i]) /\ signal[i].tran = t /\ signal[i].spot = s
          \/ \E f \in fin : f.tran = t /\ f.spot = s
    /\ \A t, s : Finishing(t, s)' <=>
          \/ \E i \in 1 .. Len(signal') :
                IsFinish(signal'[i]) /\ signal'[i].tran = t /\ signal'[i].spot = s
          \/ \E f \in fin' : f.tran = t /\ f.spot = s
BY DEF Finishing, IsFinish

\* Steps that neither take a spot nor begin to finish one.
LEMMA FinishKept ==
    ASSUME HI, spot_cache' = spot_cache, fate' = fate, fin' \subseteq fin,
           \/ signal # << >> /\ signal' = Tail(signal)
           \/ \A i \in 1 .. Len(signal') : IsFinish(signal'[i]) =>
                 i \in 1 .. Len(signal) /\ signal'[i] = signal[i]
    PROVE  ReleasedOnce'
<1> USE DEF HI, HoldsInvariant
<1> DEFINE at(i) == IF signal' = Tail(signal) /\ signal # << >> THEN i + 1 ELSE i
<1>1. \A i \in 1 .. Len(signal') : IsFinish(signal'[i]) =>
          i \in Int /\ at(i) \in 1 .. Len(signal) /\ signal'[i] = signal[at(i)]
  <2>1. CASE signal # << >> /\ signal' = Tail(signal)
    BY <2>1, SignalTaken
  <2>2. CASE ~(signal # << >> /\ signal' = Tail(signal))
    BY <2>2
  <2>3. QED
    BY <2>1, <2>2
<1>2. \A i, j \in Int : at(i) = at(j) => i = j
  OBVIOUS
<1> HIDE DEF at
<1>3. \A t, s : Finishing(t, s)' => Finishing(t, s)
  BY <1>1, FinishingIs
<1>4. \A t \in Trans, s \in Spots : Finishing(t, s)' => fate'[t] # "open" /\ s \notin spot_cache'[t]
  BY <1>3 DEF ReleasedOnce
<1>5. \A i, j \in 1 .. Len(signal') :
          /\ IsFinish(signal'[i]) /\ IsFinish(signal'[j])
          /\ signal'[i].tran = signal'[j].tran /\ signal'[i].spot = signal'[j].spot
          => at(i) = at(j)
  BY <1>1 DEF ReleasedOnce
<1>6. \A i, j \in 1 .. Len(signal') :
          /\ IsFinish(signal'[i]) /\ IsFinish(signal'[j])
          /\ signal'[i].tran = signal'[j].tran /\ signal'[i].spot = signal'[j].spot
          => i = j
  BY <1>1, <1>2, <1>5
<1>7. \A i \in 1 .. Len(signal'), f \in fin' :
          IsFinish(signal'[i]) => ~(signal'[i].tran = f.tran /\ signal'[i].spot = f.spot)
  BY <1>1 DEF ReleasedOnce
<1>8. \A f, h \in fin' : f.tran = h.tran /\ f.spot = h.spot => f = h
  BY DEF ReleasedOnce
<1>9. QED
  BY <1>4, <1>6, <1>7, <1>8 DEF ReleasedOnce

\* A store or reset goes from the channel to its goroutine.
LEMMA FinishDispatched == HI /\ AskFinishSpot /\ fate' = fate /\ spot_cache' = spot_cache => ReleasedOnce'
<1> SUFFICES ASSUME HI, AskFinishSpot, fate' = fate, spot_cache' = spot_cache PROVE ReleasedOnce'
  OBVIOUS
<1> USE DEF HI, HoldsInvariant
<1> DEFINE m == Head(signal)
           new == [kind |-> m.ask, tran |-> m.tran, spot |-> m.spot, gen |-> gen[m.spot]]
<1>1. signal # << >> /\ signal' = Tail(signal) /\ IsFinish(m)
  BY DEF AskFinishSpot, Receives, IsFinish
<1>2. CASE fin' = fin
  BY <1>1, <1>2, FinishKept
<1>3. CASE fin' = fin \cup {new}
  <2>1. /\ 1 \in 1 .. Len(signal) /\ signal[1] = m
        /\ \A i \in 1 .. Len(signal') :
              i \in Nat /\ i + 1 \in 1 .. Len(signal) /\ i + 1 # 1 /\ signal'[i] = signal[i + 1]
    BY <1>1, SignalTaken
  <2>2. new.tran = m.tran /\ new.spot = m.spot
    OBVIOUS
  <2> HIDE DEF m, new
  <2>3. \A t, s : Finishing(t, s)' => Finishing(t, s)
    BY <1>1, <1>3, <2>1, <2>2, FinishingIs
  <2>4. \A t \in Trans, s \in Spots : Finishing(t, s)' => fate'[t] # "open" /\ s \notin spot_cache'[t]
    BY <2>3 DEF ReleasedOnce
  <2>5. ASSUME NEW i \in 1 .. Len(signal'), NEW j \in 1 .. Len(signal'),
               IsFinish(signal'[i]), IsFinish(signal'[j]),
               signal'[i].tran = signal'[j].tran, signal'[i].spot = signal'[j].spot
        PROVE  i = j
    <3>1. i + 1 = j + 1
      BY <2>1, <2>5 DEF ReleasedOnce
    <3>2. QED
      BY <2>1, <3>1
  <2>6. ASSUME NEW i \in 1 .. Len(signal'), NEW f \in fin', IsFinish(signal'[i]),
               signal'[i].tran = f.tran, signal'[i].spot = f.spot
        PROVE  FALSE
    <3>1. CASE f \in fin
      <4>1. i + 1 \in 1 .. Len(signal) /\ signal'[i] = signal[i + 1]
        BY <2>1, <2>6
      <4>2. ~(signal[i + 1].tran = f.tran /\ signal[i + 1].spot = f.spot)
        BY <2>6, <3>1, <4>1 DEF ReleasedOnce
      <4>3. QED
        BY <2>6, <4>1, <4>2
    <3>2. CASE f = new
      <4>1. i + 1 = 1
        BY <1>1, <2>1, <2>2, <2>6, <3>2 DEF ReleasedOnce
      <4>2. QED
        BY <2>1, <4>1
    <3>3. QED
      BY <1>3, <3>1, <3>2
  <2>7. \A f \in fin : ~(f.tran = new.tran /\ f.spot = new.spot)
    BY <1>1, <2>1, <2>2 DEF ReleasedOnce
  <2>8. \A f, h \in fin' : f.tran = h.tran /\ f.spot = h.spot => f = h
    BY <1>3, <2>7 DEF ReleasedOnce
  <2>9. QED
    BY <2>4, <2>5, <2>6, <2>8 DEF ReleasedOnce
<1>4. QED
  BY <1>2, <1>3 DEF AskFinishSpot

\* A spot leaves the transaction's spot_cache as its store or reset is sent.
LEMMA FinishSent ==
    ASSUME HI, NEW t \in Trans, NEW s \in Spots, FinishSpot(t, s)
    PROVE  ReleasedOnce'
<1> USE DEF HI, HoldsInvariant
<1> DEFINE m == [ask |-> FinishAsk(t), tran |-> t, spot |-> s]
<1>1. /\ going[t] /\ s \in spot_cache[t] /\ SendSignal(FinishAsk(t), t, s)
      /\ spot_cache' = [spot_cache EXCEPT ![t] = @ \ {s}]
      /\ fate' = fate /\ fin' = fin
  BY DEF FinishSpot, GotoFinishSpot
<1>2. m \in Signals /\ IsFinish(m) /\ m.tran = t /\ m.spot = s
  BY DEF FinishAsk, Signals, IsFinish
<1>3. \A i \in 1 .. Len(signal') :
          \/ i \in 1 .. Len(signal) /\ signal'[i] = signal[i]
          \/ i = Len(signal) + 1 /\ signal'[i] = m
  BY <1>1, <1>2, SignalSent
<1> HIDE DEF m
<1>4. ~Finishing(t, s) /\ fate[t] # "open"
  BY <1>1 DEF ReleasedOnce, OneThingAtATime
<1>5. \A u, r : Finishing(u, r)' => Finishing(u, r) \/ (u = t /\ r = s)
  BY <1>1, <1>2, <1>3, FinishingIs
<1>6. \A u \in Trans : spot_cache'[u] \subseteq spot_cache[u]
  BY <1>1 DEF TypeOK, PoolTypeOK
<1>7. s \notin spot_cache'[t]
  BY <1>1 DEF TypeOK, PoolTypeOK
<1>8. \A u \in Trans, r \in Spots : Finishing(u, r)' => fate'[u] # "open" /\ r \notin spot_cache'[u]
  BY <1>1, <1>4, <1>5, <1>6, <1>7 DEF ReleasedOnce
<1>9. \A i \in 1 .. Len(signal) :
          IsFinish(signal[i]) => ~(signal[i].tran = t /\ signal[i].spot = s)
  BY <1>4, FinishingIs
<1>10. \A f \in fin : ~(f.tran = t /\ f.spot = s)
  BY <1>4, FinishingIs
<1>11. \A i, j \in 1 .. Len(signal') :
          /\ IsFinish(signal'[i]) /\ IsFinish(signal'[j])
          /\ signal'[i].tran = signal'[j].tran /\ signal'[i].spot = signal'[j].spot
          => i = j
  BY <1>2, <1>3, <1>9 DEF ReleasedOnce
<1>12. \A i \in 1 .. Len(signal'), f \in fin' :
          IsFinish(signal'[i]) => ~(signal'[i].tran = f.tran /\ signal'[i].spot = f.spot)
  BY <1>1, <1>2, <1>3, <1>10 DEF ReleasedOnce
<1>13. QED
  BY <1>1, <1>8, <1>11, <1>12 DEF ReleasedOnce

\* Every step keeps each hold in one place.
LEMMA ReleasedOnceNext == HI /\ Next => ReleasedOnce'
<1> SUFFICES ASSUME HI, Next PROVE ReleasedOnce'
  OBVIOUS
<1> USE DEF HI, HoldsInvariant
<1>1. CASE UNCHANGED <<signal, fin, fate, spot_cache>>
  BY <1>1, FinishKept
<1>2. CASE /\ AskGetSpot \/ AskCleanSpots
           /\ UNCHANGED <<fate, spot_cache>>
  BY <1>2, FinishKept DEF AskGetSpot, AskCleanSpots, Receives
<1>3. CASE AskFinishSpot /\ UNCHANGED <<fate, spot_cache>>
  BY <1>3, FinishDispatched
<1>4. ASSUME NEW ask \in {"get", "write", "clean"}, NEW t, NEW s, SendSignal(ask, t, s),
             [ask |-> ask, tran |-> t, spot |-> s] \in Signals,
             UNCHANGED <<fin, fate, spot_cache>>
      PROVE  ReleasedOnce'
  <2>1. \A i \in 1 .. Len(signal') : IsFinish(signal'[i]) =>
            i \in 1 .. Len(signal) /\ signal'[i] = signal[i]
    BY <1>4, SignalSent DEF IsFinish
  <2>2. QED
    BY <1>4, <2>1, FinishKept
<1>5. CASE ConsCleanSig /\ UNCHANGED <<fate, spot_cache>>
  BY <1>4, <1>5 DEF ConsCleanSig, Signals
<1>6. CASE (\E t \in Trans : LoadSpot(t) \/ AskForSpot(t)) /\ UNCHANGED <<fate, spot_cache>>
  BY <1>1, <1>6 DEF LoadSpot, AskForSpot
<1>7. CASE (\E f \in fin : StoreTheSpot(f) \/ ResetTheSpot(f)) /\ UNCHANGED <<fate, spot_cache>>
  <2>1. fin' \subseteq fin /\ signal' = signal
    BY <1>7, ReleaseOnly DEF Release
  <2>2. QED
    BY <1>7, <2>1, FinishKept
<1>8. CASE CacheRuns
  BY <1>2, <1>3, <1>5, <1>6, <1>7, <1>8 DEF CacheRuns, CacheStep, poolVars
<1>9. ASSUME NEW t \in Trans,
             Begin(t) \/ Begun(t) \/ Commit(t) \/ Rollback(t) \/ EndUnknown(t) \/ Ended(t) \/ Use(t)
      PROVE  ReleasedOnce'
  BY <1>1, <1>9 DEF Begin, Begun, Commit, Rollback, EndUnknown, Ended, SendTranSignal, ToBegin,
                    ToEndUnknown, GotoReply, cacheVars, poolVars, Use, Touches,
                    ExistSpot, ReadSpot, ReadField, WriteField, WriteContext, StoreSpot, DeleteSpot
<1>10. ASSUME NEW t \in Trans, End(t)
       PROVE  ReleasedOnce'
  <2>1. UNCHANGED <<signal, fin, spot_cache>> /\ fate' = [fate EXCEPT ![t] = Head(tsignal).ask]
    BY <1>10 DEF End, ToEnd, cacheVars
  <2>2. Head(tsignal).ask # "open"
    BY <1>10, TranSignalTaken DEF End, ToEnd, TypeOK, TranSignals
  <2>3. \A u \in Trans : fate'[u] = "open" => fate[u] = "open"
    BY <2>1, <2>2 DEF TypeOK, PoolTypeOK
  <2>4. \A u, s : Finishing(u, s)' <=> Finishing(u, s)
    BY <2>1, FinishingIs
  <2>5. QED
    BY <2>1, <2>3, <2>4 DEF ReleasedOnce
<1>11. ASSUME NEW t \in Trans, Receive(t)
       PROVE  ReleasedOnce'
  <2>1. /\ UNCHANGED <<signal, fin, fate>>
        /\ \A u \in Trans : u # t => spot_cache'[u] = spot_cache[u]
    BY <1>11 DEF Receive, Reply, TypeOK, PoolTypeOK
  <2>2. fate[t] = "open"
    BY <1>11 DEF Receive, Reply, OneThingAtATime
  <2>3. \A u, s : Finishing(u, s)' <=> Finishing(u, s)
    BY <2>1, FinishingIs
  <2>4. \A u \in Trans, s \in Spots : Finishing(u, s)' => fate'[u] # "open" /\ s \notin spot_cache'[u]
    BY <2>1, <2>2, <2>3 DEF ReleasedOnce
  <2>5. QED
    BY <2>1, <2>4 DEF ReleasedOnce
<1>12. ASSUME NEW t \in Trans, NEW op \in AllowedOps, NEW s \in Spots, CallSpot(t, op, s)
       PROVE  ReleasedOnce'
  BY <1>4, <1>12 DEF CallSpot, Signals, poolVars
<1>13. QED
  BY <1>8, <1>9, <1>10, <1>11, <1>12, FinishSent DEF Next, ClientStep

----------------------------------------------------------------------------
(* Before the first cleaning.                                              *)

\* The count of the cleaning never goes back: what is quiet after a step was
\* quiet before.
LEMMA QuietBefore == HI /\ Next /\ Quiet' => Quiet
<1> SUFFICES ASSUME HI, Next PROVE clean_count' \in Nat /\ clean_count <= clean_count'
  BY SpotCacheOpAssumption DEF Quiet, HI, TypeOK, CacheTypeOK
<1> USE DEF HI, TypeOK, CacheTypeOK
<1>1. CASE \E t \in Trans : LoadSpot(t)
  <2>1. \E t \in Trans : clean_count' = clean_count \/ clean_count' \in Counted(t)
    BY <1>1 DEF LoadSpot
  <2>2. QED
    BY <2>1, CountedType
<1>2. CASE \E f \in fin : StoreTheSpot(f) \/ ResetTheSpot(f)
  BY <1>2, ReleaseOnly
<1>3. ASSUME AskGetSpot \/ AskFinishSpot \/ AskCleanSpots \/ ConsCleanSig \/ \E t \in Trans : AskForSpot(t)
      PROVE  clean_count' = clean_count
  BY <1>3 DEF AskGetSpot, AskFinishSpot, AskCleanSpots, ConsCleanSig, AskForSpot
<1>4. ASSUME NEW t \in Trans, ClientStep(t)
      PROVE  clean_count' = clean_count
  BY <1>4 DEF ClientStep, Begin, Begun, Commit, Rollback, End, EndUnknown, Ended, FinishSpot,
              GotoFinishSpot, CallSpot, Receive, Reply, Use, Touches, ExistSpot, ReadSpot,
              ReadField, WriteField, WriteContext, StoreSpot, DeleteSpot, cacheVars
<1>5. clean_count \in Nat
  OBVIOUS
<1>6. CASE CacheRuns
  BY <1>1, <1>2, <1>3, <1>5, <1>6 DEF CacheRuns, CacheStep
<1>7. CASE \E t \in Trans : ClientStep(t)
  BY <1>4, <1>5, <1>7
<1>8. QED
  BY <1>6, <1>7 DEF Next

\* A call that is being served works on the one object of its spot.
LEMMA ServedObject ==
    ASSUME HI, Quiet, NEW t \in Trans, call[t].pc \notin {"none", "signalled"}
    PROVE  call[t].spot \in Spots /\ call[t].gen \in Gens /\ call[t].gen = gen[call[t].spot]
BY SpotCacheOpAssumption
DEF HI, HoldsInvariant, OneObjectEach, TypeOK, CacheTypeOK, Gens

\* Steps that make no object, start no goroutine and move calls on by their pc
\* alone, or end them.
LEMMA OneObjectKept ==
    ASSUME HI, Quiet, UNCHANGED <<cleaners, gen, cached>>, fin' \subseteq fin,
           \A i \in 1 .. Len(signal') : signal'[i].ask # "clean",
           \A t \in Trans :
              \/ call'[t].pc \in {"none", "signalled"}
              \/ /\ call[t].pc \notin {"none", "signalled"}
                 /\ call'[t].spot = call[t].spot /\ call'[t].gen = call[t].gen
    PROVE  OneObjectEach'
BY DEF HI, HoldsInvariant, OneObjectEach

\* Every step that stays before the first cleaning keeps one object per spot.
LEMMA OneObjectEachNext == HI /\ Next /\ Quiet' => OneObjectEach'
<1> SUFFICES ASSUME HI, Next, Quiet, Quiet' PROVE OneObjectEach'
  BY QuietBefore
<1> USE DEF HI, HoldsInvariant
<1>1. \A i \in 1 .. Len(signal) : signal[i].ask # "clean"
  BY DEF OneObjectEach
<1>2. CASE AskGetSpot
  <2> DEFINE m == Head(signal)
             g == IF cached[m.spot] THEN gen[m.spot] ELSE gen[m.spot] + 1
  <2>1. signal # << >> /\ signal' = Tail(signal) /\ IsAsk(m)
    BY <1>2 DEF AskGetSpot, Receives, IsAsk
  <2>2. m.tran \in Trans /\ m.spot \in Spots /\ call[m.tran].pc = "signalled" /\ call[m.tran].spot = m.spot
    BY <2>1, SignalTaken, SignalsTyped DEF AsksAwaited
  <2>3. \A i \in 1 .. Len(signal') : signal'[i].ask # "clean"
    BY <1>1, <2>1, SignalTaken
  <2>4. /\ gen' = [gen EXCEPT ![m.spot] = g] /\ cached' = [cached EXCEPT ![m.spot] = TRUE]
        /\ call' = [call EXCEPT ![m.tran].pc = "load", ![m.tran].gen = g]
        /\ UNCHANGED <<fin, cleaners>>
    BY <1>2 DEF AskGetSpot
  <2>5. g > 0 /\ (gen[m.spot] > 0 => g = gen[m.spot])
    BY <2>2 DEF OneObjectEach, TypeOK, CacheTypeOK
  <2>6. call'[m.tran].spot = m.spot /\ call'[m.tran].gen = g
    BY <2>2, <2>4 DEF TypeOK, CacheTypeOK, Calls
  <2> HIDE DEF m, g
  <2>7. \A s \in Spots : gen'[s] = IF s = m.spot THEN g ELSE gen[s]
    BY <2>4 DEF TypeOK, CacheTypeOK
  <2>8. \A s \in Spots : gen[s] > 0 => gen'[s] = gen[s]
    BY <2>5, <2>7
  <2>9. \A s \in Spots : gen'[s] > 0 => cached'[s]
    BY <2>4, <2>7 DEF OneObjectEach, TypeOK, CacheTypeOK
  <2>10. \A t \in Trans : t # m.tran => call'[t] = call[t]
    BY <2>4 DEF TypeOK, CacheTypeOK
  <2>11. ASSUME NEW t \in Trans, call'[t].pc \notin {"none", "signalled"}
         PROVE  call'[t].spot \in Spots /\ gen'[call'[t].spot] > 0 /\ call'[t].gen = gen'[call'[t].spot]
    <3>1. CASE t = m.tran
      BY <2>2, <2>5, <2>6, <2>7, <3>1
    <3>2. CASE t # m.tran
      BY <2>8, <2>10, <2>11, <3>2 DEF OneObjectEach
    <3>3. QED
      BY <3>1, <3>2
  <2>12. ASSUME NEW f \in fin'
         PROVE  f.gen = gen'[f.spot]
    <3>1. f \in Finishers /\ f.gen = gen[f.spot]
      BY <2>4, <2>12 DEF OneObjectEach, TypeOK, CacheTypeOK
    <3>2. f.spot \in Spots /\ gen[f.spot] > 0
      BY <3>1 DEF Finishers, Gens
    <3>3. QED
      BY <2>8, <3>1, <3>2
  <2>13. QED
    BY <2>3, <2>4, <2>9, <2>11, <2>12 DEF OneObjectEach
<1>3. CASE AskFinishSpot
  <2>1. /\ signal # << >> /\ signal' = Tail(signal) /\ UNCHANGED <<gen, cached, call, cleaners>>
        /\ \A f \in fin' : f \in fin \/ f.gen = gen[f.spot]
    BY <1>3 DEF AskFinishSpot, Receives
  <2>2. \A i \in 1 .. Len(signal') : signal'[i].ask # "clean"
    BY <1>1, <2>1, SignalTaken
  <2>3. QED
    BY <2>1, <2>2 DEF OneObjectEach
<1>4. ~AskCleanSpots /\ ~ConsCleanSig
  <2>1. ~AskCleanSpots
    <3>1. signal # << >> => 1 \in 1 .. Len(signal) /\ signal[1] = Head(signal)
      BY Taken DEF TypeOK, CacheTypeOK
    <3>2. QED
      BY <1>1, <3>1 DEF AskCleanSpots, Receives
  <2>2. QED
    BY <2>1 DEF ConsCleanSig, OneObjectEach
<1>5. ASSUME NEW t \in Trans, LoadSpot(t) \/ AskForSpot(t)
      PROVE  OneObjectEach'
  <2>1. /\ UNCHANGED <<signal, fin, gen, cached, cleaners>>
        /\ call[t].pc \in {"load", "ask"}
        /\ \A u \in Trans : u # t => call'[u] = call[u]
        /\ call'[t].spot = call[t].spot /\ call'[t].gen = call[t].gen
    BY <1>5, ServedCall
  <2>2. QED
    BY <1>1, <2>1, OneObjectKept
<1>6. ASSUME NEW f \in fin, StoreTheSpot(f) \/ ResetTheSpot(f)
      PROVE  OneObjectEach'
  <2>1. PICK c \in SpotCaches : c.wait_line = obj[f.spot][f.gen].wait_line /\ Release(f, c)
    BY <1>6, ReleaseOnly
  <2>2. /\ f.spot \in Spots /\ f.gen \in Gens /\ UNCHANGED <<gen, cached, signal, cleaners>>
        /\ fin' \subseteq fin
    BY <1>6, <2>1, ReleaseOnly DEF Release
  <2>3. Woken(c) # NoTran => call[Woken(c)].pc = "wait"
    BY <2>1, <2>2, WokenWaits
  <2>4. ASSUME NEW t \in Trans
        PROVE  \/ call'[t] = call[t]
               \/ /\ call[t].pc = "wait"
                  /\ call'[t].spot = call[t].spot /\ call'[t].gen = call[t].gen
    BY <2>1, <2>3 DEF Release, TypeOK, CacheTypeOK, Calls
  <2>5. QED
    BY <1>1, <2>2, <2>4, OneObjectKept
<1>7. ASSUME NEW t \in Trans, Receive(t)
      PROVE  OneObjectEach'
  <2>1. UNCHANGED <<signal, fin, gen, cached, cleaners>> /\ call[t].pc = "reply"
    BY <1>7, SpotCacheOpAssumption DEF Receive, Reply, Quiet, TypeOK, CacheTypeOK
  <2>2. \A u \in Trans : u # t => call'[u] = call[u]
    BY <1>7, ReceivedOnce
  <2>3. call'[t].pc = "none" \/ (call'[t].spot = call[t].spot /\ call'[t].gen = call[t].gen)
    BY <1>7 DEF Receive, NoCall, TypeOK, CacheTypeOK, Calls
  <2>4. QED
    BY <1>1, <2>1, <2>2, <2>3, OneObjectKept
<1>8. ASSUME NEW t \in Trans, Use(t)
      PROVE  OneObjectEach'
  <2>1. /\ UNCHANGED <<signal, fin, gen, cached, cleaners>>
        /\ call'[t].pc = "none" /\ \A u \in Trans : u # t => call'[u] = call[u]
    BY <1>8, UsedOnce DEF NoCall
  <2>2. QED
    BY <1>1, <2>1, OneObjectKept
<1>9. ASSUME NEW ask \in {"get", "write", "store", "reset"}, NEW t, NEW s, SendSignal(ask, t, s),
             [ask |-> ask, tran |-> t, spot |-> s] \in Signals
      PROVE  \A i \in 1 .. Len(signal') : signal'[i].ask # "clean"
  BY <1>1, <1>9, SignalSent
<1>10. ASSUME NEW t \in Trans, NEW op \in AllowedOps, NEW s \in Spots, CallSpot(t, op, s)
       PROVE  OneObjectEach'
  <2>1. \A i \in 1 .. Len(signal') : signal'[i].ask # "clean"
    BY <1>9, <1>10 DEF CallSpot, Signals
  <2>2. /\ UNCHANGED <<fin, gen, cached, cleaners>>
        /\ call' = [call EXCEPT ![t] = NewCall(op, s)]
    BY <1>10 DEF CallSpot
  <2>3. call'[t].pc = "signalled" /\ \A u \in Trans : u # t => call'[u] = call[u]
    BY <2>2 DEF NewCall, TypeOK, CacheTypeOK
  <2>4. QED
    BY <2>1, <2>2, <2>3, OneObjectKept
<1>11. ASSUME NEW t \in Trans, NEW s \in Spots, FinishSpot(t, s)
       PROVE  OneObjectEach'
  <2>1. \A i \in 1 .. Len(signal') : signal'[i].ask # "clean"
    BY <1>9, <1>11 DEF FinishSpot, GotoFinishSpot, FinishAsk, Signals
  <2>2. UNCHANGED <<fin, gen, cached, cleaners, call>>
    BY <1>11 DEF FinishSpot, GotoFinishSpot
  <2>3. QED
    BY <2>1, <2>2, OneObjectKept
<1>12. ASSUME NEW t \in Trans,
              Begin(t) \/ Begun(t) \/ Commit(t) \/ Rollback(t) \/ End(t) \/ EndUnknown(t) \/ Ended(t)
       PROVE  OneObjectEach'
  <2>1. UNCHANGED <<signal, fin, gen, cached, cleaners, call>>
    BY <1>12 DEF Begin, Begun, Commit, Rollback, End, EndUnknown, Ended, cacheVars
  <2>2. QED
    BY <1>1, <2>1, OneObjectKept
<1>13. QED
  BY <1>2, <1>3, <1>4, <1>5, <1>6, <1>7, <1>8, <1>10, <1>11, <1>12
  DEF Next, CacheRuns, CacheStep, ClientStep

\* No step but an answer gives a transaction a hold it did not have.
LEMMA HoldsKept ==
    ASSUME HI, Next, NEW t \in Trans, NEW s \in Spots, Holds(t, s)'
    PROVE  Holds(t, s) \/ (Receive(t) /\ ForWrite(call[t].op) /\ s = call[t].spot)
<1> USE DEF HI
<1> DEFINE Goal == Holds(t, s) \/ (Receive(t) /\ ForWrite(call[t].op) /\ s = call[t].spot)
<1>1. ASSUME Finishing(t, s)' => Finishing(t, s), spot_cache'[t] \subseteq spot_cache[t]
      PROVE  Goal
  BY <1>1 DEF Holds
<1>2. ASSUME fin' \subseteq fin,
             \/ signal # << >> /\ signal' = Tail(signal)
             \/ \A i \in 1 .. Len(signal') : IsFinish(signal'[i]) =>
                    i \in 1 .. Len(signal) /\ signal'[i] = signal[i]
      PROVE  Finishing(t, s)' => Finishing(t, s)
  BY <1>2, SignalTaken, FinishingIs
<1>3. CASE CacheRuns
  <2>1. spot_cache' = spot_cache
    BY <1>3 DEF CacheRuns, poolVars
  <2>2. CASE AskGetSpot \/ AskCleanSpots
    BY <1>1, <1>2, <2>1, <2>2 DEF AskGetSpot, AskCleanSpots, Receives
  <2>3. CASE AskFinishSpot
    <3> DEFINE m == Head(signal)
    <3>1. signal # << >> /\ signal' = Tail(signal) /\ IsFinish(m)
      BY <2>3 DEF AskFinishSpot, Receives, IsFinish
    <3>2. \A f \in fin' : f \in fin \/ (f.tran = m.tran /\ f.spot = m.spot)
      BY <2>3 DEF AskFinishSpot
    <3>3. 1 \in 1 .. Len(signal) /\ signal[1] = m
      BY <3>1, SignalTaken
    <3> HIDE DEF m
    <3>4. Finishing(t, s)' => Finishing(t, s)
      BY <3>1, <3>2, <3>3, SignalTaken, FinishingIs
    <3>5. QED
      BY <1>1, <2>1, <3>4
  <2>4. CASE ConsCleanSig
    <3>1. \A i \in 1 .. Len(signal') : IsFinish(signal'[i]) =>
              i \in 1 .. Len(signal) /\ signal'[i] = signal[i]
      BY <2>4, SignalSent DEF ConsCleanSig, IsFinish, Signals
    <3>2. fin' = fin
      BY <2>4 DEF ConsCleanSig
    <3>3. QED
      BY <1>1, <1>2, <2>1, <3>1, <3>2
  <2>5. CASE \E u \in Trans : LoadSpot(u) \/ AskForSpot(u)
    <3>1. signal' = signal /\ fin' = fin
      BY <2>5 DEF LoadSpot, AskForSpot
    <3>2. QED
      BY <1>1, <1>2, <2>1, <3>1
  <2>6. CASE \E f \in fin : StoreTheSpot(f) \/ ResetTheSpot(f)
    <3>1. signal' = signal /\ fin' \subseteq fin
      BY <2>6, ReleaseOnly DEF Release
    <3>2. QED
      BY <1>1, <1>2, <2>1, <3>1
  <2>7. QED
    BY <1>3, <2>2, <2>3, <2>4, <2>5, <2>6 DEF CacheRuns, CacheStep
<1>4. ASSUME NEW u \in Trans,
             \/ Begin(u) \/ Begun(u) \/ Commit(u) \/ Rollback(u) \/ End(u) \/ EndUnknown(u) \/ Ended(u)
             \/ Use(u)
      PROVE  Goal
  <2>1. UNCHANGED <<signal, fin, spot_cache>>
    BY <1>4 DEF Begin, Begun, Commit, Rollback, End, EndUnknown, Ended, SendTranSignal, ToBegin,
                ToEnd, ToEndUnknown, GotoReply, cacheVars, poolVars, Use, Touches,
                ExistSpot, ReadSpot, ReadField, WriteField, WriteContext, StoreSpot, DeleteSpot
  <2>2. QED
    BY <1>1, <1>2, <2>1
<1>5. ASSUME NEW u \in Trans, NEW r \in Spots, FinishSpot(u, r)
      PROVE  Goal
  <2>1. /\ r \in spot_cache[u] /\ SendSignal(FinishAsk(u), u, r) /\ fin' = fin
        /\ spot_cache' = [spot_cache EXCEPT ![u] = @ \ {r}]
    BY <1>5 DEF FinishSpot, GotoFinishSpot
  <2> DEFINE m == [ask |-> FinishAsk(u), tran |-> u, spot |-> r]
  <2>2. m \in Signals /\ m.tran = u /\ m.spot = r
    BY DEF FinishAsk, Signals
  <2>3. \A i \in 1 .. Len(signal') :
            \/ i \in 1 .. Len(signal) /\ signal'[i] = signal[i]
            \/ i = Len(signal) + 1 /\ signal'[i] = m
    BY <2>1, <2>2, SignalSent
  <2> HIDE DEF m
  <2>4. Finishing(t, s)' => Finishing(t, s) \/ (t = u /\ s = r)
    BY <2>1, <2>2, <2>3, FinishingIs
  <2>5. spot_cache'[t] \subseteq spot_cache[t]
    BY <2>1 DEF TypeOK, PoolTypeOK
  <2>6. QED
    BY <2>1, <2>4, <2>5 DEF Holds
<1>6. ASSUME NEW u \in Trans, NEW op \in AllowedOps, NEW r \in Spots, CallSpot(u, op, r)
      PROVE  Goal
  <2>1. PICK ask \in {"get", "write"} : SendSignal(ask, u, r)
    BY <1>6 DEF CallSpot
  <2>2. \A i \in 1 .. Len(signal') : IsFinish(signal'[i]) =>
            i \in 1 .. Len(signal) /\ signal'[i] = signal[i]
    <3> DEFINE m == [ask |-> ask, tran |-> u, spot |-> r]
    <3>1. m \in Signals /\ ~IsFinish(m)
      BY DEF Signals, IsFinish
    <3>2. QED
      BY <2>1, <3>1, SignalSent
  <2>3. fin' = fin /\ spot_cache' = spot_cache
    BY <1>6 DEF CallSpot, poolVars
  <2>4. QED
    BY <1>1, <1>2, <2>2, <2>3
<1>7. ASSUME NEW u \in Trans, Receive(u)
      PROVE  Goal
  <2>1. signal' = signal /\ fin' = fin
    BY <1>7 DEF Receive, Reply
  <2>2. Finishing(t, s)' => Finishing(t, s)
    BY <1>2, <2>1
  <2>3. spot_cache'[t] \subseteq spot_cache[t]
            \/ (u = t /\ ForWrite(call[t].op) /\ spot_cache'[t] = spot_cache[t] \cup {call[t].spot})
    BY <1>7 DEF Receive, TypeOK, PoolTypeOK
  <2>4. QED
    BY <1>7, <2>2, <2>3 DEF Holds
<1>8. QED
  BY <1>3, <1>4, <1>5, <1>6, <1>7 DEF Next, ClientStep

\* Where no answer is received nothing is added to a spot_cache.
LEMMA HoldsOf ==
    ASSUME HI, Next, \A t \in Trans : ~Receive(t), NEW u \in Trans, NEW s, s \notin spot_cache[u]
    PROVE  s \notin spot_cache'[u]
<1> USE DEF HI
<1>1. CASE CacheRuns
  BY <1>1 DEF CacheRuns, poolVars
<1>2. ASSUME NEW t \in Trans, ClientStep(t)
      PROVE  spot_cache' = spot_cache \/ \E r : spot_cache' = [spot_cache EXCEPT ![t] = @ \ {r}]
  BY <1>2 DEF ClientStep, Begin, Begun, Commit, Rollback, End, EndUnknown, Ended, SendTranSignal,
              ToBegin, ToEnd, ToEndUnknown, GotoReply, FinishSpot, GotoFinishSpot, CallSpot,
              Use, Touches, ExistSpot, ReadSpot, ReadField, WriteField, WriteContext, StoreSpot, DeleteSpot,
              poolVars
<1>3. QED
  BY <1>1, <1>2 DEF Next, TypeOK, PoolTypeOK

\* Steps that change no occupation and make no object keep every occupier.
LEMMA OccupiedKept ==
    ASSUME HI, Next, Quiet,
           \A t \in Trans : ~Receive(t),
           \A s \in Spots : gen[s] > 0 => gen'[s] = gen[s],
           \A s \in Spots, g \in Gens : obj'[s][g].tran_id = obj[s][g].tran_id,
           \A t \in Trans : call'[t] = call[t] \/ call'[t].pc # "reply"
    PROVE  Occupied'
<1> USE DEF HI, HoldsInvariant
<1>1. ASSUME NEW t \in Trans, NEW s \in Spots, Holds(t, s)'
      PROVE  gen'[s] > 0 /\ obj'[s][gen'[s]].tran_id = t
  <2>1. Holds(t, s)
    BY <1>1, HoldsKept
  <2>2. gen[s] > 0 /\ obj[s][gen[s]].tran_id = t
    BY <2>1 DEF Occupied
  <2>3. gen[s] \in Gens
    BY <2>2, SpotCacheOpAssumption DEF TypeOK, CacheTypeOK, Gens
  <2>4. QED
    BY <2>2, <2>3
<1>2. ASSUME NEW t \in Trans, call'[t].pc = "reply", ForWrite(call'[t].op)
      PROVE  obj'[call'[t].spot][call'[t].gen].tran_id = t
  <2>1. call'[t] = call[t]
    BY <1>2
  <2>2. call[t].spot \in Spots /\ call[t].gen \in Gens
    BY <1>2, <2>1, ServedObject
  <2>3. obj[call[t].spot][call[t].gen].tran_id = t
    BY <1>2, <2>1 DEF Occupied
  <2>4. QED
    BY <2>1, <2>2, <2>3
<1>3. QED
  BY <1>1, <1>2 DEF Occupied

\* A grant makes the caller the occupier, and never takes the spot from one.
LEMMA AskOccupied ==
    ASSUME HI, Next, Quiet, NEW t \in Trans, AskForSpot(t)
    PROVE  Occupied'
<1> USE DEF HI, HoldsInvariant
<1> DEFINE cs == call[t].spot
           cg == call[t].gen
           b  == obj[cs][cg]
           w  == [tran |-> t, forwrite |-> ForWrite(call[t].op)]
           n  == AskToGet(b, w)
<1>1. /\ call[t].pc = "ask"
      /\ obj' = [obj EXCEPT ![cs][cg] = n]
      /\ call' = [call EXCEPT ![t].pc = IF Grants(b, w) THEN "reply" ELSE "wait"]
      /\ gen' = gen
  BY DEF AskForSpot
<1>2. cs \in Spots /\ cg \in Gens /\ cg = gen[cs] /\ b \in SpotCaches
  <2>1. cs \in Spots /\ cg \in Gens /\ cg = gen[cs]
    BY <1>1, ServedObject
  <2>2. QED
    BY <2>1 DEF TypeOK, CacheTypeOK
<1>3. /\ n.tran_id = b.tran_id \/ (n.tran_id = t /\ b.tran_id = NoTran)
      /\ Grants(b, w) /\ ForWrite(call[t].op) => n.tran_id = t
  BY <1>2 DEF AskToGet, Grants, SpotCaches
<1>4. \A s \in Spots, g \in Gens :
          obj'[s][g] = IF s = cs /\ g = cg THEN n ELSE obj[s][g]
  BY <1>1 DEF TypeOK, CacheTypeOK
<1>5. \A u \in Trans : u # t => call'[u] = call[u]
  BY <1>1 DEF TypeOK, CacheTypeOK
<1>6. /\ call'[t].spot = cs /\ call'[t].gen = cg /\ call'[t].op = call[t].op
      /\ call'[t].pc = "reply" => Grants(b, w)
  BY <1>1 DEF TypeOK, CacheTypeOK, Calls
<1> HIDE DEF cs, cg, b, w, n
<1>7. \A u \in Trans, s \in Spots, g \in Gens :
          obj[s][g].tran_id = u => obj'[s][g].tran_id = u
  BY <1>2, <1>3, <1>4, TransAssumption DEF b
<1>8. ASSUME NEW u \in Trans, NEW s \in Spots, Holds(u, s)'
      PROVE  gen'[s] > 0 /\ obj'[s][gen'[s]].tran_id = u
  <2>1. Holds(u, s)
    <3>1. ASSUME Receive(u)
          PROVE  FALSE
      <4>1. call[u].pc = "reply" /\ call'[u].pc \in {"none", "got"}
        BY <3>1, ReceivedOnce
      <4>2. QED
        BY <1>1, <1>5, <4>1
    <3>2. QED
      BY <1>8, <3>1, HoldsKept
  <2>2. gen[s] > 0 /\ obj[s][gen[s]].tran_id = u
    BY <2>1 DEF Occupied
  <2>3. gen[s] \in Gens
    BY <2>2, SpotCacheOpAssumption DEF TypeOK, CacheTypeOK, Gens
  <2>4. QED
    BY <1>1, <1>7, <2>2, <2>3
<1>9. ASSUME NEW u \in Trans, call'[u].pc = "reply", ForWrite(call'[u].op)
      PROVE  obj'[call'[u].spot][call'[u].gen].tran_id = u
  <2>1. CASE u = t
    BY <1>2, <1>3, <1>4, <1>6, <1>9, <2>1
  <2>2. CASE u # t
    <3>1. call'[u] = call[u]
      BY <1>5, <2>2
    <3>2. call[u].spot \in Spots /\ call[u].gen \in Gens
      BY <1>9, <3>1, ServedObject
    <3>3. obj[call[u].spot][call[u].gen].tran_id = u
      BY <1>9, <3>1 DEF Occupied
    <3>4. QED
      BY <1>7, <3>1, <3>2, <3>3
  <2>3. QED
    BY <2>1, <2>2
<1>10. QED
  BY <1>8, <1>9 DEF Occupied

\* A release frees a spot that nobody else holds and no other writer is being
\* told of, and passes it on to the writer it wakes.
LEMMA ReleaseOccupied ==
    ASSUME HI, Next, Quiet, NEW f \in fin, StoreTheSpot(f) \/ ResetTheSpot(f)
    PROVE  Occupied'
<1> USE DEF HI, HoldsInvariant
<1> DEFINE cs == f.spot
           cg == f.gen
           old == obj[cs][cg].wait_line
<1>1. cs \in Spots /\ cg \in Gens /\ f.tran \in Trans /\ UNCHANGED <<gen, signal>>
  BY ReleaseOnly
<1>2. PICK c \in SpotCaches : c.wait_line = old /\ Release(f, c)
  BY ReleaseOnly
<1> DEFINE n == AskToRelease(c)
           w == Woken(c)
<1>3. cg = gen[cs]
  BY DEF OneObjectEach
<1>4. \A s \in Spots, g \in Gens :
          obj'[s][g] = IF s = cs /\ g = cg THEN n ELSE obj[s][g]
  <2>1. obj' = [obj EXCEPT ![cs][cg] = n]
    BY <1>2 DEF Release
  <2> HIDE DEF n
  <2>2. QED
    BY <2>1 DEF TypeOK, CacheTypeOK
<1>5. Holds(f.tran, cs) /\ fate[f.tran] # "open" /\ obj[cs][cg].tran_id = f.tran
  <2>1. Finishing(f.tran, cs)
    BY FinishingIs
  <2>2. QED
    BY <1>1, <1>3, <2>1 DEF Holds, ReleasedOnce, Occupied
<1>6. ASSUME NEW u \in Trans, Receive(u)
      PROVE  FALSE
  <2>1. call[u].pc = "reply" /\ call'[u].pc \in {"none", "got"}
    BY <1>6, ReceivedOnce
  <2>2. w # NoTran => call[w].pc = "wait"
    BY <1>1, <1>2, WokenWaits
  <2>3. call'[u] = call[u]
    BY <1>2, <2>1, <2>2 DEF Release
  <2>4. QED
    BY <2>1, <2>3
<1>7. \A u \in Trans : ~Holds(u, cs)'
  <2>1. ~Holds(f.tran, cs)'
    <3>1. cs \notin spot_cache'[f.tran]
      <4>1. Finishing(f.tran, cs)
        BY FinishingIs
      <4>2. cs \notin spot_cache[f.tran]
        BY <1>1, <4>1 DEF ReleasedOnce
      <4>3. QED
        BY <1>1, <1>6, <4>2, HoldsOf
    <3>2. \A i \in 1 .. Len(signal) : ~(IsFinish(signal[i]) /\ signal[i].tran = f.tran /\ signal[i].spot = cs)
      BY DEF ReleasedOnce
    <3>3. fin' = fin \ {f}
      BY <1>2 DEF Release
    <3>4. \A h \in fin' : ~(h.tran = f.tran /\ h.spot = cs)
      BY <3>3 DEF ReleasedOnce
    <3>5. ~Finishing(f.tran, cs)'
      BY <1>1, <3>2, <3>4, FinishingIs
    <3>6. QED
      BY <3>1, <3>5 DEF Holds
  <2>2. ASSUME NEW u \in Trans, u # f.tran, Holds(u, cs)'
        PROVE  FALSE
    <3>1. Holds(u, cs)
      BY <1>1, <1>6, <2>2, HoldsKept
    <3>2. QED
      BY <1>1, <1>3, <1>5, <2>2, <3>1 DEF Occupied
  <2>3. QED
    BY <2>1, <2>2
<1>8. ASSUME NEW u \in Trans, NEW s \in Spots, Holds(u, s)'
      PROVE  gen'[s] > 0 /\ obj'[s][gen'[s]].tran_id = u
  <2>1. s # cs /\ Holds(u, s)
    BY <1>6, <1>7, <1>8, HoldsKept
  <2>2. gen[s] > 0 /\ obj[s][gen[s]].tran_id = u
    BY <2>1 DEF Occupied
  <2>3. gen[s] \in Gens
    BY <2>2, SpotCacheOpAssumption DEF TypeOK, CacheTypeOK, Gens
  <2>4. QED
    BY <1>1, <1>4, <2>1, <2>2, <2>3
<1>9. ASSUME NEW u \in Trans, call'[u].pc = "reply", ForWrite(call'[u].op)
      PROVE  obj'[call'[u].spot][call'[u].gen].tran_id = u
  <2>1. CASE w # NoTran /\ u = w
    <3>1. /\ old # << >> /\ w = old[1].tran
          /\ call[w].pc = "wait" /\ call[w].spot = cs /\ call[w].gen = cg
      BY <1>1, <1>2, <2>1, WokenWaits
    <3>2. call'[w].spot = cs /\ call'[w].gen = cg /\ call'[w].op = call[w].op
      BY <1>2, <2>1, <3>1 DEF Release, TypeOK, CacheTypeOK, Calls
    <3>3. old \in Seq(Ticket)
      BY <1>1, PlacesTyped
    <3>4. 1 \in 1 .. Len(old) /\ Head(old) = old[1]
      BY <3>1, <3>3, Taken
    <3>5. old[1].forwrite = ForWrite(call[w].op)
      <4>1. Awaited(old, cs, cg, call)
        BY <1>1 DEF PlacesAwaited
      <4> HIDE DEF old, w, n
      <4>2. QED
        BY <3>1, <3>4, <4>1 DEF Awaited
    <3>6. n.tran_id = w
      BY <1>2, <1>9, <2>1, <3>1, <3>2, <3>4, <3>5 DEF AskToRelease, SpotCaches
    <3> HIDE DEF n, w
    <3>7. QED
      BY <1>1, <1>4, <2>1, <3>2, <3>6
  <2>2. CASE ~(w # NoTran /\ u = w)
    <3>1. call'[u] = call[u]
      BY <1>2, <2>2 DEF Release, TypeOK, CacheTypeOK
    <3>2. call[u].spot \in Spots /\ call[u].gen \in Gens
      BY <1>9, <3>1, ServedObject
    <3>3. obj[call[u].spot][call[u].gen].tran_id = u
      BY <1>9, <3>1 DEF Occupied
    <3>4. fate[u] = "open"
      BY <1>9, <3>1 DEF OneThingAtATime
    <3>5. ~(call[u].spot = cs /\ call[u].gen = cg)
      BY <1>5, <3>3, <3>4
    <3> HIDE DEF n, w
    <3>6. QED
      BY <1>4, <3>1, <3>2, <3>3, <3>5
  <2>3. QED
    BY <2>1, <2>2
<1>10. QED
  BY <1>8, <1>9 DEF Occupied
\* Who receives a spot for writing has occupied it since it was told so.
LEMMA ReceiveOccupied ==
    ASSUME HI, Next, Quiet, NEW t \in Trans, Receive(t)
    PROVE  Occupied'
<1> USE DEF HI, HoldsInvariant
<1>1. UNCHANGED <<gen, obj>>
  BY DEF Receive, Reply
<1>2. ASSUME NEW u \in Trans, NEW s \in Spots, Holds(u, s)'
      PROVE  gen'[s] > 0 /\ obj'[s][gen'[s]].tran_id = u
  <2>1. CASE Holds(u, s)
    BY <1>1, <2>1 DEF Occupied
  <2>2. CASE Receive(u) /\ ForWrite(call[u].op) /\ s = call[u].spot
    <3>1. call[u].pc = "reply"
      BY <2>2, ReceivedOnce
    <3>2. obj[s][call[u].gen].tran_id = u
      BY <2>2, <3>1 DEF Occupied
    <3>3. gen[s] > 0 /\ call[u].gen = gen[s]
      BY <2>2, <3>1 DEF OneObjectEach
    <3>4. QED
      BY <1>1, <3>2, <3>3
  <2>3. QED
    BY <1>2, <2>1, <2>2, HoldsKept
<1>3. ASSUME NEW u \in Trans, call'[u].pc = "reply", ForWrite(call'[u].op)
      PROVE  obj'[call'[u].spot][call'[u].gen].tran_id = u
  <2>1. call'[u] = call[u]
    BY <1>3, ReceivedOnce
  <2>2. QED
    BY <1>1, <1>3, <2>1 DEF Occupied
<1>4. QED
  BY <1>2, <1>3 DEF Occupied

\* A step that only starts or ends what no answer has been sent for keeps
\* every occupier.
LEMMA CallsOccupied ==
    ASSUME HI, Next, Quiet, NEW t \in Trans,
           \A s \in Spots : gen[s] > 0 => gen'[s] = gen[s],
           \A s \in Spots, g \in Gens : obj'[s][g].tran_id = obj[s][g].tran_id,
           \A u \in Trans : u # t => call'[u] = call[u],
           call'[t] = call[t] \/ (call[t].pc # "reply" /\ call'[t].pc # "reply")
    PROVE  Occupied'
<1>1. ASSUME NEW u \in Trans, Receive(u)
      PROVE  FALSE
  <2>1. call[u].pc = "reply" /\ call'[u].pc \in {"none", "got"}
    BY <1>1, ReceivedOnce
  <2>2. QED
    BY <2>1
<1>2. QED
  BY <1>1, OccupiedKept

\* So does a step that changes neither calls nor objects.
LEMMA TransOccupied ==
    ASSUME HI, Next, Quiet, UNCHANGED <<gen, obj, call>>
    PROVE  Occupied'
<1>1. ASSUME NEW u \in Trans, Receive(u)
      PROVE  FALSE
  <2>1. call[u].pc = "reply" /\ call'[u].pc \in {"none", "got"}
    BY <1>1, ReceivedOnce
  <2>2. QED
    BY <2>1
<1>2. QED
  BY <1>1, OccupiedKept

\* Occupied is kept by every step before which no cleaning was due.
LEMMA OccupiedNext == HI /\ Next /\ Quiet' => Occupied'
<1> SUFFICES ASSUME HI, Next, Quiet'
             PROVE  Occupied'
  OBVIOUS
<1> USE DEF HI, HoldsInvariant
<1>1. Quiet /\ OneObjectEach
  BY QuietBefore
<1>2. ~crashed /\ call \in [Trans -> Calls]
  BY DEF Next, TypeOK, CacheTypeOK
<1>3. CASE AskGetSpot
  <2> DEFINE m == Head(signal)
             g == IF cached[m.spot] THEN gen[m.spot] ELSE gen[m.spot] + 1
  <2>1. /\ gen' = [gen EXCEPT ![m.spot] = g]
        /\ call' = [call EXCEPT ![m.tran].pc = "load", ![m.tran].gen = g]
        /\ obj' = obj
        /\ signal # << >> /\ IsAsk(m)
    BY <1>3 DEF AskGetSpot, Receives, IsAsk
  <2>2. m \in Signals /\ 1 \in 1 .. Len(signal) /\ signal[1] = m
    <3>1. signal \in Seq(Signals)
      BY DEF TypeOK, CacheTypeOK
    <3>2. QED
      BY <2>1, <3>1, Taken
  <2>3. m.tran \in Trans /\ m.spot \in Spots
    BY <2>1, <2>2 DEF Signals, IsAsk
  <2>4. call[m.tran].pc = "signalled"
    BY <2>1, <2>2 DEF AsksAwaited
  <2>5. \A s \in Spots : gen[s] > 0 => gen'[s] = gen[s]
    BY <1>1, <2>1, <2>3 DEF OneObjectEach, TypeOK, CacheTypeOK
  <2> HIDE DEF m, g
  <2>6. call'[m.tran].pc = "load" /\ \A u \in Trans : u # m.tran => call'[u] = call[u]
    BY <1>2, <2>1, <2>3 DEF Calls
  <2>7. QED
    BY <1>1, <2>1, <2>3, <2>4, <2>5, <2>6, CallsOccupied
<1>4. CASE AskFinishSpot \/ AskCleanSpots \/ ConsCleanSig
  <2>1. UNCHANGED <<gen, obj, call>>
    BY <1>4 DEF AskFinishSpot, AskCleanSpots, ConsCleanSig
  <2>2. QED
    BY <1>1, <2>1, TransOccupied
<1>5. ASSUME NEW t \in Trans, LoadSpot(t)
      PROVE  Occupied'
  <2>1. gen' = gen /\ call[t].pc = "load"
    BY <1>5 DEF LoadSpot
  <2>2. \A s \in Spots, g \in Gens : obj'[s][g].tran_id = obj[s][g].tran_id
    BY <1>5, ObjectKept
  <2>3. \E re \in {"ok", "empty", "error"} :
            call' = [call EXCEPT ![t].pc = "ask", ![t].re = re]
    BY <1>5 DEF LoadSpot
  <2>4. call'[t].pc = "ask" /\ \A u \in Trans : u # t => call'[u] = call[u]
    BY <1>2, <2>3 DEF Calls
  <2>5. QED
    BY <1>1, <2>1, <2>2, <2>4, CallsOccupied
<1>6. ASSUME NEW t \in Trans, Use(t)
      PROVE  Occupied'
  <2>1. gen' = gen /\ call[t].pc = "got" /\ call' = [call EXCEPT ![t] = NoCall]
    BY <1>6 DEF Use, Touches, Answered, ExistSpot, ReadSpot, ReadField, WriteField, WriteContext, StoreSpot,
                DeleteSpot
  <2>2. \A s \in Spots, g \in Gens : obj'[s][g].tran_id = obj[s][g].tran_id
    BY <1>6, ObjectKept
  <2>3. call'[t].pc = "none" /\ \A u \in Trans : u # t => call'[u] = call[u]
    BY <1>2, <2>1 DEF NoCall
  <2>4. QED
    BY <1>1, <2>1, <2>2, <2>3, CallsOccupied
<1>7. ASSUME NEW t \in Trans, NEW op \in AllowedOps, NEW s \in Spots, CallSpot(t, op, s)
      PROVE  Occupied'
  <2>1. /\ UNCHANGED <<gen, obj>> /\ client[t] = "idle"
        /\ call' = [call EXCEPT ![t] = NewCall(op, s)]
    BY <1>7 DEF CallSpot
  <2>2. call'[t].pc = "signalled" /\ \A u \in Trans : u # t => call'[u] = call[u]
    BY <1>2, <2>1 DEF NewCall
  <2>3. call[t].pc # "reply"
    BY <2>1 DEF OneThingAtATime
  <2>4. QED
    BY <1>1, <2>1, <2>2, <2>3, CallsOccupied
<1>8. ASSUME NEW t \in Trans,
             \/ Begin(t) \/ Begun(t) \/ Commit(t) \/ Rollback(t) \/ End(t) \/ EndUnknown(t) \/ Ended(t)
             \/ \E s \in Spots : FinishSpot(t, s)
      PROVE  Occupied'
  <2>1. UNCHANGED <<gen, obj, call>>
    BY <1>8 DEF Begin, Begun, Commit, Rollback, End, EndUnknown, Ended, FinishSpot,
                GotoFinishSpot, cacheVars
  <2>2. QED
    BY <1>1, <2>1, TransOccupied
<1>9. QED
  BY <1>1, <1>3, <1>4, <1>5, <1>6, <1>7, <1>8, AskOccupied, ReleaseOccupied, ReceiveOccupied
  DEF Next, CacheRuns, CacheStep, ClientStep

\* The invariant is inductive.
LEMMA HoldsNext == HI /\ [Next]_vars => HoldsInvariant'
<1> SUFFICES ASSUME HI, [Next]_vars
             PROVE  HoldsInvariant'
  OBVIOUS
<1>1. CASE Next
  BY <1>1, OneThingAtATimeNext, AsksAwaitedNext, PlacesAwaitedNext, ReleasedOnceNext,
     OneObjectEachNext, OccupiedNext DEF HoldsInvariant
<1>2. CASE UNCHANGED vars
  <2>1. /\ HoldsInvariant
        /\ UNCHANGED <<gen, cached, obj, signal, call, fin, clean_count, cleaners>>
        /\ UNCHANGED <<tsignal, fate, spot_cache, going, client>>
    BY <1>2 DEF HI, vars, cacheVars, poolVars, clientVars
  <2>2. OneThingAtATime'
    BY <2>1 DEF HoldsInvariant, OneThingAtATime
  <2>3. AsksAwaited'
    BY <2>1 DEF HoldsInvariant, AsksAwaited
  <2>4. PlacesAwaited'
    BY <2>1 DEF HoldsInvariant, PlacesAwaited
  <2>5. ReleasedOnce'
    BY <2>1 DEF HoldsInvariant, ReleasedOnce, Finishing
  <2>6. Quiet' => OneObjectEach' /\ Occupied'
    BY <2>1 DEF HoldsInvariant, OneObjectEach, Occupied, Quiet, Holds, Finishing
  <2>7. QED
    BY <2>2, <2>3, <2>4, <2>5, <2>6 DEF HoldsInvariant
<1>3. QED
  BY <1>1, <1>2

\* Each hold on a spot and each wait for one is recorded in exactly one place,
\* in every behaviour of the spot cache, the pool and their clients: the
\* bookkeeping of askToGet, getSpot, gotoCommit and askToRelease never loses a
\* hold or a wait, and never doubles one.
THEOREM HoldsCorrect == Spec => []HoldsInvariant
<1>1. Init => HI
  BY InitType, InitHolds DEF HI
<1>2. HI /\ [Next]_vars => HI'
  BY NextType, HoldsNext DEF HI
<1>3. HI => HoldsInvariant
  BY DEF HI
<1>4. QED
  BY <1>1, <1>2, <1>3, PTL DEF Spec

\* A spot taken for writing stays occupied by its transaction, whatever the
\* number of transactions, spots, calls and places in the channels, until its
\* store or reset has been carried out (askToGet, askToRelease, gotoCommit,
\* gotoRollback), as long as no cleaning is due.
THEOREM Occupation == Spec => []OccupiedByHolder
<1>1. HoldsInvariant => OccupiedByHolder
  BY DEF HoldsInvariant, Occupied, OccupiedByHolder
<1>2. QED
  BY <1>1, HoldsCorrect, PTL

----------------------------------------------------------------------------
(* WaitersQueued.  PlacesAwaited (of HoldsInvariant) says that each place  *)
(* in a queue is that of a goroutine which waits there; what is left to    *)
(* show is the converse, that each goroutine which waits has a place.      *)
(* Both hold after cleaning as well.                                       *)

\* The queue of the object that the goroutine of t's call works on.
Line(t) == obj[call[t].spot][call[t].gen].wait_line

\* A call that has been dispatched works on an object.
Dispatched ==
    \A t \in Trans : call[t].pc \notin {"none", "signalled"} =>
        call[t].spot \in Spots /\ call[t].gen \in Gens

\* A call that waits has a place in the queue of that object.
WaitsInLine ==
    \A t \in Trans : call[t].pc = "wait" =>
        \E i \in 1 .. Len(Line(t)) : Line(t)[i].tran = t

WI == HI /\ Dispatched /\ WaitsInLine

\* The steps that queue nobody and wake nobody.
LEMMA LinesKept ==
    ASSUME WI,
           \A s \in Spots, g \in Gens : obj'[s][g].wait_line = obj[s][g].wait_line,
           \A t \in Trans :
              \/ call'[t] = call[t]
              \/ /\ call'[t].pc # "wait"
                 /\ call'[t].pc \notin {"none", "signalled"} =>
                        call'[t].spot \in Spots /\ call'[t].gen \in Gens
    PROVE  Dispatched' /\ WaitsInLine'
<1>1. Dispatched'
  BY DEF WI, Dispatched
<1>2. ASSUME NEW t \in Trans, call'[t].pc = "wait"
      PROVE  \E i \in 1 .. Len(Line(t)') : Line(t)'[i].tran = t
  <2>1. call'[t] = call[t] /\ call[t].spot \in Spots /\ call[t].gen \in Gens
    BY <1>2 DEF WI, Dispatched
  <2>2. Line(t)' = Line(t)
    BY <2>1 DEF Line
  <2>3. \E i \in 1 .. Len(Line(t)) : Line(t)[i].tran = t
    BY <1>2, <2>1 DEF WI, WaitsInLine
  <2>4. QED
    BY <2>2, <2>3
<1>3. QED
  BY <1>1, <1>2 DEF WaitsInLine

\* A call that asks for its spot is answered, or joins the end of the queue.
LEMMA AskWaits ==
    ASSUME WI, NEW t \in Trans, AskForSpot(t)
    PROVE  Dispatched' /\ WaitsInLine'
<1> DEFINE cs == call[t].spot
           cg == call[t].gen
           b  == obj[cs][cg]
           w  == [tran |-> t, forwrite |-> ForWrite(call[t].op)]
           n  == AskToGet(b, w)
<1>1. /\ call[t].pc = "ask"
      /\ obj' = [obj EXCEPT ![cs][cg] = n]
      /\ call' = [call EXCEPT ![t].pc = IF Grants(b, w) THEN "reply" ELSE "wait"]
  BY DEF AskForSpot
<1>2. HI /\ call \in [Trans -> Calls] /\ obj \in [Spots -> [Gens -> SpotCaches]]
  BY DEF WI, HI, TypeOK, CacheTypeOK
<1>3. cs \in Spots /\ cg \in Gens
  BY <1>1 DEF WI, Dispatched
<1>4. /\ call'[t].spot = cs /\ call'[t].gen = cg
      /\ call'[t].pc = IF Grants(b, w) THEN "reply" ELSE "wait"
      /\ \A u \in Trans : u # t => call'[u] = call[u]
  BY <1>1, <1>2 DEF Calls
<1>5. \A s \in Spots, g \in Gens :
          obj'[s][g] = IF s = cs /\ g = cg THEN n ELSE obj[s][g]
  BY <1>1, <1>2
<1>6. b \in SpotCaches /\ b.wait_line \in Seq(Ticket) /\ w \in Ticket
  <2>1. b \in SpotCaches
    BY <1>2, <1>3
  <2>2. w \in Ticket
    BY DEF Ticket, ForWrite
  <2>3. QED
    BY <2>1, <2>2 DEF SpotCaches
<1>7. Dispatched'
  BY <1>3, <1>4 DEF WI, Dispatched
<1>8. CASE Grants(b, w)
  <2>1. n.wait_line = b.wait_line
    BY <1>6, <1>8 DEF AskToGet, SpotCaches
  <2>2. \A s \in Spots, g \in Gens : obj'[s][g].wait_line = obj[s][g].wait_line
    BY <1>5, <2>1
  <2>3. \A u \in Trans :
            call'[u] = call[u] \/ (call'[u].pc # "wait" /\ call'[u].spot \in Spots /\ call'[u].gen \in Gens)
    BY <1>3, <1>4, <1>8
  <2>4. QED
    BY <2>2, <2>3, LinesKept
<1>9. CASE ~Grants(b, w)
  <2>1. n.wait_line = Append(b.wait_line, w)
    BY <1>6, <1>9 DEF AskToGet, SpotCaches
  <2>2. /\ \A i \in 1 .. Len(b.wait_line) :
              i \in 1 .. Len(n.wait_line) /\ n.wait_line[i] = b.wait_line[i]
        /\ \E i \in 1 .. Len(n.wait_line) : n.wait_line[i] = w
    <3> DEFINE q == b.wait_line
    <3>1. q \in Seq(Ticket) /\ w \in Ticket /\ n.wait_line = Append(q, w)
      BY <1>6, <2>1
    <3> HIDE DEF n, w, q
    <3>2. /\ \A i \in 1 .. Len(q) : i \in 1 .. Len(n.wait_line) /\ n.wait_line[i] = q[i]
          /\ Len(q) + 1 \in 1 .. Len(n.wait_line) /\ n.wait_line[Len(q) + 1] = w
      BY <3>1, Added
    <3>3. QED
      BY <3>2 DEF q
  <2>3. w.tran = t /\ b = obj[cs][cg]
    OBVIOUS
  <2> HIDE DEF n, w, b, cs, cg
  <2>4. ASSUME NEW u \in Trans, call'[u].pc = "wait"
        PROVE  \E i \in 1 .. Len(Line(u)') : Line(u)'[i].tran = u
    <3>1. CASE u = t
      <4>1. Line(u)' = n.wait_line
        BY <1>3, <1>4, <1>5, <3>1 DEF Line
      <4>2. QED
        BY <2>2, <2>3, <3>1, <4>1
    <3>2. CASE u # t
      <4>1. call'[u] = call[u] /\ call[u].spot \in Spots /\ call[u].gen \in Gens
        BY <1>4, <2>4, <3>2 DEF WI, Dispatched
      <4>2. PICK i \in 1 .. Len(Line(u)) : Line(u)[i].tran = u
        BY <2>4, <4>1 DEF WI, WaitsInLine
      <4>3. Line(u)' = IF call[u].spot = cs /\ call[u].gen = cg THEN n.wait_line ELSE Line(u)
        BY <1>5, <4>1 DEF Line
      <4>4. call[u].spot = cs /\ call[u].gen = cg => Line(u) = b.wait_line
        BY <2>3 DEF Line
      <4>5. i \in 1 .. Len(Line(u)') /\ Line(u)'[i] = Line(u)[i]
        BY <2>2, <4>2, <4>3, <4>4
      <4>6. QED
        BY <4>2, <4>5
    <3>3. QED
      BY <3>1, <3>2
  <2>5. QED
    BY <1>7, <2>4 DEF WaitsInLine
<1>10. QED
  BY <1>8, <1>9

\* A release takes the place of the one it wakes, and nobody else's.
LEMMA ReleaseWaits ==
    ASSUME WI, NEW f \in fin, StoreTheSpot(f) \/ ResetTheSpot(f)
    PROVE  Dispatched' /\ WaitsInLine'
<1> DEFINE cs == f.spot
           cg == f.gen
           old == obj[cs][cg].wait_line
<1>1. HI /\ call \in [Trans -> Calls] /\ obj \in [Spots -> [Gens -> SpotCaches]]
  BY DEF WI, HI, TypeOK, CacheTypeOK
<1>2. cs \in Spots /\ cg \in Gens
  BY <1>1, ReleaseOnly
<1>3. PICK c \in SpotCaches : c.wait_line = old /\ Release(f, c)
  BY <1>1, ReleaseOnly
<1> DEFINE n == AskToRelease(c)
           w == Woken(c)
<1>4. \A s \in Spots, g \in Gens :
          obj'[s][g] = IF s = cs /\ g = cg THEN n ELSE obj[s][g]
  <2>1. obj' = [obj EXCEPT ![cs][cg] = n]
    BY <1>3 DEF Release
  <2> HIDE DEF n
  <2>2. QED
    BY <1>1, <2>1
<1>5. old \in Seq(Ticket)
  BY <1>1, <1>2, PlacesTyped
<1>6. CASE old = << >>
  <2>1. n.wait_line = old /\ call' = call
    BY <1>3, <1>6 DEF AskToRelease, SpotCaches, Release, Woken
  <2>2. \A s \in Spots, g \in Gens : obj'[s][g].wait_line = obj[s][g].wait_line
    BY <1>4, <2>1
  <2>3. QED
    BY <2>1, <2>2, LinesKept
<1>7. CASE old # << >>
  <2>1. /\ Head(old) \in Ticket /\ old[1] = Head(old) /\ w = Head(old).tran
        /\ Tail(old) \in Seq(Ticket) /\ Len(Tail(old)) = Len(old) - 1
    BY <1>3, <1>5, <1>7, Taken DEF Woken
  <2>2. w \in Trans /\ w # NoTran
    BY <2>1, TransAssumption DEF Ticket
  <2>3. call[w].pc = "wait" /\ call[w].spot = cs /\ call[w].gen = cg
    BY <1>1, <1>2, <1>3, <2>2, WokenWaits
  <2>4. /\ \A u \in Trans : u # w => call'[u] = call[u]
        /\ call'[w].pc = "reply" /\ call'[w].spot = cs /\ call'[w].gen = cg
    BY <1>1, <1>3, <2>2, <2>3 DEF Release, Calls
  <2>5. n.wait_line = Tail(old)
    BY <1>3, <1>7 DEF AskToRelease, SpotCaches
  <2>6. \A i \in 1 .. Len(old) : i # 1 =>
            i - 1 \in 1 .. Len(Tail(old)) /\ Tail(old)[i - 1] = old[i]
    BY <1>5, <1>7
  <2> HIDE DEF w, n
  <2>7. Dispatched'
    BY <1>2, <2>4 DEF WI, Dispatched
  <2>8. ASSUME NEW u \in Trans, call'[u].pc = "wait"
        PROVE  \E i \in 1 .. Len(Line(u)') : Line(u)'[i].tran = u
    <3>1. u # w /\ call'[u] = call[u] /\ call[u].spot \in Spots /\ call[u].gen \in Gens
      BY <2>4, <2>8 DEF WI, Dispatched
    <3>2. PICK i \in 1 .. Len(Line(u)) : Line(u)[i].tran = u
      BY <2>8, <3>1 DEF WI, WaitsInLine
    <3>3. Line(u)' = IF call[u].spot = cs /\ call[u].gen = cg THEN n.wait_line ELSE Line(u)
      BY <1>4, <3>1 DEF Line
    <3>4. call[u].spot = cs /\ call[u].gen = cg => Line(u) = old
      BY DEF Line
    <3> HIDE DEF old, cs, cg
    <3>5. CASE call[u].spot = cs /\ call[u].gen = cg
      <4>1. i \in 1 .. Len(old) /\ i # 1 /\ old[i].tran = u /\ Line(u)' = Tail(old)
        BY <2>1, <2>5, <3>1, <3>2, <3>3, <3>4, <3>5
      <4>2. i - 1 \in 1 .. Len(Line(u)') /\ Line(u)'[i - 1].tran = u
        BY <2>6, <4>1
      <4>3. QED
        BY <4>2
    <3>6. CASE ~(call[u].spot = cs /\ call[u].gen = cg)
      BY <3>2, <3>3, <3>6
    <3>7. QED
      BY <3>5, <3>6
  <2>9. QED
    BY <2>7, <2>8 DEF WaitsInLine
<1>8. QED
  BY <1>6, <1>7

LEMMA WaitsNext == WI /\ Next => Dispatched' /\ WaitsInLine'
<1> SUFFICES ASSUME WI, Next PROVE Dispatched' /\ WaitsInLine'
  OBVIOUS
<1>1. HI /\ call \in [Trans -> Calls] /\ Dispatched
  BY DEF WI, HI, TypeOK, CacheTypeOK
<1>2. CASE AskGetSpot
  <2> DEFINE m == Head(signal)
             g == IF cached[m.spot] THEN gen[m.spot] ELSE gen[m.spot] + 1
  <2>1. signal # << >> /\ signal' = Tail(signal) /\ IsAsk(m)
    BY <1>2 DEF AskGetSpot, Receives, IsAsk
  <2>2. m.tran \in Trans /\ m.spot \in Spots /\ call[m.tran].pc = "signalled" /\ call[m.tran].spot = m.spot
    BY <1>1, <2>1, SignalTaken, SignalsTyped DEF HI, HoldsInvariant, AsksAwaited
  <2>3. /\ g <= MaxGen /\ obj' = obj
        /\ call' = [call EXCEPT ![m.tran].pc = "load", ![m.tran].gen = g]
    BY <1>2 DEF AskGetSpot
  <2>4. g \in Gens
    BY <1>1, <2>2, <2>3, SpotCacheOpAssumption DEF HI, TypeOK, CacheTypeOK, Gens
  <2> HIDE DEF m, g
  <2>5. /\ \A t \in Trans : t # m.tran => call'[t] = call[t]
        /\ call'[m.tran].pc = "load" /\ call'[m.tran].gen = g /\ call'[m.tran].spot = m.spot
    BY <1>1, <2>2, <2>3 DEF Calls
  <2>6. QED
    BY <2>2, <2>3, <2>4, <2>5, LinesKept
<1>3. ASSUME NEW t \in Trans, LoadSpot(t)
      PROVE  Dispatched' /\ WaitsInLine'
  <2>1. PICK re \in {"ok", "empty", "error"} : call' = [call EXCEPT ![t].pc = "ask", ![t].re = re]
    BY <1>3 DEF LoadSpot
  <2>2. call'[t].pc = "ask" /\ UNCHANGED <<call[t].spot, call[t].gen>>
        /\ \A u \in Trans : u # t => call'[u] = call[u]
    BY <1>1, <2>1 DEF Calls
  <2>3. call[t].spot \in Spots /\ call[t].gen \in Gens
    BY <1>1, <1>3 DEF LoadSpot, Dispatched
  <2>4. \A s \in Spots, g \in Gens : obj'[s][g].wait_line = obj[s][g].wait_line
    BY <1>1, <1>3, ObjectKept
  <2>5. QED
    BY <2>2, <2>3, <2>4, LinesKept
<1>4. ASSUME NEW t \in Trans, Use(t)
      PROVE  Dispatched' /\ WaitsInLine'
  <2>1. call'[t].pc = "none" /\ \A u \in Trans : u # t => call'[u] = call[u]
    BY <1>1, <1>4, UsedOnce DEF NoCall
  <2>2. \A s \in Spots, g \in Gens : obj'[s][g].wait_line = obj[s][g].wait_line
    BY <1>1, <1>4, ObjectKept
  <2>3. QED
    BY <2>1, <2>2, LinesKept
<1>5. ASSUME NEW t \in Trans, Receive(t)
      PROVE  Dispatched' /\ WaitsInLine'
  <2>1. obj' = obj /\ call[t].pc = "reply"
    BY <1>5 DEF Receive, Reply
  <2>2. \A u \in Trans : u # t => call'[u] = call[u]
    BY <1>1, <1>5, ReceivedOnce
  <2>3. \/ call'[t].pc = "none"
        \/ call'[t].pc = "got" /\ call'[t].spot = call[t].spot /\ call'[t].gen = call[t].gen
    BY <1>1, <1>5 DEF Receive, NoCall, Calls
  <2>4. call[t].spot \in Spots /\ call[t].gen \in Gens
    BY <1>1, <2>1 DEF Dispatched
  <2>5. QED
    BY <2>1, <2>2, <2>3, <2>4, LinesKept
<1>6. ASSUME NEW t \in Trans, NEW op \in AllowedOps, NEW s \in Spots, CallSpot(t, op, s)
      PROVE  Dispatched' /\ WaitsInLine'
  <2>1. obj' = obj /\ call' = [call EXCEPT ![t] = NewCall(op, s)]
    BY <1>6 DEF CallSpot
  <2>2. call'[t].pc = "signalled" /\ \A u \in Trans : u # t => call'[u] = call[u]
    BY <1>1, <2>1 DEF NewCall
  <2>3. QED
    BY <2>1, <2>2, LinesKept
<1>7. CASE AskFinishSpot \/ AskCleanSpots \/ ConsCleanSig
  <2>1. UNCHANGED <<obj, call>>
    BY <1>7 DEF AskFinishSpot, AskCleanSpots, ConsCleanSig
  <2>2. QED
    BY <2>1, LinesKept
<1>8. ASSUME NEW t \in Trans,
             \/ Begin(t) \/ Begun(t) \/ Commit(t) \/ Rollback(t) \/ End(t) \/ EndUnknown(t) \/ Ended(t)
             \/ \E s \in Spots : FinishSpot(t, s)
      PROVE  Dispatched' /\ WaitsInLine'
  <2>1. UNCHANGED <<obj, call>>
    BY <1>8 DEF Begin, Begun, Commit, Rollback, End, EndUnknown, Ended, FinishSpot,
                GotoFinishSpot, cacheVars
  <2>2. QED
    BY <2>1, LinesKept
<1>9. QED
  BY <1>2, <1>3, <1>4, <1>5, <1>6, <1>7, <1>8, AskWaits, ReleaseWaits
  DEF Next, CacheRuns, CacheStep, ClientStep

----------------------------------------------------------------------------

\* A queue is never longer than there are transactions.
LEMMA LineBounded ==
    ASSUME HI, IsFiniteSet(Trans), NEW s \in Spots, NEW g \in Gens
    PROVE  Len(obj[s][g].wait_line) <= Cardinality(Trans)
<1> DEFINE line == obj[s][g].wait_line
           f == [i \in 1 .. Len(line) |-> line[i].tran]
<1>1. line \in Seq(Ticket) /\ \A i \in 1 .. Len(line) : line[i].tran \in Trans
  BY PlacesTyped
<1>2. \A i, j \in 1 .. Len(line) : line[i].tran = line[j].tran => i = j
  BY DEF HI, HoldsInvariant, PlacesAwaited, Awaited
<1>3. Len(line) \in Nat
  BY <1>1
<1> HIDE DEF line
<1>4. f \in Injection(1 .. Len(line), Trans)
  BY <1>1, <1>2 DEF Injection, IsInjective
<1>5. Cardinality(1 .. Len(line)) <= Cardinality(Trans)
  BY <1>4, FS_Injection
<1>6. Cardinality(1 .. Len(line)) = IF 1 > Len(line) THEN 0 ELSE Len(line) - 1 + 1
  BY <1>3, FS_Interval
<1>7. Cardinality(Trans) \in Nat
  BY FS_CardinalityType
<1>8. QED
  BY <1>3, <1>5, <1>6, <1>7 DEF line

\* The parts together give the property.
LEMMA PlacesGiveWaiters == ASSUME WI, IsFiniteSet(Trans) PROVE WaitersQueued
<1> DEFINE N == Cardinality(Trans)
<1>1. HI /\ \A s \in Spots, g \in Gens : Awaited(obj[s][g].wait_line, s, g, call)
  BY DEF WI, HI, HoldsInvariant, PlacesAwaited
<1>2. ASSUME NEW t \in Trans, NEW p \in Tickets(t)
      PROVE  /\ p[1] \in Spots /\ p[2] \in Gens /\ p[3] \in 1 .. N /\ p = <<p[1], p[2], p[3]>>
             /\ p[3] \in 1 .. Len(obj[p[1]][p[2]].wait_line)
             /\ obj[p[1]][p[2]].wait_line[p[3]].tran = t
  <2>1. obj[p[1]][p[2]].wait_line \in Seq(Ticket)
    BY <1>1, <1>2, PlacesTyped DEF Tickets
  <2>2. Len(obj[p[1]][p[2]].wait_line) \in Nat
    BY <2>1
  <2>3. QED
    BY <1>2, <2>2 DEF Tickets
<1>3. ASSUME NEW t \in Trans, NEW p \in Tickets(t)
      PROVE  call[t].pc = "wait" /\ call[t].spot = p[1] /\ call[t].gen = p[2]
  BY <1>1, <1>2, <1>3 DEF Awaited
<1>4. ASSUME NEW t \in Trans, call[t].pc = "wait"
      PROVE  \E i \in 1 .. N : Tickets(t) = {<<call[t].spot, call[t].gen, i>>}
  <2> DEFINE s == call[t].spot
             g == call[t].gen
  <2>1. s \in Spots /\ g \in Gens
    BY <1>4 DEF WI, Dispatched
  <2>2. PICK i \in 1 .. Len(Line(t)) : Line(t)[i].tran = t
    BY <1>4 DEF WI, WaitsInLine
  <2>3. Line(t) \in Seq(Ticket) /\ Len(Line(t)) <= N /\ N \in Nat
    BY <1>1, <2>1, PlacesTyped, LineBounded, FS_CardinalityType DEF Line
  <2>4. i \in 1 .. N /\ i <= Len(Line(t))
    BY <2>2, <2>3
  <2>5. <<s, g, i>> \in Tickets(t)
    BY <2>1, <2>2, <2>4 DEF Tickets, Line
  <2>6. ASSUME NEW p \in Tickets(t)
        PROVE  p = <<s, g, i>>
    <3>1. p[1] = s /\ p[2] = g
      BY <1>3
    <3>2. p[3] \in 1 .. Len(Line(t)) /\ Line(t)[p[3]].tran = t
      BY <1>2, <3>1 DEF Line
    <3>3. Awaited(Line(t), s, g, call)
      BY <1>1, <2>1 DEF Line
    <3>4. p[3] = i
      BY <2>2, <3>2, <3>3 DEF Awaited
    <3>5. QED
      BY <1>2, <3>1, <3>4
  <2>7. QED
    BY <2>4, <2>5, <2>6
<1>5. ASSUME NEW t \in Trans, call[t].pc # "wait"
      PROVE  Tickets(t) = {}
  BY <1>3, <1>5
<1>6. QED
  BY <1>4, <1>5 DEF WaitersQueued

\* Each goroutine that waits has exactly one place in the one queue that it
\* waits in, and nobody else has one, before and after any cleaning, for any
\* finite number of transactions (askToGet, askToRelease, getSpotFromStorage).
THEOREM Waiting == ASSUME IsFiniteSet(Trans) PROVE Spec => []WaitersQueued
<1>1. Init => WI
  BY InitType, InitHolds DEF WI, HI, Init, CacheInit, Dispatched, WaitsInLine, NoCall
<1>2. WI /\ [Next]_vars => WI'
  <2>1. WI /\ [Next]_vars => HI'
    BY NextType, HoldsNext DEF WI, HI
  <2>2. WI /\ UNCHANGED vars => Dispatched' /\ WaitsInLine'
    BY DEF WI, vars, cacheVars, Dispatched, WaitsInLine, Line
  <2>3. QED
    BY <2>1, <2>2, WaitsNext DEF WI
<1>3. WI => WaitersQueued
  BY PlacesGiveWaiters
<1>4. QED
  BY <1>1, <1>2, <1>3, PTL DEF Spec

----------------------------------------------------------------------------
(* The content of the spots.  Nobody calls WriteContext.                   *)

CI == HI /\ ContentInvariant

\* Every write is one that asks for its spot as a writer.
OnlyWriters == "WriteContext" \notin AllowedOps

----------------------------------------------------------------------------
(* What the operators on one object keep.                                  *)

LEMMA CoherentLoaded ==
    ASSUME NEW c \in SpotCaches, NEW d \in Content, Coherent(c, d), c.spot = Nil,
           d \in Trans => Committed(d)
    PROVE  Coherent([c EXCEPT !.spot = d, !.exist = TRUE], d)
BY DEF Coherent, Own, SpotCaches

LEMMA CoherentAsked ==
    ASSUME NEW c \in SpotCaches, NEW d, NEW w \in Ticket, Coherent(c, d)
    PROVE  Coherent(AskToGet(c, w), d)
<1>1. CASE ~Grants(c, w)
  BY <1>1 DEF AskToGet, Coherent, Own, SpotCaches
<1>2. CASE Grants(c, w) /\ ~w.forwrite
  BY <1>2 DEF AskToGet
<1>3. CASE Grants(c, w) /\ w.forwrite
  BY <1>3, TransAssumption DEF AskToGet, Grants, Coherent, Own, SpotCaches, Ticket
<1>4. QED
  BY <1>1, <1>2, <1>3

LEMMA CoherentUsed ==
    ASSUME NEW c \in SpotCaches, NEW d, Coherent(c, d), c.tran_id \in Trans
    PROVE  /\ Coherent([c EXCEPT !.spot = c.tran_id, !.be_change = TRUE], d)
           /\ Coherent([c EXCEPT !.be_delete = "yes", !.be_change = TRUE], d)
BY TransAssumption DEF Coherent, Own, SpotCaches

\* An object whose changes are in the file, or undone.
Settled(c, d) ==
    /\ c.be_delete # "yes"
    /\ c.be_delete # "no" => c.be_change
    /\ ~c.be_change /\ c.spot # Nil => c.spot = d
    /\ c.be_delete = "commit" => d = Nil \/ IOFails
    /\ c.spot \in Trans => Committed(c.spot)
    /\ c.be_delete = "no" /\ c.spot # Nil => d = c.spot \/ (IOFails /\ Committed(c.spot))

\* It may be passed on to anybody.
LEMMA CoherentReleased ==
    ASSUME NEW c \in SpotCaches, NEW d, Settled(c, d)
    PROVE  Coherent(AskToRelease(c), d)
BY DEF AskToRelease, Settled, Coherent, Own, SpotCaches

\* What storeTheSpot may leave in the file, and makes of the object.
LEMMA StoredSettled ==
    ASSUME NEW c \in SpotCaches, NEW d, NEW e, Coherent(c, d), Committed(c.tran_id),
           IF c.be_delete = "no"
           THEN (e = c.spot /\ c.be_change) \/ (e = d /\ (IOFails \/ ~c.be_change))
           ELSE e = Nil \/ (e = d /\ IOFails),
           d \in Trans => Committed(d)
    PROVE  /\ Settled(IF c.be_delete = "no" THEN c ELSE [c EXCEPT !.be_delete = "commit"], e)
           /\ e \in Trans => Committed(e)
<1>1. c.spot \in Trans => Committed(c.spot)
  BY DEF Coherent, Own
<1>2. CASE c.be_delete = "no"
  BY <1>1, <1>2 DEF Coherent, Own, Settled
<1>3. CASE c.be_delete # "no"
  BY <1>1, <1>3, TransAssumption DEF Coherent, Own, Settled, SpotCaches
<1>4. QED
  BY <1>2, <1>3

\* What resetTheSpot makes of the object.
LEMMA ResetSettled ==
    ASSUME NEW c \in SpotCaches, NEW d, NEW v, Coherent(c, d), d \in Trans => Committed(d),
           v \in Content \cup {Nil}, IF c.be_change THEN v \in {Nil, d} ELSE v = c.spot
    PROVE  Settled([c EXCEPT !.spot = v, !.be_change = FALSE, !.be_delete = "no"], d)
BY TransAssumption DEF Coherent, Settled, SpotCaches

----------------------------------------------------------------------------
(* The parts about calls, the pool and the finishers.                      *)

\* Who has got a spot had got it before, or has just received it.
LEMMA GotFrom ==
    ASSUME HI, Next, NEW t \in Trans, call'[t].pc = "got"
    PROVE  call'[t] = call[t] \/ Receive(t)
<1> USE DEF HI
<1>1. call \in [Trans -> Calls]
  BY DEF TypeOK, CacheTypeOK
<1>2. CASE AskGetSpot
  <2> DEFINE m == Head(signal)
  <2>1. signal # << >> /\ signal' = Tail(signal) /\ IsAsk(m)
    BY <1>2 DEF AskGetSpot, Receives, IsAsk
  <2>2. m.tran \in Trans
    BY <2>1, SignalTaken, SignalsTyped
  <2>3. \E g : call' = [call EXCEPT ![m.tran].pc = "load", ![m.tran].gen = g]
    BY <1>2 DEF AskGetSpot
  <2> HIDE DEF m
  <2>4. QED
    BY <1>1, <2>2, <2>3 DEF Calls
<1>3. CASE AskFinishSpot \/ AskCleanSpots \/ ConsCleanSig
  BY <1>3 DEF AskFinishSpot, AskCleanSpots, ConsCleanSig
<1>4. ASSUME NEW u \in Trans, LoadSpot(u) \/ AskForSpot(u)
      PROVE  call'[t] = call[t]
  BY <1>4, ServedCall
<1>5. ASSUME NEW f \in fin, StoreTheSpot(f) \/ ResetTheSpot(f)
      PROVE  call'[t] = call[t]
  <2>1. PICK c \in SpotCaches : c.wait_line = obj[f.spot][f.gen].wait_line /\ Release(f, c)
    BY <1>5, ReleaseOnly
  <2>2. CASE Woken(c) = NoTran
    BY <2>1, <2>2 DEF Release
  <2>3. CASE Woken(c) # NoTran
    <3>1. Woken(c) \in Trans
      BY <1>5, <2>1, <2>3, ReleaseOnly, WokenWaits
    <3>2. call' = [call EXCEPT ![Woken(c)].pc = "reply"]
      BY <2>1, <2>3 DEF Release
    <3>3. QED
      BY <1>1, <3>1, <3>2 DEF Calls
  <2>4. QED
    BY <2>2, <2>3
<1>6. ASSUME NEW u \in Trans, Use(u)
      PROVE  call'[t] = call[t]
  BY <1>6, UsedOnce DEF NoCall
<1>7. ASSUME NEW u \in Trans, Receive(u)
      PROVE  call'[t] = call[t] \/ Receive(t)
  BY <1>7, ReceivedOnce
<1>8. ASSUME NEW u \in Trans, NEW op \in AllowedOps, NEW s \in Spots, CallSpot(u, op, s)
      PROVE  call'[t] = call[t]
  <2>1. call' = [call EXCEPT ![u] = NewCall(op, s)]
    BY <1>8 DEF CallSpot
  <2>2. QED
    BY <1>1, <2>1 DEF NewCall
<1>9. ASSUME NEW u \in Trans,
             \/ Begin(u) \/ Begun(u) \/ Commit(u) \/ Rollback(u) \/ End(u) \/ EndUnknown(u) \/ Ended(u)
             \/ \E s \in Spots : FinishSpot(u, s)
      PROVE  call' = call
  BY <1>9 DEF Begin, Begun, Commit, Rollback, End, EndUnknown, Ended, FinishSpot,
              GotoFinishSpot, cacheVars
<1>10. QED
  BY <1>2, <1>3, <1>4, <1>5, <1>6, <1>7, <1>8, <1>9
  DEF Next, CacheRuns, CacheStep, ClientStep

\* A call keeps its operation, ends, or is a new one.
LEMMA WritersAskNext ==
    ASSUME HI, WritersAsk, OnlyWriters, Next
    PROVE  WritersAsk'
<1> USE DEF HI
<1>1. call \in [Trans -> Calls]
  BY DEF TypeOK, CacheTypeOK
<1>2. CASE AskGetSpot
  <2>1. PICK u, g : call' = [call EXCEPT ![u].pc = "load", ![u].gen = g]
    BY <1>2 DEF AskGetSpot
  <2>2. QED
    BY <1>1, <2>1 DEF WritersAsk, Calls
<1>3. CASE AskFinishSpot \/ AskCleanSpots \/ ConsCleanSig
  BY <1>3 DEF AskFinishSpot, AskCleanSpots, ConsCleanSig, WritersAsk
<1>4. ASSUME NEW u \in Trans, LoadSpot(u) \/ AskForSpot(u)
      PROVE  WritersAsk'
  BY <1>4, ServedCall DEF WritersAsk
<1>5. ASSUME NEW f \in fin, StoreTheSpot(f) \/ ResetTheSpot(f)
      PROVE  WritersAsk'
  <2>1. PICK c \in SpotCaches : Release(f, c)
    BY <1>5, ReleaseOnly
  <2>2. call' = call \/ call' = [call EXCEPT ![Woken(c)].pc = "reply"]
    BY <2>1 DEF Release
  <2>3. QED
    BY <1>1, <2>2 DEF WritersAsk, Calls
<1>6. ASSUME NEW u \in Trans, Use(u)
      PROVE  WritersAsk'
  BY <1>6, UsedOnce DEF NoCall, WritersAsk
<1>7. ASSUME NEW u \in Trans, Receive(u)
      PROVE  WritersAsk'
  <2>1. call' = [call EXCEPT ![u] = NoCall] \/ call' = [call EXCEPT ![u].pc = "got"]
    BY <1>7 DEF Receive
  <2>2. QED
    BY <1>1, <2>1 DEF WritersAsk, Calls, NoCall
<1>8. ASSUME NEW u \in Trans, NEW op \in AllowedOps, NEW s \in Spots, CallSpot(u, op, s)
      PROVE  WritersAsk'
  <2>1. call' = [call EXCEPT ![u] = NewCall(op, s)] /\ op # "WriteContext"
    BY <1>8 DEF CallSpot, OnlyWriters
  <2>2. QED
    BY <1>1, <2>1 DEF NewCall, WritersAsk
<1>9. ASSUME NEW u \in Trans,
             \/ Begin(u) \/ Begun(u) \/ Commit(u) \/ Rollback(u) \/ End(u) \/ EndUnknown(u) \/ Ended(u)
             \/ \E s \in Spots : FinishSpot(u, s)
      PROVE  WritersAsk'
  BY <1>9 DEF Begin, Begun, Commit, Rollback, End, EndUnknown, Ended, FinishSpot,
              GotoFinishSpot, cacheVars, WritersAsk
<1>10. QED
  BY <1>2, <1>3, <1>4, <1>5, <1>6, <1>7, <1>8, <1>9
  DEF Next, CacheRuns, CacheStep, ClientStep

\* A transaction of the pool ends with a commit or a rollback.
LEMMA EndMoves ==
    ASSUME HI, NEW t \in Trans, End(t)
    PROVE  /\ t \in transaction
           /\ \E f \in {"commit", "rollback"} : fate' = [fate EXCEPT ![t] = f]
<1>1. /\ tsignal # << >> /\ Head(tsignal).ask # "begin" /\ t \in transaction
      /\ fate' = [fate EXCEPT ![t] = Head(tsignal).ask]
  BY DEF End, ToEnd
<1>2. tsignal \in Seq(TranSignals)
  BY DEF HI, TypeOK, PoolTypeOK
<1>3. Head(tsignal) \in TranSignals
  BY <1>1, <1>2, Taken
<1>4. Head(tsignal).ask \in {"commit", "rollback"}
  BY <1>1, <1>3 DEF TranSignals
<1>5. QED
  BY <1>1, <1>4

\* What a step does to the fate of the transactions and to their lists: only
\* End ends one, of the pool, and only FinishSpot takes a spot off a list.
LEMMA FateMoves ==
    ASSUME HI, Next
    PROVE  \/ fate' = fate
           \/ \E t \in transaction :
                 /\ End(t)
                 /\ \E f \in {"commit", "rollback"} : fate' = [fate EXCEPT ![t] = f]
<1> USE DEF HI
<1>1. CASE CacheRuns
  BY <1>1 DEF CacheRuns, poolVars
<1>2. ASSUME NEW t \in Trans, End(t)
      PROVE  t \in transaction /\ \E f \in {"commit", "rollback"} : fate' = [fate EXCEPT ![t] = f]
  BY <1>2, EndMoves
<1>3. ASSUME NEW t \in Trans, ClientStep(t), ~End(t)
      PROVE  fate' = fate
  BY <1>3 DEF ClientStep, Begin, Begun, Commit, Rollback, EndUnknown, Ended, SendTranSignal,
              ToBegin, ToEndUnknown, GotoReply, FinishSpot, GotoFinishSpot, CallSpot, Receive,
              Use, Touches, ExistSpot, ReadSpot, ReadField, WriteField, WriteContext, StoreSpot,
              DeleteSpot, poolVars
<1>4. QED
  BY <1>1, <1>2, <1>3 DEF Next

\* So a transaction that has ended has ended for good.
LEMMA FateKept ==
    ASSUME HI, PoolOpen, Next
    PROVE  /\ fate' \in [Trans -> {"open", "commit", "rollback"}]
           /\ \A t \in Trans : fate[t] # "open" => fate'[t] = fate[t]
<1>1. fate \in [Trans -> {"open", "commit", "rollback"}] /\ transaction \subseteq Trans
  BY DEF HI, TypeOK, PoolTypeOK
<1>2. CASE fate' = fate
  BY <1>1, <1>2
<1>3. ASSUME NEW t \in transaction, NEW f \in {"commit", "rollback"},
             fate' = [fate EXCEPT ![t] = f]
      PROVE  /\ fate' \in [Trans -> {"open", "commit", "rollback"}]
             /\ \A u \in Trans : fate[u] # "open" => fate'[u] = fate[u]
  <2>1. fate[t] = "open"
    BY <1>1 DEF PoolOpen
  <2>2. QED
    BY <1>1, <1>3, <2>1
<1>4. QED
  BY <1>2, <1>3, FateMoves

\* A transaction is begun once, before it can end, and leaves the pool as it
\* ends.
LEMMA PoolOpenNext ==
    ASSUME HI, PoolOpen, Next
    PROVE  PoolOpen'
<1> USE DEF HI
<1>1. /\ client \in [Trans -> {"new", "beginning", "idle", "calling", "ending"}]
      /\ fate \in [Trans -> {"open", "commit", "rollback"}] /\ transaction \subseteq Trans
  BY DEF TypeOK, ClientTypeOK, PoolTypeOK
<1>2. CASE CacheRuns
  BY <1>2 DEF CacheRuns, poolVars, clientVars, PoolOpen
<1>3. ASSUME NEW t \in Trans, Begin(t)
      PROVE  PoolOpen'
  BY <1>1, <1>3 DEF Begin, SendTranSignal, Becomes, PoolOpen
<1>4. ASSUME NEW t \in Trans, Begun(t)
      PROVE  PoolOpen'
  <2>1. /\ tsignal # << >> /\ Head(tsignal) = [ask |-> "begin", tran |-> t] /\ tsignal' = Tail(tsignal)
        /\ transaction' = transaction \cup {t} /\ fate' = fate
        /\ client' = [client EXCEPT ![t] = "idle"]
    BY <1>4 DEF Begun, ToBegin, Becomes
  <2>2. client[t] = "beginning"
    BY <2>1, TranSignalTakenOnce
  <2>3. QED
    BY <1>1, <2>1, <2>2 DEF PoolOpen
<1>5. ASSUME NEW t \in Trans, End(t)
      PROVE  PoolOpen'
  <2>1. /\ tsignal # << >> /\ Head(tsignal).ask # "begin" /\ Head(tsignal).tran = t
        /\ tsignal' = Tail(tsignal)
        /\ transaction' = transaction \ {t} /\ client' = client
    BY <1>5 DEF End, ToEnd, clientVars
  <2>2. client[t] = "ending"
    BY <2>1, TranSignalTakenOnce
  <2>3. \A u \in Trans : u # t => fate'[u] = fate[u]
    BY <1>1, <1>5 DEF End, ToEnd
  <2>4. QED
    BY <2>1, <2>2, <2>3 DEF PoolOpen
<1>6. ASSUME NEW t \in Trans, ClientStep(t), ~Begin(t), ~Begun(t), ~End(t)
      PROVE  /\ transaction' = transaction /\ fate' = fate
             /\ \/ client' = client
                \/ \E st \in {"idle", "calling", "ending"} : client' = [client EXCEPT ![t] = st]
  BY <1>6 DEF ClientStep, Commit, Rollback, EndUnknown, Ended, SendTranSignal, StartsCall, Becomes,
              ToEndUnknown, GotoReply, FinishSpot, GotoFinishSpot, CallSpot, Receive,
              Use, Touches, ExistSpot, ReadSpot, ReadField, WriteField, WriteContext, StoreSpot,
              DeleteSpot, poolVars, clientVars
<1>7. ASSUME NEW t \in Trans, ClientStep(t), ~Begin(t), ~Begun(t), ~End(t)
      PROVE  PoolOpen'
  BY <1>1, <1>6, <1>7 DEF PoolOpen
<1>8. QED
  BY <1>2, <1>3, <1>4, <1>5, <1>7 DEF Next

\* Where the stores and resets come from: those in the channel were there, or
\* are just sent, and those dispatched were, or were first in the channel.
LEMMA FinishFrom ==
    ASSUME HI, Next
    PROVE  /\ \A i \in 1 .. Len(signal') : IsFinish(signal'[i]) =>
                 \/ \E j \in 1 .. Len(signal) : signal'[i] = signal[j]
                 \/ \E t \in Trans, s \in Spots :
                       FinishSpot(t, s) /\ signal'[i] = [ask |-> FinishAsk(t), tran |-> t, spot |-> s]
           /\ \A f \in fin' :
                 \/ f \in fin
                 \/ \E j \in 1 .. Len(signal) :
                       IsFinish(signal[j]) /\ f.kind = signal[j].ask /\ f.tran = signal[j].tran
<1> DEFINE Goal ==
             /\ \A i \in 1 .. Len(signal') : IsFinish(signal'[i]) =>
                   \/ \E j \in 1 .. Len(signal) : signal'[i] = signal[j]
                   \/ \E t \in Trans, s \in Spots :
                         FinishSpot(t, s) /\ signal'[i] = [ask |-> FinishAsk(t), tran |-> t, spot |-> s]
             /\ \A f \in fin' :
                   \/ f \in fin
                   \/ \E j \in 1 .. Len(signal) :
                         IsFinish(signal[j]) /\ f.kind = signal[j].ask /\ f.tran = signal[j].tran
<1>1. ASSUME fin' \subseteq fin,
             signal' = signal \/ (signal # << >> /\ signal' = Tail(signal))
      PROVE  Goal
  BY <1>1, SignalTaken
<1>2. CASE AskGetSpot \/ AskCleanSpots
  BY <1>1, <1>2 DEF AskGetSpot, AskCleanSpots, Receives
<1>3. CASE AskFinishSpot
  <2> DEFINE m == Head(signal)
  <2>1. signal # << >> /\ signal' = Tail(signal) /\ IsFinish(m)
    BY <1>3 DEF AskFinishSpot, Receives, IsFinish
  <2>2. \A f \in fin' : f \in fin \/ (f.kind = m.ask /\ f.tran = m.tran)
    BY <1>3 DEF AskFinishSpot
  <2>3. 1 \in 1 .. Len(signal) /\ signal[1] = m
    BY <2>1, SignalTaken
  <2>4. \A i \in 1 .. Len(signal') : \E j \in 1 .. Len(signal) : signal'[i] = signal[j]
    BY <2>1, SignalTaken
  <2> HIDE DEF m
  <2>5. QED
    BY <2>1, <2>2, <2>3, <2>4
<1>4. CASE ConsCleanSig
  <2>1. [ask |-> "clean", tran |-> NoTran, spot |-> NoSpot] \in Signals
    BY DEF Signals
  <2>2. SendSignal("clean", NoTran, NoSpot) /\ fin' = fin
    BY <1>4 DEF ConsCleanSig
  <2>3. \A i \in 1 .. Len(signal') : IsFinish(signal'[i]) => i \in 1 .. Len(signal) /\ signal'[i] = signal[i]
    BY <2>1, <2>2, SignalSent DEF IsFinish
  <2>4. QED
    BY <2>2, <2>3
<1>5. ASSUME NEW t \in Trans, LoadSpot(t) \/ AskForSpot(t)
      PROVE  Goal
  BY <1>1, <1>5, ServedCall
<1>6. ASSUME NEW f \in fin, StoreTheSpot(f) \/ ResetTheSpot(f)
      PROVE  Goal
  BY <1>1, <1>6, ReleaseOnly DEF Release
<1>7. ASSUME NEW t \in Trans,
             \/ Begin(t) \/ Begun(t) \/ Commit(t) \/ Rollback(t) \/ End(t) \/ EndUnknown(t) \/ Ended(t)
             \/ Receive(t) \/ Use(t)
      PROVE  Goal
  BY <1>1, <1>7, UsedOnce DEF Begin, Begun, Commit, Rollback, End, EndUnknown, Ended, Receive, Reply, cacheVars
<1>8. ASSUME NEW t \in Trans, NEW op \in AllowedOps, NEW s \in Spots, CallSpot(t, op, s)
      PROVE  Goal
  <2>1. PICK ask \in {"get", "write"} : SendSignal(ask, t, s)
    BY <1>8 DEF CallSpot
  <2>2. fin' = fin /\ [ask |-> ask, tran |-> t, spot |-> s] \in Signals
    BY <1>8 DEF CallSpot, Signals
  <2>3. \A i \in 1 .. Len(signal') : IsFinish(signal'[i]) => i \in 1 .. Len(signal) /\ signal'[i] = signal[i]
    BY <2>1, <2>2, SignalSent DEF IsFinish
  <2>4. QED
    BY <2>2, <2>3
<1>9. ASSUME NEW t \in Trans, NEW s \in Spots, FinishSpot(t, s)
      PROVE  Goal
  <2>1. SendSignal(FinishAsk(t), t, s) /\ fin' = fin
    BY <1>9 DEF FinishSpot, GotoFinishSpot
  <2>2. [ask |-> FinishAsk(t), tran |-> t, spot |-> s] \in Signals
    BY DEF FinishAsk, Signals
  <2>3. QED
    BY <1>9, <2>1, <2>2, SignalSent
<1>10. QED
  BY <1>2, <1>3, <1>4, <1>5, <1>6, <1>7, <1>8, <1>9
  DEF Next, CacheRuns, CacheStep, ClientStep

\* Each store or reset stays what its transaction's end calls for.
LEMMA FinishersAgreeNext ==
    ASSUME HI, PoolOpen, FinishersAgree, Next
    PROVE  FinishersAgree'
<1> USE DEF HI, HoldsInvariant
<1> DEFINE After(t) == IF fate'[t] = "commit" THEN "store" ELSE "reset"
<1>1. \A t \in Trans : fate[t] # "open" => After(t) = FinishAsk(t)
  BY FateKept DEF FinishAsk
<1> HIDE DEF After
<1>2. \A i \in 1 .. Len(signal) : IsFinish(signal[i]) =>
          signal[i].tran \in Trans /\ fate[signal[i].tran] # "open"
  <2>1. ASSUME NEW i \in 1 .. Len(signal), IsFinish(signal[i])
        PROVE  signal[i].tran \in Trans /\ fate[signal[i].tran] # "open"
    <3>1. signal[i].tran \in Trans /\ signal[i].spot \in Spots
      BY <2>1, SignalsTyped
    <3>2. Finishing(signal[i].tran, signal[i].spot)
      BY <2>1, FinishingIs
    <3>3. QED
      BY <3>1, <3>2 DEF ReleasedOnce
  <2>2. QED
    BY <2>1
<1>3. \A f \in fin : f.tran \in Trans /\ fate[f.tran] # "open"
  <2>1. ASSUME NEW f \in fin
        PROVE  f.tran \in Trans /\ fate[f.tran] # "open"
    <3>1. f.tran \in Trans /\ f.spot \in Spots
      BY DEF TypeOK, CacheTypeOK, Finishers
    <3>2. Finishing(f.tran, f.spot)
      BY FinishingIs
    <3>3. QED
      BY <3>1, <3>2 DEF ReleasedOnce
  <2>2. QED
    BY <2>1
<1>4. \A t \in Trans, s \in Spots : FinishSpot(t, s) => fate[t] # "open"
  BY DEF FinishSpot, GotoFinishSpot, OneThingAtATime
<1>5. ASSUME NEW i \in 1 .. Len(signal'), IsFinish(signal'[i])
      PROVE  signal'[i].ask = After(signal'[i].tran)
  <2>1. CASE \E j \in 1 .. Len(signal) : signal'[i] = signal[j]
    BY <1>1, <1>2, <1>5, <2>1 DEF FinishersAgree
  <2>2. ASSUME NEW t \in Trans, NEW s \in Spots, FinishSpot(t, s),
               signal'[i] = [ask |-> FinishAsk(t), tran |-> t, spot |-> s]
        PROVE  signal'[i].ask = After(signal'[i].tran)
    <3>1. signal'[i].ask = FinishAsk(t) /\ signal'[i].tran = t
      BY <2>2
    <3>2. After(t) = FinishAsk(t)
      BY <1>1, <1>4, <2>2
    <3>3. QED
      BY <3>1, <3>2
  <2>3. QED
    BY <1>5, <2>1, <2>2, FinishFrom
<1>6. ASSUME NEW f \in fin'
      PROVE  f.kind = After(f.tran)
  <2>1. CASE f \in fin
    BY <1>1, <1>3, <2>1 DEF FinishersAgree
  <2>2. ASSUME NEW j \in 1 .. Len(signal), IsFinish(signal[j]), f.kind = signal[j].ask, f.tran = signal[j].tran
        PROVE  f.kind = After(f.tran)
    BY <1>1, <1>2, <2>2 DEF FinishersAgree
  <2>3. QED
    BY <1>6, <2>1, <2>2, FinishFrom
<1>7. QED
  BY <1>5, <1>6 DEF FinishersAgree, FinishAsk, After

\* A spot stays listed as long as the call that got it goes on.
LEMMA WritersListedNext ==
    ASSUME HI, WritersListed, Next
    PROVE  WritersListed'
<1> USE DEF HI, HoldsInvariant
<1>1. spot_cache \in [Trans -> SUBSET Spots] /\ call \in [Trans -> Calls]
  BY DEF TypeOK, PoolTypeOK, CacheTypeOK
<1>2. ASSUME NEW t \in Trans, call'[t].pc = "got", ForWrite(call'[t].op)
      PROVE  call'[t].spot \in spot_cache'[t]
  <2>1. CASE Receive(t)
    <3>1. /\ call' = [call EXCEPT ![t].pc = "got"]
          /\ spot_cache' = IF ForWrite(call[t].op)
                           THEN [spot_cache EXCEPT ![t] = @ \cup {call[t].spot}]
                           ELSE spot_cache
      BY <1>1, <1>2, <2>1 DEF Receive, NoCall
    <3>2. call'[t].op = call[t].op /\ call'[t].spot = call[t].spot
      BY <1>1, <3>1 DEF Calls
    <3>3. QED
      BY <1>1, <1>2, <3>1, <3>2
  <2>2. CASE call'[t] = call[t]
    <3>1. call[t].spot \in spot_cache[t] /\ client[t] = "calling"
      BY <1>2, <2>2 DEF WritersListed, OneThingAtATime
    <3>2. spot_cache[t] \subseteq spot_cache'[t]
      <4>1. CASE CacheRuns
        BY <4>1 DEF CacheRuns, poolVars
      <4>2. ASSUME NEW u \in Trans, NEW s \in Spots, FinishSpot(u, s)
            PROVE  spot_cache'[t] = spot_cache[t]
        <5>1. u # t
          BY <3>1, <4>2 DEF FinishSpot, GotoFinishSpot, OneThingAtATime
        <5>2. QED
          BY <1>1, <4>2, <5>1 DEF FinishSpot, GotoFinishSpot
      <4>3. ASSUME NEW u \in Trans, Receive(u)
            PROVE  spot_cache[t] \subseteq spot_cache'[t]
        BY <1>1, <4>3 DEF Receive
      <4>4. ASSUME NEW u \in Trans,
                   \/ Begin(u) \/ Begun(u) \/ Commit(u) \/ Rollback(u) \/ End(u) \/ EndUnknown(u)
                   \/ Ended(u) \/ Use(u) \/ \E op \in AllowedOps, s \in Spots : CallSpot(u, op, s)
            PROVE  spot_cache' = spot_cache
        BY <4>4 DEF Begin, Begun, Commit, Rollback, End, EndUnknown, Ended, SendTranSignal, ToBegin,
                    ToEnd, ToEndUnknown, GotoReply, CallSpot, Use, Touches, ExistSpot, ReadSpot,
                    ReadField, WriteField, WriteContext, StoreSpot, DeleteSpot, poolVars
      <4>5. QED
        BY <4>1, <4>2, <4>3, <4>4 DEF Next, ClientStep
    <3>3. QED
      BY <2>2, <3>1, <3>2
  <2>3. QED
    BY <1>2, <2>1, <2>2, GotFrom
<1>3. QED
  BY <1>2 DEF WritersListed

----------------------------------------------------------------------------
(* The part about content, step by step.                                   *)

LEMMA FreshCoherent == \A d : Coherent(InitSpotC, d)
BY TransAssumption DEF Coherent, InitSpotC

\* What the steps before the first cleaning can rely on.
LEMMA InHand ==
    ASSUME CI, Quiet
    PROVE  /\ HI /\ OneObjectEach /\ Occupied /\ ContentCoherent /\ PoolOpen
           /\ disk \in [Spots -> Content \cup {Nil}]
           /\ obj \in [Spots -> [Gens -> SpotCaches]]
           /\ gen \in [Spots -> 0 .. MaxGen]
           /\ \A s \in Spots : disk[s] \in Trans => Committed(disk[s])
           /\ \A s \in Spots, g \in Gens : Coherent(obj[s][g], disk[s])
BY DEF CI, ContentInvariant, ContentCoherent, HI, HoldsInvariant, TypeOK, CacheTypeOK

\* Content stays coherent when a transaction that commits may only add to what
\* is committed.
LEMMA ContentKept ==
    ASSUME CI, Quiet, Next, UNCHANGED <<obj, disk, gen>>
    PROVE  ContentCoherent'
<1>1. HI /\ ContentCoherent /\ PoolOpen
  BY InHand
<1>2. \A v : Committed(v) => Committed(v)'
  BY <1>1, FateKept DEF Committed
<1>3. \A s \in Spots, g \in Gens : Coherent(obj[s][g], disk[s])'
  BY <1>1, <1>2 DEF ContentCoherent, Coherent, Own
<1>4. QED
  BY <1>1, <1>2, <1>3 DEF ContentCoherent, OthersFresh

\* Content stays coherent when one object in use and its file change together
\* into what is coherent.
LEMMA ObjectReplaced ==
    ASSUME CI, Quiet, NEW s \in Spots, gen[s] \in Gens, NEW n, NEW d,
           obj' = [obj EXCEPT ![s][gen[s]] = n], disk' = [disk EXCEPT ![s] = d],
           UNCHANGED <<gen, fate>>, Coherent(n, d), d \in Trans => Committed(d)
    PROVE  ContentCoherent'
<1>1. \A r \in Spots, g \in Gens :
          obj'[r][g] = IF r = s /\ g = gen[s] THEN n ELSE obj[r][g]
  BY InHand
<1>2. \A r \in Spots : disk'[r] = IF r = s THEN d ELSE disk[r]
  BY InHand
<1>3. OthersFresh'
  BY <1>1, InHand DEF ContentCoherent, OthersFresh
<1>4. ASSUME NEW r \in Spots, NEW g \in Gens
      PROVE  Coherent(obj'[r][g], disk'[r])
  <2>1. CASE r = s /\ g = gen[s]
    BY <1>1, <1>2, <2>1
  <2>2. CASE r = s /\ g # gen[s]
    BY <1>1, <2>2, InHand, FreshCoherent DEF ContentCoherent, OthersFresh
  <2>3. CASE r # s
    BY <1>1, <1>2, <2>3, InHand
  <2>4. QED
    BY <2>1, <2>2, <2>3
<1>5. \A r \in Spots, g \in Gens : Coherent(obj[r][g], disk[r])'
  BY <1>4 DEF Coherent, Own, Committed
<1>6. \A r \in Spots : disk'[r] \in Trans => Committed(disk[r])'
  BY <1>2, InHand DEF Committed
<1>7. QED
  BY <1>3, <1>5, <1>6 DEF ContentCoherent

\* The object that askGetSpot makes is fresh.
LEMMA MadeCoherent ==
    ASSUME CI, Quiet, Next, AskGetSpot, fate' = fate
    PROVE  ContentCoherent'
<1> DEFINE m == Head(signal)
           g == IF cached[m.spot] THEN gen[m.spot] ELSE gen[m.spot] + 1
<1>1. /\ gen' = [gen EXCEPT ![m.spot] = g] /\ UNCHANGED <<obj, disk>>
  BY DEF AskGetSpot
<1>2. \A s \in Spots : ~cached[s] => gen[s] = 0
  BY InHand DEF OneObjectEach
<1>3. OthersFresh
  BY InHand DEF ContentCoherent
<1>4. ASSUME NEW s \in Spots, NEW h \in Gens, h # gen'[s]
      PROVE  h # gen[s] \/ gen[s] = 0
  BY <1>1, <1>2, <1>4, InHand
<1>5. OthersFresh'
  BY <1>1, <1>3, <1>4, SpotCacheOpAssumption DEF OthersFresh, Gens
<1>6. QED
  BY <1>1, <1>5, InHand DEF ContentCoherent, Coherent, Own, Committed

LEMMA LoadCoherent ==
    ASSUME CI, Quiet, Next, NEW t \in Trans, LoadSpot(t), fate' = fate
    PROVE  ContentCoherent'
<1> DEFINE s == call[t].spot
           n == [obj[s][gen[s]] EXCEPT !.spot = disk[s], !.exist = TRUE]
<1>1. HI /\ s \in Spots /\ gen[s] \in Gens /\ call[t].gen = gen[s]
  BY InHand, ServedObject DEF LoadSpot
<1>2. UNCHANGED <<disk, gen>>
  BY DEF LoadSpot
<1>3. CASE obj' = obj
  BY <1>2, <1>3, ContentKept
<1>4. CASE obj' # obj
  <2>1. obj[s][gen[s]].spot = Nil /\ disk[s] # Nil /\ obj' = [obj EXCEPT ![s][gen[s]] = n]
    BY <1>1, <1>4 DEF LoadSpot
  <2>2. obj[s][gen[s]] \in SpotCaches /\ disk[s] \in Content
    BY <1>1, <2>1, InHand
  <2>3. Coherent(n, disk[s]) /\ (disk[s] \in Trans => Committed(disk[s]))
    BY <1>1, <2>1, <2>2, InHand, CoherentLoaded
  <2>4. disk' = [disk EXCEPT ![s] = disk[s]]
    BY <1>2, InHand
  <2> HIDE DEF n, s
  <2>5. QED
    BY <1>1, <1>2, <2>1, <2>3, <2>4, ObjectReplaced
<1>5. QED
  BY <1>3, <1>4

LEMMA AskCoherent ==
    ASSUME CI, Quiet, Next, NEW t \in Trans, AskForSpot(t), fate' = fate
    PROVE  ContentCoherent'
<1> DEFINE s == call[t].spot
           w == [tran |-> t, forwrite |-> ForWrite(call[t].op)]
           n == AskToGet(obj[s][gen[s]], w)
<1>1. HI /\ s \in Spots /\ gen[s] \in Gens /\ call[t].gen = gen[s]
  BY InHand, ServedObject DEF AskForSpot
<1>2. UNCHANGED <<disk, gen>> /\ obj' = [obj EXCEPT ![s][gen[s]] = n]
  BY <1>1 DEF AskForSpot
<1>3. w \in Ticket
  BY DEF Ticket, ForWrite
<1> HIDE DEF w
<1>4. Coherent(n, disk[s]) /\ (disk[s] \in Trans => Committed(disk[s]))
  BY <1>1, <1>3, InHand, CoherentAsked
<1>5. disk' = [disk EXCEPT ![s] = disk[s]]
  BY <1>2, InHand
<1> HIDE DEF n, s
<1>6. QED
  BY <1>1, <1>2, <1>4, <1>5, ObjectReplaced

\* Only the occupier of a spot changes it.
LEMMA UseCoherent ==
    ASSUME CI, Quiet, Next, NEW t \in Trans, Use(t), fate' = fate
    PROVE  ContentCoherent'
<1> DEFINE s == call[t].spot
           b == obj[s][gen[s]]
           wr == [b EXCEPT !.spot = b.tran_id, !.be_change = TRUE]
           dl == [b EXCEPT !.be_delete = "yes", !.be_change = TRUE]
<1>1. call[t].pc = "got" /\ UNCHANGED <<disk, gen>>
  BY InHand, UsedOnce DEF Use, Touches, ExistSpot, ReadSpot, ReadField, WriteField, WriteContext,
                          StoreSpot, DeleteSpot
<1>2. HI /\ s \in Spots /\ gen[s] \in Gens /\ call[t].gen = gen[s]
  BY <1>1, InHand, ServedObject
<1>3. CASE obj' = obj
  BY <1>1, <1>3, ContentKept
<1>4. CASE obj' # obj
  <2>1. call[t].op \in {"WriteField", "StoreSpot", "DeleteSpot"}
    <3>1. call[t].op # "WriteContext"
      BY DEF CI, ContentInvariant, WritersAsk
    <3>2. obj' = [obj EXCEPT ![s][gen[s]] = b] => obj' = obj
      BY <1>2, InHand
    <3>3. QED
      BY <1>2, <1>4, <3>1, <3>2
      DEF Use, Touches, Spotc, Answered, ExistSpot, ReadSpot, ReadField, WriteField, WriteContext,
          StoreSpot, DeleteSpot
  <2>2. b.tran_id = t
    <3>1. s \in spot_cache[t]
      BY <1>1, <2>1 DEF CI, ContentInvariant, WritersListed, ForWrite
    <3>2. QED
      BY <1>2, <3>1, InHand DEF Occupied, Holds
  <2>3. PICK n \in {wr, dl} : obj' = [obj EXCEPT ![s][gen[s]] = n]
    BY <1>2, <1>4, <2>1, <2>2
    DEF Use, Touches, Spotc, Answered, ExistSpot, ReadSpot, ReadField, WriteField, WriteContext,
        StoreSpot, DeleteSpot
  <2>4. b \in SpotCaches /\ Coherent(b, disk[s]) /\ (disk[s] \in Trans => Committed(disk[s]))
    BY <1>2, InHand
  <2> HIDE DEF b
  <2>5. Coherent(wr, disk[s]) /\ Coherent(dl, disk[s])
    BY <2>2, <2>4, CoherentUsed
  <2>6. disk' = [disk EXCEPT ![s] = disk[s]]
    BY <1>1, InHand
  <2> HIDE DEF wr, dl, s
  <2>7. QED
    BY <1>1, <1>2, <2>3, <2>4, <2>5, <2>6, ObjectReplaced
<1>5. QED
  BY <1>3, <1>4

\* What a finisher works on: the object in use of a spot that its transaction,
\* which has ended, occupies.
LEMMA FinisherOccupies ==
    ASSUME CI, Quiet, NEW f \in fin
    PROVE  /\ f.spot \in Spots /\ f.gen = gen[f.spot] /\ gen[f.spot] \in Gens /\ f.tran \in Trans
           /\ obj[f.spot][gen[f.spot]].tran_id = f.tran
           /\ fate[f.tran] = IF f.kind = "store" THEN "commit" ELSE "rollback"
<1>1. f \in Finishers
  BY InHand DEF HI, TypeOK, CacheTypeOK
<1>2. f.spot \in Spots /\ f.gen \in Gens /\ f.tran \in Trans
  BY <1>1 DEF Finishers
<1>3. f.gen = gen[f.spot]
  BY InHand DEF OneObjectEach
<1>4. Finishing(f.tran, f.spot)
  BY FinishingIs
<1>5. obj[f.spot][gen[f.spot]].tran_id = f.tran
  BY <1>2, <1>4, InHand DEF Occupied, Holds
<1>6. fate[f.tran] # "open"
  BY <1>2, <1>4, InHand DEF HI, HoldsInvariant, ReleasedOnce
<1>7. f.kind = FinishAsk(f.tran)
  BY DEF CI, ContentInvariant, FinishersAgree
<1>8. fate[f.tran] \in {"open", "commit", "rollback"}
  BY <1>2, InHand DEF HI, TypeOK, PoolTypeOK
<1>9. QED
  BY <1>2, <1>3, <1>5, <1>6, <1>7, <1>8 DEF FinishAsk

\* A finisher leaves an object and a file that are settled.
LEMMA FinishSettled ==
    ASSUME CI, Quiet, NEW f \in fin, StoreTheSpot(f) \/ ResetTheSpot(f)
    PROVE  LET b == obj[f.spot][gen[f.spot]]
           IN  \E c \in SpotCaches, d \in Content \cup {Nil} :
                  /\ c.wait_line = b.wait_line
                  /\ Release(f, c) /\ disk' = [disk EXCEPT ![f.spot] = d]
                  /\ Settled(c, d) /\ (d \in Trans => Committed(d))
                  /\ \/ d = disk[f.spot]
                     \/ fate[f.tran] = "commit" /\ d = Nil
                     \/ fate[f.tran] = "commit" /\ b.be_delete = "no" /\ d = b.spot
<1> DEFINE s == f.spot
           b == obj[s][gen[s]]
<1>1. /\ s \in Spots /\ f.gen = gen[s] /\ gen[s] \in Gens /\ f.tran \in Trans /\ b.tran_id = f.tran
      /\ fate[f.tran] = IF f.kind = "store" THEN "commit" ELSE "rollback"
  BY FinisherOccupies
<1>2. /\ b \in SpotCaches /\ Coherent(b, disk[s]) /\ (disk[s] \in Trans => Committed(disk[s]))
      /\ disk = [disk EXCEPT ![s] = disk[s]] /\ disk[s] \in Content \cup {Nil}
  BY <1>1, InHand
<1>3. CASE StoreTheSpot(f)
  <2> DEFINE c == IF b.be_delete = "no" THEN b ELSE [b EXCEPT !.be_delete = "commit"]
  <2>1. f.kind = "store" /\ Release(f, c)
    BY <1>1, <1>3 DEF StoreTheSpot
  <2>2. PICK d : /\ disk' = [disk EXCEPT ![s] = d]
                 /\ IF b.be_delete = "no"
                    THEN (d = b.spot /\ b.be_change) \/ (d = disk[s] /\ (IOFails \/ ~b.be_change))
                    ELSE d = Nil \/ (d = disk[s] /\ IOFails)
    <3>1. CASE b.be_delete = "no"
      <4>1. disk' \in IF b.be_change THEN Written(s, b.spot) ELSE {disk}
        BY <1>1, <1>3, <3>1 DEF StoreTheSpot
      <4>2. \/ b.be_change /\ disk' = [disk EXCEPT ![s] = b.spot]
            \/ (IOFails \/ ~b.be_change) /\ disk' = disk
        BY <4>1 DEF Written
      <4> HIDE DEF b, s
      <4>3. QED
        BY <1>2, <3>1, <4>2
    <3>2. CASE b.be_delete # "no"
      <4>1. disk' \in Written(s, Nil)
        BY <1>1, <1>3, <3>2 DEF StoreTheSpot
      <4>2. disk' = [disk EXCEPT ![s] = Nil] \/ (IOFails /\ disk' = disk)
        BY <4>1 DEF Written
      <4> HIDE DEF b, s
      <4>3. QED
        BY <1>2, <3>2, <4>2
    <3>3. QED
      BY <3>1, <3>2
  <2>3. Committed(b.tran_id)
    BY <1>1, <2>1 DEF Committed
  <2>4. c \in SpotCaches /\ c.wait_line = b.wait_line
    BY <1>2 DEF SpotCaches
  <2> HIDE DEF b, s
  <2>5. Settled(c, d) /\ (d \in Trans => Committed(d))
    BY <1>2, <2>2, <2>3, StoredSettled
  <2>6. fate[f.tran] = "commit"
    BY <1>1, <2>1
  <2>7. \/ d = disk[s]
        \/ fate[f.tran] = "commit" /\ d = Nil
        \/ fate[f.tran] = "commit" /\ b.be_delete = "no" /\ d = b.spot
    BY <2>2, <2>6
  <2>8. d \in Content \cup {Nil}
    BY <1>2, <2>7 DEF SpotCaches
  <2> HIDE DEF c
  <2>9. QED
    BY <2>1, <2>2, <2>4, <2>5, <2>7, <2>8 DEF b, s
<1>4. CASE ResetTheSpot(f)
  <2> DEFINE c(v) == [b EXCEPT !.spot = v, !.be_change = FALSE, !.be_delete = "no"]
  <2>1. PICK v \in IF b.be_change THEN Restored(s, b) ELSE {b.spot} : Release(f, c(v))
    BY <1>1, <1>4 DEF ResetTheSpot
  <2>2. disk' = disk
    BY <1>4 DEF ResetTheSpot
  <2>3. v \in Content \cup {Nil} /\ IF b.be_change THEN v \in {Nil, disk[s]} ELSE v = b.spot
    <3>1. b.spot \in Content \cup {Nil}
      BY <1>2 DEF SpotCaches
    <3>2. QED
      BY <1>2, <2>1, <3>1 DEF Restored
  <2>4. c(v) \in SpotCaches /\ c(v).wait_line = b.wait_line
    BY <1>2, <2>3 DEF SpotCaches
  <2> HIDE DEF b, s
  <2>5. Settled(c(v), disk[s])
    BY <1>2, <2>3, ResetSettled
  <2> HIDE DEF c
  <2>6. QED
    BY <1>2, <2>1, <2>2, <2>4, <2>5 DEF b, s
<1>5. QED
  BY <1>3, <1>4

LEMMA ReleaseCoherent ==
    ASSUME CI, Quiet, Next, NEW f \in fin, StoreTheSpot(f) \/ ResetTheSpot(f), fate' = fate
    PROVE  ContentCoherent'
<1> DEFINE s == f.spot
<1>1. s \in Spots /\ f.gen = gen[s] /\ gen[s] \in Gens
  BY FinisherOccupies
<1>2. PICK c \in SpotCaches, d \in Content \cup {Nil} :
          Release(f, c) /\ disk' = [disk EXCEPT ![s] = d] /\ Settled(c, d) /\ (d \in Trans => Committed(d))
  BY FinishSettled
<1> DEFINE n == AskToRelease(c)
<1>3. Coherent(n, d)
  BY <1>2, CoherentReleased
<1>4. obj' = [obj EXCEPT ![s][gen[s]] = n]
  BY <1>1, <1>2 DEF Release
<1>5. gen' = gen
  BY InHand, ReleaseOnly
<1> HIDE DEF n, s
<1>6. QED
  BY <1>1, <1>2, <1>3, <1>4, <1>5, ObjectReplaced

\* Every step before which no cleaning was due keeps content coherent.
LEMMA ContentCoherentNext == CI /\ Next /\ Quiet' => ContentCoherent'
<1> SUFFICES ASSUME CI, Next, Quiet' PROVE ContentCoherent'
  OBVIOUS
<1>1. HI
  BY DEF CI
<1>2. Quiet /\ OneObjectEach
  BY <1>1, QuietBefore, InHand
<1>3. CASE CacheRuns
  <2>1. fate' = fate
    BY <1>3 DEF CacheRuns, poolVars
  <2>2. CASE AskFinishSpot \/ AskCleanSpots \/ ConsCleanSig
    <3>1. UNCHANGED <<obj, disk, gen>>
      BY <2>2 DEF AskFinishSpot, AskCleanSpots, ConsCleanSig
    <3>2. QED
      BY <1>2, <3>1, ContentKept
  <2>3. QED
    BY <1>2, <1>3, <2>1, <2>2, MadeCoherent, LoadCoherent, AskCoherent, ReleaseCoherent
    DEF CacheRuns, CacheStep
<1>4. ASSUME NEW t \in Trans, Use(t)
      PROVE  ContentCoherent'
  <2>1. fate' = fate
    BY <1>4 DEF Use, Touches, ExistSpot, ReadSpot, ReadField, WriteField, WriteContext, StoreSpot,
                DeleteSpot, poolVars
  <2>2. QED
    BY <1>2, <1>4, <2>1, UseCoherent
<1>5. ASSUME NEW t \in Trans,
             \/ Begin(t) \/ Begun(t) \/ Commit(t) \/ Rollback(t) \/ End(t) \/ EndUnknown(t) \/ Ended(t)
             \/ Receive(t)
             \/ \E s \in Spots : FinishSpot(t, s)
             \/ \E op \in AllowedOps, s \in Spots : CallSpot(t, op, s)
      PROVE  ContentCoherent'
  <2>1. UNCHANGED <<obj, disk, gen>>
    BY <1>5 DEF Begin, Begun, Commit, Rollback, End, EndUnknown, Ended, Receive, Reply, FinishSpot,
                GotoFinishSpot, CallSpot, cacheVars
  <2>2. QED
    BY <1>2, <2>1, ContentKept
<1>6. QED
  BY <1>3, <1>4, <1>5 DEF Next, ClientStep

LEMMA ContentInit == Init => ContentInvariant
<1> SUFFICES ASSUME Init PROVE ContentInvariant
  OBVIOUS
<1> USE DEF Init, CacheInit, PoolInit
<1>1. WritersAsk /\ PoolOpen /\ FinishersAgree /\ WritersListed
  BY DEF WritersAsk, PoolOpen, FinishersAgree, WritersListed, NoCall
<1>2. OthersFresh
  BY DEF OthersFresh
<1>3. \A s \in Spots, g \in Gens : Coherent(obj[s][g], disk[s])
  BY FreshCoherent
<1>4. \A s \in Spots : disk[s] \notin Trans
  BY TransAssumption
<1>5. QED
  BY <1>1, <1>2, <1>3, <1>4 DEF ContentInvariant, ContentCoherent

LEMMA ContentNext == ASSUME OnlyWriters, CI, [Next]_vars PROVE ContentInvariant'
<1>1. CASE Next
  <2>1. WritersAsk' /\ PoolOpen' /\ FinishersAgree' /\ WritersListed'
    BY <1>1, WritersAskNext, PoolOpenNext, FinishersAgreeNext, WritersListedNext
    DEF CI, ContentInvariant
  <2>2. Quiet' => ContentCoherent'
    BY <1>1, ContentCoherentNext
  <2>3. QED
    BY <2>1, <2>2 DEF ContentInvariant
<1>2. CASE UNCHANGED vars
  BY <1>2 DEF vars, cacheVars, poolVars, clientVars, CI, ContentInvariant, WritersAsk, PoolOpen,
              FinishersAgree, FinishAsk, WritersListed, Quiet, ContentCoherent, OthersFresh,
              Coherent, Own, Committed
<1>3. QED
  BY <1>1, <1>2

----------------------------------------------------------------------------
(* The steps of TRule as steps of ExclusiveStore.                          *)

LEMMA InitImplements == Init => Abstract!Init
BY DEF Init, CacheInit, PoolInit, Abstract!Init, occupier

\* Steps that occupy and release nothing.
LEMMA OccupierKept ==
    ASSUME CI, Quiet, gen' = gen,
           \A s \in Spots, g \in Gens : obj'[s][g].tran_id = obj[s][g].tran_id
    PROVE  occupier' = occupier
<1>1. \A s \in Spots : gen[s] = 0 \/ gen[s] \in Gens
  BY SpotCacheOpAssumption, InHand DEF Gens
<1>2. QED
  BY <1>1 DEF occupier

\* One spot is occupied, released or passed on.
LEMMA OccupierMoved ==
    ASSUME CI, Quiet, gen' = gen, NEW s \in Spots, gen[s] \in Gens, NEW n,
           obj' = [obj EXCEPT ![s][gen[s]] = n]
    PROVE  /\ occupier[s] = obj[s][gen[s]].tran_id
           /\ occupier' = [occupier EXCEPT ![s] = n.tran_id]
<1>1. gen[s] # 0
  BY SpotCacheOpAssumption DEF Gens
<1>2. \A r \in Spots : gen[r] = 0 \/ gen[r] \in Gens
  BY SpotCacheOpAssumption, InHand DEF Gens
<1>3. \A r \in Spots, g \in Gens :
          obj'[r][g] = IF r = s /\ g = gen[s] THEN n ELSE obj[r][g]
  BY InHand
<1>4. \A r \in Spots :
          occupier'[r] = IF r = s THEN n.tran_id ELSE occupier[r]
  BY <1>1, <1>2, <1>3 DEF occupier
<1>5. QED
  BY <1>1, <1>4 DEF occupier

\* A new object is free, as a spot without one is.
LEMMA MakeImplements ==
    ASSUME CI, Quiet, AskGetSpot
    PROVE  occupier' = occupier
<1> DEFINE m == Head(signal)
           g == IF cached[m.spot] THEN gen[m.spot] ELSE gen[m.spot] + 1
<1>1. gen' = [gen EXCEPT ![m.spot] = g] /\ g <= MaxGen /\ obj' = obj
  BY DEF AskGetSpot
<1>2. ASSUME NEW s \in Spots, gen'[s] # gen[s]
      PROVE  gen[s] = 0 /\ gen'[s] = 1
  BY <1>1, <1>2, InHand DEF OneObjectEach
<1>3. 1 \in Gens
  BY SpotCacheOpAssumption DEF Gens
<1>4. \A s \in Spots : gen[s] = 0 => obj[s][1].tran_id = NoTran
  BY <1>3, InHand DEF ContentCoherent, OthersFresh, InitSpotC
<1>5. \A s \in Spots : occupier'[s] = occupier[s]
  BY <1>1, <1>2, <1>4 DEF occupier
<1>6. QED
  BY <1>5 DEF occupier

\* A grant to a writer occupies a free spot.
LEMMA AskImplements ==
    ASSUME CI, Quiet, NEW t \in Trans, AskForSpot(t), fate' = fate
    PROVE  Abstract!Next \/ UNCHANGED <<disk, occupier, fate>>
<1> DEFINE s == call[t].spot
           b == obj[s][gen[s]]
           w == [tran |-> t, forwrite |-> ForWrite(call[t].op)]
           n == AskToGet(b, w)
<1>1. /\ HI /\ call[t].pc = "ask" /\ s \in Spots /\ gen[s] \in Gens /\ call[t].gen = gen[s]
      /\ b \in SpotCaches
  BY InHand, ServedObject DEF AskForSpot
<1>2. UNCHANGED <<disk, gen>> /\ obj' = [obj EXCEPT ![s][gen[s]] = n]
  BY <1>1 DEF AskForSpot
<1>3. n.tran_id = b.tran_id \/ (n.tran_id = t /\ b.tran_id = NoTran)
  BY <1>1 DEF AskToGet, Grants, SpotCaches
<1>4. fate[t] = "open"
  BY <1>1 DEF HI, HoldsInvariant, OneThingAtATime
<1> HIDE DEF n
<1>5. occupier[s] = b.tran_id /\ occupier' = [occupier EXCEPT ![s] = n.tran_id]
  BY <1>1, <1>2, OccupierMoved
<1>6. CASE n.tran_id = b.tran_id
  <2>1. occupier' = occupier
    BY <1>5, <1>6 DEF occupier
  <2>2. QED
    BY <1>2, <2>1
<1>7. CASE n.tran_id = t /\ b.tran_id = NoTran
  <2>1. Abstract!Occupy(t, s)
    BY <1>2, <1>4, <1>5, <1>7 DEF Abstract!Occupy
  <2>2. QED
    BY <1>1, <2>1 DEF Abstract!Next
<1>8. QED
  BY <1>3, <1>6, <1>7

\* A finisher settles what its transaction left, and passes the spot on to one
\* that has not ended.
LEMMA FinishImplements ==
    ASSUME CI, Quiet, NEW f \in fin, StoreTheSpot(f) \/ ResetTheSpot(f), fate' = fate
    PROVE  Abstract!Next
<1> DEFINE s == f.spot
           t == f.tran
           b == obj[s][gen[s]]
<1>1. /\ HI /\ s \in Spots /\ f.gen = gen[s] /\ gen[s] \in Gens /\ t \in Trans /\ b.tran_id = t
      /\ fate[t] \in {"commit", "rollback"}
  BY InHand, FinisherOccupies
<1>2. PICK c \in SpotCaches, d \in Content \cup {Nil} :
          /\ c.wait_line = b.wait_line
          /\ Release(f, c) /\ disk' = [disk EXCEPT ![s] = d]
          /\ \/ d = disk[s]
             \/ fate[t] = "commit" /\ d = Nil
             \/ fate[t] = "commit" /\ b.be_delete = "no" /\ d = b.spot
  BY FinishSettled
<1> DEFINE n == AskToRelease(c)
<1>3. obj' = [obj EXCEPT ![s][gen[s]] = n] /\ gen' = gen
  BY <1>1, <1>2, ReleaseOnly DEF Release
<1>4. n.tran_id \in {u \in Trans : fate[u] = "open"} \cup {NoTran}
  <2>1. CASE c.wait_line = << >>
    BY <1>2, <2>1 DEF AskToRelease, SpotCaches
  <2>2. CASE c.wait_line # << >>
    <3>1. c.wait_line \in Seq(Ticket)
      BY <1>2 DEF SpotCaches
    <3>2. Head(c.wait_line) \in Ticket /\ Woken(c) = Head(c.wait_line).tran
      BY <2>2, <3>1, Taken DEF Woken
    <3>3. Woken(c) \in Trans /\ Woken(c) # NoTran
      BY <3>2, TransAssumption DEF Ticket
    <3>4. call[Woken(c)].pc = "wait"
      BY <1>1, <1>2, <3>3, WokenWaits
    <3>5. fate[Woken(c)] = "open"
      BY <1>1, <3>3, <3>4 DEF HI, HoldsInvariant, OneThingAtATime
    <3>6. n.tran_id = IF Head(c.wait_line).forwrite THEN Woken(c) ELSE NoTran
      BY <1>2, <2>2, <3>2 DEF AskToRelease, SpotCaches
    <3> HIDE DEF n
    <3>7. QED
      BY <3>3, <3>5, <3>6
  <2>3. QED
    BY <2>1, <2>2
<1> HIDE DEF n
<1>5. occupier[s] = t /\ occupier' = [occupier EXCEPT ![s] = n.tran_id]
  BY <1>1, <1>3, OccupierMoved
<1>6. d \in Abstract!Left(t, s)
  <2>1. Coherent(b, disk[s])
    BY <1>1, InHand
  <2> HIDE DEF b
  <2>2. CASE d = disk[s]
    BY <2>2 DEF Abstract!Left
  <2>3. CASE fate[t] = "commit" /\ d = Nil
    BY <2>3 DEF Abstract!Left
  <2>4. CASE fate[t] = "commit" /\ b.be_delete = "no" /\ d = b.spot
    <3>1. \/ b.spot = Nil \/ b.spot = t \/ b.spot = disk[s]
          \/ IOFails /\ b.spot \in {u \in Trans : fate[u] = "commit"}
      BY <1>1, <2>1, <2>4 DEF Coherent, Own, Committed
    <3>2. QED
      BY <2>4, <3>1 DEF Abstract!Left
  <2>5. QED
    BY <1>2, <2>2, <2>3, <2>4
<1>7. Abstract!Settle(t, s)
  BY <1>1, <1>2, <1>4, <1>5, <1>6 DEF Abstract!Settle
<1>8. QED
  BY <1>1, <1>7 DEF Abstract!Next

\* Every step before which no cleaning was due is one of ExclusiveStore's, or
\* none.
LEMMA NextImplements ==
    CI /\ Next /\ Quiet' => Abstract!Next \/ UNCHANGED <<disk, occupier, fate>>
<1> SUFFICES ASSUME CI, Next, Quiet' PROVE Abstract!Next \/ UNCHANGED <<disk, occupier, fate>>
  OBVIOUS
<1>1. HI /\ Quiet
  BY QuietBefore DEF CI
<1>2. CASE CacheRuns
  <2>1. fate' = fate
    BY <1>2 DEF CacheRuns, poolVars
  <2>2. CASE AskGetSpot
    <3>1. disk' = disk
      BY <2>2 DEF AskGetSpot
    <3>2. QED
      BY <1>1, <2>1, <2>2, <3>1, MakeImplements
  <2>3. CASE AskFinishSpot \/ AskCleanSpots \/ ConsCleanSig
    <3>1. UNCHANGED <<obj, disk, gen>>
      BY <2>3 DEF AskFinishSpot, AskCleanSpots, ConsCleanSig
    <3>2. QED
      BY <1>1, <2>1, <3>1, OccupierKept
  <2>4. ASSUME NEW t \in Trans, LoadSpot(t)
        PROVE  UNCHANGED <<disk, occupier, fate>>
    <3>1. UNCHANGED <<disk, gen>>
      BY <2>4 DEF LoadSpot
    <3>2. QED
      BY <1>1, <2>1, <2>4, <3>1, ObjectKept, OccupierKept
  <2>5. QED
    BY <1>1, <1>2, <2>1, <2>2, <2>3, <2>4, AskImplements, FinishImplements DEF CacheRuns, CacheStep
<1>3. ASSUME NEW t \in Trans, Use(t)
      PROVE  UNCHANGED <<disk, occupier, fate>>
  <2>1. UNCHANGED <<disk, gen, fate>>
    BY <1>3 DEF Use, Touches, ExistSpot, ReadSpot, ReadField, WriteField, WriteContext, StoreSpot,
                DeleteSpot, poolVars
  <2>2. QED
    BY <1>1, <1>3, <2>1, ObjectKept, OccupierKept
<1>4. ASSUME NEW t \in Trans,
             \/ Begin(t) \/ Begun(t) \/ Commit(t) \/ Rollback(t) \/ EndUnknown(t) \/ Ended(t)
             \/ Receive(t)
             \/ \E s \in Spots : FinishSpot(t, s)
             \/ \E op \in AllowedOps, s \in Spots : CallSpot(t, op, s)
      PROVE  UNCHANGED <<disk, occupier, fate>>
  <2>1. UNCHANGED <<obj, disk, gen, fate>>
    BY <1>4 DEF Begin, Begun, Commit, Rollback, EndUnknown, Ended, Receive, Reply, FinishSpot,
                GotoFinishSpot, CallSpot, SendTranSignal, ToBegin, ToEndUnknown, GotoReply,
                cacheVars, poolVars
  <2>2. QED
    BY <1>1, <2>1, OccupierKept
<1>5. ASSUME NEW t \in Trans, End(t)
      PROVE  Abstract!Next
  <2>1. PICK e \in {"commit", "rollback"} : fate' = [fate EXCEPT ![t] = e]
    BY <1>1, <1>5, EndMoves
  <2>2. fate[t] = "open"
    BY <1>5 DEF End, ToEnd, CI, ContentInvariant, PoolOpen
  <2>3. UNCHANGED <<obj, disk, gen>>
    BY <1>5 DEF End, cacheVars
  <2>4. occupier' = occupier
    BY <1>1, <2>3, OccupierKept
  <2>5. Abstract!End(t)
    BY <2>1, <2>2, <2>3, <2>4 DEF Abstract!End
  <2>6. QED
    BY <2>5 DEF Abstract!Next
<1>6. QED
  BY <1>2, <1>3, <1>4, <1>5 DEF Next, ClientStep

----------------------------------------------------------------------------
(* Theorems.                                                               *)

LEMMA ContentAlways == ASSUME OnlyWriters PROVE Spec => []CI
<1>1. Init => CI
  BY InitType, InitHolds, ContentInit DEF CI, HI
<1>2. CI /\ [Next]_vars => CI'
  BY NextType, HoldsNext, ContentNext DEF CI, HI
<1>3. QED
  BY <1>1, <1>2, PTL DEF Spec

\* A free spot in memory is what its file says, for any number of transactions
\* and spots: the next transaction starts from what the last one settled
\* (getSpotFromStorage, storeTheSpot, resetTheSpot), as long as no cleaning is
\* due and nobody calls WriteContext.
THEOREM Coherence == ASSUME OnlyWriters PROVE Spec => []CacheCoherent
<1>1. CI => CacheCoherent
  <2> SUFFICES ASSUME CI, Quiet, NEW s \in Spots, gen[s] > 0, obj[s][gen[s]].tran_id = NoTran
               PROVE  LET c == obj[s][gen[s]]
                          unwritten == IOFails /\ c.spot \in Trans /\ fate[c.spot] = "commit"
                      IN  /\ c.be_delete # "yes"
                          /\ c.be_delete = "commit" => disk[s] = Nil \/ IOFails
                          /\ c.be_delete = "no" /\ c.spot # Nil => disk[s] = c.spot \/ unwritten
    BY DEF CacheCoherent
  <2>1. gen[s] \in Gens
    BY SpotCacheOpAssumption, InHand DEF Gens
  <2>2. Coherent(obj[s][gen[s]], disk[s])
    BY <2>1, InHand
  <2>3. QED
    BY <2>2, TransAssumption DEF Coherent, Own, Committed
<1>2. QED
  BY <1>1, ContentAlways, PTL

\* A call that has its spot for writing finds there nothing that was, or will
\* be, rolled back (askToGet, resetTheSpot), under the same conditions.
THEOREM CleanReads == ASSUME OnlyWriters PROVE Spec => []ReadsCommitted
<1>1. CI => ReadsCommitted
  <2> SUFFICES ASSUME CI, Quiet, NEW t \in Trans, call[t].pc = "got", ForWrite(call[t].op),
                      obj[call[t].spot][call[t].gen].spot \in Trans \ {t}
               PROVE  fate[obj[call[t].spot][call[t].gen].spot] = "commit"
    BY DEF ReadsCommitted
  <2> DEFINE s == call[t].spot
             b == obj[s][gen[s]]
  <2>1. HI /\ s \in Spots /\ gen[s] \in Gens /\ call[t].gen = gen[s]
    BY InHand, ServedObject
  <2>2. Coherent(b, disk[s])
    BY <2>1, InHand
  <2>3. s \in spot_cache[t]
    BY DEF CI, ContentInvariant, WritersListed
  <2>4. b.tran_id = t
    BY <2>1, <2>3, InHand DEF Occupied, Holds
  <2>5. QED
    BY <2>1, <2>2, <2>4 DEF Coherent, Own, Committed
<1>2. QED
  BY <1>1, ContentAlways, PTL

\* Only content of transactions that asked to commit ever reaches the disk
\* (storeTheSpot, resetTheSpot), under the same conditions.
THEOREM CommittedOnly == ASSUME OnlyWriters PROVE Spec => []DiskCommitted
<1>1. CI => DiskCommitted
  BY InHand DEF DiskCommitted, Committed
<1>2. QED
  BY <1>1, ContentAlways, PTL

\* Until a first cleaning is due the cache, the pool and their goroutines
\* implement ExclusiveStore: strict two-phase locking of the spots, and files
\* that change only as their occupier, which committed, gives them up.
THEOREM Implementation ==
    ASSUME OnlyWriters
    PROVE  Spec /\ []Quiet => ImplementsExclusiveStore
<1>1. Init => Abstract!Init
  BY InitImplements
<1>2. CI /\ [Next]_vars /\ Quiet' => [Abstract!Next]_<<disk, occupier, fate>>
  <2>1. UNCHANGED vars => UNCHANGED <<disk, occupier, fate>>
    BY DEF vars, cacheVars, poolVars, occupier
  <2>2. QED
    BY <2>1, NextImplements
<1>3. QED
  BY <1>1, <1>2, ContentAlways, PTL DEF Spec, ImplementsExclusiveStore, Abstract!Spec
=============================================================================
