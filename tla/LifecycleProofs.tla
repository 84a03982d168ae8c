-------------------------- MODULE LifecycleProofs --------------------------
(***************************************************************************)
(* Theorems about TRuleLifecycle, for any finite set of clients, any       *)
(* lengths of the channels and any number of starts.                       *)
(***************************************************************************)
EXTENDS TRuleLifecycle, FiniteSetTheorems, TLAPS

\* The clients whose transaction is in the pool.
InPool == {c \in Clients : client[c] \in {"open", "asking", "ending"}}

\* count_transaction counts the pool, and each signal to the pool is that of one
\* client that waits for its answer.
PoolCounted ==
    /\ count_transaction = Cardinality(InPool)
    /\ \A i \in 1 .. Len(tsignal) : client[tsignal[i]] \in {"beginning", "ending"}
    /\ \A i, j \in 1 .. Len(tsignal) : tsignal[i] = tsignal[j] => i = j

\* A closed pool has no listener.
ClosedUnserved == closed = 2 => checking + selecting = 0

LifecycleInvariant == TypeOK /\ PoolCounted /\ OnePoolListener /\ ClosedUnserved /\ PoolServed

----------------------------------------------------------------------------
(* The count of the pool.                                                  *)

\* A client enters the pool, leaves it, or does neither.
LEMMA InPoolFinite ==
    ASSUME client \in [Clients -> {"new", "beginning", "open", "asking", "ending",
                                   "storing", "stored", "over"}]
    PROVE  /\ IsFiniteSet(InPool)
           /\ Cardinality(InPool) \in 0 .. Cardinality(Clients)
           /\ Cardinality(Clients) \in Nat
<1>1. InPool \in SUBSET Clients
  BY DEF InPool
<1>2. IsFiniteSet(InPool) /\ Cardinality(InPool) <= Cardinality(Clients)
  BY <1>1, LifecycleAssumption, FS_Subset
<1>3. Cardinality(InPool) \in Nat /\ Cardinality(Clients) \in Nat
  BY <1>2, LifecycleAssumption, FS_CardinalityType
<1>4. QED
  BY <1>2, <1>3

LEMMA InPoolChanges ==
    ASSUME TypeOK, NEW c \in Clients, NEW to, client' = [client EXCEPT ![c] = to]
    PROVE  /\ to \in {"open", "asking", "ending"} => InPool' = InPool \cup {c}
           /\ to \notin {"open", "asking", "ending"} => InPool' = InPool \ {c}
BY DEF InPool, TypeOK

----------------------------------------------------------------------------
(* The steps.                                                              *)

\* The initial states satisfy the invariant.
LEMMA LifecycleInit == Init => LifecycleInvariant
<1> SUFFICES ASSUME Init PROVE LifecycleInvariant
  OBVIOUS
<1>1. InPool = {}
  BY DEF Init, InPool
<1>2. Cardinality(InPool) = 0
  BY <1>1, FS_EmptySet
<1>3. TypeOK
  BY LifecycleAssumption, FS_CardinalityType DEF Init, TypeOK
<1>4. QED
  BY <1>2, <1>3 DEF Init, LifecycleInvariant, PoolCounted, OnePoolListener, ClosedUnserved, PoolServed

\* Start and Stop, the close signals and the check at the top of the loop leave the
\* clients alone, and move one listener.
LEMMA AdminStep ==
    ASSUME LifecycleInvariant,
           Start \/ Stop \/ PoolCloseSig \/ CacheCloseSig \/ StopClean \/ PoolCheck
    PROVE  LifecycleInvariant'
<1> USE LifecycleAssumption DEF LifecycleInvariant
<1>1. UNCHANGED <<client, took, tsignal, count_transaction>>
  BY Zenon DEF Start, Stop, PoolCloseSig, CacheCloseSig, StopClean, PoolCheck
<1>2. signal' = signal \/ (signal' = Append(signal, Clean) /\ Len(signal) < SignalLen)
  BY Zenon DEF Start, Stop, PoolCloseSig, CacheCloseSig, StopClean, PoolCheck
<1>3. PoolCounted'
  BY <1>1 DEF PoolCounted, InPool
<1>4. signal' \in Seq(Clients \cup {Clean}) /\ Len(signal') <= SignalLen
  BY <1>2 DEF TypeOK
<1>5. /\ work_status' \in {"paused", "running", "pauseing"} /\ closed' \in {0, 1, 2}
      /\ checking' \in Nat /\ selecting' \in Nat /\ spotListeners' \in Nat
      /\ starts' \in 0 .. MaxStarts
      /\ stopper' \in {"none", "pool", "cache", "clean", "answer"}
      /\ OnePoolListener' /\ ClosedUnserved' /\ PoolServed'
  <2> USE DEF TypeOK, OnePoolListener, ClosedUnserved, PoolServed
  <2>1. CASE Start
    BY <2>1 DEF Start
  <2>2. CASE Stop
    BY <2>2 DEF Stop
  <2>3. CASE PoolCloseSig
    BY <2>3 DEF PoolCloseSig
  <2>4. CASE CacheCloseSig
    BY <2>4 DEF CacheCloseSig
  <2>5. CASE StopClean
    BY <2>5 DEF StopClean
  <2>6. CASE PoolCheck
    BY <2>6 DEF PoolCheck
  <2>7. QED
    BY <2>1, <2>2, <2>3, <2>4, <2>5, <2>6
<1>6. TypeOK'
  BY <1>1, <1>4, <1>5 DEF TypeOK
<1>7. QED
  BY <1>3, <1>5, <1>6

\* A signal taken by the pool's listener: the client enters the pool or leaves it.
LEMMA PoolSignalStep == LifecycleInvariant /\ PoolSignal => LifecycleInvariant'
<1> SUFFICES ASSUME LifecycleInvariant, PoolSignal PROVE LifecycleInvariant'
  OBVIOUS
<1> USE LifecycleAssumption DEF LifecycleInvariant
<1> DEFINE c == Head(tsignal)
           to == IF client[c] = "beginning" THEN "open"
                 ELSE IF took[c] THEN "storing" ELSE "over"
<1>1. /\ tsignal \in Seq(Clients) /\ tsignal # << >>
      /\ c \in Clients /\ 1 \in 1 .. Len(tsignal) /\ tsignal[1] = c
      /\ Tail(tsignal) \in Seq(Clients) /\ Len(Tail(tsignal)) = Len(tsignal) - 1
      /\ \A i \in 1 .. Len(Tail(tsignal)) :
            i \in Nat /\ i + 1 \in 1 .. Len(tsignal) /\ Tail(tsignal)[i] = tsignal[i + 1]
  BY DEF PoolSignal, TypeOK
<1>2. /\ client' = [client EXCEPT ![c] = to]
      /\ tsignal' = Tail(tsignal)
      /\ selecting > 0 /\ selecting' = selecting - 1 /\ checking' = checking + 1
      /\ UNCHANGED <<work_status, closed, spotListeners, stopper, starts, took, signal>>
      /\ count_transaction' = IF client[c] = "beginning" THEN count_transaction + 1
                                                         ELSE count_transaction - 1
  BY DEF PoolSignal
<1>3. client[c] \in {"beginning", "ending"}
  BY <1>1 DEF PoolCounted
<1>4. client' \in [Clients -> {"new", "beginning", "open", "asking", "ending",
                               "storing", "stored", "over"}]
  BY <1>1, <1>2 DEF TypeOK
<1>5. count_transaction' = Cardinality(InPool')
  <2>1. IsFiniteSet(InPool) /\ Cardinality(InPool) \in Nat
    BY InPoolFinite DEF TypeOK
  <2>2. CASE client[c] = "beginning"
    <3>1. c \notin InPool /\ InPool' = InPool \cup {c}
      BY <1>1, <1>2, <2>2, InPoolChanges DEF InPool
    <3>2. QED
      BY <1>2, <2>1, <2>2, <3>1, FS_AddElement DEF PoolCounted
  <2>3. CASE client[c] = "ending"
    <3>1. to \in {"storing", "over"}
      BY <2>3
    <3>2. c \in InPool /\ InPool' = InPool \ {c}
      BY <1>1, <1>2, <2>3, <3>1, InPoolChanges DEF InPool
    <3>3. QED
      BY <1>2, <2>1, <2>3, <3>2, FS_RemoveElement DEF PoolCounted
  <2>4. QED
    BY <1>3, <2>2, <2>3
<1>6. \A i \in 1 .. Len(tsignal') : tsignal'[i] # c /\ client'[tsignal'[i]] \in {"beginning", "ending"}
  <2> SUFFICES ASSUME NEW i \in 1 .. Len(Tail(tsignal))
               PROVE  Tail(tsignal)[i] # c /\ client'[Tail(tsignal)[i]] \in {"beginning", "ending"}
    BY <1>2
  <2>1. i + 1 \in 1 .. Len(tsignal) /\ i + 1 # 1 /\ Tail(tsignal)[i] = tsignal[i + 1]
    BY <1>1
  <2>2. tsignal[i + 1] # c
    BY <1>1, <2>1 DEF PoolCounted
  <2>3. tsignal[i + 1] \in Clients
    BY <1>1, <2>1
  <2>4. client'[tsignal[i + 1]] = client[tsignal[i + 1]]
    BY <1>2, <2>2, <2>3 DEF TypeOK
  <2>5. QED
    BY <2>1, <2>2, <2>4 DEF PoolCounted
<1>7. \A i, j \in 1 .. Len(tsignal') : tsignal'[i] = tsignal'[j] => i = j
  BY <1>1, <1>2 DEF PoolCounted
<1>8. PoolCounted'
  BY <1>5, <1>6, <1>7 DEF PoolCounted
<1>9. count_transaction' \in 0 .. Cardinality(Clients)
  <2>1. IsFiniteSet(InPool') /\ Cardinality(InPool') \in 0 .. Cardinality(Clients)
    <3>1. InPool' \in SUBSET Clients
      BY DEF InPool
    <3>2. QED
      BY <3>1, FS_Subset, FS_CardinalityType
  <2>2. QED
    BY <1>5, <2>1
<1>10. checking' \in Nat /\ selecting' \in Nat /\ checking' + selecting' = checking + selecting
       /\ checking' + selecting' > 0 /\ Len(tsignal') <= TranSignalLen /\ tsignal' \in Seq(Clients)
  BY <1>1, <1>2 DEF TypeOK
<1>11. TypeOK'
  BY <1>2, <1>4, <1>9, <1>10 DEF TypeOK
<1>12. OnePoolListener' /\ ClosedUnserved' /\ PoolServed'
  BY <1>2, <1>10 DEF OnePoolListener, ClosedUnserved, PoolServed
<1>13. QED
  BY <1>8, <1>11, <1>12

\* A client that does not enter the pool, or leave it, and is not in the channel.
LEMMA ClientMoves ==
    ASSUME LifecycleInvariant, NEW c \in Clients, NEW to,
           client' = [client EXCEPT ![c] = to],
           to \in {"beginning", "open", "asking", "ending", "stored"},
           client[c] \in {"open", "asking", "ending"} <=> to \in {"open", "asking", "ending"},
           client[c] \notin {"beginning", "ending"},
           UNCHANGED <<tsignal, count_transaction>> \/
               (tsignal' = Append(tsignal, c) /\ to \in {"beginning", "ending"}
                   /\ count_transaction' = count_transaction)
    PROVE  PoolCounted' /\ client' \in [Clients -> {"new", "beginning", "open", "asking", "ending",
                                                     "storing", "stored", "over"}]
<1> USE DEF LifecycleInvariant
<1>1. InPool' = InPool
  BY DEF InPool, TypeOK
<1>2. \A i \in 1 .. Len(tsignal) : tsignal[i] # c /\ tsignal[i] \in Clients
  BY DEF PoolCounted, TypeOK
<1>3. \A i \in 1 .. Len(tsignal) : client'[tsignal[i]] = client[tsignal[i]]
  BY <1>2 DEF TypeOK
<1>4. client'[c] = to
  BY DEF TypeOK
<1>5. CASE UNCHANGED <<tsignal, count_transaction>>
  BY <1>1, <1>3, <1>5 DEF PoolCounted, TypeOK
<1>6. CASE tsignal' = Append(tsignal, c) /\ to \in {"beginning", "ending"}
           /\ count_transaction' = count_transaction
  <2>1. /\ Len(tsignal') = Len(tsignal) + 1 /\ Len(tsignal) \in Nat
        /\ \A i \in 1 .. Len(tsignal') :
              \/ i \in 1 .. Len(tsignal) /\ tsignal'[i] = tsignal[i]
              \/ i = Len(tsignal) + 1 /\ tsignal'[i] = c
    BY <1>6 DEF TypeOK
  <2>2. \A i \in 1 .. Len(tsignal') : client'[tsignal'[i]] \in {"beginning", "ending"}
    BY <1>3, <1>4, <1>6, <2>1 DEF PoolCounted
  <2>3. \A i, j \in 1 .. Len(tsignal') : tsignal'[i] = tsignal'[j] => i = j
    BY <1>2, <2>1 DEF PoolCounted
  <2>4. QED
    BY <1>1, <1>6, <2>2, <2>3 DEF PoolCounted, TypeOK
<1>7. QED
  BY <1>5, <1>6

\* The cache's listener answers a call, or does what the clients do not wait for.
LEMMA CacheSignalStep == LifecycleInvariant /\ CacheSignal => LifecycleInvariant'
<1> SUFFICES ASSUME LifecycleInvariant, CacheSignal PROVE LifecycleInvariant'
  OBVIOUS
<1> USE LifecycleAssumption DEF LifecycleInvariant
<1>1. /\ UNCHANGED <<adminVars, tsignal, count_transaction>>
      /\ signal' \in Seq(Clients \cup {Clean}) /\ Len(signal') <= SignalLen
      /\ Head(signal) \in Clients \cup {Clean}
  BY DEF CacheSignal, TypeOK
<1>2. OnePoolListener' /\ ClosedUnserved' /\ PoolServed'
  BY <1>1 DEF adminVars, OnePoolListener, ClosedUnserved, PoolServed
<1>3. CASE Head(signal) # Clean /\ client[Head(signal)] = "asking"
  <2>1. /\ Head(signal) \in Clients
        /\ client' = [client EXCEPT ![Head(signal)] = "open"]
        /\ took' = [took EXCEPT ![Head(signal)] = TRUE]
    BY <1>1, <1>3 DEF CacheSignal
  <2>2. PoolCounted' /\ client' \in [Clients -> {"new", "beginning", "open", "asking", "ending",
                                                 "storing", "stored", "over"}]
    BY <1>1, <1>3, <2>1, ClientMoves
  <2>3. TypeOK'
    BY <1>1, <2>1, <2>2 DEF TypeOK, adminVars
  <2>4. QED
    BY <1>2, <2>2, <2>3
<1>4. CASE ~(Head(signal) # Clean /\ client[Head(signal)] = "asking")
  <2>1. UNCHANGED <<client, took>>
    BY <1>4 DEF CacheSignal
  <2>2. TypeOK' /\ PoolCounted'
    BY <1>1, <2>1 DEF TypeOK, adminVars, PoolCounted, InPool
  <2>3. QED
    BY <1>2, <2>2
<1>5. QED
  BY <1>3, <1>4

\* A client's signal, to the pool or to the cache.
LEMMA ClientStep ==
    ASSUME LifecycleInvariant, NEW c \in Clients,
           Begin(c) \/ End(c) \/ Take(c) \/ GotoCommit(c)
    PROVE  LifecycleInvariant'
<1> USE LifecycleAssumption DEF LifecycleInvariant
<1>1. /\ UNCHANGED <<adminVars, took, count_transaction>>
      /\ \/ tsignal' = Append(tsignal, c) /\ Len(tsignal) < TranSignalLen /\ UNCHANGED signal
         \/ signal' = Append(signal, c) /\ Len(signal) < SignalLen /\ UNCHANGED tsignal
  BY DEF Begin, End, Take, GotoCommit, PoolCall, CacheCall
<1>2. /\ signal' \in Seq(Clients \cup {Clean}) /\ Len(signal') <= SignalLen
      /\ tsignal' \in Seq(Clients) /\ Len(tsignal') <= TranSignalLen
  <2>1. CASE tsignal' = Append(tsignal, c) /\ Len(tsignal) < TranSignalLen /\ UNCHANGED signal
    BY <2>1 DEF TypeOK
  <2>2. CASE signal' = Append(signal, c) /\ Len(signal) < SignalLen /\ UNCHANGED tsignal
    BY <2>2 DEF TypeOK
  <2>3. QED
    BY <1>1, <2>1, <2>2
<1>3. OnePoolListener' /\ ClosedUnserved' /\ PoolServed'
  BY <1>1 DEF adminVars, OnePoolListener, ClosedUnserved, PoolServed
<1>4. PoolCounted' /\ client' \in [Clients -> {"new", "beginning", "open", "asking", "ending",
                                               "storing", "stored", "over"}]
  <2>1. CASE Begin(c)
    BY <2>1, ClientMoves DEF Begin, PoolCall
  <2>2. CASE End(c)
    BY <2>2, ClientMoves DEF End, PoolCall
  <2>3. CASE Take(c)
    BY <2>3, ClientMoves DEF Take, CacheCall
  <2>4. CASE GotoCommit(c)
    BY <2>4, ClientMoves DEF GotoCommit, CacheCall
  <2>5. QED
    BY <2>1, <2>2, <2>3, <2>4
<1>5. TypeOK'
  BY <1>1, <1>2, <1>4 DEF TypeOK, adminVars
<1>6. QED
  BY <1>3, <1>4, <1>5

LEMMA LifecycleNext == LifecycleInvariant /\ [Next]_vars => LifecycleInvariant'
<1> SUFFICES ASSUME LifecycleInvariant, [Next]_vars PROVE LifecycleInvariant'
  OBVIOUS
<1>1. CASE Next
  BY <1>1, AdminStep, PoolSignalStep, CacheSignalStep, ClientStep DEF Next
<1>2. CASE UNCHANGED vars
  BY <1>2 DEF vars, adminVars, LifecycleInvariant, TypeOK, PoolCounted, InPool,
              OnePoolListener, ClosedUnserved, PoolServed
<1>3. QED
  BY <1>1, <1>2

----------------------------------------------------------------------------
(* Theorems.                                                               *)

LEMMA LifecycleCorrect == Spec => []LifecycleInvariant
BY LifecycleInit, LifecycleNext, PTL DEF Spec

\* Every state is well typed, the count of transactions never falls below zero or
\* exceeds the clients, and the channels never hold more than their length (Start,
\* Stop, both listen, and the calls of the clients).
THEOREM LifecycleType == Spec => []TypeOK
<1>1. LifecycleInvariant => TypeOK
  BY DEF LifecycleInvariant
<1>2. QED
  BY <1>1, LifecycleCorrect, PTL

\* Two listeners never serve one pool (Start, closesig, listen).
THEOREM OneListener == Spec => []OnePoolListener
<1>1. LifecycleInvariant => OnePoolListener
  BY DEF LifecycleInvariant
<1>2. QED
  BY <1>1, LifecycleCorrect, PTL

\* While a transaction is in the pool a listener is there to end it (listen).
THEOREM AlwaysServed == Spec => []PoolServed
<1>1. LifecycleInvariant => PoolServed
  BY DEF LifecycleInvariant
<1>2. QED
  BY <1>1, LifecycleCorrect, PTL
=============================================================================
