---------------------------- MODULE SpotCacheOp ----------------------------
(***************************************************************************)
(* The spot cache of src/srule/trule/spotCacheOp.go: one listener goroutine*)
(* takes signals off a buffered channel and hands each to a goroutine of   *)
(* its own (getSpotFromStorage, storeTheSpot, resetTheSpot); cleaning runs *)
(* in the listener.  Goroutines interleave at their critical sections: the *)
(* op_lock section that loads a spot, askToGet, the send on signal.re, and *)
(* the whole of storeTheSpot and resetTheSpot, which hold op_lock to their *)
(* end (waking the next waiter included).                                  *)
(*                                                                         *)
(* A spotCache object outlives its entry in the cache map, because the     *)
(* goroutines hold pointers to it: obj[s][g] is the g-th object made for   *)
(* spot s, gen[s] how many there are, and cached[s] says whether the last  *)
(* one is still in the map.                                                *)
(***************************************************************************)
EXTENDS SpotCache

CONSTANTS
    Spots,          \* the spots, each an (area, id) pair
    NoSpot,         \* no spot: the clean signal names none
    SignalLen,      \* SPOT_CACHE_SIGNAL_CHANNEL_LEN
    CleanCycle,     \* SPOT_CACHE_CLEAN_CYCLE
    MaxGen,         \* bound: objects made for one spot
    IOFails         \* whether reads and writes of the disk may fail

ASSUME SpotCacheOpAssumption ==
    /\ NoSpot \notin Spots
    /\ SignalLen \in Nat \ {0}
    /\ CleanCycle \in Nat \ {0}
    /\ MaxGen \in Nat \ {0}
    /\ IOFails \in BOOLEAN

VARIABLES
    disk,           \* local_store: the content of each spot's file
    gen,            \* objects made so far, per spot
    cached,         \* whether the map still has the last of them
    obj,            \* the spotCache objects
    signal,         \* the channel of spotCacheSig
    call,           \* per transaction: its call on a spot, and the goroutine serving it
    fin,            \* the storeTheSpot and resetTheSpot goroutines not yet run
    clean_count,    \* clean_count
    cleaners,       \* consCleanSig goroutines blocked on sending their signal
    crashed         \* a nil dereference has ended the process

cacheVars == <<disk, gen, cached, obj, signal, call, fin, clean_count, cleaners, crashed>>

Gens == 1 .. MaxGen

\* The operations of a transaction, as far as the cache tells them apart.
Ops == {"ExistSpot", "ReadField", "ReadSpot", "WriteField", "WriteContext", "StoreSpot",
        "DeleteSpot"}

\* The forwrite each gives to getSpot: WriteContext does not say that it writes.
ForWrite(op) == op \in {"ReadSpot", "WriteField", "StoreSpot", "DeleteSpot"}

\* The signals.  The tran of a store or reset is a history field: in the code
\* these signals say which spot, not whose.
Signals ==
    [ask : {"get", "write", "store", "reset"}, tran : Trans, spot : Spots]
        \cup {[ask |-> "clean", tran |-> NoTran, spot |-> NoSpot]}

\* re summarises spotCacheReturn: "ok" carries a spot, "empty" is the OK
\* without one that only an ask to write gets, "error" is an error.
Calls ==
    {c \in [ pc   : {"none", "signalled", "load", "ask", "wait", "reply", "got"},
             op   : Ops \cup {"none"},
             spot : Spots \cup {NoSpot},
             gen  : 0 .. MaxGen,
             re   : {"none", "ok", "empty", "error"} ] :
        c.op # "none" => c.spot \in Spots}

NoCall == [pc |-> "none", op |-> "none", spot |-> NoSpot, gen |-> 0, re |-> "none"]

NewCall(op, s) == [pc |-> "signalled", op |-> op, spot |-> s, gen |-> 0, re |-> "none"]

Finishers == [kind : {"store", "reset"}, tran : Trans, spot : Spots, gen : Gens]

CacheTypeOK ==
    /\ disk \in [Spots -> Content \cup {Nil}]
    /\ gen \in [Spots -> 0 .. MaxGen]
    /\ cached \in [Spots -> BOOLEAN]
    /\ \A s \in Spots : cached[s] => gen[s] > 0
    /\ obj \in [Spots -> [Gens -> SpotCaches]]
    /\ signal \in Seq(Signals) /\ Len(signal) <= SignalLen
    /\ call \in [Trans -> Calls]
    /\ fin \subseteq Finishers
    /\ clean_count \in Nat
    /\ cleaners \in Nat
    /\ crashed \in BOOLEAN

CacheInit ==
    /\ disk \in [Spots -> {Orig, Nil}]
    /\ gen = [s \in Spots |-> 0]
    /\ cached = [s \in Spots |-> FALSE]
    /\ obj = [s \in Spots |-> [g \in Gens |-> InitSpotC]]
    /\ signal = << >>
    /\ call = [t \in Trans |-> NoCall]
    /\ fin = {}
    /\ clean_count = 0
    /\ cleaners = 0
    /\ crashed = FALSE

----------------------------------------------------------------------------
(* The listener: one signal at a time, in the order of the channel.        *)

\* Faulty variant of SendSignal: the channel has room for one more.
SendSignalPastTheEnd(ask, t, s) ==
    /\ Len(signal) <= SignalLen
    /\ signal' = Append(signal, [ask |-> ask, tran |-> t, spot |-> s])

\* Send a signal, blocking while the channel is full.
SendSignal(ask, t, s) ==
    /\ Len(signal) < SignalLen
    /\ signal' = Append(signal, [ask |-> ask, tran |-> t, spot |-> s])

Receives(asks) == signal # << >> /\ Head(signal).ask \in asks

\* askGetSpot: find the spot's object, or make one, and start the goroutine
\* that serves the call.
AskGetSpot ==
    /\ Receives({"get", "write"})
    /\ LET t == Head(signal).tran
           s == Head(signal).spot
           g == IF cached[s] THEN gen[s] ELSE gen[s] + 1
       IN  /\ g <= MaxGen
           /\ gen' = [gen EXCEPT ![s] = g]
           /\ cached' = [cached EXCEPT ![s] = TRUE]
           /\ call' = [call EXCEPT ![t].pc = "load", ![t].gen = g]
    /\ signal' = Tail(signal)
    /\ UNCHANGED <<disk, obj, fin, clean_count, cleaners, crashed>>

\* askStoreSpot and askResetSpot: look the object up again, by name.  When the
\* map no longer has it the goroutine dereferences nil.
AskFinishSpot ==
    /\ Receives({"store", "reset"})
    /\ LET m == Head(signal)
       IN  IF cached[m.spot]
           THEN /\ fin' = fin \cup {[kind |-> m.ask, tran |-> m.tran,
                                     spot |-> m.spot, gen |-> gen[m.spot]]}
                /\ crashed' = crashed
           ELSE /\ fin' = fin
                /\ crashed' = TRUE
    /\ signal' = Tail(signal)
    /\ UNCHANGED <<disk, gen, cached, obj, call, clean_count, cleaners>>

\* askCleanSpots: drop the free spots nobody touched for 600 seconds.  Which
\* of the free ones are that old is a free choice.  Nothing is sent back.
AskCleanSpots ==
    /\ Receives({"clean"})
    /\ \E old \in SUBSET {s \in Spots : cached[s] /\ obj[s][gen[s]].tran_id = NoTran} :
          /\ \A s \in old : gen[s] < MaxGen
          /\ cached' = [s \in Spots |-> cached[s] /\ s \notin old]
    /\ signal' = Tail(signal)
    /\ UNCHANGED <<disk, gen, obj, call, fin, clean_count, cleaners, crashed>>

\* consCleanSig.  It then waits for an answer nobody sends: clean_count = 0
\* after it is never reached.
ConsCleanSig ==
    /\ cleaners > 0
    /\ SendSignal("clean", NoTran, NoSpot)
    /\ cleaners' = cleaners - 1
    /\ UNCHANGED <<disk, gen, cached, obj, call, fin, clean_count, crashed>>

----------------------------------------------------------------------------
(* getSpotFromStorage, the goroutine of a get or write.                    *)

\* clean_count++ is not synchronised: an increment made while another
\* goroutine makes its own (they hold the op_locks of different objects) can
\* be lost.
Counted(t) ==
    {clean_count + 1} \cup
    {clean_count : u \in {u \in Trans \ {t} : call[u].pc = "load"}}

\* The op_lock section: load the spot unless the object has it already.  The
\* answer is settled here, before the call has its turn in the queue.
LoadSpot(t) ==
    LET s == call[t].spot
        g == call[t].gen
        Answer(re) == call' = [call EXCEPT ![t].pc = "ask", ![t].re = re]
    IN  /\ call[t].pc = "load"
        /\ \/ \* known already
              /\ obj[s][g].exist \/ obj[s][g].spot # Nil
              /\ Answer("ok")
              /\ UNCHANGED <<obj, clean_count>>
           \/ \* on disk
              /\ ~obj[s][g].exist /\ obj[s][g].spot = Nil
              /\ disk[s] # Nil
              /\ obj' = [obj EXCEPT ![s][g] = [@ EXCEPT !.spot = disk[s], !.exist = TRUE]]
              /\ Answer("ok")
              /\ clean_count' \in Counted(t)
           \/ \* nowhere, or unreadable
              /\ ~obj[s][g].exist /\ obj[s][g].spot = Nil
              /\ disk[s] = Nil \/ IOFails
              /\ IF call[t].op = "StoreSpot"
                 THEN /\ Answer("empty")
                      /\ clean_count' \in Counted(t)
                 ELSE /\ Answer("error")
                      /\ clean_count' = clean_count
              /\ obj' = obj
        /\ UNCHANGED <<disk, gen, cached, signal, fin, cleaners, crashed>>

\* askToGet, whatever the answer above was.
AskForSpot(t) ==
    LET s == call[t].spot
        g == call[t].gen
        w == [tran |-> t, forwrite |-> ForWrite(call[t].op)]
    IN  /\ call[t].pc = "ask"
        /\ obj' = [obj EXCEPT ![s][g] = AskToGet(@, w)]
        /\ call' = [call EXCEPT ![t].pc = IF Grants(obj[s][g], w) THEN "reply" ELSE "wait"]
        /\ UNCHANGED <<disk, gen, cached, signal, fin, clean_count, cleaners, crashed>>

\* The send on signal.re, and the check whether to clean after it.
Reply(t) ==
    /\ call[t].pc = "reply"
    /\ cleaners' = IF clean_count >= CleanCycle THEN cleaners + 1 ELSE cleaners
    /\ UNCHANGED <<disk, gen, cached, obj, signal, fin, clean_count, crashed>>

----------------------------------------------------------------------------
(* storeTheSpot and resetTheSpot.                                          *)

\* What the disk may hold for f's spot after the goroutine tried to make it v.
Written(s, v) == {[disk EXCEPT ![s] = v]} \cup IF IOFails THEN {disk} ELSE {}

\* Release f's object, changed to c, and wake the first in its queue.
Release(f, c) ==
    /\ obj' = [obj EXCEPT ![f.spot][f.gen] = AskToRelease(c)]
    /\ call' = IF Woken(c) = NoTran THEN call
                                    ELSE [call EXCEPT ![Woken(c)].pc = "reply"]
    /\ fin' = fin \ {f}

\* storeTheSpot: write what was changed, or delete what was deleted, and
\* release.  Errors are only logged; be_change stays set.
StoreTheSpot(f) ==
    LET c == obj[f.spot][f.gen]
    IN  /\ f \in fin /\ f.kind = "store"
        /\ IF c.be_delete = "no"
           THEN /\ disk' \in IF c.be_change THEN Written(f.spot, c.spot) ELSE {disk}
                /\ Release(f, c)
           ELSE /\ disk' \in Written(f.spot, Nil)
                /\ Release(f, [c EXCEPT !.be_delete = "commit"])
        /\ UNCHANGED <<gen, cached, signal, clean_count, cleaners, crashed>>

\* Faulty variant of Restored: a spot that cannot be read stays as it is.
RestoredOrKept(s, c) ==
    IF ~c.exist THEN {Nil} ELSE {disk[s]} \cup IF IOFails THEN {c.spot} ELSE {}

\* What a reset makes of a changed spot: nothing if the object never found the
\* spot on disk, otherwise what the disk has now (nil if that cannot be read).
Restored(s, c) ==
    IF ~c.exist THEN {Nil} ELSE {disk[s]} \cup IF IOFails THEN {Nil} ELSE {}

\* Faulty variant of ResetTheSpot: the deletion mark stays.
ResetTheSpotKeepsMark(f) ==
    LET c == obj[f.spot][f.gen]
    IN  /\ f \in fin /\ f.kind = "reset"
        /\ \E v \in IF c.be_change THEN Restored(f.spot, c) ELSE {c.spot} :
              Release(f, [c EXCEPT !.spot = v, !.be_change = FALSE])
        /\ UNCHANGED <<disk, gen, cached, signal, clean_count, cleaners, crashed>>

\* resetTheSpot: undo the change and the deletion mark, and release.
ResetTheSpot(f) ==
    LET c == obj[f.spot][f.gen]
    IN  /\ f \in fin /\ f.kind = "reset"
        /\ \E v \in IF c.be_change THEN Restored(f.spot, c) ELSE {c.spot} :
              Release(f, [c EXCEPT !.spot = v, !.be_change = FALSE, !.be_delete = "no"])
        /\ UNCHANGED <<disk, gen, cached, signal, clean_count, cleaners, crashed>>

CacheStep ==
    \/ AskGetSpot
    \/ AskFinishSpot
    \/ AskCleanSpots
    \/ ConsCleanSig
    \/ \E t \in Trans : LoadSpot(t) \/ AskForSpot(t)
    \/ \E f \in fin : StoreTheSpot(f) \/ ResetTheSpot(f)
=============================================================================
