--------------------------- MODULE TRuleInvariant --------------------------
(***************************************************************************)
(* An inductive invariant of TRule that implies OccupiedByHolder.  That    *)
(* property alone is not inductive: a release may free a spot only because *)
(* the releasing goroutine is the last trace of its transaction's hold on  *)
(* it, and may pass the spot on only because the place at the head of the  *)
(* queue belongs to a goroutine that still waits there.  Each part below   *)
(* says that about one of the places where a hold or a wait is recorded.   *)
(***************************************************************************)
EXTENDS TRule

\* A transaction does one thing at a time: call, be begun or ended by the
\* listener, or have its spots finished.
OneThingAtATime ==
    /\ \A t \in Trans : call[t].pc # "none" => client[t] = "calling" /\ fate[t] = "open"
    /\ \A t \in Trans : going[t] => client[t] = "ending" /\ fate[t] # "open"
    /\ \A i \in 1 .. Len(tsignal) :
          /\ client[tsignal[i].tran] = IF tsignal[i].ask = "begin" THEN "beginning" ELSE "ending"
          /\ ~going[tsignal[i].tran]
    /\ \A i, j \in 1 .. Len(tsignal) : tsignal[i].tran = tsignal[j].tran => i = j

IsAsk(m) == m.ask \in {"get", "write"}

IsFinish(m) == m.ask \in {"store", "reset"}

\* A get or write in the channel is that of a call that waits for nothing else.
AsksAwaited ==
    /\ \A i \in 1 .. Len(signal) : IsAsk(signal[i]) =>
          /\ call[signal[i].tran].pc = "signalled"
          /\ call[signal[i].tran].spot = signal[i].spot
    /\ \A i, j \in 1 .. Len(signal) :
          IsAsk(signal[i]) /\ IsAsk(signal[j]) /\ signal[i].tran = signal[j].tran => i = j

\* Each place in the queue of object g of spot s is that of one of the given
\* calls, which waits there, and each call has at most one place.
Awaited(places, s, g, theCalls) ==
    /\ \A i \in 1 .. Len(places) :
          LET c == theCalls[places[i].tran]
          IN  /\ c.pc = "wait" /\ c.spot = s /\ c.gen = g
              /\ places[i].forwrite = ForWrite(c.op)
    /\ \A i, j \in 1 .. Len(places) : places[i].tran = places[j].tran => i = j

PlacesAwaited ==
    \A s \in Spots, g \in Gens : Awaited(obj[s][g].wait_line, s, g, call)

\* What a transaction has taken is released once: the spot is in its
\* spot_cache, or a signal of it is in the channel, or a goroutine has it.
ReleasedOnce ==
    /\ \A t \in Trans, s \in Spots : Finishing(t, s) => fate[t] # "open" /\ s \notin spot_cache[t]
    /\ \A i, j \in 1 .. Len(signal) :
          /\ IsFinish(signal[i]) /\ IsFinish(signal[j])
          /\ signal[i].tran = signal[j].tran /\ signal[i].spot = signal[j].spot
          => i = j
    /\ \A i \in 1 .. Len(signal), f \in fin :
          IsFinish(signal[i]) => ~(signal[i].tran = f.tran /\ signal[i].spot = f.spot)
    /\ \A f, h \in fin : f.tran = h.tran /\ f.spot = h.spot => f = h

\* Until the first cleaning no signal asks for one, the map has every object
\* that was made, everybody works on that one, and those who hold a spot, or
\* are about to be told so, are its occupiers.
OneObjectEach ==
    /\ cleaners = 0
    /\ \A i \in 1 .. Len(signal) : signal[i].ask # "clean"
    /\ \A s \in Spots : gen[s] > 0 => cached[s]
    /\ \A t \in Trans : call[t].pc \notin {"none", "signalled"} =>
          /\ call[t].spot \in Spots
          /\ gen[call[t].spot] > 0
          /\ call[t].gen = gen[call[t].spot]
    /\ \A f \in fin : f.gen = gen[f.spot]

Occupied ==
    /\ \A t \in Trans, s \in Spots :
          Holds(t, s) => gen[s] > 0 /\ obj[s][gen[s]].tran_id = t
    /\ \A t \in Trans : call[t].pc = "reply" /\ ForWrite(call[t].op) =>
          obj[call[t].spot][call[t].gen].tran_id = t

\* Each hold on a spot and each wait for one is recorded in exactly one place,
\* the one where the code will look for it, on its way from the client through
\* the channels to the goroutine that ends it.
HoldsInvariant ==
    /\ OneThingAtATime
    /\ AsksAwaited
    /\ PlacesAwaited
    /\ ReleasedOnce
    /\ Quiet => OneObjectEach /\ Occupied
=============================================================================
