--------------------------- MODULE ExclusiveStore --------------------------
(***************************************************************************)
(* What src/srule/trule promises of the store, without caches, signals or  *)
(* goroutines: strict two-phase locking of spots.  Each spot is occupied   *)
(* by at most one transaction at a time; a transaction takes spots only    *)
(* until it ends and gives them up only after that; and a file changes     *)
(* only when its occupier gives the spot up, into what that transaction    *)
(* wrote (or into nothing, when it deleted the spot), and only if it       *)
(* committed.  Where the disk may fail, a file may stay as it is, and what *)
(* one committed transaction could not write may come with another's.      *)
(***************************************************************************)
CONSTANTS Trans, NoTran, Orig, Nil, Spots, IOFails

VARIABLES
    disk,       \* the content of each spot's file
    owner,      \* the transaction that occupies the spot, or NoTran
    fate        \* "open" until a transaction ends with "commit" or "rollback"

Init ==
    /\ disk \in [Spots -> {Orig, Nil}]
    /\ owner = [s \in Spots |-> NoTran]
    /\ fate = [t \in Trans |-> "open"]

\* t occupies the free spot s.
Occupy(t, s) ==
    /\ fate[t] = "open"
    /\ owner[s] = NoTran
    /\ owner' = [owner EXCEPT ![s] = t]
    /\ UNCHANGED <<disk, fate>>

End(t) ==
    /\ fate[t] = "open"
    /\ \E f \in {"commit", "rollback"} : fate' = [fate EXCEPT ![t] = f]
    /\ UNCHANGED <<disk, owner>>

\* What t may leave in the file of s.
Left(t, s) ==
    IF fate[t] = "commit"
    THEN {disk[s], t, Nil} \cup IF IOFails THEN {u \in Trans : fate[u] = "commit"} ELSE {}
    ELSE {disk[s]}

\* t, which has ended, gives s up: to nobody, or to one that has not.
Settle(t, s) ==
    /\ fate[t] # "open"
    /\ owner[s] = t
    /\ \E u \in {u \in Trans : fate[u] = "open"} \cup {NoTran} :
          owner' = [owner EXCEPT ![s] = u]
    /\ \E v \in Left(t, s) : disk' = [disk EXCEPT ![s] = v]
    /\ UNCHANGED fate

Next == \E t \in Trans : End(t) \/ \E s \in Spots : Occupy(t, s) \/ Settle(t, s)

Spec == Init /\ [][Next]_<<disk, owner, fate>>
=============================================================================
