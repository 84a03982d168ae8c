----------------------------- MODULE MCMirrors -----------------------------
EXTENDS Mirrors, TLC

CONSTANTS s1, s2

TwoMirrors == <<s1, s2>>

CONSTANTS c1, c2

\* One client does whatever there is, the other writes.
EveryAndWrite == (c1 :> Callable @@ c2 :> {"WriteFather"})
=============================================================================
