---------------------------- MODULE MCAppLifecycle -----------------------------
(* Small instances of AppLifecycle for TLC.                                 *)
EXTENDS AppLifecycle, TLC

CONSTANTS a1, a2, w1, w2

\* Threads are interchangeable; not used where liveness is checked.
Interchange == Permutations(Wakers)
=============================================================================
