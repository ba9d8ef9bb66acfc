------------------------------ MODULE MCAgyQueue -------------------------------
(* Small instances of AgyQueue for TLC.                                     *)
EXTENDS AgyQueue, TLC

CONSTANTS m1, m2, o1, s1, s2, k1, k2

\* Messages are interchangeable; not used where liveness is checked.
Interchange == Permutations(Messages)
=============================================================================
