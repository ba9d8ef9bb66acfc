---------------------------- MODULE MCCodexLedger ------------------------------
(* Small instances of CodexLedger for TLC.                                  *)
EXTENDS CodexLedger, TLC

CONSTANTS m1, m2, c1, f1, t1, t2, t3

\* Messages and turns are interchangeable; not used where liveness is checked.
Interchange == Permutations(Messages) \cup Permutations(Turns)
=============================================================================
