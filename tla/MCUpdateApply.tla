----------------------------- MODULE MCUpdateApply -----------------------------
(* Small instances of UpdateApply for TLC.                                  *)
EXTENDS UpdateApply, TLC

CONSTANTS m1, m2, w1, a1, a2
=============================================================================
