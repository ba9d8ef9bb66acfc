------------------------------ MODULE MCChatRebind ------------------------------
(* Small instances of ChatRebind for TLC.                                   *)
EXTENDS ChatRebind, TLC

CONSTANTS m1, m2, nothing, home, other, f1, f2
=============================================================================
