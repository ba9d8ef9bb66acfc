---------------------------- MODULE MCChatHandoff ----------------------------
(* A small instance of ChatHandoff for TLC.                                 *)
EXTENDS ChatHandoff

CONSTANTS m1, m2, nothing, home, other
==============================================================================
