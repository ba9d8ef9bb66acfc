---------------------------- MODULE MCClaudeQueue ------------------------------
(* A small instance of ClaudeQueue for TLC.                                 *)
EXTENDS ClaudeQueue

CONSTANTS m1, m2
================================================================================
