---------------------------- MODULE MCBrowserLease -----------------------------
(* Small instances of BrowserLease for TLC.                                 *)
EXTENDS BrowserLease, TLC

CONSTANTS a1, a2, a3

\* Agents are interchangeable; not used where liveness is checked.
Interchange == Permutations(Agents)
=============================================================================
