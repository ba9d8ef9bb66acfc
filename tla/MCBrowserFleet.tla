---------------------------- MODULE MCBrowserFleet -----------------------------
(* Small instances of BrowserFleet for TLC.                                 *)
EXTENDS BrowserFleet, TLC

CONSTANTS b1, b2, o1, o2, o3, p1, p2

\* Names, objects and requests are interchangeable.
Interchange == Permutations(Names) \cup Permutations(Objects) \cup Permutations(Callers)
=============================================================================
