-------------------------------- MODULE Queues --------------------------------
(***************************************************************************)
(* The queues of the chat app and of the browser: what is in one, and one  *)
(* without an entry.                                                       *)
(***************************************************************************)
EXTENDS Naturals, Sequences

Elems(s) == {s[i] : i \in 1 .. Len(s)}

\* The entries of a queue that are not this one, in their order.
Without(q, x) ==
    LET kept[n \in 0 .. Len(q)] ==
            IF n = 0 THEN <<>>
            ELSE IF q[n] = x THEN kept[n - 1] ELSE Append(kept[n - 1], q[n])
    IN  kept[Len(q)]
===============================================================================
