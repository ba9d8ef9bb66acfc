--------------------------- MODULE MessageLifecycle ----------------------------
(***************************************************************************)
(* What a chat promises about the messages a user sends, whatever the      *)
(* harness: the states of core-contracts/messages-lifecycle-contract.md,   *)
(* Part A, and the operations of Part B, without any of a harness's        *)
(* machinery.  CodexLedger is shown to implement it.                       *)
(*                                                                         *)
(* Two moves go beyond the contract, where the code does.  Returned ->     *)
(* Delivered: a commit that a Stop could not see yet overrides what the    *)
(* Stop returned (ledger.py's "committed truth").  Returned -> Queued: a   *)
(* message swept to Returned while its send was in flight is parked after  *)
(* all, which is allowed as long as its text has not been handed back.     *)
(***************************************************************************)
EXTENDS Naturals

CONSTANT Messages

VARIABLES state,      \* the state each message is in; "none" is the composer
          committed,  \* the messages the agent's conversation holds
          copies      \* how often a message's text came back to the composer

mlVars == <<state, committed, copies>>

LiveStates == {"sending", "queued"}
LiveMessages == {m \in Messages : state[m] \in LiveStates}

LifecycleInit ==
    /\ state = [m \in Messages |-> "none"]
    /\ committed = {}
    /\ copies = [m \in Messages |-> 0]

Move(S, to) == state' = [m \in Messages |-> IF m \in S THEN to ELSE state[m]]

\* A text that has never come back may leave the composer.
Accept(m) ==
    /\ state[m] = "none" /\ copies[m] = 0
    /\ Move({m}, "sending")
    /\ UNCHANGED <<committed, copies>>

\* The harness never took it: the failed POST brings the text back.
Refuse(m) ==
    /\ state[m] = "sending"
    /\ Move({m}, "none")
    /\ copies' = [copies EXCEPT ![m] = 1]
    /\ UNCHANGED committed

Park(m) ==
    /\ \/ state[m] = "sending"
       \/ state[m] = "returned" /\ copies[m] = 0
    /\ Move({m}, "queued")
    /\ UNCHANGED <<committed, copies>>

Commit(S) ==
    /\ committed' = committed \cup S
    /\ UNCHANGED <<state, copies>>

\* Reconcile per id: committed -> Delivered, the rest of R -> Returned.
Reconcile(D, R) ==
    /\ D \subseteq committed /\ R \subseteq LiveMessages \ D
    /\ \A m \in D : state[m] \in LiveStates \cup {"returned"}
    /\ state' = [m \in Messages |-> IF m \in D THEN "delivered"
                                    ELSE IF m \in R THEN "returned" ELSE state[m]]
    /\ UNCHANGED <<committed, copies>>

\* A tap re-sends the whole queue, and only when nothing is Sending.
Tap ==
    /\ \A m \in Messages : state[m] # "sending"
    /\ Move(LiveMessages, "sending")
    /\ UNCHANGED <<committed, copies>>

\* A Stop returns everything that is not Delivered, each text once.
Interrupt ==
    /\ Move(LiveMessages, "returned")
    /\ copies' = [m \in Messages |-> IF state'[m] = "returned" THEN 1 ELSE copies[m]]
    /\ UNCHANGED committed

\* A failed resend returns what it was re-sending, and all else that waits.
ResendFails(R) ==
    /\ R \subseteq LiveMessages
    /\ Move(R, "returned")
    /\ copies' = [m \in Messages |-> IF state'[m] = "returned" THEN 1 ELSE copies[m]]
    /\ UNCHANGED committed

LifecycleNext ==
    \/ \E m \in Messages : Accept(m) \/ Refuse(m) \/ Park(m)
    \/ \E S \in SUBSET Messages : Commit(S)
    \/ \E D, R \in SUBSET Messages : Reconcile(D, R)
    \/ \E R \in SUBSET Messages : ResendFails(R)
    \/ Tap \/ Interrupt

LifecycleSpec == LifecycleInit /\ [][LifecycleNext]_mlVars
=============================================================================
