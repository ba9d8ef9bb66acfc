------------------------------ MODULE CodexLedger ------------------------------
(***************************************************************************)
(* The message ledger of one codex agent (harnesses/codex/ledger.py), with *)
(* the threads that call it and the app-server daemon it talks to.         *)
(*                                                                         *)
(* Threads.  Every POST runs `send` on a thread of its own and every press *)
(* of the tap button runs `shoulder_tap`; both block inside ONE request to *)
(* the daemon.  A Stop runs `interrupt`, which never blocks.  Frames that  *)
(* arrive while a request is outstanding are handled by the thread that    *)
(* holds the client's frame lock, all others by the reader thread.  A      *)
(* method is one action up to the point where it blocks.                   *)
(*                                                                         *)
(* The daemon and the client library are external: they are modelled from  *)
(* how ledger.py, live_connection.py and ledger_test.py use them.          *)
(***************************************************************************)
EXTENDS Naturals, Sequences

CONSTANTS
    Messages,        \* client ids of the messages the user sends
    Combined,        \* client ids a shoulder tap mints, one per tap
    Foreign,         \* ids of messages typed into the --remote TUI
    Turns,           \* turn ids the daemon may open (a bound)
    MaxStops,        \* how often the user presses Stop (a bound)
    NoId, NoTurn,
    Refusable,       \* requests the daemon may refuse
    Races,           \* which of the races below may happen
    TurnFrames       \* does the daemon emit turn/started and turn/completed?

\* "overtake": a frame is handled before the thread of a call that has its
\* reply acts on it.  "tapCommit": the daemon commits a steer on its own while
\* a tap is re-sending it.  "tapContended": another send, or the TUI, opens a
\* turn between a tap's interrupt and its resend, or just before them.
RaceKinds == {"overtake", "tapCommit", "tapContended"}

Ids == Messages \cup Combined \cup Foreign

ASSUME IdsAssumption ==
    /\ Messages \cap Combined = {} /\ Messages \cap Foreign = {}
    /\ Combined \cap Foreign = {} /\ NoId \notin Ids
    /\ NoTurn \notin Turns
    /\ Refusable \subseteq Messages \cup Combined

ASSUME BoundsAssumption ==
    MaxStops \in Nat /\ Races \subseteq RaceKinds /\ TurnFrames \in BOOLEAN

VARIABLES
    \* The ledger: one entry per message, plus its own fields.
    state, boundTurn, combinedId, resendVisible,
    reconciledTurns, handedOff, generation, pendingUserTurns,
    \* What the ledger has pushed to the chat page and to the composer.
    chips, userTurns, copies,
    \* The client library: the turn it believes is running.
    activeTurn,
    \* The calls in progress (a send per message, a tap per combined id).
    pc, ackTurn, genAtCall, members, stops,
    \* The daemon and the two FIFO channels to and from it.
    requests, frames, turn, accepted, thread, opened

ledgerVars == <<state, boundTurn, combinedId, resendVisible, reconciledTurns,
                handedOff, generation, pendingUserTurns>>
pushedVars == <<chips, userTurns, copies>>
callVars   == <<pc, ackTurn, genAtCall, members, stops>>
daemonVars == <<turn, accepted, thread, opened>>
vars == <<ledgerVars, pushedVars, activeTurn, callVars, requests, frames,
          daemonVars>>

Callers == Messages \cup Combined
EntryStates == {"none", "sending", "queued", "delivered", "returned"}
CallStates == {"ready", "flipped", "waiting", "inRpc",
               "started", "steered", "refused", "done", "failed"}

Outcomes == {"started", "steered", "refused"}

Request ==
    [kind : {"start", "steer"}, id : Callers, turn : Turns \cup {NoTurn}]
    \cup [kind : {"interrupt"}, id : {NoId}, turn : Turns]

Frame ==
    [kind : {"reply"}, id : Callers, turn : Turns \cup {NoTurn}, status : Outcomes]
    \cup [kind : {"started"}, turn : Turns]
    \cup [kind : {"commit"}, id : Ids]
    \cup [kind : {"completed"}, turn : Turns, full : BOOLEAN, items : SUBSET Ids,
          status : {"completed", "interrupted", "failed"}]
    \cup [kind : {"idle"}]

ReplyTo(c, t, status) == [kind |-> "reply", id |-> c, turn |-> t, status |-> status]

TypeOK ==
    /\ state \in [Messages -> EntryStates]
    /\ boundTurn \in [Messages -> Turns \cup {NoTurn}]
    /\ combinedId \in [Messages -> Combined \cup {NoId}]
    /\ resendVisible \subseteq Messages
    /\ reconciledTurns \subseteq Turns
    /\ handedOff \subseteq Messages
    /\ generation \in Nat
    /\ pendingUserTurns \subseteq Ids
    /\ chips \subseteq Messages
    /\ userTurns \subseteq Ids
    /\ copies \in [Messages -> Nat]
    /\ activeTurn \in Turns \cup {NoTurn}
    /\ pc \in [Callers -> CallStates]
    /\ ackTurn \in [Callers -> Turns \cup {NoTurn}]
    /\ genAtCall \in [Messages -> Nat]
    /\ members \in [Combined -> SUBSET Messages]
    /\ stops \in 0..MaxStops
    /\ requests \in Seq(Request)
    /\ frames \in Seq(Frame)
    /\ turn \in Turns \cup {NoTurn}
    /\ accepted \subseteq Ids
    /\ thread \subseteq Ids
    /\ opened \subseteq Turns

\* A connection is built on an idle thread; a new ledger has no entries.
Init ==
    /\ state = [m \in Messages |-> "none"]
    /\ boundTurn = [m \in Messages |-> NoTurn]
    /\ combinedId = [m \in Messages |-> NoId]
    /\ resendVisible = {} /\ reconciledTurns = {} /\ handedOff = {}
    /\ generation = 0 /\ pendingUserTurns = {}
    /\ chips = {} /\ userTurns = {} /\ copies = [m \in Messages |-> 0]
    /\ activeTurn = NoTurn
    /\ pc = [c \in Callers |-> "ready"]
    /\ ackTurn = [c \in Callers |-> NoTurn]
    /\ genAtCall = [m \in Messages |-> 0]
    /\ members = [c \in Combined |-> {}]
    /\ stops = 0
    /\ requests = <<>> /\ frames = <<>>
    /\ turn = NoTurn /\ accepted = {} /\ thread = {} /\ opened = {}

-------------------------------------------------------------------------------
(* Operators over the entries.                                              *)

Live == {m \in Messages : state[m] \in {"sending", "queued"}}
IsSending == \E m \in Messages : state[m] = "sending"
Queued == {m \in Messages : state[m] = "queued"}
TapsInProgress == {c \in Combined : pc[c] \notin {"ready", "done"}}

\* queued_snapshot: the chips on screen, parked steers and visible resends.
QueuedSnapshot(st, resend) ==
    {m \in Messages : \/ st[m] = "queued"
                      \/ st[m] = "sending" /\ m \in resend}

\* The entries after D is delivered and R is returned.
Settled(D, R) ==
    [m \in Messages |-> IF m \in D THEN "delivered"
                        ELSE IF m \in R THEN "returned" ELSE state[m]]

\* _committed_key: the committed id that delivers m, its own before its group's.
Committed(m, evidence) == m \in evidence \/ combinedId[m] \in evidence
CommittedKey(m, evidence) == IF m \in evidence THEN m ELSE combinedId[m]

\* The members of a tap's resend that are still live (_resend_group).
ResendGroup(id) == {m \in Live : combinedId[m] = id /\ id # NoId}

\* _take_returned_block: the returned text, each message handed back once.
Returned(st) == {m \in Messages : st[m] = "returned"}

NotYetHandedOff(st) == Returned(st) \ handedOff

HandBack(st) ==
    /\ handedOff' = handedOff \cup NotYetHandedOff(st)
    /\ copies' = [m \in Messages |-> IF m \in NotYetHandedOff(st)
                                     THEN copies[m] + 1 ELSE copies[m]]

\* A call's own thread flushes every user turn that waits.
FlushNow == /\ userTurns' = userTurns \cup pendingUserTurns
            /\ pendingUserTurns' = {}

\* interrupt_nowait on the turn the client knows, if any.
EndedUnguarded == {activeTurn}   \* a fault: no check that a turn is running
Ended == {activeTurn} \ {NoTurn}

EndActiveTurn ==
    /\ activeTurn' = NoTurn
    /\ reconciledTurns' = reconciledTurns \cup Ended
    /\ requests' = IF Ended = {} THEN requests
                   ELSE Append(requests, [kind |-> "interrupt", id |-> NoId,
                                          turn |-> activeTurn])

-------------------------------------------------------------------------------
(* send                                                                     *)

\* The entry exists, as Sending, before the request is made.
BeginSend(m) ==
    /\ pc[m] = "ready"
    /\ state' = [state EXCEPT ![m] = "sending"]
    /\ genAtCall' = [genAtCall EXCEPT ![m] = generation]
    /\ pc' = [pc EXCEPT ![m] = "waiting"]
    /\ UNCHANGED <<boundTurn, combinedId, resendVisible, reconciledTurns,
                   handedOff, generation, pendingUserTurns, pushedVars,
                   activeTurn, ackTurn, members, stops, requests, frames,
                   daemonVars>>

\* client.submit: under the frame lock, a steer of the turn the client knows
\* or else a fresh turn.  The reader holds the lock while it runs a handler.
Submit(c) ==
    /\ pc[c] = "waiting"
    /\ pendingUserTurns = {}
    /\ \A d \in Callers : pc[d] # "inRpc"
    /\ "tapContended" \in Races \/ c \in Combined \/ TapsInProgress = {}
    /\ pc' = [pc EXCEPT ![c] = "inRpc"]
    /\ requests' = Append(requests,
                          [kind |-> IF activeTurn = NoTurn THEN "start" ELSE "steer",
                           id |-> c, turn |-> activeTurn])
    /\ UNCHANGED <<ledgerVars, pushedVars, activeTurn, ackTurn, genAtCall,
                   members, stops, frames, daemonVars>>

\* A steer is Queued, whatever it was before; a started turn decides nothing.
AckAsDelivery(m) == IF pc[m] = "steered" THEN "queued" ELSE "delivered"  \* a fault
AckedState(m) == IF pc[m] = "steered" THEN "queued" ELSE state[m]

\* The late-submit guard: an interrupt ran while the submit was in flight.
NeverRaced(m) == FALSE                                                   \* a fault
RacedByInterrupt(m) == generation # genAtCall[m]

\* The daemon accepted.
SendAccepted(m) ==
    /\ pc[m] \in {"started", "steered"}
    /\ boundTurn' = [boundTurn EXCEPT ![m] = ackTurn[m]]
    /\ state' = [state EXCEPT ![m] =
                    IF RacedByInterrupt(m) /\ AckedState(m) \in {"sending", "queued"}
                    THEN "returned" ELSE AckedState(m)]
    /\ pc' = [pc EXCEPT ![m] = "done"]
    /\ chips' = QueuedSnapshot(state', resendVisible)
    /\ UNCHANGED <<combinedId, resendVisible, reconciledTurns, handedOff,
                   generation, pendingUserTurns, userTurns, copies, activeTurn,
                   ackTurn, genAtCall, members, stops, requests, frames,
                   daemonVars>>

AnyRefusal(m) == TRUE                                        \* a fault
StillSending(m) == state[m] = "sending"

\* The daemon refused.  Only an entry nothing else settled is dropped and
\* the error raised, whose response puts the text back in the composer.
SendRefused(m) ==
    /\ pc[m] = "refused"
    /\ \/ /\ StillSending(m)
          /\ state' = [state EXCEPT ![m] = "none"]
          /\ copies' = [copies EXCEPT ![m] = @ + 1]
          /\ pc' = [pc EXCEPT ![m] = "failed"]
       \/ /\ ~StillSending(m)
          /\ pc' = [pc EXCEPT ![m] = "done"]
          /\ UNCHANGED <<state, copies>>
    /\ UNCHANGED <<boundTurn, combinedId, resendVisible, reconciledTurns,
                   handedOff, generation, pendingUserTurns, chips, userTurns,
                   activeTurn, ackTurn, genAtCall, members, stops, requests,
                   frames, daemonVars>>

-------------------------------------------------------------------------------
(* shoulder_tap and interrupt                                               *)

\* Steps 1 and 2: the queue becomes visible resends, the running turn ends.
TapFlip(c) ==
    /\ pc[c] = "ready"
    /\ ~IsSending
    /\ Queued # {}
    /\ "tapCommit" \in Races \/ Queued \cap thread = {}
    /\ \/ "tapContended" \in Races
       \/ /\ turn \in {activeTurn, NoTurn}
          /\ \A i \in DOMAIN frames : frames[i].kind # "started"
    /\ pc' = [pc EXCEPT ![c] = "flipped"]
    /\ members' = [members EXCEPT ![c] = Queued]
    /\ generation' = generation + 1
    /\ state' = [m \in Messages |-> IF m \in Queued THEN "sending" ELSE state[m]]
    /\ resendVisible' = resendVisible \cup Queued
    /\ chips' = QueuedSnapshot(state', resendVisible')
    /\ EndActiveTurn
    /\ UNCHANGED <<boundTurn, combinedId, handedOff, pendingUserTurns, userTurns,
                   copies, ackTurn, genAtCall, stops, frames, daemonVars>>

\* Steps 3 and 4: what is still a resend gets the tap's combined id.
TapCombine(c) ==
    /\ pc[c] = "flipped"
    /\ LET remaining == {m \in members[c] : state[m] = "sending" /\ m \in resendVisible}
       IN /\ members' = [members EXCEPT ![c] = remaining]
          /\ combinedId' = [m \in Messages |-> IF m \in remaining THEN c
                                               ELSE combinedId[m]]
          /\ \/ /\ remaining = {}
                /\ pc' = [pc EXCEPT ![c] = "done"]
                /\ chips' = QueuedSnapshot(state, resendVisible)
                /\ FlushNow
             \/ /\ remaining # {}
                /\ pc' = [pc EXCEPT ![c] = "waiting"]
                /\ UNCHANGED <<chips, userTurns, pendingUserTurns>>
    /\ UNCHANGED <<state, boundTurn, resendVisible, reconciledTurns, handedOff,
                   generation, copies, activeTurn, ackTurn, genAtCall, stops,
                   requests, frames, daemonVars>>

\* The combined turn was accepted: it is the members' turn now.
TapAccepted(c) ==
    /\ pc[c] \in {"started", "steered"}
    /\ boundTurn' = [m \in Messages |-> IF m \in members[c] THEN ackTurn[c]
                                        ELSE boundTurn[m]]
    /\ pc' = [pc EXCEPT ![c] = "done"]
    /\ chips' = QueuedSnapshot(state, resendVisible)
    /\ FlushNow
    /\ UNCHANGED <<state, combinedId, resendVisible, reconciledTurns, handedOff,
                   generation, copies, activeTurn, ackTurn, genAtCall, members,
                   stops, requests, frames, daemonVars>>

\* The resend failed: every member is Returned and handed back.
TapRefused(c) ==
    /\ pc[c] = "refused"
    /\ state' = Settled({}, members[c])
    /\ resendVisible' = resendVisible \ members[c]
    /\ combinedId' = [m \in Messages |-> IF m \in members[c] THEN NoId
                                         ELSE combinedId[m]]
    /\ pc' = [pc EXCEPT ![c] = "done"]
    /\ chips' = QueuedSnapshot(state', resendVisible')
    /\ FlushNow
    /\ HandBack(state')
    /\ UNCHANGED <<boundTurn, reconciledTurns, generation, activeTurn, ackTurn,
                   genAtCall, members, stops, requests, frames, daemonVars>>

\* interrupt: everything live is Returned and handed back at once; the abort
\* of the turn is sent and not waited for.
Stop ==
    /\ stops < MaxStops
    /\ stops' = stops + 1
    /\ generation' = generation + 1
    /\ state' = Settled({}, Live)
    /\ resendVisible' = resendVisible \ Live
    /\ EndActiveTurn
    /\ chips' = QueuedSnapshot(state', resendVisible')
    /\ FlushNow
    /\ HandBack(state')
    /\ UNCHANGED <<boundTurn, combinedId, pc, ackTurn, genAtCall, members,
                   frames, daemonVars>>

-------------------------------------------------------------------------------
(* handle_notification: one frame, its reducer, then the queue snapshot; the *)
(* user turns follow in FlushUserTurns, before the next frame is handled.    *)

\* Whether the reader side may take the next frame off the channel.
MayHandle(kind) ==
    /\ frames # <<>>
    /\ Head(frames).kind = kind
    /\ pendingUserTurns = {}
    /\ \/ "overtake" \in Races
       \/ \A c \in Callers : pc[c] \notin {"started", "steered", "refused"}

StaleSnapshot(D) == QueuedSnapshot(state, resendVisible)   \* a fault
ChipsAfter(D) == QueuedSnapshot(state', resendVisible \ D)

\* Entries D are delivered with one user turn per key, entries R returned.
Settle(D, R, keys) ==
    /\ state' = Settled(D, R)
    /\ resendVisible' = resendVisible \ D
    /\ chips' = ChipsAfter(D)
    /\ pendingUserTurns' = keys \ userTurns

HandlerFrame ==
    UNCHANGED <<boundTurn, combinedId, handedOff, generation, userTurns, copies,
                genAtCall, members, stops, requests, daemonVars>>

\* The reply ends the outstanding request; its thread acts on it later.
HandleReply ==
    /\ MayHandle("reply")
    /\ LET f == Head(frames) IN
       /\ pc[f.id] = "inRpc"
       /\ pc' = [pc EXCEPT ![f.id] = f.status]
       /\ ackTurn' = [ackTurn EXCEPT ![f.id] = f.turn]
       /\ activeTurn' = IF f.status = "started" THEN f.turn ELSE activeTurn
    /\ frames' = Tail(frames)
    /\ UNCHANGED <<state, resendVisible, reconciledTurns, pendingUserTurns, chips>>
    /\ HandlerFrame

HandleTurnStarted ==
    /\ MayHandle("started")
    /\ activeTurn' = Head(frames).turn
    /\ frames' = Tail(frames)
    /\ Settle({}, {}, {})
    /\ UNCHANGED <<reconciledTurns, pc, ackTurn>>
    /\ HandlerFrame

\* _on_item_completed for a userMessage: an own entry, even a returned one; a
\* live resend group; or a foreign turn, shown but never an entry.
HandleItemCompleted ==
    /\ MayHandle("commit")
    /\ LET id == Head(frames).id
           own == {m \in Messages : m = id /\ state[m] \notin {"none", "delivered"}}
           known == \E m \in Messages : m = id /\ state[m] # "none"
       IN \/ own # {} /\ Settle(own, {}, {id})
          \/ own = {} /\ ResendGroup(id) # {} /\ Settle(ResendGroup(id), {}, {id})
          \/ own = {} /\ ResendGroup(id) = {} /\ ~known /\ Settle({}, {}, {id})
          \/ own = {} /\ ResendGroup(id) = {} /\ known /\ Settle({}, {}, {})
    /\ frames' = Tail(frames)
    /\ UNCHANGED <<reconciledTurns, activeTurn, pc, ackTurn>>
    /\ HandlerFrame

\* The committed ids a handler may go by: a full item view; nothing at all for
\* an aborted turn; or a thread/read, which may fail and then confirms nothing.
Evidence(f) ==
    IF f.full THEN {f.items}
    ELSE IF f.status \in {"interrupted", "failed"} THEN {{}}
    ELSE {thread, {}}

UncommittedStay(owned, D) == {}     \* a fault: nothing is ever Returned
Uncommitted(owned, D) == owned \ D

SettleAgainst(owned, evidence) ==
    LET D == {m \in owned : Committed(m, evidence)}
    IN Settle(D, Uncommitted(owned, D), {CommittedKey(m, evidence) : m \in D})

\* _reconcile: every live entry bound to the turn, once per turn.
HandleTurnCompleted ==
    /\ MayHandle("completed")
    /\ LET f == Head(frames) IN
       /\ activeTurn' = IF activeTurn = f.turn THEN NoTurn ELSE activeTurn
       /\ \/ /\ f.turn \in reconciledTurns
             /\ Settle({}, {}, {})
          \/ /\ f.turn \notin reconciledTurns
             /\ \E evidence \in Evidence(f) :
                   SettleAgainst({m \in Live : boundTurn[m] = f.turn}, evidence)
       /\ reconciledTurns' = reconciledTurns \cup {f.turn}
    /\ frames' = Tail(frames)
    /\ UNCHANGED <<pc, ackTurn>>
    /\ HandlerFrame

\* _sweep_idle: whatever is live and not a tap's resend is settled.
HandleIdle ==
    /\ MayHandle("idle")
    /\ activeTurn' = NoTurn
    /\ \E evidence \in {thread, {}} : SettleAgainst(Live \ resendVisible, evidence)
    /\ frames' = Tail(frames)
    /\ UNCHANGED <<reconciledTurns, pc, ackTurn>>
    /\ HandlerFrame

\* _flush_user_turns: the committed turns follow the chip removal.
FlushUserTurns ==
    /\ pendingUserTurns # {}
    /\ FlushNow
    /\ UNCHANGED <<state, boundTurn, combinedId, resendVisible, reconciledTurns,
                   handedOff, generation, chips, copies, activeTurn, callVars,
                   requests, frames, daemonVars>>

-------------------------------------------------------------------------------
(* The daemon (external).  It serves requests in order, commits accepted     *)
(* messages to its thread and reports what it does on one ordered stream.    *)

ServesNext(kind) ==
    /\ requests # <<>>
    /\ Head(requests).kind = kind
    /\ requests' = Tail(requests)

ClientFrame == UNCHANGED <<ledgerVars, pushedVars, activeTurn, callVars>>

\* turn/completed, where the daemon emits it, and then the idle status.
TurnEnds(status, full) ==
    LET done == [kind |-> "completed", turn |-> turn, status |-> status,
                 full |-> full, items |-> IF full THEN thread ELSE {}]
    IN /\ turn' = NoTurn
       /\ accepted' = {}
       /\ frames' = frames \o (IF TurnFrames THEN <<done>> ELSE <<>>)
                           \o <<[kind |-> "idle"]>>

StartedNotice(t) == IF TurnFrames THEN <<[kind |-> "started", turn |-> t]>> ELSE <<>>

DaemonStarts ==
    /\ ServesNext("start")
    /\ turn = NoTurn
    /\ \E t \in Turns \ opened :
          /\ turn' = t
          /\ opened' = opened \cup {t}
          /\ frames' = frames \o StartedNotice(t)
                              \o <<ReplyTo(Head(requests).id, t, "started")>>
    /\ accepted' = {Head(requests).id}
    /\ UNCHANGED thread
    /\ ClientFrame

DaemonSteers ==
    /\ ServesNext("steer")
    /\ turn = Head(requests).turn
    /\ accepted' = accepted \cup {Head(requests).id}
    /\ frames' = Append(frames, ReplyTo(Head(requests).id, turn, "steered"))
    /\ UNCHANGED <<turn, thread, opened>>
    /\ ClientFrame

\* A refusal: by the daemon's choice, or of a request it has no turn for.
DaemonRefuses ==
    /\ \/ ServesNext("start") /\ Head(requests).id \in Refusable
       \/ ServesNext("steer") /\ (turn # Head(requests).turn
                                  \/ Head(requests).id \in Refusable)
    /\ frames' = Append(frames, ReplyTo(Head(requests).id, NoTurn, "refused"))
    /\ UNCHANGED daemonVars
    /\ ClientFrame

DaemonAborts ==
    /\ ServesNext("interrupt")
    /\ \/ turn = Head(requests).turn /\ TurnEnds("interrupted", FALSE)
       \/ turn # Head(requests).turn /\ UNCHANGED <<turn, accepted, frames>>
    /\ UNCHANGED <<thread, opened>>
    /\ ClientFrame

BeingResent(id) == \E c \in TapsInProgress : id \in members[c]

DaemonCommits ==
    /\ \E id \in accepted :
          /\ "tapCommit" \in Races \/ ~BeingResent(id)
          /\ accepted' = accepted \ {id}
          /\ thread' = thread \cup {id}
          /\ frames' = Append(frames, [kind |-> "commit", id |-> id])
    /\ UNCHANGED <<turn, opened, requests>>
    /\ ClientFrame

DaemonEndsTurn ==
    /\ turn # NoTurn
    /\ \E status \in {"completed", "failed"}, full \in BOOLEAN : TurnEnds(status, full)
    /\ UNCHANGED <<thread, opened, requests>>
    /\ ClientFrame

\* A human types into the TUI: a turn of its own, with a foreign message.
ForeignTurn ==
    /\ turn = NoTurn
    /\ "tapContended" \in Races \/ TapsInProgress = {}
    /\ \E t \in Turns \ opened, id \in Foreign \ thread :
          /\ turn' = t
          /\ opened' = opened \cup {t}
          /\ accepted' = {id}
          /\ frames' = frames \o StartedNotice(t)
    /\ UNCHANGED <<thread, requests>>
    /\ ClientFrame

-------------------------------------------------------------------------------
Calls ==
    \/ \E m \in Messages : SendAccepted(m) \/ SendRefused(m)
    \/ \E c \in Combined : TapCombine(c) \/ TapAccepted(c) \/ TapRefused(c)
    \/ \E c \in Callers : Submit(c)

Handlers ==
    \/ HandleReply \/ HandleTurnStarted \/ HandleItemCompleted
    \/ HandleTurnCompleted \/ HandleIdle \/ FlushUserTurns

Serves == DaemonStarts \/ DaemonSteers \/ DaemonRefuses \/ DaemonAborts

User == Stop \/ (\E m \in Messages : BeginSend(m)) \/ (\E c \in Combined : TapFlip(c))

Next == User \/ Calls \/ Handlers \/ Serves \/ DaemonCommits \/ DaemonEndsTurn
        \/ ForeignTurn

Spec == Init /\ [][Next]_vars

\* The threads run, the daemon serves its requests and no turn runs for ever;
\* the user need not do anything and a message need not be committed.
Fairness == /\ WF_vars(Calls) /\ WF_vars(Handlers) /\ WF_vars(Serves)
            /\ WF_vars(DaemonEndsTurn)

FairSpec == Spec /\ Fairness

-------------------------------------------------------------------------------
(* Properties.                                                              *)

HasCommitted(m) == m \in thread \/ combinedId[m] \in thread

\* Nothing is under way between the chat, its calls and the daemon.
Quiet == /\ frames = <<>> /\ requests = <<>> /\ pendingUserTurns = {}
         /\ \A c \in Callers : pc[c] \in {"ready", "done", "failed"}

\* A message is Delivered, or shown as a turn, only once the daemon's thread
\* holds it: an ack, a full turn or a lost read never stands in for the commit.
DeliveredIsCommitted ==
    /\ \A m \in Messages : state[m] = "delivered" => HasCommitted(m)
    /\ userTurns \cup pendingUserTurns \subseteq thread

\* The text of a message comes back to the composer at most once, over all
\* the Stops, failed taps and failed POSTs that may each bring it back.
HandedBackOnce == \A m \in Messages : copies[m] <= 1

\* A message on screen as a chip is not on screen as a turn (contract A3b).
NotChipAndTurn ==
    \A m \in chips : m \notin userTurns /\ combinedId[m] \notin userTurns

\* When nothing is under way, a queued chip stands for a steer the daemon
\* still holds; in particular the queue is empty while the daemon is idle.
NoPhantomChip == Quiet => Queued \subseteq accepted

\* What the page shows as waiting is waiting: no chip beside its own turn, none
\* the daemon has let go of.
ChipsAreTrue == NotChipAndTurn /\ NoPhantomChip

\* No accepted message stays Sending or Queued for ever.
Resolves == \A m \in Messages : (m \in Live) ~> (m \notin Live)

\* The ledger implements the message lifecycle.
Lifecycle == INSTANCE MessageLifecycle
    WITH committed <- {m \in Messages : HasCommitted(m)}
LifecycleSpec == Lifecycle!LifecycleSpec
=============================================================================
