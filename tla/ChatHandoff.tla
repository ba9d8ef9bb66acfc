------------------------------ MODULE ChatHandoff ------------------------------
(***************************************************************************)
(* The handoff (chat_handoffs.py): a chat moves from its agent to a new    *)
(* one on another account.  The working state is on the chat's record,     *)
(* which survives the chat app; the runner that carries the steps out, the *)
(* tracked agents and the requests do not.                                 *)
(*                                                                         *)
(* A record read or write under the manager's lock is one step.  What      *)
(* blocks is a step of its own: the drain, the summary, each mngr verb,    *)
(* each delivery.  The chat's agents are numbered by their seq; an account *)
(* stands for its harness too.  A chat app that dies starts again at once. *)
(*                                                                         *)
(* mngr, the agents and the people who write to the chat are external.     *)
(***************************************************************************)
EXTENDS Naturals, Sequences, FiniteSets, Queues

CONSTANTS
    Messages,        \* what is sent to the chat
    Nothing,         \* no message, no account
    Accounts, Home,  \* the accounts; the one the chat starts on
    MaxHandoffs, MaxCrashes, MaxRetries, MaxPosts,   \* bounds
    MaxMoves,       \* a bound on crashes, and on handoffs and retries as two each
    Races            \* which of the interleavings below may happen

\* "lateSend": a send that found no handoff has not reached its agent when the
\*   drain runs.            "lateCalls": a chat is moved while the sends of a
\*   handoff called off are still on their way to the agent it stayed on.
\* "repost": a send answered 202 is posted again after it left the held list.
\* "crashInHand": the app dies while it carries a text no store holds.
\* "promptCrash": it dies between the prompt's delivery and the note of it.
\* "staleSuccessor": the app dies before a retry's discard, mngr refuses the
\*   discard, or lists a half-made successor of another account after it.
\* "blindStart": the app starts and cannot read the agent list.
\* "resumedDrain": a runner resumed by a start finds text in the agent's queue.
\* "destroyMidSwitch": the chat is destroyed under a switch, or the reverse, or
\*   before its half-made successor is listed.
RaceKinds == {"lateSend", "lateCalls", "repost", "crashInHand", "promptCrash",
              "staleSuccessor", "blindStart", "resumedDrain", "destroyMidSwitch"}

ASSUME HandoffAssumption ==
    /\ Nothing \notin Messages /\ Nothing \notin Accounts /\ Home \in Accounts
    /\ MaxHandoffs \in Nat /\ MaxCrashes \in Nat /\ MaxRetries \in Nat
    /\ MaxPosts \in Nat \ {0} /\ MaxMoves \in Nat /\ Races \subseteq RaceKinds

VARIABLES
    \* The chat record: its entries, their ends and accounts, its handoff.
    members, ended, account, handoff,
    \* The app: tracked agents, runners, the sends of a handoff called off,
    \* sends on their way to an agent.
    seen, pc, hand, block, asked, calls, flight,
    \* mngr and its agents.
    proc, runsOn, renamed, picked, inbox, turns,
    \* The writers: posts of each message, what is back in the composer.
    posts, composer,
    \* Given up with a warning in the log; held sends as they were accepted.
    forgone, log,
    \* Counters, and the chat's end.
    begun, crashes, retries, doomed, destroyed

recordVars == <<members, ended, account, handoff>>
threadVars == <<pc, hand, block, asked>>
agentVars == <<proc, runsOn, renamed, picked, inbox, turns>>
clientVars == <<posts, composer, log>>
countVars == <<begun, crashes, retries, doomed, destroyed>>
Moves == 2 * begun + crashes + 2 * retries
vars == <<recordVars, seen, threadVars, calls, flight, agentVars, clientVars,
          forgone, countVars>>

Handoffs == 1 .. MaxHandoffs
Agents == 1 .. MaxHandoffs + 1

\* What an agent receives: a message, or a handoff prompt carrying one.
Items == [prompt : BOOLEAN, msg : Messages \cup {Nothing}]
Plain(m) == [prompt |-> FALSE, msg |-> m]
Prompt(m) == [prompt |-> TRUE, msg |-> m]
Texts(s) == {s[i].msg : i \in 1 .. Len(s)} \ {Nothing}

Phases == {"none", "draining", "summarizing", "switching", "failed"}
NoHandoff == [id |-> 0, phase |-> "none", retiring |-> 0, target |-> Nothing,
              trigger |-> Nothing, held |-> <<>>, built |-> FALSE, told |-> FALSE,
              fresh |-> FALSE, pick |-> FALSE]
Converging == handoff.phase # "none"
Successor == handoff.retiring + 1                     \* next_agent_id
Current(h) == handoff.id = h /\ Converging        \* the handoff is still the chat's
Got(a) == turns[a] \o inbox[a]

Init ==
    /\ members = 1 /\ ended = {} /\ handoff = NoHandoff
    /\ account = [a \in Agents |-> IF a = 1 THEN Home ELSE Nothing]
    /\ runsOn = account
    /\ \E up \in {"up", "down"}, old \in {<<>>, <<Plain(Nothing)>>} :
          /\ proc = [a \in Agents |-> IF a = 1 THEN up ELSE "none"]
          /\ turns = [a \in Agents |-> IF a = 1 THEN old ELSE <<>>]
          /\ seen = [a \in Agents |-> IF a = 1 THEN up ELSE "untracked"]
    /\ pc = [h \in Handoffs |-> "idle"] /\ hand = [h \in Handoffs |-> Nothing]
    /\ block = [h \in Handoffs |-> <<>>] /\ asked = [h \in Handoffs |-> FALSE]
    /\ calls = [to |-> 0, msgs |-> <<>>] /\ flight = [m \in Messages |-> 0]
    /\ renamed = {} /\ picked = {} /\ inbox = [a \in Agents |-> <<>>]
    /\ posts = [m \in Messages |-> 0] /\ composer = {} /\ log = <<>>
    /\ forgone = {} /\ begun = 0 /\ crashes = 0 /\ retries = 0
    /\ doomed = {} /\ destroyed = FALSE

\* A delivery that lands: the agent is started by it if it has to be.
Reaches(a, item) ==
    /\ proc[a] # "none"
    /\ inbox' = [inbox EXCEPT ![a] = Append(@, item)]
    /\ proc' = [proc EXCEPT ![a] = "up"]
    /\ seen' = [seen EXCEPT ![a] = IF @ = "untracked" THEN @ ELSE "up"]
    /\ UNCHANGED <<runsOn, renamed, picked, turns>>

\* deliver_held_send: a refusal is logged, and the sends behind it go on.
DeliverHeld(a, item) ==
    \/ Reaches(a, item) /\ UNCHANGED forgone
    \/ forgone' = forgone \cup {item} /\ UNCHANGED <<seen, agentVars>>

-----------------------------------------------------------------------------
\* Sends.

HoldingFirst(m) == [handoff EXCEPT !.held = <<m>> \o @]      \* a fault
Holding(m) == [handoff EXCEPT !.held = Append(@, m)]

\* A send while the chat converges: held on the record, once for its id.
HoldSend(m) ==
    /\ Converging /\ ~destroyed /\ seen[members] # "untracked" /\ posts[m] < MaxPosts
    /\ posts[m] > 0 => m \in Elems(log)           \* a 202 that got lost
    /\ posts' = [posts EXCEPT ![m] = @ + 1]
    /\ IF m = handoff.trigger \/ m \in Elems(handoff.held)
       THEN UNCHANGED <<handoff, log>>
       ELSE /\ posts[m] = 0 \/ "repost" \in Races
            /\ handoff' = Holding(m)
            /\ log' = Append(log, m)
    /\ UNCHANGED <<members, ended, account, seen, threadVars, calls, flight, agentVars,
                   composer, forgone, countVars>>

\* A send to a chat that is not converging resolves its active agent...
ResolveSend(m) ==
    /\ ~Converging /\ ~destroyed /\ doomed = {} /\ posts[m] < MaxPosts
    /\ seen[members] # "untracked"
    /\ posts[m] = 0 \/ (m \in Elems(log) /\ "repost" \in Races)
    /\ posts' = [posts EXCEPT ![m] = @ + 1]
    /\ flight' = [flight EXCEPT ![m] = members]
    /\ UNCHANGED <<recordVars, seen, threadVars, calls, agentVars, composer, log,
                   forgone, countVars>>

\* ...and is handed to it, or answered with its refusal.
SendLands(m) ==
    /\ flight[m] # 0
    /\ flight' = [flight EXCEPT ![m] = 0]
    /\ \/ Reaches(flight[m], Plain(m)) /\ UNCHANGED composer
       \/ composer' = composer \cup {m} /\ UNCHANGED <<seen, agentVars>>
    /\ UNCHANGED <<recordVars, threadVars, calls, posts, log, forgone, countVars>>

-----------------------------------------------------------------------------
\* The verbs of the page: switch, cancel, retry.

Opened(h, target, trigger, pick) ==
    [id |-> h, phase |-> "draining", retiring |-> members, target |-> target,
     trigger |-> trigger, held |-> IF trigger = Nothing THEN <<>> ELSE <<trigger>>,
     built |-> FALSE, told |-> FALSE, fresh |-> turns[members] = <<>>, pick |-> pick]

BeginHandoff(h, target, trigger, pick) ==
    /\ h = begun + 1 /\ ~Converging /\ ~destroyed /\ Moves + 2 <= MaxMoves
    /\ seen[members] # "untracked" /\ account[members] # target
    /\ trigger \in Messages => posts[trigger] = 0
    /\ calls.msgs = <<>> \/ "lateCalls" \in Races
    /\ doomed = {} \/ "destroyMidSwitch" \in Races
    /\ handoff' = Opened(h, target, trigger, pick)
    /\ posts' = [m \in Messages |-> posts[m] + IF m = trigger THEN 1 ELSE 0]
    /\ log' = IF trigger = Nothing THEN log ELSE Append(log, trigger)
    /\ begun' = h
    /\ pc' = [pc EXCEPT ![h] = "drain"] /\ asked' = [asked EXCEPT ![h] = TRUE]
    /\ UNCHANGED <<members, ended, account, seen, hand, block, calls, flight, agentVars,
                   composer, forgone, crashes, retries, doomed, destroyed>>

AllHeld == handoff.held                                      \* a fault
\* held_sends_after_trigger
Others == Without(handoff.held, handoff.trigger)

UnfailedPhases == {"draining", "summarizing", "switching"}   \* a fault
CancellablePhases == {"draining", "summarizing"}

CancelHandoff ==
    /\ handoff.phase \in CancellablePhases /\ ~destroyed
    /\ composer' = composer \cup ({handoff.trigger} \ {Nothing})
    /\ calls' = [to |-> members, msgs |-> calls.msgs \o Others]
    /\ handoff' = NoHandoff
    /\ UNCHANGED <<members, ended, account, seen, threadVars, flight, agentVars, posts,
                   log, forgone, countVars>>

\* The sends of a handoff called off go to the agent the chat stayed on.
DeliverCall ==
    /\ calls.msgs # <<>>
    /\ DeliverHeld(calls.to, Plain(Head(calls.msgs)))
    /\ calls' = [calls EXCEPT !.msgs = Tail(@)]
    /\ UNCHANGED <<recordVars, threadVars, flight, clientVars, countVars>>

\* A successor an earlier attempt made stays only on its own account.
DiscardsPicked(target) ==                                    \* a fault
    target # handoff.target /\ handoff.pick /\ seen[Successor] # "untracked"
Discards(target) == target # handoff.target /\ seen[Successor] # "untracked"

RetryHandoff(target) ==
    /\ handoff.phase = "failed" /\ ~destroyed /\ retries < MaxRetries
    /\ Moves + 2 <= MaxMoves
    /\ doomed = {} \/ "destroyMidSwitch" \in Races
    /\ members = Successor => target = handoff.target
    /\ handoff' = [handoff EXCEPT !.phase = "switching", !.target = target,
                                  !.pick = @ /\ target = handoff.target]
    /\ pc' = [pc EXCEPT ![handoff.id] =
                IF Discards(target) THEN "discard" ELSE "switch"]
    /\ retries' = retries + 1
    /\ UNCHANGED <<members, ended, account, seen, hand, block, asked, calls, flight,
                   agentVars, clientVars, forgone, begun, crashes, doomed, destroyed>>

\* What mngr destroy leaves of an agent.
Destroyed(as) ==
    /\ proc' = [a \in Agents |-> IF a \in as THEN "none" ELSE proc[a]]
    /\ inbox' = [a \in Agents |-> IF a \in as THEN <<>> ELSE inbox[a]]
    /\ picked' = picked \ as
    /\ UNCHANGED <<runsOn, renamed, turns>>

Discard(h) ==
    /\ pc[h] = "discard"
    /\ \/ Destroyed({Successor})
       \/ "staleSuccessor" \in Races /\ UNCHANGED agentVars
    /\ seen' = [seen EXCEPT ![Successor] = "untracked"]
    /\ pc' = [pc EXCEPT ![h] = "switch"]
    /\ UNCHANGED <<recordVars, hand, block, asked, calls, flight, clientVars, forgone,
                   countVars>>

-----------------------------------------------------------------------------
\* The runner's steps.  A step that finds the handoff gone stops the runner.

Goto(h, label) == pc' = [pc EXCEPT ![h] = label]

Stopped(h) ==
    /\ pc[h] \notin {"idle", "done", "drained", "creating", "told", "send", "discard"}
    /\ ~Current(h)
    /\ Goto(h, "done")
    /\ UNCHANGED <<recordVars, seen, hand, block, asked, calls, flight, agentVars,
                   clientVars, forgone, countVars>>

\* The agent's turn is interrupted and its queue taken, or that fails.
Drain(h) ==
    /\ pc[h] = "drain" /\ Current(h)
    /\ (\A m \in Messages : flight[m] = 0) \/ "lateSend" \in Races
    /\ \/ /\ seen[members] = "up"
          /\ asked[h] \/ inbox[members] = <<>> \/ "resumedDrain" \in Races
          /\ block' = [block EXCEPT ![h] = inbox[members]]
          /\ inbox' = [inbox EXCEPT ![members] = <<>>]
       \/ UNCHANGED <<block, inbox>>
    /\ Goto(h, "drained")
    /\ UNCHANGED <<recordVars, seen, hand, asked, calls, flight, proc, runsOn, renamed,
                   picked, turns, clientVars, forgone, countVars>>

\* The block goes back with the request's answer, a cancel or not.  A resumed
\* runner has no request to answer; of the record's copy no reader exists.
BlockGoesBack(h) == asked[h]

Drained(h) ==
    /\ pc[h] = "drained"
    /\ block' = [block EXCEPT ![h] = <<>>]
    /\ composer' = composer \cup IF BlockGoesBack(h) THEN Texts(block[h]) ELSE {}
    /\ asked' = [asked EXCEPT ![h] = FALSE]
    /\ IF Current(h)
       THEN handoff' = [handoff EXCEPT !.phase = "summarizing"] /\ Goto(h, "summarize")
       ELSE UNCHANGED handoff /\ Goto(h, "done")
    /\ UNCHANGED <<members, ended, account, seen, hand, calls, flight, agentVars, posts,
                   log, forgone, countVars>>

\* A summary is fresh, needs none, cannot be asked for, or is asked for: the
\* request starts an agent that is stopped.
Summarize(h) ==
    /\ pc[h] = "summarize" /\ Current(h)
    /\ \/ /\ handoff.fresh
          /\ handoff' = [handoff EXCEPT !.phase = "switching"]
          /\ Goto(h, "switch")
          /\ UNCHANGED <<seen, proc>>
       \/ ~handoff.fresh /\ Goto(h, "fold") /\ UNCHANGED <<handoff, seen, proc>>
       \/ /\ ~handoff.fresh /\ seen[members] # "untracked" /\ proc[members] # "none"
          /\ proc' = [proc EXCEPT ![members] = "up"]
          /\ seen' = [seen EXCEPT ![members] = "up"]
          /\ Goto(h, "await")
          /\ UNCHANGED handoff
    /\ UNCHANGED <<members, ended, account, hand, block, asked, calls, flight, runsOn,
                   renamed, picked, inbox, turns, clientVars, forgone, countVars>>

\* The file is there, the turn is over, or the wait is.
AwaitSummary(h) ==
    /\ pc[h] = "await" /\ Current(h)
    /\ Goto(h, "fold")
    /\ UNCHANGED <<recordVars, seen, hand, block, asked, calls, flight, agentVars,
                   clientVars, forgone, countVars>>

\* The prompt is built and the trigger rides in it; or the template cannot be
\* filled in, and the handoff waits for a cancel or the next start.
Folded == [handoff EXCEPT !.phase = "switching", !.built = TRUE, !.held = Others]

FoldPrompt(h) ==
    /\ pc[h] = "fold" /\ Current(h)
    /\ \/ /\ handoff' = Folded
          /\ Goto(h, "switch")
       \/ UNCHANGED handoff /\ Goto(h, "done")
    /\ UNCHANGED <<members, ended, account, seen, hand, block, asked, calls, flight,
                   agentVars, clientVars, forgone, countVars>>

\* A step of the switch that was refused: the failed phase.
FailStep(h) ==
    /\ handoff' = IF Current(h) THEN [handoff EXCEPT !.phase = "failed"] ELSE handoff
    /\ Goto(h, "done")

MustStop(a) == seen[a] = "up"

StopRetiring(h) ==
    /\ pc[h] = "switch" /\ Current(h)
    /\ \/ /\ members = Successor                       \* a resume, or a retry
          /\ Goto(h, "prompt")
          /\ UNCHANGED <<handoff, seen, agentVars, forgone>>
       \/ /\ members # Successor /\ ~MustStop(members)
          /\ Goto(h, "archive")
          /\ UNCHANGED <<handoff, seen, agentVars, forgone>>
       \/ /\ members # Successor /\ MustStop(members) /\ proc[members] # "none"
          /\ Goto(h, "archive")
          /\ proc' = [proc EXCEPT ![members] = "down"]
          /\ seen' = [seen EXCEPT ![members] = "down"]
          \* A queue the drain could not take is gone with the session.
          /\ inbox' = [inbox EXCEPT ![members] = <<>>]
          /\ forgone' = forgone \cup Elems(inbox[members])
          /\ UNCHANGED <<handoff, runsOn, renamed, picked, turns>>
       \/ /\ members # Successor /\ MustStop(members)
          /\ FailStep(h)
          /\ UNCHANGED <<seen, agentVars, forgone>>
    /\ UNCHANGED <<members, ended, account, hand, block, asked, calls, flight,
                   clientVars, countVars>>

ArchiveRetiring(h) ==
    /\ pc[h] = "archive" /\ Current(h)
    /\ \/ /\ seen[handoff.retiring] = "untracked" \/ handoff.retiring \in renamed
          /\ Goto(h, "close")
          /\ UNCHANGED <<handoff, renamed>>
       \/ /\ seen[handoff.retiring] # "untracked" /\ handoff.retiring \notin renamed
          /\ renamed' = renamed \cup {handoff.retiring}
          /\ Goto(h, "close")
          /\ UNCHANGED handoff
       \/ /\ seen[handoff.retiring] # "untracked" /\ handoff.retiring \notin renamed
          /\ FailStep(h)
          /\ UNCHANGED renamed
    /\ UNCHANGED <<members, ended, account, seen, hand, block, asked, calls, flight, proc,
                   runsOn, picked, inbox, turns, clientVars, forgone, countVars>>

RecordFinalCount(h) ==
    /\ pc[h] = "close" /\ Current(h)
    /\ ended' = ended \cup {handoff.retiring}
    /\ Goto(h, "create")
    /\ UNCHANGED <<members, account, handoff, seen, hand, block, asked, calls, flight,
                   agentVars, clientVars, forgone, countVars>>

\* mngr provisions the agent before its create returns; it refuses an id in use.
MngrCreate(h) ==
    /\ proc' = [proc EXCEPT ![handoff.retiring + 1] = "half"]
    /\ runsOn' = [runsOn EXCEPT ![handoff.retiring + 1] = handoff.target]
    /\ Goto(h, "creating")
    /\ UNCHANGED <<renamed, picked, inbox, turns>>

\* Adopt a successor an earlier attempt made; else create it, destroying a
\* half-made one that holds its id; the account may be gone.
CreateSuccessor(h) ==
    /\ pc[h] = "create" /\ Current(h)
    /\ \/ /\ seen[Successor] # "untracked"
          /\ Goto(h, "pick")
          /\ UNCHANGED <<handoff, agentVars>>
       \/ /\ seen[Successor] = "untracked" /\ proc[Successor] = "none"
          /\ MngrCreate(h)
          /\ UNCHANGED handoff
       \/ /\ seen[Successor] = "untracked" /\ proc[Successor] # "none"
          /\ Destroyed({Successor})
          /\ UNCHANGED <<handoff, pc>>
       \/ /\ seen[Successor] = "untracked"
          /\ FailStep(h)
          /\ UNCHANGED agentVars
    /\ UNCHANGED <<members, ended, account, seen, hand, block, asked, calls, flight,
                   clientVars, forgone, countVars>>

\* The create returns: the successor is tracked at once.  One that failed may
\* leave a half-made agent; one that left none is no longer listed.
CreateReturns(h) ==
    /\ pc[h] = "creating"
    /\ \E a \in Agents :
          /\ a > members /\ (proc[a] = "half" \/ a \in doomed)
          /\ \/ /\ proc[a] = "half"
                /\ proc' = [proc EXCEPT ![a] = "up"]
                /\ seen' = [seen EXCEPT ![a] = "up"]
                /\ Goto(h, "pick")
                /\ UNCHANGED handoff
             \/ FailStep(h) /\ UNCHANGED <<proc, seen>>
             \/ /\ proc' = [proc EXCEPT ![a] = "none"]
                /\ seen' = [seen EXCEPT ![a] = "untracked"]
                /\ FailStep(h)
    /\ UNCHANGED <<members, ended, account, hand, block, asked, calls, flight, runsOn,
                   renamed, picked, inbox, turns, clientVars, forgone, countVars>>

PickWanted(h) == handoff.pick

ApplyModelPick(h) ==
    /\ pc[h] = "pick" /\ Current(h)
    /\ \/ ~PickWanted(h) /\ Goto(h, "adopt") /\ UNCHANGED <<handoff, picked>>
       \/ /\ PickWanted(h)
          /\ picked' = picked \cup {Successor}
          /\ Goto(h, "adopt")
          /\ UNCHANGED handoff
       \/ PickWanted(h) /\ FailStep(h) /\ UNCHANGED picked
    /\ UNCHANGED <<members, ended, account, seen, hand, block, asked, calls, flight, proc,
                   runsOn, renamed, inbox, turns, clientVars, forgone, countVars>>

AdoptSuccessor(h) ==
    /\ pc[h] = "adopt" /\ Current(h)
    /\ members' = Successor
    /\ account' = [account EXCEPT ![Successor] = handoff.target]
    /\ Goto(h, "prompt")
    /\ UNCHANGED <<ended, handoff, seen, hand, block, asked, calls, flight, agentVars,
                   clientVars, forgone, countVars>>

\* The prompt is the successor's first message; the record notes it after.
DeliverPrompt(h) ==
    /\ pc[h] = "prompt" /\ Current(h)
    /\ \/ /\ ~handoff.built \/ handoff.told
          /\ Goto(h, "take")
          /\ UNCHANGED <<seen, agentVars, forgone>>
       \/ /\ handoff.built /\ ~handoff.told /\ seen[members] # "untracked"
          /\ DeliverHeld(members, Prompt(handoff.trigger))
          /\ Goto(h, "told")
       \/ /\ handoff.built /\ ~handoff.told /\ seen[members] = "untracked"
          /\ Goto(h, "done")
          /\ UNCHANGED <<seen, agentVars, forgone>>
    /\ UNCHANGED <<recordVars, hand, block, asked, calls, flight, clientVars, countVars>>

NotePrompt(h) ==
    /\ pc[h] = "told"
    /\ handoff' = IF Current(h) THEN [handoff EXCEPT !.told = TRUE] ELSE handoff
    /\ Goto(h, IF Current(h) THEN "take" ELSE "done")
    /\ UNCHANGED <<members, ended, account, seen, hand, block, asked, calls, flight,
                   agentVars, clientVars, forgone, countVars>>

\* The next held send leaves the record, or the handoff is over.
TakeNextHeldSend(h) ==
    /\ pc[h] = "take" /\ Current(h)
    /\ IF seen[members] = "untracked"
       THEN Goto(h, "done") /\ UNCHANGED <<handoff, hand>>
       ELSE IF handoff.held = <<>>
       THEN handoff' = NoHandoff /\ Goto(h, "done") /\ UNCHANGED hand
       ELSE /\ hand' = [hand EXCEPT ![h] = Head(handoff.held)]
            /\ handoff' = [handoff EXCEPT !.held = Tail(@)]
            /\ Goto(h, "send")
    /\ UNCHANGED <<members, ended, account, seen, block, asked, calls, flight, agentVars,
                   clientVars, forgone, countVars>>

DeliverHeldSend(h) ==
    /\ pc[h] = "send"
    /\ DeliverHeld(members, Plain(hand[h]))
    /\ hand' = [hand EXCEPT ![h] = Nothing]
    /\ Goto(h, "take")
    /\ UNCHANGED <<recordVars, block, asked, calls, flight, clientVars, countVars>>

RunnerStep(h) ==
    \/ Stopped(h) \/ Drain(h) \/ Drained(h)
    \/ Summarize(h) \/ AwaitSummary(h) \/ FoldPrompt(h)
    \/ StopRetiring(h) \/ ArchiveRetiring(h) \/ RecordFinalCount(h)
    \/ CreateSuccessor(h) \/ CreateReturns(h) \/ ApplyModelPick(h) \/ AdoptSuccessor(h)
    \/ DeliverPrompt(h) \/ NotePrompt(h) \/ TakeNextHeldSend(h) \/ DeliverHeldSend(h)

-----------------------------------------------------------------------------
\* The chat app's start, the observe stream, the agents, and the chat's end.

\* What the agent list says of an agent; one provisioned only is not running.
Listed(a) == CASE proc[a] = "none" -> "untracked"
               [] proc[a] = "half" -> "down"
               [] OTHER -> proc[a]

\* A half-made successor of an account the handoff has since left.
Stale(a) == Converging /\ a = Successor /\ proc[a] # "none" /\ runsOn[a] # handoff.target

ResumeEarly ==                                               \* a fault
    CASE handoff.phase = "draining" -> "drain"
      [] handoff.phase = "summarizing" -> "summarize"
      [] OTHER -> "done"
ResumeLabel ==
    CASE handoff.phase = "draining" -> "drain"
      [] handoff.phase = "summarizing" -> "summarize"
      [] OTHER -> "switch"

InHand == calls.msgs # <<>>
          \/ \E h \in Handoffs : hand[h] # Nothing \/ block[h] # <<>>

Restart ==
    /\ crashes < MaxCrashes /\ Moves < MaxMoves /\ ~destroyed /\ doomed = {}
    /\ InHand => "crashInHand" \in Races
    /\ (\E h \in Handoffs : pc[h] = "told") => "promptCrash" \in Races
    /\ (\E a \in Agents : Stale(a)) => "staleSuccessor" \in Races
    /\ crashes' = crashes + 1
    /\ \/ proc' = proc
       \/ /\ \E h \in Handoffs : pc[h] = "creating"     \* mngr goes on without the app
          /\ proc[Successor] = "half"
          /\ proc' = [proc EXCEPT ![Successor] = "up"]
    /\ \/ seen' = [a \in Agents |-> Listed(a)']
       \/ /\ "blindStart" \in Races
          /\ seen' = [a \in Agents |-> "untracked"]
    /\ pc' = [h \in Handoffs |->
                IF handoff.id = h /\ Converging /\ handoff.phase # "failed" THEN ResumeLabel
                ELSE IF h <= begun THEN "done" ELSE pc[h]]
    /\ hand' = [h \in Handoffs |-> Nothing] /\ block' = [h \in Handoffs |-> <<>>]
    /\ asked' = [h \in Handoffs |-> FALSE] /\ calls' = [to |-> 0, msgs |-> <<>>]
    /\ flight' = [m \in Messages |-> 0]
    /\ composer' = composer \cup {m \in Messages : flight[m] # 0}
    /\ UNCHANGED <<recordVars, runsOn, renamed, picked, inbox, turns, posts, log, forgone,
                   begun, retries, doomed, destroyed>>

Observe(a) ==
    /\ seen[a] = "untracked" /\ proc[a] # "none" /\ ~destroyed
    /\ Stale(a) => "staleSuccessor" \in Races
    /\ seen' = [seen EXCEPT ![a] = Listed(a)]
    /\ UNCHANGED <<recordVars, threadVars, calls, flight, agentVars, clientVars, forgone,
                   countVars>>

AgentTurn(a) ==
    /\ proc[a] = "up" /\ inbox[a] # <<>>
    /\ turns' = [turns EXCEPT ![a] = @ \o inbox[a]]
    /\ inbox' = [inbox EXCEPT ![a] = <<>>]
    /\ UNCHANGED <<recordVars, seen, threadVars, calls, flight, proc, runsOn, renamed,
                   picked, clientVars, forgone, countVars>>

DestroyedWithChat == 1 .. members \cup
    (IF Converging /\ seen[Successor] # "untracked" THEN {Successor} ELSE {})

\* destroy_chat: the agents it names die first, the record goes after.
DestroyAgents ==
    /\ ~destroyed /\ doomed = {} /\ seen[members] # "untracked"
    /\ \/ handoff.phase \in {"none", "failed"}
          /\ \A a \in Agents : proc[a] # "none" => seen[a] # "untracked"
       \/ "destroyMidSwitch" \in Races
    /\ doomed' = DestroyedWithChat
    /\ Destroyed(doomed')
    /\ UNCHANGED <<recordVars, seen, threadVars, calls, flight, clientVars, forgone,
                   begun, crashes, retries, destroyed>>

DestroyRecord ==
    /\ doomed # {} /\ ~destroyed
    /\ destroyed' = TRUE
    /\ handoff' = NoHandoff
    /\ seen' = [a \in Agents |-> IF a \in doomed THEN "untracked" ELSE seen[a]]
    /\ UNCHANGED <<members, ended, account, threadVars, calls, flight, agentVars,
                   clientVars, forgone, begun, crashes, retries, doomed>>

Next ==
    \/ \E m \in Messages : HoldSend(m) \/ ResolveSend(m) \/ SendLands(m)
    \/ \E h \in Handoffs, to \in Accounts, m \in Messages \cup {Nothing}, k \in BOOLEAN :
          BeginHandoff(h, to, m, k)
    \/ CancelHandoff \/ DeliverCall
    \/ \E to \in Accounts : RetryHandoff(to)
    \/ \E h \in Handoffs : Discard(h) \/ RunnerStep(h)
    \/ Restart
    \/ \E a \in Agents : Observe(a) \/ AgentTurn(a)
    \/ DestroyAgents \/ DestroyRecord

Spec == Init /\ [][Next]_vars

\* Threads run; every mngr verb, summary wait and delivery is bounded in time.
Fairness ==
    /\ \A h \in Handoffs : WF_vars(Discard(h) \/ RunnerStep(h))
    /\ WF_vars(DeliverCall)
    /\ \A m \in Messages : WF_vars(SendLands(m))

FairSpec == Spec /\ Fairness

-----------------------------------------------------------------------------
\* Properties.

Labels == {"idle", "drain", "drained", "summarize", "await", "fold", "switch", "archive",
           "close", "create", "creating", "pick", "adopt", "prompt", "told", "take",
           "send", "discard", "done"}

\* The variables keep their types.
TypeOK ==
    /\ members \in Agents /\ ended \subseteq Agents
    /\ account \in [Agents -> Accounts \cup {Nothing}]
    /\ handoff \in [id : 0 .. MaxHandoffs, phase : Phases, retiring : Nat,
                    target : Accounts \cup {Nothing}, trigger : Messages \cup {Nothing},
                    held : Seq(Messages), built : BOOLEAN, told : BOOLEAN,
                    fresh : BOOLEAN, pick : BOOLEAN]
    /\ seen \in [Agents -> {"untracked", "up", "down"}]
    /\ pc \in [Handoffs -> Labels]
    /\ hand \in [Handoffs -> Messages \cup {Nothing}]
    /\ block \in [Handoffs -> Seq(Items)] /\ asked \in [Handoffs -> BOOLEAN]
    /\ calls \in [to : 0 .. MaxHandoffs + 1, msgs : Seq(Messages)]
    /\ flight \in [Messages -> 0 .. MaxHandoffs + 1]
    /\ proc \in [Agents -> {"none", "half", "up", "down"}]
    /\ runsOn \in [Agents -> Accounts \cup {Nothing}]
    /\ renamed \subseteq Agents /\ picked \subseteq Agents
    /\ inbox \in [Agents -> Seq(Items)] /\ turns \in [Agents -> Seq(Items)]
    /\ posts \in [Messages -> 0 .. MaxPosts] /\ composer \subseteq Messages
    /\ forgone \subseteq Items /\ log \in Seq(Messages)
    /\ begun \in 0 .. MaxHandoffs /\ crashes \in 0 .. MaxCrashes
    /\ retries \in 0 .. MaxRetries /\ doomed \subseteq Agents /\ destroyed \in BOOLEAN

\* Where a message is: on the record, in a thread's hand, in the prompt that
\* is still to be delivered, with an agent, or back with its writer.
PromptPends(m) == handoff.built /\ ~handoff.told /\ handoff.trigger = m
                  /\ \A h \in Handoffs : pc[h] # "told"
Places(m) ==
    {<<"held", i>> : i \in {j \in 1 .. Len(handoff.held) : handoff.held[j] = m}}
    \cup {<<"call", i>> : i \in {j \in 1 .. Len(calls.msgs) : calls.msgs[j] = m}}
    \cup {<<"hand", h>> : h \in {g \in Handoffs : hand[g] = m \/ m \in Texts(block[g])}}
    \cup UNION {{<<"agent", a, i>> : i \in {j \in 1 .. Len(Got(a)) : Got(a)[j].msg = m}}
                : a \in Agents}
    \cup (IF PromptPends(m) THEN {<<"prompt">>} ELSE {})
    \cup (IF flight[m] # 0 THEN {<<"flight">>} ELSE {})
    \cup (IF m \in composer THEN {<<"composer">>} ELSE {})

\* A message the chat took has one owner: the trigger is not delivered again
\* beside its prompt, nor beside its return by a cancel (cancel_handoff), and
\* a resume delivers nothing twice (_deliver_prompt, hold_send).
OneOwner == \A m \in Messages : Cardinality(Places(m)) <= 1

\* A message the chat took is somewhere, until mngr refuses it or the queue it
\* was in dies with its agent: "held sends survive a chat-app restart" and a
\* cancel returns what a drain took (drain, hold_send).
NoneLost ==
    doomed = {} => \A m \in Messages :
        posts[m] > 0 => Places(m) # {} \/ {Plain(m), Prompt(m)} \cap forgone # {}

\* The messages held are received in the order they were accepted in, by the
\* successor or, after a cancel, by the agent the chat stays on
\* (_deliver_held_sends, TakeNextHeldSend's lock).
LogIndex(m) == CHOOSE i \in 1 .. Len(log) : log[i] = m
HeldInOrder ==
    \A a \in Agents : \A i, j \in 1 .. Len(Got(a)) :
        (i < j /\ {Got(a)[i].msg, Got(a)[j].msg} \subseteq Elems(log))
            => LogIndex(Got(a)[i].msg) <= LogIndex(Got(a)[j].msg)

\* A successor hears nothing before the prompt that was built for it, nor
\* before it runs the model the user picked (_switch).
PromptAndPickFirst ==
    /\ \A a \in Agents : \A i \in 1 .. Len(Got(a)) : Got(a)[i].prompt => i = 1
    /\ Converging /\ Successor \in Agents /\ Got(Successor) # <<>> =>
          /\ handoff.pick => Successor \in picked
          /\ handoff.built => handoff.told \/ \E h \in Handoffs : pc[h] = "told"

\* A message the chat took is in one place, and what a successor hears, it hears in
\* the order the switch promises.
OnePlaceInOrder == OneOwner /\ NoneLost /\ HeldInOrder /\ PromptAndPickFirst

\* An agent the chat has left is archived, does not run, and receives nothing
\* (_send_to_chat: "archived by then and must receive nothing").
ArchivedIsSilent ==
    \A a \in Agents : a < members /\ doomed = {} =>
        a \in renamed /\ a \in ended /\ proc[a] # "up" /\ inbox[a] = <<>>

\* The chat's agent runs on the account the record names for it, whatever
\* attempts and retries came before (retry_handoff, _create_successor).
RunsOnItsAccount ==
    doomed = {} => \A a \in 1 .. members : runsOn[a] = account[a]

\* No agent of a destroyed chat is left once its runner is done
\* (_destroyed_with_chat_locked).
NoOrphan ==
    destroyed /\ (\A h \in Handoffs : pc[h] \in {"idle", "done"}) =>
        \A a \in Agents : proc[a] = "none"

\* The types, and mngr's agents are those of the record: what it has left is
\* silent, what it names runs where it says, what it dropped is gone.
AgentsAsRecorded == TypeOK /\ ArchivedIsSilent /\ RunsOnItsAccount /\ NoOrphan

\* From switching on a handoff can only end with its successor as the chat's
\* agent and nothing held (cancel_handoff, _take_next_held_send).
NoWayBack ==
    [][ handoff.phase \in {"switching", "failed"} /\ ~destroyed' =>
            \/ handoff'.id = handoff.id /\ handoff'.phase \in {"switching", "failed"}
            \/ ~Converging' /\ members = Successor /\ handoff.held = <<>> ]_vars

\* Until then nothing of the chat's agent is replaced, so that a cancel leaves
\* the chat as it was (_current, _update_handoff).
NothingReplacedEarly ==
    [][ handoff.phase \notin {"switching", "failed"} =>
            /\ members' = members /\ ended' = ended /\ renamed' = renamed
            /\ \A a \in Agents : proc'[a] = "half" => proc[a] = "half" ]_vars

\* A switch replaces nothing before the switching phase and everything after.
PointOfNoReturn == NoWayBack /\ NothingReplacedEarly

\* A handoff ends or fails, unless its runner stopped early enough for a cancel
\* or waits for an agent the app does not track (HandoffRunner.run).
Settles ==
    []<>(\A h \in Handoffs : handoff.id = h =>
            \/ handoff.phase = "failed"
            \/ pc[h] = "done" /\ (handoff.phase \in CancellablePhases
                                  \/ seen[members] = "untracked"))
=============================================================================
