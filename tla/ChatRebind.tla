------------------------------- MODULE ChatRebind -------------------------------
(***************************************************************************)
(* The rebind (chat_rebinds.py): a chat goes on with the agent it has, on  *)
(* another account.  The agent is drained and stopped, its session files   *)
(* and its environment are pointed at the account, it is relabelled and    *)
(* started, put on the model that was picked, and given what was held.     *)
(*                                                                         *)
(* A record read or write under the manager's lock is one step, and so is  *)
(* each session file moved and each mngr verb.  The binding is claude's,   *)
(* which files sessions under the account's config dir; no Files is a      *)
(* harness that keeps them with the agent.  The chat has one agent, and    *)
(* the record lives as long as the rebind.  A chat app that dies starts    *)
(* again at once.                                                          *)
(*                                                                         *)
(* mngr, the agent and the people who write to the chat are external.      *)
(***************************************************************************)
EXTENDS Naturals, Sequences, FiniteSets, Queues

CONSTANTS
    Messages,               \* what is sent to the chat
    Nothing,                \* no message, no account
    Accounts, Home,         \* the accounts of the lane; the one at the start
    Files,                  \* the agent's session files
    MaxRebinds, MaxCrashes, MaxRetries, MaxFaults,   \* bounds
    Races                   \* which of the interleavings below may happen

\* "lateSend": a send that found no rebind has not reached its agent when the
\*   drain runs.            "crashInHand": the app dies, or cannot write, while
\* it carries a text no store holds.
\* "startLands": a start mngr reported failed comes up all the same.
\* "pickRevives": the pick starts an agent that is down, and the app, unlike after
\*   a delivery, keeps it down until the stream's next full list.
\* "partialMove": a move fails after its first file and is retried elsewhere.
\* "staleLanding": a retry goes back to the account the agent once landed on.
\* "movedAgain": a retry elsewhere restarts an agent that has been delivered to.
\* "staleWatcher": a page builds the watcher from a binding read before it changed.
RaceKinds == {"lateSend", "crashInHand", "startLands", "pickRevives", "partialMove",
              "staleLanding", "movedAgain", "staleWatcher"}
Race(kind) == kind \in Races

ASSUME RebindAssumption ==
    /\ Nothing \notin Messages /\ Nothing \notin Accounts /\ Home \in Accounts
    /\ MaxRebinds \in Nat /\ MaxCrashes \in Nat /\ MaxRetries \in Nat
    /\ MaxFaults \in Nat /\ Races \subseteq RaceKinds

VARIABLES
    \* The record: its rebind, the account its active entry names.
    rebind, entry,
    \* The app: the agent as tracked and the account of its label there, its
    \* watcher's binding and the one a page has read, sends on their way.
    seen, named, watcher, reading, flight,
    \* The runner: its step, the env it read, the text it carries.
    pc, ranOn, hand, block, asked,
    \* mngr and the agent: its process and the account that runs on, its env,
    \* its label, where its files are, what it was sent, the last pick it took.
    proc, runsOn, env, label, fileAt, inbox, turns, picked,
    \* The writers, and the texts lost: refused in a log line, or cut by a stop.
    posts, composer, log, refused, cut,
    begun, crashes, retries, faults, doomed, destroyed

recordVars == <<rebind, entry>>
appVars    == <<seen, named, watcher, reading, flight>>
threadVars == <<pc, ranOn, hand, block, asked>>
agentVars  == <<proc, runsOn, env, label, fileAt, inbox, turns, picked>>
textVars   == <<posts, composer, log, refused, cut>>
endVars    == <<doomed, destroyed>>
countVars  == <<begun, crashes, retries, faults>>
vars == <<recordVars, appVars, threadVars, agentVars, textVars, endVars, countVars>>

Maybe(S) == S \cup {Nothing}

NoRebind == [id |-> 0, phase |-> "none", target |-> Nothing, trigger |-> Nothing,
             held |-> <<>>, files |-> Nothing, landed |-> Nothing, pick |-> FALSE,
             pickDone |-> FALSE]
Converging == rebind.phase # "none"
NoRunner == [step |-> "idle", id |-> 0]
At(step) == pc.step = step
Live(step) == At(step) /\ rebind.id = pc.id             \* RebindRunner._current
Goto(step) == pc' = [pc EXCEPT !.step = step]

Steps == {"idle", "drain", "drained", "restart", "stop", "where", "move", "bind", "evict",
          "label", "start", "land", "pick", "noted", "deliver", "take", "send"}

TypeOK ==
    /\ rebind \in [id : 0 .. MaxRebinds, phase : {"none", "draining", "restarting", "failed"},
                   target : Maybe(Accounts), trigger : Maybe(Messages), held : Seq(Messages),
                   files : Maybe(Accounts), landed : Maybe(Accounts), pick : BOOLEAN,
                   pickDone : BOOLEAN]
    /\ entry \in Maybe(Accounts)
    /\ seen \in {"untracked", "up", "down"} /\ named \in Accounts
    /\ watcher \in Maybe(Accounts) /\ reading \in Maybe(Accounts)
    /\ flight \subseteq Messages
    /\ pc \in [step : Steps, id : 0 .. MaxRebinds] /\ ranOn \in Maybe(Accounts)
    /\ hand \in Maybe(Messages) /\ block \in Seq(Messages) /\ asked \in BOOLEAN
    /\ proc \in {"gone", "up", "down"} /\ runsOn \in Accounts /\ env \in Accounts
    /\ label \in Accounts /\ fileAt \in [Files -> Accounts]
    /\ inbox \in Seq(Messages) /\ turns \in Seq(Messages) /\ picked \in 0 .. MaxRebinds
    /\ posts \subseteq Messages /\ composer \subseteq Messages /\ log \in Seq(Messages)
    /\ refused \subseteq Messages /\ cut \subseteq Messages
    /\ doomed \in BOOLEAN /\ destroyed \in BOOLEAN
    /\ begun \in 0 .. MaxRebinds /\ crashes \in 0 .. MaxCrashes
    /\ retries \in 0 .. MaxRetries /\ faults \in 0 .. MaxFaults

Init ==
    /\ rebind = NoRebind /\ entry = Nothing
    /\ proc \in {"up", "down"} /\ seen = proc
    /\ named = Home /\ watcher \in {Nothing, Home} /\ reading = Nothing /\ flight = {}
    /\ pc = NoRunner /\ ranOn = Nothing /\ hand = Nothing /\ block = <<>> /\ asked = FALSE
    /\ runsOn = Home /\ env = Home /\ label = Home /\ fileAt = [f \in Files |-> Home]
    /\ inbox = <<>> /\ turns = <<>> /\ picked = 0
    /\ posts = {} /\ composer = {} /\ log = <<>> /\ refused = {} /\ cut = {}
    /\ doomed = FALSE /\ destroyed = FALSE
    /\ begun = 0 /\ crashes = 0 /\ retries = 0 /\ faults = 0

Fault == faults < MaxFaults /\ faults' = faults + 1
\* What mngr refuses: anything, to an agent that was destroyed.
Refused == IF proc = "gone" THEN UNCHANGED faults ELSE Fault

\* mngr start: nothing to do for an agent that runs.
Started ==
    /\ proc # "gone" /\ proc' = "up"
    /\ runsOn' = IF proc = "up" THEN runsOn ELSE env

\* A delivery that lands: the agent is started by it if it has to be.
Reaches(m) ==
    /\ Started
    /\ seen' = IF seen = "untracked" THEN seen ELSE "up"
    /\ inbox' = Append(inbox, m)

-------------------------------------------------------------------------------
\* Sends, and the pages that read the transcript.

\* hold_send (ChatHandoff has its answer to a post repeated).
HoldSend(m) ==
    /\ Converging /\ ~destroyed /\ seen # "untracked" /\ m \notin posts
    /\ posts' = posts \cup {m} /\ log' = Append(log, m)
    /\ rebind' = [rebind EXCEPT !.held = Append(@, m)]
    /\ UNCHANGED <<entry, appVars, threadVars, agentVars, composer, refused, cut, endVars,
                   countVars>>

ResolveSend(m) ==
    /\ ~Converging /\ ~doomed /\ seen # "untracked" /\ m \notin posts
    /\ posts' = posts \cup {m} /\ flight' = flight \cup {m}
    /\ UNCHANGED <<recordVars, seen, named, watcher, reading, threadVars, agentVars, composer,
                   log, refused, cut, endVars, countVars>>

SendLands(m) ==
    /\ m \in flight /\ flight' = flight \ {m}
    /\ \/ Reaches(m) /\ UNCHANGED composer
       \/ composer' = composer \cup {m} /\ UNCHANGED <<proc, runsOn, seen, inbox>>
    /\ UNCHANGED <<recordVars, named, watcher, reading, threadVars, env, label, fileAt, turns,
                   picked, posts, log, refused, cut, endVars, countVars>>

\* A page reads the agent's binding, then gets or builds its watcher.
ReadBinding ==
    /\ watcher = Nothing /\ reading # env /\ seen # "untracked"
    /\ reading' = env
    /\ UNCHANGED <<recordVars, seen, named, watcher, flight, threadVars, agentVars, textVars,
                   endVars, countVars>>

BuildWatcher ==
    /\ reading # Nothing
    /\ reading = env \/ Race("staleWatcher")
    /\ watcher' = IF watcher = Nothing THEN reading ELSE watcher
    /\ reading' = Nothing
    /\ UNCHANGED <<recordVars, seen, named, flight, threadVars, agentVars, textVars, endVars,
                   countVars>>

-------------------------------------------------------------------------------
\* The verbs of the page: switch, retry.  There is no cancel.

Opened(id, target, trigger, pick) ==
    [NoRebind EXCEPT !.id = id, !.phase = "draining", !.target = target,
                     !.trigger = trigger, !.held = <<trigger>>, !.pick = pick]

BeginRebind(target, trigger, pick) ==
    /\ begun < MaxRebinds /\ ~Converging /\ ~doomed
    /\ seen # "untracked" /\ named # target /\ trigger \notin posts
    /\ rebind' = Opened(begun + 1, target, trigger, pick) /\ entry' = named
    /\ posts' = posts \cup {trigger} /\ log' = <<trigger>>
    /\ begun' = begun + 1
    /\ pc' = [step |-> "drain", id |-> begun + 1] /\ asked' = TRUE
    /\ UNCHANGED <<appVars, ranOn, hand, block, agentVars, composer, refused, cut, endVars,
                   crashes, retries, faults>>

\* Has the agent been given what this rebind held?
Delivered == Elems(log) \cap (Elems(inbox) \cup Elems(turns)) # {}

RetryRebind(target) ==
    /\ rebind.phase = "failed" /\ ~destroyed /\ seen # "untracked" /\ retries < MaxRetries
    /\ target = rebind.landed /\ (target # env \/ \E f \in Files : fileAt[f] # target)
            => Race("staleLanding")
    /\ target # rebind.landed /\ Delivered => Race("movedAgain")
    /\ (\E f \in Files : fileAt[f] \notin {rebind.files, env}) /\ rebind.files # Nothing
            => target = rebind.target \/ Race("partialMove")
    /\ rebind' = [rebind EXCEPT !.phase = "restarting", !.target = target]
    /\ pc' = [step |-> "restart", id |-> rebind.id]
    /\ retries' = retries + 1
    /\ UNCHANGED <<entry, appVars, ranOn, hand, block, asked, agentVars, textVars, endVars,
                   begun, crashes, faults>>

-------------------------------------------------------------------------------
\* The runner's steps.  A step that finds the rebind gone stops the runner.

Stopped ==
    /\ pc.step \notin {"idle", "drained", "send"} /\ rebind.id # pc.id
    /\ Goto("idle")
    /\ UNCHANGED <<recordVars, appVars, ranOn, hand, block, asked, agentVars, textVars, endVars,
                   countVars>>

\* The agent's turn is interrupted and its queue taken, or that fails.
Drain ==
    /\ Live("drain")
    /\ flight = {} \/ Race("lateSend")
    /\ \/ seen = "up" /\ proc # "gone" /\ block' = inbox /\ inbox' = <<>>
       \/ UNCHANGED <<block, inbox>>
    /\ Goto("drained")
    /\ UNCHANGED <<recordVars, appVars, ranOn, hand, asked, proc, runsOn, env, label, fileAt,
                   turns, picked, textVars, endVars, countVars>>

\* The block goes back with the request's answer; of the record's copy no
\* reader exists.  A write that fails leaves the phase, and the runner ends.
Drained ==
    /\ At("drained")
    /\ block' = <<>> /\ asked' = FALSE
    /\ \/ /\ rebind.id = pc.id
          /\ rebind' = [rebind EXCEPT !.phase = "restarting"]
          /\ composer' = composer \cup IF asked THEN Elems(block) ELSE {}
          /\ cut' = cut \cup IF asked THEN {} ELSE Elems(block)
          /\ Goto("restart") /\ UNCHANGED faults
       \/ /\ \/ rebind.id # pc.id /\ UNCHANGED faults
             \/ Fault /\ (block = <<>> \/ Race("crashInHand"))
          /\ Goto("idle") /\ UNCHANGED <<rebind, composer, cut>>
    /\ UNCHANGED <<entry, appVars, ranOn, hand, agentVars, posts, log, refused, endVars, begun,
                   crashes, retries>>

\* A step that was refused: the failed phase.
FailStep == rebind' = [rebind EXCEPT !.phase = "failed"] /\ Goto("idle")

HasLanded == rebind.landed = rebind.target

\* The account may be gone; an agent that is up is stopped first.
Restart ==
    /\ Live("restart")
    /\ ranOn' = env
    /\ \/ seen = "untracked" /\ FailStep /\ UNCHANGED faults
       \/ seen # "untracked" /\ ~HasLanded /\ Fault /\ FailStep
       \/ /\ seen # "untracked"
          /\ Goto(IF HasLanded THEN "pick" ELSE IF seen = "up" THEN "stop" ELSE "where")
          /\ UNCHANGED <<rebind, faults>>
    /\ UNCHANGED <<entry, appVars, hand, block, asked, agentVars, textVars, endVars, begun,
                   crashes, retries>>

\* A queue the drain could not take is gone with the session.
StopAgent ==
    /\ Live("stop")
    /\ \/ /\ proc # "gone" /\ proc' = "down" /\ seen' = IF seen = "up" THEN "down" ELSE seen
          /\ cut' = cut \cup Elems(inbox) /\ inbox' = <<>>
          /\ Goto("where") /\ UNCHANGED <<rebind, faults>>
       \/ Refused /\ FailStep /\ UNCHANGED <<proc, seen, inbox, cut>>
    /\ UNCHANGED <<entry, named, watcher, reading, flight, ranOn, hand, block, asked, runsOn,
                   env, label, fileAt, turns, picked, posts, composer, log, refused, endVars,
                   begun, crashes, retries>>

\* Where the files are is written down before the first of them moves.
RecordWhere ==
    /\ Live("where")
    /\ \/ /\ rebind' = [rebind EXCEPT !.files = IF @ = Nothing THEN ranOn ELSE @]
          /\ Goto("move") /\ UNCHANGED faults
       \/ rebind.files = Nothing /\ Fault /\ FailStep
    /\ UNCHANGED <<entry, appVars, ranOn, hand, block, asked, agentVars, textVars, endVars,
                   begun, crashes, retries>>

SourcesNow == {ranOn} \ {rebind.target}                               \* a fault
Sources == {rebind.files, ranOn} \ {rebind.target}
ToMove == {f \in Files : fileAt[f] \in Sources}

MoveFile(f) ==
    /\ Live("move") /\ f \in ToMove
    /\ fileAt' = [fileAt EXCEPT ![f] = rebind.target]
    /\ UNCHANGED <<recordVars, appVars, threadVars, proc, runsOn, env, label, inbox, turns,
                   picked, textVars, endVars, countVars>>

\* All that were found have moved, and the record says where to; or one fails.
MoveEnds ==
    /\ Live("move")
    /\ \/ /\ ToMove = {}
          /\ rebind' = [rebind EXCEPT !.files = rebind.target]
          /\ Goto("bind") /\ UNCHANGED faults
       \/ Fault /\ FailStep
    /\ UNCHANGED <<entry, appVars, ranOn, hand, block, asked, agentVars, textVars, endVars,
                   begun, crashes, retries>>

\* The env file, which mngr sources at every start, is replaced whole.
RebindAgent ==
    /\ Live("bind")
    /\ \/ env' = rebind.target /\ Goto("evict") /\ UNCHANGED <<rebind, faults>>
       \/ Refused /\ FailStep /\ UNCHANGED env
    /\ UNCHANGED <<entry, appVars, ranOn, hand, block, asked, proc, runsOn, label, fileAt,
                   inbox, turns, picked, textVars, endVars, begun, crashes, retries>>

Evicted == Nothing

EvictWatcher ==
    /\ Live("evict") /\ watcher' = Evicted /\ Goto("label")
    /\ UNCHANGED <<recordVars, seen, named, reading, flight, ranOn, hand, block, asked,
                   agentVars, textVars, endVars, countVars>>

Unnoted == named                                                     \* a fault
Noted == rebind.target

Relabel ==
    /\ Live("label")
    /\ \/ /\ proc # "gone" /\ label' = rebind.target /\ named' = Noted
          /\ Goto("start") /\ UNCHANGED <<rebind, faults>>
       \/ Refused /\ FailStep /\ UNCHANGED <<label, named>>
    /\ UNCHANGED <<entry, seen, watcher, reading, flight, ranOn, hand, block, asked, proc,
                   runsOn, env, fileAt, inbox, turns, picked, textVars, endVars, begun, crashes,
                   retries>>

StartAgent ==
    /\ Live("start")
    /\ \/ /\ Started /\ seen' = IF seen = "down" THEN "up" ELSE seen
          /\ Goto("land") /\ UNCHANGED <<rebind, faults>>
       \/ /\ Refused /\ FailStep /\ UNCHANGED seen
          /\ \/ UNCHANGED <<proc, runsOn>>
             \/ Race("startLands") /\ Started
    /\ UNCHANGED <<entry, named, watcher, reading, flight, ranOn, hand, block, asked, env,
                   label, fileAt, inbox, turns, picked, textVars, endVars, begun, crashes,
                   retries>>

\* One write: the entry names the account, and the rebind that it landed there.
Land ==
    /\ Live("land")
    /\ \/ /\ entry' = rebind.target
          /\ rebind' = [rebind EXCEPT !.landed = rebind.target]
          /\ Goto("pick") /\ UNCHANGED faults
       \/ Fault /\ FailStep /\ UNCHANGED entry
    /\ UNCHANGED <<appVars, ranOn, hand, block, asked, agentVars, textVars, endVars, begun,
                   crashes, retries>>

PickOnFirstTry == rebind.pick /\ ~rebind.pickDone /\ retries = 0      \* a fault
PickWanted == rebind.pick /\ ~rebind.pickDone

\* The pick is a line sent to the agent, which starts one that is down.
ApplyModelPick ==
    /\ Live("pick")
    /\ \/ /\ ~PickWanted /\ Goto("deliver")
          /\ UNCHANGED <<rebind, seen, proc, runsOn, picked, faults>>
       \/ /\ PickWanted /\ seen = "untracked" /\ Goto("idle")
          /\ UNCHANGED <<rebind, seen, proc, runsOn, picked, faults>>
       \/ /\ PickWanted /\ seen # "untracked" /\ Started
          /\ seen' = IF Race("pickRevives") THEN seen ELSE "up"
          /\ picked' = pc.id /\ Goto("noted") /\ UNCHANGED <<rebind, faults>>
       \/ /\ PickWanted /\ seen # "untracked" /\ Refused /\ FailStep
          /\ UNCHANGED <<seen, proc, runsOn, picked>>
    /\ UNCHANGED <<entry, named, watcher, reading, flight, ranOn, hand, block, asked, env,
                   label, fileAt, inbox, turns, textVars, endVars, begun, crashes, retries>>

NotePick ==
    /\ Live("noted")
    /\ \/ /\ rebind' = [rebind EXCEPT !.pickDone = TRUE]
          /\ Goto("deliver") /\ UNCHANGED faults
       \/ Fault /\ FailStep
    /\ UNCHANGED <<entry, appVars, ranOn, hand, block, asked, agentVars, textVars, endVars,
                   begun, crashes, retries>>

DeliverHeldSends ==
    /\ Live("deliver")
    /\ Goto(IF seen = "untracked" THEN "idle" ELSE "take")
    /\ UNCHANGED <<recordVars, appVars, ranOn, hand, block, asked, agentVars, textVars, endVars,
                   countVars>>

NextHeld(s) == Head(s)
StillHeld(s) == s                                                    \* a fault
\* The held sends that are not the one taken, in their order.
Rest(s) == Without(s, NextHeld(s))

\* The next held send leaves the record; with none left the record goes.
TakeNextHeldSend ==
    /\ Live("take")
    /\ \/ /\ rebind.held # <<>>
          /\ hand' = NextHeld(rebind.held)
          /\ rebind' = [rebind EXCEPT !.held = Rest(@)]
          /\ Goto("send") /\ UNCHANGED <<entry, faults>>
       \/ /\ rebind.held = <<>>
          /\ rebind' = NoRebind /\ entry' = Nothing
          /\ Goto("idle") /\ UNCHANGED <<hand, faults>>
       \/ Fault /\ FailStep /\ UNCHANGED <<entry, hand>>
    /\ UNCHANGED <<appVars, ranOn, block, asked, agentVars, textVars, endVars, begun, crashes,
                   retries>>

DeliverHeldSend ==
    /\ At("send") /\ hand' = Nothing /\ Goto("take")
    /\ \/ Reaches(hand) /\ UNCHANGED refused
       \/ refused' = refused \cup {hand} /\ UNCHANGED <<proc, runsOn, seen, inbox>>
    /\ UNCHANGED <<recordVars, named, watcher, reading, flight, ranOn, block, asked, env, label,
                   fileAt, turns, picked, posts, composer, log, cut, endVars, countVars>>

RunnerStep ==
    \/ Stopped \/ Drain \/ Drained \/ Restart \/ StopAgent \/ RecordWhere \/ MoveEnds
    \/ RebindAgent \/ EvictWatcher \/ Relabel \/ StartAgent \/ Land \/ ApplyModelPick
    \/ NotePick \/ DeliverHeldSends \/ TakeNextHeldSend \/ DeliverHeldSend
    \/ \E f \in Files : MoveFile(f)

-------------------------------------------------------------------------------
\* The app's start, the observe stream, the agent, and the chat's end.

ResumeDrain == IF rebind.phase = "draining" THEN "drain" ELSE "idle"  \* a fault
ResumeLabel == CASE rebind.phase = "draining" -> "drain"
                 [] rebind.phase = "restarting" -> "restart"
                 [] OTHER -> "idle"

\* A mngr start goes on without the app that asked for it.
Reboot ==
    /\ crashes < MaxCrashes /\ ~doomed
    /\ hand # Nothing \/ block # <<>> => Race("crashInHand")
    /\ crashes' = crashes + 1
    /\ \/ UNCHANGED <<proc, runsOn>>
       \/ At("start") /\ Started
    /\ seen' = proc' /\ named' = label
    /\ watcher' = Nothing /\ reading' = Nothing /\ flight' = {}
    /\ composer' = composer \cup flight
    /\ pc' = [step |-> ResumeLabel, id |-> rebind.id]
    /\ ranOn' = Nothing /\ hand' = Nothing /\ block' = <<>> /\ asked' = FALSE
    /\ UNCHANGED <<recordVars, env, label, fileAt, inbox, turns, picked, posts, log, refused,
                   cut, endVars, begun, retries, faults>>

\* A death is seen at once, and a chat that is down holds no watcher; a list
\* may lack an agent that is there.
Observe ==
    /\ ~destroyed
    /\ \/ seen' = (IF proc = "gone" THEN "untracked" ELSE proc) /\ UNCHANGED faults
       \/ seen' = "untracked" /\ Fault
    /\ seen' # seen
    /\ watcher' = IF seen' = "up" THEN watcher ELSE Nothing
    /\ UNCHANGED <<recordVars, named, reading, flight, threadVars, agentVars, textVars, endVars,
                   begun, crashes, retries>>

AgentDies ==
    /\ proc = "up" /\ Fault
    /\ proc' = "down" /\ inbox' = <<>> /\ cut' = cut \cup Elems(inbox)
    /\ UNCHANGED <<recordVars, appVars, threadVars, runsOn, env, label, fileAt, turns, picked,
                   posts, composer, log, refused, endVars, begun, crashes, retries>>

AgentTurn ==
    /\ proc = "up" /\ inbox # <<>>
    /\ turns' = turns \o inbox /\ inbox' = <<>>
    /\ UNCHANGED <<recordVars, appVars, threadVars, proc, runsOn, env, label, fileAt, picked,
                   textVars, endVars, countVars>>

\* destroy_chat: the agent dies first, the record goes after.
DestroyAgent ==
    /\ ~doomed /\ seen # "untracked" /\ doomed' = TRUE
    /\ proc' = "gone" /\ inbox' = <<>>
    /\ UNCHANGED <<recordVars, appVars, threadVars, runsOn, env, label, fileAt, turns, picked,
                   textVars, destroyed, countVars>>

DestroyRecord ==
    /\ doomed /\ ~destroyed /\ destroyed' = TRUE
    /\ rebind' = NoRebind /\ entry' = Nothing /\ seen' = "untracked" /\ watcher' = Nothing
    /\ UNCHANGED <<named, reading, flight, threadVars, agentVars, textVars, doomed, countVars>>

Next ==
    \/ \E m \in Messages : HoldSend(m) \/ ResolveSend(m) \/ SendLands(m)
    \/ ReadBinding \/ BuildWatcher
    \/ \E to \in Accounts, m \in Messages, k \in BOOLEAN : BeginRebind(to, m, k)
    \/ \E to \in Accounts : RetryRebind(to)
    \/ RunnerStep \/ Reboot \/ Observe \/ AgentDies \/ AgentTurn
    \/ DestroyAgent \/ DestroyRecord

Spec == Init /\ [][Next]_vars

\* The runner's thread goes on; mngr verbs, picks and deliveries are bounded in
\* time, and so is a send's way to the agent.
FairSpec == Spec /\ WF_vars(RunnerStep) /\ \A m \in Messages : WF_vars(SendLands(m))

-------------------------------------------------------------------------------
\* Properties.

\* Where a message is.
Places(m) ==
    {<<"held", i>> : i \in {j \in 1 .. Len(rebind.held) : rebind.held[j] = m}}
    \cup {<<"agent", i>> : i \in {j \in 1 .. Len(turns \o inbox) : (turns \o inbox)[j] = m}}
    \cup (IF hand = m \/ m \in Elems(block) THEN {<<"hand">>} ELSE {})
    \cup (IF m \in flight THEN {<<"flight">>} ELSE {})
    \cup (IF m \in composer THEN {<<"composer">>} ELSE {})

\* The types; a message the chat took is in one place, and in none only if mngr refused it
\* or it died in its agent's queue: a resume neither delivers twice nor drops
\* what was held ("every step re-checks reality before acting").  The agent gets
\* what was held "in order, the confirming message first".
Got == turns \o inbox
LogIndex(m) == CHOOSE i \in 1 .. Len(log) : log[i] = m
OnePlace ==
    /\ TypeOK
    /\ ~doomed => \A m \in posts :
        /\ Cardinality(Places(m)) <= 1
        /\ Places(m) # {} \/ m \in refused \/ m \in cut
    /\ \A i, j \in 1 .. Len(Got) :
        i < j /\ {Got[i], Got[j]} \subseteq Elems(log) => LogIndex(Got[i]) <= LogIndex(Got[j])

\* An agent never runs away from its sessions: whatever attempt, resume or retry
\* started it, the account it runs on is the one its files are under.
FilesWithAgent == proc = "up" => \A f \in Files : fileAt[f] = runsOn

\* A chat that is not converging is on one account: its agent's process, its
\* env, its label and its files, the label the app goes by, and the watcher its
\* pages read ("the next read follows the new binding").
OneAccount ==
    /\ FilesWithAgent
    /\ ~Converging /\ ~doomed =>
        /\ label = env /\ named = label /\ \A f \in Files : fileAt[f] = env
        /\ proc = "up" => runsOn = env
        /\ watcher \in {Nothing, env}

\* What was held reaches the agent on the account the user chose last, and on
\* the model picked with it (_restart, _apply_model_pick: "so the pick governs
\* the agent's first turn back"); and a restart that has landed is not run again,
\* so the runner cuts off nothing it has given ("does not restart the agent again").
HeldOnTarget ==
    /\ [][ rebind.phase = "restarting" /\ Len(inbox') > Len(inbox) =>
            /\ runsOn' = rebind.target /\ entry = rebind.target
            /\ rebind.pick => picked = rebind.id ]_vars
    /\ [][ Converging /\ cut' # cut /\ faults' = faults => ~Delivered ]_vars

\* A runner takes its rebind to its end or to the failed phase, unless the first
\* phase could not be recorded or the app does not track the agent just then:
\* "the record keeps its phase for the next resume" (RebindRunner.run).
Settles ==
    \A id \in 1 .. MaxRebinds : rebind.id = id /\ ~At("idle") ~>
        \/ rebind.id # id \/ rebind.phase = "failed"
        \/ At("idle") /\ (rebind.phase = "draining" \/ seen = "untracked")
=============================================================================
