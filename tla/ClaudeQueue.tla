----------------------------- MODULE ClaudeQueue -------------------------------
(***************************************************************************)
(* A message's way through the claude harness: typed into claude's terminal *)
(* under the agent's message.lock, parked there while a turn runs, mirrored  *)
(* by the watcher from claude's ledger, and flushed by the shoulder tap or   *)
(* taken back by Stop (apps/chat, harnesses/claude and harnesses/interrupt). *)
(*                                                                         *)
(* Claude and mngr are external, as tap.py and the watcher rely on them.   *)
(* Claude appends to one ledger, which outlives its process; a record       *)
(* carries the epoch of the process that wrote it.  What a Stop or a tap     *)
(* does between two waits (for the lock, for claude, for a restart) is one   *)
(* step.  Left out: the restart flush of the old endpoint, a restart that    *)
(* kills and then fails, a session file replaced by a new one, the          *)
(* interrupt sentinel of a tool call, which the tap does not look for, and  *)
(* the new tries of a background command's script whose report is refused.  *)
(***************************************************************************)
EXTENDS Naturals, FiniteSets, Sequences, SequencesExt

CONSTANTS
    Msgs,
    Reports,        \* those among them that a background command sent to its agent
    MaxTaps, MaxTasks,   \* bounds
    MaxStops,       \* a bound on Stops, and on the reports they send back
    MaxPrompts,     \* a bound on messages, tasks' reports and failures of sends
    GraceHolds      \* does claude take what it parked within the delivery grace?

ASSUME QueueAssumption ==
    /\ MaxStops \in Nat /\ MaxTaps \in Nat /\ MaxTasks \in Nat
    /\ MaxPrompts \in Nat /\ GraceHolds \in BOOLEAN
    /\ Reports \subseteq Msgs
    /\ {"task", "nudge", "none", "free", "stop"} \cap Msgs = {}

VARIABLES
    \* Claude: its parked messages, its turn, the active marker its hooks keep,
    \* the process's number and the session file.
    cqueue, turn, active, epoch, ledger,
    \* The watcher: the mirror, how much of the ledger is folded into it, the
    \* entries marked as being delivered, and the activity tracker's tail.
    mirror, read, marks, tail,
    \* The session: each send's progress; message.lock; the sends that failed once;
    \* and the reports a Stop took off the queue, due back to the agent or sent back.
    send, lock, failed, resend, resent,
    \* The Stop and the tap being executed.
    stop, tap,
    \* What went back to the composer.  History: messages parked after a Stop
    \* without the lock had read the queue; messages handed back or typed once more
    \* although claude had them or their send went on; has a Stop cleared from the mirror
    \* what the new process had parked; turns begun, and the last turn a Stop ended.
    returned, late, doubled, wiped, turnNo, halted,
    stops, taps, tasks

claudeVars  == <<cqueue, turn, active, epoch, ledger, turnNo>>
watcherVars == <<mirror, read, marks, tail>>
retryVars   == <<failed, resend, resent>>
sendVars    == <<send, lock, retryVars>>
outcomeVars == <<returned, late, doubled, wiped, halted>>
counters    == <<stops, taps, tasks>>
vars == <<claudeVars, watcherVars, sendVars, stop, tap, outcomeVars, counters>>

\* Reports of background tasks and the recovery nudge hold a place in the queue and are
\* never shown.
Items == Msgs \cup {"task", "nudge"}
Kinds == {"enqueue", "leave", "user", "answer", "sentinel"}
NoStop == [pc |-> "idle", base |-> 0, turn |-> 0, held |-> FALSE, block |-> <<>>, tap |-> 0]
NoTap  == [pc |-> "idle", base |-> 0, alive |-> FALSE, stopped |-> FALSE, cut |-> FALSE]

TypeOK ==
    /\ cqueue \in Seq(Items) /\ mirror \in Seq(Items) /\ marks \subseteq Items
    /\ turn \in {"none", "starting", "open", "hooks"} /\ active \in BOOLEAN
    /\ ledger \in Seq([kind : Kinds, item : Items \cup {"none"}, epoch : 0..epoch])
    /\ read \in 0..Len(ledger) /\ tail \in {"none", "user", "answer"}
    /\ send \in [Msgs -> {"draft", "waiting", "holding", "typed", "aborted", "done"}]
    /\ lock \in Msgs \cup {"free", "stop"} /\ failed \subseteq Msgs
    /\ resend \subseteq Reports /\ resent \subseteq Reports
    /\ \A m \in Msgs : (lock = m) <=> send[m] \in {"holding", "typed", "aborted"}
    /\ (lock = "stop") <=> stop.held
    /\ stop.pc \in {"idle", "look", "recheck", "base", "kill", "clear", "fold",
                    "chord", "watch"}
    /\ tap.pc \in {"idle", "chord", "watch", "recover", "nudge"}
    /\ returned \subseteq Msgs /\ wiped \in BOOLEAN /\ halted \in 0..turnNo

Init ==
    /\ cqueue = <<>> /\ turn = "none" /\ active = FALSE /\ epoch = 0 /\ ledger = <<>>
    /\ mirror = <<>> /\ read = 0 /\ marks = {} /\ tail = "none"
    /\ send = [m \in Msgs |-> "draft"] /\ lock = "free"
    /\ failed = {} /\ resent = {} /\ resend = {}
    /\ stop = NoStop /\ tap = NoTap
    /\ returned = {} /\ late = {} /\ doubled = {} /\ wiped = FALSE
    /\ turnNo = 0 /\ halted = 0
    /\ stops = 0 /\ taps = 0 /\ tasks = 0

-------------------------------------------------------------------------------
(* The mirror.                                                              *)

Rec(kind, item) == [kind |-> kind, item |-> item, epoch |-> epoch]

\* An enqueue of a dead process died with it; a leave always takes the head.
NeverDead(rec) == FALSE                                               \* a fault
DeadEnqueue(rec) == rec.kind = "enqueue" /\ rec.epoch < epoch

Consume(s, rec) ==
    CASE DeadEnqueue(rec) -> s
      [] rec.kind = "enqueue" /\ ~DeadEnqueue(rec) -> [s EXCEPT !.mirror = Append(@, rec.item)]
      [] rec.kind = "leave" ->
            [s EXCEPT !.mirror = IF @ = <<>> THEN @ ELSE Tail(@), !.marks = {}]
      [] rec.kind \in {"user", "answer"} ->
            [s EXCEPT !.tail = IF rec.epoch = epoch THEN rec.kind ELSE "none"]
      [] rec.kind = "sentinel" -> s

Blank == [mirror |-> <<>>, marks |-> {}, tail |-> "none"]
Fresh == FoldLeft(Consume, [mirror |-> mirror, marks |-> marks, tail |-> tail],
                  SubSeq(ledger, read + 1, Len(ledger)))
Watch(s) == mirror' = s.mirror /\ marks' = s.marks /\ tail' = s.tail
Refresh == Watch(Fresh) /\ read' = Len(ledger)

\* What the snapshot and the block show.
Chips(q) == SelectSeq(q, LAMBDA i : i \in Msgs)

\* The activity reading: a turn is in flight, and the tail is not an answer.
Working == active /\ tail = "user"

EmitCycle ==
    /\ read < Len(ledger)
    /\ Refresh
    /\ UNCHANGED <<claudeVars, sendVars, stop, tap, outcomeVars, counters>>

ReadIdle ==
    /\ ~Working /\ Chips(mirror) # <<>>
    /\ marks' = ToSet(mirror)
    /\ UNCHANGED <<claudeVars, mirror, read, tail, sendVars, stop, tap, outcomeVars, counters>>

ReadBusy ==
    /\ Working /\ Chips(mirror) # <<>>
    /\ marks' = {}
    /\ UNCHANGED <<claudeVars, mirror, read, tail, sendVars, stop, tap, outcomeVars, counters>>

\* An entry marked for as long as the grace lasts is dropped.
Expire(i) ==
    /\ i \in marks
    /\ GraceHolds => read = Len(ledger) /\ i \notin ToSet(cqueue)
    /\ mirror' = SelectSeq(mirror, LAMBDA j : j # i)
    /\ marks' = marks \ {i}
    /\ UNCHANGED <<claudeVars, read, tail, sendVars, stop, tap, outcomeVars, counters>>

\* The app restarts between requests and replays the session.
AppRestart ==
    /\ stop = NoStop /\ tap = NoTap /\ \A m \in Msgs : send[m] \in {"draft", "done"}
    /\ resend = {}
    /\ Watch(FoldLeft(Consume, Blank, ledger))
    /\ read' = Len(ledger)
    /\ UNCHANGED <<claudeVars, sendVars, stop, tap, outcomeVars, counters>>

-------------------------------------------------------------------------------
(* Claude.                                                                  *)

\* A prompt reaches claude: it starts a turn, or is parked behind the one there is.
Prompted(i) ==
    IF turn = "none"
    THEN /\ ledger' = Append(ledger, Rec("user", i))
         /\ turn' = "starting" /\ turnNo' = turnNo + 1
         /\ UNCHANGED cqueue
    ELSE /\ ledger' = Append(ledger, Rec("enqueue", i))
         /\ cqueue' = Append(cqueue, i)
         /\ UNCHANGED <<turn, turnNo>>

\* A message claude takes while a Stop holds it in its block.
Taken(items) == doubled' = IF stop.pc = "kill"
                           THEN doubled \cup (ToSet(items) \cap ToSet(stop.block))
                           ELSE doubled

\* The first n parked messages leave the queue for the transcript, after pre.
Take(n, pre) ==
    LET items == SubSeq(cqueue, 1, n) IN
    /\ ledger' = ledger \o pre \o [k \in 1..n |-> Rec("leave", "none")]
                       \o [k \in 1..n |-> Rec("user", items[k])]
    /\ cqueue' = SubSeq(cqueue, n + 1, Len(cqueue))
    /\ Taken(items)

\* UserPromptSubmit's hook.
Started ==
    /\ turn = "starting"
    /\ turn' = "open" /\ active' = TRUE
    /\ UNCHANGED <<cqueue, epoch, ledger, turnNo, watcherVars, sendVars, stop, tap,
                   outcomeVars, counters>>

Absorb ==
    /\ turn = "open" /\ cqueue # <<>>
    /\ Take(1, <<>>)
    /\ UNCHANGED <<turn, active, epoch, turnNo, watcherVars, sendVars, stop, tap, returned,
                   late, wiped, halted, counters>>

Answer ==
    /\ turn = "open"
    /\ turn' = "hooks" /\ ledger' = Append(ledger, Rec("answer", "none"))
    /\ UNCHANGED <<cqueue, active, epoch, turnNo, watcherVars, sendVars, stop, tap,
                   outcomeVars, counters>>

\* The Stop hook clears the marker, then the head or the whole queue opens a turn.
TurnEnds ==
    /\ turn = "hooks"
    /\ active' = FALSE
    /\ \/ /\ cqueue = <<>> /\ turn' = "none"
          /\ UNCHANGED <<cqueue, ledger, turnNo, doubled>>
       \/ /\ cqueue # <<>> /\ turn' = "starting" /\ turnNo' = turnNo + 1
          /\ \E n \in {1, Len(cqueue)} : Take(n, <<>>)
    /\ UNCHANGED <<epoch, watcherVars, sendVars, stop, tap, returned, late, wiped, halted, counters>>

\* What MaxPrompts bounds.
Prompts == tasks + Cardinality(failed) + Cardinality({m \in Msgs : send[m] # "draft"})

\* A task of the running turn reports.
TaskReports ==
    /\ tasks < MaxTasks /\ Prompts < MaxPrompts /\ turn # "none"
    /\ Prompted("task")
    /\ tasks' = tasks + 1
    /\ UNCHANGED <<active, epoch, watcherVars, sendVars, stop, tap, outcomeVars, stops, taps>>

\* The cancel chord: a running turn is cut, its queue flushed into the next one;
\* nothing clears the marker.  It may also be eaten.
Cancel ==
    \/ /\ turn \in {"starting", "open"} /\ cqueue = <<>>
       /\ ledger' = Append(ledger, Rec("sentinel", "none")) /\ turn' = "none"
       /\ UNCHANGED <<cqueue, turnNo, doubled>>
    \/ /\ turn \in {"starting", "open"} /\ cqueue # <<>>
       /\ Take(Len(cqueue), <<Rec("sentinel", "none")>>)
       /\ turn' = "starting" /\ turnNo' = turnNo + 1
    \/ UNCHANGED <<cqueue, turn, ledger, turnNo, doubled>>

-------------------------------------------------------------------------------
(* Sending, under the message lock.                                         *)

\* The send is recorded before anything else.
Accept(m) ==
    /\ send[m] = "draft" /\ Prompts < MaxPrompts
    /\ send' = [send EXCEPT ![m] = "waiting"]
    /\ UNCHANGED <<claudeVars, watcherVars, lock, retryVars, stop, tap, outcomeVars, counters>>

Acquire(m) ==
    /\ send[m] = "waiting" /\ lock = "free"
    /\ send' = [send EXCEPT ![m] = "holding"] /\ lock' = m
    /\ UNCHANGED <<claudeVars, watcherVars, retryVars, stop, tap, outcomeVars, counters>>

Type(m) ==
    /\ send[m] = "holding"
    /\ Prompted(m)
    /\ send' = [send EXCEPT ![m] = "typed"]
    /\ late' = IF stop.pc = "kill" THEN late \cup {m} ELSE late
    /\ UNCHANGED <<active, epoch, watcherVars, lock, retryVars, stop, tap, returned,
                   doubled, wiped, halted, counters>>

Confirm(m) ==
    /\ send[m] = "typed"
    /\ send' = [send EXCEPT ![m] = "done"] /\ lock' = "free"
    /\ UNCHANGED <<claudeVars, watcherVars, retryVars, stop, tap, outcomeVars, counters>>

\* A send may fail before it has typed, by an abort, or after the text has landed
\* (a dialog came up behind it), and then what claude has is not taken back.
SendFails(m) ==
    /\ send[m] \in {"holding", "aborted", "typed"}
    /\ send[m] = "typed" => m \in failed \/ Prompts < MaxPrompts
    /\ lock' = "free"
    /\ doubled' = IF send[m] = "typed" THEN doubled \cup {m} ELSE doubled

\* What failed at the location the app knew is sent once more, by discovery: once
\* landed, it is then typed a second time.
SendAgain(m) ==
    /\ SendFails(m)
    /\ m \notin failed /\ (send[m] = "aborted" \/ Prompts < MaxPrompts)
    /\ failed' = failed \cup {m}
    /\ send' = [send EXCEPT ![m] = "waiting"]
    /\ UNCHANGED <<claudeVars, watcherVars, resend, resent, stop, tap, returned, late, wiped,
                   halted, counters>>

\* The request fails and whoever sent the text keeps it: the composer, or the
\* background command's script.
Refuse(m) ==
    /\ SendFails(m)
    /\ send' = [send EXCEPT ![m] = "done"]
    /\ returned' = returned \cup {m}
    /\ failed' = IF send[m] = "typed" THEN failed \cup {m} ELSE failed
    /\ UNCHANGED <<claudeVars, watcherVars, resend, resent, stop, tap, late, wiped, halted,
                   counters>>

\* What a Stop has taken off the queue: the user's words go to the composer, and a
\* background command's report back to the agent, whose next turn it opens.
HandBack(ms) == /\ returned' = returned \cup (ms \ Reports)
                /\ resend' = resend \cup (ms \cap Reports)

\* A report is sent like any message; one that cannot be goes to the composer.
Resend(m) ==
    /\ m \in resend /\ send[m] = "done"
    /\ resend' = resend \ {m} /\ resent' = resent \cup {m}
    /\ send' = [send EXCEPT ![m] = "waiting"]
    /\ UNCHANGED <<claudeVars, watcherVars, lock, failed, stop, tap, outcomeVars, counters>>

Sending == {m \in Msgs : send[m] \notin {"draft", "done"}}

-------------------------------------------------------------------------------
(* Stop.                                                                    *)

StopPress ==
    /\ stops + Cardinality(resend \cup resent) < MaxStops /\ stop.pc = "idle"
    /\ stops' = stops + 1
    /\ stop' = [stop EXCEPT !.pc = "look"]
    /\ UNCHANGED <<claudeVars, watcherVars, sendVars, tap, outcomeVars, taps, tasks>>

Now(pc) == stop' = [stop EXCEPT !.pc = pc]

StaleCapture ==                                                       \* a fault
    /\ stop' = [stop EXCEPT !.pc = "kill", !.held = (lock = "free"),
                            !.block = Chips(mirror),
                            !.turn = IF turn = "none" THEN 0 ELSE turnNo]
    /\ lock' = IF lock = "free" THEN "stop" ELSE lock
    /\ UNCHANGED watcherVars

\* The mirror is refreshed and the block captured under one bounded acquire.
Capture ==
    /\ Refresh
    /\ stop' = [stop EXCEPT !.pc = "kill", !.held = (lock = "free"),
                            !.block = Chips(Fresh.mirror),
                            !.turn = IF turn = "none" THEN 0 ELSE turnNo]
    /\ lock' = IF lock = "free" THEN "stop" ELSE lock

\* Nothing shown as queued and no turn is a no-op; a queue, a dialog, an inactive
\* binding or a missing session file is the restart's.
StopLook ==
    /\ stop.pc = "look"
    /\ Refresh
    /\ \/ Chips(Fresh.mirror) # <<>> /\ Now("base")
       \/ Chips(Fresh.mirror) = <<>> /\ ~active /\ stop' = NoStop
       \/ Chips(Fresh.mirror) = <<>> /\ active /\ Now("base")
       \/ /\ Chips(Fresh.mirror) = <<>> /\ active
          /\ stop' = [stop EXCEPT !.pc = "recheck", !.base = Len(ledger),
                                  !.turn = IF turn = "none" THEN 0 ELSE turnNo]
    /\ UNCHANGED <<claudeVars, sendVars, tap, outcomeVars, counters>>

\* The chord's stop is on record before the chord is pressed.
Unrecorded == UNCHANGED tap                                           \* a fault
Recorded == tap' = [tap EXCEPT !.stopped = tap.pc # "idle"]

StopRecheck ==
    /\ stop.pc = "recheck"
    /\ \/ (lock # "free" \/ Chips(Fresh.mirror) # <<>>) /\ Capture /\ UNCHANGED tap
       \/ /\ lock = "free" /\ Chips(Fresh.mirror) = <<>> /\ ~active
          /\ Refresh /\ stop' = NoStop /\ UNCHANGED <<lock, tap>>
       \/ /\ lock = "free" /\ Chips(Fresh.mirror) = <<>> /\ active
          /\ Refresh /\ Recorded /\ UNCHANGED lock
          /\ stop' = [stop EXCEPT !.pc = "chord", !.tap = taps]
    /\ UNCHANGED <<claudeVars, send, retryVars, outcomeVars, counters>>

StopBase ==
    /\ stop.pc = "base"
    /\ Capture
    /\ UNCHANGED <<claudeVars, send, retryVars, tap, outcomeVars, counters>>

\* The process is killed with its queue and its turn, which aborts a send that
\* has not typed yet, and comes up again as a new epoch.
Restart ==
    /\ stop.pc = "kill"
    /\ cqueue' = <<>> /\ turn' = "none" /\ active' = FALSE /\ epoch' = epoch + 1
    /\ tail' = "none"
    /\ send' = [m \in Msgs |-> IF send[m] = "holding" THEN "aborted" ELSE send[m]]
    /\ Now("clear")
    /\ UNCHANGED <<ledger, turnNo, mirror, read, marks, lock, retryVars, tap, outcomeVars,
                   counters>>

KeepLock == UNCHANGED lock                                            \* a fault
Release == lock' = IF stop.held THEN "free" ELSE lock

\* mngr refuses before it has stopped anything: the request fails.
RestartRefused ==
    /\ stop.pc = "kill"
    /\ stop' = NoStop /\ Release
    /\ UNCHANGED <<claudeVars, watcherVars, send, retryVars, tap, outcomeVars, counters>>

StopClear ==
    /\ stop.pc = "clear"
    /\ Watch(Blank)
    /\ wiped' = (wiped \/ ToSet(mirror) \cap ToSet(cqueue) # {})
    /\ halted' = IF stop.turn = 0 THEN halted ELSE stop.turn
    /\ \/ /\ stop.held
          /\ HandBack(ToSet(stop.block))
          /\ stop' = NoStop /\ Release
       \/ ~stop.held /\ Now("fold") /\ UNCHANGED <<returned, lock, resend>>
    /\ UNCHANGED <<claudeVars, read, send, failed, resent, tap, late, doubled, counters>>

\* Without the lock, the sends still on record are handed back as well.  Only one that
\* was aborted at its second try goes no further, and a report's sender keeps it too.
StopFold ==
    /\ stop.pc = "fold"
    /\ HandBack(ToSet(stop.block) \cup Sending)
    /\ doubled' = doubled \cup {m \in Sending : \/ send[m] # "aborted" \/ m \notin failed
                                              \/ m \in Reports}
    /\ stop' = NoStop
    /\ UNCHANGED <<claudeVars, watcherVars, send, lock, failed, resent, tap, late, wiped, halted,
                   counters>>

StopChord ==
    /\ stop.pc = "chord" /\ lock = "free"
    /\ \/ Cancel /\ Now("watch")
       \/ Now("base") /\ UNCHANGED <<cqueue, turn, ledger, turnNo, doubled>>
    /\ UNCHANGED <<active, epoch, watcherVars, sendVars, tap, returned, late, wiped, halted, counters>>

AnyAborted == \E k \in 1..Len(ledger) : ledger[k].kind = "sentinel"   \* a fault
Aborted == \E k \in stop.base + 1..Len(ledger) : ledger[k].kind = "sentinel"

\* Confirmed, the dot is settled and the markers cleared; unconfirmed, restart.
StopWatch ==
    /\ stop.pc = "watch"
    /\ \/ /\ Aborted /\ stop' = NoStop
          /\ tail' = "none" /\ active' = FALSE
          /\ halted' = IF stop.turn = 0 THEN halted ELSE stop.turn
          /\ tap' = [tap EXCEPT !.cut = tap.pc # "idle" /\ stop.tap = taps]
       \/ /\ ~Aborted /\ ~active /\ stop' = NoStop
          /\ UNCHANGED <<tail, active, halted, tap>>
       \/ ~Aborted /\ active /\ Now("base") /\ UNCHANGED <<tail, active, halted, tap>>
    /\ UNCHANGED <<cqueue, turn, epoch, ledger, turnNo, mirror, read, marks, sendVars,
                   returned, late, doubled, wiped, counters>>

-------------------------------------------------------------------------------
(* The shoulder tap.                                                        *)

\* A send in flight, an empty mirror, no turn, a dialog or an inactive binding
\* ends the tap at once.
TapPress ==
    /\ taps < MaxTaps /\ tap.pc = "idle" /\ lock = "free"
    /\ Refresh
    /\ Chips(Fresh.mirror) # <<>> /\ active
    /\ tap' = [pc |-> "chord", base |-> Len(ledger), alive |-> FALSE, stopped |-> FALSE, cut |-> FALSE]
    /\ taps' = taps + 1
    /\ UNCHANGED <<claudeVars, sendVars, stop, outcomeVars, stops, tasks>>

TapChord ==
    /\ tap.pc = "chord" /\ lock = "free"
    /\ \/ Cancel /\ tap' = [tap EXCEPT !.pc = "watch"]
       \/ tap' = NoTap /\ UNCHANGED <<cqueue, turn, ledger, turnNo, doubled>>
    /\ UNCHANGED <<active, epoch, watcherVars, sendVars, stop, returned, late, wiped, halted, counters>>

Since(kind) == {k \in tap.base + 1..Len(ledger) : ledger[k].kind = kind}
Dangling == Since("sentinel") # {} /\ ~\E k \in Since("answer") :
                                          \A j \in Since("sentinel") : j < k
Answered == Since("answer") # {} /\ ~Dangling
Alive == tap.alive \/ active

TapPoll ==
    /\ tap.pc = "watch" /\ Refresh
    /\ tap' = IF Chips(Fresh.mirror) = <<>> /\ (Answered \/ Alive)
              THEN NoTap ELSE [tap EXCEPT !.alive = Alive]
    /\ UNCHANGED <<claudeVars, sendVars, stop, outcomeVars, counters>>

\* The window is over: a drained queue that no turn has answered needs the nudge.
TapDeadline ==
    /\ tap.pc = "watch" /\ Refresh
    /\ tap' = IF Chips(Fresh.mirror) = <<>> /\ Dangling /\ ~Alive
              THEN [tap EXCEPT !.pc = "recover"] ELSE NoTap
    /\ UNCHANGED <<claudeVars, sendVars, stop, outcomeVars, counters>>

TapCheck ==
    /\ tap.pc = "recover"
    /\ tap' = IF tap.stopped THEN NoTap ELSE [tap EXCEPT !.pc = "nudge"]
    /\ UNCHANGED <<claudeVars, watcherVars, sendVars, stop, outcomeVars, counters>>

TapNudge ==
    /\ tap.pc = "nudge" /\ lock = "free"
    /\ Prompted("nudge") \/ UNCHANGED <<cqueue, turn, ledger, turnNo>>
    /\ tap' = NoTap
    /\ UNCHANGED <<active, epoch, watcherVars, sendVars, stop, outcomeVars, counters>>

-------------------------------------------------------------------------------
TurnGoesOn == Started \/ Answer \/ TurnEnds
SendGoesOn(m) == Acquire(m) \/ Type(m) \/ SendAgain(m) \/ Refuse(m) \/ Confirm(m)
                 \/ Resend(m)
StopGoesOn == StopLook \/ StopRecheck \/ StopBase \/ Restart \/ RestartRefused
              \/ StopClear \/ StopFold \/ StopChord \/ StopWatch
TapGoesOn == TapChord \/ TapDeadline \/ TapCheck \/ TapNudge

Next ==
    \/ TurnGoesOn \/ Absorb \/ TaskReports
    \/ EmitCycle \/ ReadIdle \/ ReadBusy \/ AppRestart \/ \E i \in Items : Expire(i)
    \/ \E m \in Msgs : Accept(m) \/ SendGoesOn(m)
    \/ StopPress \/ StopGoesOn
    \/ TapPress \/ TapPoll \/ TapGoesOn

Spec == Init /\ [][Next]_vars

\* Claude ends the turns it starts, mngr ends every send, the watcher polls, the
\* executors go on and the tap's window ends; pressing and restarting are free.
Fairness ==
    /\ WF_vars(TurnGoesOn) /\ WF_vars(EmitCycle)
    /\ \A m \in Msgs : WF_vars(SendGoesOn(m))
    /\ WF_vars(StopGoesOn) /\ WF_vars(TapGoesOn)

FairSpec == Spec /\ Fairness

-------------------------------------------------------------------------------
Delivered(m) == \E k \in 1..Len(ledger) : ledger[k].kind = "user" /\ ledger[k].item = m
InHand(m) == m \in resend \/ (stop.pc \in {"clear", "fold"} /\ m \in ToSet(stop.block))

\* A message whose send is over was delivered, is parked in the running claude, is
\* back in the composer, or is a report about to be sent back to the agent, unless it
\* was parked behind a Stop that had already read the queue without the lock; and it
\* has only one of these fates, and is delivered once, unless claude took it while a
\* Stop held it in its block, the Stop named a send that was still to go on, or its
\* send failed after the text had landed.
NoneLost ==
    ~wiped => \A m \in Msgs : send[m] = "done" /\ m \notin late =>
        Delivered(m) \/ m \in ToSet(cqueue) \/ m \in returned \/ InHand(m)

OneOutcome ==
    \A m \in Msgs \ (late \cup doubled) :
        /\ Cardinality({k \in 1..Len(ledger) : ledger[k].kind = "user" /\ ledger[k].item = m}) <= 1
        /\ m \in returned => ~Delivered(m) /\ m \notin ToSet(cqueue)

OneFate == NoneLost /\ OneOutcome

\* The state is well formed, and once the ledger is folded the mirror is claude's
\* queue, entry by entry, the unseen ones included.
MirrorIsQueue == TypeOK /\ (~wiped /\ read = Len(ledger) /\ stop.pc # "clear" => mirror = cqueue)

\* The turn a Stop reported ended is over: nothing of it is answered later.
StoppedIsOver == turn # "none" => turnNo > halted

\* The tap sends no nudge if a Stop that was asked for while it ran has cut the
\* turn.  (One asked for before the tap, or after this check, does not hold it.)
StopNotRedriven == [][tap.pc = "recover" /\ tap'.pc = "nudge" => ~tap.cut]_vars

\* Again and again no Stop and no tap is under way, and every message accepted so far
\* is delivered or back in the composer, except as in OneFate: none waits for ever.
Settles ==
    []<>(/\ stop.pc = "idle" /\ tap.pc = "idle"
         /\ \A m \in Msgs : send[m] # "draft" =>
                Delivered(m) \/ m \in returned \/ m \in late \/ wiped)
===============================================================================
