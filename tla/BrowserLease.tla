----------------------------- MODULE BrowserLease ------------------------------
(***************************************************************************)
(* Who drives a browser: the ownership state machine of one LiveBrowser    *)
(* (apps/browser/src/browser/session.py).                                  *)
(*                                                                         *)
(* Agents reach the browser in two ways: commands (attach, acquire,        *)
(* release, handoff) and frames on a CDP socket, whose capability token    *)
(* says which agent the socket belongs to.  The human takes control and    *)
(* hands it back.  Everything runs on one asyncio loop, so a step lasts    *)
(* until the coroutine really waits: for _control_lock, which is FIFO and  *)
(* which only a handoff holds across an await, or for the event of a       *)
(* waiter.  A call finding the lock free runs its section at once; another *)
(* takes its place in lockQueue.                                           *)
(*                                                                         *)
(* The agents, the human, Chromium's death and the clock are external.     *)
(***************************************************************************)
EXTENDS Naturals, Sequences, SequencesExt, Queues

CONSTANTS
    Agents,
    NoAgent,
    MaxCalls,       \* calls, frames and takeovers made (a bound)
    MaxLockQueue,   \* calls waiting for the lock at once (a bound), apart from
                    \* those of a crash, a stop and a close
    MaxUpsets,      \* crashes, stops and starts (a bound)
    LateCalls       \* may a request that resolved the browser before it was
                    \* closed call it afterwards?

ASSUME LeaseAssumption ==
    /\ NoAgent \notin Agents /\ MaxCalls \in Nat /\ MaxLockQueue \in Nat
    /\ MaxUpsets \in Nat /\ LateCalls \in BOOLEAN

VARIABLES
    \* What _control_lock guards, with the token: see Control.
    c,
    \* Is a handoff holding the lock; the calls waiting for it, oldest first.
    handingOff, lockQueue,
    \* _lifecycle, _closed, and a crash not yet announced.
    lifecycle, closed, announcing,
    \* History: agents told that they are queued and will be messaged; agents
    \* told that they hold the browser; how many frames were forwarded, and the agent
    \* of the last; has the holder sent a frame within the idle TTL.
    promised, told, drove, lively,
    calls, upsets

lifeVars    == <<lifecycle, closed, announcing>>
historyVars == <<promised, told, drove, lively>>
vars == <<c, handingOff, lockQueue, lifeVars, historyVars, calls, upsets>>

\* controller, owner_agent_id, human_pinned; the agent the token was issued to
\* and the agents whose attach carried the token of now; is the lease past its
\* idle TTL; the claim window of a grant no frame has followed; both queues; and
\* the coroutine of an acquire that waits.
Control == [controller : {"human", "agent"}, owner : Agents \cup {NoAgent},
            pinned : BOOLEAN, tokenOwner : Agents \cup {NoAgent},
            attached : SUBSET Agents, quiet : BOOLEAN,
            claim : {"none", "open", "over"},
            waitQueue : Seq(Agents), resumeQueue : Seq(Agents),
            waiter : [Agents -> {"none", "parked", "granted", "evicted"}]]

NoCall == [op |-> "none", agent |-> NoAgent]
Ops == {"acquire", "reclaim", "wait", "frame", "attach", "release", "handoff",
        "giveUp", "take", "return", "sweep", "idleLook", "idleTake", "abandon",
        "stopAbandon"}

TypeOK ==
    /\ c \in Control
    /\ (c.controller = "human") <=> (c.owner = NoAgent)
    /\ c.pinned => c.controller = "human"
    /\ handingOff \in BOOLEAN
    /\ lockQueue \in Seq([op : Ops, agent : Agents \cup {NoAgent}])
    /\ Len(lockQueue) <= MaxLockQueue + MaxUpsets
    /\ lifecycle \in {"init", "running", "crashed", "stopped"}
    /\ closed \in BOOLEAN /\ announcing \in BOOLEAN
    /\ promised \subseteq Agents /\ told \subseteq Agents
    /\ drove \in [agent : Agents \cup {NoAgent}, frames : Nat] /\ lively \in BOOLEAN
    /\ calls \in 0..MaxCalls /\ upsets \in 0..MaxUpsets

\* A browser whose Chromium has come up rests with the human.
Init ==
    /\ c = [controller |-> "human", owner |-> NoAgent, pinned |-> FALSE,
            tokenOwner |-> NoAgent, attached |-> {}, quiet |-> FALSE, claim |-> "none",
            waitQueue |-> <<>>, resumeQueue |-> <<>>,
            waiter |-> [a \in Agents |-> "none"]]
    /\ handingOff = FALSE /\ lockQueue = <<>>
    /\ lifecycle = "running" /\ closed = FALSE /\ announcing = FALSE
    /\ promised = {} /\ told = {} /\ lively = FALSE
    /\ drove = [agent |-> NoAgent, frames |-> 0]
    /\ calls = 0 /\ upsets = 0

-------------------------------------------------------------------------------
(* The writers of the control state, as functions of it.                    *)

Owns(s, a) == s.controller = "agent" /\ s.owner = a
Free(s) == s.controller = "human" /\ ~s.pinned

Enqueue(s, a) == IF a \in ToSet(s.resumeQueue) THEN s
                 ELSE [s EXCEPT !.resumeQueue = Append(@, a)]
NotEnrolled(s, a) == s                                                \* a fault
EnqueueFront(s, a) == [s EXCEPT !.resumeQueue = <<a>> \o Without(@, a)]
Dequeue(s, a) == [s EXCEPT !.resumeQueue = Without(@, a)]

\* _mint_token: no socket carries the new token until its agent attaches.
Mint(s, a) == [s EXCEPT !.tokenOwner = a, !.attached = {}]

\* _write_control_locked.  Giving an agent control restarts the idle clock, which
\* puts it past any earlier grant.
ToHuman(s, pin) == [s EXCEPT !.controller = "human", !.owner = NoAgent, !.pinned = pin]
ToAgent(s, a) ==
    LET m == IF s.tokenOwner # a THEN Mint(s, a) ELSE s
    IN  [m EXCEPT !.controller = "agent", !.owner = a, !.pinned = FALSE,
                  !.quiet = FALSE, !.claim = "none"]

TouchLease(s) == [s EXCEPT !.quiet = FALSE]                           \* a fault
Touch(s) == [s EXCEPT !.quiet = FALSE, !.claim = "none"]

Evict(s) == [s EXCEPT !.waitQueue = <<>>,
                      !.waiter = [a \in Agents |-> IF a \in ToSet(s.waitQueue)
                                                   THEN "evicted" ELSE @[a]]]

\* _settle_queue_locked: a pin evicts the waiters; a free browser goes to the
\* first waiter, else to the first agent to resume, which is messaged.
Settle(s) ==
    CASE s.controller = "human" /\ s.pinned -> Evict(s)
      [] Free(s) /\ s.waitQueue # <<>> ->
           LET a == Head(s.waitQueue)
           IN  [ToAgent(Dequeue(s, a), a) EXCEPT !.waitQueue = Tail(@),
                                                 !.waiter[a] = "granted"]
      [] Free(s) /\ s.waitQueue = <<>> /\ s.resumeQueue # <<>> ->
           LET a == Head(s.resumeQueue)
           IN  [ToAgent(s, a) EXCEPT !.resumeQueue = Tail(@), !.claim = "open"]
      [] OTHER -> s

\* The agent a settle messages that the browser is its own again.
Woken(s) == IF Free(s) /\ s.waitQueue = <<>> /\ s.resumeQueue # <<>>
            THEN {Head(s.resumeQueue)} ELSE {}

-------------------------------------------------------------------------------
(* The sections under the lock.  Each names the new control state and what   *)
(* agents have been told by it.                                             *)

\* s becomes the control state; then the queues are settled.
SettleFrom(s) ==
    /\ c' = Settle(s)
    /\ promised' = promised \ (Woken(s) \cup {Settle(s).owner})
    /\ told' = told \cup Woken(s)

Set(s) == c' = s /\ UNCHANGED <<promised, told>>
Given(s, a) == c' = s /\ promised' = promised \ {a} /\ told' = told \cup {a}

\* acquire.  Only the commands enrol the agent to be resumed; a waiting acquire
\* parks behind another agent; a frame does neither.
AcquireSection(a, op) ==
    LET held   == c.controller = "agent" \/ (c.pinned /\ op # "reclaim")
        enrols == op \in {"acquire", "reclaim"}
        fed(s) == IF op = "frame" THEN Touch(s) ELSE s
    IN  \/ /\ Owns(c, a)
           /\ Given(fed(Dequeue(c, a)), a)
        \/ /\ ~held
           /\ Given(fed(ToAgent(Dequeue(c, a), a)), a)
        \/ /\ held /\ ~Owns(c, a) /\ enrols
           /\ c' = Enqueue(c, a)
           /\ promised' = promised \cup {a} /\ UNCHANGED told
        \/ /\ held /\ ~Owns(c, a) /\ op = "wait" /\ c.controller = "agent"
           /\ Set([c EXCEPT !.waitQueue = Append(@, a), !.waiter[a] = "parked"])
        \/ /\ held /\ ~Owns(c, a) /\ ~enrols
           /\ op = "wait" => c.controller = "human"
           /\ Set(c)

AttachSection(a) ==
    IF c.pinned \/ (c.controller = "agent" /\ c.owner # a) THEN Set(c)
    ELSE Set([Mint(c, a) EXCEPT !.attached = {a}])

ReleaseSection(a) ==
    IF Owns(c, a) THEN SettleFrom(ToHuman(c, FALSE)) ELSE Set(c)

\* The wait timed out or was cancelled.
JustLeave(a) ==                                                       \* a fault
    Set([c EXCEPT !.waiter[a] = "none", !.waitQueue = Without(@, a)])
GiveUpSection(a) ==
    LET s == [c EXCEPT !.waiter[a] = "none"]
    IN  IF a \in ToSet(c.waitQueue) THEN Set([s EXCEPT !.waitQueue = Without(@, a)])
        ELSE IF c.waiter[a] = "granted" /\ Owns(c, a)
             THEN SettleFrom(ToHuman(s, FALSE))
             ELSE Set(s)

\* take_control: an agent driving is put first in line to resume.
TakeSection ==
    LET s == IF c.controller = "agent" THEN EnqueueFront(c, c.owner) ELSE c
    IN  /\ c' = Settle(ToHuman(s, TRUE))
        /\ promised' = promised \cup (IF c.controller = "agent" THEN {c.owner} ELSE {})
        /\ UNCHANGED told

ReturnSection == IF c.controller = "human" /\ c.pinned THEN SettleFrom(ToHuman(c, FALSE))
                 ELSE Set(c)

\* handoff, up to the await of the page's URL that it makes holding the lock.
HandoffSection(a) ==
    IF Owns(c, a)
    THEN /\ c' = Settle(ToHuman(EnqueueFront(c, a), TRUE))
         /\ promised' = promised \cup {a} /\ told' = told \ {a}
    ELSE Set(c)

NoShow(s) == s.controller = "agent" /\ s.claim = "over"
TakeBack == Set(ToHuman([c EXCEPT !.claim = "none"], FALSE))          \* a fault
RevokeGrant == SettleFrom(ToHuman([c EXCEPT !.claim = "none"], FALSE))

\* _abandon_queues_locked: everyone queued is answered or messaged.
AbandonSection(s) ==
    /\ c' = [Evict(s) EXCEPT !.resumeQueue = <<>>]
    /\ promised' = promised \ ToSet(s.resumeQueue) /\ UNCHANGED told

-------------------------------------------------------------------------------
(* Making a call, and running the section of the call at the head.          *)

\* The history after a forwarded frame of a.
Driven(a) == [agent |-> a, frames |-> drove.frames + 1]

LockFree == ~handingOff /\ lockQueue = <<>>

\* The section of one call; rest is what waits behind it.  The sweep's parts are
\* acquisitions of their own: each goes on at once only if nobody is waiting.
Section(call, rest) ==
    LET a == call.agent
        Then(op) == lockQueue' = Append(rest, [op |-> op, agent |-> c.owner])
        Done == lockQueue' = rest
        IdleTake(owner) == IF Owns(c, owner) THEN SettleFrom(ToHuman(c, FALSE)) ELSE Set(c)
        IdleLook == IF c.controller = "agent" /\ c.quiet
                    THEN IF rest = <<>> THEN IdleTake(c.owner) /\ Done
                         ELSE Set(c) /\ Then("idleTake")
                    ELSE Set(c) /\ Done
    IN  /\ handingOff' = (call.op = "handoff" /\ Owns(c, a))
        /\ \/ call.op \in {"acquire", "reclaim", "wait", "frame"}
              /\ AcquireSection(a, call.op) /\ Done
           \/ call.op = "attach" /\ AttachSection(a) /\ Done
           \/ call.op = "release" /\ ReleaseSection(a) /\ Done
           \/ call.op = "handoff" /\ HandoffSection(a) /\ Done
           \/ call.op = "giveUp" /\ GiveUpSection(a) /\ Done
           \/ call.op = "take" /\ TakeSection /\ Done
           \/ call.op = "return" /\ ReturnSection /\ Done
           \/ call.op = "sweep" /\ NoShow(c) /\ RevokeGrant /\ Done
           \/ call.op = "sweep" /\ ~NoShow(c) /\ rest = <<>> /\ IdleLook
           \/ call.op = "sweep" /\ ~NoShow(c) /\ rest # <<>> /\ Set(c) /\ Then("idleLook")
           \/ call.op = "idleLook" /\ IdleLook
           \/ call.op = "idleTake" /\ IdleTake(a) /\ Done
           \/ call.op = "abandon" /\ AbandonSection(c) /\ Done
           \/ call.op = "stopAbandon" /\ AbandonSection(ToHuman(c, FALSE)) /\ Done
        /\ IF call.op = "frame" /\ Owns(c', a) THEN drove' = Driven(a) /\ lively' = TRUE
           ELSE UNCHANGED drove /\ lively' = (lively /\ c'.owner = c.owner)

Call(op, a) ==
    IF LockFree THEN Section([op |-> op, agent |-> a], <<>>)
    ELSE /\ lockQueue' = Append(lockQueue, [op |-> op, agent |-> a])
         /\ UNCHANGED <<c, handingOff, historyVars>>

Budget == calls < MaxCalls /\ calls' = calls + 1
Room == LockFree \/ Len(lockQueue) < MaxLockQueue
Reachable == lifecycle = "running" /\ (~closed \/ LateCalls)

RunHead ==
    /\ ~handingOff /\ lockQueue # <<>>
    /\ Section(Head(lockQueue), Tail(lockQueue))
    /\ UNCHANGED <<lifeVars, calls, upsets>>

\* The URL of the page has been read: the handoff lets go of the lock.
HandoffDone ==
    /\ handingOff /\ handingOff' = FALSE
    /\ UNCHANGED <<c, lockQueue, lifeVars, historyVars, calls, upsets>>

-------------------------------------------------------------------------------
(* The agents and the human.  The lifecycle is read before the lock.         *)

Command(a) ==
    /\ Reachable /\ Room /\ Budget
    /\ \/ \E op \in {"acquire", "reclaim", "attach", "handoff"} : Call(op, a)
       \/ /\ c.waiter[a] = "none" /\ [op |-> "wait", agent |-> a] \notin ToSet(lockQueue)
          /\ Call("wait", a)
    /\ UNCHANGED <<lifeVars, upsets>>

\* release does not look at the lifecycle.
ReleaseCall(a) ==
    /\ ~closed \/ LateCalls
    /\ Owns(c, a) /\ Room /\ Budget
    /\ Call("release", a)
    /\ UNCHANGED <<lifeVars, upsets>>

HasToken(a) == TRUE                                                   \* a fault
MayDrive(a) == Owns(c, a) /\ ~c.pinned

\* _token_may_drive: a frame of the agent's own socket.
Frame(a) ==
    /\ lifecycle = "running" /\ ~closed
    /\ a \in c.attached /\ c.tokenOwner = a
    /\ Budget
    /\ \/ /\ MayDrive(a)
          /\ c' = Touch(c) /\ drove' = Driven(a) /\ lively' = TRUE
          /\ UNCHANGED <<handingOff, lockQueue, promised, told>>
       \/ Free(c) /\ Room /\ Call("frame", a)
    /\ UNCHANGED <<lifeVars, upsets>>

\* The waiter's coroutine runs after its event was set.
Answer(a) ==
    /\ c.waiter[a] \in {"granted", "evicted"}
    /\ [op |-> "giveUp", agent |-> a] \notin ToSet(lockQueue)
    /\ c' = [c EXCEPT !.waiter[a] = "none"]
    /\ told' = IF c.waiter[a] = "granted" /\ lifecycle = "running" /\ ~closed
               THEN told \cup {a} ELSE told
    /\ UNCHANGED <<handingOff, lockQueue, lifeVars, promised, drove, lively, calls, upsets>>

\* Its time is up, or its client is gone.
GiveUp(a) ==
    /\ c.waiter[a] # "none" /\ [op |-> "giveUp", agent |-> a] \notin ToSet(lockQueue)
    /\ Room /\ Budget
    /\ Call("giveUp", a)
    /\ UNCHANGED <<lifeVars, upsets>>

TakeControl ==
    /\ Reachable /\ Room /\ Budget
    /\ Call("take", NoAgent)
    /\ UNCHANGED <<lifeVars, upsets>>

ReturnToAgents ==
    /\ ~closed /\ c.pinned /\ Room
    /\ Call("return", NoAgent)
    /\ UNCHANGED <<lifeVars, calls, upsets>>

-------------------------------------------------------------------------------
(* The clock, the keepalive loop and the lifecycle.                          *)

\* The claim window and the idle TTL are long against a step that is ready to run,
\* and the claim window is the shorter of the two.
ClaimLapses ==
    /\ c.controller = "agent" /\ lockQueue = <<>>
    /\ c.claim = "open" /\ c' = [c EXCEPT !.claim = "over"]
    /\ UNCHANGED <<handingOff, lockQueue, lifeVars, historyVars, calls, upsets>>

GoQuiet ==
    /\ c.controller = "agent" /\ lockQueue = <<>>
    /\ c.claim # "open" /\ ~c.quiet /\ c' = [c EXCEPT !.quiet = TRUE]
    /\ lively' = FALSE
    /\ UNCHANGED <<handingOff, lockQueue, lifeVars, promised, told, drove, calls, upsets>>

\* One keepalive tick; the loop is one task, so its sweeps do not overlap.
Keepalive ==
    /\ lifecycle = "running" /\ ~closed
    /\ NoShow(c) \/ (c.controller = "agent" /\ c.quiet)
    /\ \A i \in DOMAIN lockQueue : lockQueue[i].op \notin {"sweep", "idleLook", "idleTake"}
    /\ Room
    /\ Call("sweep", NoAgent)
    /\ UNCHANGED <<lifeVars, calls, upsets>>

Upset == upsets < MaxUpsets /\ upsets' = upsets + 1

\* _on_disconnected, and the announcement it spawns.
Disconnected ==
    /\ lifecycle = "running" /\ ~closed /\ Upset
    /\ lifecycle' = "crashed" /\ announcing' = TRUE
    /\ UNCHANGED <<c, handingOff, lockQueue, closed, historyVars, calls>>

AnnounceCrash ==
    /\ announcing /\ announcing' = FALSE
    /\ Call("abandon", NoAgent)
    /\ UNCHANGED <<lifecycle, closed, calls, upsets>>

\* stop: marked stopped before its section, which also takes control back.
Stop ==
    /\ lifecycle \in {"running", "crashed"} /\ ~closed /\ Upset
    /\ lifecycle' = "stopped"
    /\ Call("stopAbandon", NoAgent)
    /\ UNCHANGED <<closed, announcing, calls>>

\* A stopped browser is started: Chromium launches, with a token of nobody's.
StartBrowser ==
    /\ lifecycle = "stopped" /\ ~closed
    /\ lifecycle' = "init"
    /\ UNCHANGED <<c, handingOff, lockQueue, closed, announcing, historyVars, calls, upsets>>

\* Launching takes seconds; the calls that waited for the lock are through.
Started ==
    /\ lifecycle = "init" /\ ~closed /\ LockFree
    /\ lifecycle' = "running" /\ c' = Mint(c, NoAgent)
    /\ UNCHANGED <<handingOff, lockQueue, closed, announcing, historyVars, calls, upsets>>

CloseBrowser ==
    /\ ~closed /\ closed' = TRUE /\ Upset
    /\ Call("abandon", NoAgent)
    /\ UNCHANGED <<lifecycle, announcing, calls>>

-------------------------------------------------------------------------------
Next ==
    \/ \E a \in Agents : Command(a) \/ ReleaseCall(a) \/ Frame(a) \/ Answer(a) \/ GiveUp(a)
    \/ TakeControl \/ ReturnToAgents
    \/ RunHead \/ HandoffDone \/ ClaimLapses \/ GoQuiet \/ Keepalive
    \/ Disconnected \/ AnnounceCrash \/ Stop \/ StartBrowser \/ Started \/ CloseBrowser

Spec == Init /\ [][Next]_vars

\* The loop runs what is ready, keepalive ticks, time passes, and the human hands
\* the browser back in the end.
Fairness ==
    /\ WF_vars(RunHead) /\ WF_vars(HandoffDone) /\ WF_vars(GoQuiet) /\ WF_vars(Keepalive)
    /\ WF_vars(ClaimLapses)
    /\ WF_vars(AnnounceCrash) /\ WF_vars(ReturnToAgents) /\ WF_vars(Started)
    /\ \A a \in Agents : WF_vars(Answer(a))

FairSpec == Spec /\ Fairness

-------------------------------------------------------------------------------
(* Properties.                                                              *)

Up == lifecycle = "running" /\ ~closed

\* A browser nobody holds has nobody waiting for it: whatever frees the browser
\* (a release, a hand-back, either sweep, a waiter that gave up) passes it on in
\* the same section, however calls queue for the lock.
FreeMeansNobodyWaits ==
    Up /\ Free(c) => c.resumeQueue = <<>> /\ c.waitQueue = <<>>

\* An agent that was told it is queued and will be messaged is in the queue until
\* it is woken, told that the browser is gone, or gets the browser itself: taking
\* control, handing off, crashing, stopping and closing lose nobody.
NobodyForgotten == promised \subseteq ToSet(c.resumeQueue)

\* Once the browser is gone and its queues have been abandoned, nobody is left
\* waiting for it: a call that read the lifecycle before it changed is ahead of
\* the abandonment in the lock's queue.
NobodyWaitsForTheGone ==
    /\ closed \/ lifecycle \in {"crashed", "stopped"}
    /\ ~announcing /\ \A i \in DOMAIN lockQueue : lockQueue[i].op \notin {"abandon", "stopAbandon"}
    => promised = {} /\ c.resumeQueue = <<>> /\ c.waitQueue = <<>>

\* The agent holding the browser knows it: it was answered "acquired" or messaged,
\* or its waiter has yet to run.  A grant that raced a waiter giving up stays with
\* nobody.
OwnerKnows ==
    Up /\ c.controller = "agent" =>
        c.owner \in told \/ c.waiter[c.owner] = "granted"

\* The holder is not also in line, and nobody is in line twice, so no settle gives
\* the browser back to an agent that is done with it.
InLineOnce ==
    /\ c.controller = "agent" => c.owner \notin ToSet(c.resumeQueue)
    /\ IsInjective(c.resumeQueue) /\ IsInjective(c.waitQueue)

\* The types, and the two lines: nobody stands in one twice, is dropped from it, or
\* waits for a browser that is free or gone; and who gets the browser knows it.
LineIsServed ==
    /\ TypeOK /\ FreeMeansNobodyWaits /\ NobodyForgotten /\ NobodyWaitsForTheGone
    /\ InLineOnce /\ OwnerKnows

\* While an agent holds the browser, the only sockets whose token is good are its
\* own: the one it replaced cannot drive, wherever in a frame's wait for the lock
\* the change of hands fell.
OnlyTheHolderDrives ==
    /\ Up /\ c.controller = "agent" => c.tokenOwner = c.owner
    /\ c.attached \subseteq {c.tokenOwner}

\* Every forwarded frame, that of an agent which drove before included, is one of the
\* agent holding the browser as it is forwarded; with the human in control none is,
\* though the socket of the agent the human took it from stays open and its token good.
FramesAreTheHolders ==
    /\ []OnlyTheHolderDrives
    /\ [][drove'.frames # drove.frames =>
            c'.controller = "agent" /\ c'.owner = drove'.agent /\ ~c'.pinned]_vars

\* The keepalive loop never takes the browser from an agent that has sent a frame
\* within the idle TTL: a frame ends the claim window of the grant it follows, and
\* what was true when the loop looked still is when it takes.
SweepsTheAbsent ==
    [][(Keepalive \/ (RunHead /\ Head(lockQueue).op \in {"sweep", "idleLook", "idleTake"}))
         => (c'.owner # c.owner => ~lively)]_vars

\* Every agent told that it is queued is answered in the end: woken, or told that
\* the browser is gone.
QueuedAreAnswered == \A a \in Agents : a \in promised ~> a \notin promised
=============================================================================
