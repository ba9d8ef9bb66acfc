----------------------------- MODULE AppLifecycle ------------------------------
(***************************************************************************)
(* The shell's app lifecycle manager and its port parker                   *)
(* (shell/app_lifecycle.py, shell/port_parking.py).                        *)
(*                                                                         *)
(* A stoppable app whose program is down has its port held by the shell,   *)
(* so that the first connection can start the program again.  One sweep    *)
(* thread reads all programs' states and then brings each app's parker in  *)
(* line with what it read; wakes come on other threads, from a connection  *)
(* to a held port, the start route and launches.  A section under the      *)
(* manager's lock is one action; so is each socket or supervisord call     *)
(* made outside it.                                                        *)
(*                                                                         *)
(* supervisord, its programs, the registry's writers and the pages that    *)
(* show an app are external.                                               *)
(***************************************************************************)
EXTENDS Naturals, FiniteSets

CONSTANTS
    Apps,           \* the stoppable apps
    NoWindowApps,   \* the apps that declare stop_when_no_windows
    Wakers,         \* threads that may be waking an app at once (a bound)
    WakeBudget,     \* WAKE_BUDGET_COUNT
    MaxFaults,      \* crashes, failed starts, refused calls, stops and starts
                    \* by others (a bound)
    MaxUpsets,      \* edits of the registry and restarts of the shell (a bound)
    Races           \* which of the races below may happen

\* "slowStart": a wake is recorded before the sweep's reading and its start is
\*   asked for after it.
\* "lateWake": a wake comes between the sweep's look at the wakes of an app and its park.
\* "relist": a row leaves the registry and is back before the pass that lets it go, or a
\*   wake of it, has ended.
\* "exitRead": the reading falls between an exit and the autorestart.
\* "halfReleased": a wake asks for the start while another thread has yet to close the
\*   listener it took off the books.
RaceKinds == {"slowStart", "lateWake", "relist", "exitRead", "halfReleased"}

ASSUME AppsAssumption ==
    /\ Apps # {} /\ NoWindowApps \subseteq Apps /\ IsFiniteSet(Wakers) /\ WakeBudget \in Nat \ {0}
    /\ MaxFaults \in Nat /\ MaxUpsets \in Nat
    /\ Races \subseteq RaceKinds

Race(kind) == kind \in Races

VARIABLES
    \* supervisord: each program's state.  holder: who is bound to each port.
    prog, holder,
    \* The registry: is the app in it, and on which port.  The pages: is a window
    \* or a share showing the app.  Has a client come since the shell started.
    listed, port, shown, visited,
    \* The manager's books.  Wake times are counted as those before and those
    \* after the sweep's last states_read_at.
    parked, olderWakes, newerWakes, awaiting, failed, idle,
    \* The waking threads and the sweep thread.
    waker, sweep,
    \* History: the start asked for by a wake has not bound its port; starts
    \* since the app was last up or stopped; shown ever since the pass began;
    \* a grace has passed since a pass last counted a window.
    firstBind, starts, watched, graced,
    faults, upsets

envVars     == <<prog, holder, listed, port, shown, visited>>
bookVars    == <<parked, olderWakes, newerWakes, awaiting, failed, idle>>
historyVars == <<firstBind, starts, watched, graced>>
boundVars   == <<faults, upsets>>
vars == <<envVars, bookVars, waker, sweep, historyVars, boundVars>>

Ports == 1..(MaxUpsets + 1)
NoPort == 0
UpStates   == {"STARTING", "RUNNING", "BACKOFF"}     \* ALREADY_STARTED
DownStates == {"STOPPED", "EXITED", "FATAL"}         \* SUPERVISOR_DOWN_STATENAMES
SomeApp == CHOOSE a \in Apps : TRUE
AtRest == [pc |-> "idle", for |-> "page", app |-> SomeApp, port |-> NoPort]
NoPass == [pc |-> "idle", app |-> SomeApp, todo |-> {}, pass |-> {},
           reading |-> [a \in Apps |-> "STOPPED"], rows |-> [a \in Apps |-> 1],
           counted |-> FALSE, windows |-> {}, release |-> {}]

States == UpStates \cup DownStates \cup {"STOPPING"}
WakerKinds == [pc : {"idle", "called", "refused", "release", "start", "poll", "connect"},
               for : {"page", "route", "launch"}, app : Apps, port : Ports \cup {NoPort}]
SweepKinds == [pc : {"idle", "read", "next", "upRelease", "rule", "decide", "stop", "outcome",
                     "downRelease", "park", "endRelease"},
               app : Apps, todo : SUBSET Apps, pass : SUBSET Apps, reading : [Apps -> States],
               rows : [Apps -> Ports], counted : BOOLEAN, windows : SUBSET Apps,
               release : SUBSET (Apps \X Ports)]

TypeOK ==
    /\ prog \in [Apps -> States]
    /\ holder \in [Apps -> [Ports -> {"free", "app", "shell"}]]
    /\ listed \subseteq Apps /\ port \in [Apps -> Ports] /\ shown \subseteq Apps
    /\ visited \in BOOLEAN
    /\ parked \in [Apps -> Ports \cup {NoPort}]
    /\ olderWakes \in [Apps -> 0..WakeBudget] /\ newerWakes \in [Apps -> 0..WakeBudget]
    /\ awaiting \subseteq Apps /\ failed \subseteq Apps
    /\ idle \in [Apps -> {"none", "young", "grown"}]
    /\ waker \in [Wakers -> WakerKinds] /\ sweep \in SweepKinds
    /\ firstBind \subseteq Apps /\ starts \in [Apps -> 0..WakeBudget + 1]
    /\ watched \subseteq Apps /\ graced \subseteq Apps
    /\ faults \in 0..MaxFaults /\ upsets \in 0..MaxUpsets

\* supervisord and its programs outlive the shell.
Init ==
    /\ prog \in [Apps -> {"RUNNING", "STOPPED"}]
    /\ holder = [a \in Apps |-> [p \in Ports |->
                   IF p = 1 /\ prog[a] = "RUNNING" THEN "app" ELSE "free"]]
    /\ listed = Apps /\ port = [a \in Apps |-> 1] /\ shown = {} /\ visited = FALSE
    /\ parked = [a \in Apps |-> NoPort]
    /\ olderWakes = [a \in Apps |-> 0] /\ newerWakes = [a \in Apps |-> 0]
    /\ awaiting = {} /\ failed = {} /\ idle = [a \in Apps |-> "none"]
    /\ waker = [w \in Wakers |-> AtRest] /\ sweep = NoPass
    /\ firstBind = {} /\ starts = [a \in Apps |-> 0] /\ watched = {} /\ graced = {}
    /\ faults = 0 /\ upsets = 0

-------------------------------------------------------------------------------
Listening(a, p) == holder[a][p] = "shell"
Bound(a) == \E p \in Ports : holder[a][p] = "app"
Close(a, p) == holder' = [holder EXCEPT ![a][p] = IF @ = "shell" THEN "free" ELSE @]
AppLets(a) == [p \in Ports |-> IF holder[a][p] = "app" THEN "free" ELSE holder[a][p]]

Fault == faults < MaxFaults /\ faults' = faults + 1
Upset == upsets < MaxUpsets /\ upsets' = upsets + 1

Capped(n) == IF n > WakeBudget + 1 THEN WakeBudget + 1 ELSE n

\* startProcess: nothing to do for a program that is up; one that is still
\* stopping has a process, and supervisord spawns no second.
Startable(a) == prog[a] \in DownStates
Launched(a) ==
    /\ prog' = [prog EXCEPT ![a] = IF Startable(a) THEN "STARTING" ELSE @]
    /\ firstBind' = IF Startable(a) THEN firstBind \cup {a} ELSE firstBind
    /\ starts' = [starts EXCEPT ![a] = IF Startable(a) THEN Capped(@ + 1) ELSE @]
\* stopProcess: not running is success; only a process that is there takes time.
ToldToStop(a) ==
    /\ starts' = [starts EXCEPT ![a] = 0]
    /\ prog' = [prog EXCEPT ![a] = CASE @ \in {"STARTING", "RUNNING"} -> "STOPPING"
                                  [] @ = "BACKOFF" -> "STOPPED"
                                  [] OTHER -> @]

-------------------------------------------------------------------------------
(* A wake.                                                                   *)

WakerAt(w, pc) == waker' = [waker EXCEPT ![w].pc = pc]
WakerDone(w) == waker' = [waker EXCEPT ![w] = AtRest]
Calling(a, for) == [pc |-> "called", for |-> for, app |-> a, port |-> NoPort]

\* _serve: the first connection closes the listener, and a release of this parker
\* finds nothing left to close; then it asks for the wake.
Serve(w, a, p) ==
    /\ Close(a, p)
    /\ waker' = [v \in Wakers |->
                   IF v = w THEN Calling(a, "page")
                   ELSE IF waker[v].app = a /\ waker[v].port = p
                        THEN [waker[v] EXCEPT !.port = NoPort] ELSE waker[v]]
    /\ sweep' = [sweep EXCEPT !.release = @ \ {<<a, p>>}]

Accept(w, a, p) ==
    /\ waker[w].pc = "idle" /\ Listening(a, p)
    /\ Serve(w, a, p)
    /\ UNCHANGED <<prog, listed, port, shown, visited, bookVars, historyVars, boundVars>>

\* The start route, and a launch whose entry reads as not running (it may be old).
AskForApp(w, a, for) ==
    /\ waker[w].pc = "idle" /\ a \in listed /\ for \in {"route", "launch"}
    /\ waker' = [waker EXCEPT ![w] = Calling(a, for)]
    /\ UNCHANGED <<envVars, bookVars, sweep, historyVars, boundVars>>

\* _stoppable_program_or_refuse raises: nothing of the wake happens.
RefuseUnlisted(w) ==
    /\ waker[w].pc = "called" /\ waker[w].app \notin listed
    /\ WakerDone(w)
    /\ UNCHANGED <<envVars, bookVars, sweep, historyVars, boundVars>>

BudgetSpent(a) == olderWakes[a] + newerWakes[a] >= WakeBudget
\* The listener of the parker on the books; none when a connection has closed it.
OpenParker(a) == IF parked[a] # NoPort /\ Listening(a, parked[a]) THEN parked[a] ELSE NoPort
TakeParker(w, pc) ==
    LET a == waker[w].app IN
    /\ parked' = [parked EXCEPT ![a] = NoPort]
    /\ waker' = [waker EXCEPT ![w].pc = pc, ![w].port = OpenParker(a)]

\* A wake of the app is recorded, and its start not yet asked for.
OnItsWay(a) == \E w \in Wakers : waker[w].app = a /\ waker[w].pc \in {"release", "start"}

\* Between the sweep's look at an app's wakes and its park of the app's port.
AtThePark(a) == sweep.pc \in {"outcome", "downRelease", "park"} /\ sweep.app = a

\* wake, the locked part, within the budget and beyond it.
RecordWake(w) ==
    LET a == waker[w].app IN
    /\ waker[w].pc = "called" /\ a \in listed /\ ~BudgetSpent(a)
    /\ Race("lateWake") \/ ~AtThePark(a)
    /\ TakeParker(w, "release")
    /\ newerWakes' = [newerWakes EXCEPT ![a] = @ + 1]
    /\ awaiting' = awaiting \cup {a} /\ failed' = failed \ {a}
    /\ UNCHANGED <<envVars, olderWakes, idle, sweep, historyVars, boundVars>>

RefuseWake(w) ==
    LET a == waker[w].app IN
    /\ waker[w].pc = "called" /\ a \in listed /\ BudgetSpent(a)
    /\ TakeParker(w, "refused")
    /\ failed' = failed \cup {a}
    /\ UNCHANGED <<envVars, olderWakes, newerWakes, awaiting, idle, sweep, historyVars,
                   boundVars>>

\* A thread has taken a parker off the books and not yet closed its listener.
BeingReleased(a, p) ==
    \/ <<a, p>> \in sweep.release
    \/ \E w \in Wakers : /\ waker[w].pc \in {"release", "refused"}
                         /\ waker[w].app = a /\ waker[w].port = p

\* The parker is released before the program is asked to start.
StartFirst(w) == WakerAt(w, "start") /\ UNCHANGED holder              \* a fault
ReleaseForStart(w) ==
    /\ IF waker[w].port = NoPort THEN UNCHANGED holder
       ELSE Close(waker[w].app, waker[w].port)
    /\ WakerAt(w, "start")

Release(w) ==
    /\ waker[w].pc = "release"
    /\ ReleaseForStart(w)
    /\ UNCHANGED <<prog, listed, port, shown, visited, bookVars, sweep, historyVars,
                   boundVars>>

ReleaseRefused(w) ==
    /\ waker[w].pc = "refused"
    /\ IF waker[w].port = NoPort THEN UNCHANGED holder
       ELSE Close(waker[w].app, waker[w].port)
    /\ WakerDone(w)
    /\ UNCHANGED <<prog, listed, port, shown, visited, bookVars, sweep, historyVars,
                   boundVars>>

\* A launch goes on to wait for the port; everyone else has the answer.
Answered(w) == IF waker[w].for = "launch" THEN WakerAt(w, "poll") ELSE WakerDone(w)

Start(w) ==
    /\ waker[w].pc = "start"
    /\ Race("halfReleased") \/ \A p \in Ports : ~BeingReleased(waker[w].app, p)
    /\ Launched(waker[w].app) /\ Answered(w)
    /\ UNCHANGED <<holder, listed, port, shown, visited, bookVars, sweep, watched, graced,
                   boundVars>>

\* start_program raises: supervisord refused, or took the call and did not answer.
StartRaises(w) ==
    LET a == waker[w].app IN
    /\ waker[w].pc = "start" /\ Fault
    /\ Race("halfReleased") \/ \A p \in Ports : ~BeingReleased(a, p)
    /\ Launched(a) \/ UNCHANGED <<prog, firstBind, starts>>
    /\ failed' = failed \cup {a} /\ awaiting' = awaiting \ {a}
    /\ WakerDone(w)
    /\ UNCHANGED <<holder, listed, port, shown, visited, parked, olderWakes, newerWakes,
                   idle, sweep, watched, graced, upsets>>

\* wake_and_wait: a port parked again ends the wait, and is looked for before each
\* connection; a connection that reaches a parker all the same wakes the app.
LaunchLooks(w) ==
    /\ waker[w].pc = "poll"
    /\ IF parked[waker[w].app] # NoPort THEN WakerDone(w) ELSE WakerAt(w, "connect")
    /\ UNCHANGED <<envVars, bookVars, sweep, historyVars, boundVars>>

LaunchConnects(w) ==
    LET a == waker[w].app  at == holder[a][port[a]] IN
    /\ waker[w].pc = "connect"
    /\ CASE at = "app" -> WakerDone(w) /\ UNCHANGED <<holder, sweep>>
         [] at = "shell" -> Serve(w, a, port[a])
         [] OTHER -> (WakerAt(w, "poll") \/ WakerDone(w)) /\ UNCHANGED <<holder, sweep>>
    /\ UNCHANGED <<prog, listed, port, shown, visited, bookVars, historyVars, boundVars>>

-------------------------------------------------------------------------------
(* The sweep: one pass over what one reading showed.                          *)

SweepAt(pc) == sweep' = [sweep EXCEPT !.pc = pc]

\* states_read_at: from here on a wake is newer than the reading.
SweepBegins ==
    /\ sweep.pc = "idle"
    /\ Race("slowStart") \/ \A a \in Apps : ~OnItsWay(a)
    /\ SweepAt("read")
    /\ olderWakes' = [a \in Apps |-> olderWakes[a] + newerWakes[a]]
    /\ newerWakes' = [a \in Apps |-> 0]
    /\ UNCHANGED <<envVars, parked, awaiting, failed, idle, waker, historyVars, boundVars>>

\* program_states, then the rows; the windows are counted when first needed.
SweepReads ==
    /\ sweep.pc = "read"
    /\ sweep' = [sweep EXCEPT !.pc = "next", !.reading = prog, !.rows = port,
                              !.todo = listed, !.pass = listed]
    /\ watched' = shown
    /\ UNCHANGED <<envVars, bookVars, waker, firstBind, starts, graced, boundVars>>

\* _forget_wakes_before(states_read_at).
ForgetWakes(a) == olderWakes' = [olderWakes EXCEPT ![a] = 0]

\* Up, or about to bind again by itself: the port must be free.
SeenComingUp(a) == sweep.reading[a] \in {"RUNNING", "STARTING"}         \* a fault
SeenUp(a) == sweep.reading[a] = "RUNNING"
Rule(a) == IF sweep.reading[a] = "BACKOFF" THEN "next" ELSE "rule"
SweepFindsUp(a) ==
    /\ sweep.pc = "next" /\ a \in sweep.todo /\ sweep.reading[a] \in UpStates
    /\ parked' = [parked EXCEPT ![a] = NoPort]
    /\ IF SeenUp(a)
       THEN /\ awaiting' = awaiting \ {a} /\ failed' = failed \ {a} /\ ForgetWakes(a)
       ELSE UNCHANGED <<awaiting, failed, olderWakes>>
    /\ sweep' = [sweep EXCEPT !.app = a, !.todo = @ \ {a},
                              !.pc = IF parked[a] = NoPort THEN Rule(a) ELSE "upRelease",
                              !.release = {<<a, OpenParker(a)>>} \ {<<a, NoPort>>}]
    /\ UNCHANGED <<envVars, newerWakes, idle, waker, historyVars, boundVars>>

SweepReleases ==
    /\ sweep.pc \in {"upRelease", "downRelease", "endRelease"}
    /\ holder' = [a \in Apps |-> [p \in Ports |->
                    IF <<a, p>> \in sweep.release /\ Listening(a, p) THEN "free"
                    ELSE holder[a][p]]]
    /\ sweep' = [sweep EXCEPT !.release = {},
                              !.pc = CASE @ = "upRelease" -> Rule(sweep.app)
                                       [] @ = "downRelease" -> "park"
                                       [] OTHER -> "idle"]
    /\ UNCHANGED <<prog, listed, port, shown, visited, bookVars, waker, historyVars,
                   boundVars>>

\* _apply_no_window_rule: one count of windows and of shares serves the whole pass.
Counts == IF sweep.counted THEN sweep.windows ELSE shown
StillIdle(a) == idle                                                  \* a fault
NotIdle(a) == [idle EXCEPT ![a] = "none"]
SweepCounts ==
    LET a == sweep.app  inUse == a \notin NoWindowApps \/ a \in Counts IN
    /\ sweep.pc = "rule"
    /\ sweep' = IF a \in NoWindowApps
                THEN [sweep EXCEPT !.counted = TRUE, !.windows = Counts,
                                   !.pc = IF inUse THEN "next" ELSE "decide"]
                ELSE [sweep EXCEPT !.pc = "next"]
    /\ idle' = IF inUse THEN NotIdle(a) ELSE idle
    /\ graced' = IF inUse THEN graced \ {a} ELSE graced
    /\ UNCHANGED <<envVars, parked, olderWakes, newerWakes, awaiting, failed, waker,
                   firstBind, starts, watched, boundVars>>

\* The grace starts the first time no window is found in a visited workspace.
SweepDecides ==
    LET a == sweep.app IN
    /\ sweep.pc = "decide"
    /\ idle' = IF ~visited THEN idle
               ELSE [idle EXCEPT ![a] = IF @ = "grown" THEN "none" ELSE "young"]
    /\ SweepAt(IF visited /\ idle[a] = "grown" THEN "stop" ELSE "next")
    /\ UNCHANGED <<envVars, parked, olderWakes, newerWakes, awaiting, failed, waker,
                   historyVars, boundVars>>

SweepStops ==
    /\ sweep.pc = "stop"
    /\ \/ ToldToStop(sweep.app) /\ UNCHANGED faults
       \/ Fault /\ UNCHANGED <<prog, starts>>          \* could not stop it; the next pass tries
    /\ SweepAt("next")
    /\ UNCHANGED <<holder, listed, port, shown, visited, bookVars, waker, firstBind, watched,
                   graced, upsets>>

\* Not up.  A program still stopping keeps its port, and one woken since the
\* reading is about to take it.
WokenSince(a) == newerWakes[a] > 0
SweepFindsDown(a) ==
    /\ sweep.pc = "next" /\ a \in sweep.todo /\ sweep.reading[a] \notin UpStates
    /\ idle' = [idle EXCEPT ![a] = "none"]
    /\ sweep' = [sweep EXCEPT !.app = a, !.todo = @ \ {a},
                              !.pc = IF sweep.reading[a] = "STOPPING" \/ WokenSince(a)
                                     THEN "next" ELSE "outcome"]
    /\ UNCHANGED <<envVars, parked, olderWakes, newerWakes, awaiting, failed, waker,
                   historyVars, boundVars>>

ParkedAnywhere(a) == parked[a] # NoPort                               \* a fault
ParkedWhereItIs(a) == parked[a] = sweep.rows[a]

\* The outcome of a wake, and a parker on a port the row no longer names.
SweepNotesOutcome ==
    LET a == sweep.app  read == sweep.reading[a]  over == read \in {"FATAL", "STOPPED"} IN
    /\ sweep.pc = "outcome"
    /\ IF a \in awaiting
       THEN /\ awaiting' = IF over THEN awaiting \ {a} ELSE awaiting
            /\ failed' = IF read = "FATAL" THEN failed \cup {a} ELSE failed
            /\ IF read = "STOPPED" THEN ForgetWakes(a) ELSE UNCHANGED olderWakes
       ELSE UNCHANGED <<awaiting, failed, olderWakes>>
    /\ IF ParkedWhereItIs(a)
       THEN SweepAt("next") /\ UNCHANGED parked
       ELSE /\ parked' = [parked EXCEPT ![a] = NoPort]
            /\ sweep' = [sweep EXCEPT
                 !.pc = IF parked[a] = NoPort THEN "park" ELSE "downRelease",
                 !.release = {<<a, OpenParker(a)>>} \ {<<a, NoPort>>}]
    /\ UNCHANGED <<envVars, newerWakes, idle, waker, historyVars, boundVars>>

\* _park: bound and put on the books under one lock, unless something has the port.
Unrecorded(a, p) == UNCHANGED parked                                  \* a fault
OnTheBooks(a, p) == parked' = [parked EXCEPT ![a] = p]
SweepParks ==
    LET a == sweep.app  p == sweep.rows[a] IN
    /\ sweep.pc = "park"
    /\ IF holder[a][p] = "free"
       THEN holder' = [holder EXCEPT ![a][p] = "shell"] /\ OnTheBooks(a, p)
       ELSE UNCHANGED <<holder, parked>>
    /\ SweepAt("next")
    /\ UNCHANGED <<prog, listed, port, shown, visited, olderWakes, newerWakes, awaiting,
                   failed, idle, waker, historyVars, boundVars>>

\* _forget_apps_except: what the pass did not reach is let go.
Beyond(apps) == {a \in Apps \ apps : OpenParker(a) # NoPort}
SweepEnds ==
    /\ sweep.pc = "next" /\ sweep.todo = {}
    /\ parked' = [a \in Apps |-> IF a \in sweep.pass THEN parked[a] ELSE NoPort]
    /\ awaiting' = awaiting \cap sweep.pass /\ failed' = failed \cap sweep.pass
    /\ olderWakes' = [a \in Apps |-> IF a \in sweep.pass THEN olderWakes[a] ELSE 0]
    /\ newerWakes' = [a \in Apps |-> IF a \in sweep.pass THEN newerWakes[a] ELSE 0]
    /\ idle' = [a \in Apps |-> IF a \in sweep.pass THEN idle[a] ELSE "none"]
    /\ sweep' = [NoPass EXCEPT
                   !.pc = IF Beyond(sweep.pass) = {} THEN "idle" ELSE "endRelease",
                   !.release = {<<a, OpenParker(a)>> : a \in Beyond(sweep.pass)}]
    /\ starts' = [a \in Apps |-> IF a \in sweep.pass THEN starts[a] ELSE 0]
    /\ UNCHANGED <<envVars, waker, firstBind, watched, graced, boundVars>>

-------------------------------------------------------------------------------
(* The clocks, the visitor, and a restart of the shell.                       *)

\* no_windows_grace_seconds pass.
GracePasses ==
    /\ \E a \in Apps : idle[a] = "young"
    /\ idle' = [a \in Apps |-> IF idle[a] = "young" THEN "grown" ELSE idle[a]]
    /\ graced' = graced \cup {a \in Apps : idle[a] = "young"}
    /\ UNCHANGED <<envVars, parked, olderWakes, newerWakes, awaiting, failed, waker, sweep,
                   firstBind, starts, watched, boundVars>>

\* WAKE_BUDGET_WINDOW_SECONDS pass without a wake of the app.
BudgetPasses(a) ==
    /\ olderWakes[a] > 0 /\ newerWakes[a] = 0
    /\ ForgetWakes(a) /\ starts' = [starts EXCEPT ![a] = 0]
    /\ ~OnItsWay(a)
    /\ UNCHANGED <<envVars, parked, newerWakes, awaiting, failed, idle, waker, sweep,
                   firstBind, watched, graced, boundVars>>

MarkVisited ==
    /\ ~visited /\ visited' = TRUE
    /\ UNCHANGED <<prog, holder, listed, port, shown, bookVars, waker, sweep, historyVars,
                   boundVars>>

\* The shell stops or dies, and starts: its listeners and its books are gone.
Restart ==
    /\ Upset
    /\ holder' = [a \in Apps |-> [p \in Ports |->
                    IF Listening(a, p) THEN "free" ELSE holder[a][p]]]
    /\ visited' = FALSE
    /\ parked' = [a \in Apps |-> NoPort]
    /\ olderWakes' = [a \in Apps |-> 0] /\ newerWakes' = [a \in Apps |-> 0]
    /\ awaiting' = {} /\ failed' = {} /\ idle' = [a \in Apps |-> "none"]
    /\ waker' = [w \in Wakers |-> AtRest] /\ sweep' = NoPass
    /\ starts' = [a \in Apps |-> 0] /\ graced' = {}
    /\ UNCHANGED <<prog, listed, port, shown, firstBind, watched, faults>>

-------------------------------------------------------------------------------
(* The programs and supervisord, the pages, the registry.                     *)

ProgramVars(a) == UNCHANGED <<listed, port, shown, visited, bookVars, waker, sweep, watched,
                              graced, upsets>>

ProgramBinds(a) ==
    /\ prog[a] \in {"STARTING", "RUNNING"} /\ ~Bound(a) /\ holder[a][port[a]] = "free"
    /\ holder' = [holder EXCEPT ![a][port[a]] = "app"]
    /\ firstBind' = firstBind \ {a}
    /\ UNCHANGED <<prog, starts, faults>> /\ ProgramVars(a)

\* It has been up for startsecs, with its port bound or not.
ProgramStays(a) ==
    /\ prog[a] = "STARTING"
    /\ prog' = [prog EXCEPT ![a] = "RUNNING"] /\ starts' = [starts EXCEPT ![a] = 0]
    /\ UNCHANGED <<holder, firstBind, faults>> /\ ProgramVars(a)

\* It dies of the taken port, or otherwise: before startsecs supervisord retries
\* after a while, later it restarts it at once if its autorestart says so.
ProgramExits(a) ==
    /\ prog[a] \in {"STARTING", "RUNNING"}
    /\ \E to \in (IF prog[a] = "STARTING" THEN {"BACKOFF"} ELSE {"EXITED", "STARTING"}) :
         prog' = [prog EXCEPT ![a] = to]
    /\ holder' = [holder EXCEPT ![a] = AppLets(a)]
    /\ firstBind' = firstBind \ {a}
    /\ UNCHANGED starts /\ ProgramVars(a)
ProgramCollides(a) ==
    ~Bound(a) /\ Listening(a, port[a]) /\ ProgramExits(a) /\ UNCHANGED faults
ProgramDies(a) == ProgramExits(a) /\ Fault

\* A retry, and the end of the retries.
ProgramRetries(a) ==
    /\ prog[a] = "BACKOFF" \/ (Race("exitRead") /\ prog[a] = "EXITED")
    /\ prog' = [prog EXCEPT ![a] = "STARTING"]
    /\ UNCHANGED <<holder, firstBind, starts, faults>> /\ ProgramVars(a)

ProgramGivesUp(a) ==
    /\ prog[a] = "BACKOFF"
    /\ prog' = [prog EXCEPT ![a] = "FATAL"]
    /\ UNCHANGED <<holder, firstBind, starts, faults>> /\ ProgramVars(a)

ProgramEnds(a) ==
    /\ prog[a] = "STOPPING"
    /\ prog' = [prog EXCEPT ![a] = "STOPPED"]
    /\ holder' = [holder EXCEPT ![a] = AppLets(a)]
    /\ firstBind' = firstBind \ {a}
    /\ UNCHANGED <<starts, faults>> /\ ProgramVars(a)

\* stop_app: Quit, the stop route; and supervisorctl, which can also start.
StopApp(a) ==
    /\ a \in listed /\ prog[a] \in UpStates /\ Fault
    /\ ToldToStop(a)
    /\ UNCHANGED <<holder, firstBind>> /\ ProgramVars(a)

StartedByOther(a) ==
    /\ Startable(a) /\ Fault
    /\ prog' = [prog EXCEPT ![a] = "STARTING"]
    /\ UNCHANGED <<holder, firstBind, starts>> /\ ProgramVars(a)

ShowApp(a) ==
    /\ a \notin shown /\ shown' = shown \cup {a}
    /\ UNCHANGED <<prog, holder, listed, port, visited, bookVars, waker, sweep, historyVars,
                   boundVars>>

HideApp(a) ==
    /\ a \in shown /\ shown' = shown \ {a} /\ watched' = watched \ {a}
    /\ UNCHANGED <<prog, holder, listed, port, visited, bookVars, waker, sweep, firstBind,
                   starts, graced, boundVars>>

\* The app registers a port it has not had (not while it is bound to the one it has).
Reregister(a) ==
    /\ Upset /\ ~Bound(a)
    /\ port' = [port EXCEPT ![a] = @ + 1]
    /\ UNCHANGED <<prog, holder, listed, shown, visited, bookVars, waker, sweep, historyVars,
                   faults>>

\* The row goes (or its program does, or it becomes critical).
Unlist(a) ==
    /\ Upset /\ a \in listed
    /\ listed' = listed \ {a}
    /\ UNCHANGED <<prog, holder, port, shown, visited, bookVars, waker, sweep, historyVars,
                   faults>>

\* It is back, and its starts are counted anew.
Relist(a) ==
    /\ a \notin listed
    /\ \/ Race("relist")
       \/ /\ sweep.pc \in {"idle", "read"} /\ ~OnItsWay(a)
          /\ parked[a] = NoPort /\ \A p \in Ports : ~Listening(a, p)
    /\ listed' = listed \cup {a}
    /\ starts' = [starts EXCEPT ![a] = 0]
    /\ UNCHANGED <<prog, holder, port, shown, visited, bookVars, waker, sweep, firstBind, watched,
                   graced, boundVars>>

-------------------------------------------------------------------------------
WakerStep(w) ==
    \/ RefuseUnlisted(w) \/ RecordWake(w) \/ RefuseWake(w) \/ Release(w) \/ ReleaseRefused(w)
    \/ Start(w) \/ StartRaises(w) \/ LaunchLooks(w) \/ LaunchConnects(w)

SweepStep ==
    \/ SweepBegins \/ SweepReads \/ SweepReleases \/ SweepCounts \/ SweepDecides
    \/ SweepStops \/ SweepNotesOutcome \/ SweepParks \/ SweepEnds
    \/ \E a \in Apps : SweepFindsUp(a) \/ SweepFindsDown(a)

ProgramStep(a) ==
    \/ ProgramBinds(a) \/ ProgramCollides(a) \/ ProgramStays(a) \/ ProgramDies(a) \/ ProgramRetries(a)
    \/ ProgramGivesUp(a) \/ ProgramEnds(a)

WorldStep(a) ==
    \/ StopApp(a) \/ StartedByOther(a) \/ ShowApp(a) \/ HideApp(a) \/ Reregister(a)
    \/ Unlist(a) \/ Relist(a) \/ BudgetPasses(a)
    \/ \E w \in Wakers : \/ \E p \in Ports : Accept(w, a, p)
                         \/ \E for \in {"route", "launch"} : AskForApp(w, a, for)

Next ==
    \/ SweepStep \/ GracePasses \/ MarkVisited \/ Restart
    \/ \E w \in Wakers : WakerStep(w)
    \/ \E a \in Apps : ProgramStep(a) \/ WorldStep(a)

\* A connection to a port held for an app that a page shows: the page, or the
\* proxy's loading page, asks again and again.
PageArrives(a) == a \in shown /\ \E w \in Wakers : Accept(w, a, port[a])

Fairness ==
    /\ WF_vars(SweepStep) /\ SF_vars(SweepBegins)
    /\ \A w \in Wakers : WF_vars(WakerStep(w)) /\ SF_vars(RecordWake(w))
    /\ \A a \in Apps :
         /\ WF_vars(ProgramBinds(a)) /\ WF_vars(ProgramCollides(a))
         /\ WF_vars(ProgramStays(a)) /\ WF_vars(ProgramRetries(a)) /\ WF_vars(ProgramEnds(a))
         /\ WF_vars(PageArrives(a)) /\ WF_vars(BudgetPasses(a))

Spec == Init /\ [][Next]_vars
FairSpec == Spec /\ Fairness

-------------------------------------------------------------------------------
(* Properties.                                                                *)

\* Every port the shell listens on is on the books, or in the hands of a thread
\* that is about to release it: a listener off the books would hold the port
\* against its app for as long as the shell lives.
NoStrayListener ==
    \A a \in Apps, p \in Ports : Listening(a, p) => parked[a] = p \/ BeingReleased(a, p)

\* An app on the books is listened for, or its wake is on its way: a closed
\* parker left there reads as settled to every pass, and nothing would wake the
\* app again ("cannot find no parker and leave a woken one on the books").
BookedIsHeld ==
    \A a \in listed : parked[a] # NoPort =>
        \/ Listening(a, parked[a])
        \/ \E w \in Wakers : waker[w].pc = "called" /\ waker[w].for = "page" /\ waker[w].app = a

\* "the app's first bind never collides with the shell's listener".
FirstBindIsFree == \A a \in firstBind : ~Listening(a, port[a])

\* The types; the parker's books and the shell's listeners agree, and no listener is
\* in the way of the app it stands in for.
ListenersOnTheBooks == TypeOK /\ NoStrayListener /\ BookedIsHeld /\ FirstBindIsFree

\* A program that cannot come up is started by wakes at most WAKE_BUDGET_COUNT
\* times in a window, however many reloads and launches ask for it.
WakesBounded == \A a \in Apps : starts[a] <= WakeBudget

\* The no-window rule stops an app only if it was not shown during the whole pass,
\* and a grace has gone by since any pass last found it in use.
StopsOnlyTheUnused ==
    [][sweep.pc = "stop" /\ sweep'.pc = "next" /\ prog' # prog =>
         sweep.app \notin watched /\ sweep.app \in graced]_vars

\* An app that is shown comes up, whatever crossed on the way: again and again it
\* is bound to its port, no longer shown, or not the shell's to start.
ShownComesUp == \A a \in Apps : []<>(Bound(a) \/ a \notin shown \/ a \notin listed)
===============================================================================
