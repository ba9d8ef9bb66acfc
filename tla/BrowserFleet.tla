----------------------------- MODULE BrowserFleet ------------------------------
(***************************************************************************)
(* The browser fleet: how browsers are created, launched, stopped, started *)
(* again, closed, saved and restored (BrowserSessionManager and the        *)
(* lifecycle half of LiveBrowser, apps/browser/src/browser/session.py).    *)
(*                                                                         *)
(* A browser is a name, a LiveBrowser object, an Xvfb display, a Chromium  *)
(* and a profile on disk.  All coroutines run on one asyncio loop, so a    *)
(* step ends where one awaits: for a process to come up or to end, for the *)
(* registry lock, which a save holds across its awaits, for the startup    *)
(* lock, which a launch holds from beginning to end, or for another task.  *)
(* A kill of the daemon loses everything but the manifest and the profiles.*)
(*                                                                         *)
(* Chromium, Xvfb and the disk are external.  The window sweep and the     *)
(* stop route make the same call.                                          *)
(***************************************************************************)
EXTENDS Naturals, Sequences, FiniteSets, SequencesExt

CONSTANTS
    Names,          \* browser names
    Objects,        \* LiveBrowser objects of one daemon's life (a bound)
    Callers,        \* requests being served at once (a bound)
    Launch,         \* the launch holding the startup lock
    Term,           \* the daemon told to end
    None,           \* no object, no name
    MaxSessions,    \* _MAX_SESSIONS
    MaxLaunches,    \* Chromium launches (a bound)
    MaxRequests,    \* stops, starts and closes (a bound)
    MaxFaults,      \* deaths of Chromium, failed launches, ends of the daemon
                    \* (a bound)
    Races           \* which of the races below may happen

\* "restoreFlake": a launch fails while the fleet is restored.
\* "notInstalled": a daemon with browsers to restore boots before Chromium is installed.
\* "startDuringStop", "doubleStart": a start comes while a stop, or another start, of
\* the same browser is under way.
\* "createInRestore", "crashInRestore": a browser is created, or is found dead,
\* while the fleet is restored.
\* "createInClose": a browser is created under the name of one still being closed.
\* "stopInSave": a crashed browser is stopped while a save collects tabs.
\* "endInRestore", "endAtWork": the daemon is told to end while the fleet is restored,
\* or while a browser is being launched, stopped or closed.
RaceKinds == {"restoreFlake", "notInstalled", "startDuringStop", "doubleStart",
              "createInRestore", "crashInRestore", "createInClose", "stopInSave",
              "endInRestore", "endAtWork"}

ASSUME FleetAssumption ==
    /\ Launch \notin Callers /\ Term \notin Callers \cup {Launch}
    /\ None \notin Objects \cup Names
    /\ MaxSessions \in Nat \ {0} /\ MaxLaunches \in Nat /\ MaxRequests \in Nat
    /\ MaxFaults \in Nat /\ Races \subseteq RaceKinds

Race(kind) == kind \in Races
Procs == Callers \cup {Launch, Term}
Ids == 1..MaxLaunches
NoId == 0

VARIABLES
    \* _browsers; each object's name, _lifecycle, _closed, the handles it holds and
    \* whether its keepalive loop runs.
    browsers, object,
    \* The launches waiting for _startup_lock, oldest first; every request being
    \* served and the launch under way.
    launchQueue, proc,
    \* A save that has taken its snapshot, with _lock; a save asked for.
    saving, dirty,
    \* restore(): its progress, what it still has to bring back, what it wants.
    restore,
    \* On disk.
    manifest, profiles,
    \* The processes that are alive; the n-th launch's have the number n.
    chromiums, displays, launches,
    \* History: browsers that have run, and browsers that have been saved, until closed,
    \* found not to launch, or killed before a save; names whose close is done.
    used, saved, forgotten,
    requests, faults

volatileVars == <<browsers, object, launchQueue, proc, saving, dirty, restore>>
diskVars    == <<manifest, profiles>>
processVars == <<chromiums, displays, launches>>
historyVars == <<used, saved, forgotten>>
boundVars   == <<requests, faults>>
vars == <<volatileVars, diskVars, processVars, historyVars, boundVars>>

Lives == {"init", "running", "crashed", "stopped"}
Unused == [name |-> None, life |-> "init", closed |-> FALSE, chrome |-> NoId,
           xvfb |-> NoId, keepalive |-> FALSE]
Idle == [pc |-> "idle", op |-> "none", o |-> None, name |-> None, h |-> NoId, keep |-> FALSE]
NoSave == [by |-> None, names |-> {}]
NoRestore == [pc |-> "off", todo |-> {}, wanted |-> {}, stopped |-> {}, settled |-> {}]
NoManifest == [exists |-> FALSE, names |-> {}, stopped |-> {}]

TypeOK ==
    /\ browsers \in [Names -> Objects \cup {None}]
    /\ object \in [Objects -> [name : Names \cup {None}, life : Lives, closed : BOOLEAN,
                               chrome : Ids \cup {NoId}, xvfb : Ids \cup {NoId},
                               keepalive : BOOLEAN]]
    /\ \A n \in Names : browsers[n] # None => object[browsers[n]].name = n
                                              /\ ~object[browsers[n]].closed
    /\ launchQueue \in Seq([o : Objects, keep : BOOLEAN])
    /\ proc \in [Procs -> [pc : {"idle", "tabs", "cap", "join", "cdp", "kill", "audio",
                                 "display", "save", "forget", "spawn", "chrome", "connect",
                                 "next"},
                           op : {"none", "stop", "start", "close", "launch", "end"},
                           o : Objects \cup {None}, name : Names \cup {None},
                           h : Ids \cup {NoId}, keep : BOOLEAN]]
    /\ saving \in [by : Procs \cup {None}, names : SUBSET Names]
    /\ dirty \in BOOLEAN
    /\ restore \in [pc : {"off", "begin", "next", "await", "write"}, todo : SUBSET Names,
                    wanted : SUBSET Names, stopped : SUBSET Names, settled : SUBSET Names]
    /\ manifest \in [exists : BOOLEAN, names : SUBSET Names, stopped : SUBSET Names]
    /\ manifest.stopped \subseteq manifest.names /\ profiles \subseteq Names
    /\ chromiums \subseteq Ids /\ displays \subseteq Ids /\ launches \in 0..MaxLaunches
    /\ used \subseteq Names /\ saved \subseteq Names /\ forgotten \subseteq Names
    /\ requests \in 0..MaxRequests /\ faults \in 0..MaxFaults

Init ==
    /\ browsers = [n \in Names |-> None] /\ object = [o \in Objects |-> Unused]
    /\ launchQueue = <<>> /\ proc = [p \in Procs |-> Idle]
    /\ saving = NoSave /\ dirty = FALSE /\ restore = [NoRestore EXCEPT !.pc = "begin"]
    /\ manifest = NoManifest /\ profiles = {}
    /\ chromiums = {} /\ displays = {} /\ launches = 0
    /\ used = {} /\ saved = {} /\ forgotten = {}
    /\ requests = 0 /\ faults = 0

-------------------------------------------------------------------------------
Registered == {n \in Names : browsers[n] # None}
LifeOf(n) == object[browsers[n]].life
InLife(lives) == {n \in Registered : LifeOf(n) \in lives}
Launched == InLife({"init", "running"})
AtCap == Cardinality(Launched) >= MaxSessions
Locked == saving.by # None \/ restore.pc = "write"
Ready == restore.pc = "off"
Ending == proc[Term].op = "end"

WaitsToLaunch(o) == \E i \in DOMAIN launchQueue : launchQueue[i].o = o
WorkedOn(o, ops) == \E p \in Procs : proc[p].o = o /\ proc[p].op \in ops
Spare(o) == o \notin {browsers[n] : n \in Names} /\ ~WaitsToLaunch(o)
            /\ \A p \in Procs : proc[p].o # o

\* _register_init_locked.
Register(n, o, life) ==
    /\ browsers' = [browsers EXCEPT ![n] = o]
    /\ object' = [object EXCEPT ![o] = [Unused EXCEPT !.name = n, !.life = life]]

\* _browsers.pop.
Unlist(n) == browsers' = [browsers EXCEPT ![n] = None]

QueueLaunch(o, keep) == launchQueue' = Append(launchQueue, [o |-> o, keep |-> keep])

Go(p, pc) == proc' = [proc EXCEPT ![p].pc = pc]
Rest(p) == proc' = [proc EXCEPT ![p] = Idle]
Begin(p, op, pc, n) ==
    proc' = [proc EXCEPT ![p] = [Idle EXCEPT !.pc = pc, !.op = op, !.name = n,
                                             !.o = browsers[n]]]

Request == requests < MaxRequests /\ requests' = requests + 1
Fault == faults < MaxFaults /\ faults' = faults + 1

-------------------------------------------------------------------------------
(* Creating a browser, and the launch of one.                               *)

\* The names of create: the registry's, the manifest's and the profiles'.
Taken(n) == n \in Registered \cup manifest.names \cup profiles

Create(n) ==
    /\ Ready \/ Race("createInRestore")
    /\ (\E p \in Callers : proc[p].op = "close" /\ proc[p].name = n) => Race("createInClose")
    /\ ~Ending /\ ~Locked /\ ~AtCap /\ ~Taken(n) /\ launches + Len(launchQueue) < MaxLaunches
    /\ \E o \in Objects :
          /\ Spare(o) /\ Register(n, o, "init")
          /\ QueueLaunch(o, FALSE)
    /\ dirty' = TRUE /\ forgotten' = forgotten \ {n}
    /\ UNCHANGED <<proc, saving, restore, diskVars, processVars, used, saved, boundVars>>

Gone(o) == object[o].closed \/ browsers[object[o].name] = None

\* _launch gets the startup lock; a browser closed while it waited is let go.
LaunchBegins ==
    /\ proc[Launch].pc = "idle" /\ launchQueue # <<>>
    /\ launchQueue' = Tail(launchQueue)
    /\ LET o == Head(launchQueue).o IN
       IF Gone(o) THEN UNCHANGED <<proc, launches>>
       ELSE /\ launches < MaxLaunches /\ launches' = launches + 1
            /\ proc' = [proc EXCEPT ![Launch] =
                 [pc |-> "spawn", op |-> "launch", o |-> o, name |-> object[o].name,
                  h |-> launches + 1, keep |-> Head(launchQueue).keep]]
    /\ UNCHANGED <<browsers, object, saving, dirty, restore, diskVars, chromiums, displays,
                   historyVars, boundVars>>

\* start: the display is up, and is the object's from here on.
LaunchDisplay ==
    LET l == proc[Launch] IN
    /\ l.pc = "spawn" /\ Go(Launch, "chrome")
    /\ displays' = displays \cup {l.h}
    /\ object' = [object EXCEPT ![l.o].xvfb = l.h]
    /\ UNCHANGED <<browsers, launchQueue, saving, dirty, restore, diskVars, chromiums,
                   launches, historyVars, boundVars>>

\* Chromium is up on the display and has made its profile.  A browser closed
\* meanwhile is torn down at once (_abort_start_if_torn_down).
LaunchChrome ==
    LET l == proc[Launch] IN
    /\ l.pc = "chrome" /\ l.h \in displays
    /\ profiles' = profiles \cup {l.name}
    /\ IF object[l.o].closed
       THEN Rest(Launch) /\ dirty' = TRUE /\ UNCHANGED <<chromiums, object>>
       ELSE /\ Go(Launch, "connect") /\ UNCHANGED dirty
            /\ chromiums' = chromiums \cup {l.h}
            /\ object' = [object EXCEPT ![l.o].chrome = l.h]
    /\ UNCHANGED <<browsers, launchQueue, saving, restore, manifest, displays, launches,
                   historyVars, boundVars>>

\* Connected, its tabs opened: the last look at _closed, then running.
LaunchUp ==
    LET l == proc[Launch] IN
    /\ l.pc = "connect" /\ l.h \in chromiums /\ Rest(Launch)
    /\ IF object[l.o].closed
       THEN /\ chromiums' = chromiums \ {object[l.o].chrome}
            /\ object' = [object EXCEPT ![l.o].chrome = NoId]
            /\ UNCHANGED used
       ELSE /\ object' = [object EXCEPT ![l.o].life = "running", ![l.o].keepalive = TRUE]
            /\ used' = used \cup {l.name}
            /\ UNCHANGED chromiums
    /\ dirty' = (dirty \/ Ready)
    /\ UNCHANGED <<browsers, launchQueue, saving, restore, diskVars, displays, launches,
                   saved, forgotten, boundVars>>

\* The launch failed, of itself or because its display or Chromium was taken from
\* it.  A browser that was started again goes back to stopped; another is removed.
LaunchFails ==
    LET l == proc[Launch]  failed == object[l.o] IN
    /\ l.pc \in {"spawn", "chrome", "connect"}
    /\ IF (l.pc = "chrome" /\ l.h \notin displays) \/ (l.pc = "connect" /\ l.h \notin chromiums)
       THEN UNCHANGED faults
       ELSE Fault /\ (Ready \/ Race("restoreFlake"))
    /\ chromiums' = chromiums \ {failed.chrome}
    /\ IF l.keep
       THEN /\ object' = [object EXCEPT ![l.o].chrome = NoId]
            /\ IF failed.life = "stopped" THEN Rest(Launch) /\ dirty' = TRUE
               ELSE Go(Launch, "tabs") /\ UNCHANGED dirty
            /\ UNCHANGED <<browsers, historyVars>>
       ELSE /\ object' = [object EXCEPT ![l.o].chrome = NoId, ![l.o].closed = TRUE]
            /\ Unlist(l.name)
            /\ Go(Launch, "cdp")
            /\ IF Ready THEN used' = used \ {l.name} /\ saved' = saved \ {l.name}
               ELSE UNCHANGED <<used, saved>>
            /\ UNCHANGED <<dirty, forgotten>>
    /\ UNCHANGED <<launchQueue, saving, restore, diskVars, displays, launches, requests>>

-------------------------------------------------------------------------------
(* Stopping, starting and closing.                                          *)

\* stop_browser refuses a browser that is launching, and stop passes over one that
\* is stopped; the sweep's stops are these.
Stoppable == InLife({"running", "crashed"})
StopRequest(p, n) ==
    /\ Ready /\ ~Ending /\ Request /\ proc[p].pc = "idle"
    /\ n \in Stoppable
    /\ WorkedOn(browsers[n], {"start"}) => Race("startDuringStop")
    /\ Begin(p, "stop", "tabs", n)
    /\ object' = [object EXCEPT ![browsers[n]].keepalive = FALSE]
    /\ UNCHANGED <<browsers, launchQueue, saving, dirty, restore, diskVars, processVars,
                   historyVars, faults>>

\* start_browser: a crashed browser is stopped first.
StartRequest(p, n) ==
    /\ Ready /\ ~Ending /\ Request /\ proc[p].pc = "idle"
    /\ n \in InLife({"crashed", "stopped"})
    /\ WorkedOn(browsers[n], {"stop", "launch"}) => Race("startDuringStop")
    /\ WorkedOn(browsers[n], {"start"}) => Race("doubleStart")
    /\ IF LifeOf(n) = "crashed"
       THEN /\ Begin(p, "start", "tabs", n)
            /\ object' = [object EXCEPT ![browsers[n]].keepalive = FALSE]
       ELSE Begin(p, "start", "cap", n) /\ UNCHANGED object
    /\ UNCHANGED <<browsers, launchQueue, saving, dirty, restore, diskVars, processVars,
                   historyVars, faults>>

\* close_and_forget: the name leaves the registry; the launch of it is waited for.
CloseRequest(p, n) ==
    /\ Ready /\ ~Ending /\ Request /\ proc[p].pc = "idle"
    /\ n \in Registered
    /\ Begin(p, "close", "join", n)
    /\ Unlist(n)
    /\ object' = [object EXCEPT ![browsers[n]].closed = TRUE,
                                ![browsers[n]].keepalive = FALSE]
    /\ used' = used \ {n} /\ saved' = saved \ {n}
    /\ UNCHANGED <<launchQueue, saving, dirty, restore, diskVars, processVars, forgotten, faults>>

GoesAhead(o) == TRUE                                                  \* a fault
LaunchOver(o) == ~WaitsToLaunch(o) /\ proc[Launch].o # o
CloseJoins(p) ==
    /\ proc[p].pc = "join" /\ LaunchOver(proc[p].o)
    /\ Go(p, "cdp")
    /\ UNCHANGED <<browsers, object, launchQueue, saving, dirty, restore, diskVars,
                   processVars, historyVars, boundVars>>

\* stop: the tabs have been read; stopped before the teardown's awaits.
StopMarks(p) ==
    /\ proc[p].pc = "tabs" /\ Go(p, "cdp")
    /\ object[proc[p].o].life = "crashed" /\ saving.by # None => Race("stopInSave")
    /\ object' = [object EXCEPT ![proc[p].o].life = "stopped"]
    /\ UNCHANGED <<browsers, launchQueue, saving, dirty, restore, diskVars, processVars,
                   historyVars, boundVars>>

\* _teardown_chrome: the CDP client is closed; the handle is taken and killed.
TakeChrome(p) ==
    LET o == proc[p].o IN
    /\ proc[p].pc = "cdp"
    /\ proc' = [proc EXCEPT ![p].pc = "kill", ![p].h = object[o].chrome]
    /\ object' = [object EXCEPT ![o].chrome = NoId]
    /\ UNCHANGED <<browsers, launchQueue, saving, dirty, restore, diskVars, processVars,
                   historyVars, boundVars>>

ChromeKilled(p) ==
    /\ proc[p].pc = "kill" /\ Go(p, "audio")
    /\ chromiums' = chromiums \ {proc[p].h}
    /\ UNCHANGED <<browsers, object, launchQueue, saving, dirty, restore, diskVars,
                   displays, launches, historyVars, boundVars>>

\* _teardown_display: the sink is unloaded; the display is taken and ended.
LeaveDisplay(p) == NoId                                               \* a fault
DisplayOf(p) == object[proc[p].o].xvfb
TakeDisplay(p) ==
    LET o == proc[p].o IN
    /\ proc[p].pc = "audio"
    /\ proc' = [proc EXCEPT ![p].pc = "display", ![p].h = DisplayOf(p)]
    /\ object' = [object EXCEPT ![o].xvfb = NoId]
    /\ UNCHANGED <<browsers, launchQueue, saving, dirty, restore, diskVars, processVars,
                   historyVars, boundVars>>

\* What called the teardown goes on.  A Chromium does not outlive its display.
DisplayEnds(p) ==
    /\ proc[p].pc = "display"
    /\ displays' = displays \ {proc[p].h} /\ chromiums' = chromiums \ {proc[p].h}
    /\ CASE proc[p].op = "start" -> Go(p, "cap")
         [] proc[p].op = "close" -> Go(p, "save")
         [] proc[p].op = "end" -> Go(p, "next")
         [] OTHER -> Rest(p)
    /\ dirty' = (dirty \/ proc[p].op = "stop" \/ (proc[p].op = "launch" /\ proc[p].keep))
    /\ UNCHANGED <<browsers, object, launchQueue, saving, restore, diskVars, launches,
                   historyVars, boundVars>>

FleetFull == AtCap

\* start_browser again, under the lock: refused at the cap.
StartQueues(p) ==
    LET o == proc[p].o IN
    /\ proc[p].pc = "cap" /\ ~Locked /\ Rest(p)
    /\ IF FleetFull THEN UNCHANGED <<object, launchQueue, dirty>>
       ELSE /\ object' = [object EXCEPT ![o].life = "init"]
            /\ QueueLaunch(o, TRUE) /\ dirty' = TRUE
    /\ UNCHANGED <<browsers, saving, restore, diskVars, processVars, historyVars, boundVars>>

\* The manifest no longer names it: the profile is deleted.
CloseForgets(p) ==
    /\ proc[p].pc = "forget" /\ Rest(p)
    /\ profiles' = profiles \ {proc[p].name}
    /\ forgotten' = forgotten \cup ({proc[p].name} \ Registered)
    /\ UNCHANGED <<browsers, object, launchQueue, saving, dirty, restore, manifest,
                   processVars, used, saved, boundVars>>

-------------------------------------------------------------------------------
(* Deaths.                                                                  *)

ChromeDies(k) ==
    /\ k \in chromiums /\ Fault
    /\ Ready \/ Race(IF proc[Launch].h = k THEN "restoreFlake" ELSE "crashInRestore")
    /\ chromiums' = chromiums \ {k}
    /\ UNCHANGED <<volatileVars, diskVars, displays, launches, historyVars, requests>>

\* The keepalive loop finds the process dead.  (A Chromium that only fails to
\* answer is marked crashed as well, and lives on until the browser is closed or
\* started again.)
CrashSeen(n) ==
    LET o == browsers[n] IN
    /\ n \in InLife({"running"}) /\ object[o].keepalive
    /\ object[o].chrome \notin chromiums
    /\ Ready \/ Race("crashInRestore")
    /\ Ending => Race("endAtWork")
    /\ object' = [object EXCEPT ![o].life = "crashed"]
    /\ dirty' = TRUE
    /\ UNCHANGED <<browsers, launchQueue, proc, saving, restore, diskVars, processVars,
                   historyVars, boundVars>>

\* The process is gone, and with it all but the disk.
Exits ==
    /\ browsers' = [n \in Names |-> None] /\ object' = [o \in Objects |-> Unused]
    /\ launchQueue' = <<>> /\ proc' = [p \in Procs |-> Idle]
    /\ saving' = NoSave /\ dirty' = FALSE /\ restore' = [NoRestore EXCEPT !.pc = "begin"]
    /\ chromiums' = {} /\ displays' = {} /\ used' = used \cap saved
    /\ UNCHANGED <<diskVars, launches, saved, forgotten, requests>>

Killed == Fault /\ Exits

\* shutdown: a last save, then every browser is closed.
EndRequest ==
    /\ Fault /\ ~Ending
    /\ Ready \/ Race("endInRestore")
    /\ (launchQueue # <<>> \/ \E p \in Procs : proc[p].pc # "idle") => Race("endAtWork")
    /\ proc' = [proc EXCEPT ![Term] = [Idle EXCEPT !.pc = "save", !.op = "end"]]
    /\ UNCHANGED <<browsers, object, launchQueue, saving, dirty, restore, diskVars,
                   processVars, historyVars, requests>>

EndCloses(n) ==
    /\ proc[Term].pc = "next" /\ n \in Registered
    /\ Begin(Term, "end", "join", n)
    /\ Unlist(n)
    /\ object' = [object EXCEPT ![browsers[n]].closed = TRUE,
                                ![browsers[n]].keepalive = FALSE]
    /\ UNCHANGED <<launchQueue, saving, dirty, restore, diskVars, processVars, historyVars,
                   boundVars>>

Ends == proc[Term].pc = "next" /\ Registered = {} /\ Exits /\ UNCHANGED faults

-------------------------------------------------------------------------------
(* Saving and restoring.                                                    *)

\* _save_manifest, of the periodic checkpoint, a spawned save, or a close: the
\* browsers that are not crashed are listed, then asked for their tabs one by one.
\* The last save waits behind those asked for before it.
NotCrashed == InLife({"init", "running", "stopped"})
SaveBegins(by) ==
    /\ ~Locked
    /\ IF by = Launch THEN dirty \/ (Ready /\ ~Ending)
       ELSE proc[by].pc = "save" /\ (by = Term => ~dirty)
    /\ saving' = [by |-> by, names |-> NotCrashed]
    /\ dirty' = (dirty /\ by # Launch)
    /\ UNCHANGED <<browsers, object, launchQueue, proc, restore, diskVars, processVars,
                   historyVars, boundVars>>

\* Crashed browsers are carried forward; then the file is written.
DropCrashed == saving.names                                           \* a fault
SavedNames == saving.names \cup InLife({"crashed"})
SaveWrites ==
    LET by == saving.by IN
    /\ by # None
    /\ manifest' = [exists |-> TRUE, names |-> SavedNames,
                    stopped |-> SavedNames \cap InLife({"stopped"})]
    /\ saved' = saved \cup (SavedNames \cap Registered)
    /\ saving' = NoSave
    /\ CASE by \in Callers -> Go(by, "forget")
         [] by = Term -> Go(by, "next")
         [] OTHER -> UNCHANGED proc
    /\ UNCHANGED <<browsers, object, launchQueue, dirty, restore, profiles, processVars,
                   used, forgotten, boundVars>>

\* restore: what the manifest names, or without one what has a profile.  With no
\* Chromium installed nothing is restored.
RestoreBegins ==
    /\ restore.pc = "begin"
    /\ LET wanted == IF manifest.exists THEN manifest.names ELSE profiles
       IN  restore' = [NoRestore EXCEPT !.pc = "next", !.todo = wanted, !.wanted = wanted,
                                        !.stopped = manifest.stopped]
    /\ UNCHANGED <<browsers, object, launchQueue, proc, saving, dirty, diskVars, processVars,
                   historyVars, boundVars>>

BootsUninstalled ==
    /\ restore.pc = "begin" /\ restore' = NoRestore
    /\ manifest.exists \/ profiles # {} => Race("notInstalled")
    /\ UNCHANGED <<browsers, object, launchQueue, proc, saving, dirty, diskVars, processVars,
                   historyVars, boundVars>>

\* One saved browser: registered, and launched unless it was stopped or the cap is
\* reached.  (In the code the names come in order.)
RestoreNext(n) ==
    /\ restore.pc = "next" /\ n \in restore.todo /\ ~Locked
    /\ IF n \in Registered
       THEN /\ restore' = [restore EXCEPT !.todo = @ \ {n}]
            /\ UNCHANGED <<browsers, object, launchQueue>>
       ELSE \E o \in Objects :
            /\ Spare(o)
            /\ IF n \in restore.stopped \/ AtCap
               THEN /\ Register(n, o, "stopped") /\ UNCHANGED launchQueue
                    /\ restore' = [restore EXCEPT !.todo = @ \ {n}]
               ELSE /\ launches + Len(launchQueue) < MaxLaunches
                    /\ Register(n, o, "init") /\ QueueLaunch(o, FALSE)
                    /\ restore' = [restore EXCEPT !.todo = @ \ {n}, !.pc = "await"]
    /\ UNCHANGED <<proc, saving, dirty, diskVars, processVars, historyVars, boundVars>>

RestoreLaunched ==
    /\ restore.pc = "await"
    /\ proc[Launch].pc = "idle" /\ launchQueue = <<>>
    /\ restore' = [restore EXCEPT !.pc = "next"]
    /\ UNCHANGED <<browsers, object, launchQueue, proc, saving, dirty, diskVars, processVars,
                   historyVars, boundVars>>

\* _reconcile_manifest_after_restore: the browsers that are up or stopped are listed
\* under the lock and asked for their tabs.
RestoreReconciles ==
    /\ restore.pc = "next" /\ restore.todo = {} /\ ~Locked
    /\ restore' = [restore EXCEPT !.pc = "write", !.settled = InLife({"running", "stopped"})]
    /\ UNCHANGED <<browsers, object, launchQueue, proc, saving, dirty, diskVars, processVars,
                   historyVars, boundVars>>

\* Wanted browsers that did not come up keep their entries and their profiles; the
\* profiles of nobody are deleted.
Wanted == restore.settled \cup restore.wanted
RestoreWrites ==
    LET entries == restore.settled \cup
                   (IF manifest.exists THEN Wanted \ restore.settled ELSE {})
    IN
    /\ restore.pc = "write"
    /\ manifest' = [exists |-> TRUE, names |-> entries,
                    stopped |-> entries \cap (InLife({"stopped"})
                                              \cup (restore.stopped \ Registered))]
    /\ saved' = saved \cup (entries \cap Registered)
    /\ profiles' = profiles \cap (Wanted \cup NotCrashed)
    /\ restore' = NoRestore
    /\ UNCHANGED <<browsers, object, launchQueue, proc, saving, dirty, processVars, used,
                   forgotten, boundVars>>

-------------------------------------------------------------------------------
LaunchNext == LaunchBegins \/ LaunchDisplay \/ LaunchChrome \/ LaunchUp \/ LaunchFails
TeardownNext(p) == StopMarks(p) \/ TakeChrome(p) \/ ChromeKilled(p) \/ TakeDisplay(p)
                   \/ DisplayEnds(p)
CallerNext(p) == CloseJoins(p) \/ StartQueues(p) \/ SaveBegins(p) \/ CloseForgets(p)
EndNext ==
    \/ EndRequest \/ SaveBegins(Term) \/ CloseJoins(Term) \/ Ends
    \/ \E n \in Names : EndCloses(n)
RestoreNextStep ==
    \/ RestoreBegins \/ RestoreLaunched \/ RestoreReconciles \/ RestoreWrites
    \/ \E n \in Names : RestoreNext(n)

Next ==
    \/ \E n \in Names : Create(n) \/ CrashSeen(n)
    \/ \E p \in Callers, n \in Names : StopRequest(p, n) \/ StartRequest(p, n) \/ CloseRequest(p, n)
    \/ \E p \in Callers : CallerNext(p)
    \/ \E p \in Procs : TeardownNext(p)
    \/ LaunchNext \/ SaveBegins(Launch) \/ SaveWrites
    \/ RestoreNextStep \/ BootsUninstalled
    \/ \E k \in Ids : ChromeDies(k)
    \/ Killed \/ EndNext

Spec == Init /\ [][Next]_vars

-------------------------------------------------------------------------------
(* Properties.                                                              *)

\* The profile of a browser that has run and was saved, and with it every login made
\* in it, stays on disk until the browser is closed: no crash, kill, restore, save or
\* close of another browser deletes it.  It stays in the manifest until then, or until
\* its first launch fails: the next boot brings it back.
LoginsKept ==
    /\ used \cap saved \subseteq profiles
    /\ saved \subseteq manifest.names

\* The processes that live are those some browser or some teardown still holds:
\* stop, close, abort and failure between them end what launches began.
Held == {object[o].chrome : o \in Objects} \cup {object[o].xvfb : o \in Objects}
        \cup {proc[p].h : p \in Procs}
NothingLeftRunning == chromiums \cup displays \subseteq Held

\* A running browser that nothing is taking down has the display it was launched on.
RunningHasDisplay ==
    \A n \in InLife({"running"}) :
        (\A p \in Procs : proc[p].o # browsers[n]) => object[browsers[n]].xvfb \in displays

\* What counts against the cap never exceeds it, wherever creates, starts and the
\* restore interleave.
CapKept == Cardinality(Launched) <= MaxSessions

\* The types, and the processes a fleet has: none without an owner, no owner without
\* its own, no more than the cap.
NothingLeaks == TypeOK /\ NothingLeftRunning /\ RunningHasDisplay /\ CapKept

\* Once a close is done, its name is not saved, on disk or in the registry until a
\* browser is created under it: no save, launch or restore that was under way when it
\* was closed brings it back.
ClosedIsForgotten == forgotten \cap (Registered \cup manifest.names \cup profiles) = {}
=============================================================================
