------------------------------ MODULE UpdateApply ------------------------------
(***************************************************************************)
(* Applying an update to the live workspace, and taking it back: apply,    *)
(* recover, rollback-last and confirm-last of the update-self skill        *)
(* (update_apply.py), the marker and the rollback point they leave on disk *)
(* (update_apply_contract.py), the copies aside (update_environment.py),   *)
(* and the recovery bootstrap makes at boot (bootstrap/manager.py).        *)
(*                                                                         *)
(* Every run of the script is a process; two of them share nothing but the *)
(* disk, the marker is what keeps them apart, and a kill or a restart of   *)
(* the container may end any of them between two steps.  The tree is the   *)
(* set of changes in it; the dependencies (environments, tools, bundles)   *)
(* are named by the updates they were built from; the services run the     *)
(* tree and dependencies they were last started on.                        *)
(*                                                                         *)
(* Every update moves dependencies.  The provisioner, the view refresh,    *)
(* the version history and a frontend that was broken before are left out, *)
(* and the grace period is any length.  git, npm, uv, cron and supervisord *)
(* are external.                                                           *)
(***************************************************************************)
EXTENDS Naturals, FiniteSets

CONSTANTS
    Merges,         \* updates, each with the one branch it is landed from
    Work,           \* changes others commit to the tree
    Agents,         \* agents' runs of apply and recover at once (a bound)
    Cron, Boot,     \* recover --if-stale from cron (under its flock) and at boot
    Shell,          \* rollback-last, which its lock keeps single
    None, Dead,     \* no process; the pid of one that has ended
    Broken,         \* dependencies part destroyed
    Down,           \* no services
    MaxFaults,      \* kills, restarts and failed steps (a bound)
    Races           \* which of the races below may happen

\* "adopt": a process acts between another's read of the marker and its write.
\* "tail": an apply begins between another's clear_marker and its last write.
\* "tailFails": an apply's last write fails: it rolls back with no marker.
\* "alarm": a kill between clear_marker and write_emergency.
\* "uncopied": the dependencies cannot be copied aside.
\* "work": others commit to the tree while an update is applied or awaits recovery.
\* "bootFails": the recovery at boot fails, or outlives bootstrap's timeout.
\* "bootPid": the recovery at boot gets the pid of the one a restart has ended.
RaceKinds == {"adopt", "tail", "tailFails", "alarm", "uncopied", "work", "bootFails", "bootPid"}

Slots == Agents \cup {Cron, Boot, Shell}

ASSUME UpdateAssumption ==
    /\ Merges \cap Work = {} /\ Cron # Boot /\ Boot # Shell /\ Shell # Cron
    /\ Agents \cap {Cron, Boot, Shell} = {} /\ {None, Dead} \cap Slots = {} /\ None # Dead
    /\ None \notin Merges \cup Work /\ None # Broken
    /\ \A s \in SUBSET Merges : s \notin {None, Broken}
    /\ \A t \in SUBSET Merges, s \in (SUBSET Merges) \cup {Broken} : Down # [tree |-> t, deps |-> s]
    /\ MaxFaults \in Nat /\ Races \subseteq RaceKinds

Race(kind) == kind \in Races

VARIABLES
    \* git: the changes in HEAD and in the index, and whether MERGE_HEAD is there; the
    \* updates whose branch is cut, those in HEAD's history, and those with a rollback
    \* commit since.
    head, index, mergeHead, cut, landed, undone,
    \* The updates the dependencies, and the copies aside, were built from.
    deps, copies,
    \* The marker, last_good.json, and whether emergency.json is there.
    marker, point, emergency,
    \* What the services were started on; where the container's boot is; every process.
    running, boot, proc,
    \* History: what others have committed; whether a person has been told that tree,
    \* dependencies and services may differ, and no landed update has left that behind.
    worked, told,
    faults

treeVars  == <<head, index, mergeHead>>
branchVars == <<cut, landed, undone>>
depsVars  == <<deps, copies>>
recordVars == <<marker, point, emergency>>
vars == <<treeVars, branchVars, depsVars, recordVars, running, boot, proc, worked, told, faults>>

NoMarker == [pid |-> None, merge |-> None, back |-> {}, phase |-> "started",
             snapped |-> FALSE, restarted |-> FALSE]
NoPoint == [state |-> "none", merge |-> None, back |-> {}, snapped |-> FALSE]
Idle == [pc |-> "idle", role |-> "none", mk |-> NoMarker, keep |-> FALSE, diff |-> {},
         landed |-> FALSE]

Content == head \cap Merges
Now == [tree |-> Content, deps |-> deps]
Clean == index = head /\ ~mergeHead
Moved(p) == proc[p].diff \cap Merges # {}   \* the plan made of the changed paths

Changes == SUBSET (Merges \cup Work)
DepsKinds == (SUBSET Merges) \cup {Broken}
MarkerKinds == [pid : Slots \cup {Dead, None}, merge : Merges \cup {None}, back : Changes,
                phase : {"started", "merged"}, snapped : BOOLEAN, restarted : BOOLEAN]

Steps == {"idle", "claim", "merge", "staged", "merged", "copy", "refresh", "refreshing",
          "preflight", "restart", "probe", "tail", "undo", "commit", "deps", "putting", "rebuild",
          "again", "confirm", "clear", "tidy", "alarm", "alarming", "revert", "recommit",
          "putback", "puttingback", "programs", "check"}
ProcKinds == [pc : Steps, role : {"none", "apply", "recover", "rollback"}, mk : MarkerKinds,
              keep : BOOLEAN, diff : Changes, landed : BOOLEAN]

TypeOK ==
    /\ head \in Changes /\ index \in Changes /\ mergeHead \in BOOLEAN
    /\ cut \subseteq Merges /\ landed \subseteq cut /\ undone \subseteq cut
    /\ deps \in DepsKinds /\ copies \in DepsKinds \cup {None}
    /\ marker \in MarkerKinds /\ (marker.pid = None <=> marker = NoMarker)
    /\ point \in [state : {"none", "kept", "reverting", "settled"},
                  merge : Merges \cup {None}, back : Changes, snapped : BOOLEAN]
    /\ emergency \in BOOLEAN /\ told \in BOOLEAN
    /\ running \in [tree : SUBSET Merges, deps : DepsKinds] \cup {Down}
    /\ boot \in {"recovering", "starting", "up"} /\ (boot # "up" => running = Down)
    /\ proc \in [Slots -> ProcKinds]
    /\ worked \subseteq Work /\ faults \in 0..MaxFaults

Init ==
    /\ head = {} /\ index = {} /\ mergeHead = FALSE /\ cut = {} /\ landed = {} /\ undone = {}
    /\ deps = {} /\ copies = None
    /\ marker = NoMarker /\ point = NoPoint /\ emergency = FALSE
    /\ running = [tree |-> {}, deps |-> {}] /\ boot = "up" /\ proc = [p \in Slots |-> Idle]
    /\ worked = {} /\ told = FALSE /\ faults = 0

-------------------------------------------------------------------------------
(* What the steps are made of.                                              *)

At(p, pc) == proc[p].pc = pc
Goes(p, pc) == proc' = [proc EXCEPT ![p].pc = pc]
Is(p, role) == proc[p].role = role
Fault == faults < MaxFaults /\ faults' = faults + 1

\* A process is gone; its pid, where the marker has it, is a dead one.
Leaves(p) == proc' = [proc EXCEPT ![p] = Idle]
Orphaned(p) == IF marker.pid = p THEN [marker EXCEPT !.pid = Dead] ELSE marker

\* The end of a process: bootstrap goes on to the services when its recovery ends.
Ends(p) == Leaves(p) /\ boot' = IF p = Boot THEN "starting" ELSE boot

\* a fault: the marker keeps the dead process's pid.
Unstamped(mk, p) == mk

\* A process takes over a marker.
Stamped(mk, p) == [mk EXCEPT !.pid = p]

\* A process has read the marker, and knows the one it will write.
Reads(p, role, mk, keep, known) ==
    proc' = [proc EXCEPT ![p] = [pc |-> "claim", role |-> role, mk |-> mk, keep |-> keep,
                                 diff |-> {}, landed |-> known]]

\* clear_marker
Cleared == NoMarker

\* Nobody is between reading the marker and writing it.
Unclaimed == Race("adopt") \/ \A p \in Slots : ~At(p, "claim")

\* Nobody has cleared its marker and is still to write or discard.
Untailed == Race("tail") \/ \A p \in Slots : proc[p].pc \notin {"tail", "tidy", "alarming"}

\* _holding_rollback_point_lock: the other holders, an apply's discard and confirm-last,
\* are one step each.
Locked == Is(Shell, "rollback")

\* What writing the marker at a step of p leaves on disk and in p's memory.
Writes(p, mk, pc) ==
    /\ marker' = mk
    /\ proc' = [proc EXCEPT ![p].mk = mk, ![p].pc = pc]

Changed(a, b) == (a \ b) \cup (b \ a)

\* abort_in_progress_merge, and git merge --abort.
AbortMerge ==
    /\ index' = IF mergeHead THEN head ELSE index
    /\ mergeHead' = FALSE

\* The dependencies and the services answer.
Healthy == running # Down /\ deps # Broken /\ running.deps # Broken

Consistent == Clean /\ deps = Content /\ (boot = "up" => running = Now)

-------------------------------------------------------------------------------
(* apply                                                                    *)

\* An agent has a branch cut from the HEAD of the moment.
Dispatch(m) ==
    /\ m \notin cut
    /\ cut' = cut \cup {m}
    /\ UNCHANGED <<treeVars, landed, undone, depsVars, recordVars, running, boot, proc, worked,
                   told, faults>>

\* a fault: an update that was landed and rolled back is taken for a landed one.
LandedIsLanded(m) == FALSE

\* _has_rollback_since
Undone(m) == m \in landed \cap undone

\* apply reads the marker: there is none, and the tree is clean.
ApplyStarts(a, m, keep) ==
    /\ boot = "up" /\ At(a, "idle") /\ m \in cut /\ Unclaimed /\ Untailed
    /\ marker = NoMarker /\ Clean /\ ~Undone(m)
    /\ LET mk == [NoMarker EXCEPT !.pid = a, !.merge = m, !.back = head]
       IN Reads(a, "apply", mk, keep, m \in landed)
    /\ UNCHANGED <<treeVars, branchVars, depsVars, recordVars, running, boot, worked, told, faults>>

\* apply reads the marker of its own killed predecessor: it undoes a merge that was
\* killed half way and, unless the tree is still dirty, goes on from the record.
ApplyResumes(a, m, keep) ==
    /\ boot = "up" /\ At(a, "idle") /\ Unclaimed
    /\ marker.pid = Dead /\ marker.merge = m /\ ~Undone(m)
    /\ mergeHead \/ Clean
    /\ AbortMerge
    /\ Reads(a, "apply", Stamped(marker, a), keep, m \in landed)
    /\ UNCHANGED <<head, branchVars, depsVars, recordVars, running, boot, worked, told, faults>>

OwnPointNext(a) == point # NoPoint /\ proc[a].mk.phase = "started"

\* A fresh apply discards the last one's rollback point, or gives up while a rollback
\* of it runs.
ApplyDropsPoint(a) ==
    /\ At(a, "claim") /\ Is(a, "apply") /\ OwnPointNext(a)
    /\ \/ Locked /\ Leaves(a) /\ UNCHANGED <<point, copies, told>>
       \/ /\ ~Locked
          /\ point' = NoPoint /\ copies' = None
          /\ told' = (told \/ point.state = "reverting")
          /\ UNCHANGED proc
    /\ UNCHANGED <<treeVars, branchVars, deps, marker, emergency, running, boot, worked, faults>>

ApplyClaims(a) ==
    /\ At(a, "claim") /\ Is(a, "apply") /\ ~OwnPointNext(a)
    /\ Writes(a, proc[a].mk, IF proc[a].landed THEN "merged" ELSE "merge")
    /\ UNCHANGED <<treeVars, branchVars, depsVars, point, emergency, running, boot, worked, told,
                   faults>>

\* git merge: MERGE_HEAD and the merged index first, the commit last.
ApplyMerges(a) ==
    /\ At(a, "merge")
    /\ index' = index \cup {proc[a].mk.merge} /\ mergeHead' = TRUE
    /\ Goes(a, "staged")
    /\ UNCHANGED <<head, branchVars, depsVars, recordVars, running, boot, worked, told, faults>>

ApplyLands(a) ==
    /\ At(a, "staged")
    /\ head' = index /\ mergeHead' = FALSE /\ landed' = landed \cup {proc[a].mk.merge}
    /\ Goes(a, "merged")
    /\ UNCHANGED <<index, cut, undone, depsVars, recordVars, running, boot, worked, told, faults>>

\* A conflict, or a fast-forward refused: nothing has landed.
ApplyRefused(a) ==
    /\ At(a, "staged")
    /\ AbortMerge
    /\ marker' = Cleared
    /\ Leaves(a)
    /\ UNCHANGED <<head, branchVars, depsVars, point, emergency, running, boot, worked, told, faults>>

\* The phase is recorded, and the plan made of what differs from rollback_to.
ApplyPlans(a) ==
    /\ At(a, "merged")
    /\ LET mk == [proc[a].mk EXCEPT !.phase = "merged"]
           diff == Changed(head, mk.back)
       IN /\ marker' = mk
          /\ proc' = [proc EXCEPT ![a].mk = mk, ![a].diff = diff,
                        ![a].pc = IF diff \cap Merges = {} THEN "preflight" ELSE "copy"]
    /\ UNCHANGED <<treeVars, branchVars, depsVars, point, emergency, running, boot, worked, told,
                   faults>>

\* take_snapshots: a copy the marker records, still on disk, is reused.
Reusable(mk) == mk.snapped /\ copies # None

\* take_snapshots, and their record.
ApplyCopies(a) ==
    /\ At(a, "copy")
    /\ LET mk == proc[a].mk IN
       \/ Reusable(mk) /\ Writes(a, mk, "refresh") /\ UNCHANGED copies
       \/ /\ ~Reusable(mk)
          /\ \E copied \in {TRUE} \cup {~Race("uncopied")} :
                /\ Writes(a, [mk EXCEPT !.snapped = copied], "refresh")
                /\ copies' = IF copied THEN deps ELSE None
    /\ UNCHANGED <<treeVars, branchVars, deps, point, emergency, running, boot, worked, told, faults>>

\* npm ci and the environment refreshes destroy what was there before they rebuild it.
ApplyRefreshes(a) ==
    /\ At(a, "refresh")
    /\ deps' = Broken
    /\ Goes(a, "refreshing")
    /\ UNCHANGED <<treeVars, branchVars, copies, recordVars, running, boot, worked, told, faults>>

ApplyRefreshed(a) ==
    /\ At(a, "refreshing")
    /\ deps' = Content
    /\ Goes(a, "preflight")
    /\ UNCHANGED <<treeVars, branchVars, copies, recordVars, running, boot, worked, told, faults>>

\* a fault: the restart is recorded only once it is done.
RecordLater(mk) == mk

\* The restart is recorded before it is attempted.
RestartRecorded(mk) == [mk EXCEPT !.restarted = TRUE]

\* The pre-flight boots pass.
ApplyPreflights(a) ==
    /\ At(a, "preflight") /\ deps # Broken
    /\ Writes(a, RestartRecorded(proc[a].mk), "restart")
    /\ UNCHANGED <<treeVars, branchVars, depsVars, point, emergency, running, boot, worked, told,
                   faults>>

ApplyRestarts(a) ==
    /\ At(a, "restart")
    /\ running' = Now
    /\ Goes(a, "probe")
    /\ UNCHANGED <<treeVars, branchVars, depsVars, recordVars, boot, worked, told, faults>>

\* The probes settle healthy: the marker comes down.
ApplyConfirms(a) ==
    /\ At(a, "probe") /\ Healthy
    /\ marker' = Cleared
    /\ Goes(a, "tail")
    /\ UNCHANGED <<treeVars, branchVars, depsVars, point, emergency, running, boot, worked, told,
                   faults>>

\* The rollback point's merge is whatever HEAD is by now.
PointAt(a) ==
    [state |-> "kept", merge |-> IF head \ proc[a].mk.back = {proc[a].mk.merge}
                                 THEN proc[a].mk.merge ELSE None,
     back |-> proc[a].mk.back, snapped |-> proc[a].mk.snapped]

\* The rollback point is kept, or the copies are discarded; the workspace is healthy.
ApplyEnds(a) ==
    /\ At(a, "tail")
    /\ IF proc[a].keep /\ proc[a].diff # {}
         THEN point' = PointAt(a) /\ UNCHANGED copies
         ELSE copies' = None /\ UNCHANGED point
    /\ emergency' = FALSE
    /\ told' = (told /\ ~(Consistent /\ point' = NoPoint))
    /\ Leaves(a)
    /\ UNCHANGED <<treeVars, branchVars, deps, marker, running, boot, worked, faults>>

Failing == {"copy", "refresh", "refreshing", "preflight", "restart", "probe"}
           \cup (IF Race("tailFails") THEN {"tail"} ELSE {})

\* Any failure past the merge rolls back; a fault, or what cannot pass.
ApplyFails(a) ==
    /\ \/ proc[a].pc \in Failing /\ Fault
       \/ At(a, "preflight") /\ deps = Broken /\ UNCHANGED faults
       \/ At(a, "probe") /\ ~Healthy /\ UNCHANGED faults
    /\ Goes(a, "undo")
    /\ UNCHANGED <<treeVars, branchVars, depsVars, recordVars, running, boot, worked, told>>

-------------------------------------------------------------------------------
(* recover, and the rollback it shares with a failed apply.                 *)

\* a fault: a marker whose merge has not landed is passed over.
StaleMerged == marker.pid = Dead /\ marker.phase = "merged"

\* There is a marker and its process is dead.
Stale == marker.pid = Dead

\* recover reads the marker: an agent's, or cron's once the grace period is over.
RecoverReads(p) ==
    /\ boot = "up" /\ p \in Agents \cup {Cron}
    /\ At(p, "idle") /\ Stale /\ Unclaimed
    /\ Reads(p, "recover", Stamped(marker, p), FALSE, FALSE)
    /\ UNCHANGED <<treeVars, branchVars, depsVars, recordVars, running, boot, worked, told, faults>>

\* bootstrap's reads it before anything runs; a marker with the pid it has itself it takes
\* for a running apply's, and leaves it.
BootReads ==
    /\ boot = "recovering" /\ At(Boot, "idle")
    /\ IF Stale
         THEN /\ Reads(Boot, "recover", Stamped(marker, Boot), FALSE, FALSE)
              /\ UNCHANGED <<marker, boot>>
         ELSE /\ marker' = [marker EXCEPT !.pid = Dead] /\ boot' = "starting"
              /\ UNCHANGED proc
    /\ UNCHANGED <<treeVars, branchVars, depsVars, point, emergency, running, worked, told, faults>>

\* a fault: a merge killed before its commit is left staged.
LeaveMerge == UNCHANGED <<index, mergeHead>>

\* Before anything commits.
AbortFirst == AbortMerge

\* recover stamps the marker with its own pid and sees what differs from rollback_to.
RecoverClaims(p) ==
    /\ At(p, "claim") /\ Is(p, "recover")
    /\ marker' = proc[p].mk
    /\ AbortFirst
    /\ proc' = [proc EXCEPT ![p].diff = Changed(head, proc[p].mk.back), ![p].pc = "undo"]
    /\ UNCHANGED <<head, branchVars, depsVars, point, emergency, running, boot, worked, told, faults>>

\* _restore_tree
Restores(p) ==
    /\ At(p, "undo")
    /\ index' = (index \ proc[p].diff) \cup (proc[p].diff \cap proc[p].mk.back)
    /\ Goes(p, "commit")
    /\ UNCHANGED <<head, mergeHead, branchVars, depsVars, recordVars, running, boot, worked, told,
                   faults>>

\* git commit of whatever is staged, a merge with MERGE_HEAD included.
CommitStaged(merge) ==
    /\ head' = index /\ mergeHead' = FALSE
    /\ landed' = IF mergeHead THEN landed \cup {merge} ELSE landed
    /\ undone' = IF index # head THEN undone \cup cut ELSE undone
    /\ UNCHANGED <<index, cut>>

\* _commit_rollback
Commits(p) ==
    /\ At(p, "commit")
    /\ CommitStaged(proc[p].mk.merge)
    /\ Goes(p, "deps")
    /\ UNCHANGED <<depsVars, recordVars, running, boot, worked, told, faults>>

\* git fails: an apply gives up its rollback; recover keeps the marker for a later one.
GitFails(p) ==
    /\ proc[p].pc \in {"undo", "commit"} /\ Fault
    /\ \/ Is(p, "apply") /\ Goes(p, "alarm") /\ UNCHANGED <<marker, boot>>
       \/ /\ Is(p, "recover") /\ (p = Boot => Race("bootFails"))
          /\ Ends(p) /\ marker' = Orphaned(p)
    /\ UNCHANGED <<treeVars, branchVars, depsVars, point, emergency, running, worked, told>>

\* What follows the dependencies: nothing at boot, else a restart if one was recorded.
AfterDeps(p) ==
    IF p = Boot THEN "clear" ELSE IF proc[p].mk.restarted THEN "again" ELSE "confirm"

\* What follows a copy that could not be put back: the boot path reports it, the live
\* path rebuilds what the plan names.
AfterLoss(p) ==
    IF p = Boot THEN "alarm" ELSE IF Moved(p) THEN "rebuild" ELSE AfterDeps(p)

\* restore_snapshots removes what is there and copies the old one back.
PutsBack(p) ==
    /\ At(p, "deps")
    /\ \/ /\ proc[p].mk.snapped /\ copies # None
          /\ deps' = Broken /\ Goes(p, "putting")
       \/ /\ proc[p].mk.snapped /\ copies = None
          /\ Goes(p, AfterLoss(p)) /\ UNCHANGED deps
       \/ /\ ~proc[p].mk.snapped
          /\ Goes(p, IF p # Boot /\ Moved(p) THEN "rebuild" ELSE AfterDeps(p))
          /\ UNCHANGED deps
    /\ UNCHANGED <<treeVars, branchVars, copies, recordVars, running, boot, worked, told, faults>>

IsPutBack(p) ==
    /\ At(p, "putting")
    /\ deps' = copies
    /\ Goes(p, AfterDeps(p))
    /\ UNCHANGED <<treeVars, branchVars, copies, recordVars, running, boot, worked, told, faults>>

PutBackLost(p) ==
    /\ At(p, "putting") /\ Fault
    /\ Goes(p, AfterLoss(p))
    /\ UNCHANGED <<treeVars, branchVars, depsVars, recordVars, running, boot, worked, told>>

Rebuilds(p) ==
    /\ At(p, "rebuild")
    /\ deps' = Content
    /\ Goes(p, AfterDeps(p))
    /\ UNCHANGED <<treeVars, branchVars, copies, recordVars, running, boot, worked, told, faults>>

RestartsAgain(p) ==
    /\ At(p, "again")
    /\ running' = Now
    /\ Goes(p, "confirm")
    /\ UNCHANGED <<treeVars, branchVars, depsVars, recordVars, boot, worked, told, faults>>

Confirms(p) ==
    /\ At(p, "confirm") /\ Healthy
    /\ Goes(p, "clear")
    /\ UNCHANGED <<treeVars, branchVars, depsVars, recordVars, running, boot, worked, told, faults>>

NotRecovered(p) ==
    /\ \/ proc[p].pc \in {"rebuild", "again", "confirm"} /\ Fault
       \/ At(p, "confirm") /\ ~Healthy /\ UNCHANGED faults
    /\ Goes(p, "alarm")
    /\ UNCHANGED <<treeVars, branchVars, depsVars, recordVars, running, boot, worked, told>>

\* Rolled back: the marker comes down, then the copies.
Clears(p) ==
    /\ At(p, "clear")
    /\ marker' = Cleared
    /\ Goes(p, "tidy")
    /\ UNCHANGED <<treeVars, branchVars, depsVars, point, emergency, running, boot, worked, told,
                   faults>>

Tidies(p) ==
    /\ At(p, "tidy")
    /\ copies' = None
    /\ emergency' = (emergency /\ p = Boot)
    /\ Ends(p)
    /\ UNCHANGED <<treeVars, branchVars, deps, marker, point, running, worked, told, faults>>

\* Not recovered: the marker comes down, then the emergency record goes up.
GivesUp(p) ==
    /\ At(p, "alarm")
    /\ marker' = Cleared
    /\ Goes(p, "alarming")
    /\ UNCHANGED <<treeVars, branchVars, depsVars, point, emergency, running, boot, worked, told,
                   faults>>

Alarms(p) ==
    /\ At(p, "alarming")
    /\ emergency' = TRUE /\ told' = TRUE
    /\ Ends(p)
    /\ UNCHANGED <<treeVars, branchVars, depsVars, marker, point, running, worked, faults>>

-------------------------------------------------------------------------------
(* rollback-last and confirm-last.                                          *)

\* rollback-last reads an untouched rollback point, no running apply and a clean tree.
RollbackStarts ==
    /\ boot = "up" /\ At(Shell, "idle") /\ Unclaimed
    /\ point.state = "kept" /\ marker.pid \in {None, Dead} /\ Clean
    /\ point' = [point EXCEPT !.state = "reverting"]
    /\ proc' = [proc EXCEPT ![Shell] = [Idle EXCEPT !.pc = "revert", !.role = "rollback"]]
    /\ UNCHANGED <<treeVars, branchVars, depsVars, marker, emergency, running, boot, worked, told,
                   faults>>

\* git revert --no-commit
WithoutUpdate == index \ {point.merge}

Reverts ==
    /\ At(Shell, "revert") /\ Unclaimed /\ point.merge \in head
    /\ index' = WithoutUpdate
    /\ Goes(Shell, "recommit")
    /\ UNCHANGED <<head, mergeHead, branchVars, depsVars, recordVars, running, boot, worked, told,
                   faults>>

\* _settle_rollback_record
Settled == [point EXCEPT !.state = "settled"]

\* The revert conflicts, or names no merge: nothing has changed.
RevertRefused ==
    /\ At(Shell, "revert")
    /\ point' = Settled
    /\ Leaves(Shell)
    /\ UNCHANGED <<treeVars, branchVars, depsVars, marker, emergency, running, boot, worked, told,
                   faults>>

RevertCommits ==
    /\ At(Shell, "recommit")
    /\ CommitStaged(None)
    /\ Goes(Shell, "putback")
    /\ UNCHANGED <<depsVars, recordVars, running, boot, worked, told, faults>>

PointPutBack ==
    /\ At(Shell, "putback")
    /\ IF point.snapped THEN deps' = Broken /\ Goes(Shell, "puttingback")
                        ELSE Goes(Shell, "programs") /\ UNCHANGED deps
    /\ UNCHANGED <<treeVars, branchVars, copies, recordVars, running, boot, worked, told, faults>>

PointIsBack ==
    /\ At(Shell, "puttingback") /\ copies # None
    /\ deps' = copies
    /\ Goes(Shell, "programs")
    /\ UNCHANGED <<treeVars, branchVars, copies, recordVars, running, boot, worked, told, faults>>

\* The touched programs restart.
RollbackRestarts ==
    /\ At(Shell, "programs")
    /\ running' = Now
    /\ Goes(Shell, "check")
    /\ UNCHANGED <<treeVars, branchVars, depsVars, recordVars, boot, worked, told, faults>>

\* The update changed how the workspace starts: the person is told what is left to do.
RollbackNeedsRestart ==
    /\ At(Shell, "programs")
    /\ point' = Settled /\ copies' = None /\ told' = TRUE
    /\ Leaves(Shell)
    /\ UNCHANGED <<treeVars, branchVars, deps, marker, emergency, running, boot, worked, faults>>

RollbackDone ==
    /\ At(Shell, "check") /\ Healthy
    /\ point' = Settled /\ copies' = None
    /\ Leaves(Shell)
    /\ UNCHANGED <<treeVars, branchVars, deps, marker, emergency, running, boot, worked, told, faults>>

\* A copy cannot be put back, or the workspace does not settle: the record says so, an
\* emergency too; or the script stops on an error of its own, and the record says so.
RollbackFails ==
    /\ \/ proc[Shell].pc \in {"puttingback", "check"} /\ Fault /\ emergency' = TRUE
       \/ At(Shell, "puttingback") /\ copies = None /\ emergency' = TRUE /\ UNCHANGED faults
       \/ At(Shell, "check") /\ ~Healthy /\ emergency' = TRUE /\ UNCHANGED faults
       \/ proc[Shell].pc \in {"recommit", "programs"} /\ Fault /\ UNCHANGED emergency
    /\ point' = Settled /\ told' = TRUE
    /\ Leaves(Shell)
    /\ UNCHANGED <<treeVars, branchVars, depsVars, marker, running, boot, worked>>

\* confirm-last: the copies go only with a point no rollback has touched.
ConfirmLast ==
    /\ boot = "up" /\ point # NoPoint /\ ~Locked
    /\ point' = NoPoint
    /\ copies' = IF point.state = "kept" THEN None ELSE copies
    /\ told' = (told \/ point.state = "reverting")
    /\ UNCHANGED <<treeVars, branchVars, deps, marker, emergency, running, boot, proc, worked, faults>>

-------------------------------------------------------------------------------
(* Kills, restarts, and the work of others.                                 *)

Kill(p) ==
    /\ ~At(p, "idle") /\ Fault
    /\ p = Boot => Race("bootFails")
    /\ At(p, "alarming") => Race("alarm")
    /\ Ends(p) /\ marker' = Orphaned(p)
    /\ UNCHANGED <<treeVars, branchVars, depsVars, point, emergency, running, worked, told>>

\* The container stops and boots: bootstrap first recovers from a marker, if any.
Restart ==
    /\ Fault
    /\ Race("alarm") \/ \A p \in Slots : ~At(p, "alarming")
    /\ proc' = [p \in Slots |-> Idle]
    /\ running' = Down
    /\ boot' = IF marker = NoMarker THEN "starting" ELSE "recovering"
    /\ marker' = IF marker = NoMarker \/ (marker.pid = Boot /\ Race("bootPid"))
                   THEN marker ELSE [marker EXCEPT !.pid = Dead]
    /\ UNCHANGED <<treeVars, branchVars, depsVars, point, emergency, worked, told>>

\* supervisord starts the services.
ServicesStart ==
    /\ boot = "starting"
    /\ running' = Now /\ boot' = "up"
    /\ UNCHANGED <<treeVars, branchVars, depsVars, recordVars, proc, worked, told, faults>>

\* Someone commits a change to the clean tree.
Works(w) ==
    /\ boot = "up" /\ w \notin worked /\ Clean
    /\ Race("work") \/ (marker = NoMarker /\ \A p \in Slots : proc[p].role \notin {"apply", "recover"})
    /\ head' = head \cup {w} /\ index' = index \cup {w} /\ worked' = worked \cup {w}
    /\ UNCHANGED <<mergeHead, branchVars, depsVars, recordVars, running, boot, proc, told, faults>>

-------------------------------------------------------------------------------
ApplyNext(a) ==
    \/ ApplyDropsPoint(a) \/ ApplyClaims(a) \/ ApplyMerges(a) \/ ApplyLands(a) \/ ApplyRefused(a)
    \/ ApplyPlans(a) \/ ApplyCopies(a) \/ ApplyRefreshes(a) \/ ApplyRefreshed(a)
    \/ ApplyPreflights(a) \/ ApplyRestarts(a) \/ ApplyConfirms(a) \/ ApplyEnds(a) \/ ApplyFails(a)
UndoNext(p) ==
    \/ RecoverClaims(p) \/ Restores(p) \/ Commits(p) \/ GitFails(p) \/ PutsBack(p) \/ IsPutBack(p)
    \/ PutBackLost(p) \/ Rebuilds(p) \/ RestartsAgain(p) \/ Confirms(p) \/ NotRecovered(p)
    \/ Clears(p) \/ Tidies(p) \/ GivesUp(p) \/ Alarms(p)
RollbackNext ==
    \/ Reverts \/ RevertRefused \/ RevertCommits \/ PointPutBack \/ PointIsBack
    \/ RollbackRestarts \/ RollbackNeedsRestart \/ RollbackDone \/ RollbackFails

Next ==
    \/ \E m \in Merges : Dispatch(m)
    \/ \E a \in Agents, m \in Merges, keep \in BOOLEAN : ApplyStarts(a, m, keep) \/ ApplyResumes(a, m, keep)
    \/ \E a \in Agents : ApplyNext(a)
    \/ \E p \in Slots : RecoverReads(p) \/ UndoNext(p) \/ Kill(p)
    \/ RollbackStarts \/ RollbackNext \/ ConfirmLast
    \/ BootReads \/ Restart \/ ServicesStart
    \/ \E w \in Work : Works(w)

\* A process runs on until it ends or is killed, bootstrap recovers and starts the
\* services, and cron's recover comes back for as long as a dead process's marker stays.
Fairness ==
    /\ \A p \in Slots : WF_vars(UndoNext(p))
    /\ \A a \in Agents : WF_vars(ApplyNext(a))
    /\ WF_vars(RollbackNext)
    /\ WF_vars(RecoverReads(Cron)) /\ WF_vars(BootReads) /\ WF_vars(ServicesStart)

Spec == Init /\ [][Next]_vars /\ Fairness

-------------------------------------------------------------------------------
(* Properties.                                                              *)

\* While no process works and no marker, emergency or unfinished rollback says
\* otherwise, the workspace is of one version: HEAD, the index, the dependencies and
\* the running services agree, whichever step a kill, a failure or a restart hit.
AllOrNothing ==
    ((\A p \in Slots : At(p, "idle")) /\ boot = "up" /\ marker = NoMarker
        /\ point.state # "reverting" /\ ~told) => Consistent

\* The copies a marker or an untouched rollback point promises are those of the version
\* it goes back to: never of a state some interrupted step had already changed.
CopiesArePrior ==
    ~told => /\ marker.snapped => copies = marker.back \cap Merges
             /\ (point.state = "kept" /\ point.snapped) => copies = point.back \cap Merges

\* The types; and at most one process changes the tree, the dependencies or the copies
\* at a time, which is why the copies can be relied on.
OneMover ==
    /\ TypeOK /\ CopiesArePrior
    /\ Cardinality({p \in Slots : proc[p].pc \notin {"idle", "claim"}}) <= 1

\* A rollback that takes its marker down has brought back the version its apply began
\* from, not another, whatever step the apply and earlier rollbacks were killed at.
RollsBackToStart ==
    \A p \in Slots : At(p, "tidy") /\ ~told =>
        /\ Clean /\ Content = proc[p].mk.back \cap Merges /\ deps = Content
        /\ boot = "up" => running = Now

\* Both: whatever was cut short, the workspace ends on one version, and a rollback
\* on the one the apply began from.
OneVersion == AllOrNothing /\ RollsBackToStart

\* An apply that ends well has its update in the tree and running, and what others
\* committed between updates survives every apply, recovery and rollback.
AppliedIsLive ==
    /\ \A a \in Agents : At(a, "tail") => proc[a].mk.merge \in running.tree /\ running = Now
    /\ worked \subseteq head

\* An interrupted apply is at last finished, rolled back or reported.
Resolved == marker # NoMarker ~> marker = NoMarker
=============================================================================
