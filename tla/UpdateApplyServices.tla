-------------------------- MODULE UpdateApplyServices --------------------------
(***************************************************************************)
(* What TLAPS proves of the services of UpdateApply: they run what is on   *)
(* the disk once an interrupted apply, recovery or rollback is over.  On   *)
(* top of what UpdateApplyDisk proves of the disk.                         *)
(***************************************************************************)
EXTENDS UpdateApplyDisk

-------------------------------------------------------------------------------
\* The services run what is on the disk, where the step says so.
LiveStep(p) ==
    LET mk == proc[p].mk  pc == proc[p].pc IN
    /\ pc = "claim" /\ Is(p, "apply") /\ ~proc[p].landed => ~mk.restarted
    /\ pc \in {"merge", "staged"} => ~mk.restarted
    /\ pc \in {"refresh", "refreshing", "preflight"} => mk.merge \in landed
    /\ pc \in {"restart", "probe", "again"} => mk.restarted
    /\ pc = "confirm" => deps = Broken \/ running = Now
    /\ pc \in {"clear", "tidy"} => (boot = "up" => running = Now)
    /\ pc \in {"revert", "check", "probe", "tail"} => running = Now

LiveTrue ==
    /\ Resting /\ boot = "up" => running = Now
    /\ marker # NoMarker =>
         IF marker.restarted THEN marker.merge \in landed
         ELSE boot = "up" => running = [tree |-> Base(marker), deps |-> Base(marker)]
    /\ \A p \in Slots : LiveStep(p)

\* The recovery at boot is the one that finds what a restart left, and ends it.
BootInv ==
    /\ boot = "recovering" /\ At(Boot, "idle") => marker.pid = Dead
    /\ boot = "starting" => marker = NoMarker

LiveInv == BootInv /\ (told \/ LiveTrue)

-------------------------------------------------------------------------------
(* The services.                                                             *)

USE UpdateAssumption DEF At, Goes, Is, Fault, Leaves, Ends, treeVars, branchVars, depsVars, recordVars,
                         Applying, Undoing, Trailing, Rolling

\* How a rollback goes on from there.
LEMMA NextUndo ==
  ASSUME SerialInv, DiskTrue, LiveTrue, NEW p \in Slots, proc[p].pc \in {"deps", "putting", "rebuild"}
  PROVE  /\ AfterDeps(p) = "clear" => boot # "up"
         /\ AfterDeps(p) = "again" => proc[p].mk.restarted
         /\ AfterDeps(p) = "confirm" => running = [tree |-> Content, deps |-> Base(proc[p].mk)]
  <1>1. marker = proc[p].mk /\ marker # NoMarker /\ (p = Boot => boot # "up") /\ (p # Boot => boot = "up")
    BY Places DEF SerialInv, InPlace
  <1>2. ~marker.restarted /\ boot = "up" => running = [tree |-> Base(marker), deps |-> Base(marker)]
    BY <1>1 DEF LiveTrue
  <1>. QED BY <1>1, <1>2, AfterUndo DEF AfterDeps

\* An agent's apply keeps the services on the version of the disk.
LEMMA LiveApply ==
  ASSUME Serial, ~Race("alarm"), ~Race("bootFails"), SerialInv, SerialInv', DiskTrue,
         BootInv, LiveTrue, ~told', NEW a \in Agents,
         \/ \E m \in Merges, keep \in BOOLEAN : ApplyStarts(a, m, keep) \/ ApplyResumes(a, m, keep)
         \/ ApplyNext(a)
  PROVE  LiveTrue'
  <1>1. ASSUME NEW m \in Merges, NEW keep \in BOOLEAN, ApplyStarts(a, m, keep)
        PROVE  LiveTrue'
    <2>1. (Resting /\ boot = "up" => running = Now)'
      BY ZenonT(40), <1>1, Places, Kinds DEF SerialInv, TypeOK, Slots, LiveTrue, Now, Content,
           Base, Resting, Mover, LiveStep, InPlace, ApplyStarts, Reads
    <2>2. (marker # NoMarker =>
           IF marker.restarted THEN marker.merge \in landed
           ELSE boot = "up" => running = [tree |-> Base(marker), deps |-> Base(marker)])'
      BY <1>1, Places, Kinds DEF SerialInv, TypeOK, Slots, LiveTrue, Now, Content, Base,
           LiveStep, InPlace, ApplyStarts, Reads
    <2>3. ASSUME NEW q \in Slots PROVE LiveStep(q)'
      <3>1. CASE q = a
        <4>1. ~proc'[a].mk.restarted /\ proc'[a].pc = "claim"
          BY <1>1 DEF ApplyStarts, Reads, SerialInv, TypeOK, Slots, NoMarker
        <4>. QED BY <3>1, <4>1 DEF LiveStep
      <3>2. CASE q # a
        <4>1. proc'[q] = proc[q] /\ proc[q].pc \in {"idle"} \cup Rolling \cup Trailing
          BY <1>1, <3>2, Places, Kinds DEF SerialInv, TypeOK, Slots, ApplyStarts, Reads, Serial,
               Unclaimed
        <4>. QED BY <1>1, <4>1 DEF LiveTrue, LiveStep, Now, Content, ApplyStarts
      <3>. QED BY <3>1, <3>2
    <2>. QED BY <2>1, <2>2, <2>3 DEF LiveTrue
  <1>2. ASSUME NEW m \in Merges, NEW keep \in BOOLEAN, ApplyResumes(a, m, keep)
        PROVE  LiveTrue'
    <2>1. (Resting /\ boot = "up" => running = Now)'
      BY SMTT(30), <1>2, Places, Kinds DEF SerialInv, TypeOK, Slots, LiveTrue, Now, Content,
           Base, Resting, Mover, LiveStep, InPlace, ApplyResumes, Reads, AbortMerge, Stamped
    <2>2. (marker # NoMarker =>
           IF marker.restarted THEN marker.merge \in landed
           ELSE boot = "up" => running = [tree |-> Base(marker), deps |-> Base(marker)])'
      BY SMTT(30), <1>2, Places, Kinds DEF SerialInv, TypeOK, Slots, LiveTrue, Now, Content,
           Base, LiveStep, InPlace, ApplyResumes, Reads, AbortMerge, Stamped
    <2>3. ASSUME NEW q \in Slots PROVE LiveStep(q)'
      <3>1. CASE q = a
        <4>1. /\ proc'[a].mk = Stamped(marker, a) /\ proc'[a].pc = "claim"
              /\ proc'[a].landed <=> (m \in landed)
          BY <1>2 DEF ApplyResumes, Reads, SerialInv, TypeOK, Slots
        <4>2. marker # NoMarker /\ marker.merge = m
          BY <1>2, Kinds DEF ApplyResumes
        <4>. QED BY <3>1, <4>1, <4>2, StampedKind DEF LiveTrue, LiveStep, SerialInv, Slots
      <3>2. CASE q # a
        <4>1. proc'[q] = proc[q] /\ proc[q].pc \in {"idle"} \cup Rolling \cup Trailing
          BY <1>2, <3>2, Places, Kinds DEF SerialInv, TypeOK, Slots, ApplyResumes, Reads,
               AbortMerge, Stamped, Serial, Unclaimed
        <4>. QED BY <1>2, <4>1 DEF LiveTrue, LiveStep, Now, Content, ApplyResumes
      <3>. QED BY <3>1, <3>2
    <2>. QED BY <2>1, <2>2, <2>3 DEF LiveTrue
  <1>3. CASE ApplyDropsPoint(a)
    <2>1. (Resting /\ boot = "up" => running = Now)'
      BY SMTT(30), <1>3, Places, Kinds DEF SerialInv, TypeOK, Slots, LiveTrue, Now, Content,
           Base, Resting, Mover, LiveStep, InPlace, ApplyDropsPoint, OwnPointNext, Locked
    <2>2. (marker # NoMarker =>
           IF marker.restarted THEN marker.merge \in landed
           ELSE boot = "up" => running = [tree |-> Base(marker), deps |-> Base(marker)])'
      BY SMTT(30), <1>3, Places, Kinds DEF SerialInv, TypeOK, Slots, LiveTrue, Now, Content,
           Base, LiveStep, InPlace, ApplyDropsPoint, OwnPointNext, Locked
    <2>3. ASSUME NEW q \in Slots PROVE LiveStep(q)'
      <3>1. proc'[q] \in {proc[q], Idle}
        BY <1>3 DEF ApplyDropsPoint, SerialInv, TypeOK
      <3>. QED BY <1>3, <3>1 DEF ApplyDropsPoint, LiveTrue, Idle, LiveStep, Now, Content
    <2>. QED BY <2>1, <2>2, <2>3 DEF LiveTrue
  <1>4. CASE ApplyClaims(a)
    <2>1. (Resting /\ boot = "up" => running = Now)'
      BY SMTT(30), <1>4, Places, Kinds DEF SerialInv, TypeOK, Slots, LiveTrue, Now, Content,
           Base, Resting, Mover, LiveStep, InPlace, ApplyClaims, OwnPointNext, Writes
    <2>2. (marker # NoMarker =>
           IF marker.restarted THEN marker.merge \in landed
           ELSE boot = "up" => running = [tree |-> Base(marker), deps |-> Base(marker)])'
      <3>1. CASE Fresh(a)
        <4>1. Resting
          BY <1>4, <3>1, ClaimsAlone, Kinds DEF ApplyClaims, Resting, Mover, Fresh, Slots
        <4>2. Content = Base(proc[a].mk) /\ deps = Content
          BY <1>4, <3>1, <4>1 DEF ApplyClaims, DiskTrue, Step, Slots
        <4>3. running = Now /\ ~proc[a].mk.restarted
          BY <1>4, <3>1, <4>1 DEF ApplyClaims, LiveTrue, SerialInv, InPlace, Slots, Fresh
        <4>. QED BY <1>4, <4>2, <4>3 DEF ApplyClaims, Writes, Now, Content, Base
      <3>2. CASE marker.pid = Dead /\ proc[a].mk = Stamped(marker, a)
        <4>1. marker # NoMarker
          BY <3>2, Kinds
        <4>. QED BY <1>4, <3>2, <4>1, StampedKind DEF ApplyClaims, Writes, SerialInv, Slots, LiveTrue, Base
      <3>. QED BY <1>4, <3>1, <3>2 DEF ApplyClaims, SerialInv, InPlace, Claiming, Slots
    <2>3. ASSUME NEW q \in Slots PROVE LiveStep(q)'
      <3>1. CASE q = a
        <4>1. /\ proc'[a].mk = proc[a].mk /\ proc'[a].pc = IF proc[a].landed THEN "merged" ELSE "merge"
          BY <1>4, Places DEF ApplyClaims, Writes, SerialInv, TypeOK, Slots, ProcKinds
        <4>. QED BY <1>4, <3>1, <4>1 DEF ApplyClaims, LiveTrue, LiveStep
      <3>2. CASE q # a
        <4>1. proc'[q] = proc[q] /\ proc[q].pc \in {"idle"}
          BY <1>4, <3>2, ClaimsAlone DEF SerialInv, TypeOK, Slots, ApplyClaims, OwnPointNext,
               Writes
        <4>. QED BY <4>1 DEF LiveStep
      <3>. QED BY <3>1, <3>2
    <2>. QED BY <2>1, <2>2, <2>3 DEF LiveTrue
  <1>5. CASE ApplyMerges(a)
    <2>1. (Resting /\ boot = "up" => running = Now)'
      BY SMTT(30), <1>5, Places, Kinds DEF SerialInv, TypeOK, Slots, LiveTrue, Now, Content,
           Base, Resting, Mover, LiveStep, InPlace, ApplyMerges
    <2>2. (marker # NoMarker =>
           IF marker.restarted THEN marker.merge \in landed
           ELSE boot = "up" => running = [tree |-> Base(marker), deps |-> Base(marker)])'
      BY <1>5, Places, Kinds DEF SerialInv, TypeOK, Slots, LiveTrue, Now, Content, Base,
           LiveStep, InPlace, ApplyMerges
    <2>3. ASSUME NEW q \in Slots PROVE LiveStep(q)'
      <3>1. CASE q = a
        BY <1>5, <3>1, Places DEF LiveTrue, SerialInv, TypeOK, Slots, ProcKinds, InPlace, Holds,
             LiveStep, Now, Content, ApplyMerges
      <3>2. CASE q # a
        <4>1. proc'[q] = proc[q] /\ proc[q].pc \in {"idle"}
          BY <1>5, <3>2, Solo DEF SerialInv, TypeOK, Slots, ApplyMerges
        <4>. QED BY <4>1 DEF LiveStep
      <3>. QED BY <3>1, <3>2
    <2>. QED BY <2>1, <2>2, <2>3 DEF LiveTrue
  <1>6. CASE ApplyLands(a)
    <2>1. (Resting /\ boot = "up" => running = Now)'
      BY SMTT(30), <1>6, Places, Kinds DEF SerialInv, TypeOK, Slots, LiveTrue, Now, Content,
           Base, Resting, Mover, LiveStep, InPlace, ApplyLands
    <2>2. (marker # NoMarker =>
           IF marker.restarted THEN marker.merge \in landed
           ELSE boot = "up" => running = [tree |-> Base(marker), deps |-> Base(marker)])'
      BY <1>6, Places, Kinds DEF SerialInv, TypeOK, Slots, LiveTrue, Now, Content, Base,
           LiveStep, InPlace, ApplyLands
    <2>3. ASSUME NEW q \in Slots PROVE LiveStep(q)'
      <3>1. CASE q = a
        BY <1>6, <3>1, Places DEF LiveTrue, SerialInv, TypeOK, Slots, ProcKinds, InPlace, Holds,
             LiveStep, Now, Content, ApplyLands
      <3>2. CASE q # a
        <4>1. proc'[q] = proc[q] /\ proc[q].pc \in {"idle"}
          BY <1>6, <3>2, Solo DEF SerialInv, TypeOK, Slots, ApplyLands
        <4>. QED BY <4>1 DEF LiveStep
      <3>. QED BY <3>1, <3>2
    <2>. QED BY <2>1, <2>2, <2>3 DEF LiveTrue
  <1>7. CASE ApplyRefused(a)
    <2>1. (Resting /\ boot = "up" => running = Now)'
      <3>1. Content = Base(marker) /\ ~marker.snapped /\ ~marker.restarted
        BY <1>7, Places DEF ApplyRefused, DiskTrue, LiveTrue, Step, LiveStep, Slots
      <3>2. deps = Content /\ boot = "up"
        BY <1>7, <3>1, Places DEF ApplyRefused, DiskTrue, MarkerTrue, Slots, SerialInv, InPlace
      <3>. QED BY <1>7, <3>1, <3>2, Places DEF ApplyRefused, LiveTrue, Now, Content, Slots
    <2>2. (marker # NoMarker =>
           IF marker.restarted THEN marker.merge \in landed
           ELSE boot = "up" => running = [tree |-> Base(marker), deps |-> Base(marker)])'
      BY SMTT(30), <1>7, Places, Kinds DEF SerialInv, TypeOK, Slots, LiveTrue, Now, Content,
           Base, LiveStep, InPlace, ApplyRefused, AbortMerge, Cleared
    <2>3. ASSUME NEW q \in Slots PROVE LiveStep(q)'
      <3>1. CASE q = a
        BY SMTT(30), <1>7, <3>1, Places DEF LiveTrue, SerialInv, TypeOK, Slots, ProcKinds,
             InPlace, Holds, LiveStep, Now, Content, ApplyRefused, AbortMerge, Cleared
      <3>2. CASE q # a
        <4>1. proc'[q] = proc[q] /\ proc[q].pc \in {"idle"}
          BY <1>7, <3>2, Solo DEF SerialInv, TypeOK, Slots, ApplyRefused, AbortMerge, Cleared
        <4>. QED BY <4>1 DEF LiveStep
      <3>. QED BY <3>1, <3>2
    <2>. QED BY <2>1, <2>2, <2>3 DEF LiveTrue
  <1>8. CASE ApplyPlans(a)
    <2>1. (Resting /\ boot = "up" => running = Now)'
      <3>1. proc'[a].pc \in {"preflight", "copy"}
        BY <1>8 DEF ApplyPlans, SerialInv, TypeOK, Slots
      <3>. QED BY <3>1 DEF Resting, Mover, Slots
    <2>2. (marker # NoMarker =>
           IF marker.restarted THEN marker.merge \in landed
           ELSE boot = "up" => running = [tree |-> Base(marker), deps |-> Base(marker)])'
      <3>1. /\ marker' = [marker EXCEPT !.phase = "merged"] /\ marker \in MarkerKinds
            /\ UNCHANGED <<running, boot, landed>> /\ marker # NoMarker
        BY <1>8, Places DEF ApplyPlans, Slots
      <3>2. /\ marker'.merge = marker.merge /\ marker'.back = marker.back
            /\ marker'.restarted = marker.restarted
        BY <3>1 DEF MarkerKinds
      <3>. QED BY <3>1, <3>2 DEF LiveTrue, Base
    <2>3. ASSUME NEW q \in Slots PROVE LiveStep(q)'
      <3>1. CASE q = a
        <4>1. proc'[a].pc \in {"preflight", "copy"}
          BY <1>8 DEF ApplyPlans, SerialInv, TypeOK, Slots
        <4>2. proc'[a].mk = [proc[a].mk EXCEPT !.phase = "merged"]
          BY <1>8, Places DEF ApplyPlans, SerialInv, TypeOK, Slots, ProcKinds
        <4>3. proc'[a].mk.merge = proc[a].mk.merge
          BY <4>2, Places DEF MarkerKinds, Slots
        <4>4. proc[a].mk.merge \in landed /\ landed' = landed
          BY <1>8 DEF ApplyPlans, DiskTrue, Step, Slots
        <4>. QED BY <3>1, <4>1, <4>3, <4>4 DEF LiveStep
      <3>2. CASE q # a
        <4>1. proc'[q] = proc[q] /\ proc[q].pc \in {"idle"}
          BY <1>8, <3>2, Solo DEF SerialInv, TypeOK, Slots, ApplyPlans, Changed
        <4>. QED BY <4>1 DEF LiveStep
      <3>. QED BY <3>1, <3>2
    <2>. QED BY <2>1, <2>2, <2>3 DEF LiveTrue
  <1>9. CASE ApplyCopies(a)
    <2>1. (Resting /\ boot = "up" => running = Now)'
      <3>1. PICK mk : Writes(a, mk, "refresh")
        BY <1>9 DEF ApplyCopies
      <3>2. proc'[a].pc = "refresh"
        BY <3>1 DEF Writes, SerialInv, TypeOK, Slots
      <3>. QED BY <3>2 DEF Resting, Mover, Slots
    <2>2. (marker # NoMarker =>
           IF marker.restarted THEN marker.merge \in landed
           ELSE boot = "up" => running = [tree |-> Base(marker), deps |-> Base(marker)])'
      BY SMTT(30), <1>9, Places, Kinds DEF SerialInv, TypeOK, Slots, LiveTrue, Now, Content,
           Base, LiveStep, InPlace, ApplyCopies, Writes, Reusable, MarkerKinds
    <2>3. ASSUME NEW q \in Slots PROVE LiveStep(q)'
      <3>1. CASE q = a
        <4>1. PICK mk \in {proc[a].mk} \cup {[proc[a].mk EXCEPT !.snapped = c] : c \in BOOLEAN} :
                Writes(a, mk, "refresh")
          BY <1>9 DEF ApplyCopies
        <4>2. mk.merge = proc[a].mk.merge
          BY <4>1, Places DEF MarkerKinds, Slots
        <4>3. proc'[a].pc = "refresh" /\ proc'[a].mk = mk
          BY <4>1, Places DEF Writes, SerialInv, TypeOK, Slots, ProcKinds
        <4>4. proc[a].mk.merge \in landed /\ landed' = landed
          BY <1>9 DEF ApplyCopies, DiskTrue, Step, Slots
        <4>. QED BY <3>1, <4>2, <4>3, <4>4 DEF LiveStep
      <3>2. CASE q # a
        <4>1. proc'[q] = proc[q] /\ proc[q].pc \in {"idle"}
          BY <1>9, <3>2, Solo DEF SerialInv, TypeOK, Slots, ApplyCopies, Writes, Reusable
        <4>. QED BY <4>1 DEF LiveStep
      <3>. QED BY <3>1, <3>2
    <2>. QED BY <2>1, <2>2, <2>3 DEF LiveTrue
  <1>10. CASE ApplyRefreshes(a)
    <2>1. (Resting /\ boot = "up" => running = Now)'
      BY SMTT(30), <1>10, Places, Kinds DEF SerialInv, TypeOK, Slots, LiveTrue, Now,
           Content, Base, Resting, Mover, LiveStep, InPlace, ApplyRefreshes
    <2>2. (marker # NoMarker =>
           IF marker.restarted THEN marker.merge \in landed
           ELSE boot = "up" => running = [tree |-> Base(marker), deps |-> Base(marker)])'
      BY <1>10, Places, Kinds DEF SerialInv, TypeOK, Slots, LiveTrue, Now, Content, Base,
           LiveStep, InPlace, ApplyRefreshes
    <2>3. ASSUME NEW q \in Slots PROVE LiveStep(q)'
      <3>1. CASE q = a
        BY <1>10, <3>1, Places DEF LiveTrue, SerialInv, TypeOK, Slots, ProcKinds, InPlace, Holds,
             LiveStep, Now, Content, ApplyRefreshes
      <3>2. CASE q # a
        <4>1. proc'[q] = proc[q] /\ proc[q].pc \in {"idle"}
          BY <1>10, <3>2, Solo DEF SerialInv, TypeOK, Slots, ApplyRefreshes
        <4>. QED BY <4>1 DEF LiveStep
      <3>. QED BY <3>1, <3>2
    <2>. QED BY <2>1, <2>2, <2>3 DEF LiveTrue
  <1>11. CASE ApplyRefreshed(a)
    <2>1. (Resting /\ boot = "up" => running = Now)'
      BY SMTT(30), <1>11, Places, Kinds DEF SerialInv, TypeOK, Slots, LiveTrue, Now,
           Content, Base, Resting, Mover, LiveStep, InPlace, ApplyRefreshed
    <2>2. (marker # NoMarker =>
           IF marker.restarted THEN marker.merge \in landed
           ELSE boot = "up" => running = [tree |-> Base(marker), deps |-> Base(marker)])'
      BY <1>11, Places, Kinds DEF SerialInv, TypeOK, Slots, LiveTrue, Now, Content, Base,
           LiveStep, InPlace, ApplyRefreshed
    <2>3. ASSUME NEW q \in Slots PROVE LiveStep(q)'
      <3>1. CASE q = a
        BY <1>11, <3>1, Places DEF LiveTrue, SerialInv, TypeOK, Slots, ProcKinds, InPlace, Holds,
             LiveStep, Now, Content, ApplyRefreshed
      <3>2. CASE q # a
        <4>1. proc'[q] = proc[q] /\ proc[q].pc \in {"idle"}
          BY <1>11, <3>2, Solo DEF SerialInv, TypeOK, Slots, ApplyRefreshed, Content
        <4>. QED BY <4>1 DEF LiveStep
      <3>. QED BY <3>1, <3>2
    <2>. QED BY <2>1, <2>2, <2>3 DEF LiveTrue
  <1>12. CASE ApplyPreflights(a)
    <2>1. (Resting /\ boot = "up" => running = Now)'
      BY SMTT(30), <1>12 DEF SerialInv, TypeOK, Resting, Mover, ApplyPreflights, Writes
    <2>2. (marker # NoMarker =>
           IF marker.restarted THEN marker.merge \in landed
           ELSE boot = "up" => running = [tree |-> Base(marker), deps |-> Base(marker)])'
      <3>1. marker'.restarted /\ marker'.merge = proc[a].mk.merge
        BY <1>12, Places DEF ApplyPreflights, Writes, RestartRecorded, MarkerKinds, Slots
      <3>2. proc[a].mk.merge \in landed /\ landed' = landed
        BY <1>12 DEF ApplyPreflights, LiveTrue, LiveStep, Slots
      <3>. QED BY <3>1, <3>2
    <2>3. ASSUME NEW q \in Slots PROVE LiveStep(q)'
      <3>1. CASE q = a
        <4>1. proc'[a].pc = "restart" /\ proc'[a].mk.restarted
          BY <1>12, Places DEF ApplyPreflights, Writes, RestartRecorded, SerialInv, TypeOK, Slots, MarkerKinds, ProcKinds
        <4>. QED BY <3>1, <4>1 DEF LiveStep
      <3>2. CASE q # a
        <4>1. proc'[q] = proc[q] /\ proc[q].pc \in {"idle"}
          BY <1>12, <3>2, Solo DEF SerialInv, TypeOK, Slots, ApplyPreflights, Writes,
               RestartRecorded
        <4>. QED BY <4>1 DEF LiveStep
      <3>. QED BY <3>1, <3>2
    <2>. QED BY <2>1, <2>2, <2>3 DEF LiveTrue
  <1>13. CASE ApplyRestarts(a)
    <2>1. (Resting /\ boot = "up" => running = Now)'
      BY SMTT(30), <1>13, Places, Kinds DEF SerialInv, TypeOK, Slots, LiveTrue, Now,
           Content, Base, Resting, Mover, LiveStep, InPlace, ApplyRestarts
    <2>2. (marker # NoMarker =>
           IF marker.restarted THEN marker.merge \in landed
           ELSE boot = "up" => running = [tree |-> Base(marker), deps |-> Base(marker)])'
      BY <1>13, Places, Kinds DEF SerialInv, TypeOK, Slots, LiveTrue, Now, Content, Base,
           LiveStep, InPlace, ApplyRestarts
    <2>3. ASSUME NEW q \in Slots PROVE LiveStep(q)'
      <3>1. CASE q = a
        BY <1>13, <3>1, Places DEF LiveTrue, SerialInv, TypeOK, Slots, ProcKinds, InPlace, Holds,
             LiveStep, Now, Content, ApplyRestarts
      <3>2. CASE q # a
        <4>1. proc'[q] = proc[q] /\ proc[q].pc \in {"idle"}
          BY <1>13, <3>2, Solo DEF SerialInv, TypeOK, Slots, ApplyRestarts, Now, Content
        <4>. QED BY <4>1 DEF LiveStep
      <3>. QED BY <3>1, <3>2
    <2>. QED BY <2>1, <2>2, <2>3 DEF LiveTrue
  <1>14. CASE ApplyConfirms(a)
    <2>1. (Resting /\ boot = "up" => running = Now)'
      BY SMTT(30), <1>14, Places, Kinds DEF SerialInv, TypeOK, Slots, LiveTrue, Now,
           Content, Base, Resting, Mover, LiveStep, InPlace, ApplyConfirms, Cleared, Healthy
    <2>2. (marker # NoMarker =>
           IF marker.restarted THEN marker.merge \in landed
           ELSE boot = "up" => running = [tree |-> Base(marker), deps |-> Base(marker)])'
      BY SMTT(30), <1>14, Places, Kinds DEF SerialInv, TypeOK, Slots, LiveTrue, Now,
           Content, Base, LiveStep, InPlace, ApplyConfirms, Cleared, Healthy
    <2>3. ASSUME NEW q \in Slots PROVE LiveStep(q)'
      <3>1. CASE q = a
        BY SMTT(30), <1>14, <3>1, Places DEF LiveTrue, SerialInv, TypeOK, Slots, ProcKinds,
             InPlace, Holds, LiveStep, Now, Content, ApplyConfirms, Cleared, Healthy
      <3>2. CASE q # a
        <4>1. proc'[q] = proc[q] /\ proc[q].pc \in {"idle"}
          BY <1>14, <3>2, Solo DEF SerialInv, TypeOK, Slots, ApplyConfirms, Cleared, Healthy
        <4>. QED BY <4>1 DEF LiveStep
      <3>. QED BY <3>1, <3>2
    <2>. QED BY <2>1, <2>2, <2>3 DEF LiveTrue
  <1>15. CASE ApplyEnds(a)
    <2>1. (Resting /\ boot = "up" => running = Now)'
      BY SMTT(30), <1>15, Places, Kinds DEF SerialInv, TypeOK, Slots, LiveTrue, Now,
           Content, Base, Resting, Mover, LiveStep, InPlace, ApplyEnds, PointAt
    <2>2. (marker # NoMarker =>
           IF marker.restarted THEN marker.merge \in landed
           ELSE boot = "up" => running = [tree |-> Base(marker), deps |-> Base(marker)])'
      BY <1>15, Places, Kinds DEF SerialInv, TypeOK, Slots, LiveTrue, Now, Content, Base,
           LiveStep, InPlace, ApplyEnds, PointAt
    <2>3. ASSUME NEW q \in Slots PROVE LiveStep(q)'
      <3>1. CASE q = a
        BY SMTT(30), <1>15, <3>1, Places DEF LiveTrue, SerialInv, TypeOK, Slots, ProcKinds,
             InPlace, Holds, LiveStep, Now, Content, ApplyEnds, PointAt
      <3>2. CASE q # a
        <4>1. proc'[q] = proc[q] /\ proc[q].pc \in {"idle"}
          BY <1>15, <3>2, Solo DEF SerialInv, TypeOK, Slots, ApplyEnds, PointAt
        <4>. QED BY <4>1 DEF LiveStep
      <3>. QED BY <3>1, <3>2
    <2>. QED BY <2>1, <2>2, <2>3 DEF LiveTrue
  <1>16. CASE ApplyFails(a)
    <2>1. (Resting /\ boot = "up" => running = Now)'
      BY SMTT(30), <1>16, Places, Kinds DEF SerialInv, TypeOK, Slots, LiveTrue, Now,
           Content, Base, Resting, Mover, LiveStep, InPlace, ApplyFails, Failing, Healthy
    <2>2. (marker # NoMarker =>
           IF marker.restarted THEN marker.merge \in landed
           ELSE boot = "up" => running = [tree |-> Base(marker), deps |-> Base(marker)])'
      BY SMTT(30), <1>16, Places, Kinds DEF SerialInv, TypeOK, Slots, LiveTrue, Now,
           Content, Base, LiveStep, InPlace, ApplyFails, Failing, Healthy
    <2>3. ASSUME NEW q \in Slots PROVE LiveStep(q)'
      <3>1. CASE q = a
        BY SMTT(30), <1>16, <3>1, Places DEF LiveTrue, SerialInv, TypeOK, Slots, ProcKinds,
             InPlace, Holds, LiveStep, Now, Content, ApplyFails, Failing, Healthy
      <3>2. CASE q # a
        <4>1. proc'[q] = proc[q] /\ proc[q].pc \in {"idle"}
          BY <1>16, <3>2, Solo DEF SerialInv, TypeOK, Slots, ApplyFails, Failing, Healthy
        <4>. QED BY <4>1 DEF LiveStep
      <3>. QED BY <3>1, <3>2
    <2>. QED BY <2>1, <2>2, <2>3 DEF LiveTrue
  <1>. QED BY <1>1, <1>2, <1>3, <1>4, <1>5, <1>6, <1>7, <1>8, <1>9, <1>10, <1>11, <1>12, <1>13, <1>14,
       <1>15, <1>16 DEF ApplyNext

\* A recovery, and the rollback of a failed apply, keep the services on the version of the
\* disk.
LEMMA LiveUndo ==
  ASSUME Serial, ~Race("alarm"), ~Race("bootFails"), SerialInv, SerialInv', DiskTrue,
         BootInv, LiveTrue, ~told', NEW p \in Slots,
         RecoverReads(p) \/ BootReads \/ UndoNext(p)
  PROVE  LiveTrue'
  <1>1. CASE RecoverReads(p)
    <2>1. (Resting /\ boot = "up" => running = Now)'
      BY SMTT(30), <1>1, Places, Kinds DEF SerialInv, TypeOK, Slots, LiveTrue, Now, Content,
           Base, Resting, Mover, LiveStep, InPlace, RecoverReads, Reads, Stale, Stamped
    <2>2. (marker # NoMarker =>
           IF marker.restarted THEN marker.merge \in landed
           ELSE boot = "up" => running = [tree |-> Base(marker), deps |-> Base(marker)])'
      BY SMTT(30), <1>1, Places, Kinds DEF SerialInv, TypeOK, Slots, LiveTrue, Now, Content,
           Base, LiveStep, InPlace, RecoverReads, Reads, Stale, Stamped
    <2>3. ASSUME NEW q \in Slots PROVE LiveStep(q)'
      <3>1. CASE q = p
        BY SMTT(30), <1>1, <3>1, Places, StampedKind, Kinds DEF LiveTrue, SerialInv, TypeOK,
             Slots, ProcKinds, InPlace, Holds, LiveStep, Now, Content, RecoverReads, Reads,
             Stale, Stamped
      <3>2. CASE q # p
        <4>1. proc'[q] = proc[q] /\ proc[q].pc \in {"idle"} \cup Rolling \cup Trailing
          BY <1>1, <3>2, Places, Kinds DEF SerialInv, TypeOK, Slots, RecoverReads, Reads, Stale,
               Stamped, Serial, Unclaimed
        <4>. QED BY <1>1, <4>1 DEF LiveTrue, LiveStep, Now, Content, RecoverReads
      <3>. QED BY <3>1, <3>2
    <2>. QED BY <2>1, <2>2, <2>3 DEF LiveTrue
  <1>2. CASE BootReads
    <2>1. (Resting /\ boot = "up" => running = Now)'
      BY SMTT(30), <1>2, Places, Kinds DEF SerialInv, TypeOK, Slots, LiveTrue, Now, Content,
           Base, Resting, Mover, LiveStep, InPlace, BootReads, Reads, Stale, Stamped
    <2>2. (marker # NoMarker =>
           IF marker.restarted THEN marker.merge \in landed
           ELSE boot = "up" => running = [tree |-> Base(marker), deps |-> Base(marker)])'
      <3>. QED BY <1>2, DeadKind DEF BootReads, SerialInv, MarkerInv, LiveTrue, Base
    <2>3. ASSUME NEW q \in Slots PROVE LiveStep(q)'
      <3>1. CASE q = Boot
        <4>1. Stale
          BY <1>2 DEF BootReads, BootInv, Stale
        <4>2. proc'[Boot].pc = "claim" /\ proc'[Boot].role = "recover"
          BY <1>2, <4>1 DEF BootReads, Reads, SerialInv, TypeOK, Slots
        <4>. QED BY <3>1, <4>2 DEF LiveStep
      <3>2. CASE q # Boot
        <4>1. proc'[q] = proc[q] /\ At(q, "idle")
          BY <1>2, <3>2 DEF BootReads, Reads, SerialInv, TypeOK, InPlace
        <4>. QED BY <4>1 DEF LiveStep
      <3>. QED BY <3>1, <3>2
    <2>. QED BY <2>1, <2>2, <2>3 DEF LiveTrue
  <1>3. CASE RecoverClaims(p)
    <2>1. (Resting /\ boot = "up" => running = Now)'
      BY SMTT(30), <1>3, Places, Kinds DEF SerialInv, TypeOK, Slots, LiveTrue, Now, Content,
           Base, Resting, Mover, LiveStep, InPlace, RecoverClaims, AbortFirst, AbortMerge,
           Changed
    <2>2. (marker # NoMarker =>
           IF marker.restarted THEN marker.merge \in landed
           ELSE boot = "up" => running = [tree |-> Base(marker), deps |-> Base(marker)])'
      <3>1. marker # NoMarker /\ proc[p].mk = Stamped(marker, p)
        BY <1>3, Kinds DEF RecoverClaims, SerialInv, InPlace, Claiming, Fresh
      <3>. QED BY <1>3, <3>1, StampedKind DEF RecoverClaims, SerialInv, LiveTrue, Base
    <2>3. ASSUME NEW q \in Slots PROVE LiveStep(q)'
      <3>1. CASE q = p
        <4>1. proc'[p].pc = "undo"
          BY <1>3 DEF RecoverClaims, SerialInv, TypeOK
        <4>. QED BY <3>1, <4>1 DEF LiveStep
      <3>2. CASE q # p
        <4>1. proc'[q] = proc[q] /\ proc[q].pc \in {"idle"}
          BY <1>3, <3>2, ClaimsAlone DEF SerialInv, TypeOK, Slots, RecoverClaims, AbortFirst,
               AbortMerge, Changed
        <4>. QED BY <4>1 DEF LiveStep
      <3>. QED BY <3>1, <3>2
    <2>. QED BY <2>1, <2>2, <2>3 DEF LiveTrue
  <1>4. CASE Restores(p)
    <2>1. (Resting /\ boot = "up" => running = Now)'
      BY SMTT(30), <1>4, Places, Kinds DEF SerialInv, TypeOK, Slots, LiveTrue, Now, Content,
           Base, Resting, Mover, LiveStep, InPlace, Restores
    <2>2. (marker # NoMarker =>
           IF marker.restarted THEN marker.merge \in landed
           ELSE boot = "up" => running = [tree |-> Base(marker), deps |-> Base(marker)])'
      BY <1>4, Places, Kinds DEF SerialInv, TypeOK, Slots, LiveTrue, Now, Content, Base,
           LiveStep, InPlace, Restores
    <2>3. ASSUME NEW q \in Slots PROVE LiveStep(q)'
      <3>1. CASE q = p
        BY <1>4, <3>1, Places DEF LiveTrue, SerialInv, TypeOK, Slots, ProcKinds, InPlace, Holds,
             LiveStep, Now, Content, Restores
      <3>2. CASE q # p
        <4>1. proc'[q] = proc[q] /\ proc[q].pc \in {"idle"}
          BY <1>4, <3>2, Solo DEF SerialInv, TypeOK, Slots, Restores
        <4>. QED BY <4>1 DEF LiveStep
      <3>. QED BY <3>1, <3>2
    <2>. QED BY <2>1, <2>2, <2>3 DEF LiveTrue
  <1>5. CASE Commits(p)
    <2>1. (Resting /\ boot = "up" => running = Now)'
      BY SMTT(30), <1>5, Places, Kinds DEF SerialInv, TypeOK, Slots, LiveTrue, Now, Content,
           Base, Resting, Mover, LiveStep, InPlace, Commits, CommitStaged
    <2>2. (marker # NoMarker =>
           IF marker.restarted THEN marker.merge \in landed
           ELSE boot = "up" => running = [tree |-> Base(marker), deps |-> Base(marker)])'
      BY <1>5, Places, Kinds DEF SerialInv, TypeOK, Slots, LiveTrue, Now, Content, Base,
           LiveStep, InPlace, Commits, CommitStaged
    <2>3. ASSUME NEW q \in Slots PROVE LiveStep(q)'
      <3>1. CASE q = p
        BY SMTT(30), <1>5, <3>1, Places DEF LiveTrue, SerialInv, TypeOK, Slots, ProcKinds,
             InPlace, Holds, LiveStep, Now, Content, Commits, CommitStaged
      <3>2. CASE q # p
        <4>1. proc'[q] = proc[q] /\ proc[q].pc \in {"idle"}
          BY <1>5, <3>2, Solo DEF SerialInv, TypeOK, Slots, Commits, CommitStaged
        <4>. QED BY <4>1 DEF LiveStep
      <3>. QED BY <3>1, <3>2
    <2>. QED BY <2>1, <2>2, <2>3 DEF LiveTrue
  <1>6. CASE GitFails(p)
    <2>1. (Resting /\ boot = "up" => running = Now)'
      <3>1. CASE marker' = Orphaned(p)
        BY <1>6, <3>1, OrphanedKind, Places DEF GitFails, SerialInv, Resting
      <3>2. CASE UNCHANGED marker
        BY <1>6, <3>2, Places DEF GitFails, Resting
      <3>. QED BY <1>6, <3>1, <3>2 DEF GitFails
    <2>2. (marker # NoMarker =>
           IF marker.restarted THEN marker.merge \in landed
           ELSE boot = "up" => running = [tree |-> Base(marker), deps |-> Base(marker)])'
      <3>1. marker # NoMarker /\ (boot' = "up" => boot = "up")
        BY <1>6, Places DEF GitFails
      <3>. QED BY <1>6, <3>1, OrphanedKind DEF GitFails, SerialInv, LiveTrue, Base
    <2>3. ASSUME NEW q \in Slots PROVE LiveStep(q)'
      <3>1. CASE q = p
        BY SMTT(30), <1>6, <3>1, Places DEF LiveTrue, SerialInv, TypeOK, Slots, ProcKinds,
             InPlace, Holds, LiveStep, Now, Content, GitFails, Orphaned
      <3>2. CASE q # p
        <4>1. proc'[q] = proc[q] /\ proc[q].pc \in {"idle"}
          BY <1>6, <3>2, Solo DEF SerialInv, TypeOK, Slots, GitFails, Orphaned
        <4>. QED BY <4>1 DEF LiveStep
      <3>. QED BY <3>1, <3>2
    <2>. QED BY <2>1, <2>2, <2>3 DEF LiveTrue
  <1>7. CASE PutsBack(p)
    <2>1. (Resting /\ boot = "up" => running = Now)'
      BY SMTT(30), <1>7, Places, Kinds DEF SerialInv, TypeOK, Slots, LiveTrue, Now, Content,
           Base, Resting, Mover, LiveStep, InPlace, PutsBack, AfterLoss, AfterDeps
    <2>2. (marker # NoMarker =>
           IF marker.restarted THEN marker.merge \in landed
           ELSE boot = "up" => running = [tree |-> Base(marker), deps |-> Base(marker)])'
      BY SMTT(30), <1>7, Places, Kinds DEF SerialInv, TypeOK, Slots, LiveTrue, Now, Content,
           Base, LiveStep, InPlace, PutsBack, AfterLoss, AfterDeps
    <2>3. ASSUME NEW q \in Slots PROVE LiveStep(q)'
      <3>1. CASE q = p
        <4>1. PICK pc : /\ Goes(p, pc)
                        /\ \/ pc \in {"putting", "rebuild", "alarm"}
                           \/ pc = AfterDeps(p) /\ deps' = Base(proc[p].mk)
          BY <1>7, AfterUndo DEF PutsBack, AfterLoss
        <4>2. proc'[p].pc = pc /\ proc'[p].mk = proc[p].mk
          BY <4>1, Places DEF SerialInv, TypeOK, ProcKinds
        <4>3. At(p, "deps") /\ UNCHANGED <<head, running, boot>>
          BY <1>7 DEF PutsBack
        <4>. QED BY <3>1, <4>1, <4>2, <4>3, AfterUndo, NextUndo DEF LiveStep, Now, Content
      <3>2. CASE q # p
        <4>1. proc'[q] = proc[q] /\ proc[q].pc \in {"idle"}
          BY <1>7, <3>2, Solo DEF SerialInv, TypeOK, Slots, PutsBack, AfterLoss, AfterDeps
        <4>. QED BY <4>1 DEF LiveStep
      <3>. QED BY <3>1, <3>2
    <2>. QED BY <2>1, <2>2, <2>3 DEF LiveTrue
  <1>8. CASE IsPutBack(p)
    <2>1. (Resting /\ boot = "up" => running = Now)'
      BY SMTT(30), <1>8, Places, Kinds DEF SerialInv, TypeOK, Slots, LiveTrue, Now, Content,
           Base, Resting, Mover, LiveStep, InPlace, IsPutBack, AfterDeps
    <2>2. (marker # NoMarker =>
           IF marker.restarted THEN marker.merge \in landed
           ELSE boot = "up" => running = [tree |-> Base(marker), deps |-> Base(marker)])'
      BY <1>8, Places, Kinds DEF SerialInv, TypeOK, Slots, LiveTrue, Now, Content, Base,
           LiveStep, InPlace, IsPutBack, AfterDeps
    <2>3. ASSUME NEW q \in Slots PROVE LiveStep(q)'
      <3>1. CASE q = p
        <4>1. proc'[p].pc = AfterDeps(p) /\ proc'[p].mk = proc[p].mk
          BY <1>8, Places DEF IsPutBack, SerialInv, TypeOK, ProcKinds
        <4>2. At(p, "putting") /\ deps' = Base(proc[p].mk) /\ UNCHANGED <<head, running, boot>>
          BY <1>8, AfterUndo DEF IsPutBack, DiskTrue, Step
        <4>. QED BY <3>1, <4>1, <4>2, AfterUndo, NextUndo DEF LiveStep, Now, Content
      <3>2. CASE q # p
        <4>1. proc'[q] = proc[q] /\ proc[q].pc \in {"idle"}
          BY <1>8, <3>2, Solo DEF SerialInv, TypeOK, Slots, IsPutBack, AfterDeps
        <4>. QED BY <4>1 DEF LiveStep
      <3>. QED BY <3>1, <3>2
    <2>. QED BY <2>1, <2>2, <2>3 DEF LiveTrue
  <1>9. CASE PutBackLost(p)
    <2>1. (Resting /\ boot = "up" => running = Now)'
      BY SMTT(30), <1>9, Places, Kinds DEF SerialInv, TypeOK, Slots, LiveTrue, Now, Content,
           Base, Resting, Mover, LiveStep, InPlace, PutBackLost, AfterLoss, AfterDeps
    <2>2. (marker # NoMarker =>
           IF marker.restarted THEN marker.merge \in landed
           ELSE boot = "up" => running = [tree |-> Base(marker), deps |-> Base(marker)])'
      BY SMTT(30), <1>9, Places, Kinds DEF SerialInv, TypeOK, Slots, LiveTrue, Now, Content,
           Base, LiveStep, InPlace, PutBackLost, AfterLoss, AfterDeps
    <2>3. ASSUME NEW q \in Slots PROVE LiveStep(q)'
      <3>1. CASE q = p
        <4>1. proc'[p].pc \in {"alarm", "rebuild", "again", "confirm"} /\ proc'[p].mk = proc[p].mk
          <5>1. AfterLoss(p) \in {"alarm", "rebuild", "again", "confirm"}
            BY DEF AfterLoss, AfterDeps
          <5>. QED BY <1>9, <5>1, Places DEF PutBackLost, SerialInv, TypeOK, ProcKinds
        <4>2. proc'[p].pc = "again" => proc[p].mk.restarted
          BY <1>9, Places DEF PutBackLost, AfterLoss, AfterDeps, SerialInv, TypeOK, ProcKinds
        <4>3. deps' = Broken
          BY <1>9 DEF PutBackLost, DiskTrue, Step
        <4>. QED BY <3>1, <4>1, <4>2, <4>3 DEF LiveStep
      <3>2. CASE q # p
        <4>1. proc'[q] = proc[q] /\ proc[q].pc \in {"idle"}
          BY <1>9, <3>2, Solo DEF SerialInv, TypeOK, Slots, PutBackLost, AfterLoss, AfterDeps
        <4>. QED BY <4>1 DEF LiveStep
      <3>. QED BY <3>1, <3>2
    <2>. QED BY <2>1, <2>2, <2>3 DEF LiveTrue
  <1>10. CASE Rebuilds(p)
    <2>1. (Resting /\ boot = "up" => running = Now)'
      BY SMTT(30), <1>10, Places, Kinds DEF SerialInv, TypeOK, Slots, LiveTrue, Now,
           Content, Base, Resting, Mover, LiveStep, InPlace, Rebuilds, AfterDeps
    <2>2. (marker # NoMarker =>
           IF marker.restarted THEN marker.merge \in landed
           ELSE boot = "up" => running = [tree |-> Base(marker), deps |-> Base(marker)])'
      BY <1>10, Places, Kinds DEF SerialInv, TypeOK, Slots, LiveTrue, Now, Content, Base,
           LiveStep, InPlace, Rebuilds, AfterDeps
    <2>3. ASSUME NEW q \in Slots PROVE LiveStep(q)'
      <3>1. CASE q = p
        <4>1. proc'[p].pc = AfterDeps(p) /\ proc'[p].mk = proc[p].mk
          BY <1>10, Places DEF Rebuilds, SerialInv, TypeOK, ProcKinds
        <4>2. At(p, "rebuild") /\ deps' = Base(proc[p].mk) /\ UNCHANGED <<head, running, boot>>
          BY <1>10, AfterUndo DEF Rebuilds
        <4>. QED BY <3>1, <4>1, <4>2, AfterUndo, NextUndo DEF LiveStep, Now, Content
      <3>2. CASE q # p
        <4>1. proc'[q] = proc[q] /\ proc[q].pc \in {"idle"}
          BY <1>10, <3>2, Solo DEF SerialInv, TypeOK, Slots, Rebuilds, AfterDeps, Content
        <4>. QED BY <4>1 DEF LiveStep
      <3>. QED BY <3>1, <3>2
    <2>. QED BY <2>1, <2>2, <2>3 DEF LiveTrue
  <1>11. CASE RestartsAgain(p)
    <2>1. (Resting /\ boot = "up" => running = Now)'
      BY SMTT(30), <1>11, Places, Kinds DEF SerialInv, TypeOK, Slots, LiveTrue, Now,
           Content, Base, Resting, Mover, LiveStep, InPlace, RestartsAgain
    <2>2. (marker # NoMarker =>
           IF marker.restarted THEN marker.merge \in landed
           ELSE boot = "up" => running = [tree |-> Base(marker), deps |-> Base(marker)])'
      BY <1>11, Places, Kinds DEF SerialInv, TypeOK, Slots, LiveTrue, Now, Content, Base,
           LiveStep, InPlace, RestartsAgain
    <2>3. ASSUME NEW q \in Slots PROVE LiveStep(q)'
      <3>1. CASE q = p
        BY <1>11, <3>1, Places DEF LiveTrue, SerialInv, TypeOK, Slots, ProcKinds, InPlace, Holds,
             LiveStep, Now, Content, RestartsAgain
      <3>2. CASE q # p
        <4>1. proc'[q] = proc[q] /\ proc[q].pc \in {"idle"}
          BY <1>11, <3>2, Solo DEF SerialInv, TypeOK, Slots, RestartsAgain, Now, Content
        <4>. QED BY <4>1 DEF LiveStep
      <3>. QED BY <3>1, <3>2
    <2>. QED BY <2>1, <2>2, <2>3 DEF LiveTrue
  <1>12. CASE Confirms(p)
    <2>1. (Resting /\ boot = "up" => running = Now)'
      BY SMTT(30), <1>12, Places, Kinds DEF SerialInv, TypeOK, Slots, LiveTrue, Now,
           Content, Base, Resting, Mover, LiveStep, InPlace, Confirms, Healthy
    <2>2. (marker # NoMarker =>
           IF marker.restarted THEN marker.merge \in landed
           ELSE boot = "up" => running = [tree |-> Base(marker), deps |-> Base(marker)])'
      BY <1>12, Places, Kinds DEF SerialInv, TypeOK, Slots, LiveTrue, Now, Content, Base,
           LiveStep, InPlace, Confirms, Healthy
    <2>3. ASSUME NEW q \in Slots PROVE LiveStep(q)'
      <3>1. CASE q = p
        BY SMTT(30), <1>12, <3>1, Places DEF LiveTrue, SerialInv, TypeOK, Slots, ProcKinds,
             InPlace, Holds, LiveStep, Now, Content, Confirms, Healthy
      <3>2. CASE q # p
        <4>1. proc'[q] = proc[q] /\ proc[q].pc \in {"idle"}
          BY <1>12, <3>2, Solo DEF SerialInv, TypeOK, Slots, Confirms, Healthy
        <4>. QED BY <4>1 DEF LiveStep
      <3>. QED BY <3>1, <3>2
    <2>. QED BY <2>1, <2>2, <2>3 DEF LiveTrue
  <1>13. CASE NotRecovered(p)
    <2>1. (Resting /\ boot = "up" => running = Now)'
      BY SMTT(30), <1>13, Places, Kinds DEF SerialInv, TypeOK, Slots, LiveTrue, Now,
           Content, Base, Resting, Mover, LiveStep, InPlace, NotRecovered
    <2>2. (marker # NoMarker =>
           IF marker.restarted THEN marker.merge \in landed
           ELSE boot = "up" => running = [tree |-> Base(marker), deps |-> Base(marker)])'
      BY <1>13, Places, Kinds DEF SerialInv, TypeOK, Slots, LiveTrue, Now, Content, Base,
           LiveStep, InPlace, NotRecovered
    <2>3. ASSUME NEW q \in Slots PROVE LiveStep(q)'
      <3>1. CASE q = p
        BY <1>13, <3>1, Places DEF LiveTrue, SerialInv, TypeOK, Slots, ProcKinds, InPlace, Holds,
             LiveStep, Now, Content, NotRecovered
      <3>2. CASE q # p
        <4>1. proc'[q] = proc[q] /\ proc[q].pc \in {"idle"}
          BY <1>13, <3>2, Solo DEF SerialInv, TypeOK, Slots, NotRecovered
        <4>. QED BY <4>1 DEF LiveStep
      <3>. QED BY <3>1, <3>2
    <2>. QED BY <2>1, <2>2, <2>3 DEF LiveTrue
  <1>14. CASE Clears(p)
    <2>1. (Resting /\ boot = "up" => running = Now)'
      BY SMTT(30), <1>14, Places, Kinds DEF SerialInv, TypeOK, Slots, LiveTrue, Now,
           Content, Base, Resting, Mover, LiveStep, InPlace, Clears, Cleared
    <2>2. (marker # NoMarker =>
           IF marker.restarted THEN marker.merge \in landed
           ELSE boot = "up" => running = [tree |-> Base(marker), deps |-> Base(marker)])'
      BY <1>14, Places, Kinds DEF SerialInv, TypeOK, Slots, LiveTrue, Now, Content, Base,
           LiveStep, InPlace, Clears, Cleared
    <2>3. ASSUME NEW q \in Slots PROVE LiveStep(q)'
      <3>1. CASE q = p
        BY SMTT(30), <1>14, <3>1, Places DEF LiveTrue, SerialInv, TypeOK, Slots, ProcKinds,
             InPlace, Holds, LiveStep, Now, Content, Clears, Cleared
      <3>2. CASE q # p
        <4>1. proc'[q] = proc[q] /\ proc[q].pc \in {"idle"}
          BY <1>14, <3>2, Solo DEF SerialInv, TypeOK, Slots, Clears, Cleared
        <4>. QED BY <4>1 DEF LiveStep
      <3>. QED BY <3>1, <3>2
    <2>. QED BY <2>1, <2>2, <2>3 DEF LiveTrue
  <1>15. CASE Tidies(p)
    <2>1. (Resting /\ boot = "up" => running = Now)'
      BY SMTT(30), <1>15, Places, Kinds DEF SerialInv, TypeOK, Slots, LiveTrue, Now,
           Content, Base, Resting, Mover, LiveStep, InPlace, Tidies
    <2>2. (marker # NoMarker =>
           IF marker.restarted THEN marker.merge \in landed
           ELSE boot = "up" => running = [tree |-> Base(marker), deps |-> Base(marker)])'
      BY <1>15, Places, Kinds DEF SerialInv, TypeOK, Slots, LiveTrue, Now, Content, Base,
           LiveStep, InPlace, Tidies
    <2>3. ASSUME NEW q \in Slots PROVE LiveStep(q)'
      <3>1. CASE q = p
        BY <1>15, <3>1, Places DEF LiveTrue, SerialInv, TypeOK, Slots, ProcKinds, InPlace, Holds,
             LiveStep, Now, Content, Tidies
      <3>2. CASE q # p
        <4>1. proc'[q] = proc[q] /\ proc[q].pc \in {"idle"}
          BY <1>15, <3>2, Solo DEF SerialInv, TypeOK, Slots, Tidies
        <4>. QED BY <4>1 DEF LiveStep
      <3>. QED BY <3>1, <3>2
    <2>. QED BY <2>1, <2>2, <2>3 DEF LiveTrue
  <1>16. CASE GivesUp(p)
    <2>1. (Resting /\ boot = "up" => running = Now)'
      BY SMTT(30), <1>16, Places, Kinds DEF SerialInv, TypeOK, Slots, LiveTrue, Now,
           Content, Base, Resting, Mover, LiveStep, InPlace, GivesUp, Cleared
    <2>2. (marker # NoMarker =>
           IF marker.restarted THEN marker.merge \in landed
           ELSE boot = "up" => running = [tree |-> Base(marker), deps |-> Base(marker)])'
      BY <1>16, Places, Kinds DEF SerialInv, TypeOK, Slots, LiveTrue, Now, Content, Base,
           LiveStep, InPlace, GivesUp, Cleared
    <2>3. ASSUME NEW q \in Slots PROVE LiveStep(q)'
      <3>1. CASE q = p
        BY SMTT(30), <1>16, <3>1, Places DEF LiveTrue, SerialInv, TypeOK, Slots, ProcKinds,
             InPlace, Holds, LiveStep, Now, Content, GivesUp, Cleared
      <3>2. CASE q # p
        <4>1. proc'[q] = proc[q] /\ proc[q].pc \in {"idle"}
          BY <1>16, <3>2, Solo DEF SerialInv, TypeOK, Slots, GivesUp, Cleared
        <4>. QED BY <4>1 DEF LiveStep
      <3>. QED BY <3>1, <3>2
    <2>. QED BY <2>1, <2>2, <2>3 DEF LiveTrue
  <1>17. CASE Alarms(p)
    <2>1. (Resting /\ boot = "up" => running = Now)'
      BY SMTT(30), <1>17, Places, Kinds DEF SerialInv, TypeOK, Slots, LiveTrue, Now,
           Content, Base, Resting, Mover, LiveStep, InPlace, Alarms
    <2>2. (marker # NoMarker =>
           IF marker.restarted THEN marker.merge \in landed
           ELSE boot = "up" => running = [tree |-> Base(marker), deps |-> Base(marker)])'
      BY <1>17, Places, Kinds DEF SerialInv, TypeOK, Slots, LiveTrue, Now, Content, Base,
           LiveStep, InPlace, Alarms
    <2>3. ASSUME NEW q \in Slots PROVE LiveStep(q)'
      <3>1. CASE q = p
        BY <1>17, <3>1, Places DEF LiveTrue, SerialInv, TypeOK, Slots, ProcKinds, InPlace, Holds,
             LiveStep, Now, Content, Alarms
      <3>2. CASE q # p
        <4>1. proc'[q] = proc[q] /\ proc[q].pc \in {"idle"}
          BY <1>17, <3>2, Solo DEF SerialInv, TypeOK, Slots, Alarms
        <4>. QED BY <4>1 DEF LiveStep
      <3>. QED BY <3>1, <3>2
    <2>. QED BY <2>1, <2>2, <2>3 DEF LiveTrue
  <1>. QED BY <1>1, <1>2, <1>3, <1>4, <1>5, <1>6, <1>7, <1>8, <1>9, <1>10, <1>11, <1>12, <1>13, <1>14,
       <1>15, <1>16, <1>17 DEF UndoNext

\* The notice's rollback and confirmation keep the services on the version of the disk.
LEMMA LiveRollback ==
  ASSUME Serial, ~Race("alarm"), ~Race("bootFails"), SerialInv, SerialInv', DiskTrue,
         BootInv, LiveTrue, ~told',
         RollbackStarts \/ RollbackNext \/ ConfirmLast
  PROVE  LiveTrue'
  <1>1. CASE RollbackStarts
    <2>1. (Resting /\ boot = "up" => running = Now)'
      BY SMTT(30), <1>1, Places, Kinds DEF SerialInv, TypeOK, Slots, LiveTrue, Now, Content,
           Base, Resting, Mover, LiveStep, InPlace, RollbackStarts
    <2>2. (marker # NoMarker =>
           IF marker.restarted THEN marker.merge \in landed
           ELSE boot = "up" => running = [tree |-> Base(marker), deps |-> Base(marker)])'
      BY <1>1, Places, Kinds DEF SerialInv, TypeOK, Slots, LiveTrue, Now, Content, Base,
           LiveStep, InPlace, RollbackStarts
    <2>3. ASSUME NEW q \in Slots PROVE LiveStep(q)'
      <3>1. CASE q = Shell
        <4>1. Resting
          <5>1. marker = NoMarker
            BY <1>1, Kinds DEF RollbackStarts, SerialInv, MarkerInv
          <5>2. \A p \in Slots : ~Mover(p)
            BY <1>1, <5>1, Kinds, Places DEF RollbackStarts, Mover, SerialInv, InPlace, Trails, RollsBack
          <5>. QED BY <1>1, <5>1, <5>2 DEF RollbackStarts, Resting
        <4>2. running = Now /\ UNCHANGED <<running, head, deps>>
          BY <1>1, <4>1 DEF RollbackStarts, LiveTrue
        <4>3. proc'[Shell].pc = "revert"
          BY <1>1 DEF RollbackStarts, SerialInv, TypeOK, Slots, Idle
        <4>. QED BY <3>1, <4>2, <4>3 DEF LiveStep, Now, Content
      <3>2. CASE q # Shell
        <4>1. proc'[q] = proc[q] /\ proc[q].pc \in {"idle", "claim"}
          BY <1>1, <3>2, Solo, Places, Kinds DEF SerialInv, TypeOK, Slots, RollbackStarts,
               Mover, InPlace, Trails, RollsBack, MarkerInv
        <4>. QED BY <1>1, <4>1 DEF LiveTrue, LiveStep, Now, Content, RollbackStarts
      <3>. QED BY <3>1, <3>2
    <2>. QED BY <2>1, <2>2, <2>3 DEF LiveTrue
  <1>2. CASE Reverts
    <2>1. (Resting /\ boot = "up" => running = Now)'
      BY SMTT(30), <1>2, Places, Kinds DEF SerialInv, TypeOK, Slots, LiveTrue, Now, Content,
           Base, Resting, Mover, LiveStep, InPlace, Reverts, WithoutUpdate
    <2>2. (marker # NoMarker =>
           IF marker.restarted THEN marker.merge \in landed
           ELSE boot = "up" => running = [tree |-> Base(marker), deps |-> Base(marker)])'
      BY <1>2, Places, Kinds DEF SerialInv, TypeOK, Slots, LiveTrue, Now, Content, Base,
           LiveStep, InPlace, Reverts, WithoutUpdate
    <2>3. ASSUME NEW q \in Slots PROVE LiveStep(q)'
      <3>1. CASE q = Shell
        BY SMTT(30), <1>2, <3>1, Places DEF LiveTrue, SerialInv, TypeOK, Slots, ProcKinds,
             InPlace, Holds, LiveStep, Now, Content, Reverts, WithoutUpdate
      <3>2. CASE q # Shell
        <4>1. proc'[q] = proc[q] /\ proc[q].pc \in {"idle"}
          BY <1>2, <3>2, Solo, Places DEF SerialInv, TypeOK, Slots, Reverts, WithoutUpdate,
               Serial, Unclaimed, Mover
        <4>. QED BY <4>1 DEF LiveStep
      <3>. QED BY <3>1, <3>2
    <2>. QED BY <2>1, <2>2, <2>3 DEF LiveTrue
  <1>3. CASE RevertRefused
    <2>1. (Resting /\ boot = "up" => running = Now)'
      BY SMTT(30), <1>3, Places, Kinds DEF SerialInv, TypeOK, Slots, LiveTrue, Now, Content,
           Base, Resting, Mover, LiveStep, InPlace, RevertRefused, Settled
    <2>2. (marker # NoMarker =>
           IF marker.restarted THEN marker.merge \in landed
           ELSE boot = "up" => running = [tree |-> Base(marker), deps |-> Base(marker)])'
      BY <1>3, Places, Kinds DEF SerialInv, TypeOK, Slots, LiveTrue, Now, Content, Base,
           LiveStep, InPlace, RevertRefused, Settled
    <2>3. ASSUME NEW q \in Slots PROVE LiveStep(q)'
      <3>1. CASE q = Shell
        BY SMTT(30), <1>3, <3>1, Places DEF LiveTrue, SerialInv, TypeOK, Slots, ProcKinds,
             InPlace, Holds, LiveStep, Now, Content, RevertRefused, Settled
      <3>2. CASE q # Shell
        <4>1. proc'[q] = proc[q] /\ proc[q].pc \in {"idle", "claim"}
          BY <1>3, <3>2, Solo, Places DEF SerialInv, TypeOK, Slots, RevertRefused, Settled,
               Mover, InPlace, Trails, RollsBack, MarkerInv
        <4>. QED BY <1>3, <4>1 DEF LiveTrue, LiveStep, Now, Content, RevertRefused
      <3>. QED BY <3>1, <3>2
    <2>. QED BY <2>1, <2>2, <2>3 DEF LiveTrue
  <1>4. CASE RevertCommits
    <2>1. (Resting /\ boot = "up" => running = Now)'
      BY SMTT(30), <1>4, Places, Kinds DEF SerialInv, TypeOK, Slots, LiveTrue, Now, Content,
           Base, Resting, Mover, LiveStep, InPlace, RevertCommits, CommitStaged
    <2>2. (marker # NoMarker =>
           IF marker.restarted THEN marker.merge \in landed
           ELSE boot = "up" => running = [tree |-> Base(marker), deps |-> Base(marker)])'
      BY <1>4, Places, Kinds DEF SerialInv, TypeOK, Slots, LiveTrue, Now, Content, Base,
           LiveStep, InPlace, RevertCommits, CommitStaged
    <2>3. ASSUME NEW q \in Slots PROVE LiveStep(q)'
      <3>1. CASE q = Shell
        BY SMTT(30), <1>4, <3>1, Places DEF LiveTrue, SerialInv, TypeOK, Slots, ProcKinds,
             InPlace, Holds, LiveStep, Now, Content, RevertCommits, CommitStaged
      <3>2. CASE q # Shell
        <4>1. proc'[q] = proc[q] /\ proc[q].pc \in {"idle"}
          BY <1>4, <3>2, Solo, Places DEF SerialInv, TypeOK, Slots, RevertCommits, CommitStaged,
               Serial, Unclaimed, Mover
        <4>. QED BY <4>1 DEF LiveStep
      <3>. QED BY <3>1, <3>2
    <2>. QED BY <2>1, <2>2, <2>3 DEF LiveTrue
  <1>5. CASE PointPutBack
    <2>1. (Resting /\ boot = "up" => running = Now)'
      <3>1. PICK pc \in {"puttingback", "programs"} : Goes(Shell, pc)
        BY <1>5 DEF PointPutBack
      <3>2. proc'[Shell].pc = pc
        BY <3>1 DEF SerialInv, TypeOK, Slots, ProcKinds
      <3>. QED BY <3>2 DEF Resting, Mover, Slots
    <2>2. (marker # NoMarker =>
           IF marker.restarted THEN marker.merge \in landed
           ELSE boot = "up" => running = [tree |-> Base(marker), deps |-> Base(marker)])'
      BY <1>5, Places, Kinds DEF SerialInv, TypeOK, Slots, LiveTrue, Now, Content, Base,
           LiveStep, InPlace, PointPutBack
    <2>3. ASSUME NEW q \in Slots PROVE LiveStep(q)'
      <3>1. CASE q = Shell
        BY <1>5, <3>1, Places DEF LiveTrue, SerialInv, TypeOK, Slots, ProcKinds, InPlace, Holds,
             LiveStep, Now, Content, PointPutBack
      <3>2. CASE q # Shell
        <4>1. proc'[q] = proc[q] /\ proc[q].pc \in {"idle", "claim"}
          BY <1>5, <3>2, Solo, Places DEF SerialInv, TypeOK, Slots, PointPutBack, Mover,
               InPlace, Trails, RollsBack, MarkerInv
        <4>. QED BY <1>5, <4>1 DEF LiveTrue, LiveStep, Now, Content, PointPutBack
      <3>. QED BY <3>1, <3>2
    <2>. QED BY <2>1, <2>2, <2>3 DEF LiveTrue
  <1>6. CASE PointIsBack
    <2>1. (Resting /\ boot = "up" => running = Now)'
      BY SMTT(30), <1>6, Places, Kinds DEF SerialInv, TypeOK, Slots, LiveTrue, Now, Content,
           Base, Resting, Mover, LiveStep, InPlace, PointIsBack
    <2>2. (marker # NoMarker =>
           IF marker.restarted THEN marker.merge \in landed
           ELSE boot = "up" => running = [tree |-> Base(marker), deps |-> Base(marker)])'
      BY <1>6, Places, Kinds DEF SerialInv, TypeOK, Slots, LiveTrue, Now, Content, Base,
           LiveStep, InPlace, PointIsBack
    <2>3. ASSUME NEW q \in Slots PROVE LiveStep(q)'
      <3>1. CASE q = Shell
        BY <1>6, <3>1, Places DEF LiveTrue, SerialInv, TypeOK, Slots, ProcKinds, InPlace, Holds,
             LiveStep, Now, Content, PointIsBack
      <3>2. CASE q # Shell
        <4>1. proc'[q] = proc[q] /\ proc[q].pc \in {"idle", "claim"}
          BY <1>6, <3>2, Solo, Places DEF SerialInv, TypeOK, Slots, PointIsBack, Mover, InPlace,
               Trails, RollsBack, MarkerInv
        <4>. QED BY <1>6, <4>1 DEF LiveTrue, LiveStep, Now, Content, PointIsBack
      <3>. QED BY <3>1, <3>2
    <2>. QED BY <2>1, <2>2, <2>3 DEF LiveTrue
  <1>7. CASE RollbackRestarts
    <2>1. (Resting /\ boot = "up" => running = Now)'
      BY SMTT(30), <1>7, Places, Kinds DEF SerialInv, TypeOK, Slots, LiveTrue, Now, Content,
           Base, Resting, Mover, LiveStep, InPlace, RollbackRestarts
    <2>2. (marker # NoMarker =>
           IF marker.restarted THEN marker.merge \in landed
           ELSE boot = "up" => running = [tree |-> Base(marker), deps |-> Base(marker)])'
      BY <1>7, Places, Kinds DEF SerialInv, TypeOK, Slots, LiveTrue, Now, Content, Base,
           LiveStep, InPlace, RollbackRestarts
    <2>3. ASSUME NEW q \in Slots PROVE LiveStep(q)'
      <3>1. CASE q = Shell
        BY <1>7, <3>1, Places DEF LiveTrue, SerialInv, TypeOK, Slots, ProcKinds, InPlace, Holds,
             LiveStep, Now, Content, RollbackRestarts
      <3>2. CASE q # Shell
        <4>1. proc'[q] = proc[q] /\ proc[q].pc \in {"idle", "claim"}
          BY <1>7, <3>2, Solo, Places DEF SerialInv, TypeOK, Slots, RollbackRestarts, Now,
               Content, Mover, InPlace, Trails, RollsBack, MarkerInv
        <4>. QED BY <1>7, <4>1 DEF LiveTrue, LiveStep, Now, Content, RollbackRestarts
      <3>. QED BY <3>1, <3>2
    <2>. QED BY <2>1, <2>2, <2>3 DEF LiveTrue
  <1>8. CASE RollbackNeedsRestart
    <2>1. (Resting /\ boot = "up" => running = Now)'
      BY SMTT(30), <1>8, Places, Kinds DEF SerialInv, TypeOK, Slots, LiveTrue, Now, Content,
           Base, Resting, Mover, LiveStep, InPlace, RollbackNeedsRestart, Settled
    <2>2. (marker # NoMarker =>
           IF marker.restarted THEN marker.merge \in landed
           ELSE boot = "up" => running = [tree |-> Base(marker), deps |-> Base(marker)])'
      BY <1>8, Places, Kinds DEF SerialInv, TypeOK, Slots, LiveTrue, Now, Content, Base,
           LiveStep, InPlace, RollbackNeedsRestart, Settled
    <2>3. ASSUME NEW q \in Slots PROVE LiveStep(q)'
      <3>1. CASE q = Shell
        BY SMTT(30), <1>8, <3>1, Places DEF LiveTrue, SerialInv, TypeOK, Slots, ProcKinds,
             InPlace, Holds, LiveStep, Now, Content, RollbackNeedsRestart, Settled
      <3>2. CASE q # Shell
        <4>1. proc'[q] = proc[q] /\ proc[q].pc \in {"idle", "claim"}
          BY <1>8, <3>2, Solo, Places DEF SerialInv, TypeOK, Slots, RollbackNeedsRestart,
               Settled, Mover, InPlace, Trails, RollsBack, MarkerInv
        <4>. QED BY <1>8, <4>1 DEF LiveTrue, LiveStep, Now, Content, RollbackNeedsRestart
      <3>. QED BY <3>1, <3>2
    <2>. QED BY <2>1, <2>2, <2>3 DEF LiveTrue
  <1>9. CASE RollbackDone
    <2>1. (Resting /\ boot = "up" => running = Now)'
      BY SMTT(30), <1>9, Places, Kinds DEF SerialInv, TypeOK, Slots, LiveTrue, Now, Content,
           Base, Resting, Mover, LiveStep, InPlace, RollbackDone, Settled
    <2>2. (marker # NoMarker =>
           IF marker.restarted THEN marker.merge \in landed
           ELSE boot = "up" => running = [tree |-> Base(marker), deps |-> Base(marker)])'
      BY <1>9, Places, Kinds DEF SerialInv, TypeOK, Slots, LiveTrue, Now, Content, Base,
           LiveStep, InPlace, RollbackDone, Settled
    <2>3. ASSUME NEW q \in Slots PROVE LiveStep(q)'
      <3>1. CASE q = Shell
        BY SMTT(30), <1>9, <3>1, Places DEF LiveTrue, SerialInv, TypeOK, Slots, ProcKinds,
             InPlace, Holds, LiveStep, Now, Content, RollbackDone, Settled
      <3>2. CASE q # Shell
        <4>1. proc'[q] = proc[q] /\ proc[q].pc \in {"idle", "claim"}
          BY <1>9, <3>2, Solo, Places DEF SerialInv, TypeOK, Slots, RollbackDone, Settled,
               Mover, InPlace, Trails, RollsBack, MarkerInv
        <4>. QED BY <1>9, <4>1 DEF LiveTrue, LiveStep, Now, Content, RollbackDone
      <3>. QED BY <3>1, <3>2
    <2>. QED BY <2>1, <2>2, <2>3 DEF LiveTrue
  <1>10. CASE RollbackFails
    <2>1. (Resting /\ boot = "up" => running = Now)'
      BY SMTT(30), <1>10, Places, Kinds DEF SerialInv, TypeOK, Slots, LiveTrue, Now,
           Content, Base, Resting, Mover, LiveStep, InPlace, RollbackFails, Settled
    <2>2. (marker # NoMarker =>
           IF marker.restarted THEN marker.merge \in landed
           ELSE boot = "up" => running = [tree |-> Base(marker), deps |-> Base(marker)])'
      BY <1>10, Places, Kinds DEF SerialInv, TypeOK, Slots, LiveTrue, Now, Content, Base,
           LiveStep, InPlace, RollbackFails, Settled
    <2>3. ASSUME NEW q \in Slots PROVE LiveStep(q)'
      <3>1. CASE q = Shell
        BY SMTT(30), <1>10, <3>1, Places DEF LiveTrue, SerialInv, TypeOK, Slots, ProcKinds,
             InPlace, Holds, LiveStep, Now, Content, RollbackFails, Settled
      <3>2. CASE q # Shell
        <4>1. proc'[q] = proc[q] /\ proc[q].pc \in {"idle", "claim"}
          BY <1>10, <3>2, Solo, Places DEF SerialInv, TypeOK, Slots, RollbackFails, Settled,
               Mover, InPlace, Trails, RollsBack, MarkerInv
        <4>. QED BY <1>10, <4>1 DEF LiveTrue, LiveStep, Now, Content, RollbackFails
      <3>. QED BY <3>1, <3>2
    <2>. QED BY <2>1, <2>2, <2>3 DEF LiveTrue
  <1>11. CASE ConfirmLast
    <2>1. (Resting /\ boot = "up" => running = Now)'
      BY ZenonT(40), <1>11, Places, Kinds DEF SerialInv, TypeOK, Slots, LiveTrue, Now,
           Content, Base, Resting, Mover, LiveStep, InPlace, ConfirmLast, Locked
    <2>2. (marker # NoMarker =>
           IF marker.restarted THEN marker.merge \in landed
           ELSE boot = "up" => running = [tree |-> Base(marker), deps |-> Base(marker)])'
      BY <1>11, Places, Kinds DEF SerialInv, TypeOK, Slots, LiveTrue, Now, Content, Base,
           LiveStep, InPlace, ConfirmLast, Locked
    <2>3. ASSUME NEW q \in Slots PROVE LiveStep(q)'
      BY <1>11 DEF ConfirmLast, LiveTrue, LiveStep, Now, Content
    <2>. QED BY <2>1, <2>2, <2>3 DEF LiveTrue
  <1>. QED BY <1>1, <1>2, <1>3, <1>4, <1>5, <1>6, <1>7, <1>8, <1>9, <1>10, <1>11 DEF RollbackNext

\* Kills, restarts and others' work keep the services on the version of the disk.
LEMMA LiveOther ==
  ASSUME Serial, ~Race("alarm"), ~Race("bootFails"), SerialInv, SerialInv', DiskTrue,
         BootInv, LiveTrue, ~told',
         \/ \E m \in Merges : Dispatch(m)
         \/ \E p \in Slots : Kill(p)
         \/ Restart \/ ServicesStart
         \/ \E w \in Work : Works(w)
         \/ UNCHANGED vars
  PROVE  LiveTrue'
  <1>1. ASSUME NEW m \in Merges, Dispatch(m) PROVE LiveTrue'
    <2>1. (Resting /\ boot = "up" => running = Now)'
      BY SMTT(30), <1>1, Places, Kinds DEF SerialInv, TypeOK, Slots, LiveTrue, Now, Content,
           Base, Resting, Mover, LiveStep, InPlace, Dispatch
    <2>2. (marker # NoMarker =>
           IF marker.restarted THEN marker.merge \in landed
           ELSE boot = "up" => running = [tree |-> Base(marker), deps |-> Base(marker)])'
      BY <1>1, Places, Kinds DEF SerialInv, TypeOK, Slots, LiveTrue, Now, Content, Base,
           LiveStep, InPlace, Dispatch
    <2>3. ASSUME NEW q \in Slots PROVE LiveStep(q)'
      BY <1>1 DEF Dispatch, LiveTrue, LiveStep, Now, Content
    <2>. QED BY <2>1, <2>2, <2>3 DEF LiveTrue
  <1>2. ASSUME NEW p \in Slots, Kill(p) PROVE LiveTrue'
    <2>1. (Resting /\ boot = "up" => running = Now)'
      <3>. SUFFICES ASSUME Resting', boot' = "up" PROVE running = Now
        BY <1>2 DEF Kill, Now, Content
      <3>1. marker = NoMarker /\ point.state # "reverting" /\ boot = "up"
        BY <1>2, OrphanedKind DEF Kill, Resting, SerialInv
      <3>2. CASE \A q \in Slots : ~Mover(q)
        BY <3>1, <3>2 DEF LiveTrue, Resting
      <3>3. CASE \E q \in Slots : Mover(q)
        <4>1. PICK q \in Slots : Mover(q)
          BY <3>3
        <4>2. At(q, "tail") \/ At(q, "tidy") \/ At(q, "alarming")
          BY <3>1, <4>1, Places DEF Mover, SerialInv, InPlace, RollsBack
        <4>3. ~At(q, "alarming")
          BY <1>2, <4>1 DEF Kill, Resting, Mover, SerialInv, TypeOK
        <4>. QED BY <3>1, <4>2, <4>3 DEF LiveTrue, LiveStep
      <3>. QED BY <3>2, <3>3
    <2>2. (marker # NoMarker =>
           IF marker.restarted THEN marker.merge \in landed
           ELSE boot = "up" => running = [tree |-> Base(marker), deps |-> Base(marker)])'
      <3>1. boot' = "up" => boot = "up"
        BY <1>2 DEF Kill
      <3>. QED BY <1>2, <3>1, OrphanedKind DEF Kill, SerialInv, LiveTrue, Base
    <2>3. ASSUME NEW q \in Slots PROVE LiveStep(q)'
      <3>1. proc'[q] \in {proc[q], Idle}
        BY <1>2 DEF Kill, SerialInv, TypeOK
      <3>. QED BY <1>2, <3>1 DEF Kill, LiveTrue, Idle, LiveStep, Now, Content
    <2>. QED BY <2>1, <2>2, <2>3 DEF LiveTrue
  <1>3. CASE Restart
    <2>1. (Resting /\ boot = "up" => running = Now)'
      BY <1>3 DEF Restart
    <2>2. (marker # NoMarker =>
           IF marker.restarted THEN marker.merge \in landed
           ELSE boot = "up" => running = [tree |-> Base(marker), deps |-> Base(marker)])'
      <3>. QED BY <1>3, DeadKind DEF Restart, SerialInv, LiveTrue, Base
    <2>3. ASSUME NEW q \in Slots PROVE LiveStep(q)'
      BY <1>3 DEF Restart, LiveStep, Idle
    <2>. QED BY <2>1, <2>2, <2>3 DEF LiveTrue
  <1>4. CASE ServicesStart
    <2>1. (Resting /\ boot = "up" => running = Now)'
      BY SMTT(30), <1>4, Places, Kinds DEF SerialInv, TypeOK, Slots, LiveTrue, Now, Content,
           Base, Resting, Mover, LiveStep, InPlace, ServicesStart
    <2>2. (marker # NoMarker =>
           IF marker.restarted THEN marker.merge \in landed
           ELSE boot = "up" => running = [tree |-> Base(marker), deps |-> Base(marker)])'
      <3>1. marker' = NoMarker
        BY <1>4 DEF ServicesStart, BootInv
      <3>. QED BY <3>1
    <2>3. ASSUME NEW q \in Slots PROVE LiveStep(q)'
      BY <1>4 DEF ServicesStart, LiveTrue, LiveStep, Now, Content
    <2>. QED BY <2>1, <2>2, <2>3 DEF LiveTrue
  <1>5. ASSUME NEW w \in Work, Works(w) PROVE LiveTrue'
    <2>1. (Resting /\ boot = "up" => running = Now)'
      BY SMTT(30), <1>5, Places, Kinds DEF SerialInv, TypeOK, Slots, LiveTrue, Now, Content,
           Base, Resting, Mover, LiveStep, InPlace, Works, Clean
    <2>2. (marker # NoMarker =>
           IF marker.restarted THEN marker.merge \in landed
           ELSE boot = "up" => running = [tree |-> Base(marker), deps |-> Base(marker)])'
      BY <1>5, Places, Kinds DEF SerialInv, TypeOK, Slots, LiveTrue, Now, Content, Base,
           LiveStep, InPlace, Works, Clean
    <2>3. ASSUME NEW q \in Slots PROVE LiveStep(q)'
      BY <1>5 DEF Works, LiveTrue, LiveStep, Now, Content
    <2>. QED BY <2>1, <2>2, <2>3 DEF LiveTrue
  <1>6. CASE UNCHANGED vars
    <2>1. (Resting /\ boot = "up" => running = Now)'
      BY SMTT(30), <1>6, Places, Kinds DEF SerialInv, TypeOK, Slots, LiveTrue, Now, Content,
           Base, Resting, Mover, LiveStep, InPlace, vars
    <2>2. (marker # NoMarker =>
           IF marker.restarted THEN marker.merge \in landed
           ELSE boot = "up" => running = [tree |-> Base(marker), deps |-> Base(marker)])'
      BY <1>6, Places, Kinds DEF SerialInv, TypeOK, Slots, LiveTrue, Now, Content, Base,
           LiveStep, InPlace, vars
    <2>3. ASSUME NEW q \in Slots PROVE LiveStep(q)'
      BY <1>6 DEF vars, LiveTrue, LiveStep, Now, Content
    <2>. QED BY <2>1, <2>2, <2>3 DEF LiveTrue
  <1>. QED BY <1>1, <1>2, <1>3, <1>4, <1>5, <1>6

\* An agent's apply keeps the recovery at boot the one that ends what a restart left.
LEMMA BootApply ==
  ASSUME Serial, ~Race("bootFails"), ~Race("bootPid"), SerialInv, BootInv, NEW a \in Agents,
         \/ \E m \in Merges, keep \in BOOLEAN : ApplyStarts(a, m, keep) \/ ApplyResumes(a, m, keep)
         \/ ApplyNext(a)
  PROVE  BootInv'
  <1>1. ASSUME NEW m \in Merges, NEW keep \in BOOLEAN, ApplyStarts(a, m, keep)
        PROVE  BootInv'
    <2>1. (boot = "recovering" /\ At(Boot, "idle") => marker.pid = Dead)'
      BY <1>1, Places, Kinds DEF SerialInv, TypeOK, Slots, BootInv, InPlace, MarkerInv,
           ApplyStarts, Reads
    <2>2. (boot = "starting" => marker = NoMarker)'
      BY <1>1, Places, Kinds DEF SerialInv, TypeOK, Slots, BootInv, InPlace, ApplyStarts, Reads
    <2>. QED BY <2>1, <2>2 DEF BootInv
  <1>2. ASSUME NEW m \in Merges, NEW keep \in BOOLEAN, ApplyResumes(a, m, keep)
        PROVE  BootInv'
    <2>1. (boot = "recovering" /\ At(Boot, "idle") => marker.pid = Dead)'
      BY <1>2, Places, Kinds DEF SerialInv, TypeOK, Slots, BootInv, InPlace, MarkerInv,
           ApplyResumes, Reads, AbortMerge, Stamped
    <2>2. (boot = "starting" => marker = NoMarker)'
      BY <1>2, Places, Kinds DEF SerialInv, TypeOK, Slots, BootInv, InPlace, ApplyResumes,
           Reads, AbortMerge, Stamped
    <2>. QED BY <2>1, <2>2 DEF BootInv
  <1>3. CASE ApplyDropsPoint(a)
    <2>1. (boot = "recovering" /\ At(Boot, "idle") => marker.pid = Dead)'
      BY <1>3, Places, Kinds DEF SerialInv, TypeOK, Slots, BootInv, InPlace, MarkerInv,
           ApplyDropsPoint, OwnPointNext, Locked
    <2>2. (boot = "starting" => marker = NoMarker)'
      BY <1>3, Places, Kinds DEF SerialInv, TypeOK, Slots, BootInv, InPlace, ApplyDropsPoint,
           OwnPointNext, Locked
    <2>. QED BY <2>1, <2>2 DEF BootInv
  <1>4. CASE ApplyClaims(a)
    <2>1. (boot = "recovering" /\ At(Boot, "idle") => marker.pid = Dead)'
      BY <1>4, Places, Kinds DEF SerialInv, TypeOK, Slots, BootInv, InPlace, MarkerInv,
           ApplyClaims, OwnPointNext, Writes
    <2>2. (boot = "starting" => marker = NoMarker)'
      BY <1>4, Places, Kinds DEF SerialInv, TypeOK, Slots, BootInv, InPlace, ApplyClaims,
           OwnPointNext, Writes
    <2>. QED BY <2>1, <2>2 DEF BootInv
  <1>5. CASE ApplyMerges(a)
    <2>1. (boot = "recovering" /\ At(Boot, "idle") => marker.pid = Dead)'
      BY <1>5, Places, Kinds DEF SerialInv, TypeOK, Slots, BootInv, InPlace, MarkerInv,
           ApplyMerges
    <2>2. (boot = "starting" => marker = NoMarker)'
      BY <1>5, Places, Kinds DEF SerialInv, TypeOK, Slots, BootInv, InPlace, ApplyMerges
    <2>. QED BY <2>1, <2>2 DEF BootInv
  <1>6. CASE ApplyLands(a)
    <2>1. (boot = "recovering" /\ At(Boot, "idle") => marker.pid = Dead)'
      BY <1>6, Places, Kinds DEF SerialInv, TypeOK, Slots, BootInv, InPlace, MarkerInv,
           ApplyLands
    <2>2. (boot = "starting" => marker = NoMarker)'
      BY <1>6, Places, Kinds DEF SerialInv, TypeOK, Slots, BootInv, InPlace, ApplyLands
    <2>. QED BY <2>1, <2>2 DEF BootInv
  <1>7. CASE ApplyRefused(a)
    <2>1. (boot = "recovering" /\ At(Boot, "idle") => marker.pid = Dead)'
      BY <1>7, Places, Kinds DEF SerialInv, TypeOK, Slots, BootInv, InPlace, MarkerInv,
           ApplyRefused, AbortMerge, Cleared
    <2>2. (boot = "starting" => marker = NoMarker)'
      BY <1>7, Places, Kinds DEF SerialInv, TypeOK, Slots, BootInv, InPlace, ApplyRefused,
           AbortMerge, Cleared
    <2>. QED BY <2>1, <2>2 DEF BootInv
  <1>8. CASE ApplyPlans(a)
    <2>1. (boot = "recovering" /\ At(Boot, "idle") => marker.pid = Dead)'
      BY <1>8, Places, Kinds DEF SerialInv, TypeOK, Slots, BootInv, InPlace, MarkerInv,
           ApplyPlans, Changed
    <2>2. (boot = "starting" => marker = NoMarker)'
      BY <1>8, Places, Kinds DEF SerialInv, TypeOK, Slots, BootInv, InPlace, ApplyPlans, Changed
    <2>. QED BY <2>1, <2>2 DEF BootInv
  <1>9. CASE ApplyCopies(a)
    <2>1. (boot = "recovering" /\ At(Boot, "idle") => marker.pid = Dead)'
      BY <1>9, Places, Kinds DEF SerialInv, TypeOK, Slots, BootInv, InPlace, MarkerInv,
           ApplyCopies, Writes, Reusable
    <2>2. (boot = "starting" => marker = NoMarker)'
      BY <1>9, Places, Kinds DEF SerialInv, TypeOK, Slots, BootInv, InPlace, ApplyCopies,
           Writes, Reusable
    <2>. QED BY <2>1, <2>2 DEF BootInv
  <1>10. CASE ApplyRefreshes(a)
    <2>1. (boot = "recovering" /\ At(Boot, "idle") => marker.pid = Dead)'
      BY <1>10, Places, Kinds DEF SerialInv, TypeOK, Slots, BootInv, InPlace, MarkerInv,
           ApplyRefreshes
    <2>2. (boot = "starting" => marker = NoMarker)'
      BY <1>10, Places, Kinds DEF SerialInv, TypeOK, Slots, BootInv, InPlace, ApplyRefreshes
    <2>. QED BY <2>1, <2>2 DEF BootInv
  <1>11. CASE ApplyRefreshed(a)
    <2>1. (boot = "recovering" /\ At(Boot, "idle") => marker.pid = Dead)'
      BY <1>11, Places, Kinds DEF SerialInv, TypeOK, Slots, BootInv, InPlace, MarkerInv,
           ApplyRefreshed, Content
    <2>2. (boot = "starting" => marker = NoMarker)'
      BY <1>11, Places, Kinds DEF SerialInv, TypeOK, Slots, BootInv, InPlace, ApplyRefreshed,
           Content
    <2>. QED BY <2>1, <2>2 DEF BootInv
  <1>12. CASE ApplyPreflights(a)
    <2>1. (boot = "recovering" /\ At(Boot, "idle") => marker.pid = Dead)'
      BY <1>12, Places, Kinds DEF SerialInv, TypeOK, Slots, BootInv, InPlace, MarkerInv,
           ApplyPreflights, Writes, RestartRecorded
    <2>2. (boot = "starting" => marker = NoMarker)'
      BY <1>12, Places, Kinds DEF SerialInv, TypeOK, Slots, BootInv, InPlace, ApplyPreflights,
           Writes, RestartRecorded
    <2>. QED BY <2>1, <2>2 DEF BootInv
  <1>13. CASE ApplyRestarts(a)
    <2>1. (boot = "recovering" /\ At(Boot, "idle") => marker.pid = Dead)'
      BY <1>13, Places, Kinds DEF SerialInv, TypeOK, Slots, BootInv, InPlace, MarkerInv,
           ApplyRestarts, Now, Content
    <2>2. (boot = "starting" => marker = NoMarker)'
      BY <1>13, Places, Kinds DEF SerialInv, TypeOK, Slots, BootInv, InPlace, ApplyRestarts,
           Now, Content
    <2>. QED BY <2>1, <2>2 DEF BootInv
  <1>14. CASE ApplyConfirms(a)
    <2>1. (boot = "recovering" /\ At(Boot, "idle") => marker.pid = Dead)'
      BY <1>14, Places, Kinds DEF SerialInv, TypeOK, Slots, BootInv, InPlace, MarkerInv,
           ApplyConfirms, Cleared, Healthy
    <2>2. (boot = "starting" => marker = NoMarker)'
      BY <1>14, Places, Kinds DEF SerialInv, TypeOK, Slots, BootInv, InPlace, ApplyConfirms,
           Cleared, Healthy
    <2>. QED BY <2>1, <2>2 DEF BootInv
  <1>15. CASE ApplyEnds(a)
    <2>1. (boot = "recovering" /\ At(Boot, "idle") => marker.pid = Dead)'
      BY <1>15, Places, Kinds DEF SerialInv, TypeOK, Slots, BootInv, InPlace, MarkerInv,
           ApplyEnds, PointAt
    <2>2. (boot = "starting" => marker = NoMarker)'
      BY <1>15, Places, Kinds DEF SerialInv, TypeOK, Slots, BootInv, InPlace, ApplyEnds, PointAt
    <2>. QED BY <2>1, <2>2 DEF BootInv
  <1>16. CASE ApplyFails(a)
    <2>1. (boot = "recovering" /\ At(Boot, "idle") => marker.pid = Dead)'
      BY <1>16, Places, Kinds DEF SerialInv, TypeOK, Slots, BootInv, InPlace, MarkerInv,
           ApplyFails, Failing, Healthy
    <2>2. (boot = "starting" => marker = NoMarker)'
      BY <1>16, Places, Kinds DEF SerialInv, TypeOK, Slots, BootInv, InPlace, ApplyFails,
           Failing, Healthy
    <2>. QED BY <2>1, <2>2 DEF BootInv
  <1>. QED BY <1>1, <1>2, <1>3, <1>4, <1>5, <1>6, <1>7, <1>8, <1>9, <1>10, <1>11, <1>12, <1>13, <1>14,
       <1>15, <1>16 DEF ApplyNext

\* A recovery, and the rollback of a failed apply, keep the recovery at boot the one that
\* ends what a restart left.
LEMMA BootUndo ==
  ASSUME Serial, ~Race("bootFails"), ~Race("bootPid"), SerialInv, BootInv, NEW p \in Slots,
         RecoverReads(p) \/ BootReads \/ UndoNext(p)
  PROVE  BootInv'
  <1>1. CASE RecoverReads(p)
    <2>1. (boot = "recovering" /\ At(Boot, "idle") => marker.pid = Dead)'
      BY <1>1, Places, Kinds DEF SerialInv, TypeOK, Slots, BootInv, InPlace, MarkerInv,
           RecoverReads, Reads, Stale, Stamped
    <2>2. (boot = "starting" => marker = NoMarker)'
      BY <1>1, Places, Kinds DEF SerialInv, TypeOK, Slots, BootInv, InPlace, RecoverReads,
           Reads, Stale, Stamped
    <2>. QED BY <2>1, <2>2 DEF BootInv
  <1>2. CASE BootReads
    <2>1. (boot = "recovering" /\ At(Boot, "idle") => marker.pid = Dead)'
      BY <1>2, DeadKind, Places, Kinds DEF SerialInv, TypeOK, Slots, BootInv, InPlace,
           MarkerInv, BootReads, Reads, Stale, Stamped
    <2>2. (boot = "starting" => marker = NoMarker)'
      BY <1>2, DeadKind, Places, Kinds DEF SerialInv, TypeOK, Slots, BootInv, InPlace,
           BootReads, Reads, Stale, Stamped
    <2>. QED BY <2>1, <2>2 DEF BootInv
  <1>3. CASE RecoverClaims(p)
    <2>1. (boot = "recovering" /\ At(Boot, "idle") => marker.pid = Dead)'
      BY <1>3, Places, Kinds DEF SerialInv, TypeOK, Slots, BootInv, InPlace, MarkerInv,
           RecoverClaims, AbortFirst, AbortMerge, Changed
    <2>2. (boot = "starting" => marker = NoMarker)'
      BY <1>3, Places, Kinds DEF SerialInv, TypeOK, Slots, BootInv, InPlace, RecoverClaims,
           AbortFirst, AbortMerge, Changed
    <2>. QED BY <2>1, <2>2 DEF BootInv
  <1>4. CASE Restores(p)
    <2>1. (boot = "recovering" /\ At(Boot, "idle") => marker.pid = Dead)'
      BY <1>4, Places, Kinds DEF SerialInv, TypeOK, Slots, BootInv, InPlace, MarkerInv, Restores
    <2>2. (boot = "starting" => marker = NoMarker)'
      BY <1>4, Places, Kinds DEF SerialInv, TypeOK, Slots, BootInv, InPlace, Restores
    <2>. QED BY <2>1, <2>2 DEF BootInv
  <1>5. CASE Commits(p)
    <2>1. (boot = "recovering" /\ At(Boot, "idle") => marker.pid = Dead)'
      BY <1>5, Places, Kinds DEF SerialInv, TypeOK, Slots, BootInv, InPlace, MarkerInv, Commits,
           CommitStaged
    <2>2. (boot = "starting" => marker = NoMarker)'
      BY <1>5, Places, Kinds DEF SerialInv, TypeOK, Slots, BootInv, InPlace, Commits,
           CommitStaged
    <2>. QED BY <2>1, <2>2 DEF BootInv
  <1>6. CASE GitFails(p)
    <2>1. (boot = "recovering" /\ At(Boot, "idle") => marker.pid = Dead)'
      <3>1. CASE Is(p, "apply") /\ Goes(p, "alarm") /\ boot' = boot /\ marker' = marker
        <4>1. boot = "recovering" => p = Boot
          BY <1>6 DEF GitFails, SerialInv, InPlace
        <4>2. proc'[p].pc = "alarm"
          BY <3>1 DEF SerialInv, TypeOK, ProcKinds
        <4>. QED BY <3>1, <4>1, <4>2
      <3>2. CASE Ends(p)
        BY <1>6, <3>2 DEF GitFails, SerialInv, InPlace
      <3>. QED BY <1>6, <3>1, <3>2 DEF GitFails
    <2>2. (boot = "starting" => marker = NoMarker)'
      BY <1>6, OrphanedKind, Places, Kinds DEF SerialInv, TypeOK, Slots, BootInv, InPlace,
           GitFails, Orphaned
    <2>. QED BY <2>1, <2>2 DEF BootInv
  <1>7. CASE PutsBack(p)
    <2>1. (boot = "recovering" /\ At(Boot, "idle") => marker.pid = Dead)'
      <3>1. PICK pc \in {"putting", "rebuild", "alarm", "clear", "again", "confirm"} : Goes(p, pc)
        BY <1>7 DEF PutsBack, AfterLoss, AfterDeps
      <3>2. proc'[p].pc = pc /\ boot' = boot /\ (boot = "recovering" => p = Boot)
        BY <1>7, <3>1 DEF PutsBack, SerialInv, TypeOK, ProcKinds, InPlace
      <3>. QED BY <3>2
    <2>2. (boot = "starting" => marker = NoMarker)'
      BY <1>7, Places, Kinds DEF SerialInv, TypeOK, Slots, BootInv, InPlace, PutsBack,
           AfterLoss, AfterDeps
    <2>. QED BY <2>1, <2>2 DEF BootInv
  <1>8. CASE IsPutBack(p)
    <2>1. (boot = "recovering" /\ At(Boot, "idle") => marker.pid = Dead)'
      BY <1>8, Places, Kinds DEF SerialInv, TypeOK, Slots, BootInv, InPlace, MarkerInv,
           IsPutBack, AfterDeps
    <2>2. (boot = "starting" => marker = NoMarker)'
      BY <1>8, Places, Kinds DEF SerialInv, TypeOK, Slots, BootInv, InPlace, IsPutBack,
           AfterDeps
    <2>. QED BY <2>1, <2>2 DEF BootInv
  <1>9. CASE PutBackLost(p)
    <2>1. (boot = "recovering" /\ At(Boot, "idle") => marker.pid = Dead)'
      BY <1>9, Places, Kinds DEF SerialInv, TypeOK, Slots, BootInv, InPlace, MarkerInv,
           PutBackLost, AfterLoss, AfterDeps
    <2>2. (boot = "starting" => marker = NoMarker)'
      BY <1>9, Places, Kinds DEF SerialInv, TypeOK, Slots, BootInv, InPlace, PutBackLost,
           AfterLoss, AfterDeps
    <2>. QED BY <2>1, <2>2 DEF BootInv
  <1>10. CASE Rebuilds(p)
    <2>1. (boot = "recovering" /\ At(Boot, "idle") => marker.pid = Dead)'
      BY <1>10, Places, Kinds DEF SerialInv, TypeOK, Slots, BootInv, InPlace, MarkerInv,
           Rebuilds, AfterDeps, Content
    <2>2. (boot = "starting" => marker = NoMarker)'
      BY <1>10, Places, Kinds DEF SerialInv, TypeOK, Slots, BootInv, InPlace, Rebuilds,
           AfterDeps, Content
    <2>. QED BY <2>1, <2>2 DEF BootInv
  <1>11. CASE RestartsAgain(p)
    <2>1. (boot = "recovering" /\ At(Boot, "idle") => marker.pid = Dead)'
      BY <1>11, Places, Kinds DEF SerialInv, TypeOK, Slots, BootInv, InPlace, MarkerInv,
           RestartsAgain, Now, Content
    <2>2. (boot = "starting" => marker = NoMarker)'
      BY <1>11, Places, Kinds DEF SerialInv, TypeOK, Slots, BootInv, InPlace, RestartsAgain,
           Now, Content
    <2>. QED BY <2>1, <2>2 DEF BootInv
  <1>12. CASE Confirms(p)
    <2>1. (boot = "recovering" /\ At(Boot, "idle") => marker.pid = Dead)'
      BY <1>12, Places, Kinds DEF SerialInv, TypeOK, Slots, BootInv, InPlace, MarkerInv,
           Confirms, Healthy
    <2>2. (boot = "starting" => marker = NoMarker)'
      BY <1>12, Places, Kinds DEF SerialInv, TypeOK, Slots, BootInv, InPlace, Confirms, Healthy
    <2>. QED BY <2>1, <2>2 DEF BootInv
  <1>13. CASE NotRecovered(p)
    <2>1. (boot = "recovering" /\ At(Boot, "idle") => marker.pid = Dead)'
      BY <1>13, Places, Kinds DEF SerialInv, TypeOK, Slots, BootInv, InPlace, MarkerInv,
           NotRecovered
    <2>2. (boot = "starting" => marker = NoMarker)'
      BY <1>13, Places, Kinds DEF SerialInv, TypeOK, Slots, BootInv, InPlace, NotRecovered
    <2>. QED BY <2>1, <2>2 DEF BootInv
  <1>14. CASE Clears(p)
    <2>1. (boot = "recovering" /\ At(Boot, "idle") => marker.pid = Dead)'
      BY <1>14, Places, Kinds DEF SerialInv, TypeOK, Slots, BootInv, InPlace, MarkerInv, Clears,
           Cleared
    <2>2. (boot = "starting" => marker = NoMarker)'
      BY <1>14, Places, Kinds DEF SerialInv, TypeOK, Slots, BootInv, InPlace, Clears, Cleared
    <2>. QED BY <2>1, <2>2 DEF BootInv
  <1>15. CASE Tidies(p)
    <2>1. (boot = "recovering" /\ At(Boot, "idle") => marker.pid = Dead)'
      BY <1>15, Places, Kinds DEF SerialInv, TypeOK, Slots, BootInv, InPlace, MarkerInv, Tidies
    <2>2. (boot = "starting" => marker = NoMarker)'
      BY <1>15, Places, Kinds DEF SerialInv, TypeOK, Slots, BootInv, InPlace, Tidies
    <2>. QED BY <2>1, <2>2 DEF BootInv
  <1>16. CASE GivesUp(p)
    <2>1. (boot = "recovering" /\ At(Boot, "idle") => marker.pid = Dead)'
      BY <1>16, Places, Kinds DEF SerialInv, TypeOK, Slots, BootInv, InPlace, MarkerInv,
           GivesUp, Cleared
    <2>2. (boot = "starting" => marker = NoMarker)'
      BY <1>16, Places, Kinds DEF SerialInv, TypeOK, Slots, BootInv, InPlace, GivesUp, Cleared
    <2>. QED BY <2>1, <2>2 DEF BootInv
  <1>17. CASE Alarms(p)
    <2>1. (boot = "recovering" /\ At(Boot, "idle") => marker.pid = Dead)'
      BY <1>17, Places, Kinds DEF SerialInv, TypeOK, Slots, BootInv, InPlace, MarkerInv, Alarms
    <2>2. (boot = "starting" => marker = NoMarker)'
      BY <1>17, Places, Kinds DEF SerialInv, TypeOK, Slots, BootInv, InPlace, Alarms
    <2>. QED BY <2>1, <2>2 DEF BootInv
  <1>. QED BY <1>1, <1>2, <1>3, <1>4, <1>5, <1>6, <1>7, <1>8, <1>9, <1>10, <1>11, <1>12, <1>13, <1>14,
       <1>15, <1>16, <1>17 DEF UndoNext

\* The notice's rollback and confirmation keep the recovery at boot the one that ends what a
\* restart left.
LEMMA BootRollback ==
  ASSUME Serial, ~Race("bootFails"), ~Race("bootPid"), SerialInv, BootInv,
         RollbackStarts \/ RollbackNext \/ ConfirmLast
  PROVE  BootInv'
  <1>1. CASE RollbackStarts
    <2>1. (boot = "recovering" /\ At(Boot, "idle") => marker.pid = Dead)'
      BY <1>1, Places, Kinds DEF SerialInv, TypeOK, Slots, BootInv, InPlace, MarkerInv,
           RollbackStarts
    <2>2. (boot = "starting" => marker = NoMarker)'
      BY <1>1, Places, Kinds DEF SerialInv, TypeOK, Slots, BootInv, InPlace, RollbackStarts
    <2>. QED BY <2>1, <2>2 DEF BootInv
  <1>2. CASE Reverts
    <2>1. (boot = "recovering" /\ At(Boot, "idle") => marker.pid = Dead)'
      BY <1>2, Places, Kinds DEF SerialInv, TypeOK, Slots, BootInv, InPlace, MarkerInv, Reverts,
           WithoutUpdate
    <2>2. (boot = "starting" => marker = NoMarker)'
      BY <1>2, Places, Kinds DEF SerialInv, TypeOK, Slots, BootInv, InPlace, Reverts,
           WithoutUpdate
    <2>. QED BY <2>1, <2>2 DEF BootInv
  <1>3. CASE RevertRefused
    <2>1. (boot = "recovering" /\ At(Boot, "idle") => marker.pid = Dead)'
      BY <1>3, Places, Kinds DEF SerialInv, TypeOK, Slots, BootInv, InPlace, MarkerInv,
           RevertRefused, Settled
    <2>2. (boot = "starting" => marker = NoMarker)'
      BY <1>3, Places, Kinds DEF SerialInv, TypeOK, Slots, BootInv, InPlace, RevertRefused,
           Settled
    <2>. QED BY <2>1, <2>2 DEF BootInv
  <1>4. CASE RevertCommits
    <2>1. (boot = "recovering" /\ At(Boot, "idle") => marker.pid = Dead)'
      BY <1>4, Places, Kinds DEF SerialInv, TypeOK, Slots, BootInv, InPlace, MarkerInv,
           RevertCommits, CommitStaged
    <2>2. (boot = "starting" => marker = NoMarker)'
      BY <1>4, Places, Kinds DEF SerialInv, TypeOK, Slots, BootInv, InPlace, RevertCommits,
           CommitStaged
    <2>. QED BY <2>1, <2>2 DEF BootInv
  <1>5. CASE PointPutBack
    <2>1. (boot = "recovering" /\ At(Boot, "idle") => marker.pid = Dead)'
      BY <1>5, Places, Kinds DEF SerialInv, TypeOK, Slots, BootInv, InPlace, MarkerInv,
           PointPutBack
    <2>2. (boot = "starting" => marker = NoMarker)'
      BY <1>5, Places, Kinds DEF SerialInv, TypeOK, Slots, BootInv, InPlace, PointPutBack
    <2>. QED BY <2>1, <2>2 DEF BootInv
  <1>6. CASE PointIsBack
    <2>1. (boot = "recovering" /\ At(Boot, "idle") => marker.pid = Dead)'
      BY <1>6, Places, Kinds DEF SerialInv, TypeOK, Slots, BootInv, InPlace, MarkerInv,
           PointIsBack
    <2>2. (boot = "starting" => marker = NoMarker)'
      BY <1>6, Places, Kinds DEF SerialInv, TypeOK, Slots, BootInv, InPlace, PointIsBack
    <2>. QED BY <2>1, <2>2 DEF BootInv
  <1>7. CASE RollbackRestarts
    <2>1. (boot = "recovering" /\ At(Boot, "idle") => marker.pid = Dead)'
      BY <1>7, Places, Kinds DEF SerialInv, TypeOK, Slots, BootInv, InPlace, MarkerInv,
           RollbackRestarts, Now, Content
    <2>2. (boot = "starting" => marker = NoMarker)'
      BY <1>7, Places, Kinds DEF SerialInv, TypeOK, Slots, BootInv, InPlace, RollbackRestarts,
           Now, Content
    <2>. QED BY <2>1, <2>2 DEF BootInv
  <1>8. CASE RollbackNeedsRestart
    <2>1. (boot = "recovering" /\ At(Boot, "idle") => marker.pid = Dead)'
      BY <1>8, Places, Kinds DEF SerialInv, TypeOK, Slots, BootInv, InPlace, MarkerInv,
           RollbackNeedsRestart, Settled
    <2>2. (boot = "starting" => marker = NoMarker)'
      BY <1>8, Places, Kinds DEF SerialInv, TypeOK, Slots, BootInv, InPlace,
           RollbackNeedsRestart, Settled
    <2>. QED BY <2>1, <2>2 DEF BootInv
  <1>9. CASE RollbackDone
    <2>1. (boot = "recovering" /\ At(Boot, "idle") => marker.pid = Dead)'
      BY <1>9, Places, Kinds DEF SerialInv, TypeOK, Slots, BootInv, InPlace, MarkerInv,
           RollbackDone, Settled
    <2>2. (boot = "starting" => marker = NoMarker)'
      BY <1>9, Places, Kinds DEF SerialInv, TypeOK, Slots, BootInv, InPlace, RollbackDone,
           Settled
    <2>. QED BY <2>1, <2>2 DEF BootInv
  <1>10. CASE RollbackFails
    <2>1. (boot = "recovering" /\ At(Boot, "idle") => marker.pid = Dead)'
      BY <1>10, Places, Kinds DEF SerialInv, TypeOK, Slots, BootInv, InPlace, MarkerInv,
           RollbackFails, Settled
    <2>2. (boot = "starting" => marker = NoMarker)'
      BY <1>10, Places, Kinds DEF SerialInv, TypeOK, Slots, BootInv, InPlace, RollbackFails,
           Settled
    <2>. QED BY <2>1, <2>2 DEF BootInv
  <1>11. CASE ConfirmLast
    <2>1. (boot = "recovering" /\ At(Boot, "idle") => marker.pid = Dead)'
      BY <1>11, Places, Kinds DEF SerialInv, TypeOK, Slots, BootInv, InPlace, MarkerInv,
           ConfirmLast, Locked
    <2>2. (boot = "starting" => marker = NoMarker)'
      BY <1>11, Places, Kinds DEF SerialInv, TypeOK, Slots, BootInv, InPlace, ConfirmLast,
           Locked
    <2>. QED BY <2>1, <2>2 DEF BootInv
  <1>. QED BY <1>1, <1>2, <1>3, <1>4, <1>5, <1>6, <1>7, <1>8, <1>9, <1>10, <1>11 DEF RollbackNext

\* Kills, restarts and others' work keep the recovery at boot the one that ends what a
\* restart left.
LEMMA BootOther ==
  ASSUME Serial, ~Race("bootFails"), ~Race("bootPid"), SerialInv, BootInv,
         \/ \E m \in Merges : Dispatch(m)
         \/ \E p \in Slots : Kill(p)
         \/ Restart \/ ServicesStart
         \/ \E w \in Work : Works(w)
         \/ UNCHANGED vars
  PROVE  BootInv'
  <1>1. ASSUME NEW m \in Merges, Dispatch(m) PROVE BootInv'
    <2>1. (boot = "recovering" /\ At(Boot, "idle") => marker.pid = Dead)'
      BY <1>1, Places, Kinds DEF SerialInv, TypeOK, Slots, BootInv, InPlace, MarkerInv, Dispatch
    <2>2. (boot = "starting" => marker = NoMarker)'
      BY <1>1, Places, Kinds DEF SerialInv, TypeOK, Slots, BootInv, InPlace, Dispatch
    <2>. QED BY <2>1, <2>2 DEF BootInv
  <1>2. ASSUME NEW p \in Slots, Kill(p) PROVE BootInv'
    <2>1. (boot = "recovering" /\ At(Boot, "idle") => marker.pid = Dead)'
      BY <1>2, OrphanedKind, Places, Kinds DEF SerialInv, TypeOK, Slots, BootInv, InPlace,
           MarkerInv, Kill, Orphaned
    <2>2. (boot = "starting" => marker = NoMarker)'
      BY <1>2, OrphanedKind, Places, Kinds DEF SerialInv, TypeOK, Slots, BootInv, InPlace, Kill,
           Orphaned
    <2>. QED BY <2>1, <2>2 DEF BootInv
  <1>3. CASE Restart
    <2>1. (boot = "recovering" /\ At(Boot, "idle") => marker.pid = Dead)'
      BY <1>3, DeadKind, Places, Kinds DEF SerialInv, TypeOK, Slots, BootInv, InPlace,
           MarkerInv, Restart
    <2>2. (boot = "starting" => marker = NoMarker)'
      BY <1>3, DeadKind, Places, Kinds DEF SerialInv, TypeOK, Slots, BootInv, InPlace, Restart
    <2>. QED BY <2>1, <2>2 DEF BootInv
  <1>4. CASE ServicesStart
    <2>1. (boot = "recovering" /\ At(Boot, "idle") => marker.pid = Dead)'
      BY <1>4, Places, Kinds DEF SerialInv, TypeOK, Slots, BootInv, InPlace, MarkerInv,
           ServicesStart, Now, Content
    <2>2. (boot = "starting" => marker = NoMarker)'
      BY <1>4, Places, Kinds DEF SerialInv, TypeOK, Slots, BootInv, InPlace, ServicesStart, Now,
           Content
    <2>. QED BY <2>1, <2>2 DEF BootInv
  <1>5. ASSUME NEW w \in Work, Works(w) PROVE BootInv'
    <2>1. (boot = "recovering" /\ At(Boot, "idle") => marker.pid = Dead)'
      BY <1>5, Places, Kinds DEF SerialInv, TypeOK, Slots, BootInv, InPlace, MarkerInv, Works,
           Clean
    <2>2. (boot = "starting" => marker = NoMarker)'
      BY <1>5, Places, Kinds DEF SerialInv, TypeOK, Slots, BootInv, InPlace, Works, Clean
    <2>. QED BY <2>1, <2>2 DEF BootInv
  <1>6. CASE UNCHANGED vars
    <2>1. (boot = "recovering" /\ At(Boot, "idle") => marker.pid = Dead)'
      BY <1>6, Places, Kinds DEF SerialInv, TypeOK, Slots, BootInv, InPlace, MarkerInv, vars
    <2>2. (boot = "starting" => marker = NoMarker)'
      BY <1>6, Places, Kinds DEF SerialInv, TypeOK, Slots, BootInv, InPlace, vars
    <2>. QED BY <2>1, <2>2 DEF BootInv
  <1>. QED BY <1>1, <1>2, <1>3, <1>4, <1>5, <1>6
-------------------------------------------------------------------------------
(* The theorem.                                                              *)

\* The services run the first version.
LEMMA LiveInit ==
  ASSUME Init
  PROVE  LiveInv
  <1>1. \A p \in Slots : proc[p] = Idle
    BY DEF Init
  <1>2. LiveTrue
    BY <1>1 DEF Init, LiveTrue, LiveStep, Now, Content, Idle
  <1>3. BootInv
    BY DEF Init, BootInv
  <1>. QED BY <1>2, <1>3 DEF LiveInv

\* Every step keeps what is true of the recovery at boot.
LEMMA BootStays ==
  ASSUME Serial, ~Race("bootFails"), ~Race("bootPid"), SerialInv, BootInv, [Next]_vars
  PROVE  BootInv'
  <1>1. CASE \E a \in Agents : \/ \E m \in Merges, keep \in BOOLEAN :
                                   ApplyStarts(a, m, keep) \/ ApplyResumes(a, m, keep)
                               \/ ApplyNext(a)
    BY <1>1, BootApply
  <1>2. CASE \E p \in Slots : RecoverReads(p) \/ BootReads \/ UndoNext(p)
    BY <1>2, BootUndo
  <1>3. CASE RollbackStarts \/ RollbackNext \/ ConfirmLast
    BY <1>3, BootRollback
  <1>4. CASE \/ \E m \in Merges : Dispatch(m)
             \/ \E p \in Slots : Kill(p)
             \/ Restart \/ ServicesStart
             \/ \E w \in Work : Works(w)
             \/ UNCHANGED vars
    BY <1>4, BootOther
  <1>. QED BY <1>1, <1>2, <1>3, <1>4 DEF Next, Slots

\* Every step keeps what is true of the services.
LEMMA LiveStays ==
  ASSUME Serial, ~Race("alarm"), ~Race("bootFails"), ~Race("bootPid"),
         SerialInv, DiskInv, LiveInv, [Next]_vars
  PROVE  LiveInv'
  <1>. BootInv'
    BY BootStays DEF LiveInv
  <1>. SUFFICES ASSUME ~told' PROVE LiveTrue'
    BY DEF LiveInv
  <1>. SerialInv' /\ BootInv
    BY SerialStep DEF LiveInv
  <1>1. CASE told
    <2>1. Consistent' /\ marker' = NoMarker /\ \A q \in Slots : proc'[q] = Idle
      BY <1>1, ToldStays, EndsWell
    <2>. QED BY <2>1 DEF LiveTrue, LiveStep, Consistent, Idle
  <1>2. CASE ~told
    <2>. DiskTrue /\ LiveTrue
      BY <1>2 DEF DiskInv, LiveInv
    <2>1. CASE \E a \in Agents : \/ \E m \in Merges, keep \in BOOLEAN :
                                     ApplyStarts(a, m, keep) \/ ApplyResumes(a, m, keep)
                                 \/ ApplyNext(a)
      BY <2>1, LiveApply
    <2>2. CASE \E p \in Slots : RecoverReads(p) \/ BootReads \/ UndoNext(p)
      BY <2>2, LiveUndo
    <2>3. CASE RollbackStarts \/ RollbackNext \/ ConfirmLast
      BY <2>3, LiveRollback
    <2>4. CASE \/ \E m \in Merges : Dispatch(m)
               \/ \E p \in Slots : Kill(p)
               \/ Restart \/ ServicesStart
               \/ \E w \in Work : Works(w)
               \/ UNCHANGED vars
      BY <2>4, LiveOther
    <2>. QED BY <2>1, <2>2, <2>3, <2>4 DEF Next, Slots
  <1>. QED BY <1>1, <1>2

\* Whatever was cut short by a kill, a restart or a failed step, the workspace ends on one
\* version, and a rollback on the one the apply began from: under the same conditions, and
\* with a recovery at boot that ends and does not get the pid of the process it recovers
\* from.  Others may commit at any time.
THEOREM OneVersionHolds ==
  ASSUME Serial, ~Race("alarm"), ~Race("uncopied"), ~Race("bootFails"), ~Race("bootPid")
  PROVE  Spec => []OneVersion
  <1>1. SerialInv /\ DiskInv /\ LiveInv /\ [Next]_vars => DiskInv' /\ LiveInv'
    BY DiskStays, LiveStays
  <1>2. SerialInv /\ DiskInv /\ LiveInv => OneVersion
    <2>. SUFFICES ASSUME SerialInv, DiskInv, LiveInv PROVE OneVersion
      OBVIOUS
    <2>1. AllOrNothing
      <3>. SUFFICES ASSUME \A p \in Slots : At(p, "idle"), boot = "up", marker = NoMarker,
                           point.state # "reverting", ~told
                    PROVE  Consistent
        BY DEF AllOrNothing
      <3>1. Resting
        BY DEF Resting, Mover
      <3>. QED BY <3>1 DEF DiskInv, DiskTrue, LiveInv, LiveTrue, Consistent
    <2>2. RollsBackToStart
      <3>. SUFFICES ASSUME NEW p \in Slots, At(p, "tidy"), ~told
                    PROVE  /\ Clean /\ Content = proc[p].mk.back \cap Merges /\ deps = Content
                           /\ boot = "up" => running = Now
        BY DEF RollsBackToStart
      <3>. QED BY DEF DiskInv, DiskTrue, Step, Restored, Base, LiveInv, LiveTrue, LiveStep
    <2>. QED BY <2>1, <2>2 DEF OneVersion
  <1>3. Init => DiskInv /\ LiveInv
    BY DiskInit, LiveInit
  <1>. QED BY <1>1, <1>2, <1>3, Serialized, PTL DEF Spec

===============================================================================
