------------------------- MODULE UpdateApplyDisk -----------------------------
(***************************************************************************)
(* More of what TLAPS proves of UpdateApply: whatever is cut short, what   *)
(* the marker, the rollback point and the steps under way say of the tree  *)
(* and the dependencies is true.  On top of the mutual exclusion of        *)
(* UpdateApplyProofs.                                                      *)
(***************************************************************************)
EXTENDS UpdateApplyProofs, FiniteSetTheorems

-------------------------------------------------------------------------------
\* The versions an update goes from and to, and what is staged.
Base(mk) == mk.back \cap Merges
Target(mk) == Base(mk) \cup {mk.merge}
Index == index \cap Merges
Planned(p) == proc[p].diff \cap Merges = Changed(Content, Base(proc[p].mk))

Restored(p) == Clean /\ Content = Base(proc[p].mk)

\* What each step of an apply, a recovery and a rollback can rely on.
Step(p) ==
    LET mk == proc[p].mk  pc == proc[p].pc IN
    /\ pc = "claim" /\ Is(p, "apply") =>
         /\ Clean /\ (Fresh(p) \/ ~proc[p].landed => Content = Base(mk))
         /\ mk.snapped => proc[p].landed /\ Content = Target(mk)
         /\ proc[p].landed => mk.merge \in landed
    /\ pc = "merge" => Clean /\ Content = Base(mk) /\ ~mk.snapped
    /\ pc = "staged" => mergeHead /\ Content = Base(mk) /\ Index = Target(mk) /\ ~mk.snapped
    /\ pc = "merged" => Clean /\ mk.merge \in landed /\ (mk.snapped => Content = Target(mk))
    /\ pc = "copy" => mk.merge \in landed /\ mk.merge \notin Base(mk)
    /\ pc \in {"copy", "refresh", "refreshing"} => Clean /\ Planned(p) /\ Content = Target(mk)
    /\ pc \in {"refresh", "refreshing"} => mk.snapped
    /\ pc \in {"preflight", "restart", "probe"} => Planned(p)
    /\ pc \in {"preflight", "restart", "probe", "tail"} =>
         Clean /\ deps = Content /\ (Content = Base(mk) \/ mk.snapped)
    /\ pc = "tail" => Content \in {Base(mk), Target(mk)} /\ (mk.snapped => copies = Base(mk))
    /\ pc = "undo" => Planned(p)
    /\ pc = "commit" => Index = Base(mk)
    /\ pc \in {"deps", "putting", "rebuild", "again", "confirm", "clear", "tidy"} => Restored(p)
    /\ pc = "putting" => mk.snapped /\ deps = Broken
    /\ pc \in {"again", "confirm"} => deps \in {Base(mk), Broken}
    /\ pc \in {"clear", "tidy"} => deps = Base(mk)
    /\ pc = "revert" => Clean /\ deps = Content
    /\ pc \in {"recommit", "putback", "puttingback"} => point.snapped /\ copies = Base(point)
    /\ pc = "recommit" => Index = Base(point)
    /\ pc \in {"putback", "puttingback"} => Clean /\ Content = Base(point)
    /\ pc \in {"programs", "check"} => Clean /\ deps = Content

Resting == /\ \A p \in Slots : ~Mover(p)
           /\ marker = NoMarker /\ point.state # "reverting"

MarkerTrue ==
    /\ Content = Base(marker) \/ (Content = Target(marker) /\ marker.merge \in landed)
    /\ mergeHead \/ Index \in {Base(marker), Content}
    /\ IF marker.snapped
         THEN /\ copies = Base(marker) /\ marker.merge \in landed
              /\ marker.merge \notin Base(marker)
              /\ marker.merge \in undone \/ Content = Target(marker)
         ELSE deps = Base(marker)

PointTrue ==
    /\ point.snapped => copies = Base(point)
    /\ point.merge # None => /\ point.snapped /\ Content = Target(point)
                             /\ point.merge \notin Base(point)

\* At rest the disk is of one version; a marker and a rollback point say what they
\* promise; and every step finds what it relies on.
DiskTrue ==
    /\ Resting => Clean /\ deps = Content
    /\ marker # NoMarker => MarkerTrue
    /\ point.state = "kept" \/ At(Shell, "revert") => PointTrue
    /\ \A p \in Slots : Step(p)

\* Unless a person has been told.
DiskInv == told \/ DiskTrue

-------------------------------------------------------------------------------
(* The disk.                                                                 *)

USE UpdateAssumption DEF At, Goes, Is, Fault, Leaves, Ends, treeVars, branchVars, depsVars, recordVars,
                         Applying, Undoing, Trailing, Rolling

\* While an apply or a recovery is past its claim, no rollback point is in anyone's hands.
LEMMA PointFree ==
  ASSUME SerialInv, NEW p \in Slots, proc[p].pc \in Applying \cup Undoing \cup Trailing
  PROVE  /\ point = NoPoint /\ point.state # "kept" /\ p # Shell /\ At(Shell, "idle")
         /\ ~mergeHead \/ At(p, "staged")
  <1>1. point = NoPoint /\ p # Shell
    BY DEF SerialInv, InPlace, Holds, Trails
  <1>2. At(Shell, "idle")
    BY <1>1, Solo DEF Slots
  <1>3. ~mergeHead \/ At(p, "staged")
    BY DEF SerialInv, MarkerInv, Mover
  <1>. QED BY <1>1, <1>2, <1>3, Kinds

\* What a marker says of the versions is the same whichever process it names.
LEMMA SameMarker ==
  ASSUME MarkerTrue, marker'.merge = marker.merge, marker'.back = marker.back,
         marker'.snapped = marker.snapped, UNCHANGED <<head, deps, copies, landed, undone>>,
         \/ ~mergeHead' /\ index' = (IF mergeHead THEN head ELSE index)
         \/ UNCHANGED <<index, mergeHead>>
  PROVE  MarkerTrue'
  BY DEF MarkerTrue, Base, Target, Content, Index

\* take_snapshots leaves the copies of the version the apply goes back to, and says so.
LEMMA Copied ==
  ASSUME SerialInv, DiskTrue, ~Race("uncopied"), NEW a \in Agents, ApplyCopies(a)
  PROVE  /\ proc'[a].pc = "refresh" /\ proc'[a].mk = marker' /\ marker'.snapped
         /\ marker'.merge = marker.merge /\ marker'.back = marker.back
         /\ proc'[a].diff = proc[a].diff /\ copies' = Base(marker) /\ marker = proc[a].mk
  <1>1. MarkerTrue /\ marker = proc[a].mk /\ marker \in MarkerKinds
    BY Places DEF ApplyCopies, DiskTrue, Slots
  <1>2. Base(marker) \in SUBSET Merges
    BY DEF Base
  <1>3. CASE Reusable(marker)
    BY <1>1, <1>3, Places DEF ApplyCopies, Writes, Reusable, MarkerTrue, SerialInv, TypeOK, Slots, ProcKinds
  <1>4. CASE ~Reusable(marker)
    <2>1. ~marker.snapped /\ deps = Base(marker)
      BY <1>1, <1>2, <1>4 DEF Reusable, MarkerTrue
    <2>2. Writes(a, [marker EXCEPT !.snapped = TRUE], "refresh") /\ copies' = deps
      BY <1>1, <1>4 DEF ApplyCopies
    <2>. QED BY <1>1, <2>1, <2>2, Places DEF Writes, MarkerKinds, SerialInv, TypeOK, Slots, ProcKinds
  <1>. QED BY <1>3, <1>4

\* A process whose place does not change finds what it found, when the versions have not
\* changed, and the copies and the rollback point only if it does not look at them.
LEMMA SameStep ==
  ASSUME NEW q \in Slots, Step(q), proc'[q] = proc[q], Content' = Content, Index' = Index,
         Clean => Clean', mergeHead' = mergeHead, deps' = deps, landed' = landed,
         marker' = NoMarker => marker = NoMarker,
         (copies' = copies /\ point' = point) \/ proc[q].pc \notin Rolling \cup Trailing
  PROVE  Step(q)'
  <1>1. UNCHANGED <<Base(proc[q].mk), Target(proc[q].mk)>> /\ (Fresh(q)' => Fresh(q))
    BY DEF Base, Target, Fresh
  <1>2. CASE proc[q].pc \in Rolling \cup Trailing
    <2>1. copies' = copies /\ point' = point /\ UNCHANGED Base(point)
      BY <1>2 DEF Base
    <2>. QED BY <1>1, <1>2, <2>1 DEF Step, Restored
  <1>3. CASE proc[q].pc \in Undoing
    BY <1>1, <1>3 DEF Step, Restored, Planned
  <1>4. CASE proc[q].pc \in Applying
    BY <1>1, <1>4 DEF Step, Planned
  <1>5. CASE proc[q].pc \notin Rolling \cup Trailing \cup Undoing \cup Applying
    BY <1>1, <1>5 DEF Step
  <1>. QED BY <1>2, <1>3, <1>4, <1>5

\* What a rollback finds that has committed the tree, and what it puts back.
LEMMA AfterUndo ==
  ASSUME SerialInv, DiskTrue, NEW p \in Slots, proc[p].pc \in {"deps", "putting", "rebuild"}
  PROVE  LET mk == proc[p].mk IN
         /\ AfterDeps(p) \in {"clear", "again", "confirm"}
         /\ ~mk.snapped => deps = Base(mk)
         /\ mk.snapped => copies = Base(mk)
         /\ Restored(p) /\ Content = Base(mk) /\ Base(mk) # None
  <1>1. marker = proc[p].mk /\ marker # NoMarker
    BY Places
  <1>2. Restored(p) /\ MarkerTrue
    BY <1>1 DEF DiskTrue, Step
  <1>3. Base(proc[p].mk) # None
    BY DEF Base
  <1>. QED BY <1>1, <1>2, <1>3 DEF AfterDeps, MarkerTrue, Restored

\* An agent's apply keeps what the disk promises.
LEMMA DiskApply ==
  ASSUME Serial, ~Race("alarm"), ~Race("uncopied"), SerialInv, SerialInv', DiskTrue, ~told', NEW a \in Agents,
         \/ \E m \in Merges, keep \in BOOLEAN : ApplyStarts(a, m, keep) \/ ApplyResumes(a, m, keep)
         \/ ApplyNext(a)
  PROVE  DiskTrue'
  <1>1. ASSUME NEW m \in Merges, NEW keep \in BOOLEAN, ApplyStarts(a, m, keep)
        PROVE  DiskTrue'
    <2>1. (Resting => Clean /\ deps = Content)'
      BY ZenonT(40), <1>1, Places, Kinds DEF SerialInv, TypeOK, Slots, DiskTrue, Base, Target, Content,
           Index, Clean, Resting, Mover, Step, Restored, ApplyStarts, Reads
    <2>2. (marker # NoMarker => MarkerTrue)'
      BY ZenonT(40), <1>1, Places, Kinds DEF SerialInv, TypeOK, Slots, DiskTrue, Base, Target, Content,
           Index, Clean, MarkerTrue, Step, Restored, Planned, Changed, ApplyStarts, Reads
    <2>3. (point.state = "kept" \/ At(Shell, "revert") => PointTrue)'
      BY ZenonT(40), <1>1, Places, Kinds DEF SerialInv, TypeOK, Slots, DiskTrue, Base, Target, Content,
           Index, Clean, PointTrue, Step, Restored, InPlace, MarkerInv, ApplyStarts, Reads
    <2>4. ASSUME NEW q \in Slots PROVE Step(q)'
      <3>1. CASE q = a
        BY ZenonT(40), <1>1, <3>1, Places, StampedKind, Kinds DEF DiskTrue, MarkerTrue, SerialInv, TypeOK,
             Slots, ProcKinds, InPlace, Holds, Step, Restored, Planned, Changed, Base, Target,
             Content, Index, Clean, Now, ApplyStarts, Reads, NoMarker, Fresh
      <3>2. CASE q # a
        <4>1. proc'[q] = proc[q] /\ proc[q].pc \in {"idle"} \cup Rolling \cup Trailing
          BY <1>1, <3>2, Places, Kinds DEF SerialInv, TypeOK, Slots, ApplyStarts, Reads, Serial,
               Unclaimed
        <4>. QED BY <1>1, <4>1, SameStep DEF ApplyStarts, DiskTrue, Content, Index, Clean
      <3>. QED BY <3>1, <3>2
    <2>. QED BY <2>1, <2>2, <2>3, <2>4 DEF DiskTrue
  <1>2. ASSUME NEW m \in Merges, NEW keep \in BOOLEAN, ApplyResumes(a, m, keep)
        PROVE  DiskTrue'
    <2>1. (Resting => Clean /\ deps = Content)'
      BY SMTT(30), <1>2, Kinds DEF Resting, ApplyResumes
    <2>2. (marker # NoMarker => MarkerTrue)'
      BY SMTT(30), <1>2 DEF DiskTrue, Content, Index, MarkerTrue, ApplyResumes, AbortMerge
    <2>3. (point.state = "kept" \/ At(Shell, "revert") => PointTrue)'
      BY SMTT(30), <1>2 DEF DiskTrue, Content, PointTrue, ApplyResumes, Reads
    <2>4. ASSUME NEW q \in Slots PROVE Step(q)'
      <3>1. CASE q = a
        <4>1. /\ proc'[a].mk = Stamped(marker, a) /\ proc'[a].pc = "claim" /\ proc'[a].role = "apply"
              /\ proc'[a].landed <=> (m \in landed)
          BY <1>2 DEF ApplyResumes, Reads, SerialInv, TypeOK, Slots
        <4>2. marker # NoMarker /\ MarkerTrue /\ ~Fresh(a)'
          BY <1>2, Kinds DEF ApplyResumes, DiskTrue, Fresh
        <4>3. Clean' /\ UNCHANGED <<head, landed>>
          BY <1>2 DEF ApplyResumes, AbortMerge, Clean
        <4>4. marker.merge = m /\ (m \in landed => m \notin undone)
          BY <1>2 DEF ApplyResumes, Undone
        <4>. QED BY <3>1, <4>1, <4>2, <4>3, <4>4, StampedKind DEF MarkerTrue, Step, Base, Target, Content, SerialInv, Slots
      <3>2. CASE q # a
        <4>1. proc'[q] = proc[q] /\ proc[q].pc \in {"idle"} \cup Rolling \cup Trailing
          BY <1>2, <3>2, Places, Kinds DEF SerialInv, TypeOK, Slots, ApplyResumes, Reads,
               AbortMerge, Stamped, Serial, Unclaimed
        <4>. QED BY SMTT(30), <1>2, <4>1, Places DEF DiskTrue, SerialInv, InPlace, Trails,
             RollsBack, Step, Restored, Planned, Changed, Base, Target, Content, Index,
             Clean, Now, Fresh, ApplyResumes
      <3>. QED BY <3>1, <3>2
    <2>. QED BY <2>1, <2>2, <2>3, <2>4 DEF DiskTrue
  <1>3. CASE ApplyDropsPoint(a)
    <2>1. (Resting => Clean /\ deps = Content)'
      BY SMTT(30), <1>3, Places, Kinds DEF SerialInv, TypeOK, Slots, DiskTrue, Base, Target,
           Content, Index, Clean, Resting, Mover, Step, Restored, ApplyDropsPoint,
           OwnPointNext, Locked
    <2>2. (marker # NoMarker => MarkerTrue)'
      <3>1. marker = NoMarker
        BY <1>3 DEF ApplyDropsPoint, OwnPointNext, SerialInv, MarkerInv
      <3>. QED BY <1>3, <3>1 DEF ApplyDropsPoint
    <2>3. (point.state = "kept" \/ At(Shell, "revert") => PointTrue)'
      <3>1. CASE point' = NoPoint /\ ~Locked /\ UNCHANGED proc
        BY <3>1, Kinds DEF SerialInv, InPlace, RollsBack, Locked, Slots
      <3>2. CASE Leaves(a) /\ UNCHANGED <<point, copies>>
        <4>1. At(Shell, "revert")' => At(Shell, "revert")
          BY <3>2 DEF SerialInv, TypeOK, Idle, Slots
        <4>. QED BY <1>3, <3>2, <4>1 DEF ApplyDropsPoint, DiskTrue, PointTrue, Base, Target, Content
      <3>. QED BY <1>3, <3>1, <3>2 DEF ApplyDropsPoint
    <2>4. ASSUME NEW q \in Slots PROVE Step(q)'
      <3>1. CASE point' = NoPoint /\ ~Locked /\ UNCHANGED proc
        <4>1. proc[q].pc \notin Rolling \cup Trailing
          BY <1>3, <3>1 DEF ApplyDropsPoint, OwnPointNext, SerialInv, InPlace, RollsBack, Trails, Locked
        <4>. QED BY <1>3, <3>1, <4>1, SameStep DEF ApplyDropsPoint, DiskTrue, Content, Index, Clean
      <3>2. CASE Leaves(a) /\ UNCHANGED <<point, copies>>
        <4>1. CASE q = a
          BY <3>2, <4>1 DEF SerialInv, TypeOK, Step, Idle
        <4>2. CASE q # a
          BY <1>3, <3>2, <4>2, SameStep DEF ApplyDropsPoint, DiskTrue, Content, Index, Clean, SerialInv, TypeOK
        <4>. QED BY <4>1, <4>2
      <3>. QED BY <1>3, <3>1, <3>2 DEF ApplyDropsPoint
    <2>. QED BY <2>1, <2>2, <2>3, <2>4 DEF DiskTrue
  <1>4. CASE ApplyClaims(a)
    <2>1. (Resting => Clean /\ deps = Content)'
      BY SMTT(30), <1>4 DEF SerialInv, TypeOK, Resting, Mover, ApplyClaims, Writes
    <2>2. (marker # NoMarker => MarkerTrue)'
      <3>1. CASE Fresh(a)
        <4>1. Resting
          BY <1>4, <3>1, ClaimsAlone, Kinds DEF ApplyClaims, Resting, Mover, Fresh, Slots
        <4>2. Content = Base(proc[a].mk) /\ deps = Content /\ Clean
          BY <1>4, <3>1, <4>1 DEF ApplyClaims, DiskTrue, Step, Slots
        <4>. QED BY <1>4, <3>1, <4>2 DEF ApplyClaims, Writes, MarkerTrue, Fresh, Base, Target, Content, Index, Clean
      <3>2. CASE marker.pid = Dead /\ proc[a].mk = Stamped(marker, a)
        <4>1. MarkerTrue
          BY <3>2, Kinds DEF DiskTrue
        <4>. QED BY <1>4, <3>2, <4>1, SameMarker, StampedKind DEF ApplyClaims, Writes, SerialInv, Slots
      <3>. QED BY <1>4, <3>1, <3>2 DEF ApplyClaims, SerialInv, InPlace, Claiming, Slots
    <2>3. (point.state = "kept" \/ At(Shell, "revert") => PointTrue)'
      BY SMTT(30), <1>4 DEF SerialInv, TypeOK, Slots, DiskTrue, Content, PointTrue,
           ApplyClaims, Writes
    <2>4. ASSUME NEW q \in Slots PROVE Step(q)'
      <3>1. CASE q = a
        <4>1. /\ proc'[a].mk = proc[a].mk /\ proc'[a].pc = IF proc[a].landed THEN "merged" ELSE "merge"
          BY <1>4, Places DEF ApplyClaims, Writes, SerialInv, TypeOK, Slots, ProcKinds
        <4>2. At(a, "claim") /\ Is(a, "apply") /\ UNCHANGED <<head, index, mergeHead, landed>> /\ Step(a)
          BY <1>4 DEF ApplyClaims, DiskTrue, Slots
        <4>. QED BY <3>1, <4>1, <4>2 DEF Step, Base, Target, Content, Clean
      <3>2. CASE q # a
        <4>1. proc'[q] = proc[q] /\ proc[q].pc \in {"idle"}
          BY <1>4, <3>2, ClaimsAlone DEF SerialInv, TypeOK, Slots, ApplyClaims, OwnPointNext,
               Writes
        <4>. QED BY <4>1 DEF Step
      <3>. QED BY <3>1, <3>2
    <2>. QED BY <2>1, <2>2, <2>3, <2>4 DEF DiskTrue
  <1>5. CASE ApplyMerges(a)
    <2>1. (Resting => Clean /\ deps = Content)'
      BY SMTT(30), <1>5, Places, Kinds DEF SerialInv, TypeOK, Slots, DiskTrue, Base, Target,
           Content, Index, Clean, Resting, Mover, Step, Restored, ApplyMerges
    <2>2. (marker # NoMarker => MarkerTrue)'
      BY SMTT(30), <1>5 DEF DiskTrue, Content, MarkerTrue, ApplyMerges
    <2>3. (point.state = "kept" \/ At(Shell, "revert") => PointTrue)'
      <3>1. point' = point /\ proc'[Shell] = proc[Shell]
        BY <1>5, PointFree DEF SerialInv, TypeOK, Slots, ApplyMerges
      <3>. QED BY <1>5, <3>1, PointFree DEF Slots, ApplyMerges
    <2>4. ASSUME NEW q \in Slots PROVE Step(q)'
      <3>1. CASE q = a
        BY SMTT(30), <1>5, <3>1, Places DEF DiskTrue, MarkerTrue, SerialInv, TypeOK, ProcKinds,
             InPlace, Step, Target, Content, Index, Clean, ApplyMerges
      <3>2. CASE q # a
        <4>1. proc'[q] = proc[q] /\ proc[q].pc \in {"idle"}
          BY <1>5, <3>2, Solo DEF SerialInv, TypeOK, Slots, ApplyMerges
        <4>. QED BY <4>1 DEF Step
      <3>. QED BY <3>1, <3>2
    <2>. QED BY <2>1, <2>2, <2>3, <2>4 DEF DiskTrue
  <1>6. CASE ApplyLands(a)
    <2>1. (Resting => Clean /\ deps = Content)'
      BY SMTT(30), <1>6, Places, Kinds DEF SerialInv, TypeOK, Slots, DiskTrue, Base, Target,
           Content, Index, Clean, Resting, Mover, Step, Restored, ApplyLands
    <2>2. (marker # NoMarker => MarkerTrue)'
      BY SMTT(30), <1>6, Places, Kinds DEF SerialInv, TypeOK, Slots, DiskTrue, Base, Target,
           Content, Index, Clean, MarkerTrue, Step, Restored, Planned, Changed, ApplyLands
    <2>3. (point.state = "kept" \/ At(Shell, "revert") => PointTrue)'
      <3>1. point' = point /\ proc'[Shell] = proc[Shell]
        BY <1>6, PointFree DEF SerialInv, TypeOK, Slots, ApplyLands
      <3>. QED BY <1>6, <3>1, PointFree DEF Slots, ApplyLands
    <2>4. ASSUME NEW q \in Slots PROVE Step(q)'
      <3>1. CASE q = a
        BY SMTT(30), <1>6, <3>1 DEF DiskTrue, SerialInv, TypeOK, Step, Clean, ApplyLands
      <3>2. CASE q # a
        <4>1. proc'[q] = proc[q] /\ proc[q].pc \in {"idle"}
          BY <1>6, <3>2, Solo DEF SerialInv, TypeOK, Slots, ApplyLands
        <4>. QED BY <4>1 DEF Step
      <3>. QED BY <3>1, <3>2
    <2>. QED BY <2>1, <2>2, <2>3, <2>4 DEF DiskTrue
  <1>7. CASE ApplyRefused(a)
    <2>1. (Resting => Clean /\ deps = Content)'
      <3>1. mergeHead /\ Content = Base(marker) /\ ~marker.snapped
        BY <1>7, Places DEF ApplyRefused, DiskTrue, Step, Slots
      <3>2. deps = Content
        BY <1>7, <3>1, Places DEF ApplyRefused, DiskTrue, MarkerTrue, Slots
      <3>. QED BY <1>7, <3>1, <3>2 DEF ApplyRefused, AbortMerge, Clean, Content
    <2>2. (marker # NoMarker => MarkerTrue)'
      BY SMTT(30), <1>7, Places, Kinds DEF SerialInv, TypeOK, Slots, DiskTrue, Base, Target,
           Content, Index, Clean, MarkerTrue, Step, Restored, Planned, Changed,
           ApplyRefused, AbortMerge, Cleared
    <2>3. (point.state = "kept" \/ At(Shell, "revert") => PointTrue)'
      <3>1. point' = point /\ proc'[Shell] = proc[Shell]
        BY <1>7, PointFree DEF SerialInv, TypeOK, Slots, ApplyRefused, AbortMerge, Cleared
      <3>. QED BY <1>7, <3>1, PointFree DEF Slots, ApplyRefused
    <2>4. ASSUME NEW q \in Slots PROVE Step(q)'
      <3>1. CASE q = a
        BY SMTT(30), <1>7, <3>1, Places DEF SerialInv, Slots, InPlace, Holds, Step,
             ApplyRefused, Cleared
      <3>2. CASE q # a
        <4>1. proc'[q] = proc[q] /\ proc[q].pc \in {"idle"}
          BY <1>7, <3>2, Solo DEF SerialInv, TypeOK, Slots, ApplyRefused, AbortMerge, Cleared
        <4>. QED BY <4>1 DEF Step
      <3>. QED BY <3>1, <3>2
    <2>. QED BY <2>1, <2>2, <2>3, <2>4 DEF DiskTrue
  <1>8. CASE ApplyPlans(a)
    <2>1. (Resting => Clean /\ deps = Content)'
      <3>1. marker' # NoMarker
        BY <1>8, Places, Kinds DEF ApplyPlans, SerialInv, TypeOK, Slots, MarkerKinds, NoMarker
      <3>. QED BY <3>1 DEF Resting
    <2>2. (marker # NoMarker => MarkerTrue)'
      BY SMTT(30), <1>8, Places DEF Slots, DiskTrue, Base, Target, Content, Index, MarkerTrue,
           ApplyPlans
    <2>3. (point.state = "kept" \/ At(Shell, "revert") => PointTrue)'
      <3>1. point' = point /\ proc'[Shell] = proc[Shell]
        BY <1>8, PointFree DEF SerialInv, TypeOK, Slots, ApplyPlans, Changed
      <3>. QED BY <1>8, <3>1, PointFree DEF Slots, ApplyPlans
    <2>4. ASSUME NEW q \in Slots PROVE Step(q)'
      <3>1. CASE q = a
        <4>1. /\ proc'[a].mk.merge = proc[a].mk.merge /\ proc'[a].mk.back = proc[a].mk.back
              /\ proc'[a].mk.snapped = proc[a].mk.snapped
              /\ proc'[a].diff = Changed(head, proc[a].mk.back)
          BY <1>8, Plans
        <4>7. proc'[a].pc = IF proc'[a].diff \cap Merges = {} THEN "preflight" ELSE "copy"
          BY <1>8, Plans
        <4>2. UNCHANGED <<head, index, mergeHead, landed, deps, copies>> /\ At(a, "merged")
          BY <1>8 DEF ApplyPlans
        <4>3. Planned(a)'
          BY <4>1, <4>2 DEF Planned, Changed, Content, Base
        <4>4. MarkerTrue /\ marker = proc[a].mk /\ Step(a)
          BY <4>2, Places DEF DiskTrue, Slots
        <4>5. CASE proc'[a].diff \cap Merges = {}
          <5>1. Content = Base(marker)
            BY <4>2, <4>3, <4>4, <4>1, <4>5 DEF Planned, Changed, Content, Base
          <5>2. ~marker.snapped
            BY <5>1, <4>2, <4>4 DEF MarkerTrue, Step, Target
          <5>. QED BY <3>1, <4>1, <4>2, <4>3, <4>4, <4>5, <4>7, <5>1, <5>2 DEF MarkerTrue, Step, Clean, Content, Base
        <4>6. CASE proc'[a].diff \cap Merges # {}
          <5>1. Content # Base(marker)
            BY <4>2, <4>3, <4>4, <4>1, <4>6 DEF Planned, Changed, Content, Base
          <5>2. Content = Target(marker) /\ marker.merge \notin Base(marker)
            BY <5>1, <4>4 DEF MarkerTrue, Target
          <5>. QED BY <3>1, <4>1, <4>2, <4>3, <4>4, <4>6, <4>7, <5>2 DEF Step, Clean, Content, Base, Target
        <4>. QED BY <4>5, <4>6
      <3>2. CASE q # a
        <4>1. proc'[q] = proc[q] /\ proc[q].pc \in {"idle"}
          BY <1>8, <3>2, Solo DEF SerialInv, TypeOK, Slots, ApplyPlans, Changed
        <4>. QED BY <4>1 DEF Step
      <3>. QED BY <3>1, <3>2
    <2>. QED BY <2>1, <2>2, <2>3, <2>4 DEF DiskTrue
  <1>9. CASE ApplyCopies(a)
    <2>1. (Resting => Clean /\ deps = Content)'
      BY <1>9, Copied DEF Resting, Mover, Slots
    <2>2. (marker # NoMarker => MarkerTrue)'
      <3>1. At(a, "copy") /\ UNCHANGED <<head, index, mergeHead, landed, undone>> /\ MarkerTrue /\ Step(a)
        BY <1>9, Places DEF ApplyCopies, DiskTrue, Slots
      <3>2. marker = proc[a].mk
        BY <3>1, Places DEF Slots
      <3>. QED BY <1>9, <3>1, <3>2, Copied DEF MarkerTrue, Step, Base, Target, Content, Index
    <2>3. (point.state = "kept" \/ At(Shell, "revert") => PointTrue)'
      <3>1. point' = point /\ proc'[Shell] = proc[Shell]
        BY <1>9, PointFree DEF SerialInv, TypeOK, Slots, ApplyCopies, Writes, Reusable
      <3>. QED BY <1>9, <3>1, PointFree DEF Slots, ApplyCopies
    <2>4. ASSUME NEW q \in Slots PROVE Step(q)'
      <3>1. CASE q = a
        <4>1. At(a, "copy") /\ UNCHANGED <<head, index, mergeHead, landed, deps>> /\ Step(a)
          BY <1>9 DEF ApplyCopies, DiskTrue, Slots
        <4>. QED BY <1>9, <3>1, <4>1, Copied DEF Step, Planned, Base, Target, Content, Clean
      <3>2. CASE q # a
        <4>1. proc'[q] = proc[q] /\ proc[q].pc \in {"idle"}
          BY <1>9, <3>2, Solo DEF SerialInv, TypeOK, Slots, ApplyCopies, Writes, Reusable
        <4>. QED BY <4>1 DEF Step
      <3>. QED BY <3>1, <3>2
    <2>. QED BY <2>1, <2>2, <2>3, <2>4 DEF DiskTrue
  <1>10. CASE ApplyRefreshes(a)
    <2>1. (Resting => Clean /\ deps = Content)'
      BY SMTT(30), <1>10, Places, Kinds DEF SerialInv, TypeOK, Slots, DiskTrue, Base,
           Target, Content, Index, Clean, Resting, Mover, Step, Restored, ApplyRefreshes
    <2>2. (marker # NoMarker => MarkerTrue)'
      BY SMTT(30), <1>10, Places DEF Slots, DiskTrue, Content, Index, MarkerTrue, Step,
           ApplyRefreshes
    <2>3. (point.state = "kept" \/ At(Shell, "revert") => PointTrue)'
      <3>1. point' = point /\ proc'[Shell] = proc[Shell]
        BY <1>10, PointFree DEF SerialInv, TypeOK, Slots, ApplyRefreshes
      <3>. QED BY <1>10, <3>1, PointFree DEF Slots, ApplyRefreshes
    <2>4. ASSUME NEW q \in Slots PROVE Step(q)'
      <3>1. CASE q = a
        BY SMTT(30), <1>10, <3>1 DEF DiskTrue, Step, Planned, Changed, Content, Clean,
             ApplyRefreshes
      <3>2. CASE q # a
        <4>1. proc'[q] = proc[q] /\ proc[q].pc \in {"idle"}
          BY <1>10, <3>2, Solo DEF SerialInv, TypeOK, Slots, ApplyRefreshes
        <4>. QED BY <4>1 DEF Step
      <3>. QED BY <3>1, <3>2
    <2>. QED BY <2>1, <2>2, <2>3, <2>4 DEF DiskTrue
  <1>11. CASE ApplyRefreshed(a)
    <2>1. (Resting => Clean /\ deps = Content)'
      BY SMTT(30), <1>11, Places, Kinds DEF SerialInv, TypeOK, Slots, DiskTrue, Base,
           Target, Content, Index, Clean, Resting, Mover, Step, Restored, ApplyRefreshed
    <2>2. (marker # NoMarker => MarkerTrue)'
      BY SMTT(30), <1>11, Places DEF Slots, DiskTrue, Content, Index, MarkerTrue, Step,
           ApplyRefreshed
    <2>3. (point.state = "kept" \/ At(Shell, "revert") => PointTrue)'
      <3>1. point' = point /\ proc'[Shell] = proc[Shell]
        BY <1>11, PointFree DEF SerialInv, TypeOK, Slots, ApplyRefreshed, Content
      <3>. QED BY <1>11, <3>1, PointFree DEF Slots, ApplyRefreshed
    <2>4. ASSUME NEW q \in Slots PROVE Step(q)'
      <3>1. CASE q = a
        BY SMTT(30), <1>11, <3>1 DEF DiskTrue, Step, Planned, Changed, Content, Clean,
             ApplyRefreshed
      <3>2. CASE q # a
        <4>1. proc'[q] = proc[q] /\ proc[q].pc \in {"idle"}
          BY <1>11, <3>2, Solo DEF SerialInv, TypeOK, Slots, ApplyRefreshed, Content
        <4>. QED BY <4>1 DEF Step
      <3>. QED BY <3>1, <3>2
    <2>. QED BY <2>1, <2>2, <2>3, <2>4 DEF DiskTrue
  <1>12. CASE ApplyPreflights(a)
    <2>1. (Resting => Clean /\ deps = Content)'
      BY SMTT(30), <1>12 DEF Slots, DiskTrue, Content, Clean, Step, ApplyPreflights
    <2>2. (marker # NoMarker => MarkerTrue)'
      BY SMTT(30), <1>12, Places DEF Slots, DiskTrue, Base, Target, Content, Index, MarkerTrue,
           ApplyPreflights, Writes, RestartRecorded
    <2>3. (point.state = "kept" \/ At(Shell, "revert") => PointTrue)'
      <3>1. point' = point /\ proc'[Shell] = proc[Shell]
        BY <1>12, PointFree DEF SerialInv, TypeOK, Slots, ApplyPreflights, Writes,
             RestartRecorded
      <3>. QED BY <1>12, <3>1, PointFree DEF Slots, ApplyPreflights
    <2>4. ASSUME NEW q \in Slots PROVE Step(q)'
      <3>1. CASE q = a
        <4>1. /\ proc'[a].mk.merge = proc[a].mk.merge /\ proc'[a].mk.back = proc[a].mk.back
              /\ proc'[a].mk.snapped = proc[a].mk.snapped /\ proc'[a].diff = proc[a].diff
              /\ proc'[a].pc = "restart"
          BY <1>12, Places DEF ApplyPreflights, Writes, RestartRecorded, SerialInv, TypeOK, Slots, MarkerKinds, ProcKinds
        <4>2. At(a, "preflight") /\ UNCHANGED <<head, index, mergeHead, landed, deps>> /\ Step(a)
          BY <1>12 DEF ApplyPreflights, DiskTrue, Slots
        <4>. QED BY <3>1, <4>1, <4>2 DEF Step, Planned, Base, Target, Content, Clean
      <3>2. CASE q # a
        <4>1. proc'[q] = proc[q] /\ proc[q].pc \in {"idle"}
          BY <1>12, <3>2, Solo DEF SerialInv, TypeOK, Slots, ApplyPreflights, Writes,
               RestartRecorded
        <4>. QED BY <4>1 DEF Step
      <3>. QED BY <3>1, <3>2
    <2>. QED BY <2>1, <2>2, <2>3, <2>4 DEF DiskTrue
  <1>13. CASE ApplyRestarts(a)
    <2>1. (Resting => Clean /\ deps = Content)'
      BY SMTT(30), <1>13, Places, Kinds DEF SerialInv, TypeOK, Slots, DiskTrue, Base,
           Target, Content, Index, Clean, Resting, Mover, Step, Restored, ApplyRestarts, Now
    <2>2. (marker # NoMarker => MarkerTrue)'
      BY SMTT(30), <1>13 DEF DiskTrue, Content, Index, MarkerTrue, ApplyRestarts
    <2>3. (point.state = "kept" \/ At(Shell, "revert") => PointTrue)'
      <3>1. point' = point /\ proc'[Shell] = proc[Shell]
        BY <1>13, PointFree DEF SerialInv, TypeOK, Slots, ApplyRestarts, Now, Content
      <3>. QED BY <1>13, <3>1, PointFree DEF Slots, ApplyRestarts
    <2>4. ASSUME NEW q \in Slots PROVE Step(q)'
      <3>1. CASE q = a
        BY SMTT(30), <1>13, <3>1 DEF DiskTrue, Step, Planned, Changed, Content, Clean,
             ApplyRestarts
      <3>2. CASE q # a
        <4>1. proc'[q] = proc[q] /\ proc[q].pc \in {"idle"}
          BY <1>13, <3>2, Solo DEF SerialInv, TypeOK, Slots, ApplyRestarts, Now, Content
        <4>. QED BY <4>1 DEF Step
      <3>. QED BY <3>1, <3>2
    <2>. QED BY <2>1, <2>2, <2>3, <2>4 DEF DiskTrue
  <1>14. CASE ApplyConfirms(a)
    <2>1. (Resting => Clean /\ deps = Content)'
      BY SMTT(30), <1>14, Places, Kinds DEF SerialInv, TypeOK, Slots, DiskTrue, Base,
           Target, Content, Index, Clean, Resting, Mover, Step, Restored, ApplyConfirms,
           Cleared, Healthy
    <2>2. (marker # NoMarker => MarkerTrue)'
      BY SMTT(30), <1>14, Places, Kinds DEF SerialInv, TypeOK, Slots, DiskTrue, Base,
           Target, Content, Index, Clean, MarkerTrue, Step, Restored, Planned, Changed,
           ApplyConfirms, Cleared, Healthy
    <2>3. (point.state = "kept" \/ At(Shell, "revert") => PointTrue)'
      <3>1. point' = point /\ proc'[Shell] = proc[Shell]
        BY <1>14, PointFree DEF SerialInv, TypeOK, Slots, ApplyConfirms, Cleared, Healthy
      <3>. QED BY <1>14, <3>1, PointFree DEF Slots, ApplyConfirms
    <2>4. ASSUME NEW q \in Slots PROVE Step(q)'
      <3>1. CASE q = a
        BY SMTT(30), <1>14, <3>1, Places DEF DiskTrue, MarkerTrue, Step, Planned, Changed,
             Content, Clean, ApplyConfirms
      <3>2. CASE q # a
        <4>1. proc'[q] = proc[q] /\ proc[q].pc \in {"idle"}
          BY <1>14, <3>2, Solo DEF SerialInv, TypeOK, Slots, ApplyConfirms, Cleared, Healthy
        <4>. QED BY <4>1 DEF Step
      <3>. QED BY <3>1, <3>2
    <2>. QED BY <2>1, <2>2, <2>3, <2>4 DEF DiskTrue
  <1>15. CASE ApplyEnds(a)
    <2>1. (Resting => Clean /\ deps = Content)'
      BY SMTT(30), <1>15, Places, Kinds DEF SerialInv, TypeOK, Slots, DiskTrue, Base,
           Target, Content, Index, Clean, Resting, Mover, Step, Restored, ApplyEnds, PointAt
    <2>2. (marker # NoMarker => MarkerTrue)'
      BY SMTT(30), <1>15, Places DEF Slots, ApplyEnds
    <2>3. (point.state = "kept" \/ At(Shell, "revert") => PointTrue)'
      <3>1. At(a, "tail") /\ Step(a) /\ UNCHANGED <<head, index>>
        BY <1>15 DEF ApplyEnds, DiskTrue, Slots
      <3>2. ~At(Shell, "revert")'
        BY <1>15, <3>1, PointFree DEF ApplyEnds, SerialInv, TypeOK, Slots, Idle
      <3>3. CASE point' = PointAt(a) /\ UNCHANGED copies
        <4>1. point'.back = proc[a].mk.back /\ point'.snapped = proc[a].mk.snapped
          BY <3>3 DEF PointAt
        <4>2. point'.merge # None => point'.merge = proc[a].mk.merge /\ head \ proc[a].mk.back = {proc[a].mk.merge}
          BY <3>3 DEF PointAt
        <4>3. proc[a].mk.merge \in Merges
          BY <3>1 DEF SerialInv, TypeOK, InPlace, Trails, Slots
        <4>4. Content = Base(proc[a].mk) => head \ proc[a].mk.back # {proc[a].mk.merge}
          BY <4>3 DEF Base, Content
        <4>. QED BY <3>1, <3>2, <3>3, <4>1, <4>2, <4>3, <4>4 DEF PointTrue, Step, Base, Target, Content
      <3>4. CASE point' = point
        BY <3>1, <3>2, <3>4, PointFree DEF Slots
      <3>. QED BY <1>15, <3>3, <3>4 DEF ApplyEnds
    <2>4. ASSUME NEW q \in Slots PROVE Step(q)'
      <3>1. CASE q = a
        BY <1>15, <3>1 DEF ApplyEnds, SerialInv, TypeOK, Step, Idle, Slots
      <3>2. CASE q # a
        <4>1. proc'[q] = proc[q] /\ proc[q].pc \in {"idle"}
          BY <1>15, <3>2, Solo DEF SerialInv, TypeOK, Slots, ApplyEnds, PointAt
        <4>. QED BY <4>1 DEF Step
      <3>. QED BY <3>1, <3>2
    <2>. QED BY <2>1, <2>2, <2>3, <2>4 DEF DiskTrue
  <1>16. CASE ApplyFails(a)
    <2>1. (Resting => Clean /\ deps = Content)'
      BY SMTT(30), <1>16, Places, Kinds DEF SerialInv, TypeOK, Slots, DiskTrue, Base,
           Target, Content, Index, Clean, Resting, Mover, Step, Restored, ApplyFails,
           Failing, Healthy
    <2>2. (marker # NoMarker => MarkerTrue)'
      BY SMTT(30), <1>16 DEF DiskTrue, Content, Index, MarkerTrue, ApplyFails
    <2>3. (point.state = "kept" \/ At(Shell, "revert") => PointTrue)'
      <3>1. point' = point /\ proc'[Shell] = proc[Shell]
        BY <1>16, PointFree DEF SerialInv, TypeOK, Slots, ApplyFails, Failing, Healthy
      <3>. QED BY <1>16, <3>1, PointFree DEF Slots, ApplyFails, Failing
    <2>4. ASSUME NEW q \in Slots PROVE Step(q)'
      <3>1. CASE q = a
        BY SMTT(30), <1>16, <3>1, Places DEF DiskTrue, MarkerTrue, SerialInv, TypeOK,
             ProcKinds, InPlace, Holds, Step, Planned, Changed, Content, ApplyFails, Failing
      <3>2. CASE q # a
        <4>1. proc'[q] = proc[q] /\ proc[q].pc \in {"idle"}
          BY <1>16, <3>2, Solo DEF SerialInv, TypeOK, Slots, ApplyFails, Failing, Healthy
        <4>. QED BY <4>1 DEF Step
      <3>. QED BY <3>1, <3>2
    <2>. QED BY <2>1, <2>2, <2>3, <2>4 DEF DiskTrue
  <1>. QED BY <1>1, <1>2, <1>3, <1>4, <1>5, <1>6, <1>7, <1>8, <1>9, <1>10, <1>11, <1>12, <1>13, <1>14,
       <1>15, <1>16 DEF ApplyNext

\* A recovery, and the rollback of a failed apply, keep what the disk promises.
LEMMA DiskUndo ==
  ASSUME Serial, ~Race("alarm"), ~Race("uncopied"), SerialInv, SerialInv', DiskTrue, ~told', NEW p \in Slots,
         RecoverReads(p) \/ BootReads \/ UndoNext(p)
  PROVE  DiskTrue'
  <1>1. CASE RecoverReads(p)
    <2>1. (Resting => Clean /\ deps = Content)'
      BY SMTT(30), <1>1, Places, Kinds DEF SerialInv, TypeOK, Slots, DiskTrue, Base, Target,
           Content, Index, Clean, Resting, Mover, Step, Restored, RecoverReads, Reads,
           Stale, Stamped
    <2>2. (marker # NoMarker => MarkerTrue)'
      BY SMTT(30), <1>1 DEF DiskTrue, Content, Index, MarkerTrue, RecoverReads
    <2>3. (point.state = "kept" \/ At(Shell, "revert") => PointTrue)'
      BY SMTT(30), <1>1 DEF DiskTrue, Content, PointTrue, RecoverReads, Reads
    <2>4. ASSUME NEW q \in Slots PROVE Step(q)'
      <3>1. CASE q = p
        BY SMTT(30), <1>1, <3>1 DEF Step, RecoverReads, Reads
      <3>2. CASE q # p
        <4>1. proc'[q] = proc[q] /\ proc[q].pc \in {"idle"} \cup Rolling \cup Trailing
          BY <1>1, <3>2, Places, Kinds DEF SerialInv, TypeOK, Slots, RecoverReads, Reads, Stale,
               Stamped, Serial, Unclaimed
        <4>. QED BY <1>1, <4>1, SameStep DEF RecoverReads, DiskTrue, Content, Index, Clean
      <3>. QED BY <3>1, <3>2
    <2>. QED BY <2>1, <2>2, <2>3, <2>4 DEF DiskTrue
  <1>2. CASE BootReads
    <2>1. (Resting => Clean /\ deps = Content)'
      <3>1. marker # NoMarker
        BY <1>2 DEF BootReads, SerialInv, MarkerInv
      <3>2. marker' # NoMarker
        BY <1>2, <3>1, DeadKind DEF BootReads, SerialInv
      <3>. QED BY <3>2 DEF Resting
    <2>2. (marker # NoMarker => MarkerTrue)'
      <3>1. MarkerTrue
        BY <1>2 DEF BootReads, SerialInv, MarkerInv, DiskTrue
      <3>2. marker'.merge = marker.merge /\ marker'.back = marker.back /\ marker'.snapped = marker.snapped
        BY <1>2, DeadKind DEF BootReads, SerialInv
      <3>. QED BY <1>2, <3>1, <3>2, SameMarker DEF BootReads
    <2>3. (point.state = "kept" \/ At(Shell, "revert") => PointTrue)'
      BY SMTT(30), <1>2, Places, Kinds DEF SerialInv, TypeOK, Slots, DiskTrue, Base, Target,
           Content, Index, Clean, PointTrue, Step, Restored, InPlace, MarkerInv, BootReads,
           Reads, Stale, Stamped
    <2>4. ASSUME NEW q \in Slots PROVE Step(q)'
      BY SMTT(30), <1>2 DEF SerialInv, TypeOK, Step, InPlace, BootReads, Reads
    <2>. QED BY <2>1, <2>2, <2>3, <2>4 DEF DiskTrue
  <1>3. CASE RecoverClaims(p)
    <2>1. (Resting => Clean /\ deps = Content)'
      BY SMTT(30), <1>3 DEF SerialInv, TypeOK, Resting, Mover, RecoverClaims
    <2>2. (marker # NoMarker => MarkerTrue)'
      <3>1. marker # NoMarker /\ proc[p].mk = Stamped(marker, p)
        BY <1>3, Kinds DEF RecoverClaims, SerialInv, InPlace, Claiming, Fresh
      <3>. QED BY <1>3, <3>1, SameMarker, StampedKind DEF RecoverClaims, AbortFirst, AbortMerge, DiskTrue, SerialInv
    <2>3. (point.state = "kept" \/ At(Shell, "revert") => PointTrue)'
      <3>1. point = NoPoint /\ p # Shell /\ At(Shell, "idle")
        BY <1>3, ClaimsAlone DEF RecoverClaims, Claiming, Slots
      <3>2. proc'[Shell] = proc[Shell]
        BY <1>3, <3>1 DEF RecoverClaims, SerialInv, TypeOK, Slots
      <3>. QED BY <1>3, <3>1, <3>2, Kinds DEF RecoverClaims
    <2>4. ASSUME NEW q \in Slots PROVE Step(q)'
      <3>1. CASE q = p
        <4>1. /\ proc'[p].mk = proc[p].mk /\ proc'[p].pc = "undo" /\ head' = head
              /\ proc'[p].diff = Changed(head, proc[p].mk.back)
          BY <1>3, Places DEF RecoverClaims, SerialInv, TypeOK, ProcKinds
        <4>. QED BY <3>1, <4>1 DEF Step, Planned, Changed, Content, Base
      <3>2. CASE q # p
        <4>1. proc'[q] = proc[q] /\ proc[q].pc \in {"idle"}
          BY <1>3, <3>2, ClaimsAlone DEF SerialInv, TypeOK, Slots, RecoverClaims, AbortFirst,
               AbortMerge, Changed
        <4>. QED BY <4>1 DEF Step
      <3>. QED BY <3>1, <3>2
    <2>. QED BY <2>1, <2>2, <2>3, <2>4 DEF DiskTrue
  <1>4. CASE Restores(p)
    <2>1. (Resting => Clean /\ deps = Content)'
      BY SMTT(30), <1>4, Places, Kinds DEF SerialInv, TypeOK, Slots, DiskTrue, Base, Target,
           Content, Index, Clean, Resting, Mover, Step, Restored, Restores
    <2>2. (marker # NoMarker => MarkerTrue)'
      BY SMTT(30), <1>4, Places DEF DiskTrue, Base, Target, Content, Index, MarkerTrue,
           Restores
    <2>3. (point.state = "kept" \/ At(Shell, "revert") => PointTrue)'
      <3>1. point' = point /\ proc'[Shell] = proc[Shell]
        BY <1>4, PointFree DEF SerialInv, TypeOK, Slots, Restores
      <3>. QED BY <1>4, <3>1, PointFree DEF Slots, Restores
    <2>4. ASSUME NEW q \in Slots PROVE Step(q)'
      <3>1. CASE q = p
        <4>1. /\ proc'[p].mk = proc[p].mk /\ proc'[p].pc = "commit"
              /\ index' = (index \ proc[p].diff) \cup (proc[p].diff \cap proc[p].mk.back)
          BY <1>4, Places DEF Restores, SerialInv, TypeOK, ProcKinds
        <4>2. Planned(p) /\ (Index = Base(proc[p].mk) \/ Index = Content)
          BY <1>4, Places, PointFree DEF Restores, DiskTrue, Step, MarkerTrue
        <4>3. Index' = Base(proc[p].mk)
          BY <4>1, <4>2 DEF Planned, Changed, Index, Base
        <4>. QED BY <3>1, <4>1, <4>3 DEF Step, Base
      <3>2. CASE q # p
        <4>1. proc'[q] = proc[q] /\ proc[q].pc \in {"idle"}
          BY <1>4, <3>2, Solo DEF SerialInv, TypeOK, Slots, Restores
        <4>. QED BY <4>1 DEF Step
      <3>. QED BY <3>1, <3>2
    <2>. QED BY <2>1, <2>2, <2>3, <2>4 DEF DiskTrue
  <1>5. CASE Commits(p)
    <2>1. (Resting => Clean /\ deps = Content)'
      BY SMTT(30), <1>5, Places, Kinds DEF SerialInv, TypeOK, Slots, DiskTrue, Base, Target,
           Content, Index, Clean, Resting, Mover, Step, Restored, Commits, CommitStaged
    <2>2. (marker # NoMarker => MarkerTrue)'
      BY SMTT(30), <1>5, Places DEF DiskTrue, Content, Index, MarkerTrue, Step, Commits,
           CommitStaged
    <2>3. (point.state = "kept" \/ At(Shell, "revert") => PointTrue)'
      <3>1. point' = point /\ proc'[Shell] = proc[Shell]
        BY <1>5, PointFree DEF SerialInv, TypeOK, Slots, Commits, CommitStaged
      <3>. QED BY <1>5, <3>1, PointFree DEF Slots, Commits
    <2>4. ASSUME NEW q \in Slots PROVE Step(q)'
      <3>1. CASE q = p
        BY SMTT(30), <1>5, <3>1 DEF DiskTrue, Step, Restored, Content, Index, Clean, Commits,
             CommitStaged
      <3>2. CASE q # p
        <4>1. proc'[q] = proc[q] /\ proc[q].pc \in {"idle"}
          BY <1>5, <3>2, Solo DEF SerialInv, TypeOK, Slots, Commits, CommitStaged
        <4>. QED BY <4>1 DEF Step
      <3>. QED BY <3>1, <3>2
    <2>. QED BY <2>1, <2>2, <2>3, <2>4 DEF DiskTrue
  <1>6. CASE GitFails(p)
    <2>1. (Resting => Clean /\ deps = Content)'
      <3>1. CASE marker' = Orphaned(p)
        BY <1>6, <3>1, OrphanedKind, Places DEF GitFails, SerialInv, Resting
      <3>2. CASE UNCHANGED marker
        BY <1>6, <3>2, Places DEF GitFails, Resting
      <3>. QED BY <1>6, <3>1, <3>2 DEF GitFails
    <2>2. (marker # NoMarker => MarkerTrue)'
      <3>1. MarkerTrue
        BY <1>6, Places DEF GitFails, DiskTrue
      <3>2. marker'.merge = marker.merge /\ marker'.back = marker.back /\ marker'.snapped = marker.snapped
        BY <1>6, OrphanedKind DEF GitFails, SerialInv
      <3>. QED BY <1>6, <3>1, <3>2, SameMarker DEF GitFails
    <2>3. (point.state = "kept" \/ At(Shell, "revert") => PointTrue)'
      <3>1. point' = point /\ proc'[Shell] = proc[Shell]
        BY <1>6, PointFree DEF SerialInv, TypeOK, Slots, GitFails, Orphaned
      <3>. QED BY <1>6, <3>1, PointFree DEF Slots, GitFails
    <2>4. ASSUME NEW q \in Slots PROVE Step(q)'
      <3>1. CASE q = p
        <4>1. proc'[p].pc \in {"idle", "alarm"}
          BY <1>6 DEF GitFails, SerialInv, TypeOK, ProcKinds, Idle
        <4>. QED BY <3>1, <4>1 DEF Step
      <3>2. CASE q # p
        <4>1. proc'[q] = proc[q] /\ proc[q].pc \in {"idle"}
          BY <1>6, <3>2, Solo DEF SerialInv, TypeOK, Slots, GitFails, Orphaned
        <4>. QED BY <4>1 DEF Step
      <3>. QED BY <3>1, <3>2
    <2>. QED BY <2>1, <2>2, <2>3, <2>4 DEF DiskTrue
  <1>7. CASE PutsBack(p)
    <2>1. (Resting => Clean /\ deps = Content)'
      BY SMTT(30), <1>7, Places DEF Resting, PutsBack
    <2>2. (marker # NoMarker => MarkerTrue)'
      BY SMTT(30), <1>7, Places DEF DiskTrue, Content, Index, MarkerTrue, PutsBack
    <2>3. (point.state = "kept" \/ At(Shell, "revert") => PointTrue)'
      <3>1. point' = point /\ proc'[Shell] = proc[Shell]
        BY <1>7, PointFree DEF SerialInv, TypeOK, Slots, PutsBack, AfterLoss, AfterDeps
      <3>. QED BY <1>7, <3>1, PointFree DEF Slots, PutsBack
    <2>4. ASSUME NEW q \in Slots PROVE Step(q)'
      <3>1. CASE q = p
        <4>1. PICK pc : /\ Goes(p, pc)
                        /\ \/ pc = "putting" /\ proc[p].mk.snapped /\ deps' = Broken
                           \/ pc \in {"rebuild", "alarm"}
                           \/ pc \in {"clear", "again", "confirm"} /\ deps' = Base(proc[p].mk)
          BY <1>7, AfterUndo DEF PutsBack, AfterLoss
        <4>2. proc'[p].pc = pc /\ proc'[p].mk = proc[p].mk
          BY <4>1, Places DEF SerialInv, TypeOK, ProcKinds
        <4>3. Restored(p) /\ UNCHANGED <<head, index, mergeHead>>
          BY <1>7, AfterUndo DEF PutsBack
        <4>. QED BY <3>1, <4>1, <4>2, <4>3 DEF Step, Restored, Base, Content, Clean
      <3>2. CASE q # p
        <4>1. proc'[q] = proc[q] /\ proc[q].pc \in {"idle"}
          BY <1>7, <3>2, Solo DEF SerialInv, TypeOK, Slots, PutsBack, AfterLoss, AfterDeps
        <4>. QED BY <4>1 DEF Step
      <3>. QED BY <3>1, <3>2
    <2>. QED BY <2>1, <2>2, <2>3, <2>4 DEF DiskTrue
  <1>8. CASE IsPutBack(p)
    <2>1. (Resting => Clean /\ deps = Content)'
      BY SMTT(30), <1>8, Places, Kinds DEF SerialInv, TypeOK, Slots, DiskTrue, Base, Target,
           Content, Index, Clean, Resting, Mover, Step, Restored, IsPutBack, AfterDeps
    <2>2. (marker # NoMarker => MarkerTrue)'
      BY SMTT(30), <1>8, Places, Kinds DEF SerialInv, TypeOK, Slots, DiskTrue, Base, Target,
           Content, Index, Clean, MarkerTrue, Step, Restored, Planned, Changed, IsPutBack,
           AfterDeps
    <2>3. (point.state = "kept" \/ At(Shell, "revert") => PointTrue)'
      <3>1. point' = point /\ proc'[Shell] = proc[Shell]
        BY <1>8, PointFree DEF SerialInv, TypeOK, Slots, IsPutBack, AfterDeps
      <3>. QED BY <1>8, <3>1, PointFree DEF Slots, IsPutBack
    <2>4. ASSUME NEW q \in Slots PROVE Step(q)'
      <3>1. CASE q = p
        <4>1. proc'[p].pc \in {"clear", "again", "confirm"} /\ proc'[p].mk = proc[p].mk
          BY <1>8, AfterUndo, Places DEF IsPutBack, SerialInv, TypeOK, ProcKinds
        <4>2. deps' = Base(proc[p].mk) /\ Restored(p) /\ UNCHANGED <<head, index, mergeHead>>
          BY <1>8, AfterUndo DEF IsPutBack, DiskTrue, Step
        <4>. QED BY <3>1, <4>1, <4>2 DEF Step, Restored, Base, Content, Clean
      <3>2. CASE q # p
        <4>1. proc'[q] = proc[q] /\ proc[q].pc \in {"idle"}
          BY <1>8, <3>2, Solo DEF SerialInv, TypeOK, Slots, IsPutBack, AfterDeps
        <4>. QED BY <4>1 DEF Step
      <3>. QED BY <3>1, <3>2
    <2>. QED BY <2>1, <2>2, <2>3, <2>4 DEF DiskTrue
  <1>9. CASE PutBackLost(p)
    <2>1. (Resting => Clean /\ deps = Content)'
      BY SMTT(30), <1>9, Places, Kinds DEF SerialInv, TypeOK, Slots, DiskTrue, Base, Target,
           Content, Index, Clean, Resting, Mover, Step, Restored, PutBackLost, AfterLoss,
           AfterDeps
    <2>2. (marker # NoMarker => MarkerTrue)'
      BY SMTT(30), <1>9 DEF DiskTrue, Content, Index, MarkerTrue, PutBackLost
    <2>3. (point.state = "kept" \/ At(Shell, "revert") => PointTrue)'
      <3>1. point' = point /\ proc'[Shell] = proc[Shell]
        BY <1>9, PointFree DEF SerialInv, TypeOK, Slots, PutBackLost, AfterLoss, AfterDeps
      <3>. QED BY <1>9, <3>1, PointFree DEF Slots, PutBackLost
    <2>4. ASSUME NEW q \in Slots PROVE Step(q)'
      <3>1. CASE q = p
        <4>1. PICK pc \in {"alarm", "rebuild", "clear", "again", "confirm"} :
                Goes(p, pc) /\ (p = Boot => pc = "alarm")
          BY <1>9 DEF PutBackLost, AfterLoss, AfterDeps
        <4>2. proc'[p].mk = proc[p].mk /\ proc'[p].pc \in {"alarm", "rebuild", "again", "confirm"}
          BY <1>9, <4>1, Places DEF PutBackLost, AfterLoss, AfterDeps, SerialInv, TypeOK, ProcKinds
        <4>3. Step(p) /\ At(p, "putting") /\ UNCHANGED <<head, index, mergeHead, deps>>
          BY <1>9 DEF PutBackLost, DiskTrue
        <4>. QED BY <3>1, <4>2, <4>3 DEF Step, Restored, Base, Content, Clean
      <3>2. CASE q # p
        <4>1. proc'[q] = proc[q] /\ proc[q].pc \in {"idle"}
          BY <1>9, <3>2, Solo DEF SerialInv, TypeOK, Slots, PutBackLost, AfterLoss, AfterDeps
        <4>. QED BY <4>1 DEF Step
      <3>. QED BY <3>1, <3>2
    <2>. QED BY <2>1, <2>2, <2>3, <2>4 DEF DiskTrue
  <1>10. CASE Rebuilds(p)
    <2>1. (Resting => Clean /\ deps = Content)'
      BY SMTT(30), <1>10, Places, Kinds DEF SerialInv, TypeOK, Slots, DiskTrue, Base,
           Target, Content, Index, Clean, Resting, Mover, Step, Restored, Rebuilds,
           AfterDeps
    <2>2. (marker # NoMarker => MarkerTrue)'
      BY SMTT(30), <1>10, Places, Kinds DEF SerialInv, TypeOK, Slots, DiskTrue, Base,
           Target, Content, Index, Clean, MarkerTrue, Step, Restored, Planned, Changed,
           Rebuilds, AfterDeps
    <2>3. (point.state = "kept" \/ At(Shell, "revert") => PointTrue)'
      <3>1. point' = point /\ proc'[Shell] = proc[Shell]
        BY <1>10, PointFree DEF SerialInv, TypeOK, Slots, Rebuilds, AfterDeps, Content
      <3>. QED BY <1>10, <3>1, PointFree DEF Slots, Rebuilds
    <2>4. ASSUME NEW q \in Slots PROVE Step(q)'
      <3>1. CASE q = p
        <4>1. proc'[p].pc \in {"clear", "again", "confirm"} /\ proc'[p].mk = proc[p].mk
          BY <1>10, AfterUndo, Places DEF Rebuilds, SerialInv, TypeOK, ProcKinds
        <4>2. deps' = Base(proc[p].mk) /\ Restored(p) /\ UNCHANGED <<head, index, mergeHead>>
          BY <1>10, AfterUndo DEF Rebuilds, DiskTrue, Step
        <4>. QED BY <3>1, <4>1, <4>2 DEF Step, Restored, Base, Content, Clean
      <3>2. CASE q # p
        <4>1. proc'[q] = proc[q] /\ proc[q].pc \in {"idle"}
          BY <1>10, <3>2, Solo DEF SerialInv, TypeOK, Slots, Rebuilds, AfterDeps, Content
        <4>. QED BY <4>1 DEF Step
      <3>. QED BY <3>1, <3>2
    <2>. QED BY <2>1, <2>2, <2>3, <2>4 DEF DiskTrue
  <1>11. CASE RestartsAgain(p)
    <2>1. (Resting => Clean /\ deps = Content)'
      BY SMTT(30), <1>11, Places, Kinds DEF SerialInv, TypeOK, Slots, DiskTrue, Base,
           Target, Content, Index, Clean, Resting, Mover, Step, Restored, RestartsAgain, Now
    <2>2. (marker # NoMarker => MarkerTrue)'
      BY SMTT(30), <1>11, Places, Kinds DEF SerialInv, TypeOK, Slots, DiskTrue, Base,
           Target, Content, Index, Clean, MarkerTrue, Step, Restored, Planned, Changed,
           RestartsAgain, Now
    <2>3. (point.state = "kept" \/ At(Shell, "revert") => PointTrue)'
      <3>1. point' = point /\ proc'[Shell] = proc[Shell]
        BY <1>11, PointFree DEF SerialInv, TypeOK, Slots, RestartsAgain, Now, Content
      <3>. QED BY <1>11, <3>1, PointFree DEF Slots, RestartsAgain
    <2>4. ASSUME NEW q \in Slots PROVE Step(q)'
      <3>1. CASE q = p
        <4>1. proc'[p] = [proc[p] EXCEPT !.pc = "confirm"] /\ proc[p].pc = "again"
          BY <1>11 DEF RestartsAgain, SerialInv, TypeOK, Slots
        <4>2. proc'[p].pc = "confirm" /\ proc'[p].mk = proc[p].mk
          BY <4>1, Places DEF ProcKinds
        <4>3. UNCHANGED <<head, index, mergeHead, deps>>
          BY <1>11 DEF RestartsAgain
        <4>4. Restored(p) /\ deps \in {Base(proc[p].mk), Broken}
          BY <4>1 DEF DiskTrue, Step
        <4>. QED BY <3>1, <4>2, <4>3, <4>4 DEF Step, Restored, Clean, Content, Base
      <3>2. CASE q # p
        <4>1. proc'[q] = proc[q] /\ proc[q].pc \in {"idle"}
          BY <1>11, <3>2, Solo DEF SerialInv, TypeOK, Slots, RestartsAgain, Now, Content
        <4>. QED BY <4>1 DEF Step
      <3>. QED BY <3>1, <3>2
    <2>. QED BY <2>1, <2>2, <2>3, <2>4 DEF DiskTrue
  <1>12. CASE Confirms(p)
    <2>1. (Resting => Clean /\ deps = Content)'
      BY SMTT(30), <1>12, Places, Kinds DEF SerialInv, TypeOK, Slots, DiskTrue, Base,
           Target, Content, Index, Clean, Resting, Mover, Step, Restored, Confirms, Healthy
    <2>2. (marker # NoMarker => MarkerTrue)'
      BY SMTT(30), <1>12 DEF DiskTrue, Content, Index, MarkerTrue, Confirms
    <2>3. (point.state = "kept" \/ At(Shell, "revert") => PointTrue)'
      <3>1. point' = point /\ proc'[Shell] = proc[Shell]
        BY <1>12, PointFree DEF SerialInv, TypeOK, Slots, Confirms, Healthy
      <3>. QED BY <1>12, <3>1, PointFree DEF Slots, Confirms
    <2>4. ASSUME NEW q \in Slots PROVE Step(q)'
      <3>1. CASE q = p
        <4>1. proc'[p] = [proc[p] EXCEPT !.pc = "clear"] /\ proc[p].pc = "confirm"
          BY <1>12 DEF Confirms, SerialInv, TypeOK, Slots
        <4>2. proc'[p].pc = "clear" /\ proc'[p].mk = proc[p].mk
          BY <4>1, Places DEF ProcKinds
        <4>3. UNCHANGED <<head, index, mergeHead, deps>>
          BY <1>12 DEF Confirms
        <4>4. Restored(p) /\ deps \in {Base(proc[p].mk), Broken}
          BY <4>1 DEF DiskTrue, Step
        <4>5. deps # Broken
          BY <1>12 DEF Confirms, Healthy, Now
        <4>. QED BY <3>1, <4>2, <4>3, <4>4, <4>5 DEF Step, Restored, Clean, Content, Base
      <3>2. CASE q # p
        <4>1. proc'[q] = proc[q] /\ proc[q].pc \in {"idle"}
          BY <1>12, <3>2, Solo DEF SerialInv, TypeOK, Slots, Confirms, Healthy
        <4>. QED BY <4>1 DEF Step
      <3>. QED BY <3>1, <3>2
    <2>. QED BY <2>1, <2>2, <2>3, <2>4 DEF DiskTrue
  <1>13. CASE NotRecovered(p)
    <2>1. (Resting => Clean /\ deps = Content)'
      BY SMTT(30), <1>13, Places, Kinds DEF SerialInv, TypeOK, Slots, DiskTrue, Base,
           Target, Content, Index, Clean, Resting, Mover, Step, Restored, NotRecovered
    <2>2. (marker # NoMarker => MarkerTrue)'
      BY SMTT(30), <1>13 DEF DiskTrue, Content, Index, MarkerTrue, NotRecovered
    <2>3. (point.state = "kept" \/ At(Shell, "revert") => PointTrue)'
      <3>1. point' = point /\ proc'[Shell] = proc[Shell]
        BY <1>13, PointFree DEF SerialInv, TypeOK, Slots, NotRecovered
      <3>. QED BY <1>13, <3>1, PointFree DEF Slots, NotRecovered
    <2>4. ASSUME NEW q \in Slots PROVE Step(q)'
      <3>1. CASE q = p
        <4>1. proc'[p].pc = "alarm"
          BY <1>13 DEF NotRecovered, SerialInv, TypeOK, ProcKinds
        <4>. QED BY <3>1, <4>1 DEF Step
      <3>2. CASE q # p
        <4>1. proc'[q] = proc[q] /\ proc[q].pc \in {"idle"}
          BY <1>13, <3>2, Solo DEF SerialInv, TypeOK, Slots, NotRecovered
        <4>. QED BY <4>1 DEF Step
      <3>. QED BY <3>1, <3>2
    <2>. QED BY <2>1, <2>2, <2>3, <2>4 DEF DiskTrue
  <1>14. CASE Clears(p)
    <2>1. (Resting => Clean /\ deps = Content)'
      BY SMTT(30), <1>14, Places, Kinds DEF SerialInv, TypeOK, Slots, DiskTrue, Base,
           Target, Content, Index, Clean, Resting, Mover, Step, Restored, Clears, Cleared
    <2>2. (marker # NoMarker => MarkerTrue)'
      BY SMTT(30), <1>14, Places, Kinds DEF SerialInv, TypeOK, Slots, DiskTrue, Base,
           Target, Content, Index, Clean, MarkerTrue, Step, Restored, Planned, Changed,
           Clears, Cleared
    <2>3. (point.state = "kept" \/ At(Shell, "revert") => PointTrue)'
      <3>1. point' = point /\ proc'[Shell] = proc[Shell]
        BY <1>14, PointFree DEF SerialInv, TypeOK, Slots, Clears, Cleared
      <3>. QED BY <1>14, <3>1, PointFree DEF Slots, Clears
    <2>4. ASSUME NEW q \in Slots PROVE Step(q)'
      <3>1. CASE q = p
        BY SMTT(30), <1>14, <3>1 DEF DiskTrue, Step, Restored, Content, Clean, Clears
      <3>2. CASE q # p
        <4>1. proc'[q] = proc[q] /\ proc[q].pc \in {"idle"}
          BY <1>14, <3>2, Solo DEF SerialInv, TypeOK, Slots, Clears, Cleared
        <4>. QED BY <4>1 DEF Step
      <3>. QED BY <3>1, <3>2
    <2>. QED BY <2>1, <2>2, <2>3, <2>4 DEF DiskTrue
  <1>15. CASE Tidies(p)
    <2>1. (Resting => Clean /\ deps = Content)'
      BY SMTT(30), <1>15, Places, Kinds DEF SerialInv, TypeOK, Slots, DiskTrue, Base,
           Target, Content, Index, Clean, Resting, Mover, Step, Restored, Tidies
    <2>2. (marker # NoMarker => MarkerTrue)'
      BY SMTT(30), <1>15, Places, Kinds DEF SerialInv, TypeOK, Slots, DiskTrue, Base,
           Target, Content, Index, Clean, MarkerTrue, Step, Restored, Planned, Changed,
           Tidies
    <2>3. (point.state = "kept" \/ At(Shell, "revert") => PointTrue)'
      <3>1. point' = point /\ proc'[Shell] = proc[Shell]
        BY <1>15, PointFree DEF SerialInv, TypeOK, Slots, Tidies
      <3>. QED BY <1>15, <3>1, PointFree DEF Slots, Tidies
    <2>4. ASSUME NEW q \in Slots PROVE Step(q)'
      <3>1. CASE q = p
        BY ZenonT(40), <1>15, <3>1, Places DEF DiskTrue, MarkerTrue, SerialInv, TypeOK, Slots, ProcKinds,
             InPlace, Holds, Step, Restored, Planned, Changed, Base, Target, Content, Index,
             Clean, Now, Tidies
      <3>2. CASE q # p
        <4>1. proc'[q] = proc[q] /\ proc[q].pc \in {"idle"}
          BY <1>15, <3>2, Solo DEF SerialInv, TypeOK, Slots, Tidies
        <4>. QED BY <4>1 DEF Step
      <3>. QED BY <3>1, <3>2
    <2>. QED BY <2>1, <2>2, <2>3, <2>4 DEF DiskTrue
  <1>16. CASE GivesUp(p)
    <2>1. (Resting => Clean /\ deps = Content)'
      BY SMTT(30), <1>16, Places, Kinds DEF SerialInv, TypeOK, Slots, DiskTrue, Base,
           Target, Content, Index, Clean, Resting, Mover, Step, Restored, GivesUp, Cleared
    <2>2. (marker # NoMarker => MarkerTrue)'
      BY SMTT(30), <1>16 DEF GivesUp, Cleared
    <2>3. (point.state = "kept" \/ At(Shell, "revert") => PointTrue)'
      <3>1. point' = point /\ proc'[Shell] = proc[Shell]
        BY <1>16, PointFree DEF SerialInv, TypeOK, Slots, GivesUp, Cleared
      <3>. QED BY <1>16, <3>1, PointFree DEF Slots, GivesUp
    <2>4. ASSUME NEW q \in Slots PROVE Step(q)'
      <3>1. CASE q = p
        BY SMTT(30), <1>16, <3>1 DEF Step, GivesUp
      <3>2. CASE q # p
        <4>1. proc'[q] = proc[q] /\ proc[q].pc \in {"idle"}
          BY <1>16, <3>2, Solo DEF SerialInv, TypeOK, Slots, GivesUp, Cleared
        <4>. QED BY <4>1 DEF Step
      <3>. QED BY <3>1, <3>2
    <2>. QED BY <2>1, <2>2, <2>3, <2>4 DEF DiskTrue
  <1>17. CASE Alarms(p)
    <2>1. (Resting => Clean /\ deps = Content)'
      BY SMTT(30), <1>17, Places, Kinds DEF SerialInv, TypeOK, Slots, DiskTrue, Base,
           Target, Content, Index, Clean, Resting, Mover, Step, Restored, Alarms
    <2>2. (marker # NoMarker => MarkerTrue)'
      BY SMTT(30), <1>17, Places, Kinds DEF SerialInv, TypeOK, Slots, DiskTrue, Base,
           Target, Content, Index, Clean, MarkerTrue, Step, Restored, Planned, Changed,
           Alarms
    <2>3. (point.state = "kept" \/ At(Shell, "revert") => PointTrue)'
      <3>1. point' = point /\ proc'[Shell] = proc[Shell]
        BY <1>17, PointFree DEF SerialInv, TypeOK, Slots, Alarms
      <3>. QED BY <1>17, <3>1, PointFree DEF Slots, Alarms
    <2>4. ASSUME NEW q \in Slots PROVE Step(q)'
      <3>1. CASE q = p
        BY ZenonT(40), <1>17, <3>1, Places DEF DiskTrue, MarkerTrue, SerialInv, TypeOK, Slots,
             ProcKinds, InPlace, Holds, Step, Restored, Planned, Changed, Base, Target,
             Content, Index, Clean, Now, Alarms
      <3>2. CASE q # p
        <4>1. proc'[q] = proc[q] /\ proc[q].pc \in {"idle"}
          BY <1>17, <3>2, Solo DEF SerialInv, TypeOK, Slots, Alarms
        <4>. QED BY <4>1 DEF Step
      <3>. QED BY <3>1, <3>2
    <2>. QED BY <2>1, <2>2, <2>3, <2>4 DEF DiskTrue
  <1>. QED BY <1>1, <1>2, <1>3, <1>4, <1>5, <1>6, <1>7, <1>8, <1>9, <1>10, <1>11, <1>12, <1>13, <1>14,
       <1>15, <1>16, <1>17 DEF UndoNext

\* The notice's rollback and confirmation keep what the disk promises.
LEMMA DiskRollback ==
  ASSUME Serial, ~Race("alarm"), ~Race("uncopied"), SerialInv, SerialInv', DiskTrue, ~told',
         RollbackStarts \/ RollbackNext \/ ConfirmLast
  PROVE  DiskTrue'
  <1>1. CASE RollbackStarts
    <2>1. (Resting => Clean /\ deps = Content)'
      BY SMTT(30), <1>1, Places, Kinds DEF SerialInv, TypeOK, Slots, DiskTrue, Base, Target,
           Content, Index, Clean, Resting, Mover, Step, Restored, RollbackStarts
    <2>2. (marker # NoMarker => MarkerTrue)'
      BY SMTT(30), <1>1, Places, Kinds DEF SerialInv, TypeOK, Slots, DiskTrue, Base, Target,
           Content, Index, Clean, MarkerTrue, Step, Restored, Planned, Changed,
           RollbackStarts
    <2>3. (point.state = "kept" \/ At(Shell, "revert") => PointTrue)'
      BY SMTT(30), <1>1, Places, Kinds DEF SerialInv, TypeOK, Slots, DiskTrue, Base, Target,
           Content, Index, Clean, PointTrue, Step, Restored, InPlace, MarkerInv,
           RollbackStarts
    <2>4. ASSUME NEW q \in Slots PROVE Step(q)'
      <3>1. CASE q = Shell
        <4>1. Resting
          <5>1. marker = NoMarker
            BY <1>1, Kinds DEF RollbackStarts, SerialInv, MarkerInv
          <5>2. \A p \in Slots : ~Mover(p)
            BY <1>1, <5>1, Kinds, Places DEF RollbackStarts, Mover, SerialInv, InPlace, Trails, RollsBack
          <5>. QED BY <1>1, <5>1, <5>2 DEF RollbackStarts, Resting
        <4>. QED BY <1>1, <3>1, <4>1 DEF RollbackStarts, DiskTrue, Step, Clean, Content, SerialInv, TypeOK, Slots
      <3>2. CASE q # Shell
        <4>1. proc'[q] = proc[q] /\ proc[q].pc \in {"idle", "claim"}
          BY <1>1, <3>2, Solo, Places, Kinds DEF SerialInv, TypeOK, Slots, RollbackStarts,
               Mover, InPlace, Trails, RollsBack, MarkerInv
        <4>2. UNCHANGED <<head, index, mergeHead, landed, marker>> /\ Step(q)
          BY <1>1 DEF RollbackStarts, DiskTrue
        <4>. QED BY <4>1, <4>2 DEF Step, Fresh, Base, Target, Content, Clean
      <3>. QED BY <3>1, <3>2
    <2>. QED BY <2>1, <2>2, <2>3, <2>4 DEF DiskTrue
  <1>2. CASE Reverts
    <2>1. (Resting => Clean /\ deps = Content)'
      BY SMTT(30), <1>2, Places, Kinds DEF SerialInv, TypeOK, Slots, DiskTrue, Base, Target,
           Content, Index, Clean, Resting, Mover, Step, Restored, Reverts, WithoutUpdate
    <2>2. (marker # NoMarker => MarkerTrue)'
      BY SMTT(30), <1>2, Places, Kinds DEF SerialInv, TypeOK, Slots, DiskTrue, Base, Target,
           Content, Index, Clean, MarkerTrue, Step, Restored, Planned, Changed, Reverts,
           WithoutUpdate
    <2>3. (point.state = "kept" \/ At(Shell, "revert") => PointTrue)'
      BY SMTT(30), <1>2 DEF DiskTrue, Content, PointTrue, Reverts
    <2>4. ASSUME NEW q \in Slots PROVE Step(q)'
      <3>1. CASE q = Shell
        <4>1. /\ At(Shell, "revert") /\ PointTrue /\ Step(Shell)
              /\ UNCHANGED <<head, point, copies>> /\ index' = index \ {point.merge} /\ point.merge # None
          BY <1>2 DEF Reverts, WithoutUpdate, DiskTrue, SerialInv, TypeOK, Changes, Slots
        <4>2. Index' = Base(point)
          BY <4>1 DEF PointTrue, Step, Index, Content, Base, Target, Clean
        <4>3. At(Shell, "recommit")'
          BY <1>2 DEF Reverts, SerialInv, TypeOK, Slots, ProcKinds
        <4>. QED BY <3>1, <4>1, <4>2, <4>3 DEF Step, PointTrue, Base
      <3>2. CASE q # Shell
        <4>1. proc'[q] = proc[q] /\ proc[q].pc \in {"idle"}
          BY <1>2, <3>2, Solo, Places DEF SerialInv, TypeOK, Slots, Reverts, WithoutUpdate,
               Serial, Unclaimed, Mover
        <4>. QED BY <4>1 DEF Step
      <3>. QED BY <3>1, <3>2
    <2>. QED BY <2>1, <2>2, <2>3, <2>4 DEF DiskTrue
  <1>3. CASE RevertRefused
    <2>1. (Resting => Clean /\ deps = Content)'
      BY SMTT(30), <1>3, Places, Kinds DEF SerialInv, TypeOK, Slots, DiskTrue, Base, Target,
           Content, Index, Clean, Resting, Mover, Step, Restored, RevertRefused, Settled
    <2>2. (marker # NoMarker => MarkerTrue)'
      BY SMTT(30), <1>3, Places, Kinds DEF SerialInv, TypeOK, Slots, DiskTrue, Base, Target,
           Content, Index, Clean, MarkerTrue, Step, Restored, Planned, Changed,
           RevertRefused, Settled
    <2>3. (point.state = "kept" \/ At(Shell, "revert") => PointTrue)'
      BY SMTT(30), <1>3, Places, Kinds DEF SerialInv, TypeOK, Slots, DiskTrue, Base, Target,
           Content, Index, Clean, PointTrue, Step, Restored, InPlace, MarkerInv,
           RevertRefused, Settled
    <2>4. ASSUME NEW q \in Slots PROVE Step(q)'
      <3>1. CASE q = Shell
        BY SMTT(30), <1>3, <3>1 DEF SerialInv, Slots, InPlace, Step, RevertRefused, Settled,
             RollsBack
      <3>2. CASE q # Shell
        <4>1. proc'[q] = proc[q] /\ proc[q].pc \in {"idle", "claim"}
          BY <1>3, <3>2, Solo, Places DEF SerialInv, TypeOK, Slots, RevertRefused, Settled,
               Mover, InPlace, Trails, RollsBack, MarkerInv
        <4>. QED BY SMTT(30), <1>3, <4>1 DEF DiskTrue, Step, Content, Clean, Fresh,
                      RevertRefused
      <3>. QED BY <3>1, <3>2
    <2>. QED BY <2>1, <2>2, <2>3, <2>4 DEF DiskTrue
  <1>4. CASE RevertCommits
    <2>1. (Resting => Clean /\ deps = Content)'
      BY SMTT(30), <1>4, Places, Kinds DEF SerialInv, TypeOK, Slots, DiskTrue, Base, Target,
           Content, Index, Clean, Resting, Mover, Step, Restored, RevertCommits,
           CommitStaged
    <2>2. (marker # NoMarker => MarkerTrue)'
      BY SMTT(30), <1>4, Places DEF Slots, RevertCommits
    <2>3. (point.state = "kept" \/ At(Shell, "revert") => PointTrue)'
      <3>1. point'.state = "reverting"
        BY <1>4 DEF RevertCommits, SerialInv, InPlace, RollsBack, Slots
      <3>2. At(Shell, "putback")'
        BY <1>4 DEF RevertCommits, SerialInv, TypeOK, Slots, ProcKinds
      <3>. QED BY <3>1, <3>2
    <2>4. ASSUME NEW q \in Slots PROVE Step(q)'
      <3>1. CASE q = Shell
        BY SMTT(30), <1>4, <3>1 DEF DiskTrue, Step, Content, Index, Clean, RevertCommits,
             CommitStaged
      <3>2. CASE q # Shell
        <4>1. proc'[q] = proc[q] /\ proc[q].pc \in {"idle"}
          BY <1>4, <3>2, Solo, Places DEF SerialInv, TypeOK, Slots, RevertCommits, CommitStaged,
               Serial, Unclaimed, Mover
        <4>. QED BY <4>1 DEF Step
      <3>. QED BY <3>1, <3>2
    <2>. QED BY <2>1, <2>2, <2>3, <2>4 DEF DiskTrue
  <1>5. CASE PointPutBack
    <2>1. (Resting => Clean /\ deps = Content)'
      <3>1. PICK pc \in {"puttingback", "programs"} : Goes(Shell, pc)
        BY <1>5 DEF PointPutBack
      <3>2. proc'[Shell].pc = pc /\ point' = point
        BY <1>5, <3>1 DEF PointPutBack, SerialInv, TypeOK, Slots, ProcKinds
      <3>. QED BY <3>2 DEF Resting, Mover, Slots
    <2>2. (marker # NoMarker => MarkerTrue)'
      BY SMTT(30), <1>5, Places, Kinds DEF SerialInv, TypeOK, Slots, DiskTrue, Base, Target,
           Content, Index, Clean, MarkerTrue, Step, Restored, Planned, Changed, PointPutBack
    <2>3. (point.state = "kept" \/ At(Shell, "revert") => PointTrue)'
      <3>1. PICK pc \in {"puttingback", "programs"} : Goes(Shell, pc)
        BY <1>5 DEF PointPutBack
      <3>2. proc'[Shell].pc = pc /\ point' = point
        BY <1>5, <3>1 DEF PointPutBack, SerialInv, TypeOK, Slots, ProcKinds
      <3>3. point.state = "reverting"
        BY <1>5 DEF PointPutBack, SerialInv, InPlace, RollsBack, Slots
      <3>. QED BY <3>2, <3>3
    <2>4. ASSUME NEW q \in Slots PROVE Step(q)'
      <3>1. CASE q = Shell
        BY SMTT(30), <1>5, <3>1 DEF DiskTrue, SerialInv, TypeOK, ProcKinds, Step, Content,
             Clean, PointPutBack
      <3>2. CASE q # Shell
        <4>1. proc'[q] = proc[q] /\ proc[q].pc \in {"idle", "claim"}
          BY <1>5, <3>2, Solo, Places DEF SerialInv, TypeOK, Slots, PointPutBack, Mover,
               InPlace, Trails, RollsBack, MarkerInv
        <4>. QED BY SMTT(30), <1>5, <4>1, Places DEF DiskTrue, SerialInv, InPlace, Trails,
             RollsBack, Step, Restored, Planned, Changed, Base, Target, Content, Index,
             Clean, Now, Fresh, PointPutBack
      <3>. QED BY <3>1, <3>2
    <2>. QED BY <2>1, <2>2, <2>3, <2>4 DEF DiskTrue
  <1>6. CASE PointIsBack
    <2>1. (Resting => Clean /\ deps = Content)'
      BY SMTT(30), <1>6, Places, Kinds DEF SerialInv, TypeOK, Slots, DiskTrue, Base, Target,
           Content, Index, Clean, Resting, Mover, Step, Restored, PointIsBack
    <2>2. (marker # NoMarker => MarkerTrue)'
      BY SMTT(30), <1>6, Places DEF Slots, PointIsBack
    <2>3. (point.state = "kept" \/ At(Shell, "revert") => PointTrue)'
      BY SMTT(30), <1>6, Places, Kinds DEF SerialInv, TypeOK, Slots, DiskTrue, Base, Target,
           Content, Index, Clean, PointTrue, Step, Restored, InPlace, MarkerInv, PointIsBack
    <2>4. ASSUME NEW q \in Slots PROVE Step(q)'
      <3>1. CASE q = Shell
        BY SMTT(30), <1>6, <3>1 DEF DiskTrue, Step, Content, Clean, PointIsBack
      <3>2. CASE q # Shell
        <4>1. proc'[q] = proc[q] /\ proc[q].pc \in {"idle", "claim"}
          BY <1>6, <3>2, Solo, Places DEF SerialInv, TypeOK, Slots, PointIsBack, Mover, InPlace,
               Trails, RollsBack, MarkerInv
        <4>. QED BY SMTT(30), <1>6, <4>1 DEF DiskTrue, Step, Content, Clean, Fresh, PointIsBack
      <3>. QED BY <3>1, <3>2
    <2>. QED BY <2>1, <2>2, <2>3, <2>4 DEF DiskTrue
  <1>7. CASE RollbackRestarts
    <2>1. (Resting => Clean /\ deps = Content)'
      BY SMTT(30), <1>7, Places, Kinds DEF SerialInv, TypeOK, Slots, DiskTrue, Base, Target,
           Content, Index, Clean, Resting, Mover, Step, Restored, RollbackRestarts, Now
    <2>2. (marker # NoMarker => MarkerTrue)'
      BY SMTT(30), <1>7, Places, Kinds DEF SerialInv, TypeOK, Slots, DiskTrue, Base, Target,
           Content, Index, Clean, MarkerTrue, Step, Restored, Planned, Changed,
           RollbackRestarts, Now
    <2>3. (point.state = "kept" \/ At(Shell, "revert") => PointTrue)'
      BY SMTT(30), <1>7 DEF DiskTrue, Content, PointTrue, RollbackRestarts
    <2>4. ASSUME NEW q \in Slots PROVE Step(q)'
      <3>1. CASE q = Shell
        BY SMTT(30), <1>7, <3>1 DEF DiskTrue, Step, Content, Clean, RollbackRestarts
      <3>2. CASE q # Shell
        <4>1. proc'[q] = proc[q] /\ proc[q].pc \in {"idle", "claim"}
          BY <1>7, <3>2, Solo, Places DEF SerialInv, TypeOK, Slots, RollbackRestarts, Now,
               Content, Mover, InPlace, Trails, RollsBack, MarkerInv
        <4>. QED BY SMTT(30), <1>7, <4>1 DEF DiskTrue, Step, Content, Clean, Fresh,
                      RollbackRestarts
      <3>. QED BY <3>1, <3>2
    <2>. QED BY <2>1, <2>2, <2>3, <2>4 DEF DiskTrue
  <1>8. CASE RollbackNeedsRestart
    <2>1. (Resting => Clean /\ deps = Content)'
      BY SMTT(30), <1>8, Places, Kinds DEF SerialInv, TypeOK, Slots, DiskTrue, Base, Target,
           Content, Index, Clean, Resting, Mover, Step, Restored, RollbackNeedsRestart,
           Settled
    <2>2. (marker # NoMarker => MarkerTrue)'
      BY SMTT(30), <1>8 DEF RollbackNeedsRestart
    <2>3. (point.state = "kept" \/ At(Shell, "revert") => PointTrue)'
      BY SMTT(30), <1>8 DEF RollbackNeedsRestart
    <2>4. ASSUME NEW q \in Slots PROVE Step(q)'
      <3>1. CASE q = Shell
        BY SMTT(30), <1>8, <3>1 DEF RollbackNeedsRestart
      <3>2. CASE q # Shell
        <4>1. proc'[q] = proc[q] /\ proc[q].pc \in {"idle", "claim"}
          BY <1>8, <3>2, Solo, Places DEF SerialInv, TypeOK, Slots, RollbackNeedsRestart,
               Settled, Mover, InPlace, Trails, RollsBack, MarkerInv
        <4>. QED BY SMTT(30), <1>8, <4>1, Places DEF DiskTrue, SerialInv, InPlace, Trails,
             RollsBack, Step, Restored, Planned, Changed, Base, Target, Content, Index,
             Clean, Now, Fresh, RollbackNeedsRestart
      <3>. QED BY <3>1, <3>2
    <2>. QED BY <2>1, <2>2, <2>3, <2>4 DEF DiskTrue
  <1>9. CASE RollbackDone
    <2>1. (Resting => Clean /\ deps = Content)'
      BY SMTT(30), <1>9, Places, Kinds DEF SerialInv, TypeOK, Slots, DiskTrue, Base, Target,
           Content, Index, Clean, Resting, Mover, Step, Restored, RollbackDone, Settled
    <2>2. (marker # NoMarker => MarkerTrue)'
      BY SMTT(30), <1>9, Places DEF Slots, RollbackDone
    <2>3. (point.state = "kept" \/ At(Shell, "revert") => PointTrue)'
      BY SMTT(30), <1>9 DEF SerialInv, Slots, InPlace, RollbackDone, Settled
    <2>4. ASSUME NEW q \in Slots PROVE Step(q)'
      <3>1. CASE q = Shell
        BY SMTT(30), <1>9, <3>1 DEF SerialInv, Slots, InPlace, Step, RollbackDone, Settled,
             RollsBack
      <3>2. CASE q # Shell
        <4>1. proc'[q] = proc[q] /\ proc[q].pc \in {"idle", "claim"}
          BY <1>9, <3>2, Solo, Places DEF SerialInv, TypeOK, Slots, RollbackDone, Settled,
               Mover, InPlace, Trails, RollsBack, MarkerInv
        <4>. QED BY SMTT(30), <1>9, <4>1 DEF DiskTrue, Step, Content, Clean, Fresh,
                      RollbackDone
      <3>. QED BY <3>1, <3>2
    <2>. QED BY <2>1, <2>2, <2>3, <2>4 DEF DiskTrue
  <1>10. CASE RollbackFails
    <2>1. (Resting => Clean /\ deps = Content)'
      BY SMTT(30), <1>10, Places, Kinds DEF SerialInv, TypeOK, Slots, DiskTrue, Base,
           Target, Content, Index, Clean, Resting, Mover, Step, Restored, RollbackFails,
           Settled
    <2>2. (marker # NoMarker => MarkerTrue)'
      BY SMTT(30), <1>10 DEF RollbackFails
    <2>3. (point.state = "kept" \/ At(Shell, "revert") => PointTrue)'
      BY SMTT(30), <1>10 DEF RollbackFails
    <2>4. ASSUME NEW q \in Slots PROVE Step(q)'
      <3>1. CASE q = Shell
        BY ZenonT(40), <1>10, <3>1, Places DEF DiskTrue, MarkerTrue, SerialInv, TypeOK, Slots, ProcKinds,
             InPlace, Holds, Step, Restored, Planned, Changed, Base, Target, Content, Index,
             Clean, Now, RollbackFails, Settled, PointTrue, RollsBack
      <3>2. CASE q # Shell
        <4>1. proc'[q] = proc[q] /\ proc[q].pc \in {"idle", "claim"}
          BY <1>10, <3>2, Solo, Places DEF SerialInv, TypeOK, Slots, RollbackFails, Settled,
               Mover, InPlace, Trails, RollsBack, MarkerInv
        <4>. QED BY SMTT(30), <1>10, <4>1 DEF RollbackFails
      <3>. QED BY <3>1, <3>2
    <2>. QED BY <2>1, <2>2, <2>3, <2>4 DEF DiskTrue
  <1>11. CASE ConfirmLast
    <2>1. (Resting => Clean /\ deps = Content)'
      BY ZenonT(40), <1>11, Places, Kinds DEF SerialInv, TypeOK, Slots, DiskTrue, Base, Target, Content,
           Index, Clean, Resting, Mover, Step, Restored, ConfirmLast, Locked
    <2>2. (marker # NoMarker => MarkerTrue)'
      <3>1. marker = NoMarker
        BY <1>11 DEF ConfirmLast, SerialInv, MarkerInv
      <3>. QED BY <1>11, <3>1 DEF ConfirmLast
    <2>3. (point.state = "kept" \/ At(Shell, "revert") => PointTrue)'
      <3>1. ~At(Shell, "revert")
        BY <1>11 DEF ConfirmLast, Locked, SerialInv, InPlace, RollsBack, Slots
      <3>. QED BY <1>11, <3>1, Kinds DEF ConfirmLast
    <2>4. ASSUME NEW q \in Slots PROVE Step(q)'
      <3>1. proc[q].pc \notin Rolling \cup Trailing
        BY <1>11 DEF ConfirmLast, Locked, SerialInv, InPlace, RollsBack, Trails
      <3>. QED BY <1>11, <3>1, SameStep DEF ConfirmLast, DiskTrue, Content, Index, Clean
    <2>. QED BY <2>1, <2>2, <2>3, <2>4 DEF DiskTrue
  <1>. QED BY <1>1, <1>2, <1>3, <1>4, <1>5, <1>6, <1>7, <1>8, <1>9, <1>10, <1>11 DEF RollbackNext

\* Kills, restarts and others' work keep what the disk promises.
LEMMA DiskOther ==
  ASSUME Serial, ~Race("alarm"), ~Race("uncopied"), SerialInv, SerialInv', DiskTrue, ~told',
         \/ \E m \in Merges : Dispatch(m)
         \/ \E p \in Slots : Kill(p)
         \/ Restart \/ ServicesStart
         \/ \E w \in Work : Works(w)
         \/ UNCHANGED vars
  PROVE  DiskTrue'
  <1>1. ASSUME NEW m \in Merges, Dispatch(m) PROVE DiskTrue'
    <2>1. (Resting => Clean /\ deps = Content)'
      BY SMTT(30), <1>1, Places, Kinds DEF SerialInv, TypeOK, Slots, DiskTrue, Base, Target,
           Content, Index, Clean, Resting, Mover, Step, Restored, Dispatch
    <2>2. (marker # NoMarker => MarkerTrue)'
      BY SMTT(30), <1>1, Places, Kinds DEF SerialInv, TypeOK, Slots, DiskTrue, Base, Target,
           Content, Index, Clean, MarkerTrue, Step, Restored, Planned, Changed, Dispatch
    <2>3. (point.state = "kept" \/ At(Shell, "revert") => PointTrue)'
      BY SMTT(30), <1>1, Places, Kinds DEF SerialInv, TypeOK, Slots, DiskTrue, Base, Target,
           Content, Index, Clean, PointTrue, Step, Restored, InPlace, MarkerInv, Dispatch
    <2>4. ASSUME NEW q \in Slots PROVE Step(q)'
      BY SMTT(30), <1>1 DEF Dispatch, DiskTrue, Fresh, Step, Restored, Planned, Changed,
           Base, Target, Content, Index, Clean, Now
    <2>. QED BY <2>1, <2>2, <2>3, <2>4 DEF DiskTrue
  <1>2. ASSUME NEW p \in Slots, Kill(p) PROVE DiskTrue'
    <2>1. (Resting => Clean /\ deps = Content)'
      <3>. SUFFICES ASSUME Resting' PROVE Clean /\ deps = Content
        BY <1>2 DEF Kill, Clean, Content
      <3>1. marker = NoMarker /\ point.state # "reverting"
        BY <1>2, OrphanedKind DEF Kill, Resting, SerialInv
      <3>2. CASE \A q \in Slots : ~Mover(q)
        BY <3>1, <3>2 DEF DiskTrue, Resting
      <3>3. CASE \E q \in Slots : Mover(q)
        <4>1. PICK q \in Slots : Mover(q)
          BY <3>3
        <4>2. At(q, "tail") \/ At(q, "tidy") \/ At(q, "alarming")
          BY <3>1, <4>1, Places DEF Mover, SerialInv, InPlace, RollsBack
        <4>3. ~At(q, "alarming")
          BY <1>2, <4>1 DEF Kill, Resting, Mover, SerialInv, TypeOK
        <4>. QED BY <4>2, <4>3 DEF DiskTrue, Step, Restored
      <3>. QED BY <3>2, <3>3
    <2>2. (marker # NoMarker => MarkerTrue)'
      BY SMTT(30), <1>2, Places, Kinds DEF SerialInv, TypeOK, Slots, DiskTrue, Base, Target,
           Content, Index, Clean, MarkerTrue, Step, Restored, Planned, Changed, Kill,
           Orphaned
    <2>3. (point.state = "kept" \/ At(Shell, "revert") => PointTrue)'
      BY SMTT(30), <1>2 DEF SerialInv, Slots, DiskTrue, Content, PointTrue, InPlace, Kill
    <2>4. ASSUME NEW q \in Slots PROVE Step(q)'
      <3>1. CASE q = p
        BY <1>2, <3>1 DEF Kill, SerialInv, TypeOK, Step, Idle
      <3>2. CASE q # p
        <4>1. marker' = NoMarker => marker = NoMarker
          BY <1>2, OrphanedKind DEF Kill, SerialInv
        <4>. QED BY <1>2, <3>2, <4>1, SameStep DEF Kill, SerialInv, TypeOK, DiskTrue, Content, Index, Clean
      <3>. QED BY <3>1, <3>2
    <2>. QED BY <2>1, <2>2, <2>3, <2>4 DEF DiskTrue
  <1>3. CASE Restart
    <2>1. (Resting => Clean /\ deps = Content)'
      <3>. SUFFICES ASSUME Resting' PROVE Clean /\ deps = Content
        BY <1>3 DEF Restart, Clean, Content
      <3>1. marker = NoMarker /\ point.state # "reverting"
        BY <1>3, DeadKind DEF Restart, Resting, SerialInv
      <3>2. CASE \A q \in Slots : ~Mover(q)
        BY <3>1, <3>2 DEF DiskTrue, Resting
      <3>3. CASE \E q \in Slots : Mover(q)
        <4>1. PICK q \in Slots : Mover(q)
          BY <3>3
        <4>2. At(q, "tail") \/ At(q, "tidy") \/ At(q, "alarming")
          BY <3>1, <4>1, Places DEF Mover, SerialInv, InPlace, RollsBack
        <4>3. ~At(q, "alarming")
          BY <1>3, <4>1 DEF Restart, Resting, Mover, SerialInv, TypeOK
        <4>. QED BY <4>2, <4>3 DEF DiskTrue, Step, Restored
      <3>. QED BY <3>2, <3>3
    <2>2. (marker # NoMarker => MarkerTrue)'
      BY SMTT(30), <1>3, Places, Kinds DEF SerialInv, TypeOK, Slots, DiskTrue, Base, Target,
           Content, Index, Clean, MarkerTrue, Step, Restored, Planned, Changed, Restart
    <2>3. (point.state = "kept" \/ At(Shell, "revert") => PointTrue)'
      BY SMTT(30), <1>3 DEF SerialInv, Slots, DiskTrue, Content, PointTrue, InPlace, Restart
    <2>4. ASSUME NEW q \in Slots PROVE Step(q)'
      BY <1>3 DEF Restart, Step, Idle
    <2>. QED BY <2>1, <2>2, <2>3, <2>4 DEF DiskTrue
  <1>4. CASE ServicesStart
    <2>1. (Resting => Clean /\ deps = Content)'
      BY SMTT(30), <1>4, Places, Kinds DEF SerialInv, TypeOK, Slots, DiskTrue, Base, Target,
           Content, Index, Clean, Resting, Mover, Step, Restored, ServicesStart, Now
    <2>2. (marker # NoMarker => MarkerTrue)'
      BY SMTT(30), <1>4, Places, Kinds DEF SerialInv, TypeOK, Slots, DiskTrue, Base, Target,
           Content, Index, Clean, MarkerTrue, Step, Restored, Planned, Changed,
           ServicesStart, Now
    <2>3. (point.state = "kept" \/ At(Shell, "revert") => PointTrue)'
      BY SMTT(30), <1>4, Places, Kinds DEF SerialInv, TypeOK, Slots, DiskTrue, Base, Target,
           Content, Index, Clean, PointTrue, Step, Restored, InPlace, MarkerInv,
           ServicesStart, Now
    <2>4. ASSUME NEW q \in Slots PROVE Step(q)'
      BY SMTT(30), <1>4 DEF ServicesStart, DiskTrue, Fresh, Step, Restored, Planned,
           Changed, Base, Target, Content, Index, Clean, Now
    <2>. QED BY <2>1, <2>2, <2>3, <2>4 DEF DiskTrue
  <1>5. ASSUME NEW w \in Work, Works(w) PROVE DiskTrue'
    <2>1. (Resting => Clean /\ deps = Content)'
      BY SMTT(30), <1>5, Places, Kinds DEF SerialInv, TypeOK, Slots, DiskTrue, Base, Target,
           Content, Index, Clean, Resting, Mover, Step, Restored, Works
    <2>2. (marker # NoMarker => MarkerTrue)'
      BY SMTT(30), <1>5, Places, Kinds DEF SerialInv, TypeOK, Slots, DiskTrue, Base, Target,
           Content, Index, Clean, MarkerTrue, Step, Restored, Planned, Changed, Works
    <2>3. (point.state = "kept" \/ At(Shell, "revert") => PointTrue)'
      BY SMTT(30), <1>5, Places, Kinds DEF SerialInv, TypeOK, Slots, DiskTrue, Base, Target,
           Content, Index, Clean, PointTrue, Step, Restored, InPlace, MarkerInv, Works
    <2>4. ASSUME NEW q \in Slots PROVE Step(q)'
      <3>1. Content' = Content /\ Index' = Index /\ Clean /\ Clean'
        BY <1>5 DEF Works, Content, Index, Clean
      <3>. QED BY <1>5, <3>1, SameStep DEF Works, DiskTrue
    <2>. QED BY <2>1, <2>2, <2>3, <2>4 DEF DiskTrue
  <1>6. CASE UNCHANGED vars
    <2>1. (Resting => Clean /\ deps = Content)'
      BY SMTT(30), <1>6, Places, Kinds DEF SerialInv, TypeOK, Slots, DiskTrue, Base, Target,
           Content, Index, Clean, Resting, Mover, Step, Restored, vars
    <2>2. (marker # NoMarker => MarkerTrue)'
      BY SMTT(30), <1>6, Places, Kinds DEF SerialInv, TypeOK, Slots, DiskTrue, Base, Target,
           Content, Index, Clean, MarkerTrue, Step, Restored, Planned, Changed, vars
    <2>3. (point.state = "kept" \/ At(Shell, "revert") => PointTrue)'
      BY SMTT(30), <1>6, Places, Kinds DEF SerialInv, TypeOK, Slots, DiskTrue, Base, Target,
           Content, Index, Clean, PointTrue, Step, Restored, InPlace, MarkerInv, vars
    <2>4. ASSUME NEW q \in Slots PROVE Step(q)'
      BY SMTT(30), <1>6 DEF vars, DiskTrue, Fresh, Step, Restored, Planned, Changed, Base,
           Target, Content, Index, Clean, Now
    <2>. QED BY <2>1, <2>2, <2>3, <2>4 DEF DiskTrue
  <1>. QED BY <1>1, <1>2, <1>3, <1>4, <1>5, <1>6

-------------------------------------------------------------------------------
(* The theorem.                                                              *)

\* Nothing has happened yet: the disk is of the first version.
LEMMA DiskInit ==
  ASSUME Init
  PROVE  DiskInv
  <1>1. \A p \in Slots : proc[p] = Idle
    BY DEF Init
  <1>2. DiskTrue
    BY <1>1, Kinds DEF Init, DiskTrue, Step, Clean, Content, Idle, Slots
  <1>. QED BY <1>2 DEF DiskInv

\* What a person has been told is taken back only by an apply that ends well.
LEMMA ToldStays ==
  ASSUME [Next]_vars, told, ~told'
  PROVE  \E a \in Agents : ApplyEnds(a)
  <1>1. ASSUME NEW a \in Agents,
               \/ \E m \in Merges, keep \in BOOLEAN : ApplyStarts(a, m, keep) \/ ApplyResumes(a, m, keep)
               \/ ApplyNext(a)
        PROVE  ApplyEnds(a)
    BY ZenonT(40), <1>1 DEF ApplyNext, ApplyStarts, ApplyResumes, ApplyDropsPoint, ApplyClaims, ApplyMerges,
         ApplyLands, ApplyRefused, ApplyPlans, ApplyCopies, ApplyRefreshes, ApplyRefreshed,
         ApplyPreflights, ApplyRestarts, ApplyConfirms, ApplyFails
  <1>2. ASSUME NEW p \in Slots, RecoverReads(p) \/ BootReads \/ UndoNext(p)
        PROVE  FALSE
    BY ZenonT(40), <1>2 DEF UndoNext, RecoverReads, BootReads, RecoverClaims, Restores, Commits, GitFails,
         PutsBack, IsPutBack, PutBackLost, Rebuilds, RestartsAgain, Confirms, NotRecovered, Clears,
         Tidies, GivesUp, Alarms
  <1>3. ~(RollbackStarts \/ RollbackNext \/ ConfirmLast)
    BY ZenonT(40) DEF RollbackNext, RollbackStarts, Reverts, RevertRefused, RevertCommits, PointPutBack,
         PointIsBack, RollbackRestarts, RollbackNeedsRestart, RollbackDone, RollbackFails, ConfirmLast
  <1>4. /\ ~\E m \in Merges : Dispatch(m)
        /\ ~\E p \in Slots : Kill(p)
        /\ ~(Restart \/ ServicesStart \/ UNCHANGED vars)
        /\ ~\E w \in Work : Works(w)
    BY DEF Dispatch, Kill, Restart, ServicesStart, Works, vars
  <1>. QED BY <1>1, <1>2, <1>3, <1>4 DEF Next, Slots

\* When it is taken back, nobody is at work and everything is of one version again.
LEMMA EndsWell ==
  ASSUME SerialInv, NEW a \in Agents, ApplyEnds(a), told, ~told'
  PROVE  /\ Consistent' /\ marker' = NoMarker /\ point' = NoPoint
         /\ \A q \in Slots : proc'[q] = Idle
  <1>1. Consistent /\ point' = NoPoint /\ UNCHANGED <<head, index, mergeHead, deps, running, boot>>
    BY DEF ApplyEnds
  <1>2. \A q \in Slots : proc'[q] = Idle
    <2>1. ASSUME NEW q \in Slots, q # a PROVE proc[q] = Idle
      BY <2>1, Solo DEF ApplyEnds, Slots, SerialInv, InPlace
    <2>. QED BY <2>1 DEF ApplyEnds, SerialInv, TypeOK, Slots
  <1>3. marker' = NoMarker
    BY Places DEF ApplyEnds, Slots
  <1>. QED BY <1>1, <1>2, <1>3 DEF Consistent, Clean, Content, Now

\* Every step keeps what is true of the disk.
LEMMA DiskStays ==
  ASSUME Serial, ~Race("alarm"), ~Race("uncopied"), SerialInv, DiskInv, [Next]_vars
  PROVE  DiskInv'
  <1>. SUFFICES ASSUME ~told' PROVE DiskTrue'
    BY DEF DiskInv
  <1>. SerialInv'
    BY SerialStep
  <1>1. CASE told
    <2>1. Consistent' /\ marker' = NoMarker /\ point' = NoPoint /\ \A q \in Slots : proc'[q] = Idle
      BY <1>1, ToldStays, EndsWell
    <2>. QED BY <2>1, Kinds DEF DiskTrue, Step, Consistent, Idle, Slots
  <1>2. CASE ~told
    <2>. DiskTrue
      BY <1>2 DEF DiskInv
    <2>1. CASE \E a \in Agents : \/ \E m \in Merges, keep \in BOOLEAN :
                                     ApplyStarts(a, m, keep) \/ ApplyResumes(a, m, keep)
                                 \/ ApplyNext(a)
      BY <2>1, DiskApply
    <2>2. CASE \E p \in Slots : RecoverReads(p) \/ BootReads \/ UndoNext(p)
      BY <2>2, DiskUndo
    <2>3. CASE RollbackStarts \/ RollbackNext \/ ConfirmLast
      BY <2>3, DiskRollback
    <2>4. CASE \/ \E m \in Merges : Dispatch(m)
               \/ \E p \in Slots : Kill(p)
               \/ Restart \/ ServicesStart
               \/ \E w \in Work : Works(w)
               \/ UNCHANGED vars
      BY <2>4, DiskOther
    <2>. QED BY <2>1, <2>2, <2>3, <2>4 DEF Next, Slots
  <1>. QED BY <1>1, <1>2

\* At most one process changes the tree, the dependencies or the copies at a time, and the
\* copies a marker or an untouched rollback point promises are those of the version it
\* goes back to: with any kills, restarts, boots and work of others, as long as the
\* dependencies can be copied aside and no kill comes between clear_marker and
\* write_emergency.
THEOREM OneMoverHolds ==
  ASSUME Serial, ~Race("alarm"), ~Race("uncopied")
  PROVE  Spec => []OneMover
  <1>1. SerialInv /\ DiskInv /\ [Next]_vars => DiskInv'
    BY DiskStays
  <1>2. SerialInv /\ DiskInv => OneMover
    <2>. SUFFICES ASSUME SerialInv, DiskInv PROVE OneMover
      OBVIOUS
    <2>1. CopiesArePrior
      <3>. SUFFICES ASSUME ~told PROVE CopiesArePrior
        BY DEF CopiesArePrior
      <3>1. marker.snapped => copies = Base(marker)
        BY DEF DiskInv, DiskTrue, MarkerTrue, NoMarker
      <3>2. point.state = "kept" /\ point.snapped => copies = Base(point)
        BY DEF DiskInv, DiskTrue, PointTrue
      <3>. QED BY <3>1, <3>2 DEF CopiesArePrior, Base
    <2>2. Cardinality({p \in Slots : proc[p].pc \notin {"idle", "claim"}}) <= 1
      <3>. DEFINE M == {p \in Slots : proc[p].pc \notin {"idle", "claim"}}
      <3>. SUFFICES Cardinality(M) <= 1
        OBVIOUS
      <3>1. CASE M = {}
        <4>1. Cardinality(M) = 0
          BY <3>1, FS_EmptySet
        <4>. HIDE DEF M
        <4>. QED BY <4>1
      <3>2. CASE M # {}
        <4>1. PICK p \in Slots : p \in M
          BY <3>2
        <4>2. M = {p}
          BY <4>1, Solo DEF Mover
        <4>3. Cardinality(M) = 1
          BY <4>2, FS_Singleton
        <4>. QED BY <4>3
      <3>. QED BY <3>1, <3>2
    <2>. QED BY <2>1, <2>2 DEF OneMover, SerialInv
  <1>3. Init => DiskInv
    BY DiskInit
  <1>. QED BY <1>1, <1>2, <1>3, Serialized, PTL DEF Spec

===============================================================================
