--------------------------- MODULE UpdateApplyProofs ---------------------------
(***************************************************************************)
(* What TLAPS proves of UpdateApply, for every set of updates, agents and  *)
(* others' changes and any number of kills, restarts and failures.  Each   *)
(* theorem names the races it excludes; all others may happen.             *)
(***************************************************************************)
EXTENDS UpdateApply, TLAPS

-------------------------------------------------------------------------------
(* The inductive invariants.                                                 *)

Applying == {"merge", "staged", "merged", "copy", "refresh", "refreshing", "preflight",
             "restart", "probe"}
Undoing == {"undo", "commit", "deps", "putting", "rebuild", "again", "confirm", "clear",
            "alarm"}
Trailing == {"tail", "tidy", "alarming"}        \* the marker is cleared
Rolling == {"revert", "recommit", "putback", "puttingback", "programs", "check"}
Mover(p) == proc[p].pc \notin {"idle", "claim"}

\* A process that holds the marker is the one it names, and has it in memory as it is on
\* disk; one that has read it and not claimed it yet still has what is on disk, or there
\* is none.  The notice's rollback runs while there is none, under its own record.
Fresh(p) == /\ marker = NoMarker /\ Is(p, "apply") /\ proc[p].mk.phase = "started"
            /\ ~proc[p].mk.snapped /\ ~proc[p].mk.restarted
Claiming(p) ==
    /\ p # Shell /\ proc[p].role \in {"apply", "recover"}
    /\ Is(p, "apply") => p \in Agents /\ ~mergeHead
    /\ proc[p].mk.pid = p /\ proc[p].mk.merge \in cut
    /\ Fresh(p) \/ (marker.pid = Dead /\ proc[p].mk = Stamped(marker, p))
Holds(p) ==
    /\ p # Shell /\ proc[p].role \in {"apply", "recover"} /\ point = NoPoint
    /\ marker = proc[p].mk /\ marker.pid = p
    /\ proc[p].pc \in Applying => p \in Agents
Trails(p) == /\ p # Shell /\ marker = NoMarker /\ point = NoPoint
             /\ At(p, "tail") => p \in Agents /\ proc[p].mk.merge \in cut
RollsBack(p) == /\ p = Shell /\ Is(p, "rollback") /\ marker = NoMarker
                /\ point.state = "reverting"
                /\ At(p, "recommit") => index # head
InPlace(p) ==
    /\ At(p, "idle") => proc[p] = Idle
    /\ At(p, "claim") => Claiming(p)
    /\ proc[p].pc \in Applying \cup Undoing => Holds(p)
    /\ proc[p].pc \in Trailing => Trails(p)
    /\ proc[p].pc \in Rolling => RollsBack(p)
    /\ ~At(p, "idle") => IF p = Boot THEN boot = "recovering" ELSE boot = "up"
    /\ p = Boot => proc[p].pc \notin {"rebuild", "again", "confirm"}
    /\ At(p, "putting") => copies # None

Alone ==
    \A p, q \in Slots : p # q =>
        /\ ~(Mover(p) /\ Mover(q)) /\ ~(At(p, "claim") /\ At(q, "claim"))
        /\ At(p, "claim") /\ Mover(q) => proc[q].pc \in Rolling \ {"recommit"}

MarkerInv ==
    /\ marker # NoMarker => point = NoPoint /\ marker.merge \in cut
    /\ mergeHead => marker # NoMarker /\ \A p \in Slots : Mover(p) => At(p, "staged")
    /\ boot = "recovering" /\ At(Boot, "idle") => marker # NoMarker

\* The races that break mutual exclusion itself.
Serial == ~Race("adopt") /\ ~Race("tail") /\ ~Race("tailFails")

SerialInv == TypeOK /\ Alone /\ MarkerInv /\ \A p \in Slots : InPlace(p)

-------------------------------------------------------------------------------
\* What others have committed, and an update under way, are in the tree.
Landing(p) ==
    /\ At(p, "claim") /\ Is(p, "apply") => Clean /\ (proc[p].landed => proc[p].mk.merge \in head)
    /\ At(p, "merge") => Clean
    /\ At(p, "staged") => proc[p].mk.merge \in index /\ head \subseteq index
    /\ proc[p].pc \in {"merged", "copy", "refresh", "refreshing", "preflight", "restart",
                       "probe", "tail"} => proc[p].mk.merge \in head
    /\ proc[p].pc \in {"probe", "tail"} => running = Now
    /\ proc[p].pc \in {"claim"} \cup Applying \cup Undoing => worked \subseteq proc[p].mk.back

LandedInv ==
    /\ landed \ undone \subseteq head /\ worked \subseteq head /\ worked \subseteq index
    /\ marker # NoMarker => worked \subseteq marker.back
    /\ \A p \in Slots : Landing(p)

-------------------------------------------------------------------------------
(* Lemmas about the records and the processes.                               *)

USE UpdateAssumption DEF At, Goes, Is, Fault, Leaves, Ends, treeVars, branchVars, depsVars, recordVars,
                         Applying, Undoing, Trailing, Rolling

\* The constant records are of their kinds.
LEMMA Kinds ==
    /\ NoMarker \in MarkerKinds /\ NoMarker.pid = None /\ Idle \in ProcKinds
    /\ NoPoint \in [state : {"none", "kept", "reverting", "settled"},
                    merge : Merges \cup {None}, back : Changes, snapped : BOOLEAN]
    /\ NoPoint.state = "none"
  BY DEF NoMarker, MarkerKinds, NoPoint, Idle, ProcKinds, Steps, Changes

\* A marker whose process is dead: it is one still, and says the same of the update.
LEMMA DeadKind ==
  ASSUME TypeOK
  PROVE  LET dead == [marker EXCEPT !.pid = Dead] IN
         /\ dead \in MarkerKinds /\ dead.pid = Dead /\ dead # NoMarker
         /\ dead.merge = marker.merge /\ dead.back = marker.back
         /\ dead.snapped = marker.snapped /\ dead.restarted = marker.restarted
  <1>1. marker \in MarkerKinds
    BY DEF TypeOK
  <1>. QED BY <1>1 DEF MarkerKinds, NoMarker

\* A marker taken over: it is one, and says the same of the update.
LEMMA StampedKind ==
  ASSUME TypeOK, NEW p \in Slots
  PROVE  LET mk == Stamped(marker, p) IN
         /\ mk \in MarkerKinds /\ mk.pid = p
         /\ mk.merge = marker.merge /\ mk.back = marker.back
         /\ mk.snapped = marker.snapped /\ mk.restarted = marker.restarted
  <1>1. marker \in MarkerKinds
    BY DEF TypeOK
  <1>. QED BY <1>1 DEF Stamped, MarkerKinds

\* A marker whose process may just have ended: the same, with a dead pid if it was its.
LEMMA OrphanedKind ==
  ASSUME TypeOK, NEW p \in Slots
  PROVE  LET mk == Orphaned(p) IN
         /\ mk \in MarkerKinds /\ (mk.pid = None <=> mk = NoMarker)
         /\ mk = NoMarker <=> marker = NoMarker
         /\ mk.pid = IF marker.pid = p THEN Dead ELSE marker.pid
         /\ marker.pid # p => mk = marker
         /\ mk.merge = marker.merge /\ mk.back = marker.back
         /\ mk.snapped = marker.snapped /\ mk.restarted = marker.restarted
  <1>1. marker \in MarkerKinds /\ (marker.pid = None <=> marker = NoMarker)
    BY DEF TypeOK
  <1>2. CASE marker.pid = p
    <2>1. Orphaned(p) = [marker EXCEPT !.pid = Dead]
      BY <1>2 DEF Orphaned
    <2>2. marker # NoMarker
      BY <1>2, Kinds DEF Slots
    <2>. QED BY <1>1, <1>2, <2>1, <2>2, DeadKind
  <1>3. CASE marker.pid # p
    BY <1>1, <1>3 DEF Orphaned
  <1>. QED BY <1>2, <1>3

\* Where a process can be, and what its place says of the marker.
LEMMA Places ==
  ASSUME SerialInv, NEW p \in Slots
  PROVE  /\ proc[p].pc \in {"idle", "claim"} \cup Applying \cup Undoing \cup Trailing \cup Rolling
         /\ proc[p] \in ProcKinds /\ proc[p].mk \in MarkerKinds
         /\ proc[p].pc \in Applying \cup Undoing =>
              /\ marker = proc[p].mk /\ marker.pid = p /\ marker # NoMarker
              /\ marker.merge \in cut /\ point = NoPoint
         /\ proc[p].pc \in Trailing \cup Rolling => marker = NoMarker
         /\ marker.pid \notin {p, None} => proc[p].pc \in {"idle", "claim"}
  <1>1. proc[p] \in ProcKinds /\ proc[p].mk \in MarkerKinds /\ proc[p].pc \in Steps
    BY DEF SerialInv, TypeOK, ProcKinds
  <1>2. proc[p].pc \in {"idle", "claim"} \cup Applying \cup Undoing \cup Trailing \cup Rolling
    BY <1>1 DEF Steps
  <1>3. proc[p].pc \in Applying \cup Undoing =>
              /\ marker = proc[p].mk /\ marker.pid = p /\ marker # NoMarker
              /\ marker.merge \in cut /\ point = NoPoint
    <2>. SUFFICES ASSUME proc[p].pc \in Applying \cup Undoing
                  PROVE  /\ marker = proc[p].mk /\ marker.pid = p /\ marker # NoMarker
                         /\ marker.merge \in cut /\ point = NoPoint
      OBVIOUS
    <2>1. Holds(p)
      BY DEF SerialInv, InPlace
    <2>2. marker # NoMarker
      BY <2>1, Kinds DEF Holds, Slots
    <2>. QED BY <2>1, <2>2 DEF SerialInv, MarkerInv, Holds
  <1>4. proc[p].pc \in Trailing \cup Rolling => marker = NoMarker
    BY DEF SerialInv, InPlace, Trails, RollsBack
  <1>. QED BY <1>1, <1>2, <1>3, <1>4, Kinds

\* A plan changes nothing of its process but the phase, the changed paths and the step.
LEMMA Plans ==
  ASSUME SerialInv, NEW a \in Agents, ApplyPlans(a)
  PROVE  /\ proc'[a].mk.merge = proc[a].mk.merge /\ proc'[a].mk.back = proc[a].mk.back
         /\ proc'[a].mk.snapped = proc[a].mk.snapped
         /\ proc'[a].diff = Changed(head, proc[a].mk.back)
         /\ proc'[a].pc = IF proc'[a].diff \cap Merges = {} THEN "preflight" ELSE "copy"
         /\ proc'[a].pc \in {"preflight", "copy"}
  <1> DEFINE mk == [proc[a].mk EXCEPT !.phase = "merged"]
             diff == Changed(head, mk.back)
             pc == IF diff \cap Merges = {} THEN "preflight" ELSE "copy"
  <1>1. proc[a] \in ProcKinds /\ proc[a].mk \in MarkerKinds /\ a \in Slots
    BY Places DEF Slots
  <1>2. mk.merge = proc[a].mk.merge /\ mk.back = proc[a].mk.back /\ mk.snapped = proc[a].mk.snapped
    BY <1>1 DEF MarkerKinds
  <1>3. proc' = [proc EXCEPT ![a].mk = mk, ![a].diff = diff, ![a].pc = pc]
    BY DEF ApplyPlans
  <1>4. proc'[a].mk = mk /\ proc'[a].diff = diff /\ proc'[a].pc = pc
    <2> HIDE DEF mk, diff, pc
    <2>. QED BY <1>1, <1>3 DEF SerialInv, TypeOK, ProcKinds
  <1>. QED BY <1>2, <1>4

\* Only one process has the tree; a process may claim the marker while the notice's
\* rollback has it, since that one works without a marker.
LEMMA Solo ==
  ASSUME SerialInv, NEW p \in Slots, NEW q \in Slots, p # q
  PROVE  /\ Mover(p) => ~Mover(q)
         /\ At(p, "claim") => ~At(q, "claim") /\ (Mover(q) => proc[q].pc \in Rolling \ {"recommit"})
         /\ proc[p].pc \notin ({"idle", "claim"} \cup Rolling) \/ At(p, "recommit") => At(q, "idle")
  BY Places DEF SerialInv, Alone, Mover

\* A process that reads a marker it may claim is a process still.
LEMMA ReadsKind ==
  ASSUME TypeOK, NEW p \in Slots, NEW role \in {"apply", "recover"}, NEW mk \in MarkerKinds,
         NEW keep \in BOOLEAN, NEW known \in BOOLEAN, Reads(p, role, mk, keep, known)
  PROVE  proc' \in [Slots -> ProcKinds] /\ proc'[p].pc = "claim"
  <1>1. [pc |-> "claim", role |-> role, mk |-> mk, keep |-> keep, diff |-> {}, landed |-> known]
          \in ProcKinds
    BY DEF ProcKinds, Steps, Changes
  <1>. QED BY <1>1 DEF Reads, TypeOK

\* Whoever reads the marker while no live process has it finds at most the notice's
\* rollback at work, and not between its revert and its commit.
LEMMA ReadsAlone ==
  ASSUME Serial, SerialInv, NEW p \in Slots, NEW new, new.pc = "claim", At(p, "idle"),
         proc' = [proc EXCEPT ![p] = new], Unclaimed, marker.pid \in {None, Dead},
         marker = NoMarker => Untailed /\ Clean
  PROVE  Alone'
  <1>1. ASSUME NEW q \in Slots, Mover(q) PROVE proc[q].pc \in Rolling \ {"recommit"}
    <2>1. proc[q].pc \in Trailing \cup Rolling
      BY <1>1, Places DEF Mover, Slots
    <2>2. marker = NoMarker
      BY <2>1, Places
    <2>3. proc[q].pc \notin Trailing
      BY <2>2 DEF Untailed, Serial
    <2>4. ~At(q, "recommit")
      BY <2>2 DEF SerialInv, InPlace, RollsBack, Clean
    <2>. QED BY <2>1, <2>3, <2>4
  <1>2. \A q \in Slots : ~At(q, "claim")
    BY DEF Unclaimed, Serial
  <1>3. proc'[p].pc = "claim" /\ \A q \in Slots \ {p} : proc'[q] = proc[q]
    BY DEF SerialInv, TypeOK
  <1>. QED BY <1>1, <1>2, <1>3, Solo DEF Alone, Mover

\* Whoever writes the marker it has read is the only process at work.
LEMMA ClaimsAlone ==
  ASSUME SerialInv, NEW p \in Slots, At(p, "claim"), Is(p, "recover") \/ ~OwnPointNext(p)
  PROVE  /\ \A q \in Slots \ {p} : At(q, "idle")
         /\ point = NoPoint /\ Claiming(p)
         /\ marker # NoMarker \/ ~mergeHead
  <1>1. Claiming(p)
    BY DEF SerialInv, InPlace
  <1>2. point = NoPoint
    <2>1. CASE Fresh(p)
      BY <2>1 DEF Fresh, OwnPointNext
    <2>2. CASE marker.pid = Dead
      BY <2>2, Kinds DEF SerialInv, MarkerInv
    <2>. QED BY <1>1, <2>1, <2>2 DEF Claiming
  <1>3. ASSUME NEW q \in Slots \ {p} PROVE At(q, "idle")
    <2>1. proc[q].pc \notin Rolling
      BY <1>2, Kinds DEF SerialInv, InPlace, RollsBack
    <2>. QED BY <2>1, Solo, Places DEF Mover
  <1>4. marker = NoMarker => ~mergeHead
    BY DEF SerialInv, MarkerInv
  <1>. QED BY <1>1, <1>2, <1>3, <1>4
\* An agent's apply keeps one process at work.
LEMMA SerialApply ==
  ASSUME Serial, SerialInv, NEW a \in Agents,
         \/ \E m \in Merges, keep \in BOOLEAN : ApplyStarts(a, m, keep) \/ ApplyResumes(a, m, keep)
         \/ ApplyNext(a)
  PROVE  SerialInv'
  <1>1. ASSUME NEW m \in Merges, NEW keep \in BOOLEAN, ApplyStarts(a, m, keep)
        PROVE  SerialInv'
    <2>1. TypeOK'
      <3>1. (proc \in [Slots -> ProcKinds])'
        <4>1. [NoMarker EXCEPT !.pid = a, !.merge = m, !.back = head] \in MarkerKinds
          BY Kinds DEF MarkerKinds, Slots, SerialInv, TypeOK
        <4>2. [pc |-> "claim", role |-> "apply", diff |-> {}, landed |-> (m \in landed), keep |-> keep,
               mk |-> [NoMarker EXCEPT !.pid = a, !.merge = m, !.back = head]] \in ProcKinds
          BY <4>1 DEF ProcKinds, Steps, Changes
        <4>. QED BY <1>1, <4>2 DEF ApplyStarts, Reads, SerialInv, TypeOK
      <3>. QED BY <1>1, <3>1 DEF SerialInv, TypeOK, ApplyStarts, Reads
    <2>2. Alone'
      BY <1>1, ReadsAlone, Kinds DEF ApplyStarts, Reads, Slots
    <2>3. MarkerInv'
      BY ZenonT(40), <1>1, Places, Solo, Kinds DEF SerialInv, TypeOK, Slots, InPlace, Alone, Mover,
           MarkerInv, Holds, Trails, RollsBack, Claiming, Fresh, Serial, Untailed, ApplyStarts,
           Reads, Clean, NoPoint
    <2>4. ASSUME NEW q \in Slots PROVE InPlace(q)'
      <3>1. CASE q = a
        <4>1. /\ proc'[a].pc = "claim" /\ proc'[a].role = "apply"
              /\ proc'[a].mk = [NoMarker EXCEPT !.pid = a, !.merge = m, !.back = head]
          BY <1>1 DEF ApplyStarts, Reads, SerialInv, TypeOK, Slots
        <4>2. Claiming(a)'
          <5>1. /\ proc'[a].mk.pid = a /\ proc'[a].mk.merge = m /\ proc'[a].mk.phase = "started"
                /\ ~proc'[a].mk.snapped /\ ~proc'[a].mk.restarted
            BY <4>1 DEF NoMarker
          <5>2. proc'[a].role = "apply" /\ marker' = NoMarker
            BY <1>1, <4>1 DEF ApplyStarts
          <5>3. a # Shell /\ ~mergeHead' /\ m \in cut'
            BY <1>1 DEF ApplyStarts, Clean
          <5>. QED BY <5>1, <5>2, <5>3 DEF Claiming, Fresh
        <4>. QED BY <1>1, <3>1, <4>1, <4>2 DEF InPlace, ApplyStarts, Slots
      <3>2. CASE q # a
        <4>1. proc'[q] = proc[q] /\ UNCHANGED <<marker, point, boot, copies, head, index, cut>>
          BY <1>1, <3>2 DEF ApplyStarts, Reads, TypeOK, SerialInv
        <4>2. ~At(q, "claim")
          BY <1>1 DEF ApplyStarts, Unclaimed, Serial
        <4>. QED BY <4>1, <4>2 DEF SerialInv, InPlace, Holds, Trails, RollsBack
      <3>. QED BY <3>1, <3>2
    <2>. QED BY <2>1, <2>2, <2>3, <2>4 DEF SerialInv
  <1>2. ASSUME NEW m \in Merges, NEW keep \in BOOLEAN, ApplyResumes(a, m, keep)
        PROVE  SerialInv'
    <2>1. TypeOK'
      <3>1. (proc \in [Slots -> ProcKinds])'
        <4>1. [pc |-> "claim", role |-> "apply", mk |-> Stamped(marker, a), keep |-> keep,
               diff |-> {}, landed |-> (m \in landed)] \in ProcKinds
          BY StampedKind DEF ProcKinds, Steps, Changes, Slots, SerialInv
        <4>. QED BY <1>2, <4>1 DEF ApplyResumes, Reads, SerialInv, TypeOK
      <3>. QED BY <1>2, <3>1 DEF SerialInv, TypeOK, ApplyResumes, Reads, AbortMerge, Stamped
    <2>2. Alone'
      BY <1>2, ReadsAlone, Kinds DEF ApplyResumes, Reads, Slots
    <2>3. MarkerInv'
      BY SMTT(30), <1>2 DEF SerialInv, MarkerInv, ApplyResumes, AbortMerge
    <2>4. ASSUME NEW q \in Slots PROVE InPlace(q)'
      <3>1. CASE q = a
        <4>1. proc'[a] = [pc |-> "claim", role |-> "apply", mk |-> Stamped(marker, a), keep |-> keep,
                          diff |-> {}, landed |-> (m \in landed)]
          BY <1>2 DEF ApplyResumes, Reads, SerialInv, TypeOK, Slots
        <4>2. Claiming(a)'
          <5>1. proc'[a].mk.pid = a /\ proc'[a].mk.merge \in cut'
            BY <1>2, <4>1, StampedKind, Kinds DEF ApplyResumes, Slots, SerialInv, MarkerInv
          <5>2. proc'[a].mk = Stamped(marker, a)' /\ marker'.pid = Dead
            BY <1>2, <4>1 DEF ApplyResumes
          <5>3. a # Shell /\ proc'[a].role = "apply" /\ ~mergeHead'
            BY <1>2, <4>1 DEF ApplyResumes, AbortMerge
          <5>. QED BY <5>1, <5>2, <5>3 DEF Claiming
        <4>. QED BY <1>2, <3>1, <4>1, <4>2 DEF InPlace, ApplyResumes, Slots
      <3>2. CASE q # a
        <4>1. proc'[q] = proc[q] /\ UNCHANGED <<marker, point, boot, copies, head, cut>>
          BY <1>2, <3>2 DEF ApplyResumes, Reads, TypeOK, SerialInv
        <4>2. ~At(q, "claim") /\ ~At(q, "recommit")
          BY <1>2, Places, Kinds DEF ApplyResumes, Unclaimed, Serial
        <4>. QED BY <4>1, <4>2 DEF SerialInv, InPlace, Holds, Trails, RollsBack
      <3>. QED BY <3>1, <3>2
    <2>. QED BY <2>1, <2>2, <2>3, <2>4 DEF SerialInv
  <1>3. CASE ApplyDropsPoint(a)
    <2>1. TypeOK'
      <3>1. (proc \in [Slots -> ProcKinds])'
        BY <1>3, Kinds DEF ApplyDropsPoint, OwnPointNext, Locked, SerialInv, TypeOK, ProcKinds,
             Steps, Slots
      <3>2. (emergency \in BOOLEAN /\ told \in BOOLEAN)'
        <4>1. CASE UNCHANGED told
          BY <1>3, <4>1 DEF ApplyDropsPoint, SerialInv, TypeOK
        <4>2. CASE told' = (told \/ point.state = "reverting")
          BY <1>3, <4>2 DEF ApplyDropsPoint, SerialInv, TypeOK
        <4>. QED BY <1>3, <4>1, <4>2 DEF ApplyDropsPoint
      <3>3. (point \in [state : {"none", "kept", "reverting", "settled"},
                   merge : Merges \cup {None}, back : Changes, snapped : BOOLEAN])'
        BY <1>3, Kinds DEF ApplyDropsPoint, OwnPointNext, Locked, SerialInv, TypeOK
      <3>4. (copies \in DepsKinds \cup {None})'
        BY <1>3, Kinds DEF ApplyDropsPoint, OwnPointNext, Locked, SerialInv, TypeOK
      <3>. QED BY <1>3, <3>1, <3>2, <3>3, <3>4 DEF SerialInv, TypeOK, ApplyDropsPoint, OwnPointNext,
           Locked
    <2>2. Alone'
      BY SMTT(30), <1>3 DEF SerialInv, TypeOK, Slots, InPlace, Alone, Mover, Holds, Trails,
           RollsBack, Claiming, Serial, Unclaimed, Untailed, ApplyDropsPoint, OwnPointNext,
           Locked
    <2>3. MarkerInv'
      BY SMTT(30), <1>3 DEF SerialInv, TypeOK, Slots, InPlace, Alone, Mover, MarkerInv,
           Holds, Trails, RollsBack, Claiming, Fresh, Serial, Untailed, ApplyDropsPoint,
           OwnPointNext, Locked
    <2>4. ASSUME NEW q \in Slots PROVE InPlace(q)'
      BY SMTT(30), <1>3 DEF SerialInv, TypeOK, Slots, InPlace, Alone, Mover, MarkerInv,
           Holds, Trails, RollsBack, Claiming, Fresh, Serial, Unclaimed, Untailed,
           ApplyDropsPoint, OwnPointNext, Locked
    <2>. QED BY <2>1, <2>2, <2>3, <2>4 DEF SerialInv
  <1>4. CASE ApplyClaims(a)
    <2>1. TypeOK'
      BY SMTT(30), <1>4, Kinds DEF SerialInv, TypeOK, Steps, Slots, Changes, DepsKinds,
           MarkerKinds, ProcKinds, InPlace, Holds, Claiming, Fresh, Trails, RollsBack,
           ApplyClaims, OwnPointNext, Writes
    <2>2. Alone'
      BY SMTT(30), <1>4, ClaimsAlone, Places, Kinds DEF SerialInv, TypeOK, Slots, InPlace,
           Alone, Mover, Holds, Trails, RollsBack, Claiming, Serial, Unclaimed, Untailed,
           ApplyClaims, OwnPointNext, Writes, Clean, NoPoint
    <2>3. MarkerInv'
      BY SMTT(30), <1>4, ClaimsAlone, Places, Kinds DEF SerialInv, TypeOK, Slots, InPlace,
           Alone, Mover, MarkerInv, Holds, Trails, RollsBack, Claiming, Fresh, Serial,
           Untailed, ApplyClaims, OwnPointNext, Writes, Clean, NoPoint
    <2>4. ASSUME NEW q \in Slots PROVE InPlace(q)'
      <3>1. CASE q = a
        <4>1. /\ proc'[a].pc \in {"merge", "merged"} /\ proc'[a].role = "apply"
              /\ proc'[a].mk = proc[a].mk /\ marker' = proc[a].mk
          BY <1>4, Places DEF ApplyClaims, Writes, SerialInv, TypeOK, Slots, ProcKinds
        <4>2. boot = "up" /\ proc[a].mk.pid = a
          BY <1>4 DEF ApplyClaims, SerialInv, InPlace, Claiming, Slots
        <4>3. point = NoPoint
          BY <1>4, ClaimsAlone DEF ApplyClaims, Slots
        <4>. QED BY <1>4, <3>1, <4>1, <4>2, <4>3 DEF ApplyClaims, InPlace, Holds, Slots
      <3>2. CASE q # a
        <4>1. proc'[q] = proc[q] /\ At(q, "idle")
          BY <1>4, <3>2, ClaimsAlone DEF ApplyClaims, Writes, SerialInv, TypeOK, Slots
        <4>. QED BY <4>1 DEF SerialInv, InPlace
      <3>. QED BY <3>1, <3>2
    <2>. QED BY <2>1, <2>2, <2>3, <2>4 DEF SerialInv
  <1>5. CASE ApplyMerges(a)
    <2>1. TypeOK'
      <3>1. (proc \in [Slots -> ProcKinds])'
        BY <1>5, Kinds DEF ApplyMerges, SerialInv, TypeOK, ProcKinds, Steps, Slots
      <3>2. (index \in Changes)'
        BY <1>5, Places DEF ApplyMerges, Slots, SerialInv, TypeOK, MarkerKinds, Changes
      <3>3. (/\ worked \subseteq Work /\ faults \in 0..MaxFaults)'
        BY <1>5 DEF ApplyMerges, SerialInv, TypeOK
      <3>. QED BY <1>5, <3>1, <3>2, <3>3 DEF SerialInv, TypeOK, ApplyMerges
    <2>2. Alone'
      BY SMTT(30), <1>5 DEF SerialInv, TypeOK, Slots, InPlace, Alone, Mover, Holds, Trails,
           RollsBack, Claiming, Serial, Unclaimed, Untailed, ApplyMerges
    <2>3. MarkerInv'
      BY SMTT(30), <1>5 DEF SerialInv, TypeOK, Slots, InPlace, Alone, Mover, MarkerInv,
           Holds, Trails, RollsBack, Claiming, Fresh, Serial, Untailed, ApplyMerges
    <2>4. ASSUME NEW q \in Slots PROVE InPlace(q)'
      BY SMTT(30), <1>5 DEF SerialInv, TypeOK, Slots, InPlace, Alone, Mover, MarkerInv,
           Holds, Trails, RollsBack, Claiming, Fresh, Serial, Unclaimed, Untailed,
           ApplyMerges
    <2>. QED BY <2>1, <2>2, <2>3, <2>4 DEF SerialInv
  <1>6. CASE ApplyLands(a)
    <2>1. TypeOK'
      <3>1. (proc \in [Slots -> ProcKinds])'
        BY <1>6, Kinds DEF ApplyLands, SerialInv, TypeOK, ProcKinds, Steps, Slots
      <3>2. (cut \subseteq Merges /\ landed \subseteq cut /\ undone \subseteq cut)'
        BY <1>6, Places DEF ApplyLands, Slots, SerialInv, TypeOK
      <3>. QED BY <1>6, <3>1, <3>2 DEF SerialInv, TypeOK, ApplyLands
    <2>2. Alone'
      BY SMTT(30), <1>6 DEF SerialInv, TypeOK, Slots, InPlace, Alone, Mover, Holds, Trails,
           RollsBack, Claiming, Serial, Unclaimed, Untailed, ApplyLands
    <2>3. MarkerInv'
      BY SMTT(30), <1>6 DEF SerialInv, TypeOK, Slots, InPlace, Alone, Mover, MarkerInv,
           Holds, Trails, RollsBack, Claiming, Fresh, Serial, Untailed, ApplyLands
    <2>4. ASSUME NEW q \in Slots PROVE InPlace(q)'
      BY SMTT(30), <1>6 DEF SerialInv, TypeOK, Slots, InPlace, Alone, Mover, MarkerInv,
           Holds, Trails, RollsBack, Claiming, Fresh, Serial, Unclaimed, Untailed,
           ApplyLands
    <2>. QED BY <2>1, <2>2, <2>3, <2>4 DEF SerialInv
  <1>7. CASE ApplyRefused(a)
    <2>1. TypeOK'
      <3>1. (proc \in [Slots -> ProcKinds])'
        BY <1>7, Kinds DEF ApplyRefused, AbortMerge, Cleared, SerialInv, TypeOK, ProcKinds,
             Steps, Slots
      <3>2. (marker \in MarkerKinds /\ (marker.pid = None <=> marker = NoMarker))'
        BY <1>7, Kinds DEF ApplyRefused, AbortMerge, Cleared
      <3>. QED BY <1>7, <3>1, <3>2 DEF SerialInv, TypeOK, ApplyRefused, AbortMerge, Cleared
    <2>2. Alone'
      BY SMTT(30), <1>7 DEF SerialInv, TypeOK, Slots, InPlace, Alone, Mover, Holds, Trails,
           RollsBack, Claiming, Serial, Unclaimed, Untailed, ApplyRefused, AbortMerge,
           Cleared
    <2>3. MarkerInv'
      BY SMTT(30), <1>7 DEF SerialInv, TypeOK, Slots, InPlace, Alone, Mover, MarkerInv,
           Holds, Trails, RollsBack, Claiming, Fresh, Serial, Untailed, ApplyRefused,
           AbortMerge, Cleared
    <2>4. ASSUME NEW q \in Slots PROVE InPlace(q)'
      BY SMTT(30), <1>7 DEF SerialInv, TypeOK, Slots, InPlace, Alone, Mover, MarkerInv,
           Holds, Trails, RollsBack, Claiming, Fresh, Serial, Unclaimed, Untailed,
           ApplyRefused, AbortMerge, Cleared
    <2>. QED BY <2>1, <2>2, <2>3, <2>4 DEF SerialInv
  <1>8. CASE ApplyPlans(a)
    <2>1. TypeOK'
      <3>1. (proc \in [Slots -> ProcKinds] /\ marker \in MarkerKinds)'
        <4>1. [proc[a].mk EXCEPT !.phase = "merged"] \in MarkerKinds
          BY Places DEF Slots, MarkerKinds
        <4>2. Changed(head, proc[a].mk.back) \in Changes
          BY Places DEF Slots, MarkerKinds, Changes, Changed, SerialInv, TypeOK
        <4>. QED BY <1>8, <4>1, <4>2 DEF ApplyPlans, SerialInv, TypeOK, ProcKinds, Steps, Slots
      <3>2. (marker \in MarkerKinds /\ (marker.pid = None <=> marker = NoMarker))'
        <4>1. marker'.pid = a
          BY <1>8, Places DEF ApplyPlans, Slots, MarkerKinds
        <4>. QED BY <3>1, <4>1, Kinds DEF Slots
      <3>. QED BY <1>8, <3>1, <3>2 DEF SerialInv, TypeOK, ApplyPlans, Changed
    <2>2. Alone'
      BY SMTT(30), <1>8 DEF SerialInv, TypeOK, Alone, Mover, ApplyPlans
    <2>3. MarkerInv'
      BY SMTT(30), <1>8, Kinds DEF SerialInv, Slots, InPlace, Mover, MarkerInv, Holds,
           ApplyPlans
    <2>4. ASSUME NEW q \in Slots PROVE InPlace(q)'
      <3>1. CASE q = a
        <4>1. /\ proc'[a].pc \in {"preflight", "copy"} /\ proc'[a].role = proc[a].role
              /\ proc'[a].mk = marker' /\ marker'.pid = a
          BY <1>8, Places DEF ApplyPlans, SerialInv, TypeOK, Slots, MarkerKinds, ProcKinds
        <4>. QED BY <1>8, <3>1, <4>1 DEF ApplyPlans, SerialInv, InPlace, Holds
      <3>2. CASE q # a
        <4>1. proc'[q] = proc[q] /\ At(q, "idle")
          BY <1>8, <3>2, Solo DEF ApplyPlans, SerialInv, TypeOK, Slots
        <4>. QED BY <4>1 DEF SerialInv, InPlace
      <3>. QED BY <3>1, <3>2
    <2>. QED BY <2>1, <2>2, <2>3, <2>4 DEF SerialInv
  <1>9. CASE ApplyCopies(a)
    <2>1. TypeOK'
      BY SMTT(30), <1>9, Kinds DEF SerialInv, TypeOK, Steps, Slots, Changes, DepsKinds,
           MarkerKinds, ProcKinds, InPlace, Holds, Claiming, Fresh, Trails, RollsBack,
           ApplyCopies, Writes, Reusable
    <2>2. Alone'
      BY SMTT(30), <1>9 DEF SerialInv, TypeOK, Alone, Mover, ApplyCopies, Writes
    <2>3. MarkerInv'
      <3>1. marker' # NoMarker /\ marker'.merge = marker.merge
        <4>1. \E s \in BOOLEAN : marker' \in {marker, [marker EXCEPT !.snapped = s]}
          BY <1>9, Places DEF ApplyCopies, Writes, Slots
        <4>. QED BY <4>1, Places, <1>9 DEF ApplyCopies, NoMarker, MarkerKinds, Slots
      <3>2. ~mergeHead' /\ boot' = "up" /\ point' = NoPoint /\ marker.merge \in cut'
        BY <1>9, Places DEF ApplyCopies, SerialInv, MarkerInv, Mover, InPlace, Slots
      <3>. QED BY <3>1, <3>2 DEF MarkerInv
    <2>4. ASSUME NEW q \in Slots PROVE InPlace(q)'
      <3>1. CASE q = a
        <4>1. /\ proc'[a].pc = "refresh" /\ proc'[a].role = proc[a].role
              /\ proc'[a].mk = marker' /\ marker'.pid = a
          BY <1>9, Places DEF ApplyCopies, Writes, SerialInv, TypeOK, Slots, MarkerKinds, ProcKinds
        <4>. QED BY <1>9, <3>1, <4>1 DEF ApplyCopies, SerialInv, InPlace, Holds
      <3>2. CASE q # a
        <4>1. proc'[q] = proc[q] /\ At(q, "idle")
          BY <1>9, <3>2, Solo DEF ApplyCopies, Writes, SerialInv, TypeOK, Slots
        <4>. QED BY <1>9, <4>1 DEF ApplyCopies, SerialInv, InPlace
      <3>. QED BY <3>1, <3>2
    <2>. QED BY <2>1, <2>2, <2>3, <2>4 DEF SerialInv
  <1>10. CASE ApplyRefreshes(a)
    <2>1. TypeOK'
      BY SMTT(30), <1>10, Kinds DEF SerialInv, TypeOK, Steps, Slots, Changes, DepsKinds,
           MarkerKinds, ProcKinds, InPlace, Holds, Claiming, Fresh, Trails, RollsBack,
           ApplyRefreshes
    <2>2. Alone'
      BY SMTT(30), <1>10 DEF SerialInv, TypeOK, Slots, InPlace, Alone, Mover, Holds, Trails,
           RollsBack, Claiming, Serial, Unclaimed, Untailed, ApplyRefreshes
    <2>3. MarkerInv'
      BY SMTT(30), <1>10 DEF SerialInv, TypeOK, Slots, InPlace, Alone, Mover, MarkerInv,
           Holds, Trails, RollsBack, Claiming, Fresh, Serial, Untailed, ApplyRefreshes
    <2>4. ASSUME NEW q \in Slots PROVE InPlace(q)'
      BY SMTT(30), <1>10 DEF SerialInv, TypeOK, Slots, InPlace, Alone, Mover, MarkerInv,
           Holds, Trails, RollsBack, Claiming, Fresh, Serial, Unclaimed, Untailed,
           ApplyRefreshes
    <2>. QED BY <2>1, <2>2, <2>3, <2>4 DEF SerialInv
  <1>11. CASE ApplyRefreshed(a)
    <2>1. TypeOK'
      BY SMTT(30), <1>11, Kinds DEF SerialInv, TypeOK, Steps, Slots, Changes, DepsKinds,
           MarkerKinds, ProcKinds, InPlace, Holds, Claiming, Fresh, Trails, RollsBack,
           ApplyRefreshed, Content
    <2>2. Alone'
      BY SMTT(30), <1>11 DEF SerialInv, TypeOK, Slots, InPlace, Alone, Mover, Holds, Trails,
           RollsBack, Claiming, Serial, Unclaimed, Untailed, ApplyRefreshed, Content
    <2>3. MarkerInv'
      BY SMTT(30), <1>11 DEF SerialInv, TypeOK, Slots, InPlace, Alone, Mover, MarkerInv,
           Holds, Trails, RollsBack, Claiming, Fresh, Serial, Untailed, ApplyRefreshed,
           Content
    <2>4. ASSUME NEW q \in Slots PROVE InPlace(q)'
      BY SMTT(30), <1>11 DEF SerialInv, TypeOK, Slots, InPlace, Alone, Mover, MarkerInv,
           Holds, Trails, RollsBack, Claiming, Fresh, Serial, Unclaimed, Untailed,
           ApplyRefreshed, Content
    <2>. QED BY <2>1, <2>2, <2>3, <2>4 DEF SerialInv
  <1>12. CASE ApplyPreflights(a)
    <2>1. TypeOK'
      BY SMTT(30), <1>12, Kinds DEF SerialInv, TypeOK, Steps, Slots, Changes, DepsKinds,
           MarkerKinds, ProcKinds, InPlace, Holds, Claiming, Fresh, Trails, RollsBack,
           ApplyPreflights, Writes, RestartRecorded
    <2>2. Alone'
      BY SMTT(30), <1>12 DEF SerialInv, TypeOK, Slots, InPlace, Alone, Mover, Holds, Trails,
           RollsBack, Claiming, Serial, Unclaimed, Untailed, ApplyPreflights, Writes,
           RestartRecorded
    <2>3. MarkerInv'
      BY SMTT(30), <1>12 DEF SerialInv, TypeOK, Slots, InPlace, Alone, Mover, MarkerInv,
           Holds, Trails, RollsBack, Claiming, Fresh, Serial, Untailed, ApplyPreflights,
           Writes, RestartRecorded
    <2>4. ASSUME NEW q \in Slots PROVE InPlace(q)'
      BY SMTT(30), <1>12 DEF SerialInv, TypeOK, Slots, InPlace, Alone, Mover, MarkerInv,
           Holds, Trails, RollsBack, Claiming, Fresh, Serial, Unclaimed, Untailed,
           ApplyPreflights, Writes, RestartRecorded
    <2>. QED BY <2>1, <2>2, <2>3, <2>4 DEF SerialInv
  <1>13. CASE ApplyRestarts(a)
    <2>1. TypeOK'
      BY SMTT(30), <1>13, Kinds DEF SerialInv, TypeOK, Steps, Slots, Changes, DepsKinds,
           MarkerKinds, ProcKinds, InPlace, Holds, Claiming, Fresh, Trails, RollsBack,
           ApplyRestarts, Now, Content
    <2>2. Alone'
      BY SMTT(30), <1>13 DEF SerialInv, TypeOK, Slots, InPlace, Alone, Mover, Holds, Trails,
           RollsBack, Claiming, Serial, Unclaimed, Untailed, ApplyRestarts, Now, Content
    <2>3. MarkerInv'
      BY SMTT(30), <1>13 DEF SerialInv, TypeOK, Slots, InPlace, Alone, Mover, MarkerInv,
           Holds, Trails, RollsBack, Claiming, Fresh, Serial, Untailed, ApplyRestarts, Now,
           Content
    <2>4. ASSUME NEW q \in Slots PROVE InPlace(q)'
      BY SMTT(30), <1>13 DEF SerialInv, TypeOK, Slots, InPlace, Alone, Mover, MarkerInv,
           Holds, Trails, RollsBack, Claiming, Fresh, Serial, Unclaimed, Untailed,
           ApplyRestarts, Now, Content
    <2>. QED BY <2>1, <2>2, <2>3, <2>4 DEF SerialInv
  <1>14. CASE ApplyConfirms(a)
    <2>1. TypeOK'
      <3>1. (proc \in [Slots -> ProcKinds])'
        BY <1>14, Kinds DEF ApplyConfirms, Cleared, Healthy, SerialInv, TypeOK, ProcKinds,
             Steps, Slots
      <3>2. (marker \in MarkerKinds /\ (marker.pid = None <=> marker = NoMarker))'
        BY <1>14, Kinds DEF ApplyConfirms, Cleared, Healthy
      <3>. QED BY <1>14, <3>1, <3>2 DEF SerialInv, TypeOK, ApplyConfirms, Cleared, Healthy
    <2>2. Alone'
      BY SMTT(30), <1>14 DEF SerialInv, TypeOK, Slots, InPlace, Alone, Mover, Holds, Trails,
           RollsBack, Claiming, Serial, Unclaimed, Untailed, ApplyConfirms, Cleared, Healthy
    <2>3. MarkerInv'
      BY SMTT(30), <1>14 DEF SerialInv, TypeOK, Slots, InPlace, Alone, Mover, MarkerInv,
           Holds, Trails, RollsBack, Claiming, Fresh, Serial, Untailed, ApplyConfirms,
           Cleared, Healthy
    <2>4. ASSUME NEW q \in Slots PROVE InPlace(q)'
      BY SMTT(30), <1>14 DEF SerialInv, TypeOK, Slots, InPlace, Alone, Mover, MarkerInv,
           Holds, Trails, RollsBack, Claiming, Fresh, Serial, Unclaimed, Untailed,
           ApplyConfirms, Cleared, Healthy
    <2>. QED BY <2>1, <2>2, <2>3, <2>4 DEF SerialInv
  <1>15. CASE ApplyEnds(a)
    <2>1. TypeOK'
      <3>1. (proc \in [Slots -> ProcKinds])'
        BY SMTT(30), <1>15, Kinds DEF SerialInv, TypeOK, Steps, Slots, Changes, DepsKinds,
             MarkerKinds, ProcKinds, InPlace, Holds, Claiming, Fresh, Trails, RollsBack,
             ApplyEnds, PointAt
      <3>2. (marker \in MarkerKinds /\ (marker.pid = None <=> marker = NoMarker))'
        BY SMTT(30), <1>15, Kinds DEF SerialInv, TypeOK, Steps, Slots, Changes, DepsKinds,
             MarkerKinds, ProcKinds, InPlace, Holds, Claiming, Fresh, Trails, RollsBack,
             ApplyEnds, PointAt
      <3>3. (point \in [state : {"none", "kept", "reverting", "settled"},
                   merge : Merges \cup {None}, back : Changes, snapped : BOOLEAN])'
        BY SMTT(30), <1>15, Kinds DEF SerialInv, TypeOK, Steps, Slots, Changes, DepsKinds,
             MarkerKinds, ProcKinds, InPlace, Holds, Claiming, Fresh, Trails, RollsBack,
             ApplyEnds, PointAt
      <3>4. (running \in [tree : SUBSET Merges, deps : DepsKinds] \cup {Down})'
        BY SMTT(30), <1>15, Kinds DEF SerialInv, TypeOK, Steps, Slots, Changes, DepsKinds,
             MarkerKinds, ProcKinds, InPlace, Holds, Claiming, Fresh, Trails, RollsBack,
             ApplyEnds, PointAt
      <3>5. (head \in Changes /\ index \in Changes /\ mergeHead \in BOOLEAN)'
        BY SMTT(30), <1>15, Kinds DEF SerialInv, TypeOK, Steps, Slots, Changes, DepsKinds,
             MarkerKinds, ProcKinds, InPlace, Holds, Claiming, Fresh, Trails, RollsBack,
             ApplyEnds, PointAt
      <3>6. (cut \subseteq Merges /\ landed \subseteq cut /\ undone \subseteq cut)'
        BY SMTT(30), <1>15, Kinds DEF SerialInv, TypeOK, Steps, Slots, Changes, DepsKinds,
             MarkerKinds, ProcKinds, InPlace, Holds, Claiming, Fresh, Trails, RollsBack,
             ApplyEnds, PointAt
      <3>7. (deps \in DepsKinds /\ copies \in DepsKinds \cup {None})'
        BY SMTT(30), <1>15, Kinds DEF SerialInv, TypeOK, Steps, Slots, Changes, DepsKinds,
             MarkerKinds, ProcKinds, InPlace, Holds, Claiming, Fresh, Trails, RollsBack,
             ApplyEnds, PointAt
      <3>8. (emergency \in BOOLEAN /\ told \in BOOLEAN)'
        BY ZenonT(40), <1>15, Kinds DEF SerialInv, TypeOK, Steps, Slots, Changes, DepsKinds, MarkerKinds,
             ProcKinds, InPlace, Holds, Claiming, Fresh, Trails, RollsBack, ApplyEnds, PointAt
      <3>9. (worked \subseteq Work /\ faults \in 0..MaxFaults)'
        BY SMTT(30), <1>15, Kinds DEF SerialInv, TypeOK, Steps, Slots, Changes, DepsKinds,
             MarkerKinds, ProcKinds, InPlace, Holds, Claiming, Fresh, Trails, RollsBack,
             ApplyEnds, PointAt
      <3>10. (boot \in {"recovering", "starting", "up"} /\ (boot # "up" => running = Down))'
        BY SMTT(30), <1>15, Kinds DEF SerialInv, TypeOK, Steps, Slots, Changes, DepsKinds,
             MarkerKinds, ProcKinds, InPlace, Holds, Claiming, Fresh, Trails, RollsBack,
             ApplyEnds, PointAt
      <3>. QED BY <3>1, <3>2, <3>3, <3>4, <3>5, <3>6, <3>7, <3>8, <3>9, <3>10 DEF TypeOK
    <2>2. Alone'
      BY SMTT(30), <1>15 DEF SerialInv, TypeOK, Slots, InPlace, Alone, Mover, Holds, Trails,
           RollsBack, Claiming, Serial, Unclaimed, Untailed, ApplyEnds, PointAt
    <2>3. MarkerInv'
      BY SMTT(30), <1>15 DEF SerialInv, TypeOK, Slots, InPlace, Alone, Mover, MarkerInv,
           Holds, Trails, RollsBack, Claiming, Fresh, Serial, Untailed, ApplyEnds, PointAt
    <2>4. ASSUME NEW q \in Slots PROVE InPlace(q)'
      BY SMTT(30), <1>15 DEF SerialInv, TypeOK, Slots, InPlace, Alone, Mover, MarkerInv,
           Holds, Trails, RollsBack, Claiming, Fresh, Serial, Unclaimed, Untailed,
           ApplyEnds, PointAt
    <2>. QED BY <2>1, <2>2, <2>3, <2>4 DEF SerialInv
  <1>16. CASE ApplyFails(a)
    <2>1. TypeOK'
      BY SMTT(30), <1>16, Kinds DEF SerialInv, TypeOK, Steps, Slots, Changes, DepsKinds,
           MarkerKinds, ProcKinds, InPlace, Holds, Claiming, Fresh, Trails, RollsBack,
           ApplyFails, Failing, Healthy
    <2>2. Alone'
      BY SMTT(30), <1>16 DEF SerialInv, TypeOK, Slots, InPlace, Alone, Mover, Holds, Trails,
           RollsBack, Claiming, Serial, Unclaimed, Untailed, ApplyFails, Failing, Healthy
    <2>3. MarkerInv'
      BY SMTT(30), <1>16 DEF SerialInv, TypeOK, Slots, InPlace, Alone, Mover, MarkerInv,
           Holds, Trails, RollsBack, Claiming, Fresh, Serial, Untailed, ApplyFails, Failing,
           Healthy
    <2>4. ASSUME NEW q \in Slots PROVE InPlace(q)'
      BY SMTT(30), <1>16 DEF SerialInv, TypeOK, Slots, InPlace, Alone, Mover, MarkerInv,
           Holds, Trails, RollsBack, Claiming, Fresh, Serial, Unclaimed, Untailed,
           ApplyFails, Failing, Healthy
    <2>. QED BY <2>1, <2>2, <2>3, <2>4 DEF SerialInv
  <1>. QED BY <1>1, <1>2, <1>3, <1>4, <1>5, <1>6, <1>7, <1>8, <1>9, <1>10, <1>11, <1>12, <1>13, <1>14,
       <1>15, <1>16 DEF ApplyNext

\* A recovery, and the rollback of a failed apply, keep one process at work.
LEMMA SerialUndo ==
  ASSUME Serial, SerialInv, NEW p \in Slots,
         RecoverReads(p) \/ BootReads \/ UndoNext(p)
  PROVE  SerialInv'
  <1>1. CASE RecoverReads(p)
    <2>1. TypeOK'
      <3>1. (proc \in [Slots -> ProcKinds])'
        BY <1>1, StampedKind, ReadsKind DEF RecoverReads, Reads, Stale, Stamped, SerialInv
      <3>. QED BY <1>1, <3>1 DEF SerialInv, TypeOK, RecoverReads, Reads, Stale, Stamped
    <2>2. Alone'
      BY <1>1, ReadsAlone, Kinds DEF RecoverReads, Reads, Stale
    <2>3. MarkerInv'
      BY SMTT(30), <1>1, Places, Solo, Kinds DEF SerialInv, TypeOK, Slots, InPlace, Alone,
           Mover, MarkerInv, Holds, Trails, RollsBack, Claiming, Fresh, Serial, Untailed,
           RecoverReads, Reads, Stale, Stamped, Clean, NoPoint
    <2>4. ASSUME NEW q \in Slots PROVE InPlace(q)'
      <3>1. CASE q = p
        <4>1. proc'[p] = [pc |-> "claim", role |-> "recover", mk |-> Stamped(marker, p), keep |-> FALSE,
                          diff |-> {}, landed |-> FALSE]
          BY <1>1 DEF RecoverReads, Reads, SerialInv, TypeOK
        <4>2. marker.merge \in cut
          BY <1>1, Kinds DEF RecoverReads, Stale, SerialInv, MarkerInv
        <4>3. Claiming(p)'
          <5>1. proc'[p].mk.pid = p /\ proc'[p].mk.merge \in cut'
            BY <1>1, <4>1, <4>2, StampedKind DEF RecoverReads, SerialInv
          <5>2. proc'[p].mk = Stamped(marker, p)' /\ marker'.pid = Dead
            BY <1>1, <4>1 DEF RecoverReads, Stale
          <5>3. p # Shell /\ proc'[p].role = "recover"
            BY <1>1, <4>1 DEF RecoverReads
          <5>. QED BY <5>1, <5>2, <5>3 DEF Claiming
        <4>. QED BY <1>1, <3>1, <4>1, <4>3 DEF InPlace, RecoverReads, Slots
      <3>2. CASE q # p
        BY <1>1, <3>2 DEF RecoverReads, Reads, TypeOK, SerialInv, InPlace, Holds, Claiming, Fresh, Trails,
           RollsBack
      <3>. QED BY <3>1, <3>2
    <2>. QED BY <2>1, <2>2, <2>3, <2>4 DEF SerialInv
  <1>2. CASE BootReads
    <2>1. TypeOK'
      <3>1. (proc \in [Slots -> ProcKinds])'
        <4>1. CASE Stale
          BY <1>2, <4>1, StampedKind, ReadsKind DEF BootReads, Slots, SerialInv
        <4>. QED BY <1>2, <4>1 DEF BootReads, SerialInv, TypeOK
      <3>2. (marker \in MarkerKinds /\ (marker.pid = None <=> marker = NoMarker))'
        BY <1>2, DeadKind DEF BootReads, Reads, Stale, Stamped, SerialInv, TypeOK
      <3>. QED BY <1>2, <3>1, <3>2 DEF SerialInv, TypeOK, BootReads, Reads, Stale, Stamped
    <2>2. Alone'
      <3>1. CASE Stale
        <4>1. Unclaimed
          BY <1>2 DEF BootReads, Unclaimed, SerialInv, InPlace
        <4>. QED BY <1>2, <3>1, <4>1, ReadsAlone, Kinds DEF BootReads, Reads, Stale, Slots
      <3>. QED BY <1>2, <3>1 DEF BootReads, SerialInv, Alone, Mover
    <2>3. MarkerInv'
      <3>1. marker # NoMarker /\ point = NoPoint /\ marker.merge \in cut
        BY <1>2 DEF BootReads, SerialInv, MarkerInv
      <3>2. marker' # NoMarker /\ marker'.merge \in cut /\ UNCHANGED <<point, cut, mergeHead>>
        BY <1>2, <3>1, DeadKind DEF BootReads, SerialInv
      <3>3. \A q \in Slots : ~Mover(q)'
        BY <1>2 DEF BootReads, SerialInv, TypeOK, InPlace, Reads, Mover
      <3>. QED BY <3>1, <3>2, <3>3 DEF MarkerInv
    <2>4. ASSUME NEW q \in Slots PROVE InPlace(q)'
      <3>1. CASE Stale /\ q = Boot
        <4>1. proc'[Boot] = [pc |-> "claim", role |-> "recover", mk |-> Stamped(marker, Boot),
                             keep |-> FALSE, diff |-> {}, landed |-> FALSE]
          BY <1>2, <3>1 DEF BootReads, Reads, SerialInv, TypeOK, Slots
        <4>2. marker.merge \in cut
          BY <3>1, Kinds DEF Stale, SerialInv, MarkerInv
        <4>3. Claiming(Boot)'
          <5>1. proc'[Boot].mk.pid = Boot /\ proc'[Boot].mk.merge \in cut'
            BY <1>2, <4>1, <4>2, StampedKind DEF BootReads, SerialInv, Slots
          <5>2. proc'[Boot].mk = Stamped(marker, Boot)' /\ marker'.pid = Dead
            BY <1>2, <3>1, <4>1 DEF BootReads, Stale
          <5>3. Boot # Shell /\ proc'[Boot].role = "recover"
            BY <4>1
          <5>. QED BY <5>1, <5>2, <5>3 DEF Claiming
        <4>. QED BY <1>2, <3>1, <4>1, <4>3 DEF InPlace, BootReads, Slots
      <3>2. CASE Stale /\ q # Boot
        BY <1>2, <3>2 DEF BootReads, Reads, TypeOK, SerialInv, InPlace, Holds, Claiming, Fresh, Trails,
           RollsBack
      <3>3. CASE ~Stale
        <4>1. At(q, "idle")
          BY <1>2 DEF BootReads, SerialInv, InPlace
        <4>. QED BY <1>2, <3>3, <4>1 DEF BootReads, SerialInv, InPlace
      <3>. QED BY <3>1, <3>2, <3>3
    <2>. QED BY <2>1, <2>2, <2>3, <2>4 DEF SerialInv
  <1>3. CASE RecoverClaims(p)
    <2>1. TypeOK'
      BY SMTT(30), <1>3 DEF SerialInv, TypeOK, ProcKinds, RecoverClaims
    <2>2. Alone'
      BY SMTT(30), <1>3, ClaimsAlone DEF SerialInv, TypeOK, Alone, Mover, RecoverClaims
    <2>3. MarkerInv'
      BY SMTT(30), <1>3, ClaimsAlone, Kinds DEF MarkerInv, Claiming, RecoverClaims, AbortFirst,
           AbortMerge
    <2>4. ASSUME NEW q \in Slots PROVE InPlace(q)'
      <3>1. CASE q = p
        <4>1. /\ proc'[p].pc = "undo" /\ proc'[p].role = "recover"
              /\ proc'[p].mk = proc[p].mk /\ marker' = proc[p].mk
          BY <1>3, Places DEF RecoverClaims, SerialInv, TypeOK, ProcKinds
        <4>2. p # Shell /\ proc[p].mk.pid = p
          BY <1>3 DEF RecoverClaims, SerialInv, InPlace, Claiming
        <4>3. point = NoPoint
          BY <1>3, ClaimsAlone DEF RecoverClaims
        <4>. QED BY <1>3, <3>1, <4>1, <4>2, <4>3 DEF RecoverClaims, SerialInv, InPlace, Holds
      <3>2. CASE q # p
        <4>1. proc'[q] = proc[q] /\ At(q, "idle")
          BY <1>3, <3>2, ClaimsAlone DEF RecoverClaims, SerialInv, TypeOK
        <4>. QED BY <1>3, <4>1 DEF RecoverClaims, SerialInv, InPlace
      <3>. QED BY <3>1, <3>2
    <2>. QED BY <2>1, <2>2, <2>3, <2>4 DEF SerialInv
  <1>4. CASE Restores(p)
    <2>1. TypeOK'
      BY SMTT(30), <1>4, Kinds DEF SerialInv, TypeOK, Steps, Slots, Changes, DepsKinds,
           MarkerKinds, ProcKinds, InPlace, Holds, Claiming, Fresh, Trails, RollsBack,
           Restores
    <2>2. Alone'
      BY SMTT(30), <1>4 DEF SerialInv, TypeOK, Slots, InPlace, Alone, Mover, Holds, Trails,
           RollsBack, Claiming, Serial, Unclaimed, Untailed, Restores
    <2>3. MarkerInv'
      BY SMTT(30), <1>4 DEF SerialInv, TypeOK, Slots, InPlace, Alone, Mover, MarkerInv,
           Holds, Trails, RollsBack, Claiming, Fresh, Serial, Untailed, Restores
    <2>4. ASSUME NEW q \in Slots PROVE InPlace(q)'
      BY SMTT(30), <1>4 DEF SerialInv, TypeOK, Slots, InPlace, Alone, Mover, MarkerInv,
           Holds, Trails, RollsBack, Claiming, Fresh, Serial, Unclaimed, Untailed, Restores
    <2>. QED BY <2>1, <2>2, <2>3, <2>4 DEF SerialInv
  <1>5. CASE Commits(p)
    <2>1. TypeOK'
      <3>1. (proc \in [Slots -> ProcKinds])'
        BY <1>5, Kinds DEF Commits, CommitStaged, SerialInv, TypeOK, ProcKinds, Steps, Slots
      <3>2. (cut \subseteq Merges /\ landed \subseteq cut /\ undone \subseteq cut)'
        BY <1>5, Places DEF Commits, CommitStaged, Slots, SerialInv, TypeOK
      <3>3. (head \in Changes)'
        BY <1>5 DEF Commits, CommitStaged, SerialInv, TypeOK
      <3>. QED BY <1>5, <3>1, <3>2, <3>3 DEF SerialInv, TypeOK, Commits, CommitStaged
    <2>2. Alone'
      BY SMTT(30), <1>5 DEF SerialInv, TypeOK, Slots, InPlace, Alone, Mover, Holds, Trails,
           RollsBack, Claiming, Serial, Unclaimed, Untailed, Commits, CommitStaged
    <2>3. MarkerInv'
      BY SMTT(30), <1>5 DEF SerialInv, TypeOK, Slots, InPlace, Alone, Mover, MarkerInv,
           Holds, Trails, RollsBack, Claiming, Fresh, Serial, Untailed, Commits,
           CommitStaged
    <2>4. ASSUME NEW q \in Slots PROVE InPlace(q)'
      BY SMTT(30), <1>5 DEF SerialInv, TypeOK, Slots, InPlace, Alone, Mover, MarkerInv,
           Holds, Trails, RollsBack, Claiming, Fresh, Serial, Unclaimed, Untailed, Commits,
           CommitStaged
    <2>. QED BY <2>1, <2>2, <2>3, <2>4 DEF SerialInv
  <1>6. CASE GitFails(p)
    <2>1. TypeOK'
      <3>1. (marker \in MarkerKinds /\ (marker.pid = None <=> marker = NoMarker))'
        BY <1>6, OrphanedKind DEF GitFails, Orphaned, SerialInv, TypeOK
      <3>2. (proc \in [Slots -> ProcKinds])'
        BY <1>6, Kinds DEF GitFails, Orphaned, SerialInv, TypeOK, ProcKinds, Steps
      <3>3. (proc \in [Slots -> ProcKinds])'
        BY <1>6, Kinds DEF GitFails, Orphaned, SerialInv, TypeOK, ProcKinds, Steps
      <3>4. (/\ worked \subseteq Work /\ faults \in 0..MaxFaults)'
        BY <1>6 DEF GitFails, Orphaned, SerialInv, TypeOK
      <3>5. (/\ worked \subseteq Work /\ faults \in 0..MaxFaults)'
        BY <1>6 DEF GitFails, Orphaned, SerialInv, TypeOK
      <3>6. (boot \in {"recovering", "starting", "up"} /\ (boot # "up" => running = Down))'
        BY <1>6 DEF GitFails, Orphaned, SerialInv, TypeOK, InPlace
      <3>7. (boot \in {"recovering", "starting", "up"} /\ (boot # "up" => running = Down))'
        BY <1>6 DEF GitFails, Orphaned, SerialInv, TypeOK, InPlace
      <3>. QED BY <1>6, <3>1, <3>2, <3>3, <3>4, <3>5, <3>6, <3>7 DEF SerialInv, TypeOK, GitFails,
           Orphaned
    <2>2. Alone'
      BY SMTT(30), <1>6 DEF SerialInv, TypeOK, Slots, InPlace, Alone, Mover, Holds, Trails,
           RollsBack, Claiming, Serial, Unclaimed, Untailed, GitFails, Orphaned
    <2>3. MarkerInv'
      <3>1. /\ marker' = NoMarker <=> marker = NoMarker
            /\ marker'.merge = marker.merge /\ UNCHANGED <<mergeHead, point, cut>>
        BY <1>6, OrphanedKind DEF GitFails, SerialInv
      <3>2. boot' = "recovering" /\ At(Boot, "idle")' => boot = "recovering" /\ At(Boot, "idle")
        <4>1. CASE p = Boot
          <5>1. CASE Goes(p, "alarm")
            BY <4>1, <5>1, Places DEF SerialInv, TypeOK, ProcKinds
          <5>2. CASE Ends(p)
            BY <4>1, <5>2
          <5>. QED BY <1>6, <5>1, <5>2 DEF GitFails
        <4>2. CASE p # Boot
          <5>1. proc'[Boot] = proc[Boot]
            BY <1>6, <4>2 DEF GitFails, SerialInv, TypeOK, Slots
          <5>. QED BY <1>6, <4>2, <5>1 DEF GitFails
        <4>. QED BY <4>1, <4>2
      <3>3. \A q \in Slots : Mover(q)' => Mover(q) /\ ~mergeHead
        BY <1>6 DEF GitFails, SerialInv, TypeOK, MarkerInv, Mover, Idle
      <3>. QED BY <3>1, <3>2, <3>3 DEF SerialInv, MarkerInv
    <2>4. ASSUME NEW q \in Slots PROVE InPlace(q)'
      <3>1. CASE q = p
        <4>1. CASE Goes(p, "alarm") /\ UNCHANGED <<marker, boot>>
          <5>1. proc'[p].pc = "alarm" /\ proc'[p].role = proc[p].role /\ proc'[p].mk = proc[p].mk
            BY <1>6, <4>1, Places DEF SerialInv, TypeOK, ProcKinds
          <5>. QED BY <1>6, <3>1, <4>1, <5>1 DEF GitFails, SerialInv, InPlace, Holds
        <4>2. CASE proc' = [proc EXCEPT ![p] = Idle]
          BY <3>1, <4>2 DEF InPlace, Idle, SerialInv, TypeOK
        <4>. QED BY <1>6, <4>1, <4>2 DEF GitFails
      <3>2. CASE q # p
        <4>1. proc'[q] = proc[q] /\ At(q, "idle")
          BY <1>6, <3>2, Solo DEF GitFails, SerialInv, TypeOK
        <4>. QED BY <1>6, <4>1 DEF GitFails, SerialInv, InPlace
      <3>. QED BY <3>1, <3>2
    <2>. QED BY <2>1, <2>2, <2>3, <2>4 DEF SerialInv
  <1>7. CASE PutsBack(p)
    <2>1. TypeOK'
      BY SMTT(30), <1>7, Kinds DEF SerialInv, TypeOK, Steps, Slots, Changes, DepsKinds,
           MarkerKinds, ProcKinds, InPlace, Holds, Claiming, Fresh, Trails, RollsBack,
           PutsBack, AfterLoss, AfterDeps
    <2>2. Alone'
      BY SMTT(30), <1>7, Places, Solo, Kinds DEF SerialInv, TypeOK, Slots, InPlace, Alone,
           Mover, Holds, Trails, RollsBack, Claiming, Serial, Unclaimed, Untailed, PutsBack,
           AfterLoss, AfterDeps
    <2>3. MarkerInv'
      BY SMTT(30), <1>7, Places DEF SerialInv, Mover, MarkerInv, PutsBack
    <2>4. ASSUME NEW q \in Slots PROVE InPlace(q)'
      <3>1. CASE q = p
        <4>1. PICK pc \in {"putting", "rebuild", "alarm", "clear", "again", "confirm"} :
                /\ Goes(p, pc) /\ (pc = "putting" => copies # None)
                /\ p = Boot => pc \notin {"rebuild", "again", "confirm"}
          BY <1>7 DEF PutsBack, AfterLoss, AfterDeps
        <4>. QED BY <1>7, <3>1, <4>1 DEF PutsBack, SerialInv, TypeOK, InPlace, Holds, ProcKinds
      <3>2. CASE q # p
        <4>1. proc'[q] = proc[q] /\ At(q, "idle")
          BY <1>7, <3>2, Solo DEF PutsBack, SerialInv, TypeOK
        <4>. QED BY <4>1 DEF SerialInv, InPlace
      <3>. QED BY <3>1, <3>2
    <2>. QED BY <2>1, <2>2, <2>3, <2>4 DEF SerialInv
  <1>8. CASE IsPutBack(p)
    <2>1. TypeOK'
      <3>1. (proc \in [Slots -> ProcKinds])'
        BY <1>8, Kinds DEF IsPutBack, AfterDeps, SerialInv, TypeOK, ProcKinds, Steps, Slots
      <3>2. (deps \in DepsKinds)'
        BY <1>8 DEF IsPutBack, AfterDeps, SerialInv, TypeOK, InPlace
      <3>. QED BY <1>8, <3>1, <3>2 DEF SerialInv, TypeOK, IsPutBack, AfterDeps
    <2>2. Alone'
      BY SMTT(30), <1>8 DEF SerialInv, TypeOK, Slots, InPlace, Alone, Mover, Holds, Trails,
           RollsBack, Claiming, Serial, Unclaimed, Untailed, IsPutBack, AfterDeps
    <2>3. MarkerInv'
      BY SMTT(30), <1>8 DEF SerialInv, TypeOK, Slots, InPlace, Alone, Mover, MarkerInv,
           Holds, Trails, RollsBack, Claiming, Fresh, Serial, Untailed, IsPutBack, AfterDeps
    <2>4. ASSUME NEW q \in Slots PROVE InPlace(q)'
      BY SMTT(30), <1>8 DEF SerialInv, TypeOK, Slots, InPlace, Alone, Mover, MarkerInv,
           Holds, Trails, RollsBack, Claiming, Fresh, Serial, Unclaimed, Untailed,
           IsPutBack, AfterDeps
    <2>. QED BY <2>1, <2>2, <2>3, <2>4 DEF SerialInv
  <1>9. CASE PutBackLost(p)
    <2>1. TypeOK'
      BY SMTT(30), <1>9, Kinds DEF SerialInv, TypeOK, Steps, Slots, Changes, DepsKinds,
           MarkerKinds, ProcKinds, InPlace, Holds, Claiming, Fresh, Trails, RollsBack,
           PutBackLost, AfterLoss, AfterDeps
    <2>2. Alone'
      BY SMTT(30), <1>9 DEF SerialInv, TypeOK, Slots, InPlace, Alone, Mover, Holds, Trails,
           RollsBack, Claiming, Serial, Unclaimed, Untailed, PutBackLost, AfterLoss,
           AfterDeps
    <2>3. MarkerInv'
      BY SMTT(30), <1>9 DEF SerialInv, TypeOK, Slots, InPlace, Alone, Mover, MarkerInv,
           Holds, Trails, RollsBack, Claiming, Fresh, Serial, Untailed, PutBackLost,
           AfterLoss, AfterDeps
    <2>4. ASSUME NEW q \in Slots PROVE InPlace(q)'
      BY SMTT(30), <1>9 DEF SerialInv, TypeOK, Slots, InPlace, Alone, Mover, MarkerInv,
           Holds, Trails, RollsBack, Claiming, Fresh, Serial, Unclaimed, Untailed,
           PutBackLost, AfterLoss, AfterDeps
    <2>. QED BY <2>1, <2>2, <2>3, <2>4 DEF SerialInv
  <1>10. CASE Rebuilds(p)
    <2>1. TypeOK'
      BY SMTT(30), <1>10, Kinds DEF SerialInv, TypeOK, Steps, Slots, Changes, DepsKinds,
           MarkerKinds, ProcKinds, InPlace, Holds, Claiming, Fresh, Trails, RollsBack,
           Rebuilds, AfterDeps, Content
    <2>2. Alone'
      BY SMTT(30), <1>10 DEF SerialInv, TypeOK, Slots, InPlace, Alone, Mover, Holds, Trails,
           RollsBack, Claiming, Serial, Unclaimed, Untailed, Rebuilds, AfterDeps, Content
    <2>3. MarkerInv'
      BY SMTT(30), <1>10 DEF SerialInv, TypeOK, Slots, InPlace, Alone, Mover, MarkerInv,
           Holds, Trails, RollsBack, Claiming, Fresh, Serial, Untailed, Rebuilds, AfterDeps,
           Content
    <2>4. ASSUME NEW q \in Slots PROVE InPlace(q)'
      BY SMTT(30), <1>10 DEF SerialInv, TypeOK, Slots, InPlace, Alone, Mover, MarkerInv,
           Holds, Trails, RollsBack, Claiming, Fresh, Serial, Unclaimed, Untailed, Rebuilds,
           AfterDeps, Content
    <2>. QED BY <2>1, <2>2, <2>3, <2>4 DEF SerialInv
  <1>11. CASE RestartsAgain(p)
    <2>1. TypeOK'
      BY SMTT(30), <1>11, Kinds DEF SerialInv, TypeOK, Steps, Slots, Changes, DepsKinds,
           MarkerKinds, ProcKinds, InPlace, Holds, Claiming, Fresh, Trails, RollsBack,
           RestartsAgain, Now, Content
    <2>2. Alone'
      BY SMTT(30), <1>11 DEF SerialInv, TypeOK, Slots, InPlace, Alone, Mover, Holds, Trails,
           RollsBack, Claiming, Serial, Unclaimed, Untailed, RestartsAgain, Now, Content
    <2>3. MarkerInv'
      BY SMTT(30), <1>11 DEF SerialInv, TypeOK, Slots, InPlace, Alone, Mover, MarkerInv,
           Holds, Trails, RollsBack, Claiming, Fresh, Serial, Untailed, RestartsAgain, Now,
           Content
    <2>4. ASSUME NEW q \in Slots PROVE InPlace(q)'
      BY SMTT(30), <1>11 DEF SerialInv, TypeOK, Slots, InPlace, Alone, Mover, MarkerInv,
           Holds, Trails, RollsBack, Claiming, Fresh, Serial, Unclaimed, Untailed,
           RestartsAgain, Now, Content
    <2>. QED BY <2>1, <2>2, <2>3, <2>4 DEF SerialInv
  <1>12. CASE Confirms(p)
    <2>1. TypeOK'
      BY SMTT(30), <1>12, Kinds DEF SerialInv, TypeOK, Steps, Slots, Changes, DepsKinds,
           MarkerKinds, ProcKinds, InPlace, Holds, Claiming, Fresh, Trails, RollsBack,
           Confirms
    <2>2. Alone'
      BY SMTT(30), <1>12 DEF SerialInv, TypeOK, Slots, InPlace, Alone, Mover, Holds, Trails,
           RollsBack, Claiming, Serial, Unclaimed, Untailed, Confirms
    <2>3. MarkerInv'
      BY SMTT(30), <1>12 DEF SerialInv, TypeOK, Slots, InPlace, Alone, Mover, MarkerInv,
           Holds, Trails, RollsBack, Claiming, Fresh, Serial, Untailed, Confirms
    <2>4. ASSUME NEW q \in Slots PROVE InPlace(q)'
      BY SMTT(30), <1>12 DEF SerialInv, TypeOK, Slots, InPlace, Alone, Mover, MarkerInv,
           Holds, Trails, RollsBack, Claiming, Fresh, Serial, Unclaimed, Untailed, Confirms
    <2>. QED BY <2>1, <2>2, <2>3, <2>4 DEF SerialInv
  <1>13. CASE NotRecovered(p)
    <2>1. TypeOK'
      BY SMTT(30), <1>13, Kinds DEF SerialInv, TypeOK, Steps, Slots, Changes, DepsKinds,
           MarkerKinds, ProcKinds, InPlace, Holds, Claiming, Fresh, Trails, RollsBack,
           NotRecovered
    <2>2. Alone'
      BY SMTT(30), <1>13 DEF SerialInv, TypeOK, Slots, InPlace, Alone, Mover, Holds, Trails,
           RollsBack, Claiming, Serial, Unclaimed, Untailed, NotRecovered
    <2>3. MarkerInv'
      BY SMTT(30), <1>13 DEF SerialInv, TypeOK, Slots, InPlace, Alone, Mover, MarkerInv,
           Holds, Trails, RollsBack, Claiming, Fresh, Serial, Untailed, NotRecovered
    <2>4. ASSUME NEW q \in Slots PROVE InPlace(q)'
      BY SMTT(30), <1>13 DEF SerialInv, TypeOK, Slots, InPlace, Alone, Mover, MarkerInv,
           Holds, Trails, RollsBack, Claiming, Fresh, Serial, Unclaimed, Untailed,
           NotRecovered
    <2>. QED BY <2>1, <2>2, <2>3, <2>4 DEF SerialInv
  <1>14. CASE Clears(p)
    <2>1. TypeOK'
      <3>1. (proc \in [Slots -> ProcKinds])'
        BY <1>14, Kinds DEF Clears, Cleared, SerialInv, TypeOK, ProcKinds, Steps, Slots
      <3>2. (marker \in MarkerKinds /\ (marker.pid = None <=> marker = NoMarker))'
        BY <1>14, Kinds DEF Clears, Cleared
      <3>. QED BY <1>14, <3>1, <3>2 DEF SerialInv, TypeOK, Clears, Cleared
    <2>2. Alone'
      BY SMTT(30), <1>14 DEF SerialInv, TypeOK, Slots, InPlace, Alone, Mover, Holds, Trails,
           RollsBack, Claiming, Serial, Unclaimed, Untailed, Clears, Cleared
    <2>3. MarkerInv'
      BY SMTT(30), <1>14 DEF SerialInv, TypeOK, Slots, InPlace, Alone, Mover, MarkerInv,
           Holds, Trails, RollsBack, Claiming, Fresh, Serial, Untailed, Clears, Cleared
    <2>4. ASSUME NEW q \in Slots PROVE InPlace(q)'
      BY SMTT(30), <1>14 DEF SerialInv, TypeOK, Slots, InPlace, Alone, Mover, MarkerInv,
           Holds, Trails, RollsBack, Claiming, Fresh, Serial, Unclaimed, Untailed, Clears,
           Cleared
    <2>. QED BY <2>1, <2>2, <2>3, <2>4 DEF SerialInv
  <1>15. CASE Tidies(p)
    <2>1. TypeOK'
      BY SMTT(30), <1>15, Kinds DEF SerialInv, TypeOK, Steps, Slots, Changes, DepsKinds,
           MarkerKinds, ProcKinds, InPlace, Holds, Claiming, Fresh, Trails, RollsBack,
           Tidies
    <2>2. Alone'
      BY SMTT(30), <1>15 DEF SerialInv, TypeOK, Slots, InPlace, Alone, Mover, Holds, Trails,
           RollsBack, Claiming, Serial, Unclaimed, Untailed, Tidies
    <2>3. MarkerInv'
      BY SMTT(30), <1>15 DEF SerialInv, TypeOK, Slots, InPlace, Alone, Mover, MarkerInv,
           Holds, Trails, RollsBack, Claiming, Fresh, Serial, Untailed, Tidies
    <2>4. ASSUME NEW q \in Slots PROVE InPlace(q)'
      BY SMTT(30), <1>15 DEF SerialInv, TypeOK, Slots, InPlace, Alone, Mover, MarkerInv,
           Holds, Trails, RollsBack, Claiming, Fresh, Serial, Unclaimed, Untailed, Tidies
    <2>. QED BY <2>1, <2>2, <2>3, <2>4 DEF SerialInv
  <1>16. CASE GivesUp(p)
    <2>1. TypeOK'
      <3>1. (proc \in [Slots -> ProcKinds])'
        BY <1>16, Kinds DEF GivesUp, Cleared, SerialInv, TypeOK, ProcKinds, Steps, Slots
      <3>2. (marker \in MarkerKinds /\ (marker.pid = None <=> marker = NoMarker))'
        BY <1>16, Kinds DEF GivesUp, Cleared
      <3>. QED BY <1>16, <3>1, <3>2 DEF SerialInv, TypeOK, GivesUp, Cleared
    <2>2. Alone'
      BY SMTT(30), <1>16 DEF SerialInv, TypeOK, Slots, InPlace, Alone, Mover, Holds, Trails,
           RollsBack, Claiming, Serial, Unclaimed, Untailed, GivesUp, Cleared
    <2>3. MarkerInv'
      BY SMTT(30), <1>16 DEF SerialInv, TypeOK, Slots, InPlace, Alone, Mover, MarkerInv,
           Holds, Trails, RollsBack, Claiming, Fresh, Serial, Untailed, GivesUp, Cleared
    <2>4. ASSUME NEW q \in Slots PROVE InPlace(q)'
      BY SMTT(30), <1>16 DEF SerialInv, TypeOK, Slots, InPlace, Alone, Mover, MarkerInv,
           Holds, Trails, RollsBack, Claiming, Fresh, Serial, Unclaimed, Untailed, GivesUp,
           Cleared
    <2>. QED BY <2>1, <2>2, <2>3, <2>4 DEF SerialInv
  <1>17. CASE Alarms(p)
    <2>1. TypeOK'
      BY SMTT(30), <1>17, Kinds DEF SerialInv, TypeOK, Steps, Slots, Changes, DepsKinds,
           MarkerKinds, ProcKinds, InPlace, Holds, Claiming, Fresh, Trails, RollsBack,
           Alarms
    <2>2. Alone'
      BY SMTT(30), <1>17 DEF SerialInv, TypeOK, Slots, InPlace, Alone, Mover, Holds, Trails,
           RollsBack, Claiming, Serial, Unclaimed, Untailed, Alarms
    <2>3. MarkerInv'
      BY SMTT(30), <1>17 DEF SerialInv, TypeOK, Slots, InPlace, Alone, Mover, MarkerInv,
           Holds, Trails, RollsBack, Claiming, Fresh, Serial, Untailed, Alarms
    <2>4. ASSUME NEW q \in Slots PROVE InPlace(q)'
      BY SMTT(30), <1>17 DEF SerialInv, TypeOK, Slots, InPlace, Alone, Mover, MarkerInv,
           Holds, Trails, RollsBack, Claiming, Fresh, Serial, Unclaimed, Untailed, Alarms
    <2>. QED BY <2>1, <2>2, <2>3, <2>4 DEF SerialInv
  <1>. QED BY <1>1, <1>2, <1>3, <1>4, <1>5, <1>6, <1>7, <1>8, <1>9, <1>10, <1>11, <1>12, <1>13, <1>14,
       <1>15, <1>16, <1>17 DEF UndoNext

\* The notice's rollback and confirmation keep one process at work.
LEMMA SerialRollback ==
  ASSUME Serial, SerialInv,
         RollbackStarts \/ RollbackNext \/ ConfirmLast
  PROVE  SerialInv'
  <1>1. CASE RollbackStarts
    <2>1. TypeOK'
      <3>1. (point \in [state : {"none", "kept", "reverting", "settled"},
                   merge : Merges \cup {None}, back : Changes, snapped : BOOLEAN])'
        BY <1>1 DEF RollbackStarts, SerialInv, TypeOK
      <3>2. (proc \in [Slots -> ProcKinds])'
        BY <1>1, Kinds DEF RollbackStarts, SerialInv, TypeOK, ProcKinds, Steps
      <3>. QED BY <1>1, <3>1, <3>2 DEF SerialInv, TypeOK, RollbackStarts
    <2>2. Alone'
      BY SMTT(30), <1>1, Places, Solo, Kinds DEF SerialInv, TypeOK, Slots, InPlace, Alone,
           Mover, Holds, Trails, RollsBack, Claiming, Serial, Unclaimed, Untailed,
           RollbackStarts, Clean, NoPoint
    <2>3. MarkerInv'
      BY SMTT(30), <1>1, Places, Solo, Kinds DEF SerialInv, TypeOK, Slots, InPlace, Alone,
           Mover, MarkerInv, Holds, Trails, RollsBack, Claiming, Fresh, Serial, Untailed,
           RollbackStarts, Clean, NoPoint
    <2>4. ASSUME NEW q \in Slots PROVE InPlace(q)'
      BY SMTT(30), <1>1, Places, Solo, Kinds, StampedKind DEF SerialInv, TypeOK, Slots,
           InPlace, Alone, Mover, MarkerInv, Holds, Trails, RollsBack, Claiming, Fresh,
           Serial, Unclaimed, Untailed, RollbackStarts, Clean, NoPoint
    <2>. QED BY <2>1, <2>2, <2>3, <2>4 DEF SerialInv
  <1>2. CASE Reverts
    <2>1. TypeOK'
      BY SMTT(30), <1>2, Kinds DEF SerialInv, TypeOK, Steps, Slots, Changes, DepsKinds,
           MarkerKinds, ProcKinds, InPlace, Holds, Claiming, Fresh, Trails, RollsBack,
           Reverts, WithoutUpdate
    <2>2. Alone'
      BY SMTT(30), <1>2 DEF SerialInv, TypeOK, Slots, InPlace, Alone, Mover, Holds, Trails,
           RollsBack, Claiming, Serial, Unclaimed, Untailed, Reverts, WithoutUpdate
    <2>3. MarkerInv'
      BY SMTT(30), <1>2 DEF SerialInv, TypeOK, Slots, InPlace, Alone, Mover, MarkerInv,
           Holds, Trails, RollsBack, Claiming, Fresh, Serial, Untailed, Reverts,
           WithoutUpdate
    <2>4. ASSUME NEW q \in Slots PROVE InPlace(q)'
      BY SMTT(30), <1>2 DEF SerialInv, TypeOK, Slots, InPlace, Alone, Mover, MarkerInv,
           Holds, Trails, RollsBack, Claiming, Fresh, Serial, Unclaimed, Untailed, Reverts,
           WithoutUpdate
    <2>. QED BY <2>1, <2>2, <2>3, <2>4 DEF SerialInv
  <1>3. CASE RevertRefused
    <2>1. TypeOK'
      BY SMTT(30), <1>3, Kinds DEF SerialInv, TypeOK, Steps, Slots, Changes, DepsKinds,
           MarkerKinds, ProcKinds, InPlace, Holds, Claiming, Fresh, Trails, RollsBack,
           RevertRefused, Settled
    <2>2. Alone'
      BY SMTT(30), <1>3 DEF SerialInv, TypeOK, Slots, InPlace, Alone, Mover, Holds, Trails,
           RollsBack, Claiming, Serial, Unclaimed, Untailed, RevertRefused, Settled
    <2>3. MarkerInv'
      BY SMTT(30), <1>3 DEF SerialInv, TypeOK, Slots, InPlace, Alone, Mover, MarkerInv,
           Holds, Trails, RollsBack, Claiming, Fresh, Serial, Untailed, RevertRefused,
           Settled
    <2>4. ASSUME NEW q \in Slots PROVE InPlace(q)'
      BY SMTT(30), <1>3 DEF SerialInv, TypeOK, Slots, InPlace, Alone, Mover, MarkerInv,
           Holds, Trails, RollsBack, Claiming, Fresh, Serial, Unclaimed, Untailed,
           RevertRefused, Settled
    <2>. QED BY <2>1, <2>2, <2>3, <2>4 DEF SerialInv
  <1>4. CASE RevertCommits
    <2>1. TypeOK'
      <3>1. (proc \in [Slots -> ProcKinds])'
        BY <1>4, Kinds DEF RevertCommits, CommitStaged, SerialInv, TypeOK, ProcKinds, Steps,
             Slots
      <3>2. (cut \subseteq Merges /\ landed \subseteq cut /\ undone \subseteq cut)'
        BY <1>4, Places DEF RevertCommits, CommitStaged, Slots, SerialInv, TypeOK, MarkerInv
      <3>3. (head \in Changes)'
        BY <1>4 DEF RevertCommits, CommitStaged, SerialInv, TypeOK
      <3>. QED BY <1>4, <3>1, <3>2, <3>3 DEF SerialInv, TypeOK, RevertCommits, CommitStaged
    <2>2. Alone'
      BY SMTT(30), <1>4 DEF SerialInv, TypeOK, Slots, InPlace, Alone, Mover, Holds, Trails,
           RollsBack, Claiming, Serial, Unclaimed, Untailed, RevertCommits, CommitStaged
    <2>3. MarkerInv'
      BY SMTT(30), <1>4 DEF SerialInv, TypeOK, Slots, InPlace, Alone, Mover, MarkerInv,
           Holds, Trails, RollsBack, Claiming, Fresh, Serial, Untailed, RevertCommits,
           CommitStaged
    <2>4. ASSUME NEW q \in Slots PROVE InPlace(q)'
      BY SMTT(30), <1>4 DEF SerialInv, TypeOK, Slots, InPlace, Alone, Mover, MarkerInv,
           Holds, Trails, RollsBack, Claiming, Fresh, Serial, Unclaimed, Untailed,
           RevertCommits, CommitStaged
    <2>. QED BY <2>1, <2>2, <2>3, <2>4 DEF SerialInv
  <1>5. CASE PointPutBack
    <2>1. TypeOK'
      BY SMTT(30), <1>5, Kinds DEF SerialInv, TypeOK, Steps, Slots, Changes, DepsKinds,
           MarkerKinds, ProcKinds, InPlace, Holds, Claiming, Fresh, Trails, RollsBack,
           PointPutBack
    <2>2. Alone'
      <3>1. PICK pc \in {"puttingback", "programs"} : Goes(Shell, pc)
        BY <1>5 DEF PointPutBack
      <3>. QED BY <1>5, <3>1 DEF PointPutBack, SerialInv, TypeOK, Alone, Mover, Slots
    <2>3. MarkerInv'
      BY SMTT(30), <1>5, Places, Solo, Kinds DEF SerialInv, TypeOK, Slots, InPlace, Alone,
           Mover, MarkerInv, Holds, Trails, RollsBack, Claiming, Fresh, Serial, Untailed,
           PointPutBack
    <2>4. ASSUME NEW q \in Slots PROVE InPlace(q)'
      <3>1. PICK pc \in {"puttingback", "programs"} : Goes(Shell, pc)
        BY <1>5 DEF PointPutBack
      <3>. QED BY <1>5, <3>1 DEF PointPutBack, SerialInv, TypeOK, InPlace, Holds, Claiming, Fresh,
                                 Trails, RollsBack, Slots, ProcKinds
    <2>. QED BY <2>1, <2>2, <2>3, <2>4 DEF SerialInv
  <1>6. CASE PointIsBack
    <2>1. TypeOK'
      BY SMTT(30), <1>6, Kinds DEF SerialInv, TypeOK, Steps, Slots, Changes, DepsKinds,
           MarkerKinds, ProcKinds, InPlace, Holds, Claiming, Fresh, Trails, RollsBack,
           PointIsBack
    <2>2. Alone'
      BY SMTT(30), <1>6 DEF SerialInv, TypeOK, Slots, InPlace, Alone, Mover, Holds, Trails,
           RollsBack, Claiming, Serial, Unclaimed, Untailed, PointIsBack
    <2>3. MarkerInv'
      BY SMTT(30), <1>6 DEF SerialInv, TypeOK, Slots, InPlace, Alone, Mover, MarkerInv,
           Holds, Trails, RollsBack, Claiming, Fresh, Serial, Untailed, PointIsBack
    <2>4. ASSUME NEW q \in Slots PROVE InPlace(q)'
      BY SMTT(30), <1>6 DEF SerialInv, TypeOK, Slots, InPlace, Alone, Mover, MarkerInv,
           Holds, Trails, RollsBack, Claiming, Fresh, Serial, Unclaimed, Untailed,
           PointIsBack
    <2>. QED BY <2>1, <2>2, <2>3, <2>4 DEF SerialInv
  <1>7. CASE RollbackRestarts
    <2>1. TypeOK'
      BY SMTT(30), <1>7, Kinds DEF SerialInv, TypeOK, Steps, Slots, Changes, DepsKinds,
           MarkerKinds, ProcKinds, InPlace, Holds, Claiming, Fresh, Trails, RollsBack,
           RollbackRestarts, Now, Content
    <2>2. Alone'
      BY SMTT(30), <1>7 DEF SerialInv, TypeOK, Slots, InPlace, Alone, Mover, Holds, Trails,
           RollsBack, Claiming, Serial, Unclaimed, Untailed, RollbackRestarts, Now, Content
    <2>3. MarkerInv'
      BY SMTT(30), <1>7 DEF SerialInv, TypeOK, Slots, InPlace, Alone, Mover, MarkerInv,
           Holds, Trails, RollsBack, Claiming, Fresh, Serial, Untailed, RollbackRestarts,
           Now, Content
    <2>4. ASSUME NEW q \in Slots PROVE InPlace(q)'
      BY SMTT(30), <1>7 DEF SerialInv, TypeOK, Slots, InPlace, Alone, Mover, MarkerInv,
           Holds, Trails, RollsBack, Claiming, Fresh, Serial, Unclaimed, Untailed,
           RollbackRestarts, Now, Content
    <2>. QED BY <2>1, <2>2, <2>3, <2>4 DEF SerialInv
  <1>8. CASE RollbackNeedsRestart
    <2>1. TypeOK'
      BY SMTT(30), <1>8, Kinds DEF SerialInv, TypeOK, Steps, Slots, Changes, DepsKinds,
           MarkerKinds, ProcKinds, InPlace, Holds, Claiming, Fresh, Trails, RollsBack,
           RollbackNeedsRestart, Settled
    <2>2. Alone'
      BY SMTT(30), <1>8 DEF SerialInv, TypeOK, Slots, InPlace, Alone, Mover, Holds, Trails,
           RollsBack, Claiming, Serial, Unclaimed, Untailed, RollbackNeedsRestart, Settled
    <2>3. MarkerInv'
      BY SMTT(30), <1>8 DEF SerialInv, TypeOK, Slots, InPlace, Alone, Mover, MarkerInv,
           Holds, Trails, RollsBack, Claiming, Fresh, Serial, Untailed,
           RollbackNeedsRestart, Settled
    <2>4. ASSUME NEW q \in Slots PROVE InPlace(q)'
      BY SMTT(30), <1>8 DEF SerialInv, TypeOK, Slots, InPlace, Alone, Mover, MarkerInv,
           Holds, Trails, RollsBack, Claiming, Fresh, Serial, Unclaimed, Untailed,
           RollbackNeedsRestart, Settled
    <2>. QED BY <2>1, <2>2, <2>3, <2>4 DEF SerialInv
  <1>9. CASE RollbackDone
    <2>1. TypeOK'
      BY SMTT(30), <1>9, Kinds DEF SerialInv, TypeOK, Steps, Slots, Changes, DepsKinds,
           MarkerKinds, ProcKinds, InPlace, Holds, Claiming, Fresh, Trails, RollsBack,
           RollbackDone, Settled
    <2>2. Alone'
      BY SMTT(30), <1>9 DEF SerialInv, TypeOK, Slots, InPlace, Alone, Mover, Holds, Trails,
           RollsBack, Claiming, Serial, Unclaimed, Untailed, RollbackDone, Settled
    <2>3. MarkerInv'
      BY SMTT(30), <1>9 DEF SerialInv, TypeOK, Slots, InPlace, Alone, Mover, MarkerInv,
           Holds, Trails, RollsBack, Claiming, Fresh, Serial, Untailed, RollbackDone,
           Settled
    <2>4. ASSUME NEW q \in Slots PROVE InPlace(q)'
      BY SMTT(30), <1>9 DEF SerialInv, TypeOK, Slots, InPlace, Alone, Mover, MarkerInv,
           Holds, Trails, RollsBack, Claiming, Fresh, Serial, Unclaimed, Untailed,
           RollbackDone, Settled
    <2>. QED BY <2>1, <2>2, <2>3, <2>4 DEF SerialInv
  <1>10. CASE RollbackFails
    <2>1. TypeOK'
      <3>1. (proc \in [Slots -> ProcKinds])'
        BY <1>10, Kinds DEF RollbackFails, Settled, SerialInv, TypeOK, ProcKinds, Steps, Slots
      <3>2. (emergency \in BOOLEAN /\ told \in BOOLEAN)'
        <4>1. emergency' \in BOOLEAN
          BY <1>10 DEF RollbackFails, SerialInv, TypeOK
        <4>. QED BY <1>10, <4>1 DEF RollbackFails
      <3>3. (/\ worked \subseteq Work /\ faults \in 0..MaxFaults)'
        BY <1>10 DEF RollbackFails, Settled, SerialInv, TypeOK
      <3>. QED BY <1>10, <3>1, <3>2, <3>3 DEF SerialInv, TypeOK, RollbackFails, Settled
    <2>2. Alone'
      BY SMTT(30), <1>10 DEF SerialInv, TypeOK, Slots, InPlace, Alone, Mover, Holds, Trails,
           RollsBack, Claiming, Serial, Unclaimed, Untailed, RollbackFails, Settled
    <2>3. MarkerInv'
      BY SMTT(30), <1>10 DEF SerialInv, TypeOK, Slots, InPlace, Alone, Mover, MarkerInv,
           Holds, Trails, RollsBack, Claiming, Fresh, Serial, Untailed, RollbackFails,
           Settled
    <2>4. ASSUME NEW q \in Slots PROVE InPlace(q)'
      BY SMTT(30), <1>10 DEF SerialInv, TypeOK, Slots, InPlace, Alone, Mover, MarkerInv,
           Holds, Trails, RollsBack, Claiming, Fresh, Serial, Unclaimed, Untailed,
           RollbackFails, Settled
    <2>. QED BY <2>1, <2>2, <2>3, <2>4 DEF SerialInv
  <1>11. CASE ConfirmLast
    <2>1. TypeOK'
      BY SMTT(30), <1>11, Kinds DEF SerialInv, TypeOK, Steps, Slots, Changes, DepsKinds,
           MarkerKinds, ProcKinds, InPlace, Holds, Claiming, Fresh, Trails, RollsBack,
           ConfirmLast, Locked
    <2>2. Alone'
      BY SMTT(30), <1>11, Places, Solo, Kinds DEF SerialInv, TypeOK, Slots, InPlace, Alone,
           Mover, Holds, Trails, RollsBack, Claiming, Serial, Unclaimed, Untailed,
           ConfirmLast, Locked
    <2>3. MarkerInv'
      BY SMTT(30), <1>11, Places, Solo, Kinds DEF SerialInv, TypeOK, Slots, InPlace, Alone,
           Mover, MarkerInv, Holds, Trails, RollsBack, Claiming, Fresh, Serial, Untailed,
           ConfirmLast, Locked
    <2>4. ASSUME NEW q \in Slots PROVE InPlace(q)'
      BY SMTT(30), <1>11, Places, Solo, Kinds DEF SerialInv, TypeOK, Slots, InPlace, Alone,
           Mover, MarkerInv, Holds, Trails, RollsBack, Claiming, Fresh, Serial, Unclaimed,
           Untailed, ConfirmLast, Locked
    <2>. QED BY <2>1, <2>2, <2>3, <2>4 DEF SerialInv
  <1>. QED BY <1>1, <1>2, <1>3, <1>4, <1>5, <1>6, <1>7, <1>8, <1>9, <1>10, <1>11 DEF RollbackNext

\* Kills, restarts and others' work keep one process at work.
LEMMA SerialOther ==
  ASSUME Serial, SerialInv,
         \/ \E m \in Merges : Dispatch(m)
         \/ \E p \in Slots : Kill(p)
         \/ Restart \/ ServicesStart
         \/ \E w \in Work : Works(w)
         \/ UNCHANGED vars
  PROVE  SerialInv'
  <1>1. ASSUME NEW m \in Merges, Dispatch(m) PROVE SerialInv'
    <2>1. TypeOK'
      BY SMTT(30), <1>1, Kinds DEF SerialInv, TypeOK, Steps, Slots, Changes, DepsKinds,
           MarkerKinds, ProcKinds, InPlace, Holds, Claiming, Fresh, Trails, RollsBack,
           Dispatch
    <2>2. Alone'
      BY SMTT(30), <1>1 DEF SerialInv, TypeOK, Slots, InPlace, Alone, Mover, Holds, Trails,
           RollsBack, Claiming, Serial, Unclaimed, Untailed, Dispatch
    <2>3. MarkerInv'
      BY SMTT(30), <1>1 DEF SerialInv, TypeOK, Slots, InPlace, Alone, Mover, MarkerInv,
           Holds, Trails, RollsBack, Claiming, Fresh, Serial, Untailed, Dispatch
    <2>4. ASSUME NEW q \in Slots PROVE InPlace(q)'
      BY SMTT(30), <1>1 DEF SerialInv, TypeOK, Slots, InPlace, Alone, Mover, MarkerInv,
           Holds, Trails, RollsBack, Claiming, Fresh, Serial, Unclaimed, Untailed, Dispatch
    <2>. QED BY <2>1, <2>2, <2>3, <2>4 DEF SerialInv
  <1>2. ASSUME NEW p \in Slots, Kill(p) PROVE SerialInv'
    <2>1. TypeOK'
      <3>1. (marker \in MarkerKinds /\ (marker.pid = None <=> marker = NoMarker))'
        BY <1>2, OrphanedKind DEF Kill, Orphaned, SerialInv, TypeOK
      <3>2. (proc \in [Slots -> ProcKinds])'
        BY <1>2, Kinds DEF Kill, Orphaned, SerialInv, TypeOK, ProcKinds, Steps
      <3>3. (proc \in [Slots -> ProcKinds])'
        BY <1>2, Kinds DEF Kill, Orphaned, SerialInv, TypeOK, ProcKinds, Steps
      <3>4. (/\ worked \subseteq Work /\ faults \in 0..MaxFaults)'
        BY <1>2 DEF Kill, Orphaned, SerialInv, TypeOK
      <3>5. (/\ worked \subseteq Work /\ faults \in 0..MaxFaults)'
        BY <1>2 DEF Kill, Orphaned, SerialInv, TypeOK
      <3>6. (boot \in {"recovering", "starting", "up"} /\ (boot # "up" => running = Down))'
        BY <1>2 DEF Kill, Orphaned, SerialInv, TypeOK, InPlace
      <3>7. (boot \in {"recovering", "starting", "up"} /\ (boot # "up" => running = Down))'
        BY <1>2 DEF Kill, Orphaned, SerialInv, TypeOK, InPlace
      <3>. QED BY <1>2, <3>1, <3>2, <3>3, <3>4, <3>5, <3>6, <3>7 DEF SerialInv, TypeOK, Kill, Orphaned
    <2>2. Alone'
      BY SMTT(30), <1>2 DEF SerialInv, TypeOK, Slots, InPlace, Alone, Mover, Holds, Trails,
           RollsBack, Claiming, Serial, Unclaimed, Untailed, Kill, Orphaned
    <2>3. MarkerInv'
      BY SMTT(30), <1>2, OrphanedKind, Places DEF SerialInv, TypeOK, Slots, InPlace, Alone,
           Mover, MarkerInv, Holds, Trails, RollsBack, Claiming, Fresh, Serial, Untailed,
           Kill, Orphaned
    <2>4. ASSUME NEW q \in Slots PROVE InPlace(q)'
      <3>1. CASE q = p
        BY <1>2, <3>1 DEF Kill, SerialInv, TypeOK, InPlace, Idle
      <3>2. CASE q # p
        <4>1. proc'[q] = proc[q] /\ UNCHANGED <<point, mergeHead, head, index, cut, copies>>
          BY <1>2, <3>2 DEF Kill, SerialInv, TypeOK
        <4>2. ~At(q, "idle") => boot' = boot
          BY <1>2, <3>2 DEF Kill, SerialInv, InPlace
        <4>3. ~At(q, "idle") => marker' = marker
          <5>1. ~At(q, "idle") => marker.pid # p
            BY <3>2, Places, Kinds DEF SerialInv, InPlace, Claiming, Fresh, Slots
          <5>. QED BY <1>2, <5>1, OrphanedKind DEF Kill, SerialInv
        <4>. QED BY <4>1, <4>2, <4>3 DEF SerialInv, InPlace, Holds, Claiming, Fresh, Trails, RollsBack
      <3>. QED BY <3>1, <3>2
    <2>. QED BY <2>1, <2>2, <2>3, <2>4 DEF SerialInv
  <1>3. CASE Restart
    <2>1. TypeOK'
      <3>1. (marker \in MarkerKinds /\ (marker.pid = None <=> marker = NoMarker))'
        BY <1>3, DeadKind DEF Restart, SerialInv, TypeOK
      <3>2. (proc \in [Slots -> ProcKinds])'
        BY <1>3, Kinds DEF Restart, SerialInv, TypeOK, ProcKinds, Steps
      <3>. QED BY <1>3, <3>1, <3>2 DEF SerialInv, TypeOK, Restart
    <2>2. Alone'
      BY SMTT(30), <1>3 DEF SerialInv, TypeOK, Slots, InPlace, Alone, Mover, Holds, Trails,
           RollsBack, Claiming, Serial, Unclaimed, Untailed, Restart
    <2>3. MarkerInv'
      <3>1. \A q \in Slots : ~Mover(q)'
        BY <1>3 DEF Restart, Mover, Idle
      <3>2. /\ marker' = NoMarker <=> marker = NoMarker
            /\ marker'.merge = marker.merge /\ UNCHANGED <<mergeHead, point, cut>>
        BY <1>3, DeadKind DEF Restart, SerialInv
      <3>3. boot' = "recovering" => marker # NoMarker
        BY <1>3 DEF Restart
      <3>. QED BY <3>1, <3>2, <3>3 DEF SerialInv, MarkerInv
    <2>4. ASSUME NEW q \in Slots PROVE InPlace(q)'
      <3>1. proc'[q] = Idle
        BY <1>3 DEF Restart
      <3>. QED BY <3>1 DEF InPlace, Idle
    <2>. QED BY <2>1, <2>2, <2>3, <2>4 DEF SerialInv
  <1>4. CASE ServicesStart
    <2>1. TypeOK'
      BY SMTT(30), <1>4, Kinds DEF SerialInv, TypeOK, Steps, Slots, Changes, DepsKinds,
           MarkerKinds, ProcKinds, InPlace, Holds, Claiming, Fresh, Trails, RollsBack,
           ServicesStart, Now, Content
    <2>2. Alone'
      BY SMTT(30), <1>4 DEF SerialInv, TypeOK, Slots, InPlace, Alone, Mover, Holds, Trails,
           RollsBack, Claiming, Serial, Unclaimed, Untailed, ServicesStart, Now, Content
    <2>3. MarkerInv'
      BY SMTT(30), <1>4 DEF SerialInv, TypeOK, Slots, InPlace, Alone, Mover, MarkerInv,
           Holds, Trails, RollsBack, Claiming, Fresh, Serial, Untailed, ServicesStart, Now,
           Content
    <2>4. ASSUME NEW q \in Slots PROVE InPlace(q)'
      BY SMTT(30), <1>4 DEF SerialInv, TypeOK, Slots, InPlace, Alone, Mover, MarkerInv,
           Holds, Trails, RollsBack, Claiming, Fresh, Serial, Unclaimed, Untailed,
           ServicesStart, Now, Content
    <2>. QED BY <2>1, <2>2, <2>3, <2>4 DEF SerialInv
  <1>5. ASSUME NEW w \in Work, Works(w) PROVE SerialInv'
    <2>1. TypeOK'
      BY SMTT(30), <1>5, Kinds DEF SerialInv, TypeOK, Steps, Slots, Changes, DepsKinds,
           MarkerKinds, ProcKinds, InPlace, Holds, Claiming, Fresh, Trails, RollsBack,
           Works, Clean
    <2>2. Alone'
      BY SMTT(30), <1>5 DEF SerialInv, TypeOK, Slots, InPlace, Alone, Mover, Holds, Trails,
           RollsBack, Claiming, Serial, Unclaimed, Untailed, Works, Clean
    <2>3. MarkerInv'
      BY SMTT(30), <1>5 DEF SerialInv, TypeOK, Slots, InPlace, Alone, Mover, MarkerInv,
           Holds, Trails, RollsBack, Claiming, Fresh, Serial, Untailed, Works, Clean
    <2>4. ASSUME NEW q \in Slots PROVE InPlace(q)'
      BY SMTT(30), <1>5 DEF SerialInv, TypeOK, Slots, InPlace, Alone, Mover, MarkerInv,
           Holds, Trails, RollsBack, Claiming, Fresh, Serial, Unclaimed, Untailed, Works,
           Clean
    <2>. QED BY <2>1, <2>2, <2>3, <2>4 DEF SerialInv
  <1>6. CASE UNCHANGED vars
    <2>1. TypeOK'
      BY SMTT(30), <1>6, Kinds DEF SerialInv, TypeOK, Steps, Slots, Changes, DepsKinds,
           MarkerKinds, ProcKinds, InPlace, Holds, Claiming, Fresh, Trails, RollsBack, vars
    <2>2. Alone'
      BY SMTT(30), <1>6 DEF SerialInv, TypeOK, Slots, InPlace, Alone, Mover, Holds, Trails,
           RollsBack, Claiming, Serial, Unclaimed, Untailed, vars
    <2>3. MarkerInv'
      BY SMTT(30), <1>6 DEF SerialInv, TypeOK, Slots, InPlace, Alone, Mover, MarkerInv,
           Holds, Trails, RollsBack, Claiming, Fresh, Serial, Untailed, vars
    <2>4. ASSUME NEW q \in Slots PROVE InPlace(q)'
      BY SMTT(30), <1>6 DEF SerialInv, TypeOK, Slots, InPlace, Alone, Mover, MarkerInv,
           Holds, Trails, RollsBack, Claiming, Fresh, Serial, Unclaimed, Untailed, vars
    <2>. QED BY <2>1, <2>2, <2>3, <2>4 DEF SerialInv
  <1>. QED BY <1>1, <1>2, <1>3, <1>4, <1>5, <1>6

\* Nobody is at work yet.
LEMMA SerialInit == Init => SerialInv
  <1>. SUFFICES ASSUME Init PROVE SerialInv
    OBVIOUS
  <1>1. proc \in [Slots -> ProcKinds] /\ \A p \in Slots : proc[p] = Idle
    BY Kinds DEF Init
  <1>2. TypeOK
    <2>1. running \in [tree : SUBSET Merges, deps : DepsKinds] \cup {Down}
      BY DEF Init, DepsKinds
    <2>2. /\ point \in [state : {"none", "kept", "reverting", "settled"},
                        merge : Merges \cup {None}, back : Changes, snapped : BOOLEAN]
          /\ marker \in MarkerKinds /\ (marker.pid = None <=> marker = NoMarker)
      BY Kinds DEF Init
    <2>3. /\ head \in Changes /\ index \in Changes /\ mergeHead \in BOOLEAN
          /\ emergency \in BOOLEAN /\ told \in BOOLEAN
          /\ cut \subseteq Merges /\ landed \subseteq cut /\ undone \subseteq cut
          /\ deps \in DepsKinds /\ copies \in DepsKinds \cup {None}
      BY DEF Init, DepsKinds, Changes
    <2>4. /\ boot \in {"recovering", "starting", "up"} /\ (boot # "up" => running = Down)
          /\ worked \subseteq Work /\ faults \in 0..MaxFaults
      BY DEF Init
    <2>. QED BY <1>1, <2>1, <2>2, <2>3, <2>4 DEF TypeOK
  <1>3. Alone /\ MarkerInv /\ \A p \in Slots : InPlace(p)
    BY <1>1 DEF Init, Alone, Mover, MarkerInv, InPlace, Idle
  <1>. QED BY <1>2, <1>3 DEF SerialInv

\* Every step keeps one process at work.
LEMMA SerialStep ==
  ASSUME Serial, SerialInv, [Next]_vars
  PROVE  SerialInv'
  <1>1. CASE \E a \in Agents : \/ \E m \in Merges, keep \in BOOLEAN :
                                   ApplyStarts(a, m, keep) \/ ApplyResumes(a, m, keep)
                               \/ ApplyNext(a)
    BY <1>1, SerialApply
  <1>2. CASE \E p \in Slots : RecoverReads(p) \/ BootReads \/ UndoNext(p)
    BY <1>2, SerialUndo
  <1>3. CASE RollbackStarts \/ RollbackNext \/ ConfirmLast
    BY <1>3, SerialRollback
  <1>4. CASE \/ \E m \in Merges : Dispatch(m)
             \/ \E p \in Slots : Kill(p)
             \/ Restart \/ ServicesStart
             \/ \E w \in Work : Works(w)
             \/ UNCHANGED vars
    BY <1>4, SerialOther
  <1>. QED BY <1>1, <1>2, <1>3, <1>4 DEF Next, Slots

\* At every moment the processes are one at a time, whatever is killed, restarted, lost or
\* failed, as long as no process acts between another's read of the marker and its write
\* and none begins between another's clear_marker and its last write.
THEOREM Serialized ==
  ASSUME Serial
  PROVE  Spec => []SerialInv
  <1>1. SerialInv /\ [Next]_vars => SerialInv'
    BY SerialStep
  <1>. QED BY <1>1, SerialInit, PTL DEF Spec

\* An agent's apply keeps the landed updates and the work of others in the tree.
LEMMA LandedApply ==
  ASSUME Serial, ~Race("work"), SerialInv, SerialInv', LandedInv, NEW a \in Agents,
         \/ \E m \in Merges, keep \in BOOLEAN : ApplyStarts(a, m, keep) \/ ApplyResumes(a, m, keep)
         \/ ApplyNext(a)
  PROVE  LandedInv'
  <1>1. ASSUME NEW m \in Merges, NEW keep \in BOOLEAN, ApplyStarts(a, m, keep)
        PROVE  LandedInv'
    <2>1. (landed \ undone \subseteq head /\ worked \subseteq head /\ worked \subseteq index)'
      BY <1>1, Places DEF LandedInv, SerialInv, TypeOK, Slots, Landing, ApplyStarts, Reads
    <2>2. (marker # NoMarker => worked \subseteq marker.back)'
      BY <1>1, Places, Kinds DEF LandedInv, SerialInv, TypeOK, Slots, Landing, ApplyStarts,
           Reads
    <2>3. ASSUME NEW q \in Slots PROVE Landing(q)'
      <3>1. CASE q = a
        <4>1. /\ proc'[a].mk.merge = m /\ proc'[a].mk.back = head /\ proc'[a].pc = "claim"
              /\ proc'[a].landed <=> (m \in landed)
          BY <1>1 DEF ApplyStarts, Reads, SerialInv, TypeOK, Slots, NoMarker
        <4>. QED BY <1>1, <3>1, <4>1 DEF ApplyStarts, LandedInv, Landing, Clean, Undone
      <3>2. CASE q # a
        <4>1. proc'[q] = proc[q] /\ proc[q].pc \in {"idle"} \cup Rolling \cup Trailing
          BY <1>1, <3>2, Places, Kinds DEF SerialInv, TypeOK, Slots, Serial, Unclaimed,
               ApplyStarts, Reads
        <4>. QED BY <1>1, <4>1 DEF LandedInv, Landing, Now, Content, ApplyStarts
      <3>. QED BY <3>1, <3>2
    <2>. QED BY <2>1, <2>2, <2>3 DEF LandedInv
  <1>2. ASSUME NEW m \in Merges, NEW keep \in BOOLEAN, ApplyResumes(a, m, keep)
        PROVE  LandedInv'
    <2>1. (landed \ undone \subseteq head /\ worked \subseteq head /\ worked \subseteq index)'
      BY <1>2, Places DEF LandedInv, SerialInv, TypeOK, Slots, Landing, ApplyResumes, Reads,
           AbortMerge, Stamped
    <2>2. (marker # NoMarker => worked \subseteq marker.back)'
      BY <1>2, Places, Kinds DEF LandedInv, SerialInv, TypeOK, Slots, Landing, ApplyResumes,
           Reads, AbortMerge, Stamped
    <2>3. ASSUME NEW q \in Slots PROVE Landing(q)'
      <3>1. CASE q = a
        <4>1. /\ proc'[a].mk = Stamped(marker, a) /\ proc'[a].pc = "claim"
              /\ proc'[a].landed <=> (m \in landed)
          BY <1>2 DEF ApplyResumes, Reads, SerialInv, TypeOK, Slots
        <4>2. proc'[a].mk.merge = m /\ worked \subseteq proc'[a].mk.back
          BY <1>2, <4>1, StampedKind, Kinds DEF ApplyResumes, LandedInv, SerialInv, Slots
        <4>3. index' = head /\ ~mergeHead'
          BY <1>2 DEF ApplyResumes, AbortMerge, Clean
        <4>. QED BY <1>2, <3>1, <4>1, <4>2, <4>3 DEF ApplyResumes, LandedInv, Landing, Clean, Undone
      <3>2. CASE q # a
        <4>1. proc'[q] = proc[q] /\ proc[q].pc \in {"idle"} \cup Rolling \cup Trailing
          BY <1>2, <3>2, Places, Kinds DEF SerialInv, TypeOK, Slots, Serial, Unclaimed,
               ApplyResumes, Reads, AbortMerge, Stamped
        <4>. QED BY <1>2, <4>1 DEF LandedInv, Landing, Now, Content, ApplyResumes
      <3>. QED BY <3>1, <3>2
    <2>. QED BY <2>1, <2>2, <2>3 DEF LandedInv
  <1>3. CASE ApplyDropsPoint(a)
    <2>1. (landed \ undone \subseteq head /\ worked \subseteq head /\ worked \subseteq index)'
      BY <1>3, Places DEF LandedInv, SerialInv, TypeOK, Slots, Landing, ApplyDropsPoint,
           OwnPointNext, Locked
    <2>2. (marker # NoMarker => worked \subseteq marker.back)'
      BY <1>3, Places, Kinds DEF LandedInv, SerialInv, TypeOK, Slots, Landing, ApplyDropsPoint,
           OwnPointNext, Locked
    <2>3. ASSUME NEW q \in Slots PROVE Landing(q)'
      <3>1. proc'[q] \in {proc[q], Idle}
        BY <1>3 DEF ApplyDropsPoint, SerialInv, TypeOK
      <3>. QED BY <1>3, <3>1 DEF ApplyDropsPoint, LandedInv, Landing, Idle, Clean, Now, Content
    <2>. QED BY <2>1, <2>2, <2>3 DEF LandedInv
  <1>4. CASE ApplyClaims(a)
    <2>1. (landed \ undone \subseteq head /\ worked \subseteq head /\ worked \subseteq index)'
      BY <1>4, Places DEF LandedInv, SerialInv, TypeOK, Slots, Landing, ApplyClaims,
           OwnPointNext, Writes
    <2>2. (marker # NoMarker => worked \subseteq marker.back)'
      BY <1>4, ClaimsAlone, Places DEF LandedInv, SerialInv, TypeOK, Slots, Landing,
           ApplyClaims, OwnPointNext, Writes
    <2>3. ASSUME NEW q \in Slots PROVE Landing(q)'
      <3>1. CASE q = a
        <4>1. /\ proc'[a].mk = proc[a].mk /\ proc'[a].pc = IF proc[a].landed THEN "merged" ELSE "merge"
          BY <1>4, Places DEF ApplyClaims, Writes, SerialInv, TypeOK, Slots, ProcKinds
        <4>. QED BY <1>4, <3>1, <4>1 DEF ApplyClaims, LandedInv, Landing, Clean
      <3>2. CASE q # a
        <4>1. proc'[q] = proc[q] /\ At(q, "idle")
          BY <1>4, <3>2, ClaimsAlone DEF SerialInv, TypeOK, Slots, ApplyClaims, OwnPointNext,
               Writes
        <4>. QED BY <4>1 DEF Landing
      <3>. QED BY <3>1, <3>2
    <2>. QED BY <2>1, <2>2, <2>3 DEF LandedInv
  <1>5. CASE ApplyMerges(a)
    <2>1. (landed \ undone \subseteq head /\ worked \subseteq head /\ worked \subseteq index)'
      BY <1>5, Places DEF LandedInv, SerialInv, TypeOK, Slots, Landing, ApplyMerges
    <2>2. (marker # NoMarker => worked \subseteq marker.back)'
      BY <1>5, Places, Kinds DEF LandedInv, SerialInv, TypeOK, Slots, Landing, ApplyMerges
    <2>3. ASSUME NEW q \in Slots PROVE Landing(q)'
      <3>1. CASE q = a
        BY SMTT(30), <1>5, <3>1, Places DEF LandedInv, Landing, SerialInv, TypeOK, Slots,
             ProcKinds, Clean, Now, Content, InPlace, Holds, MarkerInv, Mover, ApplyMerges
      <3>2. CASE q # a
        <4>1. proc'[q] = proc[q] /\ At(q, "idle")
          BY <1>5, <3>2, Solo DEF SerialInv, TypeOK, Slots, ApplyMerges
        <4>. QED BY <4>1 DEF Landing
      <3>. QED BY <3>1, <3>2
    <2>. QED BY <2>1, <2>2, <2>3 DEF LandedInv
  <1>6. CASE ApplyLands(a)
    <2>1. (landed \ undone \subseteq head /\ worked \subseteq head /\ worked \subseteq index)'
      BY <1>6, Places DEF LandedInv, SerialInv, TypeOK, Slots, Landing, ApplyLands
    <2>2. (marker # NoMarker => worked \subseteq marker.back)'
      BY <1>6, Places, Kinds DEF LandedInv, SerialInv, TypeOK, Slots, Landing, ApplyLands
    <2>3. ASSUME NEW q \in Slots PROVE Landing(q)'
      <3>1. CASE q = a
        BY SMTT(30), <1>6, <3>1, Places DEF LandedInv, Landing, SerialInv, TypeOK, Slots,
             ProcKinds, Clean, Now, Content, InPlace, Holds, MarkerInv, Mover, ApplyLands
      <3>2. CASE q # a
        <4>1. proc'[q] = proc[q] /\ At(q, "idle")
          BY <1>6, <3>2, Solo DEF SerialInv, TypeOK, Slots, ApplyLands
        <4>. QED BY <4>1 DEF Landing
      <3>. QED BY <3>1, <3>2
    <2>. QED BY <2>1, <2>2, <2>3 DEF LandedInv
  <1>7. CASE ApplyRefused(a)
    <2>1. (landed \ undone \subseteq head /\ worked \subseteq head /\ worked \subseteq index)'
      BY <1>7, Places DEF LandedInv, SerialInv, TypeOK, Slots, Landing, ApplyRefused,
           AbortMerge, Cleared
    <2>2. (marker # NoMarker => worked \subseteq marker.back)'
      BY <1>7, Places, Kinds DEF LandedInv, SerialInv, TypeOK, Slots, Landing, ApplyRefused,
           AbortMerge, Cleared
    <2>3. ASSUME NEW q \in Slots PROVE Landing(q)'
      <3>1. CASE q = a
        BY SMTT(30), <1>7, <3>1, Places DEF LandedInv, Landing, SerialInv, TypeOK, Slots,
             ProcKinds, Clean, Now, Content, InPlace, Holds, MarkerInv, Mover, ApplyRefused,
             AbortMerge, Cleared
      <3>2. CASE q # a
        <4>1. proc'[q] = proc[q] /\ At(q, "idle")
          BY <1>7, <3>2, Solo DEF SerialInv, TypeOK, Slots, ApplyRefused, AbortMerge, Cleared
        <4>. QED BY <4>1 DEF Landing
      <3>. QED BY <3>1, <3>2
    <2>. QED BY <2>1, <2>2, <2>3 DEF LandedInv
  <1>8. CASE ApplyPlans(a)
    <2>1. (landed \ undone \subseteq head /\ worked \subseteq head /\ worked \subseteq index)'
      BY <1>8, Places DEF LandedInv, SerialInv, TypeOK, Slots, Landing, ApplyPlans, Changed
    <2>2. (marker # NoMarker => worked \subseteq marker.back)'
      BY <1>8, Places, Kinds DEF LandedInv, SerialInv, TypeOK, Slots, Landing, ApplyPlans,
           Changed
    <2>3. ASSUME NEW q \in Slots PROVE Landing(q)'
      <3>1. CASE q = a
        <4>1. /\ proc'[a].mk.merge = proc[a].mk.merge /\ proc'[a].mk.back = proc[a].mk.back
              /\ proc'[a].pc \in {"preflight", "copy"}
          BY <1>8, Plans
        <4>2. At(a, "merged") /\ UNCHANGED <<head, worked>>
          BY <1>8 DEF ApplyPlans
        <4>. QED BY <3>1, <4>1, <4>2 DEF LandedInv, Landing
      <3>2. CASE q # a
        <4>1. proc'[q] = proc[q] /\ At(q, "idle")
          BY <1>8, <3>2, Solo DEF SerialInv, TypeOK, Slots, ApplyPlans, Changed
        <4>. QED BY <4>1 DEF Landing
      <3>. QED BY <3>1, <3>2
    <2>. QED BY <2>1, <2>2, <2>3 DEF LandedInv
  <1>9. CASE ApplyCopies(a)
    <2>1. (landed \ undone \subseteq head /\ worked \subseteq head /\ worked \subseteq index)'
      BY <1>9, Places DEF LandedInv, SerialInv, TypeOK, Slots, Landing, ApplyCopies, Writes,
           Reusable
    <2>2. (marker # NoMarker => worked \subseteq marker.back)'
      BY <1>9, Places DEF LandedInv, SerialInv, TypeOK, Slots, Landing, ApplyCopies, Writes,
           Reusable, MarkerKinds, ProcKinds
    <2>3. ASSUME NEW q \in Slots PROVE Landing(q)'
      <3>1. CASE q = a
        BY SMTT(30), <1>9, <3>1, Places DEF LandedInv, Landing, SerialInv, TypeOK, Slots,
             ProcKinds, Clean, Now, Content, InPlace, Holds, MarkerInv, Mover, ApplyCopies,
             Writes, Reusable
      <3>2. CASE q # a
        <4>1. proc'[q] = proc[q] /\ At(q, "idle")
          BY <1>9, <3>2, Solo DEF SerialInv, TypeOK, Slots, ApplyCopies, Writes, Reusable
        <4>. QED BY <4>1 DEF Landing
      <3>. QED BY <3>1, <3>2
    <2>. QED BY <2>1, <2>2, <2>3 DEF LandedInv
  <1>10. CASE ApplyRefreshes(a)
    <2>1. (landed \ undone \subseteq head /\ worked \subseteq head /\ worked \subseteq index)'
      BY <1>10, Places DEF LandedInv, SerialInv, TypeOK, Slots, Landing, ApplyRefreshes
    <2>2. (marker # NoMarker => worked \subseteq marker.back)'
      BY <1>10, Places, Kinds DEF LandedInv, SerialInv, TypeOK, Slots, Landing, ApplyRefreshes
    <2>3. ASSUME NEW q \in Slots PROVE Landing(q)'
      <3>1. CASE q = a
        BY SMTT(30), <1>10, <3>1, Places DEF LandedInv, Landing, SerialInv, TypeOK, Slots,
             ProcKinds, Clean, Now, Content, InPlace, Holds, MarkerInv, Mover,
             ApplyRefreshes
      <3>2. CASE q # a
        <4>1. proc'[q] = proc[q] /\ At(q, "idle")
          BY <1>10, <3>2, Solo DEF SerialInv, TypeOK, Slots, ApplyRefreshes
        <4>. QED BY <4>1 DEF Landing
      <3>. QED BY <3>1, <3>2
    <2>. QED BY <2>1, <2>2, <2>3 DEF LandedInv
  <1>11. CASE ApplyRefreshed(a)
    <2>1. (landed \ undone \subseteq head /\ worked \subseteq head /\ worked \subseteq index)'
      BY <1>11, Places DEF LandedInv, SerialInv, TypeOK, Slots, Landing, ApplyRefreshed, Content
    <2>2. (marker # NoMarker => worked \subseteq marker.back)'
      BY <1>11, Places, Kinds DEF LandedInv, SerialInv, TypeOK, Slots, Landing, ApplyRefreshed,
           Content
    <2>3. ASSUME NEW q \in Slots PROVE Landing(q)'
      <3>1. CASE q = a
        BY SMTT(30), <1>11, <3>1, Places DEF LandedInv, Landing, SerialInv, TypeOK, Slots,
             ProcKinds, Clean, Now, Content, InPlace, Holds, MarkerInv, Mover,
             ApplyRefreshed
      <3>2. CASE q # a
        <4>1. proc'[q] = proc[q] /\ At(q, "idle")
          BY <1>11, <3>2, Solo DEF SerialInv, TypeOK, Slots, ApplyRefreshed, Content
        <4>. QED BY <4>1 DEF Landing
      <3>. QED BY <3>1, <3>2
    <2>. QED BY <2>1, <2>2, <2>3 DEF LandedInv
  <1>12. CASE ApplyPreflights(a)
    <2>1. (landed \ undone \subseteq head /\ worked \subseteq head /\ worked \subseteq index)'
      BY <1>12, Places DEF LandedInv, SerialInv, TypeOK, Slots, Landing, ApplyPreflights,
           Writes, RestartRecorded
    <2>2. (marker # NoMarker => worked \subseteq marker.back)'
      BY <1>12, Places, Kinds DEF LandedInv, SerialInv, TypeOK, Slots, Landing, ApplyPreflights,
           Writes, RestartRecorded
    <2>3. ASSUME NEW q \in Slots PROVE Landing(q)'
      <3>1. CASE q = a
        BY SMTT(30), <1>12, <3>1 DEF LandedInv, Landing, SerialInv, TypeOK, ApplyPreflights,
             Writes, RestartRecorded
      <3>2. CASE q # a
        <4>1. proc'[q] = proc[q] /\ At(q, "idle")
          BY <1>12, <3>2, Solo DEF SerialInv, TypeOK, Slots, ApplyPreflights, Writes,
               RestartRecorded
        <4>. QED BY <4>1 DEF Landing
      <3>. QED BY <3>1, <3>2
    <2>. QED BY <2>1, <2>2, <2>3 DEF LandedInv
  <1>13. CASE ApplyRestarts(a)
    <2>1. (landed \ undone \subseteq head /\ worked \subseteq head /\ worked \subseteq index)'
      BY <1>13, Places DEF LandedInv, SerialInv, TypeOK, Slots, Landing, ApplyRestarts, Now,
           Content
    <2>2. (marker # NoMarker => worked \subseteq marker.back)'
      BY <1>13, Places, Kinds DEF LandedInv, SerialInv, TypeOK, Slots, Landing, ApplyRestarts,
           Now, Content
    <2>3. ASSUME NEW q \in Slots PROVE Landing(q)'
      <3>1. CASE q = a
        BY SMTT(30), <1>13, <3>1, Places DEF LandedInv, Landing, SerialInv, TypeOK, Slots,
             ProcKinds, Clean, Now, Content, InPlace, Holds, MarkerInv, Mover, ApplyRestarts
      <3>2. CASE q # a
        <4>1. proc'[q] = proc[q] /\ At(q, "idle")
          BY <1>13, <3>2, Solo DEF SerialInv, TypeOK, Slots, ApplyRestarts, Now, Content
        <4>. QED BY <4>1 DEF Landing
      <3>. QED BY <3>1, <3>2
    <2>. QED BY <2>1, <2>2, <2>3 DEF LandedInv
  <1>14. CASE ApplyConfirms(a)
    <2>1. (landed \ undone \subseteq head /\ worked \subseteq head /\ worked \subseteq index)'
      BY <1>14, Places DEF LandedInv, SerialInv, TypeOK, Slots, Landing, ApplyConfirms, Cleared,
           Healthy
    <2>2. (marker # NoMarker => worked \subseteq marker.back)'
      BY <1>14, Places, Kinds DEF LandedInv, SerialInv, TypeOK, Slots, Landing, ApplyConfirms,
           Cleared, Healthy
    <2>3. ASSUME NEW q \in Slots PROVE Landing(q)'
      <3>1. CASE q = a
        BY SMTT(30), <1>14, <3>1, Places DEF LandedInv, Landing, SerialInv, TypeOK, Slots,
             ProcKinds, Clean, Now, Content, InPlace, Holds, MarkerInv, Mover,
             ApplyConfirms, Cleared, Healthy
      <3>2. CASE q # a
        <4>1. proc'[q] = proc[q] /\ At(q, "idle")
          BY <1>14, <3>2, Solo DEF SerialInv, TypeOK, Slots, ApplyConfirms, Cleared, Healthy
        <4>. QED BY <4>1 DEF Landing
      <3>. QED BY <3>1, <3>2
    <2>. QED BY <2>1, <2>2, <2>3 DEF LandedInv
  <1>15. CASE ApplyEnds(a)
    <2>1. (landed \ undone \subseteq head /\ worked \subseteq head /\ worked \subseteq index)'
      BY <1>15, Places DEF LandedInv, SerialInv, TypeOK, Slots, Landing, ApplyEnds, PointAt
    <2>2. (marker # NoMarker => worked \subseteq marker.back)'
      BY <1>15, Places, Kinds DEF LandedInv, SerialInv, TypeOK, Slots, Landing, ApplyEnds,
           PointAt
    <2>3. ASSUME NEW q \in Slots PROVE Landing(q)'
      <3>1. CASE q = a
        BY SMTT(30), <1>15, <3>1, Places DEF LandedInv, Landing, SerialInv, TypeOK, Slots,
             ProcKinds, Clean, Now, Content, InPlace, Holds, MarkerInv, Mover, ApplyEnds,
             PointAt
      <3>2. CASE q # a
        <4>1. proc'[q] = proc[q] /\ At(q, "idle")
          BY <1>15, <3>2, Solo DEF SerialInv, TypeOK, Slots, ApplyEnds, PointAt
        <4>. QED BY <4>1 DEF Landing
      <3>. QED BY <3>1, <3>2
    <2>. QED BY <2>1, <2>2, <2>3 DEF LandedInv
  <1>16. CASE ApplyFails(a)
    <2>1. (landed \ undone \subseteq head /\ worked \subseteq head /\ worked \subseteq index)'
      BY <1>16, Places DEF LandedInv, SerialInv, TypeOK, Slots, Landing, ApplyFails, Failing,
           Healthy
    <2>2. (marker # NoMarker => worked \subseteq marker.back)'
      BY <1>16, Places, Kinds DEF LandedInv, SerialInv, TypeOK, Slots, Landing, ApplyFails,
           Failing, Healthy
    <2>3. ASSUME NEW q \in Slots PROVE Landing(q)'
      <3>1. CASE q = a
        BY SMTT(30), <1>16, <3>1, Places DEF LandedInv, Landing, SerialInv, TypeOK, Slots,
             ProcKinds, Clean, Now, Content, InPlace, Holds, MarkerInv, Mover, ApplyFails,
             Failing, Healthy
      <3>2. CASE q # a
        <4>1. proc'[q] = proc[q] /\ At(q, "idle")
          BY <1>16, <3>2, Solo DEF SerialInv, TypeOK, Slots, ApplyFails, Failing, Healthy
        <4>. QED BY <4>1 DEF Landing
      <3>. QED BY <3>1, <3>2
    <2>. QED BY <2>1, <2>2, <2>3 DEF LandedInv
  <1>. QED BY <1>1, <1>2, <1>3, <1>4, <1>5, <1>6, <1>7, <1>8, <1>9, <1>10, <1>11, <1>12, <1>13, <1>14,
       <1>15, <1>16 DEF ApplyNext

\* A recovery, and the rollback of a failed apply, keep the landed updates and the work of
\* others in the tree.
LEMMA LandedUndo ==
  ASSUME Serial, ~Race("work"), SerialInv, SerialInv', LandedInv, NEW p \in Slots,
         RecoverReads(p) \/ BootReads \/ UndoNext(p)
  PROVE  LandedInv'
  <1>1. CASE RecoverReads(p)
    <2>1. (landed \ undone \subseteq head /\ worked \subseteq head /\ worked \subseteq index)'
      BY <1>1, Places DEF LandedInv, SerialInv, TypeOK, Slots, Landing, RecoverReads, Reads,
           Stale, Stamped
    <2>2. (marker # NoMarker => worked \subseteq marker.back)'
      BY <1>1, Places, Kinds DEF LandedInv, SerialInv, TypeOK, Slots, Landing, RecoverReads,
           Reads, Stale, Stamped
    <2>3. ASSUME NEW q \in Slots PROVE Landing(q)'
      <3>1. CASE q = p
        BY SMTT(30), <1>1, <3>1, Places, StampedKind, Kinds DEF LandedInv, Landing,
             SerialInv, TypeOK, Slots, ProcKinds, Clean, Now, Content, InPlace, Holds,
             MarkerInv, Mover, RecoverReads, Reads, Stale, Stamped
      <3>2. CASE q # p
        <4>1. proc'[q] = proc[q] /\ proc[q].pc \in {"idle"} \cup Rolling \cup Trailing
          BY <1>1, <3>2, Places, Kinds DEF SerialInv, TypeOK, Slots, Serial, Unclaimed,
               RecoverReads, Reads, Stale, Stamped
        <4>. QED BY <1>1, <4>1 DEF LandedInv, Landing, Now, Content, RecoverReads
      <3>. QED BY <3>1, <3>2
    <2>. QED BY <2>1, <2>2, <2>3 DEF LandedInv
  <1>2. CASE BootReads
    <2>1. (landed \ undone \subseteq head /\ worked \subseteq head /\ worked \subseteq index)'
      BY <1>2, Places DEF LandedInv, SerialInv, TypeOK, Slots, Landing, BootReads, Reads, Stale,
           Stamped
    <2>2. (marker # NoMarker => worked \subseteq marker.back)'
      <3>1. marker # NoMarker
        BY <1>2 DEF BootReads, SerialInv, MarkerInv
      <3>2. marker'.back = marker.back /\ UNCHANGED worked
        BY <1>2, DeadKind DEF BootReads, SerialInv
      <3>. QED BY <3>1, <3>2 DEF LandedInv
    <2>3. ASSUME NEW q \in Slots PROVE Landing(q)'
      <3>1. CASE q = Boot
        BY <1>2, <3>1, StampedKind, DeadKind DEF BootReads, Stale, Reads, LandedInv, Landing, SerialInv, TypeOK, Slots
      <3>2. CASE q # Boot
        BY <1>2, <3>2 DEF BootReads, Reads, SerialInv, TypeOK, InPlace, Landing
      <3>. QED BY <3>1, <3>2
    <2>. QED BY <2>1, <2>2, <2>3 DEF LandedInv
  <1>3. CASE RecoverClaims(p)
    <2>1. (landed \ undone \subseteq head /\ worked \subseteq head /\ worked \subseteq index)'
      BY <1>3, Places DEF LandedInv, SerialInv, TypeOK, Slots, Landing, RecoverClaims,
           AbortFirst, AbortMerge, Changed
    <2>2. (marker # NoMarker => worked \subseteq marker.back)'
      BY <1>3, ClaimsAlone, Places DEF LandedInv, SerialInv, TypeOK, Slots, Landing,
           RecoverClaims, AbortFirst, AbortMerge, Changed
    <2>3. ASSUME NEW q \in Slots PROVE Landing(q)'
      <3>1. CASE q = p
        <4>1. proc'[p].mk = proc[p].mk /\ proc'[p].pc = "undo"
          BY <1>3, Places DEF RecoverClaims, SerialInv, TypeOK, ProcKinds
        <4>. QED BY <1>3, <3>1, <4>1 DEF RecoverClaims, LandedInv, Landing
      <3>2. CASE q # p
        <4>1. proc'[q] = proc[q] /\ At(q, "idle")
          BY <1>3, <3>2, ClaimsAlone DEF SerialInv, TypeOK, Slots, RecoverClaims, AbortFirst,
               AbortMerge, Changed
        <4>. QED BY <4>1 DEF Landing
      <3>. QED BY <3>1, <3>2
    <2>. QED BY <2>1, <2>2, <2>3 DEF LandedInv
  <1>4. CASE Restores(p)
    <2>1. (landed \ undone \subseteq head /\ worked \subseteq head /\ worked \subseteq index)'
      BY <1>4, Places DEF LandedInv, SerialInv, TypeOK, Slots, Landing, Restores
    <2>2. (marker # NoMarker => worked \subseteq marker.back)'
      BY <1>4, Places, Kinds DEF LandedInv, SerialInv, TypeOK, Slots, Landing, Restores
    <2>3. ASSUME NEW q \in Slots PROVE Landing(q)'
      <3>1. CASE q = p
        BY SMTT(30), <1>4, <3>1, Places DEF LandedInv, Landing, SerialInv, TypeOK, Slots,
             ProcKinds, Clean, Now, Content, InPlace, Holds, MarkerInv, Mover, Restores
      <3>2. CASE q # p
        <4>1. proc'[q] = proc[q] /\ At(q, "idle")
          BY <1>4, <3>2, Solo DEF SerialInv, TypeOK, Slots, Restores
        <4>. QED BY <4>1 DEF Landing
      <3>. QED BY <3>1, <3>2
    <2>. QED BY <2>1, <2>2, <2>3 DEF LandedInv
  <1>5. CASE Commits(p)
    <2>1. (landed \ undone \subseteq head /\ worked \subseteq head /\ worked \subseteq index)'
      BY <1>5, Places DEF LandedInv, SerialInv, TypeOK, Slots, Landing, Commits, CommitStaged,
           MarkerInv, Mover
    <2>2. (marker # NoMarker => worked \subseteq marker.back)'
      BY <1>5, Places, Kinds DEF LandedInv, SerialInv, TypeOK, Slots, Landing, Commits,
           CommitStaged
    <2>3. ASSUME NEW q \in Slots PROVE Landing(q)'
      <3>1. CASE q = p
        BY SMTT(30), <1>5, <3>1, Places DEF LandedInv, Landing, SerialInv, TypeOK, Slots,
             ProcKinds, Clean, Now, Content, InPlace, Holds, MarkerInv, Mover, Commits,
             CommitStaged
      <3>2. CASE q # p
        <4>1. proc'[q] = proc[q] /\ At(q, "idle")
          BY <1>5, <3>2, Solo DEF SerialInv, TypeOK, Slots, Commits, CommitStaged
        <4>. QED BY <4>1 DEF Landing
      <3>. QED BY <3>1, <3>2
    <2>. QED BY <2>1, <2>2, <2>3 DEF LandedInv
  <1>6. CASE GitFails(p)
    <2>1. (landed \ undone \subseteq head /\ worked \subseteq head /\ worked \subseteq index)'
      BY <1>6, Places DEF LandedInv, SerialInv, TypeOK, Slots, Landing, GitFails, Orphaned
    <2>2. (marker # NoMarker => worked \subseteq marker.back)'
      BY <1>6, OrphanedKind DEF LandedInv, SerialInv, TypeOK, Slots, Landing, GitFails, Orphaned
    <2>3. ASSUME NEW q \in Slots PROVE Landing(q)'
      <3>1. CASE q = p
        BY SMTT(30), <1>6, <3>1, Places DEF LandedInv, Landing, SerialInv, TypeOK, Slots,
             ProcKinds, Clean, Now, Content, InPlace, Holds, MarkerInv, Mover, GitFails,
             Orphaned
      <3>2. CASE q # p
        <4>1. proc'[q] = proc[q] /\ At(q, "idle")
          BY <1>6, <3>2, Solo DEF SerialInv, TypeOK, Slots, GitFails, Orphaned
        <4>. QED BY <4>1 DEF Landing
      <3>. QED BY <3>1, <3>2
    <2>. QED BY <2>1, <2>2, <2>3 DEF LandedInv
  <1>7. CASE PutsBack(p)
    <2>1. (landed \ undone \subseteq head /\ worked \subseteq head /\ worked \subseteq index)'
      BY <1>7, Places DEF LandedInv, SerialInv, TypeOK, Slots, Landing, PutsBack, AfterLoss,
           AfterDeps
    <2>2. (marker # NoMarker => worked \subseteq marker.back)'
      BY <1>7, Places, Kinds DEF LandedInv, SerialInv, TypeOK, Slots, Landing, PutsBack,
           AfterLoss, AfterDeps
    <2>3. ASSUME NEW q \in Slots PROVE Landing(q)'
      <3>1. CASE q = p
        BY SMTT(30), <1>7, <3>1, Places DEF LandedInv, Landing, SerialInv, TypeOK, Slots,
             ProcKinds, Clean, Now, Content, InPlace, Holds, MarkerInv, Mover, PutsBack,
             AfterLoss, AfterDeps
      <3>2. CASE q # p
        <4>1. proc'[q] = proc[q] /\ At(q, "idle")
          BY <1>7, <3>2, Solo DEF SerialInv, TypeOK, Slots, PutsBack, AfterLoss, AfterDeps
        <4>. QED BY <4>1 DEF Landing
      <3>. QED BY <3>1, <3>2
    <2>. QED BY <2>1, <2>2, <2>3 DEF LandedInv
  <1>8. CASE IsPutBack(p)
    <2>1. (landed \ undone \subseteq head /\ worked \subseteq head /\ worked \subseteq index)'
      BY <1>8, Places DEF LandedInv, SerialInv, TypeOK, Slots, Landing, IsPutBack, AfterDeps
    <2>2. (marker # NoMarker => worked \subseteq marker.back)'
      BY <1>8, Places, Kinds DEF LandedInv, SerialInv, TypeOK, Slots, Landing, IsPutBack,
           AfterDeps
    <2>3. ASSUME NEW q \in Slots PROVE Landing(q)'
      <3>1. CASE q = p
        BY SMTT(30), <1>8, <3>1 DEF LandedInv, Landing, IsPutBack, AfterDeps
      <3>2. CASE q # p
        <4>1. proc'[q] = proc[q] /\ At(q, "idle")
          BY <1>8, <3>2, Solo DEF SerialInv, TypeOK, Slots, IsPutBack, AfterDeps
        <4>. QED BY <4>1 DEF Landing
      <3>. QED BY <3>1, <3>2
    <2>. QED BY <2>1, <2>2, <2>3 DEF LandedInv
  <1>9. CASE PutBackLost(p)
    <2>1. (landed \ undone \subseteq head /\ worked \subseteq head /\ worked \subseteq index)'
      BY <1>9, Places DEF LandedInv, SerialInv, TypeOK, Slots, Landing, PutBackLost, AfterLoss,
           AfterDeps
    <2>2. (marker # NoMarker => worked \subseteq marker.back)'
      BY <1>9, Places, Kinds DEF LandedInv, SerialInv, TypeOK, Slots, Landing, PutBackLost,
           AfterLoss, AfterDeps
    <2>3. ASSUME NEW q \in Slots PROVE Landing(q)'
      <3>1. CASE q = p
        BY SMTT(30), <1>9, <3>1 DEF LandedInv, Landing, PutBackLost, AfterLoss, AfterDeps
      <3>2. CASE q # p
        <4>1. proc'[q] = proc[q] /\ At(q, "idle")
          BY <1>9, <3>2, Solo DEF SerialInv, TypeOK, Slots, PutBackLost, AfterLoss, AfterDeps
        <4>. QED BY <4>1 DEF Landing
      <3>. QED BY <3>1, <3>2
    <2>. QED BY <2>1, <2>2, <2>3 DEF LandedInv
  <1>10. CASE Rebuilds(p)
    <2>1. (landed \ undone \subseteq head /\ worked \subseteq head /\ worked \subseteq index)'
      BY <1>10, Places DEF LandedInv, SerialInv, TypeOK, Slots, Landing, Rebuilds, AfterDeps,
           Content
    <2>2. (marker # NoMarker => worked \subseteq marker.back)'
      BY <1>10, Places, Kinds DEF LandedInv, SerialInv, TypeOK, Slots, Landing, Rebuilds,
           AfterDeps, Content
    <2>3. ASSUME NEW q \in Slots PROVE Landing(q)'
      <3>1. CASE q = p
        BY SMTT(30), <1>10, <3>1, Places DEF LandedInv, Landing, SerialInv, TypeOK, Slots,
             ProcKinds, Clean, Now, Content, InPlace, Holds, MarkerInv, Mover, Rebuilds,
             AfterDeps
      <3>2. CASE q # p
        <4>1. proc'[q] = proc[q] /\ At(q, "idle")
          BY <1>10, <3>2, Solo DEF SerialInv, TypeOK, Slots, Rebuilds, AfterDeps, Content
        <4>. QED BY <4>1 DEF Landing
      <3>. QED BY <3>1, <3>2
    <2>. QED BY <2>1, <2>2, <2>3 DEF LandedInv
  <1>11. CASE RestartsAgain(p)
    <2>1. (landed \ undone \subseteq head /\ worked \subseteq head /\ worked \subseteq index)'
      BY <1>11, Places DEF LandedInv, SerialInv, TypeOK, Slots, Landing, RestartsAgain, Now,
           Content
    <2>2. (marker # NoMarker => worked \subseteq marker.back)'
      BY <1>11, Places, Kinds DEF LandedInv, SerialInv, TypeOK, Slots, Landing, RestartsAgain,
           Now, Content
    <2>3. ASSUME NEW q \in Slots PROVE Landing(q)'
      <3>1. CASE q = p
        BY SMTT(30), <1>11, <3>1, Places DEF LandedInv, Landing, SerialInv, TypeOK, Slots,
             ProcKinds, Clean, Now, Content, InPlace, Holds, MarkerInv, Mover, RestartsAgain
      <3>2. CASE q # p
        <4>1. proc'[q] = proc[q] /\ At(q, "idle")
          BY <1>11, <3>2, Solo DEF SerialInv, TypeOK, Slots, RestartsAgain, Now, Content
        <4>. QED BY <4>1 DEF Landing
      <3>. QED BY <3>1, <3>2
    <2>. QED BY <2>1, <2>2, <2>3 DEF LandedInv
  <1>12. CASE Confirms(p)
    <2>1. (landed \ undone \subseteq head /\ worked \subseteq head /\ worked \subseteq index)'
      BY <1>12, Places DEF LandedInv, SerialInv, TypeOK, Slots, Landing, Confirms
    <2>2. (marker # NoMarker => worked \subseteq marker.back)'
      BY <1>12, Places, Kinds DEF LandedInv, SerialInv, TypeOK, Slots, Landing, Confirms
    <2>3. ASSUME NEW q \in Slots PROVE Landing(q)'
      <3>1. CASE q = p
        BY SMTT(30), <1>12, <3>1, Places DEF LandedInv, Landing, SerialInv, TypeOK, Slots,
             ProcKinds, Clean, Now, Content, InPlace, Holds, MarkerInv, Mover, Confirms
      <3>2. CASE q # p
        <4>1. proc'[q] = proc[q] /\ At(q, "idle")
          BY <1>12, <3>2, Solo DEF SerialInv, TypeOK, Slots, Confirms
        <4>. QED BY <4>1 DEF Landing
      <3>. QED BY <3>1, <3>2
    <2>. QED BY <2>1, <2>2, <2>3 DEF LandedInv
  <1>13. CASE NotRecovered(p)
    <2>1. (landed \ undone \subseteq head /\ worked \subseteq head /\ worked \subseteq index)'
      BY <1>13, Places DEF LandedInv, SerialInv, TypeOK, Slots, Landing, NotRecovered
    <2>2. (marker # NoMarker => worked \subseteq marker.back)'
      BY <1>13, Places, Kinds DEF LandedInv, SerialInv, TypeOK, Slots, Landing, NotRecovered
    <2>3. ASSUME NEW q \in Slots PROVE Landing(q)'
      <3>1. CASE q = p
        BY SMTT(30), <1>13, <3>1, Places DEF LandedInv, Landing, SerialInv, TypeOK, Slots,
             ProcKinds, Clean, Now, Content, InPlace, Holds, MarkerInv, Mover, NotRecovered
      <3>2. CASE q # p
        <4>1. proc'[q] = proc[q] /\ At(q, "idle")
          BY <1>13, <3>2, Solo DEF SerialInv, TypeOK, Slots, NotRecovered
        <4>. QED BY <4>1 DEF Landing
      <3>. QED BY <3>1, <3>2
    <2>. QED BY <2>1, <2>2, <2>3 DEF LandedInv
  <1>14. CASE Clears(p)
    <2>1. (landed \ undone \subseteq head /\ worked \subseteq head /\ worked \subseteq index)'
      BY <1>14, Places DEF LandedInv, SerialInv, TypeOK, Slots, Landing, Clears, Cleared
    <2>2. (marker # NoMarker => worked \subseteq marker.back)'
      BY <1>14, Places, Kinds DEF LandedInv, SerialInv, TypeOK, Slots, Landing, Clears, Cleared
    <2>3. ASSUME NEW q \in Slots PROVE Landing(q)'
      <3>1. CASE q = p
        BY SMTT(30), <1>14, <3>1 DEF LandedInv, Landing, Clears
      <3>2. CASE q # p
        <4>1. proc'[q] = proc[q] /\ At(q, "idle")
          BY <1>14, <3>2, Solo DEF SerialInv, TypeOK, Slots, Clears, Cleared
        <4>. QED BY <4>1 DEF Landing
      <3>. QED BY <3>1, <3>2
    <2>. QED BY <2>1, <2>2, <2>3 DEF LandedInv
  <1>15. CASE Tidies(p)
    <2>1. (landed \ undone \subseteq head /\ worked \subseteq head /\ worked \subseteq index)'
      BY <1>15, Places DEF LandedInv, SerialInv, TypeOK, Slots, Landing, Tidies
    <2>2. (marker # NoMarker => worked \subseteq marker.back)'
      BY <1>15, Places, Kinds DEF LandedInv, SerialInv, TypeOK, Slots, Landing, Tidies
    <2>3. ASSUME NEW q \in Slots PROVE Landing(q)'
      <3>1. CASE q = p
        BY SMTT(30), <1>15, <3>1, Places DEF LandedInv, Landing, SerialInv, TypeOK, Slots,
             ProcKinds, Clean, Now, Content, InPlace, Holds, MarkerInv, Mover, Tidies
      <3>2. CASE q # p
        <4>1. proc'[q] = proc[q] /\ At(q, "idle")
          BY <1>15, <3>2, Solo DEF SerialInv, TypeOK, Slots, Tidies
        <4>. QED BY <4>1 DEF Landing
      <3>. QED BY <3>1, <3>2
    <2>. QED BY <2>1, <2>2, <2>3 DEF LandedInv
  <1>16. CASE GivesUp(p)
    <2>1. (landed \ undone \subseteq head /\ worked \subseteq head /\ worked \subseteq index)'
      BY <1>16, Places DEF LandedInv, SerialInv, TypeOK, Slots, Landing, GivesUp, Cleared
    <2>2. (marker # NoMarker => worked \subseteq marker.back)'
      BY <1>16, Places, Kinds DEF LandedInv, SerialInv, TypeOK, Slots, Landing, GivesUp, Cleared
    <2>3. ASSUME NEW q \in Slots PROVE Landing(q)'
      <3>1. CASE q = p
        BY SMTT(30), <1>16, <3>1, Places DEF LandedInv, Landing, SerialInv, TypeOK, Slots,
             ProcKinds, Clean, Now, Content, InPlace, Holds, MarkerInv, Mover, GivesUp,
             Cleared
      <3>2. CASE q # p
        <4>1. proc'[q] = proc[q] /\ At(q, "idle")
          BY <1>16, <3>2, Solo DEF SerialInv, TypeOK, Slots, GivesUp, Cleared
        <4>. QED BY <4>1 DEF Landing
      <3>. QED BY <3>1, <3>2
    <2>. QED BY <2>1, <2>2, <2>3 DEF LandedInv
  <1>17. CASE Alarms(p)
    <2>1. (landed \ undone \subseteq head /\ worked \subseteq head /\ worked \subseteq index)'
      BY <1>17, Places DEF LandedInv, SerialInv, TypeOK, Slots, Landing, Alarms
    <2>2. (marker # NoMarker => worked \subseteq marker.back)'
      BY <1>17, Places, Kinds DEF LandedInv, SerialInv, TypeOK, Slots, Landing, Alarms
    <2>3. ASSUME NEW q \in Slots PROVE Landing(q)'
      <3>1. CASE q = p
        BY SMTT(30), <1>17, <3>1, Places DEF LandedInv, Landing, SerialInv, TypeOK, Slots,
             ProcKinds, Clean, Now, Content, InPlace, Holds, MarkerInv, Mover, Alarms
      <3>2. CASE q # p
        <4>1. proc'[q] = proc[q] /\ At(q, "idle")
          BY <1>17, <3>2, Solo DEF SerialInv, TypeOK, Slots, Alarms
        <4>. QED BY <4>1 DEF Landing
      <3>. QED BY <3>1, <3>2
    <2>. QED BY <2>1, <2>2, <2>3 DEF LandedInv
  <1>. QED BY <1>1, <1>2, <1>3, <1>4, <1>5, <1>6, <1>7, <1>8, <1>9, <1>10, <1>11, <1>12, <1>13, <1>14,
       <1>15, <1>16, <1>17 DEF UndoNext

\* The notice's rollback and confirmation keep the landed updates and the work of others in
\* the tree.
LEMMA LandedRollback ==
  ASSUME Serial, ~Race("work"), SerialInv, SerialInv', LandedInv,
         RollbackStarts \/ RollbackNext \/ ConfirmLast
  PROVE  LandedInv'
  <1>1. CASE RollbackStarts
    <2>1. (landed \ undone \subseteq head /\ worked \subseteq head /\ worked \subseteq index)'
      BY <1>1, Places DEF LandedInv, SerialInv, TypeOK, Slots, Landing, RollbackStarts
    <2>2. (marker # NoMarker => worked \subseteq marker.back)'
      BY <1>1, Places, Kinds DEF LandedInv, SerialInv, TypeOK, Slots, Landing, RollbackStarts
    <2>3. ASSUME NEW q \in Slots PROVE Landing(q)'
      <3>1. CASE q = Shell
        BY <1>1, <3>1, Places DEF Landing, SerialInv, TypeOK, Slots, Idle, RollbackStarts
      <3>2. CASE q # Shell
        <4>1. proc'[q] = proc[q] /\ proc[q].pc \in {"idle", "claim"}
          BY <1>1, <3>2, Solo, Places, Kinds DEF SerialInv, TypeOK, Slots, Mover, InPlace,
               Trails, RollsBack, MarkerInv, Unclaimed, Serial, RollbackStarts
        <4>. QED BY <1>1, <4>1 DEF LandedInv, Landing, Clean, RollbackStarts
      <3>. QED BY <3>1, <3>2
    <2>. QED BY <2>1, <2>2, <2>3 DEF LandedInv
  <1>2. CASE Reverts
    <2>1. (landed \ undone \subseteq head /\ worked \subseteq head /\ worked \subseteq index)'
      BY <1>2, Places DEF LandedInv, SerialInv, TypeOK, Slots, Landing, Reverts, WithoutUpdate
    <2>2. (marker # NoMarker => worked \subseteq marker.back)'
      BY <1>2, Places, Kinds DEF LandedInv, SerialInv, TypeOK, Slots, Landing, Reverts,
           WithoutUpdate
    <2>3. ASSUME NEW q \in Slots PROVE Landing(q)'
      <3>1. CASE q = Shell
        BY <1>2, <3>1, Places DEF Landing, SerialInv, TypeOK, Slots, Idle, Reverts, WithoutUpdate
      <3>2. CASE q # Shell
        <4>1. proc'[q] = proc[q] /\ proc[q].pc \in {"idle"}
          BY <1>2, <3>2, Solo, Places DEF SerialInv, TypeOK, Slots, Mover, InPlace, Trails,
               MarkerInv, Unclaimed, Serial, Reverts, WithoutUpdate
        <4>. QED BY <1>2, <4>1 DEF LandedInv, Landing, Clean, Reverts
      <3>. QED BY <3>1, <3>2
    <2>. QED BY <2>1, <2>2, <2>3 DEF LandedInv
  <1>3. CASE RevertRefused
    <2>1. (landed \ undone \subseteq head /\ worked \subseteq head /\ worked \subseteq index)'
      BY <1>3, Places DEF LandedInv, SerialInv, TypeOK, Slots, Landing, RevertRefused, Settled
    <2>2. (marker # NoMarker => worked \subseteq marker.back)'
      BY <1>3, Places, Kinds DEF LandedInv, SerialInv, TypeOK, Slots, Landing, RevertRefused,
           Settled
    <2>3. ASSUME NEW q \in Slots PROVE Landing(q)'
      <3>1. CASE q = Shell
        BY <1>3, <3>1, Places DEF Landing, SerialInv, TypeOK, Slots, Idle, RevertRefused, Settled
      <3>2. CASE q # Shell
        <4>1. proc'[q] = proc[q] /\ proc[q].pc \in {"idle", "claim"}
          BY <1>3, <3>2, Solo, Places DEF SerialInv, TypeOK, Slots, Mover, InPlace, Trails,
               MarkerInv, Unclaimed, Serial, RevertRefused, Settled
        <4>. QED BY <1>3, <4>1 DEF LandedInv, Landing, Clean, RevertRefused
      <3>. QED BY <3>1, <3>2
    <2>. QED BY <2>1, <2>2, <2>3 DEF LandedInv
  <1>4. CASE RevertCommits
    <2>1. (landed \ undone \subseteq head /\ worked \subseteq head /\ worked \subseteq index)'
      BY <1>4, Places DEF LandedInv, SerialInv, TypeOK, Slots, Landing, RevertCommits,
           CommitStaged
    <2>2. (marker # NoMarker => worked \subseteq marker.back)'
      BY <1>4, Places, Kinds DEF LandedInv, SerialInv, TypeOK, Slots, Landing, RevertCommits,
           CommitStaged
    <2>3. ASSUME NEW q \in Slots PROVE Landing(q)'
      <3>1. CASE q = Shell
        BY <1>4, <3>1, Places DEF Landing, SerialInv, TypeOK, Slots, Idle, RevertCommits, CommitStaged
      <3>2. CASE q # Shell
        <4>1. proc'[q] = proc[q] /\ proc[q].pc \in {"idle"}
          BY <1>4, <3>2, Solo, Places DEF SerialInv, TypeOK, Slots, Mover, InPlace, Trails,
               MarkerInv, Unclaimed, Serial, RevertCommits, CommitStaged
        <4>. QED BY <1>4, <4>1 DEF LandedInv, Landing, Clean, RevertCommits
      <3>. QED BY <3>1, <3>2
    <2>. QED BY <2>1, <2>2, <2>3 DEF LandedInv
  <1>5. CASE PointPutBack
    <2>1. (landed \ undone \subseteq head /\ worked \subseteq head /\ worked \subseteq index)'
      BY <1>5, Places DEF LandedInv, SerialInv, TypeOK, Slots, Landing, PointPutBack
    <2>2. (marker # NoMarker => worked \subseteq marker.back)'
      BY <1>5, Places, Kinds DEF LandedInv, SerialInv, TypeOK, Slots, Landing, PointPutBack
    <2>3. ASSUME NEW q \in Slots PROVE Landing(q)'
      <3>1. CASE q = Shell
        BY <1>5, <3>1 DEF Landing, SerialInv, TypeOK, Slots, PointPutBack, ProcKinds
      <3>2. CASE q # Shell
        <4>1. proc'[q] = proc[q] /\ proc[q].pc \in {"idle", "claim"}
          BY <1>5, <3>2, Solo, Places DEF SerialInv, TypeOK, Slots, Mover, InPlace, Trails,
               MarkerInv, Unclaimed, Serial, PointPutBack
        <4>. QED BY <1>5, <4>1 DEF LandedInv, Landing, Clean, PointPutBack
      <3>. QED BY <3>1, <3>2
    <2>. QED BY <2>1, <2>2, <2>3 DEF LandedInv
  <1>6. CASE PointIsBack
    <2>1. (landed \ undone \subseteq head /\ worked \subseteq head /\ worked \subseteq index)'
      BY <1>6, Places DEF LandedInv, SerialInv, TypeOK, Slots, Landing, PointIsBack
    <2>2. (marker # NoMarker => worked \subseteq marker.back)'
      BY <1>6, Places, Kinds DEF LandedInv, SerialInv, TypeOK, Slots, Landing, PointIsBack
    <2>3. ASSUME NEW q \in Slots PROVE Landing(q)'
      <3>1. CASE q = Shell
        BY <1>6, <3>1, Places DEF Landing, SerialInv, TypeOK, Slots, Idle, PointIsBack
      <3>2. CASE q # Shell
        <4>1. proc'[q] = proc[q] /\ proc[q].pc \in {"idle", "claim"}
          BY <1>6, <3>2, Solo, Places DEF SerialInv, TypeOK, Slots, Mover, InPlace, Trails,
               MarkerInv, Unclaimed, Serial, PointIsBack
        <4>. QED BY <1>6, <4>1 DEF LandedInv, Landing, Clean, PointIsBack
      <3>. QED BY <3>1, <3>2
    <2>. QED BY <2>1, <2>2, <2>3 DEF LandedInv
  <1>7. CASE RollbackRestarts
    <2>1. (landed \ undone \subseteq head /\ worked \subseteq head /\ worked \subseteq index)'
      BY <1>7, Places DEF LandedInv, SerialInv, TypeOK, Slots, Landing, RollbackRestarts, Now,
           Content
    <2>2. (marker # NoMarker => worked \subseteq marker.back)'
      BY <1>7, Places, Kinds DEF LandedInv, SerialInv, TypeOK, Slots, Landing, RollbackRestarts,
           Now, Content
    <2>3. ASSUME NEW q \in Slots PROVE Landing(q)'
      <3>1. CASE q = Shell
        BY <1>7, <3>1, Places DEF Landing, SerialInv, TypeOK, Slots, Idle, RollbackRestarts, Now, Content
      <3>2. CASE q # Shell
        <4>1. proc'[q] = proc[q] /\ proc[q].pc \in {"idle", "claim"}
          BY SMTT(30), <1>7, <3>2, Solo, Places DEF SerialInv, TypeOK, Slots, Mover,
               InPlace, Trails, MarkerInv, Unclaimed, Serial, RollbackRestarts, Now, Content
        <4>. QED BY <1>7, <4>1 DEF LandedInv, Landing, Clean, RollbackRestarts
      <3>. QED BY <3>1, <3>2
    <2>. QED BY <2>1, <2>2, <2>3 DEF LandedInv
  <1>8. CASE RollbackNeedsRestart
    <2>1. (landed \ undone \subseteq head /\ worked \subseteq head /\ worked \subseteq index)'
      BY <1>8, Places DEF LandedInv, SerialInv, TypeOK, Slots, Landing, RollbackNeedsRestart,
           Settled
    <2>2. (marker # NoMarker => worked \subseteq marker.back)'
      BY <1>8, Places, Kinds DEF LandedInv, SerialInv, TypeOK, Slots, Landing,
           RollbackNeedsRestart, Settled
    <2>3. ASSUME NEW q \in Slots PROVE Landing(q)'
      <3>1. CASE q = Shell
        BY <1>8, <3>1, Places DEF Landing, SerialInv, TypeOK, Slots, Idle, RollbackNeedsRestart, Settled
      <3>2. CASE q # Shell
        <4>1. proc'[q] = proc[q] /\ proc[q].pc \in {"idle", "claim"}
          BY <1>8, <3>2, Solo, Places DEF SerialInv, TypeOK, Slots, Mover, InPlace, Trails,
               MarkerInv, Unclaimed, Serial, RollbackNeedsRestart, Settled
        <4>. QED BY <1>8, <4>1 DEF LandedInv, Landing, Clean, RollbackNeedsRestart
      <3>. QED BY <3>1, <3>2
    <2>. QED BY <2>1, <2>2, <2>3 DEF LandedInv
  <1>9. CASE RollbackDone
    <2>1. (landed \ undone \subseteq head /\ worked \subseteq head /\ worked \subseteq index)'
      BY <1>9, Places DEF LandedInv, SerialInv, TypeOK, Slots, Landing, RollbackDone, Settled
    <2>2. (marker # NoMarker => worked \subseteq marker.back)'
      BY <1>9, Places, Kinds DEF LandedInv, SerialInv, TypeOK, Slots, Landing, RollbackDone,
           Settled
    <2>3. ASSUME NEW q \in Slots PROVE Landing(q)'
      <3>1. CASE q = Shell
        BY <1>9, <3>1, Places DEF Landing, SerialInv, TypeOK, Slots, Idle, RollbackDone, Settled
      <3>2. CASE q # Shell
        <4>1. proc'[q] = proc[q] /\ proc[q].pc \in {"idle", "claim"}
          BY <1>9, <3>2, Solo, Places DEF SerialInv, TypeOK, Slots, Mover, InPlace, Trails,
               MarkerInv, Unclaimed, Serial, RollbackDone, Settled
        <4>. QED BY <1>9, <4>1 DEF LandedInv, Landing, Clean, RollbackDone
      <3>. QED BY <3>1, <3>2
    <2>. QED BY <2>1, <2>2, <2>3 DEF LandedInv
  <1>10. CASE RollbackFails
    <2>1. (landed \ undone \subseteq head /\ worked \subseteq head /\ worked \subseteq index)'
      BY <1>10, Places DEF LandedInv, SerialInv, TypeOK, Slots, Landing, RollbackFails, Settled
    <2>2. (marker # NoMarker => worked \subseteq marker.back)'
      BY <1>10, Places, Kinds DEF LandedInv, SerialInv, TypeOK, Slots, Landing, RollbackFails,
           Settled
    <2>3. ASSUME NEW q \in Slots PROVE Landing(q)'
      <3>1. CASE q = Shell
        BY <1>10, <3>1, Places DEF Landing, SerialInv, TypeOK, Slots, Idle, RollbackFails, Settled
      <3>2. CASE q # Shell
        <4>1. proc'[q] = proc[q] /\ proc[q].pc \in {"idle", "claim"}
          BY <1>10, <3>2, Solo, Places DEF SerialInv, TypeOK, Slots, Mover, InPlace, Trails,
               MarkerInv, Unclaimed, Serial, RollbackFails, Settled
        <4>. QED BY <1>10, <4>1 DEF LandedInv, Landing, Clean, RollbackFails
      <3>. QED BY <3>1, <3>2
    <2>. QED BY <2>1, <2>2, <2>3 DEF LandedInv
  <1>11. CASE ConfirmLast
    <2>1. (landed \ undone \subseteq head /\ worked \subseteq head /\ worked \subseteq index)'
      BY <1>11, Places DEF LandedInv, SerialInv, TypeOK, Slots, Landing, ConfirmLast, Locked
    <2>2. (marker # NoMarker => worked \subseteq marker.back)'
      BY <1>11, Places, Kinds DEF LandedInv, SerialInv, TypeOK, Slots, Landing, ConfirmLast,
           Locked
    <2>3. ASSUME NEW q \in Slots PROVE Landing(q)'
      BY <1>11 DEF ConfirmLast, LandedInv, Landing, Clean, Now, Content, Locked
    <2>. QED BY <2>1, <2>2, <2>3 DEF LandedInv
  <1>. QED BY <1>1, <1>2, <1>3, <1>4, <1>5, <1>6, <1>7, <1>8, <1>9, <1>10, <1>11 DEF RollbackNext

\* Kills, restarts and others' work keep the landed updates and the work of others in the
\* tree.
LEMMA LandedOther ==
  ASSUME Serial, ~Race("work"), SerialInv, SerialInv', LandedInv,
         \/ \E m \in Merges : Dispatch(m)
         \/ \E p \in Slots : Kill(p)
         \/ Restart \/ ServicesStart
         \/ \E w \in Work : Works(w)
         \/ UNCHANGED vars
  PROVE  LandedInv'
  <1>1. ASSUME NEW m \in Merges, Dispatch(m) PROVE LandedInv'
    <2>1. (landed \ undone \subseteq head /\ worked \subseteq head /\ worked \subseteq index)'
      BY <1>1, Places DEF LandedInv, SerialInv, TypeOK, Slots, Landing, Dispatch
    <2>2. (marker # NoMarker => worked \subseteq marker.back)'
      BY <1>1, Places, Kinds DEF LandedInv, SerialInv, TypeOK, Slots, Landing, Dispatch
    <2>3. ASSUME NEW q \in Slots PROVE Landing(q)'
      BY <1>1 DEF Dispatch, LandedInv, Landing, Clean, Now, Content
    <2>. QED BY <2>1, <2>2, <2>3 DEF LandedInv
  <1>2. ASSUME NEW p \in Slots, Kill(p) PROVE LandedInv'
    <2>1. (landed \ undone \subseteq head /\ worked \subseteq head /\ worked \subseteq index)'
      BY <1>2, Places DEF LandedInv, SerialInv, TypeOK, Slots, Landing, Kill, Orphaned
    <2>2. (marker # NoMarker => worked \subseteq marker.back)'
      BY <1>2, OrphanedKind DEF LandedInv, SerialInv, TypeOK, Slots, Landing, Kill, Orphaned
    <2>3. ASSUME NEW q \in Slots PROVE Landing(q)'
      <3>1. proc'[q] \in {proc[q], Idle}
        BY <1>2 DEF Kill, SerialInv, TypeOK
      <3>. QED BY <1>2, <3>1 DEF Kill, LandedInv, Landing, Idle, Clean, Now, Content
    <2>. QED BY <2>1, <2>2, <2>3 DEF LandedInv
  <1>3. CASE Restart
    <2>1. (landed \ undone \subseteq head /\ worked \subseteq head /\ worked \subseteq index)'
      BY <1>3, Places DEF LandedInv, SerialInv, TypeOK, Slots, Landing, Restart
    <2>2. (marker # NoMarker => worked \subseteq marker.back)'
      BY <1>3, Places, Kinds DEF LandedInv, SerialInv, TypeOK, Slots, Landing, Restart
    <2>3. ASSUME NEW q \in Slots PROVE Landing(q)'
      BY <1>3 DEF Restart, Landing, Idle
    <2>. QED BY <2>1, <2>2, <2>3 DEF LandedInv
  <1>4. CASE ServicesStart
    <2>1. (landed \ undone \subseteq head /\ worked \subseteq head /\ worked \subseteq index)'
      BY <1>4, Places DEF LandedInv, SerialInv, TypeOK, Slots, Landing, ServicesStart, Now,
           Content
    <2>2. (marker # NoMarker => worked \subseteq marker.back)'
      BY <1>4, Places, Kinds DEF LandedInv, SerialInv, TypeOK, Slots, Landing, ServicesStart,
           Now, Content
    <2>3. ASSUME NEW q \in Slots PROVE Landing(q)'
      BY <1>4 DEF ServicesStart, LandedInv, Landing, Clean, Now, Content
    <2>. QED BY <2>1, <2>2, <2>3 DEF LandedInv
  <1>5. ASSUME NEW w \in Work, Works(w) PROVE LandedInv'
    <2>1. (landed \ undone \subseteq head /\ worked \subseteq head /\ worked \subseteq index)'
      BY <1>5, Places DEF LandedInv, SerialInv, TypeOK, Slots, Landing, Works, Clean
    <2>2. (marker # NoMarker => worked \subseteq marker.back)'
      BY <1>5, Places, Kinds DEF LandedInv, SerialInv, TypeOK, Slots, Landing, Works, Clean
    <2>3. ASSUME NEW q \in Slots PROVE Landing(q)'
      <3>1. proc[q].pc \notin {"claim"} \cup Applying \cup Undoing
        BY <1>5 DEF Works, SerialInv, InPlace, Claiming, Holds
      <3>. QED BY <1>5, <3>1 DEF Works, LandedInv, Landing, Clean, Now, Content
    <2>. QED BY <2>1, <2>2, <2>3 DEF LandedInv
  <1>6. CASE UNCHANGED vars
    <2>1. (landed \ undone \subseteq head /\ worked \subseteq head /\ worked \subseteq index)'
      BY <1>6, Places DEF LandedInv, SerialInv, TypeOK, Slots, Landing, vars
    <2>2. (marker # NoMarker => worked \subseteq marker.back)'
      BY <1>6, Places, Kinds DEF LandedInv, SerialInv, TypeOK, Slots, Landing, vars
    <2>3. ASSUME NEW q \in Slots PROVE Landing(q)'
      BY <1>6 DEF vars, LandedInv, Landing, Clean, Now, Content
    <2>. QED BY <2>1, <2>2, <2>3 DEF LandedInv
  <1>. QED BY <1>1, <1>2, <1>3, <1>4, <1>5, <1>6

\* Every step keeps what others have committed, and an update under way, in the tree.
LEMMA LandedStep ==
  ASSUME Serial, ~Race("work"), SerialInv, LandedInv, [Next]_vars
  PROVE  LandedInv'
  <1>. SerialInv'
    BY SerialStep
  <1>1. CASE \E a \in Agents : \/ \E m \in Merges, keep \in BOOLEAN :
                                   ApplyStarts(a, m, keep) \/ ApplyResumes(a, m, keep)
                               \/ ApplyNext(a)
    BY <1>1, LandedApply
  <1>2. CASE \E p \in Slots : RecoverReads(p) \/ BootReads \/ UndoNext(p)
    BY <1>2, LandedUndo
  <1>3. CASE RollbackStarts \/ RollbackNext \/ ConfirmLast
    BY <1>3, LandedRollback
  <1>4. CASE \/ \E m \in Merges : Dispatch(m)
             \/ \E p \in Slots : Kill(p)
             \/ Restart \/ ServicesStart
             \/ \E w \in Work : Works(w)
             \/ UNCHANGED vars
    BY <1>4, LandedOther
  <1>. QED BY <1>1, <1>2, <1>3, <1>4 DEF Next, Slots

\* An apply that ends well has its update in the tree and running, and what others
\* committed survives every apply, recovery and rollback: with any kills, restarts, lost
\* copies and failed boots, as long as others commit only between updates.
THEOREM AppliedStaysLive ==
  ASSUME Serial, ~Race("work")
  PROVE  Spec => []AppliedIsLive
  <1>1. Init => LandedInv
    BY DEF Init, LandedInv, Landing, Idle
  <1>2. SerialInv /\ LandedInv /\ [Next]_vars => LandedInv'
    BY LandedStep
  <1>3. SerialInv /\ LandedInv => AppliedIsLive
    <2>. SUFFICES ASSUME SerialInv, LandedInv, NEW a \in Agents, At(a, "tail")
                  PROVE  proc[a].mk.merge \in running.tree /\ running = Now
      BY DEF AppliedIsLive, LandedInv
    <2>1. proc[a].mk.merge \in head /\ running = Now
      BY DEF LandedInv, Landing, Slots
    <2>2. proc[a].mk.merge \in Merges
      BY DEF SerialInv, TypeOK, InPlace, Trails, Slots
    <2>. QED BY <2>1, <2>2 DEF Now, Content
  <1>. QED BY <1>1, <1>2, <1>3, Serialized, PTL DEF Spec

===============================================================================
