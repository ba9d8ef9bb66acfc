-------------------------- MODULE AppLifecycleProofs --------------------------
(***************************************************************************)
(* What TLAPS proves of AppLifecycle, for every number of apps, threads,   *)
(* wakes, faults and restarts of the shell.  Each theorem names the races  *)
(* it excludes; all others may happen.                                     *)
(***************************************************************************)
EXTENDS AppLifecycle, FiniteSetTheorems, TLAPS

-------------------------------------------------------------------------------
(* The inductive invariants.                                                 *)

\* The types, in parts; an app never has a port twice, nor more wakes than the budget.
EnvOK ==
    /\ prog \in [Apps -> States]
    /\ holder \in [Apps -> [Ports -> {"free", "app", "shell"}]]
    /\ listed \subseteq Apps /\ port \in [Apps -> Ports] /\ shown \subseteq Apps
    /\ visited \in BOOLEAN
BooksOK ==
    /\ parked \in [Apps -> Ports \cup {NoPort}]
    /\ olderWakes \in [Apps -> 0..WakeBudget] /\ newerWakes \in [Apps -> 0..WakeBudget]
    /\ awaiting \subseteq Apps /\ failed \subseteq Apps
    /\ idle \in [Apps -> {"none", "young", "grown"}]
    /\ \A a \in Apps : olderWakes[a] + newerWakes[a] <= WakeBudget
HistoryOK ==
    /\ firstBind \subseteq Apps /\ starts \in [Apps -> 0..WakeBudget + 1]
    /\ watched \subseteq Apps /\ graced \subseteq Apps
    /\ faults \in 0..MaxFaults /\ upsets \in 0..MaxUpsets
    /\ \A a \in Apps : port[a] <= upsets + 1
KindsInv ==
    EnvOK /\ BooksOK /\ waker \in [Wakers -> WakerKinds] /\ sweep \in SweepKinds /\ HistoryOK

-------------------------------------------------------------------------------
(* The types.                                                                *)

USE AppsAssumption DEF envVars, bookVars, historyVars, boundVars, Listening, Fault, Upset,
                       Ports, NoPort, UpStates, DownStates

\* The states at rest are well formed.
LEMMA Kinds ==
    /\ SomeApp \in Apps /\ AtRest \in WakerKinds /\ AtRest.port = NoPort /\ AtRest.pc = "idle"
    /\ NoPass \in SweepKinds
  <1>1. SomeApp \in Apps
    BY DEF SomeApp
  <1>2. [a \in Apps |-> 1] \in [Apps -> Ports] /\ [a \in Apps |-> "STOPPED"] \in [Apps -> States]
    BY DEF States
  <1>. QED BY <1>1, <1>2 DEF AtRest, NoPass, WakerKinds, SweepKinds

\* Closing a listener changes nothing else.
LEMMA Closes ==
  ASSUME EnvOK, NEW a \in Apps, NEW p \in Ports, Close(a, p)
  PROVE  /\ holder' \in [Apps -> [Ports -> {"free", "app", "shell"}]]
         /\ \A b \in Apps, q \in Ports :
              holder'[b][q] = IF b = a /\ q = p /\ Listening(a, p) THEN "free" ELSE holder[b][q]
  BY DEF Close, EnvOK

\* What is taken off the books is an open listener, or nothing.
LEMMA Taken ==
  ASSUME BooksOK, NEW a \in Apps
  PROVE  /\ OpenParker(a) \in Ports \cup {NoPort}
         /\ OpenParker(a) \in Ports => OpenParker(a) = parked[a] /\ Listening(a, parked[a])
         /\ OpenParker(a) = NoPort => parked[a] = NoPort \/ ~Listening(a, parked[a])
  BY DEF OpenParker, BooksOK

\* A waking thread takes the parker off the books.
LEMMA Takes ==
  ASSUME KindsInv, NEW w \in Wakers, NEW pc \in {"release", "refused"}, TakeParker(w, pc)
  PROVE  LET a == waker[w].app IN
         /\ parked' \in [Apps -> Ports \cup {NoPort}] /\ parked'[a] = NoPort
         /\ \A b \in Apps \ {a} : parked'[b] = parked[b]
         /\ waker' \in [Wakers -> WakerKinds]
         /\ waker'[w].pc = pc /\ waker'[w].app = a /\ waker'[w].port = OpenParker(a)
         /\ waker'[w].for = waker[w].for
         /\ \A v \in Wakers \ {w} : waker'[v] = waker[v]
  <1>1. waker[w] \in WakerKinds /\ waker[w].app \in Apps
    BY DEF KindsInv, WakerKinds
  <1>2. OpenParker(waker[w].app) \in Ports \cup {NoPort}
    BY <1>1, Taken DEF KindsInv
  <1>3. [waker[w] EXCEPT !.pc = pc, !.port = OpenParker(waker[w].app)] \in WakerKinds
    BY <1>1, <1>2 DEF WakerKinds
  <1>4. waker' = [waker EXCEPT ![w] = [waker[w] EXCEPT !.pc = pc, !.port = OpenParker(waker[w].app)]]
    BY DEF TakeParker, KindsInv
  <1>5. parked' = [parked EXCEPT ![waker[w].app] = NoPort]
    BY DEF TakeParker
  <1>6. /\ waker' \in [Wakers -> WakerKinds]
        /\ waker'[w].pc = pc /\ waker'[w].app = waker[w].app
        /\ waker'[w].port = OpenParker(waker[w].app) /\ waker'[w].for = waker[w].for
        /\ \A v \in Wakers \ {w} : waker'[v] = waker[v]
    BY <1>1, <1>3, <1>4 DEF KindsInv, WakerKinds
  <1>. QED BY <1>1, <1>5, <1>6 DEF KindsInv, BooksOK

\* Nothing has happened yet.
LEMMA KindsInit ==
  ASSUME Init
  PROVE  KindsInv
  <1>1. EnvOK
    <2>1. holder \in [Apps -> [Ports -> {"free", "app", "shell"}]]
      BY DEF Init
    <2>2. prog \in [Apps -> States]
      BY DEF Init, States
    <2>3. listed \subseteq Apps /\ shown \subseteq Apps /\ visited \in BOOLEAN
      BY DEF Init
    <2>4. port \in [Apps -> Ports]
      <3>1. port = [a \in Apps |-> 1]
        BY DEF Init
      <3>. QED BY <3>1
    <2>. QED BY <2>1, <2>2, <2>3, <2>4 DEF EnvOK
  <1>2. BooksOK
    BY DEF Init, BooksOK
  <1>3. HistoryOK
    BY DEF Init, HistoryOK
  <1>. QED BY <1>1, <1>2, <1>3, Kinds DEF Init, KindsInv

\* The types hold after: a step of the sweep.
LEMMA KindsSweep ==
  ASSUME KindsInv,
         SweepStep
  PROVE  KindsInv'
  <1>1. CASE SweepBegins
    <2>1. EnvOK'
      BY <1>1 DEF KindsInv, EnvOK, HistoryOK, States, SweepBegins, SweepAt
    <2>2. BooksOK'
      BY <1>1 DEF KindsInv, BooksOK, SweepBegins, SweepAt
    <2>3. waker' \in [Wakers -> WakerKinds]
      BY <1>1, Kinds DEF KindsInv, WakerKinds, SweepBegins, SweepAt
    <2>4. sweep' \in SweepKinds
      BY <1>1, Kinds DEF KindsInv, SweepKinds, EnvOK, BooksOK, SweepBegins, SweepAt
    <2>5. HistoryOK'
      BY <1>1 DEF KindsInv, HistoryOK, EnvOK, SweepBegins, SweepAt
    <2>. QED BY <2>1, <2>2, <2>3, <2>4, <2>5 DEF KindsInv
  <1>2. CASE SweepReads
    <2>1. EnvOK'
      BY <1>2 DEF KindsInv, EnvOK, HistoryOK, States, SweepReads
    <2>2. BooksOK'
      BY <1>2 DEF KindsInv, BooksOK, SweepReads
    <2>3. waker' \in [Wakers -> WakerKinds]
      BY <1>2, Kinds DEF KindsInv, WakerKinds, SweepReads
    <2>4. sweep' \in SweepKinds
      BY <1>2, Kinds DEF KindsInv, SweepKinds, EnvOK, BooksOK, SweepReads
    <2>5. HistoryOK'
      BY <1>2 DEF KindsInv, HistoryOK, EnvOK, SweepReads
    <2>. QED BY <2>1, <2>2, <2>3, <2>4, <2>5 DEF KindsInv
  <1>3. CASE SweepReleases
    <2>1. EnvOK'
      BY <1>3 DEF KindsInv, EnvOK, HistoryOK, States, SweepReleases, Rule
    <2>2. BooksOK'
      BY <1>3 DEF KindsInv, BooksOK, SweepReleases, Rule
    <2>3. waker' \in [Wakers -> WakerKinds]
      BY <1>3, Kinds DEF KindsInv, WakerKinds, SweepReleases, Rule
    <2>4. sweep' \in SweepKinds
      <3>1. sweep \in SweepKinds
        BY DEF KindsInv
      <3>2. PICK l \in {"next", "rule", "park", "idle"} :
                 sweep' = [sweep EXCEPT !.release = {}, !.pc = l]
        BY <1>3, Zenon DEF SweepReleases, Rule
      <3>. QED BY <3>1, <3>2 DEF SweepKinds
    <2>5. HistoryOK'
      BY <1>3 DEF KindsInv, HistoryOK, EnvOK, SweepReleases, Rule
    <2>. QED BY <2>1, <2>2, <2>3, <2>4, <2>5 DEF KindsInv
  <1>4. CASE SweepCounts
    <2>1. EnvOK'
      BY <1>4 DEF KindsInv, EnvOK, HistoryOK, States, SweepCounts, Counts, NotIdle
    <2>2. BooksOK'
      BY <1>4 DEF KindsInv, BooksOK, SweepCounts, Counts, NotIdle
    <2>3. waker' \in [Wakers -> WakerKinds]
      BY <1>4, Kinds DEF KindsInv, WakerKinds, SweepCounts, Counts, NotIdle
    <2>4. sweep' \in SweepKinds
      <3>1. CASE sweep.app \in NoWindowApps
        <4>1. Counts \in SUBSET Apps
          BY DEF Counts, KindsInv, SweepKinds, EnvOK
        <4>2. PICK pc \in {"next", "decide"} :
                sweep' = [sweep EXCEPT !.counted = TRUE, !.windows = Counts, !.pc = pc]
          BY <1>4, <3>1 DEF SweepCounts
        <4>. QED BY <4>1, <4>2 DEF KindsInv, SweepKinds
      <3>2. CASE sweep.app \notin NoWindowApps
        BY <1>4, <3>2 DEF SweepCounts, KindsInv, SweepKinds
      <3>. QED BY <3>1, <3>2
    <2>5. HistoryOK'
      BY <1>4 DEF KindsInv, HistoryOK, EnvOK, SweepCounts, Counts, NotIdle
    <2>. QED BY <2>1, <2>2, <2>3, <2>4, <2>5 DEF KindsInv
  <1>5. CASE SweepDecides
    <2>1. EnvOK'
      BY <1>5 DEF KindsInv, EnvOK, HistoryOK, States, SweepDecides, SweepAt
    <2>2. BooksOK'
      BY <1>5 DEF KindsInv, BooksOK, SweepDecides, SweepAt
    <2>3. waker' \in [Wakers -> WakerKinds]
      BY <1>5, Kinds DEF KindsInv, WakerKinds, SweepDecides, SweepAt
    <2>4. sweep' \in SweepKinds
      BY <1>5, Kinds DEF KindsInv, SweepKinds, EnvOK, BooksOK, SweepDecides, SweepAt
    <2>5. HistoryOK'
      BY <1>5 DEF KindsInv, HistoryOK, EnvOK, SweepDecides, SweepAt
    <2>. QED BY <2>1, <2>2, <2>3, <2>4, <2>5 DEF KindsInv
  <1>6. CASE SweepStops
    <2>1. EnvOK'
      BY <1>6 DEF KindsInv, EnvOK, HistoryOK, States, SweepStops, ToldToStop, SweepAt
    <2>2. BooksOK'
      BY <1>6 DEF KindsInv, BooksOK, SweepStops, ToldToStop, SweepAt
    <2>3. waker' \in [Wakers -> WakerKinds]
      BY <1>6, Kinds DEF KindsInv, WakerKinds, SweepStops, ToldToStop, SweepAt
    <2>4. sweep' \in SweepKinds
      BY <1>6, Kinds DEF KindsInv, SweepKinds, EnvOK, BooksOK, SweepStops, ToldToStop,
           SweepAt
    <2>5. HistoryOK'
      BY <1>6 DEF KindsInv, HistoryOK, EnvOK, SweepStops, ToldToStop, SweepAt
    <2>. QED BY <2>1, <2>2, <2>3, <2>4, <2>5 DEF KindsInv
  <1>7. CASE SweepNotesOutcome
    <2>1. EnvOK'
      BY <1>7 DEF KindsInv, EnvOK, HistoryOK, States, SweepNotesOutcome, OpenParker,
           ForgetWakes, ParkedWhereItIs, SweepAt
    <2>2. BooksOK'
      BY <1>7 DEF KindsInv, BooksOK, SweepNotesOutcome, OpenParker, ForgetWakes,
           ParkedWhereItIs, SweepAt
    <2>3. waker' \in [Wakers -> WakerKinds]
      BY <1>7, Kinds DEF KindsInv, WakerKinds, SweepNotesOutcome, OpenParker, ForgetWakes,
           ParkedWhereItIs, SweepAt
    <2>4. sweep' \in SweepKinds
      <3>1. CASE ParkedWhereItIs(sweep.app)
        BY <1>7, <3>1 DEF SweepNotesOutcome, SweepAt, KindsInv, SweepKinds
      <3>2. CASE ~ParkedWhereItIs(sweep.app)
        <4>1. sweep.app \in Apps /\ OpenParker(sweep.app) \in Ports \cup {NoPort}
          BY Taken DEF KindsInv, SweepKinds
        <4>2. {<<sweep.app, OpenParker(sweep.app)>>} \ {<<sweep.app, NoPort>>} \in SUBSET (Apps \X Ports)
          BY <4>1
        <4>3. PICK pc \in {"park", "downRelease"} : sweep' = [sweep EXCEPT !.pc = pc,
                !.release = {<<sweep.app, OpenParker(sweep.app)>>} \ {<<sweep.app, NoPort>>}]
          BY <1>7, <3>2 DEF SweepNotesOutcome
        <4>. QED BY <4>2, <4>3 DEF KindsInv, SweepKinds
      <3>. QED BY <3>1, <3>2
    <2>5. HistoryOK'
      BY <1>7 DEF KindsInv, HistoryOK, EnvOK, SweepNotesOutcome, OpenParker, ForgetWakes,
           ParkedWhereItIs, SweepAt
    <2>. QED BY <2>1, <2>2, <2>3, <2>4, <2>5 DEF KindsInv
  <1>8. CASE SweepParks
    <2>1. EnvOK'
      <3>1. sweep.app \in Apps /\ sweep.rows[sweep.app] \in Ports
        BY DEF KindsInv, SweepKinds
      <3> DEFINE row == [holder[sweep.app] EXCEPT ![sweep.rows[sweep.app]] = "shell"]
      <3>2. holder' = holder \/ holder' = [holder EXCEPT ![sweep.app] = row]
        BY <1>8 DEF SweepParks
      <3>3. row \in [Ports -> {"free", "app", "shell"}]
        BY <3>1 DEF KindsInv, EnvOK
      <3>4. holder' \in [Apps -> [Ports -> {"free", "app", "shell"}]]
        <4> HIDE DEF row
        <4>. QED BY <3>1, <3>2, <3>3 DEF KindsInv, EnvOK
      <3>. QED BY <1>8, <3>4 DEF SweepParks, KindsInv, EnvOK
    <2>2. BooksOK'
      <3>1. sweep.app \in Apps /\ sweep.rows[sweep.app] \in Ports
        BY DEF KindsInv, SweepKinds
      <3>. QED BY <1>8, <3>1 DEF SweepParks, OnTheBooks, KindsInv, BooksOK
    <2>3. waker' \in [Wakers -> WakerKinds]
      BY <1>8, Kinds DEF KindsInv, WakerKinds, SweepParks, OnTheBooks, SweepAt
    <2>4. sweep' \in SweepKinds
      BY <1>8, Kinds DEF KindsInv, SweepKinds, EnvOK, BooksOK, SweepParks, OnTheBooks,
           SweepAt
    <2>5. HistoryOK'
      BY <1>8 DEF KindsInv, HistoryOK, EnvOK, SweepParks, OnTheBooks, SweepAt
    <2>. QED BY <2>1, <2>2, <2>3, <2>4, <2>5 DEF KindsInv
  <1>9. CASE SweepEnds
    <2>1. EnvOK'
      BY <1>9 DEF KindsInv, EnvOK, HistoryOK, States, SweepEnds, Beyond, OpenParker, NoPass
    <2>2. BooksOK'
      BY <1>9 DEF KindsInv, BooksOK, SweepEnds, Beyond, OpenParker, NoPass
    <2>3. waker' \in [Wakers -> WakerKinds]
      BY <1>9, Kinds DEF KindsInv, WakerKinds, SweepEnds, Beyond, OpenParker, NoPass
    <2>4. sweep' \in SweepKinds
      <3>1. {<<b, OpenParker(b)>> : b \in Beyond(sweep.pass)} \in SUBSET (Apps \X Ports)
        BY Taken DEF KindsInv, Beyond
      <3>2. PICK pc \in {"idle", "endRelease"} : sweep' = [NoPass EXCEPT !.pc = pc,
              !.release = {<<b, OpenParker(b)>> : b \in Beyond(sweep.pass)}]
        BY <1>9 DEF SweepEnds
      <3>. QED BY <3>1, <3>2, Kinds DEF SweepKinds
    <2>5. HistoryOK'
      BY <1>9 DEF KindsInv, HistoryOK, EnvOK, SweepEnds, Beyond, OpenParker, NoPass
    <2>. QED BY <2>1, <2>2, <2>3, <2>4, <2>5 DEF KindsInv
  <1>10. ASSUME NEW b \in Apps, SweepFindsUp(b) PROVE KindsInv'
    <2>1. EnvOK'
      BY <1>10 DEF KindsInv, EnvOK, HistoryOK, States, SweepFindsUp, OpenParker, SeenUp,
           Rule, ForgetWakes
    <2>2. BooksOK'
      BY <1>10 DEF KindsInv, BooksOK, SweepFindsUp, OpenParker, SeenUp, Rule, ForgetWakes
    <2>3. waker' \in [Wakers -> WakerKinds]
      BY <1>10, Kinds DEF KindsInv, WakerKinds, SweepFindsUp, OpenParker, SeenUp, Rule,
           ForgetWakes
    <2>4. sweep' \in SweepKinds
      <3>1. OpenParker(b) \in Ports \cup {NoPort}
        BY Taken DEF KindsInv
      <3>2. {<<b, OpenParker(b)>>} \ {<<b, NoPort>>} \in SUBSET (Apps \X Ports)
        BY <3>1
      <3>3. PICK pc \in {"next", "rule", "upRelease"} :
              sweep' = [sweep EXCEPT !.app = b, !.todo = @ \ {b}, !.pc = pc,
                          !.release = {<<b, OpenParker(b)>>} \ {<<b, NoPort>>}]
        BY <1>10 DEF SweepFindsUp, Rule
      <3>. QED BY <3>2, <3>3 DEF KindsInv, SweepKinds
    <2>5. HistoryOK'
      BY <1>10 DEF KindsInv, HistoryOK, EnvOK, SweepFindsUp, OpenParker, SeenUp, Rule,
           ForgetWakes
    <2>. QED BY <2>1, <2>2, <2>3, <2>4, <2>5 DEF KindsInv
  <1>11. ASSUME NEW b \in Apps, SweepFindsDown(b) PROVE KindsInv'
    <2>1. EnvOK'
      BY <1>11 DEF KindsInv, EnvOK, HistoryOK, States, SweepFindsDown, WokenSince
    <2>2. BooksOK'
      BY <1>11 DEF KindsInv, BooksOK, SweepFindsDown, WokenSince
    <2>3. waker' \in [Wakers -> WakerKinds]
      BY <1>11, Kinds DEF KindsInv, WakerKinds, SweepFindsDown, WokenSince
    <2>4. sweep' \in SweepKinds
      BY <1>11, Kinds DEF KindsInv, SweepKinds, EnvOK, BooksOK, SweepFindsDown, WokenSince
    <2>5. HistoryOK'
      BY <1>11 DEF KindsInv, HistoryOK, EnvOK, SweepFindsDown, WokenSince
    <2>. QED BY <2>1, <2>2, <2>3, <2>4, <2>5 DEF KindsInv
  <1>. QED BY <1>1, <1>2, <1>3, <1>4, <1>5, <1>6, <1>7, <1>8, <1>9, <1>10, <1>11 DEF
       SweepStep

\* The types hold after: a step of a wake.
LEMMA KindsWaker ==
  ASSUME KindsInv, NEW w \in Wakers,
         WakerStep(w)
  PROVE  KindsInv'
  <1>1. CASE RefuseUnlisted(w)
    <2>1. EnvOK'
      BY <1>1 DEF KindsInv, EnvOK, HistoryOK, States, RefuseUnlisted, WakerDone, AtRest
    <2>2. BooksOK'
      BY <1>1 DEF KindsInv, BooksOK, RefuseUnlisted, WakerDone, AtRest
    <2>3. waker' \in [Wakers -> WakerKinds]
      BY <1>1, Kinds DEF KindsInv, WakerKinds, RefuseUnlisted, WakerDone, AtRest
    <2>4. sweep' \in SweepKinds
      BY <1>1, Kinds DEF KindsInv, SweepKinds, EnvOK, BooksOK, RefuseUnlisted, WakerDone,
           AtRest
    <2>5. HistoryOK'
      BY <1>1 DEF KindsInv, HistoryOK, EnvOK, RefuseUnlisted, WakerDone, AtRest
    <2>. QED BY <2>1, <2>2, <2>3, <2>4, <2>5 DEF KindsInv
  <1>2. CASE RecordWake(w)
    <2>1. EnvOK'
      BY <1>2 DEF KindsInv, EnvOK, HistoryOK, States, RecordWake, TakeParker, OpenParker,
           BudgetSpent
    <2>2. BooksOK'
      <3>1. waker[w].app \in Apps
        BY DEF KindsInv, WakerKinds
      <3>2. newerWakes' = [newerWakes EXCEPT ![waker[w].app] = @ + 1]
        BY <1>2 DEF RecordWake
      <3>3. olderWakes[waker[w].app] + newerWakes[waker[w].app] < WakeBudget
        BY <1>2, <3>1 DEF RecordWake, BudgetSpent, KindsInv, BooksOK
      <3>4. olderWakes' = olderWakes /\ idle' = idle /\ awaiting' \subseteq Apps /\ failed' \subseteq Apps
        BY <1>2, <3>1 DEF RecordWake, KindsInv, BooksOK
      <3>5. /\ newerWakes' \in [Apps -> 0..WakeBudget]
            /\ \A b \in Apps : olderWakes[b] + newerWakes'[b] <= WakeBudget
        BY <3>1, <3>2, <3>3 DEF KindsInv, BooksOK
      <3>6. parked' \in [Apps -> Ports \cup {NoPort}]
        BY <1>2, Takes DEF RecordWake
      <3>. QED BY <3>4, <3>5, <3>6 DEF KindsInv, BooksOK
    <2>3. waker' \in [Wakers -> WakerKinds]
      BY <1>2, Takes DEF RecordWake
    <2>4. sweep' \in SweepKinds
      BY <1>2, Kinds DEF KindsInv, SweepKinds, EnvOK, BooksOK, RecordWake, TakeParker,
           OpenParker, BudgetSpent
    <2>5. HistoryOK'
      BY <1>2 DEF KindsInv, HistoryOK, EnvOK, RecordWake, TakeParker, OpenParker,
           BudgetSpent
    <2>. QED BY <2>1, <2>2, <2>3, <2>4, <2>5 DEF KindsInv
  <1>3. CASE RefuseWake(w)
    <2>1. EnvOK'
      BY <1>3 DEF KindsInv, EnvOK, HistoryOK, States, RefuseWake, TakeParker, OpenParker,
           BudgetSpent
    <2>2. BooksOK'
      <3>1. waker[w].app \in Apps
        BY DEF KindsInv, WakerKinds
      <3>. QED BY <1>3, <3>1, Takes DEF RefuseWake, BudgetSpent, KindsInv, BooksOK
    <2>3. waker' \in [Wakers -> WakerKinds]
      BY <1>3, Takes DEF RefuseWake
    <2>4. sweep' \in SweepKinds
      BY <1>3, Kinds DEF KindsInv, SweepKinds, EnvOK, BooksOK, RefuseWake, TakeParker,
           OpenParker, BudgetSpent
    <2>5. HistoryOK'
      BY <1>3 DEF KindsInv, HistoryOK, EnvOK, RefuseWake, TakeParker, OpenParker,
           BudgetSpent
    <2>. QED BY <2>1, <2>2, <2>3, <2>4, <2>5 DEF KindsInv
  <1>4. CASE Release(w)
    <2>1. EnvOK'
      <3>1. waker[w].app \in Apps /\ waker[w].port \in Ports \cup {NoPort}
        BY DEF KindsInv, WakerKinds
      <3>. QED BY <1>4, <3>1, Closes DEF Release, KindsInv, EnvOK, ReleaseForStart
    <2>2. BooksOK'
      BY <1>4 DEF KindsInv, BooksOK, Release, ReleaseForStart, Close, WakerAt
    <2>3. waker' \in [Wakers -> WakerKinds]
      BY <1>4, Kinds DEF KindsInv, WakerKinds, Release, ReleaseForStart, Close, WakerAt
    <2>4. sweep' \in SweepKinds
      BY <1>4, Kinds DEF KindsInv, SweepKinds, EnvOK, BooksOK, Release, ReleaseForStart,
           Close, WakerAt
    <2>5. HistoryOK'
      BY <1>4 DEF KindsInv, HistoryOK, EnvOK, Release, ReleaseForStart, Close, WakerAt
    <2>. QED BY <2>1, <2>2, <2>3, <2>4, <2>5 DEF KindsInv
  <1>5. CASE ReleaseRefused(w)
    <2>1. EnvOK'
      <3>1. waker[w].app \in Apps /\ waker[w].port \in Ports \cup {NoPort}
        BY DEF KindsInv, WakerKinds
      <3>. QED BY <1>5, <3>1, Closes DEF ReleaseRefused, KindsInv, EnvOK, ReleaseForStart
    <2>2. BooksOK'
      BY <1>5 DEF KindsInv, BooksOK, ReleaseRefused, Close, WakerDone, AtRest
    <2>3. waker' \in [Wakers -> WakerKinds]
      BY <1>5, Kinds DEF KindsInv, WakerKinds, ReleaseRefused, Close, WakerDone, AtRest
    <2>4. sweep' \in SweepKinds
      BY <1>5, Kinds DEF KindsInv, SweepKinds, EnvOK, BooksOK, ReleaseRefused, Close,
           WakerDone, AtRest
    <2>5. HistoryOK'
      BY <1>5 DEF KindsInv, HistoryOK, EnvOK, ReleaseRefused, Close, WakerDone, AtRest
    <2>. QED BY <2>1, <2>2, <2>3, <2>4, <2>5 DEF KindsInv
  <1>6. CASE Start(w)
    <2>1. EnvOK'
      BY <1>6 DEF KindsInv, EnvOK, HistoryOK, States, Start, Launched, Answered, WakerAt,
           WakerDone, AtRest, Startable, Capped
    <2>2. BooksOK'
      BY <1>6 DEF KindsInv, BooksOK, Start, Launched, Answered, WakerAt, WakerDone, AtRest,
           Startable, Capped
    <2>3. waker' \in [Wakers -> WakerKinds]
      BY <1>6, Kinds DEF KindsInv, WakerKinds, Start, Launched, Answered, WakerAt,
           WakerDone, AtRest, Startable, Capped
    <2>4. sweep' \in SweepKinds
      BY <1>6, Kinds DEF KindsInv, SweepKinds, EnvOK, BooksOK, Start, Launched, Answered,
           WakerAt, WakerDone, AtRest, Startable, Capped
    <2>5. HistoryOK'
      <3>1. waker[w].app \in Apps
        BY DEF KindsInv, WakerKinds
      <3>2. starts' \in [Apps -> 0..WakeBudget + 1]
        BY <1>6, <3>1 DEF KindsInv, HistoryOK, Start, Launched, Capped
      <3>. QED BY <1>6, <3>1, <3>2 DEF KindsInv, HistoryOK, Start, Launched
    <2>. QED BY <2>1, <2>2, <2>3, <2>4, <2>5 DEF KindsInv
  <1>7. CASE StartRaises(w)
    <2>1. EnvOK'
      BY <1>7 DEF KindsInv, EnvOK, HistoryOK, States, StartRaises, Launched, WakerDone,
           AtRest, Startable, Capped
    <2>2. BooksOK'
      <3>1. waker[w].app \in Apps
        BY DEF KindsInv, WakerKinds
      <3>. QED BY <1>7, <3>1 DEF KindsInv, BooksOK, StartRaises
    <2>3. waker' \in [Wakers -> WakerKinds]
      BY <1>7, Kinds DEF KindsInv, WakerKinds, StartRaises, Launched, WakerDone, AtRest,
           Startable, Capped
    <2>4. sweep' \in SweepKinds
      BY <1>7, Kinds DEF KindsInv, SweepKinds, EnvOK, BooksOK, StartRaises, Launched,
           WakerDone, AtRest, Startable, Capped
    <2>5. HistoryOK'
      <3>1. waker[w].app \in Apps
        BY DEF KindsInv, WakerKinds
      <3>2. starts' \in [Apps -> 0..WakeBudget + 1]
        BY <1>7, <3>1 DEF KindsInv, HistoryOK, StartRaises, Launched, Capped
      <3>. QED BY <1>7, <3>1, <3>2 DEF KindsInv, HistoryOK, StartRaises, Launched
    <2>. QED BY <2>1, <2>2, <2>3, <2>4, <2>5 DEF KindsInv
  <1>8. CASE LaunchLooks(w)
    <2>1. EnvOK'
      BY <1>8 DEF KindsInv, EnvOK, HistoryOK, States, LaunchLooks, WakerAt, WakerDone,
           AtRest
    <2>2. BooksOK'
      BY <1>8 DEF KindsInv, BooksOK, LaunchLooks, WakerAt, WakerDone, AtRest
    <2>3. waker' \in [Wakers -> WakerKinds]
      BY <1>8, Kinds DEF KindsInv, WakerKinds, LaunchLooks, WakerAt, WakerDone, AtRest
    <2>4. sweep' \in SweepKinds
      BY <1>8, Kinds DEF KindsInv, SweepKinds, EnvOK, BooksOK, LaunchLooks, WakerAt,
           WakerDone, AtRest
    <2>5. HistoryOK'
      BY <1>8 DEF KindsInv, HistoryOK, EnvOK, LaunchLooks, WakerAt, WakerDone, AtRest
    <2>. QED BY <2>1, <2>2, <2>3, <2>4, <2>5 DEF KindsInv
  <1>9. CASE LaunchConnects(w)
    <2>1. EnvOK'
      <3>1. waker[w].app \in Apps /\ port[waker[w].app] \in Ports
        BY DEF KindsInv, WakerKinds, EnvOK
      <3>. QED BY <1>9, <3>1, Closes DEF LaunchConnects, Serve, KindsInv, EnvOK
    <2>2. BooksOK'
      BY <1>9 DEF KindsInv, BooksOK, LaunchConnects, WakerAt, WakerDone, AtRest, Serve,
           Close, Calling
    <2>3. waker' \in [Wakers -> WakerKinds]
      BY <1>9, Kinds DEF KindsInv, WakerKinds, LaunchConnects, WakerAt, WakerDone, AtRest,
           Serve, Close, Calling
    <2>4. sweep' \in SweepKinds
      <3>1. sweep' = sweep \/ sweep' = [sweep EXCEPT !.release = @ \ {<<waker[w].app, port[waker[w].app]>>}]
        BY <1>9 DEF LaunchConnects, Serve
      <3>. QED BY <3>1 DEF KindsInv, SweepKinds
    <2>5. HistoryOK'
      BY <1>9 DEF KindsInv, HistoryOK, EnvOK, LaunchConnects, WakerAt, WakerDone, AtRest,
           Serve, Close, Calling
    <2>. QED BY <2>1, <2>2, <2>3, <2>4, <2>5 DEF KindsInv
  <1>. QED BY <1>1, <1>2, <1>3, <1>4, <1>5, <1>6, <1>7, <1>8, <1>9 DEF WakerStep

\* The types hold after: the programs, the pages, the registry and the clients.
LEMMA KindsWorld ==
  ASSUME KindsInv, NEW a \in Apps,
         ProgramStep(a) \/ WorldStep(a)
  PROVE  KindsInv'
  <1>1. CASE ProgramBinds(a)
    <2>1. EnvOK'
      BY <1>1 DEF KindsInv, EnvOK, HistoryOK, States, ProgramBinds, ProgramVars, Bound
    <2>2. BooksOK'
      BY <1>1 DEF KindsInv, BooksOK, ProgramBinds, ProgramVars, Bound
    <2>3. waker' \in [Wakers -> WakerKinds]
      BY <1>1, Kinds DEF KindsInv, WakerKinds, ProgramBinds, ProgramVars, Bound
    <2>4. sweep' \in SweepKinds
      BY <1>1, Kinds DEF KindsInv, SweepKinds, EnvOK, BooksOK, ProgramBinds, ProgramVars,
           Bound
    <2>5. HistoryOK'
      BY <1>1 DEF KindsInv, HistoryOK, EnvOK, ProgramBinds, ProgramVars, Bound
    <2>. QED BY <2>1, <2>2, <2>3, <2>4, <2>5 DEF KindsInv
  <1>2. CASE ProgramCollides(a)
    <2>1. EnvOK'
      BY <1>2 DEF KindsInv, EnvOK, HistoryOK, States, ProgramCollides, ProgramExits,
           ProgramVars, AppLets
    <2>2. BooksOK'
      BY <1>2 DEF KindsInv, BooksOK, ProgramCollides, ProgramExits, ProgramVars, AppLets
    <2>3. waker' \in [Wakers -> WakerKinds]
      BY <1>2, Kinds DEF KindsInv, WakerKinds, ProgramCollides, ProgramExits, ProgramVars,
           AppLets
    <2>4. sweep' \in SweepKinds
      BY <1>2, Kinds DEF KindsInv, SweepKinds, EnvOK, BooksOK, ProgramCollides,
           ProgramExits, ProgramVars, AppLets
    <2>5. HistoryOK'
      BY <1>2 DEF KindsInv, HistoryOK, EnvOK, ProgramCollides, ProgramExits, ProgramVars,
           AppLets
    <2>. QED BY <2>1, <2>2, <2>3, <2>4, <2>5 DEF KindsInv
  <1>3. CASE ProgramStays(a)
    <2>1. EnvOK'
      BY <1>3 DEF KindsInv, EnvOK, HistoryOK, States, ProgramStays, ProgramVars
    <2>2. BooksOK'
      BY <1>3 DEF KindsInv, BooksOK, ProgramStays, ProgramVars
    <2>3. waker' \in [Wakers -> WakerKinds]
      BY <1>3, Kinds DEF KindsInv, WakerKinds, ProgramStays, ProgramVars
    <2>4. sweep' \in SweepKinds
      BY <1>3, Kinds DEF KindsInv, SweepKinds, EnvOK, BooksOK, ProgramStays, ProgramVars
    <2>5. HistoryOK'
      BY <1>3 DEF KindsInv, HistoryOK, EnvOK, ProgramStays, ProgramVars
    <2>. QED BY <2>1, <2>2, <2>3, <2>4, <2>5 DEF KindsInv
  <1>4. CASE ProgramDies(a)
    <2>1. EnvOK'
      BY <1>4 DEF KindsInv, EnvOK, HistoryOK, States, ProgramDies, ProgramExits,
           ProgramVars, AppLets
    <2>2. BooksOK'
      BY <1>4 DEF KindsInv, BooksOK, ProgramDies, ProgramExits, ProgramVars, AppLets
    <2>3. waker' \in [Wakers -> WakerKinds]
      BY <1>4, Kinds DEF KindsInv, WakerKinds, ProgramDies, ProgramExits, ProgramVars,
           AppLets
    <2>4. sweep' \in SweepKinds
      BY <1>4, Kinds DEF KindsInv, SweepKinds, EnvOK, BooksOK, ProgramDies, ProgramExits,
           ProgramVars, AppLets
    <2>5. HistoryOK'
      BY <1>4 DEF KindsInv, HistoryOK, EnvOK, ProgramDies, ProgramExits, ProgramVars,
           AppLets
    <2>. QED BY <2>1, <2>2, <2>3, <2>4, <2>5 DEF KindsInv
  <1>5. CASE ProgramRetries(a)
    <2>1. EnvOK'
      BY <1>5 DEF KindsInv, EnvOK, HistoryOK, States, ProgramRetries, ProgramVars
    <2>2. BooksOK'
      BY <1>5 DEF KindsInv, BooksOK, ProgramRetries, ProgramVars
    <2>3. waker' \in [Wakers -> WakerKinds]
      BY <1>5, Kinds DEF KindsInv, WakerKinds, ProgramRetries, ProgramVars
    <2>4. sweep' \in SweepKinds
      BY <1>5, Kinds DEF KindsInv, SweepKinds, EnvOK, BooksOK, ProgramRetries, ProgramVars
    <2>5. HistoryOK'
      BY <1>5 DEF KindsInv, HistoryOK, EnvOK, ProgramRetries, ProgramVars
    <2>. QED BY <2>1, <2>2, <2>3, <2>4, <2>5 DEF KindsInv
  <1>6. CASE ProgramGivesUp(a)
    <2>1. EnvOK'
      BY <1>6 DEF KindsInv, EnvOK, HistoryOK, States, ProgramGivesUp, ProgramVars
    <2>2. BooksOK'
      BY <1>6 DEF KindsInv, BooksOK, ProgramGivesUp, ProgramVars
    <2>3. waker' \in [Wakers -> WakerKinds]
      BY <1>6, Kinds DEF KindsInv, WakerKinds, ProgramGivesUp, ProgramVars
    <2>4. sweep' \in SweepKinds
      BY <1>6, Kinds DEF KindsInv, SweepKinds, EnvOK, BooksOK, ProgramGivesUp, ProgramVars
    <2>5. HistoryOK'
      BY <1>6 DEF KindsInv, HistoryOK, EnvOK, ProgramGivesUp, ProgramVars
    <2>. QED BY <2>1, <2>2, <2>3, <2>4, <2>5 DEF KindsInv
  <1>7. CASE ProgramEnds(a)
    <2>1. EnvOK'
      BY <1>7 DEF KindsInv, EnvOK, HistoryOK, States, ProgramEnds, ProgramVars, AppLets
    <2>2. BooksOK'
      BY <1>7 DEF KindsInv, BooksOK, ProgramEnds, ProgramVars, AppLets
    <2>3. waker' \in [Wakers -> WakerKinds]
      BY <1>7, Kinds DEF KindsInv, WakerKinds, ProgramEnds, ProgramVars, AppLets
    <2>4. sweep' \in SweepKinds
      BY <1>7, Kinds DEF KindsInv, SweepKinds, EnvOK, BooksOK, ProgramEnds, ProgramVars,
           AppLets
    <2>5. HistoryOK'
      BY <1>7 DEF KindsInv, HistoryOK, EnvOK, ProgramEnds, ProgramVars, AppLets
    <2>. QED BY <2>1, <2>2, <2>3, <2>4, <2>5 DEF KindsInv
  <1>8. CASE StopApp(a)
    <2>1. EnvOK'
      BY <1>8 DEF KindsInv, EnvOK, HistoryOK, States, StopApp, ProgramVars, ToldToStop
    <2>2. BooksOK'
      BY <1>8 DEF KindsInv, BooksOK, StopApp, ProgramVars, ToldToStop
    <2>3. waker' \in [Wakers -> WakerKinds]
      BY <1>8, Kinds DEF KindsInv, WakerKinds, StopApp, ProgramVars, ToldToStop
    <2>4. sweep' \in SweepKinds
      BY <1>8, Kinds DEF KindsInv, SweepKinds, EnvOK, BooksOK, StopApp, ProgramVars,
           ToldToStop
    <2>5. HistoryOK'
      BY <1>8 DEF KindsInv, HistoryOK, EnvOK, StopApp, ProgramVars, ToldToStop
    <2>. QED BY <2>1, <2>2, <2>3, <2>4, <2>5 DEF KindsInv
  <1>9. CASE StartedByOther(a)
    <2>1. EnvOK'
      BY <1>9 DEF KindsInv, EnvOK, HistoryOK, States, StartedByOther, ProgramVars, Startable
    <2>2. BooksOK'
      BY <1>9 DEF KindsInv, BooksOK, StartedByOther, ProgramVars, Startable
    <2>3. waker' \in [Wakers -> WakerKinds]
      BY <1>9, Kinds DEF KindsInv, WakerKinds, StartedByOther, ProgramVars, Startable
    <2>4. sweep' \in SweepKinds
      BY <1>9, Kinds DEF KindsInv, SweepKinds, EnvOK, BooksOK, StartedByOther, ProgramVars,
           Startable
    <2>5. HistoryOK'
      BY <1>9 DEF KindsInv, HistoryOK, EnvOK, StartedByOther, ProgramVars, Startable
    <2>. QED BY <2>1, <2>2, <2>3, <2>4, <2>5 DEF KindsInv
  <1>10. CASE ShowApp(a)
    <2>1. EnvOK'
      BY <1>10 DEF KindsInv, EnvOK, HistoryOK, States, ShowApp
    <2>2. BooksOK'
      BY <1>10 DEF KindsInv, BooksOK, ShowApp
    <2>3. waker' \in [Wakers -> WakerKinds]
      BY <1>10, Kinds DEF KindsInv, WakerKinds, ShowApp
    <2>4. sweep' \in SweepKinds
      BY <1>10, Kinds DEF KindsInv, SweepKinds, EnvOK, BooksOK, ShowApp
    <2>5. HistoryOK'
      BY <1>10 DEF KindsInv, HistoryOK, EnvOK, ShowApp
    <2>. QED BY <2>1, <2>2, <2>3, <2>4, <2>5 DEF KindsInv
  <1>11. CASE HideApp(a)
    <2>1. EnvOK'
      BY <1>11 DEF KindsInv, EnvOK, HistoryOK, States, HideApp
    <2>2. BooksOK'
      BY <1>11 DEF KindsInv, BooksOK, HideApp
    <2>3. waker' \in [Wakers -> WakerKinds]
      BY <1>11, Kinds DEF KindsInv, WakerKinds, HideApp
    <2>4. sweep' \in SweepKinds
      BY <1>11, Kinds DEF KindsInv, SweepKinds, EnvOK, BooksOK, HideApp
    <2>5. HistoryOK'
      BY <1>11 DEF KindsInv, HistoryOK, EnvOK, HideApp
    <2>. QED BY <2>1, <2>2, <2>3, <2>4, <2>5 DEF KindsInv
  <1>12. CASE Reregister(a)
    <2>1. EnvOK'
      BY <1>12 DEF KindsInv, EnvOK, HistoryOK, States, Reregister
    <2>2. BooksOK'
      BY <1>12 DEF KindsInv, BooksOK, Reregister
    <2>3. waker' \in [Wakers -> WakerKinds]
      BY <1>12, Kinds DEF KindsInv, WakerKinds, Reregister
    <2>4. sweep' \in SweepKinds
      BY <1>12, Kinds DEF KindsInv, SweepKinds, EnvOK, BooksOK, Reregister
    <2>5. HistoryOK'
      BY <1>12 DEF KindsInv, HistoryOK, EnvOK, Reregister
    <2>. QED BY <2>1, <2>2, <2>3, <2>4, <2>5 DEF KindsInv
  <1>13. CASE Unlist(a)
    <2>1. EnvOK'
      BY <1>13 DEF KindsInv, EnvOK, HistoryOK, States, Unlist
    <2>2. BooksOK'
      BY <1>13 DEF KindsInv, BooksOK, Unlist
    <2>3. waker' \in [Wakers -> WakerKinds]
      BY <1>13, Kinds DEF KindsInv, WakerKinds, Unlist
    <2>4. sweep' \in SweepKinds
      BY <1>13, Kinds DEF KindsInv, SweepKinds, EnvOK, BooksOK, Unlist
    <2>5. HistoryOK'
      BY <1>13 DEF KindsInv, HistoryOK, EnvOK, Unlist
    <2>. QED BY <2>1, <2>2, <2>3, <2>4, <2>5 DEF KindsInv
  <1>14. CASE Relist(a)
    <2>1. EnvOK'
      BY <1>14 DEF KindsInv, EnvOK, HistoryOK, States, Relist
    <2>2. BooksOK'
      BY <1>14 DEF KindsInv, BooksOK, Relist
    <2>3. waker' \in [Wakers -> WakerKinds]
      BY <1>14, Kinds DEF KindsInv, WakerKinds, Relist
    <2>4. sweep' \in SweepKinds
      BY <1>14, Kinds DEF KindsInv, SweepKinds, EnvOK, BooksOK, Relist
    <2>5. HistoryOK'
      BY <1>14 DEF KindsInv, HistoryOK, EnvOK, Relist
    <2>. QED BY <2>1, <2>2, <2>3, <2>4, <2>5 DEF KindsInv
  <1>15. CASE BudgetPasses(a)
    <2>1. EnvOK'
      BY <1>15 DEF KindsInv, EnvOK, HistoryOK, States, BudgetPasses, ForgetWakes
    <2>2. BooksOK'
      BY <1>15 DEF KindsInv, BooksOK, BudgetPasses, ForgetWakes
    <2>3. waker' \in [Wakers -> WakerKinds]
      BY <1>15, Kinds DEF KindsInv, WakerKinds, BudgetPasses, ForgetWakes
    <2>4. sweep' \in SweepKinds
      BY <1>15, Kinds DEF KindsInv, SweepKinds, EnvOK, BooksOK, BudgetPasses, ForgetWakes
    <2>5. HistoryOK'
      BY <1>15 DEF KindsInv, HistoryOK, EnvOK, BudgetPasses, ForgetWakes
    <2>. QED BY <2>1, <2>2, <2>3, <2>4, <2>5 DEF KindsInv
  <1>16. ASSUME NEW w \in Wakers, NEW p \in Ports, Accept(w, a, p) PROVE KindsInv'
    <2>1. EnvOK'
      BY <1>16 DEF KindsInv, EnvOK, HistoryOK, States, Accept, Serve, Close, Calling
    <2>2. BooksOK'
      BY <1>16 DEF KindsInv, BooksOK, Accept, Serve, Close, Calling
    <2>3. waker' \in [Wakers -> WakerKinds]
      BY <1>16, Kinds DEF KindsInv, WakerKinds, Accept, Serve, Close, Calling
    <2>4. sweep' \in SweepKinds
      BY <1>16, Kinds DEF KindsInv, SweepKinds, EnvOK, BooksOK, Accept, Serve, Close,
           Calling
    <2>5. HistoryOK'
      BY <1>16 DEF KindsInv, HistoryOK, EnvOK, Accept, Serve, Close, Calling
    <2>. QED BY <2>1, <2>2, <2>3, <2>4, <2>5 DEF KindsInv
  <1>17. ASSUME NEW w \in Wakers, NEW for \in {"route", "launch"}, AskForApp(w, a, for)
         PROVE  KindsInv'
    <2>1. EnvOK'
      BY <1>17 DEF KindsInv, EnvOK, HistoryOK, States, AskForApp, Calling
    <2>2. BooksOK'
      BY <1>17 DEF KindsInv, BooksOK, AskForApp, Calling
    <2>3. waker' \in [Wakers -> WakerKinds]
      BY <1>17, Kinds DEF KindsInv, WakerKinds, AskForApp, Calling
    <2>4. sweep' \in SweepKinds
      BY <1>17, Kinds DEF KindsInv, SweepKinds, EnvOK, BooksOK, AskForApp, Calling
    <2>5. HistoryOK'
      BY <1>17 DEF KindsInv, HistoryOK, EnvOK, AskForApp, Calling
    <2>. QED BY <2>1, <2>2, <2>3, <2>4, <2>5 DEF KindsInv
  <1>. QED BY <1>1, <1>2, <1>3, <1>4, <1>5, <1>6, <1>7, <1>8, <1>9, <1>10, <1>11, <1>12,
       <1>13, <1>14, <1>15, <1>16, <1>17 DEF ProgramStep, WorldStep

\* The types hold after: the clocks and a restart.
LEMMA KindsOther ==
  ASSUME KindsInv,
         GracePasses \/ MarkVisited \/ Restart \/ UNCHANGED vars
  PROVE  KindsInv'
  <1>1. CASE GracePasses
    <2>1. EnvOK'
      BY <1>1 DEF KindsInv, EnvOK, HistoryOK, States, GracePasses
    <2>2. BooksOK'
      BY <1>1 DEF KindsInv, BooksOK, GracePasses
    <2>3. waker' \in [Wakers -> WakerKinds]
      BY <1>1, Kinds DEF KindsInv, WakerKinds, GracePasses
    <2>4. sweep' \in SweepKinds
      BY <1>1, Kinds DEF KindsInv, SweepKinds, EnvOK, BooksOK, GracePasses
    <2>5. HistoryOK'
      BY <1>1 DEF KindsInv, HistoryOK, EnvOK, GracePasses
    <2>. QED BY <2>1, <2>2, <2>3, <2>4, <2>5 DEF KindsInv
  <1>2. CASE MarkVisited
    <2>1. EnvOK'
      BY <1>2 DEF KindsInv, EnvOK, HistoryOK, States, MarkVisited
    <2>2. BooksOK'
      BY <1>2 DEF KindsInv, BooksOK, MarkVisited
    <2>3. waker' \in [Wakers -> WakerKinds]
      BY <1>2, Kinds DEF KindsInv, WakerKinds, MarkVisited
    <2>4. sweep' \in SweepKinds
      BY <1>2, Kinds DEF KindsInv, SweepKinds, EnvOK, BooksOK, MarkVisited
    <2>5. HistoryOK'
      BY <1>2 DEF KindsInv, HistoryOK, EnvOK, MarkVisited
    <2>. QED BY <2>1, <2>2, <2>3, <2>4, <2>5 DEF KindsInv
  <1>3. CASE Restart
    <2>1. EnvOK'
      BY <1>3 DEF KindsInv, EnvOK, HistoryOK, States, Restart, NoPass, AtRest
    <2>2. BooksOK'
      BY <1>3 DEF KindsInv, BooksOK, Restart, NoPass, AtRest
    <2>3. waker' \in [Wakers -> WakerKinds]
      BY <1>3, Kinds DEF KindsInv, WakerKinds, Restart, NoPass, AtRest
    <2>4. sweep' \in SweepKinds
      BY <1>3, Kinds DEF KindsInv, SweepKinds, EnvOK, BooksOK, Restart, NoPass, AtRest
    <2>5. HistoryOK'
      BY <1>3 DEF KindsInv, HistoryOK, EnvOK, Restart, NoPass, AtRest
    <2>. QED BY <2>1, <2>2, <2>3, <2>4, <2>5 DEF KindsInv
  <1>4. CASE UNCHANGED vars
    <2>1. EnvOK'
      BY <1>4 DEF KindsInv, EnvOK, HistoryOK, States, vars, envVars, bookVars, historyVars,
           boundVars
    <2>2. BooksOK'
      BY <1>4 DEF KindsInv, BooksOK, vars, envVars, bookVars, historyVars, boundVars
    <2>3. waker' \in [Wakers -> WakerKinds]
      BY <1>4, Kinds DEF KindsInv, WakerKinds, vars, envVars, bookVars, historyVars,
           boundVars
    <2>4. sweep' \in SweepKinds
      BY <1>4, Kinds DEF KindsInv, SweepKinds, EnvOK, BooksOK, vars, envVars, bookVars,
           historyVars, boundVars
    <2>5. HistoryOK'
      BY <1>4 DEF KindsInv, HistoryOK, EnvOK, vars, envVars, bookVars, historyVars,
           boundVars
    <2>. QED BY <2>1, <2>2, <2>3, <2>4, <2>5 DEF KindsInv
  <1>. QED BY <1>1, <1>2, <1>3, <1>4

\* The types hold in every state the model reaches.
LEMMA KindsStep ==
  ASSUME KindsInv, [Next]_vars
  PROVE  KindsInv'
  BY KindsSweep, KindsWaker, KindsWorld, KindsOther DEF Next

-------------------------------------------------------------------------------
(* What the programs, the pages and the registry leave alone.                 *)

\* supervisord, its programs, the pages and the registry touch no listener of the
\* shell, no waking thread and no pass of the sweep.
LEMMA WorldQuiet ==
  ASSUME KindsInv, NEW a \in Apps,
         \/ ProgramStep(a) \/ StopApp(a) \/ StartedByOther(a) \/ ShowApp(a) \/ HideApp(a)
         \/ Reregister(a) \/ Unlist(a) \/ Relist(a) \/ BudgetPasses(a)
  PROVE  /\ UNCHANGED <<waker, sweep, parked, newerWakes>>
         /\ \A b \in Apps, p \in Ports : Listening(b, p)' <=> Listening(b, p)
  <1>1. UNCHANGED <<waker, sweep, parked, newerWakes>>
    BY DEF ProgramStep, ProgramBinds, ProgramCollides, ProgramStays, ProgramDies,
           ProgramRetries, ProgramGivesUp, ProgramEnds, ProgramExits, ProgramVars, StopApp,
           StartedByOther, ShowApp, HideApp, Reregister, Unlist, Relist, BudgetPasses
  <1>2. CASE ProgramBinds(a)
    <2>1. holder[a][port[a]] = "free" /\ holder' = [holder EXCEPT ![a][port[a]] = "app"]
      BY <1>2 DEF ProgramBinds
    <2>2. port[a] \in Ports
      BY DEF KindsInv, EnvOK
    <2>. QED BY <1>1, <2>1, <2>2 DEF KindsInv, EnvOK
  <1>3. CASE holder' = [holder EXCEPT ![a] = AppLets(a)]
    BY <1>1, <1>3 DEF AppLets, KindsInv, EnvOK
  <1>4. CASE UNCHANGED holder
    BY <1>1, <1>4
  <1>5. ProgramBinds(a) \/ holder' = [holder EXCEPT ![a] = AppLets(a)] \/ UNCHANGED holder
    BY DEF ProgramStep, ProgramCollides, ProgramStays, ProgramDies, ProgramRetries,
           ProgramGivesUp, ProgramEnds, ProgramExits, ProgramVars, StopApp, StartedByOther,
           ShowApp, HideApp, Reregister, Unlist, Relist, BudgetPasses
  <1>. QED BY <1>2, <1>3, <1>4, <1>5

\* A connection to a held port closes its listener, and no other; a thread that was to
\* close it has nothing left to close.
LEMMA Serves ==
  ASSUME KindsInv, NEW w \in Wakers, NEW a \in Apps, NEW p \in Ports, Serve(w, a, p)
  PROVE  /\ \A b \in Apps, q \in Ports :
              Listening(b, q)' <=> Listening(b, q) /\ <<b, q>> # <<a, p>>
         /\ waker'[w] = Calling(a, "page")
         /\ \A v \in Wakers \ {w} :
              waker'[v] = IF waker[v].app = a /\ waker[v].port = p
                          THEN [waker[v] EXCEPT !.port = NoPort] ELSE waker[v]
         /\ sweep' = [sweep EXCEPT !.release = sweep.release \ {<<a, p>>}]
  <1>1. \A b \in Apps, q \in Ports :
          Listening(b, q)' <=> Listening(b, q) /\ <<b, q>> # <<a, p>>
    BY Closes DEF Serve, KindsInv
  <1>. QED BY <1>1 DEF Serve

\* A thread that closes the listener it took off the books closes no other.
LEMMA Lets ==
  ASSUME KindsInv, NEW w \in Wakers, Release(w) \/ ReleaseRefused(w)
  PROVE  /\ \A b \in Apps, q \in Ports :
              Listening(b, q)' <=> Listening(b, q) /\ <<b, q>> # <<waker[w].app, waker[w].port>>
         /\ UNCHANGED <<parked, sweep, newerWakes>>
         /\ waker'[w].pc \in {"start", "idle"}
         /\ waker[w].pc = "release" => waker'[w].pc = "start" /\ waker'[w].app = waker[w].app
         /\ waker[w].pc = "refused" => waker'[w].pc = "idle"
         /\ waker[w].pc \in {"release", "refused"}
         /\ \A v \in Wakers \ {w} : waker'[v] = waker[v]
  <1>1. waker[w].app \in Apps /\ waker[w].port \in Ports \cup {NoPort}
    BY DEF KindsInv, WakerKinds
  <1>2. \A b \in Apps, q \in Ports :
          Listening(b, q)' <=> Listening(b, q) /\ <<b, q>> # <<waker[w].app, waker[w].port>>
    BY <1>1, Closes DEF Release, ReleaseRefused, ReleaseForStart, KindsInv
  <1>3. UNCHANGED <<parked, sweep, newerWakes>>
    BY DEF Release, ReleaseRefused
  <1>4. CASE Release(w)
    BY <1>2, <1>3, <1>4 DEF Release, ReleaseForStart, WakerAt, KindsInv, WakerKinds
  <1>5. CASE ReleaseRefused(w)
    BY <1>2, <1>3, <1>5 DEF ReleaseRefused, WakerDone, AtRest, KindsInv, WakerKinds
  <1>. QED BY <1>4, <1>5

\* The sweep closes what it has to release, and nothing else.
LEMMA SweepLets ==
  ASSUME KindsInv, SweepReleases
  PROVE  /\ \A b \in Apps, q \in Ports :
              Listening(b, q)' <=> Listening(b, q) /\ <<b, q>> \notin sweep.release
         /\ sweep' \in SweepKinds /\ sweep'.release = {} /\ sweep'.app = sweep.app
         /\ sweep'.pc \in {"rule", "next", "park", "idle"}
         /\ sweep'.pc = "park" <=> sweep.pc = "downRelease"
         /\ sweep'.pc = "idle" <=> sweep.pc = "endRelease"
         /\ sweep'.todo = sweep.todo /\ sweep'.pass = sweep.pass
         /\ sweep'.reading = sweep.reading
  <1>1. \A b \in Apps, q \in Ports :
          Listening(b, q)' <=> Listening(b, q) /\ <<b, q>> \notin sweep.release
    BY DEF SweepReleases, KindsInv, EnvOK
  <1>2. PICK pc \in {"rule", "next", "park", "idle"} :
          /\ sweep' = [sweep EXCEPT !.release = {}, !.pc = pc]
          /\ pc = "park" <=> sweep.pc = "downRelease"
          /\ pc = "idle" <=> sweep.pc = "endRelease"
    BY DEF SweepReleases, Rule
  <1>. QED BY <1>1, <1>2 DEF KindsInv, SweepKinds

\* The sweep puts a port on the books as it binds it, and only a free one.
LEMMA SweepParked ==
  ASSUME KindsInv, SweepParks
  PROVE  \/ UNCHANGED <<holder, parked>>
         \/ LET a == sweep.app  q == sweep.rows[a] IN
            /\ ~Listening(a, q)
            /\ parked' = [parked EXCEPT ![a] = q]
            /\ \A b \in Apps, p \in Ports : Listening(b, p)' <=> Listening(b, p) \/ <<b, p>> = <<a, q>>
  <1>1. sweep.app \in Apps /\ sweep.rows[sweep.app] \in Ports
    BY DEF KindsInv, SweepKinds
  <1> DEFINE a == sweep.app
             q == sweep.rows[sweep.app]
             row == [holder[a] EXCEPT ![q] = "shell"]
  <1>2. CASE holder[a][q] = "free"
    <2>1. holder' = [holder EXCEPT ![a] = row] /\ parked' = [parked EXCEPT ![a] = q]
      BY <1>2 DEF SweepParks, OnTheBooks
    <2>. QED BY <1>1, <1>2, <2>1 DEF KindsInv, EnvOK
  <1>3. CASE holder[a][q] # "free"
    BY <1>3 DEF SweepParks
  <1>. QED BY <1>2, <1>3

\* Most of what the sweep does, it does without a listener or the books.
LEMMA SweepQuiet ==
  ASSUME KindsInv,
         \/ SweepBegins \/ SweepReads \/ SweepCounts \/ SweepDecides \/ SweepStops
         \/ \E a \in Apps : SweepFindsDown(a)
  PROVE  /\ UNCHANGED <<waker, holder, parked>> /\ sweep'.release = sweep.release
         /\ sweep.pc \in {"idle", "read", "next", "rule", "decide", "stop"}
         /\ sweep'.pc \in {"read", "next", "decide", "stop", "outcome"}
  <1>1. CASE SweepBegins \/ SweepReads \/ SweepDecides \/ SweepStops
    BY <1>1 DEF SweepBegins, SweepReads, SweepDecides, SweepStops, SweepAt, KindsInv, SweepKinds
  <1>2. CASE SweepCounts
    BY <1>2 DEF SweepCounts, KindsInv, SweepKinds
  <1>3. CASE \E a \in Apps : SweepFindsDown(a)
    BY <1>3 DEF SweepFindsDown, KindsInv, SweepKinds
  <1>. QED BY <1>1, <1>2, <1>3

\* An app that is up, and one that is not where its row says, leave the books, and
\* the sweep is to close what was open of them.
LEMMA SweepTakes ==
  ASSUME KindsInv,
         \/ \E a \in Apps : SweepFindsUp(a) /\ sweep'.app = a
         \/ SweepNotesOutcome /\ ~ParkedWhereItIs(sweep.app)
  PROVE  LET a == sweep'.app IN
         /\ a \in Apps /\ UNCHANGED <<waker, holder, newerWakes>>
         /\ parked' = [parked EXCEPT ![a] = NoPort]
         /\ sweep'.release = {<<a, OpenParker(a)>>} \ {<<a, NoPort>>}
         /\ sweep.pc \in {"next", "outcome"}
         /\ sweep'.pc \in {"next", "rule", "upRelease", "park", "downRelease"}
         /\ parked[a] # NoPort <=> sweep'.pc \in {"upRelease", "downRelease"}
  <1>1. CASE \E a \in Apps : SweepFindsUp(a) /\ sweep'.app = a
    <2>1. PICK a \in Apps : SweepFindsUp(a) /\ sweep'.app = a
      BY <1>1
    <2>2. PICK pc \in {"next", "rule", "upRelease"} :
            /\ sweep' = [sweep EXCEPT !.app = a, !.todo = @ \ {a}, !.pc = pc,
                           !.release = {<<a, OpenParker(a)>>} \ {<<a, NoPort>>}]
            /\ parked[a] # NoPort <=> pc = "upRelease"
      BY <2>1 DEF SweepFindsUp, Rule
    <2>3. sweep'.release = {<<a, OpenParker(a)>>} \ {<<a, NoPort>>} /\ sweep'.pc = pc
      BY <2>2 DEF KindsInv, SweepKinds
    <2>. QED BY <2>1, <2>2, <2>3 DEF SweepFindsUp
  <1>2. CASE SweepNotesOutcome /\ ~ParkedWhereItIs(sweep.app)
    <2> DEFINE a == sweep.app
    <2>1. PICK pc \in {"park", "downRelease"} :
            /\ sweep' = [sweep EXCEPT !.pc = pc,
                           !.release = {<<a, OpenParker(a)>>} \ {<<a, NoPort>>}]
            /\ parked[a] # NoPort <=> pc = "downRelease"
      BY <1>2 DEF SweepNotesOutcome
    <2>2. /\ sweep'.release = {<<a, OpenParker(a)>>} \ {<<a, NoPort>>} /\ sweep'.pc = pc
          /\ sweep'.app = a /\ a \in Apps
      BY <2>1 DEF KindsInv, SweepKinds
    <2>. QED BY <1>2, <2>1, <2>2 DEF SweepNotesOutcome
  <1>. QED BY <1>1, <1>2

\* A thread that refuses, starts the program, or waits for its port touches no listener.
LEMMA WakerQuiet ==
  ASSUME KindsInv, NEW w \in Wakers,
         \/ RefuseUnlisted(w) \/ Start(w) \/ StartRaises(w) \/ LaunchLooks(w)
         \/ LaunchConnects(w) /\ UNCHANGED holder
  PROVE  /\ UNCHANGED <<holder, parked, newerWakes>> /\ sweep' = sweep
         /\ waker[w].pc \in {"called", "start", "poll", "connect"}
         /\ waker[w].pc = "called" => waker[w].app \notin listed
         /\ waker'[w].pc \in {"idle", "poll", "connect"}
         /\ \A v \in Wakers \ {w} : waker'[v] = waker[v]
  <1>1. /\ UNCHANGED <<holder, parked, newerWakes>>
        /\ waker[w].pc \in {"called", "start", "poll", "connect"}
        /\ waker[w].pc = "called" => waker[w].app \notin listed
    BY DEF RefuseUnlisted, Start, StartRaises, LaunchLooks, LaunchConnects
  <1>2. sweep' = sweep /\ \E pc \in {"poll", "connect"} : WakerDone(w) \/ WakerAt(w, pc)
    <2>1. CASE LaunchConnects(w) /\ UNCHANGED holder
      <3>1. waker[w].app \in Apps /\ port[waker[w].app] \in Ports
        BY DEF KindsInv, WakerKinds, EnvOK
      <3>2. ~Serve(w, waker[w].app, port[waker[w].app]) \/ ~Listening(waker[w].app, port[waker[w].app])
        BY <2>1, <3>1, Serves
      <3>. QED BY <2>1, <3>2 DEF LaunchConnects
    <2>2. CASE RefuseUnlisted(w) \/ Start(w) \/ StartRaises(w) \/ LaunchLooks(w)
      BY <2>2 DEF RefuseUnlisted, Start, StartRaises, LaunchLooks, Answered
    <2>. QED BY <2>1, <2>2
  <1>3. waker' = [waker EXCEPT ![w] = AtRest] \/ \E pc \in {"poll", "connect"} : waker' = [waker EXCEPT ![w].pc = pc]
    BY <1>2 DEF WakerDone, WakerAt
  <1>4. waker'[w].pc \in {"idle", "poll", "connect"} /\ \A v \in Wakers \ {w} : waker'[v] = waker[v]
    BY <1>3, Kinds DEF KindsInv, WakerKinds
  <1>. QED BY <1>1, <1>2, <1>4

\* A launch that reaches a held port is served like any other connection.
LEMMA Connects ==
  ASSUME KindsInv, NEW w \in Wakers, LaunchConnects(w), holder' # holder
  PROVE  /\ waker[w].pc = "connect" /\ parked' = parked /\ newerWakes' = newerWakes
         /\ waker[w].app \in Apps /\ port[waker[w].app] \in Ports
         /\ Serve(w, waker[w].app, port[waker[w].app])
  BY DEF LaunchConnects, KindsInv, WakerKinds, EnvOK

\* The pass that is under way, without what it has to release.
Pass == <<sweep.pc, sweep.app, sweep.todo, sweep.pass, sweep.reading, sweep.rows,
          sweep.counted, sweep.windows>>

\* Serving a connection leaves the pass alone.
LEMMA ServesPass ==
  ASSUME KindsInv, NEW w \in Wakers, NEW a \in Apps, NEW p \in Ports, Serve(w, a, p)
  PROVE  Pass' = Pass
  <1>1. sweep' = [sweep EXCEPT !.release = sweep.release \ {<<a, p>>}]
    BY DEF Serve
  <1>. QED BY <1>1 DEF Pass, KindsInv, SweepKinds

\* The waking threads, and the clients they serve, leave the pass alone, and what the
\* no-window rule counts.
LEMMA WakerPass ==
  ASSUME KindsInv, NEW w \in Wakers,
         \/ WakerStep(w)
         \/ \E a \in Apps : \/ \E p \in Ports : Accept(w, a, p)
                            \/ \E for \in {"route", "launch"} : AskForApp(w, a, for)
  PROVE  Pass' = Pass /\ UNCHANGED <<shown, watched, graced, idle, listed>>
  <1>1. UNCHANGED <<shown, watched, graced, idle, listed>>
    BY DEF WakerStep, RefuseUnlisted, RecordWake, RefuseWake, Release, ReleaseRefused, Start,
           StartRaises, LaunchLooks, LaunchConnects, Accept, AskForApp
  <1>2. CASE sweep' = sweep
    BY <1>1, <1>2 DEF Pass
  <1>3. CASE LaunchConnects(w) /\ holder' # holder
    BY <1>1, <1>3, Connects, ServesPass
  <1>4. CASE \E a \in Apps, p \in Ports : Accept(w, a, p)
    BY <1>1, <1>4, ServesPass DEF Accept
  <1>5. LaunchConnects(w) /\ holder' = holder => sweep' = sweep
    BY WakerQuiet
  <1>. QED BY <1>1, <1>2, <1>3, <1>4, <1>5 DEF WakerStep, RefuseUnlisted, RecordWake, RefuseWake,
              Release, ReleaseRefused, Start, StartRaises, LaunchLooks, AskForApp

\* A connection that is served leaves every other waking thread where it is.
LEMMA ServesWakers ==
  ASSUME KindsInv, NEW w \in Wakers, NEW a \in Apps, NEW p \in Ports, Serve(w, a, p)
  PROVE  /\ waker'[w].pc = "called"
         /\ \A v \in Wakers \ {w} : waker'[v].pc = waker[v].pc /\ waker'[v].app = waker[v].app
  <1>1. /\ waker'[w] = Calling(a, "page")
        /\ \A v \in Wakers \ {w} :
              waker'[v] = IF waker[v].app = a /\ waker[v].port = p
                          THEN [waker[v] EXCEPT !.port = NoPort] ELSE waker[v]
    BY Serves
  <1>2. ASSUME NEW v \in Wakers \ {w}
        PROVE  waker'[v].pc = waker[v].pc /\ waker'[v].app = waker[v].app
    <2>1. waker[v] \in WakerKinds
      BY <1>2 DEF KindsInv
    <2>2. waker'[v] = waker[v] \/ waker'[v] = [waker[v] EXCEPT !.port = NoPort]
      BY <1>1, <1>2
    <2>. QED BY <2>1, <2>2 DEF WakerKinds
  <1>. QED BY <1>1, <1>2 DEF Calling

-------------------------------------------------------------------------------
(* Every listener is on the books, or about to be closed.                     *)

\* The sweep releases nothing but what it has just taken off the books, and has
\* nothing of an app on the books when it parks its port.
ReleasePcs == {"upRelease", "downRelease", "endRelease"}
StrayInv ==
    /\ NoStrayListener
    /\ sweep.pc \notin ReleasePcs => sweep.release = {}
    /\ sweep.pc \in {"downRelease", "park"} => parked[sweep.app] = NoPort

\* Serving a connection leaves no listener behind.
LEMMA StrayServes ==
  ASSUME KindsInv, StrayInv, NEW w \in Wakers, NEW a \in Apps, NEW q \in Ports,
         waker[w].pc \in {"idle", "connect"}, Serve(w, a, q), parked' = parked
  PROVE  StrayInv'
  <1>1. /\ \A b \in Apps, p \in Ports : Listening(b, p)' <=> Listening(b, p) /\ <<b, p>> # <<a, q>>
        /\ \A v \in Wakers \ {w} :
              waker'[v] = IF waker[v].app = a /\ waker[v].port = q
                          THEN [waker[v] EXCEPT !.port = NoPort] ELSE waker[v]
        /\ sweep' = [sweep EXCEPT !.release = sweep.release \ {<<a, q>>}]
    BY Serves
  <1>2. sweep'.release = sweep.release \ {<<a, q>>} /\ sweep'.pc = sweep.pc /\ sweep'.app = sweep.app
    BY <1>1 DEF KindsInv, SweepKinds
  <1>3. ASSUME NEW c \in Apps, NEW p \in Ports, Listening(c, p)'
        PROVE  parked'[c] = p \/ BeingReleased(c, p)'
    <2>1. Listening(c, p) /\ <<c, p>> # <<a, q>> /\ (parked[c] = p \/ BeingReleased(c, p))
      BY <1>1, <1>3 DEF StrayInv, NoStrayListener
    <2>2. CASE <<c, p>> \in sweep.release
      BY <1>2, <2>1, <2>2 DEF BeingReleased
    <2>3. ASSUME NEW v \in Wakers, waker[v].pc \in {"release", "refused"}, waker[v].app = c,
                 waker[v].port = p
          PROVE  BeingReleased(c, p)'
      <3>1. v # w /\ waker'[v] = waker[v]
        BY <1>1, <2>1, <2>3
      <3>. QED BY <2>3, <3>1 DEF BeingReleased
    <2>. QED BY <2>1, <2>2, <2>3 DEF BeingReleased
  <1>. QED BY <1>2, <1>3 DEF StrayInv, NoStrayListener

\* The books hold after: a step of the sweep.
LEMMA StraySweep ==
  ASSUME KindsInv, KindsInv', StrayInv,
         SweepStep
  PROVE  StrayInv'
  <1>1. CASE \/ SweepBegins \/ SweepReads \/ SweepCounts \/ SweepDecides \/ SweepStops
    BY <1>1, SweepQuiet DEF StrayInv, NoStrayListener, BeingReleased, ReleasePcs, Listening
  <1>2. CASE SweepReleases
    <2>1. UNCHANGED <<waker, parked>>
      BY <1>2 DEF SweepReleases
    <2>. QED BY <1>2, <2>1, SweepLets DEF StrayInv, NoStrayListener, BeingReleased, ReleasePcs
  <1>3. CASE SweepNotesOutcome
    <2>1. sweep.release = {} /\ sweep.pc = "outcome" /\ sweep.app \in Apps
      BY <1>3 DEF SweepNotesOutcome, StrayInv, ReleasePcs, KindsInv, SweepKinds
    <2>2. CASE ParkedWhereItIs(sweep.app)
      <3>1. UNCHANGED <<parked, waker, holder>> /\ sweep'.release = {} /\ sweep'.pc = "next"
        BY <1>3, <2>1, <2>2 DEF SweepNotesOutcome, SweepAt, KindsInv, SweepKinds
      <3>. QED BY <2>1, <3>1 DEF StrayInv, NoStrayListener, BeingReleased, ReleasePcs
    <2>3. CASE ~ParkedWhereItIs(sweep.app)
      <3> DEFINE b == sweep'.app
      <3>1. /\ b \in Apps /\ UNCHANGED <<waker, holder>> /\ parked' = [parked EXCEPT ![b] = NoPort]
            /\ sweep'.release = {<<b, OpenParker(b)>>} \ {<<b, NoPort>>}
            /\ parked[b] # NoPort <=> sweep'.pc \in {"upRelease", "downRelease"}
            /\ sweep'.pc # "endRelease"
        BY <1>3, <2>3, SweepTakes
      <3>2. /\ OpenParker(b) \in Ports => OpenParker(b) = parked[b] /\ Listening(b, parked[b])
            /\ OpenParker(b) = NoPort => parked[b] = NoPort \/ ~Listening(b, parked[b])
            /\ OpenParker(b) \in Ports \cup {NoPort}
        BY <3>1, Taken DEF KindsInv
      <3>. QED BY <2>1, <3>1, <3>2 DEF StrayInv, NoStrayListener, BeingReleased, ReleasePcs,
                  KindsInv, BooksOK
    <2>. QED BY <2>2, <2>3
  <1>4. CASE SweepParks
    <2>1. /\ sweep.release = {} /\ sweep'.release = {} /\ sweep'.pc = "next" /\ sweep.pc = "park"
          /\ sweep.app \in Apps /\ parked[sweep.app] = NoPort /\ waker' = waker
      BY <1>4 DEF SweepParks, SweepAt, StrayInv, ReleasePcs, KindsInv, SweepKinds
    <2>. QED BY <1>4, <2>1, SweepParked DEF StrayInv, NoStrayListener, BeingReleased, ReleasePcs,
                KindsInv, BooksOK
  <1>5. CASE SweepEnds
    <2>1. /\ sweep.release = {} /\ waker' = waker /\ holder' = holder
          /\ parked' = [a \in Apps |-> IF a \in sweep.pass THEN parked[a] ELSE NoPort]
      BY <1>5 DEF SweepEnds, StrayInv, ReleasePcs
    <2>2. /\ sweep'.release = {<<b, OpenParker(b)>> : b \in Beyond(sweep.pass)}
          /\ sweep'.pc = IF Beyond(sweep.pass) = {} THEN "idle" ELSE "endRelease"
      BY <1>5, Kinds DEF SweepEnds, NoPass
    <2>3. ASSUME NEW c \in Apps, NEW p \in Ports, Listening(c, p)'
          PROVE  parked'[c] = p \/ BeingReleased(c, p)'
      <3>1. parked[c] = p \/ BeingReleased(c, p)
        BY <2>1, <2>3 DEF StrayInv, NoStrayListener
      <3>2. CASE c \notin sweep.pass /\ parked[c] = p
        <4>1. OpenParker(c) = p /\ p # NoPort
          BY <2>1, <2>3, <3>2 DEF OpenParker
        <4>. QED BY <2>2, <3>2, <4>1 DEF Beyond, BeingReleased
      <3>3. CASE c \in sweep.pass \/ parked[c] # p
        BY <2>1, <3>1, <3>3 DEF BeingReleased
      <3>. QED BY <3>2, <3>3
    <2>. QED BY <2>2, <2>3 DEF StrayInv, NoStrayListener, ReleasePcs
  <1>6. ASSUME NEW b \in Apps, SweepFindsUp(b) PROVE StrayInv'
    <2>1. sweep'.app = b
      BY <1>6 DEF SweepFindsUp, KindsInv, SweepKinds
    <2>2. sweep.release = {} /\ OpenParker(b) \in Ports \cup {NoPort}
      BY <1>6, Taken DEF SweepFindsUp, StrayInv, ReleasePcs, KindsInv
    <2>3. parked' = [parked EXCEPT ![b] = NoPort] /\ UNCHANGED <<waker, holder>>
      BY <1>6, <2>1, SweepTakes
    <2>4. sweep'.release = {<<b, OpenParker(b)>>} \ {<<b, NoPort>>}
      BY <1>6, <2>1, SweepTakes
    <2>. QED BY <1>6, <2>1, <2>2, <2>3, <2>4, SweepTakes, Taken DEF StrayInv, NoStrayListener,
                BeingReleased, ReleasePcs, KindsInv, BooksOK
  <1>7. ASSUME NEW b \in Apps, SweepFindsDown(b) PROVE StrayInv'
    BY <1>7, SweepQuiet DEF StrayInv, NoStrayListener, BeingReleased, ReleasePcs, Listening
  <1>. QED BY <1>1, <1>2, <1>3, <1>4, <1>5, <1>6, <1>7 DEF SweepStep

\* The books hold after: a step of a wake.
LEMMA StrayWaker ==
  ASSUME KindsInv, KindsInv', StrayInv, NEW w \in Wakers,
         WakerStep(w)
  PROVE  StrayInv'
  <1>1. CASE \/ RefuseUnlisted(w) \/ Start(w) \/ StartRaises(w) \/ LaunchLooks(w)
    BY <1>1, WakerQuiet DEF StrayInv, NoStrayListener, BeingReleased
  <1>2. CASE RecordWake(w)
    <2> DEFINE a == waker[w].app
    <2>1. UNCHANGED <<holder, sweep>> /\ TakeParker(w, "release") /\ waker[w].pc = "called"
      BY <1>2 DEF RecordWake
    <2>2. /\ a \in Apps /\ parked' \in [Apps -> Ports \cup {NoPort}] /\ parked'[a] = NoPort
          /\ \A b \in Apps \ {a} : parked'[b] = parked[b]
          /\ \A v \in Wakers \ {w} : waker'[v] = waker[v]
      BY <2>1, Takes DEF KindsInv, WakerKinds
    <2>3. waker'[w].pc = "release" /\ waker'[w].app = a /\ waker'[w].port = OpenParker(a)
      BY <2>1, Takes DEF KindsInv, WakerKinds
    <2>4. \A p \in Ports : Listening(a, p) /\ parked[a] = p => OpenParker(a) = p
      BY DEF OpenParker
    <2>5. ASSUME NEW c \in Apps, NEW p \in Ports, Listening(c, p)'
          PROVE  parked'[c] = p \/ BeingReleased(c, p)'
      <3>1. Listening(c, p) /\ (parked[c] = p \/ BeingReleased(c, p))
        BY <2>1, <2>5 DEF StrayInv, NoStrayListener
      <3>2. CASE c = a /\ parked[c] = p
        BY <2>3, <2>4, <3>1, <3>2 DEF BeingReleased
      <3>3. CASE c # a /\ parked[c] = p
        BY <2>2, <3>3
      <3>4. CASE BeingReleased(c, p)
        BY <2>1, <2>2, <3>4 DEF BeingReleased
      <3>. QED BY <3>1, <3>2, <3>3, <3>4
    <2>. QED BY <2>1, <2>2, <2>5 DEF StrayInv, NoStrayListener, KindsInv, SweepKinds
  <1>3. CASE RefuseWake(w)
    <2> DEFINE a == waker[w].app
    <2>1. UNCHANGED <<holder, sweep>> /\ TakeParker(w, "refused") /\ waker[w].pc = "called"
      BY <1>3 DEF RefuseWake
    <2>2. /\ a \in Apps /\ parked' \in [Apps -> Ports \cup {NoPort}] /\ parked'[a] = NoPort
          /\ \A b \in Apps \ {a} : parked'[b] = parked[b]
          /\ \A v \in Wakers \ {w} : waker'[v] = waker[v]
      BY <2>1, Takes DEF KindsInv, WakerKinds
    <2>3. waker'[w].pc = "refused" /\ waker'[w].app = a /\ waker'[w].port = OpenParker(a)
      BY <2>1, Takes DEF KindsInv, WakerKinds
    <2>4. \A p \in Ports : Listening(a, p) /\ parked[a] = p => OpenParker(a) = p
      BY DEF OpenParker
    <2>5. ASSUME NEW c \in Apps, NEW p \in Ports, Listening(c, p)'
          PROVE  parked'[c] = p \/ BeingReleased(c, p)'
      <3>1. Listening(c, p) /\ (parked[c] = p \/ BeingReleased(c, p))
        BY <2>1, <2>5 DEF StrayInv, NoStrayListener
      <3>2. CASE c = a /\ parked[c] = p
        BY <2>3, <2>4, <3>1, <3>2 DEF BeingReleased
      <3>3. CASE c # a /\ parked[c] = p
        BY <2>2, <3>3
      <3>4. CASE BeingReleased(c, p)
        BY <2>1, <2>2, <3>4 DEF BeingReleased
      <3>. QED BY <3>1, <3>2, <3>3, <3>4
    <2>. QED BY <2>1, <2>2, <2>5 DEF StrayInv, NoStrayListener, KindsInv, SweepKinds
  <1>4. CASE Release(w)
    <2>1. ASSUME NEW c \in Apps, NEW p \in Ports, Listening(c, p)'
          PROVE  parked'[c] = p \/ BeingReleased(c, p)'
      <3>0. Listening(c, p) /\ ~(waker[w].app = c /\ waker[w].port = p)
        <4> HIDE DEF Listening
        <4>1. Listening(c, p)' <=> Listening(c, p) /\ <<c, p>> # <<waker[w].app, waker[w].port>>
          BY <1>4, <2>1, Lets
        <4>. QED BY <2>1, <4>1
      <3>1. parked[c] = p \/ BeingReleased(c, p)
        BY <2>1, <3>0 DEF StrayInv, NoStrayListener
      <3>2. UNCHANGED <<parked, sweep>> /\ \A v \in Wakers \ {w} : waker'[v] = waker[v]
        BY <1>4, Lets
      <3>. QED BY <3>0, <3>1, <3>2 DEF BeingReleased
    <2>2. UNCHANGED <<parked, sweep>>
      BY <1>4, Lets
    <2>. QED BY <2>1, <2>2 DEF StrayInv, NoStrayListener
  <1>5. CASE ReleaseRefused(w)
    <2>1. ASSUME NEW c \in Apps, NEW p \in Ports, Listening(c, p)'
          PROVE  parked'[c] = p \/ BeingReleased(c, p)'
      <3>0. Listening(c, p) /\ ~(waker[w].app = c /\ waker[w].port = p)
        <4> HIDE DEF Listening
        <4>1. Listening(c, p)' <=> Listening(c, p) /\ <<c, p>> # <<waker[w].app, waker[w].port>>
          BY <1>5, <2>1, Lets
        <4>. QED BY <2>1, <4>1
      <3>1. parked[c] = p \/ BeingReleased(c, p)
        BY <2>1, <3>0 DEF StrayInv, NoStrayListener
      <3>2. UNCHANGED <<parked, sweep>> /\ \A v \in Wakers \ {w} : waker'[v] = waker[v]
        BY <1>5, Lets
      <3>. QED BY <3>0, <3>1, <3>2 DEF BeingReleased
    <2>2. UNCHANGED <<parked, sweep>>
      BY <1>5, Lets
    <2>. QED BY <2>1, <2>2 DEF StrayInv, NoStrayListener
  <1>6. CASE LaunchConnects(w)
    <2>1. CASE holder' = holder
      BY <1>6, <2>1, WakerQuiet DEF StrayInv, NoStrayListener, BeingReleased
    <2>2. CASE holder' # holder
      <3> DEFINE a == waker[w].app
                 q == port[waker[w].app]
      <3>1. /\ a \in Apps /\ q \in Ports /\ Serve(w, a, q) /\ parked' = parked
            /\ waker[w].pc = "connect"
        BY <1>6, <2>2, Connects
      <3>. QED BY <3>1, StrayServes
    <2>. QED BY <2>1, <2>2
  <1>. QED BY <1>1, <1>2, <1>3, <1>4, <1>5, <1>6 DEF WakerStep

\* The books hold after: the programs, the pages, the registry and the clients.
LEMMA StrayWorld ==
  ASSUME KindsInv, KindsInv', StrayInv, NEW a \in Apps,
         ProgramStep(a) \/ WorldStep(a)
  PROVE  StrayInv'
  <1>1. CASE \/ ProgramBinds(a) \/ ProgramCollides(a) \/ ProgramStays(a) \/ ProgramDies(a)
             \/ ProgramRetries(a) \/ ProgramGivesUp(a) \/ ProgramEnds(a) \/ StopApp(a)
             \/ StartedByOther(a) \/ ShowApp(a) \/ HideApp(a) \/ Reregister(a)
             \/ Unlist(a) \/ Relist(a) \/ BudgetPasses(a)
    BY <1>1, WorldQuiet DEF StrayInv, NoStrayListener, BeingReleased, ProgramStep
  <1>2. ASSUME NEW w \in Wakers, NEW p \in Ports, Accept(w, a, p) PROVE StrayInv'
    BY <1>2, StrayServes DEF Accept
  <1>3. ASSUME NEW w \in Wakers, NEW for \in {"route", "launch"}, AskForApp(w, a, for)
        PROVE  StrayInv'
    <2>1. /\ UNCHANGED <<holder, parked, sweep>> /\ waker[w].pc = "idle" /\ waker'[w].pc = "called"
          /\ \A v \in Wakers \ {w} : waker'[v] = waker[v]
      BY <1>3 DEF AskForApp, Calling, KindsInv
    <2>. QED BY <2>1 DEF StrayInv, NoStrayListener, BeingReleased
  <1>. QED BY <1>1, <1>2, <1>3 DEF ProgramStep, WorldStep

\* The books hold after: the clocks and a restart.
LEMMA StrayOther ==
  ASSUME KindsInv, KindsInv', StrayInv,
         GracePasses \/ MarkVisited \/ Restart \/ UNCHANGED vars
  PROVE  StrayInv'
  <1>1. CASE \/ GracePasses \/ MarkVisited
    BY <1>1 DEF StrayInv, NoStrayListener, BeingReleased, GracePasses, MarkVisited
  <1>2. CASE Restart
    <2>1. ASSUME NEW c \in Apps, NEW p \in Ports, Listening(c, p)'
         PROVE  parked'[c] = p \/ BeingReleased(c, p)'
      BY <1>2, <2>1 DEF StrayInv, NoStrayListener, BeingReleased, Restart, NoPass, AtRest
    <2>2. (sweep.pc \notin ReleasePcs => sweep.release = {})'
      BY <1>2 DEF StrayInv, ReleasePcs, KindsInv, SweepKinds, Restart, NoPass, AtRest
    <2>3. (sweep.pc \in {"downRelease", "park"} => parked[sweep.app] = NoPort)'
      BY <1>2 DEF StrayInv, KindsInv, SweepKinds, BooksOK, Restart, NoPass, AtRest
    <2>. QED BY <2>1, <2>2, <2>3 DEF StrayInv, NoStrayListener
  <1>3. CASE UNCHANGED vars
    BY <1>3 DEF StrayInv, NoStrayListener, BeingReleased, vars
  <1>. QED BY <1>1, <1>2, <1>3

\* Every step keeps the books.
LEMMA StrayStep ==
  ASSUME KindsInv, KindsInv', StrayInv, [Next]_vars
  PROVE  StrayInv'
  BY StraySweep, StrayWaker, StrayWorld, StrayOther DEF Next

-------------------------------------------------------------------------------
(* What is on the books is listened for.                                      *)

\* A thread has taken an open listener off the books.
Releasing(w) == waker[w].pc \in {"release", "refused"} /\ waker[w].port # NoPort

\* What a thread has taken off the books is open, its alone, and not on them again.
HeldByWakers ==
    \A w \in Wakers : Releasing(w) =>
        /\ Listening(waker[w].app, waker[w].port) /\ parked[waker[w].app] # waker[w].port
        /\ <<waker[w].app, waker[w].port>> \notin sweep.release
OneReleases ==
    \A v, w \in Wakers : Releasing(v) /\ Releasing(w) /\ v # w =>
        waker[v].app # waker[w].app \/ waker[v].port # waker[w].port
HeldBySweep ==
    \A a \in Apps, p \in Ports : <<a, p>> \in sweep.release => Listening(a, p) /\ parked[a] # p
HeldInv == BookedIsHeld /\ HeldByWakers /\ OneReleases /\ HeldBySweep

\* Steps that leave the listeners and the books alone keep what they hold.
LEMMA HeldStill ==
  ASSUME KindsInv, KindsInv', HeldInv, parked' = parked, sweep'.release = sweep.release,
         \A a \in Apps, p \in Ports : Listening(a, p)' <=> Listening(a, p),
         \A v \in Wakers : \/ waker'[v] = waker[v]
                           \/ /\ waker'[v].pc \notin {"release", "refused"}
                              /\ waker[v].pc # "called" \/ waker[v].app \notin listed,
         \A a \in listed' \ listed : parked[a] = NoPort
  PROVE  HeldInv'
  <1>1. BookedIsHeld'
    <2>1. SUFFICES ASSUME NEW a \in listed', parked'[a] # NoPort, ~Listening(a, parked[a])
                   PROVE  \E v \in Wakers : waker'[v].pc = "called" /\ waker'[v].for = "page" /\ waker'[v].app = a
      <3>1. \A a \in listed' : a \in Apps /\ (parked'[a] # NoPort => parked'[a] \in Ports)
        BY DEF KindsInv, EnvOK, BooksOK
      <3>. QED BY <2>1, <3>1 DEF BookedIsHeld
    <2>2. a \in listed
      BY <2>1
    <2>3. PICK v \in Wakers : waker[v].pc = "called" /\ waker[v].for = "page" /\ waker[v].app = a
      BY <2>1, <2>2 DEF HeldInv, BookedIsHeld
    <2>. QED BY <2>2, <2>3
  <1>2. \A v \in Wakers : Releasing(v)' => waker'[v] = waker[v] /\ Releasing(v)
    BY DEF Releasing
  <1>3. HeldByWakers'
    <2>1. SUFFICES ASSUME NEW v \in Wakers, Releasing(v)'
                   PROVE  /\ Listening(waker[v].app, waker[v].port)' /\ parked'[waker'[v].app] # waker'[v].port
                          /\ <<waker'[v].app, waker'[v].port>> \notin sweep'.release
      BY <2>1 DEF HeldByWakers
    <2>2. waker'[v] = waker[v] /\ waker[v].app \in Apps /\ waker[v].port \in Ports
      BY <1>2, <2>1 DEF Releasing, KindsInv, WakerKinds
    <2>. QED BY <1>2, <2>1, <2>2 DEF HeldInv, HeldByWakers
  <1>4. OneReleases'
    BY <1>2 DEF HeldInv, OneReleases
  <1>5. HeldBySweep'
    BY DEF HeldInv, HeldBySweep
  <1>. QED BY <1>1, <1>3, <1>4, <1>5 DEF HeldInv

\* So do steps of the sweep that take apps off the books and are to close what is open
\* of them.
LEMMA HeldTakes ==
  ASSUME KindsInv, KindsInv', HeldInv, sweep.release = {}, UNCHANGED <<holder, waker, listed>>,
         NEW D \in SUBSET Apps,
         \A b \in Apps : parked'[b] = IF b \in D THEN NoPort ELSE parked[b],
         \A b \in Apps, p \in Ports : <<b, p>> \in sweep'.release => b \in D /\ p = OpenParker(b)
  PROVE  HeldInv'
  <1>1. BookedIsHeld'
    BY DEF HeldInv, BookedIsHeld, KindsInv, EnvOK
  <1>2. HeldByWakers'
    <2>1. SUFFICES ASSUME NEW v \in Wakers, Releasing(v)
                   PROVE  /\ Listening(waker[v].app, waker[v].port) /\ parked'[waker[v].app] # waker[v].port
                          /\ <<waker[v].app, waker[v].port>> \notin sweep'.release
      BY <2>1 DEF HeldByWakers, Releasing
    <2>2. waker[v].app \in Apps /\ waker[v].port \in Ports
      BY <2>1 DEF Releasing, KindsInv, WakerKinds
    <2>3. Listening(waker[v].app, waker[v].port) /\ parked[waker[v].app] # waker[v].port
      BY <2>1 DEF HeldInv, HeldByWakers
    <2>4. <<waker[v].app, waker[v].port>> \notin sweep'.release
      BY <2>2, <2>3, Taken DEF KindsInv
    <2>. QED BY <2>2, <2>3, <2>4
  <1>3. OneReleases'
    BY DEF HeldInv, OneReleases, Releasing
  <1>4. HeldBySweep'
    BY Taken DEF HeldBySweep, KindsInv
  <1>. QED BY <1>1, <1>2, <1>3, <1>4 DEF HeldInv

\* A connection to a held port leaves a wake of its app behind.
LEMMA HeldServes ==
  ASSUME KindsInv, KindsInv', HeldInv, NEW w \in Wakers, NEW a \in Apps, NEW q \in Ports,
         waker[w].pc \in {"idle", "connect"}, Serve(w, a, q), UNCHANGED <<parked, listed>>
  PROVE  HeldInv'
  <1>1. /\ \A b \in Apps, p \in Ports : Listening(b, p)' <=> Listening(b, p) /\ <<b, p>> # <<a, q>>
        /\ waker'[w] = Calling(a, "page")
        /\ \A v \in Wakers \ {w} :
              waker'[v] = IF waker[v].app = a /\ waker[v].port = q
                          THEN [waker[v] EXCEPT !.port = NoPort] ELSE waker[v]
        /\ sweep' = [sweep EXCEPT !.release = sweep.release \ {<<a, q>>}]
    BY Serves
  <1>2. sweep'.release = sweep.release \ {<<a, q>>}
    BY <1>1 DEF KindsInv, SweepKinds
  <1>3. waker'[w].pc = "called" /\ waker'[w].for = "page" /\ waker'[w].app = a
    BY <1>1 DEF Calling
  <1>4. \A v \in Wakers \ {w} :
          /\ waker'[v].pc = waker[v].pc /\ waker'[v].for = waker[v].for /\ waker'[v].app = waker[v].app
          /\ waker'[v].port = IF waker[v].app = a /\ waker[v].port = q THEN NoPort ELSE waker[v].port
    BY <1>1 DEF KindsInv, WakerKinds
  <1>5. BookedIsHeld'
    <2>1. SUFFICES ASSUME NEW b \in listed', parked'[b] # NoPort, ~Listening(b, parked[b])'
                   PROVE  \E v \in Wakers : waker'[v].pc = "called" /\ waker'[v].for = "page" /\ waker'[v].app = b
      BY <2>1 DEF BookedIsHeld
    <2>2. b \in listed /\ b \in Apps /\ parked[b] \in Ports
      BY <2>1 DEF KindsInv, EnvOK, BooksOK
    <2>3. CASE b = a
      BY <1>3, <2>3
    <2>4. CASE b # a
      <3>1. ~Listening(b, parked[b])
        BY <1>1, <2>1, <2>2, <2>4
      <3>2. PICK v \in Wakers : waker[v].pc = "called" /\ waker[v].for = "page" /\ waker[v].app = b
        BY <2>1, <2>2, <3>1 DEF HeldInv, BookedIsHeld
      <3>. QED BY <1>4, <3>2
    <2>. QED BY <2>3, <2>4
  <1>6. \A v \in Wakers : Releasing(v)' =>
          /\ v # w /\ Releasing(v) /\ waker'[v].app = waker[v].app /\ waker'[v].port = waker[v].port
          /\ waker[v].app # a \/ waker[v].port # q
    BY <1>3, <1>4 DEF Releasing
  <1>7. HeldByWakers'
    <2>1. SUFFICES ASSUME NEW v \in Wakers, Releasing(v)'
                   PROVE  /\ Listening(waker[v].app, waker[v].port)' /\ parked'[waker'[v].app] # waker'[v].port
                          /\ <<waker'[v].app, waker'[v].port>> \notin sweep'.release
      BY <2>1 DEF HeldByWakers
    <2>2. /\ Releasing(v) /\ waker'[v].app = waker[v].app /\ waker'[v].port = waker[v].port
          /\ waker[v].app # a \/ waker[v].port # q
      BY <1>6, <2>1
    <2>3. waker[v].app \in Apps /\ waker[v].port \in Ports
      BY <2>2 DEF Releasing, KindsInv, WakerKinds
    <2>. QED BY <1>1, <1>2, <2>2, <2>3 DEF HeldInv, HeldByWakers
  <1>8. OneReleases'
    BY <1>6 DEF HeldInv, OneReleases
  <1>9. HeldBySweep'
    BY <1>1, <1>2 DEF HeldInv, HeldBySweep
  <1>. QED BY <1>5, <1>7, <1>8, <1>9 DEF HeldInv

\* A wake takes the parker off the books of its app, and holds what is open of it.
LEMMA HeldWakes ==
  ASSUME KindsInv, KindsInv', HeldInv, NEW w \in Wakers, NEW pc \in {"release", "refused"},
         waker[w].pc = "called", TakeParker(w, pc), UNCHANGED <<holder, sweep, listed>>
  PROVE  HeldInv'
  <1> DEFINE a == waker[w].app
  <1>1. /\ a \in Apps /\ parked' \in [Apps -> Ports \cup {NoPort}] /\ parked'[a] = NoPort
        /\ \A b \in Apps \ {a} : parked'[b] = parked[b]
        /\ \A v \in Wakers \ {w} : waker'[v] = waker[v]
    BY Takes DEF KindsInv, WakerKinds
  <1>2. waker'[w].pc = pc /\ waker'[w].app = a /\ waker'[w].port = OpenParker(a)
    BY Takes
  <1>3. /\ OpenParker(a) \in Ports \cup {NoPort}
        /\ OpenParker(a) \in Ports => OpenParker(a) = parked[a] /\ Listening(a, parked[a])
    BY <1>1, Taken DEF KindsInv
  <1>4. BookedIsHeld'
    <2>1. SUFFICES ASSUME NEW b \in listed', parked'[b] # NoPort, ~Listening(b, parked[b])'
                   PROVE  \E v \in Wakers : waker'[v].pc = "called" /\ waker'[v].for = "page" /\ waker'[v].app = b
      BY <2>1 DEF BookedIsHeld
    <2>2. b \in listed /\ b \in Apps /\ b # a /\ parked'[b] = parked[b]
      BY <1>1, <2>1 DEF KindsInv, EnvOK
    <2>3. PICK v \in Wakers : waker[v].pc = "called" /\ waker[v].for = "page" /\ waker[v].app = b
      BY <2>1, <2>2 DEF HeldInv, BookedIsHeld
    <2>. QED BY <1>1, <2>2, <2>3
  <1>5. HeldByWakers'
    <2>1. SUFFICES ASSUME NEW v \in Wakers, Releasing(v)'
                   PROVE  /\ Listening(waker[v].app, waker[v].port)' /\ parked'[waker'[v].app] # waker'[v].port
                          /\ <<waker'[v].app, waker'[v].port>> \notin sweep'.release
      BY <2>1 DEF HeldByWakers
    <2>2. CASE v = w
      <3>1. OpenParker(a) \in Ports
        BY <1>2, <1>3, <2>1, <2>2 DEF Releasing
      <3>. QED BY <1>1, <1>2, <1>3, <2>2, <3>1 DEF HeldInv, HeldBySweep
    <2>3. CASE v # w
      <3>1. waker'[v] = waker[v] /\ Releasing(v)
        BY <1>1, <2>1, <2>3 DEF Releasing
      <3>2. waker[v].app \in Apps /\ waker[v].port \in Ports
        BY <3>1 DEF Releasing, KindsInv, WakerKinds
      <3>. QED BY <1>1, <3>1, <3>2 DEF HeldInv, HeldByWakers
    <2>. QED BY <2>2, <2>3
  <1>6. OneReleases'
    <2>1. SUFFICES ASSUME NEW v \in Wakers, Releasing(v)', Releasing(w)', v # w
                   PROVE  waker'[v].app # waker'[w].app \/ waker'[v].port # waker'[w].port
      BY <1>1, <2>1 DEF HeldInv, OneReleases, Releasing
    <2>2. waker'[v] = waker[v] /\ Releasing(v)
      BY <1>1, <2>1 DEF Releasing
    <2>3. OpenParker(a) = parked[a]
      BY <1>2, <1>3, <2>1 DEF Releasing
    <2>. QED BY <1>2, <2>2, <2>3 DEF HeldInv, HeldByWakers
  <1>7. HeldBySweep'
    BY <1>1 DEF HeldInv, HeldBySweep
  <1>. QED BY <1>4, <1>5, <1>6, <1>7 DEF HeldInv

\* A thread that closes the listener it took off the books lets go of nothing else.
LEMMA HeldLets ==
  ASSUME KindsInv, KindsInv', HeldInv, NEW w \in Wakers, Release(w) \/ ReleaseRefused(w)
  PROVE  HeldInv'
  <1>1. /\ \A b \in Apps, q \in Ports :
              Listening(b, q)' <=> Listening(b, q) /\ <<b, q>> # <<waker[w].app, waker[w].port>>
        /\ UNCHANGED <<parked, sweep>> /\ waker[w].pc \in {"release", "refused"}
        /\ waker'[w].pc \in {"start", "idle"} /\ \A v \in Wakers \ {w} : waker'[v] = waker[v]
    BY Lets
  <1>2. listed' = listed
    BY DEF Release, ReleaseRefused
  <1>3. CASE waker[w].port = NoPort
    <2>1. \A b \in Apps, q \in Ports : Listening(b, q)' <=> Listening(b, q)
      BY <1>1, <1>3
    <2>. QED BY <1>1, <1>2, <2>1, HeldStill
  <1>4. CASE waker[w].port # NoPort
    <2>1. Releasing(w) /\ waker[w].app \in Apps /\ waker[w].port \in Ports
      BY <1>1, <1>4 DEF Releasing, KindsInv, WakerKinds
    <2>2. BookedIsHeld'
      <3>1. SUFFICES ASSUME NEW b \in listed', parked'[b] # NoPort, ~Listening(b, parked[b])'
                     PROVE  \E v \in Wakers : waker'[v].pc = "called" /\ waker'[v].for = "page" /\ waker'[v].app = b
        BY <3>1 DEF BookedIsHeld
      <3>2. b \in listed /\ b \in Apps /\ parked[b] \in Ports /\ parked[b] # NoPort /\ parked' = parked
        BY <1>1, <1>2, <3>1 DEF KindsInv, EnvOK, BooksOK
      <3>3. ~(b = waker[w].app /\ parked[b] = waker[w].port)
        BY <2>1 DEF HeldInv, HeldByWakers
      <3>4. ~Listening(b, parked[b])
        BY <1>1, <3>1, <3>2, <3>3
      <3>5. PICK v \in Wakers : waker[v].pc = "called" /\ waker[v].for = "page" /\ waker[v].app = b
        BY <3>2, <3>4 DEF HeldInv, BookedIsHeld
      <3>. QED BY <1>1, <3>5
    <2>3. \A v \in Wakers : Releasing(v)' => v # w /\ Releasing(v) /\ waker'[v] = waker[v]
      BY <1>1 DEF Releasing
    <2>4. HeldByWakers'
      <3>1. SUFFICES ASSUME NEW v \in Wakers, Releasing(v)'
                     PROVE  /\ Listening(waker[v].app, waker[v].port)' /\ parked'[waker'[v].app] # waker'[v].port
                            /\ <<waker'[v].app, waker'[v].port>> \notin sweep'.release
        BY <3>1 DEF HeldByWakers
      <3>2. v # w /\ Releasing(v) /\ waker'[v] = waker[v]
        BY <2>3, <3>1
      <3>3. waker[v].app \in Apps /\ waker[v].port \in Ports
        BY <3>2 DEF Releasing, KindsInv, WakerKinds
      <3>4. waker[v].app # waker[w].app \/ waker[v].port # waker[w].port
        BY <2>1, <3>2 DEF HeldInv, OneReleases
      <3>5. /\ Listening(waker[v].app, waker[v].port) /\ parked[waker[v].app] # waker[v].port
            /\ <<waker[v].app, waker[v].port>> \notin sweep.release
        BY <3>2 DEF HeldInv, HeldByWakers
      <3>. QED BY <1>1, <3>2, <3>3, <3>4, <3>5
    <2>5. OneReleases'
      BY <2>3 DEF HeldInv, OneReleases
    <2>6. HeldBySweep'
      <3>1. <<waker[w].app, waker[w].port>> \notin sweep.release
        BY <2>1 DEF HeldInv, HeldByWakers
      <3>. QED BY <1>1, <3>1 DEF HeldInv, HeldBySweep
    <2>. QED BY <2>2, <2>4, <2>5, <2>6 DEF HeldInv
  <1>. QED BY <1>3, <1>4

\* What is on the books is held after: a step of the sweep.
LEMMA HeldSweep ==
  ASSUME KindsInv, KindsInv', StrayInv, HeldInv, ~Race("relist"),
         SweepStep
  PROVE  HeldInv'
  <1>1. CASE \/ SweepBegins \/ SweepReads \/ SweepCounts \/ SweepDecides \/ SweepStops
    <2>1. listed' = listed
      BY <1>1 DEF SweepBegins, SweepReads, SweepCounts, SweepDecides, SweepStops
    <2>. QED BY <1>1, <2>1, SweepQuiet, HeldStill DEF Listening
  <1>2. CASE SweepReleases
    <2>1. UNCHANGED <<waker, parked, listed>>
      BY <1>2 DEF SweepReleases
    <2>2. \A b \in Apps, q \in Ports : Listening(b, q)' <=> Listening(b, q) /\ <<b, q>> \notin sweep.release
      BY <1>2, SweepLets
    <2>3. BookedIsHeld'
      <3>1. SUFFICES ASSUME NEW c \in listed', parked'[c] # NoPort, ~Listening(c, parked[c])'
                   PROVE  \E v \in Wakers : waker'[v].pc = "called" /\ waker'[v].for = "page" /\ waker'[v].app = c
        BY <3>1 DEF BookedIsHeld
      <3>2. c \in listed /\ c \in Apps /\ parked[c] \in Ports /\ parked' = parked
        BY <2>1, <3>1 DEF KindsInv, EnvOK, BooksOK
      <3>3. ~Listening(c, parked[c])
        BY <2>2, <3>1, <3>2 DEF HeldInv, HeldBySweep
      <3>. QED BY <2>1, <3>1, <3>2, <3>3 DEF HeldInv, BookedIsHeld
    <2>4. HeldByWakers'
      <3>1. SUFFICES ASSUME NEW v \in Wakers, Releasing(v)
                     PROVE  /\ Listening(waker[v].app, waker[v].port)'
                            /\ parked[waker[v].app] # waker[v].port
                            /\ <<waker[v].app, waker[v].port>> \notin sweep'.release
        BY <2>1, <3>1 DEF HeldByWakers, Releasing
      <3>2. waker[v].app \in Apps /\ waker[v].port \in Ports
        BY <3>1 DEF Releasing, KindsInv, WakerKinds
      <3>3. sweep'.release = {}
        BY <1>2, SweepLets
      <3>. QED BY <2>1, <2>2, <3>1, <3>2, <3>3 DEF HeldInv, HeldByWakers
    <2>5. OneReleases' /\ HeldBySweep'
      BY <1>2, <2>1, SweepLets DEF HeldInv, OneReleases, Releasing, HeldBySweep
    <2>. QED BY <2>3, <2>4, <2>5 DEF HeldInv
  <1>3. CASE SweepNotesOutcome
    <2>1. sweep.release = {} /\ sweep.app \in Apps /\ listed' = listed
      BY <1>3 DEF SweepNotesOutcome, StrayInv, ReleasePcs, KindsInv, SweepKinds
    <2>2. CASE ParkedWhereItIs(sweep.app)
      <3>1. UNCHANGED <<parked, waker, holder>> /\ sweep'.release = {}
        BY <1>3, <2>1, <2>2 DEF SweepNotesOutcome, SweepAt, KindsInv, SweepKinds
      <3>. QED BY <2>1, <3>1, HeldStill
    <2>3. CASE ~ParkedWhereItIs(sweep.app)
      <3> DEFINE b == sweep'.app
      <3>1. /\ b \in Apps /\ UNCHANGED <<waker, holder>> /\ parked' = [parked EXCEPT ![b] = NoPort]
            /\ sweep'.release = {<<b, OpenParker(b)>>} \ {<<b, NoPort>>}
        BY <1>3, <2>3, SweepTakes
      <3>2. \A c \in Apps : parked'[c] = IF c \in {b} THEN NoPort ELSE parked[c]
        BY <3>1 DEF KindsInv, BooksOK
      <3>3. \A c \in Apps, p \in Ports : <<c, p>> \in sweep'.release => c \in {b} /\ p = OpenParker(c)
        BY <3>1
      <3> DEFINE D == {b}
      <3>4. D \in SUBSET Apps /\ D = {b}
        BY <3>1
      <3> HIDE DEF b, D
      <3>. QED BY <2>1, <3>1, <3>2, <3>3, <3>4, HeldTakes
    <2>. QED BY <2>2, <2>3
  <1>4. CASE SweepParks
    <2> DEFINE a == sweep.app
               q == sweep.rows[sweep.app]
    <2>1. /\ sweep.release = {} /\ sweep'.release = {} /\ a \in Apps /\ q \in Ports
          /\ UNCHANGED <<waker, listed>>
      BY <1>4 DEF SweepParks, SweepAt, StrayInv, ReleasePcs, KindsInv, SweepKinds
    <2>2. CASE UNCHANGED <<holder, parked>>
      BY <2>1, <2>2, HeldStill
    <2>3. CASE ~UNCHANGED <<holder, parked>>
      <3>1. /\ ~Listening(a, q) /\ parked' = [parked EXCEPT ![a] = q]
            /\ \A b \in Apps, p \in Ports : Listening(b, p)' <=> Listening(b, p) \/ <<b, p>> = <<a, q>>
        BY <1>4, <2>3, SweepParked
      <3>2. /\ parked'[a] = q /\ \A b \in Apps \ {a} : parked'[b] = parked[b]
        BY <2>1, <3>1 DEF KindsInv, BooksOK
      <3> HIDE DEF a, q
      <3>3. BookedIsHeld'
        <4>1. SUFFICES ASSUME NEW c \in listed', parked'[c] # NoPort, ~Listening(c, parked[c])'
                     PROVE  \E v \in Wakers : waker'[v].pc = "called" /\ waker'[v].for = "page" /\ waker'[v].app = c
          BY <4>1 DEF BookedIsHeld
        <4>2. c \in listed /\ c \in Apps /\ parked'[c] \in Ports
          BY <2>1, <4>1 DEF KindsInv, EnvOK, BooksOK
        <4>4. c # a
          <5>1. holder'[a][q] = "shell"
            BY <2>1, <3>1
          <5>. QED BY <3>2, <4>1, <5>1
        <4>3. parked[c] = parked'[c] /\ ~Listening(c, parked[c])
          BY <3>1, <3>2, <4>1, <4>2, <4>4
        <4>. QED BY <2>1, <4>1, <4>2, <4>3 DEF HeldInv, BookedIsHeld
      <3>4. HeldByWakers'
        <4>1. SUFFICES ASSUME NEW v \in Wakers, Releasing(v)
                       PROVE  /\ Listening(waker[v].app, waker[v].port)'
                              /\ parked'[waker[v].app] # waker[v].port
          BY <2>1, <4>1 DEF HeldByWakers, Releasing
        <4>2. waker[v].app \in Apps /\ waker[v].port \in Ports
          BY <4>1 DEF Releasing, KindsInv, WakerKinds
        <4>. QED BY <2>1, <3>1, <3>2, <4>1, <4>2 DEF HeldInv, HeldByWakers
      <3>5. OneReleases' /\ HeldBySweep'
        BY <2>1 DEF HeldInv, OneReleases, Releasing, HeldBySweep
      <3>. QED BY <3>3, <3>4, <3>5 DEF HeldInv
    <2>. QED BY <2>2, <2>3
  <1>5. CASE SweepEnds
    <2> DEFINE D == Apps \ sweep.pass
    <2>1. /\ sweep.release = {} /\ UNCHANGED <<waker, holder, listed>>
          /\ parked' = [a \in Apps |-> IF a \in sweep.pass THEN parked[a] ELSE NoPort]
      BY <1>5 DEF SweepEnds, StrayInv, ReleasePcs
    <2>2. sweep'.release = {<<b, OpenParker(b)>> : b \in Beyond(sweep.pass)}
      BY <1>5, Kinds DEF SweepEnds, NoPass
    <2>3. \A b \in Apps : parked'[b] = IF b \in D THEN NoPort ELSE parked[b]
      BY <2>1
    <2>4. \A b \in Apps, p \in Ports : <<b, p>> \in sweep'.release => b \in D /\ p = OpenParker(b)
      BY <2>2 DEF Beyond
    <2> HIDE DEF D
    <2>5. D \in SUBSET Apps
      BY DEF D
    <2>. QED BY <2>1, <2>3, <2>4, <2>5, HeldTakes
  <1>6. ASSUME NEW b \in Apps, SweepFindsUp(b) PROVE HeldInv'
    <2>1. sweep'.app = b /\ sweep.release = {} /\ listed' = listed
      BY <1>6 DEF SweepFindsUp, StrayInv, ReleasePcs, KindsInv, SweepKinds
    <2>2. /\ parked' = [parked EXCEPT ![b] = NoPort] /\ UNCHANGED <<waker, holder>>
          /\ sweep'.release = {<<b, OpenParker(b)>>} \ {<<b, NoPort>>}
      BY <1>6, <2>1, SweepTakes
    <2>3. \A c \in Apps : parked'[c] = IF c \in {b} THEN NoPort ELSE parked[c]
      BY <2>2 DEF KindsInv, BooksOK
    <2>4. \A c \in Apps, p \in Ports : <<c, p>> \in sweep'.release => c \in {b} /\ p = OpenParker(c)
      BY <2>2
    <2> DEFINE D == {b}
    <2>5. D \in SUBSET Apps /\ D = {b}
      BY <1>6
    <2> HIDE DEF D
    <2>. QED BY <2>1, <2>2, <2>3, <2>4, <2>5, HeldTakes
  <1>7. ASSUME NEW b \in Apps, SweepFindsDown(b) PROVE HeldInv'
    <2>1. listed' = listed
      BY <1>7 DEF SweepFindsDown
    <2>. QED BY <1>7, <2>1, SweepQuiet, HeldStill DEF Listening
  <1>. QED BY <1>1, <1>2, <1>3, <1>4, <1>5, <1>6, <1>7 DEF SweepStep

\* What is on the books is held after: a step of a wake.
LEMMA HeldWaker ==
  ASSUME KindsInv, KindsInv', StrayInv, HeldInv, ~Race("relist"), NEW w \in Wakers,
         WakerStep(w)
  PROVE  HeldInv'
  <1>1. CASE \/ RefuseUnlisted(w) \/ Start(w) \/ StartRaises(w) \/ LaunchLooks(w)
    <2>1. listed' = listed
      BY <1>1 DEF RefuseUnlisted, Start, StartRaises, LaunchLooks
    <2>. QED BY <1>1, <2>1, WakerQuiet, HeldStill
  <1>2. CASE RecordWake(w)
    <2>1. UNCHANGED <<holder, sweep, listed>> /\ TakeParker(w, "release") /\ waker[w].pc = "called"
      BY <1>2 DEF RecordWake
    <2>. QED BY <2>1, HeldWakes
  <1>3. CASE RefuseWake(w)
    <2>1. UNCHANGED <<holder, sweep, listed>> /\ TakeParker(w, "refused") /\ waker[w].pc = "called"
      BY <1>3 DEF RefuseWake
    <2>. QED BY <2>1, HeldWakes
  <1>4. CASE Release(w)
    BY <1>4, HeldLets
  <1>5. CASE ReleaseRefused(w)
    BY <1>5, HeldLets
  <1>6. CASE LaunchConnects(w)
    <2>1. CASE holder' = holder
      <3>1. listed' = listed
        BY <1>6 DEF LaunchConnects
      <3>. QED BY <1>6, <2>1, <3>1, WakerQuiet, HeldStill
    <2>2. CASE holder' # holder
      <3> DEFINE a == waker[w].app
                 q == port[waker[w].app]
      <3>1. /\ a \in Apps /\ q \in Ports /\ Serve(w, a, q) /\ parked' = parked
            /\ waker[w].pc = "connect"
        BY <1>6, <2>2, Connects
      <3>2. listed' = listed
        BY <1>6 DEF LaunchConnects
      <3>. QED BY <3>1, <3>2, HeldServes
    <2>. QED BY <2>1, <2>2
  <1>. QED BY <1>1, <1>2, <1>3, <1>4, <1>5, <1>6 DEF WakerStep

\* What is on the books is held after: the programs, the pages, the registry and the clients.
LEMMA HeldWorld ==
  ASSUME KindsInv, KindsInv', StrayInv, HeldInv, ~Race("relist"), NEW a \in Apps,
         ProgramStep(a) \/ WorldStep(a)
  PROVE  HeldInv'
  <1>1. CASE \/ ProgramBinds(a) \/ ProgramCollides(a) \/ ProgramStays(a) \/ ProgramDies(a)
             \/ ProgramRetries(a) \/ ProgramGivesUp(a) \/ ProgramEnds(a) \/ StopApp(a)
             \/ StartedByOther(a) \/ ShowApp(a) \/ HideApp(a) \/ Reregister(a)
             \/ Unlist(a) \/ Relist(a) \/ BudgetPasses(a)
    <2>1. \A b \in listed' \ listed : parked[b] = NoPort
      BY <1>1 DEF ProgramBinds, ProgramCollides, ProgramStays, ProgramDies, ProgramRetries,
             ProgramGivesUp, ProgramEnds, ProgramExits, ProgramVars, StopApp, StartedByOther,
             ShowApp, HideApp, Reregister, Unlist, Relist, BudgetPasses
    <2>. QED BY <1>1, <2>1, WorldQuiet, HeldStill DEF ProgramStep
  <1>2. ASSUME NEW w \in Wakers, NEW p \in Ports, Accept(w, a, p) PROVE HeldInv'
    BY <1>2, HeldServes DEF Accept
  <1>3. ASSUME NEW w \in Wakers, NEW for \in {"route", "launch"}, AskForApp(w, a, for)
        PROVE  HeldInv'
    <2>1. /\ UNCHANGED <<holder, parked, sweep, listed>> /\ waker[w].pc = "idle" /\ waker'[w].pc = "called"
          /\ \A v \in Wakers \ {w} : waker'[v] = waker[v]
      BY <1>3 DEF AskForApp, Calling, KindsInv
    <2>. QED BY <2>1, HeldStill
  <1>. QED BY <1>1, <1>2, <1>3 DEF ProgramStep, WorldStep

\* What is on the books is held after: the clocks and a restart.
LEMMA HeldOther ==
  ASSUME KindsInv, KindsInv', StrayInv, HeldInv, ~Race("relist"),
         GracePasses \/ MarkVisited \/ Restart \/ UNCHANGED vars
  PROVE  HeldInv'
  <1>1. CASE \/ GracePasses \/ MarkVisited
    BY <1>1, HeldStill DEF GracePasses, MarkVisited
  <1>2. CASE Restart
    <2>1. parked' = [a \in Apps |-> NoPort] /\ waker' = [w \in Wakers |-> AtRest] /\ sweep' = NoPass
      BY <1>2 DEF Restart
    <2>2. sweep'.release = {} /\ \A w \in Wakers : waker'[w].pc = "idle"
      BY <2>1, Kinds DEF NoPass
    <2>3. \A a \in listed' : parked'[a] = NoPort
      BY <2>1 DEF KindsInv, EnvOK
    <2>4. \A w \in Wakers : ~Releasing(w)'
      BY <2>2 DEF Releasing
    <2>. QED BY <2>2, <2>3, <2>4 DEF HeldInv, BookedIsHeld, HeldByWakers, OneReleases, HeldBySweep
  <1>3. CASE UNCHANGED vars
    BY <1>3, HeldStill DEF vars
  <1>. QED BY <1>1, <1>2, <1>3

\* Every step keeps what is on the books.
LEMMA HeldStep ==
  ASSUME KindsInv, KindsInv', StrayInv, HeldInv, ~Race("relist"), [Next]_vars
  PROVE  HeldInv'
  BY HeldSweep, HeldWaker, HeldWorld, HeldOther DEF Next

-------------------------------------------------------------------------------
(* What holds in every state.                                                 *)

\* Before the first pass, and before the first wake, nothing is held or on the books.
LEMMA HeldInit ==
  ASSUME Init
  PROVE  KindsInv /\ StrayInv /\ HeldInv
  <1>1. KindsInv
    BY KindsInit
  <1>2. /\ sweep = NoPass /\ waker = [w \in Wakers |-> AtRest] /\ parked = [a \in Apps |-> NoPort]
        /\ \A a \in Apps, p \in Ports : ~Listening(a, p)
    BY DEF Init
  <1>3. /\ sweep.pc = "idle" /\ sweep.release = {} /\ listed = Apps
        /\ \A w \in Wakers : waker[w].pc = "idle"
    BY <1>2, Kinds DEF NoPass, Init
  <1>4. StrayInv
    BY <1>2, <1>3 DEF StrayInv, NoStrayListener
  <1>5. HeldInv
    BY <1>2, <1>3 DEF HeldInv, BookedIsHeld, HeldByWakers, OneReleases, HeldBySweep, Releasing
  <1>. QED BY <1>1, <1>4, <1>5

\* The books and the program's states stay well formed whatever races: wakes never run
\* past the budget, nor ports past the registrations there have been.
THEOREM Types == Spec => []TypeOK
  <1>1. Init => KindsInv
    BY KindsInit
  <1>2. KindsInv /\ [Next]_vars => KindsInv'
    BY KindsStep
  <1>3. KindsInv => TypeOK
    BY DEF KindsInv, TypeOK, EnvOK, BooksOK, HistoryOK
  <1>. QED BY <1>1, <1>2, <1>3, PTL DEF Spec

\* Whatever crosses, the shell never holds a port that is neither on the books nor about
\* to be released: nothing it bound is forgotten while it lives.
THEOREM NothingStray == Spec => []NoStrayListener
  <1>1. Init => KindsInv /\ StrayInv
    BY HeldInit
  <1>2. KindsInv /\ StrayInv /\ [Next]_vars => KindsInv' /\ StrayInv'
    BY KindsStep, StrayStep
  <1>3. StrayInv => NoStrayListener
    BY DEF StrayInv
  <1>. QED BY <1>1, <1>2, <1>3, PTL DEF Spec

-------------------------------------------------------------------------------
(* What is proved of the wakes, the starts and the stops.                    *)

-------------------------------------------------------------------------------
(* The no-window rule stops only what has been out of use for long.           *)

\* What has been shown ever since the pass began is in the count the pass uses.
CountIsTrue ==
    /\ watched \subseteq shown
    /\ sweep.counted => watched \subseteq sweep.windows
    /\ sweep.pc \in {"idle", "read", "endRelease"} => ~sweep.counted

\* An app the rule is about to stop is not in the count, and has had its grace.
RuleIsTrue ==
    /\ sweep.pc \in {"decide", "stop"} => sweep.app \notin watched
    /\ sweep.pc = "stop" => sweep.app \in graced
GrownIsGraced == \A a \in Apps : idle[a] = "grown" => a \in graced
GraceInv == CountIsTrue /\ RuleIsTrue /\ GrownIsGraced

\* A step that touches neither the pass nor the counts touches nothing of this.
LEMMA GraceStill ==
  ASSUME GraceInv, Pass' = Pass, UNCHANGED <<shown, watched, graced, idle>>
  PROVE  GraceInv'
  BY DEF GraceInv, CountIsTrue, RuleIsTrue, GrownIsGraced, Pass

\* The grace is kept by: a step of the sweep.
LEMMA GraceSweep ==
  ASSUME KindsInv, KindsInv', GraceInv,
         SweepStep
  PROVE  GraceInv'
  <1>1. CASE SweepBegins
    <2>1. CountIsTrue'
      BY <1>1 DEF GraceInv, CountIsTrue, KindsInv, SweepKinds, SweepBegins, SweepAt
    <2>2. RuleIsTrue'
      BY <1>1 DEF GraceInv, CountIsTrue, RuleIsTrue, GrownIsGraced, KindsInv, SweepKinds,
           SweepBegins, SweepAt
    <2>3. GrownIsGraced'
      BY <1>1 DEF GraceInv, GrownIsGraced, KindsInv, BooksOK, SweepBegins, SweepAt
    <2>. QED BY <2>1, <2>2, <2>3 DEF GraceInv
  <1>2. CASE SweepReads
    <2>1. CountIsTrue'
      BY <1>2 DEF GraceInv, CountIsTrue, KindsInv, SweepKinds, SweepReads
    <2>2. RuleIsTrue'
      BY <1>2 DEF GraceInv, CountIsTrue, RuleIsTrue, GrownIsGraced, KindsInv, SweepKinds,
           SweepReads
    <2>3. GrownIsGraced'
      BY <1>2 DEF GraceInv, GrownIsGraced, KindsInv, BooksOK, SweepReads
    <2>. QED BY <2>1, <2>2, <2>3 DEF GraceInv
  <1>3. CASE SweepReleases
    <2>1. UNCHANGED <<shown, watched, graced, idle>>
      BY <1>3 DEF SweepReleases
    <2>2. /\ sweep'.app = sweep.app /\ sweep'.pc \in {"rule", "next", "park", "idle"}
          /\ sweep'.pc = "idle" => sweep.pc = "endRelease"
      BY <1>3, SweepLets
    <2>3. sweep'.counted = sweep.counted /\ sweep'.windows = sweep.windows
      BY <1>3 DEF SweepReleases, KindsInv, SweepKinds
    <2>. QED BY <2>1, <2>2, <2>3 DEF GraceInv, CountIsTrue, RuleIsTrue, GrownIsGraced
  <1>4. CASE SweepCounts
    <2> DEFINE a == sweep.app
    <2>1. /\ UNCHANGED <<shown, watched>> /\ sweep.pc = "rule" /\ a \in Apps
      BY <1>4 DEF SweepCounts, KindsInv, SweepKinds
    <2>2. watched \subseteq Counts
      BY DEF GraceInv, CountIsTrue, Counts
    <2>3. \A c \in Apps : idle'[c] = "grown" => c \in graced'
      BY <1>4, <2>1 DEF SweepCounts, NotIdle, GraceInv, GrownIsGraced, KindsInv, BooksOK
    <2>4. CASE a \in NoWindowApps
      <3>1. PICK pc \in {"next", "decide"} :
              /\ sweep' = [sweep EXCEPT !.counted = TRUE, !.windows = Counts, !.pc = pc]
              /\ pc = "decide" => a \notin Counts
        BY <1>4, <2>4 DEF SweepCounts
      <3>2. sweep'.pc = pc /\ sweep'.app = a /\ sweep'.windows = Counts
        BY <3>1 DEF KindsInv, SweepKinds
      <3>. QED BY <2>1, <2>2, <2>3, <3>1, <3>2 DEF GraceInv, CountIsTrue, RuleIsTrue,
                  GrownIsGraced
    <2>5. CASE a \notin NoWindowApps
      <3>1. sweep' = [sweep EXCEPT !.pc = "next"]
        BY <1>4, <2>5 DEF SweepCounts
      <3>2. sweep'.pc = "next" /\ sweep'.counted = sweep.counted /\ sweep'.windows = sweep.windows
        BY <3>1 DEF KindsInv, SweepKinds
      <3>. QED BY <2>1, <2>3, <3>2 DEF GraceInv, CountIsTrue, RuleIsTrue, GrownIsGraced
    <2>. QED BY <2>4, <2>5
  <1>5. CASE SweepDecides
    <2>1. CountIsTrue'
      BY <1>5 DEF GraceInv, CountIsTrue, KindsInv, SweepKinds, SweepDecides, SweepAt
    <2>2. RuleIsTrue'
      BY <1>5 DEF GraceInv, CountIsTrue, RuleIsTrue, GrownIsGraced, KindsInv, SweepKinds,
           SweepDecides, SweepAt
    <2>3. GrownIsGraced'
      BY <1>5 DEF GraceInv, GrownIsGraced, KindsInv, BooksOK, SweepDecides, SweepAt
    <2>. QED BY <2>1, <2>2, <2>3 DEF GraceInv
  <1>6. CASE SweepStops
    <2>1. CountIsTrue'
      BY <1>6 DEF GraceInv, CountIsTrue, KindsInv, SweepKinds, SweepStops, ToldToStop,
           SweepAt
    <2>2. RuleIsTrue'
      BY <1>6 DEF GraceInv, CountIsTrue, RuleIsTrue, GrownIsGraced, KindsInv, SweepKinds,
           SweepStops, ToldToStop, SweepAt
    <2>3. GrownIsGraced'
      BY <1>6 DEF GraceInv, GrownIsGraced, KindsInv, BooksOK, SweepStops, ToldToStop,
           SweepAt
    <2>. QED BY <2>1, <2>2, <2>3 DEF GraceInv
  <1>7. CASE SweepNotesOutcome
    <2>1. UNCHANGED <<shown, watched, graced, idle>> /\ sweep.pc = "outcome"
      BY <1>7 DEF SweepNotesOutcome
    <2>2. PICK pc \in {"next", "park", "downRelease"}, rel \in {sweep.release, {<<sweep.app, OpenParker(sweep.app)>>} \ {<<sweep.app, NoPort>>}} :
            sweep' = [sweep EXCEPT !.pc = pc, !.release = rel]
      BY <1>7 DEF SweepNotesOutcome, SweepAt, KindsInv, SweepKinds
    <2>3. sweep'.pc = pc /\ sweep'.counted = sweep.counted /\ sweep'.windows = sweep.windows
      BY <2>2 DEF KindsInv, SweepKinds
    <2>. QED BY <2>1, <2>3 DEF GraceInv, CountIsTrue, RuleIsTrue, GrownIsGraced
  <1>8. CASE SweepParks
    <2>1. CountIsTrue'
      BY <1>8 DEF GraceInv, CountIsTrue, KindsInv, SweepKinds, SweepParks, OnTheBooks,
           SweepAt
    <2>2. RuleIsTrue'
      BY <1>8 DEF GraceInv, CountIsTrue, RuleIsTrue, GrownIsGraced, KindsInv, SweepKinds,
           SweepParks, OnTheBooks, SweepAt
    <2>3. GrownIsGraced'
      BY <1>8 DEF GraceInv, GrownIsGraced, KindsInv, BooksOK, SweepParks, OnTheBooks,
           SweepAt
    <2>. QED BY <2>1, <2>2, <2>3 DEF GraceInv
  <1>9. CASE SweepEnds
    <2>1. UNCHANGED <<shown, watched, graced>> /\ \A c \in Apps : idle'[c] = "grown" => idle[c] = "grown"
      BY <1>9 DEF SweepEnds
    <2>2. sweep'.counted = FALSE /\ sweep'.pc \in {"idle", "endRelease"}
      BY <1>9, Kinds DEF SweepEnds, NoPass
    <2>. QED BY <2>1, <2>2 DEF GraceInv, CountIsTrue, RuleIsTrue, GrownIsGraced
  <1>10. ASSUME NEW b \in Apps, SweepFindsUp(b) PROVE GraceInv'
    <2>1. CountIsTrue'
      BY <1>10 DEF GraceInv, CountIsTrue, KindsInv, SweepKinds, SweepFindsUp, OpenParker,
           SeenUp, Rule, ForgetWakes
    <2>2. RuleIsTrue'
      BY <1>10 DEF GraceInv, CountIsTrue, RuleIsTrue, GrownIsGraced, KindsInv, SweepKinds,
           SweepFindsUp, OpenParker, SeenUp, Rule, ForgetWakes
    <2>3. GrownIsGraced'
      BY <1>10 DEF GraceInv, GrownIsGraced, KindsInv, BooksOK, SweepFindsUp, OpenParker,
           SeenUp, Rule, ForgetWakes
    <2>. QED BY <2>1, <2>2, <2>3 DEF GraceInv
  <1>11. ASSUME NEW b \in Apps, SweepFindsDown(b) PROVE GraceInv'
    <2>1. CountIsTrue'
      BY <1>11 DEF GraceInv, CountIsTrue, KindsInv, SweepKinds, SweepFindsDown, WokenSince
    <2>2. RuleIsTrue'
      BY <1>11 DEF GraceInv, CountIsTrue, RuleIsTrue, GrownIsGraced, KindsInv, SweepKinds,
           SweepFindsDown, WokenSince
    <2>3. GrownIsGraced'
      BY <1>11 DEF GraceInv, GrownIsGraced, KindsInv, BooksOK, SweepFindsDown, WokenSince
    <2>. QED BY <2>1, <2>2, <2>3 DEF GraceInv
  <1>. QED BY <1>1, <1>2, <1>3, <1>4, <1>5, <1>6, <1>7, <1>8, <1>9, <1>10, <1>11 DEF
       SweepStep

\* The grace is kept by: a step of a wake.
LEMMA GraceWaker ==
  ASSUME KindsInv, KindsInv', GraceInv, NEW w \in Wakers,
         WakerStep(w)
  PROVE  GraceInv'
  <1>1. CASE \/ RefuseUnlisted(w) \/ RecordWake(w) \/ RefuseWake(w) \/ Release(w)
             \/ ReleaseRefused(w) \/ Start(w) \/ StartRaises(w) \/ LaunchLooks(w)
             \/ LaunchConnects(w)
    BY <1>1, WakerPass, GraceStill DEF WakerStep
  <1>. QED BY <1>1 DEF WakerStep

\* The grace is kept by: the programs, the pages, the registry and the clients.
LEMMA GraceWorld ==
  ASSUME KindsInv, KindsInv', GraceInv, NEW a \in Apps,
         ProgramStep(a) \/ WorldStep(a)
  PROVE  GraceInv'
  <1>1. CASE \/ ProgramBinds(a) \/ ProgramCollides(a) \/ ProgramStays(a) \/ ProgramDies(a)
             \/ ProgramRetries(a) \/ ProgramGivesUp(a) \/ ProgramEnds(a) \/ StopApp(a)
             \/ StartedByOther(a) \/ Reregister(a) \/ Unlist(a) \/ Relist(a)
             \/ BudgetPasses(a)
    <2>1. UNCHANGED <<sweep, shown, watched, graced, idle>>
      BY <1>1 DEF ProgramBinds, ProgramCollides, ProgramStays, ProgramDies, ProgramRetries,
             ProgramGivesUp, ProgramEnds, ProgramExits, ProgramVars, StopApp, StartedByOther,
             Reregister, Unlist, Relist, BudgetPasses
    <2>. QED BY <2>1, GraceStill DEF Pass
  <1>2. CASE ShowApp(a)
    <2>1. CountIsTrue'
      BY <1>2 DEF GraceInv, CountIsTrue, KindsInv, SweepKinds, ShowApp
    <2>2. RuleIsTrue'
      BY <1>2 DEF GraceInv, CountIsTrue, RuleIsTrue, GrownIsGraced, KindsInv, SweepKinds,
           ShowApp
    <2>3. GrownIsGraced'
      BY <1>2 DEF GraceInv, GrownIsGraced, KindsInv, BooksOK, ShowApp
    <2>. QED BY <2>1, <2>2, <2>3 DEF GraceInv
  <1>3. CASE HideApp(a)
    <2>1. CountIsTrue'
      BY <1>3 DEF GraceInv, CountIsTrue, KindsInv, SweepKinds, HideApp
    <2>2. RuleIsTrue'
      BY <1>3 DEF GraceInv, CountIsTrue, RuleIsTrue, GrownIsGraced, KindsInv, SweepKinds,
           HideApp
    <2>3. GrownIsGraced'
      BY <1>3 DEF GraceInv, GrownIsGraced, KindsInv, BooksOK, HideApp
    <2>. QED BY <2>1, <2>2, <2>3 DEF GraceInv
  <1>4. ASSUME NEW w \in Wakers, NEW p \in Ports, Accept(w, a, p) PROVE GraceInv'
    BY <1>4, WakerPass, GraceStill
  <1>5. ASSUME NEW w \in Wakers, NEW for \in {"route", "launch"}, AskForApp(w, a, for)
        PROVE  GraceInv'
    BY <1>5, WakerPass, GraceStill
  <1>. QED BY <1>1, <1>2, <1>3, <1>4, <1>5 DEF ProgramStep, WorldStep

\* The grace is kept by: the clocks and a restart.
LEMMA GraceOther ==
  ASSUME KindsInv, KindsInv', GraceInv,
         GracePasses \/ MarkVisited \/ Restart \/ UNCHANGED vars
  PROVE  GraceInv'
  <1>1. CASE GracePasses
    <2>1. CountIsTrue'
      BY <1>1 DEF GraceInv, CountIsTrue, KindsInv, SweepKinds, GracePasses
    <2>2. RuleIsTrue'
      BY <1>1 DEF GraceInv, CountIsTrue, RuleIsTrue, GrownIsGraced, KindsInv, SweepKinds,
           GracePasses
    <2>3. GrownIsGraced'
      BY <1>1 DEF GraceInv, GrownIsGraced, KindsInv, BooksOK, GracePasses
    <2>. QED BY <2>1, <2>2, <2>3 DEF GraceInv
  <1>2. CASE MarkVisited
    BY <1>2, GraceStill DEF MarkVisited, Pass
  <1>3. CASE Restart
    <2>1. CountIsTrue'
      BY <1>3 DEF GraceInv, CountIsTrue, KindsInv, SweepKinds, Restart, NoPass, AtRest
    <2>2. RuleIsTrue'
      BY <1>3 DEF GraceInv, CountIsTrue, RuleIsTrue, GrownIsGraced, KindsInv, SweepKinds,
           Restart, NoPass, AtRest
    <2>3. GrownIsGraced'
      BY <1>3 DEF GraceInv, GrownIsGraced, KindsInv, BooksOK, Restart, NoPass, AtRest
    <2>. QED BY <2>1, <2>2, <2>3 DEF GraceInv
  <1>4. CASE UNCHANGED vars
    BY <1>4, GraceStill DEF vars, Pass
  <1>. QED BY <1>1, <1>2, <1>3, <1>4

\* Every step keeps the grace.
LEMMA GraceStep ==
  ASSUME KindsInv, KindsInv', GraceInv, [Next]_vars
  PROVE  GraceInv'
  BY GraceSweep, GraceWaker, GraceWorld, GraceOther DEF Next

-------------------------------------------------------------------------------
(* A first bind finds its port free.                                          *)

\* Until its first bind an app is up, and nothing listens in its place.
Rising == {"STARTING", "RUNNING", "STOPPING"}
BindsFreely == \A a \in firstBind : prog[a] \in Rising /\ \A p \in Ports : ~Listening(a, p)

\* Between its record and its start a wake has the app off the books, and shows in the
\* count of the pass that is under way.
ComingIsSeen ==
    \A a \in Apps : OnItsWay(a) =>
        parked[a] = NoPort /\ (sweep.pc \notin {"idle", "endRelease"} => newerWakes[a] > 0)

\* So the pass does not park it; nor once it has been started.
NotParked == \A a \in Apps : OnItsWay(a) \/ a \in firstBind => ~AtThePark(a)
StartIsSeen ==
    \A a \in firstBind : a \in sweep.todo => newerWakes[a] > 0 \/ sweep.reading[a] \notin DownStates
NoneToDo == sweep.pc \in {"idle", "read", "endRelease"} => sweep.todo = {}
BindInv == NoneToDo /\ BindsFreely /\ ComingIsSeen /\ NotParked /\ StartIsSeen

\* Steps that record no wake, start nothing, bind nothing for the shell and take up no
\* app keep all of this.
LEMMA BindStill ==
  ASSUME KindsInv, BindInv,
         \A a \in Apps : /\ OnItsWay(a)' => OnItsWay(a)
                         /\ newerWakes[a] > 0 => newerWakes'[a] > 0
                         /\ parked'[a] \in {parked[a], NoPort}
                         /\ AtThePark(a)' => AtThePark(a)
                         /\ \A p \in Ports : Listening(a, p)' => Listening(a, p),
         \A a \in firstBind' : a \in firstBind /\ prog'[a] \in Rising,
         sweep'.todo \subseteq sweep.todo, sweep'.reading = sweep.reading, NoneToDo',
         sweep.pc \in {"idle", "endRelease"} => sweep'.pc \in {"idle", "endRelease"}
  PROVE  BindInv'
  <1>. firstBind \subseteq Apps
    BY DEF KindsInv, HistoryOK
  <1>1. BindsFreely'
    BY DEF BindInv, BindsFreely
  <1>2. ComingIsSeen'
    BY DEF BindInv, ComingIsSeen
  <1>3. NotParked'
    BY DEF BindInv, NotParked
  <1>4. StartIsSeen'
    BY DEF BindInv, StartIsSeen
  <1>. QED BY <1>1, <1>2, <1>3, <1>4 DEF BindInv

\* A wake that is started finds nothing of the shell on any port of its app.
LEMMA StartsFree ==
  ASSUME KindsInv, StrayInv, BindInv, NEW w \in Wakers, waker[w].pc = "start",
         \A p \in Ports : ~BeingReleased(waker[w].app, p)
  PROVE  LET a == waker[w].app IN
         /\ a \in Apps /\ OnItsWay(a) /\ ~AtThePark(a) /\ \A p \in Ports : ~Listening(a, p)
         /\ a \in sweep.todo => newerWakes[a] > 0
  <1> DEFINE a == waker[w].app
  <1>1. a \in Apps /\ OnItsWay(a)
    BY DEF OnItsWay, KindsInv, WakerKinds
  <1>2. parked[a] = NoPort /\ ~AtThePark(a) /\ (a \in sweep.todo => newerWakes[a] > 0)
    BY <1>1 DEF BindInv, ComingIsSeen, NotParked, NoneToDo
  <1>3. \A p \in Ports : ~Listening(a, p)
    BY <1>1, <1>2 DEF StrayInv, NoStrayListener
  <1>. QED BY <1>1, <1>2, <1>3

\* A start is the last step of a wake on its way.
LEMMA BindStarts ==
  ASSUME KindsInv, StrayInv, BindInv, NEW w \in Wakers, ~Race("halfReleased"),
         Start(w) \/ StartRaises(w)
  PROVE  BindInv'
  <1> DEFINE a == waker[w].app
  <1>1. /\ waker[w].pc = "start" /\ \A p \in Ports : ~BeingReleased(a, p)
        /\ Launched(a) \/ UNCHANGED <<prog, firstBind>>
    BY DEF Start, StartRaises
  <1>2. /\ a \in Apps /\ OnItsWay(a) /\ ~AtThePark(a) /\ \A p \in Ports : ~Listening(a, p)
        /\ a \in sweep.todo => newerWakes[a] > 0
    BY <1>1, StartsFree
  <1>3. UNCHANGED <<holder, parked, newerWakes>> /\ sweep' = sweep
    BY WakerQuiet
  <1>4. \A b \in Apps : OnItsWay(b)' => OnItsWay(b)
    BY WakerQuiet DEF OnItsWay
  <1>5. \A b \in Apps : AtThePark(b)' <=> AtThePark(b)
    BY <1>3 DEF AtThePark
  <1> HIDE DEF a
  <1>6. CASE Launched(a) /\ Startable(a)
    <2>1. firstBind' = firstBind \cup {a} /\ prog' = [prog EXCEPT ![a] = "STARTING"]
      BY <1>6 DEF Launched
    <2>2. firstBind \subseteq Apps /\ prog \in [Apps -> States]
      BY DEF KindsInv, HistoryOK, EnvOK
    <2>3. BindsFreely'
      BY <1>2, <1>3, <2>1, <2>2 DEF BindInv, BindsFreely, Rising
    <2>4. ComingIsSeen' /\ NotParked'
      BY <1>2, <1>3, <1>4, <1>5, <2>1, <2>2 DEF BindInv, ComingIsSeen, NotParked
    <2>5. StartIsSeen' /\ NoneToDo'
      BY <1>2, <1>3, <2>1 DEF BindInv, StartIsSeen, NoneToDo
    <2>. QED BY <2>3, <2>4, <2>5 DEF BindInv
  <1>7. CASE UNCHANGED <<prog, firstBind>>
    BY <1>3, <1>4, <1>5, <1>7, BindStill DEF BindInv, BindsFreely, NoneToDo
  <1>8. Launched(a) /\ ~Startable(a) => UNCHANGED <<prog, firstBind>>
    BY <1>2 DEF Launched, KindsInv, EnvOK
  <1>. QED BY <1>1, <1>6, <1>7, <1>8

\* A connection that is served is not yet a recorded wake.
LEMMA BindServes ==
  ASSUME KindsInv, NEW w \in Wakers, NEW a \in Apps, NEW p \in Ports,
         Serve(w, a, p), parked' = parked
  PROVE  \A c \in Apps : /\ OnItsWay(c)' => OnItsWay(c)
                         /\ parked'[c] \in {parked[c], NoPort}
                         /\ \A q \in Ports : Listening(c, q)' => Listening(c, q)
  <1>1. \A c \in Apps, q \in Ports : Listening(c, q)' => Listening(c, q)
    BY Serves
  <1>2. \A c \in Apps : OnItsWay(c)' => OnItsWay(c)
    BY ServesWakers DEF OnItsWay
  <1>. QED BY <1>1, <1>2
\* First binds stay free after: a step of the sweep.
LEMMA BindSweep ==
  ASSUME KindsInv, KindsInv', StrayInv, BindInv,
         ~Race("slowStart"), ~Race("lateWake"), ~Race("halfReleased"),
         SweepStep
  PROVE  BindInv'
  <1>1. CASE SweepBegins
    <2>1. UNCHANGED <<holder, waker, parked, prog, firstBind>> /\ sweep.pc = "idle"
          /\ \A c \in Apps : ~OnItsWay(c)
      BY <1>1 DEF SweepBegins
    <2>2. sweep'.todo = sweep.todo /\ sweep'.pc = "read"
      BY <1>1 DEF SweepBegins, SweepAt, KindsInv, SweepKinds
    <2>3. sweep'.todo = {} /\ \A c \in Apps : ~OnItsWay(c)' /\ ~AtThePark(c)'
      BY <2>1, <2>2 DEF BindInv, NoneToDo, OnItsWay, AtThePark
    <2>4. firstBind \subseteq Apps
      BY DEF KindsInv, HistoryOK
    <2>. QED BY <2>1, <2>3, <2>4 DEF BindInv, NoneToDo, BindsFreely, ComingIsSeen, NotParked,
                StartIsSeen
  <1>2. CASE SweepReads
    <2>1. UNCHANGED <<holder, waker, parked, newerWakes, prog, firstBind>> /\ sweep.pc = "read"
      BY <1>2 DEF SweepReads
    <2>2. sweep'.reading = prog /\ sweep'.pc = "next"
      BY <1>2 DEF SweepReads, KindsInv, SweepKinds
    <2>3. \A c \in Apps : (OnItsWay(c)' => OnItsWay(c)) /\ ~AtThePark(c)'
      BY <2>1, <2>2 DEF OnItsWay, AtThePark
    <2>4. firstBind \subseteq Apps
      BY DEF KindsInv, HistoryOK
    <2>. QED BY <2>1, <2>2, <2>3, <2>4 DEF BindInv, NoneToDo, BindsFreely, ComingIsSeen,
                NotParked, StartIsSeen, Rising
  <1>3. CASE SweepReleases
    <2>1. UNCHANGED <<waker, parked, newerWakes, prog, firstBind>>
      BY <1>3 DEF SweepReleases
    <2>2. /\ sweep'.app = sweep.app /\ sweep'.pc \in {"rule", "next", "park", "idle"}
          /\ sweep'.pc = "park" => sweep.pc = "downRelease"
          /\ sweep'.pc = "idle" => sweep.pc = "endRelease"
          /\ sweep'.todo = sweep.todo /\ sweep'.reading = sweep.reading
          /\ \A b \in Apps, q \in Ports : Listening(b, q)' => Listening(b, q)
      BY <1>3, SweepLets
    <2>3. \A b \in Apps : (OnItsWay(b)' => OnItsWay(b)) /\ (AtThePark(b)' => AtThePark(b))
      BY <2>1, <2>2 DEF OnItsWay, AtThePark
    <2>4. sweep.pc \in {"upRelease", "downRelease", "endRelease"} /\ NoneToDo'
      BY <1>3, <2>2 DEF SweepReleases, BindInv, NoneToDo
    <2>5. sweep.pc \in {"idle", "endRelease"} => sweep'.pc \in {"idle", "endRelease"}
      BY <1>3, <2>4, SweepLets
    <2>6. \A b \in firstBind : prog'[b] \in Rising
      BY <2>1 DEF BindInv, BindsFreely
    <2>. QED BY <2>1, <2>2, <2>3, <2>4, <2>5, <2>6, BindStill
  <1>4. CASE SweepCounts
    <2>1. UNCHANGED <<holder, waker, parked, newerWakes, prog, firstBind>> /\ sweep.pc = "rule"
      BY <1>4 DEF SweepCounts
    <2>2. /\ sweep'.todo = sweep.todo /\ sweep'.reading = sweep.reading
          /\ sweep'.pc \in {"next", "decide"}
      BY <1>4 DEF SweepCounts, KindsInv, SweepKinds
    <2>3. NoneToDo' /\ \A c \in Apps : (OnItsWay(c)' => OnItsWay(c)) /\ ~AtThePark(c)'
      BY <2>1, <2>2 DEF OnItsWay, AtThePark, NoneToDo
    <2>. QED BY <2>1, <2>2, <2>3, BindStill DEF BindInv, BindsFreely
  <1>5. CASE SweepDecides
    <2>1. UNCHANGED <<holder, waker, parked, newerWakes, prog, firstBind>> /\ sweep.pc = "decide"
      BY <1>5 DEF SweepDecides
    <2>2. /\ sweep'.todo = sweep.todo /\ sweep'.reading = sweep.reading
          /\ sweep'.pc \in {"next", "stop"}
      BY <1>5 DEF SweepDecides, SweepAt, KindsInv, SweepKinds
    <2>3. NoneToDo' /\ \A c \in Apps : (OnItsWay(c)' => OnItsWay(c)) /\ ~AtThePark(c)'
      BY <2>1, <2>2 DEF OnItsWay, AtThePark, NoneToDo
    <2>. QED BY <2>1, <2>2, <2>3, BindStill DEF BindInv, BindsFreely
  <1>6. CASE SweepStops
    <2>1. UNCHANGED <<holder, waker, parked, newerWakes, firstBind>> /\ sweep.pc = "stop"
      BY <1>6 DEF SweepStops
    <2>2. /\ sweep'.todo = sweep.todo /\ sweep'.reading = sweep.reading /\ sweep'.pc = "next"
      BY <1>6 DEF SweepStops, SweepAt, KindsInv, SweepKinds
    <2>3. NoneToDo' /\ \A c \in Apps : (OnItsWay(c)' => OnItsWay(c)) /\ ~AtThePark(c)'
      BY <2>1, <2>2 DEF OnItsWay, AtThePark, NoneToDo
    <2>4. \A c \in firstBind : prog'[c] \in Rising
      <3>1. firstBind \subseteq Apps /\ prog \in [Apps -> States]
        BY DEF KindsInv, HistoryOK, EnvOK
      <3>2. \A c \in firstBind : prog[c] \in Rising
        BY DEF BindInv, BindsFreely
      <3>3. prog' = prog \/ ToldToStop(sweep.app)
        BY <1>6 DEF SweepStops
      <3>. QED BY <3>1, <3>2, <3>3 DEF ToldToStop, Rising
    <2>. QED BY <2>1, <2>2, <2>3, <2>4, BindStill DEF BindInv
  <1>7. CASE SweepNotesOutcome
    <2>1. UNCHANGED <<holder, waker, newerWakes, prog, firstBind>> /\ sweep.pc = "outcome"
      BY <1>7 DEF SweepNotesOutcome
    <2>2. \A c \in Apps : parked'[c] \in {parked[c], NoPort}
      BY <1>7 DEF SweepNotesOutcome, KindsInv, BooksOK, SweepKinds
    <2>3. PICK pc \in {"next", "park", "downRelease"}, rel \in {sweep.release, {<<sweep.app, OpenParker(sweep.app)>>} \ {<<sweep.app, NoPort>>}} :
            sweep' = [sweep EXCEPT !.pc = pc, !.release = rel]
      BY <1>7 DEF SweepNotesOutcome, SweepAt, KindsInv, SweepKinds
    <2>4. /\ sweep'.todo = sweep.todo /\ sweep'.reading = sweep.reading
          /\ sweep'.pc = pc /\ sweep'.app = sweep.app
      BY <2>3 DEF KindsInv, SweepKinds
    <2>5. \A c \in Apps : (OnItsWay(c)' => OnItsWay(c)) /\ (AtThePark(c)' => AtThePark(c))
      BY <2>1, <2>4 DEF OnItsWay, AtThePark
    <2>6. NoneToDo'
      BY <2>4 DEF NoneToDo
    <2>. QED BY <2>1, <2>2, <2>4, <2>5, <2>6, BindStill DEF BindInv, BindsFreely
  <1>8. CASE SweepParks
    <2>1. UNCHANGED <<waker, newerWakes, prog, firstBind>> /\ sweep.pc = "park" /\ sweep.app \in Apps
      BY <1>8 DEF SweepParks, KindsInv, SweepKinds
    <2>2. /\ sweep'.todo = sweep.todo /\ sweep'.reading = sweep.reading /\ sweep'.pc = "next"
      BY <1>8 DEF SweepParks, SweepAt, KindsInv, SweepKinds
    <2>3. ~OnItsWay(sweep.app) /\ sweep.app \notin firstBind
      BY <2>1 DEF BindInv, NotParked, AtThePark
    <2>4. /\ \A c \in Apps \ {sweep.app} : parked'[c] = parked[c]
          /\ \A c \in Apps \ {sweep.app}, p \in Ports : Listening(c, p)' => Listening(c, p)
      BY <1>8, <2>1, SweepParked DEF KindsInv, BooksOK
    <2>9. \A c \in Apps : OnItsWay(c)' <=> OnItsWay(c)
      BY <2>1 DEF OnItsWay
    <2>5. firstBind \subseteq Apps
      BY DEF KindsInv, HistoryOK
    <2>6. BindsFreely'
      <3>1. \A c \in firstBind : c \in Apps \ {sweep.app} /\ prog[c] \in Rising /\ \A p \in Ports : ~Listening(c, p)
        BY <2>3, <2>5 DEF BindInv, BindsFreely
      <3>. QED BY <2>1, <2>4, <3>1 DEF BindsFreely
    <2>7. ComingIsSeen'
      <3>1. \A c \in Apps : OnItsWay(c) => c # sweep.app /\ parked[c] = NoPort /\ newerWakes[c] > 0
        BY <2>1, <2>3 DEF BindInv, ComingIsSeen
      <3>. QED BY <2>1, <2>4, <2>9, <3>1 DEF ComingIsSeen
    <2>8. NotParked' /\ StartIsSeen' /\ NoneToDo'
      BY <2>1, <2>2 DEF BindInv, NotParked, AtThePark, StartIsSeen, NoneToDo
    <2>. QED BY <2>6, <2>7, <2>8 DEF BindInv
  <1>9. CASE SweepEnds
    <2>1. UNCHANGED <<holder, waker, prog, firstBind>>
          /\ parked' = [a \in Apps |-> IF a \in sweep.pass THEN parked[a] ELSE NoPort]
      BY <1>9 DEF SweepEnds
    <2>2. sweep'.pc \in {"idle", "endRelease"} /\ sweep'.todo = {}
      BY <1>9, Kinds DEF SweepEnds, NoPass
    <2>3. \A c \in Apps : (OnItsWay(c)' <=> OnItsWay(c)) /\ ~AtThePark(c)'
      BY <2>1, <2>2 DEF OnItsWay, AtThePark
    <2>4. firstBind \subseteq Apps
      BY DEF KindsInv, HistoryOK
    <2>5. BindsFreely' /\ StartIsSeen' /\ NoneToDo'
      BY <2>1, <2>2 DEF BindInv, BindsFreely, StartIsSeen, NoneToDo
    <2>6. ComingIsSeen' /\ NotParked'
      BY <2>1, <2>2, <2>3, <2>4 DEF BindInv, ComingIsSeen, NotParked
    <2>. QED BY <2>5, <2>6 DEF BindInv
  <1>10. ASSUME NEW b \in Apps, SweepFindsUp(b) PROVE BindInv'
    <2>1. UNCHANGED <<holder, waker, newerWakes, prog, firstBind>> /\ parked' = [parked EXCEPT ![b] = NoPort]
      BY <1>10 DEF SweepFindsUp
    <2>2. PICK pc \in {"next", "rule", "upRelease"}, rel \in {sweep'.release} :
            sweep' = [sweep EXCEPT !.app = b, !.todo = @ \ {b}, !.pc = pc, !.release = rel]
      <3>1. {<<b, OpenParker(b)>>} \ {<<b, NoPort>>} = sweep'.release
        BY <1>10 DEF SweepFindsUp, KindsInv, SweepKinds
      <3>. QED BY <1>10, <3>1 DEF SweepFindsUp, Rule
    <2>3. sweep'.todo \subseteq sweep.todo /\ sweep'.reading = sweep.reading /\ sweep'.pc = pc
      BY <2>2 DEF KindsInv, SweepKinds
    <2>4. \A c \in Apps : (OnItsWay(c)' => OnItsWay(c)) /\ ~AtThePark(c)'
      BY <2>1, <2>3 DEF OnItsWay, AtThePark
    <2>5. sweep.pc = "next" /\ NoneToDo' /\ \A c \in Apps : parked'[c] \in {parked[c], NoPort}
      BY <1>10, <2>1, <2>3 DEF SweepFindsUp, NoneToDo, KindsInv, BooksOK
    <2>. QED BY <2>1, <2>3, <2>4, <2>5, BindStill DEF BindInv, BindsFreely
  <1>11. ASSUME NEW b \in Apps, SweepFindsDown(b) PROVE BindInv'
    <2>1. UNCHANGED <<holder, waker, parked, newerWakes, prog, firstBind>> /\ sweep.pc = "next"
          /\ b \in sweep.todo /\ sweep.reading[b] \notin UpStates
      BY <1>11 DEF SweepFindsDown
    <2>2. PICK pc \in {"next", "outcome"} :
            /\ sweep' = [sweep EXCEPT !.app = b, !.todo = @ \ {b}, !.pc = pc]
            /\ pc = "outcome" => sweep.reading[b] # "STOPPING" /\ ~(newerWakes[b] > 0)
      BY <1>11 DEF SweepFindsDown, WokenSince
    <2>3. /\ sweep'.todo = sweep.todo \ {b} /\ sweep'.reading = sweep.reading
          /\ sweep'.pc = pc /\ sweep'.app = b
      BY <2>2 DEF KindsInv, SweepKinds
    <2>4. sweep.reading[b] \in States /\ firstBind \subseteq Apps
      BY DEF KindsInv, SweepKinds, HistoryOK
    <2>5. \A c \in Apps : OnItsWay(c)' <=> OnItsWay(c)
      BY <2>1 DEF OnItsWay
    <2>6. NotParked'
      <3>1. pc = "outcome" => ~OnItsWay(b) /\ b \notin firstBind
        BY <2>1, <2>2, <2>4 DEF BindInv, ComingIsSeen, StartIsSeen, States
      <3>. QED BY <2>1, <2>3, <2>5, <3>1 DEF NotParked, AtThePark
    <2>7. BindsFreely' /\ StartIsSeen' /\ NoneToDo'
      BY <2>1, <2>3 DEF BindInv, BindsFreely, StartIsSeen, NoneToDo
    <2>8. ComingIsSeen'
      BY <2>1, <2>5 DEF BindInv, ComingIsSeen
    <2>. QED BY <2>6, <2>7, <2>8 DEF BindInv
  <1>. QED BY <1>1, <1>2, <1>3, <1>4, <1>5, <1>6, <1>7, <1>8, <1>9, <1>10, <1>11 DEF
       SweepStep

\* First binds stay free after: a step of a wake.
LEMMA BindWaker ==
  ASSUME KindsInv, KindsInv', StrayInv, BindInv,
         ~Race("slowStart"), ~Race("lateWake"), ~Race("halfReleased"), NEW w \in Wakers,
         WakerStep(w)
  PROVE  BindInv'
  <1>1. CASE RefuseUnlisted(w)
    <2>1. UNCHANGED <<prog, firstBind>>
      BY <1>1 DEF RefuseUnlisted
    <2>2. /\ sweep'.todo = sweep.todo /\ sweep'.reading = sweep.reading
          /\ sweep'.pc = sweep.pc /\ sweep'.app = sweep.app
      BY <1>1, WakerPass DEF Pass, WakerStep
    <2>3. newerWakes' = newerWakes
      BY <1>1 DEF RefuseUnlisted
    <2>4. \A c \in Apps : /\ OnItsWay(c)' => OnItsWay(c)
                         /\ parked'[c] \in {parked[c], NoPort}
                         /\ \A q \in Ports : Listening(c, q)' => Listening(c, q)
      BY <1>1, WakerQuiet DEF OnItsWay
    <2>5. \A c \in Apps : AtThePark(c)' <=> AtThePark(c)
      BY <2>2 DEF AtThePark
    <2>. QED BY <2>1, <2>2, <2>3, <2>4, <2>5, BindStill DEF BindInv, BindsFreely, NoneToDo
  <1>2. CASE RecordWake(w)
    <2> DEFINE a == waker[w].app
    <2>1. /\ UNCHANGED <<holder, sweep, prog, firstBind>> /\ TakeParker(w, "release")
          /\ newerWakes' = [newerWakes EXCEPT ![a] = @ + 1] /\ ~AtThePark(a)
      BY <1>2 DEF RecordWake
    <2>2. /\ a \in Apps /\ parked'[a] = NoPort /\ \A b \in Apps \ {a} : parked'[b] = parked[b]
          /\ \A v \in Wakers \ {w} : waker'[v] = waker[v]
      BY <2>1, Takes DEF KindsInv, WakerKinds
    <2>3. waker'[w].app = a
      BY <2>1, Takes
    <2>4. \A b \in Apps \ {a} : OnItsWay(b)' => OnItsWay(b)
      BY <2>2, <2>3 DEF OnItsWay
    <2>5. newerWakes'[a] > 0 /\ \A b \in Apps \ {a} : newerWakes'[b] = newerWakes[b]
      BY <2>1, <2>2 DEF KindsInv, BooksOK
    <2>6. \A b \in Apps : AtThePark(b)' <=> AtThePark(b)
      BY <2>1 DEF AtThePark
    <2>7. firstBind \subseteq Apps
      BY DEF KindsInv, HistoryOK
    <2> HIDE DEF a
    <2>8. BindsFreely' /\ StartIsSeen' /\ NoneToDo'
      BY <2>1, <2>5, <2>7 DEF BindInv, BindsFreely, StartIsSeen, NoneToDo
    <2>9. ComingIsSeen'
      BY <2>1, <2>2, <2>4, <2>5 DEF BindInv, ComingIsSeen
    <2>10. NotParked'
      BY <2>1, <2>4, <2>6 DEF BindInv, NotParked
    <2>. QED BY <2>8, <2>9, <2>10 DEF BindInv
  <1>3. CASE RefuseWake(w)
    <2>1. UNCHANGED <<prog, firstBind>>
      BY <1>3 DEF RefuseWake
    <2>2. /\ sweep'.todo = sweep.todo /\ sweep'.reading = sweep.reading
          /\ sweep'.pc = sweep.pc /\ sweep'.app = sweep.app
      BY <1>3, WakerPass DEF Pass, WakerStep
    <2>3. newerWakes' = newerWakes
      BY <1>3 DEF RefuseWake
    <2>4. \A c \in Apps : /\ OnItsWay(c)' => OnItsWay(c)
                         /\ parked'[c] \in {parked[c], NoPort}
                         /\ \A q \in Ports : Listening(c, q)' => Listening(c, q)
      <3>1. TakeParker(w, "refused") /\ waker[w].pc = "called" /\ holder' = holder
        BY <1>3 DEF RefuseWake
      <3>2. /\ parked'[waker[w].app] = NoPort /\ \A b \in Apps \ {waker[w].app} : parked'[b] = parked[b]
            /\ waker'[w].pc = "refused" /\ \A v \in Wakers \ {w} : waker'[v] = waker[v]
        BY <3>1, Takes
      <3>. QED BY <3>1, <3>2 DEF OnItsWay
    <2>5. \A c \in Apps : AtThePark(c)' <=> AtThePark(c)
      BY <2>2 DEF AtThePark
    <2>. QED BY <2>1, <2>2, <2>3, <2>4, <2>5, BindStill DEF BindInv, BindsFreely, NoneToDo
  <1>4. CASE Release(w)
    <2>1. UNCHANGED <<prog, firstBind>>
      BY <1>4 DEF Release
    <2>2. /\ sweep'.todo = sweep.todo /\ sweep'.reading = sweep.reading
          /\ sweep'.pc = sweep.pc /\ sweep'.app = sweep.app
      BY <1>4, WakerPass DEF Pass, WakerStep
    <2>3. newerWakes' = newerWakes
      BY <1>4 DEF Release
    <2>4. \A c \in Apps : /\ OnItsWay(c)' => OnItsWay(c)
                         /\ parked'[c] \in {parked[c], NoPort}
                         /\ \A q \in Ports : Listening(c, q)' => Listening(c, q)
      <3>1. /\ UNCHANGED parked /\ \A v \in Wakers \ {w} : waker'[v] = waker[v]
            /\ \A c \in Apps, p \in Ports : Listening(c, p)' => Listening(c, p)
        BY <1>4, Lets
      <3>2. /\ waker[w].pc = "release" => waker'[w].pc = "start" /\ waker'[w].app = waker[w].app
            /\ waker[w].pc = "refused" => waker'[w].pc = "idle"
            /\ waker[w].pc \in {"release", "refused"}
        BY <1>4, Lets
      <3>. QED BY <3>1, <3>2 DEF OnItsWay
    <2>5. \A c \in Apps : AtThePark(c)' <=> AtThePark(c)
      BY <2>2 DEF AtThePark
    <2>. QED BY <2>1, <2>2, <2>3, <2>4, <2>5, BindStill DEF BindInv, BindsFreely, NoneToDo
  <1>5. CASE ReleaseRefused(w)
    <2>1. UNCHANGED <<prog, firstBind>>
      BY <1>5 DEF ReleaseRefused
    <2>2. /\ sweep'.todo = sweep.todo /\ sweep'.reading = sweep.reading
          /\ sweep'.pc = sweep.pc /\ sweep'.app = sweep.app
      BY <1>5, WakerPass DEF Pass, WakerStep
    <2>3. newerWakes' = newerWakes
      BY <1>5 DEF ReleaseRefused
    <2>4. \A c \in Apps : /\ OnItsWay(c)' => OnItsWay(c)
                         /\ parked'[c] \in {parked[c], NoPort}
                         /\ \A q \in Ports : Listening(c, q)' => Listening(c, q)
      <3>1. /\ UNCHANGED parked /\ \A v \in Wakers \ {w} : waker'[v] = waker[v]
            /\ \A c \in Apps, p \in Ports : Listening(c, p)' => Listening(c, p)
        BY <1>5, Lets
      <3>2. /\ waker[w].pc = "release" => waker'[w].pc = "start" /\ waker'[w].app = waker[w].app
            /\ waker[w].pc = "refused" => waker'[w].pc = "idle"
            /\ waker[w].pc \in {"release", "refused"}
        BY <1>5, Lets
      <3>. QED BY <3>1, <3>2 DEF OnItsWay
    <2>5. \A c \in Apps : AtThePark(c)' <=> AtThePark(c)
      BY <2>2 DEF AtThePark
    <2>. QED BY <2>1, <2>2, <2>3, <2>4, <2>5, BindStill DEF BindInv, BindsFreely, NoneToDo
  <1>6. CASE Start(w)
    BY <1>6, BindStarts
  <1>7. CASE StartRaises(w)
    BY <1>7, BindStarts
  <1>8. CASE LaunchLooks(w)
    <2>1. UNCHANGED <<prog, firstBind>>
      BY <1>8 DEF LaunchLooks
    <2>2. /\ sweep'.todo = sweep.todo /\ sweep'.reading = sweep.reading
          /\ sweep'.pc = sweep.pc /\ sweep'.app = sweep.app
      BY <1>8, WakerPass DEF Pass, WakerStep
    <2>3. newerWakes' = newerWakes
      BY <1>8 DEF LaunchLooks
    <2>4. \A c \in Apps : /\ OnItsWay(c)' => OnItsWay(c)
                         /\ parked'[c] \in {parked[c], NoPort}
                         /\ \A q \in Ports : Listening(c, q)' => Listening(c, q)
      BY <1>8, WakerQuiet DEF OnItsWay
    <2>5. \A c \in Apps : AtThePark(c)' <=> AtThePark(c)
      BY <2>2 DEF AtThePark
    <2>. QED BY <2>1, <2>2, <2>3, <2>4, <2>5, BindStill DEF BindInv, BindsFreely, NoneToDo
  <1>9. CASE LaunchConnects(w)
    <2>1. UNCHANGED <<prog, firstBind>>
      BY <1>9 DEF LaunchConnects
    <2>2. /\ sweep'.todo = sweep.todo /\ sweep'.reading = sweep.reading
          /\ sweep'.pc = sweep.pc /\ sweep'.app = sweep.app
      BY <1>9, WakerPass DEF Pass, WakerStep
    <2>3. newerWakes' = newerWakes
      BY <1>9 DEF LaunchConnects
    <2>4. \A c \in Apps : /\ OnItsWay(c)' => OnItsWay(c)
                         /\ parked'[c] \in {parked[c], NoPort}
                         /\ \A q \in Ports : Listening(c, q)' => Listening(c, q)
      <3>1. CASE holder' = holder
        BY <1>9, <3>1, WakerQuiet DEF OnItsWay
      <3>2. CASE holder' # holder
        BY <1>9, <3>2, Connects, BindServes
      <3>. QED BY <3>1, <3>2
    <2>5. \A c \in Apps : AtThePark(c)' <=> AtThePark(c)
      BY <2>2 DEF AtThePark
    <2>. QED BY <2>1, <2>2, <2>3, <2>4, <2>5, BindStill DEF BindInv, BindsFreely, NoneToDo
  <1>. QED BY <1>1, <1>2, <1>3, <1>4, <1>5, <1>6, <1>7, <1>8, <1>9 DEF WakerStep

\* First binds stay free after: the programs, the pages, the registry and the clients.
LEMMA BindWorld ==
  ASSUME KindsInv, KindsInv', StrayInv, BindInv,
         ~Race("slowStart"), ~Race("lateWake"), ~Race("halfReleased"), NEW a \in Apps,
         ProgramStep(a) \/ WorldStep(a)
  PROVE  BindInv'
  <1>1. CASE \/ ProgramBinds(a) \/ ProgramCollides(a) \/ ProgramStays(a) \/ ProgramDies(a)
             \/ ProgramRetries(a) \/ ProgramGivesUp(a) \/ ProgramEnds(a) \/ StopApp(a)
             \/ StartedByOther(a) \/ ShowApp(a) \/ HideApp(a) \/ Reregister(a)
             \/ Unlist(a) \/ Relist(a) \/ BudgetPasses(a)
    <2>1. \A b \in firstBind' : b \in firstBind /\ prog'[b] \in Rising
      <3>1. firstBind \subseteq Apps /\ prog \in [Apps -> States]
        BY DEF KindsInv, HistoryOK, EnvOK
      <3>2. \A b \in firstBind : prog[b] \in Rising
        BY DEF BindInv, BindsFreely
      <3>3. CASE ProgramBinds(a) \/ ProgramExits(a) \/ ProgramEnds(a)
        BY <3>1, <3>2, <3>3 DEF ProgramBinds, ProgramExits, ProgramEnds, Rising
      <3>4. CASE ProgramStays(a) \/ ProgramRetries(a) \/ ProgramGivesUp(a)
        BY <3>1, <3>2, <3>4 DEF ProgramStays, ProgramRetries, ProgramGivesUp, Rising
      <3>5. CASE StopApp(a) \/ StartedByOther(a)
        BY <3>1, <3>2, <3>5 DEF StopApp, ToldToStop, StartedByOther, Startable, Rising
      <3>6. CASE ShowApp(a) \/ HideApp(a) \/ Reregister(a) \/ Unlist(a) \/ Relist(a) \/ BudgetPasses(a)
        BY <3>2, <3>6 DEF ShowApp, HideApp, Reregister, Unlist, Relist, BudgetPasses
      <3>. QED BY <1>1, <3>3, <3>4, <3>5, <3>6 DEF ProgramCollides, ProgramDies
    <2>2. /\ UNCHANGED <<waker, sweep, parked, newerWakes>>
          /\ \A b \in Apps, p \in Ports : Listening(b, p)' <=> Listening(b, p)
      BY <1>1, WorldQuiet DEF ProgramStep
    <2>3. \A b \in Apps : (OnItsWay(b)' <=> OnItsWay(b)) /\ (AtThePark(b)' <=> AtThePark(b))
      BY <2>2 DEF OnItsWay, AtThePark
    <2>. QED BY <2>1, <2>2, <2>3, BindStill DEF BindInv, NoneToDo
  <1>2. ASSUME NEW w \in Wakers, NEW p \in Ports, Accept(w, a, p) PROVE BindInv'
    <2>1. UNCHANGED <<prog, firstBind>>
      BY <1>2 DEF Accept
    <2>2. /\ sweep'.todo = sweep.todo /\ sweep'.reading = sweep.reading
          /\ sweep'.pc = sweep.pc /\ sweep'.app = sweep.app
      BY <1>2, WakerPass DEF Pass, WakerStep
    <2>3. newerWakes' = newerWakes
      BY <1>2 DEF Accept
    <2>4. \A c \in Apps : /\ OnItsWay(c)' => OnItsWay(c)
                         /\ parked'[c] \in {parked[c], NoPort}
                         /\ \A q \in Ports : Listening(c, q)' => Listening(c, q)
      BY <1>2, BindServes DEF Accept
    <2>5. \A c \in Apps : AtThePark(c)' <=> AtThePark(c)
      BY <2>2 DEF AtThePark
    <2>. QED BY <2>1, <2>2, <2>3, <2>4, <2>5, BindStill DEF BindInv, BindsFreely, NoneToDo
  <1>3. ASSUME NEW w \in Wakers, NEW for \in {"route", "launch"}, AskForApp(w, a, for)
        PROVE  BindInv'
    <2>1. UNCHANGED <<prog, firstBind>>
      BY <1>3 DEF AskForApp
    <2>2. /\ sweep'.todo = sweep.todo /\ sweep'.reading = sweep.reading
          /\ sweep'.pc = sweep.pc /\ sweep'.app = sweep.app
      BY <1>3, WakerPass DEF Pass, WakerStep
    <2>3. newerWakes' = newerWakes
      BY <1>3 DEF AskForApp
    <2>4. \A c \in Apps : /\ OnItsWay(c)' => OnItsWay(c)
                         /\ parked'[c] \in {parked[c], NoPort}
                         /\ \A q \in Ports : Listening(c, q)' => Listening(c, q)
      <3>1. /\ UNCHANGED <<holder, parked>> /\ waker'[w].pc = "called"
            /\ \A v \in Wakers \ {w} : waker'[v] = waker[v]
        BY <1>3 DEF AskForApp, Calling, KindsInv
      <3>. QED BY <3>1 DEF OnItsWay
    <2>5. \A c \in Apps : AtThePark(c)' <=> AtThePark(c)
      BY <2>2 DEF AtThePark
    <2>. QED BY <2>1, <2>2, <2>3, <2>4, <2>5, BindStill DEF BindInv, BindsFreely, NoneToDo
  <1>. QED BY <1>1, <1>2, <1>3 DEF ProgramStep, WorldStep

\* First binds stay free after: the clocks and a restart.
LEMMA BindOther ==
  ASSUME KindsInv, KindsInv', StrayInv, BindInv,
         ~Race("slowStart"), ~Race("lateWake"), ~Race("halfReleased"),
         GracePasses \/ MarkVisited \/ Restart \/ UNCHANGED vars
  PROVE  BindInv'
  <1>1. CASE \/ GracePasses \/ MarkVisited
    <2>1. UNCHANGED <<prog, firstBind, holder, parked, newerWakes, waker, sweep>>
      BY <1>1 DEF GracePasses, MarkVisited
    <2>. QED BY <2>1 DEF BindInv, BindsFreely, NoneToDo, ComingIsSeen, NotParked, StartIsSeen,
                OnItsWay, AtThePark
  <1>2. CASE Restart
    <2>1. /\ parked' = [a \in Apps |-> NoPort] /\ waker' = [w \in Wakers |-> AtRest] /\ sweep' = NoPass
          /\ UNCHANGED <<prog, firstBind>>
          /\ holder' = [a \in Apps |-> [p \in Ports |-> IF Listening(a, p) THEN "free" ELSE holder[a][p]]]
      BY <1>2 DEF Restart
    <2>2. sweep'.todo = {} /\ sweep'.pc = "idle" /\ \A c \in Apps : ~OnItsWay(c)'
      BY <2>1, Kinds DEF NoPass, OnItsWay
    <2>3. \A c \in Apps, p \in Ports : ~Listening(c, p)'
      BY <2>1
    <2>4. firstBind \subseteq Apps
      BY DEF KindsInv, HistoryOK
    <2>5. \A c \in Apps : ~AtThePark(c)'
      BY <2>2 DEF AtThePark
    <2>. QED BY <2>1, <2>2, <2>3, <2>4, <2>5 DEF BindInv, BindsFreely, NoneToDo, ComingIsSeen,
                NotParked, StartIsSeen
  <1>3. CASE UNCHANGED vars
    <2>1. UNCHANGED <<prog, firstBind, holder, parked, newerWakes, waker, sweep>>
      BY <1>3 DEF vars
    <2>. QED BY <2>1 DEF BindInv, BindsFreely, NoneToDo, ComingIsSeen, NotParked, StartIsSeen,
                OnItsWay, AtThePark
  <1>. QED BY <1>1, <1>2, <1>3

\* Every step leaves first binds free.
LEMMA BindStep ==
  ASSUME KindsInv, KindsInv', StrayInv, BindInv,
         ~Race("slowStart"), ~Race("lateWake"), ~Race("halfReleased"), [Next]_vars
  PROVE  BindInv'
  BY BindSweep, BindWaker, BindWorld, BindOther DEF Next

-------------------------------------------------------------------------------
(* Wakes start a program within the budget.                                   *)

\* The wakes of an app that are recorded and have yet to start it; what they and the
\* starts since it was last up come to.
Coming(a) == {w \in Wakers : waker[w].app = a /\ waker[w].pc \in {"release", "start"}}
Ahead(a) == Cardinality(Coming(a))
Due(a) == starts[a] + Ahead(a)

\* A program that has come up, or was stopped, has no start held against it.
UpIsPaid == \A a \in Apps : prog[a] \in {"RUNNING", "STOPPING", "STOPPED", "EXITED"} => starts[a] = 0

\* Every start, made or coming, has a recorded wake.
DueWithin == \A a \in Apps : Due(a) <= WakeBudget
DueIsRecorded == \A a \in listed : Due(a) <= olderWakes[a] + newerWakes[a]

\* The pass may forget the wakes before its reading: those still to come are newer, and
\* an app it read as up or stopped has no other start held against it.
ReadIsRecent == sweep.pc = "read" => \A a \in listed : Ahead(a) <= newerWakes[a]
AtHand(a) == a \in sweep.todo \/ (sweep.pc = "outcome" /\ sweep.app = a)
ForgetsOnlyOld ==
    \A a \in Apps : AtHand(a) /\ sweep.reading[a] \in {"RUNNING", "STOPPED"} => Due(a) <= newerWakes[a]
PassSeesAll == sweep.pc \notin {"idle", "read", "endRelease"} => listed \subseteq sweep.pass
BudgetInv ==
    NoneToDo /\ UpIsPaid /\ DueWithin /\ DueIsRecorded /\ ReadIsRecent /\ ForgetsOnlyOld /\ PassSeesAll

\* Wakes are counted in natural numbers.
LEMMA Counted ==
  ASSUME NEW a \in Apps
  PROVE  /\ IsFiniteSet(Coming(a)) /\ Ahead(a) \in Nat /\ Ahead(a)' \in Nat
         /\ Coming(a)' = Coming(a) => Ahead(a)' = Ahead(a)
         /\ ~OnItsWay(a) => Ahead(a) = 0
  <1>1. Coming(a) \subseteq Wakers /\ Coming(a)' \subseteq Wakers
    BY DEF Coming
  <1>2. IsFiniteSet(Coming(a)) /\ IsFiniteSet(Coming(a)')
    BY <1>1, FS_Subset
  <1>3. Ahead(a) \in Nat /\ Ahead(a)' \in Nat
    BY <1>2, FS_CardinalityType DEF Ahead
  <1>4. ~OnItsWay(a) => Coming(a) = {}
    BY DEF OnItsWay, Coming
  <1>. QED BY <1>2, <1>3, <1>4, FS_EmptySet DEF Ahead

\* What is due is a natural number.
LEMMA DueCounts ==
  ASSUME KindsInv, KindsInv'
  PROVE  \A a \in Apps : starts[a] \in Nat /\ Ahead(a) \in Nat /\ Due(a) \in Nat /\ Due(a)' \in Nat
  <1>1. ASSUME NEW a \in Apps
        PROVE  Ahead(a) \in Nat /\ Ahead(a)' \in Nat
    BY <1>1, Counted
  <1>2. ASSUME NEW a \in Apps
        PROVE  starts[a] \in Nat /\ starts'[a] \in Nat
    BY <1>2 DEF KindsInv, HistoryOK
  <1>. QED BY <1>1, <1>2 DEF Due

\* A stop settles the starts of what it stops.
LEMMA StopIsPaid ==
  ASSUME KindsInv, UpIsPaid, NEW a \in Apps, ToldToStop(a)
  PROVE  UpIsPaid' /\ \A c \in Apps : starts'[c] \in {starts[c], 0}
  <1>1. starts \in [Apps -> Nat] /\ prog \in [Apps -> States]
    BY DEF KindsInv, HistoryOK, EnvOK
  <1>2. starts'[a] = 0 /\ \A c \in Apps \ {a} : starts'[c] = starts[c] /\ prog'[c] = prog[c]
    BY <1>1 DEF ToldToStop
  <1>. QED BY <1>2 DEF UpIsPaid

\* Steps that record no wake, and forget none that something is due for, keep all of
\* this as long as they start nothing without taking its wake.
LEMMA BudgetStill ==
  ASSUME KindsInv, KindsInv', BudgetInv, UpIsPaid', NoneToDo', newerWakes' = newerWakes,
         \A a \in Apps : /\ Due(a)' <= Due(a) /\ Ahead(a)' <= Ahead(a)
                         /\ olderWakes'[a] = olderWakes[a] \/ Due(a)' <= newerWakes[a]
                         /\ AtHand(a)' => AtHand(a),
         listed' \subseteq listed, sweep'.reading = sweep.reading, sweep'.pass = sweep.pass,
         sweep'.pc = "read" => sweep.pc = "read",
         sweep'.pc \notin {"idle", "endRelease", "read"} => sweep.pc \notin {"idle", "read", "endRelease"}
  PROVE  BudgetInv'
  <1>1. \A a \in Apps : /\ Due(a) \in Nat /\ Due(a)' \in Nat /\ Ahead(a) \in Nat /\ Ahead(a)' \in Nat
                        /\ olderWakes[a] \in Nat /\ newerWakes[a] \in Nat
                        /\ olderWakes'[a] \in Nat
    <2>1. ASSUME NEW a \in Apps
          PROVE  Ahead(a) \in Nat /\ Ahead(a)' \in Nat
      BY <2>1, Counted
    <2>2. ASSUME NEW a \in Apps
          PROVE  /\ starts[a] \in Nat /\ starts'[a] \in Nat
                 /\ olderWakes[a] \in Nat /\ newerWakes[a] \in Nat /\ olderWakes'[a] \in Nat
      BY <2>2 DEF KindsInv, HistoryOK, BooksOK
    <2>. QED BY <2>1, <2>2 DEF Due
  <1>2. listed \subseteq Apps
    BY DEF KindsInv, EnvOK
  <1>3. DueWithin'
    BY <1>1 DEF BudgetInv, DueWithin
  <1>4. DueIsRecorded'
    BY <1>1, <1>2 DEF BudgetInv, DueIsRecorded
  <1>5. ReadIsRecent'
    BY <1>1, <1>2 DEF BudgetInv, ReadIsRecent
  <1>6. ForgetsOnlyOld'
    BY <1>1 DEF BudgetInv, ForgetsOnlyOld
  <1>7. PassSeesAll'
    BY DEF BudgetInv, PassSeesAll
  <1>. QED BY <1>3, <1>4, <1>5, <1>6, <1>7 DEF BudgetInv

\* Where no wake comes or goes, the starts alone decide what is due.
LEMMA StartsDecide ==
  ASSUME KindsInv, KindsInv', \A a \in Apps : Coming(a)' = Coming(a) /\ starts'[a] \in {starts[a], 0}
  PROVE  \A a \in Apps : Due(a)' <= Due(a) /\ Ahead(a)' <= Ahead(a)
  <1>1. ASSUME NEW a \in Apps
        PROVE  Due(a)' <= Due(a) /\ Ahead(a)' <= Ahead(a)
    <2>1. Ahead(a) \in Nat /\ Ahead(a)' = Ahead(a)
      BY <1>1, Counted
    <2>2. starts[a] \in Nat /\ starts'[a] \in Nat /\ starts'[a] <= starts[a]
      BY <1>1 DEF KindsInv, HistoryOK
    <2>. QED BY <2>1, <2>2 DEF Due
  <1>. QED BY <1>1

\* Serving, asking, refusing, releasing and waiting: no wake comes or goes.
LEMMA ComingKept ==
  ASSUME KindsInv, NEW w \in Wakers,
         \/ RefuseUnlisted(w) \/ RefuseWake(w) \/ Release(w) \/ ReleaseRefused(w)
         \/ LaunchLooks(w) \/ LaunchConnects(w)
         \/ \E a \in Apps : \/ \E p \in Ports : Accept(w, a, p)
                            \/ \E for \in {"route", "launch"} : AskForApp(w, a, for)
  PROVE  /\ \A c \in Apps : Coming(c)' = Coming(c)
         /\ UNCHANGED <<olderWakes, newerWakes, starts, prog, listed>>
  <1> DEFINE Same == /\ \A v \in Wakers \ {w} : waker'[v].pc = waker[v].pc /\ waker'[v].app = waker[v].app
                     /\ \/ /\ waker[w].pc \notin {"release", "start"}
                           /\ waker'[w].pc \notin {"release", "start"}
                        \/ /\ waker[w].pc = "release" /\ waker'[w].pc = "start"
                           /\ waker'[w].app = waker[w].app
  <1>1. UNCHANGED <<olderWakes, newerWakes, starts, prog, listed>>
    BY DEF RefuseUnlisted, RefuseWake, Release, ReleaseRefused, LaunchLooks, LaunchConnects,
           Accept, AskForApp
  <1>2. CASE RefuseUnlisted(w) \/ LaunchLooks(w) \/ (LaunchConnects(w) /\ UNCHANGED holder)
    <2>1. Same
      <3>1. waker[w].pc # "start"
        BY <1>2 DEF RefuseUnlisted, LaunchLooks, LaunchConnects
      <3>. QED BY <1>2, <3>1, WakerQuiet
    <2>. QED BY <1>1, <2>1 DEF Coming
  <1>3. CASE RefuseWake(w)
    <2>1. TakeParker(w, "refused") /\ waker[w].pc = "called"
      BY <1>3 DEF RefuseWake
    <2>2. Same
      BY <2>1, Takes
    <2>. QED BY <1>1, <2>2 DEF Coming
  <1>4. CASE Release(w) \/ ReleaseRefused(w)
    <2>1. Same
      BY <1>4, Lets
    <2>. QED BY <1>1, <2>1 DEF Coming
  <1>5. CASE (LaunchConnects(w) /\ ~UNCHANGED holder) \/ \E a \in Apps, p \in Ports : Accept(w, a, p)
    <2>1. waker[w].pc \notin {"release", "start"} /\ \E a \in Apps, p \in Ports : Serve(w, a, p)
      BY <1>5, Connects DEF Accept
    <2>2. Same
      BY <2>1, ServesWakers
    <2>. QED BY <1>1, <2>2 DEF Coming
  <1>6. CASE \E a \in Apps, for \in {"route", "launch"} : AskForApp(w, a, for)
    <2>1. Same
      BY <1>6 DEF AskForApp, Calling, KindsInv
    <2>. QED BY <1>1, <2>1 DEF Coming
  <1>. QED BY <1>2, <1>3, <1>4, <1>5, <1>6

\* A start takes its wake, and no other.
LEMMA ComingTaken ==
  ASSUME KindsInv, NEW w \in Wakers, Start(w) \/ StartRaises(w),
         NEW a \in Apps, waker[w].app = a
  PROVE  /\ Ahead(a) \in Nat /\ Ahead(a) > 0 /\ Ahead(a)' = Ahead(a) - 1
         /\ \A c \in Apps \ {a} : Ahead(c)' = Ahead(c)
  <1>1. waker[w].pc = "start"
    BY DEF KindsInv, WakerKinds, Start, StartRaises
  <1>2. /\ waker'[w].pc \in {"idle", "poll", "connect"}
        /\ \A v \in Wakers \ {w} : waker'[v] = waker[v]
    BY WakerQuiet
  <1>3. w \in Coming(a) /\ Coming(a)' = Coming(a) \ {w}
    BY <1>1, <1>2 DEF Coming
  <1>4. \A c \in Apps \ {a} : Coming(c)' = Coming(c)
    BY <1>1, <1>2 DEF Coming
  <1>5. IsFiniteSet(Coming(a)) /\ Ahead(a) \in Nat /\ Ahead(a)' \in Nat
    BY <1>1, Counted
  <1>6. Ahead(a)' = Ahead(a) - 1
    <2>1. Cardinality(Coming(a) \ {w}) = Cardinality(Coming(a)) - 1
      BY <1>3, <1>5, FS_RemoveElement
    <2>2. Cardinality(Coming(a)') = Cardinality(Coming(a)) - 1
      BY <1>3, <2>1
    <2>. QED BY <2>2 DEF Ahead
  <1>. QED BY <1>1, <1>4, <1>5, <1>6, Counted

\* A recorded wake is one more to come.
LEMMA ComingJoined ==
  ASSUME KindsInv, NEW w \in Wakers, RecordWake(w),
         NEW a \in Apps, waker[w].app = a
  PROVE  /\ Ahead(a) \in Nat /\ Ahead(a)' = Ahead(a) + 1
         /\ \A c \in Apps \ {a} : Ahead(c)' = Ahead(c)
  <1>1. waker[w].pc = "called" /\ TakeParker(w, "release")
    BY DEF KindsInv, WakerKinds, RecordWake
  <1>2. /\ waker'[w].pc = "release" /\ waker'[w].app = a
        /\ \A v \in Wakers \ {w} : waker'[v] = waker[v]
    BY <1>1, Takes
  <1>3. w \notin Coming(a) /\ Coming(a)' = Coming(a) \cup {w}
    BY <1>1, <1>2 DEF Coming
  <1>4. \A c \in Apps \ {a} : Coming(c)' = Coming(c)
    BY <1>1, <1>2 DEF Coming
  <1>5. IsFiniteSet(Coming(a)) /\ Ahead(a) \in Nat
    BY <1>1, Counted
  <1>6. Ahead(a)' = Ahead(a) + 1
    BY <1>3, <1>5, FS_AddElement DEF Ahead
  <1>. QED BY <1>1, <1>4, <1>5, <1>6, Counted

\* Wakes stay within the budget in: a step of the sweep.
LEMMA BudgetSweep ==
  ASSUME KindsInv, KindsInv', BudgetInv, ~Race("slowStart"), ~Race("relist"),
         SweepStep
  PROVE  BudgetInv'
  <1>1. CASE SweepBegins
    <2>1. UNCHANGED <<waker, starts, prog, listed>> /\ \A c \in Apps : ~OnItsWay(c)
          /\ olderWakes' = [a \in Apps |-> olderWakes[a] + newerWakes[a]]
      BY <1>1 DEF SweepBegins
    <2>2. sweep'.todo = sweep.todo /\ sweep'.pc = "read" /\ sweep.pc = "idle"
      BY <1>1 DEF SweepBegins, SweepAt, KindsInv, SweepKinds
    <2>3. sweep'.todo = {}
      BY <2>2 DEF BudgetInv, NoneToDo
    <2>4. \A c \in Apps : Ahead(c)' = 0 /\ Due(c)' = Due(c)
      <3>1. \A c \in Apps : Coming(c)' = Coming(c)
        BY <2>1 DEF Coming
      <3>. QED BY <2>1, <3>1, Counted DEF Due
    <2>5. \A c \in Apps : olderWakes'[c] = olderWakes[c] + newerWakes[c] /\ newerWakes'[c] = 0
      BY <1>1 DEF SweepBegins
    <2>6. listed \subseteq Apps
      BY DEF KindsInv, EnvOK
    <2>7. DueIsRecorded'
      <3>1. \A c \in listed : Due(c) <= olderWakes[c] + newerWakes[c]
        BY DEF BudgetInv, DueIsRecorded
      <3>2. \A c \in Apps : olderWakes[c] \in Nat /\ newerWakes[c] \in Nat
        BY DEF KindsInv, BooksOK
      <3>. QED BY <2>1, <2>4, <2>5, <2>6, <3>1, <3>2 DEF DueIsRecorded
    <2>8. UpIsPaid' /\ DueWithin'
      BY <2>1, <2>4 DEF BudgetInv, UpIsPaid, DueWithin
    <2>9. ReadIsRecent'
      BY <2>1, <2>4, <2>5, <2>6 DEF ReadIsRecent
    <2>10. NoneToDo' /\ ForgetsOnlyOld' /\ PassSeesAll'
      BY <2>2, <2>3 DEF NoneToDo, ForgetsOnlyOld, AtHand, PassSeesAll
    <2>. QED BY <2>7, <2>8, <2>9, <2>10 DEF BudgetInv
  <1>2. CASE SweepReads
    <2>1. UNCHANGED <<waker, starts, prog, listed, olderWakes, newerWakes>> /\ sweep.pc = "read"
      BY <1>2 DEF SweepReads
    <2>2. /\ sweep'.todo = listed /\ sweep'.pass = listed
          /\ sweep'.pc = "next" /\ sweep'.reading = prog
      BY <1>2 DEF SweepReads, KindsInv, SweepKinds
    <2>3. \A c \in Apps : Ahead(c)' = Ahead(c) /\ Due(c)' = Due(c) /\ Ahead(c) \in Nat
      <3>1. \A c \in Apps : Coming(c)' = Coming(c)
        BY <2>1 DEF Coming
      <3>. QED BY <2>1, <3>1, Counted DEF Due
    <2>4. listed \subseteq Apps
      BY DEF KindsInv, EnvOK
    <2>5. UpIsPaid' /\ DueWithin' /\ DueIsRecorded'
      BY <2>1, <2>3, <2>4 DEF BudgetInv, UpIsPaid, DueWithin, DueIsRecorded
    <2>6. ForgetsOnlyOld'
      <3>1. ASSUME NEW c \in listed, prog[c] \in {"RUNNING", "STOPPED"}
            PROVE  Due(c) <= newerWakes[c]
        <4>1. starts[c] = 0 /\ Ahead(c) <= newerWakes[c]
          BY <2>1, <2>4, <3>1 DEF BudgetInv, UpIsPaid, ReadIsRecent
        <4>. QED BY <2>3, <2>4, <3>1, <4>1 DEF Due
      <3>. QED BY <2>1, <2>2, <2>3, <3>1 DEF ForgetsOnlyOld, AtHand
    <2>7. NoneToDo' /\ ReadIsRecent' /\ PassSeesAll'
      BY <2>1, <2>2 DEF NoneToDo, ReadIsRecent, PassSeesAll
    <2>. QED BY <2>5, <2>6, <2>7 DEF BudgetInv
  <1>3. CASE SweepReleases
    <2>1. UNCHANGED <<waker, olderWakes, newerWakes, starts, prog, listed>>
      BY <1>3 DEF SweepReleases
    <2>2. \A c \in Apps : Coming(c)' = Coming(c)
      BY <2>1 DEF Coming
    <2>3. UpIsPaid'
      BY <2>1 DEF BudgetInv, UpIsPaid
    <2>4. \A c \in Apps : Due(c)' <= Due(c) /\ Ahead(c)' <= Ahead(c)
      BY <2>1, <2>2, StartsDecide
    <2>5. /\ sweep'.app = sweep.app /\ sweep'.pc \in {"rule", "next", "park", "idle"}
          /\ sweep'.pc = "idle" <=> sweep.pc = "endRelease"
          /\ sweep'.todo = sweep.todo /\ sweep'.pass = sweep.pass /\ sweep'.reading = sweep.reading
      BY <1>3, SweepLets
    <2>6. sweep.pc \in {"upRelease", "downRelease", "endRelease"}
      BY <1>3 DEF SweepReleases
    <2>7. NoneToDo' /\ \A c \in Apps : AtHand(c)' => AtHand(c)
      BY <2>5, <2>6 DEF BudgetInv, NoneToDo, AtHand
    <2>. QED BY <2>1, <2>3, <2>4, <2>5, <2>6, <2>7, BudgetStill
  <1>4. CASE SweepCounts
    <2>1. UNCHANGED <<waker, olderWakes, newerWakes, starts, prog, listed>>
      BY <1>4 DEF SweepCounts
    <2>2. \A c \in Apps : Coming(c)' = Coming(c)
      BY <2>1 DEF Coming
    <2>3. UpIsPaid'
      BY <2>1 DEF BudgetInv, UpIsPaid
    <2>4. \A c \in Apps : Due(c)' <= Due(c) /\ Ahead(c)' <= Ahead(c)
      BY <2>1, <2>2, StartsDecide
    <2>5. /\ sweep.pc = "rule" /\ sweep'.todo = sweep.todo /\ sweep'.pass = sweep.pass
          /\ sweep'.reading = sweep.reading /\ sweep'.pc \in {"next", "decide"}
      BY <1>4 DEF SweepCounts, SweepAt, KindsInv, SweepKinds
    <2>6. NoneToDo' /\ \A c \in Apps : AtHand(c)' => AtHand(c)
      BY <2>5 DEF NoneToDo, AtHand
    <2>. QED BY <2>1, <2>3, <2>4, <2>5, <2>6, BudgetStill
  <1>5. CASE SweepDecides
    <2>1. UNCHANGED <<waker, olderWakes, newerWakes, starts, prog, listed>>
      BY <1>5 DEF SweepDecides
    <2>2. \A c \in Apps : Coming(c)' = Coming(c)
      BY <2>1 DEF Coming
    <2>3. UpIsPaid'
      BY <2>1 DEF BudgetInv, UpIsPaid
    <2>4. \A c \in Apps : Due(c)' <= Due(c) /\ Ahead(c)' <= Ahead(c)
      BY <2>1, <2>2, StartsDecide
    <2>5. /\ sweep.pc = "decide" /\ sweep'.todo = sweep.todo /\ sweep'.pass = sweep.pass
          /\ sweep'.reading = sweep.reading /\ sweep'.pc \in {"next", "stop"}
      BY <1>5 DEF SweepDecides, SweepAt, KindsInv, SweepKinds
    <2>6. NoneToDo' /\ \A c \in Apps : AtHand(c)' => AtHand(c)
      BY <2>5 DEF NoneToDo, AtHand
    <2>. QED BY <2>1, <2>3, <2>4, <2>5, <2>6, BudgetStill
  <1>6. CASE SweepStops
    <2>1. UNCHANGED <<waker, olderWakes, newerWakes, listed>>
      BY <1>6 DEF SweepStops
    <2>2. \A c \in Apps : Coming(c)' = Coming(c)
      BY <2>1 DEF Coming
    <2>3. UpIsPaid' /\ \A c \in Apps : starts'[c] \in {starts[c], 0}
      <3>1. UNCHANGED <<prog, starts>> \/ ToldToStop(sweep.app)
        BY <1>6 DEF SweepStops
      <3>. QED BY <3>1, StopIsPaid DEF KindsInv, SweepKinds, BudgetInv, UpIsPaid
    <2>4. \A c \in Apps : Due(c)' <= Due(c) /\ Ahead(c)' <= Ahead(c)
      BY <2>2, <2>3, StartsDecide
    <2>5. /\ sweep.pc = "stop" /\ sweep'.todo = sweep.todo /\ sweep'.pass = sweep.pass
          /\ sweep'.reading = sweep.reading /\ sweep'.pc = "next"
      BY <1>6 DEF SweepStops, SweepAt, KindsInv, SweepKinds
    <2>6. NoneToDo' /\ \A c \in Apps : AtHand(c)' => AtHand(c)
      BY <2>5 DEF NoneToDo, AtHand
    <2>. QED BY <2>1, <2>3, <2>4, <2>5, <2>6, BudgetStill
  <1>7. CASE SweepNotesOutcome
    <2>1. UNCHANGED <<waker, newerWakes, starts, prog, listed>>
      BY <1>7 DEF SweepNotesOutcome
    <2>2. \A c \in Apps : Coming(c)' = Coming(c)
      BY <2>1 DEF Coming
    <2>3. UpIsPaid'
      BY <2>1 DEF BudgetInv, UpIsPaid
    <2>4. \A c \in Apps : Due(c)' <= Due(c) /\ Ahead(c)' <= Ahead(c)
      BY <2>1, <2>2, StartsDecide
    <2>5. PICK pc \in {"next", "park", "downRelease"}, rel \in {sweep.release, {<<sweep.app, OpenParker(sweep.app)>>} \ {<<sweep.app, NoPort>>}} :
            sweep' = [sweep EXCEPT !.pc = pc, !.release = rel]
      BY <1>7 DEF SweepNotesOutcome, SweepAt, KindsInv, SweepKinds
    <2>6. /\ sweep'.todo = sweep.todo /\ sweep'.pass = sweep.pass /\ sweep'.reading = sweep.reading
          /\ sweep'.pc = pc /\ sweep'.app = sweep.app
      BY <2>5 DEF KindsInv, SweepKinds
    <2>7. sweep.pc = "outcome" /\ sweep.app \in Apps
      BY <1>7 DEF SweepNotesOutcome, KindsInv, SweepKinds
    <2>8. NoneToDo' /\ \A c \in Apps : AtHand(c)' => AtHand(c)
      BY <2>6, <2>7 DEF NoneToDo, AtHand
    <2>9. \A c \in Apps : olderWakes'[c] = olderWakes[c] \/ Due(c)' <= newerWakes[c]
      <3> DEFINE b == sweep.app
      <3>1. CASE sweep.reading[b] = "STOPPED" /\ b \in awaiting
        <4>1. olderWakes' = [olderWakes EXCEPT ![b] = 0]
          BY <1>7, <3>1 DEF SweepNotesOutcome, ForgetWakes
        <4>2. \A c \in Apps : Due(c)' = Due(c)
          BY <2>1, <2>2, Counted DEF Due
        <4>3. Due(b) <= newerWakes[b]
          BY <2>7, <3>1 DEF BudgetInv, ForgetsOnlyOld, AtHand
        <4>4. \A c \in Apps : c # b => olderWakes'[c] = olderWakes[c]
          BY <4>1 DEF KindsInv, BooksOK
        <4>5. ASSUME NEW c \in Apps
              PROVE  olderWakes'[c] = olderWakes[c] \/ Due(c)' <= newerWakes[c]
          <5>1. CASE c = b
            <6>1. Due(c)' = Due(c)
              BY <4>2, <4>5
            <6>2. Due(c) <= newerWakes[c]
              BY <4>3, <5>1
            <6>. QED BY <6>1, <6>2
          <5>2. CASE c # b
            BY <4>4, <4>5, <5>2
          <5>. QED BY <5>1, <5>2
        <4>. QED BY <4>5
      <3>2. CASE ~(sweep.reading[b] = "STOPPED" /\ b \in awaiting)
        BY <1>7, <3>2 DEF SweepNotesOutcome
      <3>. QED BY <3>1, <3>2
    <2>. QED BY <2>1, <2>3, <2>4, <2>6, <2>7, <2>8, <2>9, BudgetStill
  <1>8. CASE SweepParks
    <2>1. UNCHANGED <<waker, olderWakes, newerWakes, starts, prog, listed>>
      BY <1>8 DEF SweepParks
    <2>2. \A c \in Apps : Coming(c)' = Coming(c)
      BY <2>1 DEF Coming
    <2>3. UpIsPaid'
      BY <2>1 DEF BudgetInv, UpIsPaid
    <2>4. \A c \in Apps : Due(c)' <= Due(c) /\ Ahead(c)' <= Ahead(c)
      BY <2>1, <2>2, StartsDecide
    <2>5. /\ sweep.pc = "park" /\ sweep'.todo = sweep.todo /\ sweep'.pass = sweep.pass
          /\ sweep'.reading = sweep.reading /\ sweep'.pc \in {"next"}
      BY <1>8 DEF SweepParks, SweepAt, KindsInv, SweepKinds
    <2>6. NoneToDo' /\ \A c \in Apps : AtHand(c)' => AtHand(c)
      BY <2>5 DEF NoneToDo, AtHand
    <2>. QED BY <2>1, <2>3, <2>4, <2>5, <2>6, BudgetStill
  <1>9. CASE SweepEnds
    <2>1. UNCHANGED <<waker, prog, listed>> /\ sweep.pc = "next"
          /\ starts' = [a \in Apps |-> IF a \in sweep.pass THEN starts[a] ELSE 0]
          /\ olderWakes' = [a \in Apps |-> IF a \in sweep.pass THEN olderWakes[a] ELSE 0]
          /\ newerWakes' = [a \in Apps |-> IF a \in sweep.pass THEN newerWakes[a] ELSE 0]
      BY <1>9 DEF SweepEnds
    <2>2. sweep'.todo = {} /\ sweep'.pc \in {"idle", "endRelease"}
      BY <1>9, Kinds DEF SweepEnds, NoPass
    <2>3. \A c \in Apps : Coming(c)' = Coming(c) /\ starts'[c] \in {starts[c], 0}
      BY <2>1 DEF Coming
    <2>4. \A c \in Apps : Due(c)' <= Due(c) /\ Due(c) \in Nat /\ Due(c)' \in Nat
      BY <2>3, StartsDecide, DueCounts
    <2>5. listed \subseteq sweep.pass /\ listed \subseteq Apps
      BY <2>1 DEF BudgetInv, PassSeesAll, KindsInv, EnvOK
    <2>6. UpIsPaid'
      BY <2>1 DEF BudgetInv, UpIsPaid
    <2>7. DueWithin'
      BY <2>4 DEF BudgetInv, DueWithin
    <2>8. DueIsRecorded'
      <3>1. \A c \in listed : Due(c) <= olderWakes[c] + newerWakes[c]
        BY DEF BudgetInv, DueIsRecorded
      <3>2. \A c \in listed : olderWakes'[c] = olderWakes[c] /\ newerWakes'[c] = newerWakes[c]
        BY <2>1, <2>5
      <3>3. \A c \in Apps : olderWakes[c] \in Nat /\ newerWakes[c] \in Nat
        BY DEF KindsInv, BooksOK
      <3>. QED BY <2>1, <2>4, <2>5, <3>1, <3>2, <3>3 DEF DueIsRecorded
    <2>9. NoneToDo' /\ ReadIsRecent' /\ ForgetsOnlyOld' /\ PassSeesAll'
      BY <2>2 DEF NoneToDo, ReadIsRecent, ForgetsOnlyOld, AtHand, PassSeesAll
    <2>. QED BY <2>6, <2>7, <2>8, <2>9 DEF BudgetInv
  <1>10. ASSUME NEW b \in Apps, SweepFindsUp(b) PROVE BudgetInv'
    <2>1. UNCHANGED <<waker, newerWakes, starts, prog, listed>>
      BY <1>10 DEF SweepFindsUp
    <2>2. \A c \in Apps : Coming(c)' = Coming(c)
      BY <2>1 DEF Coming
    <2>3. UpIsPaid'
      BY <2>1 DEF BudgetInv, UpIsPaid
    <2>4. \A c \in Apps : Due(c)' <= Due(c) /\ Ahead(c)' <= Ahead(c)
      BY <2>1, <2>2, StartsDecide
    <2>5. PICK pc \in {"next", "rule", "upRelease"}, rel \in {sweep'.release} :
            sweep' = [sweep EXCEPT !.app = b, !.todo = @ \ {b}, !.pc = pc, !.release = rel]
      <3>1. {<<b, OpenParker(b)>>} \ {<<b, NoPort>>} = sweep'.release
        BY <1>10 DEF SweepFindsUp, KindsInv, SweepKinds
      <3>. QED BY <1>10, <3>1 DEF SweepFindsUp, Rule
    <2>6. /\ sweep'.todo = sweep.todo \ {b} /\ sweep'.pass = sweep.pass /\ sweep'.reading = sweep.reading
          /\ sweep'.pc = pc
      BY <2>5 DEF KindsInv, SweepKinds
    <2>7. sweep.pc = "next" /\ b \in sweep.todo
      BY <1>10 DEF SweepFindsUp
    <2>8. NoneToDo' /\ \A c \in Apps : AtHand(c)' => AtHand(c)
      BY <2>6, <2>7 DEF NoneToDo, AtHand
    <2>9. \A c \in Apps : olderWakes'[c] = olderWakes[c] \/ Due(c)' <= newerWakes[c]
      <3>1. CASE SeenUp(b)
        <4>1. olderWakes' = [olderWakes EXCEPT ![b] = 0]
          BY <1>10, <3>1 DEF SweepFindsUp, ForgetWakes
        <4>2. Due(b)' = Due(b)
          BY <2>1, <2>2, Counted DEF Due
        <4>3. Due(b) <= newerWakes[b]
          BY <2>7, <3>1 DEF SeenUp, BudgetInv, ForgetsOnlyOld, AtHand
        <4>4. \A c \in Apps \ {b} : olderWakes'[c] = olderWakes[c]
          BY <4>1 DEF KindsInv, BooksOK
        <4>. QED BY <4>2, <4>3, <4>4
      <3>2. CASE ~SeenUp(b)
        BY <1>10, <3>2 DEF SweepFindsUp
      <3>. QED BY <3>1, <3>2
    <2>. QED BY <2>1, <2>3, <2>4, <2>6, <2>7, <2>8, <2>9, BudgetStill
  <1>11. ASSUME NEW b \in Apps, SweepFindsDown(b) PROVE BudgetInv'
    <2>1. UNCHANGED <<waker, olderWakes, newerWakes, starts, prog, listed>>
      BY <1>11 DEF SweepFindsDown
    <2>2. \A c \in Apps : Coming(c)' = Coming(c)
      BY <2>1 DEF Coming
    <2>3. UpIsPaid'
      BY <2>1 DEF BudgetInv, UpIsPaid
    <2>4. \A c \in Apps : Due(c)' <= Due(c) /\ Ahead(c)' <= Ahead(c)
      BY <2>1, <2>2, StartsDecide
    <2>5. PICK pc \in {"next", "outcome"} :
            sweep' = [sweep EXCEPT !.app = b, !.todo = @ \ {b}, !.pc = pc]
      BY <1>11 DEF SweepFindsDown
    <2>6. /\ sweep'.todo = sweep.todo \ {b} /\ sweep'.pass = sweep.pass /\ sweep'.reading = sweep.reading
          /\ sweep'.pc = pc /\ sweep'.app = b
      BY <2>5 DEF KindsInv, SweepKinds
    <2>7. sweep.pc = "next" /\ b \in sweep.todo
      BY <1>11 DEF SweepFindsDown
    <2>8. NoneToDo' /\ \A c \in Apps : AtHand(c)' => AtHand(c)
      BY <2>6, <2>7 DEF NoneToDo, AtHand
    <2>. QED BY <2>1, <2>3, <2>4, <2>6, <2>7, <2>8, BudgetStill
  <1>. QED BY <1>1, <1>2, <1>3, <1>4, <1>5, <1>6, <1>7, <1>8, <1>9, <1>10, <1>11 DEF
       SweepStep

\* Wakes stay within the budget in: a step of a wake.
LEMMA BudgetWaker ==
  ASSUME KindsInv, KindsInv', BudgetInv, ~Race("slowStart"), ~Race("relist"), NEW w \in Wakers,
         WakerStep(w)
  PROVE  BudgetInv'
  <1>1. CASE \/ RefuseUnlisted(w) \/ RefuseWake(w) \/ Release(w) \/ ReleaseRefused(w)
             \/ LaunchLooks(w) \/ LaunchConnects(w)
    <2>1. UNCHANGED <<olderWakes, newerWakes, starts, prog, listed>> /\ \A c \in Apps : Coming(c)' = Coming(c)
      BY <1>1, ComingKept
    <2>2. \A c \in Apps : Due(c)' <= Due(c) /\ Ahead(c)' <= Ahead(c)
      BY <2>1, StartsDecide
    <2>3. UpIsPaid'
      BY <2>1 DEF BudgetInv, UpIsPaid
    <2>5. Pass' = Pass
      BY <1>1, WakerPass DEF WakerStep
    <2>6. NoneToDo' /\ \A c \in Apps : AtHand(c)' <=> AtHand(c)
      BY <2>5 DEF Pass, NoneToDo, AtHand, BudgetInv
    <2>. QED BY <2>1, <2>2, <2>3, <2>5, <2>6, BudgetStill DEF Pass
  <1>2. CASE RecordWake(w)
    <2>0. PICK a \in Apps : a = waker[w].app
      BY DEF KindsInv, WakerKinds
    <2>1. /\ Ahead(a) \in Nat /\ Ahead(a)' = Ahead(a) + 1
          /\ \A c \in Apps \ {a} : Ahead(c)' = Ahead(c)
      BY <1>2, <2>0, ComingJoined
    <2>2. /\ UNCHANGED <<olderWakes, starts, prog, listed, sweep>> /\ a \in listed
          /\ olderWakes[a] + newerWakes[a] < WakeBudget
          /\ newerWakes' = [newerWakes EXCEPT ![a] = @ + 1]
      <3>1. ~(olderWakes[a] + newerWakes[a] >= WakeBudget) /\ a \in listed
        BY <1>2, <2>0 DEF RecordWake, BudgetSpent
      <3>2. olderWakes[a] \in Nat /\ newerWakes[a] \in Nat
        BY <2>1 DEF KindsInv, BooksOK
      <3>3. /\ UNCHANGED <<olderWakes, starts, prog, listed, sweep>>
            /\ newerWakes' = [newerWakes EXCEPT ![a] = @ + 1]
        BY <1>2, <2>0 DEF RecordWake
      <3>. QED BY <3>1, <3>2, <3>3
    <2>3. \A c \in Apps : olderWakes[c] \in Nat /\ newerWakes[c] \in Nat
      BY DEF KindsInv, BooksOK
    <2>4. /\ newerWakes'[a] = newerWakes[a] + 1
          /\ \A c \in Apps \ {a} : newerWakes'[c] = newerWakes[c]
      BY <2>1, <2>2 DEF KindsInv, BooksOK
    <2>5. Due(a)' = Due(a) + 1 /\ \A c \in Apps \ {a} : Due(c)' = Due(c)
      <3>1. \A c \in Apps : starts[c] \in Nat
        BY DEF KindsInv, HistoryOK
      <3>. QED BY <2>1, <2>2, <3>1 DEF Due
    <2>6. Due(a) \in Nat /\ Due(a) <= olderWakes[a] + newerWakes[a]
      BY <2>2, DueCounts DEF BudgetInv, DueIsRecorded
    <2>7. listed \subseteq Apps
      BY DEF KindsInv, EnvOK
    <2>8. UpIsPaid' /\ NoneToDo' /\ PassSeesAll'
      BY <2>2 DEF BudgetInv, UpIsPaid, NoneToDo, PassSeesAll
    <2>9. DueWithin'
      <3>1. Due(a)' <= WakeBudget
        BY <2>1, <2>2, <2>3, <2>5, <2>6
      <3>. QED BY <2>5, <3>1 DEF BudgetInv, DueWithin
    <2>10. DueIsRecorded'
      <3>1. Due(a)' <= olderWakes[a] + newerWakes'[a]
        BY <2>1, <2>3, <2>4, <2>5, <2>6
      <3>. QED BY <2>2, <2>4, <2>5, <2>7, <3>1 DEF BudgetInv, DueIsRecorded
    <2>11. ReadIsRecent'
      <3>1. sweep.pc = "read" => Ahead(a)' <= newerWakes'[a]
        BY <2>1, <2>2, <2>3, <2>4 DEF BudgetInv, ReadIsRecent
      <3>. QED BY <2>1, <2>2, <2>4, <2>7, <3>1 DEF BudgetInv, ReadIsRecent
    <2>12. ForgetsOnlyOld'
      <3>1. AtHand(a) /\ sweep.reading[a] \in {"RUNNING", "STOPPED"} => Due(a)' <= newerWakes'[a]
        BY <2>1, <2>3, <2>4, <2>5, <2>6 DEF BudgetInv, ForgetsOnlyOld
      <3>2. \A c \in Apps : AtHand(c)' <=> AtHand(c)
        BY <2>2 DEF AtHand
      <3>. QED BY <2>2, <2>4, <2>5, <3>1, <3>2 DEF BudgetInv, ForgetsOnlyOld
    <2>. QED BY <2>8, <2>9, <2>10, <2>11, <2>12 DEF BudgetInv
  <1>3. CASE Start(w)
    <2>0. PICK a \in Apps : a = waker[w].app
      BY DEF KindsInv, WakerKinds
    <2>1. /\ Ahead(a) \in Nat /\ Ahead(a) > 0 /\ Ahead(a)' = Ahead(a) - 1
          /\ \A c \in Apps \ {a} : Ahead(c)' = Ahead(c)
      BY <1>3, <2>0, ComingTaken
    <2>2. UNCHANGED <<olderWakes, newerWakes, listed>> /\ (Launched(a) \/ UNCHANGED <<prog, starts>>)
      BY <1>3, <2>0 DEF Start
    <2>3. \A c \in Apps : starts[c] \in Nat /\ Due(c) \in Nat /\ Ahead(c) \in Nat
      BY DueCounts
    <2>4. Due(a) <= WakeBudget
      BY <2>1 DEF BudgetInv, DueWithin
    <2>5. UpIsPaid' /\ starts'[a] <= starts[a] + 1 /\ starts'[a] \in Nat /\ \A c \in Apps \ {a} : starts'[c] = starts[c]
      <3>1. starts[a] + 1 <= WakeBudget
        BY <2>1, <2>3, <2>4 DEF Due
      <3>2. CASE Launched(a)
        <4>1. Capped(starts[a] + 1) = starts[a] + 1
          BY <2>3, <3>1 DEF Capped
        <4>2. /\ starts \in [Apps -> Nat] /\ prog \in [Apps -> States]
              /\ \A c \in Apps : prog[c] \in {"RUNNING", "STOPPING", "STOPPED", "EXITED"} => starts[c] = 0
          BY DEF KindsInv, HistoryOK, EnvOK, BudgetInv, UpIsPaid
        <4>3. CASE Startable(a)
          BY <3>2, <4>1, <4>2, <4>3 DEF Launched, UpIsPaid
        <4>4. CASE ~Startable(a)
          BY <3>2, <4>2, <4>4 DEF Launched, UpIsPaid
        <4>. QED BY <4>3, <4>4
      <3>3. CASE UNCHANGED <<prog, starts>>
        BY <2>1, <2>3, <3>3 DEF BudgetInv, UpIsPaid
      <3>. QED BY <2>2, <3>2, <3>3
    <2>6. \A c \in Apps : Due(c)' <= Due(c) /\ Ahead(c)' <= Ahead(c)
      <3>1. Due(a)' <= Due(a) /\ Ahead(a)' <= Ahead(a)
        BY <2>1, <2>3, <2>5 DEF Due
      <3>2. \A c \in Apps \ {a} : Due(c)' = Due(c) /\ Ahead(c)' = Ahead(c)
        BY <2>1, <2>5 DEF Due
      <3>. QED BY <2>3, <3>1, <3>2
    <2>7. sweep' = sweep
      BY <1>3, WakerQuiet
    <2>8. NoneToDo' /\ \A c \in Apps : AtHand(c)' <=> AtHand(c)
      BY <2>7 DEF BudgetInv, NoneToDo, AtHand
    <2>. QED BY <2>2, <2>5, <2>6, <2>7, <2>8, BudgetStill
  <1>4. CASE StartRaises(w)
    <2>0. PICK a \in Apps : a = waker[w].app
      BY DEF KindsInv, WakerKinds
    <2>1. /\ Ahead(a) \in Nat /\ Ahead(a) > 0 /\ Ahead(a)' = Ahead(a) - 1
          /\ \A c \in Apps \ {a} : Ahead(c)' = Ahead(c)
      BY <1>4, <2>0, ComingTaken
    <2>2. UNCHANGED <<olderWakes, newerWakes, listed>> /\ (Launched(a) \/ UNCHANGED <<prog, starts>>)
      BY <1>4, <2>0 DEF StartRaises
    <2>3. \A c \in Apps : starts[c] \in Nat /\ Due(c) \in Nat /\ Ahead(c) \in Nat
      BY DueCounts
    <2>4. Due(a) <= WakeBudget
      BY <2>1 DEF BudgetInv, DueWithin
    <2>5. UpIsPaid' /\ starts'[a] <= starts[a] + 1 /\ starts'[a] \in Nat /\ \A c \in Apps \ {a} : starts'[c] = starts[c]
      <3>1. starts[a] + 1 <= WakeBudget
        BY <2>1, <2>3, <2>4 DEF Due
      <3>2. CASE Launched(a)
        <4>1. Capped(starts[a] + 1) = starts[a] + 1
          BY <2>3, <3>1 DEF Capped
        <4>2. /\ starts \in [Apps -> Nat] /\ prog \in [Apps -> States]
              /\ \A c \in Apps : prog[c] \in {"RUNNING", "STOPPING", "STOPPED", "EXITED"} => starts[c] = 0
          BY DEF KindsInv, HistoryOK, EnvOK, BudgetInv, UpIsPaid
        <4>3. CASE Startable(a)
          BY <3>2, <4>1, <4>2, <4>3 DEF Launched, UpIsPaid
        <4>4. CASE ~Startable(a)
          BY <3>2, <4>2, <4>4 DEF Launched, UpIsPaid
        <4>. QED BY <4>3, <4>4
      <3>3. CASE UNCHANGED <<prog, starts>>
        BY <2>1, <2>3, <3>3 DEF BudgetInv, UpIsPaid
      <3>. QED BY <2>2, <3>2, <3>3
    <2>6. \A c \in Apps : Due(c)' <= Due(c) /\ Ahead(c)' <= Ahead(c)
      <3>1. Due(a)' <= Due(a) /\ Ahead(a)' <= Ahead(a)
        BY <2>1, <2>3, <2>5 DEF Due
      <3>2. \A c \in Apps \ {a} : Due(c)' = Due(c) /\ Ahead(c)' = Ahead(c)
        BY <2>1, <2>5 DEF Due
      <3>. QED BY <2>3, <3>1, <3>2
    <2>7. sweep' = sweep
      BY <1>4, WakerQuiet
    <2>8. NoneToDo' /\ \A c \in Apps : AtHand(c)' <=> AtHand(c)
      BY <2>7 DEF BudgetInv, NoneToDo, AtHand
    <2>. QED BY <2>2, <2>5, <2>6, <2>7, <2>8, BudgetStill
  <1>. QED BY <1>1, <1>2, <1>3, <1>4 DEF WakerStep

\* Wakes stay within the budget in: the programs, the pages, the registry and the clients.
LEMMA BudgetWorld ==
  ASSUME KindsInv, KindsInv', BudgetInv, ~Race("slowStart"), ~Race("relist"), NEW a \in Apps,
         ProgramStep(a) \/ WorldStep(a)
  PROVE  BudgetInv'
  <1>1. CASE \/ ProgramBinds(a) \/ ProgramCollides(a) \/ ProgramStays(a) \/ ProgramDies(a)
             \/ ProgramRetries(a) \/ ProgramGivesUp(a) \/ ProgramEnds(a) \/ StopApp(a)
             \/ StartedByOther(a) \/ ShowApp(a) \/ HideApp(a) \/ Reregister(a)
             \/ Unlist(a) \/ BudgetPasses(a)
    <2>1. UNCHANGED <<waker, sweep, newerWakes>>
      BY <1>1, WorldQuiet DEF ProgramStep
    <2>2. listed' \subseteq listed
      BY <1>1 DEF ProgramBinds, ProgramCollides, ProgramStays, ProgramDies, ProgramRetries,
             ProgramGivesUp, ProgramEnds, ProgramExits, ProgramVars, StopApp, StartedByOther,
             ShowApp, HideApp, Reregister, Unlist, BudgetPasses
    <2>3. olderWakes' = olderWakes \/ BudgetPasses(a)
      BY <1>1 DEF ProgramBinds, ProgramCollides, ProgramStays, ProgramDies, ProgramRetries,
             ProgramGivesUp, ProgramEnds, ProgramExits, ProgramVars, StopApp, StartedByOther,
             ShowApp, HideApp, Reregister, Unlist
    <2>4. UpIsPaid' /\ \A c \in Apps : starts'[c] \in {starts[c], 0}
      <3>1. starts \in [Apps -> Nat] /\ prog \in [Apps -> States]
        BY DEF KindsInv, HistoryOK, EnvOK
      <3>2. UpIsPaid
        BY DEF BudgetInv
      <3>3. CASE ProgramExits(a) \/ ProgramRetries(a) \/ ProgramGivesUp(a) \/ ProgramEnds(a) \/ StartedByOther(a)
        BY <3>1, <3>2, <3>3 DEF ProgramExits, ProgramRetries, ProgramGivesUp, ProgramEnds,
               StartedByOther, UpIsPaid
      <3>4. CASE ProgramStays(a) \/ BudgetPasses(a)
        BY <3>1, <3>2, <3>4 DEF ProgramStays, BudgetPasses, UpIsPaid
      <3>5. CASE StopApp(a)
        BY <3>5, StopIsPaid DEF StopApp, BudgetInv
      <3>6. CASE \/ ProgramBinds(a) \/ ShowApp(a) \/ HideApp(a) \/ Reregister(a)
                 \/ Unlist(a)
        BY <3>2, <3>6 DEF ProgramBinds, ShowApp, HideApp, Reregister, Unlist, UpIsPaid
      <3>. QED BY <1>1, <3>3, <3>4, <3>5, <3>6 DEF ProgramCollides, ProgramDies
    <2>5. \A c \in Apps : Coming(c)' = Coming(c) /\ (AtHand(c)' <=> AtHand(c))
      BY <2>1 DEF Coming, AtHand
    <2>6. \A c \in Apps : Due(c)' <= Due(c) /\ Ahead(c)' <= Ahead(c)
      BY <2>4, <2>5, StartsDecide
    <2>7. \A c \in Apps : olderWakes'[c] = olderWakes[c] \/ Due(c)' <= newerWakes[c]
      <3>1. CASE BudgetPasses(a)
        <4>1. /\ olderWakes' = [olderWakes EXCEPT ![a] = 0] /\ ~OnItsWay(a)
              /\ starts' = [starts EXCEPT ![a] = 0]
          BY <3>1 DEF BudgetPasses, ForgetWakes
        <4>2. Due(a)' = 0
          BY <2>5, <4>1, Counted DEF Due, KindsInv, HistoryOK
        <4>3. newerWakes[a] \in Nat /\ \A c \in Apps \ {a} : olderWakes'[c] = olderWakes[c]
          BY <4>1 DEF KindsInv, BooksOK
        <4>. QED BY <4>2, <4>3
      <3>. QED BY <2>3, <3>1
    <2>8. NoneToDo'
      BY <2>1 DEF BudgetInv, NoneToDo
    <2>. QED BY <2>1, <2>2, <2>4, <2>5, <2>6, <2>7, <2>8, BudgetStill
  <1>2. CASE Relist(a)
    <2>1. /\ sweep.pc \in {"idle", "read"} /\ ~OnItsWay(a) /\ listed' = listed \cup {a}
          /\ starts' = [starts EXCEPT ![a] = 0] /\ UNCHANGED <<waker, sweep, prog, olderWakes, newerWakes>>
      BY <1>2 DEF Relist
    <2>2. \A c \in Apps : Coming(c)' = Coming(c) /\ starts'[c] \in {starts[c], 0}
      BY <2>1 DEF Coming, KindsInv, HistoryOK
    <2>3. \A c \in Apps : Due(c)' <= Due(c) /\ Due(c) \in Nat /\ Due(c)' \in Nat /\ Ahead(c)' = Ahead(c)
      BY <2>2, StartsDecide, DueCounts, Counted
    <2>4. starts'[a] = 0 /\ Ahead(a)' = 0 /\ Due(a)' = 0
      BY <2>1, <2>2, Counted DEF Due, KindsInv, HistoryOK
    <2>5. \A c \in Apps : olderWakes[c] \in Nat /\ newerWakes[c] \in Nat
      BY DEF KindsInv, BooksOK
    <2>6. listed \subseteq Apps
      BY DEF KindsInv, EnvOK
    <2>7. UpIsPaid'
      BY <2>1, <2>2 DEF BudgetInv, UpIsPaid
    <2>8. DueWithin'
      BY <2>3 DEF BudgetInv, DueWithin
    <2>9. DueIsRecorded'
      BY <2>1, <2>3, <2>4, <2>5, <2>6 DEF BudgetInv, DueIsRecorded
    <2>10. ReadIsRecent'
      BY <2>1, <2>3, <2>4, <2>5, <2>6 DEF BudgetInv, ReadIsRecent
    <2>11. NoneToDo' /\ PassSeesAll' /\ sweep.todo = {}
      BY <2>1 DEF BudgetInv, NoneToDo, PassSeesAll
    <2>12. ForgetsOnlyOld'
      BY <2>1, <2>11 DEF ForgetsOnlyOld, AtHand
    <2>. QED BY <2>7, <2>8, <2>9, <2>10, <2>11, <2>12 DEF BudgetInv
  <1>3. ASSUME NEW w \in Wakers, NEW p \in Ports, Accept(w, a, p) PROVE BudgetInv'
    <2>1. UNCHANGED <<olderWakes, newerWakes, starts, prog, listed>> /\ \A c \in Apps : Coming(c)' = Coming(c)
      BY <1>3, ComingKept
    <2>2. \A c \in Apps : Due(c)' <= Due(c) /\ Ahead(c)' <= Ahead(c)
      BY <2>1, StartsDecide
    <2>3. UpIsPaid'
      BY <2>1 DEF BudgetInv, UpIsPaid
    <2>5. Pass' = Pass
      BY <1>3, WakerPass DEF WakerStep
    <2>6. NoneToDo' /\ \A c \in Apps : AtHand(c)' <=> AtHand(c)
      BY <2>5 DEF Pass, NoneToDo, AtHand, BudgetInv
    <2>. QED BY <2>1, <2>2, <2>3, <2>5, <2>6, BudgetStill DEF Pass
  <1>4. ASSUME NEW w \in Wakers, NEW for \in {"route", "launch"}, AskForApp(w, a, for)
        PROVE  BudgetInv'
    <2>1. UNCHANGED <<olderWakes, newerWakes, starts, prog, listed>> /\ \A c \in Apps : Coming(c)' = Coming(c)
      BY <1>4, ComingKept
    <2>2. \A c \in Apps : Due(c)' <= Due(c) /\ Ahead(c)' <= Ahead(c)
      BY <2>1, StartsDecide
    <2>3. UpIsPaid'
      BY <2>1 DEF BudgetInv, UpIsPaid
    <2>5. Pass' = Pass
      BY <1>4, WakerPass DEF WakerStep
    <2>6. NoneToDo' /\ \A c \in Apps : AtHand(c)' <=> AtHand(c)
      BY <2>5 DEF Pass, NoneToDo, AtHand, BudgetInv
    <2>. QED BY <2>1, <2>2, <2>3, <2>5, <2>6, BudgetStill DEF Pass
  <1>. QED BY <1>1, <1>2, <1>3, <1>4 DEF ProgramStep, WorldStep

\* Wakes stay within the budget in: the clocks and a restart.
LEMMA BudgetOther ==
  ASSUME KindsInv, KindsInv', BudgetInv, ~Race("slowStart"), ~Race("relist"),
         GracePasses \/ MarkVisited \/ Restart \/ UNCHANGED vars
  PROVE  BudgetInv'
  <1>1. CASE \/ GracePasses \/ MarkVisited
    <2>1. UNCHANGED <<waker, olderWakes, newerWakes, starts, prog, listed, sweep>>
      BY <1>1 DEF GracePasses, MarkVisited
    <2>2. \A c \in Apps : Coming(c)' = Coming(c) /\ (AtHand(c)' <=> AtHand(c))
      BY <2>1 DEF Coming, AtHand
    <2>3. \A c \in Apps : Due(c)' <= Due(c) /\ Ahead(c)' <= Ahead(c)
      BY <2>1, <2>2, StartsDecide
    <2>4. UpIsPaid' /\ NoneToDo'
      BY <2>1 DEF BudgetInv, UpIsPaid, NoneToDo
    <2>. QED BY <2>1, <2>2, <2>3, <2>4, BudgetStill
  <1>2. CASE Restart
    <2>1. /\ waker' = [w \in Wakers |-> AtRest] /\ sweep' = NoPass /\ starts' = [a \in Apps |-> 0]
          /\ UNCHANGED listed
          /\ olderWakes' = [a \in Apps |-> 0] /\ newerWakes' = [a \in Apps |-> 0]
      BY <1>2 DEF Restart
    <2>2. sweep'.todo = {} /\ sweep'.pc = "idle"
      BY <2>1, Kinds DEF NoPass
    <2>3. \A c \in Apps : Ahead(c)' = 0
      <3>1. \A c \in Apps : Coming(c)' = {}
        BY <2>1, Kinds DEF Coming
      <3>. QED BY <3>1, FS_EmptySet DEF Ahead
    <2>4. \A c \in Apps : Due(c)' = 0
      BY <2>1, <2>3 DEF Due
    <2>5. listed \subseteq Apps
      BY DEF KindsInv, EnvOK
    <2>6. UpIsPaid' /\ DueWithin' /\ DueIsRecorded'
      BY <2>1, <2>4, <2>5 DEF UpIsPaid, DueWithin, DueIsRecorded
    <2>7. NoneToDo' /\ ReadIsRecent' /\ ForgetsOnlyOld' /\ PassSeesAll'
      BY <2>2 DEF NoneToDo, ReadIsRecent, ForgetsOnlyOld, AtHand, PassSeesAll
    <2>. QED BY <2>6, <2>7 DEF BudgetInv
  <1>3. CASE UNCHANGED vars
    <2>1. UNCHANGED <<waker, olderWakes, newerWakes, starts, prog, listed, sweep>>
      BY <1>3 DEF vars
    <2>2. \A c \in Apps : Coming(c)' = Coming(c) /\ (AtHand(c)' <=> AtHand(c))
      BY <2>1 DEF Coming, AtHand
    <2>3. \A c \in Apps : Due(c)' <= Due(c) /\ Ahead(c)' <= Ahead(c)
      BY <2>1, <2>2, StartsDecide
    <2>4. UpIsPaid' /\ NoneToDo'
      BY <2>1 DEF BudgetInv, UpIsPaid, NoneToDo
    <2>. QED BY <2>1, <2>2, <2>3, <2>4, BudgetStill
  <1>. QED BY <1>1, <1>2, <1>3

\* Every step keeps the wakes within the budget.
LEMMA BudgetStep ==
  ASSUME KindsInv, KindsInv', BudgetInv, ~Race("slowStart"), ~Race("relist"), [Next]_vars
  PROVE  BudgetInv'
  BY BudgetSweep, BudgetWaker, BudgetWorld, BudgetOther DEF Next

-------------------------------------------------------------------------------
(* What holds in every state.                                                 *)

\* Before the first pass, and before the first wake, nothing is due or counted.
LEMMA WakesInit ==
  ASSUME Init
  PROVE  GraceInv /\ BindInv /\ BudgetInv
  <1>2. /\ sweep = NoPass /\ waker = [w \in Wakers |-> AtRest] /\ firstBind = {} /\ watched = {}
        /\ starts = [a \in Apps |-> 0] /\ idle = [a \in Apps |-> "none"] /\ listed = Apps
        /\ olderWakes = [a \in Apps |-> 0] /\ newerWakes = [a \in Apps |-> 0]
        /\ parked = [a \in Apps |-> NoPort] /\ shown = {}
        /\ \A a \in Apps, p \in Ports : ~Listening(a, p)
    BY DEF Init
  <1>3. /\ sweep.pc = "idle" /\ sweep.todo = {} /\ sweep.release = {} /\ sweep.counted = FALSE
        /\ \A w \in Wakers : waker[w].pc = "idle"
    BY <1>2, Kinds DEF NoPass
  <1>6. GraceInv
    BY <1>2, <1>3 DEF GraceInv, CountIsTrue, RuleIsTrue, GrownIsGraced
  <1>7. BindInv
    BY <1>2, <1>3 DEF BindInv, NoneToDo, BindsFreely, ComingIsSeen, NotParked, StartIsSeen,
       OnItsWay
  <1>8. BudgetInv
    <2>1. ASSUME NEW a \in Apps
          PROVE  Ahead(a) = 0
      <3>1. Coming(a) = {}
        BY <1>3 DEF Coming
      <3>. QED BY <3>1, FS_EmptySet DEF Ahead
    <2>2. \A a \in Apps : Due(a) = 0
      BY <1>2, <2>1 DEF Due
    <2>. QED BY <1>2, <1>3, <2>1, <2>2 DEF BudgetInv, NoneToDo, UpIsPaid, DueWithin,
                DueIsRecorded, ReadIsRecent, ForgetsOnlyOld, AtHand, PassSeesAll
  <1>. QED BY <1>6, <1>7, <1>8

\* The books and the listeners agree, and an app's first bind never meets the shell's
\* listener, provided a start is asked for before the next pass reads, no wake comes
\* between a pass's look at the wakes and its park, rows do not come and go within a
\* pass, and no wake starts a program whose listener another thread has yet to close.
THEOREM BooksHold ==
  ASSUME ~Race("slowStart"), ~Race("lateWake"), ~Race("relist"), ~Race("halfReleased")
  PROVE  Spec => []ListenersOnTheBooks
  <1> DEFINE Inv == KindsInv /\ StrayInv /\ HeldInv /\ BindInv
  <1>1. Init => Inv
    BY HeldInit, WakesInit
  <1>2. Inv /\ [Next]_vars => Inv'
    BY KindsStep, StrayStep, HeldStep, BindStep
  <1>3. Inv => ListenersOnTheBooks
    <2>1. KindsInv => TypeOK
      BY DEF KindsInv, TypeOK, EnvOK, BooksOK, HistoryOK
    <2>2. Inv => NoStrayListener /\ BookedIsHeld
      BY DEF StrayInv, HeldInv
    <2>3. Inv => FirstBindIsFree
      BY DEF BindInv, BindsFreely, FirstBindIsFree, KindsInv, EnvOK, HistoryOK
    <2>. QED BY <2>1, <2>2, <2>3 DEF ListenersOnTheBooks
  <1>. QED BY <1>1, <1>2, <1>3, PTL DEF Spec

\* Wakes start a program that does not come up at most the budget's number of times in a
\* window, provided a start is asked for before the next pass reads and rows do not come
\* and go within a pass.
THEOREM BudgetHolds ==
  ASSUME ~Race("slowStart"), ~Race("relist")
  PROVE  Spec => []WakesBounded
  <1>1. Init => KindsInv /\ BudgetInv
    BY HeldInit, WakesInit
  <1>2. KindsInv /\ BudgetInv /\ [Next]_vars => KindsInv' /\ BudgetInv'
    BY KindsStep, BudgetStep
  <1>3. KindsInv /\ BudgetInv => WakesBounded
    <2>1. SUFFICES ASSUME KindsInv, BudgetInv, NEW a \in Apps
                   PROVE  starts[a] <= WakeBudget
      BY DEF WakesBounded
    <2>2. Ahead(a) \in Nat /\ starts[a] \in Nat
      BY <2>1, Counted DEF KindsInv, HistoryOK
    <2>. QED BY <2>1, <2>2 DEF BudgetInv, DueWithin, Due
  <1>. QED BY <1>1, <1>2, <1>3, PTL DEF Spec

\* Whatever crosses, the no-window rule stops only an app that was not shown throughout
\* the pass, and of which no pass has counted a window for a grace.
THEOREM OnlyTheUnusedStop == Spec => StopsOnlyTheUnused
  <1>1. Init => KindsInv /\ GraceInv
    BY HeldInit, WakesInit
  <1>2. KindsInv /\ GraceInv /\ [Next]_vars => KindsInv' /\ GraceInv'
    BY KindsStep, GraceStep
  <1>3. GraceInv => [sweep.pc = "stop" /\ sweep'.pc = "next" /\ prog' # prog =>
                       sweep.app \notin watched /\ sweep.app \in graced]_vars
    BY DEF GraceInv, RuleIsTrue
  <1>. QED BY <1>1, <1>2, <1>3, PTL DEF Spec, StopsOnlyTheUnused
===============================================================================
