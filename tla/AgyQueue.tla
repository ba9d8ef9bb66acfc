------------------------------- MODULE AgyQueue --------------------------------
(***************************************************************************)
(* The queue the chat app holds for one antigravity (agy) agent            *)
(* (harnesses/antigravity): the tracker and its journal, the flush worker, *)
(* which alone types into agy, the transcript poll, and the Stop and tap   *)
(* requests that cancel agy's turn under them.                             *)
(*                                                                         *)
(* Each method of the tracker is one action: it runs under the tracker's   *)
(* lock.  The worker's look at the turn predicate and its claim are two,   *)
(* so that a turn may open in between; whatever blocks (typing, waiting    *)
(* for the row, waiting for the marker, restarting) is a step of its own.  *)
(* A wake only shortens the worker's 5 s timer: it is always awake here.   *)
(*                                                                         *)
(* agy, the people who type into its terminal and mngr are external.       *)
(***************************************************************************)
EXTENDS Naturals, Sequences, FiniteSets, SequencesExt

CONSTANTS
    Messages,        \* the messages the user sends from the chat
    Other,           \* a message typed into agy's own terminal
    Stops, Taps,     \* the requests (bounds)
    MaxAttempts,     \* MAX_DELIVERY_ATTEMPTS
    MaxSessions, MaxCrashes, MaxForeign,   \* bounds
    Oddities         \* which of the behaviours below may happen

\* "ambiguous": a block's row appears after the witness window, or although the
\*   send failed.           "partial": agy commits a prefix of a block.
\* "lateSend": a send reaches an agent that was restarted, stopped or voided
\*   since the claim.       "hammerRace": Stop's restart path runs while a
\*   typed block awaits its verdict.
\* "pressFails": the cancel key is not delivered.
\* "cancelStalls": agy ignores the cancel key.
\* "restartFails": Stop's restart fails.   "crashInStop": the app dies in it.
\* "sendInRestart": the user sends while the session is being replaced.
\* "slowPoll": the poll thread stalls between reading rows and emitting them.
OddityKinds == {"ambiguous", "partial", "lateSend", "hammerRace", "pressFails",
                "cancelStalls", "restartFails", "crashInStop", "sendInRestart",
                "slowPoll"}

ASSUME AgyAssumption ==
    /\ Other \notin Messages /\ MaxAttempts \in Nat \ {0}
    /\ MaxSessions \in Nat /\ MaxCrashes \in Nat /\ MaxForeign \in Nat
    /\ Oddities \subseteq OddityKinds

VARIABLES
    \* The tracker, and its journal on disk.
    queue, claimed, pendingSend, attempts, generation, adopted, journal,
    \* The shared turn state: the published transcript tail, the press interlock.
    pubTail, pressRecent,
    \* The watcher: rows read, rows the poll still has to emit, rows emitted.
    collected, polled, shown,
    \* The flush worker.
    wpc, block, blockGen, before, landed, witnessed,
    \* The requests.
    stopPc, held, tapPc, tapClaim, tapGen,
    \* agy: its session, process, turn, busy marker, transcript and composer.
    session, alive, turn, marker, tail, composer, parked, rows, foreign,
    \* History: texts handed back, session of each send, discards.
    copies, born, discarded, crashes

trackerVars == <<queue, claimed, pendingSend, attempts, generation, adopted, journal>>
readVars    == <<pubTail, pressRecent>>
watchVars   == <<collected, polled, shown>>
workerVars  == <<wpc, block, blockGen, before, landed, witnessed>>
callVars    == <<stopPc, held, tapPc, tapClaim, tapGen>>
agyVars     == <<session, alive, turn, marker, tail, composer, parked, rows, foreign>>
historyVars == <<copies, born, discarded, crashes>>
vars == <<trackerVars, readVars, watchVars, workerVars, callVars, agyVars, historyVars>>

Elements(s) == {s[i] : i \in DOMAIN s}
Odd(kind) == kind \in Oddities
NoJournal == [session |-> 0, entries |-> <<>>]

TypeOK ==
    /\ Elements(queue) \subseteq Messages /\ IsInjective(queue)
    /\ claimed \subseteq Elements(queue) /\ pendingSend \subseteq Elements(queue)
    /\ attempts \in [Messages -> 0..MaxAttempts]
    /\ generation \in Nat /\ adopted \in 1..MaxSessions
    /\ journal.session \in 0..MaxSessions /\ Elements(journal.entries) \subseteq Messages
    /\ pubTail \in {"closed", "open", "stale"} /\ pressRecent \in BOOLEAN
    /\ collected \in 0..Len(rows)
    /\ Elements(polled) \cup Elements(shown) \cup Elements(witnessed) \subseteq 1..Len(rows)
    /\ wpc \in {"idle", "looked", "claimed", "typed", "verdict", "settled"}
    /\ Elements(block) \subseteq Messages /\ blockGen \in Nat
    /\ before \in 0..Len(rows) /\ landed \in 0..Len(block)
    /\ stopPc \in [Stops -> {"ready", "waiting", "hammer", "restarting", "restarted",
                             "done", "failed"}]
    /\ \A s \in Stops : Elements(held[s]) \subseteq Messages
    /\ tapPc \in [Taps -> {"ready", "claimed", "waiting", "done"}]
    /\ tapClaim \in [Taps -> SUBSET Messages] /\ tapGen \in [Taps -> Nat]
    /\ session \in 1..MaxSessions /\ {alive, turn, marker} \subseteq BOOLEAN
    /\ tail \in {"closed", "open", "stale"}
    /\ Elements(composer) \cup Elements(parked) \subseteq Messages \cup {Other}
    /\ \A i \in DOMAIN rows : Elements(rows[i]) \subseteq Messages \cup {Other}
    /\ copies \in [Messages -> Nat] /\ born \in [Messages -> 0..MaxSessions]
    /\ discarded \subseteq Messages

Init ==
    /\ queue = <<>> /\ claimed = {} /\ pendingSend = {}
    /\ attempts = [m \in Messages |-> 0]
    /\ generation = 0 /\ adopted = 1 /\ journal = NoJournal
    /\ pubTail = "closed" /\ pressRecent = FALSE
    /\ collected = 0 /\ polled = <<>> /\ shown = <<>>
    /\ wpc = "idle" /\ block = <<>> /\ blockGen = 0 /\ before = 0
    /\ landed = 0 /\ witnessed = <<>>
    /\ stopPc = [s \in Stops |-> "ready"] /\ held = [s \in Stops |-> <<>>]
    /\ tapPc = [k \in Taps |-> "ready"] /\ tapClaim = [k \in Taps |-> {}]
    /\ tapGen = [k \in Taps |-> 0]
    /\ session = 1 /\ alive = TRUE /\ turn = FALSE /\ marker = FALSE
    /\ tail = "closed" /\ composer = <<>> /\ parked = <<>> /\ rows = <<>> /\ foreign = 0
    /\ copies = [m \in Messages |-> 0] /\ born = [m \in Messages |-> 0]
    /\ discarded = {} /\ crashes = 0

-------------------------------------------------------------------------------
(* Operators of the tracker and of the turn state.                           *)

Without(q, S) == SelectSeq(q, LAMBDA m : m \notin S)

\* _write_journal: the file is always the current queue of the adopted session.
JournalOf(q) == IF q = <<>> THEN NoJournal
                ELSE [session |-> adopted, entries |-> q]

\* Every mutation ends in _settled.
Hold(q) == queue' = q /\ journal' = JournalOf(q)

Deliverable(q) == SelectSeq(q, LAMBDA m : attempts[m] < MaxAttempts)

\* begin_flush refuses a second claim while one is open.
ClaimOpen == claimed # {}

\* is_hold_required: a fresh marker, or a tail that looks open and is neither
\* older than the last cancel or process start nor too old.
NeverAbandoned(tl) == tl # "closed"                                 \* a fault
OpenByTail(tl) == tl = "open"
TurnLooksOpen == marker \/ OpenByTail(pubTail)

\* take_unclaimed: what a flush has claimed is left alone.
ClaimedToo(q) == q                                                  \* a fault
Unclaimed(q) == Without(q, claimed)

NothingReturned(s) == UNCHANGED copies                               \* a fault
ReturnToComposer(s) ==
    copies' = [m \in Messages |-> copies[m] + (IF m \in Elements(s) THEN 1 ELSE 0)]

TakeUnclaimed ==
    /\ Hold(Without(queue, Elements(Unclaimed(queue))))
    /\ pendingSend' = pendingSend \ Elements(Unclaimed(queue))
    /\ attempts' = [m \in Messages |-> IF m \in Elements(Unclaimed(queue)) THEN 0
                                       ELSE attempts[m]]
    /\ ReturnToComposer(Unclaimed(queue))
    /\ UNCHANGED <<claimed, generation, adopted>>

\* take_all and clear: everything goes, and whatever was claimed is void.
EmptyTheQueue ==
    /\ Hold(<<>>)
    /\ claimed' = {} /\ pendingSend' = {}
    /\ attempts' = [m \in Messages |-> 0]
    /\ generation' = generation + 1
    /\ UNCHANGED adopted

ReplacingSession == adopted # session
                    \/ \E s \in Stops : stopPc[s] \in {"hammer", "restarting", "restarted"}

-------------------------------------------------------------------------------
(* session.send                                                              *)

\* Always held, never typed; shown as Sending if no turn is in its way.
Enqueue(m) ==
    /\ born[m] = 0
    /\ Odd("sendInRestart") \/ ~ReplacingSession
    /\ Hold(Append(queue, m))
    /\ pendingSend' = IF TurnLooksOpen THEN pendingSend ELSE pendingSend \cup {m}
    /\ born' = [born EXCEPT ![m] = session]
    /\ UNCHANGED <<claimed, attempts, generation, adopted, readVars, watchVars,
                   workerVars, callVars, agyVars, copies, discarded, crashes>>

-------------------------------------------------------------------------------
(* The flush worker                                                          *)

\* A turn is open: what was about to be typed is parked after all.
Demote ==
    /\ wpc = "idle" /\ queue # <<>> /\ alive /\ TurnLooksOpen
    /\ pendingSend \ claimed # {}
    /\ pendingSend' = pendingSend \cap claimed
    /\ UNCHANGED <<queue, claimed, attempts, generation, adopted, journal, readVars,
                   watchVars, workerVars, callVars, agyVars, historyVars>>

\* The gate: something is held, agy lives and no turn shows.  A turn opened by
\* somebody else after this look is not seen any more.
LooksIdle ==
    /\ wpc = "idle" /\ queue # <<>> /\ alive /\ ~TurnLooksOpen
    /\ wpc' = "looked"
    /\ UNCHANGED <<trackerVars, readVars, watchVars, block, blockGen, before, landed,
                   witnessed, callVars, agyVars, historyVars>>

\* The claim, refused while another is open or with nothing left to deliver;
\* from here the poll thread may not emit.
BeginFlush ==
    /\ wpc = "looked"
    /\ \/ /\ ~ClaimOpen /\ Deliverable(queue) # <<>>
          /\ claimed' = Elements(Deliverable(queue))
          /\ block' = Deliverable(queue)
          /\ blockGen' = generation
          /\ before' = collected
          /\ wpc' = "claimed"
       \/ /\ ClaimOpen \/ Deliverable(queue) = <<>>
          /\ wpc' = "idle"
          /\ UNCHANGED <<claimed, block, blockGen, before>>
    /\ UNCHANGED <<queue, pendingSend, attempts, generation, adopted, journal, readVars,
                   watchVars, landed, witnessed, callVars, agyVars, historyVars>>

\* A message reaches agy: it opens a turn, or it is parked behind the open one.
Submitted(text) ==
    \/ /\ ~turn /\ composer = <<>>
       /\ composer' = text /\ turn' = TRUE /\ marker' = TRUE
       /\ UNCHANGED parked
    \/ /\ turn \/ composer # <<>>
       /\ parked' = parked \o text
       /\ UNCHANGED <<composer, turn, marker>>

\* mngr's send types the block; a dead agent it starts first.
SendTypes ==
    /\ wpc = "claimed"
    /\ Odd("lateSend") \/ (alive /\ blockGen = generation /\ adopted = session)
    /\ \/ alive /\ Submitted(block) /\ UNCHANGED <<alive, session, tail>>
       \/ /\ ~alive /\ session < MaxSessions
          /\ alive' = TRUE /\ session' = session + 1
          /\ tail' = IF tail = "open" THEN "stale" ELSE tail
          /\ Submitted(block)
    /\ \/ wpc' = "typed" /\ UNCHANGED landed
       \/ Odd("ambiguous") /\ wpc' = "verdict" /\ landed' = 0
    /\ UNCHANGED <<trackerVars, readVars, watchVars, block, blockGen, before, witnessed,
                   callVars, rows, foreign, copies, born, discarded, crashes>>

SendFails ==
    /\ wpc = "claimed"
    /\ wpc' = "verdict" /\ landed' = 0
    /\ UNCHANGED <<trackerVars, readVars, watchVars, block, blockGen, before, witnessed,
                   callVars, agyVars, historyVars>>

\* How many entries of the block a committed turn accounts for: none, if it is
\* somebody else's.
AnyTurn(row) == Len(block)                                          \* a fault
Covered(row) ==
    IF row = block THEN Len(block)
    ELSE IF row # <<>> /\ IsPrefix(row, block) /\ Elements(block) \subseteq Elements(queue)
         THEN Len(row) ELSE 0

FreshRows == [i \in 1..(Len(rows) - collected) |-> collected + i]

\* One look for the turn the block became: the rows are read and published,
\* but not yet emitted.
Witness ==
    /\ wpc = "typed"
    /\ witnessed' = witnessed \o FreshRows
    /\ collected' = Len(rows)
    /\ pubTail' = tail
    /\ LET hits == {i \in (before + 1)..Len(rows) : Covered(rows[i]) > 0}
       IN \/ /\ hits # {}
             /\ landed' = Covered(rows[CHOOSE i \in hits : \A j \in hits : i <= j])
             /\ wpc' = "verdict"
          \/ /\ hits = {} /\ collected < Len(rows)
             /\ UNCHANGED <<landed, wpc>>
    /\ UNCHANGED <<trackerVars, pressRecent, polled, shown, block, blockGen, before,
                   callVars, agyVars, historyVars>>

\* The witness window closes.
WitnessGivesUp ==
    /\ wpc = "typed"
    /\ \/ Odd("ambiguous")
       \/ composer = <<>> /\ parked = <<>> /\ collected = Len(rows)
    /\ wpc' = "verdict" /\ landed' = 0
    /\ UNCHANGED <<trackerVars, readVars, watchVars, block, blockGen, before, witnessed,
                   callVars, agyVars, historyVars>>

\* finish_flush: what landed departs, the rest is charged an attempt.
Delivered(n) == Elements(SubSeq(block, 1, n))

FinishFlush ==
    /\ wpc = "verdict"
    /\ wpc' = "settled"
    /\ \/ /\ blockGen # generation
          /\ UNCHANGED trackerVars
       \/ /\ blockGen = generation
          /\ Hold(Without(queue, Delivered(landed)))
          /\ claimed' = claimed \ Elements(block)
          /\ pendingSend' = pendingSend \ Elements(block)
          /\ attempts' = [m \in Messages |->
                            IF m \in Delivered(landed) THEN 0
                            ELSE IF m \in Elements(block) THEN attempts[m] + 1
                            ELSE attempts[m]]
          /\ UNCHANGED <<generation, adopted>>
    /\ UNCHANGED <<readVars, watchVars, block, blockGen, before, landed, witnessed,
                   callVars, agyVars, historyVars>>

\* Only now are the witnessed turns emitted and the embargo lifted.
EmitWitnessed ==
    /\ wpc = "settled"
    /\ Odd("slowPoll") \/ polled = <<>>
    /\ shown' = shown \o witnessed
    /\ wpc' = "idle" /\ witnessed' = <<>> /\ block' = <<>> /\ landed' = 0
    /\ UNCHANGED <<trackerVars, readVars, collected, polled, blockGen, before, callVars,
                   agyVars, historyVars>>

-------------------------------------------------------------------------------
(* The transcript poll                                                       *)

NoEmbargo == FALSE                                                  \* a fault
Embargoed == wpc \notin {"idle", "looked"}

\* set_session on a changed marker: everything is discarded, every claim void.
AdoptSession ==
    \/ adopted = session /\ UNCHANGED <<trackerVars, discarded>>
    \/ /\ adopted # session
       /\ discarded' = discarded \cup Elements(queue)
       /\ queue' = <<>> /\ journal' = NoJournal
       /\ claimed' = {} /\ pendingSend' = {}
       /\ attempts' = [m \in Messages |-> 0]
       /\ generation' = generation + 1
       /\ adopted' = session

PollOnce ==
    /\ polled = <<>>
    /\ AdoptSession
    /\ \/ /\ Embargoed
          /\ pubTail' = IF pubTail = "open" /\ tail = "stale" THEN "stale" ELSE pubTail
          /\ UNCHANGED <<collected, polled>>
       \/ /\ ~Embargoed
          /\ polled' = FreshRows /\ collected' = Len(rows)
          /\ pubTail' = tail
    /\ UNCHANGED <<pressRecent, shown, workerVars, callVars, agyVars, copies, born, crashes>>

PollEmits ==
    /\ polled # <<>>
    /\ shown' = shown \o polled
    /\ polled' = <<>>
    /\ UNCHANGED <<trackerVars, readVars, collected, workerVars, callVars, agyVars,
                   historyVars>>

-------------------------------------------------------------------------------
(* The cancel key, Stop and tap                                              *)

\* _press_once after the interlock let it through.  The cancel is noted first;
\* the key may not be delivered, and agy may ignore it.
NoteCancelled == /\ pubTail' = IF pubTail = "open" THEN "stale" ELSE pubTail
                 /\ tail' = IF tail = "open" THEN "stale" ELSE tail

PressLands ==
    /\ ~pressRecent /\ pressRecent' = TRUE
    /\ NoteCancelled
    /\ \/ turn' = FALSE
       \/ Odd("cancelStalls") /\ UNCHANGED turn
    /\ UNCHANGED <<session, alive, marker, composer, parked, rows, foreign>>

PressFails ==
    /\ \/ /\ pressRecent
          /\ UNCHANGED <<pubTail, pressRecent, tail>>
       \/ /\ ~pressRecent /\ Odd("pressFails")
          /\ pressRecent' = TRUE
          /\ NoteCancelled
    /\ UNCHANGED <<session, alive, turn, marker, composer, parked, rows, foreign>>

StopStep(s, from, to) == stopPc[s] = from /\ stopPc' = [stopPc EXCEPT ![s] = to]
StopFrame == UNCHANGED <<watchVars, workerVars, tapPc, tapClaim, tapGen, born, discarded,
                         crashes>>

\* No turn to end: what was never sent is handed back.
StopIdle(s) ==
    /\ StopStep(s, "ready", "done")
    /\ ~TurnLooksOpen
    /\ TakeUnclaimed
    /\ UNCHANGED <<readVars, held, agyVars>>
    /\ StopFrame

StopPresses(s) ==
    /\ TurnLooksOpen
    /\ \/ StopStep(s, "ready", "waiting") /\ PressLands
       \/ StopStep(s, "ready", "hammer") /\ PressFails
    /\ UNCHANGED <<trackerVars, held, copies>>
    /\ StopFrame

StopSettles(s) ==
    /\ StopStep(s, "waiting", "done")
    /\ ~marker
    /\ TakeUnclaimed
    /\ UNCHANGED <<readVars, held, agyVars>>
    /\ StopFrame

StopTimesOut(s) ==
    /\ StopStep(s, "waiting", "hammer")
    /\ marker
    /\ UNCHANGED <<trackerVars, readVars, held, agyVars, copies>>
    /\ StopFrame

StopTakesAll(s) ==
    /\ StopStep(s, "hammer", "restarting")
    /\ Odd("hammerRace") \/ wpc \notin {"typed", "verdict"}
    /\ held' = [held EXCEPT ![s] = queue]
    /\ EmptyTheQueue
    /\ UNCHANGED <<readVars, agyVars, copies>>
    /\ StopFrame

\* A new agy process: a new marker, an idle TUI, nothing in its composer.
FreshProcess ==
    /\ session < MaxSessions
    /\ session' = session + 1
    /\ alive' = TRUE /\ turn' = FALSE /\ composer' = <<>> /\ parked' = <<>>
    /\ tail' = IF tail = "open" THEN "stale" ELSE tail
    /\ UNCHANGED <<marker, rows, foreign>>

StopRestarts(s) ==
    /\ \/ /\ StopStep(s, "restarting", "restarted") /\ FreshProcess
          /\ UNCHANGED held
       \/ /\ Odd("restartFails") /\ StopStep(s, "restarting", "failed")
          /\ held' = [held EXCEPT ![s] = <<>>]
          /\ UNCHANGED agyVars
    /\ UNCHANGED <<trackerVars, readVars, copies>>
    /\ StopFrame

\* restart_drain clears the queue; the response carries what take_all took.
StopClears(s) ==
    /\ StopStep(s, "restarted", "done")
    /\ EmptyTheQueue
    /\ ReturnToComposer(held[s])
    /\ held' = [held EXCEPT ![s] = <<>>]
    /\ UNCHANGED <<readVars, agyVars>>
    /\ StopFrame

TapFrame == UNCHANGED <<watchVars, workerVars, stopPc, held, historyVars>>

\* A tap claims what the worker would, so that both cannot run; without an
\* open turn, or with a claim open, it does nothing.
TapClaims(k) ==
    /\ tapPc[k] = "ready" /\ queue # <<>>
    /\ \/ /\ TurnLooksOpen /\ ~ClaimOpen /\ Deliverable(queue) # <<>>
          /\ claimed' = Elements(Deliverable(queue))
          /\ tapClaim' = [tapClaim EXCEPT ![k] = Elements(Deliverable(queue))]
          /\ tapGen' = [tapGen EXCEPT ![k] = generation]
          /\ tapPc' = [tapPc EXCEPT ![k] = "claimed"]
       \/ /\ ~TurnLooksOpen \/ ClaimOpen \/ Deliverable(queue) = <<>>
          /\ tapPc' = [tapPc EXCEPT ![k] = "done"]
          /\ UNCHANGED <<claimed, tapClaim, tapGen>>
    /\ UNCHANGED <<queue, pendingSend, attempts, generation, adopted, journal, readVars,
                   agyVars>>
    /\ TapFrame

\* release_claim: no settling, no attempt charged, nothing if it was voided.
KeptClaim(k) == claimed                                             \* a fault
AfterRelease(k) == IF tapGen[k] = generation THEN claimed \ tapClaim[k] ELSE claimed

TapReleases(k) ==
    /\ claimed' = AfterRelease(k)
    /\ tapPc' = [tapPc EXCEPT ![k] = "done"]
    /\ UNCHANGED <<queue, pendingSend, attempts, generation, adopted, journal, tapClaim,
                   tapGen>>

TapPresses(k) ==
    /\ tapPc[k] = "claimed"
    /\ \/ /\ PressLands
          /\ tapPc' = [tapPc EXCEPT ![k] = "waiting"]
          /\ UNCHANGED <<trackerVars, tapClaim, tapGen>>
       \/ PressFails /\ TapReleases(k)
    /\ TapFrame

\* The marker cleared, or the wait timed out: either way the claim goes back.
TapEnds(k) ==
    /\ tapPc[k] = "waiting"
    /\ TapReleases(k)
    /\ UNCHANGED <<readVars, agyVars>>
    /\ TapFrame

PressAges ==
    /\ pressRecent /\ pressRecent' = FALSE
    /\ UNCHANGED <<trackerVars, pubTail, watchVars, workerVars, callVars, agyVars, historyVars>>

-------------------------------------------------------------------------------
(* agy and its surroundings (external).                                      *)

AgyFrame == UNCHANGED <<trackerVars, readVars, watchVars, workerVars, callVars, historyVars>>

AgyWritesRow ==
    /\ alive /\ composer # <<>>
    /\ \E n \in 1..Len(composer) :
          /\ n = Len(composer) \/ Odd("partial")
          /\ rows' = Append(rows, SubSeq(composer, 1, n))
    /\ composer' = <<>> /\ tail' = "open"
    /\ UNCHANGED <<session, alive, turn, marker, parked, foreign>>
    /\ AgyFrame

\* The turn ends; what was parked behind it becomes the next one.
AgyEndsTurn ==
    /\ alive /\ (turn \/ parked # <<>>) /\ composer = <<>>
    /\ tail' = IF turn THEN "closed" ELSE tail
    /\ composer' = parked /\ parked' = <<>>
    /\ turn' = (parked # <<>>) /\ marker' = (parked # <<>>)
    /\ UNCHANGED <<session, alive, rows, foreign>>
    /\ AgyFrame

\* The marker goes on the idle edge or of old age, and in the middle of a turn
\* while a command runs in the background, whether or not the turn's row has
\* been read by then.
MarkerGoes ==
    /\ marker /\ marker' = FALSE
    /\ ~turn \/ composer = <<>>
    /\ UNCHANGED <<session, alive, turn, tail, composer, parked, rows, foreign>>
    /\ AgyFrame

\* 30 minutes pass on a tail nobody will close.
TailExpires ==
    /\ ~turn /\ composer = <<>> /\ tail = "open" /\ tail' = "stale"
    /\ pubTail' = IF pubTail = "open" THEN "stale" ELSE pubTail
    /\ UNCHANGED <<session, alive, turn, marker, composer, parked, rows, foreign,
                   trackerVars, pressRecent, watchVars, workerVars, callVars, historyVars>>

\* A person at the terminal, or mngr message from cron, at any time.
HumanTypes ==
    /\ alive /\ foreign < MaxForeign
    /\ Submitted(<<Other>>)
    /\ foreign' = foreign + 1
    /\ UNCHANGED <<session, alive, tail, rows>>
    /\ AgyFrame

AgyDies ==
    /\ alive /\ session < MaxSessions
    /\ alive' = FALSE /\ turn' = FALSE /\ composer' = <<>> /\ parked' = <<>>
    /\ UNCHANGED <<session, marker, tail, rows, foreign>>
    /\ AgyFrame

AgyRestarts == FreshProcess /\ AgyFrame

\* The app dies and comes back: a new tracker replays the journal of this
\* session, a new watcher primes, and the requests in progress are gone.
ReplayAny(j) == j.entries                                           \* a fault
Replayed(j) == IF j.session = session THEN j.entries ELSE <<>>

Crash ==
    /\ crashes < MaxCrashes /\ crashes' = crashes + 1
    /\ Odd("crashInStop") \/ \A s \in Stops : held[s] = <<>>
    /\ queue' = Replayed(journal)
    /\ claimed' = {} /\ pendingSend' = {} /\ attempts' = [m \in Messages |-> 0]
    /\ generation' = 0 /\ adopted' = session
    /\ pubTail' = tail /\ pressRecent' = FALSE
    /\ collected' = Len(rows) /\ polled' = <<>>
    /\ shown' = [i \in 1..Len(rows) |-> i]
    /\ wpc' = "idle" /\ block' = <<>> /\ blockGen' = 0 /\ before' = 0
    /\ landed' = 0 /\ witnessed' = <<>>
    /\ stopPc' = [s \in Stops |-> IF stopPc[s] = "ready" THEN "ready" ELSE "done"]
    /\ held' = [s \in Stops |-> <<>>]
    /\ tapPc' = [k \in Taps |-> IF tapPc[k] = "ready" THEN "ready" ELSE "done"]
    /\ tapClaim' = [k \in Taps |-> {}] /\ tapGen' = [k \in Taps |-> 0]
    /\ discarded' = discarded \cup (Elements(queue) \ Elements(queue'))
    /\ UNCHANGED <<journal, agyVars, copies, born>>

-------------------------------------------------------------------------------
Worker == Demote \/ LooksIdle \/ BeginFlush \/ SendTypes \/ SendFails \/ Witness \/ WitnessGivesUp
          \/ FinishFlush \/ EmitWitnessed

Poll == PollOnce \/ PollEmits

Stopping(s) == StopSettles(s) \/ StopTimesOut(s) \/ StopTakesAll(s) \/ StopRestarts(s)
               \/ StopClears(s)
Tapping(k) == TapPresses(k) \/ TapEnds(k)

User == (\E m \in Messages : Enqueue(m))
        \/ (\E s \in Stops : StopIdle(s) \/ StopPresses(s))
        \/ (\E k \in Taps : TapClaims(k))

Agy == AgyWritesRow \/ AgyEndsTurn \/ MarkerGoes \/ TailExpires

Next == User \/ Worker \/ Poll \/ Agy \/ PressAges
        \/ (\E s \in Stops : Stopping(s)) \/ (\E k \in Taps : Tapping(k))
        \/ HumanTypes \/ AgyDies \/ AgyRestarts \/ Crash

Spec == Init /\ [][Next]_vars

\* The threads run, requests are worked off, agy ends its turns and clears its
\* marker, and time passes.
Fairness ==
    /\ WF_vars(Worker) /\ WF_vars(PollOnce) /\ WF_vars(PollEmits)
    /\ WF_vars(AgyWritesRow) /\ WF_vars(AgyEndsTurn)
    /\ WF_vars(MarkerGoes) /\ WF_vars(TailExpires)
    /\ \A s \in Stops : WF_vars(Stopping(s))
    /\ \A k \in Taps : WF_vars(Tapping(k))

FairSpec == Spec /\ Fairness

-------------------------------------------------------------------------------
(* Properties                                                                *)

Committed(m) == \E i \in DOMAIN rows : m \in Elements(rows[i])
TimesCommitted(m) == Cardinality({i \in DOMAIN rows : m \in Elements(rows[i])})

\* A message the user sent is always somewhere: held, in a Stop's hands, in
\* agy's transcript, back in the composer, or discarded because its session is
\* over.
NoneLost ==
    /\ \A m \in Messages : born[m] # 0 =>
        \/ m \in Elements(queue)
        \/ \E s \in Stops : m \in Elements(held[s])
        \/ Committed(m)
        \/ copies[m] > 0
        \/ m \in discarded
    /\ \A m \in discarded : born[m] < session

\* A message is delivered once or returned once, and never both, however Stop,
\* the tap and the worker interleave.
OneOutcome == \A m \in Messages : TimesCommitted(m) + copies[m] <= 1

\* Whatever is shown as "Sending" has somebody working on it who will settle or
\* release it: a claim nobody holds would bar the worker for good.
NoOrphanClaim ==
    claimed # {} =>
        \/ /\ wpc \in {"claimed", "typed", "verdict"} /\ blockGen = generation
           /\ claimed = Elements(block)
        \/ \E k \in Taps : /\ tapPc[k] \in {"claimed", "waiting"}
                           /\ tapGen[k] = generation /\ claimed = tapClaim[k]

\* The types, and no orphan claim.
ClaimsAreHeld == TypeOK /\ NoOrphanClaim

\* The verdict on a block is exact for every message in it: it departs if, and
\* only if, a turn committed since the claim carries it.  The block may have been
\* typed into a turn that opened after the worker's look, or that agy's marker
\* and the transcript did not show yet, and so be parked behind it; the other
\* sender's turn settles nothing, and what does land late is not charged.
VerdictIsExact ==
    [][wpc = "verdict" /\ wpc' = "settled" /\ blockGen = generation =>
         \A m \in Elements(block) :
            (m \notin Elements(queue')) <=>
            (\E i \in (before + 1)..Len(rows) : m \in Elements(rows[i]))]_vars

\* A message leaves the queue before its turn appears in the transcript,
\* whichever thread reads the row first.
DepartsBeforeArrives ==
    \A i \in Elements(shown) : Elements(rows[i]) \cap Elements(queue) = {}

\* Two threads read and emit rows; the transcript still appears in agy's order.
ShownInOrder == \A i, j \in DOMAIN shown : i < j => shown[i] < shown[j]

\* What the page shows is the queue and then the transcript, in agy's order.
TranscriptInOrder == DepartsBeforeArrives /\ ShownInOrder

\* A message is only ever committed by the session it was sent to: no restart of
\* agy or of the app revives an old queue.
NeverRevived ==
    [][Len(rows') > Len(rows) =>
         \A m \in Elements(Last(rows')) \ {Other} : born[m] = session]_vars

\* A held message is delivered, handed back or given up, unless agy is down: a
\* cancelled turn's open tail or a tap's claim does not hold it for ever.
Resolves ==
    \A m \in Messages :
        m \in Elements(queue) ~> (m \notin Elements(queue) \/ attempts[m] = MaxAttempts
                                  \/ ~alive)
===============================================================================
