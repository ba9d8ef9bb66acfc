--------------------------- MODULE ChatHandoffProofs ---------------------------
(***************************************************************************)
(* What TLAPS proves of ChatHandoff, for any number of messages, accounts, *)
(* handoffs, crashes, retries and posts.  Each theorem names the races it  *)
(* excludes; all others may happen.                                        *)
(***************************************************************************)
EXTENDS ChatHandoff, SequenceTheorems, NaturalsInduction, WellFoundedInduction, TLAPS

-------------------------------------------------------------------------------
(* Queues of messages.                                                       *)

\* No text occurs twice.
Distinct(s) == \A i, j \in 1 .. Len(s) : s[i] = s[j] => i = j

\* A set of naturals that is not empty has a least member: the induction that the
\* filter of the held sends needs.
LEMMA Smallest ==
    ASSUME NEW D, D \subseteq Nat, D # {}
    PROVE  \E d \in D : \A k \in D : ~(k < d)
<1>1. IsWellFoundedOn(OpToRel(<, Nat), Nat)
  BY NatLessThanWellFounded
<1>2. \E d \in D : \A k \in D : ~(<<k, d>> \in OpToRel(<, Nat))
  BY <1>1, WFMin, Zenon
<1>3. PICK d \in D : \A k \in D : ~(<<k, d>> \in OpToRel(<, Nat))
  BY <1>2
<1> QED
  BY <1>3 DEF OpToRel

\* One step of the recursion in Without.
Filtered(s, x, f) ==
    [n \in 0 .. Len(s) |-> 
            IF n = 0 THEN <<>>
            ELSE IF s[n] = x THEN f[n - 1] ELSE Append(f[n - 1], s[n])]

\* Without is the only function that its recursion allows.
LEMMA WithoutUnique ==
    ASSUME NEW s, NEW x, Len(s) \in Nat, NEW g, g = Filtered(s, x, g)
    PROVE  Without(s, x) = g[Len(s)]
<1> DEFINE h == CHOOSE f : f = Filtered(s, x, f)
<1>1. Without(s, x) = h[Len(s)]
  BY DEF Without, Filtered
<1>2. h = Filtered(s, x, h)
  <2> HIDE DEF h
  <2>1. \E f : f = Filtered(s, x, f)
    OBVIOUS
  <2> QED BY <2>1 DEF h
<1> HIDE DEF h
<1>3. SUFFICES \A n \in 0 .. Len(s) : h[n] = g[n]
  BY <1>1
<1> DEFINE D == {n \in 0 .. Len(s) : h[n] # g[n]}
<1>4. ASSUME D # {} PROVE FALSE
  <2>1. PICK d \in D : \A k \in D : ~(k < d)
    <3>1. D \subseteq Nat
      OBVIOUS
    <3> HIDE DEF D
    <3> QED BY <1>4, <3>1, Smallest, Zenon
  <2>2. d # 0
    BY <1>2 DEF Filtered
  <2>3. d - 1 \in 0 .. Len(s) /\ h[d - 1] = g[d - 1]
    BY <2>1, <2>2
  <2>4. h[d] = g[d]
    BY <1>2, <2>2, <2>3 DEF Filtered
  <2> QED BY <2>1, <2>4
<1> QED BY <1>4

\* What is left of distinct sends without the first is their tail
\* (_take_next_held_send).
LEMMA WithoutHead ==
    ASSUME NEW S, NEW s \in Seq(S), s # <<>>, Distinct(s)
    PROVE  Without(s, Head(s)) = Tail(s)
<1> DEFINE g == [n \in 0 .. Len(s) |-> IF n = 0 THEN <<>> ELSE [i \in 1 .. (n - 1) |-> s[i + 1]]]
<1>1. g = Filtered(s, Head(s), g)
  <2>1. ASSUME NEW n \in 0 .. Len(s)
        PROVE  g[n] = Filtered(s, Head(s), g)[n]
    <3>1. CASE n = 0 BY <3>1 DEF Filtered
    <3>2. CASE n = 1 BY <3>2 DEF Filtered
    <3>3. CASE n > 1
      <4>1. s[n] # Head(s)
        BY <3>3 DEF Distinct
      <4>2. g[n - 1] = [i \in 1 .. (n - 2) |-> s[i + 1]]
        BY <3>3
      <4>3. Append(g[n - 1], s[n]) = [i \in 1 .. (n - 1) |-> s[i + 1]]
        <5>1. g[n - 1] \in Seq(S) /\ Len(g[n-1]) = n - 2
          BY <4>2, <3>3
        <5> QED BY <3>3, <4>2, <5>1
      <4> QED BY <3>3, <4>1, <4>3 DEF Filtered
    <3> QED BY <3>1, <3>2, <3>3
  <2> QED BY <2>1 DEF Filtered
<1>2. g[Len(s)] = Tail(s)
  <2>1. Len(s) \in Nat /\ Len(s) # 0
    OBVIOUS
  <2>2. g[Len(s)] = [i \in 1 .. (Len(s) - 1) |-> s[i + 1]]
    BY <2>1
  <2>3. Tail(s) \in Seq(S) /\ Len(Tail(s)) = Len(s) - 1
    OBVIOUS
  <2>4. \A i \in 1 .. (Len(s) - 1) : Tail(s)[i] = s[i + 1]
    OBVIOUS
  <2>5. Tail(s) = [i \in 1 .. (Len(s) - 1) |-> Tail(s)[i]]
    <3>1. Tail(s) \in [1 .. Len(s) - 1 -> S]
      BY <2>3, LenProperties
    <3> QED BY <3>1
  <2> QED BY <2>2, <2>4, <2>5, Zenon
<1> HIDE DEF g
<1> QED BY <1>1, <1>2, WithoutUnique

\* A sequence over a set has its elements in that set.
LEMMA ElemsIn ==
    ASSUME NEW S, NEW s \in Seq(S)
    PROVE  Elems(s) \subseteq S
BY DEF Elems

\* Appending what is new keeps a sequence distinct.
LEMMA AppendDistinct ==
    ASSUME NEW S, NEW s \in Seq(S), NEW e \in S, e \notin Elems(s), Distinct(s)
    PROVE  Distinct(Append(s, e))
<1>1. \A i \in 1 .. Len(s) : s[i] # e
  BY DEF Elems
<1>2. /\ Len(s) \in Nat /\ Len(Append(s, e)) = Len(s) + 1
      /\ \A i \in 1 .. Len(s) : Append(s, e)[i] = s[i]
      /\ Append(s, e)[Len(s) + 1] = e
  BY AppendProperties, LenProperties
<1> QED BY <1>1, <1>2 DEF Distinct

\* The tail of a distinct sequence is distinct.
LEMMA TailDistinct ==
    ASSUME NEW S, NEW s \in Seq(S), s # <<>>, Distinct(s)
    PROVE  Distinct(Tail(s))
BY HeadTailProperties, LenProperties DEF Distinct

\* The empty sequence is distinct.
LEMMA EmptyDistinct == Distinct(<<>>)
BY DEF Distinct

\* A sequence of one is distinct.
LEMMA OneDistinct == \A m : Distinct(<<m>>)
BY DEF Distinct

-------------------------------------------------------------------------------
(* The inductive invariants.                                                 *)

\* The places of a runner, by how far it has got.
EarlyPcs == {"drain", "drained", "summarize", "await", "fold", "done"}
BeforePcs == {"archive", "close", "create", "creating", "pick", "adopt", "discard"}
AfterPcs == {"prompt", "told", "take", "send", "done"}

\* A runner of an older handoff only learns that it is over.
OldRunners ==
    \A h \in Handoffs :
        /\ h > begun <=> pc[h] = "idle"
        /\ h < begun => pc[h] \in EarlyPcs

\* The phase on the record says where the last runner is, and whether the chat's
\* agent is the one that retires or the one after it.
PhaseInv ==
    /\ handoff.phase = "draining" =>
          members = handoff.retiring /\ pc[begun] \in {"drain", "drained"}
    /\ handoff.phase = "summarizing" =>
          members = handoff.retiring /\ pc[begun] \in {"summarize", "await", "fold", "done"}
    /\ handoff.phase = "switching" =>
          \/ members = handoff.retiring /\ pc[begun] \in BeforePcs
          \/ members = Successor /\ pc[begun] \in AfterPcs
          \/ members \in {handoff.retiring, Successor} /\ pc[begun] = "switch"
    /\ handoff.phase = "failed" => members = handoff.retiring /\ pc[begun] = "done"
    /\ handoff.phase = "none" => begun = 0 \/ destroyed \/ pc[begun] \in EarlyPcs

\* One handoff at a time: the record's is the last one begun.
RecordInv ==
    /\ Converging => /\ begun > 0 /\ handoff.id = begun /\ ~destroyed
                     /\ handoff.retiring \in 1 .. begun
    /\ ~Converging => handoff = NoHandoff /\ members <= begun + 1

\* Nothing is held twice, and until the prompt is built the message that began the
\* handoff is the first of what is held.
HeldInv ==
    /\ Distinct(handoff.held)
    /\ handoff.phase \in {"draining", "summarizing"} /\ handoff.trigger # Nothing =>
          handoff.held # <<>> /\ Head(handoff.held) = handoff.trigger

RunInv == OldRunners /\ PhaseInv /\ RecordInv /\ HeldInv

\* An agent that does not run has an empty queue.
QueueInv == \A a \in Agents : proc[a] # "up" => inbox[a] = <<>>

\* What is on its way to an agent is on its way to the chat's.
FlightInv ==
    \A m \in Messages : flight[m] # 0 =>
        /\ flight[m] = members
        /\ Converging => handoff.phase = "draining" /\ pc[begun] = "drain"
CallsInv == calls.msgs # <<>> => calls.to = members /\ ~Converging

\* What the app has listed is what there is, but for an agent half made.
ListedInv ==
    /\ \A a \in Agents : seen[a] = Listed(a) \/ (proc[a] = "half" /\ seen[a] = "untracked")
    /\ \A a \in Agents : a <= members => seen[a] # "untracked"

\* Ahead of the chat's agent there is at most the successor under way, and
\* when it is listed it is on the account the handoff goes to.
AheadInv ==
    /\ \A a \in Agents : a > members /\ proc[a] # "none" =>
          Converging /\ a = Successor /\ handoff.phase \in {"switching", "failed"}
    /\ Converging /\ members = handoff.retiring =>
          /\ seen[Successor] # "untracked" /\ pc[begun] # "discard" =>
                runsOn[Successor] = handoff.target
          /\ pc[begun] = "discard" => runsOn[Successor] # handoff.target
          /\ pc[begun] \in {"pick", "adopt"} => seen[Successor] # "untracked"
          /\ pc[begun] = "creating" =>
                proc[Successor] = "half" /\ runsOn[Successor] = handoff.target

\* An agent the chat has left, or that its runner has stopped.
Silent(a) == proc[a] # "up" /\ inbox[a] = <<>>
RetiredInv ==
    /\ \A a \in Agents : a < members => Silent(a) /\ a \in renamed /\ a \in ended
    /\ Converging /\ members = handoff.retiring =>
          /\ pc[begun] \in {"archive", "close", "create", "creating", "pick", "adopt"} =>
                Silent(members)
          /\ pc[begun] \in {"close", "create", "creating", "pick", "adopt"} =>
                members \in renamed
          /\ pc[begun] \in {"create", "creating", "pick", "adopt"} => members \in ended

AccountInv == \A a \in 1 .. members : runsOn[a] = account[a]

\* Of a chat being destroyed nothing runs, and no switch is under way.
DoomInv ==
    /\ destroyed => doomed # {}
    /\ doomed # {} => /\ \A a \in Agents : proc[a] = "none"
                      /\ handoff.phase \in {"none", "failed"}

AgentsInv ==
    /\ QueueInv /\ DoomInv
    /\ doomed = {} => /\ FlightInv /\ CallsInv /\ ListedInv /\ AheadInv
                      /\ RetiredInv /\ AccountInv

\* The types, by who keeps them.
HandoffRecords ==
    [id : 0 .. MaxHandoffs, phase : Phases, retiring : Nat,
     target : Accounts \cup {Nothing}, trigger : Messages \cup {Nothing},
     held : Seq(Messages), built : BOOLEAN, told : BOOLEAN,
     fresh : BOOLEAN, pick : BOOLEAN]
RecordTypes ==
    /\ members \in Agents /\ ended \subseteq Agents
    /\ account \in [Agents -> Accounts \cup {Nothing}] /\ handoff \in HandoffRecords
AppTypes ==
    /\ seen \in [Agents -> {"untracked", "up", "down"}]
    /\ pc \in [Handoffs -> Labels]
    /\ hand \in [Handoffs -> Messages \cup {Nothing}]
    /\ block \in [Handoffs -> Seq(Items)] /\ asked \in [Handoffs -> BOOLEAN]
    /\ calls \in [to : 0 .. MaxHandoffs + 1, msgs : Seq(Messages)]
    /\ flight \in [Messages -> 0 .. MaxHandoffs + 1]
AgentTypes ==
    /\ proc \in [Agents -> {"none", "half", "up", "down"}]
    /\ runsOn \in [Agents -> Accounts \cup {Nothing}]
    /\ renamed \subseteq Agents /\ picked \subseteq Agents
    /\ inbox \in [Agents -> Seq(Items)] /\ turns \in [Agents -> Seq(Items)]
TextTypes ==
    /\ posts \in [Messages -> 0 .. MaxPosts] /\ composer \subseteq Messages
    /\ forgone \subseteq Items /\ log \in Seq(Messages)
    /\ begun \in 0 .. MaxHandoffs /\ crashes \in 0 .. MaxCrashes
    /\ retries \in 0 .. MaxRetries /\ doomed \subseteq Agents /\ destroyed \in BOOLEAN

\* The types are these four.
LEMMA TypeParts == TypeOK <=> RecordTypes /\ AppTypes /\ AgentTypes /\ TextTypes
  BY DEF TypeOK, RecordTypes, AppTypes, AgentTypes, TextTypes, HandoffRecords

\* The invariant of the runner and the record, with the types.
BookInv == RecordTypes /\ AppTypes /\ AgentTypes /\ TextTypes /\ RunInv

USE HandoffAssumption DEF Handoffs, Agents, recordVars, threadVars, agentVars, clientVars,
                          countVars, Converging, Successor, Current, Goto

-------------------------------------------------------------------------------
(* What the steps share.                                                     *)

\* A message or a prompt is an item.
LEMMA ItemTypes ==
  \A m \in Messages \cup {Nothing} : Plain(m) \in Items /\ Prompt(m) \in Items
  BY DEF Plain, Prompt, Items

\* The texts of a block are messages.
LEMMA TextsTypes == \A s \in Seq(Items) : Texts(s) \subseteq Messages
  <1>. SUFFICES ASSUME NEW s \in Seq(Items), NEW x \in Texts(s) PROVE x \in Messages
    OBVIOUS
  <1>1. PICK i \in 1 .. Len(s) : x = s[i].msg /\ x # Nothing
    BY DEF Texts
  <1>2. s[i] \in Items
    BY ElementOfSeq
  <1>. QED BY <1>1, <1>2 DEF Items

\* Nothing goes where there is nothing to leave out.
LEMMA WithoutAbsent ==
    ASSUME NEW S, NEW s \in Seq(S), NEW x, \A i \in 1 .. Len(s) : s[i] # x
    PROVE  Without(s, x) = s
<1> DEFINE g == [n \in 0 .. Len(s) |-> [i \in 1 .. n |-> s[i]]]
<1>1. g = Filtered(s, x, g)
  <2>1. ASSUME NEW n \in 0 .. Len(s)
        PROVE  g[n] = Filtered(s, x, g)[n]
    <3>1. CASE n = 0 BY <3>1 DEF Filtered
    <3>2. CASE n > 0
      <4>1. s[n] # x /\ n - 1 \in 0 .. Len(s) /\ (n - 1) + 1 = n
        BY <3>2
      <4>2. g[n - 1] = [i \in 1 .. (n - 1) |-> s[i]]
        BY <4>1
      <4>3. Append(g[n - 1], s[n]) = [i \in 1 .. n |-> s[i]]
        <5>1. g[n - 1] \in Seq(S) /\ Len(g[n-1]) = n - 1
          BY <4>2, <3>2
        <5> QED BY <3>2, <4>1, <4>2, <5>1
      <4> QED BY <3>2, <4>1, <4>3 DEF Filtered
    <3> QED BY <3>1, <3>2
  <2> QED BY <2>1 DEF Filtered
<1>2. g[Len(s)] = s
  OBVIOUS
<1> HIDE DEF g
<1> QED BY <1>1, <1>2, WithoutUnique

\* The held sends other than the message that began the handoff: all but the first,
\* until the prompt is built.
LEMMA OthersAre ==
  ASSUME RecordTypes, HeldInv, handoff.phase \in {"draining", "summarizing"}
  PROVE  /\ Others \in Seq(Messages) /\ Distinct(Others)
         /\ handoff.trigger = Nothing => Others = handoff.held
         /\ handoff.trigger # Nothing => Others = Tail(handoff.held)
  <1>1. handoff.held \in Seq(Messages)
    BY DEF RecordTypes, HandoffRecords
  <1>2. CASE handoff.trigger = Nothing
    <2>1. \A i \in 1 .. Len(handoff.held) : handoff.held[i] # handoff.trigger
      BY <1>1, <1>2, ElementOfSeq
    <2>. QED BY <1>1, <1>2, <2>1, WithoutAbsent DEF Others, HeldInv
  <1>3. CASE handoff.trigger # Nothing
    <2>1. handoff.held # <<>> /\ Head(handoff.held) = handoff.trigger /\ Distinct(handoff.held)
      BY <1>3 DEF HeldInv
    <2>2. Others = Tail(handoff.held)
      BY <1>1, <2>1, WithoutHead DEF Others
    <2>3. Tail(handoff.held) \in Seq(Messages) /\ Distinct(Tail(handoff.held))
      BY <1>1, <2>1, TailDistinct
    <2>. QED BY <1>3, <2>2, <2>3
  <1>. QED BY <1>2, <1>3

\* A delivery that lands keeps the types of the agents and of what is listed.
LEMMA ReachesTypes ==
  ASSUME AppTypes, AgentTypes, NEW a, NEW item \in Items, Reaches(a, item)
  PROVE  AgentTypes' /\ seen' \in [Agents -> {"untracked", "up", "down"}]
  <1>. HIDE DEF Agents
  <1>1. a \in Agents => Append(inbox[a], item) \in Seq(Items)
    BY DEF AgentTypes
  <1>2. inbox' \in [Agents -> Seq(Items)]
    BY <1>1 DEF Reaches, AgentTypes
  <1>3. proc' \in [Agents -> {"none", "half", "up", "down"}]
    BY DEF Reaches, AgentTypes
  <1>4. seen' \in [Agents -> {"untracked", "up", "down"}]
    BY DEF Reaches, AppTypes
  <1>. QED BY <1>2, <1>3, <1>4 DEF Reaches, AgentTypes

\* So does one that may be refused, which adds to what is given up.
LEMMA DeliverTypes ==
  ASSUME AppTypes, AgentTypes, TextTypes, NEW a, NEW item \in Items,
         DeliverHeld(a, item)
  PROVE  /\ AgentTypes' /\ seen' \in [Agents -> {"untracked", "up", "down"}]
         /\ forgone' \subseteq Items
  <1>1. CASE Reaches(a, item) /\ UNCHANGED forgone
    BY <1>1, ReachesTypes DEF TextTypes
  <1>2. CASE forgone' = forgone \cup {item} /\ UNCHANGED <<seen, agentVars>>
    BY <1>2 DEF AppTypes, AgentTypes, TextTypes
  <1>. QED BY <1>1, <1>2 DEF DeliverHeld

\* What mngr destroy leaves is well formed.
LEMMA DestroyedTypes ==
  ASSUME AgentTypes, NEW as, Destroyed(as)
  PROVE  AgentTypes'
  <1>. HIDE DEF Agents
  <1>1. proc' \in [Agents -> {"none", "half", "up", "down"}]
    BY DEF Destroyed, AgentTypes
  <1>2. inbox' \in [Agents -> Seq(Items)]
    <2>1. <<>> \in Seq(Items)
      OBVIOUS
    <2>. QED BY <2>1 DEF Destroyed, AgentTypes
  <1>. QED BY <1>1, <1>2 DEF Destroyed, AgentTypes

\* The fields of the record, one at a time.
LEMMA HandoffFields ==
  ASSUME NEW r \in HandoffRecords
  PROVE  /\ \A p \in Phases : [r EXCEPT !.phase = p] \in HandoffRecords
         /\ \A s \in Seq(Messages) : [r EXCEPT !.held = s] \in HandoffRecords
         /\ \A s \in Seq(Messages) :
               [r EXCEPT !.phase = "switching", !.built = TRUE, !.held = s] \in HandoffRecords
  BY DEF HandoffRecords, Phases

\* The runner moves on within the switch.
LEMMA SwitchMove ==
  ASSUME BookInv, NEW h \in Handoffs, NEW l \in Labels, Current(h), Goto(h, l),
         handoff.phase = "switching",
         \/ members = handoff.retiring /\ l \in BeforePcs
         \/ members = Successor /\ l \in AfterPcs,
         UNCHANGED <<members, handoff, begun, destroyed>>
  PROVE  OldRunners' /\ PhaseInv' /\ RecordInv'
  <1>. USE DEF BookInv, RunInv
  <1>1. h = begun /\ h \in Nat /\ pc' = [pc EXCEPT ![h] = l] /\ pc \in [Handoffs -> Labels]
    BY DEF RecordInv, AppTypes
  <1>2. l # "idle"
    BY DEF BeforePcs, AfterPcs
  <1>3. pc'[h] = l /\ \A g \in Handoffs : g # h => pc'[g] = pc[g]
    BY <1>1
  <1>4. OldRunners'
    BY <1>1, <1>2, <1>3 DEF OldRunners, RecordInv, TextTypes
  <1>5. PhaseInv'
    BY <1>1, <1>3 DEF PhaseInv
  <1>6. RecordInv'
    BY DEF RecordInv
  <1>. QED BY <1>4, <1>5, <1>6

\* A step that fails leaves the chat with its old agent, in the failed phase.
LEMMA FailMove ==
  ASSUME BookInv, NEW h \in Handoffs, FailStep(h), pc[h] # "idle",
         Current(h) => handoff.phase = "switching" /\ members = handoff.retiring,
         UNCHANGED <<members, begun, destroyed>>
  PROVE  /\ handoff' \in HandoffRecords /\ pc' \in [Handoffs -> Labels]
         /\ OldRunners' /\ PhaseInv' /\ RecordInv'
  <1>. USE DEF BookInv, RunInv
  <1>1. pc' = [pc EXCEPT ![h] = "done"] /\ pc \in [Handoffs -> Labels]
    BY DEF FailStep, AppTypes
  <1>2. pc'[h] = "done" /\ \A g \in Handoffs : g # h => pc'[g] = pc[g]
    BY <1>1
  <1>3. pc' \in [Handoffs -> Labels]
    BY <1>1 DEF Labels
  <1>4. handoff \in HandoffRecords /\ handoff' \in HandoffRecords
    BY HandoffFields DEF FailStep, RecordTypes, Phases
  <1>5. OldRunners'
    BY <1>2 DEF OldRunners, EarlyPcs
  <1>6. CASE Current(h)
    <2>1. /\ handoff'.phase = "failed" /\ handoff'.id = handoff.id
          /\ handoff'.retiring = handoff.retiring
      BY <1>4, <1>6 DEF FailStep, HandoffRecords
    <2>2. h = begun
      BY <1>6 DEF RecordInv
    <2>3. PhaseInv'
      BY <1>2, <1>6, <2>1, <2>2 DEF PhaseInv
    <2>4. RecordInv'
      BY <1>6, <2>1 DEF RecordInv
    <2>. QED BY <1>3, <1>4, <1>5, <2>3, <2>4
  <1>7. CASE ~Current(h)
    <2>1. handoff' = handoff
      BY <1>7 DEF FailStep
    <2>2. PhaseInv'
      <3>1. CASE h = begun
        <4>1. ~Converging
          BY <1>7, <3>1 DEF RecordInv
        <4>. QED BY <1>2, <2>1, <3>1, <4>1 DEF PhaseInv, EarlyPcs
      <3>2. CASE h # begun
        <4>1. begun \in Handoffs \/ begun = 0
          BY DEF TextTypes
        <4>2. begun = 0 => ~Converging
          BY DEF RecordInv
        <4>. QED BY <1>2, <2>1, <3>2, <4>1, <4>2 DEF PhaseInv
      <3>. QED BY <3>1, <3>2
    <2>3. RecordInv'
      BY <2>1 DEF RecordInv
    <2>. QED BY <1>3, <1>4, <1>5, <2>2, <2>3
  <1>. QED BY <1>6, <1>7

\* So it keeps the whole invariant, if nothing but the agents changes with it.
LEMMA FailKeeps ==
  ASSUME BookInv, NEW h \in Handoffs, FailStep(h), pc[h] # "idle",
         Current(h) => handoff.phase = "switching" /\ members = handoff.retiring,
         UNCHANGED <<members, ended, account, hand, block, asked, calls, flight, clientVars,
                     forgone, countVars>>,
         seen' \in [Agents -> {"untracked", "up", "down"}], AgentTypes'
  PROVE  BookInv'
  <1>1. /\ handoff' \in HandoffRecords /\ pc' \in [Handoffs -> Labels]
        /\ OldRunners' /\ PhaseInv' /\ RecordInv'
    <2>. HIDE DEF Current
    <2>. QED BY FailMove
  <1>2. HeldInv'
    <2>1. handoff'.held = handoff.held /\ (handoff' # handoff => handoff'.phase = "failed")
      BY DEF FailStep, BookInv, RecordTypes, HandoffRecords
    <2>. QED BY <2>1 DEF HeldInv, BookInv, RunInv
  <1>. QED BY <1>1, <1>2 DEF BookInv, RunInv, RecordTypes, AppTypes, TextTypes

\* The runner of the chat's handoff is the last one begun.
LEMMA CurrentIsLast ==
  ASSUME BookInv, NEW h \in Handoffs, Current(h)
  PROVE  h = begun /\ ~destroyed /\ handoff.retiring \in 1 .. begun /\ Successor \in Agents
  BY DEF BookInv, RunInv, RecordInv, TextTypes

\* Where the runner of the chat's handoff is tells how far the handoff has got.
LEMMA RunnerAt ==
  ASSUME BookInv, NEW h \in Handoffs, Current(h)
  PROVE  /\ h = begun
         /\ pc[h] \in {"drain", "drained"} =>
               handoff.phase = "draining" /\ members = handoff.retiring
         /\ pc[h] \in {"summarize", "await", "fold"} =>
               handoff.phase = "summarizing" /\ members = handoff.retiring
         /\ pc[h] = "switch" =>
               handoff.phase = "switching" /\ members \in {handoff.retiring, Successor}
         /\ pc[h] \in BeforePcs =>
               handoff.phase = "switching" /\ members = handoff.retiring
         /\ pc[h] \in AfterPcs \ {"done"} =>
               handoff.phase = "switching" /\ members = Successor
  <1>1. h = begun
    BY CurrentIsLast
  <1>2. handoff.phase \in Phases \ {"none"}
    BY DEF BookInv, RecordTypes, HandoffRecords
  <1>3. PhaseInv
    BY DEF BookInv, RunInv
  <1>4. CASE handoff.phase = "draining"
    BY <1>1, <1>3, <1>4 DEF PhaseInv, BeforePcs, AfterPcs
  <1>5. CASE handoff.phase = "summarizing"
    BY <1>1, <1>3, <1>5 DEF PhaseInv, BeforePcs, AfterPcs
  <1>6. CASE handoff.phase = "switching"
    BY <1>1, <1>3, <1>6 DEF PhaseInv, BeforePcs, AfterPcs
  <1>7. CASE handoff.phase = "failed"
    BY <1>1, <1>3, <1>7 DEF PhaseInv, BeforePcs, AfterPcs
  <1>. QED BY <1>2, <1>4, <1>5, <1>6, <1>7 DEF Phases

\* A queue emptied keeps the types.
LEMMA EmptyQueue == <<>> \in Seq(Items) /\ <<>> \in Seq(Messages)
  OBVIOUS

\* Stopping the old agent keeps the record and the runner.
LEMMA StopRetiringBook ==
  ASSUME BookInv, NEW h \in Handoffs, StopRetiring(h)
  PROVE  BookInv'
  <1>. USE DEF BookInv, RunInv
  <1>1. /\ pc[h] = "switch" /\ Current(h) /\ h = begun /\ handoff.phase = "switching"
        /\ members \in {handoff.retiring, Successor} /\ members \in Agents
    <2>. HIDE DEF Current
    <2>1. pc[h] = "switch" /\ Current(h)
      BY DEF StopRetiring
    <2>. QED BY <2>1, RunnerAt, CurrentIsLast DEF RecordTypes, BeforePcs
  <1>2. UNCHANGED <<members, ended, account, hand, block, asked, calls, flight, clientVars,
                    countVars>>
    BY DEF StopRetiring
  <1>3. CASE UNCHANGED <<handoff, seen, agentVars, forgone>> /\ members = Successor /\ Goto(h, "prompt")
    <2>1. OldRunners' /\ PhaseInv' /\ RecordInv'
      <3>. HIDE DEF Goto, Current
      <3>. QED BY <1>1, <1>2, <1>3, SwitchMove DEF AfterPcs, Labels
    <2>2. pc' \in [Handoffs -> Labels]
      BY <1>3 DEF AppTypes, Labels
    <2>. QED BY <1>2, <1>3, <2>1, <2>2 DEF RecordTypes, AppTypes, AgentTypes, TextTypes, HeldInv
  <1>4. ASSUME members # Successor, Goto(h, "archive"), UNCHANGED handoff
        PROVE  OldRunners' /\ PhaseInv' /\ RecordInv' /\ pc' \in [Handoffs -> Labels]
    <2>1. OldRunners' /\ PhaseInv' /\ RecordInv'
      <3>. HIDE DEF Goto, Current
      <3>. QED BY <1>1, <1>2, <1>4, SwitchMove DEF BeforePcs, Labels
    <2>. QED BY <1>4, <2>1 DEF AppTypes, Labels
  <1>5. CASE UNCHANGED <<handoff, seen, agentVars, forgone>> /\ members # Successor /\ Goto(h, "archive")
    BY <1>2, <1>4, <1>5 DEF RecordTypes, AppTypes, AgentTypes, TextTypes, HeldInv
  <1>6. CASE /\ members # Successor /\ Goto(h, "archive")
             /\ proc' = [proc EXCEPT ![members] = "down"]
             /\ seen' = [seen EXCEPT ![members] = "down"]
             /\ inbox' = [inbox EXCEPT ![members] = <<>>]
             /\ forgone' = forgone \cup Elems(inbox[members])
             /\ UNCHANGED <<handoff, runsOn, renamed, picked, turns>>
    <2>1. seen' \in [Agents -> {"untracked", "up", "down"}]
      BY <1>6 DEF AppTypes
    <2>2. AgentTypes'
      BY <1>6, EmptyQueue DEF AgentTypes
    <2>3. forgone' \subseteq Items
      BY <1>1, <1>6, ElemsIn DEF AgentTypes, TextTypes
    <2>. QED BY <1>2, <1>4, <1>6, <2>1, <2>2, <2>3 DEF RecordTypes, AppTypes, TextTypes, HeldInv
  <1>7. CASE members # Successor /\ FailStep(h) /\ UNCHANGED <<seen, agentVars, forgone>>
    BY <1>1, <1>2, <1>7, FailKeeps DEF RecordTypes, AppTypes, AgentTypes, TextTypes
  <1>. QED BY <1>3, <1>5, <1>6, <1>7 DEF StopRetiring

\* Archiving the old agent keeps the record and the runner.
LEMMA ArchiveRetiringBook ==
  ASSUME BookInv, NEW h \in Handoffs, ArchiveRetiring(h)
  PROVE  BookInv'
  <1>. USE DEF BookInv, RunInv
  <1>1. /\ Current(h) /\ h = begun /\ handoff.phase = "switching" /\ pc[h] # "idle"
        /\ members = handoff.retiring
    <2>. HIDE DEF Current
    <2>1. pc[h] = "archive" /\ Current(h)
      BY DEF ArchiveRetiring
    <2>. QED BY <2>1, RunnerAt, CurrentIsLast DEF RecordTypes, BeforePcs
  <1>2. UNCHANGED <<members, ended, account, seen, hand, block, asked, calls, flight, proc,
                    runsOn, picked, inbox, turns, clientVars, forgone, countVars>>
    BY DEF ArchiveRetiring
  <1>3. CASE Goto(h, "close") /\ UNCHANGED handoff
    <2>1. OldRunners' /\ PhaseInv' /\ RecordInv'
      <3>. HIDE DEF Goto, Current
      <3>. QED BY <1>1, <1>2, <1>3, SwitchMove DEF BeforePcs, Labels
    <2>2. pc' \in [Handoffs -> Labels]
      BY <1>3 DEF AppTypes, Labels
    <2>3. renamed' \subseteq Agents
      BY <1>1 DEF ArchiveRetiring, AgentTypes, RecordTypes
    <2>. QED BY <1>2, <1>3, <2>1, <2>2, <2>3 DEF RecordTypes, AppTypes, AgentTypes, TextTypes, HeldInv
  <1>4. CASE FailStep(h) /\ UNCHANGED renamed
    BY <1>1, <1>2, <1>4, FailKeeps DEF RecordTypes, AppTypes, AgentTypes, TextTypes
  <1>. QED BY <1>3, <1>4 DEF ArchiveRetiring

\* Creating the successor keeps the record and the runner.
LEMMA CreateSuccessorBook ==
  ASSUME BookInv, NEW h \in Handoffs, CreateSuccessor(h)
  PROVE  BookInv'
  <1>. USE DEF BookInv, RunInv
  <1>1. /\ Current(h) /\ h = begun /\ handoff.phase = "switching" /\ pc[h] # "idle"
        /\ members = handoff.retiring /\ Successor \in Agents
    <2>. HIDE DEF Current
    <2>1. pc[h] = "create" /\ Current(h)
      BY DEF CreateSuccessor
    <2>. QED BY <2>1, RunnerAt, CurrentIsLast DEF RecordTypes, BeforePcs
  <1>2. UNCHANGED <<members, ended, account, seen, hand, block, asked, calls, flight,
                    clientVars, forgone, countVars>>
    BY DEF CreateSuccessor
  <1>3. ASSUME NEW l \in {"pick", "creating"}, Goto(h, l), UNCHANGED handoff
        PROVE  OldRunners' /\ PhaseInv' /\ RecordInv' /\ pc' \in [Handoffs -> Labels]
    <2>1. OldRunners' /\ PhaseInv' /\ RecordInv'
      <3>. HIDE DEF Goto, Current
      <3>. QED BY <1>1, <1>2, <1>3, SwitchMove DEF BeforePcs, Labels
    <2>. QED BY <1>3, <2>1 DEF AppTypes, Labels
  <1>4. CASE Goto(h, "pick") /\ UNCHANGED <<handoff, agentVars>>
    BY <1>2, <1>3, <1>4 DEF RecordTypes, AppTypes, AgentTypes, TextTypes, HeldInv
  <1>5. CASE MngrCreate(h) /\ UNCHANGED handoff
    <2>1. handoff.target \in Accounts \cup {Nothing}
      BY DEF RecordTypes, HandoffRecords
    <2>2. AgentTypes'
      BY <1>5, <2>1 DEF AgentTypes, MngrCreate
    <2>. QED BY <1>2, <1>3, <1>5, <2>2 DEF MngrCreate, RecordTypes, AppTypes, TextTypes, HeldInv
  <1>6. CASE Destroyed({Successor}) /\ UNCHANGED <<handoff, pc>>
    <2>1. AgentTypes'
      BY <1>6, DestroyedTypes
    <2>. QED BY <1>2, <1>6, <2>1 DEF RecordTypes, AppTypes, TextTypes, HeldInv, OldRunners,
                                     PhaseInv, RecordInv
  <1>7. CASE FailStep(h) /\ UNCHANGED agentVars
    BY <1>1, <1>2, <1>7, FailKeeps DEF RecordTypes, AppTypes, AgentTypes, TextTypes
  <1>. QED BY <1>4, <1>5, <1>6, <1>7 DEF CreateSuccessor

\* The model pick keeps the record and the runner.
LEMMA ApplyModelPickBook ==
  ASSUME BookInv, NEW h \in Handoffs, ApplyModelPick(h)
  PROVE  BookInv'
  <1>. USE DEF BookInv, RunInv
  <1>1. /\ Current(h) /\ h = begun /\ handoff.phase = "switching" /\ pc[h] # "idle"
        /\ members = handoff.retiring /\ Successor \in Agents
    <2>. HIDE DEF Current
    <2>1. pc[h] = "pick" /\ Current(h)
      BY DEF ApplyModelPick
    <2>. QED BY <2>1, RunnerAt, CurrentIsLast DEF RecordTypes, BeforePcs
  <1>2. UNCHANGED <<members, ended, account, seen, hand, block, asked, calls, flight, proc,
                    runsOn, renamed, inbox, turns, clientVars, forgone, countVars>>
    BY DEF ApplyModelPick
  <1>3. CASE Goto(h, "adopt") /\ UNCHANGED handoff
    <2>1. OldRunners' /\ PhaseInv' /\ RecordInv'
      <3>. HIDE DEF Goto, Current
      <3>. QED BY <1>1, <1>2, <1>3, SwitchMove DEF BeforePcs, Labels
    <2>2. pc' \in [Handoffs -> Labels]
      BY <1>3 DEF AppTypes, Labels
    <2>3. picked' \subseteq Agents
      BY <1>1 DEF ApplyModelPick, AgentTypes
    <2>. QED BY <1>2, <1>3, <2>1, <2>2, <2>3 DEF RecordTypes, AppTypes, AgentTypes, TextTypes, HeldInv
  <1>4. CASE FailStep(h) /\ UNCHANGED picked
    BY <1>1, <1>2, <1>4, FailKeeps DEF RecordTypes, AppTypes, AgentTypes, TextTypes
  <1>. QED BY <1>3, <1>4 DEF ApplyModelPick

\* A runner goes to a place: the others stay where they are.
LEMMA Moved ==
  ASSUME BookInv, NEW h \in Handoffs, NEW l \in Labels \ {"idle"}, Goto(h, l), pc[h] # "idle",
         h < begun => l \in EarlyPcs, begun' = begun
  PROVE  /\ OldRunners' /\ pc' \in [Handoffs -> Labels]
         /\ pc'[h] = l /\ \A g \in Handoffs : g # h => pc'[g] = pc[g]
  <1>1. pc' = [pc EXCEPT ![h] = l] /\ pc \in [Handoffs -> Labels]
    BY DEF BookInv, AppTypes
  <1>2. pc'[h] = l /\ \A g \in Handoffs : g # h => pc'[g] = pc[g]
    BY <1>1
  <1>3. OldRunners'
    BY <1>2 DEF BookInv, RunInv, OldRunners
  <1>. QED BY <1>1, <1>2, <1>3

\* Where a runner goes that has no handoff any more is nobody's concern.
LEMMA OverMove ==
  ASSUME BookInv, NEW h \in Handoffs, NEW l \in EarlyPcs, Goto(h, l), ~Current(h),
         UNCHANGED <<members, handoff, begun, destroyed>>
  PROVE  PhaseInv' /\ RecordInv'
  <1>. USE DEF BookInv, RunInv
  <1>1. pc' = [pc EXCEPT ![h] = l] /\ pc \in [Handoffs -> Labels]
    BY DEF AppTypes
  <1>2. pc'[h] = l /\ \A g \in Handoffs : g # h => pc'[g] = pc[g]
    BY <1>1
  <1>3. begun \in Handoffs \/ begun = 0
    BY DEF TextTypes
  <1>4. RecordInv'
    BY DEF RecordInv
  <1>5. CASE Converging
    <2>1. h # begun /\ begun \in Handoffs
      BY <1>3, <1>5 DEF RecordInv
    <2>2. pc'[begun] = pc[begun]
      BY <1>2, <2>1
    <2>. QED BY <1>4, <1>5, <2>2 DEF PhaseInv
  <1>6. CASE ~Converging
    <2>1. begun = 0 \/ destroyed \/ pc[begun] \in EarlyPcs
      BY <1>6 DEF PhaseInv
    <2>2. begun = 0 \/ destroyed \/ pc'[begun] \in EarlyPcs
      BY <1>2, <1>3, <2>1
    <2>. QED BY <1>4, <1>6, <2>2 DEF PhaseInv
  <1>. QED BY <1>5, <1>6

\* What is held is distinct messages, and a message fits behind them.
LEMMA HeldTypes ==
  ASSUME BookInv
  PROVE  /\ handoff \in HandoffRecords /\ handoff.held \in Seq(Messages)
         /\ \A m \in Messages : Holding(m) \in HandoffRecords
         /\ handoff.held # <<>> => /\ Tail(handoff.held) \in Seq(Messages)
                                   /\ Distinct(Tail(handoff.held))
                                   /\ Head(handoff.held) \in Messages
  <1>1. handoff \in HandoffRecords /\ handoff.held \in Seq(Messages)
    BY DEF BookInv, RecordTypes, HandoffRecords
  <1>2. \A m \in Messages : Append(handoff.held, m) \in Seq(Messages)
    BY <1>1
  <1>3. \A m \in Messages : Holding(m) \in HandoffRecords
    BY <1>1, <1>2, HandoffFields DEF Holding
  <1>4. handoff.held # <<>> => /\ Tail(handoff.held) \in Seq(Messages)
                               /\ Distinct(Tail(handoff.held))
                               /\ Head(handoff.held) \in Messages
    BY <1>1, TailDistinct, HeadTailProperties DEF BookInv, RunInv, HeldInv
  <1>. QED BY <1>1, <1>3, <1>4

\* A runner that is past the early places is the last one's, and its handoff is still
\* the chat's unless the chat is gone.
LEMMA LateIsLast ==
  ASSUME BookInv, NEW h \in Handoffs, pc[h] \notin EarlyPcs \cup {"idle"}
  PROVE  h = begun /\ (~destroyed => Current(h))
  <1>1. begun \in Nat /\ h \in Nat
    BY DEF BookInv, TextTypes
  <1>2. ~(h > begun) /\ ~(h < begun)
    BY DEF BookInv, RunInv, OldRunners
  <1>3. h = begun
    BY <1>1, <1>2
  <1>4. ~destroyed => Converging
    BY <1>1, <1>3 DEF BookInv, RunInv, PhaseInv
  <1>5. Converging => handoff.id = begun
    BY DEF BookInv, RunInv, RecordInv
  <1>. QED BY <1>3, <1>4, <1>5

\* Taking the next held send keeps them: the runner goes on, or the handoff ends with
\* its successor as the chat's agent.
LEMMA TakeNextHeldSendBook ==
  ASSUME BookInv, NEW h \in Handoffs, TakeNextHeldSend(h)
  PROVE  BookInv'
  <1>. USE DEF BookInv, RunInv
  <1>1. pc[h] = "take" /\ Current(h) /\ h = begun /\ handoff.phase = "switching"
        /\ members = Successor /\ handoff.retiring \in 1 .. begun
    <2>. HIDE DEF Current
    <2>1. pc[h] = "take" /\ Current(h)
      BY DEF TakeNextHeldSend
    <2>. QED BY <2>1, RunnerAt, CurrentIsLast DEF AfterPcs
  <1>2. UNCHANGED <<members, ended, account, seen, block, asked, calls, flight, agentVars,
                    clientVars, forgone, countVars>>
    BY DEF TakeNextHeldSend
  <1>3. CASE Goto(h, "done") /\ UNCHANGED <<handoff, hand>>
    <2>1. OldRunners' /\ PhaseInv' /\ RecordInv'
      <3>. HIDE DEF Goto, Current
      <3>. QED BY <1>1, <1>2, <1>3, SwitchMove DEF AfterPcs, Labels
    <2>. QED BY <1>2, <1>3, <2>1 DEF RecordTypes, AppTypes, AgentTypes, TextTypes, HeldInv, Labels
  <1>4. CASE handoff' = NoHandoff /\ Goto(h, "done") /\ UNCHANGED hand
    <2>1. /\ OldRunners' /\ pc' \in [Handoffs -> Labels] /\ pc'[h] = "done"
      <3>. HIDE DEF Goto
      <3>. QED BY <1>1, <1>2, <1>4, Moved DEF EarlyPcs, Labels
    <2>2. handoff' \in HandoffRecords
      BY <1>4, EmptyQueue DEF NoHandoff, HandoffRecords, Phases
    <2>3. handoff'.phase = "none" /\ handoff'.held = <<>>
      BY <1>4 DEF NoHandoff
    <2>4. PhaseInv'
      BY <1>1, <1>2, <2>1, <2>3 DEF PhaseInv, EarlyPcs
    <2>5. RecordInv'
      BY <1>1, <1>2, <1>4, <2>3 DEF RecordInv, TextTypes
    <2>6. HeldInv'
      BY <2>3, EmptyDistinct DEF HeldInv
    <2>. QED BY <1>2, <1>4, <2>1, <2>2, <2>4, <2>5, <2>6
             DEF RecordTypes, AppTypes, AgentTypes, TextTypes
  <1>5. CASE /\ handoff.held # <<>> /\ hand' = [hand EXCEPT ![h] = Head(handoff.held)]
             /\ handoff' = [handoff EXCEPT !.held = Tail(@)] /\ Goto(h, "send")
    <2>1. handoff' \in HandoffRecords
      BY <1>5, HeldTypes, HandoffFields
    <2>2. /\ handoff'.phase = "switching" /\ handoff'.id = handoff.id
          /\ handoff'.retiring = handoff.retiring /\ handoff'.held = Tail(handoff.held)
      BY <1>1, <1>5, HeldTypes DEF HandoffRecords
    <2>3. OldRunners' /\ pc' \in [Handoffs -> Labels] /\ pc'[h] = "send"
      <3>1. ~(h < begun)
        BY <1>1 DEF TextTypes
      <3>. HIDE DEF Goto
      <3>. QED BY <1>1, <1>2, <1>5, <3>1, Moved DEF Labels
    <2>4. PhaseInv'
      BY <1>1, <1>2, <2>2, <2>3 DEF PhaseInv, AfterPcs
    <2>5. RecordInv'
      BY <1>1, <1>2, <2>2 DEF RecordInv
    <2>6. HeldInv'
      BY <1>5, <2>2, HeldTypes DEF HeldInv
    <2>7. hand' \in [Handoffs -> Messages \cup {Nothing}]
      BY <1>5, HeldTypes DEF AppTypes
    <2>. QED BY <1>2, <2>1, <2>3, <2>4, <2>5, <2>6, <2>7
             DEF RecordTypes, AppTypes, AgentTypes, TextTypes
  <1>. QED BY <1>3, <1>4, <1>5 DEF TakeNextHeldSend

\* Holding a send keeps the record and the runner.
LEMMA HoldSendBook ==
  ASSUME BookInv, NEW m \in Messages, HoldSend(m)
  PROVE  BookInv'
  <1>. USE DEF BookInv, RunInv
  <1>1. RecordTypes'
    BY HeldTypes DEF HoldSend, RecordTypes
  <1>2. AppTypes'
    BY DEF HoldSend, AppTypes
  <1>3. AgentTypes'
    BY DEF HoldSend, AgentTypes
  <1>4. TextTypes'
    <2>1. posts' \in [Messages -> 0 .. MaxPosts]
      <3>1. posts[m] + 1 \in 0 .. MaxPosts
        BY DEF HoldSend, TextTypes
      <3>. QED BY <3>1 DEF HoldSend, TextTypes
    <2>2. log' \in Seq(Messages)
      <3>1. log \in Seq(Messages) /\ Append(log, m) \in Seq(Messages)
        BY DEF TextTypes
      <3>. QED BY <3>1 DEF HoldSend
    <2>. QED BY <2>1, <2>2 DEF HoldSend, TextTypes
  <1>5. OldRunners'
    BY DEF HoldSend, OldRunners
  <1>6. PhaseInv'
    BY DEF HoldSend, Holding, PhaseInv, RecordInv, AppTypes, TextTypes, RecordTypes, HandoffRecords, EarlyPcs, BeforePcs, AfterPcs
  <1>7. RecordInv'
    BY DEF HoldSend, Holding, RecordInv, PhaseInv, RecordTypes, HandoffRecords, TextTypes, BeforePcs, AfterPcs
  <1>8. HeldInv'
    <2>1. CASE m = handoff.trigger \/ m \in Elems(handoff.held)
      BY <2>1 DEF HoldSend, HeldInv
    <2>2. CASE m # handoff.trigger /\ m \notin Elems(handoff.held)
      <3>1. /\ handoff'.held = Append(handoff.held, m) /\ handoff'.trigger = handoff.trigger
            /\ handoff'.phase = handoff.phase
        BY <2>2, HeldTypes DEF HoldSend, Holding, HandoffRecords
      <3>2. Distinct(handoff'.held)
        BY <2>2, <3>1, HeldTypes, AppendDistinct DEF HeldInv
      <3>3. handoff.held # <<>> => handoff'.held # <<>> /\ Head(handoff'.held) = Head(handoff.held)
        BY <3>1, HeldTypes
      <3>. QED BY <3>1, <3>2, <3>3 DEF HeldInv
    <2>. QED BY <2>1, <2>2
  <1>. QED BY <1>1, <1>2, <1>3, <1>4, <1>5, <1>6, <1>7, <1>8 DEF BookInv

\* Resolving a send keeps the record and the runner.
LEMMA ResolveSendBook ==
  ASSUME BookInv, NEW m \in Messages, ResolveSend(m)
  PROVE  BookInv'
  <1>. USE DEF BookInv, RunInv
  <1>1. RecordTypes'
    BY DEF ResolveSend, RecordTypes, HandoffRecords
  <1>2. AppTypes'
    <2>1. members \in 0 .. MaxHandoffs + 1
      BY DEF RecordTypes
    <2>2. flight' \in [Messages -> 0 .. MaxHandoffs + 1]
      BY <2>1 DEF ResolveSend, AppTypes
    <2>. QED BY <2>2 DEF ResolveSend, AppTypes
  <1>3. AgentTypes'
    BY DEF ResolveSend, AgentTypes
  <1>4. TextTypes'
    <2>1. posts[m] + 1 \in 0 .. MaxPosts
      BY DEF ResolveSend, TextTypes
    <2>2. posts' \in [Messages -> 0 .. MaxPosts]
      BY <2>1 DEF ResolveSend, TextTypes
    <2>. QED BY <2>2 DEF ResolveSend, TextTypes
  <1>5. OldRunners'
    BY DEF ResolveSend, OldRunners
  <1>6. PhaseInv'
    BY DEF ResolveSend, PhaseInv
  <1>7. RecordInv'
    BY DEF ResolveSend, RecordInv
  <1>8. HeldInv'
    BY DEF ResolveSend, HeldInv
  <1>. QED BY <1>1, <1>2, <1>3, <1>4, <1>5, <1>6, <1>7, <1>8 DEF BookInv

\* A send that reaches its agent or comes back keeps the record and the runner.
LEMMA SendLandsBook ==
  ASSUME BookInv, NEW m \in Messages, SendLands(m)
  PROVE  BookInv'
  <1>. USE DEF BookInv, RunInv
  <1>1. RecordTypes'
    BY DEF SendLands, RecordTypes, HandoffRecords
  <1>2. AppTypes'
    <2>1. flight[m] \in Agents /\ Plain(m) \in Items
      BY ItemTypes DEF SendLands, AppTypes
    <2>2. seen' \in [Agents -> {"untracked", "up", "down"}]
      <3>1. CASE Reaches(flight[m], Plain(m))
        BY <2>1, <3>1, ReachesTypes
      <3>. QED BY <3>1 DEF SendLands, AppTypes
    <2>3. flight' \in [Messages -> 0 .. MaxHandoffs + 1]
      BY DEF SendLands, AppTypes
    <2>. QED BY <2>2, <2>3 DEF SendLands, AppTypes
  <1>3. AgentTypes'
    <2>1. flight[m] \in Agents /\ Plain(m) \in Items
      BY ItemTypes DEF SendLands, AppTypes
    <2>2. CASE Reaches(flight[m], Plain(m))
      BY <2>1, <2>2, ReachesTypes
    <2>3. CASE UNCHANGED agentVars
      BY <2>3 DEF AgentTypes
    <2>. QED BY <2>2, <2>3 DEF SendLands
  <1>4. TextTypes'
    BY DEF SendLands, Reaches, TextTypes
  <1>5. OldRunners'
    BY DEF SendLands, OldRunners
  <1>6. PhaseInv'
    BY DEF SendLands, PhaseInv
  <1>7. RecordInv'
    BY DEF SendLands, RecordInv
  <1>8. HeldInv'
    BY DEF SendLands, HeldInv
  <1>. QED BY <1>1, <1>2, <1>3, <1>4, <1>5, <1>6, <1>7, <1>8 DEF BookInv

\* Beginning a handoff keeps the record and the runner.
LEMMA BeginHandoffBook ==
  ASSUME BookInv, NEW h \in Handoffs, NEW to \in Accounts, NEW m \in Messages \cup {Nothing}, NEW k \in BOOLEAN, BeginHandoff(h, to, m, k)
  PROVE  BookInv'
  <1>. USE DEF BookInv, RunInv
  <1>1. RecordTypes'
    BY DEF BeginHandoff, Opened, RecordTypes, HandoffRecords, Phases
  <1>2. AppTypes'
    BY DEF BeginHandoff, Opened, AppTypes, Labels
  <1>3. AgentTypes'
    BY DEF BeginHandoff, AgentTypes
  <1>4. TextTypes'
    BY DEF BeginHandoff, Opened, TextTypes
  <1>5. OldRunners'
    <2>1. h = begun + 1 /\ begun' = h /\ pc' = [pc EXCEPT ![h] = "drain"]
      BY DEF BeginHandoff
    <2>2. pc'[h] = "drain" /\ \A g \in Handoffs : g # h => pc'[g] = pc[g]
      BY <2>1 DEF AppTypes
    <2>3. begun > 0 => begun \in Handoffs /\ pc[begun] \in EarlyPcs
      <3>1. ~Converging /\ ~destroyed
        BY DEF BeginHandoff
      <3>. QED BY <3>1 DEF PhaseInv, TextTypes
    <2>4. begun \in Nat /\ \A g \in Handoffs : g \in Nat
      BY DEF TextTypes
    <2>. QED BY <2>1, <2>2, <2>3, <2>4 DEF OldRunners, EarlyPcs
  <1>6. PhaseInv'
    BY DEF BeginHandoff, Opened, PhaseInv, RecordInv, AppTypes, TextTypes, RecordTypes, HandoffRecords, EarlyPcs, BeforePcs, AfterPcs
  <1>7. RecordInv'
    BY DEF BeginHandoff, Opened, RecordInv, PhaseInv, RecordTypes, HandoffRecords, TextTypes, BeforePcs, AfterPcs
  <1>8. HeldInv'
    <2>1. /\ handoff'.held = (IF m = Nothing THEN <<>> ELSE <<m>>)
          /\ handoff'.trigger = m /\ handoff'.phase = "draining"
      BY DEF BeginHandoff, Opened
    <2>2. CASE m = Nothing
      BY <2>1, <2>2, EmptyDistinct DEF HeldInv
    <2>3. CASE m # Nothing
      <3>1. handoff'.held = <<m>> /\ <<m>> # <<>> /\ Head(<<m>>) = m
        BY <2>1, <2>3
      <3>. QED BY <2>1, <3>1, OneDistinct DEF HeldInv
    <2>. QED BY <2>2, <2>3
  <1>. QED BY <1>1, <1>2, <1>3, <1>4, <1>5, <1>6, <1>7, <1>8 DEF BookInv

\* Calling a handoff off keeps the record and the runner.
LEMMA CancelHandoffBook ==
  ASSUME BookInv, CancelHandoff
  PROVE  BookInv'
  <1>. USE DEF BookInv, RunInv
  <1>1. RecordTypes'
    BY DEF CancelHandoff, CancellablePhases, NoHandoff, RecordTypes, HandoffRecords, Phases
  <1>2. AppTypes'
    <2>1. Others \in Seq(Messages)
      BY OthersAre DEF CancelHandoff, CancellablePhases
    <2>2. calls.msgs \o Others \in Seq(Messages)
      BY <2>1 DEF AppTypes
    <2>3. members \in 0 .. MaxHandoffs + 1
      BY DEF RecordTypes
    <2>4. calls' \in [to : 0 .. MaxHandoffs + 1, msgs : Seq(Messages)]
      BY <2>2, <2>3 DEF CancelHandoff
    <2>. QED BY <2>4 DEF CancelHandoff, AppTypes
  <1>3. AgentTypes'
    BY DEF CancelHandoff, AgentTypes
  <1>4. TextTypes'
    <2>1. handoff.trigger \in Messages \cup {Nothing}
      BY DEF RecordTypes, HandoffRecords
    <2>2. composer' \subseteq Messages
      BY <2>1 DEF CancelHandoff, TextTypes
    <2>. QED BY <2>2 DEF CancelHandoff, TextTypes
  <1>5. OldRunners'
    BY DEF CancelHandoff, OldRunners
  <1>6. PhaseInv'
    BY DEF CancelHandoff, CancellablePhases, NoHandoff, PhaseInv, RecordInv, AppTypes, TextTypes, RecordTypes, HandoffRecords, EarlyPcs, BeforePcs, AfterPcs
  <1>7. RecordInv'
    BY DEF CancelHandoff, CancellablePhases, NoHandoff, RecordInv, PhaseInv, RecordTypes, HandoffRecords, TextTypes, BeforePcs, AfterPcs
  <1>8. HeldInv'
    BY EmptyDistinct DEF CancelHandoff, NoHandoff, HeldInv
  <1>. QED BY <1>1, <1>2, <1>3, <1>4, <1>5, <1>6, <1>7, <1>8 DEF BookInv

\* Delivering what a handoff called off had held keeps the record and the runner.
LEMMA DeliverCallBook ==
  ASSUME BookInv, DeliverCall
  PROVE  BookInv'
  <1>. USE DEF BookInv, RunInv
  <1>1. RecordTypes'
    BY DEF DeliverCall, RecordTypes, HandoffRecords
  <1>2. AppTypes'
    <2>1. calls.msgs # <<>> /\ calls.msgs \in Seq(Messages)
      BY DEF DeliverCall, AppTypes
    <2>2. Head(calls.msgs) \in Messages /\ Tail(calls.msgs) \in Seq(Messages)
      BY <2>1, HeadTailProperties
    <2>3. seen' \in [Agents -> {"untracked", "up", "down"}]
      BY <2>2, ItemTypes, DeliverTypes DEF DeliverCall
    <2>4. calls' \in [to : 0 .. MaxHandoffs + 1, msgs : Seq(Messages)]
      BY <2>2 DEF DeliverCall, AppTypes
    <2>. QED BY <2>3, <2>4 DEF DeliverCall, AppTypes
  <1>3. AgentTypes'
    <2>1. Head(calls.msgs) \in Messages
      BY HeadTailProperties DEF DeliverCall, AppTypes
    <2>. QED BY <2>1, ItemTypes, DeliverTypes DEF DeliverCall
  <1>4. TextTypes'
    <2>1. Head(calls.msgs) \in Messages
      BY HeadTailProperties DEF DeliverCall, AppTypes
    <2>2. forgone' \subseteq Items
      BY <2>1, ItemTypes, DeliverTypes DEF DeliverCall
    <2>. QED BY <2>2 DEF DeliverCall, TextTypes
  <1>5. OldRunners'
    BY DEF DeliverCall, OldRunners
  <1>6. PhaseInv'
    BY DEF DeliverCall, PhaseInv
  <1>7. RecordInv'
    BY DEF DeliverCall, RecordInv
  <1>8. HeldInv'
    BY DEF DeliverCall, HeldInv
  <1>. QED BY <1>1, <1>2, <1>3, <1>4, <1>5, <1>6, <1>7, <1>8 DEF BookInv

\* A retry keeps the record and the runner.
LEMMA RetryHandoffBook ==
  ASSUME BookInv, NEW to \in Accounts, RetryHandoff(to)
  PROVE  BookInv'
  <1>. USE DEF BookInv, RunInv
  <1>1. RecordTypes'
    BY DEF RetryHandoff, Discards, RecordTypes, HandoffRecords, Phases
  <1>2. AppTypes'
    BY DEF RetryHandoff, Discards, AppTypes, Labels
  <1>3. AgentTypes'
    BY DEF RetryHandoff, AgentTypes
  <1>4. TextTypes'
    BY DEF RetryHandoff, Discards, TextTypes
  <1>5. OldRunners'
    BY DEF RetryHandoff, Discards, OldRunners, RecordInv, AppTypes, TextTypes, EarlyPcs
  <1>6. PhaseInv'
    BY DEF RetryHandoff, Discards, PhaseInv, RecordInv, AppTypes, TextTypes, RecordTypes, HandoffRecords, EarlyPcs, BeforePcs, AfterPcs
  <1>7. RecordInv'
    BY DEF RetryHandoff, Discards, RecordInv, PhaseInv, RecordTypes, HandoffRecords, TextTypes, BeforePcs, AfterPcs
  <1>8. HeldInv'
    BY DEF RetryHandoff, Discards, HeldInv, RecordTypes, HandoffRecords
  <1>. QED BY <1>1, <1>2, <1>3, <1>4, <1>5, <1>6, <1>7, <1>8 DEF BookInv

\* Discarding the half-made successor keeps the record and the runner.
LEMMA DiscardBook ==
  ASSUME BookInv, NEW h \in Handoffs, Discard(h)
  PROVE  BookInv'
  <1>. USE DEF BookInv, RunInv
  <1>0. pc[h] # "idle" /\ (Current(h) => h = begun)
    BY CurrentIsLast DEF Discard
  <1>1. RecordTypes'
    BY DEF Discard, RecordTypes, HandoffRecords
  <1>2. AppTypes'
    BY DEF Discard, Destroyed, AppTypes, Labels
  <1>3. AgentTypes'
    BY DestroyedTypes DEF Discard, AgentTypes
  <1>4. TextTypes'
    BY DEF Discard, TextTypes
  <1>5. OldRunners'
    BY <1>0 DEF Discard, Destroyed, OldRunners, RecordInv, AppTypes, TextTypes, EarlyPcs
  <1>6. PhaseInv'
    <2>1. pc[h] = "discard" /\ pc' = [pc EXCEPT ![h] = "switch"]
      BY DEF Discard
    <2>2. h = begun
      BY <2>1 DEF OldRunners, EarlyPcs, TextTypes
    <2>3. handoff.phase = "switching" => members = handoff.retiring
      BY <2>1, <2>2 DEF PhaseInv, AfterPcs
    <2>4. handoff.phase \in Phases /\ pc'[begun] = "switch"
      BY <2>1, <2>2 DEF RecordTypes, HandoffRecords, AppTypes
    <2>5. handoff.phase \in {"switching", "none"}
      BY <2>1, <2>2, <2>4 DEF PhaseInv, Phases
    <2>6. handoff.phase = "none" => destroyed
      BY <2>1, <2>2 DEF PhaseInv, EarlyPcs
    <2>7. UNCHANGED <<members, handoff, begun, destroyed>>
      BY DEF Discard
    <2>. QED BY <2>3, <2>4, <2>5, <2>6, <2>7 DEF PhaseInv
  <1>7. RecordInv'
    BY DEF Discard, RecordInv
  <1>8. HeldInv'
    BY DEF Discard, HeldInv
  <1>. QED BY <1>1, <1>2, <1>3, <1>4, <1>5, <1>6, <1>7, <1>8 DEF BookInv

\* A runner that stops keeps the record and the runner.
LEMMA StoppedBook ==
  ASSUME BookInv, NEW h \in Handoffs, Stopped(h)
  PROVE  BookInv'
  <1>. USE DEF BookInv, RunInv
  <1>0. pc[h] # "idle" /\ (Current(h) => h = begun)
    BY CurrentIsLast DEF Stopped
  <1>1. RecordTypes'
    BY DEF Stopped, RecordTypes, HandoffRecords
  <1>2. AppTypes'
    BY DEF Stopped, AppTypes, Labels
  <1>3. AgentTypes'
    BY DEF Stopped, AgentTypes
  <1>4. TextTypes'
    BY DEF Stopped, TextTypes
  <1>5. OldRunners'
    BY <1>0 DEF Stopped, OldRunners, RecordInv, AppTypes, TextTypes, EarlyPcs
  <1>6. PhaseInv'
    BY <1>0 DEF Stopped, PhaseInv, RecordInv, AppTypes, TextTypes, RecordTypes, HandoffRecords, EarlyPcs, BeforePcs, AfterPcs
  <1>7. RecordInv'
    BY DEF Stopped, RecordInv
  <1>8. HeldInv'
    BY DEF Stopped, HeldInv
  <1>. QED BY <1>1, <1>2, <1>3, <1>4, <1>5, <1>6, <1>7, <1>8 DEF BookInv

\* The drain keeps the record and the runner.
LEMMA DrainBook ==
  ASSUME BookInv, NEW h \in Handoffs, Drain(h)
  PROVE  BookInv'
  <1>. USE DEF BookInv, RunInv
  <1>0. pc[h] # "idle" /\ (Current(h) => h = begun)
    BY CurrentIsLast DEF Drain
  <1>1. RecordTypes'
    BY DEF Drain, RecordTypes, HandoffRecords
  <1>2. AppTypes'
    <2>1. inbox[members] \in Seq(Items)
      BY DEF RecordTypes, AgentTypes
    <2>2. block' \in [Handoffs -> Seq(Items)]
      BY <2>1 DEF Drain, AppTypes
    <2>3. pc' \in [Handoffs -> Labels]
      BY DEF Drain, AppTypes, Labels
    <2>. QED BY <2>2, <2>3 DEF Drain, AppTypes
  <1>3. AgentTypes'
    <2>1. inbox' \in [Agents -> Seq(Items)]
      BY EmptyQueue DEF Drain, AgentTypes
    <2>. QED BY <2>1 DEF Drain, AgentTypes
  <1>4. TextTypes'
    BY DEF Drain, TextTypes
  <1>5. OldRunners'
    BY <1>0 DEF Drain, OldRunners, RecordInv, AppTypes, TextTypes, EarlyPcs
  <1>6. PhaseInv'
    BY <1>0 DEF Drain, PhaseInv, RecordInv, AppTypes, TextTypes, RecordTypes, HandoffRecords, EarlyPcs, BeforePcs, AfterPcs
  <1>7. RecordInv'
    BY DEF Drain, RecordInv
  <1>8. HeldInv'
    BY DEF Drain, HeldInv
  <1>. QED BY <1>1, <1>2, <1>3, <1>4, <1>5, <1>6, <1>7, <1>8 DEF BookInv

\* The end of the drain keeps the record and the runner.
LEMMA DrainedBook ==
  ASSUME BookInv, NEW h \in Handoffs, Drained(h)
  PROVE  BookInv'
  <1>. USE DEF BookInv, RunInv
  <1>0. pc[h] # "idle" /\ (Current(h) => h = begun)
    BY CurrentIsLast DEF Drained
  <1>1. RecordTypes'
    BY DEF Drained, BlockGoesBack, Texts, RecordTypes, HandoffRecords, Phases
  <1>2. AppTypes'
    <2>1. block' \in [Handoffs -> Seq(Items)]
      BY EmptyQueue DEF Drained, AppTypes
    <2>2. pc' \in [Handoffs -> Labels]
      <3>1. pc' = [pc EXCEPT ![h] = "summarize"] \/ pc' = [pc EXCEPT ![h] = "done"]
        BY DEF Drained
      <3>. QED BY <3>1 DEF AppTypes, Labels
    <2>3. asked' \in [Handoffs -> BOOLEAN]
      BY DEF Drained, AppTypes
    <2>. QED BY <2>1, <2>2, <2>3 DEF Drained, AppTypes
  <1>3. AgentTypes'
    BY DEF Drained, AgentTypes
  <1>4. TextTypes'
    <2>1. Texts(block[h]) \subseteq Messages
      BY TextsTypes DEF AppTypes
    <2>2. composer' \subseteq Messages
      BY <2>1 DEF Drained, TextTypes
    <2>. QED BY <2>2 DEF Drained, TextTypes
  <1>5. OldRunners'
    BY <1>0 DEF Drained, BlockGoesBack, Texts, OldRunners, RecordInv, AppTypes, TextTypes, EarlyPcs
  <1>6. PhaseInv'
    <2>1. CASE Current(h)
      <3>1. /\ handoff' = [handoff EXCEPT !.phase = "summarizing"] /\ handoff \in HandoffRecords
            /\ UNCHANGED <<members, begun, destroyed>> /\ pc' = [pc EXCEPT ![h] = "summarize"]
        BY <2>1, HeldTypes DEF Drained
      <3>2. /\ handoff'.phase = "summarizing" /\ handoff'.retiring = handoff.retiring
            /\ handoff'.trigger = handoff.trigger /\ handoff'.held = handoff.held
        BY <3>1 DEF HandoffRecords
      <3>3. h = begun /\ handoff.phase = "draining" /\ members = handoff.retiring
        <4>1. pc[h] = "drained"
          BY DEF Drained
        <4>. HIDE DEF Current
        <4>. QED BY <2>1, <4>1, RunnerAt

      <3>4. pc'[begun] = "summarize"
        BY <3>1, <3>3 DEF AppTypes
      <3>. QED BY <3>1, <3>2, <3>3, <3>4 DEF PhaseInv
    <2>2. CASE ~Current(h)
      <3>1. Goto(h, "done") /\ UNCHANGED <<members, handoff, begun, destroyed>>
        BY <2>2 DEF Drained
      <3>. HIDE DEF Goto, Current
      <3>. QED BY <2>2, <3>1, OverMove DEF EarlyPcs
    <2>. QED BY <2>1, <2>2
  <1>7. RecordInv'
    BY <1>0 DEF Drained, BlockGoesBack, Texts, RecordInv, PhaseInv, RecordTypes, HandoffRecords, TextTypes, BeforePcs, AfterPcs
  <1>8. HeldInv'
    <2>1. CASE Current(h)
      <3>1. /\ handoff' = [handoff EXCEPT !.phase = "summarizing"] /\ handoff \in HandoffRecords
            /\ UNCHANGED <<members, begun, destroyed>> /\ pc' = [pc EXCEPT ![h] = "summarize"]
        BY <2>1, HeldTypes DEF Drained
      <3>2. /\ handoff'.phase = "summarizing" /\ handoff'.retiring = handoff.retiring
            /\ handoff'.trigger = handoff.trigger /\ handoff'.held = handoff.held
        BY <3>1 DEF HandoffRecords
      <3>3. h = begun /\ handoff.phase = "draining" /\ members = handoff.retiring
        <4>1. pc[h] = "drained"
          BY DEF Drained
        <4>. HIDE DEF Current
        <4>. QED BY <2>1, <4>1, RunnerAt

      <3>. QED BY <3>2, <3>3 DEF HeldInv
    <2>2. CASE ~Current(h)
      BY <2>2 DEF Drained, HeldInv
    <2>. QED BY <2>1, <2>2
  <1>. QED BY <1>1, <1>2, <1>3, <1>4, <1>5, <1>6, <1>7, <1>8 DEF BookInv

\* Asking for the summary keeps the record and the runner.
LEMMA SummarizeBook ==
  ASSUME BookInv, NEW h \in Handoffs, Summarize(h)
  PROVE  BookInv'
  <1>. USE DEF BookInv, RunInv
  <1>0. pc[h] # "idle" /\ (Current(h) => h = begun)
    BY CurrentIsLast DEF Summarize
  <1>1. RecordTypes'
    BY DEF Summarize, RecordTypes, HandoffRecords, Phases
  <1>2. AppTypes'
    BY DEF Summarize, AppTypes, Labels
  <1>3. AgentTypes'
    BY DEF Summarize, AgentTypes
  <1>4. TextTypes'
    BY DEF Summarize, TextTypes
  <1>5. OldRunners'
    <2>. HIDE DEF Goto, Current
    <2>1. pc[h] = "summarize" /\ Current(h) /\ begun' = begun
      BY DEF Summarize
    <2>2. h = begun /\ handoff.phase = "summarizing" /\ members = handoff.retiring
      BY <2>1, RunnerAt
    <2>3. Goto(h, "switch") \/ Goto(h, "fold") \/ Goto(h, "await")
      BY DEF Summarize

    <2>. QED BY <1>0, <2>1, <2>2, <2>3, Moved DEF Labels, TextTypes
  <1>6. PhaseInv'
    <2>. HIDE DEF Goto, Current
    <2>1. pc[h] = "summarize" /\ Current(h) /\ begun' = begun
      BY DEF Summarize
    <2>2. h = begun /\ handoff.phase = "summarizing" /\ members = handoff.retiring
      BY <2>1, RunnerAt
    <2>3. Goto(h, "switch") \/ Goto(h, "fold") \/ Goto(h, "await")
      BY DEF Summarize

    <2>4. UNCHANGED <<members, begun, destroyed>>
      BY DEF Summarize
    <2>5. CASE Goto(h, "switch") /\ handoff' = [handoff EXCEPT !.phase = "switching"]
      <3>1. pc'[begun] = "switch"
        BY <2>2, <2>5 DEF Goto, AppTypes
      <3>2. handoff'.phase = "switching" /\ handoff'.retiring = handoff.retiring
        BY <2>5, HeldTypes DEF HandoffRecords
      <3>. QED BY <2>2, <2>4, <3>1, <3>2 DEF PhaseInv
    <2>6. CASE (Goto(h, "fold") \/ Goto(h, "await")) /\ UNCHANGED handoff
      <3>1. pc'[begun] \in {"fold", "await"}
        BY <2>2, <2>6 DEF Goto, AppTypes
      <3>. QED BY <2>2, <2>4, <2>6, <3>1 DEF PhaseInv
    <2>. QED BY <2>5, <2>6 DEF Summarize
  <1>7. RecordInv'
    BY <1>0 DEF Summarize, RecordInv, PhaseInv, RecordTypes, HandoffRecords, TextTypes, BeforePcs, AfterPcs
  <1>8. HeldInv'
    BY <1>0 DEF Summarize, HeldInv, RecordTypes, HandoffRecords
  <1>. QED BY <1>1, <1>2, <1>3, <1>4, <1>5, <1>6, <1>7, <1>8 DEF BookInv

\* Waiting for the summary keeps the record and the runner.
LEMMA AwaitSummaryBook ==
  ASSUME BookInv, NEW h \in Handoffs, AwaitSummary(h)
  PROVE  BookInv'
  <1>. USE DEF BookInv, RunInv
  <1>0. pc[h] # "idle" /\ (Current(h) => h = begun)
    BY CurrentIsLast DEF AwaitSummary
  <1>1. RecordTypes'
    BY DEF AwaitSummary, RecordTypes, HandoffRecords
  <1>2. AppTypes'
    BY DEF AwaitSummary, AppTypes, Labels
  <1>3. AgentTypes'
    BY DEF AwaitSummary, AgentTypes
  <1>4. TextTypes'
    BY DEF AwaitSummary, TextTypes
  <1>5. OldRunners'
    BY <1>0 DEF AwaitSummary, OldRunners, RecordInv, AppTypes, TextTypes, EarlyPcs
  <1>6. PhaseInv'
    BY <1>0 DEF AwaitSummary, PhaseInv, RecordInv, AppTypes, TextTypes, RecordTypes, HandoffRecords, EarlyPcs, BeforePcs, AfterPcs
  <1>7. RecordInv'
    BY DEF AwaitSummary, RecordInv
  <1>8. HeldInv'
    BY DEF AwaitSummary, HeldInv
  <1>. QED BY <1>1, <1>2, <1>3, <1>4, <1>5, <1>6, <1>7, <1>8 DEF BookInv

\* Building the prompt keeps the record and the runner.
LEMMA FoldPromptBook ==
  ASSUME BookInv, NEW h \in Handoffs, FoldPrompt(h)
  PROVE  BookInv'
  <1>. USE DEF BookInv, RunInv
  <1>0. pc[h] # "idle" /\ (Current(h) => h = begun)
    BY CurrentIsLast DEF FoldPrompt
  <1>1. RecordTypes'
    <2>. HIDE DEF Goto, Current
    <2>1. pc[h] = "fold" /\ Current(h) /\ UNCHANGED <<members, begun, destroyed>>
      BY DEF FoldPrompt
    <2>2. h = begun /\ handoff.phase = "summarizing" /\ members = handoff.retiring
      BY <2>1, RunnerAt

    <2>3. Others \in Seq(Messages)
      BY <2>2, OthersAre
    <2>4. Folded \in HandoffRecords
      BY <2>3, HandoffFields, HeldTypes DEF Folded
    <2>. QED BY <2>4 DEF FoldPrompt, RecordTypes
  <1>2. AppTypes'
    BY DEF FoldPrompt, Folded, AppTypes, Labels
  <1>3. AgentTypes'
    BY DEF FoldPrompt, AgentTypes
  <1>4. TextTypes'
    BY DEF FoldPrompt, TextTypes
  <1>5. OldRunners'
    <2>. HIDE DEF Goto, Current
    <2>1. pc[h] = "fold" /\ Current(h) /\ UNCHANGED <<members, begun, destroyed>>
      BY DEF FoldPrompt
    <2>2. h = begun /\ handoff.phase = "summarizing" /\ members = handoff.retiring
      BY <2>1, RunnerAt

    <2>3. Goto(h, "switch") \/ Goto(h, "done")
      BY DEF FoldPrompt
    <2>. QED BY <1>0, <2>1, <2>2, <2>3, Moved DEF Labels, TextTypes
  <1>6. PhaseInv'
    <2>. HIDE DEF Goto, Current
    <2>1. pc[h] = "fold" /\ Current(h) /\ UNCHANGED <<members, begun, destroyed>>
      BY DEF FoldPrompt
    <2>2. h = begun /\ handoff.phase = "summarizing" /\ members = handoff.retiring
      BY <2>1, RunnerAt

    <2>3. CASE handoff' = Folded /\ Goto(h, "switch")
      <3>1. /\ handoff'.phase = "switching" /\ handoff'.retiring = handoff.retiring
            /\ handoff'.trigger = handoff.trigger /\ handoff'.held = Others
        BY <2>3, HeldTypes DEF HandoffRecords, Folded

      <3>2. pc'[begun] = "switch"
        BY <2>2, <2>3 DEF Goto, AppTypes
      <3>. QED BY <2>1, <2>2, <3>1, <3>2 DEF PhaseInv
    <2>4. CASE UNCHANGED handoff /\ Goto(h, "done")
      <3>1. pc'[begun] = "done"
        BY <2>2, <2>4 DEF Goto, AppTypes
      <3>. QED BY <2>1, <2>2, <2>4, <3>1 DEF PhaseInv
    <2>. QED BY <2>3, <2>4 DEF FoldPrompt
  <1>7. RecordInv'
    BY <1>0 DEF FoldPrompt, Folded, RecordInv, PhaseInv, RecordTypes, HandoffRecords, TextTypes, BeforePcs, AfterPcs
  <1>8. HeldInv'
    <2>. HIDE DEF Goto, Current
    <2>1. pc[h] = "fold" /\ Current(h) /\ UNCHANGED <<members, begun, destroyed>>
      BY DEF FoldPrompt
    <2>2. h = begun /\ handoff.phase = "summarizing" /\ members = handoff.retiring
      BY <2>1, RunnerAt

    <2>3. CASE handoff' = Folded /\ Goto(h, "switch")
      <3>1. /\ handoff'.phase = "switching" /\ handoff'.retiring = handoff.retiring
            /\ handoff'.trigger = handoff.trigger /\ handoff'.held = Others
        BY <2>3, HeldTypes DEF HandoffRecords, Folded

      <3>2. Distinct(Others)
        BY <2>2, OthersAre
      <3>. QED BY <3>1, <3>2 DEF HeldInv
    <2>4. CASE UNCHANGED handoff
      BY <2>4 DEF HeldInv
    <2>. QED BY <2>3, <2>4 DEF FoldPrompt
  <1>. QED BY <1>1, <1>2, <1>3, <1>4, <1>5, <1>6, <1>7, <1>8 DEF BookInv

\* Closing the old agent's entry keeps the record and the runner.
LEMMA RecordFinalCountBook ==
  ASSUME BookInv, NEW h \in Handoffs, RecordFinalCount(h)
  PROVE  BookInv'
  <1>. USE DEF BookInv, RunInv
  <1>0. pc[h] # "idle" /\ (Current(h) => h = begun)
    BY CurrentIsLast DEF RecordFinalCount
  <1>1. RecordTypes'
    <2>1. handoff.retiring \in Agents
      BY CurrentIsLast DEF RecordFinalCount, TextTypes
    <2>. QED BY <2>1 DEF RecordFinalCount, RecordTypes
  <1>2. AppTypes'
    BY DEF RecordFinalCount, AppTypes, Labels
  <1>3. AgentTypes'
    BY DEF RecordFinalCount, AgentTypes
  <1>4. TextTypes'
    BY DEF RecordFinalCount, TextTypes
  <1>5. OldRunners'
    BY <1>0 DEF RecordFinalCount, OldRunners, RecordInv, AppTypes, TextTypes, EarlyPcs
  <1>6. PhaseInv'
    BY <1>0 DEF RecordFinalCount, PhaseInv, RecordInv, AppTypes, TextTypes, RecordTypes, HandoffRecords, EarlyPcs, BeforePcs, AfterPcs
  <1>7. RecordInv'
    BY DEF RecordFinalCount, RecordInv
  <1>8. HeldInv'
    BY DEF RecordFinalCount, HeldInv
  <1>. QED BY <1>1, <1>2, <1>3, <1>4, <1>5, <1>6, <1>7, <1>8 DEF BookInv

\* The return of the create keeps the record and the runner.
LEMMA CreateReturnsBook ==
  ASSUME BookInv, NEW h \in Handoffs, CreateReturns(h)
  PROVE  BookInv'
  <1>. USE DEF BookInv, RunInv
  <1>0. pc[h] # "idle" /\ (Current(h) => h = begun)
    BY CurrentIsLast DEF CreateReturns
  <1>1. RecordTypes'
    BY DEF CreateReturns, FailStep, RecordTypes, HandoffRecords, Phases
  <1>2. AppTypes'
    BY DEF CreateReturns, FailStep, AppTypes, Labels
  <1>3. AgentTypes'
    BY DEF CreateReturns, FailStep, AgentTypes
  <1>4. TextTypes'
    BY DEF CreateReturns, TextTypes
  <1>5. OldRunners'
    <2>. HIDE DEF Goto, Current
    <2>1. pc[h] = "creating" /\ UNCHANGED <<members, begun, destroyed>>
      BY DEF CreateReturns
    <2>2. Current(h) => handoff.phase = "switching" /\ members = handoff.retiring
      BY <2>1, RunnerAt DEF BeforePcs
    <2>3. (Goto(h, "pick") /\ UNCHANGED handoff) \/ FailStep(h)
      BY DEF CreateReturns
    <2>4. h = begun
      BY <2>1, <1>0 DEF OldRunners, EarlyPcs, TextTypes

    <2>5. CASE Goto(h, "pick")
      BY <1>0, <2>1, <2>4, <2>5, Moved DEF Labels, TextTypes
    <2>6. CASE FailStep(h)
      BY <1>0, <2>1, <2>2, <2>6, FailMove
    <2>. QED BY <2>3, <2>5, <2>6
  <1>6. PhaseInv'
    <2>. HIDE DEF Goto, Current
    <2>1. pc[h] = "creating" /\ UNCHANGED <<members, begun, destroyed>>
      BY DEF CreateReturns
    <2>2. Current(h) => handoff.phase = "switching" /\ members = handoff.retiring
      BY <2>1, RunnerAt DEF BeforePcs
    <2>3. (Goto(h, "pick") /\ UNCHANGED handoff) \/ FailStep(h)
      BY DEF CreateReturns
    <2>4. h = begun
      BY <2>1, <1>0 DEF OldRunners, EarlyPcs, TextTypes

    <2>5. CASE Goto(h, "pick") /\ UNCHANGED handoff
      <3>1. pc'[begun] = "pick"
        BY <2>4, <2>5 DEF Goto, AppTypes
      <3>2. handoff.phase \in {"switching", "none"} /\ (handoff.phase = "none" => destroyed)
        BY <2>1, <2>4, HeldTypes DEF PhaseInv, HandoffRecords, Phases, EarlyPcs
      <3>3. handoff.phase = "switching" => members = handoff.retiring
        BY <2>1, <2>4 DEF PhaseInv, AfterPcs
      <3>. QED BY <2>1, <2>5, <3>1, <3>2, <3>3 DEF PhaseInv, BeforePcs
    <2>6. CASE FailStep(h)
      BY <1>0, <2>1, <2>2, <2>6, FailMove
    <2>. QED BY <2>3, <2>5, <2>6
  <1>7. RecordInv'
    BY <1>0 DEF CreateReturns, FailStep, RecordInv, PhaseInv, RecordTypes, HandoffRecords, TextTypes, BeforePcs, AfterPcs
  <1>8. HeldInv'
    BY <1>0 DEF CreateReturns, FailStep, HeldInv, RecordTypes, HandoffRecords
  <1>. QED BY <1>1, <1>2, <1>3, <1>4, <1>5, <1>6, <1>7, <1>8 DEF BookInv

\* Adopting the successor keeps the record and the runner.
LEMMA AdoptSuccessorBook ==
  ASSUME BookInv, NEW h \in Handoffs, AdoptSuccessor(h)
  PROVE  BookInv'
  <1>. USE DEF BookInv, RunInv
  <1>0. pc[h] # "idle" /\ (Current(h) => h = begun)
    BY CurrentIsLast DEF AdoptSuccessor
  <1>1. RecordTypes'
    <2>1. Successor \in Agents /\ handoff.target \in Accounts \cup {Nothing}
      BY CurrentIsLast, HeldTypes DEF AdoptSuccessor, HandoffRecords
    <2>2. account' \in [Agents -> Accounts \cup {Nothing}]
      BY <2>1 DEF AdoptSuccessor, RecordTypes
    <2>. QED BY <2>1, <2>2 DEF AdoptSuccessor, RecordTypes
  <1>2. AppTypes'
    BY DEF AdoptSuccessor, AppTypes, Labels
  <1>3. AgentTypes'
    BY DEF AdoptSuccessor, AgentTypes
  <1>4. TextTypes'
    BY DEF AdoptSuccessor, TextTypes
  <1>5. OldRunners'
    BY <1>0 DEF AdoptSuccessor, OldRunners, RecordInv, AppTypes, TextTypes, EarlyPcs
  <1>6. PhaseInv'
    BY <1>0 DEF AdoptSuccessor, PhaseInv, RecordInv, AppTypes, TextTypes, RecordTypes, HandoffRecords, EarlyPcs, BeforePcs, AfterPcs
  <1>7. RecordInv'
    BY <1>0 DEF AdoptSuccessor, RecordInv, PhaseInv, RecordTypes, HandoffRecords, TextTypes, BeforePcs, AfterPcs
  <1>8. HeldInv'
    BY DEF AdoptSuccessor, HeldInv
  <1>. QED BY <1>1, <1>2, <1>3, <1>4, <1>5, <1>6, <1>7, <1>8 DEF BookInv

\* Delivering the prompt keeps the record and the runner.
LEMMA DeliverPromptBook ==
  ASSUME BookInv, NEW h \in Handoffs, DeliverPrompt(h)
  PROVE  BookInv'
  <1>. USE DEF BookInv, RunInv
  <1>0. pc[h] # "idle" /\ (Current(h) => h = begun)
    BY CurrentIsLast DEF DeliverPrompt
  <1>1. RecordTypes'
    BY DEF DeliverPrompt, RecordTypes, HandoffRecords
  <1>2. AppTypes'
    BY DEF DeliverPrompt, DeliverHeld, Reaches, AppTypes, Labels
  <1>3. AgentTypes'
    <2>1. Prompt(handoff.trigger) \in Items
      BY ItemTypes, HeldTypes DEF HandoffRecords
    <2>2. CASE DeliverHeld(members, Prompt(handoff.trigger))

      BY <2>1, <2>2, DeliverTypes
    <2>3. CASE UNCHANGED agentVars
      BY <2>3 DEF AgentTypes
    <2>. QED BY <2>2, <2>3 DEF DeliverPrompt
  <1>4. TextTypes'
    <2>1. Prompt(handoff.trigger) \in Items
      BY ItemTypes, HeldTypes DEF HandoffRecords
    <2>2. CASE DeliverHeld(members, Prompt(handoff.trigger))

      <3>1. forgone' \subseteq Items
        BY <2>1, <2>2, DeliverTypes
      <3>. QED BY <3>1 DEF DeliverPrompt, TextTypes
    <2>3. CASE UNCHANGED forgone
      BY <2>3 DEF DeliverPrompt, TextTypes
    <2>. QED BY <2>2, <2>3 DEF DeliverPrompt
  <1>5. OldRunners'
    BY <1>0 DEF DeliverPrompt, DeliverHeld, Reaches, OldRunners, RecordInv, AppTypes, TextTypes, EarlyPcs
  <1>6. PhaseInv'
    BY <1>0 DEF DeliverPrompt, DeliverHeld, Reaches, PhaseInv, RecordInv, AppTypes, TextTypes, RecordTypes, HandoffRecords, EarlyPcs, BeforePcs, AfterPcs
  <1>7. RecordInv'
    BY DEF DeliverPrompt, RecordInv
  <1>8. HeldInv'
    BY DEF DeliverPrompt, HeldInv
  <1>. QED BY <1>1, <1>2, <1>3, <1>4, <1>5, <1>6, <1>7, <1>8 DEF BookInv

\* Noting the prompt keeps the record and the runner.
LEMMA NotePromptBook ==
  ASSUME BookInv, NEW h \in Handoffs, NotePrompt(h)
  PROVE  BookInv'
  <1>. USE DEF BookInv, RunInv
  <1>0. pc[h] # "idle" /\ (Current(h) => h = begun)
    BY CurrentIsLast DEF NotePrompt
  <1>1. RecordTypes'
    BY DEF NotePrompt, RecordTypes, HandoffRecords, Phases
  <1>2. AppTypes'
    BY DEF NotePrompt, AppTypes, Labels
  <1>3. AgentTypes'
    BY DEF NotePrompt, AgentTypes
  <1>4. TextTypes'
    BY DEF NotePrompt, TextTypes
  <1>5. OldRunners'
    BY <1>0 DEF NotePrompt, OldRunners, RecordInv, AppTypes, TextTypes, EarlyPcs
  <1>6. PhaseInv'
    <2>. HIDE DEF Goto, Current
    <2>1. pc[h] = "told" /\ UNCHANGED <<members, begun, destroyed>>
      BY DEF NotePrompt
    <2>2. CASE Current(h)
      <3>1. handoff' = [handoff EXCEPT !.told = TRUE] /\ Goto(h, "take")
        BY <2>2 DEF NotePrompt
      <3>2. h = begun /\ handoff.phase = "switching" /\ members = Successor
        BY <2>1, <2>2, RunnerAt DEF AfterPcs
      <3>3. handoff'.phase = handoff.phase /\ handoff'.retiring = handoff.retiring
        BY <3>1, HeldTypes DEF HandoffRecords
      <3>4. pc'[begun] = "take"
        BY <3>1, <3>2 DEF Goto, AppTypes
      <3>. QED BY <2>1, <3>2, <3>3, <3>4 DEF PhaseInv, AfterPcs
    <2>3. CASE ~Current(h)
      <3>1. UNCHANGED handoff /\ Goto(h, "done")
        BY <2>3 DEF NotePrompt
      <3>. QED BY <2>1, <2>3, <3>1, OverMove DEF EarlyPcs
    <2>. QED BY <2>2, <2>3
  <1>7. RecordInv'
    BY <1>0 DEF NotePrompt, RecordInv, PhaseInv, RecordTypes, HandoffRecords, TextTypes, BeforePcs, AfterPcs
  <1>8. HeldInv'
    BY <1>0 DEF NotePrompt, HeldInv, RecordTypes, HandoffRecords
  <1>. QED BY <1>1, <1>2, <1>3, <1>4, <1>5, <1>6, <1>7, <1>8 DEF BookInv

\* Delivering a held send keeps the record and the runner.
LEMMA DeliverHeldSendBook ==
  ASSUME BookInv, NEW h \in Handoffs, DeliverHeldSend(h)
  PROVE  BookInv'
  <1>. USE DEF BookInv, RunInv
  <1>0. pc[h] # "idle" /\ (Current(h) => h = begun)
    BY CurrentIsLast DEF DeliverHeldSend
  <1>1. RecordTypes'
    BY DEF DeliverHeldSend, RecordTypes, HandoffRecords
  <1>2. AppTypes'
    <2>1. Plain(hand[h]) \in Items
      BY ItemTypes DEF AppTypes
    <2>2. seen' \in [Agents -> {"untracked", "up", "down"}]
      BY <2>1, DeliverTypes DEF DeliverHeldSend
    <2>. QED BY <2>2 DEF DeliverHeldSend, AppTypes, Labels
  <1>3. AgentTypes'
    <2>1. Plain(hand[h]) \in Items
      BY ItemTypes DEF AppTypes

    <2>. QED BY <2>1, DeliverTypes DEF DeliverHeldSend
  <1>4. TextTypes'
    <2>1. Plain(hand[h]) \in Items
      BY ItemTypes DEF AppTypes

    <2>2. forgone' \subseteq Items
      BY <2>1, DeliverTypes DEF DeliverHeldSend
    <2>. QED BY <2>2 DEF DeliverHeldSend, TextTypes
  <1>5. OldRunners'
    BY <1>0 DEF DeliverHeldSend, DeliverHeld, Reaches, OldRunners, RecordInv, AppTypes, TextTypes, EarlyPcs
  <1>6. PhaseInv'
    BY <1>0 DEF DeliverHeldSend, DeliverHeld, Reaches, PhaseInv, RecordInv, AppTypes, TextTypes, RecordTypes, HandoffRecords, EarlyPcs, BeforePcs, AfterPcs
  <1>7. RecordInv'
    BY DEF DeliverHeldSend, RecordInv
  <1>8. HeldInv'
    BY DEF DeliverHeldSend, HeldInv
  <1>. QED BY <1>1, <1>2, <1>3, <1>4, <1>5, <1>6, <1>7, <1>8 DEF BookInv

\* A restart of the chat app keeps the record and the runner.
LEMMA RestartBook ==
  ASSUME BookInv, Restart
  PROVE  BookInv'
  <1>. USE DEF BookInv, RunInv
  <1>1. RecordTypes'
    BY DEF Restart, RecordTypes, HandoffRecords
  <1>2. AppTypes'
    <2>1. seen' \in [Agents -> {"untracked", "up", "down"}]
      <3>1. proc' \in [Agents -> {"none", "half", "up", "down"}]
        BY DEF Restart, AgentTypes
      <3>2. \A a \in Agents : Listed(a)' \in {"untracked", "up", "down"}
        BY <3>1 DEF Listed
      <3>. QED BY <3>2 DEF Restart
    <2>2. pc' \in [Handoffs -> Labels]
      <3>1. \A h \in Handoffs : pc'[h] \in {ResumeLabel, "done", pc[h]}
        BY DEF Restart
      <3>2. ResumeLabel \in Labels
        BY DEF ResumeLabel, Labels
      <3>3. \A h \in Handoffs : pc'[h] \in Labels
        BY <3>1, <3>2 DEF AppTypes, Labels
      <3>4. pc' = [h \in Handoffs |-> pc'[h]]
        BY DEF Restart
      <3>. QED BY <3>3, <3>4
    <2>3. calls' \in [to : 0 .. MaxHandoffs + 1, msgs : Seq(Messages)]
      BY EmptyQueue DEF Restart
    <2>4. block' \in [Handoffs -> Seq(Items)]
      BY EmptyQueue DEF Restart
    <2>5. /\ hand' \in [Handoffs -> Messages \cup {Nothing}] /\ asked' \in [Handoffs -> BOOLEAN]
          /\ flight' \in [Messages -> 0 .. MaxHandoffs + 1]
      BY DEF Restart
    <2>. QED BY <2>1, <2>2, <2>3, <2>4, <2>5 DEF AppTypes
  <1>3. AgentTypes'
    BY DEF Restart, ResumeLabel, Listed, InHand, AgentTypes
  <1>4. TextTypes'
    BY DEF Restart, ResumeLabel, Listed, InHand, TextTypes
  <1>5. OldRunners'
    <2>1. UNCHANGED <<members, handoff, begun, destroyed>> /\ ~destroyed
      BY DEF Restart
    <2>2. \A h \in Handoffs : ~(handoff.id = h /\ Converging /\ handoff.phase # "failed") =>
              pc'[h] = IF h <= begun THEN "done" ELSE pc[h]
      BY DEF Restart
    <2>3. \A h \in Handoffs : handoff.id = h /\ Converging /\ handoff.phase # "failed" =>
              pc'[h] = ResumeLabel
      BY DEF Restart
    <2>4. begun \in 0 .. MaxHandoffs /\ (begun > 0 => begun \in Handoffs)
      BY DEF TextTypes

    <2>5. ResumeLabel \notin {"idle"}
      BY DEF ResumeLabel
    <2>6. ASSUME NEW h \in Handoffs
          PROVE  (h > begun <=> pc'[h] = "idle") /\ (h < begun => pc'[h] \in EarlyPcs)
      <3>1. Converging => handoff.id = begun
        BY DEF RecordInv
      <3>2. h > begun <=> pc[h] = "idle"
        BY DEF OldRunners
      <3>3. CASE h = begun
        BY <2>2, <2>3, <2>4, <2>5, <3>3
      <3>4. CASE h # begun
        <4>1. pc'[h] = IF h <= begun THEN "done" ELSE pc[h]
          BY <2>2, <3>1, <3>4
        <4>. QED BY <2>4, <3>2, <3>4, <4>1 DEF EarlyPcs
      <3>. QED BY <3>3, <3>4
    <2>. QED BY <2>1, <2>6 DEF OldRunners
  <1>6. PhaseInv'
    <2>1. UNCHANGED <<members, handoff, begun, destroyed>> /\ ~destroyed
      BY DEF Restart
    <2>2. \A h \in Handoffs : ~(handoff.id = h /\ Converging /\ handoff.phase # "failed") =>
              pc'[h] = IF h <= begun THEN "done" ELSE pc[h]
      BY DEF Restart
    <2>3. \A h \in Handoffs : handoff.id = h /\ Converging /\ handoff.phase # "failed" =>
              pc'[h] = ResumeLabel
      BY DEF Restart
    <2>4. begun \in 0 .. MaxHandoffs /\ (begun > 0 => begun \in Handoffs)
      BY DEF TextTypes

    <2>5. CASE Converging /\ handoff.phase # "failed"
      <3>1. begun \in Handoffs /\ pc'[begun] = ResumeLabel
        BY <2>3, <2>4, <2>5 DEF RecordInv
      <3>2. handoff.phase \in Phases
        BY HeldTypes DEF HandoffRecords
      <3>3. handoff.phase = "draining" => ResumeLabel = "drain"
        BY DEF ResumeLabel
      <3>4. handoff.phase = "summarizing" => ResumeLabel = "summarize"
        BY DEF ResumeLabel
      <3>5. handoff.phase = "switching" =>
               ResumeLabel = "switch" /\ members \in {handoff.retiring, Successor}
        BY DEF ResumeLabel, PhaseInv
      <3>. QED BY <2>1, <2>5, <3>1, <3>3, <3>4, <3>5 DEF PhaseInv
    <2>6. CASE ~(Converging /\ handoff.phase # "failed")
      <3>1. begun > 0 => pc'[begun] = "done"
        BY <2>2, <2>4, <2>6
      <3>. QED BY <2>1, <2>4, <2>6, <3>1 DEF PhaseInv, EarlyPcs, RecordInv
    <2>. QED BY <2>5, <2>6
  <1>7. RecordInv'
    BY DEF Restart, RecordInv
  <1>8. HeldInv'
    BY DEF Restart, HeldInv
  <1>. QED BY <1>1, <1>2, <1>3, <1>4, <1>5, <1>6, <1>7, <1>8 DEF BookInv

\* Listing an agent keeps the record and the runner.
LEMMA ObserveBook ==
  ASSUME BookInv, NEW a \in Agents, Observe(a)
  PROVE  BookInv'
  <1>. USE DEF BookInv, RunInv
  <1>1. RecordTypes'
    BY DEF Observe, RecordTypes, HandoffRecords
  <1>2. AppTypes'
    <2>1. Listed(a) \in {"untracked", "up", "down"}
      BY DEF Listed, AgentTypes
    <2>2. seen' \in [Agents -> {"untracked", "up", "down"}]
      BY <2>1 DEF Observe, AppTypes
    <2>. QED BY <2>2 DEF Observe, AppTypes
  <1>3. AgentTypes'
    BY DEF Observe, AgentTypes
  <1>4. TextTypes'
    BY DEF Observe, TextTypes
  <1>5. OldRunners'
    BY DEF Observe, OldRunners
  <1>6. PhaseInv'
    BY DEF Observe, PhaseInv
  <1>7. RecordInv'
    BY DEF Observe, RecordInv
  <1>8. HeldInv'
    BY DEF Observe, HeldInv
  <1>. QED BY <1>1, <1>2, <1>3, <1>4, <1>5, <1>6, <1>7, <1>8 DEF BookInv

\* An agent's turn keeps the record and the runner.
LEMMA AgentTurnBook ==
  ASSUME BookInv, NEW a \in Agents, AgentTurn(a)
  PROVE  BookInv'
  <1>. USE DEF BookInv, RunInv
  <1>1. RecordTypes'
    BY DEF AgentTurn, RecordTypes, HandoffRecords
  <1>2. AppTypes'
    BY DEF AgentTurn, AppTypes
  <1>3. AgentTypes'
    BY DEF AgentTurn, AgentTypes
  <1>4. TextTypes'
    BY DEF AgentTurn, TextTypes
  <1>5. OldRunners'
    BY DEF AgentTurn, OldRunners
  <1>6. PhaseInv'
    BY DEF AgentTurn, PhaseInv
  <1>7. RecordInv'
    BY DEF AgentTurn, RecordInv
  <1>8. HeldInv'
    BY DEF AgentTurn, HeldInv
  <1>. QED BY <1>1, <1>2, <1>3, <1>4, <1>5, <1>6, <1>7, <1>8 DEF BookInv

\* Destroying the chat's agents keeps the record and the runner.
LEMMA DestroyAgentsBook ==
  ASSUME BookInv, DestroyAgents
  PROVE  BookInv'
  <1>. USE DEF BookInv, RunInv
  <1>1. RecordTypes'
    BY DEF DestroyAgents, RecordTypes, HandoffRecords
  <1>2. AppTypes'
    BY DEF DestroyAgents, AppTypes
  <1>3. AgentTypes'
    BY DestroyedTypes DEF DestroyAgents
  <1>4. TextTypes'
    <2>1. doomed' \subseteq Agents
      <3>1. 1 .. members \subseteq Agents
        BY DEF RecordTypes
      <3>2. Converging => Successor \in Agents
        BY DEF RecordInv, TextTypes
      <3>. QED BY <3>1, <3>2 DEF DestroyAgents, DestroyedWithChat
    <2>. QED BY <2>1 DEF DestroyAgents, TextTypes
  <1>5. OldRunners'
    BY DEF DestroyAgents, OldRunners
  <1>6. PhaseInv'
    BY DEF DestroyAgents, PhaseInv
  <1>7. RecordInv'
    BY DEF DestroyAgents, RecordInv
  <1>8. HeldInv'
    BY DEF DestroyAgents, HeldInv
  <1>. QED BY <1>1, <1>2, <1>3, <1>4, <1>5, <1>6, <1>7, <1>8 DEF BookInv

\* Dropping the record of a destroyed chat keeps the record and the runner.
LEMMA DestroyRecordBook ==
  ASSUME BookInv, DestroyRecord
  PROVE  BookInv'
  <1>. USE DEF BookInv, RunInv
  <1>1. RecordTypes'
    BY DEF DestroyRecord, NoHandoff, RecordTypes, HandoffRecords, Phases
  <1>2. AppTypes'
    BY DEF DestroyRecord, NoHandoff, AppTypes, Labels
  <1>3. AgentTypes'
    BY DEF DestroyRecord, AgentTypes
  <1>4. TextTypes'
    BY DEF DestroyRecord, NoHandoff, TextTypes
  <1>5. OldRunners'
    BY DEF DestroyRecord, OldRunners
  <1>6. PhaseInv'
    BY DEF DestroyRecord, NoHandoff, PhaseInv, RecordInv, AppTypes, TextTypes, RecordTypes, HandoffRecords, EarlyPcs, BeforePcs, AfterPcs
  <1>7. RecordInv'
    <2>1. members <= begun + 1
      <3>1. Converging => members \in {handoff.retiring, Successor}
        BY HeldTypes DEF PhaseInv, HandoffRecords, Phases
      <3>. QED BY <3>1 DEF RecordInv, TextTypes, RecordTypes
    <2>2. handoff' = NoHandoff /\ UNCHANGED <<members, begun>>
      BY DEF DestroyRecord
    <2>. QED BY <2>1, <2>2 DEF RecordInv, NoHandoff
  <1>8. HeldInv'
    BY EmptyDistinct DEF DestroyRecord, NoHandoff, HeldInv
  <1>. QED BY <1>1, <1>2, <1>3, <1>4, <1>5, <1>6, <1>7, <1>8 DEF BookInv

-------------------------------------------------------------------------------
(* The record and the runner.                                                *)

\* The chat starts on one agent, with nothing under way.
LEMMA BookInit == Init => BookInv
  <1>. SUFFICES ASSUME Init PROVE BookInv
    OBVIOUS
  <1>0. HandoffAssumption
    OBVIOUS
  <1>1. RecordTypes
    <2>1. NoHandoff \in HandoffRecords
      BY <1>0, EmptyQueue DEF NoHandoff, HandoffRecords, Phases, HandoffAssumption
    <2>2. 1 \in Agents
      BY <1>0 DEF HandoffAssumption
    <2>3. account \in [Agents -> Accounts \cup {Nothing}]
      BY <1>0 DEF Init, HandoffAssumption
    <2>. QED BY <2>1, <2>2, <2>3 DEF Init, RecordTypes
  <1>2. AppTypes
    <2>1. calls \in [to : 0 .. MaxHandoffs + 1, msgs : Seq(Messages)]
      BY <1>0, EmptyQueue DEF Init, HandoffAssumption
    <2>2. seen \in [Agents -> {"untracked", "up", "down"}]
      BY DEF Init
    <2>3. flight \in [Messages -> 0 .. MaxHandoffs + 1]
      BY <1>0 DEF Init, HandoffAssumption
    <2>4. block \in [Handoffs -> Seq(Items)]
      BY EmptyQueue DEF Init
    <2>. QED BY <2>1, <2>2, <2>3, <2>4 DEF Init, AppTypes, Labels
  <1>3. AgentTypes
    <2>1. <<Plain(Nothing)>> \in Seq(Items)
      <3>1. Plain(Nothing) \in Items
        BY ItemTypes
      <3>. QED BY <3>1
    <2>2. turns \in [Agents -> Seq(Items)]
      <3>1. PICK old \in {<<>>, <<Plain(Nothing)>>} :
                turns = [a \in Agents |-> IF a = 1 THEN old ELSE <<>>]
        BY DEF Init
      <3>2. old \in Seq(Items)
        BY <2>1, EmptyQueue
      <3>. QED BY <3>1, <3>2, EmptyQueue
    <2>3. runsOn \in [Agents -> Accounts \cup {Nothing}]
      BY <1>0 DEF Init, HandoffAssumption
    <2>4. proc \in [Agents -> {"none", "half", "up", "down"}]
      BY DEF Init
    <2>5. inbox \in [Agents -> Seq(Items)]
      BY EmptyQueue DEF Init
    <2>. QED BY <2>2, <2>3, <2>4, <2>5 DEF Init, AgentTypes
  <1>4. TextTypes
    <2>1. posts \in [Messages -> 0 .. MaxPosts]
      BY <1>0 DEF Init, HandoffAssumption
    <2>2. /\ 0 \in 0 .. MaxHandoffs /\ 0 \in 0 .. MaxCrashes /\ 0 \in 0 .. MaxRetries
      BY <1>0 DEF HandoffAssumption
    <2>3. /\ begun = 0 /\ crashes = 0 /\ retries = 0 /\ doomed = {} /\ destroyed = FALSE
          /\ composer = {} /\ forgone = {} /\ log = <<>>
      BY DEF Init
    <2>. QED BY <2>1, <2>2, <2>3, EmptyQueue DEF TextTypes
  <1>5. OldRunners
    BY DEF Init, OldRunners
  <1>6. PhaseInv /\ RecordInv /\ HeldInv
    BY EmptyDistinct DEF Init, NoHandoff, PhaseInv, RecordInv, HeldInv
  <1>. QED BY <1>1, <1>2, <1>3, <1>4, <1>5, <1>6 DEF BookInv, RunInv

\* Every step keeps them.
LEMMA BookStep == BookInv /\ [Next]_vars => BookInv'
  <1>. SUFFICES ASSUME BookInv, [Next]_vars PROVE BookInv'
    OBVIOUS
  <1>. HIDE DEF Handoffs, Agents, recordVars, threadVars, agentVars, clientVars, countVars,
                Converging, Successor, Current, Goto
  <1>1. ASSUME NEW m \in Messages, HoldSend(m) \/ ResolveSend(m) \/ SendLands(m)
        PROVE  BookInv'
    BY <1>1, HoldSendBook, ResolveSendBook, SendLandsBook
  <1>2. ASSUME NEW h \in Handoffs, NEW to \in Accounts, NEW m \in Messages \cup {Nothing},
               NEW k \in BOOLEAN, BeginHandoff(h, to, m, k)
        PROVE  BookInv'
    BY <1>2, BeginHandoffBook
  <1>3. CASE CancelHandoff \/ DeliverCall
    BY <1>3, CancelHandoffBook, DeliverCallBook
  <1>4. ASSUME NEW to \in Accounts, RetryHandoff(to) PROVE BookInv'
    BY <1>4, RetryHandoffBook
  <1>5. ASSUME NEW h \in Handoffs, Discard(h) \/ RunnerStep(h) PROVE BookInv'
    <2>1. CASE Discard(h) \/ Stopped(h) \/ Drain(h) \/ Drained(h) \/ Summarize(h)
      BY <2>1, DiscardBook, StoppedBook, DrainBook, DrainedBook, SummarizeBook
    <2>2. CASE AwaitSummary(h) \/ FoldPrompt(h) \/ StopRetiring(h) \/ ArchiveRetiring(h)
      BY <2>2, AwaitSummaryBook, FoldPromptBook, StopRetiringBook, ArchiveRetiringBook
    <2>3. CASE RecordFinalCount(h) \/ CreateSuccessor(h) \/ CreateReturns(h) \/ ApplyModelPick(h)
      BY <2>3, RecordFinalCountBook, CreateSuccessorBook, CreateReturnsBook, ApplyModelPickBook
    <2>4. CASE AdoptSuccessor(h) \/ DeliverPrompt(h) \/ NotePrompt(h)
      BY <2>4, AdoptSuccessorBook, DeliverPromptBook, NotePromptBook
    <2>5. CASE TakeNextHeldSend(h) \/ DeliverHeldSend(h)
      BY <2>5, TakeNextHeldSendBook, DeliverHeldSendBook
    <2>. QED BY <1>5, <2>1, <2>2, <2>3, <2>4, <2>5 DEF RunnerStep
  <1>6. CASE Restart
    BY <1>6, RestartBook
  <1>7. ASSUME NEW a \in Agents, Observe(a) \/ AgentTurn(a) PROVE BookInv'
    BY <1>7, ObserveBook, AgentTurnBook
  <1>8. CASE DestroyAgents \/ DestroyRecord
    BY <1>8, DestroyAgentsBook, DestroyRecordBook
  <1>9. CASE UNCHANGED vars
    BY <1>9 DEF vars, recordVars, threadVars, agentVars, clientVars, countVars, BookInv,
                RecordTypes, AppTypes, AgentTypes, TextTypes, RunInv, OldRunners, PhaseInv,
                RecordInv, HeldInv, Converging, Successor
  <1>. QED BY <1>1, <1>2, <1>3, <1>4, <1>5, <1>6, <1>7, <1>8, <1>9 DEF Next

\* The record's phase says where the runner of the chat's handoff is and which agent
\* is the chat's; every earlier runner only learns that it is over; nothing is held
\* twice (HandoffRunner.run, hold_send).
THEOREM RecordHolds == Spec => []BookInv
  BY BookInit, BookStep, PTL DEF Spec

\* The variables of the handoff keep their types.
THEOREM TypesHold == Spec => []TypeOK
  <1>1. BookInv => TypeOK
    BY TypeParts DEF BookInv
  <1>. QED BY <1>1, RecordHolds, PTL

-------------------------------------------------------------------------------
(* The point of no return.                                                   *)

\* What NoWayBack says of a step.
OnlyForward ==
    handoff.phase \in {"switching", "failed"} /\ ~destroyed' =>
        \/ handoff'.id = handoff.id /\ handoff'.phase \in {"switching", "failed"}
        \/ ~Converging' /\ members = Successor /\ handoff.held = <<>>

\* What NothingReplacedEarly says of a step.
NotYetReplaced ==
    handoff.phase \notin {"switching", "failed"} =>
        /\ members' = members /\ ended' = ended /\ renamed' = renamed
        /\ \A a \in Agents : proc'[a] = "half" => proc[a] = "half"

\* A step that fails stays on this side of it.
LEMMA FailForward ==
  ASSUME BookInv, NEW h \in Handoffs, FailStep(h)
  PROVE  OnlyForward
  <1>1. handoff' = handoff \/ handoff' = [handoff EXCEPT !.phase = "failed"]
    BY DEF FailStep
  <1>2. handoff \in HandoffRecords
    BY HeldTypes
  <1>. QED BY <1>1, <1>2 DEF OnlyForward, HandoffRecords

\* A runner that is stopping, replacing or adopting is in the switching phase.
LEMMA ReplacesLate ==
  ASSUME BookInv, NEW h \in Handoffs, Current(h), pc[h] \in BeforePcs \cup {"switch"}
  PROVE  handoff.phase = "switching"
  <1>. HIDE DEF Current
  <1>. QED BY RunnerAt

\* Every step keeps to the phase it finds on the record.
LEMMA ForwardStep ==
  ASSUME BookInv, [Next]_vars
  PROVE  OnlyForward
  <1>. USE DEF OnlyForward
  <1>0. handoff \in HandoffRecords
    BY HeldTypes
  <1>1. ASSUME NEW m \in Messages, HoldSend(m) \/ ResolveSend(m) \/ SendLands(m)
        PROVE  OnlyForward
    BY <1>0, <1>1 DEF HoldSend, ResolveSend, SendLands, Holding, HandoffRecords
  <1>2. ASSUME NEW h \in Handoffs, NEW to \in Accounts, NEW m \in Messages \cup {Nothing},
               NEW k \in BOOLEAN, BeginHandoff(h, to, m, k)
        PROVE  OnlyForward
    BY <1>2 DEF BeginHandoff
  <1>3. CASE CancelHandoff \/ DeliverCall
    BY <1>3 DEF CancelHandoff, CancellablePhases, DeliverCall
  <1>4. ASSUME NEW to \in Accounts, RetryHandoff(to) PROVE OnlyForward
    BY <1>0, <1>4 DEF RetryHandoff, HandoffRecords
  <1>5. ASSUME NEW h \in Handoffs, Discard(h) \/ RunnerStep(h) PROVE OnlyForward
    <2>1. CASE Discard(h) \/ Stopped(h) \/ Drain(h)
      BY <2>1 DEF Discard, Stopped, Drain
    <2>2. CASE Drained(h)
      <3>1. Current(h) => handoff.phase = "draining"
        <4>. HIDE DEF Current
        <4>. QED BY <2>2, RunnerAt DEF Drained
      <3>. QED BY <2>2, <3>1 DEF Drained
    <2>3. CASE Summarize(h)
      <3>1. handoff.phase = "summarizing"
        <4>1. pc[h] = "summarize" /\ Current(h)
          BY <2>3 DEF Summarize
        <4>. HIDE DEF Current
        <4>. QED BY <4>1, RunnerAt
      <3>. QED BY <3>1
    <2>4. CASE AwaitSummary(h)
      BY <2>4 DEF AwaitSummary
    <2>5. CASE FoldPrompt(h)
      <3>1. handoff.phase = "summarizing"
        <4>1. pc[h] = "fold" /\ Current(h)
          BY <2>5 DEF FoldPrompt
        <4>. HIDE DEF Current
        <4>. QED BY <4>1, RunnerAt
      <3>. QED BY <3>1
    <2>6. CASE StopRetiring(h)
      BY <2>6, FailForward DEF StopRetiring
    <2>7. CASE ArchiveRetiring(h)
      BY <2>7, FailForward DEF ArchiveRetiring
    <2>8. CASE RecordFinalCount(h) \/ AdoptSuccessor(h)
      BY <2>8 DEF RecordFinalCount, AdoptSuccessor
    <2>9. CASE CreateSuccessor(h)
      BY <2>9, FailForward DEF CreateSuccessor
    <2>10. CASE CreateReturns(h)
      BY <2>10, FailForward DEF CreateReturns
    <2>11. CASE ApplyModelPick(h)
      BY <2>11, FailForward DEF ApplyModelPick
    <2>12. CASE DeliverPrompt(h) \/ DeliverHeldSend(h)
      BY <2>12 DEF DeliverPrompt, DeliverHeldSend
    <2>13. CASE NotePrompt(h)
      BY <1>0, <2>13 DEF NotePrompt, HandoffRecords
    <2>14. CASE TakeNextHeldSend(h)
      <3>1. pc[h] = "take" /\ Current(h)
        BY <2>14 DEF TakeNextHeldSend
      <3>2. members = Successor
        <4>. HIDE DEF Current
        <4>. QED BY <3>1, RunnerAt DEF AfterPcs
      <3>3. \/ UNCHANGED handoff
            \/ handoff' = NoHandoff /\ handoff.held = <<>>
            \/ handoff' = [handoff EXCEPT !.held = Tail(@)]
        BY <2>14 DEF TakeNextHeldSend
      <3>. QED BY <1>0, <3>2, <3>3 DEF NoHandoff, HandoffRecords
    <2>. QED BY <1>5, <2>1, <2>2, <2>3, <2>4, <2>5, <2>6, <2>7, <2>8, <2>9, <2>10, <2>11,
                <2>12, <2>13, <2>14 DEF RunnerStep
  <1>6. CASE Restart
    BY <1>6 DEF Restart
  <1>7. ASSUME NEW a \in Agents, Observe(a) \/ AgentTurn(a) PROVE OnlyForward
    BY <1>7 DEF Observe, AgentTurn
  <1>8. CASE DestroyAgents \/ DestroyRecord
    BY <1>8 DEF DestroyAgents, DestroyRecord
  <1>9. CASE UNCHANGED vars
    BY <1>9 DEF vars
  <1>. HIDE DEF Handoffs, Agents, OnlyForward
  <1>. QED BY <1>1, <1>2, <1>3, <1>4, <1>5, <1>6, <1>7, <1>8, <1>9 DEF Next

\* A delivery that lands makes no agent a half-made one; nor does one refused.
LEMMA DeliverMakesNone ==
  ASSUME BookInv, NEW b, NEW item, Reaches(b, item) \/ DeliverHeld(b, item)
  PROVE  renamed' = renamed /\ \A a \in Agents : proc'[a] = "half" => proc[a] = "half"
  <1>1. proc \in [Agents -> {"none", "half", "up", "down"}]
    BY DEF BookInv, AgentTypes
  <1>2. CASE Reaches(b, item)
    BY <1>1, <1>2 DEF Reaches
  <1>3. CASE UNCHANGED agentVars
    BY <1>3
  <1>. QED BY <1>2, <1>3 DEF DeliverHeld

\* No step replaces anything before the switching phase.
LEMMA EarlyStep ==
  ASSUME BookInv, [Next]_vars
  PROVE  NotYetReplaced
  <1>. USE DEF NotYetReplaced
  <1>0. proc \in [Agents -> {"none", "half", "up", "down"}]
    BY DEF BookInv, AgentTypes
  <1>1. ASSUME NEW m \in Messages, HoldSend(m) \/ ResolveSend(m) \/ SendLands(m)
        PROVE  NotYetReplaced
    BY <1>1, DeliverMakesNone DEF HoldSend, ResolveSend, SendLands
  <1>2. ASSUME NEW h \in Handoffs, NEW to \in Accounts, NEW m \in Messages \cup {Nothing},
               NEW k \in BOOLEAN, BeginHandoff(h, to, m, k)
        PROVE  NotYetReplaced
    BY <1>2 DEF BeginHandoff
  <1>3. CASE CancelHandoff \/ DeliverCall
    BY <1>3, DeliverMakesNone DEF CancelHandoff, DeliverCall
  <1>4. ASSUME NEW to \in Accounts, RetryHandoff(to) PROVE NotYetReplaced
    BY <1>4 DEF RetryHandoff
  <1>5. ASSUME NEW h \in Handoffs, Discard(h) \/ RunnerStep(h) PROVE NotYetReplaced
    <2>1. CASE Discard(h)
      BY <1>0, <2>1 DEF Discard, Destroyed
    <2>2. CASE Stopped(h) \/ Drain(h) \/ Drained(h) \/ AwaitSummary(h) \/ FoldPrompt(h)
      BY <2>2 DEF Stopped, Drain, Drained, AwaitSummary, FoldPrompt
    <2>3. CASE Summarize(h)
      BY <1>0, <2>3 DEF Summarize
    <2>4. CASE /\ pc[h] \in BeforePcs \cup {"switch"} /\ Current(h)
      <3>1. handoff.phase = "switching"
        <4>. HIDE DEF Current
        <4>. QED BY <2>4, ReplacesLate
      <3>. QED BY <3>1
    <2>5. CASE StopRetiring(h) \/ ArchiveRetiring(h) \/ RecordFinalCount(h)
               \/ CreateSuccessor(h) \/ ApplyModelPick(h) \/ AdoptSuccessor(h)
      BY <2>4, <2>5 DEF StopRetiring, ArchiveRetiring, RecordFinalCount, CreateSuccessor,
                        ApplyModelPick, AdoptSuccessor, BeforePcs
    <2>6. CASE CreateReturns(h)
      BY <1>0, <2>6 DEF CreateReturns
    <2>7. CASE DeliverPrompt(h) \/ DeliverHeldSend(h)
      BY <2>7, DeliverMakesNone DEF DeliverPrompt, DeliverHeldSend
    <2>8. CASE NotePrompt(h) \/ TakeNextHeldSend(h)
      BY <2>8 DEF NotePrompt, TakeNextHeldSend
    <2>. QED BY <1>5, <2>1, <2>2, <2>3, <2>5, <2>6, <2>7, <2>8 DEF RunnerStep
  <1>6. CASE Restart
    BY <1>0, <1>6 DEF Restart
  <1>7. ASSUME NEW a \in Agents, Observe(a) \/ AgentTurn(a) PROVE NotYetReplaced
    BY <1>7 DEF Observe, AgentTurn
  <1>8. CASE DestroyAgents \/ DestroyRecord
    BY <1>0, <1>8 DEF DestroyAgents, Destroyed, DestroyRecord
  <1>9. CASE UNCHANGED vars
    BY <1>9 DEF vars
  <1>. HIDE DEF Handoffs, Agents, NotYetReplaced
  <1>. QED BY <1>1, <1>2, <1>3, <1>4, <1>5, <1>6, <1>7, <1>8, <1>9 DEF Next

\* A switch replaces nothing of the chat before the switching phase, and from then on
\* it ends only with its successor in place and nothing held (cancel_handoff, _current,
\* _take_next_held_send), whichever of the races happen.
THEOREM NoReturn == Spec => PointOfNoReturn
  <1>1. BookInv /\ [Next]_vars => OnlyForward /\ NotYetReplaced
    BY ForwardStep, EarlyStep
  <1>2. [][OnlyForward]_vars <=> NoWayBack
    BY DEF OnlyForward, NoWayBack
  <1>3. [][NotYetReplaced]_vars <=> NothingReplacedEarly
    BY DEF NotYetReplaced, NothingReplacedEarly
  <1>. QED BY <1>1, <1>2, <1>3, RecordHolds, PTL DEF Spec, PointOfNoReturn

-------------------------------------------------------------------------------
(* The agents.                                                               *)

\* None of the races that reach an agent the chat has left.
NoAgentRaces ==
    {"lateSend", "lateCalls", "blindStart", "staleSuccessor", "destroyMidSwitch"}
        \cap Races = {}

\* What AgentsInv says of a chat that is not being destroyed, apart from the sends.
FleetInv == ListedInv /\ AheadInv /\ RetiredInv /\ AccountInv

\* The runner is not yet between archiving the old agent and adopting the new one.
PlainPcs == {"drain", "drained", "summarize", "await", "fold", "done", "switch", "prompt",
             "told", "take", "send"}

\* The old agent is still the chat's.
Staying == Converging /\ members = handoff.retiring

\* While the runner is past the drain nothing is on its way to an agent.
LEMMA NoFlight ==
  ASSUME AgentsInv, doomed = {}, Converging, pc[begun] # "drain"
  PROVE  (\A m \in Messages : flight[m] = 0) /\ calls.msgs = <<>>
  BY DEF AgentsInv, FlightInv, CallsInv

\* A switch under way is of a chat that lives.
LEMMA Living ==
  ASSUME BookInv, AgentsInv, NEW h \in Handoffs, Current(h), pc[h] # "done"
  PROVE  doomed = {}
  <1>1. h = begun
    BY CurrentIsLast
  <1>2. handoff.phase # "failed"
    BY <1>1 DEF BookInv, RunInv, PhaseInv
  <1>. QED BY <1>2 DEF AgentsInv, DoomInv

\* A step of a runner whose handoff is gone disturbs no agent.
LEMMA OverAgents ==
  ASSUME BookInv, AgentsInv, NEW h \in Handoffs, NEW l \in Labels, ~Current(h), Goto(h, l),
         UNCHANGED <<members, ended, account, handoff, seen, agentVars, calls, flight, begun,
                     doomed, destroyed>>
  PROVE  AgentsInv'
  <1>1. Converging => pc'[begun] = pc[begun]
    BY DEF BookInv, RunInv, RecordInv, AppTypes, TextTypes
  <1>2. QueueInv' /\ DoomInv'
    BY DEF AgentsInv, QueueInv, DoomInv
  <1>3. ASSUME doomed = {} PROVE FlightInv' /\ CallsInv' /\ ListedInv' /\ AccountInv'
    BY <1>1, <1>3 DEF AgentsInv, FlightInv, CallsInv, ListedInv, Listed, AccountInv
  <1>4. ASSUME doomed = {} PROVE AheadInv'
    <2>1. AheadInv
      BY <1>4 DEF AgentsInv
    <2>. QED BY <1>1, <2>1 DEF AheadInv
  <1>5. ASSUME doomed = {} PROVE RetiredInv'
    <2>1. RetiredInv
      BY <1>5 DEF AgentsInv
    <2>. QED BY <1>1, <2>1 DEF RetiredInv, Silent
  <1>. QED BY <1>2, <1>3, <1>4, <1>5 DEF AgentsInv

\* What is ahead of the chat's agent stays as it is while the runner goes on with the
\* same agents to the same account.
LEMMA SameAhead ==
  ASSUME AheadInv, Converging, Converging', handoff'.retiring = handoff.retiring,
         handoff'.target = handoff.target, pc[begun] # "discard", begun' = begun,
         handoff.phase \in {"switching", "failed"} => handoff'.phase \in {"switching", "failed"},
         UNCHANGED <<members, seen, proc, runsOn>>,
         members = handoff.retiring => pc'[begun] # "discard"
             /\ (pc'[begun] \in {"pick", "adopt"} => seen[Successor] # "untracked")
             /\ (pc'[begun] = "creating" =>
                    proc[Successor] = "half" /\ runsOn[Successor] = handoff.target)
  PROVE  AheadInv'
  <1>. USE DEF AheadInv
  <1>1. Successor' = Successor
    OBVIOUS
  <1>. QED BY <1>1

\* So does what is behind it.
LEMMA SameRetired ==
  ASSUME RetiredInv, handoff'.retiring = handoff.retiring, begun' = begun,
         UNCHANGED <<members, proc, inbox, renamed, ended>>,
         pc'[begun] \in PlainPcs
  PROVE  RetiredInv'
  BY DEF RetiredInv, Silent, PlainPcs

\* A step of the chat's runner that touches no agent, to a place where nothing more is
\* known of them.
LEMMA HereAgents ==
  ASSUME BookInv, AgentsInv, NEW h \in Handoffs, NEW l \in PlainPcs, Current(h), Goto(h, l),
         pc[h] \notin {"drain", "discard", "done"}, Converging',
         handoff'.retiring = handoff.retiring, handoff'.target = handoff.target,
         handoff.phase \in {"switching", "failed"} => handoff'.phase \in {"switching", "failed"},
         UNCHANGED <<members, ended, account, seen, agentVars, calls, flight, begun, doomed,
                     destroyed>>
  PROVE  AgentsInv'
  <1>1. doomed = {} /\ h = begun
    <2>. HIDE DEF Current
    <2>. QED BY Living, CurrentIsLast
  <1>2. pc'[begun] = l
    BY <1>1 DEF BookInv, AppTypes
  <1>3. QueueInv' /\ DoomInv'
    BY <1>1 DEF AgentsInv, QueueInv, DoomInv
  <1>4. FlightInv' /\ CallsInv'
    <2>1. (\A m \in Messages : flight[m] = 0) /\ calls.msgs = <<>>
      BY <1>1, NoFlight
    <2>. QED BY <2>1 DEF FlightInv, CallsInv
  <1>5. ListedInv' /\ AccountInv'
    BY <1>1 DEF AgentsInv, ListedInv, Listed, AccountInv
  <1>6. l \notin {"discard", "pick", "adopt", "creating"}
    BY DEF PlainPcs
  <1>7. AheadInv'
    <2>1. AheadInv
      BY <1>1 DEF AgentsInv
    <2>. QED BY <1>1, <1>2, <1>6, <2>1, SameAhead
  <1>8. RetiredInv'
    <2>1. RetiredInv
      BY <1>1 DEF AgentsInv
    <2>. QED BY <1>2, <2>1, SameRetired
  <1>. QED BY <1>3, <1>4, <1>5, <1>7, <1>8 DEF AgentsInv

\* A refused step of the switch disturbs no agent.
LEMMA FailAgents ==
  ASSUME BookInv, AgentsInv, NEW h \in Handoffs, FailStep(h),
         pc[h] \in BeforePcs \cup {"switch"}, pc[h] # "discard",
         UNCHANGED <<members, ended, account, seen, agentVars, calls, flight, begun, doomed,
                     destroyed>>
  PROVE  AgentsInv'
  <1>1. Goto(h, "done") /\ pc[h] \notin {"drain", "discard", "done"}
    BY DEF FailStep, BeforePcs
  <1>2. CASE Current(h)
    <2>1. handoff' = [handoff EXCEPT !.phase = "failed"] /\ handoff \in HandoffRecords
      BY <1>2, HeldTypes DEF FailStep
    <2>2. /\ handoff'.phase = "failed" /\ handoff'.retiring = handoff.retiring
          /\ handoff'.target = handoff.target
      BY <2>1 DEF HandoffRecords
    <2>3. Converging'
      BY <2>2
    <2>. HIDE DEF Current, Goto, Converging
    <2>. QED BY <1>1, <1>2, <2>2, <2>3, HereAgents DEF PlainPcs
  <1>3. CASE ~Current(h)
    <2>1. UNCHANGED handoff
      BY <1>3 DEF FailStep
    <2>. HIDE DEF Current, Goto
    <2>. QED BY <1>1, <1>3, <2>1, OverAgents DEF Labels
  <1>. QED BY <1>2, <1>3

\* The chat's agent is started, or goes on: nothing but it changes.
LEMMA WakeAgents ==
  ASSUME BookInv, AgentsInv, doomed = {}, proc[members] # "none",
         proc' = [proc EXCEPT ![members] = "up"], seen' = [seen EXCEPT ![members] = "up"],
         \A a \in Agents : a # members => inbox'[a] = inbox[a],
         UNCHANGED <<members, ended, account, handoff, runsOn, renamed, begun>>,
         Staying => pc[begun] \in PlainPcs /\ pc'[begun] \in PlainPcs
  PROVE  QueueInv' /\ FleetInv'
  <1>1. /\ members \in Agents /\ proc \in [Agents -> {"none", "half", "up", "down"}]
        /\ seen \in [Agents -> {"untracked", "up", "down"}]
    BY DEF BookInv, RecordTypes, AgentTypes, AppTypes
  <1>2. /\ proc'[members] = "up" /\ seen'[members] = "up"
        /\ \A a \in Agents : a # members => proc'[a] = proc[a] /\ seen'[a] = seen[a]
    BY <1>1
  <1>3. QueueInv'
    BY <1>2 DEF AgentsInv, QueueInv
  <1>4. ListedInv'
    BY <1>2 DEF AgentsInv, ListedInv, Listed
  <1>5. AccountInv'
    BY DEF AgentsInv, AccountInv
  <1>6. AheadInv'
    <2>1. AheadInv
      BY DEF AgentsInv
    <2>2. \A a \in Agents : a > members => a # members
      BY <1>1
    <2>3. Staying => Successor \in Agents /\ Successor # members
      BY DEF Staying, BookInv, RunInv, RecordInv, TextTypes
    <2>4. Staying => pc[begun] # "discard" /\ pc'[begun] \notin {"discard", "pick", "adopt", "creating"}
      BY DEF PlainPcs
    <2>. QED BY <1>2, <2>1, <2>2, <2>3, <2>4 DEF AheadInv, Staying
  <1>7. RetiredInv'
    <2>1. RetiredInv
      BY DEF AgentsInv
    <2>2. \A a \in Agents : a < members => a # members
      BY <1>1
    <2>. QED BY <1>2, <2>1, <2>2 DEF RetiredInv, Silent, Staying, PlainPcs
  <1>. QED BY <1>3, <1>4, <1>5, <1>6, <1>7 DEF FleetInv

\* A delivery to the chat's agent, or its refusal.
LEMMA DeliverAgents ==
  ASSUME BookInv, AgentsInv, NEW item, DeliverHeld(members, item) \/ Reaches(members, item),
         UNCHANGED <<members, ended, account, handoff, begun, doomed, destroyed>>,
         Staying => pc[begun] \in PlainPcs /\ pc'[begun] \in PlainPcs
  PROVE  QueueInv' /\ DoomInv' /\ (doomed = {} => FleetInv')
  <1>1. CASE Reaches(members, item)
    <2>1. /\ proc[members] # "none" /\ proc' = [proc EXCEPT ![members] = "up"]
          /\ seen' = [seen EXCEPT ![members] = IF @ = "untracked" THEN @ ELSE "up"]
          /\ inbox' = [inbox EXCEPT ![members] = Append(@, item)]
          /\ UNCHANGED <<runsOn, renamed>> /\ members \in Agents
      BY <1>1 DEF Reaches, BookInv, RecordTypes
    <2>2. doomed = {}
      BY <2>1 DEF AgentsInv, DoomInv
    <2>3. seen' = [seen EXCEPT ![members] = "up"]
      <3>1. seen[members] # "untracked"
        BY <2>1, <2>2 DEF AgentsInv, ListedInv, RecordTypes, BookInv
      <3>. QED BY <2>1, <3>1
    <2>4. \A a \in Agents : a # members => inbox'[a] = inbox[a]
      BY <2>1 DEF BookInv, AgentTypes
    <2>5. QueueInv' /\ FleetInv'
      <3>. HIDE DEF Agents
      <3>. QED BY <2>1, <2>2, <2>3, <2>4, WakeAgents
    <2>6. DoomInv'
      BY <2>2 DEF AgentsInv, DoomInv
    <2>. QED BY <2>5, <2>6
  <1>2. CASE UNCHANGED <<seen, agentVars>>
    <2>1. QueueInv' /\ DoomInv'
      BY <1>2 DEF AgentsInv, QueueInv, DoomInv
    <2>2. ASSUME doomed = {} PROVE ListedInv' /\ AccountInv'
      BY <1>2, <2>2 DEF AgentsInv, ListedInv, Listed, AccountInv
    <2>3. ASSUME doomed = {} PROVE AheadInv'
      <3>1. AheadInv
        BY <2>3 DEF AgentsInv
      <3>. QED BY <1>2, <3>1 DEF AheadInv, PlainPcs, Staying
    <2>4. ASSUME doomed = {} PROVE RetiredInv'
      <3>1. RetiredInv
        BY <2>4 DEF AgentsInv
      <3>. QED BY <1>2, <3>1 DEF RetiredInv, Silent, PlainPcs, Staying
    <2>. QED BY <2>1, <2>2, <2>3, <2>4 DEF FleetInv
  <1>. QED BY <1>1, <1>2 DEF DeliverHeld

\* Sends: one held, one resolved, one handed over.
LEMMA HoldSendAgents ==
  ASSUME BookInv, AgentsInv, NEW m \in Messages, HoldSend(m)
  PROVE  AgentsInv'
  <1>1. UNCHANGED <<members, ended, account, seen, pc, calls, flight, proc, runsOn, renamed, inbox,
                    begun, doomed, destroyed>>
    BY DEF HoldSend
  <1>2. /\ handoff'.phase = handoff.phase /\ handoff'.retiring = handoff.retiring
        /\ handoff'.target = handoff.target
    BY HeldTypes DEF HoldSend, Holding, HandoffRecords
  <1>3. QueueInv' /\ DoomInv'
    BY <1>1, <1>2 DEF AgentsInv, QueueInv, DoomInv
  <1>4. ASSUME doomed = {} PROVE FlightInv' /\ CallsInv'
    BY <1>1, <1>2, <1>4 DEF AgentsInv, FlightInv, CallsInv
  <1>5. ASSUME doomed = {} PROVE ListedInv' /\ AccountInv'
    BY <1>1, <1>5 DEF AgentsInv, ListedInv, Listed, AccountInv
  <1>6. ASSUME doomed = {} PROVE AheadInv'
    <2>1. AheadInv
      BY <1>6 DEF AgentsInv
    <2>. QED BY <1>1, <1>2, <2>1 DEF AheadInv
  <1>7. ASSUME doomed = {} PROVE RetiredInv'
    <2>1. RetiredInv
      BY <1>7 DEF AgentsInv
    <2>. QED BY <1>1, <1>2, <2>1 DEF RetiredInv, Silent
  <1>. QED BY <1>1, <1>3, <1>4, <1>5, <1>6, <1>7 DEF AgentsInv

\* Resolving a send keeps what is known of the agents.
LEMMA ResolveSendAgents ==
  ASSUME BookInv, AgentsInv, NEW m \in Messages, ResolveSend(m)
  PROVE  AgentsInv'
  <1>1. UNCHANGED <<members, ended, account, handoff, seen, pc, calls, proc, runsOn, renamed, inbox,
                    begun, doomed, destroyed>> /\ ~Converging
        /\ flight' = [flight EXCEPT ![m] = members]
    BY DEF ResolveSend
  <1>2. QueueInv' /\ DoomInv'
    BY <1>1 DEF AgentsInv, QueueInv, DoomInv
  <1>3. ASSUME doomed = {} PROVE FlightInv' /\ CallsInv'
    BY <1>1, <1>3 DEF AgentsInv, FlightInv, CallsInv, BookInv, AppTypes
  <1>4. ASSUME doomed = {} PROVE ListedInv' /\ AccountInv' /\ AheadInv' /\ RetiredInv'
    BY <1>1, <1>4 DEF AgentsInv, ListedInv, Listed, AccountInv, AheadInv, RetiredInv, Silent
  <1>. QED BY <1>1, <1>2, <1>3, <1>4 DEF AgentsInv

\* A send that reaches its agent or comes back keeps what is known of the agents.
LEMMA SendLandsAgents ==
  ASSUME BookInv, AgentsInv, NEW m \in Messages, SendLands(m)
  PROVE  AgentsInv'
  <1>1. /\ UNCHANGED <<members, ended, account, handoff, pc, calls, begun, doomed, destroyed>>
        /\ flight[m] # 0 /\ flight' = [flight EXCEPT ![m] = 0]
    BY DEF SendLands
  <1>2. ASSUME doomed = {} PROVE FlightInv' /\ CallsInv'
    BY <1>1, <1>2 DEF AgentsInv, FlightInv, CallsInv, BookInv, AppTypes
  <1>3. CASE UNCHANGED <<seen, agentVars>>
    <2>1. QueueInv' /\ DoomInv'
      BY <1>1, <1>3 DEF AgentsInv, QueueInv, DoomInv
    <2>2. ASSUME doomed = {} PROVE ListedInv' /\ AccountInv' /\ AheadInv' /\ RetiredInv'
      BY <1>1, <1>3, <2>2 DEF AgentsInv, ListedInv, Listed, AccountInv, AheadInv, RetiredInv, Silent
    <2>. QED BY <1>1, <1>2, <2>1, <2>2 DEF AgentsInv
  <1>4. CASE Reaches(flight[m], Plain(m))
    <2>1. flight[m] \in Agents
      BY <1>1 DEF BookInv, AppTypes
    <2>2. doomed = {}
      BY <1>4, <2>1 DEF Reaches, AgentsInv, DoomInv
    <2>3. flight[m] = members /\ (Converging => pc[begun] = "drain")
      BY <1>1, <2>2 DEF AgentsInv, FlightInv
    <2>4. Staying => pc[begun] \in PlainPcs /\ pc'[begun] \in PlainPcs
      BY <1>1, <2>3 DEF Staying, PlainPcs
    <2>5. Reaches(members, Plain(m))
      BY <1>4, <2>3
    <2>6. QueueInv' /\ DoomInv' /\ FleetInv'
      BY <1>1, <2>2, <2>4, <2>5, DeliverAgents
    <2>. QED BY <1>2, <2>2, <2>6 DEF AgentsInv, FleetInv
  <1>. QED BY <1>3, <1>4 DEF SendLands

\* A handoff begins, is called off, its sends go to the agent the chat stays on.
LEMMA BeginHandoffAgents ==
  ASSUME BookInv, AgentsInv, NoAgentRaces, NEW h \in Handoffs, NEW to \in Accounts,
         NEW m \in Messages \cup {Nothing}, NEW k \in BOOLEAN, BeginHandoff(h, to, m, k)
  PROVE  AgentsInv'
  <1>1. /\ UNCHANGED <<members, ended, account, seen, calls, flight, proc, runsOn, renamed, inbox,
                       doomed, destroyed>>
        /\ ~Converging /\ calls.msgs = <<>> /\ doomed = {}
        /\ h = begun + 1 /\ begun' = h /\ pc' = [pc EXCEPT ![h] = "drain"]
        /\ handoff' = Opened(h, to, m, k)
    BY DEF BeginHandoff, NoAgentRaces
  <1>2. pc'[begun'] = "drain"
    BY <1>1 DEF BookInv, AppTypes
  <1>3. handoff'.phase = "draining" /\ handoff'.retiring = members
    BY <1>1 DEF Opened
  <1>4. QueueInv' /\ DoomInv'
    BY <1>1 DEF AgentsInv, QueueInv, DoomInv
  <1>5. FlightInv' /\ CallsInv'
    BY <1>1, <1>2, <1>3 DEF AgentsInv, FlightInv, CallsInv
  <1>6. ListedInv' /\ AccountInv'
    BY <1>1 DEF AgentsInv, ListedInv, Listed, AccountInv
  <1>7. AheadInv'
    <2>1. \A a \in Agents : a > members => proc[a] = "none" /\ seen[a] = "untracked"
      BY <1>1 DEF AgentsInv, AheadInv, ListedInv, Listed
    <2>2. members + 1 \in Agents /\ members + 1 > members
      BY <1>1 DEF BookInv, RunInv, RecordInv, RecordTypes, TextTypes
    <2>3. Successor' = members + 1
      BY <1>3
    <2>. QED BY <1>1, <1>2, <1>3, <2>1, <2>2, <2>3 DEF AheadInv
  <1>8. RetiredInv'
    BY <1>1, <1>2 DEF AgentsInv, RetiredInv, Silent
  <1>. QED BY <1>4, <1>5, <1>6, <1>7, <1>8 DEF AgentsInv

\* Calling a handoff off keeps what is known of the agents.
LEMMA CancelHandoffAgents ==
  ASSUME BookInv, AgentsInv, CancelHandoff
  PROVE  AgentsInv'
  <1>1. /\ UNCHANGED <<members, ended, account, seen, pc, flight, proc, runsOn, renamed, inbox,
                       begun, doomed, destroyed>>
        /\ handoff.phase \in {"draining", "summarizing"} /\ handoff' = NoHandoff
        /\ calls' = [to |-> members, msgs |-> calls.msgs \o Others]
    BY DEF CancelHandoff, CancellablePhases
  <1>2. ~Converging' /\ calls'.to = members /\ doomed = {} /\ handoff'.phase = "none"
    BY <1>1 DEF NoHandoff, AgentsInv, DoomInv
  <1>3. QueueInv' /\ DoomInv'
    BY <1>1, <1>2 DEF AgentsInv, QueueInv, DoomInv
  <1>4. FlightInv' /\ CallsInv'
    BY <1>1, <1>2 DEF AgentsInv, FlightInv, CallsInv
  <1>5. ListedInv' /\ AccountInv'
    BY <1>1, <1>2 DEF AgentsInv, ListedInv, Listed, AccountInv
  <1>6. AheadInv' /\ RetiredInv'
    BY <1>1, <1>2 DEF AgentsInv, AheadInv, RetiredInv, Silent
  <1>. QED BY <1>3, <1>4, <1>5, <1>6 DEF AgentsInv

\* Delivering what a handoff called off had held keeps what is known of the agents.
LEMMA DeliverCallAgents ==
  ASSUME BookInv, AgentsInv, DeliverCall
  PROVE  AgentsInv'
  <1>1. /\ UNCHANGED <<members, ended, account, handoff, pc, flight, begun, doomed, destroyed>>
        /\ calls.msgs # <<>> /\ calls' = [calls EXCEPT !.msgs = Tail(@)]
        /\ DeliverHeld(calls.to, Plain(Head(calls.msgs)))
    BY DEF DeliverCall
  <1>2. calls'.to = calls.to
    BY <1>1 DEF BookInv, AppTypes
  <1>3. CASE doomed = {}
    <2>1. calls.to = members /\ ~Converging
      BY <1>1, <1>3 DEF AgentsInv, CallsInv
    <2>2. DeliverHeld(members, Plain(Head(calls.msgs))) /\ ~Staying
      BY <1>1, <2>1 DEF Staying
    <2>3. QueueInv' /\ DoomInv' /\ FleetInv'
      BY <1>1, <1>3, <2>2, DeliverAgents
    <2>4. FlightInv' /\ CallsInv'
      BY <1>1, <1>2, <1>3, <2>1 DEF AgentsInv, FlightInv, CallsInv
    <2>. QED BY <2>3, <2>4 DEF AgentsInv, FleetInv
  <1>4. CASE doomed # {}
    <2>1. \A a \in Agents : proc[a] = "none"
      BY <1>4 DEF AgentsInv, DoomInv
    <2>2. calls.to \in Agents \/ calls.to = 0
      BY DEF BookInv, AppTypes
    <2>3. /\ proc' = [proc EXCEPT ![calls.to] = "up"] \/ UNCHANGED proc
          /\ inbox' = inbox \/ (calls.to \notin Agents /\
                inbox' = [inbox EXCEPT ![calls.to] = Append(@, Plain(Head(calls.msgs)))])
          /\ calls.to \in Agents => UNCHANGED proc
      BY <1>1, <2>1 DEF DeliverHeld, Reaches
    <2>4. \A a \in Agents : proc'[a] = proc[a] /\ inbox'[a] = inbox[a]
      BY <2>3 DEF BookInv, AgentTypes
    <2>5. QueueInv' /\ DoomInv'
      BY <1>1, <2>4 DEF AgentsInv, QueueInv, DoomInv
    <2>. QED BY <1>1, <1>4, <2>5 DEF AgentsInv
  <1>. QED BY <1>3, <1>4

\* A retry, and the discard it may begin with.
LEMMA RetryHandoffAgents ==
  ASSUME BookInv, AgentsInv, NoAgentRaces, NEW to \in Accounts, RetryHandoff(to)
  PROVE  AgentsInv'
  <1>1. /\ UNCHANGED <<members, ended, account, seen, calls, flight, proc, runsOn, renamed, inbox,
                       begun, doomed, destroyed>>
        /\ handoff.phase = "failed" /\ doomed = {}
    BY DEF RetryHandoff, NoAgentRaces
  <1>2. /\ handoff'.phase = "switching" /\ handoff'.retiring = handoff.retiring
        /\ handoff'.target = to
    BY HeldTypes DEF RetryHandoff, HandoffRecords
  <1>3. /\ handoff.id = begun /\ begun \in Handoffs /\ pc[begun] = "done"
        /\ members = handoff.retiring /\ Successor \in Agents
    BY <1>1 DEF BookInv, RunInv, PhaseInv, RecordInv, TextTypes
  <1>4. pc'[begun] = IF Discards(to) THEN "discard" ELSE "switch"
    BY <1>3 DEF RetryHandoff, BookInv, AppTypes
  <1>5. QueueInv' /\ DoomInv'
    BY <1>1 DEF AgentsInv, QueueInv, DoomInv
  <1>6. FlightInv' /\ CallsInv'
    <2>1. (\A m \in Messages : flight[m] = 0) /\ calls.msgs = <<>>
      BY <1>1, <1>3, NoFlight
    <2>. QED BY <1>1, <2>1 DEF FlightInv, CallsInv
  <1>7. ListedInv' /\ AccountInv'
    BY <1>1 DEF AgentsInv, ListedInv, Listed, AccountInv
  <1>8. AheadInv'
    <2>1. AheadInv
      BY <1>1 DEF AgentsInv
    <2>2. Converging /\ Converging' /\ Successor' = Successor
      BY <1>1, <1>2
    <2>3. seen[Successor] # "untracked" => runsOn[Successor] = handoff.target
      BY <1>3, <2>1, <2>2 DEF AheadInv
    <2>4. pc'[begun] = "discard" <=> to # handoff.target /\ seen[Successor] # "untracked"
      BY <1>4 DEF Discards
    <2>5. pc'[begun] \in {"discard", "switch"}
      BY <1>4
    <2>. QED BY <1>1, <1>2, <1>3, <2>1, <2>2, <2>3, <2>4, <2>5 DEF AheadInv
  <1>9. RetiredInv'
    <2>1. pc'[begun] \in {"discard", "switch"}
      BY <1>4
    <2>. QED BY <1>1, <2>1 DEF AgentsInv, RetiredInv, Silent
  <1>. QED BY <1>5, <1>6, <1>7, <1>8, <1>9 DEF AgentsInv

\* Discarding the half-made successor keeps what is known of the agents.
LEMMA DiscardAgents ==
  ASSUME BookInv, AgentsInv, NoAgentRaces, NEW h \in Handoffs, Discard(h)
  PROVE  AgentsInv'
  <1>1. /\ UNCHANGED <<members, ended, account, handoff, calls, flight, runsOn, renamed, begun,
                       doomed, destroyed>>
        /\ pc[h] = "discard" /\ pc' = [pc EXCEPT ![h] = "switch"]
        /\ seen' = [seen EXCEPT ![Successor] = "untracked"]
        /\ Destroyed({Successor})
    BY DEF Discard, NoAgentRaces, Destroyed
  <1>2. h = begun
    BY <1>1, LateIsLast DEF EarlyPcs
  <1>3. pc'[begun] = "switch" /\ pc[begun] = "discard"
    BY <1>1, <1>2 DEF BookInv, AppTypes
  <1>4. \A a \in Agents : /\ proc'[a] = IF a = Successor THEN "none" ELSE proc[a]
                          /\ inbox'[a] = IF a = Successor THEN <<>> ELSE inbox[a]
                          /\ seen'[a] = IF a = Successor THEN "untracked" ELSE seen[a]
    BY <1>1 DEF Destroyed, BookInv, AppTypes
  <1>5. QueueInv' /\ DoomInv'
    BY <1>1, <1>4 DEF AgentsInv, QueueInv, DoomInv
  <1>6. ASSUME doomed = {}
        PROVE  Converging /\ members = handoff.retiring /\ handoff.phase = "switching"
    <2>1. ~destroyed
      BY <1>6 DEF AgentsInv, DoomInv
    <2>2. Current(h)
      BY <1>1, <2>1, LateIsLast DEF EarlyPcs
    <2>. HIDE DEF Current
    <2>3. handoff.phase = "switching" /\ members = handoff.retiring
      BY <1>1, <2>2, RunnerAt DEF BeforePcs
    <2>. QED BY <2>2, <2>3 DEF Current
  <1>7. ASSUME doomed = {} PROVE FlightInv' /\ CallsInv'
    <2>1. (\A m \in Messages : flight[m] = 0) /\ calls.msgs = <<>>
      BY <1>3, <1>6, <1>7, NoFlight
    <2>. QED BY <1>1, <2>1 DEF FlightInv, CallsInv
  <1>8. ASSUME doomed = {} PROVE members < Successor
    BY <1>6, <1>8 DEF BookInv, RunInv, RecordInv, TextTypes
  <1>9. ASSUME doomed = {} PROVE ListedInv' /\ AccountInv'
    <2>1. \A a \in Agents : a <= members => a # Successor
      BY <1>8, <1>9 DEF BookInv, RecordTypes
    <2>. QED BY <1>1, <1>4, <1>9, <2>1 DEF AgentsInv, ListedInv, Listed, AccountInv
  <1>10. ASSUME doomed = {} PROVE AheadInv'
    <2>1. AheadInv /\ Converging /\ members = handoff.retiring /\ handoff.phase = "switching"
      BY <1>6, <1>10 DEF AgentsInv
    <2>2. Successor \in Agents
      BY <2>1 DEF BookInv, RunInv, RecordInv, TextTypes
    <2>3. seen'[Successor] = "untracked" /\ Successor' = Successor
      BY <1>1, <1>4, <2>2
    <2>. QED BY <1>1, <1>3, <1>4, <2>1, <2>2, <2>3 DEF AheadInv
  <1>11. ASSUME doomed = {} PROVE RetiredInv'
    <2>1. \A a \in Agents : a < members => a # Successor
      BY <1>8, <1>11 DEF BookInv, RecordTypes
    <2>. QED BY <1>1, <1>3, <1>4, <1>11, <2>1 DEF AgentsInv, RetiredInv, Silent
  <1>. QED BY <1>1, <1>5, <1>7, <1>9, <1>10, <1>11 DEF AgentsInv

\* The runner before the switch.
LEMMA StoppedAgents ==
  ASSUME BookInv, AgentsInv, NEW h \in Handoffs, Stopped(h)
  PROVE  AgentsInv'
  <1>. HIDE DEF Goto, Current
  <1>. QED BY OverAgents DEF Stopped, Labels

\* The drain keeps what is known of the agents.
LEMMA DrainAgents ==
  ASSUME BookInv, AgentsInv, NoAgentRaces, NEW h \in Handoffs, Drain(h)
  PROVE  AgentsInv'
  <1>1. /\ UNCHANGED <<members, ended, account, handoff, seen, calls, flight, proc, runsOn, renamed,
                       begun, doomed, destroyed>>
        /\ pc[h] = "drain" /\ Current(h) /\ pc' = [pc EXCEPT ![h] = "drained"]
        /\ \A m \in Messages : flight[m] = 0
        /\ inbox' = [inbox EXCEPT ![members] = <<>>] \/ UNCHANGED inbox
    BY DEF Drain, NoAgentRaces
  <1>2. doomed = {} /\ h = begun
    <2>. HIDE DEF Current
    <2>. QED BY <1>1, Living, CurrentIsLast
  <1>3. pc'[begun] = "drained" /\ \A a \in Agents : inbox'[a] = inbox[a] \/ inbox'[a] = <<>>
    BY <1>1, <1>2 DEF BookInv, AppTypes, AgentTypes
  <1>4. QueueInv' /\ DoomInv'
    BY <1>1, <1>2, <1>3 DEF AgentsInv, QueueInv, DoomInv
  <1>5. FlightInv' /\ CallsInv'
    BY <1>1, <1>2 DEF AgentsInv, FlightInv, CallsInv
  <1>6. ListedInv' /\ AccountInv'
    BY <1>1, <1>2 DEF AgentsInv, ListedInv, Listed, AccountInv
  <1>7. AheadInv'
    BY <1>1, <1>2, <1>3, SameAhead DEF AgentsInv
  <1>8. RetiredInv'
    BY <1>1, <1>2, <1>3 DEF AgentsInv, RetiredInv, Silent
  <1>. QED BY <1>4, <1>5, <1>6, <1>7, <1>8 DEF AgentsInv

\* The end of the drain keeps what is known of the agents.
LEMMA DrainedAgents ==
  ASSUME BookInv, AgentsInv, NEW h \in Handoffs, Drained(h)
  PROVE  AgentsInv'
  <1>1. /\ UNCHANGED <<members, ended, account, seen, agentVars, calls, flight, begun, doomed,
                       destroyed>>
        /\ pc[h] = "drained"
    BY DEF Drained
  <1>2. CASE Current(h)
    <2>1. handoff' = [handoff EXCEPT !.phase = "summarizing"] /\ Goto(h, "summarize")
      BY <1>2 DEF Drained
    <2>2. /\ handoff'.phase = "summarizing" /\ handoff'.retiring = handoff.retiring
          /\ handoff'.target = handoff.target
      BY <2>1, HeldTypes DEF HandoffRecords
    <2>3. Converging'
      BY <2>2
    <2>. HIDE DEF Current, Goto, Converging
    <2>4. handoff.phase = "draining"
      BY <1>1, <1>2, RunnerAt
    <2>. QED BY <1>1, <1>2, <2>1, <2>2, <2>3, <2>4, HereAgents DEF PlainPcs
  <1>3. CASE ~Current(h)
    <2>1. UNCHANGED handoff /\ Goto(h, "done")
      BY <1>3 DEF Drained
    <2>. HIDE DEF Current, Goto
    <2>. QED BY <1>1, <1>3, <2>1, OverAgents DEF Labels
  <1>. QED BY <1>2, <1>3

\* Asking for the summary keeps what is known of the agents.
LEMMA SummarizeAgents ==
  ASSUME BookInv, AgentsInv, NEW h \in Handoffs, Summarize(h)
  PROVE  AgentsInv'
  <1>1. /\ UNCHANGED <<members, ended, account, calls, flight, runsOn, renamed, picked, inbox, turns,
                       begun, doomed, destroyed>>
        /\ pc[h] = "summarize" /\ Current(h)
    BY DEF Summarize
  <1>2. doomed = {} /\ h = begun
    <2>. HIDE DEF Current
    <2>. QED BY <1>1, Living, CurrentIsLast
  <1>3. CASE /\ handoff' = [handoff EXCEPT !.phase = "switching"] /\ Goto(h, "switch")
             /\ UNCHANGED <<seen, proc>>
    <2>1. /\ handoff'.phase = "switching" /\ handoff'.retiring = handoff.retiring
          /\ handoff'.target = handoff.target
      BY <1>3, HeldTypes DEF HandoffRecords
    <2>2. Converging' /\ UNCHANGED agentVars
      BY <1>1, <1>3, <2>1
    <2>. HIDE DEF Current, Goto, Converging
    <2>. QED BY <1>1, <1>3, <2>1, <2>2, HereAgents DEF PlainPcs
  <1>4. CASE Goto(h, "fold") /\ UNCHANGED <<handoff, seen, proc>>
    <2>1. Converging' /\ UNCHANGED agentVars
      BY <1>1, <1>4
    <2>. HIDE DEF Current, Goto, Converging
    <2>. QED BY <1>1, <1>4, <2>1, HereAgents DEF PlainPcs
  <1>5. CASE /\ proc[members] # "none" /\ proc' = [proc EXCEPT ![members] = "up"]
             /\ seen' = [seen EXCEPT ![members] = "up"] /\ Goto(h, "await") /\ UNCHANGED handoff
    <2>1. pc'[begun] = "await" /\ pc[begun] = "summarize"
      BY <1>1, <1>2, <1>5 DEF BookInv, AppTypes
    <2>2. QueueInv' /\ FleetInv'
      <3>1. \A a \in Agents : a # members => inbox'[a] = inbox[a]
        BY <1>1
      <3>. HIDE DEF Agents
      <3>. QED BY <1>1, <1>2, <1>5, <2>1, <3>1, WakeAgents DEF PlainPcs
    <2>3. FlightInv' /\ CallsInv'
      <3>1. (\A m \in Messages : flight[m] = 0) /\ calls.msgs = <<>>
        BY <1>1, <1>2, <2>1, NoFlight
      <3>. QED BY <1>1, <3>1 DEF FlightInv, CallsInv
    <2>4. DoomInv'
      BY <1>1, <1>2 DEF AgentsInv, DoomInv
    <2>. QED BY <2>2, <2>3, <2>4 DEF AgentsInv, FleetInv
  <1>. QED BY <1>3, <1>4, <1>5 DEF Summarize

\* Waiting for the summary keeps what is known of the agents.
LEMMA AwaitSummaryAgents ==
  ASSUME BookInv, AgentsInv, NEW h \in Handoffs, AwaitSummary(h)
  PROVE  AgentsInv'
  <1>1. Converging' /\ UNCHANGED handoff
    BY DEF AwaitSummary
  <1>. HIDE DEF Current, Goto, Converging
  <1>. QED BY <1>1, HereAgents DEF AwaitSummary, PlainPcs

\* Building the prompt keeps what is known of the agents.
LEMMA FoldPromptAgents ==
  ASSUME BookInv, AgentsInv, NEW h \in Handoffs, FoldPrompt(h)
  PROVE  AgentsInv'
  <1>1. /\ UNCHANGED <<members, ended, account, seen, agentVars, calls, flight, begun, doomed,
                       destroyed>>
        /\ pc[h] = "fold" /\ Current(h)
    BY DEF FoldPrompt
  <1>2. CASE handoff' = Folded /\ Goto(h, "switch")
    <2>1. /\ handoff'.phase = "switching" /\ handoff'.retiring = handoff.retiring
          /\ handoff'.target = handoff.target
      BY <1>2, HeldTypes DEF HandoffRecords, Folded
    <2>2. Converging'
      BY <2>1
    <2>. HIDE DEF Current, Goto, Converging
    <2>. QED BY <1>1, <1>2, <2>1, <2>2, HereAgents DEF PlainPcs
  <1>3. CASE UNCHANGED handoff /\ Goto(h, "done")
    <2>1. Converging'
      BY <1>1, <1>3
    <2>. HIDE DEF Current, Goto, Converging
    <2>. QED BY <1>1, <1>3, <2>1, HereAgents DEF PlainPcs
  <1>. QED BY <1>2, <1>3 DEF FoldPrompt

\* Stopping, archiving and closing the old agent.
LEMMA StopRetiringAgents ==
  ASSUME BookInv, AgentsInv, NEW h \in Handoffs, StopRetiring(h)
  PROVE  AgentsInv'
  <1>1. /\ UNCHANGED <<members, ended, account, calls, flight, begun, doomed, destroyed>>
        /\ pc[h] = "switch" /\ Current(h)
    BY DEF StopRetiring
  <1>2. doomed = {} /\ h = begun /\ members \in {handoff.retiring, Successor}
        /\ handoff.retiring \in 1 .. begun /\ begun \in Nat
    <2>1. begun \in Nat
      BY DEF BookInv, TextTypes
    <2>. HIDE DEF Current
    <2>2. doomed = {}
      BY <1>1, Living
    <2>. QED BY <1>1, <2>1, <2>2, CurrentIsLast, RunnerAt
  <1>3. CASE Goto(h, "prompt") /\ UNCHANGED <<handoff, seen, agentVars>>
    <2>1. Converging'
      BY <1>1, <1>3
    <2>. HIDE DEF Current, Goto, Converging
    <2>. QED BY <1>1, <1>3, <2>1, HereAgents DEF PlainPcs
  <1>4. ASSUME members # Successor, Goto(h, "archive"), UNCHANGED <<handoff, runsOn, renamed>>,
               Silent(members)',
               \A a \in Agents \ {members} : proc'[a] = proc[a] /\ inbox'[a] = inbox[a]
                                             /\ seen'[a] = seen[a],
               QueueInv', ListedInv'
        PROVE  AgentsInv'
    <2>1. pc'[begun] = "archive" /\ pc[begun] = "switch"
      BY <1>1, <1>2, <1>4 DEF BookInv, AppTypes
    <2>2. DoomInv'
      BY <1>1, <1>2 DEF AgentsInv, DoomInv
    <2>3. FlightInv' /\ CallsInv'
      <3>1. (\A m \in Messages : flight[m] = 0) /\ calls.msgs = <<>>
        BY <1>1, <1>2, <2>1, NoFlight
      <3>. QED BY <1>1, <3>1 DEF FlightInv, CallsInv
    <2>4. AccountInv'
      BY <1>1, <1>2, <1>4 DEF AgentsInv, AccountInv
    <2>5. AheadInv'
      <3>1. AheadInv
        BY <1>2 DEF AgentsInv
      <3>2. Successor \in Agents \ {members} /\ \A a \in Agents : a > members => a \in Agents \ {members}
        BY <1>2, <1>4 DEF BookInv, RecordTypes, TextTypes
      <3>. QED BY <1>1, <1>4, <2>1, <3>1, <3>2 DEF AheadInv
    <2>6. RetiredInv'
      <3>1. \A a \in Agents : a < members => a \in Agents \ {members}
        BY DEF BookInv, RecordTypes
      <3>. QED BY <1>1, <1>2, <1>4, <2>1, <3>1 DEF AgentsInv, RetiredInv, Silent
    <2>. QED BY <1>4, <2>2, <2>3, <2>4, <2>5, <2>6 DEF AgentsInv
  <1>5. CASE members # Successor /\ ~MustStop(members) /\ Goto(h, "archive")
             /\ UNCHANGED <<handoff, seen, agentVars>>
    <2>1. QueueInv' /\ ListedInv'
      BY <1>1, <1>2, <1>5 DEF AgentsInv, QueueInv, ListedInv, Listed
    <2>2. Silent(members)'
      BY <1>1, <1>2, <1>5 DEF AgentsInv, QueueInv, ListedInv, Listed, Silent, MustStop, BookInv, RecordTypes
    <2>. QED BY <1>4, <1>5, <2>1, <2>2
  <1>6. CASE /\ members # Successor /\ Goto(h, "archive")
             /\ proc' = [proc EXCEPT ![members] = "down"]
             /\ seen' = [seen EXCEPT ![members] = "down"]
             /\ inbox' = [inbox EXCEPT ![members] = <<>>]
             /\ UNCHANGED <<handoff, runsOn, renamed, picked, turns>>
    <2>1. /\ proc'[members] = "down" /\ seen'[members] = "down" /\ inbox'[members] = <<>>
          /\ \A a \in Agents \ {members} : proc'[a] = proc[a] /\ inbox'[a] = inbox[a]
                                           /\ seen'[a] = seen[a]
      <3>. HIDE DEF Agents
      <3>. QED BY <1>6 DEF BookInv, RecordTypes, AgentTypes, AppTypes
    <2>2. QueueInv' /\ ListedInv'
      BY <1>1, <1>2, <2>1 DEF AgentsInv, QueueInv, ListedInv, Listed
    <2>3. Silent(members)'
      BY <1>1, <2>1 DEF Silent
    <2>. QED BY <1>4, <1>6, <2>1, <2>2, <2>3
  <1>7. CASE FailStep(h) /\ UNCHANGED <<seen, agentVars>>
    BY <1>1, <1>7, FailAgents
  <1>. QED BY <1>3, <1>5, <1>6, <1>7 DEF StopRetiring

\* Where the runner is, in the middle of a switch, and that the old agent is silent.
LEMMA InSwitch ==
  ASSUME BookInv, AgentsInv, NEW h \in Handoffs, pc[h] \in BeforePcs, Current(h)
  PROVE  /\ doomed = {} /\ h = begun /\ members = handoff.retiring
         /\ handoff.phase = "switching" /\ Converging /\ Successor \in Agents
         /\ members < Successor /\ members \in Agents
         /\ (\A m \in Messages : flight[m] = 0) /\ calls.msgs = <<>>
  <1>1. begun \in Nat /\ Converging
    BY DEF BookInv, TextTypes
  <1>2. pc[h] \notin {"done", "drain"}
    BY DEF BeforePcs
  <1>3. /\ doomed = {} /\ h = begun /\ members = handoff.retiring
        /\ handoff.phase = "switching" /\ handoff.retiring \in 1 .. begun /\ Successor \in Agents
    <2>. HIDE DEF Current
    <2>. QED BY <1>2, Living, CurrentIsLast, RunnerAt
  <1>4. (\A m \in Messages : flight[m] = 0) /\ calls.msgs = <<>>
    BY <1>1, <1>2, <1>3, NoFlight
  <1>5. members \in Agents
    BY DEF BookInv, RecordTypes
  <1>. QED BY <1>1, <1>3, <1>4, <1>5

\* Archiving the old agent keeps what is known of the agents.
LEMMA ArchiveRetiringAgents ==
  ASSUME BookInv, AgentsInv, NoAgentRaces, NEW h \in Handoffs, ArchiveRetiring(h)
  PROVE  AgentsInv'
  <1>1. /\ UNCHANGED <<members, ended, account, seen, calls, flight, proc, runsOn, picked, inbox,
                       turns, begun, doomed, destroyed>>
        /\ pc[h] = "archive" /\ Current(h)
    BY DEF ArchiveRetiring
  <1>2. /\ doomed = {} /\ h = begun /\ members = handoff.retiring /\ members \in Agents
        /\ (\A m \in Messages : flight[m] = 0) /\ calls.msgs = <<>>
    <2>. HIDE DEF Current
    <2>. QED BY <1>1, InSwitch DEF BeforePcs
  <1>3. CASE /\ Goto(h, "close") /\ UNCHANGED handoff
             /\ \/ seen[members] = "untracked" /\ UNCHANGED renamed
                \/ members \in renamed /\ UNCHANGED renamed
                \/ renamed' = renamed \cup {members}
    <2>1. pc[begun] = "archive" /\ pc'[begun] = "close"
      BY <1>1, <1>2, <1>3 DEF BookInv, AppTypes
    <2>2. members \in renamed' /\ renamed \subseteq renamed'
      <3>1. \A a \in Agents : a <= members => seen[a] # "untracked"
        BY <1>2 DEF AgentsInv, ListedInv
      <3>2. seen[members] # "untracked"
        <4>1. members \in Agents /\ members <= members
          BY <1>2
        <4>. HIDE DEF Agents
        <4>. QED BY <3>1, <4>1
      <3>. QED BY <1>3, <3>2
    <2>3. QueueInv' /\ DoomInv'
      BY <1>1, <1>2 DEF AgentsInv, QueueInv, DoomInv
    <2>4. FlightInv' /\ CallsInv'
      BY <1>1, <1>2 DEF FlightInv, CallsInv
    <2>5. ListedInv' /\ AccountInv'
      BY <1>1, <1>2 DEF AgentsInv, ListedInv, Listed, AccountInv
    <2>6. AheadInv'
      BY <1>1, <1>2, <1>3, <2>1, SameAhead DEF AgentsInv
    <2>7. RetiredInv'
      BY <1>1, <1>2, <1>3, <2>1, <2>2 DEF AgentsInv, RetiredInv, Silent
    <2>. QED BY <2>3, <2>4, <2>5, <2>6, <2>7 DEF AgentsInv
  <1>4. CASE FailStep(h) /\ UNCHANGED renamed
    <2>1. UNCHANGED agentVars
      BY <1>1, <1>4
    <2>. QED BY <1>1, <1>4, <2>1, FailAgents DEF BeforePcs
  <1>. QED BY <1>2, <1>3, <1>4 DEF ArchiveRetiring

\* Closing the old agent's entry keeps what is known of the agents.
LEMMA RecordFinalCountAgents ==
  ASSUME BookInv, AgentsInv, NEW h \in Handoffs, RecordFinalCount(h)
  PROVE  AgentsInv'
  <1>1. /\ UNCHANGED <<members, account, handoff, seen, calls, flight, proc, runsOn, renamed, inbox,
                       begun, doomed, destroyed>>
        /\ pc[h] = "close" /\ Current(h) /\ pc' = [pc EXCEPT ![h] = "create"]
        /\ ended' = ended \cup {handoff.retiring}
    BY DEF RecordFinalCount
  <1>2. /\ doomed = {} /\ h = begun /\ members = handoff.retiring
        /\ (\A m \in Messages : flight[m] = 0) /\ calls.msgs = <<>>
    <2>. HIDE DEF Current
    <2>. QED BY <1>1, InSwitch DEF BeforePcs
  <1>3. pc[begun] = "close" /\ pc'[begun] = "create"
    BY <1>1, <1>2 DEF BookInv, AppTypes
  <1>4. QueueInv' /\ DoomInv'
    BY <1>1, <1>2 DEF AgentsInv, QueueInv, DoomInv
  <1>5. FlightInv' /\ CallsInv'
    BY <1>1, <1>2 DEF FlightInv, CallsInv
  <1>6. ListedInv' /\ AccountInv'
    BY <1>1, <1>2 DEF AgentsInv, ListedInv, Listed, AccountInv
  <1>7. AheadInv'
    BY <1>1, <1>2, <1>3, SameAhead DEF AgentsInv
  <1>8. RetiredInv'
    BY <1>1, <1>2, <1>3 DEF AgentsInv, RetiredInv, Silent
  <1>. QED BY <1>4, <1>5, <1>6, <1>7, <1>8 DEF AgentsInv

\* Creating the successor, or finding it created.
LEMMA CreateSuccessorAgents ==
  ASSUME BookInv, AgentsInv, NEW h \in Handoffs, CreateSuccessor(h)
  PROVE  AgentsInv'
  <1>1. /\ UNCHANGED <<members, ended, account, seen, calls, flight, begun, doomed, destroyed>>
        /\ pc[h] = "create" /\ Current(h)
    BY DEF CreateSuccessor
  <1>2. /\ doomed = {} /\ h = begun /\ members = handoff.retiring /\ Converging
        /\ handoff.phase = "switching" /\ Successor \in Agents /\ members < Successor
        /\ members \in Agents
        /\ (\A m \in Messages : flight[m] = 0) /\ calls.msgs = <<>>
    <2>. HIDE DEF Current
    <2>. QED BY <1>1, InSwitch DEF BeforePcs
  <1>3. ASSUME NEW l \in {"create", "pick", "creating"}, pc'[begun] = l, UNCHANGED <<handoff, renamed>>,
               \A a \in Agents \ {Successor} : proc'[a] = proc[a] /\ inbox'[a] = inbox[a]
                                               /\ runsOn'[a] = runsOn[a],
               QueueInv', ListedInv',
               l = "creating" => proc'[Successor] = "half" /\ runsOn'[Successor] = handoff.target,
               l = "pick" => seen[Successor] # "untracked",
               seen[Successor] # "untracked" => runsOn'[Successor] = handoff.target
        PROVE  AgentsInv'
    <2>1. pc[begun] = "create"
      BY <1>1, <1>2
    <2>2. DoomInv' /\ FlightInv' /\ CallsInv'
      BY <1>1, <1>2 DEF AgentsInv, DoomInv, FlightInv, CallsInv
    <2>3. \A a \in Agents : a <= members => a \in Agents \ {Successor}
      BY <1>2
    <2>4. AccountInv'
      BY <1>1, <1>2, <1>3, <2>3 DEF AgentsInv, AccountInv
    <2>5. AheadInv'
      <3>1. AheadInv /\ Successor' = Successor
        BY <1>2, <1>3 DEF AgentsInv
      <3>. QED BY <1>1, <1>2, <1>3, <3>1 DEF AheadInv
    <2>6. RetiredInv'
      <3>1. members \in Agents \ {Successor} /\ \A a \in Agents : a < members => a \in Agents \ {Successor}
        BY <1>2, <2>3
      <3>. QED BY <1>1, <1>2, <1>3, <2>1, <3>1 DEF AgentsInv, RetiredInv, Silent
    <2>. QED BY <1>3, <2>2, <2>4, <2>5, <2>6 DEF AgentsInv
  <1>4. seen[Successor] # "untracked" => runsOn[Successor] = handoff.target
    BY <1>1, <1>2 DEF AgentsInv, AheadInv
  <1>5. CASE /\ seen[Successor] # "untracked" /\ Goto(h, "pick") /\ UNCHANGED <<handoff, agentVars>>
    <2>1. QueueInv' /\ ListedInv'
      BY <1>1, <1>2, <1>5 DEF AgentsInv, QueueInv, ListedInv, Listed
    <2>2. pc'[begun] = "pick"
      BY <1>2, <1>5 DEF BookInv, AppTypes
    <2>. QED BY <1>3, <1>4, <1>5, <2>1, <2>2
  <1>6. CASE seen[Successor] = "untracked" /\ proc[Successor] = "none" /\ MngrCreate(h)
             /\ UNCHANGED handoff
    <2>1. /\ pc'[begun] = "creating" /\ proc'[Successor] = "half"
          /\ runsOn'[Successor] = handoff.target /\ UNCHANGED <<inbox, renamed>>
          /\ \A a \in Agents \ {Successor} : proc'[a] = proc[a] /\ runsOn'[a] = runsOn[a]
      <3>. HIDE DEF Agents
      <3>. QED BY <1>2, <1>6 DEF MngrCreate, BookInv, AppTypes, AgentTypes
    <2>2. inbox[Successor] = <<>>
      BY <1>2, <1>6 DEF AgentsInv, QueueInv
    <2>3. QueueInv'
      BY <1>2, <2>1, <2>2 DEF AgentsInv, QueueInv
    <2>4. ListedInv'
      BY <1>1, <1>2, <1>6, <2>1 DEF AgentsInv, ListedInv, Listed
    <2>. QED BY <1>3, <1>6, <2>1, <2>3, <2>4
  <1>7. CASE seen[Successor] = "untracked" /\ Destroyed({Successor}) /\ UNCHANGED <<handoff, pc>>
    <2>1. /\ pc'[begun] = "create" /\ UNCHANGED <<runsOn, renamed>>
          /\ proc'[Successor] = "none" /\ inbox'[Successor] = <<>>
          /\ \A a \in Agents \ {Successor} : proc'[a] = proc[a] /\ inbox'[a] = inbox[a]
      BY <1>1, <1>2, <1>7 DEF Destroyed
    <2>2. QueueInv'
      BY <1>2, <2>1 DEF AgentsInv, QueueInv
    <2>3. ListedInv'
      BY <1>1, <1>2, <1>7, <2>1 DEF AgentsInv, ListedInv, Listed
    <2>. QED BY <1>3, <1>4, <1>7, <2>1, <2>2, <2>3
  <1>8. CASE FailStep(h) /\ UNCHANGED agentVars
    BY <1>1, <1>8, FailAgents DEF BeforePcs
  <1>. QED BY <1>5, <1>6, <1>7, <1>8 DEF CreateSuccessor

\* The return of the create keeps what is known of the agents.
LEMMA CreateReturnsAgents ==
  ASSUME BookInv, AgentsInv, NEW h \in Handoffs, CreateReturns(h)
  PROVE  AgentsInv'
  <1>1. /\ UNCHANGED <<members, ended, account, calls, flight, runsOn, renamed, picked, inbox, turns,
                       begun, doomed, destroyed>>
        /\ pc[h] = "creating"
    BY DEF CreateReturns
  <1>2. PICK a \in Agents :
          /\ a > members /\ (proc[a] = "half" \/ a \in doomed)
          /\ \/ /\ proc[a] = "half"
                /\ proc' = [proc EXCEPT ![a] = "up"]
                /\ seen' = [seen EXCEPT ![a] = "up"]
                /\ Goto(h, "pick")
                /\ UNCHANGED handoff
             \/ FailStep(h) /\ UNCHANGED <<proc, seen>>
             \/ /\ proc' = [proc EXCEPT ![a] = "none"]
                /\ seen' = [seen EXCEPT ![a] = "untracked"]
                /\ FailStep(h)
    BY DEF CreateReturns
  <1>3. CASE FailStep(h) /\ UNCHANGED <<proc, seen>>
    BY <1>1, <1>3, FailAgents DEF BeforePcs
  <1>4. CASE doomed # {}
    <2>1. /\ \A b \in Agents : proc[b] = "none"
          /\ handoff.phase \in {"none", "failed"}
      BY <1>4 DEF AgentsInv, DoomInv
    <2>2. \A b \in Agents : proc'[b] = "none"
      BY <1>2, <2>1 DEF BookInv, AgentTypes
    <2>3. handoff'.phase \in {"none", "failed"}
      BY <1>2, <2>1, HeldTypes DEF FailStep, HandoffRecords
    <2>. QED BY <1>1, <1>4, <2>1, <2>2, <2>3 DEF AgentsInv, QueueInv, DoomInv
  <1>5. CASE doomed = {}
    <2>1. Current(h)
      <3>1. ~destroyed
        BY <1>5 DEF AgentsInv, DoomInv
      <3>. QED BY <1>1, <3>1, LateIsLast DEF EarlyPcs
    <2>2. /\ h = begun /\ members = handoff.retiring /\ Converging /\ handoff.phase = "switching"
          /\ Successor \in Agents /\ members < Successor /\ members \in Agents
          /\ (\A m \in Messages : flight[m] = 0) /\ calls.msgs = <<>>
      <3>. HIDE DEF Current
      <3>. QED BY <1>1, <2>1, InSwitch DEF BeforePcs
    <2>3. a = Successor /\ proc[a] = "half"
      BY <1>2, <1>5 DEF AgentsInv, AheadInv
    <2>4. runsOn[Successor] = handoff.target /\ inbox[Successor] = <<>>
      BY <1>1, <1>5, <2>2, <2>3 DEF AgentsInv, AheadInv, QueueInv
    <2>5. ASSUME NEW up \in {"up", "none"}, proc' = [proc EXCEPT ![a] = up],
                 seen' = [seen EXCEPT ![a] = IF up = "up" THEN "up" ELSE "untracked"],
                 \/ up = "up" /\ Goto(h, "pick") /\ UNCHANGED handoff
                 \/ up = "none" /\ FailStep(h)
          PROVE  AgentsInv'
      <3>1. /\ proc'[Successor] = up
            /\ seen'[Successor] = IF up = "up" THEN "up" ELSE "untracked"
            /\ \A b \in Agents \ {Successor} : proc'[b] = proc[b] /\ seen'[b] = seen[b]
        <4>. HIDE DEF Agents
        <4>. QED BY <2>2, <2>3, <2>5 DEF BookInv, AgentTypes, AppTypes
      <3>2. /\ handoff'.retiring = handoff.retiring /\ handoff'.target = handoff.target
            /\ handoff'.phase \in {"switching", "failed"} /\ Converging'
            /\ pc'[begun] = IF up = "up" THEN "pick" ELSE "done"
        <4>1. CASE up = "up"
          BY <2>2, <2>5, <4>1 DEF BookInv, AppTypes
        <4>2. CASE up = "none"
          <5>1. handoff' = [handoff EXCEPT !.phase = "failed"] /\ pc' = [pc EXCEPT ![h] = "done"]
            BY <2>1, <2>5, <4>2 DEF FailStep
          <5>2. /\ handoff'.retiring = handoff.retiring /\ handoff'.target = handoff.target
                /\ handoff'.phase = "failed"
            BY <5>1, HeldTypes DEF HandoffRecords
          <5>. QED BY <2>2, <4>2, <5>1, <5>2 DEF BookInv, AppTypes
        <4>. QED BY <4>1, <4>2
      <3>3. QueueInv' /\ DoomInv'
        BY <1>1, <1>5, <2>4, <3>1 DEF AgentsInv, QueueInv, DoomInv
      <3>4. FlightInv' /\ CallsInv'
        BY <1>1, <2>2 DEF FlightInv, CallsInv
      <3>5. ListedInv'
        <4>1. ListedInv
          BY <1>5 DEF AgentsInv
        <4>2. \A b \in Agents : b = Successor => seen'[b] = Listed(b)'
          BY <3>1 DEF Listed
        <4>3. \A b \in Agents \ {Successor} : seen'[b] = seen[b] /\ Listed(b)' = Listed(b)
          BY <3>1 DEF Listed
        <4>4. \A b \in Agents : b <= members => b \in Agents \ {Successor}
          <5>1. members \in Agents /\ members < Successor
            BY <2>2
          <5>. QED BY <5>1
        <4>5. \A b \in Agents : b <= members => seen'[b] # "untracked"
          BY <3>1, <4>1, <4>4 DEF ListedInv
        <4>6. ASSUME NEW b \in Agents
              PROVE  seen'[b] = Listed(b)' \/ (proc'[b] = "half" /\ seen'[b] = "untracked")
          <5>1. CASE b = Successor
            BY <4>2, <5>1
          <5>2. CASE b # Successor
            <6>1. seen[b] = Listed(b) \/ (proc[b] = "half" /\ seen[b] = "untracked")
              BY <4>1 DEF ListedInv
            <6>2. seen'[b] = seen[b] /\ Listed(b)' = Listed(b) /\ proc'[b] = proc[b]
              BY <3>1, <4>3, <5>2
            <6>. QED BY <6>1, <6>2
          <5>. QED BY <5>1, <5>2
        <4>. QED BY <1>1, <4>5, <4>6 DEF ListedInv
      <3>6. AccountInv'
        BY <1>1, <1>5 DEF AgentsInv, AccountInv
      <3>7. AheadInv'
        <4>1. AheadInv /\ Successor' = Successor
          BY <1>5, <3>2 DEF AgentsInv
        <4>. QED BY <1>1, <2>2, <2>4, <3>1, <3>2, <4>1 DEF AheadInv
      <3>8. RetiredInv'
        <4>1. \A b \in Agents : b <= members => b \in Agents \ {Successor}
          BY <2>2
        <4>2. pc[begun] = "creating" /\ RetiredInv
          BY <1>1, <1>5, <2>2 DEF AgentsInv
        <4>. QED BY <1>1, <2>2, <3>1, <3>2, <4>1, <4>2 DEF RetiredInv, Silent
      <3>. QED BY <3>3, <3>4, <3>5, <3>6, <3>7, <3>8 DEF AgentsInv
    <2>. QED BY <1>2, <1>3, <2>5
  <1>. QED BY <1>4, <1>5

\* The model pick keeps what is known of the agents.
LEMMA ApplyModelPickAgents ==
  ASSUME BookInv, AgentsInv, NEW h \in Handoffs, ApplyModelPick(h)
  PROVE  AgentsInv'
  <1>1. /\ UNCHANGED <<members, ended, account, seen, calls, flight, proc, runsOn, renamed, inbox,
                       turns, begun, doomed, destroyed>>
        /\ pc[h] = "pick" /\ Current(h)
    BY DEF ApplyModelPick
  <1>2. /\ doomed = {} /\ h = begun /\ members = handoff.retiring
        /\ (\A m \in Messages : flight[m] = 0) /\ calls.msgs = <<>>
    <2>. HIDE DEF Current
    <2>. QED BY <1>1, InSwitch DEF BeforePcs
  <1>3. CASE Goto(h, "adopt") /\ UNCHANGED handoff
    <2>1. pc[begun] = "pick" /\ pc'[begun] = "adopt"
      BY <1>1, <1>2, <1>3 DEF BookInv, AppTypes
    <2>2. QueueInv' /\ DoomInv'
      BY <1>1, <1>2 DEF AgentsInv, QueueInv, DoomInv
    <2>3. FlightInv' /\ CallsInv'
      BY <1>1, <1>2 DEF FlightInv, CallsInv
    <2>4. ListedInv' /\ AccountInv'
      BY <1>1, <1>2 DEF AgentsInv, ListedInv, Listed, AccountInv
    <2>5. AheadInv'
      <3>1. AheadInv /\ Converging /\ seen[Successor] # "untracked"
        BY <1>1, <1>2, <2>1 DEF AgentsInv, AheadInv
      <3>. QED BY <1>1, <1>2, <1>3, <2>1, <3>1, SameAhead
    <2>6. RetiredInv'
      BY <1>1, <1>2, <1>3, <2>1 DEF AgentsInv, RetiredInv, Silent
    <2>. QED BY <2>2, <2>3, <2>4, <2>5, <2>6 DEF AgentsInv
  <1>4. CASE FailStep(h) /\ UNCHANGED picked
    <2>1. UNCHANGED agentVars
      BY <1>1, <1>4
    <2>. QED BY <1>1, <1>4, <2>1, FailAgents DEF BeforePcs
  <1>. QED BY <1>3, <1>4 DEF ApplyModelPick

\* Adopting the successor keeps what is known of the agents.
LEMMA AdoptSuccessorAgents ==
  ASSUME BookInv, AgentsInv, NEW h \in Handoffs, AdoptSuccessor(h)
  PROVE  AgentsInv'
  <1>1. /\ UNCHANGED <<ended, handoff, seen, calls, flight, proc, runsOn, renamed, inbox, begun,
                       doomed, destroyed>>
        /\ pc[h] = "adopt" /\ Current(h) /\ members' = Successor
        /\ account' = [account EXCEPT ![Successor] = handoff.target]
    BY DEF AdoptSuccessor
  <1>2. /\ doomed = {} /\ h = begun /\ members = handoff.retiring /\ Converging
        /\ Successor \in Agents /\ members \in Agents
        /\ (\A m \in Messages : flight[m] = 0) /\ calls.msgs = <<>>
    <2>. HIDE DEF Current
    <2>. QED BY <1>1, InSwitch DEF BeforePcs
  <1>3. seen[Successor] # "untracked" /\ runsOn[Successor] = handoff.target
    BY <1>1, <1>2 DEF AgentsInv, AheadInv
  <1>4. \A a \in Agents : a <= Successor => a <= members \/ a = Successor
    BY <1>2
  <1>5. QueueInv' /\ DoomInv'
    BY <1>1, <1>2 DEF AgentsInv, QueueInv, DoomInv
  <1>6. FlightInv' /\ CallsInv'
    BY <1>1, <1>2 DEF FlightInv, CallsInv
  <1>7. ListedInv'
    BY <1>1, <1>2, <1>3, <1>4 DEF AgentsInv, ListedInv, Listed
  <1>8. AccountInv'
    <2>1. ASSUME NEW a \in 1 .. Successor PROVE runsOn[a] = account'[a]
      <3>1. a \in Agents /\ account \in [Agents -> Accounts \cup {Nothing}]
        BY <1>2 DEF BookInv, RecordTypes
      <3>2. CASE a = Successor
        BY <1>1, <1>3, <3>1, <3>2
      <3>3. CASE a # Successor
        <4>1. a \in 1 .. members
          BY <1>2, <1>4, <3>1, <3>3
        <4>. QED BY <1>1, <1>2, <3>1, <3>3, <4>1 DEF AgentsInv, AccountInv
      <3>. QED BY <3>2, <3>3
    <2>. QED BY <1>1, <2>1 DEF AccountInv
  <1>9. AheadInv'
    <2>1. \A a \in Agents : a > Successor => a > members
      BY <1>2
    <2>2. ~(members' = handoff'.retiring) /\ \A a \in Agents : a > Successor => a # Successor
      BY <1>1, <1>2
    <2>. QED BY <1>1, <1>2, <2>1, <2>2 DEF AgentsInv, AheadInv
  <1>10. RetiredInv'
    <2>1. \A a \in Agents : a < Successor => a < members \/ a = members
      BY <1>2
    <2>2. ~(members' = handoff'.retiring)
      BY <1>1, <1>2
    <2>3. pc[begun] = "adopt"
      BY <1>1, <1>2
    <2>. QED BY <1>1, <1>2, <2>1, <2>2, <2>3 DEF AgentsInv, RetiredInv, Silent
  <1>. QED BY <1>5, <1>6, <1>7, <1>8, <1>9, <1>10 DEF AgentsInv

\* The prompt and the held sends go to the successor.
LEMMA DeliverPromptAgents ==
  ASSUME BookInv, AgentsInv, NEW h \in Handoffs, DeliverPrompt(h)
  PROVE  AgentsInv'
  <1>1. /\ UNCHANGED <<members, ended, account, handoff, calls, flight, begun, doomed, destroyed>>
        /\ pc[h] = "prompt" /\ Current(h)
    BY DEF DeliverPrompt
  <1>2. doomed = {} /\ h = begun /\ members = Successor /\ handoff.retiring \in 1 .. begun
        /\ begun \in Nat
    <2>1. begun \in Nat
      BY DEF BookInv, TextTypes
    <2>. HIDE DEF Current
    <2>2. doomed = {} /\ h = begun /\ handoff.retiring \in 1 .. begun
      BY <1>1, Living, CurrentIsLast
    <2>3. members = Successor
      BY <1>1, RunnerAt DEF AfterPcs
    <2>. QED BY <2>1, <2>2, <2>3
  <1>3. CASE (Goto(h, "take") \/ Goto(h, "done")) /\ UNCHANGED <<seen, agentVars>>
    <2>1. Converging'
      BY <1>1
    <2>. HIDE DEF Current, Goto, Converging
    <2>. QED BY <1>1, <1>3, <2>1, HereAgents DEF PlainPcs
  <1>4. CASE DeliverHeld(members, Prompt(handoff.trigger))
    <2>1. ~Staying
      BY <1>2 DEF Staying
    <2>2. QueueInv' /\ DoomInv' /\ FleetInv'
      BY <1>1, <1>2, <1>4, <2>1, DeliverAgents
    <2>3. FlightInv' /\ CallsInv'
      <3>1. (\A m \in Messages : flight[m] = 0) /\ calls.msgs = <<>>
        BY <1>1, <1>2, NoFlight
      <3>. QED BY <1>1, <3>1 DEF FlightInv, CallsInv
    <2>. QED BY <2>2, <2>3 DEF AgentsInv, FleetInv
  <1>. QED BY <1>3, <1>4 DEF DeliverPrompt

\* Noting the prompt keeps what is known of the agents.
LEMMA NotePromptAgents ==
  ASSUME BookInv, AgentsInv, NEW h \in Handoffs, NotePrompt(h)
  PROVE  AgentsInv'
  <1>1. /\ UNCHANGED <<members, ended, account, seen, agentVars, calls, flight, begun, doomed,
                       destroyed>>
        /\ pc[h] = "told"
    BY DEF NotePrompt
  <1>2. CASE Current(h)
    <2>1. handoff' = [handoff EXCEPT !.told = TRUE] /\ Goto(h, "take")
      BY <1>2 DEF NotePrompt
    <2>2. /\ handoff'.phase = handoff.phase /\ handoff'.retiring = handoff.retiring
          /\ handoff'.target = handoff.target
      BY <2>1, HeldTypes DEF HandoffRecords
    <2>3. Converging'
      BY <1>2, <2>2
    <2>. HIDE DEF Current, Goto, Converging
    <2>. QED BY <1>1, <1>2, <2>1, <2>2, <2>3, HereAgents DEF PlainPcs
  <1>3. CASE ~Current(h)
    <2>1. UNCHANGED handoff /\ Goto(h, "done")
      BY <1>3 DEF NotePrompt
    <2>. HIDE DEF Current, Goto
    <2>. QED BY <1>1, <1>3, <2>1, OverAgents DEF Labels
  <1>. QED BY <1>2, <1>3

\* Taking the next held send keeps what is known of the agents.
LEMMA TakeNextHeldSendAgents ==
  ASSUME BookInv, AgentsInv, NEW h \in Handoffs, TakeNextHeldSend(h)
  PROVE  AgentsInv'
  <1>1. /\ UNCHANGED <<members, ended, account, seen, agentVars, calls, flight, begun, doomed,
                       destroyed>>
        /\ pc[h] = "take" /\ Current(h)
    BY DEF TakeNextHeldSend
  <1>2. doomed = {} /\ h = begun /\ members = Successor
    <2>. HIDE DEF Current
    <2>1. doomed = {} /\ h = begun
      BY <1>1, Living, CurrentIsLast
    <2>2. members = Successor
      BY <1>1, RunnerAt DEF AfterPcs
    <2>. QED BY <2>1, <2>2
  <1>3. CASE Goto(h, "done") /\ UNCHANGED handoff
    <2>1. Converging'
      BY <1>1, <1>3
    <2>. HIDE DEF Current, Goto, Converging
    <2>. QED BY <1>1, <1>3, <2>1, HereAgents DEF PlainPcs
  <1>4. CASE handoff' = NoHandoff
    <2>1. handoff'.phase = "none" /\ ~Converging'
      BY <1>4 DEF NoHandoff
    <2>2. QueueInv' /\ DoomInv'
      BY <1>1, <1>2 DEF AgentsInv, QueueInv, DoomInv
    <2>3. FlightInv' /\ CallsInv'
      <3>1. (\A m \in Messages : flight[m] = 0) /\ calls.msgs = <<>>
        BY <1>1, <1>2, NoFlight
      <3>. QED BY <1>1, <3>1 DEF FlightInv, CallsInv
    <2>4. ListedInv' /\ AccountInv'
      BY <1>1, <1>2 DEF AgentsInv, ListedInv, Listed, AccountInv
    <2>5. AheadInv' /\ RetiredInv'
      <3>1. \A a \in Agents : a > members => a # Successor
        BY <1>2
      <3>. QED BY <1>1, <1>2, <2>1, <3>1 DEF AgentsInv, AheadInv, RetiredInv, Silent
    <2>. QED BY <2>2, <2>3, <2>4, <2>5 DEF AgentsInv
  <1>5. CASE handoff' = [handoff EXCEPT !.held = Tail(@)] /\ Goto(h, "send")
    <2>1. /\ handoff'.phase = handoff.phase /\ handoff'.retiring = handoff.retiring
          /\ handoff'.target = handoff.target
      BY <1>5, HeldTypes DEF HandoffRecords
    <2>2. Converging'
      BY <1>1, <2>1
    <2>. HIDE DEF Current, Goto, Converging
    <2>. QED BY <1>1, <1>5, <2>1, <2>2, HereAgents DEF PlainPcs
  <1>. QED BY <1>3, <1>4, <1>5 DEF TakeNextHeldSend

\* Delivering a held send keeps what is known of the agents.
LEMMA DeliverHeldSendAgents ==
  ASSUME BookInv, AgentsInv, NEW h \in Handoffs, DeliverHeldSend(h)
  PROVE  AgentsInv'
  <1>1. /\ UNCHANGED <<members, ended, account, handoff, calls, flight, begun, doomed, destroyed>>
        /\ pc[h] = "send" /\ DeliverHeld(members, Plain(hand[h]))
    BY DEF DeliverHeldSend
  <1>2. h = begun /\ (~destroyed => Current(h))
    BY <1>1, LateIsLast DEF EarlyPcs
  <1>3. doomed = {} => Converging /\ members = Successor
    <2>1. doomed = {} => Current(h)
      BY <1>2 DEF AgentsInv, DoomInv
    <2>2. Current(h) => members = Successor
      <3>. HIDE DEF Current
      <3>. QED BY <1>1, RunnerAt DEF AfterPcs
    <2>. QED BY <2>1, <2>2
  <1>4. ~Staying \/ doomed # {}
    <2>1. handoff.retiring \in Nat
      BY HeldTypes DEF HandoffRecords
    <2>. QED BY <1>3, <2>1 DEF Staying
  <1>5. CASE doomed = {}
    <2>1. ~Staying
      BY <1>4, <1>5
    <2>2. QueueInv' /\ DoomInv' /\ FleetInv'
      BY <1>1, <1>5, <2>1, DeliverAgents
    <2>3. FlightInv' /\ CallsInv'
      <3>1. (\A m \in Messages : flight[m] = 0) /\ calls.msgs = <<>>
        BY <1>1, <1>2, <1>3, <1>5, NoFlight
      <3>. QED BY <1>1, <3>1 DEF FlightInv, CallsInv
    <2>. QED BY <2>2, <2>3 DEF AgentsInv, FleetInv
  <1>6. CASE doomed # {}
    <2>1. proc[members] = "none"
      BY <1>6 DEF AgentsInv, DoomInv, BookInv, RecordTypes
    <2>2. UNCHANGED <<seen, agentVars>>
      BY <1>1, <2>1 DEF DeliverHeld, Reaches
    <2>. QED BY <1>1, <1>6, <2>2 DEF AgentsInv, QueueInv, DoomInv
  <1>. QED BY <1>5, <1>6

\* The chat app starts again: it lists what there is, and the runner goes on where the
\* record says.
LEMMA RestartAgents ==
  ASSUME BookInv, AgentsInv, NoAgentRaces, Restart
  PROVE  AgentsInv'
  <1>1. /\ UNCHANGED <<members, ended, account, handoff, runsOn, renamed, inbox, begun, doomed,
                       destroyed>>
        /\ ~destroyed /\ doomed = {} /\ flight' = [m \in Messages |-> 0]
        /\ calls' = [to |-> 0, msgs |-> <<>>]
        /\ \A a \in Agents : ~Stale(a)
        /\ seen' = [a \in Agents |-> Listed(a)']
        /\ proc' = proc \/ (/\ \E h \in Handoffs : pc[h] = "creating"
                            /\ proc[Successor] = "half"
                            /\ proc' = [proc EXCEPT ![Successor] = "up"])
    BY DEF Restart, NoAgentRaces
  <1>2. Converging => pc'[begun] \in {"drain", "summarize", "switch", "done"}
    <2>1. begun \in Nat /\ (begun > 0 => begun \in Handoffs)
      BY DEF BookInv, TextTypes
    <2>2. Converging => begun \in Handoffs /\ handoff.id = begun
      BY <2>1 DEF BookInv, RunInv, RecordInv
    <2>3. \A h \in Handoffs :
              pc'[h] = IF handoff.id = h /\ Converging /\ handoff.phase # "failed" THEN ResumeLabel
                       ELSE IF h <= begun THEN "done" ELSE pc[h]
      BY DEF Restart
    <2>. QED BY <2>1, <2>2, <2>3 DEF ResumeLabel
  <1>3. \A a \in Agents : proc'[a] = proc[a] \/ (/\ a = Successor /\ proc[a] = "half"
                                                 /\ proc'[a] = "up" /\ Converging
                                                 /\ handoff.phase = "switching"
                                                 /\ members = handoff.retiring)
    <2>1. CASE proc' = proc
      BY <2>1
    <2>2. CASE /\ \E h \in Handoffs : pc[h] = "creating"
               /\ proc[Successor] = "half"
               /\ proc' = [proc EXCEPT ![Successor] = "up"]
      <3>1. PICK h \in Handoffs : pc[h] = "creating"
        BY <2>2
      <3>2. Current(h)
        BY <1>1, <3>1, LateIsLast DEF EarlyPcs
      <3>3. handoff.phase = "switching" /\ members = handoff.retiring
        <4>. HIDE DEF Current
        <4>. QED BY <3>1, <3>2, RunnerAt DEF BeforePcs
      <3>. QED BY <2>2, <3>2, <3>3 DEF BookInv, AgentTypes
    <2>. QED BY <1>1, <2>1, <2>2
  <1>4. members \in Nat /\ \A a \in Agents : a <= members =>
           ~(a = Successor /\ members = handoff.retiring)
    BY DEF BookInv, RecordTypes
  <1>5. QueueInv' /\ DoomInv'
    BY <1>1, <1>3 DEF AgentsInv, QueueInv, DoomInv
  <1>6. FlightInv' /\ CallsInv'
    BY <1>1 DEF FlightInv, CallsInv
  <1>7. ListedInv'
    <2>1. \A a \in Agents : seen'[a] = Listed(a)'
      BY <1>1
    <2>2. ASSUME NEW a \in Agents, a <= members PROVE Listed(a)' # "untracked"
      <3>1. proc'[a] = proc[a]
        BY <1>3, <1>4, <2>2
      <3>2. proc[a] # "none" /\ seen[a] # "untracked"
        BY <1>1, <2>2 DEF AgentsInv, ListedInv, Listed
      <3>3. proc[a] \in {"none", "half", "up", "down"}
        BY DEF BookInv, AgentTypes
      <3>. QED BY <3>1, <3>2, <3>3 DEF Listed
    <2>. QED BY <1>1, <2>1, <2>2 DEF ListedInv
  <1>8. AccountInv'
    BY <1>1 DEF AgentsInv, AccountInv
  <1>9. AheadInv'
    <2>1. AheadInv /\ Successor' = Successor
      BY <1>1 DEF AgentsInv
    <2>2. \A a \in Agents : a > members /\ proc'[a] # "none" => proc[a] # "none"
      BY <1>3
    <2>3. Converging /\ members = handoff.retiring => Successor \in Agents
      BY DEF BookInv, RunInv, RecordInv, TextTypes
    <2>4. Converging /\ Successor \in Agents /\ seen'[Successor] # "untracked" =>
             runsOn[Successor] = handoff.target
      <3>1. Successor \in Agents /\ seen'[Successor] # "untracked" => proc[Successor] # "none"
        BY <1>1, <1>3 DEF Listed
      <3>. QED BY <1>1, <3>1 DEF Stale
    <2>. QED BY <1>1, <1>2, <2>1, <2>2, <2>3, <2>4 DEF AheadInv
  <1>10. RetiredInv'
    <2>1. \A a \in Agents : a <= members => proc'[a] = proc[a]
      BY <1>3, <1>4
    <2>2. \A a \in Agents : a < members => a <= members
      BY <1>4
    <2>3. RetiredInv
      BY <1>1 DEF AgentsInv
    <2>. QED BY <1>1, <1>2, <2>1, <2>2, <2>3 DEF RetiredInv, Silent
  <1>. QED BY <1>5, <1>6, <1>7, <1>8, <1>9, <1>10 DEF AgentsInv

\* The observe stream lists an agent; an agent takes its turn.
LEMMA ObserveAgents ==
  ASSUME BookInv, AgentsInv, NoAgentRaces, NEW a \in Agents, Observe(a)
  PROVE  AgentsInv'
  <1>1. /\ UNCHANGED <<members, ended, account, handoff, pc, calls, flight, proc, runsOn, renamed,
                       inbox, begun, doomed, destroyed>>
        /\ seen[a] = "untracked" /\ proc[a] # "none" /\ ~Stale(a)
        /\ seen' = [seen EXCEPT ![a] = Listed(a)]
    BY DEF Observe, NoAgentRaces
  <1>2. seen'[a] = Listed(a) /\ \A b \in Agents : b # a => seen'[b] = seen[b]
    BY <1>1 DEF BookInv, AppTypes
  <1>3. QueueInv' /\ DoomInv'
    BY <1>1 DEF AgentsInv, QueueInv, DoomInv
  <1>4. ASSUME doomed = {} PROVE FlightInv' /\ CallsInv' /\ AccountInv'
    BY <1>1, <1>4 DEF AgentsInv, FlightInv, CallsInv, AccountInv
  <1>5. ASSUME doomed = {} PROVE ListedInv'
    <2>1. ListedInv /\ \A b \in Agents : Listed(b)' = Listed(b)
      BY <1>1, <1>5 DEF AgentsInv, Listed
    <2>. QED BY <1>1, <1>2, <2>1 DEF ListedInv
  <1>6. ASSUME doomed = {} PROVE AheadInv'
    <2>1. AheadInv /\ Successor' = Successor
      BY <1>1, <1>6 DEF AgentsInv
    <2>2. Converging /\ members = handoff.retiring => Successor \in Agents
      BY DEF BookInv, RunInv, RecordInv, TextTypes
    <2>3. Converging /\ a = Successor => runsOn[a] = handoff.target
      BY <1>1 DEF Stale
    <2>4. Converging /\ members = handoff.retiring /\ pc[begun] = "discard" =>
             runsOn[Successor] # handoff.target
      BY <2>1 DEF AheadInv
    <2>5. Converging /\ members = handoff.retiring /\ pc[begun] \in {"pick", "adopt"} =>
             seen'[Successor] # "untracked"
      <3>1. Converging /\ members = handoff.retiring /\ pc[begun] \in {"pick", "adopt"} =>
               Successor # a
        BY <1>1, <2>1 DEF AheadInv
      <3>. QED BY <1>2, <2>1, <2>2, <3>1 DEF AheadInv
    <2>6. Converging /\ members = handoff.retiring /\ seen'[Successor] # "untracked"
             /\ pc[begun] # "discard" => runsOn[Successor] = handoff.target
      <3>1. CASE a = Successor
        BY <2>3, <3>1
      <3>2. CASE a # Successor
        BY <1>2, <2>1, <2>2, <3>2 DEF AheadInv
      <3>. QED BY <3>1, <3>2
    <2>. QED BY <1>1, <2>1, <2>4, <2>5, <2>6 DEF AheadInv
  <1>7. ASSUME doomed = {} PROVE RetiredInv'
    BY <1>1, <1>7 DEF AgentsInv, RetiredInv, Silent
  <1>. QED BY <1>1, <1>3, <1>4, <1>5, <1>6, <1>7 DEF AgentsInv

\* An agent's turn keeps what is known of the agents.
LEMMA AgentTurnAgents ==
  ASSUME BookInv, AgentsInv, NEW a \in Agents, AgentTurn(a)
  PROVE  AgentsInv'
  <1>1. /\ UNCHANGED <<members, ended, account, handoff, seen, pc, calls, flight, proc, runsOn,
                       renamed, begun, doomed, destroyed>>
        /\ proc[a] = "up" /\ inbox' = [inbox EXCEPT ![a] = <<>>]
    BY DEF AgentTurn
  <1>2. \A b \in Agents : inbox'[b] = inbox[b] \/ inbox'[b] = <<>>
    BY <1>1 DEF BookInv, AgentTypes
  <1>3. QueueInv' /\ DoomInv'
    BY <1>1, <1>2 DEF AgentsInv, QueueInv, DoomInv
  <1>4. ASSUME doomed = {} PROVE FlightInv' /\ CallsInv' /\ AccountInv' /\ ListedInv'
    BY <1>1, <1>4 DEF AgentsInv, FlightInv, CallsInv, AccountInv, ListedInv, Listed
  <1>5. ASSUME doomed = {} PROVE AheadInv'
    BY <1>1, <1>5 DEF AgentsInv, AheadInv
  <1>6. ASSUME doomed = {} PROVE RetiredInv'
    <2>1. members \in Agents
      BY DEF BookInv, RecordTypes
    <2>. QED BY <1>1, <1>2, <1>6, <2>1 DEF AgentsInv, RetiredInv, Silent
  <1>. QED BY <1>1, <1>3, <1>4, <1>5, <1>6 DEF AgentsInv

\* The chat is destroyed: its agents, then its record.
LEMMA DestroyAgentsAgents ==
  ASSUME BookInv, AgentsInv, NoAgentRaces, DestroyAgents
  PROVE  AgentsInv'
  <1>1. /\ UNCHANGED <<members, handoff, seen, begun, destroyed>>
        /\ doomed = {} /\ handoff.phase \in {"none", "failed"}
        /\ \A a \in Agents : proc[a] # "none" => seen[a] # "untracked"
        /\ doomed' = DestroyedWithChat /\ Destroyed(DestroyedWithChat)
    BY DEF DestroyAgents, NoAgentRaces
  <1>2. members \in Agents /\ members \in DestroyedWithChat
    BY DEF BookInv, RecordTypes, DestroyedWithChat
  <1>3. \A a \in Agents : proc[a] # "none" => a \in DestroyedWithChat
    <2>1. ASSUME NEW a \in Agents, proc[a] # "none", a > members
          PROVE  Converging /\ a = Successor
      BY <1>1, <2>1 DEF AgentsInv, AheadInv
    <2>2. \A a \in Agents : a > members \/ a \in 1 .. members
      BY <1>2
    <2>. QED BY <1>1, <2>1, <2>2 DEF DestroyedWithChat
  <1>4. \A a \in Agents : proc'[a] = "none" /\ inbox'[a] = <<>>
    BY <1>1, <1>3 DEF Destroyed, AgentsInv, QueueInv
  <1>. QED BY <1>1, <1>2, <1>4 DEF AgentsInv, QueueInv, DoomInv

\* Dropping the record of a destroyed chat keeps what is known of the agents.
LEMMA DestroyRecordAgents ==
  ASSUME BookInv, AgentsInv, DestroyRecord
  PROVE  AgentsInv'
  <1>1. /\ UNCHANGED <<proc, inbox, doomed>> /\ doomed # {} /\ handoff' = NoHandoff
    BY DEF DestroyRecord
  <1>2. handoff'.phase = "none"
    BY <1>1 DEF NoHandoff
  <1>. QED BY <1>1, <1>2 DEF AgentsInv, QueueInv, DoomInv

\* The chat starts with one agent and nothing on its way to it.
LEMMA AgentsInit == Init => AgentsInv
  <1>. SUFFICES ASSUME Init PROVE AgentsInv
    OBVIOUS
  <1>1. PICK up \in {"up", "down"} :
          /\ proc = [a \in Agents |-> IF a = 1 THEN up ELSE "none"]
          /\ seen = [a \in Agents |-> IF a = 1 THEN up ELSE "untracked"]
    BY DEF Init
  <1>2. /\ members = 1 /\ handoff = NoHandoff /\ doomed = {} /\ ~destroyed
        /\ runsOn = account /\ inbox = [a \in Agents |-> <<>>]
        /\ flight = [m \in Messages |-> 0] /\ calls = [to |-> 0, msgs |-> <<>>]
    BY DEF Init
  <1>3. handoff.phase = "none"
    BY <1>2 DEF NoHandoff
  <1>4. QueueInv /\ DoomInv /\ FlightInv /\ CallsInv /\ AccountInv
    BY <1>2, <1>3 DEF QueueInv, DoomInv, FlightInv, CallsInv, AccountInv
  <1>5. ListedInv
    BY <1>1, <1>2 DEF ListedInv, Listed
  <1>6. AheadInv /\ RetiredInv
    BY <1>1, <1>2, <1>3 DEF AheadInv, RetiredInv
  <1>. QED BY <1>2, <1>4, <1>5, <1>6 DEF AgentsInv

\* Every step keeps what is known of the agents.
LEMMA AgentsStep ==
  ASSUME NoAgentRaces
  PROVE  BookInv /\ AgentsInv /\ [Next]_vars => AgentsInv'
  <1>. SUFFICES ASSUME BookInv, AgentsInv, [Next]_vars PROVE AgentsInv'
    OBVIOUS
  <1>1. CASE UNCHANGED vars
    <2>1. UNCHANGED <<members, ended, account, handoff, seen, pc, calls, flight, proc, runsOn,
                      renamed, inbox, begun, doomed, destroyed>>
      BY <1>1 DEF vars
    <2>2. QueueInv' /\ DoomInv'
      BY <2>1 DEF AgentsInv, QueueInv, DoomInv
    <2>3. ASSUME doomed = {} PROVE FlightInv' /\ CallsInv' /\ AccountInv' /\ ListedInv'
      BY <2>1, <2>3 DEF AgentsInv, FlightInv, CallsInv, AccountInv, ListedInv, Listed
    <2>4. ASSUME doomed = {} PROVE AheadInv' /\ RetiredInv'
      BY <2>1, <2>4 DEF AgentsInv, AheadInv, RetiredInv, Silent
    <2>. QED BY <2>1, <2>2, <2>3, <2>4 DEF AgentsInv
  <1>. HIDE DEF Handoffs, Agents, recordVars, threadVars, agentVars, clientVars, countVars,
                Converging, Successor, Current, Goto
  <1>2. ASSUME NEW m \in Messages, HoldSend(m) \/ ResolveSend(m) \/ SendLands(m)
        PROVE  AgentsInv'
    BY <1>2, HoldSendAgents, ResolveSendAgents, SendLandsAgents
  <1>3. ASSUME NEW h \in Handoffs, NEW to \in Accounts, NEW m \in Messages \cup {Nothing},
               NEW k \in BOOLEAN, BeginHandoff(h, to, m, k)
        PROVE  AgentsInv'
    BY <1>3, BeginHandoffAgents
  <1>4. CASE CancelHandoff \/ DeliverCall
    BY <1>4, CancelHandoffAgents, DeliverCallAgents
  <1>5. ASSUME NEW to \in Accounts, RetryHandoff(to) PROVE AgentsInv'
    BY <1>5, RetryHandoffAgents
  <1>6. ASSUME NEW h \in Handoffs, Discard(h) \/ RunnerStep(h) PROVE AgentsInv'
    <2>1. CASE Discard(h) \/ Stopped(h) \/ Drain(h) \/ Drained(h) \/ Summarize(h)
      BY <2>1, DiscardAgents, StoppedAgents, DrainAgents, DrainedAgents, SummarizeAgents
    <2>2. CASE AwaitSummary(h) \/ FoldPrompt(h) \/ StopRetiring(h) \/ ArchiveRetiring(h)
      BY <2>2, AwaitSummaryAgents, FoldPromptAgents, StopRetiringAgents, ArchiveRetiringAgents
    <2>3. CASE RecordFinalCount(h) \/ CreateSuccessor(h) \/ CreateReturns(h) \/ ApplyModelPick(h)
      BY <2>3, RecordFinalCountAgents, CreateSuccessorAgents, CreateReturnsAgents,
         ApplyModelPickAgents
    <2>4. CASE AdoptSuccessor(h) \/ DeliverPrompt(h) \/ NotePrompt(h)
      BY <2>4, AdoptSuccessorAgents, DeliverPromptAgents, NotePromptAgents
    <2>5. CASE TakeNextHeldSend(h) \/ DeliverHeldSend(h)
      BY <2>5, TakeNextHeldSendAgents, DeliverHeldSendAgents
    <2>. QED BY <1>6, <2>1, <2>2, <2>3, <2>4, <2>5 DEF RunnerStep
  <1>7. CASE Restart
    BY <1>7, RestartAgents
  <1>8. ASSUME NEW a \in Agents, Observe(a) \/ AgentTurn(a) PROVE AgentsInv'
    BY <1>8, ObserveAgents, AgentTurnAgents
  <1>9. CASE DestroyAgents \/ DestroyRecord
    BY <1>9, DestroyAgentsAgents, DestroyRecordAgents
  <1>. QED BY <1>1, <1>2, <1>3, <1>4, <1>5, <1>6, <1>7, <1>8, <1>9 DEF Next

\* The agents are those of the record: one the chat has left is archived, does not run
\* and has nothing to read; each runs on the account the record names; of a destroyed
\* chat none is left (_send_to_chat, _create_successor, _destroyed_with_chat_locked).
\* The races that send to the old agent or leave a half-made one are excluded.
THEOREM AgentsHold ==
  ASSUME NoAgentRaces
  PROVE  Spec => []AgentsAsRecorded
  <1>1. BookInv /\ AgentsInv => AgentsAsRecorded
    <2>. SUFFICES ASSUME BookInv, AgentsInv PROVE AgentsAsRecorded
      OBVIOUS
    <2>1. TypeOK
      BY TypeParts DEF BookInv
    <2>2. ArchivedIsSilent
      BY DEF ArchivedIsSilent, AgentsInv, RetiredInv, Silent
    <2>3. RunsOnItsAccount
      BY DEF RunsOnItsAccount, AgentsInv, AccountInv
    <2>4. NoOrphan
      BY DEF NoOrphan, AgentsInv, DoomInv
    <2>. QED BY <2>1, <2>2, <2>3, <2>4 DEF AgentsAsRecorded
  <1>2. Init => AgentsInv
    BY AgentsInit
  <1>3. BookInv /\ AgentsInv /\ [Next]_vars => AgentsInv'
    BY AgentsStep
  <1>. QED BY <1>1, <1>2, <1>3, RecordHolds, PTL DEF Spec

===============================================================================
