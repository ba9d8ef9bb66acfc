--------------------------- MODULE CodexLedgerProofs ---------------------------
(***************************************************************************)
(* What TLAPS proves of CodexLedger for every set of messages, taps, turns *)
(* and stops: types, and the two safety properties that hold in every      *)
(* interleaving, whichever races happen; and that the ledger implements    *)
(* the message lifecycle where no frame overtakes a call and every failed  *)
(* tap is a clean one.                                                     *)
(***************************************************************************)
EXTENDS CodexLedger, TLAPS, SequenceTheorems

-------------------------------------------------------------------------------
(* The channels.                                                             *)

LEMMA HeadOfChannel ==
    ASSUME NEW S, NEW s \in Seq(S), s # <<>>
    PROVE  Head(s) \in S /\ Tail(s) \in Seq(S)
  BY HeadTailProperties

\* Appending up to two frames keeps a channel a channel.
LEMMA GrownChannel ==
    ASSUME NEW S, NEW s \in Seq(S)
    PROVE  /\ \A x \in S : Append(s, x) \in Seq(S)
           /\ \A x \in S : s \o <<x>> \in Seq(S)
           /\ \A x, y \in S : s \o <<x>> \o <<y>> \in Seq(S)
           /\ \A x \in S : s \o <<>> \o <<x>> \in Seq(S)
<1>1. \A x \in S : <<x>> \in Seq(S)
  OBVIOUS
<1>2. <<>> \in Seq(S)
  OBVIOUS
<1>3. \A t, u \in Seq(S) : t \o u \in Seq(S)
  BY ConcatProperties
<1>4. \A x \in S : Append(s, x) \in Seq(S)
  BY AppendProperties
<1> QED
  BY <1>1, <1>2, <1>3, <1>4

-------------------------------------------------------------------------------
(* The type invariant.                                                       *)

Actions ==
    \/ Stop \/ FlushUserTurns
    \/ \E m \in Messages : BeginSend(m) \/ SendAccepted(m) \/ SendRefused(m)
    \/ \E c \in Combined : TapFlip(c) \/ TapCombine(c) \/ TapAccepted(c) \/ TapRefused(c)
    \/ \E c \in Callers : Submit(c)

LEMMA InitType == Init => TypeOK
  BY BoundsAssumption DEF Init, TypeOK, EntryStates, CallStates, Callers

LEMMA SettledType ==
    ASSUME state \in [Messages -> EntryStates], NEW D, NEW R
    PROVE  Settled(D, R) \in [Messages -> EntryStates]
  BY DEF Settled, EntryStates

LEMMA EndActiveTurnType ==
    ASSUME TypeOK, EndActiveTurn
    PROVE  /\ activeTurn' \in Turns \cup {NoTurn}
           /\ reconciledTurns' \subseteq Turns
           /\ requests' \in Seq(Request)
<1>1. CASE activeTurn = NoTurn
  BY <1>1 DEF TypeOK, EndActiveTurn, Ended
<1>2. CASE activeTurn # NoTurn
  <2>1. activeTurn \in Turns
    BY <1>2 DEF TypeOK
  <2>2. [kind |-> "interrupt", id |-> NoId, turn |-> activeTurn] \in Request
    BY <2>1 DEF Request
  <2>3. requests \in Seq(Request)
    BY DEF TypeOK
  <2>4. Append(requests, [kind |-> "interrupt", id |-> NoId, turn |-> activeTurn])
          \in Seq(Request)
    BY <2>2, <2>3, GrownChannel
  <2> QED
    BY <1>2, <2>1, <2>4 DEF TypeOK, EndActiveTurn, Ended
<1> QED
  BY <1>1, <1>2

\* A Stop, and the calls of the sending and tapping threads.
LEMMA CallsType == TypeOK /\ Actions => TypeOK'
<1> SUFFICES ASSUME TypeOK, Actions PROVE TypeOK'
  OBVIOUS
<1>1. CASE Stop
  <2>1. state' \in [Messages -> EntryStates]
    BY <1>1, SettledType DEF Stop, TypeOK
  <2>2. copies' \in [Messages -> Nat] /\ handedOff' \subseteq Messages
    BY <1>1 DEF Stop, HandBack, NotYetHandedOff, Returned, TypeOK
  <2>3. stops' \in 0..MaxStops /\ generation' \in Nat
    BY <1>1, BoundsAssumption DEF Stop, TypeOK
  <2>4. chips' \subseteq Messages
    BY <1>1 DEF Stop, QueuedSnapshot
  <2>5. userTurns' \subseteq Ids /\ pendingUserTurns' \subseteq Ids
    BY <1>1 DEF Stop, FlushNow, TypeOK
  <2>6. resendVisible' \subseteq Messages
    BY <1>1 DEF Stop, TypeOK
  <2> QED
    BY <1>1, <2>1, <2>2, <2>3, <2>4, <2>5, <2>6, EndActiveTurnType
       DEF Stop, TypeOK, daemonVars
<1>2. CASE FlushUserTurns
  BY <1>2 DEF FlushUserTurns, FlushNow, TypeOK, callVars, daemonVars
<1>3. ASSUME NEW m \in Messages, BeginSend(m) PROVE TypeOK'
  BY <1>3 DEF BeginSend, TypeOK, EntryStates, CallStates, Callers, pushedVars, daemonVars
<1>4. ASSUME NEW m \in Messages, SendAccepted(m) PROVE TypeOK'
  <2>1. ackTurn[m] \in Turns \cup {NoTurn} /\ AckedState(m) \in EntryStates
    BY DEF TypeOK, AckedState, EntryStates, Callers
  <2>2. "returned" \in EntryStates /\ "done" \in CallStates
    BY DEF EntryStates, CallStates
  <2>3. chips' \subseteq Messages
    BY <1>4 DEF SendAccepted, QueuedSnapshot
  <2>4. state' \in [Messages -> EntryStates] /\ pc' \in [Callers -> CallStates]
        /\ boundTurn' \in [Messages -> Turns \cup {NoTurn}]
    BY <1>4, <2>1, <2>2 DEF SendAccepted, TypeOK
  <2> QED
    BY <1>4, <2>3, <2>4 DEF SendAccepted, TypeOK, daemonVars
<1>5. ASSUME NEW m \in Messages, SendRefused(m) PROVE TypeOK'
  <2>1. state' \in [Messages -> EntryStates]
    <3>1. CASE state' = [state EXCEPT ![m] = "none"]
      BY <3>1 DEF TypeOK, EntryStates
    <3>2. CASE state' = state
      BY <3>2 DEF TypeOK
    <3> QED
      BY <1>5, <3>1, <3>2 DEF SendRefused, StillSending
  <2>3. copies' \in [Messages -> Nat]
    <3>1. CASE copies' = [copies EXCEPT ![m] = @ + 1]
      BY <3>1 DEF TypeOK
    <3>2. CASE copies' = copies
      BY <3>2 DEF TypeOK
    <3> QED
      BY <1>5, <3>1, <3>2 DEF SendRefused, StillSending
  <2>2. pc' \in [Callers -> CallStates]
    BY <1>5 DEF SendRefused, StillSending, TypeOK, CallStates
  <2> QED
    BY <1>5, <2>1, <2>2, <2>3 DEF SendRefused, StillSending, TypeOK, daemonVars
<1>6. ASSUME NEW c \in Combined, TapFlip(c) PROVE TypeOK'
  <2>1. state' \in [Messages -> EntryStates] /\ pc' \in [Callers -> CallStates]
    BY <1>6 DEF TapFlip, TypeOK, EntryStates, CallStates, Callers
  <2>2. /\ resendVisible' \subseteq Messages /\ chips' \subseteq Messages
        /\ members' \in [Combined -> SUBSET Messages] /\ generation' \in Nat
    BY <1>6 DEF TapFlip, TypeOK, Queued, QueuedSnapshot
  <2> QED
    BY <1>6, <2>1, <2>2, EndActiveTurnType DEF TapFlip, TypeOK, daemonVars
<1>7. ASSUME NEW c \in Combined, TapCombine(c) PROVE TypeOK'
  <2>1. /\ combinedId' \in [Messages -> Combined \cup {NoId}]
        /\ members' \in [Combined -> SUBSET Messages]
    BY <1>7 DEF TapCombine, TypeOK
  <2>2. /\ pc' \in [Callers -> CallStates] /\ chips' \subseteq Messages
        /\ userTurns' \subseteq Ids /\ pendingUserTurns' \subseteq Ids
    BY <1>7 DEF TapCombine, TypeOK, CallStates, QueuedSnapshot, FlushNow, Callers
  <2> QED
    BY <1>7, <2>1, <2>2 DEF TapCombine, TypeOK, daemonVars
<1>8. ASSUME NEW c \in Combined, TapAccepted(c) PROVE TypeOK'
  <2>1. /\ boundTurn' \in [Messages -> Turns \cup {NoTurn}]
        /\ pc' \in [Callers -> CallStates]
    BY <1>8 DEF TapAccepted, TypeOK, CallStates, Callers
  <2>2. /\ chips' \subseteq Messages
        /\ userTurns' \subseteq Ids /\ pendingUserTurns' \subseteq Ids
    BY <1>8 DEF TapAccepted, TypeOK, QueuedSnapshot, FlushNow
  <2> QED
    BY <1>8, <2>1, <2>2 DEF TapAccepted, TypeOK, daemonVars
<1>9. ASSUME NEW c \in Combined, TapRefused(c) PROVE TypeOK'
  <2>1. state' \in [Messages -> EntryStates] /\ pc' \in [Callers -> CallStates]
    BY <1>9, SettledType DEF TapRefused, TypeOK, CallStates, Callers
  <2>2. /\ resendVisible' \subseteq Messages /\ chips' \subseteq Messages
        /\ combinedId' \in [Messages -> Combined \cup {NoId}]
    BY <1>9 DEF TapRefused, TypeOK, QueuedSnapshot
  <2>3. copies' \in [Messages -> Nat] /\ handedOff' \subseteq Messages
    BY <1>9 DEF TapRefused, HandBack, NotYetHandedOff, Returned, TypeOK
  <2>4. userTurns' \subseteq Ids /\ pendingUserTurns' \subseteq Ids
    BY <1>9 DEF TapRefused, FlushNow, TypeOK
  <2> QED
    BY <1>9, <2>1, <2>2, <2>3, <2>4 DEF TapRefused, TypeOK, daemonVars
<1>10. ASSUME NEW c \in Callers, Submit(c) PROVE TypeOK'
  <2>1. [kind |-> IF activeTurn = NoTurn THEN "start" ELSE "steer",
         id |-> c, turn |-> activeTurn] \in Request
    BY DEF Request, TypeOK
  <2>2. requests' \in Seq(Request)
    BY <1>10, <2>1, GrownChannel DEF Submit, TypeOK
  <2>3. pc' \in [Callers -> CallStates]
    BY <1>10 DEF Submit, TypeOK, CallStates
  <2> QED
    BY <1>10, <2>2, <2>3 DEF Submit, TypeOK, ledgerVars, pushedVars, daemonVars
<1> QED
  BY <1>1, <1>2, <1>3, <1>4, <1>5, <1>6, <1>7, <1>8, <1>9, <1>10 DEF Actions

-------------------------------------------------------------------------------
(* The notification handlers.                                                *)

\* What settling entries does to the ledger's own fields and pushes.
LEMMA SettleType ==
    ASSUME TypeOK, NEW D, NEW R, NEW keys \in SUBSET Ids, Settle(D, R, keys)
    PROVE  /\ state' \in [Messages -> EntryStates]
           /\ resendVisible' \subseteq Messages
           /\ chips' \subseteq Messages
           /\ pendingUserTurns' \subseteq Ids
  BY SettledType DEF TypeOK, Settle, ChipsAfter, QueuedSnapshot

LEMMA SettleAgainstType ==
    ASSUME TypeOK, NEW owned \in SUBSET Messages, NEW evidence,
           SettleAgainst(owned, evidence), evidence \subseteq Ids
    PROVE  /\ state' \in [Messages -> EntryStates]
           /\ resendVisible' \subseteq Messages
           /\ chips' \subseteq Messages
           /\ pendingUserTurns' \subseteq Ids
<1> DEFINE D == {m \in owned : Committed(m, evidence)}
           keys == {CommittedKey(m, evidence) : m \in D}
<1>1. keys \subseteq Ids
  BY DEF Committed, CommittedKey
<1>2. Settle(D, Uncommitted(owned, D), keys)
  BY DEF SettleAgainst
<1> QED
  BY <1>1, <1>2, SettleType

LEMMA HandlersType == TypeOK /\ Handlers => TypeOK'
<1> SUFFICES ASSUME TypeOK, Handlers PROVE TypeOK'
  OBVIOUS
<1> DEFINE f == Head(frames)
<1>1. ASSUME frames # <<>> PROVE f \in Frame /\ Tail(frames) \in Seq(Frame)
  BY <1>1, HeadOfChannel DEF TypeOK
<1>2. CASE HandleReply
  <2>1. /\ f \in Frame /\ f.kind = "reply" /\ Tail(frames) \in Seq(Frame)
    BY <1>1, <1>2 DEF HandleReply, MayHandle
  <2>2. f.id \in Callers /\ f.turn \in Turns \cup {NoTurn} /\ f.status \in Outcomes
    BY <2>1 DEF Frame
  <2>3. f.status = "started" => f.turn \in Turns \cup {NoTurn}
    BY <2>2
  <2>4. pc' \in [Callers -> CallStates] /\ ackTurn' \in [Callers -> Turns \cup {NoTurn}]
    BY <1>2, <2>2 DEF HandleReply, TypeOK, CallStates, Outcomes
  <2>5. activeTurn' \in Turns \cup {NoTurn}
    BY <1>2, <2>2 DEF HandleReply, TypeOK
  <2> QED
    BY <1>2, <2>1, <2>4, <2>5 DEF HandleReply, HandlerFrame, TypeOK, daemonVars
<1>3. CASE HandleTurnStarted
  <2>1. f \in Frame /\ f.kind = "started" /\ Tail(frames) \in Seq(Frame)
    BY <1>1, <1>3 DEF HandleTurnStarted, MayHandle
  <2>2. activeTurn' \in Turns
    BY <1>3, <2>1 DEF HandleTurnStarted, Frame
  <2>3. Settle({}, {}, {}) /\ {} \in SUBSET Ids
    BY <1>3 DEF HandleTurnStarted
  <2> QED
    BY <1>3, <2>1, <2>2, <2>3, SettleType
       DEF HandleTurnStarted, HandlerFrame, TypeOK, daemonVars
<1>4. CASE HandleItemCompleted
  <2>1. f \in Frame /\ f.kind = "commit" /\ Tail(frames) \in Seq(Frame)
    BY <1>1, <1>4 DEF HandleItemCompleted, MayHandle
  <2>2. {f.id} \in SUBSET Ids /\ {} \in SUBSET Ids
    BY <2>1 DEF Frame
  <2>3. \E D, keys : keys \in SUBSET Ids /\ Settle(D, {}, keys)
    BY <1>4, <2>2 DEF HandleItemCompleted
  <2> QED
    BY <1>4, <2>1, <2>3, SettleType
       DEF HandleItemCompleted, HandlerFrame, TypeOK, daemonVars
<1>5. CASE HandleTurnCompleted
  <2>1. f \in Frame /\ f.kind = "completed" /\ Tail(frames) \in Seq(Frame)
    BY <1>1, <1>5 DEF HandleTurnCompleted, MayHandle
  <2>2. f.turn \in Turns /\ f.items \subseteq Ids
    BY <2>1 DEF Frame
  <2>3. \A evidence \in Evidence(f) : evidence \subseteq Ids
    BY <2>2 DEF Evidence, TypeOK
  <2>4. /\ state' \in [Messages -> EntryStates]
        /\ resendVisible' \subseteq Messages
        /\ chips' \subseteq Messages
        /\ pendingUserTurns' \subseteq Ids
    <3>1. CASE Settle({}, {}, {})
      BY <3>1, SettleType
    <3>2. ASSUME NEW evidence \in Evidence(f),
                 SettleAgainst({m \in Live : boundTurn[m] = f.turn}, evidence)
          PROVE  <2>4!1 /\ <2>4!2 /\ <2>4!3 /\ <2>4!4
      BY <2>3, <3>2, SettleAgainstType DEF Live
    <3> QED
      BY <1>5, <3>1, <3>2 DEF HandleTurnCompleted
  <2>5. activeTurn' \in Turns \cup {NoTurn} /\ reconciledTurns' \subseteq Turns
    BY <1>5, <2>2 DEF HandleTurnCompleted, TypeOK
  <2> QED
    BY <1>5, <2>1, <2>4, <2>5 DEF HandleTurnCompleted, HandlerFrame, TypeOK, daemonVars
<1>6. CASE HandleIdle
  <2>1. Tail(frames) \in Seq(Frame)
    BY <1>1, <1>6 DEF HandleIdle, MayHandle
  <2>2. PICK evidence \in {thread, {}} : SettleAgainst(Live \ resendVisible, evidence)
    BY <1>6 DEF HandleIdle
  <2>3. evidence \subseteq Ids /\ Live \ resendVisible \in SUBSET Messages
    BY <2>2 DEF TypeOK, Live
  <2>4. /\ state' \in [Messages -> EntryStates]
        /\ resendVisible' \subseteq Messages
        /\ chips' \subseteq Messages
        /\ pendingUserTurns' \subseteq Ids
    BY <2>2, <2>3, SettleAgainstType
  <2> QED
    BY <1>6, <2>1, <2>4 DEF HandleIdle, HandlerFrame, TypeOK, daemonVars
<1>7. CASE FlushUserTurns
  BY <1>7 DEF FlushUserTurns, FlushNow, TypeOK, callVars, daemonVars
<1> QED
  BY <1>2, <1>3, <1>4, <1>5, <1>6, <1>7 DEF Handlers

-------------------------------------------------------------------------------
(* The daemon.                                                               *)

\* A turn that ends leaves a well-formed channel.
LEMMA TurnEndsType ==
    ASSUME TypeOK, turn # NoTurn, NEW full \in BOOLEAN,
           NEW status \in {"completed", "interrupted", "failed"},
           TurnEnds(status, full)
    PROVE  frames' \in Seq(Frame) /\ turn' = NoTurn /\ accepted' = {}
<1> DEFINE done == [kind |-> "completed", turn |-> turn, status |-> status,
                    full |-> full, items |-> IF full THEN thread ELSE {}]
<1>1. done \in Frame
  BY DEF Frame, TypeOK
<1>2. [kind |-> "idle"] \in Frame
  BY DEF Frame
<1>3. frames \in Seq(Frame)
  BY DEF TypeOK
<1>4. CASE TurnFrames
  <2>1. frames' = frames \o <<done>> \o <<[kind |-> "idle"]>>
    BY <1>4 DEF TurnEnds
  <2> HIDE DEF done
  <2> QED
    BY <1>1, <1>2, <1>3, <2>1, GrownChannel DEF TurnEnds
<1>5. CASE ~TurnFrames
  <2>1. frames' = frames \o <<>> \o <<[kind |-> "idle"]>>
    BY <1>5 DEF TurnEnds
  <2> QED
    BY <1>2, <1>3, <2>1, GrownChannel DEF TurnEnds
<1> QED
  BY <1>4, <1>5

\* A turn that opens leaves a well-formed channel, with and without a reply.
LEMMA TurnOpensType ==
    ASSUME TypeOK, NEW t \in Turns
    PROVE  /\ frames \o StartedNotice(t) \in Seq(Frame)
           /\ \A g \in Frame : frames \o StartedNotice(t) \o <<g>> \in Seq(Frame)
<1>1. [kind |-> "started", turn |-> t] \in Frame
  BY DEF Frame
<1>2. frames \in Seq(Frame)
  BY DEF TypeOK
<1>3. frames \o <<>> = frames
  BY <1>2
<1>4. CASE TurnFrames
  BY <1>1, <1>2, <1>4, GrownChannel DEF StartedNotice
<1>5. CASE ~TurnFrames
  BY <1>2, <1>3, <1>5, GrownChannel DEF StartedNotice
<1> QED
  BY <1>4, <1>5

LEMMA DaemonType ==
    TypeOK /\ (Serves \/ DaemonCommits \/ DaemonEndsTurn \/ ForeignTurn) => TypeOK'
<1> SUFFICES ASSUME TypeOK, Serves \/ DaemonCommits \/ DaemonEndsTurn \/ ForeignTurn
             PROVE  TypeOK'
  OBVIOUS
<1> DEFINE r == Head(requests)
<1>1. ASSUME requests # <<>> PROVE r \in Request /\ Tail(requests) \in Seq(Request)
  BY <1>1, HeadOfChannel DEF TypeOK
<1>2. CASE DaemonStarts
  <2>1. r \in Request /\ Tail(requests) \in Seq(Request) /\ r.kind = "start"
        /\ requests' = Tail(requests)
    BY <1>1, <1>2 DEF DaemonStarts, ServesNext
  <2>2. r.id \in Callers
    BY <2>1 DEF Request
  <2>3. PICK t \in Turns \ opened :
          /\ turn' = t /\ opened' = opened \cup {t}
          /\ frames' = frames \o StartedNotice(t) \o <<ReplyTo(r.id, t, "started")>>
    BY <1>2 DEF DaemonStarts
  <2>4. ReplyTo(r.id, t, "started") \in Frame
    BY <2>2, <2>3 DEF ReplyTo, Frame, Outcomes
  <2>5. frames' \in Seq(Frame)
    BY <2>3, <2>4, TurnOpensType
  <2>6. accepted' \subseteq Ids
    BY <1>2, <2>2 DEF DaemonStarts, Ids, Callers
  <2> QED
    BY <1>2, <2>1, <2>3, <2>5, <2>6
       DEF DaemonStarts, ClientFrame, TypeOK, ledgerVars, pushedVars, callVars
<1>3. CASE DaemonSteers
  <2>1. r \in Request /\ Tail(requests) \in Seq(Request) /\ r.kind = "steer"
        /\ requests' = Tail(requests)
    BY <1>1, <1>3 DEF DaemonSteers, ServesNext
  <2>2. r.id \in Callers
    BY <2>1 DEF Request
  <2>3. ReplyTo(r.id, turn, "steered") \in Frame
    BY <2>2 DEF ReplyTo, Frame, Outcomes, TypeOK
  <2>4. frames' \in Seq(Frame)
    BY <1>3, <2>3, GrownChannel DEF DaemonSteers, TypeOK
  <2>5. accepted' \subseteq Ids
    BY <1>3, <2>2 DEF DaemonSteers, Ids, Callers, TypeOK
  <2> QED
    BY <1>3, <2>1, <2>4, <2>5
       DEF DaemonSteers, ClientFrame, TypeOK, ledgerVars, pushedVars, callVars
<1>4. CASE DaemonRefuses
  <2>1. r \in Request /\ Tail(requests) \in Seq(Request) /\ r.kind \in {"start", "steer"}
        /\ requests' = Tail(requests)
    BY <1>1, <1>4 DEF DaemonRefuses, ServesNext
  <2>2. r.id \in Callers
    BY <2>1 DEF Request
  <2>3. ReplyTo(r.id, NoTurn, "refused") \in Frame
    BY <2>2 DEF ReplyTo, Frame, Outcomes
  <2>4. frames' \in Seq(Frame)
    BY <1>4, <2>3, GrownChannel DEF DaemonRefuses, TypeOK
  <2> QED
    BY <1>4, <2>1, <2>4
       DEF DaemonRefuses, ClientFrame, TypeOK, ledgerVars, pushedVars, callVars, daemonVars
<1>5. CASE DaemonAborts
  <2>1. r \in Request /\ Tail(requests) \in Seq(Request) /\ r.kind = "interrupt"
        /\ requests' = Tail(requests)
    BY <1>1, <1>5 DEF DaemonAborts, ServesNext
  <2>2. r.turn \in Turns
    BY <2>1 DEF Request
  <2>3. frames' \in Seq(Frame) /\ turn' \in Turns \cup {NoTurn} /\ accepted' \subseteq Ids
    <3>1. CASE turn = r.turn /\ TurnEnds("interrupted", FALSE)
      <4>1. turn # NoTurn
        BY <2>2, <3>1, IdsAssumption
      <4> QED
        BY <3>1, <4>1, TurnEndsType
    <3>2. CASE UNCHANGED <<turn, accepted, frames>>
      BY <3>2 DEF TypeOK
    <3> QED
      BY <1>5, <3>1, <3>2 DEF DaemonAborts
  <2> QED
    BY <1>5, <2>1, <2>3
       DEF DaemonAborts, ClientFrame, TypeOK, ledgerVars, pushedVars, callVars
<1>6. CASE DaemonCommits
  <2>1. PICK id \in accepted :
          /\ accepted' = accepted \ {id} /\ thread' = thread \cup {id}
          /\ frames' = Append(frames, [kind |-> "commit", id |-> id])
    BY <1>6 DEF DaemonCommits
  <2>2. [kind |-> "commit", id |-> id] \in Frame
    BY <2>1 DEF Frame, TypeOK
  <2>3. frames' \in Seq(Frame)
    BY <2>1, <2>2, GrownChannel DEF TypeOK
  <2> QED
    BY <1>6, <2>1, <2>3
       DEF DaemonCommits, ClientFrame, TypeOK, ledgerVars, pushedVars, callVars
<1>7. CASE DaemonEndsTurn
  <2>1. frames' \in Seq(Frame) /\ turn' = NoTurn /\ accepted' = {}
    BY <1>7, TurnEndsType DEF DaemonEndsTurn
  <2> QED
    BY <1>7, <2>1
       DEF DaemonEndsTurn, ClientFrame, TypeOK, ledgerVars, pushedVars, callVars
<1>8. CASE ForeignTurn
  <2>1. PICK t \in Turns \ opened, id \in Foreign \ thread :
          /\ turn' = t /\ opened' = opened \cup {t} /\ accepted' = {id}
          /\ frames' = frames \o StartedNotice(t)
    BY <1>8 DEF ForeignTurn
  <2>2. frames' \in Seq(Frame)
    BY <2>1, TurnOpensType
  <2> QED
    BY <1>8, <2>1, <2>2
       DEF ForeignTurn, ClientFrame, TypeOK, ledgerVars, pushedVars, callVars, Ids
<1> QED
  BY <1>2, <1>3, <1>4, <1>5, <1>6, <1>7, <1>8 DEF Serves

-------------------------------------------------------------------------------
LEMMA StutterType == TypeOK /\ UNCHANGED vars => TypeOK'
  BY DEF TypeOK, vars, ledgerVars, pushedVars, callVars, daemonVars

\* Every step is a step of one of the three groups.
LEMMA StepGroups ==
    ASSUME Next
    PROVE  \/ Actions \/ Handlers
           \/ Serves \/ DaemonCommits \/ DaemonEndsTurn \/ ForeignTurn
  BY DEF Next, User, Calls, Actions

\* The ledger's fields, the calls and both channels hold what the code says
\* they hold, in every behaviour.
THEOREM TypeCorrect == Spec => []TypeOK
<1>1. Init => TypeOK
  BY InitType
<1>2. TypeOK /\ [Next]_vars => TypeOK'
  BY CallsType, HandlersType, DaemonType, StutterType, StepGroups
<1> QED
  BY <1>1, <1>2, PTL DEF Spec

-------------------------------------------------------------------------------
(* The inductive invariants.                                                 *)

\* A frame under way never claims a commit the thread does not hold.
Honest == {f \in Frame : /\ f.kind = "commit" => f.id \in thread
                         /\ f.kind = "completed" => f.items \subseteq thread}

CommitInv == DeliveredIsCommitted /\ frames \in Seq(Honest)

\* Every way in which the text of m has come back to the composer.
HandBackOf(m) ==
    /\ m \in handedOff => copies[m] = 1 /\ pc[m] # "failed" /\ state[m] # "none"
    /\ m \notin handedOff /\ pc[m] # "failed" => copies[m] = 0
    /\ pc[m] = "failed" => copies[m] = 1 /\ state[m] = "none"
    /\ pc[m] = "ready" <=> state[m] = "none" /\ pc[m] # "failed"
    /\ state[m] = "sending" /\ pc[m] # "done" => m \notin handedOff
    /\ state[m] = "queued" => pc[m] = "done"
    /\ \A c \in Combined : m \in members[c] => pc[m] = "done"

HandBackInv == \A m \in Messages : HandBackOf(m)

-------------------------------------------------------------------------------
(* Delivered is committed.                                                   *)

LEMMA ChannelsMonotone ==
    ASSUME NEW S, NEW T, S \subseteq T, NEW s \in Seq(S)
    PROVE  s \in Seq(T)
  OBVIOUS

\* Frames stay honest when the thread only grows.
LEMMA HonestMonotone ==
    ASSUME frames \in Seq(Honest), thread \subseteq thread'
    PROVE  frames \in Seq(Honest')
<1>1. Honest \subseteq Honest'
  BY DEF Honest
<1> QED
  BY <1>1, ChannelsMonotone

\* A settle that goes by committed ids delivers only what is committed.
LEMMA HonestSettle ==
    ASSUME DeliveredIsCommitted, NEW D \in SUBSET Messages, NEW R, NEW keys,
           Settle(D, R, keys), UNCHANGED <<combinedId, userTurns, thread>>,
           \A m \in D : HasCommitted(m), keys \subseteq thread
    PROVE  DeliveredIsCommitted'
<1>1. ASSUME NEW m \in Messages, state'[m] = "delivered" PROVE HasCommitted(m)'
  <2>1. m \in D \/ state[m] = "delivered"
    BY <1>1 DEF Settle, Settled
  <2>2. HasCommitted(m)
    BY <2>1 DEF DeliveredIsCommitted
  <2> QED
    BY <2>2 DEF HasCommitted
<1>2. userTurns' \cup pendingUserTurns' \subseteq thread'
  BY DEF Settle, DeliveredIsCommitted
<1> QED
  BY <1>1, <1>2 DEF DeliveredIsCommitted

LEMMA HonestSettleAgainst ==
    ASSUME DeliveredIsCommitted, NEW owned \in SUBSET Messages, NEW evidence,
           evidence \subseteq thread, SettleAgainst(owned, evidence),
           UNCHANGED <<combinedId, userTurns, thread>>
    PROVE  DeliveredIsCommitted'
<1> DEFINE D == {m \in owned : Committed(m, evidence)}
           keys == {CommittedKey(m, evidence) : m \in D}
<1>1. Settle(D, Uncommitted(owned, D), keys)
  BY DEF SettleAgainst
<1>2. \A m \in D : HasCommitted(m)
  BY DEF Committed, HasCommitted
<1>3. keys \subseteq thread
  BY DEF Committed, CommittedKey
<1>4. D \in SUBSET Messages
  OBVIOUS
<1> HIDE DEF D, keys
<1> QED
  BY <1>1, <1>2, <1>3, <1>4, HonestSettle

\* Steps that deliver nothing: every Delivered message was so, under the same
\* ids, and no user turn is new.
LEMMA NothingDelivered ==
    ASSUME DeliveredIsCommitted, thread \subseteq thread',
           \A m \in Messages : state'[m] = "delivered" =>
               state[m] = "delivered" /\ combinedId'[m] = combinedId[m],
           userTurns' \cup pendingUserTurns' \subseteq userTurns \cup pendingUserTurns
    PROVE  DeliveredIsCommitted'
  BY DEF DeliveredIsCommitted, HasCommitted

LEMMA CommitCalls == CommitInv /\ TypeOK /\ Actions => CommitInv'
<1> SUFFICES ASSUME CommitInv, TypeOK, Actions PROVE CommitInv'
  OBVIOUS
<1> DEFINE Undelivering ==
      /\ \A m \in Messages : state'[m] = "delivered" =>
             state[m] = "delivered" /\ combinedId'[m] = combinedId[m]
      /\ userTurns' \cup pendingUserTurns' \subseteq userTurns \cup pendingUserTurns
      /\ UNCHANGED <<frames, thread>>
<1>1. ASSUME Stop PROVE Undelivering
  BY <1>1 DEF Stop, Settled, FlushNow, daemonVars
<1>2. ASSUME FlushUserTurns PROVE Undelivering
  BY <1>2 DEF FlushUserTurns, FlushNow, daemonVars
<1>3. ASSUME NEW m \in Messages, BeginSend(m) PROVE Undelivering
  BY <1>3 DEF BeginSend, pushedVars, daemonVars, TypeOK
<1>4. ASSUME NEW m \in Messages, SendAccepted(m) PROVE Undelivering
  BY <1>4 DEF SendAccepted, AckedState, daemonVars, TypeOK
<1>5. ASSUME NEW m \in Messages, SendRefused(m) PROVE Undelivering
  BY <1>5 DEF SendRefused, StillSending, daemonVars, TypeOK
<1>6. ASSUME NEW c \in Combined, TapFlip(c) PROVE Undelivering
  BY <1>6 DEF TapFlip, daemonVars
<1>7. ASSUME NEW c \in Combined, TapCombine(c) PROVE Undelivering
  BY <1>7 DEF TapCombine, FlushNow, daemonVars
<1>8. ASSUME NEW c \in Combined, TapAccepted(c) PROVE Undelivering
  BY <1>8 DEF TapAccepted, FlushNow, daemonVars
<1>9. ASSUME NEW c \in Combined, TapRefused(c) PROVE Undelivering
  BY <1>9 DEF TapRefused, Settled, FlushNow, daemonVars
<1>10. ASSUME NEW c \in Callers, Submit(c) PROVE Undelivering
  BY <1>10 DEF Submit, ledgerVars, pushedVars, daemonVars
<1>11. Undelivering
  BY <1>1, <1>2, <1>3, <1>4, <1>5, <1>6, <1>7, <1>8, <1>9, <1>10 DEF Actions
<1>12. DeliveredIsCommitted'
  BY <1>11, NothingDelivered DEF CommitInv
<1>13. frames' \in Seq(Honest')
  BY <1>11, HonestMonotone DEF CommitInv
<1> QED
  BY <1>12, <1>13 DEF CommitInv

LEMMA CommitHandlers == CommitInv /\ TypeOK /\ Handlers => CommitInv'
<1> SUFFICES ASSUME CommitInv, TypeOK, Handlers PROVE CommitInv'
  OBVIOUS
<1> DEFINE f == Head(frames)
<1>1. CASE FlushUserTurns
  BY <1>1, CommitCalls DEF Actions
<1>2. ASSUME ~FlushUserTurns PROVE CommitInv'
  <2>1. /\ frames # <<>> /\ frames' = Tail(frames)
        /\ UNCHANGED <<combinedId, userTurns, thread>>
    BY <1>2 DEF Handlers, HandlerFrame, daemonVars, MayHandle, HandleReply,
                HandleTurnStarted, HandleItemCompleted, HandleTurnCompleted, HandleIdle
  <2>2. f \in Honest /\ Tail(frames) \in Seq(Honest)
    BY <2>1, HeadOfChannel DEF CommitInv
  <2>3. frames' \in Seq(Honest')
    BY <2>1, <2>2 DEF Honest
  <2>4. ASSUME HandleReply PROVE DeliveredIsCommitted'
    BY <2>1, <2>4, NothingDelivered DEF HandleReply, CommitInv
  <2>5. ASSUME HandleTurnStarted PROVE DeliveredIsCommitted'
    <3>1. Settle({}, {}, {}) /\ {} \in SUBSET Messages /\ {} \subseteq thread
      BY <2>5 DEF HandleTurnStarted
    <3> QED
      BY <2>1, <3>1, HonestSettle DEF CommitInv
  <2>6. ASSUME HandleItemCompleted PROVE DeliveredIsCommitted'
    <3>1. f.id \in thread
      BY <2>2, <2>6 DEF Honest, HandleItemCompleted, MayHandle
    <3>2. PICK D \in SUBSET Messages, keys \in SUBSET {f.id} :
            /\ Settle(D, {}, keys)
            /\ \A m \in D : m = f.id \/ combinedId[m] = f.id
      BY <2>6 DEF HandleItemCompleted, ResendGroup, Live
    <3> QED
      BY <2>1, <3>1, <3>2, HonestSettle DEF CommitInv, HasCommitted
  <2>7. ASSUME HandleTurnCompleted PROVE DeliveredIsCommitted'
    <3>1. \A evidence \in Evidence(f) : evidence \subseteq thread
      BY <2>2, <2>7 DEF Honest, Evidence, HandleTurnCompleted, MayHandle
    <3>2. CASE Settle({}, {}, {})
      <4>1. {} \in SUBSET Messages /\ {} \subseteq thread
        OBVIOUS
      <4> QED
        BY <2>1, <3>2, <4>1, HonestSettle DEF CommitInv
    <3>3. ASSUME NEW evidence \in Evidence(f),
                 SettleAgainst({m \in Live : boundTurn[m] = f.turn}, evidence)
          PROVE  DeliveredIsCommitted'
      BY <2>1, <3>1, <3>3, HonestSettleAgainst DEF CommitInv, Live
    <3> QED
      BY <2>7, <3>2, <3>3 DEF HandleTurnCompleted
  <2>8. ASSUME HandleIdle PROVE DeliveredIsCommitted'
    <3>1. PICK evidence \in {thread, {}} : SettleAgainst(Live \ resendVisible, evidence)
      BY <2>8 DEF HandleIdle
    <3>2. evidence \subseteq thread /\ Live \ resendVisible \in SUBSET Messages
      BY <3>1 DEF Live
    <3> QED
      BY <2>1, <3>1, <3>2, HonestSettleAgainst DEF CommitInv
  <2>9. DeliveredIsCommitted'
    BY <1>2, <2>4, <2>5, <2>6, <2>7, <2>8 DEF Handlers
  <2> QED
    BY <2>3, <2>9 DEF CommitInv
<1> QED
  BY <1>1, <1>2

LEMMA CommitDaemon ==
    CommitInv /\ TypeOK /\ (Serves \/ DaemonCommits \/ DaemonEndsTurn \/ ForeignTurn)
      => CommitInv'
<1> SUFFICES ASSUME CommitInv, TypeOK,
                    Serves \/ DaemonCommits \/ DaemonEndsTurn \/ ForeignTurn
             PROVE  CommitInv'
  OBVIOUS
<1>1. ClientFrame /\ thread \subseteq thread'
  BY DEF Serves, DaemonStarts, DaemonSteers, DaemonRefuses, DaemonAborts, DaemonCommits,
         DaemonEndsTurn, ForeignTurn, TurnEnds, daemonVars
<1>2. DeliveredIsCommitted'
  BY <1>1, NothingDelivered DEF CommitInv, ClientFrame, ledgerVars, pushedVars
<1>3. frames \in Seq(Honest')
  BY <1>1, HonestMonotone DEF CommitInv
<1>4. ASSUME NEW g \in Frame, g.kind \notin {"commit", "completed"} PROVE g \in Honest'
  BY <1>4 DEF Honest
<1>5. ASSUME turn \in Turns, NEW full, NEW status, TurnEnds(status, full),
             full \in BOOLEAN, status \in {"completed", "interrupted", "failed"}
      PROVE  frames' \in Seq(Honest')
  <2> DEFINE done == [kind |-> "completed", turn |-> turn, status |-> status,
                      full |-> full, items |-> IF full THEN thread ELSE {}]
  <2>1. done \in Honest'
    BY <1>1, <1>5 DEF Honest, Frame, TypeOK
  <2>2. [kind |-> "idle"] \in Honest'
    BY <1>4 DEF Frame
  <2>3. CASE TurnFrames
    <3>1. frames' = frames \o <<done>> \o <<[kind |-> "idle"]>>
      BY <1>5, <2>3 DEF TurnEnds
    <3> HIDE DEF done
    <3> QED
      BY <1>3, <2>1, <2>2, <3>1, GrownChannel
  <2>4. CASE ~TurnFrames
    <3>1. frames' = frames \o <<>> \o <<[kind |-> "idle"]>>
      BY <1>5, <2>4 DEF TurnEnds
    <3> QED
      BY <1>3, <2>2, <3>1, GrownChannel
  <2> QED
    BY <2>3, <2>4
<1>6. ASSUME NEW t \in Turns
      PROVE  /\ frames \o StartedNotice(t) \in Seq(Honest')
             /\ \A g \in Honest' : frames \o StartedNotice(t) \o <<g>> \in Seq(Honest')
  <2>1. [kind |-> "started", turn |-> t] \in Honest'
    BY <1>4 DEF Frame
  <2>2. frames \o <<>> = frames
    BY <1>3
  <2>3. CASE TurnFrames
    BY <1>3, <2>1, <2>3, GrownChannel DEF StartedNotice
  <2>4. CASE ~TurnFrames
    BY <1>3, <2>2, <2>4, GrownChannel DEF StartedNotice
  <2> QED
    BY <2>3, <2>4
<1>7. ASSUME NEW c \in Callers, NEW t \in Turns \cup {NoTurn}, NEW s \in Outcomes
      PROVE  ReplyTo(c, t, s) \in Honest'
  BY <1>4 DEF ReplyTo, Frame
<1>8. ASSUME requests # <<>>
      PROVE  Head(requests) \in Request
  BY <1>8, HeadOfChannel DEF TypeOK
<1>9. CASE DaemonStarts
  <2>1. Head(requests).id \in Callers
    BY <1>8, <1>9 DEF DaemonStarts, ServesNext, Request
  <2>2. PICK t \in Turns \ opened :
          frames' = frames \o StartedNotice(t)
                           \o <<ReplyTo(Head(requests).id, t, "started")>>
    BY <1>9 DEF DaemonStarts
  <2>3. ReplyTo(Head(requests).id, t, "started") \in Honest'
    BY <1>7, <2>1 DEF Outcomes
  <2> QED
    BY <1>2, <1>6, <2>2, <2>3 DEF CommitInv
<1>10. CASE DaemonSteers
  <2>1. Head(requests).id \in Callers
    BY <1>8, <1>10 DEF DaemonSteers, ServesNext, Request
  <2>2. ReplyTo(Head(requests).id, turn, "steered") \in Honest'
    BY <1>7, <2>1 DEF Outcomes, TypeOK
  <2> QED
    BY <1>2, <1>3, <1>10, <2>2, GrownChannel DEF DaemonSteers, CommitInv
<1>11. CASE DaemonRefuses
  <2>1. Head(requests).id \in Callers
    BY <1>8, <1>11 DEF DaemonRefuses, ServesNext, Request
  <2>2. ReplyTo(Head(requests).id, NoTurn, "refused") \in Honest'
    BY <1>7, <2>1 DEF Outcomes
  <2> QED
    BY <1>2, <1>3, <1>11, <2>2, GrownChannel DEF DaemonRefuses, CommitInv
<1>12. CASE DaemonAborts
  <2>1. Head(requests).turn \in Turns
    BY <1>8, <1>12 DEF DaemonAborts, ServesNext, Request
  <2>2. CASE turn = Head(requests).turn /\ TurnEnds("interrupted", FALSE)
    BY <1>2, <1>5, <2>1, <2>2 DEF CommitInv
  <2>3. CASE UNCHANGED frames
    BY <1>2, <1>3, <2>3 DEF CommitInv
  <2> QED
    BY <1>12, <2>2, <2>3 DEF DaemonAborts
<1>13. CASE DaemonCommits
  <2>1. PICK id \in accepted : /\ thread' = thread \cup {id}
                               /\ frames' = Append(frames, [kind |-> "commit", id |-> id])
    BY <1>13 DEF DaemonCommits
  <2>2. [kind |-> "commit", id |-> id] \in Honest'
    BY <2>1 DEF Honest, Frame, TypeOK
  <2> QED
    BY <1>2, <1>3, <2>1, <2>2, GrownChannel DEF CommitInv
<1>14. CASE DaemonEndsTurn
  <2>1. turn \in Turns
    BY <1>14 DEF DaemonEndsTurn, TypeOK
  <2> QED
    BY <1>2, <1>5, <1>14, <2>1 DEF DaemonEndsTurn, CommitInv
<1>15. CASE ForeignTurn
  <2>1. PICK t \in Turns \ opened : frames' = frames \o StartedNotice(t)
    BY <1>15 DEF ForeignTurn
  <2> QED
    BY <1>2, <1>6, <2>1 DEF CommitInv
<1> QED
  BY <1>9, <1>10, <1>11, <1>12, <1>13, <1>14, <1>15 DEF Serves

LEMMA CommitInductive ==
    /\ Init => CommitInv
    /\ CommitInv /\ TypeOK /\ [Next]_vars => CommitInv'
<1>1. Init => CommitInv
  BY DEF Init, CommitInv, DeliveredIsCommitted
<1>2. CommitInv /\ UNCHANGED vars => CommitInv'
  BY DEF CommitInv, DeliveredIsCommitted, HasCommitted, Honest, vars, ledgerVars,
         pushedVars, daemonVars
<1>3. CommitInv /\ TypeOK /\ Next => CommitInv'
  BY StepGroups, CommitCalls, CommitHandlers, CommitDaemon
<1> QED
  BY <1>1, <1>2, <1>3

\* A message is Delivered, or shown as a turn, only once the daemon's thread
\* holds it, whichever frames are reordered, lost to a failed thread/read or
\* handled while a send, a tap or a Stop is under way.
THEOREM DeliveredCommitted == Spec => []DeliveredIsCommitted
<1>1. Spec => []CommitInv
  BY CommitInductive, TypeCorrect, PTL DEF Spec
<1>2. CommitInv => DeliveredIsCommitted
  BY DEF CommitInv
<1> QED
  BY <1>1, <1>2, PTL

-------------------------------------------------------------------------------
(* Handed back once.                                                         *)

\* What a step has to leave alone for the hand-off of m to stand.
SameCall(m) == /\ pc'[m] = pc[m]
               /\ \A c \in Combined : m \in members'[c] => m \in members[c]

\* Stop and a failed tap: R is returned, all that is returned handed back.
LEMMA ReturnAndHandBack ==
    ASSUME HandBackInv, TypeOK, NEW R \in SUBSET Messages,
           \A m \in R : state[m] # "none",
           state' = Settled({}, R), HandBack(state'),
           \A m \in Messages : SameCall(m)
    PROVE  HandBackInv'
<1> SUFFICES ASSUME NEW m \in Messages PROVE HandBackOf(m)'
  BY DEF HandBackInv
<1>1. HandBackOf(m) /\ SameCall(m)
  BY DEF HandBackInv
<1>2. state'[m] = IF m \in R THEN "returned" ELSE state[m]
  BY DEF Settled
<1>3. state'[m] = "none" <=> state[m] = "none"
  BY <1>2
<1>4. state'[m] = "returned" \/ state'[m] = state[m]
  BY <1>2
<1>5. copies[m] \in Nat
  BY DEF TypeOK
<1>6. CASE state'[m] = "returned" /\ m \notin handedOff
  <2>1. m \in handedOff' /\ copies'[m] = copies[m] + 1
    BY <1>6 DEF HandBack, NotYetHandedOff, Returned
  <2>2. pc[m] # "failed" /\ copies[m] = 0
    BY <1>1, <1>3, <1>6 DEF HandBackOf
  <2> QED
    BY <1>1, <1>3, <1>6, <2>1, <2>2 DEF HandBackOf, SameCall
<1>7. CASE ~(state'[m] = "returned" /\ m \notin handedOff)
  <2>1. (m \in handedOff' <=> m \in handedOff) /\ copies'[m] = copies[m]
    BY <1>7 DEF HandBack, NotYetHandedOff, Returned
  <2> QED
    BY <1>1, <1>3, <1>4, <2>1 DEF HandBackOf, SameCall
<1> QED
  BY <1>6, <1>7

\* The reader settles entries that exist and hands nothing back.
LEMMA SettleHandsNothing ==
    ASSUME HandBackInv, NEW D, NEW R,
           \A m \in D \cup R : state[m] # "none",
           state' = Settled(D, R), UNCHANGED <<handedOff, copies, pc, members>>
    PROVE  HandBackInv'
<1> SUFFICES ASSUME NEW m \in Messages PROVE HandBackOf(m)'
  BY DEF HandBackInv
<1>1. HandBackOf(m)
  BY DEF HandBackInv
<1>2. /\ state'[m] = "none" <=> state[m] = "none"
      /\ state'[m] \in {"delivered", "returned"} \/ state'[m] = state[m]
  BY DEF Settled
<1> QED
  BY <1>1, <1>2 DEF HandBackOf

\* Steps that keep the state and the copies of m.
LEMMA HandsNothing ==
    ASSUME NEW m \in Messages, HandBackOf(m), state'[m] = state[m],
           UNCHANGED <<handedOff, copies>>, SameCall(m)
    PROVE  HandBackOf(m)'
  BY DEF HandBackOf, SameCall

LEMMA HandBackCalls == HandBackInv /\ TypeOK /\ Actions => HandBackInv'
<1> SUFFICES ASSUME HandBackInv, TypeOK, Actions PROVE HandBackInv'
  OBVIOUS
<1>0. \A c \in Combined : c \notin Messages
  BY IdsAssumption
<1>1. CASE Stop
  <2>1. \A m \in Messages : SameCall(m)
    BY <1>1 DEF Stop, SameCall
  <2>2. Live \in SUBSET Messages /\ \A m \in Live : state[m] # "none"
    BY DEF Live
  <2> QED
    BY <1>1, <2>1, <2>2, ReturnAndHandBack DEF Stop
<1>2. CASE FlushUserTurns
  BY <1>2, HandsNothing DEF FlushUserTurns, callVars, SameCall, HandBackInv
<1>3. ASSUME NEW n \in Messages, BeginSend(n) PROVE HandBackInv'
  <2>1. /\ pc[n] = "ready" /\ pc' = [pc EXCEPT ![n] = "waiting"]
        /\ state' = [state EXCEPT ![n] = "sending"]
        /\ UNCHANGED <<handedOff, copies, members>>
    BY <1>3 DEF BeginSend, pushedVars
  <2>2. ASSUME NEW m \in Messages, m # n PROVE HandBackOf(m)'
    BY <2>1, <2>2, HandsNothing DEF HandBackInv, SameCall, TypeOK
  <2>3. HandBackOf(n)'
    <3>1. pc'[n] = "waiting" /\ state'[n] = "sending"
      BY <2>1 DEF TypeOK, Callers
    <3>2. HandBackOf(n)
      BY DEF HandBackInv
    <3> QED
      BY <2>1, <3>1, <3>2 DEF HandBackOf
  <2> QED
    BY <2>2, <2>3 DEF HandBackInv
<1>4. ASSUME NEW n \in Messages, SendAccepted(n) PROVE HandBackInv'
  <2>1. /\ pc[n] \in {"started", "steered"} /\ pc' = [pc EXCEPT ![n] = "done"]
        /\ UNCHANGED <<handedOff, copies, members>>
    BY <1>4 DEF SendAccepted
  <2>2. ASSUME NEW m \in Messages, m # n PROVE HandBackOf(m)'
    <3>1. state'[m] = state[m]
      BY <1>4, <2>2 DEF SendAccepted, TypeOK
    <3> QED
      BY <2>1, <2>2, <3>1, HandsNothing DEF HandBackInv, SameCall, TypeOK
  <2>3. HandBackOf(n)'
    <3>1. HandBackOf(n)
      BY DEF HandBackInv
    <3>2. pc'[n] = "done"
      BY <2>1 DEF TypeOK, Callers
    <3>3. state'[n] # "none"
      <4>1. state[n] # "none"
        BY <2>1, <3>1 DEF HandBackOf
      <4>2. state'[n] = "returned" \/ state'[n] = AckedState(n)
        BY <1>4 DEF SendAccepted, TypeOK
      <4> QED
        BY <4>1, <4>2 DEF AckedState
    <3> QED
      BY <2>1, <3>1, <3>2, <3>3 DEF HandBackOf
  <2> QED
    BY <2>2, <2>3 DEF HandBackInv
<1>5. ASSUME NEW n \in Messages, SendRefused(n) PROVE HandBackInv'
  <2>1. pc[n] = "refused" /\ UNCHANGED <<handedOff, members>>
    BY <1>5 DEF SendRefused, StillSending
  <2>2. HandBackOf(n) /\ pc[n] # "done" /\ pc[n] # "failed"
    BY <2>1 DEF HandBackInv
  <2>3. CASE /\ state[n] = "sending"
             /\ state' = [state EXCEPT ![n] = "none"]
             /\ copies' = [copies EXCEPT ![n] = @ + 1]
             /\ pc' = [pc EXCEPT ![n] = "failed"]
    <3>1. ASSUME NEW m \in Messages, m # n PROVE HandBackOf(m)'
      <4>1. state'[m] = state[m] /\ copies'[m] = copies[m] /\ pc'[m] = pc[m]
        BY <2>3, <3>1 DEF TypeOK, Callers
      <4>2. HandBackOf(m)
        BY DEF HandBackInv
      <4> QED
        BY <2>1, <4>1, <4>2 DEF HandBackOf
    <3>2. HandBackOf(n)'
      <4>1. n \notin handedOff /\ copies[n] = 0 /\ \A c \in Combined : n \notin members[c]
        BY <2>2, <2>3 DEF HandBackOf
      <4>2. state'[n] = "none" /\ copies'[n] = 1 /\ pc'[n] = "failed"
        BY <2>3, <4>1 DEF TypeOK, Callers
      <4> QED
        BY <2>1, <4>1, <4>2 DEF HandBackOf
    <3> QED
      BY <3>1, <3>2 DEF HandBackInv
  <2>4. CASE /\ state[n] # "sending"
             /\ pc' = [pc EXCEPT ![n] = "done"]
             /\ UNCHANGED <<state, copies>>
    <3>1. ASSUME NEW m \in Messages, m # n PROVE HandBackOf(m)'
      BY <2>1, <2>4, <3>1, HandsNothing DEF HandBackInv, SameCall, TypeOK
    <3>2. HandBackOf(n)'
      <4>1. pc'[n] = "done" /\ state[n] # "none"
        BY <2>1, <2>2, <2>4 DEF TypeOK, Callers, HandBackOf
      <4> QED
        BY <2>1, <2>2, <2>4, <4>1 DEF HandBackOf
    <3> QED
      BY <3>1, <3>2 DEF HandBackInv
  <2> QED
    BY <1>5, <2>3, <2>4 DEF SendRefused, StillSending
<1>6. ASSUME NEW c \in Combined, TapFlip(c) PROVE HandBackInv'
  <2>1. /\ state' = [m \in Messages |-> IF m \in Queued THEN "sending" ELSE state[m]]
        /\ pc' = [pc EXCEPT ![c] = "flipped"]
        /\ members' = [members EXCEPT ![c] = Queued]
        /\ UNCHANGED <<handedOff, copies>>
    BY <1>6 DEF TapFlip
  <2>2. ASSUME NEW m \in Messages PROVE HandBackOf(m)'
    <3>1. HandBackOf(m) /\ pc'[m] = pc[m]
      BY <1>0, <2>1 DEF HandBackInv, TypeOK, Callers
    <3>2. m \in Queued => pc[m] = "done" /\ state[m] = "queued"
      BY <3>1 DEF Queued, HandBackOf
    <3>3. \A d \in Combined : m \in members'[d] => pc'[m] = "done"
      BY <2>1, <3>1, <3>2 DEF HandBackOf, TypeOK
    <3>4. state'[m] = IF m \in Queued THEN "sending" ELSE state[m]
      BY <2>1
    <3> QED
      BY <2>1, <3>1, <3>2, <3>3, <3>4 DEF HandBackOf
  <2> QED
    BY <2>2 DEF HandBackInv
<1>7. ASSUME NEW c \in Combined, TapCombine(c) \/ TapAccepted(c) PROVE HandBackInv'
  <2>1. UNCHANGED <<state, handedOff, copies>>
    BY <1>7 DEF TapCombine, TapAccepted
  <2>2. ASSUME NEW m \in Messages PROVE SameCall(m)
    <3>1. pc'[m] = pc[m]
      BY <1>0, <1>7 DEF TapCombine, TapAccepted, TypeOK, Callers
    <3>2. CASE TapCombine(c)
      <4>1. PICK remaining : /\ remaining \subseteq members[c]
                             /\ members' = [members EXCEPT ![c] = remaining]
        BY <3>2 DEF TapCombine
      <4> QED
        BY <3>1, <4>1 DEF SameCall, TypeOK
    <3>3. CASE TapAccepted(c)
      BY <3>1, <3>3 DEF TapAccepted, SameCall
    <3> QED
      BY <1>7, <3>2, <3>3
  <2> QED
    BY <2>1, <2>2, HandsNothing DEF HandBackInv
<1>8. ASSUME NEW c \in Combined, TapRefused(c) PROVE HandBackInv'
  <2>1. \A m \in Messages : SameCall(m)
    BY <1>0, <1>8 DEF TapRefused, SameCall, TypeOK, Callers
  <2>2. members[c] \in SUBSET Messages /\ \A m \in members[c] : state[m] # "none"
    BY DEF HandBackInv, HandBackOf, TypeOK
  <2> QED
    BY <1>8, <2>1, <2>2, ReturnAndHandBack DEF TapRefused
<1>9. ASSUME NEW c \in Callers, Submit(c) PROVE HandBackInv'
  <2>1. /\ pc[c] = "waiting" /\ pc' = [pc EXCEPT ![c] = "inRpc"]
        /\ UNCHANGED <<state, handedOff, copies, members>>
    BY <1>9 DEF Submit, ledgerVars, pushedVars
  <2>2. ASSUME NEW m \in Messages PROVE HandBackOf(m)'
    <3>1. HandBackOf(m)
      BY DEF HandBackInv
    <3>2. pc'[m] = pc[m] \/ (pc[m] = "waiting" /\ pc'[m] = "inRpc")
      BY <2>1 DEF TypeOK, Callers
    <3> QED
      BY <2>1, <3>1, <3>2 DEF HandBackOf
  <2> QED
    BY <2>2 DEF HandBackInv
<1> QED
  BY <1>1, <1>2, <1>3, <1>4, <1>5, <1>6, <1>7, <1>8, <1>9 DEF Actions

LEMMA HandBackHandlers == HandBackInv /\ TypeOK /\ Handlers => HandBackInv'
<1> SUFFICES ASSUME HandBackInv, TypeOK, Handlers PROVE HandBackInv'
  OBVIOUS
<1>1. CASE HandleReply
  <2>1. PICK c : pc[c] = "inRpc" /\ c = Head(frames).id
    BY <1>1 DEF HandleReply
  <2>2. Head(frames) \in Frame /\ Head(frames).kind = "reply"
    BY <1>1, HeadOfChannel DEF HandleReply, MayHandle, TypeOK
  <2>3. Head(frames).status \in Outcomes
    BY <2>2 DEF Frame
  <2>4. /\ pc' = [pc EXCEPT ![c] = Head(frames).status]
        /\ UNCHANGED <<state, handedOff, copies, members>>
    BY <1>1, <2>1 DEF HandleReply, HandlerFrame
  <2>5. ASSUME NEW m \in Messages PROVE HandBackOf(m)'
    <3>1. HandBackOf(m)
      BY DEF HandBackInv
    <3>2. \/ pc'[m] = pc[m]
          \/ pc[m] = "inRpc" /\ pc'[m] \in Outcomes
      BY <2>1, <2>3, <2>4 DEF TypeOK, Callers
    <3> QED
      BY <2>4, <3>1, <3>2 DEF HandBackOf, Outcomes
  <2> QED
    BY <2>5 DEF HandBackInv
<1>2. CASE HandleTurnStarted
  BY <1>2, SettleHandsNothing DEF HandleTurnStarted, HandlerFrame, Settle
<1>3. CASE HandleItemCompleted
  <2>1. PICK D : state' = Settled(D, {}) /\ \A m \in D : state[m] # "none"
    BY <1>3 DEF HandleItemCompleted, Settle, ResendGroup, Live
  <2> QED
    BY <1>3, <2>1, SettleHandsNothing DEF HandleItemCompleted, HandlerFrame
<1>4. ASSUME NEW owned \in SUBSET Live, NEW evidence, SettleAgainst(owned, evidence),
             UNCHANGED <<handedOff, copies, pc, members>>
      PROVE  HandBackInv'
  BY <1>4, SettleHandsNothing DEF SettleAgainst, Settle, Uncommitted, Live
<1>5. CASE HandleTurnCompleted
  <2>1. UNCHANGED <<handedOff, copies, pc, members>>
    BY <1>5 DEF HandleTurnCompleted, HandlerFrame
  <2>2. CASE Settle({}, {}, {})
    BY <2>1, <2>2, SettleHandsNothing DEF Settle
  <2> QED
    BY <1>4, <1>5, <2>1, <2>2 DEF HandleTurnCompleted
<1>6. CASE HandleIdle
  BY <1>4, <1>6 DEF HandleIdle, HandlerFrame
<1>7. CASE FlushUserTurns
  BY <1>7, HandBackCalls DEF Actions
<1> QED
  BY <1>1, <1>2, <1>3, <1>5, <1>6, <1>7 DEF Handlers

LEMMA HandBackInductive ==
    /\ Init => HandBackInv
    /\ HandBackInv /\ TypeOK /\ [Next]_vars => HandBackInv'
<1>1. Init => HandBackInv
  BY DEF Init, HandBackInv, HandBackOf, Callers
<1>2. ASSUME HandBackInv, UNCHANGED <<state, handedOff, copies, pc, members>>
      PROVE  HandBackInv'
  BY <1>2 DEF HandBackInv, HandBackOf
<1>3. UNCHANGED vars => UNCHANGED <<state, handedOff, copies, pc, members>>
  BY DEF vars, ledgerVars, pushedVars, callVars
<1>4. Serves \/ DaemonCommits \/ DaemonEndsTurn \/ ForeignTurn
        => UNCHANGED <<state, handedOff, copies, pc, members>>
  BY DEF Serves, DaemonStarts, DaemonSteers, DaemonRefuses, DaemonAborts, DaemonCommits,
         DaemonEndsTurn, ForeignTurn, ClientFrame, ledgerVars, pushedVars, callVars
<1>5. HandBackInv /\ TypeOK /\ Next => HandBackInv'
  BY <1>2, <1>4, StepGroups, HandBackCalls, HandBackHandlers
<1> QED
  BY <1>1, <1>2, <1>3, <1>5

\* Over all the Stops, failed taps, failed POSTs and late commits that may each
\* return a message, its text comes back to the composer at most once.
THEOREM HandedBack == Spec => []HandedBackOnce
<1>1. Spec => []HandBackInv
  BY HandBackInductive, TypeCorrect, PTL DEF Spec
<1>2. HandBackInv => HandedBackOnce
  <2> SUFFICES ASSUME HandBackInv, NEW m \in Messages PROVE copies[m] <= 1
    BY DEF HandedBackOnce
  <2>1. copies[m] \in {0, 1}
    BY DEF HandBackInv, HandBackOf
  <2> QED
    BY <2>1
<1> QED
  BY <1>1, <1>2, PTL

-------------------------------------------------------------------------------
(* The order of what is under way on a channel.                              *)

\* What is on the channel s.
In(s) == {s[i] : i \in 1 .. Len(s)}

\* On the channel s nothing of B comes after something of A.
NoneAfter(s, A, B) ==
    \A i, j \in 1 .. Len(s) : i < j /\ s[i] \in A => s[j] \notin B

\* The channel t holds no more than s, in the order of s.
Shrinks(s, t) ==
    In(t) \subseteq In(s) /\ \A A, B : NoneAfter(s, A, B) => NoneAfter(t, A, B)

\* The channel t is s with the frames of X, each once, after all that is there.
Grows(s, t, X) ==
    /\ In(t) = In(s) \cup X
    /\ \A A, B :
         /\ NoneAfter(s, A, B)
         /\ X \cap B # {} => In(s) \cap A = {}
         /\ \A x, y \in X : x \in A /\ y \in B => x = y
         => NoneAfter(t, A, B)

\* Taking the first frame off a channel leaves the others, in their order, and
\* nothing that may not come after it.
LEMMA TailShrinks ==
    ASSUME NEW S, NEW s \in Seq(S), s # <<>>
    PROVE  /\ Shrinks(s, Tail(s)) /\ Head(s) \in In(s) /\ Head(s) \in S
           /\ \A A, B : NoneAfter(s, A, B) /\ Head(s) \in A => In(Tail(s)) \cap B = {}
<1>1. /\ Len(s) \in Nat /\ Len(s) # 0 /\ Head(s) = s[1] /\ Len(Tail(s)) = Len(s) - 1
      /\ \A i \in 1 .. Len(Tail(s)) : i + 1 \in 1 .. Len(s) /\ Tail(s)[i] = s[i + 1]
  BY HeadTailProperties
<1>2. In(Tail(s)) \subseteq In(s) /\ Head(s) \in In(s) /\ Head(s) \in S
  BY <1>1, HeadTailProperties DEF In
<1>3. ASSUME NEW A, NEW B, NoneAfter(s, A, B)
      PROVE  /\ NoneAfter(Tail(s), A, B)
             /\ Head(s) \in A => In(Tail(s)) \cap B = {}
  <2>1. ASSUME NEW i \in 1 .. Len(Tail(s)), NEW j \in 1 .. Len(Tail(s)), i < j,
               Tail(s)[i] \in A
        PROVE  Tail(s)[j] \notin B
    <3>1. i + 1 < j + 1 /\ s[i + 1] \in A
      BY <1>1, <2>1
    <3> QED
      BY <1>1, <1>3, <3>1 DEF NoneAfter
  <2>2. ASSUME Head(s) \in A, NEW j \in 1 .. Len(Tail(s)) PROVE Tail(s)[j] \notin B
    <3>1. 1 \in 1 .. Len(s) /\ 1 < j + 1 /\ s[1] \in A
      BY <1>1, <2>2
    <3> QED
      BY <1>1, <1>3, <3>1 DEF NoneAfter
  <2> QED
    BY <2>1, <2>2 DEF NoneAfter, In
<1> QED
  BY <1>2, <1>3 DEF Shrinks

\* A channel that is left alone neither loses nor gains.
LEMMA StillShrinks ==
    ASSUME NEW s
    PROVE  Shrinks(s, s) /\ Grows(s, s, {})
  BY DEF Shrinks, Grows

\* A frame put at the end of a channel comes after all that is there.
LEMMA AppendGrows ==
    ASSUME NEW S, NEW s \in Seq(S), NEW x
    PROVE  Grows(s, Append(s, x), {x})
<1>1. /\ Len(s) \in Nat /\ Len(Append(s, x)) = Len(s) + 1
      /\ \A i \in 1 .. Len(s) : Append(s, x)[i] = s[i]
      /\ Append(s, x)[Len(s) + 1] = x
  OBVIOUS
<1>2. In(Append(s, x)) = In(s) \cup {x}
  BY <1>1 DEF In
<1>3. ASSUME NEW A, NEW B, NoneAfter(s, A, B), x \in B => In(s) \cap A = {}
      PROVE  NoneAfter(Append(s, x), A, B)
  <2>1. ASSUME NEW i \in 1 .. Len(s) + 1, NEW j \in 1 .. Len(s) + 1, i < j,
               Append(s, x)[i] \in A, Append(s, x)[j] \in B
        PROVE  FALSE
    <3>1. i \in 1 .. Len(s) /\ s[i] \in A /\ s[i] \in In(s)
      BY <1>1, <2>1 DEF In
    <3>2. CASE j \in 1 .. Len(s)
      BY <1>1, <1>3, <2>1, <3>1, <3>2 DEF NoneAfter
    <3>3. CASE j = Len(s) + 1
      BY <1>1, <1>3, <2>1, <3>1, <3>3
    <3> QED
      BY <1>1, <3>2, <3>3
  <2> QED
    BY <1>1, <2>1 DEF NoneAfter
<1> QED
  BY <1>2, <1>3 DEF Grows

\* Two growths, of different frames, are one.
LEMMA GrowsTwice ==
    ASSUME NEW s, NEW t, NEW u, NEW X, NEW Y, Grows(s, t, X), Grows(t, u, Y),
           \A x \in X : x \notin Y
    PROVE  Grows(s, u, X \cup Y)
<1>1. In(u) = In(s) \cup (X \cup Y)
  BY DEF Grows
<1>2. ASSUME NEW A, NEW B, NoneAfter(s, A, B),
             (X \cup Y) \cap B # {} => In(s) \cap A = {},
             \A x, y \in X \cup Y : x \in A /\ y \in B => x = y
      PROVE  NoneAfter(u, A, B)
  <2>1. NoneAfter(t, A, B)
    BY <1>2 DEF Grows
  <2>2. Y \cap B # {} => In(t) \cap A = {}
    BY <1>2 DEF Grows
  <2> QED
    BY <1>2, <2>1, <2>2 DEF Grows
<1> QED
  BY <1>1, <1>2 DEF Grows

\* An order that holds of more holds of less.
LEMMA NoneAfterLess ==
    ASSUME NEW s, NEW A, NEW B, NEW C, NEW D, NoneAfter(s, A, B),
           In(s) \cap C \subseteq A, In(s) \cap D \subseteq B
    PROVE  NoneAfter(s, C, D)
  BY DEF NoneAfter, In

\* The order of a channel that grows, for two kinds of frame.
LEMMA GrownOrder ==
    ASSUME NEW s, NEW t, NEW X, Grows(s, t, X), NEW A, NEW B, NoneAfter(s, A, B),
           X \cap B # {} => In(s) \cap A = {},
           \A x, y \in X : x \in A /\ y \in B => x = y
    PROVE  NoneAfter(t, A, B)
  BY DEF Grows

\* The order of a channel that shrinks, for two kinds of frame.
LEMMA ShrunkOrder ==
    ASSUME NEW s, NEW t, Shrinks(s, t), NEW A, NEW B, NoneAfter(s, A, B)
    PROVE  NoneAfter(t, A, B)
  BY DEF Shrinks

-------------------------------------------------------------------------------
(* What each step does to the two channels.                                  *)

\* Requests that get a reply, the replies, and the other frames that are ordered.
Asking == {r \in Request : r.kind # "interrupt"}
Replies == {f \in Frame : f.kind = "reply"}
Idles == {f \in Frame : f.kind = "idle"}
SteersOf(m) == {f \in Replies : f.status = "steered" /\ f.id = m}
CommitsOf(m) == {f \in Frame : f.kind = "commit" /\ f.id = m}

\* The frames by which the client learns of the turn t.
Announcing(t) == {f \in Frame : /\ f.kind \in {"started", "reply"} /\ f.turn = t
                                /\ f.kind = "reply" => f.status = "started"}

\* What is on the channels is of their types.
LEMMA OnChannels ==
    ASSUME TypeOK
    PROVE  In(requests) \subseteq Request /\ In(frames) \subseteq Frame
<1>1. \A S : \A s \in Seq(S) : In(s) \subseteq S
  BY DEF In
<1> QED
  BY <1>1 DEF TypeOK

\* A request that is served leaves the others.
LEMMA ServedChannel ==
    ASSUME TypeOK, NEW kind, ServesNext(kind)
    PROVE  /\ Shrinks(requests, requests')
           /\ Head(requests) \in In(requests) /\ Head(requests) \in Request
           /\ Head(requests).kind = kind
           /\ \A A, B : NoneAfter(requests, A, B) /\ Head(requests) \in A
                          => In(requests') \cap B = {}
  BY TailShrinks DEF TypeOK, ServesNext

\* A frame that is handled leaves the others.
LEMMA HandledChannel ==
    ASSUME TypeOK, frames # <<>>, frames' = Tail(frames)
    PROVE  /\ Shrinks(frames, frames')
           /\ Head(frames) \in In(frames) /\ Head(frames) \in Frame
           /\ \A A, B : NoneAfter(frames, A, B) /\ Head(frames) \in A
                          => In(frames') \cap B = {}
  BY TailShrinks DEF TypeOK

\* The notice of a new turn, where there is one.
LEMMA NoticeGrows ==
    ASSUME TypeOK, NEW t \in Turns
    PROVE  /\ frames \o StartedNotice(t) \in Seq(Frame)
           /\ \E X \in SUBSET {[kind |-> "started", turn |-> t]} :
                  Grows(frames, frames \o StartedNotice(t), X)
<1>1. frames \o StartedNotice(t) \in Seq(Frame)
  BY TurnOpensType
<1>2. CASE TurnFrames
  <2>1. frames \o StartedNotice(t) = Append(frames, [kind |-> "started", turn |-> t])
    BY <1>2 DEF StartedNotice, TypeOK
  <2>2. Grows(frames, frames \o StartedNotice(t), {[kind |-> "started", turn |-> t]})
    BY <2>1, AppendGrows DEF TypeOK
  <2> QED
    BY <1>1, <2>2
<1>3. CASE ~TurnFrames
  <2>1. frames \o StartedNotice(t) = frames
    BY <1>3, ConcatEmptySeq DEF StartedNotice, TypeOK
  <2> QED
    BY <1>1, <2>1, StillShrinks
<1> QED
  BY <1>2, <1>3

\* A start that is accepted: the notice, and then the reply.
LEMMA StartsGrow ==
    ASSUME TypeOK, NEW t \in Turns, NEW c \in Callers,
           frames' = frames \o StartedNotice(t) \o <<ReplyTo(c, t, "started")>>
    PROVE  \E X \in SUBSET Frame :
              /\ Grows(frames, frames', X)
              /\ \A f \in X : \/ f = ReplyTo(c, t, "started")
                              \/ f = [kind |-> "started", turn |-> t]
<1> DEFINE g == frames \o StartedNotice(t)
           r == ReplyTo(c, t, "started")
           n == [kind |-> "started", turn |-> t]
<1>1. PICK X \in SUBSET {n} : Grows(frames, g, X)
  BY NoticeGrows
<1>2. g \in Seq(Frame)
  BY NoticeGrows
<1>3. r \in Frame /\ n \in Frame /\ r # n
  BY DEF ReplyTo, Frame, Outcomes
<1>4. frames' = g \o <<r>>
  OBVIOUS
<1> HIDE DEF g, r, n
<1>5. frames' = Append(g, r)
  BY <1>2, <1>3, <1>4
<1>6. Grows(g, frames', {r})
  BY <1>2, <1>5, AppendGrows
<1>7. Grows(frames, frames', X \cup {r})
  BY <1>1, <1>3, <1>6, GrowsTwice
<1>8. X \cup {r} \in SUBSET Frame /\ \A f \in X \cup {r} : f = r \/ f = n
  BY <1>1, <1>3
<1> QED
  BY <1>7, <1>8 DEF r, n

\* A turn that ends: its turn/completed, where there is one, and then idle.
LEMMA EndsGrow ==
    ASSUME TypeOK, turn # NoTurn, NEW full \in BOOLEAN,
           NEW status \in {"completed", "interrupted", "failed"},
           TurnEnds(status, full)
    PROVE  \E X \in SUBSET Frame :
              /\ Grows(frames, frames', X)
              /\ \A f \in X : f.kind \in {"completed", "idle"}
<1> DEFINE done == [kind |-> "completed", turn |-> turn, status |-> status,
                    full |-> full, items |-> IF full THEN thread ELSE {}]
           idle == [kind |-> "idle"]
           g == frames \o (IF TurnFrames THEN <<done>> ELSE <<>>)
<1>1. done \in Frame /\ idle \in Frame /\ done # idle
  BY DEF Frame, TypeOK
<1>2. done.kind = "completed" /\ idle.kind = "idle"
  OBVIOUS
<1>3. frames' = g \o <<idle>>
  BY DEF TurnEnds
<1> HIDE DEF done, idle
<1>4. g \in Seq(Frame) /\ \E X \in SUBSET {done} : Grows(frames, g, X)
  <2>1. CASE TurnFrames
    <3>1. g = Append(frames, done) /\ g \in Seq(Frame)
      BY <1>1, <2>1 DEF TypeOK
    <3>2. Grows(frames, g, {done})
      BY <3>1, AppendGrows DEF TypeOK
    <3> QED
      BY <3>1, <3>2
  <2>2. CASE ~TurnFrames
    <3>1. g = frames
      BY <2>2, ConcatEmptySeq DEF TypeOK
    <3> HIDE DEF g
    <3> QED
      BY <3>1, StillShrinks DEF TypeOK
  <2> QED
    BY <2>1, <2>2
<1> HIDE DEF g
<1>5. frames' = Append(g, idle)
  BY <1>1, <1>3, <1>4
<1>6. Grows(g, frames', {idle})
  BY <1>4, <1>5, AppendGrows
<1>7. PICK X \in SUBSET {done} : Grows(frames, g, X)
  BY <1>4
<1>8. Grows(frames, frames', X \cup {idle})
  BY <1>1, <1>6, <1>7, GrowsTwice
<1> QED
  BY <1>1, <1>2, <1>7, <1>8

\* Ending the active turn asks for nothing that gets a reply.
LEMMA EndActiveGrows ==
    ASSUME TypeOK, EndActiveTurn
    PROVE  \E X \in SUBSET {[kind |-> "interrupt", id |-> NoId, turn |-> activeTurn]} :
              Grows(requests, requests', X) /\ (X # {} => activeTurn \in Turns)
<1>1. CASE Ended = {}
  <2>1. requests' = requests
    BY <1>1 DEF EndActiveTurn
  <2> QED
    BY <2>1, StillShrinks
<1>2. CASE Ended # {}
  <2>1. activeTurn \in Turns
    BY <1>2 DEF Ended, TypeOK
  <2> QED
    BY <1>2, <2>1, AppendGrows DEF EndActiveTurn, TypeOK
<1> QED
  BY <1>1, <1>2

-------------------------------------------------------------------------------
(* One call at a time.                                                       *)

\* The calls that the daemon has not accepted: before the request, or refused.
NotAccepted == {"ready", "flipped", "waiting", "refused"}

\* There is one request or reply under way at most, and it is of the call that waits.
OneOutstanding ==
    /\ NoneAfter(requests, Asking, Asking) /\ NoneAfter(frames, Replies, Replies)
    /\ In(requests) \cap Asking = {} \/ In(frames) \cap Replies = {}
    /\ \A c, d \in Callers : pc[c] = "inRpc" /\ pc[d] = "inRpc" => c = d

\* A call has its id with the daemon only between its request's service and its end.
CallInv ==
    /\ OneOutstanding
    /\ \A r \in In(requests) \cap Asking :
           pc[r.id] = "inRpc" /\ r.id \notin accepted \cup thread
    /\ \A f \in In(frames) \cap Replies :
           pc[f.id] = "inRpc" /\ (f.status = "refused" => f.id \notin accepted \cup thread)
    /\ \A c \in Callers : pc[c] \in NotAccepted => c \notin accepted \cup thread

\* A call moves on without a request: it was not waiting for one, and is not.
Moves(c) == /\ pc'[c] # pc[c] => pc[c] # "inRpc" /\ pc'[c] # "inRpc"
            /\ pc'[c] \in NotAccepted => pc[c] \in NotAccepted

\* Steps that send or take nothing that gets a reply.
LEMMA CallsUnchanged ==
    ASSUME CallInv, TypeOK, \A c \in Callers : Moves(c),
           Shrinks(requests, requests') \/ \E X : Grows(requests, requests', X)
                                                  /\ X \cap Asking = {},
           Shrinks(frames, frames') \/ \E X : Grows(frames, frames', X)
                                              /\ X \cap Replies = {},
           (accepted' \cup thread') \cap Callers \subseteq accepted \cup thread
    PROVE  CallInv'
<1>1. /\ NoneAfter(requests', Asking, Asking)
      /\ In(requests') \cap Asking \subseteq In(requests)
  <2>1. CASE Shrinks(requests, requests')
    BY <2>1 DEF CallInv, OneOutstanding, Shrinks
  <2>2. ASSUME NEW X, Grows(requests, requests', X), X \cap Asking = {}
        PROVE  /\ NoneAfter(requests', Asking, Asking)
               /\ In(requests') \cap Asking \subseteq In(requests)
    <3>1. \A x, y \in X : x \in Asking /\ y \in Asking => x = y
      BY <2>2
    <3>2. NoneAfter(requests', Asking, Asking)
      BY <2>2, <3>1, GrownOrder DEF CallInv, OneOutstanding
    <3> QED
      BY <2>2, <3>2 DEF Grows
  <2> QED
    BY <2>1, <2>2
<1>2. /\ NoneAfter(frames', Replies, Replies)
      /\ In(frames') \cap Replies \subseteq In(frames)
  <2>1. CASE Shrinks(frames, frames')
    BY <2>1 DEF CallInv, OneOutstanding, Shrinks
  <2>2. ASSUME NEW X, Grows(frames, frames', X), X \cap Replies = {}
        PROVE  /\ NoneAfter(frames', Replies, Replies)
               /\ In(frames') \cap Replies \subseteq In(frames)
    <3>1. \A x, y \in X : x \in Replies /\ y \in Replies => x = y
      BY <2>2
    <3>2. NoneAfter(frames', Replies, Replies)
      BY <2>2, <3>1, GrownOrder DEF CallInv, OneOutstanding
    <3> QED
      BY <2>2, <3>2 DEF Grows
  <2> QED
    BY <2>1, <2>2
<1>3. \A r \in Asking : r.id \in Callers
  BY DEF Asking, Request
<1>4. \A f \in Replies : f.id \in Callers
  BY DEF Replies, Frame
<1>5. \A c \in Callers : (pc[c] = "inRpc" <=> pc'[c] = "inRpc")
  BY DEF Moves
<1>6. \A c \in Callers : c \notin accepted \cup thread => c \notin accepted' \cup thread'
  OBVIOUS
<1>7. OneOutstanding'
  <2>1. In(requests') \cap Asking = {} \/ In(frames') \cap Replies = {}
    BY <1>1, <1>2 DEF CallInv, OneOutstanding
  <2> QED
    BY <1>1, <1>2, <1>5, <2>1 DEF CallInv, OneOutstanding, Asking, Replies
<1>8. \A r \in In(requests') \cap Asking :
          pc'[r.id] = "inRpc" /\ r.id \notin accepted' \cup thread'
  BY <1>1, <1>3, <1>5, <1>6 DEF CallInv
<1>9. \A f \in In(frames') \cap Replies :
          pc'[f.id] = "inRpc"
          /\ (f.status = "refused" => f.id \notin accepted' \cup thread')
  BY <1>2, <1>4, <1>5, <1>6 DEF CallInv
<1>10. \A c \in Callers : pc'[c] \in NotAccepted => c \notin accepted' \cup thread'
  BY <1>6 DEF CallInv, Moves
<1> QED
  BY <1>7, <1>8, <1>9, <1>10 DEF CallInv, Asking, Replies

\* The daemon answers the one request under way.
LEMMA CallsAnswered ==
    ASSUME CallInv, TypeOK, NEW kind \in {"start", "steer"}, ServesNext(kind), pc' = pc,
           NEW X \in SUBSET Frame, Grows(frames, frames', X),
           \A f, g \in X \cap Replies : f = g /\ f.id = Head(requests).id
               /\ (f.status = "refused" => accepted' = accepted),
           accepted' \subseteq accepted \cup {Head(requests).id}, thread' = thread
    PROVE  CallInv'
<1> DEFINE r == Head(requests)
<1>1. r \in In(requests) \cap Asking /\ Shrinks(requests, requests')
  BY ServedChannel DEF Asking
<1>2. In(requests') \cap Asking = {} /\ NoneAfter(requests', Asking, Asking)
  BY <1>1, ServedChannel DEF CallInv, OneOutstanding, Shrinks
<1>3. In(frames) \cap Replies = {}
  BY <1>1 DEF CallInv, OneOutstanding
<1>4. pc[r.id] = "inRpc" /\ r.id \notin accepted \cup thread
  BY <1>1 DEF CallInv
<1>5. In(frames') \cap Replies \subseteq X
  BY <1>3 DEF Grows
<1>6. NoneAfter(frames', Replies, Replies)
  <2>1. NoneAfter(frames, Replies, Replies)
    BY DEF CallInv, OneOutstanding
  <2>2. \A x, y \in X : x \in Replies /\ y \in Replies => x = y
    OBVIOUS
  <2> QED
    BY <1>3, <2>1, <2>2, GrownOrder
<1>7. \A f \in In(frames') \cap Replies :
          pc'[f.id] = "inRpc"
          /\ (f.status = "refused" => f.id \notin accepted' \cup thread')
  BY <1>4, <1>5
<1>8. \A c \in Callers : pc'[c] \in NotAccepted => c \notin accepted' \cup thread'
  BY <1>4 DEF CallInv, NotAccepted
<1> HIDE DEF r
<1>9. OneOutstanding'
  BY <1>2, <1>6 DEF CallInv, OneOutstanding, Asking, Replies
<1> QED
  BY <1>2, <1>7, <1>8, <1>9 DEF CallInv, Asking, Replies

\* Sends, taps and Stops keep one call at a time.
LEMMA CallActions == CallInv /\ TypeOK /\ Actions => CallInv'
<1> SUFFICES ASSUME CallInv, TypeOK, Actions PROVE CallInv'
  OBVIOUS
<1>0. /\ \A c \in Combined : c \notin Messages
      /\ Shrinks(frames, frames) /\ Shrinks(requests, requests)
  BY IdsAssumption, StillShrinks
<1> DEFINE Still == UNCHANGED <<accepted, thread>> /\ Shrinks(frames, frames')
           Unasked == \E X : Grows(requests, requests', X) /\ X \cap Asking = {}
<1>1. ASSUME EndActiveTurn PROVE Unasked
  <2>1. PICK X \in SUBSET {[kind |-> "interrupt", id |-> NoId, turn |-> activeTurn]} :
          Grows(requests, requests', X)
    BY <1>1, EndActiveGrows
  <2>2. X \cap Asking = {}
    BY <2>1 DEF Asking
  <2> QED
    BY <2>1, <2>2
<1>2. ASSUME Stop \/ FlushUserTurns PROVE CallInv'
  <2>1. Still /\ \A c \in Callers : Moves(c)
    BY <1>0, <1>2 DEF Stop, FlushUserTurns, daemonVars, callVars, Moves
  <2>2. Unasked \/ Shrinks(requests, requests')
    BY <1>0, <1>1, <1>2 DEF Stop, FlushUserTurns
  <2> QED
    BY <2>1, <2>2, CallsUnchanged
<1>3. ASSUME NEW m \in Messages, BeginSend(m) \/ SendAccepted(m) \/ SendRefused(m)
      PROVE  CallInv'
  <2>1. Still /\ Shrinks(requests, requests')
    BY <1>0, <1>3 DEF BeginSend, SendAccepted, SendRefused, daemonVars
  <2>2. ASSUME NEW c \in Callers PROVE Moves(c)
    BY <1>3 DEF BeginSend, SendAccepted, SendRefused, Moves, NotAccepted, TypeOK, Callers
  <2> QED
    BY <2>1, <2>2, CallsUnchanged
<1>4. ASSUME NEW d \in Combined, TapFlip(d) PROVE CallInv'
  <2>1. Still /\ Unasked
    BY <1>0, <1>1, <1>4 DEF TapFlip, daemonVars
  <2>2. ASSUME NEW c \in Callers PROVE Moves(c)
    BY <1>4 DEF TapFlip, Moves, NotAccepted, TypeOK, Callers
  <2> QED
    BY <2>1, <2>2, CallsUnchanged
<1>5. ASSUME NEW d \in Combined, TapCombine(d) \/ TapAccepted(d) \/ TapRefused(d)
      PROVE  CallInv'
  <2>1. Still /\ Shrinks(requests, requests')
    BY <1>0, <1>5 DEF TapCombine, TapAccepted, TapRefused, daemonVars
  <2>2. /\ pc[d] \in {"flipped", "started", "steered", "refused"}
        /\ \/ pc' = [pc EXCEPT ![d] = "done"]
           \/ pc[d] = "flipped" /\ pc' = [pc EXCEPT ![d] = "waiting"]
    <3>1. CASE TapCombine(d)
      BY <3>1 DEF TapCombine
    <3>2. CASE TapAccepted(d) \/ TapRefused(d)
      BY <3>2 DEF TapAccepted, TapRefused
    <3> QED
      BY <1>5, <3>1, <3>2
  <2>3. ASSUME NEW c \in Callers PROVE Moves(c)
    BY <2>2 DEF Moves, NotAccepted, TypeOK, Callers
  <2> QED
    BY <2>1, <2>3, CallsUnchanged
<1>6. ASSUME NEW c \in Callers, Submit(c) PROVE CallInv'
  <2> DEFINE ask == [kind |-> IF activeTurn = NoTurn THEN "start" ELSE "steer",
                     id |-> c, turn |-> activeTurn]
  <2>1. /\ pc[c] = "waiting" /\ \A d \in Callers : pc[d] # "inRpc"
        /\ pc' = [pc EXCEPT ![c] = "inRpc"] /\ requests' = Append(requests, ask)
        /\ UNCHANGED <<frames, accepted, thread>>
    BY <1>6 DEF Submit, daemonVars
  <2>2. Grows(requests, requests', {ask})
    BY <2>1, AppendGrows DEF TypeOK
  <2>3. \A r \in Asking : r.id \in Callers
    BY DEF Asking, Request
  <2>4. \A f \in Replies : f.id \in Callers
    BY DEF Replies, Frame
  <2>5. In(requests) \cap Asking = {} /\ In(frames) \cap Replies = {}
    BY <2>1, <2>3, <2>4 DEF CallInv
  <2>6. ask.id = c
    OBVIOUS
  <2> HIDE DEF ask
  <2>7. NoneAfter(requests', Asking, Asking)
    <3>1. NoneAfter(requests, Asking, Asking)
      BY DEF CallInv, OneOutstanding
    <3>2. \A x, y \in {ask} : x \in Asking /\ y \in Asking => x = y
      OBVIOUS
    <3> QED
      BY <2>2, <2>5, <3>1, <3>2, GrownOrder
  <2>8. In(requests') \cap Asking \subseteq {ask}
    BY <2>2, <2>5 DEF Grows
  <2>9. pc'[c] = "inRpc" /\ \A d \in Callers : d # c => pc'[d] = pc[d]
    BY <2>1 DEF TypeOK
  <2>10. c \notin accepted \cup thread
    BY <2>1 DEF CallInv, NotAccepted
  <2>11. OneOutstanding'
    BY <2>1, <2>5, <2>7, <2>9 DEF CallInv, OneOutstanding, Asking, Replies
  <2>12. \A r \in In(requests') \cap Asking :
           pc'[r.id] = "inRpc" /\ r.id \notin accepted' \cup thread'
    BY <2>1, <2>6, <2>8, <2>9, <2>10
  <2>13. \A d \in Callers : pc'[d] \in NotAccepted => d \notin accepted' \cup thread'
    BY <2>1, <2>9, <2>10 DEF CallInv, NotAccepted
  <2> QED
    BY <2>1, <2>5, <2>11, <2>12, <2>13 DEF CallInv, Asking, Replies
<1> QED
  BY <1>2, <1>3, <1>4, <1>5, <1>6 DEF Actions

\* Handling a frame does: the reply that is taken was the only one.
LEMMA CallHandlers == CallInv /\ TypeOK /\ Handlers => CallInv'
<1> SUFFICES ASSUME CallInv, TypeOK, Handlers PROVE CallInv'
  OBVIOUS
<1>0. Shrinks(requests, requests)
  BY StillShrinks
<1>1. CASE FlushUserTurns
  BY <1>1, CallActions DEF Actions
<1>2. ASSUME ~FlushUserTurns, ~HandleReply PROVE CallInv'
  <2>1. /\ frames # <<>> /\ frames' = Tail(frames)
        /\ UNCHANGED <<pc, requests, accepted, thread>>
    BY <1>2 DEF Handlers, HandlerFrame, daemonVars, MayHandle,
                HandleTurnStarted, HandleItemCompleted, HandleTurnCompleted, HandleIdle
  <2>2. Shrinks(frames, frames') /\ Shrinks(requests, requests')
    BY <1>0, <2>1, HandledChannel
  <2> QED
    BY <2>1, <2>2, CallsUnchanged DEF Moves
<1>3. CASE HandleReply
  <2> DEFINE f == Head(frames)
  <2>1. /\ frames # <<>> /\ frames' = Tail(frames) /\ f.kind = "reply"
        /\ pc[f.id] = "inRpc" /\ pc' = [pc EXCEPT ![f.id] = f.status]
        /\ UNCHANGED <<requests, accepted, thread>>
    BY <1>3 DEF HandleReply, MayHandle, HandlerFrame, daemonVars
  <2>2. f \in In(frames) \cap Replies /\ Shrinks(frames, frames')
    BY <2>1, HandledChannel DEF Replies
  <2>3. In(frames') \cap Replies = {}
    BY <2>1, <2>2, HandledChannel DEF CallInv, OneOutstanding
  <2>4. In(requests') \cap Asking = {}
    BY <2>1, <2>2 DEF CallInv, OneOutstanding
  <2>5. f.id \in Callers /\ f.status \in Outcomes
    BY <2>2 DEF Replies, Frame
  <2>6. f.status = "refused" => f.id \notin accepted \cup thread
    BY <2>2 DEF CallInv
  <2>7. NoneAfter(frames', Replies, Replies) /\ NoneAfter(requests', Asking, Asking)
    BY <2>1, <2>2 DEF CallInv, OneOutstanding, Shrinks
  <2> HIDE DEF f
  <2>8. pc'[f.id] = f.status /\ \A c \in Callers : c # f.id => pc'[c] = pc[c]
    BY <2>1, <2>5 DEF TypeOK
  <2>9. \A c \in Callers : pc'[c] # "inRpc"
    BY <2>1, <2>5, <2>8 DEF CallInv, OneOutstanding, Outcomes
  <2>10. \A c \in Callers : pc'[c] \in NotAccepted => c \notin accepted' \cup thread'
    BY <2>1, <2>5, <2>6, <2>8 DEF CallInv, NotAccepted, Outcomes
  <2> QED
    BY <2>3, <2>4, <2>7, <2>9, <2>10 DEF CallInv, OneOutstanding, Asking, Replies
<1> QED
  BY <1>1, <1>2, <1>3

\* The daemon does: it answers the one request there is, and accepts its id alone.
LEMMA CallDaemon ==
    CallInv /\ TypeOK /\ (Serves \/ DaemonCommits \/ DaemonEndsTurn \/ ForeignTurn)
      => CallInv'
<1> SUFFICES ASSUME CallInv, TypeOK,
                    Serves \/ DaemonCommits \/ DaemonEndsTurn \/ ForeignTurn
             PROVE  CallInv'
  OBVIOUS
<1>0. pc' = pc /\ Shrinks(requests, requests) /\ Shrinks(frames, frames)
  BY StillShrinks DEF Serves, DaemonStarts, DaemonSteers, DaemonRefuses, DaemonAborts,
         DaemonCommits, DaemonEndsTurn, ForeignTurn, ClientFrame, callVars
<1> DEFINE r == Head(requests)
           Quietly == \E X : Grows(frames, frames', X) /\ X \cap Replies = {}
<1>1. ASSUME requests # <<>> PROVE r \in Request
  BY <1>1, HeadOfChannel DEF TypeOK
<1>2. ASSUME turn # NoTurn, NEW full \in BOOLEAN,
             NEW status \in {"completed", "interrupted", "failed"}, TurnEnds(status, full)
      PROVE  Quietly /\ accepted' = {}
  <2>1. PICK X \in SUBSET Frame : /\ Grows(frames, frames', X)
                                  /\ \A f \in X : f.kind \in {"completed", "idle"}
    BY <1>2, EndsGrow
  <2>2. X \cap Replies = {}
    BY <2>1 DEF Replies
  <2> QED
    BY <1>2, <2>1, <2>2 DEF TurnEnds
<1>3. CASE DaemonStarts
  <2>1. r.id \in Callers
    BY <1>1, <1>3 DEF DaemonStarts, ServesNext, Request
  <2>2. PICK t \in Turns : frames' = frames \o StartedNotice(t) \o <<ReplyTo(r.id, t, "started")>>
    BY <1>3 DEF DaemonStarts
  <2>3. PICK X \in SUBSET Frame :
          /\ Grows(frames, frames', X)
          /\ \A f \in X : \/ f = ReplyTo(r.id, t, "started")
                          \/ f = [kind |-> "started", turn |-> t]
    BY <2>1, <2>2, StartsGrow
  <2>4. \A f, g \in X \cap Replies : f = g /\ f.id = r.id /\ f.status = "started"
    BY <2>3 DEF Replies, ReplyTo
  <2>5. ServesNext("start") /\ accepted' = {r.id} /\ thread' = thread
    BY <1>3 DEF DaemonStarts
  <2> QED
    BY <1>0, <2>3, <2>4, <2>5, CallsAnswered
<1>4. CASE DaemonSteers \/ DaemonRefuses
  <2>1. PICK kind \in {"start", "steer"} : ServesNext(kind)
    BY <1>4 DEF DaemonSteers, DaemonRefuses
  <2>2. r.id \in Callers
    BY <1>1, <2>1 DEF ServesNext, Request
  <2>3. PICK x \in {ReplyTo(r.id, turn, "steered"), ReplyTo(r.id, NoTurn, "refused")} :
          /\ frames' = Append(frames, x)
          /\ x.status = "refused" => accepted' = accepted
    BY <1>4 DEF DaemonSteers, DaemonRefuses, daemonVars, ReplyTo
  <2>4. x \in Frame /\ x.id = r.id
    BY <2>2, <2>3 DEF ReplyTo, Frame, Outcomes, TypeOK
  <2>5. accepted' \subseteq accepted \cup {r.id} /\ thread' = thread
    BY <1>4 DEF DaemonSteers, DaemonRefuses, daemonVars
  <2>6. Grows(frames, frames', {x})
    BY <2>3, AppendGrows DEF TypeOK
  <2> QED
    BY <1>0, <2>1, <2>3, <2>4, <2>5, <2>6, CallsAnswered
<1>5. CASE DaemonAborts
  <2>1. Shrinks(requests, requests') /\ r.turn \in Turns /\ thread' = thread
    BY <1>5, ServedChannel DEF DaemonAborts, Request
  <2>2. Quietly \/ Shrinks(frames, frames')
    BY <1>0, <1>2, <1>5, <2>1, IdsAssumption DEF DaemonAborts
  <2>3. accepted' \subseteq accepted
    BY <1>5 DEF DaemonAborts, TurnEnds
  <2> QED
    BY <1>0, <2>1, <2>2, <2>3, CallsUnchanged DEF Moves
<1>6. CASE DaemonCommits
  <2>1. PICK id \in accepted :
          /\ accepted' = accepted \ {id} /\ thread' = thread \cup {id}
          /\ frames' = Append(frames, [kind |-> "commit", id |-> id])
    BY <1>6 DEF DaemonCommits
  <2>2. Grows(frames, frames', {[kind |-> "commit", id |-> id]})
    BY <2>1, AppendGrows DEF TypeOK
  <2>3. {[kind |-> "commit", id |-> id]} \cap Replies = {}
    BY DEF Replies
  <2>4. Shrinks(requests, requests')
    BY <1>0, <1>6 DEF DaemonCommits
  <2> QED
    BY <1>0, <2>1, <2>2, <2>3, <2>4, CallsUnchanged DEF Moves
<1>7. CASE DaemonEndsTurn
  <2>1. Quietly /\ accepted' = {} /\ UNCHANGED <<thread, requests>>
    BY <1>2, <1>7 DEF DaemonEndsTurn
  <2> QED
    BY <1>0, <2>1, CallsUnchanged DEF Moves
<1>8. CASE ForeignTurn
  <2>1. PICK t \in Turns, id \in Foreign : /\ frames' = frames \o StartedNotice(t)
                                           /\ accepted' = {id}
                                           /\ UNCHANGED <<thread, requests>>
    BY <1>8 DEF ForeignTurn
  <2>2. PICK X \in SUBSET {[kind |-> "started", turn |-> t]} : Grows(frames, frames', X)
    BY <2>1, NoticeGrows
  <2>3. X \cap Replies = {}
    BY <2>2 DEF Replies
  <2>4. (accepted' \cup thread') \cap Callers \subseteq accepted \cup thread
    BY <2>1, IdsAssumption DEF Callers
  <2> QED
    BY <1>0, <2>1, <2>2, <2>3, <2>4, CallsUnchanged DEF Moves
<1> QED
  BY <1>3, <1>4, <1>5, <1>6, <1>7, <1>8 DEF Serves

\* One call at a time is inductive, whatever races there are.
LEMMA CallInductive ==
    /\ Init => CallInv
    /\ CallInv /\ TypeOK /\ [Next]_vars => CallInv'
<1>1. Init => CallInv
  <2> SUFFICES ASSUME Init PROVE CallInv
    OBVIOUS
  <2>1. requests = <<>> /\ frames = <<>> /\ In(<<>>) = {}
    BY DEF Init, In
  <2>2. \A A, B : NoneAfter(<<>>, A, B)
    BY DEF NoneAfter
  <2> QED
    BY <2>1, <2>2 DEF Init, CallInv, OneOutstanding
<1>2. CallInv /\ UNCHANGED vars => CallInv'
  BY DEF CallInv, OneOutstanding, Asking, Replies, vars, callVars, daemonVars
<1>3. CallInv /\ TypeOK /\ Next => CallInv'
  BY StepGroups, CallActions, CallHandlers, CallDaemon
<1> QED
  BY <1>1, <1>2, <1>3

-------------------------------------------------------------------------------
(* What the client knows of the running turn.                                *)

\* The turns the client, its requests and the frames name have been opened.
OpenedTurns ==
    /\ turn \in opened \cup {NoTurn} /\ activeTurn \in opened \cup {NoTurn}
    /\ \A r \in In(requests) :
           r.turn \in opened \cup {NoTurn} /\ (r.kind = "steer" => r.turn # NoTurn)
    /\ \A f \in In(frames) :
           f.kind \in {"started", "reply"} => f.turn \in opened \cup {NoTurn}

\* The client has heard of the running turn.
Heard == \/ activeTurn = turn
         \/ \E r \in In(requests) : r.kind = "steer" /\ r.turn = turn

\* An idle under way is older than the running turn: it comes before every frame by
\* which the client learns of that turn.
TurnInv ==
    /\ OpenedTurns
    /\ turn # NoTurn => /\ NoneAfter(frames, Announcing(turn), Idles)
                        /\ Heard => In(frames) \cap Idles = {}

\* A request that the client makes is about the turn it believes is running.
OfActiveTurn(r) == r.turn = activeTurn /\ (r.kind = "steer" => activeTurn # NoTurn)

\* The client takes frames, forgets its turn, makes requests about it.
LEMMA TurnForgotten ==
    ASSUME TurnInv, UNCHANGED <<turn, opened>>, activeTurn' \in {activeTurn, NoTurn},
           Shrinks(frames, frames'),
           \A r \in In(requests') : r \in In(requests) \/ OfActiveTurn(r)
    PROVE  TurnInv'
<1>1. In(frames') \subseteq In(frames)
  BY DEF Shrinks
<1>2. OpenedTurns'
  BY <1>1 DEF TurnInv, OpenedTurns, OfActiveTurn
<1>3. ASSUME turn # NoTurn PROVE NoneAfter(frames', Announcing(turn), Idles)
  BY <1>3 DEF TurnInv, Shrinks
<1>4. ASSUME turn # NoTurn, Heard' PROVE In(frames') \cap Idles = {}
  <2>1. Heard
    BY <1>4 DEF Heard, OfActiveTurn
  <2> QED
    BY <1>1, <1>4, <2>1 DEF TurnInv
<1> QED
  BY <1>2, <1>3, <1>4 DEF TurnInv, Announcing, Idles

\* The client learns of a turn from the first frame.
LEMMA TurnLearnt ==
    ASSUME TurnInv, TypeOK, UNCHANGED <<turn, opened, requests>>,
           frames # <<>>, frames' = Tail(frames),
           Head(frames) \in Announcing(Head(frames).turn), activeTurn' = Head(frames).turn
    PROVE  TurnInv'
<1>1. Shrinks(frames, frames') /\ Head(frames) \in In(frames)
  BY HandledChannel
<1>2. Head(frames).turn \in opened \cup {NoTurn}
  BY <1>1 DEF TurnInv, OpenedTurns, Announcing
<1>3. OpenedTurns'
  BY <1>1, <1>2 DEF TurnInv, OpenedTurns, Shrinks
<1>4. ASSUME turn # NoTurn PROVE NoneAfter(frames', Announcing(turn), Idles)
  BY <1>1, <1>4 DEF TurnInv, Shrinks
<1>5. ASSUME turn # NoTurn, Heard' PROVE In(frames') \cap Idles = {}
  <2>1. CASE Head(frames).turn = turn
    <3>1. NoneAfter(frames, Announcing(turn), Idles)
      BY <1>5 DEF TurnInv
    <3> QED
      BY <2>1, <3>1, HandledChannel
  <2>2. CASE Head(frames).turn # turn
    <3>1. Heard
      BY <1>5, <2>2 DEF Heard
    <3> QED
      BY <1>1, <1>5, <3>1 DEF TurnInv, Shrinks
  <2> QED
    BY <2>1, <2>2
<1> QED
  BY <1>3, <1>4, <1>5 DEF TurnInv, Announcing, Idles

\* The client's own steps keep what it knows of the turn.
LEMMA TurnActions == TurnInv /\ TypeOK /\ Actions => TurnInv'
<1> SUFFICES ASSUME TurnInv, TypeOK, Actions PROVE TurnInv'
  OBVIOUS
<1> DEFINE Asked == \A r \in In(requests') : r \in In(requests) \/ OfActiveTurn(r)
<1>1. ASSUME EndActiveTurn PROVE Asked /\ activeTurn' \in {activeTurn, NoTurn}
  <2>1. PICK X \in SUBSET {[kind |-> "interrupt", id |-> NoId, turn |-> activeTurn]} :
          Grows(requests, requests', X)
    BY <1>1, EndActiveGrows
  <2>2. \A r \in X : OfActiveTurn(r)
    BY <2>1 DEF OfActiveTurn
  <2> QED
    BY <1>1, <2>1, <2>2 DEF Grows, EndActiveTurn
<1>2. ASSUME NEW c \in Callers, Submit(c) PROVE Asked
  <2> DEFINE ask == [kind |-> IF activeTurn = NoTurn THEN "start" ELSE "steer",
                     id |-> c, turn |-> activeTurn]
  <2>1. Grows(requests, requests', {ask})
    BY <1>2, AppendGrows DEF Submit, TypeOK
  <2>2. OfActiveTurn(ask)
    BY DEF OfActiveTurn
  <2> QED
    BY <2>1, <2>2 DEF Grows
<1>3. UNCHANGED <<turn, opened, frames>>
  BY DEF Actions, Stop, FlushUserTurns, BeginSend, SendAccepted, SendRefused, TapFlip,
         TapCombine, TapAccepted, TapRefused, Submit, daemonVars
<1>4. Asked /\ activeTurn' \in {activeTurn, NoTurn}
  <2>1. requests' = requests => Asked
    OBVIOUS
  <2>2. CASE Stop \/ \E c \in Combined : TapFlip(c)
    BY <1>1, <2>2 DEF Stop, TapFlip
  <2>3. CASE \E c \in Callers : Submit(c)
    BY <1>2, <2>3 DEF Submit
  <2>4. CASE /\ ~Stop /\ ~\E c \in Combined : TapFlip(c)
             /\ ~\E c \in Callers : Submit(c)
    BY <2>1, <2>4 DEF Actions, FlushUserTurns, BeginSend, SendAccepted, SendRefused,
         TapCombine, TapAccepted, TapRefused
  <2> QED
    BY <2>2, <2>3, <2>4
<1>5. Shrinks(frames, frames')
  BY <1>3, StillShrinks
<1> QED
  BY <1>3, <1>4, <1>5, TurnForgotten

\* Handling a frame does.
LEMMA TurnHandlers == TurnInv /\ TypeOK /\ Handlers => TurnInv'
<1> SUFFICES ASSUME TurnInv, TypeOK, Handlers PROVE TurnInv'
  OBVIOUS
<1> DEFINE f == Head(frames)
<1>1. CASE FlushUserTurns
  BY <1>1, TurnActions DEF Actions
<1>2. ASSUME ~FlushUserTurns PROVE TurnInv'
  <2>1. frames # <<>> /\ frames' = Tail(frames) /\ UNCHANGED <<turn, opened, requests>>
    BY <1>2 DEF Handlers, HandlerFrame, daemonVars, MayHandle, HandleReply,
                HandleTurnStarted, HandleItemCompleted, HandleTurnCompleted, HandleIdle
  <2>2. Shrinks(frames, frames') /\ f \in Frame
    BY <2>1, HandledChannel
  <2>3. CASE activeTurn' \in {activeTurn, NoTurn}
    BY <2>1, <2>2, <2>3, TurnForgotten
  <2>4. CASE activeTurn' \notin {activeTurn, NoTurn}
    <3>1. HandleTurnStarted \/ (HandleReply /\ f.status = "started")
      BY <1>2, <2>4 DEF Handlers, HandleReply, HandleItemCompleted, HandleTurnCompleted,
                        HandleIdle
    <3>2. f.kind \in {"started", "reply"} /\ activeTurn' = f.turn
      BY <3>1 DEF HandleTurnStarted, HandleReply, MayHandle
    <3>3. f.kind = "reply" => f.status = "started"
      BY <3>1 DEF HandleTurnStarted, MayHandle
    <3>4. f \in Announcing(f.turn)
      BY <2>2, <3>2, <3>3 DEF Announcing
    <3> QED
      BY <2>1, <3>2, <3>4, TurnLearnt
  <2> QED
    BY <2>3, <2>4
<1> QED
  BY <1>1, <1>2

\* The daemon does: it opens turns that are new, and its idles come last.
LEMMA TurnDaemon ==
    TurnInv /\ TypeOK /\ (Serves \/ DaemonCommits \/ DaemonEndsTurn \/ ForeignTurn)
      => TurnInv'
<1> SUFFICES ASSUME TurnInv, TypeOK,
                    Serves \/ DaemonCommits \/ DaemonEndsTurn \/ ForeignTurn
             PROVE  TurnInv'
  OBVIOUS
<1>1. activeTurn' = activeTurn /\ In(requests') \subseteq In(requests)
  BY ServedChannel
     DEF Serves, DaemonStarts, DaemonSteers, DaemonRefuses, DaemonAborts, Shrinks,
         DaemonCommits, DaemonEndsTurn, ForeignTurn, ClientFrame
<1>2. ASSUME NEW t \in Turns \ opened, turn' = t, opened' = opened \cup {t},
             NEW X \in SUBSET Frame, Grows(frames, frames', X),
             \A f \in X : f.kind \in {"started", "reply"} /\ f.turn = t
      PROVE  TurnInv'
  <2>1. OpenedTurns'
    BY <1>1, <1>2 DEF TurnInv, OpenedTurns, Grows
  <2>2. t # NoTurn
    BY IdsAssumption
  <2>3. NoneAfter(frames', Announcing(t), Idles)
    <3>1. In(frames) \cap Announcing(t) = {}
      BY <2>2, <1>2 DEF TurnInv, OpenedTurns, Announcing
    <3>2. NoneAfter(frames, Announcing(t), Idles)
      BY <3>1 DEF NoneAfter, In
    <3>3. X \cap Idles = {}
      BY <1>2 DEF Idles
    <3>4. \A x, y \in X : x \in Announcing(t) /\ y \in Idles => x = y
      BY <3>3
    <3> QED
      BY <1>2, <3>1, <3>2, <3>3, <3>4, GrownOrder
  <2>4. ~Heard'
    BY <1>1, <1>2, <2>2 DEF Heard, TurnInv, OpenedTurns
  <2> QED
    BY <1>2, <2>1, <2>3, <2>4 DEF TurnInv, Announcing, Idles
<1>3. ASSUME turn' = NoTurn, opened' = opened, NEW X, Grows(frames, frames', X),
             \A f \in X : f.kind \in {"completed", "idle"}
      PROVE  TurnInv'
  BY <1>1, <1>3 DEF TurnInv, OpenedTurns, Grows
<1>4. ASSUME UNCHANGED <<turn, opened>>, NEW X, Grows(frames, frames', X), X \cap Idles = {},
             \A f \in X : f.kind \in {"started", "reply"} => f.turn \in opened \cup {NoTurn}
      PROVE  TurnInv'
  <2>1. OpenedTurns'
    BY <1>1, <1>4 DEF TurnInv, OpenedTurns, Grows
  <2>2. ASSUME turn # NoTurn PROVE NoneAfter(frames', Announcing(turn), Idles)
    <3>1. NoneAfter(frames, Announcing(turn), Idles)
      BY <2>2 DEF TurnInv
    <3>2. \A x, y \in X : x \in Announcing(turn) /\ y \in Idles => x = y
      BY <1>4
    <3> QED
      BY <1>4, <3>1, <3>2, GrownOrder
  <2>3. ASSUME turn # NoTurn, Heard' PROVE In(frames') \cap Idles = {}
    <3>1. Heard
      BY <1>1, <1>4, <2>3 DEF Heard
    <3> QED
      BY <1>4, <2>3, <3>1 DEF TurnInv, Grows
  <2> QED
    BY <1>4, <2>1, <2>2, <2>3 DEF TurnInv, Announcing, Idles
<1>5. ASSUME turn # NoTurn, NEW full \in BOOLEAN,
             NEW status \in {"completed", "interrupted", "failed"},
             TurnEnds(status, full), opened' = opened
      PROVE  TurnInv'
  <2>1. PICK X \in SUBSET Frame : /\ Grows(frames, frames', X)
                                  /\ \A f \in X : f.kind \in {"completed", "idle"}
    BY <1>5, EndsGrow
  <2>2. turn' = NoTurn
    BY <1>5 DEF TurnEnds
  <2> QED
    BY <1>3, <1>5, <2>1, <2>2
<1>6. ASSUME NEW x \in Frame, frames' = Append(frames, x), UNCHANGED <<turn, opened>>,
             x.kind # "idle",
             x.kind \in {"started", "reply"} => x.turn \in opened \cup {NoTurn}
      PROVE  TurnInv'
  <2>1. Grows(frames, frames', {x}) /\ {x} \cap Idles = {}
    BY <1>6, AppendGrows DEF TypeOK, Idles
  <2> QED
    BY <1>4, <1>6, <2>1
<1>7. CASE DaemonStarts
  <2>1. Head(requests).id \in Callers
    BY <1>7, ServedChannel DEF DaemonStarts, Request
  <2>2. PICK t \in Turns \ opened :
          /\ frames' = frames \o StartedNotice(t)
                               \o <<ReplyTo(Head(requests).id, t, "started")>>
          /\ turn' = t /\ opened' = opened \cup {t}
    BY <1>7 DEF DaemonStarts
  <2>3. PICK X \in SUBSET Frame :
          /\ Grows(frames, frames', X)
          /\ \A f \in X : \/ f = ReplyTo(Head(requests).id, t, "started")
                          \/ f = [kind |-> "started", turn |-> t]
    BY <2>1, <2>2, StartsGrow
  <2>4. \A f \in X : f.kind \in {"started", "reply"} /\ f.turn = t
    BY <2>3 DEF ReplyTo
  <2> QED
    BY <1>2, <2>2, <2>3, <2>4
<1>8. CASE DaemonSteers \/ DaemonRefuses
  <2>1. Head(requests).id \in Callers
    BY <1>8, ServedChannel DEF DaemonSteers, DaemonRefuses, Request
  <2>2. PICK x \in {ReplyTo(Head(requests).id, turn, "steered"),
                    ReplyTo(Head(requests).id, NoTurn, "refused")} :
          frames' = Append(frames, x) /\ UNCHANGED <<turn, opened>>
    BY <1>8 DEF DaemonSteers, DaemonRefuses, daemonVars
  <2>3. x \in Frame /\ x.kind = "reply" /\ x.turn \in opened \cup {NoTurn}
    BY <2>1, <2>2 DEF ReplyTo, Frame, Outcomes, TypeOK, TurnInv, OpenedTurns
  <2> QED
    BY <1>6, <2>2, <2>3
<1>9. CASE DaemonAborts
  <2>1. Head(requests).turn \in Turns /\ opened' = opened
    BY <1>9, ServedChannel DEF DaemonAborts, Request
  <2>2. CASE UNCHANGED <<turn, frames>>
    BY <1>4, <2>1, <2>2, StillShrinks
  <2>3. CASE turn = Head(requests).turn /\ TurnEnds("interrupted", FALSE)
    BY <1>5, <2>1, <2>3, IdsAssumption
  <2> QED
    BY <1>9, <2>2, <2>3 DEF DaemonAborts
<1>10. CASE DaemonCommits
  <2>1. PICK id \in accepted : frames' = Append(frames, [kind |-> "commit", id |-> id])
    BY <1>10 DEF DaemonCommits
  <2>2. [kind |-> "commit", id |-> id] \in Frame /\ UNCHANGED <<turn, opened>>
    BY <1>10, <2>1 DEF DaemonCommits, Frame, TypeOK
  <2> QED
    BY <1>6, <2>1, <2>2
<1>11. CASE DaemonEndsTurn
  BY <1>5, <1>11 DEF DaemonEndsTurn
<1>12. CASE ForeignTurn
  <2>1. PICK t \in Turns \ opened : /\ frames' = frames \o StartedNotice(t)
                                    /\ turn' = t /\ opened' = opened \cup {t}
    BY <1>12 DEF ForeignTurn
  <2>2. PICK X \in SUBSET {[kind |-> "started", turn |-> t]} : Grows(frames, frames', X)
    BY <2>1, NoticeGrows
  <2>3. X \in SUBSET Frame /\ \A f \in X : f.kind \in {"started", "reply"} /\ f.turn = t
    BY <2>2 DEF Frame
  <2> QED
    BY <1>2, <2>1, <2>2, <2>3
<1> QED
  BY <1>7, <1>8, <1>9, <1>10, <1>11, <1>12 DEF Serves

\* What the client knows of the turn is inductive, whatever races there are.
LEMMA TurnInductive ==
    /\ Init => TurnInv
    /\ TurnInv /\ TypeOK /\ [Next]_vars => TurnInv'
<1>1. Init => TurnInv
  BY DEF Init, TurnInv, OpenedTurns, In
<1>2. TurnInv /\ UNCHANGED vars => TurnInv'
  BY DEF TurnInv, OpenedTurns, Heard, Announcing, Idles, vars, daemonVars
<1>3. TurnInv /\ TypeOK /\ Next => TurnInv'
  BY StepGroups, TurnActions, TurnHandlers, TurnDaemon
<1> QED
  BY <1>1, <1>2, <1>3

-------------------------------------------------------------------------------
(* What a tap does to the messages it re-sends.                              *)

\* A message has the combined id of a tap only while and after that tap re-sends it,
\* and is in the hands of one tap at a time.
TagInv ==
    /\ \A m \in Messages : combinedId[m] # NoId => pc[m] = "done" /\ state[m] # "queued"
    /\ \A c \in TapsInProgress : \A m \in members[c] :
           /\ state[m] # "queued" /\ combinedId[m] \in {NoId, c}
           /\ pc[c] = "flipped" => combinedId[m] = NoId
    /\ \A c, d \in TapsInProgress : c # d => members[c] \cap members[d] = {}

\* A failed resend of a clean tap: no member was delivered meanwhile, and what it hands
\* back with them, all that is Returned, no send is still at work on.
CleanFail(c) == \A m \in Messages :
    /\ m \in members[c] => state[m] # "delivered"
    /\ state[m] = "returned" /\ m \notin handedOff => pc[m] = "done"

CleanResend == \A c \in Combined : TapRefused(c) => CleanFail(c)

\* A text that went back to the composer while its send waits is not parked by it: the
\* generation has moved on since the send began.
GenerationInv == \A m \in Messages :
    /\ genAtCall[m] <= generation
    /\ state[m] = "returned" /\ m \in handedOff /\ pc[m] # "done"
         => genAtCall[m] # generation

\* Steps that tag nothing and park nothing that a tap has in hand.
LEMMA TagsKept ==
    ASSUME TagInv, combinedId' = combinedId,
           \A m \in Messages : state'[m] = "queued" =>
               state[m] = "queued" \/ (combinedId[m] = NoId
                                       /\ \A c \in Combined : m \notin members[c]),
           \A m \in Messages : pc[m] = "done" => pc'[m] = "done",
           \A c \in Combined : c \in TapsInProgress' =>
               /\ c \in TapsInProgress /\ members'[c] = members[c]
               /\ members[c] \subseteq Messages
               /\ pc'[c] = "flipped" => pc[c] = "flipped"
    PROVE  TagInv'
<1>1. \A c \in TapsInProgress' : c \in Combined
  BY DEF TapsInProgress
<1>2. ASSUME NEW m \in Messages, combinedId'[m] # NoId
      PROVE  pc'[m] = "done" /\ state'[m] # "queued"
  BY <1>2 DEF TagInv
<1>3. ASSUME NEW c \in TapsInProgress', NEW m \in members'[c]
      PROVE  /\ state'[m] # "queued" /\ combinedId'[m] \in {NoId, c}
             /\ pc'[c] = "flipped" => combinedId'[m] = NoId
  <2>1. /\ c \in Combined /\ c \in TapsInProgress /\ m \in members[c] /\ m \in Messages
        /\ pc'[c] = "flipped" => pc[c] = "flipped"
    BY <1>1, <1>3
  <2>2. /\ state[m] # "queued" /\ combinedId[m] \in {NoId, c}
        /\ pc[c] = "flipped" => combinedId[m] = NoId
    BY <2>1 DEF TagInv
  <2> QED
    BY <2>1, <2>2
<1>4. ASSUME NEW c \in TapsInProgress', NEW d \in TapsInProgress', c # d
      PROVE  members'[c] \cap members'[d] = {}
  <2>1. /\ c \in TapsInProgress /\ d \in TapsInProgress
        /\ members'[c] = members[c] /\ members'[d] = members[d]
    BY <1>1, <1>4
  <2> QED
    BY <1>4, <2>1 DEF TagInv
<1> QED
  BY <1>2, <1>3, <1>4 DEF TagInv

\* Steps that a generation stands through: what is newly handed back, no send waits on,
\* or the generation has moved on.
LEMMA GenerationKept ==
    ASSUME GenerationInv, TypeOK, genAtCall' = genAtCall,
           generation' \in {generation, generation + 1},
           \A m \in Messages : pc[m] = "done" => pc'[m] = "done",
           generation' = generation => \A m \in Messages :
               state'[m] = "returned" /\ m \in handedOff' /\ pc'[m] # "done" =>
                   state[m] = "returned" /\ m \in handedOff
    PROVE  GenerationInv'
<1> SUFFICES ASSUME NEW m \in Messages
             PROVE  /\ genAtCall'[m] <= generation'
                    /\ state'[m] = "returned" /\ m \in handedOff' /\ pc'[m] # "done"
                         => genAtCall'[m] # generation'
  BY DEF GenerationInv
<1>1. genAtCall[m] <= generation /\ genAtCall[m] \in Nat /\ generation \in Nat
  BY DEF GenerationInv, TypeOK
<1>2. CASE generation' = generation + 1
  BY <1>1, <1>2
<1>3. CASE generation' = generation
  BY <1>1, <1>3 DEF GenerationInv
<1> QED
  BY <1>2, <1>3

\* The calls that are neither of these keep the tags and what has been handed back.
LEMMA SendsKeepTags ==
    ASSUME TagInv, GenerationInv, HandBackInv, TypeOK,
           NEW n \in Messages, BeginSend(n) \/ SendAccepted(n) \/ SendRefused(n)
    PROVE  TagInv' /\ GenerationInv'
<1>0. n \notin Combined
  BY IdsAssumption
<1>1. /\ pc[n] # "done" /\ pc[n] \in {"ready", "started", "steered", "refused"}
      /\ \A c \in Callers : c # n => pc'[c] = pc[c]
      /\ \A m \in Messages : m # n => state'[m] = state[m]
      /\ UNCHANGED <<combinedId, members, generation, handedOff>>
  BY DEF BeginSend, SendAccepted, SendRefused, TypeOK
<1>2. /\ combinedId[n] = NoId /\ \A c \in Combined : n \notin members[c]
  BY <1>1 DEF TagInv, HandBackInv, HandBackOf
<1>3. TagInv'
  <2>1. \A c \in Combined : pc'[c] = pc[c] /\ members[c] \subseteq Messages
    BY <1>0, <1>1 DEF Callers, TypeOK
  <2>2. \A m \in Messages : pc[m] = "done" => pc'[m] = "done"
    BY <1>1 DEF Callers
  <2>3. \A c \in Combined : c \in TapsInProgress' => c \in TapsInProgress
    BY <2>1 DEF TapsInProgress
  <2> QED
    BY <1>1, <1>2, <2>1, <2>2, <2>3, TagsKept
<1>4. GenerationInv'
  <2>1. CASE BeginSend(n)
    <3>1. /\ genAtCall'[n] = generation /\ state'[n] = "sending" /\ generation \in Nat
          /\ \A m \in Messages : m # n => genAtCall'[m] = genAtCall[m]
      BY <2>1 DEF BeginSend, TypeOK
    <3>2. \A m \in Messages : m # n => pc'[m] = pc[m]
      BY <1>1 DEF Callers
    <3> QED
      BY <1>1, <3>1, <3>2 DEF GenerationInv
  <2>2. CASE SendAccepted(n) \/ SendRefused(n)
    <3>1. genAtCall' = genAtCall
      BY <2>2 DEF SendAccepted, SendRefused
    <3>2. \A m \in Messages : m # n => pc'[m] = pc[m]
      BY <1>1 DEF Callers
    <3>3. state'[n] = "returned" => pc'[n] = "done"
      BY <2>2 DEF SendAccepted, SendRefused, TypeOK, Callers
    <3> QED
      BY <1>1, <3>1, <3>2, <3>3, GenerationKept
  <2> QED
    BY <2>1, <2>2
<1> QED
  BY <1>3, <1>4

\* The steps of a tap keep the tags, if it fails cleanly.
LEMMA TapsKeepTags ==
    ASSUME TagInv, GenerationInv, HandBackInv, TypeOK,
           NEW c \in Combined,
           TapFlip(c) \/ TapCombine(c) \/ TapAccepted(c) \/ (TapRefused(c) /\ CleanFail(c))
    PROVE  TagInv' /\ GenerationInv'
<1>0. \A d \in Combined : d \notin Messages
  BY IdsAssumption
<1>1. /\ pc[c] # "done" /\ \A d \in Callers : d # c => pc'[d] = pc[d]
      /\ genAtCall' = genAtCall
  BY DEF TapFlip, TapCombine, TapAccepted, TapRefused, TypeOK
<1>2. \A m \in Messages : pc'[m] = pc[m]
  BY <1>0, <1>1 DEF Callers
<1>3. \A d \in Combined : /\ members[d] \subseteq Messages
                          /\ d # c => (d \in TapsInProgress' <=> d \in TapsInProgress)
                                      /\ pc'[d] = pc[d]
  BY <1>1 DEF TypeOK, TapsInProgress, Callers
<1>4. \A d \in TapsInProgress' : d \in Combined
  BY DEF TapsInProgress
<1>5. CASE TapFlip(c)
  <2>1. /\ members'[c] = Queued /\ pc'[c] = "flipped" /\ combinedId' = combinedId
        /\ \A d \in Combined : d # c => members'[d] = members[d]
        /\ \A m \in Messages : state'[m] = IF m \in Queued THEN "sending" ELSE state[m]
        /\ generation' = generation + 1
    BY <1>5 DEF TapFlip, TypeOK, Callers
  <2>2. \A m \in Messages : state'[m] # "queued" /\ (m \in Queued => combinedId[m] = NoId)
    BY <2>1 DEF Queued, TagInv
  <2>3. Queued \subseteq Messages
    BY DEF Queued
  <2>4. \A d \in TapsInProgress : members[d] \cap Queued = {}
    BY DEF TagInv, Queued
  <2>5. ASSUME NEW d \in TapsInProgress', NEW m \in members'[d]
        PROVE  /\ state'[m] # "queued" /\ combinedId'[m] \in {NoId, d}
               /\ pc'[d] = "flipped" => combinedId'[m] = NoId
    <3>1. CASE d = c
      BY <2>1, <2>2, <2>3, <2>5, <3>1
    <3>2. CASE d # c
      BY <1>3, <1>4, <2>1, <2>2, <2>5, <3>2 DEF TagInv
    <3> QED
      BY <3>1, <3>2
  <2>6. ASSUME NEW d \in TapsInProgress', NEW e \in TapsInProgress', d # e
        PROVE  members'[d] \cap members'[e] = {}
    BY <1>3, <1>4, <2>1, <2>4, <2>6 DEF TagInv
  <2>7. TagInv'
    BY <1>2, <2>1, <2>2, <2>5, <2>6 DEF TagInv
  <2> QED
    BY <1>1, <1>2, <2>1, <2>7, GenerationKept
<1>6. CASE TapCombine(c)
  <2>1. PICK R \in SUBSET members[c] :
          /\ members' = [members EXCEPT ![c] = R]
          /\ combinedId' = [m \in Messages |-> IF m \in R THEN c ELSE combinedId[m]]
          /\ pc' = [pc EXCEPT ![c] = "done"] \/ pc' = [pc EXCEPT ![c] = "waiting"]
          /\ pc[c] = "flipped" /\ UNCHANGED <<state, generation, handedOff>>
    BY <1>6 DEF TapCombine
  <2>2. /\ c \in TapsInProgress /\ pc'[c] # "flipped" /\ members'[c] = R
        /\ \A d \in Combined : d # c => members'[d] = members[d]
        /\ \A m \in Messages : combinedId'[m] = IF m \in R THEN c ELSE combinedId[m]
    BY <2>1 DEF TapsInProgress, TypeOK, Callers
  <2>3. \A m \in R : m \in Messages /\ pc[m] = "done" /\ state[m] # "queued"
    BY <1>3, <2>1, <2>2 DEF TagInv, HandBackInv, HandBackOf
  <2>4. ASSUME NEW m \in Messages, combinedId'[m] # NoId
        PROVE  pc'[m] = "done" /\ state'[m] # "queued"
    <3>1. CASE m \in R
      BY <1>2, <2>1, <2>3, <3>1
    <3>2. CASE m \notin R
      BY <1>2, <2>1, <2>2, <2>4, <3>2 DEF TagInv
    <3> QED
      BY <3>1, <3>2
  <2>5. ASSUME NEW d \in TapsInProgress', NEW m \in members'[d]
        PROVE  /\ state'[m] # "queued" /\ combinedId'[m] \in {NoId, d}
               /\ pc'[d] = "flipped" => combinedId'[m] = NoId
    <3>1. CASE d = c
      BY <2>1, <2>2, <2>3, <2>5, <3>1
    <3>2. CASE d # c
      <4>1. d \in TapsInProgress /\ m \in members[d] /\ m \in Messages /\ pc'[d] = pc[d]
        BY <1>3, <1>4, <2>2, <2>5, <3>2
      <4>2. m \notin R
        BY <2>1, <2>2, <3>2, <4>1 DEF TagInv
      <4>3. combinedId'[m] = combinedId[m] /\ state'[m] = state[m]
        BY <2>1, <2>2, <4>1, <4>2
      <4> QED
        BY <4>1, <4>3 DEF TagInv
    <3> QED
      BY <3>1, <3>2
  <2>6. ASSUME NEW d \in TapsInProgress', NEW e \in TapsInProgress', d # e
        PROVE  members'[d] \cap members'[e] = {}
    <3>1. \A x \in TapsInProgress' : x \in TapsInProgress /\ members'[x] \subseteq members[x]
      BY <1>3, <1>4, <2>1, <2>2
    <3>2. members[d] \cap members[e] = {}
      BY <2>6, <3>1 DEF TagInv
    <3> QED
      BY <3>1, <3>2
  <2>7. TagInv'
    BY <2>4, <2>5, <2>6 DEF TagInv
  <2> QED
    BY <1>1, <1>2, <2>1, <2>7, GenerationKept
<1>7. CASE TapAccepted(c)
  <2>1. /\ pc'[c] = "done" /\ UNCHANGED <<state, combinedId, members, generation, handedOff>>
    BY <1>7 DEF TapAccepted, TypeOK, Callers
  <2>2. c \notin TapsInProgress'
    BY <2>1 DEF TapsInProgress
  <2>3. TagInv'
    BY <1>2, <1>3, <2>1, <2>2, TagsKept
  <2> QED
    BY <1>1, <1>2, <2>1, <2>3, GenerationKept
<1>8. CASE TapRefused(c) /\ CleanFail(c)
  <2>1. /\ pc'[c] = "done" /\ UNCHANGED <<members, generation>>
        /\ \A m \in Messages :
             /\ state'[m] = IF m \in members[c] THEN "returned" ELSE state[m]
             /\ combinedId'[m] = IF m \in members[c] THEN NoId ELSE combinedId[m]
        /\ handedOff' = handedOff \cup {m \in Messages : state'[m] = "returned"}
    BY <1>8 DEF TapRefused, TypeOK, Callers, Settled, HandBack, NotYetHandedOff, Returned
  <2>2. c \notin TapsInProgress'
    BY <2>1 DEF TapsInProgress
  <2>3. ASSUME NEW m \in Messages, combinedId'[m] # NoId
        PROVE  pc'[m] = "done" /\ state'[m] # "queued"
    BY <1>2, <2>1, <2>3 DEF TagInv
  <2>4. ASSUME NEW d \in TapsInProgress', NEW m \in members'[d]
        PROVE  /\ state'[m] # "queued" /\ combinedId'[m] \in {NoId, d}
               /\ pc'[d] = "flipped" => combinedId'[m] = NoId
    <3>1. d \in TapsInProgress /\ m \in members[d] /\ m \in Messages /\ pc'[d] = pc[d]
      BY <1>3, <1>4, <2>1, <2>2, <2>4
    <3>2. /\ state[m] # "queued" /\ combinedId[m] \in {NoId, d}
          /\ pc[d] = "flipped" => combinedId[m] = NoId
      BY <3>1 DEF TagInv
    <3> QED
      BY <2>1, <3>1, <3>2
  <2>5. ASSUME NEW d \in TapsInProgress', NEW e \in TapsInProgress', d # e
        PROVE  members'[d] \cap members'[e] = {}
    BY <1>3, <1>4, <2>1, <2>2, <2>5 DEF TagInv
  <2>6. TagInv'
    BY <2>3, <2>4, <2>5 DEF TagInv
  <2>7. ASSUME NEW m \in Messages, state'[m] = "returned", pc'[m] # "done"
        PROVE  state[m] = "returned" /\ m \in handedOff
    <3>1. m \notin members[c]
      BY <1>2, <2>7 DEF HandBackInv, HandBackOf
    <3>2. state[m] = "returned"
      BY <2>1, <2>7, <3>1
    <3> QED
      BY <1>2, <1>8, <2>7, <3>2 DEF CleanFail
  <2> QED
    BY <1>1, <1>2, <2>1, <2>6, <2>7, GenerationKept
<1> QED
  BY <1>5, <1>6, <1>7, <1>8

\* The other steps settle or leave the entries and keep the calls' own fields.
LEMMA OthersKeepTags ==
    ASSUME TagInv, GenerationInv, HandBackInv, TypeOK,
           UNCHANGED <<combinedId, members, genAtCall>>,
           \A m \in Messages : state'[m] \in {"delivered", "returned", state[m]},
           \A m \in Messages : pc[m] = "done" => pc'[m] = "done",
           \A c \in Combined : c \in TapsInProgress' =>
               c \in TapsInProgress /\ (pc'[c] = "flipped" => pc[c] = "flipped"),
           \/ generation' = generation + 1
           \/ /\ UNCHANGED <<generation, handedOff>>
              /\ \A m \in Messages : state'[m] = "returned" => m \in Live \/ state[m] = "returned"
    PROVE  TagInv' /\ GenerationInv'
<1>1. \A c \in Combined : members[c] \subseteq Messages
  BY DEF TypeOK
<1>2. \A m \in Messages : state'[m] = "queued" => state[m] = "queued"
  OBVIOUS
<1>3. TagInv'
  BY <1>1, <1>2, TagsKept
<1>4. CASE generation' = generation + 1
  <2>1. generation' # generation
    BY <1>4 DEF TypeOK
  <2> QED
    BY <1>4, <1>3, <2>1, GenerationKept
<1>5. CASE generation' # generation + 1
  <2>1. ASSUME NEW m \in Messages, m \in Live, pc'[m] # "done" PROVE m \notin handedOff
    <3>1. HandBackOf(m) /\ pc[m] # "done"
      BY <2>1 DEF HandBackInv
    <3> QED
      BY <2>1, <3>1 DEF HandBackOf, Live
  <2> QED
    BY <1>5, <1>3, <2>1, GenerationKept
<1> QED
  BY <1>4, <1>5

\* The tags and the generations are inductive while every failed tap is clean.
LEMMA TagInductive ==
    /\ Init => TagInv /\ GenerationInv
    /\ TagInv /\ GenerationInv /\ HandBackInv /\ TypeOK /\ [Next]_vars /\ [CleanResend]_vars
         => TagInv' /\ GenerationInv'
<1>1. Init => TagInv /\ GenerationInv
  BY DEF Init, TagInv, GenerationInv, TapsInProgress, Callers
<1> SUFFICES ASSUME TagInv, GenerationInv, HandBackInv, TypeOK, [Next]_vars, [CleanResend]_vars
             PROVE  TagInv' /\ GenerationInv'
  BY <1>1
<1>2. CASE \E m \in Messages : BeginSend(m) \/ SendAccepted(m) \/ SendRefused(m)
  BY <1>2, SendsKeepTags
<1>3. ASSUME NEW c \in Combined,
             TapFlip(c) \/ TapCombine(c) \/ TapAccepted(c) \/ TapRefused(c)
      PROVE  TagInv' /\ GenerationInv'
  <2>1. vars' # vars
    <3>1. pc'[c] # pc[c]
      BY <1>3 DEF TapFlip, TapCombine, TapAccepted, TapRefused, TypeOK, Callers
    <3> QED
      BY <3>1 DEF vars, callVars
  <2>2. TapRefused(c) => CleanFail(c)
    BY <2>1 DEF CleanResend
  <2> QED
    BY <1>3, <2>2, TapsKeepTags
<1>4. CASE Stop
  <2>1. /\ UNCHANGED <<combinedId, members, genAtCall, pc>> /\ generation' = generation + 1
        /\ \A m \in Messages : state'[m] \in {"delivered", "returned", state[m]}
    BY <1>4 DEF Stop, Settled
  <2> QED
    BY <2>1, OthersKeepTags DEF TapsInProgress
<1>5. ASSUME UNCHANGED <<combinedId, members, genAtCall, generation, handedOff, state, pc>>
      PROVE  TagInv' /\ GenerationInv'
  BY <1>5, OthersKeepTags DEF TapsInProgress
<1>6. ASSUME NEW c \in Callers, Submit(c) PROVE TagInv' /\ GenerationInv'
  <2>1. /\ UNCHANGED <<combinedId, members, genAtCall, generation, handedOff, state>>
        /\ pc[c] = "waiting" /\ pc'[c] = "inRpc"
        /\ \A d \in Callers : d # c => pc'[d] = pc[d]
    BY <1>6 DEF Submit, ledgerVars, TypeOK
  <2>2. \A d \in Combined : d \in TapsInProgress' =>
            d \in TapsInProgress /\ (pc'[d] = "flipped" => pc[d] = "flipped")
    BY <2>1 DEF TapsInProgress, Callers
  <2>3. \A m \in Messages : pc[m] = "done" => pc'[m] = "done"
    BY <2>1 DEF Callers
  <2> QED
    BY <2>1, <2>2, <2>3, OthersKeepTags
<1>7. ASSUME Handlers, ~FlushUserTurns PROVE TagInv' /\ GenerationInv'
  <2>1. UNCHANGED <<combinedId, members, genAtCall, generation, handedOff>>
    BY <1>7 DEF Handlers, HandlerFrame, HandleReply, HandleTurnStarted, HandleItemCompleted,
                HandleTurnCompleted, HandleIdle
  <2>2. CASE HandleReply
    <3> DEFINE f == Head(frames)
    <3>1. /\ pc[f.id] = "inRpc" /\ pc' = [pc EXCEPT ![f.id] = f.status] /\ state' = state
          /\ f.kind = "reply" /\ frames # <<>> /\ frames' = Tail(frames)
      BY <2>2 DEF HandleReply, MayHandle
    <3>2. f.id \in Callers /\ f.status \in Outcomes
      BY <3>1, HandledChannel DEF Frame
    <3> HIDE DEF f
    <3>3. pc'[f.id] = f.status /\ \A d \in Callers : d # f.id => pc'[d] = pc[d]
      BY <3>1, <3>2 DEF TypeOK
    <3>4. \A d \in Combined : d \in TapsInProgress' =>
              d \in TapsInProgress /\ (pc'[d] = "flipped" => pc[d] = "flipped")
      BY <3>1, <3>2, <3>3 DEF TapsInProgress, Callers, Outcomes
    <3>5. \A m \in Messages : pc[m] = "done" => pc'[m] = "done"
      BY <3>1, <3>3 DEF Callers
    <3> QED
      BY <2>1, <3>1, <3>4, <3>5, OthersKeepTags
  <2>3. CASE ~HandleReply
    <3>1. /\ pc' = pc
          /\ \A m \in Messages :
               /\ state'[m] \in {"delivered", "returned", state[m]}
               /\ state'[m] = "returned" => m \in Live \/ state[m] = "returned"
      <4>1. ASSUME NEW D, NEW R, R \subseteq Live, state' = Settled(D, R), NEW m \in Messages
            PROVE  /\ state'[m] \in {"delivered", "returned", state[m]}
                   /\ state'[m] = "returned" => m \in Live \/ state[m] = "returned"
        BY <4>1 DEF Settled
      <4>2. \E D : \E R \in SUBSET Live : state' = Settled(D, R)
        <5>1. CASE HandleTurnStarted \/ HandleItemCompleted
          BY <5>1 DEF HandleTurnStarted, HandleItemCompleted, Settle
        <5>2. ASSUME NEW owned \in SUBSET Live, NEW evidence, SettleAgainst(owned, evidence)
              PROVE  \E D : \E R \in SUBSET Live : state' = Settled(D, R)
          BY <5>2 DEF SettleAgainst, Settle, Uncommitted
        <5>3. CASE HandleTurnCompleted
          BY <5>2, <5>3 DEF HandleTurnCompleted, Settle
        <5>4. CASE HandleIdle
          BY <5>2, <5>4 DEF HandleIdle
        <5> QED
          BY <1>7, <2>3, <5>1, <5>3, <5>4 DEF Handlers
      <4>3. pc' = pc
        BY <1>7, <2>3 DEF Handlers, HandleTurnStarted, HandleItemCompleted,
                          HandleTurnCompleted, HandleIdle
      <4> QED
        BY <4>1, <4>2, <4>3
    <3> QED
      BY <2>1, <3>1, OthersKeepTags DEF TapsInProgress
  <2> QED
    BY <2>2, <2>3
<1>8. CASE \/ FlushUserTurns \/ Serves \/ DaemonCommits \/ DaemonEndsTurn \/ ForeignTurn
           \/ UNCHANGED vars
  BY <1>5, <1>8 DEF FlushUserTurns, Serves, DaemonStarts, DaemonSteers, DaemonRefuses,
         DaemonAborts, DaemonCommits, DaemonEndsTurn, ForeignTurn, ClientFrame, ledgerVars,
         pushedVars, callVars, vars
<1> QED
  BY <1>2, <1>3, <1>4, <1>6, <1>7, <1>8, StepGroups DEF Actions

-------------------------------------------------------------------------------
(* A steer is parked before its commit is heard.                             *)

\* While the reply to a steered send is under way or waits for its thread, nothing has
\* delivered the message: what could, an idle or its commit, comes after the reply.
SteerOf(m) ==
    /\ pc[m] # "done" => boundTurn[m] = NoTurn
    /\ pc[m] = "steered" => state[m] # "delivered"
    /\ In(frames) \cap SteersOf(m) # {} => state[m] # "delivered"
    /\ NoneAfter(frames, Idles, SteersOf(m))
    /\ NoneAfter(frames, CommitsOf(m), SteersOf(m))

SteerInv == \A m \in Messages : SteerOf(m)

\* Sends, taps and Stops deliver nothing and end no wait for a reply.
LEMMA SteerActions == SteerInv /\ HandBackInv /\ TypeOK /\ Actions => SteerInv'
<1> SUFFICES ASSUME SteerInv, HandBackInv, TypeOK, Actions, NEW m \in Messages
             PROVE  SteerOf(m)'
  BY DEF SteerInv
<1>0. SteerOf(m) /\ HandBackOf(m) /\ m \notin Combined /\ m \in Callers
  BY IdsAssumption DEF SteerInv, HandBackInv, Callers
<1> DEFINE Kept == /\ boundTurn'[m] = boundTurn[m] \/ pc'[m] = "done"
                   /\ pc'[m] = "steered" => pc[m] = "steered"
                   /\ pc[m] = "done" => pc'[m] = "done"
                   /\ state'[m] = "delivered" => state[m] = "delivered"
                   /\ frames' = frames
<1>1. ASSUME Stop \/ FlushUserTurns PROVE Kept
  BY <1>1 DEF Stop, FlushUserTurns, Settled, callVars
<1>2. ASSUME NEW n \in Messages, BeginSend(n) \/ SendAccepted(n) \/ SendRefused(n) PROVE Kept
  <2>1. CASE n = m
    BY <1>0, <1>2, <2>1 DEF BeginSend, SendAccepted, SendRefused, AckedState, TypeOK
  <2>2. CASE n # m
    BY <1>0, <1>2, <2>2 DEF BeginSend, SendAccepted, SendRefused, TypeOK
  <2> QED
    BY <2>1, <2>2
<1>3. ASSUME NEW c \in Combined, TapFlip(c) \/ TapCombine(c) PROVE Kept
  <2>1. pc'[m] = pc[m] /\ UNCHANGED <<boundTurn, frames>>
    BY <1>0, <1>3 DEF TapFlip, TapCombine, TypeOK
  <2>2. state'[m] = "delivered" => state[m] = "delivered"
    BY <1>3 DEF TapFlip, TapCombine
  <2> QED
    BY <2>1, <2>2
<1>4. ASSUME NEW c \in Combined, TapAccepted(c) \/ TapRefused(c) PROVE Kept
  <2>1. pc'[m] = pc[m] /\ frames' = frames
    BY <1>0, <1>4 DEF TapAccepted, TapRefused, TypeOK
  <2>2. state'[m] = "delivered" => state[m] = "delivered"
    BY <1>4 DEF TapAccepted, TapRefused, Settled
  <2>3. boundTurn'[m] = boundTurn[m] \/ m \in members[c]
    BY <1>4 DEF TapAccepted, TapRefused
  <2> QED
    BY <1>0, <2>1, <2>2, <2>3 DEF HandBackOf
<1>5. ASSUME NEW c \in Callers, Submit(c) PROVE Kept
  BY <1>0, <1>5 DEF Submit, ledgerVars, TypeOK
<1>6. Kept
  BY <1>1, <1>2, <1>3, <1>4, <1>5 DEF Actions
<1> QED
  BY <1>0, <1>6 DEF SteerOf, Idles, SteersOf, CommitsOf, Replies

\* What a handler delivers has ended its send, or its own commit or an idle was heard.
LEMMA DeliveredBy ==
    ASSUME TagInv, SteerInv, TypeOK, Handlers, ~FlushUserTurns,
           NEW m \in Messages, state'[m] = "delivered"
    PROVE  \/ state[m] = "delivered" \/ pc[m] = "done"
           \/ Head(frames) \in CommitsOf(m) \cup Idles
<1> SUFFICES ASSUME state[m] # "delivered", pc[m] # "done"
             PROVE  Head(frames) \in CommitsOf(m) \cup Idles
  OBVIOUS
<1>1. boundTurn[m] = NoTurn /\ combinedId[m] = NoId
  BY DEF SteerInv, SteerOf, TagInv
<1>2. frames # <<>> /\ frames' = Tail(frames)
  BY DEF Handlers, MayHandle, HandleReply, HandleTurnStarted, HandleItemCompleted,
         HandleTurnCompleted, HandleIdle
<1>3. Head(frames) \in Frame
  BY <1>2, HandledChannel
<1>4. ASSUME NEW D, NEW R, state' = Settled(D, R) PROVE m \in D
  BY <1>4 DEF Settled
<1>5. ~HandleReply /\ ~HandleTurnStarted
  BY <1>4 DEF HandleReply, HandleTurnStarted, Settle
<1>6. CASE HandleItemCompleted
  <2>1. Head(frames).kind = "commit"
    BY <1>6 DEF HandleItemCompleted, MayHandle
  <2>2. m \notin ResendGroup(Head(frames).id)
    BY <1>1 DEF ResendGroup
  <2>3. m = Head(frames).id
    BY <1>4, <1>6, <2>2 DEF HandleItemCompleted, Settle
  <2> QED
    BY <1>3, <2>1, <2>3 DEF CommitsOf
<1>7. CASE HandleTurnCompleted
  <2>1. Head(frames).turn \in Turns
    BY <1>3, <1>7 DEF HandleTurnCompleted, MayHandle, Frame
  <2>2. boundTurn[m] # Head(frames).turn
    BY <1>1, <2>1, IdsAssumption
  <2>3. ~Settle({}, {}, {})
    BY <1>4 DEF Settle
  <2>4. PICK evidence : SettleAgainst({n \in Live : boundTurn[n] = Head(frames).turn}, evidence)
    BY <1>7, <2>3 DEF HandleTurnCompleted
  <2> QED
    BY <1>4, <2>2, <2>4 DEF SettleAgainst, Settle
<1>8. CASE HandleIdle
  BY <1>3, <1>8 DEF HandleIdle, MayHandle, Idles
<1> QED
  BY <1>5, <1>6, <1>7, <1>8 DEF Handlers

\* Handling a frame keeps the order of a steer and its commit, unless it overtakes a thread.
LEMMA SteerHandlers ==
    ASSUME "overtake" \notin Races
    PROVE  SteerInv /\ HandBackInv /\ TagInv /\ CallInv /\ TypeOK /\ Handlers => SteerInv'
<1> SUFFICES ASSUME SteerInv, HandBackInv, TagInv, CallInv, TypeOK, Handlers,
                    NEW m \in Messages
             PROVE  SteerOf(m)'
  BY DEF SteerInv
<1>0. SteerOf(m) /\ m \in Callers
  BY DEF SteerInv, Callers
<1>1. CASE FlushUserTurns
  BY <1>1, SteerActions DEF Actions, SteerInv
<1>2. ASSUME ~FlushUserTurns PROVE SteerOf(m)'
  <2> DEFINE f == Head(frames)
  <2>1. frames # <<>> /\ frames' = Tail(frames) /\ boundTurn' = boundTurn
    BY <1>2 DEF Handlers, HandlerFrame, MayHandle, HandleReply, HandleTurnStarted,
                HandleItemCompleted, HandleTurnCompleted, HandleIdle
  <2>2. /\ Shrinks(frames, frames') /\ f \in In(frames) /\ f \in Frame
        /\ \A A, B : NoneAfter(frames, A, B) /\ f \in A => In(frames') \cap B = {}
    BY <2>1, HandledChannel
  <2>3. pc[m] # "steered"
    BY <1>0, <1>2 DEF Handlers, MayHandle, HandleReply, HandleTurnStarted,
                HandleItemCompleted, HandleTurnCompleted, HandleIdle
  <2>4. /\ pc'[m] = "steered" => f \in SteersOf(m) /\ state' = state
        /\ pc'[m] # "done" => pc[m] # "done"
    <3>1. CASE HandleReply
      <4>1. /\ pc[f.id] = "inRpc" /\ pc' = [pc EXCEPT ![f.id] = f.status]
            /\ f.kind = "reply" /\ state' = state
        BY <3>1 DEF HandleReply, MayHandle
      <4>2. f.id # m => pc'[m] = pc[m]
        BY <1>0, <4>1 DEF TypeOK
      <4>3. f.id = m => pc'[m] = f.status /\ pc[m] = "inRpc"
        BY <1>0, <4>1 DEF TypeOK
      <4> QED
        BY <2>2, <2>3, <4>1, <4>2, <4>3 DEF SteersOf, Replies
    <3>2. CASE ~HandleReply
      <4>1. pc' = pc
        BY <1>2, <3>2 DEF Handlers, HandleTurnStarted, HandleItemCompleted,
                          HandleTurnCompleted, HandleIdle
      <4> QED
        BY <2>3, <4>1
    <3> QED
      BY <3>1, <3>2
  <2>5. ASSUME pc'[m] = "steered" PROVE state'[m] # "delivered"
    BY <1>0, <2>2, <2>4, <2>5 DEF SteerOf
  <2>6. ASSUME In(frames') \cap SteersOf(m) # {} PROVE state'[m] # "delivered"
    <3>1. In(frames) \cap SteersOf(m) # {}
      BY <2>2, <2>6 DEF Shrinks
    <3>2. state[m] # "delivered"
      BY <1>0, <3>1 DEF SteerOf
    <3>3. pc[m] = "inRpc"
      BY <3>1 DEF SteersOf, CallInv
    <3>4. f \notin CommitsOf(m) /\ f \notin Idles
      BY <1>0, <2>2, <2>6 DEF SteerOf
    <3> QED
      BY <1>2, <3>2, <3>3, <3>4, DeliveredBy
  <2>7. NoneAfter(frames', Idles, SteersOf(m)) /\ NoneAfter(frames', CommitsOf(m), SteersOf(m))
    BY <1>0, <2>2 DEF SteerOf, Shrinks
  <2> QED
    BY <1>0, <2>1, <2>4, <2>5, <2>6, <2>7 DEF SteerOf, Idles, SteersOf, CommitsOf, Replies
<1> QED
  BY <1>1, <1>2

\* The daemon replies to a steer before it commits it or goes idle.
LEMMA SteerDaemon ==
    SteerInv /\ TagInv /\ CallInv /\ TurnInv /\ CommitInv /\ TypeOK
      /\ (Serves \/ DaemonCommits \/ DaemonEndsTurn \/ ForeignTurn) => SteerInv'
<1> SUFFICES ASSUME SteerInv, TagInv, CallInv, TurnInv, CommitInv, TypeOK,
                    Serves \/ DaemonCommits \/ DaemonEndsTurn \/ ForeignTurn,
                    NEW m \in Messages
             PROVE  SteerOf(m)'
  BY DEF SteerInv
<1>0. SteerOf(m) /\ UNCHANGED <<pc, state, boundTurn>>
  BY DEF SteerInv, Serves, DaemonStarts, DaemonSteers, DaemonRefuses, DaemonAborts,
         DaemonCommits, DaemonEndsTurn, ForeignTurn, ClientFrame, callVars, ledgerVars
<1>1. ASSUME NEW X, Grows(frames, frames', X), X \cap SteersOf(m) = {}
      PROVE  SteerOf(m)'
  <2>1. In(frames') \cap SteersOf(m) = In(frames) \cap SteersOf(m)
    BY <1>1 DEF Grows
  <2>2. \A A : \A x, y \in X : x \in A /\ y \in SteersOf(m) => x = y
    BY <1>1
  <2>3. NoneAfter(frames', Idles, SteersOf(m)) /\ NoneAfter(frames', CommitsOf(m), SteersOf(m))
    BY <1>0, <1>1, <2>2, GrownOrder DEF SteerOf
  <2> QED
    BY <1>0, <2>1, <2>3 DEF SteerOf, Idles, SteersOf, CommitsOf, Replies
<1>2. ASSUME turn # NoTurn, NEW full \in BOOLEAN,
             NEW status \in {"completed", "interrupted", "failed"}, TurnEnds(status, full)
      PROVE  SteerOf(m)'
  <2>1. PICK X \in SUBSET Frame : /\ Grows(frames, frames', X)
                                  /\ \A f \in X : f.kind \in {"completed", "idle"}
    BY <1>2, EndsGrow
  <2>2. X \cap SteersOf(m) = {}
    BY <2>1 DEF SteersOf, Replies
  <2> QED
    BY <1>1, <2>1, <2>2
<1>3. CASE DaemonStarts
  <2>1. Head(requests).id \in Callers
    BY <1>3, ServedChannel DEF DaemonStarts, Request
  <2>2. PICK t \in Turns :
          frames' = frames \o StartedNotice(t) \o <<ReplyTo(Head(requests).id, t, "started")>>
    BY <1>3 DEF DaemonStarts
  <2>3. PICK X \in SUBSET Frame :
          /\ Grows(frames, frames', X)
          /\ \A f \in X : \/ f = ReplyTo(Head(requests).id, t, "started")
                          \/ f = [kind |-> "started", turn |-> t]
    BY <2>1, <2>2, StartsGrow
  <2>4. X \cap SteersOf(m) = {}
    BY <2>3 DEF SteersOf, Replies, ReplyTo
  <2> QED
    BY <1>1, <2>3, <2>4
<1>4. CASE DaemonSteers
  <2> DEFINE r == Head(requests)
             x == ReplyTo(r.id, turn, "steered")
  <2>1. r \in In(requests) \cap Asking /\ r.kind = "steer" /\ r.id \in Callers
    BY <1>4, ServedChannel DEF DaemonSteers, Asking, Request
  <2>2. frames' = Append(frames, x) /\ turn = r.turn
    BY <1>4 DEF DaemonSteers
  <2>3. Grows(frames, frames', {x})
    BY <2>2, AppendGrows DEF TypeOK
  <2>4. turn # NoTurn /\ Heard
    BY <2>1, <2>2 DEF TurnInv, OpenedTurns, Heard
  <2>5. In(frames) \cap Idles = {}
    BY <2>4 DEF TurnInv
  <2>6. pc[r.id] = "inRpc" /\ r.id \notin thread
    BY <2>1 DEF CallInv
  <2>7. x.id = r.id /\ x.kind = "reply"
    BY DEF ReplyTo
  <2> HIDE DEF x, r
  <2>8. CASE r.id # m
    <3>1. {x} \cap SteersOf(m) = {}
      BY <2>7, <2>8 DEF SteersOf
    <3> QED
      BY <1>1, <2>3, <3>1
  <2>9. CASE r.id = m
    <3>1. combinedId[m] = NoId
      BY <2>6, <2>9 DEF TagInv
    <3>2. state[m] # "delivered"
      BY <2>6, <2>9, <3>1, IdsAssumption
         DEF CommitInv, DeliveredIsCommitted, HasCommitted, TypeOK
    <3>3. In(frames) \cap CommitsOf(m) = {}
      <4>1. In(frames) \subseteq Honest
        BY DEF CommitInv, In
      <4> QED
        BY <2>6, <2>9, <4>1 DEF Honest, CommitsOf
    <3>4. \A y, z \in {x} : y = z
      OBVIOUS
    <3>5. NoneAfter(frames', Idles, SteersOf(m))
      BY <1>0, <2>3, <2>5, <3>4, GrownOrder DEF SteerOf
    <3>6. NoneAfter(frames', CommitsOf(m), SteersOf(m))
      BY <1>0, <2>3, <3>3, <3>4, GrownOrder DEF SteerOf
    <3> QED
      BY <1>0, <3>2, <3>5, <3>6 DEF SteerOf, Idles, SteersOf, CommitsOf, Replies
  <2> QED
    BY <2>8, <2>9
<1>5. ASSUME NEW x, frames' = Append(frames, x), x \notin SteersOf(m)
      PROVE  SteerOf(m)'
  <2>1. Grows(frames, frames', {x})
    BY <1>5, AppendGrows DEF TypeOK
  <2> QED
    BY <1>1, <1>5, <2>1
<1>6. CASE DaemonRefuses
  BY <1>5, <1>6 DEF DaemonRefuses, SteersOf, ReplyTo
<1>7. CASE DaemonAborts
  <2>1. Head(requests).turn \in Turns
    BY <1>7, ServedChannel DEF DaemonAborts, Request
  <2>2. CASE UNCHANGED frames
    BY <1>1, <2>2, StillShrinks
  <2>3. CASE turn = Head(requests).turn /\ TurnEnds("interrupted", FALSE)
    BY <1>2, <2>1, <2>3, IdsAssumption
  <2> QED
    BY <1>7, <2>2, <2>3 DEF DaemonAborts
<1>8. CASE DaemonCommits
  BY <1>5, <1>8 DEF DaemonCommits, SteersOf, Replies
<1>9. CASE DaemonEndsTurn
  BY <1>2, <1>9 DEF DaemonEndsTurn
<1>10. CASE ForeignTurn
  <2>1. PICK t \in Turns : frames' = frames \o StartedNotice(t)
    BY <1>10 DEF ForeignTurn
  <2>2. PICK X \in SUBSET {[kind |-> "started", turn |-> t]} : Grows(frames, frames', X)
    BY <2>1, NoticeGrows
  <2>3. X \cap SteersOf(m) = {}
    BY <2>2 DEF SteersOf, Replies
  <2> QED
    BY <1>1, <2>2, <2>3
<1> QED
  BY <1>3, <1>4, <1>6, <1>7, <1>8, <1>9, <1>10 DEF Serves

\* The order of a steer and its commit is inductive without an overtake.
LEMMA SteerInductive ==
    ASSUME "overtake" \notin Races
    PROVE  /\ Init => SteerInv
           /\ SteerInv /\ HandBackInv /\ TagInv /\ CallInv /\ TurnInv /\ CommitInv /\ TypeOK
                /\ [Next]_vars => SteerInv'
<1>1. Init => SteerInv
  <2> SUFFICES ASSUME Init PROVE SteerInv
    OBVIOUS
  <2>1. frames = <<>> /\ In(<<>>) = {}
    BY DEF Init, In
  <2>2. \A A, B : NoneAfter(<<>>, A, B)
    BY DEF NoneAfter
  <2> QED
    BY <2>1, <2>2 DEF Init, SteerInv, SteerOf, Callers
<1>2. SteerInv /\ UNCHANGED vars => SteerInv'
  BY DEF SteerInv, SteerOf, SteersOf, CommitsOf, Idles, Replies, vars, ledgerVars, callVars
<1>3. SteerInv /\ HandBackInv /\ TagInv /\ CallInv /\ TurnInv /\ CommitInv /\ TypeOK /\ Next
        => SteerInv'
  BY StepGroups, SteerActions, SteerHandlers, SteerDaemon
<1> QED
  BY <1>1, <1>2, <1>3

-------------------------------------------------------------------------------
(* Each step is a step of the message lifecycle, or none.                    *)

LifecycleInv ==
    /\ TypeOK /\ CommitInv /\ HandBackInv
    /\ CallInv /\ TurnInv /\ TagInv /\ GenerationInv /\ SteerInv

\* The lifecycle's variables.
Conversation == {m \in Messages : HasCommitted(m)}
LifecycleStep == Lifecycle!LifecycleNext \/ UNCHANGED <<state, Conversation, copies>>

LEMMA StutterMaps ==
    ASSUME UNCHANGED <<state, copies, thread, combinedId>>
    PROVE  LifecycleStep
  BY DEF LifecycleStep, Conversation, HasCommitted

\* What is delivered by committed ids, and what is returned with nothing handed back.
LEMMA SettleMaps ==
    ASSUME NEW D \in SUBSET Messages, NEW R \in SUBSET (Live \ D), state' = Settled(D, R),
           UNCHANGED <<copies, thread, combinedId>>,
           \A m \in D : HasCommitted(m) /\ state[m] \in {"sending", "queued", "returned"}
    PROVE  LifecycleStep
<1>1. Lifecycle!LiveMessages = Live
  BY DEF Lifecycle!LiveMessages, Lifecycle!LiveStates, Live
<1>2. Lifecycle!Reconcile(D, R)
  BY <1>1 DEF Lifecycle!Reconcile, Lifecycle!LiveStates, Settled, HasCommitted
<1>3. R \in SUBSET Messages
  BY DEF Live
<1> QED
  BY <1>2, <1>3 DEF LifecycleStep, Lifecycle!LifecycleNext

\* A text that comes back comes back for the first time.
LEMMA HandBackMaps ==
    ASSUME HandBackInv, TypeOK, NEW R \in SUBSET Messages, \A m \in R : state[m] # "none",
           state' = Settled({}, R), HandBack(state')
    PROVE  copies' = [m \in Messages |-> IF state'[m] = "returned" THEN 1 ELSE copies[m]]
<1> SUFFICES ASSUME NEW m \in Messages
             PROVE  (IF m \in NotYetHandedOff(state') THEN copies[m] + 1 ELSE copies[m])
                      = (IF state'[m] = "returned" THEN 1 ELSE copies[m])
  BY DEF HandBack
<1>1. HandBackOf(m) /\ (state'[m] = "returned" => state[m] # "none")
  BY DEF HandBackInv, Settled
<1>2. m \in NotYetHandedOff(state') <=> state'[m] = "returned" /\ m \notin handedOff
  BY DEF NotYetHandedOff, Returned
<1> QED
  BY <1>1, <1>2 DEF HandBackOf

\* A send is an Accept, a Park, a Refuse, or returns its one message.
LEMMA SendMaps ==
    ASSUME LifecycleInv, NEW m \in Messages, BeginSend(m) \/ SendAccepted(m) \/ SendRefused(m)
    PROVE  LifecycleStep
<1>0. /\ HandBackOf(m) /\ SteerOf(m) /\ state[m] \in EntryStates /\ copies[m] \in Nat
      /\ state \in [Messages -> EntryStates] /\ copies \in [Messages -> Nat]
      /\ UNCHANGED <<thread, combinedId>>
  BY DEF LifecycleInv, HandBackInv, SteerInv, TypeOK, BeginSend, SendAccepted, SendRefused,
         daemonVars
<1>1. CASE BeginSend(m)
  <2>1. /\ state[m] = "none" /\ copies[m] = 0
        /\ state' = [state EXCEPT ![m] = "sending"] /\ copies' = copies
    BY <1>0, <1>1 DEF BeginSend, pushedVars, HandBackOf
  <2>2. Lifecycle!Accept(m)
    BY <1>0, <2>1 DEF Lifecycle!Accept, Lifecycle!Move, HasCommitted
  <2> QED
    BY <2>2 DEF LifecycleStep, Lifecycle!LifecycleNext
<1>2. CASE SendAccepted(m)
  <2>1. copies' = copies /\ pc[m] \in {"started", "steered"}
    BY <1>2 DEF SendAccepted
  <2>2. state' = [state EXCEPT ![m] =
                    IF RacedByInterrupt(m) /\ AckedState(m) \in {"sending", "queued"}
                    THEN "returned" ELSE AckedState(m)]
    BY <1>2 DEF SendAccepted
  <2>3. state[m] \notin {"queued", "none"} /\ (pc[m] = "steered" => state[m] # "delivered")
    BY <1>0, <2>1 DEF HandBackOf, SteerOf
  <2>4. CASE state'[m] = state[m]
    <3>1. state' = state
      BY <1>0, <2>2, <2>4
    <3> QED
      BY <1>0, <2>1, <3>1, StutterMaps
  <2>5. CASE state'[m] = "returned" /\ state[m] # "returned"
    <3>1. state[m] = "sending"
      BY <1>0, <2>1, <2>2, <2>3, <2>5 DEF AckedState, EntryStates
    <3>2. state' = Settled({}, {m}) /\ {m} \in SUBSET (Live \ {})
      BY <1>0, <2>2, <2>5, <3>1 DEF Settled, Live
    <3> QED
      BY <1>0, <2>1, <3>2, SettleMaps
  <2>6. CASE state'[m] # "returned" /\ state'[m] # state[m]
    <3>1. pc[m] = "steered" /\ state'[m] = "queued" /\ ~RacedByInterrupt(m)
      BY <1>0, <2>1, <2>2, <2>6 DEF AckedState
    <3>2. state[m] \in {"sending", "returned"}
      BY <1>0, <2>3, <3>1 DEF EntryStates
    <3>3. state[m] = "returned" => copies[m] = 0
      <4>1. state[m] = "returned" => m \notin handedOff
        BY <2>1, <3>1 DEF LifecycleInv, GenerationInv, RacedByInterrupt
      <4> QED
        BY <1>0, <2>1, <4>1 DEF HandBackOf
    <3>4. state' = [n \in Messages |-> IF n \in {m} THEN "queued" ELSE state[n]]
      BY <1>0, <2>2, <3>1
    <3>5. Lifecycle!Park(m)
      BY <1>0, <2>1, <3>2, <3>3, <3>4 DEF Lifecycle!Park, Lifecycle!Move, HasCommitted
    <3> QED
      BY <3>5 DEF LifecycleStep, Lifecycle!LifecycleNext
  <2> QED
    BY <2>4, <2>5, <2>6
<1>3. CASE SendRefused(m)
  <2>1. CASE ~StillSending(m)
    <3>1. UNCHANGED <<state, copies>>
      BY <1>3, <2>1 DEF SendRefused
    <3> QED
      BY <1>0, <3>1, StutterMaps
  <2>2. CASE StillSending(m)
    <3>1. /\ state[m] = "sending" /\ pc[m] = "refused"
          /\ state' = [state EXCEPT ![m] = "none"] /\ copies' = [copies EXCEPT ![m] = @ + 1]
      BY <1>3, <2>2 DEF SendRefused, StillSending
    <3>2. copies[m] = 0
      BY <1>0, <3>1 DEF HandBackOf
    <3>3. copies' = [copies EXCEPT ![m] = 1]
      BY <1>0, <3>1, <3>2
    <3>4. Lifecycle!Refuse(m)
      BY <1>0, <3>1, <3>3 DEF Lifecycle!Refuse, Lifecycle!Move, HasCommitted
    <3> QED
      BY <3>4 DEF LifecycleStep, Lifecycle!LifecycleNext
  <2> QED
    BY <2>1, <2>2
<1> QED
  BY <1>1, <1>2, <1>3

\* A tap's combined id is not in the conversation when the tap gives it or takes it back.
LEMMA RetaggedMaps ==
    ASSUME LifecycleInv, NEW c \in Combined, pc[c] \in {"flipped", "refused"}, thread' = thread,
           \A m \in Messages : combinedId'[m] = combinedId[m]
               \/ {combinedId[m], combinedId'[m]} \subseteq {c, NoId}
    PROVE  Conversation' = Conversation
<1>1. c \notin thread /\ NoId \notin thread
  BY IdsAssumption DEF LifecycleInv, CallInv, NotAccepted, Callers, TypeOK
<1>2. \A m \in Messages : combinedId'[m] \in thread' <=> combinedId[m] \in thread
  BY <1>1
<1> QED
  BY <1>2 DEF Conversation, HasCommitted

\* A tap is a Tap, and its failure a ResendFails; its ids change no commit.
LEMMA TapMaps ==
    ASSUME LifecycleInv, NEW c \in Combined,
           TapFlip(c) \/ TapCombine(c) \/ TapAccepted(c) \/ (TapRefused(c) /\ CleanFail(c))
    PROVE  LifecycleStep
<1>1. CASE TapFlip(c)
  <2>1. /\ \A m \in Messages : state[m] # "sending"
        /\ state' = [m \in Messages |-> IF m \in Queued THEN "sending" ELSE state[m]]
        /\ UNCHANGED <<copies, thread, combinedId>>
    BY <1>1 DEF TapFlip, IsSending, daemonVars
  <2>2. Lifecycle!LiveMessages = Queued
    BY <2>1 DEF Lifecycle!LiveMessages, Lifecycle!LiveStates, Queued
  <2>3. Lifecycle!Tap
    BY <2>1, <2>2 DEF Lifecycle!Tap, Lifecycle!Move, HasCommitted
  <2> QED
    BY <2>3 DEF LifecycleStep, Lifecycle!LifecycleNext
<1>2. CASE TapCombine(c)
  <2>1. PICK R \in SUBSET members[c] :
          combinedId' = [m \in Messages |-> IF m \in R THEN c ELSE combinedId[m]]
    BY <1>2 DEF TapCombine
  <2>2. pc[c] = "flipped" /\ UNCHANGED <<state, copies, thread>>
    BY <1>2 DEF TapCombine, daemonVars
  <2>3. \A m \in R : combinedId[m] = NoId
    BY <2>1, <2>2 DEF LifecycleInv, TagInv, TapsInProgress
  <2>4. \A m \in Messages : combinedId'[m] = combinedId[m]
               \/ {combinedId[m], combinedId'[m]} \subseteq {c, NoId}
    BY <2>1, <2>3
  <2> QED
    BY <2>2, <2>4, RetaggedMaps DEF LifecycleStep
<1>3. CASE TapAccepted(c)
  BY <1>3, StutterMaps DEF TapAccepted, daemonVars
<1>4. CASE TapRefused(c) /\ CleanFail(c)
  <2>1. /\ pc[c] = "refused" /\ thread' = thread /\ HandBack(state')
        /\ state' = Settled({}, members[c])
        /\ combinedId' = [m \in Messages |-> IF m \in members[c] THEN NoId ELSE combinedId[m]]
    BY <1>4 DEF TapRefused, daemonVars
  <2>2. /\ members[c] \in SUBSET Messages
        /\ \A m \in members[c] : state[m] # "none" /\ combinedId[m] \in {NoId, c}
    BY <2>1 DEF LifecycleInv, TypeOK, HandBackInv, HandBackOf, TagInv, TapsInProgress
  <2>3. Conversation' = Conversation
    <3>1. \A m \in Messages : combinedId'[m] = combinedId[m]
               \/ {combinedId[m], combinedId'[m]} \subseteq {c, NoId}
      BY <2>1, <2>2
    <3> QED
      BY <2>1, <3>1, RetaggedMaps
  <2>4. copies' = [m \in Messages |-> IF state'[m] = "returned" THEN 1 ELSE copies[m]]
    BY <2>1, <2>2, HandBackMaps DEF LifecycleInv
  <2> DEFINE R == members[c] \cap Live
  <2>5. R \subseteq Lifecycle!LiveMessages /\ R \in SUBSET Messages
    BY DEF Lifecycle!LiveMessages, Lifecycle!LiveStates, Live
  <2>6. state' = [m \in Messages |-> IF m \in R THEN "returned" ELSE state[m]]
    <3>1. \A m \in members[c] : m \in Live \/ state[m] = "returned"
      BY <1>4, <2>2 DEF CleanFail, LifecycleInv, TypeOK, EntryStates, Live
    <3> QED
      BY <2>1, <3>1 DEF Settled
  <2> HIDE DEF R
  <2>7. Lifecycle!ResendFails(R)
    BY <2>3, <2>4, <2>5, <2>6 DEF Lifecycle!ResendFails, Lifecycle!Move, Conversation
  <2> QED
    BY <2>5, <2>7 DEF LifecycleStep, Lifecycle!LifecycleNext
<1> QED
  BY <1>1, <1>2, <1>3, <1>4

\* A Stop is an Interrupt.
LEMMA StopMaps ==
    ASSUME LifecycleInv, Stop
    PROVE  LifecycleStep
<1>1. /\ state' = Settled({}, Live) /\ HandBack(state') /\ UNCHANGED <<thread, combinedId>>
      /\ Live \in SUBSET Messages /\ \A m \in Live : state[m] # "none"
  BY DEF Stop, daemonVars, Live
<1>2. copies' = [m \in Messages |-> IF state'[m] = "returned" THEN 1 ELSE copies[m]]
  BY <1>1, HandBackMaps DEF LifecycleInv
<1>3. Lifecycle!LiveMessages = Live
  BY DEF Lifecycle!LiveMessages, Lifecycle!LiveStates, Live
<1>4. state' = [m \in Messages |-> IF m \in Live THEN "returned" ELSE state[m]]
  BY <1>1 DEF Settled
<1>5. Lifecycle!Interrupt
  BY <1>1, <1>2, <1>3, <1>4 DEF Lifecycle!Interrupt, Lifecycle!Move, HasCommitted
<1> QED
  BY <1>5 DEF LifecycleStep, Lifecycle!LifecycleNext

\* A handler reconciles per id, by what is committed, or changes nothing.
LEMMA HandlerMaps ==
    ASSUME LifecycleInv, Handlers
    PROVE  LifecycleStep
<1> DEFINE f == Head(frames)
<1>1. UNCHANGED <<copies, thread, combinedId>>
  BY DEF Handlers, HandlerFrame, HandleReply, HandleTurnStarted, HandleItemCompleted,
         HandleTurnCompleted, HandleIdle, FlushUserTurns, daemonVars
<1>2. ASSUME frames # <<>> PROVE f \in Honest
  BY <1>2, HeadOfChannel DEF LifecycleInv, CommitInv
<1>3. CASE HandleReply \/ FlushUserTurns
  BY <1>1, <1>3, StutterMaps DEF HandleReply, FlushUserTurns
<1>4. ASSUME Settle({}, {}, {}) PROVE LifecycleStep
  BY <1>1, <1>4, SettleMaps DEF Settle
<1>5. ASSUME NEW owned \in SUBSET Live, NEW evidence, evidence \subseteq thread,
             SettleAgainst(owned, evidence)
      PROVE  LifecycleStep
  <2> DEFINE D == {m \in owned : Committed(m, evidence)}
  <2>1. D \in SUBSET Messages /\ Uncommitted(owned, D) \in SUBSET (Live \ D)
    BY DEF Uncommitted, Live
  <2>2. \A m \in D : HasCommitted(m) /\ state[m] \in {"sending", "queued", "returned"}
    BY <1>5 DEF Committed, HasCommitted, Live
  <2>3. state' = Settled(D, Uncommitted(owned, D))
    BY <1>5 DEF SettleAgainst, Settle
  <2> QED
    BY <1>1, <2>1, <2>2, <2>3, SettleMaps
<1>6. CASE HandleTurnStarted
  BY <1>4, <1>6 DEF HandleTurnStarted
<1>7. CASE HandleItemCompleted
  <2>1. f.id \in thread
    BY <1>2, <1>7 DEF HandleItemCompleted, MayHandle, Honest
  <2>2. PICK D \in SUBSET Messages : \E keys :
          /\ Settle(D, {}, keys)
          /\ \A m \in D : /\ m = f.id \/ combinedId[m] = f.id
                          /\ state[m] \notin {"none", "delivered"}
    BY <1>7 DEF HandleItemCompleted, ResendGroup, Live
  <2>3. \A m \in D : HasCommitted(m) /\ state[m] \in {"sending", "queued", "returned"}
    BY <2>1, <2>2 DEF HasCommitted, LifecycleInv, TypeOK, EntryStates
  <2>4. state' = Settled(D, {}) /\ {} \in SUBSET (Live \ D)
    BY <2>2 DEF Settle
  <2> QED
    BY <1>1, <2>3, <2>4, SettleMaps
<1>8. CASE HandleTurnCompleted
  <2>1. \A evidence \in Evidence(f) : evidence \subseteq thread
    BY <1>2, <1>8 DEF Honest, Evidence, HandleTurnCompleted, MayHandle
  <2>2. \/ Settle({}, {}, {})
        \/ \E evidence \in Evidence(f) :
               SettleAgainst({m \in Live : boundTurn[m] = f.turn}, evidence)
    BY <1>8 DEF HandleTurnCompleted
  <2> QED
    BY <1>4, <1>5, <2>1, <2>2
<1>9. CASE HandleIdle
  BY <1>5, <1>9 DEF HandleIdle
<1> QED
  BY <1>3, <1>6, <1>7, <1>8, <1>9 DEF Handlers

\* The daemon commits.
LEMMA DaemonMaps ==
    ASSUME LifecycleInv, Serves \/ DaemonCommits \/ DaemonEndsTurn \/ ForeignTurn
    PROVE  LifecycleStep
<1>1. UNCHANGED <<state, copies, combinedId>>
  BY DEF Serves, DaemonStarts, DaemonSteers, DaemonRefuses, DaemonAborts, DaemonCommits,
         DaemonEndsTurn, ForeignTurn, ClientFrame, ledgerVars, pushedVars
<1>2. CASE DaemonCommits
  <2>1. thread \subseteq thread'
    BY <1>2 DEF DaemonCommits
  <2>2. Conversation' = Conversation \cup Conversation' /\ Conversation' \in SUBSET Messages
    BY <1>1, <2>1 DEF Conversation, HasCommitted
  <2>3. Lifecycle!Commit(Conversation')
    BY <1>1, <2>2 DEF Lifecycle!Commit, Conversation
  <2> QED
    BY <2>2, <2>3 DEF LifecycleStep, Lifecycle!LifecycleNext
<1>3. CASE ~DaemonCommits
  <2>1. thread' = thread
    BY <1>3 DEF Serves, DaemonStarts, DaemonSteers, DaemonRefuses, DaemonAborts,
           DaemonEndsTurn, ForeignTurn, daemonVars
  <2> QED
    BY <1>1, <2>1, StutterMaps
<1> QED
  BY <1>2, <1>3

\* Every step of the ledger is a step of the lifecycle, or leaves its variables alone.
LEMMA StepMaps == LifecycleInv /\ [Next]_vars /\ [CleanResend]_vars => LifecycleStep
<1> SUFFICES ASSUME LifecycleInv, [Next]_vars, [CleanResend]_vars PROVE LifecycleStep
  OBVIOUS
<1>1. ASSUME NEW c \in Combined, TapRefused(c) PROVE CleanFail(c)
  <2>1. pc[c] = "refused" /\ pc'[c] = "done"
    BY <1>1 DEF TapRefused, LifecycleInv, TypeOK, Callers
  <2>2. vars' # vars
    BY <2>1 DEF vars, callVars
  <2> QED
    BY <1>1, <2>2 DEF CleanResend
<1>2. ASSUME NEW c \in Callers, Submit(c) PROVE LifecycleStep
  BY <1>2, StutterMaps DEF Submit, ledgerVars, pushedVars, daemonVars
<1>3. UNCHANGED vars => LifecycleStep
  BY StutterMaps DEF vars, ledgerVars, pushedVars, daemonVars
<1>4. CASE Actions
  <2>1. CASE FlushUserTurns
    BY <2>1, HandlerMaps DEF Handlers
  <2> QED
    BY <1>1, <1>2, <1>4, <2>1, SendMaps, TapMaps, StopMaps DEF Actions
<1> QED
  BY <1>3, <1>4, StepGroups, HandlerMaps, DaemonMaps

\* All that the refinement needs is inductive.
LEMMA LifecycleInvInductive ==
    ASSUME "overtake" \notin Races
    PROVE  /\ Init => LifecycleInv
           /\ LifecycleInv /\ TypeOK' /\ [Next]_vars /\ [CleanResend]_vars => LifecycleInv'
<1>1. Init => LifecycleInv
  BY InitType, CommitInductive, HandBackInductive, CallInductive, TurnInductive, TagInductive,
     SteerInductive DEF LifecycleInv
<1>2. LifecycleInv /\ TypeOK' /\ [Next]_vars /\ [CleanResend]_vars => LifecycleInv'
  BY CommitInductive, HandBackInductive, CallInductive, TurnInductive, TagInductive,
     SteerInductive DEF LifecycleInv
<1> QED
  BY <1>1, <1>2

\* The ledger implements the lifecycle of core-contracts/messages-lifecycle-contract.md:
\* apart from a frame that overtakes the thread of a call, and from a tap that fails while
\* a member of it has been delivered or a text swept to Returned is still being sent, each
\* step is one the contract allows, or changes nothing that it speaks of.
THEOREM ImplementsLifecycle ==
    ASSUME "overtake" \notin Races
    PROVE  Spec /\ [][CleanResend]_vars => LifecycleSpec
<1>1. Init => Lifecycle!LifecycleInit
  <2>1. Init => Conversation = {}
    BY DEF Init, Conversation, HasCommitted
  <2> QED
    BY <2>1 DEF Init, Lifecycle!LifecycleInit, Conversation
<1>2. LifecycleStep => [Lifecycle!LifecycleNext]_Lifecycle!mlVars
  BY DEF LifecycleStep, Lifecycle!mlVars, Conversation
<1>3. Init => LifecycleInv
  BY LifecycleInvInductive
<1>4. LifecycleInv /\ TypeOK' /\ [Next]_vars /\ [CleanResend]_vars => LifecycleInv'
  BY LifecycleInvInductive
<1> QED
  BY <1>1, <1>2, <1>3, <1>4, StepMaps, TypeCorrect, PTL
     DEF Spec, LifecycleSpec, Lifecycle!LifecycleSpec
===============================================================================
