-------------------------- MODULE BrowserLeaseProofs ---------------------------
(***************************************************************************)
(* What TLAPS proves of BrowserLease for every set of agents and any       *)
(* number of calls, takeovers, crashes, stops and starts: the types, that  *)
(* the line is served, whose frames pass and whom the sweeps spare.        *)
(***************************************************************************)
EXTENDS BrowserLease, TLAPS, SequenceTheorems, NaturalsInduction, WellFoundedInduction

-------------------------------------------------------------------------------
(* Queues.                                                                   *)

\* A set of naturals that is not empty has a least element.
LEMMA Smallest ==
    ASSUME NEW D, D \subseteq Nat, D # {}
    PROVE  \E d \in D : \A k \in D : ~(k < d)
<1>1. IsWellFoundedOn(OpToRel(<, Nat), Nat)
  BY NatLessThanWellFounded
<1>2. \E d \in D : \A k \in D : ~(<<k, d>> \in OpToRel(<, Nat))
  BY <1>1, WFMin, Zenon
<1>3. PICK d \in D : \A k \in D : ~(<<k, d>> \in OpToRel(<, Nat))
  BY <1>2
<1> QED
  BY <1>3 DEF OpToRel

\* One step of the recursion in Without.
Filtered(q, a, f) ==
    [n \in 0 .. Len(q) |->
            IF n = 0 THEN <<>>
            ELSE IF q[n] = a THEN f[n - 1] ELSE Append(f[n - 1], q[n])]

\* Without is what any function of its recursion ends in.
LEMMA WithoutUnique ==
    ASSUME NEW q, NEW a, Len(q) \in Nat, NEW g, g = Filtered(q, a, g)
    PROVE  Without(q, a) = g[Len(q)]
<1> DEFINE h == CHOOSE f : f = Filtered(q, a, f)
<1>1. Without(q, a) = h[Len(q)]
  BY DEF Without, Filtered
<1>2. h = Filtered(q, a, h)
  <2> HIDE DEF h
  <2>1. \E f : f = Filtered(q, a, f)
    OBVIOUS
  <2> QED BY <2>1 DEF h
<1> HIDE DEF h
<1>3. SUFFICES \A n \in 0 .. Len(q) : h[n] = g[n]
  BY <1>1
<1> DEFINE D == {n \in 0 .. Len(q) : h[n] # g[n]}
<1>4. ASSUME D # {} PROVE FALSE
  <2>1. PICK d \in D : \A k \in D : ~(k < d)
    <3>1. D \subseteq Nat
      OBVIOUS
    <3> HIDE DEF D
    <3> QED BY <1>4, <3>1, Smallest, Zenon
  <2>2. d # 0
    BY <1>2 DEF Filtered
  <2>3. d - 1 \in 0 .. Len(q) /\ h[d - 1] = g[d - 1]
    BY <2>1, <2>2
  <2>4. h[d] = g[d]
    BY <1>2, <2>2, <2>3 DEF Filtered
  <2> QED BY <2>1, <2>4
<1> QED BY <1>4

\* What stands in a queue is some entry of it.
LEMMA EntriesOf ==
    ASSUME NEW S, NEW q \in Seq(S), NEW a
    PROVE  a \in ToSet(q) <=> \E i \in 1 .. Len(q) : q[i] = a
  BY DEF ToSet

\* The first n entries, and those without the k-th.
Prefix(q, n) == [i \in 1 .. n |-> q[i]]
Skipping(q, k, n) == [i \in 1 .. (n - 1) |-> IF i < k THEN q[i] ELSE q[i + 1]]

\* One entry more of a queue that loses nothing.
LEMMA PrefixGrows ==
    ASSUME NEW S, NEW q \in Seq(S), NEW n \in 0 .. Len(q)
    PROVE  /\ Prefix(q, n) \in Seq(S) /\ Len(Prefix(q, n)) = n
           /\ n < Len(q) => Append(Prefix(q, n), q[n + 1]) = Prefix(q, n + 1)
  BY DEF Prefix

\* One entry more of a queue that has lost its k-th.
LEMMA SkippingGrows ==
    ASSUME NEW S, NEW q \in Seq(S), NEW k \in 1 .. Len(q), NEW n \in k .. Len(q)
    PROVE  /\ Skipping(q, k, n) \in Seq(S) /\ Len(Skipping(q, k, n)) = n - 1
           /\ n < Len(q) => Append(Skipping(q, k, n), q[n + 1]) = Skipping(q, k, n + 1)
<1>1. Skipping(q, k, n) \in Seq(S) /\ Len(Skipping(q, k, n)) = n - 1
  BY DEF Skipping
<1> QED
  BY <1>1 DEF Skipping

\* In a queue of distinct entries only the agent's own goes.
LEMMA WithoutAbsent ==
    ASSUME NEW S, NEW q \in Seq(S), NEW a, a \notin ToSet(q)
    PROVE  Without(q, a) = q
<1> DEFINE g == [n \in 0 .. Len(q) |-> Prefix(q, n)]
<1>1. \A i \in 1 .. Len(q) : q[i] # a
  BY DEF ToSet
<1>2. ASSUME NEW n \in 0 .. Len(q)
      PROVE  g[n] = Filtered(q, a, g)[n]
  <2>1. CASE n = 0
    BY <2>1 DEF Filtered, Prefix
  <2>2. CASE n > 0
    <3>1. n - 1 \in 0 .. Len(q) /\ n - 1 < Len(q) /\ (n - 1) + 1 = n /\ n # 0
      BY <2>2
    <3>2. Append(Prefix(q, n - 1), q[n]) = Prefix(q, n)
      BY <3>1, PrefixGrows
    <3>3. q[n] # a
      BY <1>1, <3>1
    <3> QED
      BY <3>1, <3>2, <3>3 DEF Filtered
  <2> QED
    BY <2>1, <2>2
<1>3. g = Filtered(q, a, g)
  BY <1>2 DEF Filtered
<1>4. g[Len(q)] = q
  BY DEF Prefix
<1> HIDE DEF g
<1> QED
  BY <1>3, <1>4, WithoutUnique

\* Where an agent stands once, its place is what goes.
LEMMA WithoutKth ==
    ASSUME NEW S, NEW q \in Seq(S), NEW k \in 1 .. Len(q), IsInjective(q)
    PROVE  Without(q, q[k]) = Skipping(q, k, Len(q))
<1> DEFINE g == [n \in 0 .. Len(q) |-> IF n < k THEN Prefix(q, n) ELSE Skipping(q, k, n)]
<1>1. \A i \in 1 .. Len(q) : q[i] = q[k] => i = k
  BY DEF IsInjective
<1>2. ASSUME NEW n \in 0 .. Len(q)
      PROVE  g[n] = Filtered(q, q[k], g)[n]
  <2>1. CASE n = 0
    BY <2>1 DEF Filtered, Prefix
  <2>2. CASE n > 0
    <3>1. n - 1 \in 0 .. Len(q) /\ n - 1 < Len(q) /\ (n - 1) + 1 = n /\ n # 0 /\ n \in 1 .. Len(q)
      BY <2>2
    <3>2. CASE n < k
      <4>1. Append(Prefix(q, n - 1), q[n]) = Prefix(q, n)
        BY <3>1, PrefixGrows
      <4>2. q[n] # q[k] /\ n - 1 < k
        BY <1>1, <3>1, <3>2
      <4> QED
        BY <3>1, <3>2, <4>1, <4>2 DEF Filtered
    <3>3. CASE n = k
      <4>1. Prefix(q, n - 1) = Skipping(q, k, n)
        BY <3>1, <3>3 DEF Prefix, Skipping
      <4> QED
        BY <3>1, <3>3, <4>1 DEF Filtered
    <3>4. CASE n > k
      <4>1. n - 1 \in k .. Len(q) /\ ~(n - 1 < k) /\ ~(n < k)
        BY <3>1, <3>4
      <4>2. Append(Skipping(q, k, n - 1), q[n]) = Skipping(q, k, n)
        BY <3>1, <4>1, SkippingGrows
      <4>3. q[n] # q[k]
        BY <1>1, <3>1, <3>4
      <4> QED
        BY <3>1, <4>1, <4>2, <4>3 DEF Filtered
    <3> QED
      BY <3>1, <3>2, <3>3, <3>4
  <2> QED
    BY <2>1, <2>2
<1>3. g = Filtered(q, q[k], g)
  BY <1>2 DEF Filtered
<1>4. g[Len(q)] = Skipping(q, k, Len(q))
  OBVIOUS
<1> HIDE DEF g
<1> QED
  BY <1>3, <1>4, WithoutUnique

\* What a queue of distinct entries is without an agent.
LEMMA WithoutDistinct ==
    ASSUME NEW S, NEW q \in Seq(S), NEW a, IsInjective(q)
    PROVE  /\ Without(q, a) \in Seq(S) /\ IsInjective(Without(q, a))
           /\ ToSet(Without(q, a)) = ToSet(q) \ {a}
<1>1. CASE a \notin ToSet(q)
  BY <1>1, WithoutAbsent
<1>2. CASE a \in ToSet(q)
  <2>1. PICK k \in 1 .. Len(q) : q[k] = a
    BY <1>2 DEF ToSet
  <2> DEFINE w == Skipping(q, k, Len(q))
  <2>2. w = Without(q, a)
    BY <2>1, WithoutKth
  <2>3. w \in Seq(S) /\ Len(w) = Len(q) - 1
    BY SkippingGrows
  <2>4. \A i \in 1 .. Len(w) : w[i] = IF i < k THEN q[i] ELSE q[i + 1]
    BY <2>3 DEF Skipping
  <2>5. \A i, j \in 1 .. Len(q) : q[i] = q[j] => i = j
    BY DEF IsInjective
  <2> HIDE DEF w
  <2>6. \A i \in 1 .. Len(w) : w[i] \in ToSet(q) /\ w[i] # a
    BY <2>1, <2>3, <2>4, <2>5 DEF ToSet
  <2>7. \A i \in 1 .. Len(q) : q[i] # a => q[i] \in ToSet(w)
    <3> SUFFICES ASSUME NEW i \in 1 .. Len(q), q[i] # a
                 PROVE  \E j \in 1 .. Len(w) : w[j] = q[i]
      BY <2>3 DEF ToSet
    <3>1. CASE i < k
      <4>1. i \in 1 .. Len(w) /\ w[i] = q[i]
        BY <2>3, <2>4, <3>1
      <4> QED
        BY <4>1
    <3>2. CASE i > k
      <4>1. i - 1 \in 1 .. Len(w) /\ w[i - 1] = q[i]
        BY <2>3, <2>4, <3>2
      <4> QED
        BY <4>1
    <3> QED
      BY <2>1, <3>1, <3>2
  <2>8. ToSet(w) = ToSet(q) \ {a}
    BY <2>3, <2>6, <2>7 DEF ToSet
  <2>9. \A i, j \in 1 .. Len(w) : w[i] = w[j] => i = j
    BY <2>3, <2>4, <2>5
  <2> QED
    BY <2>2, <2>3, <2>8, <2>9 DEF IsInjective
<1> QED
  BY <1>1, <1>2

\* A newcomer at the end of a queue of distinct entries (_enqueue_resume_locked).
LEMMA AppendDistinct ==
    ASSUME NEW S, NEW q \in Seq(S), NEW a \in S, IsInjective(q), a \notin ToSet(q)
    PROVE  /\ Append(q, a) \in Seq(S) /\ IsInjective(Append(q, a))
           /\ ToSet(Append(q, a)) = ToSet(q) \cup {a}
  BY DEF IsInjective, ToSet

\* A newcomer at its front (_enqueue_resume_front_locked).
LEMMA FrontDistinct ==
    ASSUME NEW S, NEW q \in Seq(S), NEW a \in S, IsInjective(q), a \notin ToSet(q)
    PROVE  /\ <<a>> \o q \in Seq(S) /\ IsInjective(<<a>> \o q)
           /\ ToSet(<<a>> \o q) = ToSet(q) \cup {a}
<1> DEFINE w == <<a>> \o q
<1>1. w \in Seq(S) /\ Len(w) = Len(q) + 1
  OBVIOUS
<1>2. \A i \in 1 .. Len(w) : w[i] = IF i = 1 THEN a ELSE q[i - 1]
  OBVIOUS
<1> HIDE DEF w
<1>3. \A i \in 1 .. Len(q) : q[i] # a
  BY DEF ToSet
<1>4. \A i, j \in 1 .. Len(q) : q[i] = q[j] => i = j
  BY DEF IsInjective
<1>0. \A i \in 1 .. Len(w) : i = 1 \/ (i - 1 \in 1 .. Len(q) /\ w[i] = q[i - 1])
  BY <1>1, <1>2
<1>5. \A i, j \in 1 .. Len(w) : w[i] = w[j] => i = j
  <2>1. \A i, j \in 1 .. Len(w) : i # 1 /\ j # 1 /\ w[i] = w[j] => i - 1 = j - 1
    BY <1>0, <1>4
  <2>2. \A i \in 1 .. Len(w) : i # 1 => w[i] # a
    BY <1>0, <1>3
  <2>3. w[1] = a /\ \A i, j \in 1 .. Len(w) : i - 1 = j - 1 => i = j
    BY <1>1, <1>2
  <2> QED
    BY <2>1, <2>2, <2>3
<1>6. ToSet(w) = ToSet(q) \cup {a}
  <2>1. \A i \in 1 .. Len(w) : w[i] \in ToSet(q) \cup {a}
    BY <1>1, <1>2 DEF ToSet
  <2>2. \A i \in 1 .. Len(q) : i + 1 \in 1 .. Len(w) /\ w[i + 1] = q[i]
    BY <1>1, <1>2
  <2>3. 1 \in 1 .. Len(w) /\ w[1] = a
    BY <1>1, <1>2
  <2>4. ToSet(q) \cup {a} \subseteq ToSet(w)
    BY <1>1, <2>2, <2>3, EntriesOf
  <2> QED
    BY <1>1, <2>1, <2>4, EntriesOf
<1>7. IsInjective(w)
  BY <1>1, <1>5, LenProperties DEF IsInjective
<1> QED
  BY <1>1, <1>6, <1>7 DEF w

\* The first of a queue of distinct entries leaves it.
LEMMA TailDistinct ==
    ASSUME NEW S, NEW q \in Seq(S), q # <<>>, IsInjective(q)
    PROVE  /\ Head(q) \in S /\ Head(q) \in ToSet(q)
           /\ Tail(q) \in Seq(S) /\ IsInjective(Tail(q))
           /\ ToSet(Tail(q)) = ToSet(q) \ {Head(q)}
<1>1. /\ Tail(q) \in Seq(S) /\ Len(Tail(q)) = Len(q) - 1 /\ Len(q) > 0
      /\ \A i \in 1 .. Len(Tail(q)) : Tail(q)[i] = q[i + 1]
      /\ Head(q) = q[1] /\ Head(q) \in S
  OBVIOUS
<1> DEFINE w == Tail(q)
<1> HIDE DEF w
<1>2. \A i, j \in 1 .. Len(q) : q[i] = q[j] => i = j
  BY DEF IsInjective
<1>3. \A i, j \in 1 .. Len(w) : w[i] = w[j] => i = j
  BY <1>1, <1>2 DEF w
<1>4. \A i \in 1 .. Len(w) : w[i] \in ToSet(q) /\ w[i] # q[1]
  BY <1>1, <1>2 DEF w, ToSet
<1>5. \A i \in 1 .. Len(q) : i # 1 => i - 1 \in 1 .. Len(w) /\ w[i - 1] = q[i]
  BY <1>1 DEF w
<1>6. ToSet(w) = ToSet(q) \ {q[1]}
  <2>0. w \in Seq(S)
    BY <1>1 DEF w
  <2>1. ToSet(w) \subseteq ToSet(q) \ {q[1]}
    BY <2>0, <1>4, EntriesOf
  <2>2. ToSet(q) \ {q[1]} \subseteq ToSet(w)
    BY <2>0, <1>5, EntriesOf
  <2> QED
    BY <2>1, <2>2
<1>7. IsInjective(w)
  BY <1>1, <1>3, LenProperties DEF IsInjective, w
<1>8. Head(q) \in ToSet(q)
  BY <1>1, EntriesOf
<1> QED
  BY <1>1, <1>6, <1>7, <1>8 DEF w

\* A queue is empty when nobody stands in it.
LEMMA EmptyQueue ==
    ASSUME NEW S
    PROVE  /\ <<>> \in Seq(S) /\ ToSet(<<>>) = {} /\ IsInjective(<<>>)
           /\ \A q \in Seq(S) : ToSet(q) \subseteq S /\ (ToSet(q) = {} <=> q = <<>>)
<1>1. \A q \in Seq(S) : q # <<>> => Head(q) \in ToSet(q)
  BY DEF ToSet
<1> QED
  BY <1>1 DEF ToSet, IsInjective

-------------------------------------------------------------------------------
(* The writers of the control state.                                         *)

\* A control state whose parts agree: the holder with the controller, the pin, the
\* token and the lines; the lines with themselves and with the waiters.
Good(s) ==
    /\ s \in Control
    /\ (s.controller = "human") <=> (s.owner = NoAgent)
    /\ s.pinned => s.controller = "human"
    /\ s.controller = "agent" => s.owner \notin ToSet(s.resumeQueue) /\ s.tokenOwner = s.owner
    /\ s.attached \subseteq {s.tokenOwner}
    /\ IsInjective(s.resumeQueue) /\ IsInjective(s.waitQueue)
    /\ \A a \in Agents : a \in ToSet(s.waitQueue) <=> s.waiter[a] = "parked"

\* Nobody waits for a free browser.
Settled(s) == Free(s) => s.resumeQueue = <<>> /\ s.waitQueue = <<>>

\* An agent holds the browser and its clocks have not run out, or start.
Fresh(s) == s.controller = "agent" /\ ~s.quiet /\ s.claim = "none"
Overdue(s) == s.controller = "agent" /\ (s.quiet \/ s.claim = "over")

\* Dropping an agent from the resume queue (_dequeue_resume_locked).
LEMMA DequeueGood ==
    ASSUME NEW s, Good(s), NEW a \in Agents
    PROVE  /\ Good(Dequeue(s, a)) /\ a \notin ToSet(Dequeue(s, a).resumeQueue)
           /\ ToSet(Dequeue(s, a).resumeQueue) = ToSet(s.resumeQueue) \ {a}
<1>1. s.resumeQueue \in Seq(Agents) /\ IsInjective(s.resumeQueue)
  BY DEF Good, Control
<1> DEFINE w == Without(s.resumeQueue, a)
<1>2. w \in Seq(Agents) /\ IsInjective(w) /\ ToSet(w) = ToSet(s.resumeQueue) \ {a}
  BY <1>1, WithoutDistinct
<1>3. Dequeue(s, a) = [s EXCEPT !.resumeQueue = w]
  BY DEF Dequeue
<1> HIDE DEF w
<1> QED
  BY <1>2, <1>3 DEF Good, Control

\* Enrolling an agent that does not hold the browser.
LEMMA EnqueueGood ==
    ASSUME NEW s, Good(s), NEW a \in Agents, ~Owns(s, a)
    PROVE  /\ Good(Enqueue(s, a)) /\ a \in ToSet(Enqueue(s, a).resumeQueue)
           /\ ToSet(s.resumeQueue) \subseteq ToSet(Enqueue(s, a).resumeQueue)
<1>1. s.resumeQueue \in Seq(Agents) /\ IsInjective(s.resumeQueue)
  BY DEF Good, Control
<1>2. CASE a \in ToSet(s.resumeQueue)
  BY <1>2 DEF Enqueue
<1>3. CASE a \notin ToSet(s.resumeQueue)
  <2> DEFINE w == Append(s.resumeQueue, a)
  <2>1. w \in Seq(Agents) /\ IsInjective(w) /\ ToSet(w) = ToSet(s.resumeQueue) \cup {a}
    BY <1>1, <1>3, AppendDistinct
  <2>2. Enqueue(s, a) = [s EXCEPT !.resumeQueue = w]
    BY <1>3 DEF Enqueue
  <2> HIDE DEF w
  <2> DEFINE t == Enqueue(s, a)
  <2>3. /\ t \in Control /\ t.controller = s.controller /\ t.owner = s.owner
        /\ t.pinned = s.pinned /\ t.tokenOwner = s.tokenOwner /\ t.attached = s.attached
        /\ t.waitQueue = s.waitQueue /\ t.waiter = s.waiter /\ t.resumeQueue = w
    BY <2>1, <2>2 DEF Good, Control
  <2> HIDE DEF t
  <2>4. s.controller = "agent" => s.owner # a
    BY DEF Owns
  <2>5. Good(t)
    BY <2>1, <2>3, <2>4 DEF Good
  <2> QED
    BY <2>1, <2>3, <2>5 DEF t
<1> QED
  BY <1>2, <1>3

\* To the human, with the agent that drove first in line to resume.
LEMMA FrontToHumanGood ==
    ASSUME NEW s, Good(s), NEW a \in Agents
    PROVE  /\ Good(ToHuman(EnqueueFront(s, a), TRUE))
           /\ ToSet(EnqueueFront(s, a).resumeQueue) = ToSet(s.resumeQueue) \cup {a}
           /\ EnqueueFront(s, a).waitQueue = s.waitQueue
           /\ EnqueueFront(s, a).waiter = s.waiter
<1>1. s.resumeQueue \in Seq(Agents) /\ IsInjective(s.resumeQueue)
  BY DEF Good, Control
<1> DEFINE w == <<a>> \o Without(s.resumeQueue, a)
<1>2. /\ Without(s.resumeQueue, a) \in Seq(Agents) /\ IsInjective(Without(s.resumeQueue, a))
      /\ ToSet(Without(s.resumeQueue, a)) = ToSet(s.resumeQueue) \ {a}
  BY <1>1, WithoutDistinct
<1>3. w \in Seq(Agents) /\ IsInjective(w) /\ ToSet(w) = ToSet(s.resumeQueue) \cup {a}
  BY <1>2, FrontDistinct
<1>4. EnqueueFront(s, a) = [s EXCEPT !.resumeQueue = w]
  BY DEF EnqueueFront
<1> HIDE DEF w
<1>5. a # NoAgent
  BY LeaseAssumption
<1> QED
  BY <1>3, <1>4, <1>5 DEF Good, Control, ToHuman

\* Writing the human as the controller (_write_control_locked).
LEMMA ToHumanGood ==
    ASSUME NEW s, Good(s), NEW p \in BOOLEAN
    PROVE  Good(ToHuman(s, p))
  BY DEF Good, Control, ToHuman

\* Writing an agent that is not in line: its clocks are fresh and the token is its own.
LEMMA ToAgentGood ==
    ASSUME NEW s, Good(s), NEW a \in Agents, a \notin ToSet(s.resumeQueue)
    PROVE  /\ Good(ToAgent(s, a)) /\ Settled(ToAgent(s, a)) /\ Fresh(ToAgent(s, a))
           /\ ToAgent(s, a).owner = a
           /\ ToAgent(s, a).resumeQueue = s.resumeQueue
           /\ ToAgent(s, a).waitQueue = s.waitQueue
           /\ ToAgent(s, a).waiter = s.waiter
<1>1. a # NoAgent
  BY LeaseAssumption
<1>2. CASE s.tokenOwner = a
  BY <1>1, <1>2 DEF Good, Control, ToAgent, Settled, Free, Fresh
<1>3. CASE s.tokenOwner # a
  BY <1>1, <1>3 DEF Good, Control, ToAgent, Mint, Settled, Free, Fresh
<1> QED
  BY <1>2, <1>3

\* A pin turns the waiters away; the others' coroutines notice nothing.
LEMMA EvictGood ==
    ASSUME NEW s, Good(s)
    PROVE  /\ Good(Evict(s)) /\ Evict(s).waitQueue = <<>>
           /\ \A a \in Agents : s.waiter[a] # "parked" => Evict(s).waiter[a] = s.waiter[a]
<1> DEFINE w == [a \in Agents |-> IF a \in ToSet(s.waitQueue) THEN "evicted" ELSE s.waiter[a]]
<1>1. w \in [Agents -> {"none", "parked", "granted", "evicted"}]
  BY DEF Good, Control
<1>2. \A a \in Agents : w[a] # "parked" /\ (s.waiter[a] # "parked" => w[a] = s.waiter[a])
  BY DEF Good
<1>3. Evict(s) = [s EXCEPT !.waitQueue = <<>>, !.waiter = w]
  BY DEF Evict, Good, Control
<1> HIDE DEF w
<1>4. <<>> \in Seq(Agents) /\ ToSet(<<>>) = {} /\ IsInjective(<<>>)
  BY EmptyQueue
<1> DEFINE t == Evict(s)
<1>5. /\ t \in Control /\ t.controller = s.controller /\ t.owner = s.owner
      /\ t.pinned = s.pinned /\ t.tokenOwner = s.tokenOwner /\ t.attached = s.attached
      /\ t.waitQueue = <<>> /\ t.waiter = w /\ t.resumeQueue = s.resumeQueue
  <2>1. s \in Control
    BY DEF Good
  <2>2. t = [s EXCEPT !.waitQueue = <<>>, !.waiter = w]
    BY <1>3
  <2> HIDE DEF t
  <2> QED BY <1>1, <1>4, <2>1, <2>2 DEF Control
<1> HIDE DEF t
<1>6. Good(t)
  BY <1>2, <1>4, <1>5 DEF Good
<1> QED
  BY <1>2, <1>5, <1>6 DEF t

\* What settling the queues does, of the state it settles.
SettlesTo(s, t) ==
    /\ Good(t) /\ Settled(t)
    /\ Woken(s) \subseteq ToSet(s.resumeQueue)
    /\ ToSet(s.resumeQueue) \ (Woken(s) \cup {t.owner}) \subseteq ToSet(t.resumeQueue)
    /\ \A a \in Agents : s.waiter[a] # "parked" => t.waiter[a] = s.waiter[a]
    /\ s.controller = "agent" => t = s
    /\ s.controller = "human" /\ t.controller = "agent" =>
           /\ ~t.quiet /\ t.claim # "over"
           /\ t.owner \in Woken(s) \/ (t.claim = "none" /\ t.waiter[t.owner] = "granted")
    /\ s.resumeQueue = <<>> /\ s.waitQueue = <<>> =>
           t.resumeQueue = <<>> /\ t.waitQueue = <<>> /\ t.controller = s.controller
    /\ s.pinned => t.controller = "human" /\ t.resumeQueue = s.resumeQueue

\* Settling, case by case: a pin, a waiter, an agent to resume, nobody.
LEMMA Settling ==
    ASSUME NEW s, Good(s)
    PROVE  SettlesTo(s, Settle(s))
<1>0. /\ s.resumeQueue \in Seq(Agents) /\ IsInjective(s.resumeQueue)
      /\ s.waitQueue \in Seq(Agents) /\ IsInjective(s.waitQueue)
      /\ s.controller \in {"human", "agent"}
      /\ s.owner = NoAgent <=> s.controller = "human"
      /\ s.pinned \in BOOLEAN /\ (s.pinned => s.controller = "human")
  BY DEF Good, Control
<1>1. CASE s.controller = "human" /\ s.pinned
  <2>1. Settle(s) = Evict(s) /\ Woken(s) = {}
    BY <1>1 DEF Settle, Woken, Free
  <2>2. Evict(s).controller = "human" /\ Evict(s).pinned /\ Evict(s).resumeQueue = s.resumeQueue
    BY <1>1 DEF Evict, Good, Control
  <2> QED
    BY <1>0, <1>1, <2>1, <2>2, EvictGood DEF SettlesTo, Settled, Free
<1>2. CASE Free(s) /\ s.waitQueue # <<>>
  <2> DEFINE a == Head(s.waitQueue)
             d == Dequeue(s, a)
             g == ToAgent(d, a)
             t == [g EXCEPT !.waitQueue = Tail(@), !.waiter[a] = "granted"]
  <2>1. Settle(s) = t /\ Woken(s) = {} /\ s.controller = "human" /\ ~s.pinned
    BY <1>2 DEF Settle, Woken, Free
  <2>2. /\ a \in Agents /\ a \in ToSet(s.waitQueue)
        /\ Tail(s.waitQueue) \in Seq(Agents) /\ IsInjective(Tail(s.waitQueue))
        /\ ToSet(Tail(s.waitQueue)) = ToSet(s.waitQueue) \ {a}
    BY <1>0, <1>2, TailDistinct
  <2> HIDE DEF a
  <2>3. /\ Good(d) /\ a \notin ToSet(d.resumeQueue)
        /\ ToSet(d.resumeQueue) = ToSet(s.resumeQueue) \ {a}
        /\ d.waitQueue = s.waitQueue /\ d.waiter = s.waiter
    <3>1. d.waitQueue = s.waitQueue /\ d.waiter = s.waiter
      BY DEF Dequeue, Good, Control
    <3> QED
      BY <2>2, <3>1, DequeueGood
  <2> HIDE DEF d
  <2>4. /\ Good(g) /\ Fresh(g) /\ g.owner = a /\ g.resumeQueue = d.resumeQueue
        /\ g.waitQueue = s.waitQueue /\ g.waiter = s.waiter
    BY <2>2, <2>3, ToAgentGood
  <2> HIDE DEF g
  <2>5. /\ t \in Control /\ t.controller = "agent" /\ t.owner = a /\ t.pinned = g.pinned
        /\ t.tokenOwner = g.tokenOwner /\ t.attached = g.attached /\ t.resumeQueue = d.resumeQueue
        /\ t.waitQueue = Tail(s.waitQueue) /\ ~t.quiet /\ t.claim = "none"
        /\ t.waiter = [s.waiter EXCEPT ![a] = "granted"]
    BY <2>2, <2>4 DEF Good, Control, Fresh
  <2> HIDE DEF t
  <2>6. s.waiter \in [Agents -> {"none", "parked", "granted", "evicted"}]
    BY DEF Good, Control
  <2>7. /\ t.waiter[a] = "granted"
        /\ \A b \in Agents : b # a => t.waiter[b] = s.waiter[b]
    BY <2>2, <2>5, <2>6
  <2>8. s.waiter[a] = "parked"
    BY <2>2 DEF Good
  <2>9. \A b \in Agents : b \in ToSet(t.waitQueue) <=> t.waiter[b] = "parked"
    BY <2>2, <2>5, <2>7 DEF Good
  <2>10. Good(t)
    <3>1. /\ a # NoAgent /\ t.tokenOwner = a /\ t.attached \subseteq {a} /\ ~t.pinned
          /\ IsInjective(t.resumeQueue) /\ IsInjective(t.waitQueue)
      BY <2>2, <2>3, <2>4, <2>5, LeaseAssumption DEF Good, Fresh
    <3> QED
      BY <2>3, <2>5, <2>9, <3>1 DEF Good
  <2> QED
    BY <1>0, <1>2, <2>1, <2>3, <2>5, <2>7, <2>8, <2>10 DEF SettlesTo, Settled, Free
<1>3. CASE Free(s) /\ s.waitQueue = <<>> /\ s.resumeQueue # <<>>
  <2> DEFINE a == Head(s.resumeQueue)
             d == [s EXCEPT !.resumeQueue = Tail(@)]
             g == ToAgent(s, a)
             t == [g EXCEPT !.resumeQueue = Tail(@), !.claim = "open"]
  <2>1. Settle(s) = t /\ Woken(s) = {a} /\ s.controller = "human" /\ ~s.pinned
    BY <1>3 DEF Settle, Woken, Free
  <2>2. /\ a \in Agents /\ a \in ToSet(s.resumeQueue) /\ a # NoAgent
        /\ Tail(s.resumeQueue) \in Seq(Agents) /\ IsInjective(Tail(s.resumeQueue))
        /\ ToSet(Tail(s.resumeQueue)) = ToSet(s.resumeQueue) \ {a}
    BY <1>0, <1>3, TailDistinct, LeaseAssumption
  <2> HIDE DEF a
  <2>3. /\ g \in Control /\ g.controller = "agent" /\ g.owner = a /\ ~g.pinned
        /\ g.tokenOwner = a /\ g.attached \subseteq {a} /\ g.resumeQueue = s.resumeQueue
        /\ g.waitQueue = s.waitQueue /\ g.waiter = s.waiter /\ ~g.quiet
    <3>1. CASE s.tokenOwner = a
      BY <2>2, <3>1 DEF Good, Control, ToAgent
    <3>2. CASE s.tokenOwner # a
      BY <2>2, <3>2 DEF Good, Control, ToAgent, Mint
    <3> QED
      BY <3>1, <3>2
  <2> HIDE DEF g
  <2>4. /\ t \in Control /\ t.controller = "agent" /\ t.owner = a /\ ~t.pinned
        /\ t.tokenOwner = a /\ t.attached \subseteq {a} /\ t.resumeQueue = Tail(s.resumeQueue)
        /\ t.waitQueue = s.waitQueue /\ t.waiter = s.waiter /\ ~t.quiet /\ t.claim = "open"
    BY <2>2, <2>3 DEF Control
  <2> HIDE DEF t
  <2>5. Good(t)
    BY <2>2, <2>4 DEF Good
  <2> QED
    BY <1>0, <1>3, <2>1, <2>2, <2>4, <2>5 DEF SettlesTo, Settled, Free
<1>4. CASE s.controller = "agent" \/ (Free(s) /\ s.waitQueue = <<>> /\ s.resumeQueue = <<>>)
  <2>1. Settle(s) = s /\ Woken(s) = {}
    BY <1>0, <1>4 DEF Settle, Woken, Free
  <2> QED
    BY <1>0, <1>4, <2>1 DEF SettlesTo, Settled, Free
<1> QED
  BY <1>0, <1>1, <1>2, <1>3, <1>4 DEF Free

-------------------------------------------------------------------------------
(* The sections under the lock.                                              *)

AgentOps == {"acquire", "reclaim", "wait", "frame", "attach", "release", "handoff", "giveUp"}
Acquires == {"acquire", "reclaim", "wait", "frame"}

\* What may give an agent the browser or a place in a line.
Claims == Acquires \cup {"take", "handoff"}

Abandons == {"abandon", "stopAbandon"}
Sweeps == {"sweep", "idleLook", "idleTake"}

\* The control state and the lines, in any state of the browser's life.
LineInv == Good(c) /\ Settled(c) /\ NobodyForgotten /\ told \subseteq Agents

Knows == c.controller = "agent" => c.owner \in told \/ c.waiter[c.owner] = "granted"
Empty == promised = {} /\ c.resumeQueue = <<>> /\ c.waitQueue = <<>>

\* What the section of a call does, whatever it finds.
Kept(op, a) ==
    /\ LineInv'
    /\ Knows => Knows'
    /\ \A b \in Agents : c.waiter[b] = "none" =>
           c'.waiter[b] = "none" \/ (op = "wait" /\ b = a)
    /\ op \notin Claims /\ Empty => Empty' /\ (c.controller = "human" => c'.controller = "human")
    /\ op \in Abandons => Empty'
    /\ op = "stopAbandon" => c'.controller = "human"
    /\ Overdue(c') => Overdue(c)
    /\ Fresh(c) /\ c'.owner = c.owner => Fresh(c')
    /\ op = "frame" /\ Owns(c', a) => Fresh(c')
    /\ op = "handoff" /\ Owns(c, a) => c'.controller = "human"

\* A section that changes nothing.
LEMMA SetKept ==
    ASSUME LineInv, Set(c), NEW op, NEW a, op \notin Abandons,
           Owns(c, a) => op # "frame" /\ op # "handoff"
    PROVE  Kept(op, a)
<1>1. c' = c /\ promised' = promised /\ told' = told
  BY DEF Set
<1>2. LineInv' /\ (Knows => Knows') /\ (Empty => Empty')
  BY <1>1 DEF LineInv, NobodyForgotten, Knows, Empty
<1>3. op # "stopAbandon"
  BY DEF Abandons
<1> QED
  BY <1>1, <1>2, <1>3 DEF Kept

\* Freeing the browser passes it on to the first in line.
LEMMA PassesOn ==
    ASSUME LineInv, NEW s, Good(s), s.controller = "human",
           s.resumeQueue = c.resumeQueue, s.waitQueue = c.waitQueue,
           \A b \in Agents : c.waiter[b] = "none" => s.waiter[b] = "none",
           SettleFrom(s), NEW op, NEW a, op \notin Claims \cup Abandons
    PROVE  Kept(op, a)
<1> DEFINE t == Settle(s)
           W == Woken(s)
<1>1. SettlesTo(s, t)
  BY Settling
<1>2. c' = t /\ promised' = promised \ (W \cup {t.owner}) /\ told' = told \cup W
  BY DEF SettleFrom
<1> HIDE DEF t
<1>3. W \subseteq ToSet(s.resumeQueue)
  BY <1>1 DEF SettlesTo
<1> HIDE DEF W
<1>4. c.resumeQueue \in Seq(Agents)
  BY DEF LineInv, Good, Control
<1>5. W \subseteq Agents
  BY <1>3, <1>4, EmptyQueue
<1>6. LineInv'
  <2>1. NobodyForgotten'
    BY <1>1, <1>2 DEF SettlesTo, LineInv, NobodyForgotten, W
  <2>2. Good(c') /\ Settled(c')
    BY <1>1, <1>2 DEF SettlesTo
  <2>3. told' \subseteq Agents
    BY <1>2, <1>5 DEF LineInv
  <2> QED
    BY <2>1, <2>2, <2>3 DEF LineInv
<1>7. c'.controller \in {"human", "agent"} /\ (c'.owner = NoAgent <=> c'.controller = "human")
  BY <1>6 DEF LineInv, Good, Control
<1>8. Knows'
  BY <1>1, <1>2 DEF SettlesTo, Knows, W
<1>9. \A b \in Agents : c.waiter[b] = "none" => c'.waiter[b] = "none"
  BY <1>1, <1>2 DEF SettlesTo
<1>10. Empty => Empty' /\ c'.controller = "human"
  BY <1>1, <1>2 DEF SettlesTo, Empty
<1>11. ~Overdue(c')
  BY <1>1, <1>2 DEF SettlesTo, Overdue
<1>12. Fresh(c) /\ c'.owner = c.owner => Fresh(c')
  <2> SUFFICES ASSUME Fresh(c), c'.owner = c.owner PROVE Fresh(c')
    OBVIOUS
  <2>1. c.controller = "agent" /\ c.owner # NoAgent /\ c.owner \notin ToSet(c.resumeQueue)
    BY DEF Fresh, LineInv, Good, Control
  <2>2. c'.controller = "agent" /\ c'.owner \notin Woken(s)
    BY <1>3, <1>7, <2>1 DEF W
  <2> QED
    BY <1>1, <1>2, <2>2 DEF SettlesTo, Fresh
<1> QED
  BY <1>6, <1>8, <1>9, <1>10, <1>11, <1>12 DEF Kept, Claims, Acquires, Abandons

\* A forwarded frame restarts the clocks (touch_lease).
LEMMA TouchGood ==
    ASSUME NEW s, Good(s)
    PROVE  /\ Good(Touch(s)) /\ ~Overdue(Touch(s)) /\ (s.controller = "agent" => Fresh(Touch(s)))
           /\ Touch(s).controller = s.controller /\ Touch(s).owner = s.owner
           /\ Touch(s).pinned = s.pinned /\ Touch(s).waiter = s.waiter
           /\ Touch(s).resumeQueue = s.resumeQueue /\ Touch(s).waitQueue = s.waitQueue
<1> DEFINE t == Touch(s)
<1>1. /\ t \in Control /\ t.controller = s.controller /\ t.owner = s.owner
      /\ t.pinned = s.pinned /\ t.tokenOwner = s.tokenOwner /\ t.attached = s.attached
      /\ t.waitQueue = s.waitQueue /\ t.waiter = s.waiter /\ t.resumeQueue = s.resumeQueue
      /\ t.claim = "none" /\ ~t.quiet
  BY DEF Touch, Good, Control
<1> HIDE DEF t
<1> QED
  BY <1>1 DEF t, Good, Fresh, Overdue

\* acquire, in all its forms.
LEMMA AcquireKept ==
    ASSUME LineInv, NEW a \in Agents, NEW op \in Acquires,
           op = "wait" => c.waiter[a] = "none", AcquireSection(a, op)
    PROVE  Kept(op, a)
<1> DEFINE d == Dequeue(c, a)
           fed(s) == IF op = "frame" THEN Touch(s) ELSE s
<1>0. Good(c) /\ Settled(c) /\ promised \subseteq ToSet(c.resumeQueue) /\ told \subseteq Agents
  BY DEF LineInv, NobodyForgotten
<1>1. /\ Good(d) /\ a \notin ToSet(d.resumeQueue)
      /\ ToSet(d.resumeQueue) = ToSet(c.resumeQueue) \ {a}
  BY <1>0, DequeueGood
<1>2. /\ d.controller = c.controller /\ d.owner = c.owner /\ d.pinned = c.pinned
      /\ d.quiet = c.quiet /\ d.claim = c.claim /\ d.waitQueue = c.waitQueue
      /\ d.waiter = c.waiter
  BY <1>0 DEF Dequeue, Good, Control
<1> HIDE DEF d
<1>3. a # NoAgent /\ op \in Claims /\ op \notin Abandons /\ op # "handoff" /\ op # "stopAbandon"
  BY LeaseAssumption DEF Claims, Acquires, Abandons
<1>4. ASSUME NEW s, Good(s), s.controller = "agent", s.owner = a,
             s.resumeQueue = d.resumeQueue, s.waiter = d.waiter,
             Overdue(s) => Overdue(c), Fresh(c) /\ c.owner = a => Fresh(s),
             Given(fed(s), a)
      PROVE  Kept(op, a)
  <2> DEFINE t == fed(s)
  <2>1. /\ Good(t) /\ t.controller = "agent" /\ t.owner = a /\ t.resumeQueue = d.resumeQueue
        /\ t.waiter = d.waiter /\ (Overdue(t) => Overdue(c)) /\ (op = "frame" => Fresh(t))
        /\ (Fresh(c) /\ c.owner = a => Fresh(t))
    BY <1>4, TouchGood
  <2>2. c' = t /\ promised' = promised \ {a} /\ told' = told \cup {a}
    BY <1>4 DEF Given
  <2> HIDE DEF t
  <2>3. LineInv'
    BY <1>0, <1>1, <2>1, <2>2 DEF LineInv, NobodyForgotten, Settled, Free
  <2>4. Knows'
    BY <2>1, <2>2 DEF Knows
  <2>5. \A b \in Agents : c'.waiter[b] = c.waiter[b]
    BY <1>2, <2>1, <2>2
  <2> QED
    BY <1>3, <2>1, <2>2, <2>3, <2>4, <2>5 DEF Kept
<1>5. CASE Owns(c, a) /\ Given(fed(d), a)
  <2>1. d.controller = "agent" /\ d.owner = a /\ (Overdue(d) => Overdue(c)) /\ (Fresh(c) => Fresh(d))
    BY <1>2, <1>5 DEF Owns, Overdue, Fresh
  <2> QED
    BY <1>1, <1>4, <1>5, <2>1
<1>6. CASE Given(fed(ToAgent(d, a)), a)
  <2> DEFINE t == ToAgent(d, a)
  <2>1. Good(t) /\ Fresh(t) /\ t.owner = a /\ t.resumeQueue = d.resumeQueue /\ t.waiter = d.waiter
    BY <1>1, ToAgentGood
  <2>2. Given(fed(t), a)
    BY <1>6
  <2> HIDE DEF t, fed
  <2>3. t.controller = "agent" /\ ~Overdue(t)
    BY <2>1 DEF Fresh, Overdue
  <2> QED
    BY <1>4, <2>1, <2>2, <2>3
<1> DEFINE held == c.controller = "agent" \/ (c.pinned /\ op # "reclaim")
<1>7. CASE /\ held /\ ~Owns(c, a) /\ op \in {"acquire", "reclaim"}
           /\ c' = Enqueue(c, a) /\ promised' = promised \cup {a} /\ UNCHANGED told
  <2> DEFINE t == Enqueue(c, a)
  <2>1. /\ Good(t) /\ a \in ToSet(t.resumeQueue)
        /\ ToSet(c.resumeQueue) \subseteq ToSet(t.resumeQueue)
    BY <1>0, <1>7, EnqueueGood
  <2>2. /\ t.controller = c.controller /\ t.owner = c.owner /\ t.pinned = c.pinned
        /\ t.quiet = c.quiet /\ t.claim = c.claim /\ t.waiter = c.waiter
    BY <1>0 DEF Enqueue, Good, Control
  <2> HIDE DEF t
  <2>3. c' = t
    BY <1>7 DEF t
  <2>4. ~Free(t)
    BY <1>0, <1>7, <2>2 DEF Free, Good, Control
  <2>5. LineInv'
    BY <1>0, <1>7, <2>1, <2>3, <2>4 DEF LineInv, NobodyForgotten, Settled
  <2>6. (Knows => Knows') /\ (Overdue(c') => Overdue(c)) /\ (Fresh(c) => Fresh(c'))
    BY <1>7, <2>2, <2>3 DEF Knows, Overdue, Fresh
  <2> QED
    BY <1>3, <1>7, <2>2, <2>3, <2>5, <2>6 DEF Kept
<1>8. CASE /\ ~Owns(c, a) /\ op = "wait" /\ c.controller = "agent"
           /\ Set([c EXCEPT !.waitQueue = Append(@, a), !.waiter[a] = "parked"])
  <2> DEFINE w == Append(c.waitQueue, a)
             t == [c EXCEPT !.waitQueue = w, !.waiter[a] = "parked"]
  <2>1. /\ c.waitQueue \in Seq(Agents) /\ IsInjective(c.waitQueue) /\ c.waiter[a] = "none"
        /\ c.waiter \in [Agents -> {"none", "parked", "granted", "evicted"}]
        /\ c.controller = "agent" /\ c.owner # a
    BY <1>0, <1>8 DEF Good, Control, Owns
  <2>2. a \notin ToSet(c.waitQueue)
    BY <1>0, <2>1 DEF Good
  <2>3. w \in Seq(Agents) /\ IsInjective(w) /\ ToSet(w) = ToSet(c.waitQueue) \cup {a}
    BY <2>1, <2>2, AppendDistinct
  <2>4. c' = t /\ UNCHANGED <<promised, told>>
    BY <1>8 DEF Set
  <2> HIDE DEF w
  <2>5. /\ t \in Control /\ t.controller = c.controller /\ t.owner = c.owner /\ t.pinned = c.pinned
        /\ t.quiet = c.quiet /\ t.claim = c.claim /\ t.resumeQueue = c.resumeQueue
        /\ t.tokenOwner = c.tokenOwner /\ t.attached = c.attached /\ t.waitQueue = w
        /\ t.waiter = [c.waiter EXCEPT ![a] = "parked"]
    BY <1>0, <2>1, <2>3 DEF Good, Control
  <2> HIDE DEF t
  <2>6. t.waiter[a] = "parked" /\ \A b \in Agents : b # a => t.waiter[b] = c.waiter[b]
    BY <2>1, <2>5
  <2>7. Good(t)
    BY <1>0, <2>3, <2>5, <2>6 DEF Good
  <2>8. LineInv'
    BY <1>0, <2>1, <2>4, <2>5, <2>7 DEF LineInv, NobodyForgotten, Settled, Free
  <2>9. (Knows => Knows') /\ (Overdue(c') => Overdue(c)) /\ (Fresh(c) => Fresh(c'))
    BY <1>0, <2>1, <2>4, <2>5, <2>6 DEF Knows, Overdue, Fresh, Good, Control
  <2> QED
    BY <1>3, <1>8, <2>4, <2>6, <2>8, <2>9 DEF Kept
<1>9. CASE ~Owns(c, a) /\ Set(c)
  BY <1>3, <1>9, SetKept
<1> QED
  BY <1>5, <1>6, <1>7, <1>8, <1>9 DEF AcquireSection, d

\* attach, once the lock is held: a new token, unless another holds the browser.
LEMMA AttachKept ==
    ASSUME LineInv, NEW a \in Agents, AttachSection(a)
    PROVE  Kept("attach", a)
<1>1. CASE Set(c)
  BY <1>1, SetKept DEF Abandons
<1>2. CASE /\ ~(c.pinned \/ (c.controller = "agent" /\ c.owner # a))
           /\ Set([Mint(c, a) EXCEPT !.attached = {a}])
  <2> DEFINE t == [Mint(c, a) EXCEPT !.attached = {a}]
  <2>1. c' = t /\ UNCHANGED <<promised, told>>
    BY <1>2 DEF Set
  <2>2. /\ t \in Control /\ t.controller = c.controller /\ t.owner = c.owner /\ t.pinned = c.pinned
        /\ t.quiet = c.quiet /\ t.claim = c.claim /\ t.resumeQueue = c.resumeQueue
        /\ t.tokenOwner = a /\ t.attached = {a} /\ t.waitQueue = c.waitQueue
        /\ t.waiter = c.waiter
    BY DEF Mint, LineInv, Good, Control
  <2> HIDE DEF t
  <2>3. Good(t)
    BY <1>2, <2>2 DEF LineInv, Good
  <2>4. LineInv'
    BY <2>1, <2>2, <2>3 DEF LineInv, NobodyForgotten, Settled, Free
  <2>5. /\ Knows => Knows'
        /\ Empty => Empty'
        /\ Overdue(c') => Overdue(c)
        /\ Fresh(c) => Fresh(c')
    BY <2>1, <2>2 DEF Knows, Empty, Overdue, Fresh
  <2> QED
    BY <2>1, <2>2, <2>4, <2>5 DEF Kept, Abandons
<1> QED
  BY <1>1, <1>2 DEF AttachSection

\* Control goes to the human, unpinned, and from there to the first in line.
LEMMA FreedKept ==
    ASSUME LineInv, SettleFrom(ToHuman(c, FALSE)), NEW op, NEW a, op \notin Claims \cup Abandons
    PROVE  Kept(op, a)
<1> DEFINE s == ToHuman(c, FALSE)
<1>1. Good(s)
  BY ToHumanGood DEF LineInv
<1>2. /\ s.controller = "human" /\ s.resumeQueue = c.resumeQueue /\ s.waitQueue = c.waitQueue
      /\ s.waiter = c.waiter
  BY DEF ToHuman, LineInv, Good, Control
<1>3. SettleFrom(s)
  OBVIOUS
<1> HIDE DEF s
<1> QED
  BY <1>1, <1>2, <1>3, PassesOn

\* The sweep of a grant that no frame has followed.
LEMMA RevokeKept ==
    ASSUME LineInv, RevokeGrant, NEW op, NEW a, op \notin Claims \cup Abandons
    PROVE  Kept(op, a)
<1> DEFINE r == [c EXCEPT !.claim = "none"]
           s == ToHuman(r, FALSE)
<1>1. /\ r \in Control /\ r.controller = c.controller /\ r.owner = c.owner /\ r.pinned = c.pinned
      /\ r.resumeQueue = c.resumeQueue /\ r.tokenOwner = c.tokenOwner
      /\ r.attached = c.attached /\ r.waitQueue = c.waitQueue /\ r.waiter = c.waiter
  BY DEF LineInv, Good, Control
<1>2. SettleFrom(s)
  BY DEF RevokeGrant
<1> HIDE DEF r
<1>3. Good(r)
  BY <1>1 DEF LineInv, Good
<1>4. Good(s)
  BY <1>3, ToHumanGood
<1>5. /\ s.controller = "human" /\ s.resumeQueue = c.resumeQueue /\ s.waitQueue = c.waitQueue
      /\ s.waiter = c.waiter
  BY <1>1 DEF ToHuman, Control
<1> HIDE DEF s
<1> QED
  BY <1>2, <1>4, <1>5, PassesOn

\* A waiter that gives up leaves the line, or passes on what it was granted meanwhile.
LEMMA GiveUpKept ==
    ASSUME LineInv, NEW a \in Agents, GiveUpSection(a)
    PROVE  Kept("giveUp", a)
<1> DEFINE s == [c EXCEPT !.waiter[a] = "none"]
           w == Without(c.waitQueue, a)
           t == [s EXCEPT !.waitQueue = w]
<1>1. /\ c.waiter \in [Agents -> {"none", "parked", "granted", "evicted"}]
      /\ c.waitQueue \in Seq(Agents) /\ IsInjective(c.waitQueue) /\ c \in Control /\ Good(c)
      /\ promised \subseteq ToSet(c.resumeQueue) /\ told \subseteq Agents /\ Settled(c)
  BY DEF LineInv, Good, Control, NobodyForgotten
<1>2. /\ s \in Control /\ s.controller = c.controller /\ s.owner = c.owner /\ s.pinned = c.pinned
      /\ s.quiet = c.quiet /\ s.claim = c.claim /\ s.resumeQueue = c.resumeQueue
      /\ s.tokenOwner = c.tokenOwner /\ s.attached = c.attached /\ s.waitQueue = c.waitQueue
      /\ s.waiter = [c.waiter EXCEPT ![a] = "none"]
  BY <1>1 DEF Control
<1>3. /\ s.waiter[a] = "none" /\ \A b \in Agents : b # a => s.waiter[b] = c.waiter[b]
  BY <1>1, <1>2
<1>4. CASE a \in ToSet(c.waitQueue) /\ Set([s EXCEPT !.waitQueue = Without(@, a)])
  <2>1. w \in Seq(Agents) /\ IsInjective(w) /\ ToSet(w) = ToSet(c.waitQueue) \ {a}
    BY <1>1, WithoutDistinct
  <2>2. c' = t /\ UNCHANGED <<promised, told>>
    BY <1>2, <1>4 DEF Set
  <2> HIDE DEF s, w
  <2>3. /\ t \in Control /\ t.controller = c.controller /\ t.owner = c.owner /\ t.pinned = c.pinned
        /\ t.quiet = c.quiet /\ t.claim = c.claim /\ t.resumeQueue = c.resumeQueue
        /\ t.tokenOwner = c.tokenOwner /\ t.attached = c.attached /\ t.waitQueue = w
        /\ t.waiter = s.waiter
    BY <1>2, <2>1 DEF Control
  <2> HIDE DEF t
  <2>4. c.waiter[a] = "parked"
    BY <1>1, <1>4 DEF Good
  <2>5. \A b \in Agents : b \in ToSet(t.waitQueue) <=> t.waiter[b] = "parked"
    BY <1>1, <1>3, <2>1, <2>3 DEF Good
  <2>6. Good(t)
    BY <1>1, <2>1, <2>3, <2>5 DEF Good
  <2>7. c.waitQueue # <<>>
    BY <1>4, EmptyQueue
  <2>8. LineInv'
    BY <1>1, <2>2, <2>3, <2>6, <2>7 DEF LineInv, NobodyForgotten, Settled, Free
  <2>9. Knows => Knows'
    BY <1>1, <1>3, <2>2, <2>3, <2>4 DEF Knows, Good, Control
  <2>10. ~Empty /\ (Overdue(c') => Overdue(c)) /\ (Fresh(c) => Fresh(c'))
    BY <2>2, <2>3, <2>7 DEF Empty, Overdue, Fresh
  <2>11. \A b \in Agents : c.waiter[b] = "none" => c'.waiter[b] = "none"
    BY <1>3, <2>2, <2>3
  <2> QED
    BY <2>8, <2>9, <2>10, <2>11 DEF Kept, Abandons
<1>5. ASSUME a \notin ToSet(c.waitQueue) PROVE Good(s)
  <2> HIDE DEF s
  <2>1. \A b \in Agents : b \in ToSet(s.waitQueue) <=> s.waiter[b] = "parked"
    BY <1>1, <1>2, <1>3, <1>5 DEF Good
  <2> QED
    BY <1>1, <1>2, <2>1 DEF Good
<1>6. CASE a \notin ToSet(c.waitQueue) /\ SettleFrom(ToHuman(s, FALSE))
  <2> DEFINE h == ToHuman(s, FALSE)
  <2>1. Good(h)
    BY <1>5, <1>6, ToHumanGood
  <2>2. SettleFrom(h)
    BY <1>6
  <2> HIDE DEF s
  <2>3. /\ h.controller = "human" /\ h.resumeQueue = c.resumeQueue /\ h.waitQueue = c.waitQueue
        /\ h.waiter = s.waiter
    BY <1>2 DEF ToHuman, Control
  <2> HIDE DEF h
  <2>4. \A b \in Agents : c.waiter[b] = "none" => h.waiter[b] = "none"
    BY <1>3, <2>3
  <2> QED
    BY <2>1, <2>2, <2>3, <2>4, PassesOn DEF Claims, Acquires, Abandons
<1>7. CASE /\ a \notin ToSet(c.waitQueue) /\ ~(c.waiter[a] = "granted" /\ Owns(c, a)) /\ Set(s)
  <2>1. c' = s /\ UNCHANGED <<promised, told>> /\ Good(s)
    BY <1>5, <1>7 DEF Set
  <2> HIDE DEF s
  <2>2. LineInv'
    BY <1>1, <1>2, <2>1 DEF LineInv, NobodyForgotten, Settled, Free
  <2>3. Knows => Knows'
    BY <1>1, <1>2, <1>3, <1>7, <2>1 DEF Knows, Good, Control, Owns
  <2>4. (Empty => Empty') /\ (Overdue(c') => Overdue(c)) /\ (Fresh(c) => Fresh(c'))
    BY <1>2, <2>1 DEF Empty, Overdue, Fresh
  <2> QED
    BY <1>2, <1>3, <2>1, <2>2, <2>3, <2>4 DEF Kept, Abandons
<1> QED
  BY <1>4, <1>6, <1>7 DEF GiveUpSection

\* Taking control and handing it off: the human has it, and the agent that drove is
\* first in line to have it back.
LEMMA PinnedKept ==
    ASSUME LineInv, NEW s, Good(s), s.controller = "human", s.pinned,
           ToSet(c.resumeQueue) \subseteq ToSet(s.resumeQueue), s.waiter = c.waiter,
           c' = Settle(s), promised' \subseteq promised \cup ToSet(s.resumeQueue),
           told' \subseteq told, NEW op \in {"take", "handoff"}, NEW a
    PROVE  Kept(op, a)
<1> DEFINE t == Settle(s)
<1>1. SettlesTo(s, t)
  BY Settling
<1>2. c' = t
  OBVIOUS
<1> HIDE DEF t
<1>3. c'.controller = "human" /\ c'.resumeQueue = s.resumeQueue /\ Good(c') /\ Settled(c')
  BY <1>1, <1>2 DEF SettlesTo
<1>4. LineInv'
  BY <1>3 DEF LineInv, NobodyForgotten
<1>5. c.controller = "agent" => c.owner # NoAgent
  BY DEF LineInv, Good, Control
<1>6. c'.owner = NoAgent /\ (op = "frame" => FALSE) /\ op \in Claims /\ op \notin Abandons
  BY <1>3 DEF Good, Claims, Acquires, Abandons
<1>7. Knows' /\ ~Overdue(c') /\ (Fresh(c) => c'.owner # c.owner)
  BY <1>3, <1>5, <1>6 DEF Knows, Overdue, Fresh
<1>8. \A b \in Agents : c.waiter[b] = "none" => c'.waiter[b] = "none"
  BY <1>1, <1>2 DEF SettlesTo
<1> QED
  BY <1>3, <1>4, <1>6, <1>7, <1>8 DEF Kept, Abandons

\* take_control.
LEMMA TakeKept ==
    ASSUME LineInv, TakeSection, NEW a
    PROVE  Kept("take", a)
<1> DEFINE f == EnqueueFront(c, c.owner)
           s == ToHuman(IF c.controller = "agent" THEN f ELSE c, TRUE)
<1>0. Good(c) /\ promised \subseteq ToSet(c.resumeQueue)
  BY DEF LineInv, NobodyForgotten
<1>1. /\ c' = Settle(s) /\ told' = told
      /\ promised' = promised \cup (IF c.controller = "agent" THEN {c.owner} ELSE {})
  BY DEF TakeSection
<1>2. CASE c.controller = "agent"
  <2>1. c.owner \in Agents
    BY <1>0, <1>2 DEF Good, Control
  <2>2. /\ Good(s) /\ ToSet(f.resumeQueue) = ToSet(c.resumeQueue) \cup {c.owner}
        /\ f.waiter = c.waiter
    BY <1>0, <1>2, <2>1, FrontToHumanGood
  <2>3. f.resumeQueue = s.resumeQueue /\ s.controller = "human" /\ s.pinned /\ s.waiter = f.waiter
    <3>1. s = ToHuman(f, TRUE) /\ f = [c EXCEPT !.resumeQueue = f.resumeQueue]
      BY <1>0, <1>2 DEF EnqueueFront, Good, Control
    <3> HIDE DEF f, s
    <3> QED
      BY <1>0, <3>1 DEF ToHuman, Good, Control
  <2> HIDE DEF f, s
  <2> QED
    BY <1>1, <1>2, <2>2, <2>3, PinnedKept
<1>3. CASE c.controller # "agent"
  <2>1. Good(s)
    BY <1>0, <1>3, ToHumanGood
  <2>2. /\ s.controller = "human" /\ s.pinned /\ s.waiter = c.waiter
        /\ s.resumeQueue = c.resumeQueue
    BY <1>0, <1>3 DEF ToHuman, Good, Control
  <2> HIDE DEF s
  <2> QED
    BY <1>1, <1>3, <2>1, <2>2, PinnedKept
<1> QED
  BY <1>2, <1>3

\* handoff, of the holder or of another.
LEMMA HandoffKept ==
    ASSUME LineInv, NEW a \in Agents, HandoffSection(a)
    PROVE  Kept("handoff", a)
<1>0. Good(c) /\ promised \subseteq ToSet(c.resumeQueue)
  BY DEF LineInv, NobodyForgotten
<1>1. CASE ~Owns(c, a) /\ Set(c)
  BY <1>1, SetKept DEF Abandons
<1>2. CASE /\ c' = Settle(ToHuman(EnqueueFront(c, a), TRUE))
           /\ promised' = promised \cup {a} /\ told' = told \ {a}
  <2> DEFINE f == EnqueueFront(c, a)
             s == ToHuman(f, TRUE)
  <2>1. /\ Good(s) /\ ToSet(f.resumeQueue) = ToSet(c.resumeQueue) \cup {a}
        /\ f.waiter = c.waiter
    BY <1>0, FrontToHumanGood
  <2>2. f.resumeQueue = s.resumeQueue /\ s.controller = "human" /\ s.pinned /\ s.waiter = f.waiter
    <3>1. s = ToHuman(f, TRUE) /\ f = [c EXCEPT !.resumeQueue = f.resumeQueue]
      BY <1>0 DEF EnqueueFront, Good, Control
    <3> HIDE DEF f, s
    <3> QED
      BY <1>0, <3>1 DEF ToHuman, Good, Control
  <2>3. c' = Settle(s)
    BY <1>2
  <2> HIDE DEF f, s
  <2> QED
    BY <1>2, <2>1, <2>2, <2>3, PinnedKept
<1> QED
  BY <1>1, <1>2 DEF HandoffSection

\* Abandoning the queues: s is the control state of now, or the human's.
LEMMA AbandonKept ==
    ASSUME LineInv, NEW s, Good(s), s.resumeQueue = c.resumeQueue, s.waiter = c.waiter,
           s = c \/ s.controller = "human", AbandonSection(s),
           NEW op \in Abandons, NEW a, op = "stopAbandon" => s.controller = "human"
    PROVE  Kept(op, a)
<1> DEFINE e == Evict(s)
           t == [e EXCEPT !.resumeQueue = <<>>]
<1>1. /\ Good(e) /\ e.waitQueue = <<>>
      /\ \A b \in Agents : s.waiter[b] # "parked" => e.waiter[b] = s.waiter[b]
  BY EvictGood
<1>2. /\ e.controller = s.controller /\ e.owner = s.owner /\ e.quiet = s.quiet /\ e.claim = s.claim
  BY DEF Evict, Good, Control
<1>3. c' = t /\ promised' = promised \ ToSet(s.resumeQueue) /\ told' = told
  BY DEF AbandonSection
<1> HIDE DEF e
<1>4. <<>> \in Seq(Agents) /\ ToSet(<<>>) = {} /\ IsInjective(<<>>)
  BY EmptyQueue
<1>5. /\ t \in Control /\ t.controller = s.controller /\ t.owner = s.owner /\ t.pinned = e.pinned
      /\ t.quiet = s.quiet /\ t.claim = s.claim /\ t.resumeQueue = <<>>
      /\ t.tokenOwner = e.tokenOwner /\ t.attached = e.attached /\ t.waitQueue = <<>>
      /\ t.waiter = e.waiter
  BY <1>1, <1>2, <1>4 DEF Good, Control
<1> HIDE DEF t
<1>6. Good(t)
  BY <1>1, <1>2, <1>4, <1>5 DEF Good
<1>7. LineInv' /\ Empty'
  BY <1>3, <1>4, <1>5, <1>6 DEF LineInv, NobodyForgotten, Settled, Empty
<1>8. \A b \in Agents : c.waiter[b] = "none" => c'.waiter[b] = "none"
  BY <1>1, <1>3, <1>5
<1>9. c.controller = "agent" => /\ c.owner # NoAgent /\ c.owner \in Agents
  BY DEF LineInv, Good, Control
<1>10. c'.controller = s.controller /\ c'.owner = s.owner /\ c'.quiet = s.quiet /\ c'.claim = s.claim
  BY <1>3, <1>5
<1>11. s.controller = "human" => s.owner = NoAgent
  BY DEF Good
<1>12. Knows => Knows'
  <2> SUFFICES ASSUME Knows, c'.controller = "agent"
               PROVE  c'.owner \in told' \/ c'.waiter[c'.owner] = "granted"
    BY DEF Knows
  <2>1. s = c
    BY <1>10
  <2>2. c.owner \in told \/ c.waiter[c.owner] = "granted"
    BY <1>10, <2>1 DEF Knows
  <2> QED
    BY <1>1, <1>3, <1>5, <1>9, <1>10, <2>1, <2>2
<1>13. (Overdue(c') => Overdue(c)) /\ (Fresh(c) /\ c'.owner = c.owner => Fresh(c'))
  BY <1>9, <1>10, <1>11 DEF Overdue, Fresh
<1>14. c.controller = "human" => c'.controller = "human"
  BY <1>10
<1> QED
  BY <1>7, <1>8, <1>10, <1>12, <1>13, <1>14 DEF Kept, Abandons

\* The section of a call is done: what it kept, and what it says of the frames.
Ran(op, a) ==
    /\ Kept(op, a)
    /\ handingOff' = (op = "handoff" /\ Owns(c, a))
    /\ lively' \in BOOLEAN
    /\ lively' => (lively /\ c'.owner = c.owner) \/ (op = "frame" /\ Owns(c', a))
    /\ drove' = drove \/ (op = "frame" /\ Owns(c', a) /\ drove' = Driven(a))
    /\ op \in Sweeps /\ c'.owner # c.owner => Overdue(c)

\* The call has taken its place behind the others.
Queued(op, a) ==
    /\ lockQueue' = Append(lockQueue, [op |-> op, agent |-> a])
    /\ UNCHANGED <<c, handingOff, historyVars>>

\* Every section, whatever else waits.  A sweep is only ever called with the lock free.
LEMMA SectionRuns ==
    ASSUME LineInv, lively \in BOOLEAN, NEW call, NEW rest, call.op \in Ops,
           call.op \in AgentOps => call.agent \in Agents,
           call.op = "wait" => c.waiter[call.agent] = "none",
           call.op \in Sweeps => call.op = "sweep" /\ rest = <<>>,
           Section(call, rest)
    PROVE  Ran(call.op, call.agent) /\ lockQueue' = rest
<1> DEFINE op == call.op
           a == call.agent
<1>1. handingOff' = (op = "handoff" /\ Owns(c, a))
  BY DEF Section
<1>2. /\ lively' \in BOOLEAN
      /\ lively' => (lively /\ c'.owner = c.owner) \/ (op = "frame" /\ Owns(c', a))
      /\ drove' = drove \/ (op = "frame" /\ Owns(c', a) /\ drove' = Driven(a))
  BY DEF Section
<1> DEFINE Result == /\ Kept(op, a) /\ lockQueue' = rest
                     /\ op \in Sweeps /\ c'.owner # c.owner => Overdue(c)
<1> SUFFICES Result
  BY <1>1, <1>2 DEF Ran
<1> DEFINE IdleTake(owner) == IF Owns(c, owner) THEN SettleFrom(ToHuman(c, FALSE)) ELSE Set(c)
<1>3. CASE op \in Acquires /\ AcquireSection(a, op) /\ lockQueue' = rest
  <2>1. op \in AgentOps /\ op \notin Sweeps
    BY <1>3 DEF Acquires, AgentOps, Sweeps
  <2> QED
    BY <1>3, <2>1, AcquireKept
<1>4. CASE op = "attach" /\ AttachSection(a) /\ lockQueue' = rest
  BY <1>4, AttachKept DEF AgentOps, Sweeps
<1>5. CASE op = "release" /\ ReleaseSection(a) /\ lockQueue' = rest
  <2>1. op \notin Claims \cup Abandons /\ op \notin Sweeps /\ op # "frame" /\ op # "handoff"
    BY <1>5 DEF Claims, Acquires, Abandons, Sweeps
  <2>2. CASE Set(c)
    BY <1>5, <2>1, <2>2, SetKept
  <2>3. CASE SettleFrom(ToHuman(c, FALSE))
    BY <1>5, <2>1, <2>3, FreedKept
  <2> QED
    BY <1>5, <2>2, <2>3 DEF ReleaseSection
<1>6. CASE op = "handoff" /\ HandoffSection(a) /\ lockQueue' = rest
  BY <1>6, HandoffKept DEF AgentOps, Sweeps
<1>7. CASE op = "giveUp" /\ GiveUpSection(a) /\ lockQueue' = rest
  BY <1>7, GiveUpKept DEF AgentOps, Sweeps
<1>8. CASE op = "take" /\ TakeSection /\ lockQueue' = rest
  BY <1>8, TakeKept DEF Sweeps
<1>9. CASE op = "return" /\ ReturnSection /\ lockQueue' = rest
  <2>1. op \notin Claims \cup Abandons /\ op \notin Sweeps /\ op # "frame" /\ op # "handoff"
    BY <1>9 DEF Claims, Acquires, Abandons, Sweeps
  <2>2. CASE Set(c)
    BY <1>9, <2>1, <2>2, SetKept
  <2>3. CASE SettleFrom(ToHuman(c, FALSE))
    BY <1>9, <2>1, <2>3, FreedKept
  <2> QED
    BY <1>9, <2>2, <2>3 DEF ReturnSection
<1>10. CASE op = "sweep" /\ NoShow(c) /\ RevokeGrant /\ lockQueue' = rest
  <2>1. op \notin Claims \cup Abandons
    BY <1>10 DEF Claims, Acquires, Abandons
  <2>2. Overdue(c)
    BY <1>10 DEF NoShow, Overdue
  <2> QED
    BY <1>10, <2>1, <2>2, RevokeKept
<1>11. CASE /\ op = "sweep" /\ ~NoShow(c)
            /\ IF c.controller = "agent" /\ c.quiet
               THEN IdleTake(c.owner) /\ lockQueue' = rest
               ELSE Set(c) /\ lockQueue' = rest
  <2>1. op \notin Claims \cup Abandons /\ op # "frame" /\ op # "handoff"
    BY <1>11 DEF Claims, Acquires, Abandons
  <2>2. CASE Set(c) /\ lockQueue' = rest
    <3>1. Kept(op, a)
      BY <2>1, <2>2, SetKept
    <3> QED
      BY <2>2, <3>1 DEF Set
  <2>3. CASE /\ c.controller = "agent" /\ c.quiet /\ lockQueue' = rest
             /\ SettleFrom(ToHuman(c, FALSE))
    <3>1. Kept(op, a)
      BY <2>1, <2>3, FreedKept
    <3> QED
      BY <2>3, <3>1 DEF Overdue
  <2> QED
    BY <1>11, <2>2, <2>3
<1>12. CASE op = "abandon" /\ AbandonSection(c) /\ lockQueue' = rest
  <2>1. op \in Abandons /\ op \notin Sweeps /\ op # "stopAbandon" /\ Good(c)
    BY <1>12 DEF Abandons, Sweeps, LineInv
  <2> QED
    BY <1>12, <2>1, AbandonKept
<1>13. CASE op = "stopAbandon" /\ AbandonSection(ToHuman(c, FALSE)) /\ lockQueue' = rest
  <2> DEFINE s == ToHuman(c, FALSE)
  <2>1. op \in Abandons /\ op \notin Sweeps
    BY <1>13 DEF Abandons, Sweeps
  <2>2. Good(s)
    BY ToHumanGood DEF LineInv
  <2>3. s.controller = "human" /\ s.resumeQueue = c.resumeQueue /\ s.waiter = c.waiter
    BY DEF ToHuman, LineInv, Good, Control
  <2>4. AbandonSection(s)
    BY <1>13
  <2> HIDE DEF s
  <2> QED
    BY <1>13, <2>1, <2>2, <2>3, <2>4, AbandonKept
<1>14. op = "sweep" \/ op \notin Sweeps
  OBVIOUS
<1>15. op = "sweep" => rest = <<>>
  BY DEF Sweeps
<1> HIDE DEF Result
<1> QED
  BY <1>3, <1>4, <1>5, <1>6, <1>7, <1>8, <1>9, <1>10, <1>11, <1>12, <1>13, <1>14, <1>15
     DEF Section, Acquires, Sweeps

-------------------------------------------------------------------------------
(* The calls that wait for the lock.                                         *)

Calls == [op : Ops, agent : Agents \cup {NoAgent}]

\* A call that may wait for the lock: an agent's call is of an agent, a waiter does not
\* wait yet, and the sweeps find the lock free.
MayQueue(x, s) ==
    /\ x \in Calls /\ x.op \notin Sweeps
    /\ x.op \in AgentOps => x.agent \in Agents
    /\ x.op = "wait" => s.waiter[x.agent] = "none"

LockInv ==
    /\ lockQueue \in Seq(Calls)
    /\ \A i \in 1 .. Len(lockQueue) : MayQueue(lockQueue[i], c)
    /\ \A i, j \in 1 .. Len(lockQueue) :
           lockQueue[i].op = "wait" /\ lockQueue[j] = lockQueue[i] => i = j
    /\ handingOff \in BOOLEAN /\ (handingOff => c.controller = "human")
    /\ Overdue(c) => LockFree
    /\ lively \in BOOLEAN /\ (lively => Fresh(c))
    /\ drove \in [agent : Agents \cup {NoAgent}, frames : Nat]

\* A call comes in: its section runs at once, or it takes its place.
LEMMA CallComes ==
    ASSUME LineInv, LockInv, NEW op \in Ops, NEW a \in Agents \cup {NoAgent},
           op \in AgentOps => a \in Agents, op = "wait" => c.waiter[a] = "none",
           op \in Sweeps => op = "sweep" /\ LockFree, Call(op, a)
    PROVE  \/ LockFree /\ Ran(op, a) /\ lockQueue' = <<>>
           \/ Queued(op, a) /\ ~LockFree /\ MayQueue([op |-> op, agent |-> a], c)
<1>1. CASE LockFree
  <2> DEFINE call == [op |-> op, agent |-> a]
  <2>1. call.op = op /\ call.agent = a
    OBVIOUS
  <2>2. Section(call, <<>>)
    BY <1>1 DEF Call
  <2>3. lively \in BOOLEAN
    BY DEF LockInv
  <2> HIDE DEF call
  <2>4. Ran(call.op, call.agent) /\ lockQueue' = <<>>
    BY <2>1, <2>2, <2>3, SectionRuns
  <2> QED
    BY <1>1, <2>1, <2>4
<1>2. CASE ~LockFree
  <2>1. op \notin Sweeps
    BY <1>2
  <2> QED
    BY <1>2, <2>1 DEF Call, Queued, MayQueue, Calls
<1> QED
  BY <1>1, <1>2

\* The call at the head runs.
LEMMA HeadRuns ==
    ASSUME LineInv, LockInv, ~handingOff, lockQueue # <<>>,
           Section(Head(lockQueue), Tail(lockQueue))
    PROVE  /\ Ran(Head(lockQueue).op, Head(lockQueue).agent) /\ lockQueue' = Tail(lockQueue)
           /\ MayQueue(Head(lockQueue), c)
<1>1. MayQueue(Head(lockQueue), c)
  <2>1. 1 \in 1 .. Len(lockQueue) /\ Head(lockQueue) = lockQueue[1]
    BY DEF LockInv
  <2> QED
    BY <2>1 DEF LockInv
<1>2. lively \in BOOLEAN
  BY DEF LockInv
<1> QED
  BY <1>1, <1>2, SectionRuns DEF MayQueue, Calls

\* A section that ran leaves the frames' history and the lock's as they should be.
LEMMA RanKeepsHistory ==
    ASSUME LineInv, LockInv, NEW op, NEW a, Ran(op, a), op \in AgentOps => a \in Agents,
           lockQueue # <<>> \/ lockQueue' = <<>>, ~handingOff
    PROVE  /\ handingOff' \in BOOLEAN /\ (handingOff' => c'.controller = "human")
           /\ Overdue(c') => LockFree'
           /\ lively' \in BOOLEAN /\ (lively' => Fresh(c'))
           /\ drove' \in [agent : Agents \cup {NoAgent}, frames : Nat]
<1>1. handingOff' \in BOOLEAN /\ (handingOff' => c'.controller = "human")
  BY DEF Ran, Kept
<1>2. Overdue(c') => LockFree'
  <2> SUFFICES ASSUME Overdue(c') PROVE LockFree'
    OBVIOUS
  <2>1. LockFree
    BY DEF Ran, Kept, LockInv
  <2>2. c'.controller # "human"
    BY DEF Overdue
  <2> QED
    BY <1>1, <2>1, <2>2 DEF LockFree
<1>3. lively' \in BOOLEAN /\ (lively' => Fresh(c'))
  BY DEF Ran, Kept, LockInv
<1>4. drove' \in [agent : Agents \cup {NoAgent}, frames : Nat]
  <2>1. drove \in [agent : Agents \cup {NoAgent}, frames : Nat]
    BY DEF LockInv
  <2>2. CASE drove' = drove
    BY <2>1, <2>2
  <2>3. CASE op = "frame" /\ drove' = Driven(a)
    <3>1. a \in Agents
      BY <2>3 DEF AgentOps
    <3> QED
      BY <2>1, <2>3, <3>1 DEF Driven
  <2> QED
    BY <2>2, <2>3 DEF Ran
<1> QED
  BY <1>1, <1>2, <1>3, <1>4

\* The queue for the lock without its head.
LEMMA HeadKeepsLock ==
    ASSUME LineInv, LockInv, ~handingOff, lockQueue # <<>>,
           Section(Head(lockQueue), Tail(lockQueue))
    PROVE  LockInv'
<1> DEFINE h == Head(lockQueue)
           t == Tail(lockQueue)
<1>1. Ran(h.op, h.agent) /\ lockQueue' = t /\ MayQueue(h, c)
  BY HeadRuns
<1>2. /\ t \in Seq(Calls) /\ Len(t) = Len(lockQueue) - 1 /\ h = lockQueue[1]
      /\ Len(lockQueue) \in Nat
      /\ \A i \in 1 .. Len(t) : t[i] = lockQueue[i + 1] /\ i + 1 \in 1 .. Len(lockQueue) /\ i + 1 # 1
  BY DEF LockInv
<1>3. 1 \in 1 .. Len(lockQueue)
  BY <1>2 DEF LockInv
<1> HIDE DEF h, t
<1>4. \A i \in 1 .. Len(t) : MayQueue(t[i], c) /\ (t[i].op = "wait" => t[i] # h)
  BY <1>2, <1>3 DEF LockInv
<1>5. ASSUME NEW i \in 1 .. Len(t)
      PROVE  MayQueue(t[i], c')
  <2>1. MayQueue(t[i], c)
    BY <1>4
  <2>3. t[i].op = "wait" => c'.waiter[t[i].agent] = "none"
    <3> SUFFICES ASSUME t[i].op = "wait" PROVE c'.waiter[t[i].agent] = "none"
      OBVIOUS
    <3>1. t[i].agent \in Agents /\ c.waiter[t[i].agent] = "none"
      BY <2>1 DEF MayQueue, AgentOps
    <3>2. ~(h.op = "wait" /\ t[i].agent = h.agent)
      <4> SUFFICES ASSUME h.op = "wait", t[i].agent = h.agent PROVE FALSE
        OBVIOUS
      <4>1. t[i] \in Calls /\ h \in Calls
        BY <1>1, <2>1 DEF MayQueue
      <4>2. t[i] = h
        BY <4>1 DEF Calls
      <4> QED
        BY <1>4, <4>2
    <3> QED
      BY <1>1, <3>1, <3>2 DEF Ran, Kept
  <2> QED
    BY <2>1, <2>3 DEF MayQueue
<1>6. \A i, j \in 1 .. Len(t) : t[i].op = "wait" /\ t[j] = t[i] => i = j
  BY <1>2 DEF LockInv
<1>7. h.op \in AgentOps => h.agent \in Agents
  BY <1>1 DEF MayQueue
<1> QED
  BY <1>1, <1>2, <1>5, <1>6, <1>7, RanKeepsHistory DEF LockInv

\* The queue for the lock with one call more.
LEMMA QueuedKeepsLock ==
    ASSUME LineInv, LockInv, NEW op, NEW a, Queued(op, a), ~LockFree,
           MayQueue([op |-> op, agent |-> a], c),
           op = "wait" => [op |-> op, agent |-> a] \notin ToSet(lockQueue)
    PROVE  LockInv'
<1> DEFINE x == [op |-> op, agent |-> a]
           t == Append(lockQueue, x)
<1>1. lockQueue' = t /\ c' = c /\ handingOff' = handingOff /\ lively' = lively /\ drove' = drove
  BY DEF Queued, historyVars
<1>2. x \in Calls /\ x.op = op /\ MayQueue(x, c)
  BY DEF MayQueue
<1>3. lockQueue \in Seq(Calls)
  BY DEF LockInv
<1>4. op = "wait" => \A i \in 1 .. Len(lockQueue) : lockQueue[i] # x
  BY <1>3, EntriesOf
<1> HIDE DEF x
<1>5. /\ t \in Seq(Calls) /\ Len(t) = Len(lockQueue) + 1 /\ Len(lockQueue) \in Nat
      /\ \A i \in 1 .. Len(t) : t[i] = IF i <= Len(lockQueue) THEN lockQueue[i] ELSE x
      /\ t # <<>>
  BY <1>2, <1>3
<1> HIDE DEF t
<1>6. \A i \in 1 .. Len(t) : MayQueue(t[i], c)
  BY <1>2, <1>5 DEF LockInv
<1>7. \A i, j \in 1 .. Len(t) : t[i].op = "wait" /\ t[j] = t[i] => i = j
  <2> SUFFICES ASSUME NEW i \in 1 .. Len(t), NEW j \in 1 .. Len(t), t[i].op = "wait", t[j] = t[i]
               PROVE  i = j
    OBVIOUS
  <2>1. CASE i <= Len(lockQueue) /\ j <= Len(lockQueue)
    <3>1. i \in 1 .. Len(lockQueue) /\ j \in 1 .. Len(lockQueue)
          /\ t[i] = lockQueue[i] /\ t[j] = lockQueue[j]
      BY <1>5, <2>1
    <3> QED
      BY <3>1 DEF LockInv
  <2>2. CASE i <= Len(lockQueue) /\ ~(j <= Len(lockQueue))
    <3>1. i \in 1 .. Len(lockQueue) /\ t[i] = lockQueue[i] /\ t[j] = x
      BY <1>5, <2>2
    <3> QED
      BY <1>2, <1>4, <3>1
  <2>3. CASE ~(i <= Len(lockQueue)) /\ j <= Len(lockQueue)
    <3>1. j \in 1 .. Len(lockQueue) /\ t[j] = lockQueue[j] /\ t[i] = x
      BY <1>5, <2>3
    <3> QED
      BY <1>2, <1>4, <3>1
  <2>4. CASE ~(i <= Len(lockQueue)) /\ ~(j <= Len(lockQueue))
    BY <1>5, <2>4
  <2> QED
    BY <2>1, <2>2, <2>3, <2>4
<1>8. Overdue(c') => LockFree'
  BY <1>1 DEF LockInv
<1> QED
  BY <1>1, <1>5, <1>6, <1>7, <1>8 DEF LockInv

\* Every call in q that may claim something has one of A behind it.
Behind(q, A) == \A i \in 1 .. Len(q) : q[i].op \in Claims =>
                    \E j \in 1 .. Len(q) : j > i /\ q[j].op \in A
Pending(q, A) == \E i \in 1 .. Len(q) : q[i].op \in A

\* A call behind the others.
LEMMA QueueGrows ==
    ASSUME NEW q \in Seq(Calls), NEW x \in Calls, NEW A
    PROVE  /\ x.op \notin Claims /\ Behind(q, A) => Behind(Append(q, x), A)
           /\ Pending(q, A) => Pending(Append(q, x), A)
           /\ x.op \in A /\ x.op \notin Claims =>
                  Behind(Append(q, x), A) /\ Pending(Append(q, x), A)
<1> DEFINE t == Append(q, x)
<1>1. /\ Len(t) = Len(q) + 1 /\ Len(q) \in Nat
      /\ \A i \in 1 .. Len(q) : t[i] = q[i] /\ i \in 1 .. Len(t) /\ Len(t) > i
      /\ t[Len(t)] = x /\ Len(t) \in 1 .. Len(t)
      /\ \A i \in 1 .. Len(t) : i \in 1 .. Len(q) \/ i = Len(t)
  OBVIOUS
<1> HIDE DEF t
<1>2. x.op \notin Claims /\ Behind(q, A) => Behind(t, A)
  BY <1>1 DEF Behind
<1>3. Pending(q, A) => Pending(t, A)
  BY <1>1 DEF Pending
<1>4. x.op \in A /\ x.op \notin Claims => Behind(t, A) /\ Pending(t, A)
  BY <1>1 DEF Behind, Pending
<1> QED
  BY <1>2, <1>3, <1>4 DEF t

\* The head is gone; what was behind it still is.
LEMMA QueueShrinks ==
    ASSUME NEW q \in Seq(Calls), q # <<>>, NEW A
    PROVE  /\ Behind(q, A) => Behind(Tail(q), A)
           /\ Behind(q, A) /\ Head(q).op \in Claims => Pending(Tail(q), A)
           /\ Pending(q, A) /\ Head(q).op \notin A => Pending(Tail(q), A)
<1> DEFINE t == Tail(q)
<1>1. /\ Len(t) = Len(q) - 1 /\ Len(q) \in Nat /\ Head(q) = q[1] /\ 1 \in 1 .. Len(q)
      /\ \A i \in 1 .. Len(t) : t[i] = q[i + 1] /\ i + 1 \in 1 .. Len(q)
      /\ \A i \in 1 .. Len(q) : i > 1 => i - 1 \in 1 .. Len(t) /\ t[i - 1] = q[i]
  OBVIOUS
<1> HIDE DEF t
<1>2. ASSUME Behind(q, A) PROVE Behind(t, A)
  <2> SUFFICES ASSUME NEW i \in 1 .. Len(t), t[i].op \in Claims
               PROVE  \E j \in 1 .. Len(t) : j > i /\ t[j].op \in A
    BY DEF Behind
  <2>1. PICK j \in 1 .. Len(q) : j > i + 1 /\ q[j].op \in A
    BY <1>1, <1>2 DEF Behind
  <2>2. j - 1 \in 1 .. Len(t) /\ j - 1 > i /\ t[j - 1].op \in A
    BY <1>1, <2>1
  <2> QED
    BY <2>2
<1>3. ASSUME Behind(q, A), Head(q).op \in Claims PROVE Pending(t, A)
  <2>1. PICK j \in 1 .. Len(q) : j > 1 /\ q[j].op \in A
    BY <1>1, <1>3 DEF Behind
  <2>2. j - 1 \in 1 .. Len(t) /\ t[j - 1].op \in A
    BY <1>1, <2>1
  <2> QED
    BY <2>2 DEF Pending
<1>4. ASSUME Pending(q, A), Head(q).op \notin A PROVE Pending(t, A)
  <2>1. PICK j \in 1 .. Len(q) : q[j].op \in A
    BY <1>4 DEF Pending
  <2>2. j > 1
    BY <1>1, <1>4, <2>1
  <2>3. j - 1 \in 1 .. Len(t) /\ t[j - 1].op \in A
    BY <1>1, <2>1, <2>2
  <2> QED
    BY <2>3 DEF Pending
<1> QED
  BY <1>2, <1>3, <1>4 DEF t

\* Nothing waits in an empty queue.
LEMMA NoQueue == \A A : Behind(<<>>, A) /\ ~Pending(<<>>, A)
  BY DEF Behind, Pending

\* The browser is gone: what may still claim something is before the abandonment,
\* and after that nobody waits.
Over == Behind(lockQueue, Abandons) /\ (Pending(lockQueue, Abandons) \/ Empty)

\* The browser is stopped: the same, and in the end the human has it.
Down == /\ Behind(lockQueue, {"stopAbandon"})
        /\ Pending(lockQueue, {"stopAbandon"}) \/ (Empty /\ c.controller = "human")

\* What a call leaves, whether it ran or waits.
LEMMA CallKeeps ==
    ASSUME LineInv, LockInv, NEW op \in Ops, NEW a \in Agents \cup {NoAgent},
           op \in AgentOps => a \in Agents,
           op = "wait" => c.waiter[a] = "none" /\ [op |-> op, agent |-> a] \notin ToSet(lockQueue),
           op \in Sweeps => op = "sweep" /\ LockFree, Call(op, a)
    PROVE  /\ LineInv' /\ LockInv' /\ (Knows => Knows')
           /\ op \notin Claims => (Over => Over') /\ (Down => Down')
           /\ op \in Abandons => Over'
           /\ op = "stopAbandon" => Down'
           /\ \/ LockFree /\ lockQueue' = <<>> /\ Ran(op, a)
              \/ ~LockFree /\ Len(lockQueue') = Len(lockQueue) + 1 /\ Queued(op, a)
<1>1. CASE LockFree /\ Ran(op, a) /\ lockQueue' = <<>>
  <2>1. LineInv' /\ (Knows => Knows') /\ ~handingOff /\ lockQueue = <<>>
    BY <1>1 DEF Ran, Kept, LockFree
  <2>2. LockInv'
    <3>1. /\ lockQueue' \in Seq(Calls) /\ Len(lockQueue') = 0
      BY <1>1
    <3>2. \A i \in 1 .. Len(lockQueue') : FALSE
      BY <3>1
    <3> QED
      BY <1>1, <2>1, <3>1, <3>2, RanKeepsHistory DEF LockInv
  <2>3. Empty /\ op \notin Claims => Empty' /\ (c.controller = "human" => c'.controller = "human")
    BY <1>1 DEF Ran, Kept
  <2>4. /\ op \in Abandons => Empty'
        /\ op = "stopAbandon" => Empty' /\ c'.controller = "human"
    BY <1>1 DEF Ran, Kept, Abandons
  <2>5. (Over' <=> Empty') /\ (Over <=> Empty)
    BY <1>1, <2>1, NoQueue DEF Over
  <2>6. /\ Down' <=> Empty' /\ c'.controller = "human"
        /\ Down <=> Empty /\ c.controller = "human"
    BY <1>1, <2>1, NoQueue DEF Down
  <2> QED
    BY <1>1, <2>1, <2>2, <2>3, <2>4, <2>5, <2>6
<1>2. CASE Queued(op, a) /\ ~LockFree /\ MayQueue([op |-> op, agent |-> a], c)
  <2> DEFINE x == [op |-> op, agent |-> a]
  <2>1. /\ c' = c /\ promised' = promised /\ told' = told /\ lockQueue' = Append(lockQueue, x)
        /\ x \in Calls /\ x.op = op /\ lockQueue \in Seq(Calls)
    BY <1>2 DEF Queued, historyVars, Calls, LockInv
  <2> HIDE DEF x
  <2>2. LineInv' /\ (Knows => Knows') /\ (Empty <=> Empty')
    BY <2>1 DEF LineInv, NobodyForgotten, Knows, Empty
  <2>3. LockInv'
    BY <1>2, QueuedKeepsLock
  <2>4. Len(lockQueue') = Len(lockQueue) + 1
    BY <2>1
  <2>5. op \notin Claims => (Over => Over') /\ (Down => Down')
    <3>1. \A A : op \notin Claims /\ Behind(lockQueue, A) => Behind(lockQueue', A)
      BY <2>1, QueueGrows
    <3>2. \A A : Pending(lockQueue, A) => Pending(lockQueue', A)
      BY <2>1, QueueGrows
    <3> QED
      BY <2>1, <2>2, <3>1, <3>2 DEF Over, Down
  <2>6. op \in Abandons => op \notin Claims
    BY DEF Abandons, Claims, Acquires
  <2>7. op \in Abandons => Over'
    BY <2>1, <2>6, QueueGrows DEF Over
  <2>8. op = "stopAbandon" => Down'
    <3>1. op = "stopAbandon" => op \in {"stopAbandon"} /\ op \notin Claims
      BY DEF Claims, Acquires
    <3> QED
      BY <2>1, <3>1, QueueGrows DEF Down
  <2> QED
    BY <1>2, <2>2, <2>3, <2>4, <2>5, <2>7, <2>8
<1> QED
  BY <1>1, <1>2, CallComes

\* What the call at the head of the queue leaves.
LEMMA HeadKeeps ==
    ASSUME LineInv, LockInv, ~handingOff, lockQueue # <<>>,
           Section(Head(lockQueue), Tail(lockQueue))
    PROVE  /\ LineInv' /\ LockInv' /\ (Knows => Knows')
           /\ (Over => Over') /\ (Down => Down')
           /\ Len(lockQueue') = Len(lockQueue) - 1
           /\ Ran(Head(lockQueue).op, Head(lockQueue).agent)
           /\ Head(lockQueue).op \notin Sweeps
<1> DEFINE h == Head(lockQueue)
           t == Tail(lockQueue)
<1>1. Ran(h.op, h.agent) /\ lockQueue' = t /\ MayQueue(h, c)
  BY HeadRuns
<1>2. lockQueue \in Seq(Calls) /\ Len(t) = Len(lockQueue) - 1
  BY DEF LockInv
<1>3. LockInv'
  BY HeadKeepsLock
<1>4. /\ \A A : Behind(lockQueue, A) => Behind(t, A)
      /\ \A A : Behind(lockQueue, A) /\ h.op \in Claims => Pending(t, A)
      /\ \A A : Pending(lockQueue, A) /\ h.op \notin A => Pending(t, A)
  BY <1>2, QueueShrinks
<1> HIDE DEF h, t
<1>5. LineInv' /\ (Knows => Knows')
  BY <1>1 DEF Ran, Kept
<1>6. /\ Empty /\ h.op \notin Claims => Empty' /\ (c.controller = "human" => c'.controller = "human")
      /\ h.op \in Abandons => Empty'
      /\ h.op = "stopAbandon" => Empty' /\ c'.controller = "human"
  BY <1>1 DEF Ran, Kept, Abandons
<1>7. Over => Over'
  BY <1>1, <1>4, <1>6 DEF Over
<1>8. Down => Down'
  <2>1. Down => Behind(t, {"stopAbandon"})
    BY <1>4 DEF Down
  <2>2. Down => Pending(t, {"stopAbandon"}) \/ (Empty' /\ c'.controller = "human")
    BY <1>4, <1>6 DEF Down
  <2> QED
    BY <1>1, <2>1, <2>2 DEF Down
<1> QED
  BY <1>1, <1>2, <1>3, <1>5, <1>7, <1>8 DEF MayQueue, h

-------------------------------------------------------------------------------
(* The inductive invariant.                                                  *)

LifeInv ==
    /\ lifecycle \in {"init", "running", "crashed", "stopped"}
    /\ closed \in BOOLEAN /\ announcing \in BOOLEAN
    /\ calls \in 0 .. MaxCalls /\ upsets \in 0 .. MaxUpsets
    /\ announcing => upsets > 0
    /\ Len(lockQueue) + (IF announcing THEN 1 ELSE 0) <= MaxLockQueue + upsets

LeaseInv ==
    /\ LineInv /\ LockInv /\ LifeInv
    /\ lifecycle \in {"stopped", "init"} => Down
    /\ Up => Knows

\* Needs that nobody calls a closed browser.
GoneInv == (closed \/ lifecycle \in {"crashed", "stopped"}) /\ ~announcing => Over

\* A browser that has come up.
LEMMA InitLease == Init => LeaseInv /\ GoneInv
<1> SUFFICES ASSUME Init PROVE LeaseInv /\ GoneInv
  OBVIOUS
<1>1. /\ <<>> \in Seq(Agents) /\ ToSet(<<>>) = {} /\ IsInjective(<<>>)
      /\ <<>> \in Seq(Calls) /\ Len(<<>>) = 0
  BY EmptyQueue
<1>2. c \in Control
  BY <1>1 DEF Init, Control
<1>3. LineInv
  BY <1>1, <1>2 DEF Init, LineInv, Good, Settled, NobodyForgotten
<1>0. Len(lockQueue) = 0 /\ lockQueue \in Seq(Calls) /\ \A i \in 1 .. Len(lockQueue) : FALSE
  BY <1>1 DEF Init
<1>4. LockInv
  BY <1>0 DEF Init, LockInv, Overdue
<1>5. LifeInv
  <2>1. 0 \in 0 .. MaxCalls /\ 0 \in 0 .. MaxUpsets /\ 0 + 0 <= MaxLockQueue + 0
    BY LeaseAssumption
  <2>2. ~announcing /\ announcing \in BOOLEAN /\ closed \in BOOLEAN /\ lifecycle = "running"
        /\ calls = 0 /\ upsets = 0
    BY DEF Init
  <2>3. (IF announcing THEN 1 ELSE 0) = 0
    BY <2>2
  <2> QED
    BY <1>0, <2>1, <2>2, <2>3 DEF LifeInv
<1> QED
  BY <1>3, <1>4, <1>5 DEF Init, LeaseInv, GoneInv, Knows

\* Calls that come in where there is room.
LEMMA RoomKeepsLife ==
    ASSUME LifeInv, LockInv, Room, UNCHANGED <<lifeVars, upsets>>,
           calls' = calls \/ Budget,
           \/ LockFree /\ lockQueue' = <<>>
           \/ ~LockFree /\ Len(lockQueue') = Len(lockQueue) + 1
    PROVE  LifeInv'
<1>1. Len(lockQueue) \in Nat /\ calls' \in 0 .. MaxCalls
  BY LeaseAssumption DEF LockInv, LifeInv, Budget
<1>2. Len(lockQueue') + (IF announcing THEN 1 ELSE 0) <= MaxLockQueue + upsets
  <2>1. CASE LockFree /\ lockQueue' = <<>>
    BY <1>1, <2>1, LeaseAssumption DEF LifeInv, LockFree
  <2>2. CASE ~LockFree /\ Len(lockQueue') = Len(lockQueue) + 1
    BY <1>1, <2>2, LeaseAssumption DEF LifeInv, Room
  <2> QED
    BY <2>1, <2>2
<1> QED
  BY <1>1, <1>2 DEF LifeInv, lifeVars

\* Calls whose sender looked whether the browser runs, and calls that claim nothing.
LEMMA CallKeepsLease ==
    ASSUME LeaseInv, NEW op \in Ops, NEW a \in Agents \cup {NoAgent},
           op \in AgentOps => a \in Agents,
           op = "wait" => c.waiter[a] = "none" /\ [op |-> op, agent |-> a] \notin ToSet(lockQueue),
           op \in Sweeps => op = "sweep" /\ LockFree, Call(op, a),
           op \in Claims => lifecycle = "running", Room,
           UNCHANGED <<lifeVars, upsets>>, calls' = calls \/ Budget
    PROVE  LeaseInv' /\ (GoneInv /\ (op \in Claims => ~closed) => GoneInv')
<1>1. /\ LineInv' /\ LockInv' /\ (Knows => Knows')
      /\ op \notin Claims => (Over => Over') /\ (Down => Down')
      /\ \/ LockFree /\ lockQueue' = <<>>
         \/ ~LockFree /\ Len(lockQueue') = Len(lockQueue) + 1
  BY CallKeeps DEF LeaseInv
<1>2. LifeInv'
  BY <1>1, RoomKeepsLife DEF LeaseInv
<1> QED
  BY <1>1, <1>2 DEF LeaseInv, GoneInv, Up, lifeVars

\* The agents' and the human's calls.
LEMMA CallersKeepLease ==
    ASSUME LeaseInv,
           \/ \E a \in Agents : Command(a) \/ ReleaseCall(a) \/ GiveUp(a)
           \/ TakeControl \/ ReturnToAgents \/ Keepalive
    PROVE  LeaseInv' /\ (~LateCalls /\ GoneInv => GoneInv')
<1>0. /\ LateCalls \in BOOLEAN /\ NoAgent \notin Agents
      /\ {"acquire", "reclaim", "attach", "handoff", "wait", "release", "giveUp", "take",
          "return", "sweep"} \subseteq Ops
  BY LeaseAssumption DEF Ops
<1>1. ASSUME NEW a \in Agents, Command(a)
      PROVE  LeaseInv' /\ (~LateCalls /\ GoneInv => GoneInv')
  <2>1. /\ lifecycle = "running" /\ (~LateCalls => ~closed) /\ Room
        /\ UNCHANGED <<lifeVars, upsets>> /\ Budget
    BY <1>1 DEF Command, Reachable
  <2>2. PICK op \in {"acquire", "reclaim", "attach", "handoff", "wait"} :
            /\ Call(op, a)
            /\ op = "wait" => c.waiter[a] = "none" /\ [op |-> op, agent |-> a] \notin ToSet(lockQueue)
    <3>1. CASE \E op \in {"acquire", "reclaim", "attach", "handoff"} : Call(op, a)
      BY <3>1
    <3>2. CASE /\ c.waiter[a] = "none" /\ [op |-> "wait", agent |-> a] \notin ToSet(lockQueue)
               /\ Call("wait", a)
      BY <3>2
    <3> QED
      BY <1>1, <3>1, <3>2 DEF Command
  <2>3. op \in Ops /\ op \notin Sweeps
    BY <1>0, <2>2 DEF Sweeps
  <2> QED
    BY <2>1, <2>2, <2>3, CallKeepsLease
<1>2. ASSUME NEW a \in Agents, ReleaseCall(a)
      PROVE  LeaseInv' /\ (~LateCalls /\ GoneInv => GoneInv')
  BY <1>0, <1>2, CallKeepsLease DEF ReleaseCall, Claims, Acquires, Sweeps
<1>3. ASSUME NEW a \in Agents, GiveUp(a)
      PROVE  LeaseInv' /\ (~LateCalls /\ GoneInv => GoneInv')
  BY <1>0, <1>3, CallKeepsLease DEF GiveUp, Claims, Acquires, Sweeps
<1>4. ASSUME TakeControl
      PROVE  LeaseInv' /\ (~LateCalls /\ GoneInv => GoneInv')
  BY <1>0, <1>4, CallKeepsLease DEF TakeControl, Reachable, Sweeps, AgentOps
<1>5. ASSUME ReturnToAgents
      PROVE  LeaseInv' /\ (~LateCalls /\ GoneInv => GoneInv')
  <2>1. UNCHANGED <<lifeVars, upsets>> /\ calls' = calls /\ Room /\ Call("return", NoAgent)
    BY <1>5 DEF ReturnToAgents
  <2> QED
    BY <1>0, <2>1, CallKeepsLease DEF Sweeps, AgentOps, Claims, Acquires
<1>6. ASSUME Keepalive
      PROVE  LeaseInv' /\ (~LateCalls /\ GoneInv => GoneInv')
  <2>1. UNCHANGED <<lifeVars, upsets>> /\ calls' = calls /\ Room /\ Call("sweep", NoAgent)
    BY <1>6 DEF Keepalive
  <2>2. Overdue(c)
    BY <1>6 DEF Keepalive, NoShow, Overdue
  <2>3. LockFree
    BY <2>2 DEF LeaseInv, LockInv
  <2> QED
    BY <1>0, <2>1, <2>3, CallKeepsLease DEF Sweeps, AgentOps, Claims, Acquires
<1> QED
  BY <1>1, <1>2, <1>3, <1>4, <1>5, <1>6

\* A frame of the holder's own socket, or one that asks for a free browser.
LEMMA FrameKeepsLease ==
    ASSUME LeaseInv, NEW a \in Agents, Frame(a)
    PROVE  LeaseInv' /\ (GoneInv => GoneInv')
<1>1. lifecycle = "running" /\ ~closed /\ Budget /\ UNCHANGED <<lifeVars, upsets>>
  BY DEF Frame
<1>2. CASE Free(c) /\ Room /\ Call("frame", a)
  <2>1. "frame" \in Ops /\ "frame" \notin Sweeps
    BY DEF Ops, Sweeps
  <2> QED
    BY <1>1, <1>2, <2>1, CallKeepsLease
<1>3. CASE /\ MayDrive(a)
           /\ c' = Touch(c) /\ drove' = Driven(a) /\ lively' = TRUE
           /\ UNCHANGED <<handingOff, lockQueue, promised, told>>
  <2>1. c.controller = "agent" /\ Good(c)
    BY <1>3 DEF MayDrive, Owns, LeaseInv, LineInv
  <2>2. /\ Good(c') /\ ~Overdue(c') /\ Fresh(c') /\ c'.controller = c.controller
        /\ c'.owner = c.owner /\ c'.pinned = c.pinned /\ c'.waiter = c.waiter
        /\ c'.resumeQueue = c.resumeQueue /\ c'.waitQueue = c.waitQueue
    BY <1>3, <2>1, TouchGood
  <2>3. LineInv'
    BY <1>3, <2>2 DEF LeaseInv, LineInv, NobodyForgotten, Settled, Free
  <2>4. LockInv'
    <3>1. drove' \in [agent : Agents \cup {NoAgent}, frames : Nat]
      BY <1>3 DEF LeaseInv, LockInv, Driven
    <3> QED
      BY <1>3, <2>1, <2>2, <3>1 DEF LeaseInv, LockInv, MayQueue
  <2>5. LifeInv'
    BY <1>1, <1>3, LeaseAssumption DEF LeaseInv, LifeInv, lifeVars, Budget
  <2>6. Knows => Knows'
    BY <1>3, <2>2 DEF Knows
  <2> QED
    BY <1>1, <2>3, <2>4, <2>5, <2>6 DEF LeaseInv, GoneInv, Up, lifeVars
<1> QED
  BY <1>2, <1>3 DEF Frame

\* The coroutine of a waiter runs after it was granted the browser or evicted.
LEMMA AnswerKeepsLease ==
    ASSUME LeaseInv, NEW a \in Agents, Answer(a)
    PROVE  LeaseInv' /\ (GoneInv => GoneInv')
<1> DEFINE t == [c EXCEPT !.waiter[a] = "none"]
<1>1. /\ c' = t /\ c.waiter[a] \in {"granted", "evicted"}
      /\ told' = IF c.waiter[a] = "granted" /\ lifecycle = "running" /\ ~closed
                 THEN told \cup {a} ELSE told
      /\ UNCHANGED <<handingOff, lockQueue, lifeVars, promised, drove, lively, calls, upsets>>
  BY DEF Answer
<1>2. Good(c) /\ c.waiter \in [Agents -> {"none", "parked", "granted", "evicted"}]
  BY DEF LeaseInv, LineInv, Good, Control
<1>3. /\ t \in Control /\ t.controller = c.controller /\ t.owner = c.owner /\ t.pinned = c.pinned
      /\ t.quiet = c.quiet /\ t.claim = c.claim /\ t.resumeQueue = c.resumeQueue
      /\ t.tokenOwner = c.tokenOwner /\ t.attached = c.attached /\ t.waitQueue = c.waitQueue
      /\ t.waiter = [c.waiter EXCEPT ![a] = "none"]
  BY <1>2 DEF Good, Control
<1> HIDE DEF t
<1>4. t.waiter[a] = "none" /\ \A b \in Agents : b # a => t.waiter[b] = c.waiter[b]
  BY <1>2, <1>3
<1>5. Good(t)
  <2>1. \A b \in Agents : b \in ToSet(t.waitQueue) <=> t.waiter[b] = "parked"
    BY <1>1, <1>2, <1>3, <1>4 DEF Good
  <2> QED
    BY <1>2, <1>3, <2>1 DEF Good
<1>6. LineInv'
  BY <1>1, <1>3, <1>5 DEF LeaseInv, LineInv, NobodyForgotten, Settled, Free
<1>7. \A b \in Agents : c.waiter[b] = "none" => t.waiter[b] = "none"
  BY <1>4
<1>8. LockInv'
  <2>1. Overdue(t) = Overdue(c) /\ Fresh(t) = Fresh(c)
    BY <1>3 DEF Overdue, Fresh
  <2>2. \A i \in 1 .. Len(lockQueue) : MayQueue(lockQueue[i], t)
    <3>1. \A x : MayQueue(x, c) => MayQueue(x, t)
      BY <1>7 DEF MayQueue, AgentOps
    <3> QED
      BY <3>1 DEF LeaseInv, LockInv
  <2> QED
    BY <1>1, <1>3, <2>1, <2>2 DEF LeaseInv, LockInv, LockFree
<1>9. LifeInv'
  BY <1>1 DEF LeaseInv, LifeInv, lifeVars
<1>10. Up /\ Knows => Knows'
  BY <1>1, <1>2, <1>3, <1>4 DEF Up, Knows, Good, Control
<1>11. (Over => Over') /\ (Down => Down')
  BY <1>1, <1>3 DEF Over, Down, Empty
<1> QED
  BY <1>1, <1>6, <1>8, <1>9, <1>10, <1>11 DEF LeaseInv, GoneInv, Up, lifeVars

\* The clock: only while nobody waits for the lock.
LEMMA ClockKeepsLease ==
    ASSUME LeaseInv, ClaimLapses \/ GoQuiet
    PROVE  LeaseInv' /\ (GoneInv => GoneInv')
<1>1. /\ c.controller = "agent" /\ lockQueue = <<>> /\ Good(c)
      /\ UNCHANGED <<handingOff, lockQueue, lifeVars, promised, told, drove, calls, upsets>>
  BY DEF ClaimLapses, GoQuiet, historyVars, LeaseInv, LineInv
<1>2. /\ c' \in Control /\ c'.controller = c.controller /\ c'.owner = c.owner /\ c'.pinned = c.pinned
      /\ c'.resumeQueue = c.resumeQueue /\ c'.tokenOwner = c.tokenOwner
      /\ c'.attached = c.attached /\ c'.waitQueue = c.waitQueue /\ c'.waiter = c.waiter
  <2>1. c \in Control
    BY <1>1 DEF Good
  <2>2. CASE c' = [c EXCEPT !.claim = "over"]
    BY <2>1, <2>2 DEF Control
  <2>3. CASE c' = [c EXCEPT !.quiet = TRUE]
    BY <2>1, <2>3 DEF Control
  <2> QED BY <2>2, <2>3 DEF ClaimLapses, GoQuiet
<1>3. LineInv'
  BY <1>1, <1>2 DEF LeaseInv, LineInv, NobodyForgotten, Settled, Free, Good
<1>4. lively' = FALSE
  <2>1. CASE ClaimLapses
    BY <2>1 DEF ClaimLapses, LeaseInv, LockInv, Fresh, historyVars
  <2>2. CASE GoQuiet
    BY <2>2 DEF GoQuiet
  <2> QED
    BY <2>1, <2>2
<1>5. LockInv'
  <2>1. LockFree'
    BY <1>1 DEF LeaseInv, LockInv, LockFree
  <2>2. \A i \in 1 .. Len(lockQueue) : MayQueue(lockQueue[i], c')
    BY <1>1, <1>2 DEF LeaseInv, LockInv, MayQueue
  <2> QED
    <3>1. handingOff' = handingOff /\ lockQueue' = lockQueue /\ drove' = drove
      BY <1>1
    <3>2. handingOff = FALSE
      BY <1>1 DEF LeaseInv, LockInv
    <3> QED
      BY <1>4, <2>1, <2>2, <3>1, <3>2 DEF LeaseInv, LockInv
<1>6. LifeInv'
  BY <1>1 DEF LeaseInv, LifeInv, lifeVars
<1>7. (Over => Over') /\ (Down => Down') /\ (Knows => Knows')
  BY <1>1, <1>2 DEF Over, Down, Empty, Knows
<1> QED
  BY <1>1, <1>3, <1>5, <1>6, <1>7 DEF LeaseInv, GoneInv, Up, lifeVars

\* The lock: the head of the queue runs, or a handoff lets go.
LEMMA LockKeepsLease ==
    ASSUME LeaseInv, RunHead \/ HandoffDone
    PROVE  LeaseInv' /\ (GoneInv => GoneInv')
<1>1. CASE RunHead
  <2>1. /\ LineInv' /\ LockInv' /\ (Knows => Knows') /\ (Over => Over') /\ (Down => Down')
        /\ Len(lockQueue') = Len(lockQueue) - 1
    BY <1>1, HeadKeeps DEF RunHead, LeaseInv
  <2>2. LifeInv'
    <3>1. UNCHANGED <<lifeVars, calls, upsets>> /\ Len(lockQueue) \in Nat
      BY <1>1 DEF RunHead, LeaseInv, LockInv
    <3> QED
      BY <2>1, <3>1, LeaseAssumption DEF LeaseInv, LifeInv, lifeVars
  <2>3. UNCHANGED <<lifecycle, closed, announcing>>
    BY <1>1 DEF RunHead, lifeVars
  <2>4. LeaseInv'
    <3>1. lifecycle' \in {"stopped", "init"} => Down'
      BY <2>1, <2>3 DEF LeaseInv
    <3>2. Up' => Knows'
      BY <2>1, <2>3 DEF LeaseInv, Up
    <3> QED
      BY <2>1, <2>2, <3>1, <3>2 DEF LeaseInv
  <2>5. GoneInv => GoneInv'
    BY <2>1, <2>3 DEF GoneInv
  <2> QED
    BY <2>4, <2>5
<1>2. CASE HandoffDone
  <2>1. /\ handingOff' = FALSE
        /\ UNCHANGED <<c, lockQueue, lifeVars, historyVars, calls, upsets>>
    BY <1>2 DEF HandoffDone
  <2>2. LineInv' /\ (Knows => Knows') /\ (Over => Over') /\ (Down => Down')
    BY <2>1 DEF LeaseInv, LineInv, NobodyForgotten, Knows, Over, Down, Empty, historyVars
  <2>3. LockInv'
    <3>1. LockInv /\ UNCHANGED <<c, lockQueue, drove, lively>>
      BY <2>1 DEF LeaseInv, historyVars
    <3>2. Overdue(c') => LockFree'
      BY <2>1, <3>1 DEF LockInv, LockFree
    <3> QED
      BY <2>1, <3>1, <3>2 DEF LockInv
  <2>4. LifeInv'
    BY <2>1 DEF LeaseInv, LifeInv, lifeVars
  <2>5. UNCHANGED <<lifecycle, closed, announcing>>
    BY <2>1 DEF lifeVars
  <2>6. LeaseInv'
    BY <2>2, <2>3, <2>4, <2>5 DEF LeaseInv, Up
  <2>7. GoneInv => GoneInv'
    BY <2>2, <2>5 DEF GoneInv
  <2> QED
    BY <2>6, <2>7
<1> QED
  BY <1>1, <1>2

\* A crash, its announcement, a stop and a close.
LEMMA EndsKeepLease ==
    ASSUME LeaseInv, Disconnected \/ AnnounceCrash \/ Stop \/ CloseBrowser
    PROVE  LeaseInv' /\ (GoneInv => GoneInv')
<1>0. /\ Len(lockQueue) \in Nat /\ MaxLockQueue \in Nat /\ upsets \in Nat /\ MaxUpsets \in Nat
      /\ {"abandon", "stopAbandon"} \subseteq Ops
      /\ \A op \in {"abandon", "stopAbandon"} :
             /\ op \notin Claims /\ op \notin Sweeps /\ op \notin AgentOps /\ op # "wait"
             /\ op \in Abandons
  BY LeaseAssumption
     DEF LeaseInv, LockInv, LifeInv, Ops, Claims, Acquires, Sweeps, AgentOps, Abandons
<1>1. CASE Disconnected
  <2>1. /\ upsets < MaxUpsets /\ upsets' = upsets + 1 /\ lifecycle' = "crashed" /\ announcing' = TRUE
        /\ UNCHANGED <<c, handingOff, lockQueue, closed, promised, told, drove, lively, calls>>
    BY <1>1 DEF Disconnected, Upset, historyVars
  <2>2. LineInv' /\ LockInv'
    BY <2>1 DEF LeaseInv, LineInv, NobodyForgotten, LockInv, LockFree
  <2>3. LifeInv'
    BY <1>0, <2>1 DEF LeaseInv, LifeInv
  <2> QED
    BY <2>1, <2>2, <2>3 DEF LeaseInv, GoneInv, Up
<1>2. ASSUME NEW op \in {"abandon", "stopAbandon"}, Call(op, NoAgent)
      PROVE  /\ LineInv' /\ LockInv' /\ (Knows => Knows') /\ (Down => Down') /\ Over'
             /\ op = "stopAbandon" => Down'
             /\ Len(lockQueue') \in Nat /\ Len(lockQueue') <= Len(lockQueue) + 1
  <2>1. /\ LineInv' /\ LockInv' /\ (Knows => Knows') /\ (Down => Down') /\ Over'
        /\ op = "stopAbandon" => Down'
        /\ lockQueue' = <<>> \/ Len(lockQueue') = Len(lockQueue) + 1
    BY <1>0, <1>2, CallKeeps DEF LeaseInv
  <2> QED
    BY <1>0, <2>1
<1>3. CASE AnnounceCrash
  <2>1. /\ announcing /\ announcing' = FALSE /\ Call("abandon", NoAgent)
        /\ UNCHANGED <<lifecycle, closed, calls, upsets>>
    BY <1>3 DEF AnnounceCrash
  <2>2. /\ LineInv' /\ LockInv' /\ (Knows => Knows') /\ (Down => Down') /\ Over'
        /\ Len(lockQueue') \in Nat /\ Len(lockQueue') <= Len(lockQueue) + 1
    BY <1>2, <2>1
  <2>3. Len(lockQueue) + 1 <= MaxLockQueue + upsets
    BY <2>1 DEF LeaseInv, LifeInv
  <2>4. Len(lockQueue') + 0 <= MaxLockQueue + upsets
    BY <1>0, <2>2, <2>3
  <2>5. LifeInv'
    BY <2>1, <2>4 DEF LeaseInv, LifeInv
  <2> QED
    BY <2>1, <2>2, <2>5 DEF LeaseInv, GoneInv, Up
<1>4. CASE Stop
  <2>1. /\ lifecycle' = "stopped" /\ upsets < MaxUpsets /\ upsets' = upsets + 1
        /\ Call("stopAbandon", NoAgent) /\ UNCHANGED <<closed, announcing, calls>>
    BY <1>4 DEF Stop, Upset
  <2>2. /\ LineInv' /\ LockInv' /\ Down' /\ Over'
        /\ Len(lockQueue') \in Nat /\ Len(lockQueue') <= Len(lockQueue) + 1
    BY <1>2, <2>1
  <2>3. LifeInv'
    BY <1>0, <2>1, <2>2 DEF LeaseInv, LifeInv
  <2> QED
    BY <2>1, <2>2, <2>3 DEF LeaseInv, GoneInv, Up
<1>5. CASE CloseBrowser
  <2>1. /\ closed' = TRUE /\ upsets < MaxUpsets /\ upsets' = upsets + 1
        /\ Call("abandon", NoAgent) /\ UNCHANGED <<lifecycle, announcing, calls>>
    BY <1>5 DEF CloseBrowser, Upset
  <2>2. /\ LineInv' /\ LockInv' /\ (Down => Down') /\ Over'
        /\ Len(lockQueue') \in Nat /\ Len(lockQueue') <= Len(lockQueue) + 1
    BY <1>2, <2>1
  <2>3. LifeInv'
    BY <1>0, <2>1, <2>2 DEF LeaseInv, LifeInv
  <2> QED
    BY <2>1, <2>2, <2>3 DEF LeaseInv, GoneInv, Up
<1> QED
  BY <1>1, <1>3, <1>4, <1>5

\* A stopped browser starts: by then the human has it, and a token of nobody's is good.
LEMMA StartsKeepLease ==
    ASSUME LeaseInv, StartBrowser \/ Started
    PROVE  LeaseInv' /\ (GoneInv => GoneInv')
<1>1. CASE StartBrowser
  <2>1. /\ lifecycle = "stopped" /\ lifecycle' = "init" /\ ~closed
        /\ UNCHANGED <<c, handingOff, lockQueue, closed, announcing, promised, told, drove,
                       lively, calls, upsets>>
    BY <1>1 DEF StartBrowser, historyVars
  <2>2. LineInv' /\ LockInv' /\ LifeInv' /\ (Down => Down')
    BY <2>1 DEF LeaseInv, LineInv, NobodyForgotten, LockInv, LockFree, LifeInv, Down, Empty
  <2> QED
    BY <2>1, <2>2 DEF LeaseInv, GoneInv, Up
<1>2. CASE Started
  <2>1. /\ lifecycle = "init" /\ ~closed /\ LockFree /\ lifecycle' = "running"
        /\ c' = Mint(c, NoAgent)
        /\ UNCHANGED <<handingOff, lockQueue, closed, announcing, promised, told, drove,
                       lively, calls, upsets>>
    BY <1>2 DEF Started, historyVars
  <2>2. Empty /\ c.controller = "human" /\ Good(c) /\ lockQueue = <<>>
    BY <2>1, NoQueue DEF LeaseInv, Down, LockFree, LineInv
  <2>3. /\ c' \in Control /\ c'.controller = c.controller /\ c'.owner = c.owner
        /\ c'.pinned = c.pinned /\ c'.resumeQueue = c.resumeQueue /\ c'.tokenOwner = NoAgent
        /\ c'.attached = {} /\ c'.waitQueue = c.waitQueue /\ c'.waiter = c.waiter
    BY <2>1, <2>2 DEF Mint, Good, Control
  <2>4. Good(c')
    BY <2>2, <2>3 DEF Good
  <2>5. LineInv'
    BY <2>1, <2>3, <2>4 DEF LeaseInv, LineInv, NobodyForgotten, Settled, Free
  <2>6. ~Fresh(c) /\ ~Overdue(c') /\ c'.controller = "human"
    BY <2>2, <2>3 DEF Fresh, Overdue
  <2>7. LockInv'
    <3>1. \A i \in 1 .. Len(lockQueue) : MayQueue(lockQueue[i], c')
      BY <2>3 DEF LeaseInv, LockInv, MayQueue
    <3> QED
      BY <2>1, <2>6, <3>1 DEF LeaseInv, LockInv
  <2>8. LifeInv' /\ Knows'
    BY <2>1, <2>6 DEF LeaseInv, LifeInv, Knows
  <2> QED
    BY <2>1, <2>5, <2>7, <2>8 DEF LeaseInv, GoneInv, Up
<1> QED
  BY <1>1, <1>2

\* No step breaks the invariant, and none that GoneInv if nobody calls a closed browser.
LEMMA LeaseInductive ==
    LeaseInv /\ [Next]_vars => LeaseInv' /\ (~LateCalls /\ GoneInv => GoneInv')
<1> SUFFICES ASSUME LeaseInv, [Next]_vars
             PROVE  LeaseInv' /\ (~LateCalls /\ GoneInv => GoneInv')
  OBVIOUS
<1>1. CASE UNCHANGED vars
  <2>1. UNCHANGED <<c, handingOff, lockQueue, lifecycle, closed, announcing, promised, told,
                    drove, lively, calls, upsets>>
    BY <1>1 DEF vars, lifeVars, historyVars
  <2> QED
    BY <2>1 DEF LeaseInv, LineInv, NobodyForgotten, LockInv, LockFree, LifeInv, GoneInv,
                Over, Down, Empty, Knows, Up
<1>2. CASE \E a \in Agents : Frame(a)
  BY <1>2, FrameKeepsLease
<1>3. CASE \E a \in Agents : Answer(a)
  BY <1>3, AnswerKeepsLease
<1>4. CASE \/ \E a \in Agents : Command(a) \/ ReleaseCall(a) \/ GiveUp(a)
           \/ TakeControl \/ ReturnToAgents \/ Keepalive
  BY <1>4, CallersKeepLease
<1>5. CASE ClaimLapses \/ GoQuiet
  BY <1>5, ClockKeepsLease
<1>6. CASE RunHead \/ HandoffDone
  BY <1>6, LockKeepsLease
<1>7. CASE Disconnected \/ AnnounceCrash \/ Stop \/ CloseBrowser
  BY <1>7, EndsKeepLease
<1>8. CASE StartBrowser \/ Started
  BY <1>8, StartsKeepLease
<1> QED
  BY <1>1, <1>2, <1>3, <1>4, <1>5, <1>6, <1>7, <1>8 DEF Next

-------------------------------------------------------------------------------
(* The theorems.                                                             *)

\* The invariant holds in every reachable state.
LEMMA AlwaysLease == Spec => []LeaseInv
  BY InitLease, LeaseInductive, PTL DEF Spec

\* The invariant has the types.
LEMMA LeaseTypes == LeaseInv => TypeOK
<1> SUFFICES ASSUME LeaseInv PROVE TypeOK
  OBVIOUS
<1>1. promised \subseteq Agents
  <2>1. ToSet(c.resumeQueue) \subseteq Agents
    BY EmptyQueue DEF LeaseInv, LineInv, Good, Control
  <2> QED
    BY <2>1 DEF LeaseInv, LineInv, NobodyForgotten
<1>2. Len(lockQueue) <= MaxLockQueue + MaxUpsets
  BY LeaseAssumption DEF LeaseInv, LockInv, LifeInv
<1> QED
  BY <1>1, <1>2 DEF LeaseInv, LineInv, LockInv, LifeInv, Good, TypeOK, Calls

\* Types, for any number of agents, and however late a call is: the controller, the owner
\* and the pin agree, and the calls that wait for the lock are as many as there was room for
\* and crashes, stops and closes were made.
THEOREM TypesHold == Spec => []TypeOK
  BY AlwaysLease, LeaseTypes, PTL

\* The line is served (_settle_queue_locked, _abandon_queues_locked): nobody stands in it
\* twice, is dropped from it, or waits for a browser that is free or gone, and who gets the
\* browser knows it. A request that calls a browser after its close is left out.
THEOREM LineServed ==
    ASSUME ~LateCalls
    PROVE  Spec => []LineIsServed
<1>1. LeaseInv /\ GoneInv => LineIsServed
  <2> SUFFICES ASSUME LeaseInv, GoneInv PROVE LineIsServed
    OBVIOUS
  <2>1. FreeMeansNobodyWaits /\ InLineOnce /\ NobodyForgotten /\ OwnerKnows
    BY DEF LeaseInv, LineInv, Good, Settled, FreeMeansNobodyWaits, InLineOnce, OwnerKnows, Knows
  <2>2. NobodyWaitsForTheGone
    <3> SUFFICES ASSUME closed \/ lifecycle \in {"crashed", "stopped"}, ~announcing,
                        \A i \in DOMAIN lockQueue :
                            lockQueue[i].op \notin {"abandon", "stopAbandon"}
                 PROVE  Empty
      BY DEF NobodyWaitsForTheGone, Empty
    <3>1. DOMAIN lockQueue = 1 .. Len(lockQueue)
      BY LenProperties DEF LeaseInv, LockInv
    <3> QED
      BY <3>1 DEF GoneInv, Over, Pending, Abandons
  <2> QED
    BY <2>1, <2>2, LeaseTypes DEF LineIsServed
<1>2. Init => LeaseInv /\ GoneInv
  BY InitLease
<1>3. LeaseInv /\ GoneInv /\ [Next]_vars => (LeaseInv /\ GoneInv)'
  BY LeaseInductive
<1> QED
  BY <1>1, <1>2, <1>3, PTL DEF Spec

\* Every forwarded frame (_token_may_drive) is the holder's, one of the agent that drove
\* last included: the tokens follow the browser from agent to agent, and with the human in
\* control no frame passes, though that agent's socket is open and its token good.
THEOREM FramesHold == Spec => FramesAreTheHolders
<1>1. LeaseInv => OnlyTheHolderDrives
  BY DEF LeaseInv, LineInv, Good, OnlyTheHolderDrives
<1> DEFINE Holders == drove'.frames # drove.frames =>
                         c'.controller = "agent" /\ c'.owner = drove'.agent /\ ~c'.pinned
<1>2. LeaseInv /\ LeaseInv' /\ [Next]_vars => [Holders]_vars
  <2> SUFFICES ASSUME LeaseInv, LeaseInv', Next, drove'.frames # drove.frames
               PROVE  c'.controller = "agent" /\ c'.owner = drove'.agent /\ ~c'.pinned
    OBVIOUS
  <2>a. drove' # drove
    OBVIOUS
  <2>0. c'.pinned => c'.controller = "human"
    BY DEF LeaseInv, LineInv, Good
  <2>1. ASSUME NEW op, NEW a, Ran(op, a)
        PROVE  c'.controller = "agent" /\ c'.owner = drove'.agent
    BY <2>a, <2>1 DEF Ran, Owns, Driven
  <2>2. ASSUME NEW op \in Ops, NEW a \in Agents \cup {NoAgent},
               op \in AgentOps => a \in Agents,
               op = "wait" => c.waiter[a] = "none" /\ [op |-> op, agent |-> a] \notin ToSet(lockQueue),
               op \in Sweeps => op = "sweep" /\ LockFree, Call(op, a)
        PROVE  c'.controller = "agent" /\ c'.owner = drove'.agent
    <3>1. Ran(op, a) \/ Queued(op, a)
      BY <2>2, CallKeeps DEF LeaseInv
    <3>2. ~Queued(op, a)
      BY <2>a DEF Queued, historyVars
    <3> QED
      BY <2>1, <3>1, <3>2
  <2>3. CASE \E a \in Agents : Frame(a)
    <3>1. PICK a \in Agents : Frame(a)
      BY <2>3
    <3>2. CASE Call("frame", a)
      BY <2>0, <2>2, <3>2 DEF Ops, Sweeps
    <3>3. CASE MayDrive(a) /\ c' = Touch(c) /\ drove' = Driven(a)
      <4>1. Good(c) /\ Owns(c, a)
        BY <3>3 DEF LeaseInv, LineInv, MayDrive
      <4> QED
        BY <2>0, <3>3, <4>1, TouchGood DEF Owns, Driven
    <3> QED
      BY <3>1, <3>2, <3>3 DEF Frame
  <2>4. ASSUME NEW op \in Ops, NEW a \in Agents \cup {NoAgent}, Call(op, a), op # "frame"
        PROVE  drove' = drove
    BY <2>4 DEF Call, Section, historyVars
  <2>5. CASE RunHead
    <3>1. Ran(Head(lockQueue).op, Head(lockQueue).agent)
      BY <2>5, HeadKeeps DEF RunHead, LeaseInv
    <3> QED
      BY <2>0, <2>1, <3>1
  <2>6. /\ {"acquire", "reclaim", "attach", "handoff", "wait", "release", "giveUp", "take",
            "return", "sweep", "abandon", "stopAbandon"} \subseteq Ops \ {"frame"}
        /\ NoAgent \in Agents \cup {NoAgent} /\ Agents \subseteq Agents \cup {NoAgent}
    BY DEF Ops
  <2>7. ASSUME NEW a \in Agents, Command(a) \/ ReleaseCall(a) \/ GiveUp(a)
        PROVE  drove' = drove
    BY <2>4, <2>6, <2>7 DEF Command, ReleaseCall, GiveUp
  <2>8. CASE TakeControl \/ ReturnToAgents \/ Keepalive \/ AnnounceCrash \/ Stop \/ CloseBrowser
    BY <2>4, <2>6, <2>8
       DEF TakeControl, ReturnToAgents, Keepalive, AnnounceCrash, Stop, CloseBrowser
  <2>9. CASE \/ \E a \in Agents : Answer(a)
             \/ HandoffDone \/ ClaimLapses \/ GoQuiet \/ Disconnected \/ StartBrowser \/ Started
    BY <2>9 DEF Answer, HandoffDone, ClaimLapses, GoQuiet, Disconnected, StartBrowser, Started,
                historyVars
  <2> QED
    BY <2>a, <2>0, <2>3, <2>5, <2>7, <2>8, <2>9 DEF Next
<1> QED
  BY <1>1, <1>2, AlwaysLease, PTL DEF Spec, FramesAreTheHolders

\* The sweeps of the keepalive loop (_sweep_idle_lease, _sweep_unclaimed_grant) never take
\* the browser from an agent that has sent a frame within the idle TTL.
THEOREM SweepsHold == Spec => SweepsTheAbsent
<1> DEFINE Swept == Keepalive \/ (RunHead /\ Head(lockQueue).op \in {"sweep", "idleLook", "idleTake"})
           Spares == Swept => (c'.owner # c.owner => ~lively)
<1>1. LeaseInv => [Spares]_vars
  <2> SUFFICES ASSUME LeaseInv, Swept, c'.owner # c.owner
               PROVE  ~lively
    OBVIOUS
  <2>1. ~(RunHead /\ Head(lockQueue).op \in {"sweep", "idleLook", "idleTake"})
    <3> SUFFICES ASSUME RunHead PROVE Head(lockQueue).op \notin Sweeps
      BY DEF Sweeps
    <3> QED
      BY HeadKeeps DEF RunHead, LeaseInv
  <2>2. Keepalive
    BY <2>1
  <2>3. Overdue(c)
    BY <2>2 DEF Keepalive, NoShow, Overdue
  <2>4. ~Fresh(c)
    BY <2>3 DEF Fresh, Overdue
  <2> QED
    BY <2>4 DEF LeaseInv, LockInv
<1> QED
  BY <1>1, AlwaysLease, PTL DEF Spec, SweepsTheAbsent
===============================================================================
