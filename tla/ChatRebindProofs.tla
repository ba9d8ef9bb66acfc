--------------------------- MODULE ChatRebindProofs ---------------------------
(***************************************************************************)
(* What TLAPS proves of ChatRebind, for any number of messages, accounts,  *)
(* session files, crashes, retries and rebinds.  BookInv says which record *)
(* the runner works for, PlaceInv that what is held is the end of the log  *)
(* of posts, AccountInv how far label, files and process have got,         *)
(* DeliveryInv that nothing held arrives before the restart has landed.    *)
(* Each theorem names the races it excludes; all others may happen.        *)
(***************************************************************************)
EXTENDS ChatRebind, SequenceTheorems, FiniteSetTheorems, WellFoundedInduction, TLAPS

--------------------------------------------------------------------------------
\* Sequences of texts: distinct, an end of another, in the order of another.

\* No text occurs twice.
Distinct(s) == \A i, j \in 1 .. Len(s) : s[i] = s[j] => i = j

\* h is the end of l.
Ends(h, l) ==
    Len(h) <= Len(l) /\ \A i \in 1 .. Len(h) : h[i] = l[Len(l) - Len(h) + i]

\* What g has of l, g has in the order of l.
InOrder(g, l) ==
    \A i, j \in 1 .. Len(g) : i < j =>
        \A p, q \in 1 .. Len(l) : g[i] = l[p] /\ g[j] = l[q] => p <= q

\* A set of naturals that is not empty has a least member: the induction that the
\* filter of the held sends needs.
LEMMA Smallest ==
    ASSUME NEW D, D \subseteq Nat, D # {}
    PROVE  \E d \in D : \A k \in D : ~(k < d)
<1>1. IsWellFoundedOn(OpToRel(<, Nat), Nat)
  BY NatLessThanWellFounded
<1>2. \E d \in D : \A k \in D : ~(<<k, d>> \in OpToRel(<, Nat))
  BY <1>1, WFMin, Zenon
<1>3. PICK d \in D : \A k \in D : ~(<<k, d>> \in OpToRel(<, Nat))
  BY <1>2
<1> QED
  BY <1>3 DEF OpToRel

\* One step of the recursion in Without.
Filtered(s, x, f) ==
    [n \in 0 .. Len(s) |-> 
            IF n = 0 THEN <<>>
            ELSE IF s[n] = x THEN f[n - 1] ELSE Append(f[n - 1], s[n])]

\* Without is the only function that its recursion allows.
LEMMA WithoutUnique ==
    ASSUME NEW s, NEW x, Len(s) \in Nat, NEW g, g = Filtered(s, x, g)
    PROVE  Without(s, x) = g[Len(s)]
<1> DEFINE h == CHOOSE f : f = Filtered(s, x, f)
<1>1. Without(s, x) = h[Len(s)]
  BY DEF Without, Filtered
<1>2. h = Filtered(s, x, h)
  <2> HIDE DEF h
  <2>1. \E f : f = Filtered(s, x, f)
    OBVIOUS
  <2> QED BY <2>1 DEF h
<1> HIDE DEF h
<1>3. SUFFICES \A n \in 0 .. Len(s) : h[n] = g[n]
  BY <1>1
<1> DEFINE D == {n \in 0 .. Len(s) : h[n] # g[n]}
<1>4. ASSUME D # {} PROVE FALSE
  <2>1. PICK d \in D : \A k \in D : ~(k < d)
    <3>1. D \subseteq Nat
      OBVIOUS
    <3> HIDE DEF D
    <3> QED BY <1>4, <3>1, Smallest, Zenon
  <2>2. d # 0
    BY <1>2 DEF Filtered
  <2>3. d - 1 \in 0 .. Len(s) /\ h[d - 1] = g[d - 1]
    BY <2>1, <2>2
  <2>4. h[d] = g[d]
    BY <1>2, <2>2, <2>3 DEF Filtered
  <2> QED BY <2>1, <2>4
<1> QED BY <1>4

\* What is left of distinct sends without the first is their tail
\* (_take_next_held_send).
LEMMA WithoutHead ==
    ASSUME NEW S, NEW s \in Seq(S), s # <<>>, Distinct(s)
    PROVE  Without(s, Head(s)) = Tail(s)
<1> DEFINE g == [n \in 0 .. Len(s) |-> IF n = 0 THEN <<>> ELSE [i \in 1 .. (n - 1) |-> s[i + 1]]]
<1>1. g = Filtered(s, Head(s), g)
  <2>1. ASSUME NEW n \in 0 .. Len(s)
        PROVE  g[n] = Filtered(s, Head(s), g)[n]
    <3>1. CASE n = 0 BY <3>1 DEF Filtered
    <3>2. CASE n = 1 BY <3>2 DEF Filtered
    <3>3. CASE n > 1
      <4>1. s[n] # Head(s)
        BY <3>3 DEF Distinct
      <4>2. g[n - 1] = [i \in 1 .. (n - 2) |-> s[i + 1]]
        BY <3>3
      <4>3. Append(g[n - 1], s[n]) = [i \in 1 .. (n - 1) |-> s[i + 1]]
        <5>1. g[n - 1] \in Seq(S) /\ Len(g[n-1]) = n - 2
          BY <4>2, <3>3
        <5> QED BY <3>3, <4>2, <5>1
      <4> QED BY <3>3, <4>1, <4>3 DEF Filtered
    <3> QED BY <3>1, <3>2, <3>3
  <2> QED BY <2>1 DEF Filtered
<1>2. g[Len(s)] = Tail(s)
  <2>1. Len(s) \in Nat /\ Len(s) # 0
    OBVIOUS
  <2>2. g[Len(s)] = [i \in 1 .. (Len(s) - 1) |-> s[i + 1]]
    BY <2>1
  <2>3. Tail(s) \in Seq(S) /\ Len(Tail(s)) = Len(s) - 1
    OBVIOUS
  <2>4. \A i \in 1 .. (Len(s) - 1) : Tail(s)[i] = s[i + 1]
    OBVIOUS
  <2>5. Tail(s) = [i \in 1 .. (Len(s) - 1) |-> Tail(s)[i]]
    <3>1. Tail(s) \in [1 .. Len(s) - 1 -> S]
      BY <2>3, LenProperties
    <3> QED BY <3>1
  <2> QED BY <2>2, <2>4, <2>5, Zenon
<1> HIDE DEF g
<1> QED BY <1>1, <1>2, WithoutUnique

\* A sequence over a set has its elements in that set.
LEMMA ElemsIn ==
    ASSUME NEW S, NEW s \in Seq(S)
    PROVE  Elems(s) \subseteq S
BY DEF Elems

\* Appending what is new keeps a sequence distinct.
LEMMA AppendDistinct ==
    ASSUME NEW S, NEW s \in Seq(S), NEW e, e \notin S, Distinct(s)
    PROVE  Distinct(Append(s, e))
<1>1. s \in Seq(S \cup {e}) /\ e \in S \cup {e}
  BY SeqMonotonic
<1>2. \A i \in 1 .. Len(s) : s[i] # e
  BY ElementOfSeq
<1>3. /\ Len(Append(s, e)) = Len(s) + 1
      /\ \A i \in 1 .. Len(s) : Append(s, e)[i] = s[i]
      /\ Append(s, e)[Len(s) + 1] = e
  BY <1>1, AppendProperties
<1> QED BY <1>2, <1>3, LenProperties DEF Distinct

\* The tail of a distinct sequence is distinct.
LEMMA TailDistinct ==
    ASSUME NEW S, NEW s \in Seq(S), s # <<>>, Distinct(s)
    PROVE  Distinct(Tail(s))
BY HeadTailProperties, LenProperties DEF Distinct

\* The empty sequence is distinct.
LEMMA EmptyDistinct == Distinct(<<>>)
BY DEF Distinct

\* A sequence of one is distinct.
LEMMA OneDistinct == \A m : Distinct(<<m>>)
BY DEF Distinct

\* An element is at some position.
LEMMA ElemsAre ==
    ASSUME NEW S, NEW s \in Seq(S), NEW x
    PROVE  x \in Elems(s) <=> \E i \in 1 .. Len(s) : s[i] = x
BY DEF Elems

\* The empty sequence has no elements.
LEMMA ElemsOfEmpty == Elems(<<>>) = {}
BY DEF Elems

\* A sequence of one has one element.
LEMMA ElemsOfOne == \A x : Elems(<<x>>) = {x}
BY DEF Elems

\* Appending adds one element.
LEMMA ElemsOfAppend ==
    ASSUME NEW S, NEW s \in Seq(S), NEW x \in S
    PROVE  Elems(Append(s, x)) = Elems(s) \cup {x}
<1>1. /\ Len(s) \in Nat /\ Len(Append(s, x)) = Len(s) + 1
      /\ \A i \in 1 .. Len(s) : Append(s, x)[i] = s[i]
      /\ Append(s, x)[Len(s) + 1] = x
  BY AppendProperties, LenProperties
<1>2. ASSUME NEW y \in Elems(s) PROVE y \in Elems(Append(s, x))
  BY <1>1, <1>2 DEF Elems
<1>3. x \in Elems(Append(s, x))
  BY <1>1 DEF Elems
<1>4. ASSUME NEW y \in Elems(Append(s, x)) PROVE y \in Elems(s) \cup {x}
  <2>1. PICK i \in 1 .. Len(s) + 1 : y = Append(s, x)[i]
    BY <1>1, <1>4 DEF Elems
  <2>2. CASE i = Len(s) + 1
    BY <1>1, <2>1, <2>2
  <2>3. CASE i \in 1 .. Len(s)
    BY <1>1, <2>1, <2>3 DEF Elems
  <2> QED BY <1>1, <2>1, <2>2, <2>3
<1> QED BY <1>2, <1>3, <1>4

\* A concatenation has the elements of both.
LEMMA ElemsOfConcat ==
    ASSUME NEW S, NEW s \in Seq(S), NEW t \in Seq(S)
    PROVE  Elems(s \o t) = Elems(s) \cup Elems(t)
<1>1. /\ Len(s) \in Nat /\ Len(t) \in Nat /\ Len(s \o t) = Len(s) + Len(t)
      /\ \A i \in 1 .. Len(s) + Len(t) : (s \o t)[i] = IF i <= Len(s) THEN s[i] ELSE t[i - Len(s)]
  BY ConcatProperties, LenProperties
<1>2. ASSUME NEW y \in Elems(s) PROVE y \in Elems(s \o t)
  <2>1. PICK i \in 1 .. Len(s) : y = s[i]
    BY <1>2 DEF Elems
  <2> QED BY <1>1, <2>1 DEF Elems
<1>3. ASSUME NEW y \in Elems(t) PROVE y \in Elems(s \o t)
  <2>1. PICK i \in 1 .. Len(t) : y = t[i]
    BY <1>3 DEF Elems
  <2>2. y = (s \o t)[Len(s) + i] /\ Len(s) + i \in 1 .. Len(s \o t)
    BY <1>1, <2>1
  <2> QED BY <2>2 DEF Elems
<1>4. ASSUME NEW y \in Elems(s \o t) PROVE y \in Elems(s) \cup Elems(t)
  <2>1. PICK i \in 1 .. Len(s) + Len(t) : y = (s \o t)[i]
    BY <1>1, <1>4 DEF Elems
  <2>2. CASE i <= Len(s)
    BY <1>1, <2>1, <2>2 DEF Elems
  <2>3. CASE ~(i <= Len(s))
    <3>1. y = t[i - Len(s)] /\ i - Len(s) \in 1 .. Len(t)
      BY <1>1, <2>1, <2>3
    <3> QED BY <3>1 DEF Elems
  <2> QED BY <2>2, <2>3
<1> QED BY <1>2, <1>3, <1>4

\* The head of a distinct sequence is not in its tail, and the two are all of it.
LEMMA ElemsOfHeadTail ==
    ASSUME NEW S, NEW s \in Seq(S), s # <<>>, Distinct(s)
    PROVE  /\ Elems(s) = Elems(Tail(s)) \cup {Head(s)}
           /\ Head(s) \notin Elems(Tail(s))
<1>1. /\ Len(s) \in Nat \ {0} /\ Len(Tail(s)) = Len(s) - 1 /\ Head(s) = s[1]
      /\ \A i \in 1 .. Len(s) - 1 : Tail(s)[i] = s[i + 1]
  BY HeadTailProperties, LenProperties, EmptySeq
<1>2. ASSUME NEW y \in Elems(s), y # Head(s) PROVE y \in Elems(Tail(s))
  <2>1. PICK i \in 1 .. Len(s) : y = s[i]
    BY <1>2 DEF Elems
  <2>2. i - 1 \in 1 .. Len(Tail(s)) /\ y = Tail(s)[i - 1]
    BY <1>1, <1>2, <2>1
  <2> QED BY <2>2 DEF Elems
<1>3. ASSUME NEW y \in Elems(Tail(s)) PROVE y \in Elems(s) /\ y # Head(s)
  <2>1. PICK i \in 1 .. Len(s) - 1 : y = Tail(s)[i]
    BY <1>1, <1>3 DEF Elems
  <2>2. i + 1 \in 1 .. Len(s) /\ y = s[i + 1] /\ 1 \in 1 .. Len(s)
    BY <1>1, <2>1
  <2>3. y # s[1]
    BY <2>2, <2>1 DEF Distinct
  <2> QED BY <1>1, <2>2, <2>3 DEF Elems
<1>4. Head(s) \in Elems(s)
  BY <1>1 DEF Elems
<1> QED BY <1>2, <1>3, <1>4

\* Two distinct sequences with nothing in common are distinct together.
LEMMA DistinctConcat ==
    ASSUME NEW S, NEW s \in Seq(S), NEW t \in Seq(S), Distinct(s), Distinct(t),
           Elems(s) \cap Elems(t) = {}
    PROVE  Distinct(s \o t)
<1>1. /\ Len(s) \in Nat /\ Len(t) \in Nat /\ Len(s \o t) = Len(s) + Len(t)
      /\ \A i \in 1 .. Len(s) + Len(t) : (s \o t)[i] = IF i <= Len(s) THEN s[i] ELSE t[i - Len(s)]
  BY ConcatProperties, LenProperties
<1>2. \A i \in 1 .. Len(s), j \in 1 .. Len(t) : s[i] # t[j]
  BY DEF Elems
<1>3. SUFFICES ASSUME NEW i \in 1 .. Len(s) + Len(t), NEW j \in 1 .. Len(s) + Len(t),
                      (s \o t)[i] = (s \o t)[j]
               PROVE  i = j
  BY <1>1 DEF Distinct
<1>4. CASE i <= Len(s) /\ j <= Len(s)
  BY <1>1, <1>3, <1>4 DEF Distinct
<1>5. CASE ~(i <= Len(s)) /\ ~(j <= Len(s))
  <2>1. i - Len(s) \in 1 .. Len(t) /\ j - Len(s) \in 1 .. Len(t) /\ t[i - Len(s)] = t[j - Len(s)]
    BY <1>1, <1>3, <1>5
  <2>2. i - Len(s) = j - Len(s)
    BY <2>1 DEF Distinct
  <2> QED BY <1>1, <2>2
<1>6. CASE i <= Len(s) /\ ~(j <= Len(s))
  <2>1. s[i] = t[j - Len(s)] /\ i \in 1 .. Len(s) /\ j - Len(s) \in 1 .. Len(t)
    BY <1>1, <1>3, <1>6
  <2> QED BY <1>2, <2>1
<1>7. CASE ~(i <= Len(s)) /\ j <= Len(s)
  <2>1. s[j] = t[i - Len(s)] /\ j \in 1 .. Len(s) /\ i - Len(s) \in 1 .. Len(t)
    BY <1>1, <1>3, <1>7
  <2> QED BY <1>2, <2>1
<1> QED BY <1>4, <1>5, <1>6, <1>7

\* A sequence stays the end of another when the same text is appended to both.
LEMMA SuffixAppend ==
    ASSUME NEW S, NEW h \in Seq(S), NEW l \in Seq(S), NEW x \in S, Ends(h, l)
    PROVE  /\ Len(Append(h, x)) <= Len(Append(l, x))
           /\ Len(Append(l, x)) - Len(Append(h, x)) = Len(l) - Len(h)
           /\ Ends(Append(h, x), Append(l, x))
<1> DEFINE hx == Append(h, x)
           lx == Append(l, x)
<1>1. /\ Len(h) \in Nat /\ Len(hx) = Len(h) + 1 /\ hx[Len(h) + 1] = x
      /\ \A i \in 1 .. Len(h) : hx[i] = h[i]
  BY AppendProperties, LenProperties
<1>2. /\ Len(l) \in Nat /\ Len(lx) = Len(l) + 1 /\ lx[Len(l) + 1] = x
      /\ \A i \in 1 .. Len(l) : lx[i] = l[i]
  BY AppendProperties, LenProperties
<1> HIDE DEF hx, lx
<1>3. Len(lx) - Len(hx) = Len(l) - Len(h) /\ Len(hx) <= Len(lx)
  BY <1>1, <1>2 DEF Ends
<1>4. ASSUME NEW i \in 1 .. Len(h) PROVE hx[i] = lx[Len(l) - Len(h) + i]
  <2>1. Len(l) - Len(h) + i \in 1 .. Len(l)
    BY <1>1, <1>2 DEF Ends
  <2> QED BY <1>1, <1>2, <2>1 DEF Ends
<1>5. Len(l) - Len(h) + (Len(h) + 1) = Len(l) + 1
  BY <1>1, <1>2
<1>6. \A i \in 1 .. Len(hx) : hx[i] = lx[Len(l) - Len(h) + i]
  <2> SUFFICES ASSUME NEW i \in 1 .. Len(hx) PROVE hx[i] = lx[Len(l) - Len(h) + i]
    OBVIOUS
  <2>1. CASE i \in 1 .. Len(h)
    BY <1>4, <2>1
  <2>2. CASE i = Len(h) + 1
    BY <1>1, <1>2, <1>5, <2>2
  <2> QED BY <1>1, <2>1, <2>2
<1> QED BY <1>3, <1>6 DEF hx, lx, Ends

\* A prefix of what is in order is in order.
LEMMA OrderOfPrefix ==
    ASSUME NEW S, NEW s \in Seq(S), NEW t \in Seq(S), NEW l, InOrder(s \o t, l)
    PROVE  InOrder(s, l)
<1>1. /\ Len(s) \in Nat /\ Len(t) \in Nat /\ Len(s \o t) = Len(s) + Len(t)
      /\ \A i \in 1 .. Len(s) : i \in 1 .. Len(s) + Len(t) /\ (s \o t)[i] = s[i]
  BY ConcatProperties, LenProperties
<1> QED BY <1>1 DEF InOrder

\* Appending what is not before the rest keeps the order.
LEMMA OrderOfAppend ==
    ASSUME NEW S, NEW g \in Seq(S), NEW l \in Seq(S), NEW x \in S, InOrder(g, l),
           \A i \in 1 .. Len(g), p, q \in 1 .. Len(l) : g[i] = l[p] /\ x = l[q] => p <= q
    PROVE  InOrder(Append(g, x), l)
<1> DEFINE h == Append(g, x)
<1>1. /\ Len(g) \in Nat /\ Len(h) = Len(g) + 1 /\ h[Len(g) + 1] = x
      /\ \A i \in 1 .. Len(g) : h[i] = g[i]
  BY AppendProperties, LenProperties
<1>0. SUFFICES InOrder(h, l)
  OBVIOUS
<1> HIDE DEF h
<1>2. SUFFICES ASSUME NEW i \in 1 .. Len(g) + 1, NEW j \in 1 .. Len(g) + 1, i < j,
                      NEW p \in 1 .. Len(l), NEW q \in 1 .. Len(l),
                      h[i] = l[p], h[j] = l[q]
               PROVE  p <= q
  BY <1>1 DEF InOrder
<1>3. i \in 1 .. Len(g) /\ g[i] = l[p]
  BY <1>1, <1>2
<1>4. CASE j \in 1 .. Len(g)
  <2>1. g[j] = l[q]
    BY <1>1, <1>2, <1>4
  <2> QED BY <1>2, <1>3, <1>4, <2>1 DEF InOrder
<1>5. CASE j = Len(g) + 1
  <2>1. x = l[q]
    BY <1>1, <1>2, <1>5
  <2> QED BY <1>3, <2>1
<1>6. j \in 1 .. Len(g) \/ j = Len(g) + 1
  BY LenProperties
<1> QED BY <1>4, <1>5, <1>6

\* The order does not change when the log grows by a text that is not there.
LEMMA OrderInAppended ==
    ASSUME NEW S, NEW g \in Seq(S), NEW l \in Seq(S), NEW x \in S, InOrder(g, l),
           x \notin Elems(g)
    PROVE  InOrder(g, Append(l, x))
<1>1. /\ Len(l) \in Nat /\ Len(Append(l, x)) = Len(l) + 1 /\ Append(l, x)[Len(l) + 1] = x
      /\ \A i \in 1 .. Len(l) : Append(l, x)[i] = l[i]
  BY AppendProperties, LenProperties
<1>2. \A i \in 1 .. Len(g) : g[i] # x
  BY DEF Elems
<1>3. SUFFICES ASSUME NEW i \in 1 .. Len(g), NEW j \in 1 .. Len(g), i < j,
                      NEW p \in 1 .. Len(Append(l, x)), NEW q \in 1 .. Len(Append(l, x)),
                      g[i] = Append(l, x)[p], g[j] = Append(l, x)[q]
               PROVE  p <= q
  BY DEF InOrder
<1>4. p \in 1 .. Len(l) /\ q \in 1 .. Len(l) /\ g[i] = l[p] /\ g[j] = l[q]
  BY <1>1, <1>2, <1>3
<1> QED BY <1>3, <1>4 DEF InOrder

\* Nothing of a new log is there yet, so nothing is out of order.
LEMMA OrderInNew ==
    ASSUME NEW g, NEW x, x \notin Elems(g)
    PROVE  InOrder(g, <<x>>)
<1>1. \A i \in 1 .. Len(g) : g[i] # x
  BY DEF Elems
<1> QED BY <1>1 DEF InOrder

\* With the held sends the end of the log, the text just before them is the next in
\* order.
LEMMA OrderOfDelivered ==
    ASSUME NEW S, NEW g \in Seq(S), NEW l \in Seq(S), NEW h \in Seq(S), InOrder(g, l),
           Ends(h, l), Distinct(l), Len(l) - Len(h) >= 1, Elems(g) \cap Elems(h) = {}
    PROVE  InOrder(Append(g, l[Len(l) - Len(h)]), l)
<1> DEFINE k == Len(l) - Len(h)
<1>1. Len(l) \in Nat /\ Len(h) \in Nat /\ k \in 1 .. Len(l) /\ l[k] \in S
  <2>1. Len(l) \in Nat /\ Len(h) \in Nat /\ k \in 1 .. Len(l)
    BY LenProperties DEF Ends
  <2> QED BY <2>1, ElementOfSeq
<1>2. \A p \in 1 .. Len(l) : p > k => p - k \in 1 .. Len(h) /\ h[p - k] = l[p]
  <2> SUFFICES ASSUME NEW p \in 1 .. Len(l), p > k
               PROVE  p - k \in 1 .. Len(h) /\ h[p - k] = l[p]
    OBVIOUS
  <2>1. p - k \in 1 .. Len(h) /\ k + (p - k) = p
    BY <1>1
  <2>2. h[p - k] = l[k + (p - k)]
    BY <2>1 DEF Ends
  <2> QED BY <2>1, <2>2
<1>3. ASSUME NEW i \in 1 .. Len(g), NEW p \in 1 .. Len(l), NEW q \in 1 .. Len(l),
             g[i] = l[p], l[k] = l[q]
      PROVE  p <= q
  <2>1. q = k
    BY <1>1, <1>3 DEF Distinct
  <2>2. ~(p > k)
    <3>1. ASSUME p > k PROVE FALSE
      <4>1. g[i] \in Elems(h)
        BY <1>2, <1>3, <3>1 DEF Elems
      <4>2. g[i] \in Elems(g)
        BY DEF Elems
      <4> QED BY <4>1, <4>2
    <3> QED BY <3>1
  <2> QED BY <1>1, <2>1, <2>2
<1> HIDE DEF k
<1>4. InOrder(Append(g, l[k]), l)
  BY <1>1, <1>3, OrderOfAppend
<1> QED BY <1>4 DEF k

--------------------------------------------------------------------------------
\* The types, and who works for which record.

\* The ends of the chat: the agent goes first, the record after.
EndInv ==
    /\ doomed <=> proc = "gone"
    /\ destroyed => doomed /\ ~Converging

\* A record with no rebind is empty, and one that has it names a target.
RecordInv ==
    /\ rebind.id = 0 <=> ~Converging
    /\ ~Converging => rebind = NoRebind
    /\ Converging => rebind.target \in Accounts
    /\ rebind.id <= begun

\* The runner works for the rebind on the record, and the record has the phase of its
\* step, until the chat is destroyed.
RunnerInv ==
    /\ ~At("idle") => pc.id # 0
    /\ ~At("idle") /\ ~destroyed => rebind.id = pc.id
    /\ pc.step \in {"drain", "drained"} /\ ~destroyed => rebind.phase = "draining"
    /\ pc.step \notin {"idle", "drain", "drained"} /\ ~destroyed => rebind.phase = "restarting"

\* The runner has a text in hand only while it delivers one, and a block only while it
\* drains.
HandInv ==
    /\ At("send") <=> hand # Nothing
    /\ block # <<>> => At("drained")

\* Nothing is held twice.
HeldInv == Distinct(rebind.held)

\* The records of a rebind.
Rebinds ==            [id : 0 .. MaxRebinds, phase : {"none", "draining", "restarting", "failed"},
                   target : Maybe(Accounts), trigger : Maybe(Messages), held : Seq(Messages),
                   files : Maybe(Accounts), landed : Maybe(Accounts), pick : BOOLEAN,
                   pickDone : BOOLEAN]
RecordType ==
    /\ rebind \in Rebinds
    /\ entry \in Maybe(Accounts)
AppType ==
    /\ seen \in {"untracked", "up", "down"} /\ named \in Accounts
    /\ watcher \in Maybe(Accounts) /\ reading \in Maybe(Accounts)
ThreadType ==
    /\ pc \in [step : Steps, id : 0 .. MaxRebinds] /\ ranOn \in Maybe(Accounts)
    /\ asked \in BOOLEAN
AgentType ==
    /\ proc \in {"gone", "up", "down"} /\ runsOn \in Accounts /\ env \in Accounts
    /\ label \in Accounts /\ fileAt \in [Files -> Accounts] /\ picked \in 0 .. MaxRebinds
CountType ==
    /\ doomed \in BOOLEAN /\ destroyed \in BOOLEAN
    /\ begun \in 0 .. MaxRebinds /\ crashes \in 0 .. MaxCrashes
    /\ retries \in 0 .. MaxRetries /\ faults \in 0 .. MaxFaults

\* Every text anywhere is one that was posted.
HeldPosted == rebind.held \in Seq(posts)
BlockPosted == block \in Seq(posts) /\ hand \in Maybe(posts)
AgentPosted == turns \in Seq(posts) /\ inbox \in Seq(posts)
OthersPosted ==
    /\ flight \subseteq posts /\ composer \subseteq posts /\ log \in Seq(posts)
    /\ posts \subseteq Messages /\ refused \subseteq Messages /\ cut \subseteq Messages

\* The types, and the bookkeeping that the rest stands on.
BookInv ==
    /\ RecordType /\ AppType /\ ThreadType /\ AgentType /\ CountType
    /\ EndInv /\ RecordInv /\ RunnerInv /\ HandInv /\ HeldInv
    /\ HeldPosted /\ BlockPosted /\ AgentPosted /\ OthersPosted

\* The writes to the record keep its type.
LEMMA RecordSet ==
    ASSUME RecordType, NEW a \in Maybe(Accounts), NEW s \in Seq(Messages)
    PROVE  /\ [rebind EXCEPT !.files = a] \in Rebinds
        /\ [rebind EXCEPT !.landed = a] \in Rebinds
        /\ [rebind EXCEPT !.held = s] \in Rebinds
        /\ [rebind EXCEPT !.phase = "failed"] \in Rebinds
        /\ rebind.files \in Maybe(Accounts)
        /\ rebind.target \in Maybe(Accounts)
        /\ rebind.held \in Seq(Messages)
BY DEF RecordType, Rebinds

\* A send that the record holds keeps the record and the texts in order (BookInv).
LEMMA BookHoldSend ==
    ASSUME BookInv, NEW m \in Messages, HoldSend(m)
    PROVE  BookInv'
<1> USE RebindAssumption DEF BookInv
<1>1. AppType' /\ ThreadType' /\ AgentType' /\ CountType' /\ HandInv'
  BY DEF HoldSend, AppType, ThreadType, AgentType, CountType, HandInv, At, Steps, appVars,
         threadVars, agentVars, endVars, countVars
<1>2. RecordType'
  <2>1. Append(rebind.held, m) \in Seq(Messages)
    BY DEF RecordType, Rebinds
  <2> QED BY <2>1, RecordSet DEF HoldSend, RecordType
<1>3. EndInv'
  BY DEF EndInv, HoldSend, agentVars, endVars
<1>4. RecordInv'
  BY DEF RecordInv, HoldSend, Converging, countVars
<1>5. RunnerInv'
  BY DEF RunnerInv, HoldSend, At, threadVars, endVars
<1>6. HeldInv'
  <2>1. rebind'.held = Append(rebind.held, m) /\ m \notin posts
    BY DEF RecordType, Rebinds, HoldSend
  <2> QED BY <2>1, AppendDistinct DEF HeldInv, HeldPosted
<1>7. HeldPosted'
  BY DEF HeldPosted, HoldSend
<1>8. BlockPosted'
  BY DEF BlockPosted, HoldSend, Maybe, threadVars
<1>9. AgentPosted'
  BY DEF AgentPosted, HoldSend, agentVars
<1>10. OthersPosted'
  <2>1. log \in Seq(posts') /\ m \in posts'
    BY SeqMonotonic DEF HoldSend, OthersPosted
  <2>2. log' \in Seq(posts')
    BY <2>1, AppendProperties DEF HoldSend
  <2> QED BY <2>2
             DEF OthersPosted, HoldSend, HandInv, At, BlockPosted, AgentPosted, RecordType,
                 recordVars, appVars, threadVars, agentVars, textVars, endVars, countVars
<1> QED BY <1>1, <1>2, <1>3, <1>4, <1>5, <1>6, <1>7, <1>8, <1>9, <1>10

\* A send that leaves the composer for the agent keeps the record and the texts in
\* order (BookInv).
LEMMA BookResolveSend ==
    ASSUME BookInv, NEW m \in Messages, ResolveSend(m)
    PROVE  BookInv'
<1> USE RebindAssumption DEF BookInv
<1>1. /\ RecordType' /\ AppType' /\ ThreadType' /\ AgentType' /\ CountType' /\ EndInv'
      /\ RecordInv' /\ RunnerInv' /\ HandInv' /\ HeldInv'
  BY DEF ResolveSend, RecordType, AppType, ThreadType, AgentType, CountType, EndInv, RecordInv,
         RunnerInv, HandInv, HeldInv, At, Converging, Steps, recordVars, threadVars, agentVars,
         endVars, countVars
<1>2. HeldPosted'
  BY DEF HeldPosted, ResolveSend, recordVars
<1>3. BlockPosted'
  BY DEF BlockPosted, ResolveSend, Maybe, threadVars
<1>4. AgentPosted'
  BY DEF AgentPosted, ResolveSend, agentVars
<1>5. OthersPosted'
  BY DEF OthersPosted, ResolveSend
<1> QED BY <1>1, <1>2, <1>3, <1>4, <1>5

\* A send that reaches its agent, or is refused keeps the record and the texts in order
\* (BookInv).
LEMMA BookSendLands ==
    ASSUME BookInv, NEW m \in Messages, SendLands(m)
    PROVE  BookInv'
<1> USE RebindAssumption DEF BookInv
<1>1. /\ RecordType' /\ ThreadType' /\ CountType' /\ RecordInv' /\ RunnerInv' /\ HandInv'
      /\ HeldInv' /\ HeldPosted' /\ BlockPosted'
  BY DEF SendLands, RecordType, ThreadType, CountType, RecordInv, RunnerInv, HandInv, HeldInv,
         HeldPosted, BlockPosted, At, Converging, Steps, recordVars, threadVars, endVars,
         countVars
<1>2. AppType'
  BY DEF AppType, SendLands, Reaches
<1>3. AgentType'
  BY DEF AgentType, SendLands, Reaches, Started
<1>4. EndInv'
  BY DEF EndInv, SendLands, Reaches, Started, Converging, recordVars, endVars
<1>5. AgentPosted'
  <2>1. m \in posts /\ posts' = posts /\ turns' = turns
    BY DEF SendLands, OthersPosted, textVars
  <2>2. inbox' = inbox \/ inbox' = Append(inbox, m)
    BY DEF SendLands, Reaches
  <2> QED BY <2>1, <2>2, AppendProperties DEF AgentPosted
<1>6. OthersPosted'
  BY DEF OthersPosted, SendLands
<1> QED BY <1>1, <1>2, <1>3, <1>4, <1>5, <1>6

\* A page that reads the binding keeps the record and the texts in order (BookInv).
LEMMA BookReadBinding ==
    ASSUME BookInv, ReadBinding
    PROVE  BookInv'
<1> USE RebindAssumption DEF BookInv
<1>1. /\ RecordType' /\ ThreadType' /\ AgentType' /\ CountType' /\ EndInv' /\ RecordInv'
      /\ RunnerInv' /\ HandInv' /\ HeldInv' /\ HeldPosted' /\ BlockPosted' /\ AgentPosted'
      /\ OthersPosted'
  BY DEF ReadBinding, RecordType, ThreadType, AgentType, CountType, EndInv, RecordInv, RunnerInv,
         HandInv, HeldInv, HeldPosted, BlockPosted, AgentPosted, OthersPosted, At, Converging,
         Steps, recordVars, threadVars, agentVars, textVars, endVars, countVars
<1>2. AppType'
  BY DEF AppType, ReadBinding, Maybe, EndInv, RecordType, AgentType
<1> QED BY <1>1, <1>2

\* A watcher built on the binding read keeps the record and the texts in order
\* (BookInv).
LEMMA BookBuildWatcher ==
    ASSUME BookInv, BuildWatcher
    PROVE  BookInv'
<1> USE RebindAssumption DEF BookInv
<1>1. /\ RecordType' /\ ThreadType' /\ AgentType' /\ CountType' /\ EndInv' /\ RecordInv'
      /\ RunnerInv' /\ HandInv' /\ HeldInv' /\ HeldPosted' /\ BlockPosted' /\ AgentPosted'
      /\ OthersPosted'
  BY DEF BuildWatcher, RecordType, ThreadType, AgentType, CountType, EndInv, RecordInv, RunnerInv,
         HandInv, HeldInv, HeldPosted, BlockPosted, AgentPosted, OthersPosted, At, Converging,
         Steps, recordVars, threadVars, agentVars, textVars, endVars, countVars
<1>2. AppType'
  BY DEF AppType, BuildWatcher, Maybe
<1> QED BY <1>1, <1>2

\* A rebind that begins keeps the record and the texts in order (BookInv).
LEMMA BookBeginRebind ==
    ASSUME BookInv, NEW to \in Accounts, NEW m \in Messages, NEW k \in BOOLEAN,
           BeginRebind(to, m, k)
    PROVE  BookInv'
<1> USE RebindAssumption DEF BookInv
<1>1. AppType' /\ AgentType'
  BY DEF BeginRebind, AppType, AgentType, appVars, agentVars
<1>2. RecordType'
  <2>1. <<m>> \in Seq(Messages) /\ begun + 1 \in 0 .. MaxRebinds
    BY DEF BeginRebind, CountType
  <2>2. rebind' = [id |-> begun + 1, phase |-> "draining", target |-> to, trigger |-> m,
                   held |-> <<m>>, files |-> Nothing, landed |-> Nothing, pick |-> k,
                   pickDone |-> FALSE]
    BY DEF BeginRebind, Opened, NoRebind
  <2>3. rebind' \in Rebinds
    BY <2>1, <2>2 DEF Rebinds, Maybe
  <2> QED BY <2>3 DEF RecordType, Maybe, BeginRebind, AppType
<1>3. ThreadType'
  BY DEF ThreadType, BeginRebind, Maybe, Steps, At, Live, Goto, RecordType, CountType, AgentType,
         agentVars, Rebinds
<1>4. CountType'
  BY DEF CountType, BeginRebind, endVars
<1>5. EndInv'
  BY DEF EndInv, BeginRebind, agentVars, endVars
<1>6. RecordInv'
  BY DEF RecordInv, BeginRebind, Opened, NoRebind, RecordType, CountType, ThreadType, Converging,
         At, Live, Goto, RunnerInv
<1>7. RunnerInv'
  <2>1. pc' = [step |-> "drain", id |-> begun + 1] /\ begun \in Nat
    BY DEF BeginRebind, CountType
  <2>2. rebind'.id = begun + 1 /\ rebind'.phase = "draining"
    BY DEF BeginRebind, Opened, NoRebind
  <2> QED BY <2>1, <2>2 DEF RunnerInv, At
<1>8. HandInv'
  <2>1. pc' = [step |-> "drain", id |-> begun + 1] /\ hand' = hand /\ block' = block
    BY DEF BeginRebind
  <2>2. pc.step # "idle" => pc.id # 0
    BY DEF RunnerInv, At
  <2>3. ~At("send") /\ ~At("drained")
    BY DEF BeginRebind, RunnerInv, RecordInv, At, EndInv
  <2> QED BY <2>1, <2>3 DEF HandInv, At
<1>9. HeldInv'
  <2>1. rebind'.held = <<m>>
    BY DEF BeginRebind, Opened, NoRebind
  <2> QED BY <2>1, OneDistinct DEF HeldInv
<1>10. HeldPosted'
  BY DEF HeldPosted, BeginRebind, Opened
<1>11. BlockPosted'
  BY DEF BlockPosted, BeginRebind, Maybe
<1>12. AgentPosted'
  BY DEF AgentPosted, BeginRebind, agentVars
<1>13. OthersPosted'
  BY DEF OthersPosted, BeginRebind, appVars
<1> QED BY <1>1, <1>2, <1>3, <1>4, <1>5, <1>6, <1>7, <1>8, <1>9, <1>10, <1>11, <1>12, <1>13

\* A retry of a failed rebind keeps the record and the texts in order (BookInv).
LEMMA BookRetryRebind ==
    ASSUME BookInv, NEW to \in Accounts, RetryRebind(to)
    PROVE  BookInv'
<1> USE RebindAssumption DEF BookInv
<1>1. AppType' /\ AgentType' /\ BlockPosted' /\ AgentPosted' /\ OthersPosted'
  BY DEF RetryRebind, AppType, AgentType, BlockPosted, AgentPosted, OthersPosted, appVars,
         agentVars, textVars
<1>2. RecordType'
  BY DEF RecordType, RetryRebind, Rebinds, Maybe, At, Live, Goto, Converging, RecordInv,
         RunnerInv, ThreadType, AppType, CountType, recordVars, appVars, threadVars, agentVars,
         textVars, endVars, countVars
<1>3. ThreadType'
  BY DEF ThreadType, RetryRebind, Steps, At, Live, Goto, RecordType, CountType, AgentType,
         agentVars, Rebinds
<1>4. CountType'
  BY DEF CountType, RetryRebind, endVars
<1>5. EndInv'
  BY DEF EndInv, RetryRebind, agentVars, endVars
<1>6. RecordInv'
  BY DEF RecordInv, RetryRebind, Converging
<1>7. RunnerInv'
  BY DEF RunnerInv, RetryRebind, RecordInv, Converging, endVars
<1>8. HandInv'
  <2>1. pc' = [step |-> "restart", id |-> rebind.id] /\ hand' = hand /\ block' = block
    BY DEF RetryRebind
  <2>3. ~At("send") /\ ~At("drained")
    BY DEF RetryRebind, RunnerInv, At
  <2> QED BY <2>1, <2>3 DEF HandInv, At
<1>9. HeldInv'
  BY DEF HeldInv, RetryRebind
<1>10. HeldPosted'
  BY DEF HeldPosted, RetryRebind, textVars
<1> QED BY <1>1, <1>2, <1>3, <1>4, <1>5, <1>6, <1>7, <1>8, <1>9, <1>10

\* A drain whose turn is stopped keeps the record and the texts in order (BookInv).
LEMMA BookStopped ==
    ASSUME BookInv, Stopped
    PROVE  BookInv'
<1> USE RebindAssumption DEF BookInv
<1>1. /\ RecordType' /\ AppType' /\ AgentType' /\ CountType' /\ EndInv' /\ RecordInv' /\ HeldInv'
      /\ HeldPosted' /\ BlockPosted' /\ AgentPosted' /\ OthersPosted'
  BY DEF Stopped, RecordType, AppType, AgentType, CountType, EndInv, RecordInv, HeldInv,
         HeldPosted, BlockPosted, AgentPosted, OthersPosted, Converging, recordVars, appVars,
         agentVars, textVars, endVars, countVars
<1>2. ThreadType'
  BY DEF ThreadType, Stopped, Steps, Goto, agentVars
<1>3. RunnerInv'
  BY DEF RunnerInv, Stopped, At, Goto, recordVars, endVars
<1>4. HandInv'
  BY DEF HandInv, Stopped, At, Goto
<1> QED BY <1>1, <1>2, <1>3, <1>4

\* The drain's look at the agent keeps the record and the texts in order (BookInv).
LEMMA BookDrain ==
    ASSUME BookInv, Drain
    PROVE  BookInv'
<1> USE RebindAssumption DEF BookInv
<1>1. /\ RecordType' /\ AppType' /\ AgentType' /\ CountType' /\ EndInv' /\ RecordInv' /\ HeldInv'
      /\ HeldPosted' /\ OthersPosted'
  BY DEF Drain, RecordType, AppType, AgentType, CountType, EndInv, RecordInv, HeldInv, HeldPosted,
         OthersPosted, Converging, recordVars, appVars, textVars, endVars, countVars
<1>2. ThreadType'
  BY DEF ThreadType, Drain, Steps, At, Live, Goto
<1>3. RunnerInv'
  BY DEF RunnerInv, Drain, At, Live, Goto, recordVars, endVars
<1>4. HandInv'
  BY DEF HandInv, Drain, At, Live, Goto
<1>5. BlockPosted'
  BY DEF BlockPosted, Drain, AgentPosted, textVars
<1>6. AgentPosted'
  BY EmptySeq DEF AgentPosted, Drain, textVars
<1> QED BY <1>1, <1>2, <1>3, <1>4, <1>5, <1>6

\* The end of the drain keeps the record and the texts in order (BookInv).
LEMMA BookDrained ==
    ASSUME BookInv, Drained
    PROVE  BookInv'
<1> USE RebindAssumption DEF BookInv
<1>1. AppType' /\ AgentType' /\ AgentPosted'
  BY DEF Drained, AppType, AgentType, AgentPosted, appVars, agentVars
<1>2. RecordType'
  BY DEF RecordType, Drained, Rebinds
<1>3. ThreadType'
  BY DEF ThreadType, Drained, Fault, Maybe, Steps, At, Live, Goto, RecordType, CountType,
         AgentType, recordVars, appVars, threadVars, agentVars, textVars, endVars, countVars,
         Rebinds
<1>4. CountType'
  BY DEF CountType, Drained, Fault, endVars
<1>5. EndInv'
  BY DEF EndInv, Drained, Fault, RecordInv, Converging, At, RunnerInv, agentVars, endVars
<1>6. RecordInv'
  BY DEF RecordInv, Drained, RecordType, CountType, ThreadType, Converging, At, Live, Goto,
         RunnerInv, Rebinds
<1>7. RunnerInv'
  BY DEF RunnerInv, Drained, RecordType, ThreadType, Steps, At, Live, Goto, EndInv, RecordInv,
         Converging, endVars, Rebinds
<1>8. HandInv'
  BY DEF HandInv, Drained, At, Live, Goto, RecordType, ThreadType, HeldPosted, BlockPosted, Steps,
         Rebinds
<1>9. HeldInv'
  BY DEF HeldInv, Drained, RecordType, HeldPosted, Rebinds
<1>10. HeldPosted'
  BY DEF HeldPosted, Drained, RecordType, Rebinds
<1>11. BlockPosted'
  BY DEF BlockPosted, Drained
<1>12. OthersPosted'
  <2>1. posts \subseteq Messages /\ Elems(block) \subseteq posts
    BY ElemsIn DEF OthersPosted, BlockPosted
  <2>2. composer' \subseteq posts /\ cut' \subseteq Messages
    BY <2>1 DEF Drained, OthersPosted
  <2> QED BY <2>2 DEF OthersPosted, Drained, appVars
<1> QED BY <1>1, <1>2, <1>3, <1>4, <1>5, <1>6, <1>7, <1>8, <1>9, <1>10, <1>11, <1>12

\* The record's way into the restart keeps the record and the texts in order (BookInv).
LEMMA BookRestart ==
    ASSUME BookInv, Restart
    PROVE  BookInv'
<1> USE RebindAssumption DEF BookInv
<1>1. AppType' /\ AgentType' /\ BlockPosted' /\ AgentPosted' /\ OthersPosted'
  BY DEF Restart, AppType, AgentType, BlockPosted, AgentPosted, OthersPosted, appVars, agentVars,
         textVars
<1>2. RecordType'
  BY DEF RecordType, Restart, FailStep, Fault, HasLanded, Rebinds, Maybe, At, Live, Goto
<1>3. ThreadType'
  BY DEF ThreadType, Restart, FailStep, Fault, HasLanded, Maybe, Steps, At, Live, Goto,
         RecordType, CountType, AgentType, agentVars
<1>4. CountType'
  BY DEF CountType, Restart, Fault, HasLanded, endVars
<1>5. EndInv'
  BY DEF EndInv, Restart, HasLanded, RecordInv, Converging, At, Live, RunnerInv, agentVars,
         endVars
<1>6. RecordInv'
  BY DEF RecordInv, Restart, FailStep, Fault, HasLanded, RecordType, CountType, ThreadType,
         Converging, At, Live, Goto, RunnerInv, Rebinds
<1>7. RunnerInv'
  BY DEF RunnerInv, Restart, FailStep, Fault, HasLanded, RecordType, ThreadType, Steps, At, Live,
         Goto, EndInv, RecordInv, Converging, endVars, Rebinds
<1>8. HandInv'
  BY DEF HandInv, Restart, FailStep, Fault, HasLanded, At, Live, Goto, RecordType, ThreadType,
         HeldPosted, BlockPosted, Steps, Rebinds
<1>9. HeldInv'
  BY DEF HeldInv, Restart, FailStep, Fault, HasLanded, RecordType, HeldPosted, Rebinds
<1>10. HeldPosted'
  BY DEF HeldPosted, Restart, FailStep, Fault, HasLanded, RecordType, textVars, Rebinds
<1> QED BY <1>1, <1>2, <1>3, <1>4, <1>5, <1>6, <1>7, <1>8, <1>9, <1>10

\* The stop of the agent keeps the record and the texts in order (BookInv).
LEMMA BookStopAgent ==
    ASSUME BookInv, StopAgent
    PROVE  BookInv'
<1> USE RebindAssumption DEF BookInv
<1>1. BlockPosted'
  BY DEF StopAgent, BlockPosted
<1>2. RecordType'
  BY DEF RecordType, StopAgent, FailStep, Fault, Refused, Rebinds, Maybe, At, Live, Goto
<1>3. AppType'
  BY DEF AppType, StopAgent
<1>4. ThreadType'
  BY DEF ThreadType, StopAgent, FailStep, Fault, Steps, At, Live, Goto
<1>5. AgentType'
  BY DEF AgentType, StopAgent, Live
<1>6. CountType'
  BY DEF CountType, StopAgent, Fault, Refused, endVars
<1>7. EndInv'
  BY DEF EndInv, StopAgent, RecordInv, Converging, At, Live, RunnerInv, endVars
<1>8. RecordInv'
  BY DEF RecordInv, StopAgent, FailStep, Fault, Refused, RecordType, CountType, ThreadType,
         Converging, At, Live, Goto, RunnerInv, Rebinds
<1>9. RunnerInv'
  BY DEF RunnerInv, StopAgent, FailStep, Fault, Refused, RecordType, ThreadType, Steps, At, Live,
         Goto, EndInv, RecordInv, Converging, endVars, Rebinds
<1>10. HandInv'
  BY DEF HandInv, StopAgent, FailStep, Fault, Refused, At, Live, Goto, RecordType, ThreadType,
         HeldPosted, BlockPosted, Steps, Rebinds
<1>11. HeldInv'
  BY DEF HeldInv, StopAgent, FailStep, Fault, Refused, RecordType, HeldPosted, Rebinds
<1>12. HeldPosted'
  BY DEF HeldPosted, StopAgent, FailStep, Fault, Refused, RecordType, Rebinds
<1>13. AgentPosted'
  BY EmptySeq DEF AgentPosted, StopAgent
<1>14. OthersPosted'
  BY ElemsIn DEF OthersPosted, AgentPosted, StopAgent
<1> QED BY <1>1, <1>2, <1>3, <1>4, <1>5, <1>6, <1>7, <1>8, <1>9, <1>10, <1>11, <1>12, <1>13, <1>14

\* The note of where the files are keeps the record and the texts in order (BookInv).
LEMMA BookRecordWhere ==
    ASSUME BookInv, RecordWhere
    PROVE  BookInv'
<1> USE RebindAssumption DEF BookInv
<1>1. AppType' /\ AgentType' /\ BlockPosted' /\ AgentPosted' /\ OthersPosted'
  BY DEF RecordWhere, AppType, AgentType, BlockPosted, AgentPosted, OthersPosted, appVars,
         agentVars, textVars
<1>2. RecordType'
  <2>1. CASE rebind' = [rebind EXCEPT !.files = IF @ = Nothing THEN ranOn ELSE @]
    <3>1. (IF rebind.files = Nothing THEN ranOn ELSE rebind.files) \in Maybe(Accounts)
      BY DEF RecordType, ThreadType, Rebinds
    <3>2. rebind' = [rebind EXCEPT !.files = (IF rebind.files = Nothing THEN ranOn ELSE rebind.files)]
      BY <2>1
    <3>3. rebind' \in Rebinds
      BY <3>1, <3>2 DEF RecordType, Rebinds
    <3> QED BY <3>3, <2>1 DEF RecordType, RecordWhere
  <2>2. CASE FailStep /\ entry' = entry
    BY <2>2 DEF FailStep, RecordType, Rebinds
  <2> QED BY <2>1, <2>2 DEF RecordWhere
<1>3. ThreadType'
  BY DEF ThreadType, RecordWhere, FailStep, Fault, Maybe, Steps, At, Live, Goto, agentVars
<1>4. CountType'
  BY DEF CountType, RecordWhere, Fault, endVars
<1>5. EndInv'
  BY DEF EndInv, RecordWhere, RecordInv, Converging, At, Live, RunnerInv, agentVars, endVars
<1>6. RecordInv'
  BY DEF RecordInv, RecordWhere, FailStep, Fault, RecordType, CountType, ThreadType, Converging,
         At, Live, Goto, RunnerInv, Rebinds
<1>7. RunnerInv'
  BY DEF RunnerInv, RecordWhere, FailStep, Fault, RecordType, ThreadType, Steps, At, Live, Goto,
         EndInv, RecordInv, Converging, endVars, Rebinds
<1>8. HandInv'
  BY DEF HandInv, RecordWhere, FailStep, Fault, At, Live, Goto, RecordType, ThreadType,
         HeldPosted, BlockPosted, Steps
<1>9. HeldInv'
  BY DEF HeldInv, RecordWhere, FailStep, Fault, RecordType, HeldPosted, Rebinds
<1>10. HeldPosted'
  BY DEF HeldPosted, RecordWhere, FailStep, Fault, RecordType, textVars, Rebinds
<1> QED BY <1>1, <1>2, <1>3, <1>4, <1>5, <1>6, <1>7, <1>8, <1>9, <1>10

\* The move of one file keeps the record and the texts in order (BookInv).
LEMMA BookMoveFile ==
    ASSUME BookInv, NEW f \in Files, MoveFile(f)
    PROVE  BookInv'
<1> USE RebindAssumption DEF BookInv
<1>1. /\ RecordType' /\ AppType' /\ ThreadType' /\ CountType' /\ EndInv' /\ RecordInv'
      /\ RunnerInv' /\ HandInv' /\ HeldInv' /\ HeldPosted' /\ BlockPosted' /\ AgentPosted'
      /\ OthersPosted'
  BY DEF MoveFile, RecordType, AppType, ThreadType, CountType, EndInv, RecordInv, RunnerInv,
         HandInv, HeldInv, HeldPosted, BlockPosted, AgentPosted, OthersPosted, At, Converging,
         Steps, recordVars, appVars, threadVars, textVars, endVars, countVars
<1>2. AgentType'
  BY DEF AgentType, MoveFile, At, Live, RunnerInv, RecordInv
<1> QED BY <1>1, <1>2

\* The end of the move keeps the record and the texts in order (BookInv).
LEMMA BookMoveEnds ==
    ASSUME BookInv, MoveEnds
    PROVE  BookInv'
<1> USE RebindAssumption DEF BookInv
<1>1. AppType' /\ AgentType' /\ BlockPosted' /\ AgentPosted' /\ OthersPosted'
  BY DEF MoveEnds, AppType, AgentType, BlockPosted, AgentPosted, OthersPosted, appVars, agentVars,
         textVars
<1>2. RecordType'
  <2>1. CASE rebind' = [rebind EXCEPT !.files = rebind.target]
    <3>1. rebind.target \in Maybe(Accounts)
      BY DEF RecordType, ThreadType, Rebinds
    <3>2. rebind' = [rebind EXCEPT !.files = rebind.target]
      BY <2>1
    <3>3. rebind' \in Rebinds
      BY <3>1, <3>2 DEF RecordType, Rebinds
    <3> QED BY <3>3, <2>1 DEF RecordType, MoveEnds
  <2>2. CASE FailStep /\ entry' = entry
    BY <2>2 DEF FailStep, RecordType, Rebinds
  <2> QED BY <2>1, <2>2 DEF MoveEnds
<1>3. ThreadType'
  BY DEF ThreadType, MoveEnds, FailStep, Fault, Maybe, Steps, At, Live, Goto, agentVars
<1>4. CountType'
  BY DEF CountType, MoveEnds, Fault, endVars
<1>5. EndInv'
  BY DEF EndInv, MoveEnds, RecordInv, Converging, At, Live, RunnerInv, agentVars, endVars
<1>6. RecordInv'
  BY DEF RecordInv, MoveEnds, FailStep, Fault, RecordType, CountType, ThreadType, Converging, At,
         Live, Goto, RunnerInv, Rebinds
<1>7. RunnerInv'
  BY DEF RunnerInv, MoveEnds, FailStep, Fault, RecordType, ThreadType, Steps, At, Live, Goto,
         EndInv, RecordInv, Converging, endVars, Rebinds
<1>8. HandInv'
  BY DEF HandInv, MoveEnds, FailStep, Fault, At, Live, Goto, RecordType, ThreadType, HeldPosted,
         BlockPosted, Steps
<1>9. HeldInv'
  BY DEF HeldInv, MoveEnds, FailStep, Fault, RecordType, HeldPosted, Rebinds
<1>10. HeldPosted'
  BY DEF HeldPosted, MoveEnds, FailStep, Fault, RecordType, textVars, Rebinds
<1> QED BY <1>1, <1>2, <1>3, <1>4, <1>5, <1>6, <1>7, <1>8, <1>9, <1>10

\* The write of the environment file keeps the record and the texts in order (BookInv).
LEMMA BookRebindAgent ==
    ASSUME BookInv, RebindAgent
    PROVE  BookInv'
<1> USE RebindAssumption DEF BookInv
<1>1. AppType' /\ BlockPosted' /\ AgentPosted' /\ OthersPosted'
  BY DEF RebindAgent, AppType, BlockPosted, AgentPosted, OthersPosted, appVars, textVars
<1>2. RecordType'
  BY DEF RecordType, RebindAgent, FailStep, Fault, Refused, Rebinds
<1>3. ThreadType'
  BY DEF ThreadType, RebindAgent, FailStep, Fault, Steps, At, Live, Goto
<1>4. AgentType'
  BY DEF AgentType, RebindAgent, At, Live, RunnerInv, RecordInv, Converging
<1>5. CountType'
  BY DEF CountType, RebindAgent, Fault, Refused, endVars
<1>6. EndInv'
  BY DEF EndInv, RebindAgent, RecordInv, Converging, At, Live, RunnerInv, endVars
<1>7. RecordInv'
  BY DEF RecordInv, RebindAgent, FailStep, Fault, Refused, RecordType, CountType, ThreadType,
         Converging, At, Live, Goto, RunnerInv, Rebinds
<1>8. RunnerInv'
  BY DEF RunnerInv, RebindAgent, FailStep, Fault, Refused, RecordType, ThreadType, Steps, At,
         Live, Goto, EndInv, RecordInv, Converging, endVars, Rebinds
<1>9. HandInv'
  BY DEF HandInv, RebindAgent, FailStep, Fault, Refused, At, Live, Goto, RecordType, ThreadType,
         HeldPosted, BlockPosted, Steps, Rebinds
<1>10. HeldInv'
  BY DEF HeldInv, RebindAgent, FailStep, Fault, Refused, RecordType, HeldPosted, Rebinds
<1>11. HeldPosted'
  BY DEF HeldPosted, RebindAgent, FailStep, Fault, Refused, RecordType, textVars, Rebinds
<1> QED BY <1>1, <1>2, <1>3, <1>4, <1>5, <1>6, <1>7, <1>8, <1>9, <1>10, <1>11

\* The eviction of the watcher keeps the record and the texts in order (BookInv).
LEMMA BookEvictWatcher ==
    ASSUME BookInv, EvictWatcher
    PROVE  BookInv'
<1> USE RebindAssumption DEF BookInv
<1>1. /\ RecordType' /\ AgentType' /\ CountType' /\ EndInv' /\ RecordInv' /\ HeldInv'
      /\ HeldPosted' /\ BlockPosted' /\ AgentPosted' /\ OthersPosted'
  BY DEF EvictWatcher, RecordType, AgentType, CountType, EndInv, RecordInv, HeldInv, HeldPosted,
         BlockPosted, AgentPosted, OthersPosted, Converging, recordVars, agentVars, textVars,
         endVars, countVars
<1>2. AppType'
  BY DEF AppType, EvictWatcher, Evicted, Maybe, At, Live
<1>3. ThreadType'
  BY DEF ThreadType, EvictWatcher, Steps, At, Live, Goto, agentVars
<1>4. RunnerInv'
  BY DEF RunnerInv, EvictWatcher, Evicted, At, Live, Goto, recordVars, endVars
<1>5. HandInv'
  BY DEF HandInv, EvictWatcher, At, Live, Goto
<1> QED BY <1>1, <1>2, <1>3, <1>4, <1>5

\* The agent's new label keeps the record and the texts in order (BookInv).
LEMMA BookRelabel ==
    ASSUME BookInv, Relabel
    PROVE  BookInv'
<1> USE RebindAssumption DEF BookInv
<1>1. BlockPosted' /\ AgentPosted' /\ OthersPosted'
  BY DEF Relabel, BlockPosted, AgentPosted, OthersPosted, textVars
<1>2. RecordType'
  BY DEF RecordType, Relabel, FailStep, Fault, Refused, Noted, Rebinds, Maybe, At, Live
<1>3. AppType'
  BY DEF AppType, Relabel, Fault, Refused, Noted, Maybe, EndInv, At, Live, RunnerInv, RecordInv
<1>4. ThreadType'
  BY DEF ThreadType, Relabel, FailStep, Fault, Refused, Noted, Maybe, Steps, At, Live, Goto
<1>5. AgentType'
  BY DEF AgentType, Relabel, Noted, At, Live, RunnerInv, RecordInv, Converging
<1>6. CountType'
  BY DEF CountType, Relabel, Fault, Refused, Noted, endVars
<1>7. EndInv'
  BY DEF EndInv, Relabel, RecordInv, Converging, At, Live, RunnerInv, endVars
<1>8. RecordInv'
  BY DEF RecordInv, Relabel, FailStep, Fault, Refused, Noted, RecordType, CountType, ThreadType,
         Converging, At, Live, Goto, RunnerInv, Rebinds
<1>9. RunnerInv'
  BY DEF RunnerInv, Relabel, FailStep, Fault, Refused, Noted, RecordType, ThreadType, Steps, At,
         Live, Goto, EndInv, RecordInv, Converging, endVars
<1>10. HandInv'
  BY DEF HandInv, Relabel, FailStep, Fault, Refused, Noted, At, Live, Goto, RecordType,
         ThreadType, HeldPosted, BlockPosted, Steps
<1>11. HeldInv'
  BY DEF HeldInv, Relabel, FailStep, Fault, Refused, Noted, RecordType, HeldPosted, Rebinds
<1>12. HeldPosted'
  BY DEF HeldPosted, Relabel, FailStep, Fault, Refused, Noted, RecordType, textVars, Rebinds
<1> QED BY <1>1, <1>2, <1>3, <1>4, <1>5, <1>6, <1>7, <1>8, <1>9, <1>10, <1>11, <1>12

\* The start of the agent keeps the record and the texts in order (BookInv).
LEMMA BookStartAgent ==
    ASSUME BookInv, StartAgent
    PROVE  BookInv'
<1> USE RebindAssumption DEF BookInv
<1>1. BlockPosted' /\ AgentPosted' /\ OthersPosted'
  BY DEF StartAgent, BlockPosted, AgentPosted, OthersPosted, textVars
<1>2. RecordType'
  BY DEF RecordType, StartAgent, FailStep, Fault, Refused, Started, Rebinds, Maybe, At, Live
<1>3. AppType'
  BY DEF AppType, StartAgent
<1>4. ThreadType'
  BY DEF ThreadType, StartAgent, FailStep, Fault, Refused, Started, Maybe, Steps, At, Live, Goto
<1>5. AgentType'
  BY DEF AgentType, StartAgent, Refused, Started
<1>6. CountType'
  BY DEF CountType, StartAgent, Fault, Refused, Started, endVars
<1>7. EndInv'
  BY DEF EndInv, StartAgent, Refused, Started, RecordInv, Converging, At, Live, RunnerInv, endVars
<1>8. RecordInv'
  BY DEF RecordInv, StartAgent, FailStep, Fault, Refused, Started, RecordType, CountType,
         ThreadType, Converging, At, Live, Goto, RunnerInv, Rebinds
<1>9. RunnerInv'
  BY DEF RunnerInv, StartAgent, FailStep, Fault, Refused, Started, RecordType, ThreadType, Steps,
         At, Live, Goto, EndInv, RecordInv, Converging, endVars
<1>10. HandInv'
  BY DEF HandInv, StartAgent, FailStep, Fault, Refused, Started, At, Live, Goto, RecordType,
         ThreadType, HeldPosted, BlockPosted, Steps
<1>11. HeldInv'
  BY DEF HeldInv, StartAgent, FailStep, Fault, Refused, Started, RecordType, HeldPosted, Rebinds
<1>12. HeldPosted'
  BY DEF HeldPosted, StartAgent, FailStep, Fault, Refused, Started, RecordType, textVars, Rebinds
<1> QED BY <1>1, <1>2, <1>3, <1>4, <1>5, <1>6, <1>7, <1>8, <1>9, <1>10, <1>11, <1>12

\* The write that lands the restart keeps the record and the texts in order (BookInv).
LEMMA BookLand ==
    ASSUME BookInv, Land
    PROVE  BookInv'
<1> USE RebindAssumption DEF BookInv
<1>1. AppType' /\ AgentType' /\ BlockPosted' /\ AgentPosted' /\ OthersPosted'
  BY DEF Land, AppType, AgentType, BlockPosted, AgentPosted, OthersPosted, appVars, agentVars,
         textVars
<1>2. RecordType'
  <2>1. CASE entry' = rebind.target /\ rebind' = [rebind EXCEPT !.landed = rebind.target]
    <3>1. rebind.target \in Maybe(Accounts)
      BY DEF RecordType, ThreadType, Rebinds
    <3>2. rebind' = [rebind EXCEPT !.landed = rebind.target]
      BY <2>1
    <3>3. rebind' \in Rebinds
      BY <3>1, <3>2 DEF RecordType, Rebinds
    <3> QED BY <3>3, <2>1, <3>1 DEF RecordType, Land
  <2>2. CASE FailStep /\ entry' = entry
    BY <2>2 DEF FailStep, RecordType, Rebinds
  <2> QED BY <2>1, <2>2 DEF Land
<1>3. ThreadType'
  BY DEF ThreadType, Land, FailStep, Fault, Maybe, Steps, At, Live, Goto, agentVars
<1>4. CountType'
  BY DEF CountType, Land, Fault, endVars
<1>5. EndInv'
  BY DEF EndInv, Land, RecordInv, Converging, At, Live, RunnerInv, agentVars, endVars
<1>6. RecordInv'
  BY DEF RecordInv, Land, FailStep, Fault, RecordType, CountType, ThreadType, Converging, At,
         Live, Goto, RunnerInv, Rebinds
<1>7. RunnerInv'
  BY DEF RunnerInv, Land, FailStep, Fault, RecordType, ThreadType, Steps, At, Live, Goto, EndInv,
         RecordInv, Converging, endVars, Rebinds
<1>8. HandInv'
  BY DEF HandInv, Land, FailStep, Fault, At, Live, Goto, RecordType, ThreadType, HeldPosted,
         BlockPosted, Steps
<1>9. HeldInv'
  BY DEF HeldInv, Land, FailStep, Fault, RecordType, HeldPosted, Rebinds
<1>10. HeldPosted'
  BY DEF HeldPosted, Land, FailStep, Fault, RecordType, textVars, Rebinds
<1> QED BY <1>1, <1>2, <1>3, <1>4, <1>5, <1>6, <1>7, <1>8, <1>9, <1>10

\* The model picked, sent to the agent keeps the record and the texts in order
\* (BookInv).
LEMMA BookApplyModelPick ==
    ASSUME BookInv, ApplyModelPick
    PROVE  BookInv'
<1> USE RebindAssumption DEF BookInv
<1>1. BlockPosted' /\ AgentPosted' /\ OthersPosted'
  BY DEF ApplyModelPick, BlockPosted, AgentPosted, OthersPosted, textVars
<1>2. RecordType'
  BY DEF RecordType, ApplyModelPick, FailStep, PickWanted, Rebinds, Maybe, At, Live, Goto
<1>3. AppType'
  BY DEF AppType, ApplyModelPick
<1>4. ThreadType'
  BY DEF ThreadType, ApplyModelPick, FailStep, PickWanted, Maybe, Steps, At, Live, Goto
<1>5. AgentType'
  BY DEF AgentType, ApplyModelPick, Refused, Started, PickWanted, Maybe, RecordType, ThreadType,
         At, Live, RunnerInv, RecordInv, Converging, Rebinds
<1>6. CountType'
  BY DEF CountType, ApplyModelPick, FailStep, Fault, Refused, Started, PickWanted, endVars
<1>7. EndInv'
  BY DEF EndInv, ApplyModelPick, Fault, Refused, Started, PickWanted, RecordInv, Converging, At,
         Live, RunnerInv, endVars
<1>8. RecordInv'
  BY DEF RecordInv, ApplyModelPick, FailStep, Fault, Refused, Started, PickWanted, RecordType,
         CountType, ThreadType, Converging, At, Live, Goto, RunnerInv, Rebinds
<1>9. RunnerInv'
  BY DEF RunnerInv, ApplyModelPick, FailStep, Fault, ThreadType, Steps, At, Live, Goto, EndInv,
         RecordInv, Converging, endVars, Rebinds
<1>10. HandInv'
  BY DEF HandInv, ApplyModelPick, FailStep, Fault, Refused, Started, PickWanted, At, Live, Goto,
         RecordType, ThreadType, HeldPosted, BlockPosted, Steps, Rebinds
<1>11. HeldInv'
  BY DEF HeldInv, ApplyModelPick, FailStep, Fault, PickWanted, RecordType, HeldPosted, Rebinds
<1>12. HeldPosted'
  BY DEF HeldPosted, ApplyModelPick, FailStep, Fault, PickWanted, RecordType, textVars, Rebinds
<1> QED BY <1>1, <1>2, <1>3, <1>4, <1>5, <1>6, <1>7, <1>8, <1>9, <1>10, <1>11, <1>12

\* The note that the pick is done keeps the record and the texts in order (BookInv).
LEMMA BookNotePick ==
    ASSUME BookInv, NotePick
    PROVE  BookInv'
<1> USE RebindAssumption DEF BookInv
<1>1. AppType' /\ AgentType' /\ BlockPosted' /\ AgentPosted' /\ OthersPosted'
  BY DEF NotePick, AppType, AgentType, BlockPosted, AgentPosted, OthersPosted, appVars, agentVars,
         textVars
<1>2. RecordType'
  BY DEF RecordType, NotePick, FailStep, Fault, Rebinds, Maybe, At, Live
<1>3. ThreadType'
  BY DEF ThreadType, NotePick, FailStep, Fault, Maybe, Steps, At, Live, Goto, agentVars
<1>4. CountType'
  BY DEF CountType, NotePick, Fault, endVars
<1>5. EndInv'
  BY DEF EndInv, NotePick, RecordInv, Converging, At, Live, RunnerInv, agentVars, endVars
<1>6. RecordInv'
  BY DEF RecordInv, NotePick, FailStep, Fault, RecordType, CountType, ThreadType, Converging, At,
         Live, Goto, RunnerInv, Rebinds
<1>7. RunnerInv'
  BY DEF RunnerInv, NotePick, FailStep, Fault, RecordType, ThreadType, Steps, At, Live, Goto,
         EndInv, RecordInv, Converging, endVars, Rebinds
<1>8. HandInv'
  BY DEF HandInv, NotePick, FailStep, Fault, At, Live, Goto, RecordType, ThreadType, HeldPosted,
         BlockPosted, Steps
<1>9. HeldInv'
  BY DEF HeldInv, NotePick, FailStep, Fault, RecordType, HeldPosted, Rebinds
<1>10. HeldPosted'
  BY DEF HeldPosted, NotePick, FailStep, Fault, RecordType, textVars, Rebinds
<1> QED BY <1>1, <1>2, <1>3, <1>4, <1>5, <1>6, <1>7, <1>8, <1>9, <1>10

\* The look before the held sends go out keeps the record and the texts in order
\* (BookInv).
LEMMA BookDeliverHeldSends ==
    ASSUME BookInv, DeliverHeldSends
    PROVE  BookInv'
<1> USE RebindAssumption DEF BookInv
<1>1. /\ RecordType' /\ AppType' /\ AgentType' /\ CountType' /\ EndInv' /\ RecordInv' /\ HeldInv'
      /\ HeldPosted' /\ BlockPosted' /\ AgentPosted' /\ OthersPosted'
  BY DEF DeliverHeldSends, RecordType, AppType, AgentType, CountType, EndInv, RecordInv, HeldInv,
         HeldPosted, BlockPosted, AgentPosted, OthersPosted, Converging, recordVars, appVars,
         agentVars, textVars, endVars, countVars
<1>2. ThreadType'
  BY DEF ThreadType, DeliverHeldSends, Maybe, Steps, Goto, agentVars
<1>3. RunnerInv'
  BY DEF RunnerInv, DeliverHeldSends, At, Live, Goto, recordVars, endVars
<1>4. HandInv'
  BY DEF HandInv, DeliverHeldSends, At, Live, Goto
<1> QED BY <1>1, <1>2, <1>3, <1>4

\* The next held send, taken from the record keeps the record and the texts in order
\* (BookInv).
LEMMA BookTakeNextHeldSend ==
    ASSUME BookInv, TakeNextHeldSend
    PROVE  BookInv'
<1> USE RebindAssumption DEF BookInv
<1>1. AppType' /\ AgentType' /\ AgentPosted' /\ OthersPosted'
  BY DEF TakeNextHeldSend, AppType, AgentType, AgentPosted, OthersPosted, appVars, agentVars,
         textVars
<1>2. RecordType'
  <2>1. CASE rebind.held # <<>> /\ rebind' = [rebind EXCEPT !.held = Rest(@)] /\ entry' = entry
    <3>1. rebind.held \in Seq(Messages)
      BY DEF RecordType, Rebinds
    <3>2. Rest(rebind.held) = Tail(rebind.held)
      BY <2>1, <3>1, WithoutHead DEF Rest, NextHeld, HeldInv
    <3>3. Rest(rebind.held) \in Seq(Messages)
      BY <2>1, <3>1, <3>2, HeadTailProperties
    <3>4. rebind' \in Rebinds
      BY <2>1, <3>3 DEF RecordType, Rebinds
    <3> QED BY <2>1, <3>4 DEF RecordType
  <2>2. CASE rebind' = NoRebind /\ entry' = Nothing
    BY <2>2, EmptySeq DEF RecordType, Rebinds, NoRebind, Maybe
  <2>3. CASE FailStep /\ entry' = entry
    BY <2>3 DEF RecordType, Rebinds, FailStep
  <2> QED BY <2>1, <2>2, <2>3 DEF TakeNextHeldSend
<1>3. ThreadType'
  BY DEF ThreadType, TakeNextHeldSend, FailStep, Fault, NoRebind, NextHeld, Rest, Maybe, Steps,
         At, Live, Goto
<1>4. CountType'
  BY DEF CountType, TakeNextHeldSend, FailStep, Fault, Rest, endVars
<1>5. EndInv'
  BY DEF EndInv, TakeNextHeldSend, RecordInv, Converging, At, Live, RunnerInv, agentVars, endVars
<1>6. RecordInv'
  BY DEF RecordInv, TakeNextHeldSend, FailStep, Fault, NoRebind, NextHeld, Rest, RecordType,
         CountType, ThreadType, Converging, At, Live, Goto, RunnerInv, Rebinds
<1>7. RunnerInv'
  BY DEF RunnerInv, TakeNextHeldSend, FailStep, Fault, NoRebind, NextHeld, Rest, RecordType,
         ThreadType, Steps, At, Live, Goto, EndInv, RecordInv, Converging, endVars, Rebinds
<1>8. HandInv'
  BY DEF HandInv, TakeNextHeldSend, FailStep, Fault, NoRebind, NextHeld, Rest, At, Live, Goto,
         RecordType, ThreadType, HeldPosted, BlockPosted, Steps, Rebinds
<1>9. HeldInv'
  <2>1. rebind'.held \in {rebind.held, <<>>} \/ (rebind.held # <<>> /\ rebind'.held = Tail(rebind.held))
    BY WithoutHead, RecordSet
       DEF TakeNextHeldSend, FailStep, RecordType, Rebinds, NoRebind, Rest, NextHeld, HeldInv
  <2>2. rebind.held \in Seq(Messages)
    BY DEF RecordType, Rebinds
  <2>3. CASE rebind.held # <<>> /\ rebind'.held = Tail(rebind.held)
    BY <2>2, <2>3, TailDistinct DEF HeldInv
  <2> QED BY <2>1, <2>3, EmptyDistinct DEF HeldInv
<1>10. HeldPosted'
  <2>1. rebind'.held \in {rebind.held, <<>>} \/ (rebind.held # <<>> /\ rebind'.held = Tail(rebind.held))
    BY WithoutHead, RecordSet
       DEF TakeNextHeldSend, FailStep, RecordType, Rebinds, NoRebind, Rest, NextHeld, HeldInv
  <2>2. posts' = posts
    BY DEF TakeNextHeldSend, textVars
  <2> QED BY <2>1, <2>2, HeadTailProperties, EmptySeq DEF HeldPosted
<1>11. BlockPosted'
  BY DEF BlockPosted, TakeNextHeldSend, NoRebind, NextHeld, Rest, Maybe, HandInv, HeldPosted,
         AgentPosted, textVars
<1> QED BY <1>1, <1>2, <1>3, <1>4, <1>5, <1>6, <1>7, <1>8, <1>9, <1>10, <1>11

\* The delivery of the held send in hand keeps the record and the texts in order
\* (BookInv).
LEMMA BookDeliverHeldSend ==
    ASSUME BookInv, DeliverHeldSend
    PROVE  BookInv'
<1> USE RebindAssumption DEF BookInv
<1>1. RecordType' /\ CountType' /\ RecordInv' /\ HeldInv' /\ HeldPosted'
  BY DEF DeliverHeldSend, RecordType, CountType, RecordInv, HeldInv, HeldPosted, Converging,
         recordVars, endVars, countVars
<1>2. AppType'
  BY DEF AppType, DeliverHeldSend, Reaches
<1>3. ThreadType'
  BY DEF ThreadType, DeliverHeldSend, Maybe, Steps, At, Goto
<1>4. AgentType'
  BY DEF AgentType, DeliverHeldSend, Reaches, Started
<1>5. EndInv'
  BY DEF EndInv, DeliverHeldSend, Reaches, Started, Converging, At, recordVars, endVars
<1>6. RunnerInv'
  BY DEF RunnerInv, DeliverHeldSend, At, Goto, recordVars, endVars
<1>7. HandInv'
  BY DEF HandInv, DeliverHeldSend, At, Goto
<1>8. BlockPosted'
  BY DEF BlockPosted, DeliverHeldSend, Maybe
<1>9. AgentPosted'
  BY DEF AgentPosted, DeliverHeldSend, Reaches, Started, HandInv, At, BlockPosted, Maybe
<1>10. OthersPosted'
  <2>1. hand \in posts
    BY DEF DeliverHeldSend, HandInv, BlockPosted, Maybe
  <2> QED BY <2>1 DEF OthersPosted, DeliverHeldSend, Reaches, Started, HandInv, At
<1> QED BY <1>1, <1>2, <1>3, <1>4, <1>5, <1>6, <1>7, <1>8, <1>9, <1>10

\* A death of the app and its start keeps the record and the texts in order (BookInv).
LEMMA BookReboot ==
    ASSUME BookInv, Reboot
    PROVE  BookInv'
<1> USE RebindAssumption DEF BookInv
<1>1. RecordType' /\ RecordInv' /\ HeldInv' /\ HeldPosted' /\ AgentPosted'
  BY DEF Reboot, RecordType, RecordInv, HeldInv, HeldPosted, AgentPosted, Converging, recordVars
<1>2. AppType'
  BY DEF AppType, Reboot, Started, ResumeLabel, Maybe, EndInv, RecordType, AgentType, At, Live,
         RunnerInv, RecordInv, Converging, Rebinds
<1>3. ThreadType'
  BY DEF ThreadType, Reboot, Started, ResumeLabel, Maybe, Steps, At, Live, Goto, RecordType,
         CountType, AgentType, recordVars, appVars, threadVars, agentVars, textVars, endVars,
         countVars, Rebinds
<1>4. AgentType'
  BY DEF AgentType, Reboot, Started
<1>5. CountType'
  BY DEF CountType, Reboot, endVars
<1>6. EndInv'
  BY DEF EndInv, Reboot, Started, ResumeLabel, recordVars, endVars
<1>7. RunnerInv'
  BY DEF RunnerInv, Reboot, Started, ResumeLabel, At, EndInv, RecordInv, Converging, recordVars,
         endVars
<1>8. HandInv'
  BY DEF HandInv, Reboot, ResumeLabel, At
<1>9. BlockPosted'
  BY DEF BlockPosted, Reboot, Maybe
<1>10. OthersPosted'
  BY DEF OthersPosted, Reboot
<1> QED BY <1>1, <1>2, <1>3, <1>4, <1>5, <1>6, <1>7, <1>8, <1>9, <1>10

\* What the observe stream says keeps the record and the texts in order (BookInv).
LEMMA BookObserve ==
    ASSUME BookInv, Observe
    PROVE  BookInv'
<1> USE RebindAssumption DEF BookInv
<1>1. /\ RecordType' /\ ThreadType' /\ AgentType' /\ EndInv' /\ RecordInv' /\ RunnerInv'
      /\ HandInv' /\ HeldInv' /\ HeldPosted' /\ BlockPosted' /\ AgentPosted' /\ OthersPosted'
  BY DEF Observe, RecordType, ThreadType, AgentType, EndInv, RecordInv, RunnerInv, HandInv,
         HeldInv, HeldPosted, BlockPosted, AgentPosted, OthersPosted, At, Converging, Steps,
         recordVars, threadVars, agentVars, textVars, endVars
<1>2. AppType'
  BY DEF AppType, Observe, Maybe, EndInv, RecordType, AgentType, At, Live, RunnerInv, RecordInv,
         Converging
<1>3. CountType'
  BY DEF CountType, Observe, Fault, endVars
<1> QED BY <1>1, <1>2, <1>3

\* A death of the agent keeps the record and the texts in order (BookInv).
LEMMA BookAgentDies ==
    ASSUME BookInv, AgentDies
    PROVE  BookInv'
<1> USE RebindAssumption DEF BookInv
<1>1. /\ RecordType' /\ AppType' /\ ThreadType' /\ RecordInv' /\ RunnerInv' /\ HandInv'
      /\ HeldInv' /\ HeldPosted' /\ BlockPosted'
  BY DEF AgentDies, RecordType, AppType, ThreadType, RecordInv, RunnerInv, HandInv, HeldInv,
         HeldPosted, BlockPosted, At, Converging, Steps, recordVars, appVars, threadVars, endVars
<1>2. AgentType'
  BY DEF AgentType, AgentDies
<1>3. CountType'
  BY DEF CountType, AgentDies, Fault, endVars
<1>4. EndInv'
  BY DEF EndInv, AgentDies, endVars
<1>5. AgentPosted'
  BY DEF AgentPosted, AgentDies
<1>6. OthersPosted'
  BY ElemsIn DEF OthersPosted, AgentPosted, AgentDies, appVars
<1> QED BY <1>1, <1>2, <1>3, <1>4, <1>5, <1>6

\* A turn of the agent keeps the record and the texts in order (BookInv).
LEMMA BookAgentTurn ==
    ASSUME BookInv, AgentTurn
    PROVE  BookInv'
<1> USE RebindAssumption DEF BookInv
<1>1. /\ RecordType' /\ AppType' /\ ThreadType' /\ AgentType' /\ CountType' /\ EndInv'
      /\ RecordInv' /\ RunnerInv' /\ HandInv' /\ HeldInv' /\ HeldPosted' /\ BlockPosted'
      /\ OthersPosted'
  BY DEF AgentTurn, RecordType, AppType, ThreadType, AgentType, CountType, EndInv, RecordInv,
         RunnerInv, HandInv, HeldInv, HeldPosted, BlockPosted, OthersPosted, At, Converging,
         Steps, recordVars, appVars, threadVars, textVars, endVars, countVars
<1>2. AgentPosted'
  BY DEF AgentPosted, AgentTurn, textVars
<1> QED BY <1>1, <1>2

\* The destroyed chat's agent keeps the record and the texts in order (BookInv).
LEMMA BookDestroyAgent ==
    ASSUME BookInv, DestroyAgent
    PROVE  BookInv'
<1> USE RebindAssumption DEF BookInv
<1>1. /\ RecordType' /\ AppType' /\ ThreadType' /\ RecordInv' /\ RunnerInv' /\ HandInv'
      /\ HeldInv' /\ HeldPosted' /\ BlockPosted' /\ OthersPosted'
  BY DEF DestroyAgent, RecordType, AppType, ThreadType, RecordInv, RunnerInv, HandInv, HeldInv,
         HeldPosted, BlockPosted, OthersPosted, At, Converging, Steps, recordVars, appVars,
         threadVars, textVars, countVars
<1>2. AgentType'
  BY DEF AgentType, DestroyAgent
<1>3. CountType'
  BY DEF CountType, DestroyAgent, countVars
<1>4. EndInv'
  BY DEF EndInv, DestroyAgent
<1>5. AgentPosted'
  BY DEF AgentPosted, DestroyAgent, textVars
<1> QED BY <1>1, <1>2, <1>3, <1>4, <1>5

\* The destroyed chat's record keeps the record and the texts in order (BookInv).
LEMMA BookDestroyRecord ==
    ASSUME BookInv, DestroyRecord
    PROVE  BookInv'
<1> USE RebindAssumption DEF BookInv
<1>1. ThreadType' /\ AgentType' /\ HandInv' /\ BlockPosted' /\ AgentPosted' /\ OthersPosted'
  BY DEF DestroyRecord, ThreadType, AgentType, HandInv, BlockPosted, AgentPosted, OthersPosted,
         At, Steps, threadVars, agentVars, textVars
<1>2. RecordType'
  BY DEF RecordType, DestroyRecord, NoRebind, Rebinds, Maybe
<1>3. AppType'
  BY DEF AppType, DestroyRecord, Maybe
<1>4. CountType'
  BY DEF CountType, DestroyRecord, countVars
<1>5. EndInv'
  BY DEF EndInv, DestroyRecord, NoRebind, Converging, agentVars
<1>6. RecordInv'
  BY DEF RecordInv, DestroyRecord, NoRebind, RecordType, CountType, ThreadType, Converging, At,
         Live, Goto, RunnerInv, countVars
<1>7. RunnerInv'
  BY DEF RunnerInv, DestroyRecord, At, threadVars
<1>8. HeldInv'
  BY EmptyDistinct DEF HeldInv, DestroyRecord, NoRebind
<1>9. HeldPosted'
  BY DEF HeldPosted, DestroyRecord, NoRebind
<1> QED BY <1>1, <1>2, <1>3, <1>4, <1>5, <1>6, <1>7, <1>8, <1>9

\* The bookkeeping includes the type invariant.
LEMMA BookIsTyped == BookInv => TypeOK
<1> SUFFICES ASSUME BookInv PROVE TypeOK
  OBVIOUS
<1>1. /\ block \in Seq(Messages) /\ inbox \in Seq(Messages) /\ turns \in Seq(Messages)
      /\ log \in Seq(Messages)
  BY SeqMonotonic DEF BookInv, BlockPosted, AgentPosted, OthersPosted
<1>2. /\ flight \subseteq Messages /\ composer \subseteq Messages /\ posts \subseteq Messages
      /\ refused \subseteq Messages /\ cut \subseteq Messages /\ hand \in Maybe(Messages)
  BY DEF BookInv, BlockPosted, OthersPosted, Maybe
<1> QED
  BY <1>1, <1>2
     DEF BookInv, TypeOK, RecordType, Rebinds, AppType, ThreadType, AgentType, CountType

\* It holds at the start.
LEMMA BookInit == Init => BookInv
<1> SUFFICES ASSUME Init PROVE BookInv
  OBVIOUS
<1> USE RebindAssumption DEF Init
<1>1. RecordType /\ RecordInv
  BY EmptySeq DEF RecordType, Rebinds, RecordInv, NoRebind, Converging, Maybe
<1>2. AppType
  BY DEF AppType, Maybe
<1>0. /\ 0 \in 0 .. MaxRebinds /\ 0 \in 0 .. MaxCrashes /\ 0 \in 0 .. MaxRetries
      /\ 0 \in 0 .. MaxFaults
  OBVIOUS
<1>5. CountType
  BY <1>0 DEF CountType
<1>6. ThreadType
  BY <1>0 DEF ThreadType, NoRunner, Steps, Maybe
<1>7. AgentType
  BY DEF AgentType
<1>3. EndInv /\ RunnerInv /\ HandInv
  BY DEF EndInv, RunnerInv, HandInv, NoRunner, Converging, At
<1>4. HeldInv /\ HeldPosted /\ BlockPosted /\ AgentPosted /\ OthersPosted
  BY EmptySeq, EmptyDistinct
  DEF HeldInv, HeldPosted, BlockPosted, AgentPosted, OthersPosted, NoRebind, Maybe
<1> QED BY <1>1, <1>2, <1>3, <1>4, <1>5, <1>6, <1>7 DEF BookInv

\* Every step keeps it, whatever races there are.
LEMMA BookStep == BookInv /\ [Next]_vars => BookInv'
<1> SUFFICES ASSUME BookInv, [Next]_vars PROVE BookInv'
  OBVIOUS
<1>1. CASE UNCHANGED vars
  BY <1>1
     DEF vars, recordVars, appVars, threadVars, agentVars, textVars, endVars, countVars, BookInv,
         RecordType, AppType, ThreadType, AgentType, CountType, EndInv, RecordInv, RunnerInv,
         HandInv, HeldInv, HeldPosted, BlockPosted, AgentPosted, OthersPosted, Converging, At
<1>2. CASE Next
  BY <1>2, BookHoldSend, BookResolveSend, BookSendLands, BookReadBinding, BookBuildWatcher,
     BookBeginRebind, BookRetryRebind, BookStopped, BookDrain, BookDrained, BookRestart,
     BookStopAgent, BookRecordWhere, BookMoveFile, BookMoveEnds, BookRebindAgent,
     BookEvictWatcher, BookRelabel, BookStartAgent, BookLand, BookApplyModelPick, BookNotePick,
     BookDeliverHeldSends, BookTakeNextHeldSend, BookDeliverHeldSend, BookReboot, BookObserve,
     BookAgentDies, BookAgentTurn, BookDestroyAgent, BookDestroyRecord
     DEF Next, RunnerStep
<1> QED BY <1>1, <1>2

\* It always holds.
LEMMA Booked == Spec => []BookInv
BY BookInit, BookStep, PTL DEF Spec

\* The state stays within its types, whatever races there are.
THEOREM Types == Spec => []TypeOK
BY Booked, BookIsTyped, PTL

--------------------------------------------------------------------------------
\* Where each text is, and in which order.

\* A text on its way since before the rebind is not in the rebind's log.
FlightFresh == flight \cap Elems(log) = {}

\* How much of the log has left the record.
Given == Len(log) - Len(rebind.held)

\* What is held is the end of the log, and the text in hand the one just before it: the
\* record can be resumed from.
SuffixInv ==
    /\ Distinct(log)
    /\ Converging => Ends(rebind.held, log)
    /\ At("send") /\ ~destroyed => Given >= 1 /\ hand = log[Given]

\* The runner's texts: the next to deliver, and those a Stop handed back.
InHand == Elems(block) \cup ({hand} \ {Nothing})

\* The agent's texts.
WithAgent == Elems(turns) \cup Elems(inbox)

\* A text that is in one place is not in another.
ApartInv ==
    ~doomed =>
        /\ Distinct(turns) /\ Distinct(inbox) /\ Elems(turns) \cap Elems(inbox) = {}
        /\ Elems(rebind.held) \cap (WithAgent \cup InHand \cup flight \cup composer) = {}
        /\ WithAgent \cap (InHand \cup flight \cup composer) = {}
        /\ InHand \cap (flight \cup composer) = {}
        /\ flight \cap composer = {}

\* A text is somewhere, unless it was refused or died in its agent's queue.
KeptInv ==
    ~doomed => posts \subseteq Elems(rebind.held) \cup WithAgent \cup InHand \cup flight
                               \cup composer \cup refused \cup cut

\* What the agent got of the log it got in the order of the log.
OrderInv == InOrder(Got, log)

\* The elements of all of these sequences are posted texts.
LEMMA AllPosted ==
    ASSUME BookInv
    PROVE  /\ Elems(rebind.held) \subseteq posts /\ Elems(block) \subseteq posts
           /\ Elems(turns) \subseteq posts /\ Elems(inbox) \subseteq posts
           /\ Elems(log) \subseteq posts
BY ElemsIn DEF BookInv, HeldPosted, BlockPosted, AgentPosted, OthersPosted

\* Where a held send goes.
LEMMA HoldSendTexts ==
    ASSUME BookInv, NEW m \in Messages, HoldSend(m)
    PROVE  /\ Elems(log') = Elems(log) \cup {m}
           /\ rebind'.held = Append(rebind.held, m)
           /\ Elems(rebind'.held) = Elems(rebind.held) \cup {m}
<1>1. log \in Seq(posts \cup {m}) /\ rebind.held \in Seq(posts \cup {m})
  BY SeqMonotonic DEF BookInv, OthersPosted, HeldPosted
<1>2. rebind'.held = Append(rebind.held, m)
  BY DEF HoldSend
<1> QED BY <1>1, <1>2, ElemsOfAppend DEF HoldSend

\* Where a text that reaches the agent goes.
LEMMA ReachesTexts ==
    ASSUME BookInv, NEW m \in posts, Reaches(m)
    PROVE  /\ Elems(inbox') = Elems(inbox) \cup {m}
           /\ Distinct(inbox) /\ m \notin Elems(inbox) => Distinct(inbox')
<1>1. inbox \in Seq(posts) /\ inbox' = Append(inbox, m)
  BY DEF BookInv, AgentPosted, Reaches
<1>2. Elems(inbox') = Elems(inbox) \cup {m}
  BY <1>1, ElemsOfAppend
<1>3. ASSUME Distinct(inbox), m \notin Elems(inbox) PROVE Distinct(inbox')
  <2>1. \A i \in 1 .. Len(inbox) : inbox[i] # m
    BY <1>3 DEF Elems
  <2>2. /\ Len(inbox) \in Nat /\ Len(inbox') = Len(inbox) + 1
        /\ \A i \in 1 .. Len(inbox) : inbox'[i] = inbox[i]
        /\ inbox'[Len(inbox) + 1] = m
    BY <1>1, AppendProperties, LenProperties
  <2> QED BY <1>3, <2>1, <2>2 DEF Distinct
<1> QED BY <1>2, <1>3

\* Where the confirming message goes: a new log, and the first to be held.
LEMMA BeginRebindTexts ==
    ASSUME BookInv, NEW to \in Accounts, NEW m \in Messages, NEW k \in BOOLEAN,
           BeginRebind(to, m, k)
    PROVE  /\ log' = <<m>> /\ rebind'.held = <<m>> /\ Elems(<<m>>) = {m}
           /\ m \notin posts /\ posts' = posts \cup {m}
           /\ rebind.held = <<>> /\ Elems(rebind.held) = {}
           /\ pc'.step = "drain"
<1>1. rebind'.held = <<m>>
  BY DEF BeginRebind, Opened, NoRebind
<1>2. rebind.held = <<>>
  BY DEF BeginRebind, BookInv, RecordInv, NoRebind
<1> QED BY <1>1, <1>2, ElemsOfOne, ElemsOfEmpty DEF BeginRebind

\* What taking the next held send does: the head leaves, or a step fails, or the record
\* goes.
LEMMA TakeTexts ==
    ASSUME BookInv, TakeNextHeldSend
    PROVE  \/ /\ rebind.held # <<>> /\ rebind'.held = Tail(rebind.held)
              /\ hand' = Head(rebind.held) /\ rebind'.phase = rebind.phase
              /\ pc'.step = "send"
           \/ /\ rebind'.held = rebind.held /\ hand' = hand /\ pc'.step = "idle"
           \/ /\ rebind' = NoRebind /\ rebind.held = <<>> /\ hand' = hand /\ pc'.step = "idle"
<1>1. rebind.held \in Seq(Messages) /\ Distinct(rebind.held)
  BY DEF BookInv, RecordType, Rebinds, HeldInv
<1>2. rebind.held # <<>> => Rest(rebind.held) = Tail(rebind.held)
  BY <1>1, WithoutHead DEF Rest, NextHeld
<1> QED
  BY <1>2 DEF TakeNextHeldSend, BookInv, RecordType, Rebinds, ThreadType, Goto, FailStep, NextHeld

\* A send that the record holds keeps each text in one place, and loses none unless
\* crashInHand lets it.
LEMMA PlaceHoldSend ==
    ASSUME BookInv, FlightFresh, SuffixInv, ApartInv, NEW m \in Messages, HoldSend(m)
    PROVE  /\ FlightFresh' /\ SuffixInv' /\ ApartInv'
           /\ KeptInv /\ "crashInHand" \notin Races => KeptInv'
<1> USE RebindAssumption DEF BookInv
<1>1. FlightFresh'
  BY HoldSendTexts DEF FlightFresh, HoldSend, OthersPosted, appVars
<1>2. SuffixInv'
  <2>1. /\ log' = Append(log, m) /\ rebind'.held = Append(rebind.held, m) /\ m \notin posts
        /\ pc' = pc /\ hand' = hand /\ destroyed' = destroyed
        /\ rebind.held \in Seq(Messages) /\ log \in Seq(Messages)
    BY HoldSendTexts, SeqMonotonic
    DEF HoldSend, RecordType, Rebinds, OthersPosted, threadVars, endVars
  <2>2. Distinct(log')
    BY <2>1, AppendDistinct DEF OthersPosted, SuffixInv
  <2>3. Ends(rebind.held, log)
    BY DEF HoldSend, SuffixInv
  <2>4. Ends(rebind'.held, log') /\ Given' = Given
    <3>1. /\ Ends(Append(rebind.held, m), Append(log, m))
          /\ Len(Append(log, m)) - Len(Append(rebind.held, m)) = Len(log) - Len(rebind.held)
      BY <2>1, <2>3, SuffixAppend
    <3>2. Given = Len(log) - Len(rebind.held) /\ Given' = Len(log') - Len(rebind'.held)
      BY DEF Given
    <3> QED BY <2>1, <3>1, <3>2
  <2>5. At("send") /\ ~destroyed => Given >= 1 /\ hand = log'[Given]
    <3>1. Given \in Int /\ Given <= Len(log) /\ \A i \in 1 .. Len(log) : log'[i] = log[i]
      BY <2>1, <2>3, AppendProperties, LenProperties DEF Given, Ends
    <3>2. At("send") /\ ~destroyed => Given \in 1 .. Len(log)
      BY <2>1, <3>1, LenProperties DEF SuffixInv
    <3> QED BY <3>1, <3>2 DEF SuffixInv
  <2> QED BY <2>1, <2>2, <2>4, <2>5 DEF SuffixInv, At
<1>3. ApartInv'
  <2>1. /\ turns' = turns /\ inbox' = inbox /\ block' = block /\ hand' = hand
        /\ flight' = flight /\ composer' = composer /\ doomed' = doomed
    BY DEF HoldSend, appVars, threadVars, agentVars, endVars
  <2>2. m \notin WithAgent \cup InHand \cup flight \cup composer
    BY AllPosted DEF HoldSend, WithAgent, InHand, OthersPosted, BlockPosted, Maybe
  <2> QED BY <2>1, <2>2, HoldSendTexts DEF ApartInv, WithAgent, InHand
<1>4. ASSUME KeptInv, "crashInHand" \notin Races PROVE KeptInv'
  <2>1. /\ turns' = turns /\ inbox' = inbox /\ block' = block /\ hand' = hand
        /\ flight' = flight /\ composer' = composer /\ doomed' = doomed
        /\ posts' = posts \cup {m} /\ refused' = refused /\ cut' = cut
    BY DEF HoldSend, appVars, threadVars, agentVars, endVars
  <2> QED BY <1>4, <2>1, HoldSendTexts DEF KeptInv, WithAgent, InHand
<1> QED BY <1>1, <1>2, <1>3, <1>4

\* A send that leaves the composer for the agent keeps each text in one place, and
\* loses none unless crashInHand lets it.
LEMMA PlaceResolveSend ==
    ASSUME BookInv, FlightFresh, SuffixInv, ApartInv, NEW m \in Messages, ResolveSend(m)
    PROVE  /\ FlightFresh' /\ SuffixInv' /\ ApartInv'
           /\ KeptInv /\ "crashInHand" \notin Races => KeptInv'
<1> USE RebindAssumption DEF BookInv
<1>1. SuffixInv'
  BY DEF ResolveSend, SuffixInv, At, Converging, Given, recordVars, threadVars, endVars
<1>2. FlightFresh'
  BY ElemsOfEmpty, AllPosted DEF FlightFresh, ResolveSend
<1>3. ApartInv'
  <2>1. /\ turns' = turns /\ inbox' = inbox /\ block' = block /\ hand' = hand
        /\ flight' = flight \cup {m} /\ composer' = composer /\ doomed' = doomed
        /\ rebind' = rebind
    BY DEF ResolveSend, recordVars, threadVars, agentVars, endVars
  <2>2. m \notin Elems(rebind.held) \cup WithAgent \cup InHand \cup composer
    BY AllPosted DEF ResolveSend, WithAgent, InHand, OthersPosted, BlockPosted, Maybe
  <2> QED BY <2>1, <2>2 DEF ApartInv, WithAgent, InHand
<1>4. ASSUME KeptInv, "crashInHand" \notin Races PROVE KeptInv'
  BY <1>4, ElemsOfEmpty, AllPosted
     DEF KeptInv, ResolveSend, WithAgent, InHand, Converging, recordVars, threadVars, agentVars
<1> QED BY <1>1, <1>2, <1>3, <1>4

\* A send that reaches its agent, or is refused keeps each text in one place, and loses
\* none unless crashInHand lets it.
LEMMA PlaceSendLands ==
    ASSUME BookInv, FlightFresh, SuffixInv, ApartInv, NEW m \in Messages, SendLands(m)
    PROVE  /\ FlightFresh' /\ SuffixInv' /\ ApartInv'
           /\ KeptInv /\ "crashInHand" \notin Races => KeptInv'
<1> USE RebindAssumption DEF BookInv
<1>1. SuffixInv'
  BY DEF SendLands, SuffixInv, At, Converging, Given, recordVars, threadVars, endVars
<1>2. FlightFresh'
  BY ElemsOfEmpty, AllPosted DEF FlightFresh, SendLands
<1>3. ApartInv'
  <2>1. /\ turns' = turns /\ block' = block /\ hand' = hand
        /\ flight' = flight \ {m} /\ m \in flight /\ doomed' = doomed
        /\ rebind' = rebind /\ m \in posts
    BY DEF SendLands, recordVars, threadVars, endVars, OthersPosted
  <2>2. CASE Reaches(m) /\ composer' = composer
    BY <2>1, <2>2, ReachesTexts DEF ApartInv, WithAgent, InHand
  <2>3. CASE inbox' = inbox /\ composer' = composer \cup {m}
    BY <2>1, <2>3 DEF ApartInv, WithAgent, InHand
  <2> QED BY <2>2, <2>3 DEF SendLands
<1>4. ASSUME KeptInv, "crashInHand" \notin Races PROVE KeptInv'
  <2>1. /\ turns' = turns /\ block' = block /\ hand' = hand
        /\ flight' = flight \ {m} /\ m \in flight /\ doomed' = doomed
        /\ rebind' = rebind /\ m \in posts /\ posts' = posts /\ refused' = refused /\ cut' = cut
    BY DEF SendLands, recordVars, threadVars, endVars, OthersPosted
  <2>2. CASE Reaches(m) /\ composer' = composer
    BY <1>4, <2>1, <2>2, ReachesTexts DEF KeptInv, WithAgent, InHand
  <2>3. CASE inbox' = inbox /\ composer' = composer \cup {m}
    BY <1>4, <2>1, <2>3 DEF KeptInv, WithAgent, InHand
  <2> QED BY <2>2, <2>3 DEF SendLands
<1> QED BY <1>1, <1>2, <1>3, <1>4

\* A page that reads the binding keeps each text in one place, and loses none unless
\* crashInHand lets it.
LEMMA PlaceReadBinding ==
    ASSUME BookInv, FlightFresh, SuffixInv, ApartInv, ReadBinding
    PROVE  /\ FlightFresh' /\ SuffixInv' /\ ApartInv'
           /\ KeptInv /\ "crashInHand" \notin Races => KeptInv'
<1> USE RebindAssumption DEF BookInv
<1>1. FlightFresh' /\ SuffixInv' /\ ApartInv'
  BY DEF ReadBinding, FlightFresh, SuffixInv, ApartInv, At, Converging, Given, InHand, WithAgent,
         recordVars, threadVars, agentVars, textVars, endVars
<1>2. ASSUME KeptInv, "crashInHand" \notin Races PROVE KeptInv'
  BY <1>2, ElemsOfEmpty, AllPosted
     DEF KeptInv, ReadBinding, WithAgent, InHand, recordVars, threadVars, agentVars, textVars,
         endVars
<1> QED BY <1>1, <1>2

\* A watcher built on the binding read keeps each text in one place, and loses none
\* unless crashInHand lets it.
LEMMA PlaceBuildWatcher ==
    ASSUME BookInv, FlightFresh, SuffixInv, ApartInv, BuildWatcher
    PROVE  /\ FlightFresh' /\ SuffixInv' /\ ApartInv'
           /\ KeptInv /\ "crashInHand" \notin Races => KeptInv'
<1> USE RebindAssumption DEF BookInv
<1>1. FlightFresh' /\ SuffixInv' /\ ApartInv'
  BY DEF BuildWatcher, FlightFresh, SuffixInv, ApartInv, At, Converging, Given, InHand, WithAgent,
         recordVars, threadVars, agentVars, textVars, endVars
<1>2. ASSUME KeptInv, "crashInHand" \notin Races PROVE KeptInv'
  BY <1>2, ElemsOfEmpty, AllPosted
     DEF KeptInv, BuildWatcher, WithAgent, InHand, Race, recordVars, threadVars, agentVars,
         textVars, endVars
<1> QED BY <1>1, <1>2

\* A rebind that begins keeps each text in one place, and loses none unless crashInHand
\* lets it.
LEMMA PlaceBeginRebind ==
    ASSUME BookInv, FlightFresh, SuffixInv, ApartInv, NEW to \in Accounts, NEW m \in Messages,
           NEW k \in BOOLEAN, BeginRebind(to, m, k)
    PROVE  /\ FlightFresh' /\ SuffixInv' /\ ApartInv'
           /\ KeptInv /\ "crashInHand" \notin Races => KeptInv'
<1> USE RebindAssumption DEF BookInv
<1>1. FlightFresh'
  BY BeginRebindTexts DEF FlightFresh, BeginRebind, OthersPosted, appVars
<1>2. SuffixInv'
  <2>0. /\ log' = <<m>> /\ rebind'.held = <<m>> /\ Elems(<<m>>) = {m}
        /\ m \notin posts /\ posts' = posts \cup {m} /\ Elems(rebind.held) = {}
        /\ pc'.step = "drain"
    BY BeginRebindTexts
  <2>1. Distinct(log') /\ Len(log') = 1 /\ Len(rebind'.held) = 1 /\ log' = rebind'.held
    BY <2>0, OneDistinct
  <2>2. Given' = 0
    BY <2>1 DEF Given
  <2>3. Ends(rebind'.held, log')
    BY <2>1 DEF Ends
  <2> QED BY <2>1, <2>3, <2>0 DEF SuffixInv, At
<1>3. ApartInv'
  <2>0. /\ log' = <<m>> /\ rebind'.held = <<m>> /\ Elems(<<m>>) = {m}
        /\ m \notin posts /\ posts' = posts \cup {m} /\ Elems(rebind.held) = {}
        /\ pc'.step = "drain"
    BY BeginRebindTexts
  <2>1. /\ turns' = turns /\ inbox' = inbox /\ block' = block /\ hand' = hand
        /\ flight' = flight /\ composer' = composer /\ doomed' = doomed
    BY DEF BeginRebind, appVars, agentVars, endVars
  <2>2. m \notin WithAgent \cup InHand \cup flight \cup composer
    BY <2>0, AllPosted DEF WithAgent, InHand, OthersPosted, BlockPosted, Maybe
  <2> QED BY <2>1, <2>2, <2>0 DEF ApartInv, WithAgent, InHand
<1>4. ASSUME KeptInv, "crashInHand" \notin Races PROVE KeptInv'
  <2>0. /\ log' = <<m>> /\ rebind'.held = <<m>> /\ Elems(<<m>>) = {m}
        /\ m \notin posts /\ posts' = posts \cup {m} /\ Elems(rebind.held) = {}
        /\ pc'.step = "drain"
    BY BeginRebindTexts
  <2>1. /\ turns' = turns /\ inbox' = inbox /\ block' = block /\ hand' = hand
        /\ flight' = flight /\ composer' = composer /\ doomed' = doomed
        /\ refused' = refused /\ cut' = cut
    BY DEF BeginRebind, appVars, agentVars, endVars
  <2> QED BY <1>4, <2>1, <2>0 DEF KeptInv, WithAgent, InHand
<1> QED BY <1>1, <1>2, <1>3, <1>4

\* A retry of a failed rebind keeps each text in one place, and loses none unless
\* crashInHand lets it.
LEMMA PlaceRetryRebind ==
    ASSUME BookInv, FlightFresh, SuffixInv, ApartInv, NEW to \in Accounts, RetryRebind(to)
    PROVE  /\ FlightFresh' /\ SuffixInv' /\ ApartInv'
           /\ KeptInv /\ "crashInHand" \notin Races => KeptInv'
<1> USE RebindAssumption DEF BookInv
<1>1. FlightFresh'
  BY DEF RetryRebind, FlightFresh, appVars, textVars
<1>2. SuffixInv'
  BY ElemsOfEmpty, AllPosted DEF SuffixInv, RetryRebind, Converging, At, textVars, endVars
<1>3. ApartInv'
  BY ElemsOfEmpty, AllPosted
     DEF ApartInv, RetryRebind, WithAgent, InHand, appVars, agentVars, textVars, endVars
<1>4. ASSUME KeptInv, "crashInHand" \notin Races PROVE KeptInv'
  BY <1>4, ElemsOfEmpty, AllPosted
     DEF KeptInv, RetryRebind, WithAgent, InHand, Race, appVars, agentVars, textVars, endVars
<1> QED BY <1>1, <1>2, <1>3, <1>4

\* A drain whose turn is stopped keeps each text in one place, and loses none unless
\* crashInHand lets it.
LEMMA PlaceStopped ==
    ASSUME BookInv, FlightFresh, SuffixInv, ApartInv, Stopped
    PROVE  /\ FlightFresh' /\ SuffixInv' /\ ApartInv'
           /\ KeptInv /\ "crashInHand" \notin Races => KeptInv'
<1> USE RebindAssumption DEF BookInv
<1>1. FlightFresh' /\ ApartInv'
  BY DEF Stopped, FlightFresh, ApartInv, InHand, WithAgent, recordVars, appVars, agentVars,
         textVars, endVars
<1>2. SuffixInv'
  BY ElemsOfEmpty, AllPosted
     DEF SuffixInv, Stopped, Given, Converging, At, Goto, recordVars, textVars
<1>3. ASSUME KeptInv, "crashInHand" \notin Races PROVE KeptInv'
  BY <1>3, ElemsOfEmpty, AllPosted
     DEF KeptInv, Stopped, WithAgent, InHand, recordVars, appVars, agentVars, textVars, endVars
<1> QED BY <1>1, <1>2, <1>3

\* The drain's look at the agent keeps each text in one place, and loses none unless
\* crashInHand lets it.
LEMMA PlaceDrain ==
    ASSUME BookInv, FlightFresh, SuffixInv, ApartInv, Drain
    PROVE  /\ FlightFresh' /\ SuffixInv' /\ ApartInv'
           /\ KeptInv /\ "crashInHand" \notin Races => KeptInv'
<1> USE RebindAssumption DEF BookInv
<1>1. FlightFresh'
  BY DEF Drain, FlightFresh, appVars, textVars
<1>2. SuffixInv'
  BY ElemsOfEmpty, AllPosted
     DEF SuffixInv, Drain, Given, Converging, At, Live, Goto, recordVars, textVars, endVars
<1>3. ApartInv'
  <2>1. /\ turns' = turns /\ hand' = hand /\ flight' = flight /\ composer' = composer
        /\ doomed' = doomed /\ rebind' = rebind
    BY DEF Drain, recordVars, appVars, textVars, endVars
  <2>2. hand = Nothing /\ block = <<>>
    BY DEF Drain, HandInv, Live, At
  <2>3. CASE block' = inbox /\ inbox' = <<>>
    BY <2>1, <2>2, <2>3, ElemsOfEmpty, EmptyDistinct DEF ApartInv, WithAgent, InHand
  <2>4. CASE block' = block /\ inbox' = inbox
    BY <2>1, <2>4 DEF ApartInv, WithAgent, InHand
  <2> QED BY <2>3, <2>4 DEF Drain
<1>4. ASSUME KeptInv, "crashInHand" \notin Races PROVE KeptInv'
  BY <1>4, ElemsOfEmpty, AllPosted
     DEF KeptInv, Drain, WithAgent, InHand, OthersPosted, BlockPosted, HandInv, At, Live, EndInv,
         RunnerInv, RecordInv, Converging, RecordType, Rebinds, Race, recordVars, appVars,
         textVars, endVars
<1> QED BY <1>1, <1>2, <1>3, <1>4

\* The end of the drain keeps each text in one place, and loses none unless crashInHand
\* lets it.
LEMMA PlaceDrained ==
    ASSUME BookInv, FlightFresh, SuffixInv, ApartInv, Drained
    PROVE  /\ FlightFresh' /\ SuffixInv' /\ ApartInv'
           /\ KeptInv /\ "crashInHand" \notin Races => KeptInv'
<1> USE RebindAssumption DEF BookInv
<1>1. FlightFresh'
  BY DEF Drained, FlightFresh, appVars
<1>2. SuffixInv'
  BY ElemsOfEmpty, AllPosted
     DEF SuffixInv, Drained, Fault, RecordType, Rebinds, ThreadType, Given, Converging, At, Live,
         Goto, RunnerInv, RecordInv, EndInv, HandInv, endVars
<1>3. ApartInv'
  BY ElemsOfEmpty, AllPosted
     DEF ApartInv, Drained, Fault, FlightFresh, WithAgent, InHand, OthersPosted, BlockPosted,
         HandInv, At, Live, EndInv, RunnerInv, RecordType, Rebinds, recordVars, appVars,
         threadVars, agentVars, textVars, endVars, countVars
<1>4. ASSUME KeptInv, "crashInHand" \notin Races PROVE KeptInv'
  BY <1>4, ElemsOfEmpty, AllPosted
     DEF KeptInv, Drained, Fault, WithAgent, InHand, OthersPosted, BlockPosted, HandInv, At, Live,
         EndInv, RunnerInv, RecordInv, Converging, RecordType, Rebinds, Race, recordVars, appVars,
         threadVars, agentVars, textVars, endVars, countVars
<1> QED BY <1>1, <1>2, <1>3, <1>4

\* The record's way into the restart keeps each text in one place, and loses none
\* unless crashInHand lets it.
LEMMA PlaceRestart ==
    ASSUME BookInv, FlightFresh, SuffixInv, ApartInv, Restart
    PROVE  /\ FlightFresh' /\ SuffixInv' /\ ApartInv'
           /\ KeptInv /\ "crashInHand" \notin Races => KeptInv'
<1> USE RebindAssumption DEF BookInv
<1>1. FlightFresh'
  BY DEF Restart, FlightFresh, appVars, textVars
<1>2. SuffixInv'
  BY ElemsOfEmpty, AllPosted
     DEF SuffixInv, Restart, FailStep, Fault, HasLanded, RecordType, Rebinds, ThreadType, Given,
         Converging, At, Live, Goto, RunnerInv, RecordInv, EndInv, HandInv, textVars
<1>3. ApartInv'
  BY ElemsOfEmpty, AllPosted
     DEF ApartInv, Restart, FailStep, Fault, HasLanded, FlightFresh, WithAgent, InHand,
         OthersPosted, BlockPosted, HandInv, At, Live, EndInv, RunnerInv, RecordType, Rebinds,
         recordVars, appVars, threadVars, agentVars, textVars, endVars, countVars
<1>4. ASSUME KeptInv, "crashInHand" \notin Races PROVE KeptInv'
  BY <1>4, ElemsOfEmpty, AllPosted
     DEF KeptInv, Restart, FailStep, Fault, HasLanded, WithAgent, InHand, OthersPosted,
         BlockPosted, HandInv, At, Live, EndInv, RunnerInv, RecordInv, Converging, RecordType,
         Rebinds, Race, recordVars, appVars, threadVars, agentVars, textVars, endVars, countVars
<1> QED BY <1>1, <1>2, <1>3, <1>4

\* The stop of the agent keeps each text in one place, and loses none unless
\* crashInHand lets it.
LEMMA PlaceStopAgent ==
    ASSUME BookInv, FlightFresh, SuffixInv, ApartInv, StopAgent
    PROVE  /\ FlightFresh' /\ SuffixInv' /\ ApartInv'
           /\ KeptInv /\ "crashInHand" \notin Races => KeptInv'
<1> USE RebindAssumption DEF BookInv
<1>1. FlightFresh'
  BY DEF StopAgent, FlightFresh
<1>2. SuffixInv'
  BY ElemsOfEmpty, AllPosted
     DEF SuffixInv, StopAgent, FailStep, Fault, Refused, RecordType, Rebinds, ThreadType, Given,
         Converging, At, Live, Goto, RunnerInv, RecordInv, EndInv, HandInv, endVars
<1>3. ApartInv'
  <2>1. /\ turns' = turns /\ hand' = hand /\ flight' = flight /\ composer' = composer
        /\ doomed' = doomed /\ block' = block
    BY DEF StopAgent, endVars
  <2>2. inbox' = inbox \/ inbox' = <<>>
    BY DEF StopAgent
  <2>3. rebind'.held = rebind.held
    BY DEF StopAgent, FailStep, RecordType, Rebinds
  <2> QED BY <2>1, <2>2, <2>3, ElemsOfEmpty, EmptyDistinct DEF ApartInv, WithAgent, InHand
<1>4. ASSUME KeptInv, "crashInHand" \notin Races PROVE KeptInv'
  BY <1>4, ElemsOfEmpty, AllPosted
     DEF KeptInv, StopAgent, FailStep, Fault, Refused, WithAgent, InHand, OthersPosted,
         BlockPosted, HandInv, At, Live, EndInv, RunnerInv, RecordInv, Converging, RecordType,
         Rebinds, Race, endVars
<1> QED BY <1>1, <1>2, <1>3, <1>4

\* The note of where the files are keeps each text in one place, and loses none unless
\* crashInHand lets it.
LEMMA PlaceRecordWhere ==
    ASSUME BookInv, FlightFresh, SuffixInv, ApartInv, RecordWhere
    PROVE  /\ FlightFresh' /\ SuffixInv' /\ ApartInv'
           /\ KeptInv /\ "crashInHand" \notin Races => KeptInv'
<1> USE RebindAssumption DEF BookInv
<1>1. FlightFresh'
  BY DEF RecordWhere, FlightFresh, appVars, textVars
<1>2. SuffixInv'
  BY ElemsOfEmpty, AllPosted
     DEF SuffixInv, RecordWhere, FailStep, Fault, RecordType, Rebinds, ThreadType, Given,
         Converging, At, Live, Goto, RunnerInv, RecordInv, EndInv, HandInv, textVars, endVars
<1>3. ApartInv'
  BY ElemsOfEmpty, AllPosted
     DEF ApartInv, RecordWhere, FailStep, Fault, FlightFresh, WithAgent, InHand, OthersPosted,
         BlockPosted, HandInv, At, Live, EndInv, RunnerInv, RecordType, Rebinds, appVars,
         agentVars, textVars, endVars
<1>4. ASSUME KeptInv, "crashInHand" \notin Races PROVE KeptInv'
  BY <1>4 DEF KeptInv, RecordWhere, FailStep, WithAgent, InHand, RecordType, Rebinds, appVars,
              agentVars, textVars, endVars
<1> QED BY <1>1, <1>2, <1>3, <1>4

\* The move of one file keeps each text in one place, and loses none unless crashInHand
\* lets it.
LEMMA PlaceMoveFile ==
    ASSUME BookInv, FlightFresh, SuffixInv, ApartInv, NEW f \in Files, MoveFile(f)
    PROVE  /\ FlightFresh' /\ SuffixInv' /\ ApartInv'
           /\ KeptInv /\ "crashInHand" \notin Races => KeptInv'
<1> USE RebindAssumption DEF BookInv
<1>1. FlightFresh' /\ SuffixInv' /\ ApartInv'
  BY DEF MoveFile, FlightFresh, SuffixInv, ApartInv, At, Converging, Given, InHand, WithAgent,
         recordVars, appVars, threadVars, textVars, endVars
<1>2. ASSUME KeptInv, "crashInHand" \notin Races PROVE KeptInv'
  BY <1>2, ElemsOfEmpty, AllPosted
     DEF KeptInv, MoveFile, WithAgent, InHand, At, Live, recordVars, appVars, threadVars,
         textVars, endVars
<1> QED BY <1>1, <1>2

\* The end of the move keeps each text in one place, and loses none unless crashInHand
\* lets it.
LEMMA PlaceMoveEnds ==
    ASSUME BookInv, FlightFresh, SuffixInv, ApartInv, MoveEnds
    PROVE  /\ FlightFresh' /\ SuffixInv' /\ ApartInv'
           /\ KeptInv /\ "crashInHand" \notin Races => KeptInv'
<1> USE RebindAssumption DEF BookInv
<1>1. FlightFresh'
  BY DEF MoveEnds, FlightFresh, appVars, textVars
<1>2. SuffixInv'
  BY ElemsOfEmpty, AllPosted
     DEF SuffixInv, MoveEnds, FailStep, Fault, RecordType, Rebinds, ThreadType, Given, Converging,
         At, Live, Goto, RunnerInv, RecordInv, EndInv, HandInv, textVars, endVars
<1>3. ApartInv'
  BY ElemsOfEmpty, AllPosted
     DEF ApartInv, MoveEnds, FailStep, Fault, FlightFresh, WithAgent, InHand, OthersPosted,
         BlockPosted, HandInv, At, Live, EndInv, RunnerInv, RecordType, Rebinds, appVars,
         agentVars, textVars, endVars
<1>4. ASSUME KeptInv, "crashInHand" \notin Races PROVE KeptInv'
  BY <1>4, ElemsOfEmpty, AllPosted
     DEF KeptInv, MoveEnds, FailStep, Fault, WithAgent, InHand, OthersPosted, BlockPosted,
         HandInv, At, Live, EndInv, RunnerInv, RecordInv, Converging, RecordType, Rebinds, Race,
         appVars, agentVars, textVars, endVars
<1> QED BY <1>1, <1>2, <1>3, <1>4

\* The write of the environment file keeps each text in one place, and loses none
\* unless crashInHand lets it.
LEMMA PlaceRebindAgent ==
    ASSUME BookInv, FlightFresh, SuffixInv, ApartInv, RebindAgent
    PROVE  /\ FlightFresh' /\ SuffixInv' /\ ApartInv'
           /\ KeptInv /\ "crashInHand" \notin Races => KeptInv'
<1> USE RebindAssumption DEF BookInv
<1>1. FlightFresh'
  BY DEF RebindAgent, FlightFresh, appVars, textVars
<1>2. SuffixInv'
  BY ElemsOfEmpty, AllPosted
     DEF SuffixInv, RebindAgent, FailStep, Fault, Refused, RecordType, Rebinds, ThreadType, Given,
         Converging, At, Live, Goto, RunnerInv, RecordInv, EndInv, HandInv, textVars
<1>3. ApartInv'
  BY ElemsOfEmpty, AllPosted
     DEF ApartInv, RebindAgent, FailStep, Fault, Refused, FlightFresh, WithAgent, InHand,
         OthersPosted, BlockPosted, HandInv, At, Live, EndInv, RunnerInv, RecordType, Rebinds,
         recordVars, appVars, threadVars, agentVars, textVars, endVars, countVars
<1>4. ASSUME KeptInv, "crashInHand" \notin Races PROVE KeptInv'
  BY <1>4, ElemsOfEmpty, AllPosted
     DEF KeptInv, RebindAgent, FailStep, Fault, Refused, WithAgent, InHand, OthersPosted,
         BlockPosted, HandInv, At, Live, EndInv, RunnerInv, RecordInv, Converging, RecordType,
         Rebinds, Race, recordVars, appVars, threadVars, agentVars, textVars, endVars, countVars
<1> QED BY <1>1, <1>2, <1>3, <1>4

\* The eviction of the watcher keeps each text in one place, and loses none unless
\* crashInHand lets it.
LEMMA PlaceEvictWatcher ==
    ASSUME BookInv, FlightFresh, SuffixInv, ApartInv, EvictWatcher
    PROVE  /\ FlightFresh' /\ SuffixInv' /\ ApartInv'
           /\ KeptInv /\ "crashInHand" \notin Races => KeptInv'
<1> USE RebindAssumption DEF BookInv
<1>1. FlightFresh' /\ ApartInv'
  BY DEF EvictWatcher, FlightFresh, ApartInv, InHand, WithAgent, recordVars, agentVars, textVars,
         endVars
<1>2. SuffixInv'
  BY ElemsOfEmpty, AllPosted
     DEF SuffixInv, EvictWatcher, Converging, At, Live, Goto, recordVars, textVars
<1>3. ASSUME KeptInv, "crashInHand" \notin Races PROVE KeptInv'
  BY <1>3, ElemsOfEmpty, AllPosted
     DEF KeptInv, EvictWatcher, Evicted, WithAgent, InHand, At, Live, recordVars, agentVars,
         textVars, endVars
<1> QED BY <1>1, <1>2, <1>3

\* The agent's new label keeps each text in one place, and loses none unless
\* crashInHand lets it.
LEMMA PlaceRelabel ==
    ASSUME BookInv, FlightFresh, SuffixInv, ApartInv, Relabel
    PROVE  /\ FlightFresh' /\ SuffixInv' /\ ApartInv'
           /\ KeptInv /\ "crashInHand" \notin Races => KeptInv'
<1> USE RebindAssumption DEF BookInv
<1>1. FlightFresh'
  BY DEF Relabel, FlightFresh, textVars
<1>2. SuffixInv'
  BY ElemsOfEmpty, AllPosted
     DEF SuffixInv, Relabel, FailStep, Fault, Refused, Noted, RecordType, Rebinds, ThreadType,
         Given, Converging, At, Live, Goto, RunnerInv, RecordInv, EndInv, HandInv, textVars,
         endVars
<1>3. ApartInv'
  BY ElemsOfEmpty, AllPosted
     DEF ApartInv, Relabel, FailStep, Fault, Refused, Noted, FlightFresh, WithAgent, InHand,
         OthersPosted, BlockPosted, HandInv, At, Live, EndInv, RunnerInv, RecordType, Rebinds,
         recordVars, appVars, threadVars, agentVars, textVars, endVars, countVars
<1>4. ASSUME KeptInv, "crashInHand" \notin Races PROVE KeptInv'
  BY <1>4, ElemsOfEmpty, AllPosted
     DEF KeptInv, Relabel, FailStep, Fault, Refused, Noted, WithAgent, InHand, OthersPosted,
         BlockPosted, HandInv, At, Live, EndInv, RunnerInv, RecordInv, Converging, RecordType,
         Rebinds, Race, textVars, endVars
<1> QED BY <1>1, <1>2, <1>3, <1>4

\* The start of the agent keeps each text in one place, and loses none unless
\* crashInHand lets it.
LEMMA PlaceStartAgent ==
    ASSUME BookInv, FlightFresh, SuffixInv, ApartInv, StartAgent
    PROVE  /\ FlightFresh' /\ SuffixInv' /\ ApartInv'
           /\ KeptInv /\ "crashInHand" \notin Races => KeptInv'
<1> USE RebindAssumption DEF BookInv
<1>1. FlightFresh'
  BY DEF StartAgent, FlightFresh, textVars
<1>2. SuffixInv'
  BY ElemsOfEmpty, AllPosted
     DEF SuffixInv, StartAgent, FailStep, Fault, Refused, Started, RecordType, Rebinds,
         ThreadType, Given, Converging, At, Live, Goto, RunnerInv, RecordInv, EndInv, HandInv,
         textVars, endVars
<1>3. ApartInv'
  BY ElemsOfEmpty, AllPosted
     DEF ApartInv, StartAgent, FailStep, Fault, Refused, Started, FlightFresh, WithAgent, InHand,
         OthersPosted, BlockPosted, HandInv, At, Live, EndInv, RunnerInv, RecordType, Rebinds,
         textVars, endVars
<1>4. ASSUME KeptInv, "crashInHand" \notin Races PROVE KeptInv'
  BY <1>4, ElemsOfEmpty, AllPosted
     DEF KeptInv, StartAgent, FailStep, Fault, Refused, Started, WithAgent, InHand, OthersPosted,
         BlockPosted, HandInv, At, Live, EndInv, RunnerInv, RecordInv, Converging, RecordType,
         Rebinds, Race, recordVars, appVars, threadVars, agentVars, textVars, endVars, countVars
<1> QED BY <1>1, <1>2, <1>3, <1>4

\* The write that lands the restart keeps each text in one place, and loses none unless
\* crashInHand lets it.
LEMMA PlaceLand ==
    ASSUME BookInv, FlightFresh, SuffixInv, ApartInv, Land
    PROVE  /\ FlightFresh' /\ SuffixInv' /\ ApartInv'
           /\ KeptInv /\ "crashInHand" \notin Races => KeptInv'
<1> USE RebindAssumption DEF BookInv
<1>1. FlightFresh'
  BY DEF Land, FlightFresh, appVars, textVars
<1>2. SuffixInv'
  BY ElemsOfEmpty, AllPosted
     DEF SuffixInv, Land, FailStep, Fault, RecordType, Rebinds, ThreadType, Given, Converging, At,
         Live, Goto, RunnerInv, RecordInv, EndInv, HandInv, textVars, endVars
<1>3. ApartInv'
  BY ElemsOfEmpty, AllPosted
     DEF ApartInv, Land, FailStep, Fault, FlightFresh, WithAgent, InHand, OthersPosted,
         BlockPosted, HandInv, At, Live, EndInv, RunnerInv, RecordType, Rebinds, recordVars,
         appVars, threadVars, agentVars, textVars, endVars, countVars
<1>4. ASSUME KeptInv, "crashInHand" \notin Races PROVE KeptInv'
  BY <1>4, ElemsOfEmpty, AllPosted
     DEF KeptInv, Land, FailStep, Fault, WithAgent, InHand, OthersPosted, BlockPosted, HandInv,
         At, Live, EndInv, RunnerInv, RecordInv, Converging, RecordType, Rebinds, Race,
         recordVars, appVars, threadVars, agentVars, textVars, endVars, countVars
<1> QED BY <1>1, <1>2, <1>3, <1>4

\* The model picked, sent to the agent keeps each text in one place, and loses none
\* unless crashInHand lets it.
LEMMA PlaceApplyModelPick ==
    ASSUME BookInv, FlightFresh, SuffixInv, ApartInv, ApplyModelPick
    PROVE  /\ FlightFresh' /\ SuffixInv' /\ ApartInv'
           /\ KeptInv /\ "crashInHand" \notin Races => KeptInv'
<1> USE RebindAssumption DEF BookInv
<1>1. FlightFresh'
  BY DEF ApplyModelPick, FlightFresh, textVars
<1>2. SuffixInv'
  BY ElemsOfEmpty, AllPosted
     DEF SuffixInv, ApplyModelPick, FailStep, Fault, Refused, Started, PickWanted, RecordType,
         Rebinds, ThreadType, Given, Converging, At, Live, Goto, RunnerInv, RecordInv, EndInv,
         HandInv, textVars
<1>3. ApartInv'
  BY ElemsOfEmpty, AllPosted
     DEF ApartInv, ApplyModelPick, FailStep, Fault, Refused, Started, PickWanted, FlightFresh,
         WithAgent, InHand, OthersPosted, BlockPosted, HandInv, At, Live, EndInv, RunnerInv,
         RecordType, Rebinds, textVars, endVars
<1>4. ASSUME KeptInv, "crashInHand" \notin Races PROVE KeptInv'
  BY <1>4, ElemsOfEmpty, AllPosted
     DEF KeptInv, ApplyModelPick, FailStep, Fault, Refused, Started, PickWanted, WithAgent,
         InHand, OthersPosted, BlockPosted, HandInv, At, Live, EndInv, RunnerInv, RecordInv,
         Converging, RecordType, Rebinds, Race, textVars, endVars
<1> QED BY <1>1, <1>2, <1>3, <1>4

\* The note that the pick is done keeps each text in one place, and loses none unless
\* crashInHand lets it.
LEMMA PlaceNotePick ==
    ASSUME BookInv, FlightFresh, SuffixInv, ApartInv, NotePick
    PROVE  /\ FlightFresh' /\ SuffixInv' /\ ApartInv'
           /\ KeptInv /\ "crashInHand" \notin Races => KeptInv'
<1> USE RebindAssumption DEF BookInv
<1>1. FlightFresh'
  BY DEF NotePick, FlightFresh, appVars, textVars
<1>2. SuffixInv'
  BY ElemsOfEmpty, AllPosted
     DEF SuffixInv, NotePick, FailStep, Fault, RecordType, Rebinds, ThreadType, Given, Converging,
         At, Live, Goto, RunnerInv, RecordInv, EndInv, HandInv, textVars, endVars
<1>3. ApartInv'
  BY ElemsOfEmpty, AllPosted
     DEF ApartInv, NotePick, FailStep, Fault, FlightFresh, WithAgent, InHand, OthersPosted,
         BlockPosted, HandInv, At, Live, EndInv, RunnerInv, RecordType, Rebinds, recordVars,
         appVars, threadVars, agentVars, textVars, endVars, countVars
<1>4. ASSUME KeptInv, "crashInHand" \notin Races PROVE KeptInv'
  BY <1>4, ElemsOfEmpty, AllPosted
     DEF KeptInv, NotePick, FailStep, Fault, WithAgent, InHand, OthersPosted, BlockPosted,
         HandInv, At, Live, EndInv, RunnerInv, RecordInv, Converging, RecordType, Rebinds, Race,
         appVars, agentVars, textVars, endVars
<1> QED BY <1>1, <1>2, <1>3, <1>4

\* The look before the held sends go out keeps each text in one place, and loses none
\* unless crashInHand lets it.
LEMMA PlaceDeliverHeldSends ==
    ASSUME BookInv, FlightFresh, SuffixInv, ApartInv, DeliverHeldSends
    PROVE  /\ FlightFresh' /\ SuffixInv' /\ ApartInv'
           /\ KeptInv /\ "crashInHand" \notin Races => KeptInv'
<1> USE RebindAssumption DEF BookInv
<1>1. FlightFresh' /\ ApartInv'
  BY DEF DeliverHeldSends, FlightFresh, ApartInv, InHand, WithAgent, recordVars, appVars,
         agentVars, textVars, endVars
<1>2. SuffixInv'
  BY ElemsOfEmpty, AllPosted
     DEF SuffixInv, DeliverHeldSends, Given, Converging, At, Live, Goto, recordVars, textVars,
         endVars
<1>3. ASSUME KeptInv, "crashInHand" \notin Races PROVE KeptInv'
  BY <1>3, ElemsOfEmpty, AllPosted
     DEF KeptInv, DeliverHeldSends, WithAgent, InHand, At, Live, recordVars, appVars, agentVars,
         textVars, endVars
<1> QED BY <1>1, <1>2, <1>3

\* The next held send, taken from the record keeps each text in one place, and loses
\* none unless crashInHand lets it.
LEMMA PlaceTakeNextHeldSend ==
    ASSUME BookInv, FlightFresh, SuffixInv, ApartInv, TakeNextHeldSend
    PROVE  /\ FlightFresh' /\ SuffixInv' /\ ApartInv'
           /\ KeptInv /\ "crashInHand" \notin Races => KeptInv'
<1> USE RebindAssumption DEF BookInv
<1>1. FlightFresh'
  BY DEF TakeNextHeldSend, FlightFresh, appVars, textVars
<1>2. SuffixInv'
  <2>1. log' = log /\ destroyed' = destroyed /\ ~At("send")
    BY DEF TakeNextHeldSend, textVars, endVars, Live, At
  <2>2. CASE /\ rebind.held # <<>> /\ rebind'.held = Tail(rebind.held)
             /\ hand' = Head(rebind.held) /\ rebind'.phase = rebind.phase
    <3>1. /\ Len(rebind.held) \in Nat \ {0} /\ Len(rebind'.held) = Len(rebind.held) - 1
          /\ \A i \in 1 .. Len(rebind.held) - 1 : rebind'.held[i] = rebind.held[i + 1]
          /\ hand' = rebind.held[1]
      <4>1. rebind.held \in Seq(Messages)
        BY DEF RecordType, Rebinds
      <4> QED BY <2>2, <4>1, HeadTailProperties, EmptySeq, LenProperties
    <3>2. Len(log) \in Nat
      BY LenProperties DEF OthersPosted
    <3>3. Converging
      BY <2>1, <2>2 DEF RecordInv, NoRebind
    <3>4. Len(rebind.held) <= Len(log) /\ Given' = Given + 1 /\ Given \in Nat
      BY <2>1, <3>1, <3>2, <3>3 DEF SuffixInv, Ends, Given
    <3>5. \A i \in 1 .. Len(rebind.held) : rebind.held[i] = log[Given + i]
      BY <3>3 DEF SuffixInv, Ends, Given
    <3>6. ASSUME NEW i \in 1 .. Len(rebind.held) - 1
          PROVE  rebind'.held[i] = log[Given + 1 + i]
      <4>1. i + 1 \in 1 .. Len(rebind.held) /\ Given + (i + 1) = Given + 1 + i
        BY <3>1, <3>4
      <4> QED BY <3>1, <3>5, <4>1
    <3>7. hand' = log[Given + 1]
      <4>1. 1 \in 1 .. Len(rebind.held)
        BY <3>1
      <4> QED BY <3>1, <3>5, <4>1
    <3>8. Ends(rebind'.held, log')
      <4>1. Len(log') - Len(rebind'.held) = Given + 1 /\ Len(rebind'.held) <= Len(log')
        BY <2>1, <3>1, <3>2, <3>4 DEF Given
      <4>2. \A i \in 1 .. Len(rebind'.held) : rebind'.held[i] = log'[Given + 1 + i]
        BY <2>1, <3>1, <3>6
      <4> QED BY <4>1, <4>2 DEF Ends
    <3> QED BY <2>1, <3>4, <3>7, <3>8 DEF SuffixInv
  <2>3. CASE rebind'.held = rebind.held /\ hand' = hand /\ pc'.step = "idle"
    <3>1. Converging
      BY DEF TakeNextHeldSend, Live, At, RunnerInv, RecordInv, Converging
    <3>2. Given' = Given
      BY <2>1, <2>3 DEF Given
    <3> QED BY <2>1, <2>3, <3>1, <3>2 DEF SuffixInv, At
  <2>4. CASE rebind' = NoRebind /\ pc'.step = "idle"
    BY <2>1, <2>4 DEF SuffixInv, NoRebind, Converging, At
  <2> QED BY TakeTexts, <2>2, <2>3, <2>4
<1>3. ApartInv'
  <2>1. /\ turns' = turns /\ inbox' = inbox /\ block' = block /\ flight' = flight
        /\ composer' = composer /\ doomed' = doomed
    BY DEF TakeNextHeldSend, appVars, agentVars, textVars, endVars
  <2>2. hand = Nothing
    BY DEF TakeNextHeldSend, Live, At, HandInv
  <2>3. CASE rebind.held # <<>> /\ rebind'.held = Tail(rebind.held) /\ hand' = Head(rebind.held)
    <3>1. /\ Elems(rebind.held) = Elems(rebind'.held) \cup {hand'}
          /\ hand' \notin Elems(rebind'.held)
      BY <2>3, ElemsOfHeadTail DEF HeldPosted, HeldInv
    <3> QED BY <2>1, <2>2, <3>1 DEF ApartInv, WithAgent, InHand
  <2>4. CASE hand' = hand /\ rebind'.held = rebind.held
    BY <2>1, <2>4 DEF ApartInv, WithAgent, InHand
  <2>5. CASE hand' = hand /\ rebind'.held = <<>>
    BY <2>1, <2>5, ElemsOfEmpty DEF ApartInv, WithAgent, InHand
  <2> QED BY TakeTexts, <2>3, <2>4, <2>5 DEF NoRebind
<1>4. ASSUME KeptInv, "crashInHand" \notin Races PROVE KeptInv'
  <2>1. /\ turns' = turns /\ inbox' = inbox /\ block' = block /\ flight' = flight
        /\ composer' = composer /\ doomed' = doomed /\ posts' = posts
        /\ refused' = refused /\ cut' = cut
    BY DEF TakeNextHeldSend, appVars, agentVars, textVars, endVars
  <2>2. hand = Nothing
    BY DEF TakeNextHeldSend, Live, At, HandInv
  <2>3. CASE rebind.held # <<>> /\ rebind'.held = Tail(rebind.held) /\ hand' = Head(rebind.held)
    <3>1. Elems(rebind.held) = Elems(rebind'.held) \cup {hand'} /\ hand' # Nothing
      <4>1. Head(rebind.held) \in posts
        BY <2>3, HeadTailProperties DEF HeldPosted
      <4> QED BY <2>3, <4>1, ElemsOfHeadTail DEF HeldPosted, HeldInv, OthersPosted
    <3> QED BY <1>4, <2>1, <2>2, <3>1 DEF KeptInv, WithAgent, InHand
  <2>4. CASE hand' = hand /\ rebind'.held = rebind.held
    BY <1>4, <2>1, <2>4 DEF KeptInv, WithAgent, InHand
  <2>5. CASE hand' = hand /\ rebind'.held = <<>> /\ rebind.held = <<>>
    BY <1>4, <2>1, <2>5 DEF KeptInv, WithAgent, InHand
  <2> QED BY TakeTexts, <2>3, <2>4, <2>5 DEF NoRebind
<1> QED BY <1>1, <1>2, <1>3, <1>4

\* The delivery of the held send in hand keeps each text in one place, and loses none
\* unless crashInHand lets it.
LEMMA PlaceDeliverHeldSend ==
    ASSUME BookInv, FlightFresh, SuffixInv, ApartInv, DeliverHeldSend
    PROVE  /\ FlightFresh' /\ SuffixInv' /\ ApartInv'
           /\ KeptInv /\ "crashInHand" \notin Races => KeptInv'
<1> USE RebindAssumption DEF BookInv
<1>1. FlightFresh'
  BY DEF DeliverHeldSend, FlightFresh
<1>2. SuffixInv'
  BY ElemsOfEmpty, AllPosted
     DEF SuffixInv, DeliverHeldSend, Converging, At, Goto, recordVars, endVars
<1>3. ApartInv'
  <2>1. /\ turns' = turns /\ block' = block /\ hand' = Nothing /\ flight' = flight
        /\ composer' = composer /\ doomed' = doomed /\ rebind' = rebind
    BY DEF DeliverHeldSend, recordVars, endVars
  <2>2. hand \in posts /\ hand # Nothing /\ block = <<>>
    BY DEF DeliverHeldSend, At, HandInv, BlockPosted, Maybe
  <2>3. CASE Reaches(hand)
    <3>1. /\ Elems(inbox') = Elems(inbox) \cup {hand}
          /\ Distinct(inbox) /\ hand \notin Elems(inbox) => Distinct(inbox')
      BY <2>2, <2>3, ReachesTexts
    <3>2. hand \in InHand /\ InHand' = {}
      BY <2>1, <2>2, ElemsOfEmpty DEF InHand
    <3> QED BY <2>1, <3>1, <3>2 DEF ApartInv, WithAgent
  <2>4. CASE inbox' = inbox
    BY <2>1, <2>4 DEF ApartInv, WithAgent, InHand
  <2> QED BY <2>3, <2>4 DEF DeliverHeldSend
<1>4. ASSUME KeptInv, "crashInHand" \notin Races PROVE KeptInv'
  <2>1. /\ turns' = turns /\ block' = block /\ hand' = Nothing /\ flight' = flight
        /\ composer' = composer /\ doomed' = doomed /\ rebind' = rebind
        /\ posts' = posts /\ cut' = cut
    BY DEF DeliverHeldSend, recordVars, endVars
  <2>2. hand \in posts /\ hand # Nothing
    BY DEF DeliverHeldSend, HandInv, BlockPosted, Maybe
  <2>3. CASE Reaches(hand) /\ refused' = refused
    BY <1>4, <2>1, <2>2, <2>3, ReachesTexts DEF KeptInv, WithAgent, InHand
  <2>4. CASE inbox' = inbox /\ refused' = refused \cup {hand}
    BY <1>4, <2>1, <2>4 DEF KeptInv, WithAgent, InHand
  <2> QED BY <2>3, <2>4 DEF DeliverHeldSend
<1> QED BY <1>1, <1>2, <1>3, <1>4

\* A death of the app and its start keeps each text in one place, and loses none unless
\* crashInHand lets it.
LEMMA PlaceReboot ==
    ASSUME BookInv, FlightFresh, SuffixInv, ApartInv, Reboot
    PROVE  /\ FlightFresh' /\ SuffixInv' /\ ApartInv'
           /\ KeptInv /\ "crashInHand" \notin Races => KeptInv'
<1> USE RebindAssumption DEF BookInv
<1>1. FlightFresh'
  BY ElemsOfEmpty, AllPosted DEF FlightFresh, Reboot
<1>2. SuffixInv'
  BY ElemsOfEmpty, AllPosted
     DEF SuffixInv, Reboot, Started, ResumeLabel, Given, Converging, At, recordVars
<1>3. ApartInv'
  BY ElemsOfEmpty, AllPosted DEF ApartInv, Reboot, WithAgent, InHand, At, recordVars, endVars
<1>4. ASSUME KeptInv, "crashInHand" \notin Races PROVE KeptInv'
  BY <1>4, ElemsOfEmpty, AllPosted
     DEF KeptInv, Reboot, WithAgent, InHand, At, Race, recordVars, endVars
<1> QED BY <1>1, <1>2, <1>3, <1>4

\* What the observe stream says keeps each text in one place, and loses none unless
\* crashInHand lets it.
LEMMA PlaceObserve ==
    ASSUME BookInv, FlightFresh, SuffixInv, ApartInv, Observe
    PROVE  /\ FlightFresh' /\ SuffixInv' /\ ApartInv'
           /\ KeptInv /\ "crashInHand" \notin Races => KeptInv'
<1> USE RebindAssumption DEF BookInv
<1>1. FlightFresh' /\ SuffixInv' /\ ApartInv'
  BY DEF Observe, FlightFresh, SuffixInv, ApartInv, At, Converging, Given, InHand, WithAgent,
         recordVars, threadVars, agentVars, textVars, endVars
<1>2. ASSUME KeptInv, "crashInHand" \notin Races PROVE KeptInv'
  BY <1>2, ElemsOfEmpty, AllPosted
     DEF KeptInv, Observe, Fault, WithAgent, InHand, recordVars, threadVars, agentVars, textVars,
         endVars
<1> QED BY <1>1, <1>2

\* A death of the agent keeps each text in one place, and loses none unless crashInHand
\* lets it.
LEMMA PlaceAgentDies ==
    ASSUME BookInv, FlightFresh, SuffixInv, ApartInv, AgentDies
    PROVE  /\ FlightFresh' /\ SuffixInv' /\ ApartInv'
           /\ KeptInv /\ "crashInHand" \notin Races => KeptInv'
<1> USE RebindAssumption DEF BookInv
<1>1. FlightFresh' /\ SuffixInv'
  BY DEF AgentDies, FlightFresh, SuffixInv, At, Converging, Given, recordVars, appVars,
         threadVars, endVars
<1>2. ApartInv'
  <2>1. /\ turns' = turns /\ block' = block /\ hand' = hand /\ flight' = flight
        /\ composer' = composer /\ doomed' = doomed /\ rebind' = rebind /\ inbox' = <<>>
    BY DEF AgentDies, recordVars, appVars, threadVars, endVars
  <2> QED BY <2>1, ElemsOfEmpty, EmptyDistinct DEF ApartInv, WithAgent, InHand
<1>3. ASSUME KeptInv, "crashInHand" \notin Races PROVE KeptInv'
  BY <1>3, ElemsOfEmpty, AllPosted
     DEF KeptInv, AgentDies, Fault, WithAgent, InHand, recordVars, appVars, threadVars, endVars
<1> QED BY <1>1, <1>2, <1>3

\* A turn of the agent keeps each text in one place, and loses none unless crashInHand
\* lets it.
LEMMA PlaceAgentTurn ==
    ASSUME BookInv, FlightFresh, SuffixInv, ApartInv, AgentTurn
    PROVE  /\ FlightFresh' /\ SuffixInv' /\ ApartInv'
           /\ KeptInv /\ "crashInHand" \notin Races => KeptInv'
<1> USE RebindAssumption DEF BookInv
<1>1. FlightFresh' /\ SuffixInv'
  BY DEF AgentTurn, FlightFresh, SuffixInv, At, Converging, Given, recordVars, appVars,
         threadVars, textVars, endVars
<1>2. ApartInv'
  <2>1. /\ block' = block /\ hand' = hand /\ flight' = flight
        /\ composer' = composer /\ doomed' = doomed /\ rebind' = rebind /\ inbox' = <<>>
        /\ turns' = turns \o inbox
    BY DEF AgentTurn, recordVars, appVars, threadVars, textVars, endVars
  <2>2. Elems(turns') = Elems(turns) \cup Elems(inbox)
    BY <2>1, ElemsOfConcat DEF AgentPosted
  <2>3. ~doomed => Distinct(turns')
    BY <2>1, DistinctConcat DEF ApartInv, AgentPosted
  <2> QED BY <2>1, <2>2, <2>3, ElemsOfEmpty, EmptyDistinct DEF ApartInv, WithAgent, InHand
<1>3. ASSUME KeptInv, "crashInHand" \notin Races PROVE KeptInv'
  <2>1. /\ block' = block /\ hand' = hand /\ flight' = flight
        /\ composer' = composer /\ doomed' = doomed /\ rebind' = rebind /\ inbox' = <<>>
        /\ turns' = turns \o inbox /\ posts' = posts /\ cut' = cut /\ refused' = refused
    BY DEF AgentTurn, recordVars, appVars, threadVars, textVars, endVars
  <2>2. Elems(turns') = Elems(turns) \cup Elems(inbox)
    BY <2>1, ElemsOfConcat DEF AgentPosted
  <2> QED BY <1>3, <2>1, <2>2, ElemsOfEmpty DEF KeptInv, WithAgent, InHand
<1> QED BY <1>1, <1>2, <1>3

\* The destroyed chat's agent keeps each text in one place, and loses none unless
\* crashInHand lets it.
LEMMA PlaceDestroyAgent ==
    ASSUME BookInv, FlightFresh, SuffixInv, ApartInv, DestroyAgent
    PROVE  /\ FlightFresh' /\ SuffixInv' /\ ApartInv'
           /\ KeptInv /\ "crashInHand" \notin Races => KeptInv'
<1> USE RebindAssumption DEF BookInv
<1>1. FlightFresh' /\ SuffixInv'
  BY DEF DestroyAgent, FlightFresh, SuffixInv, At, Converging, Given, recordVars, appVars,
         threadVars, textVars
<1>2. ApartInv'
  BY ElemsOfEmpty, AllPosted DEF ApartInv, DestroyAgent
<1>3. ASSUME KeptInv, "crashInHand" \notin Races PROVE KeptInv'
  BY <1>3, ElemsOfEmpty, AllPosted DEF KeptInv, DestroyAgent
<1> QED BY <1>1, <1>2, <1>3

\* The destroyed chat's record keeps each text in one place, and loses none unless
\* crashInHand lets it.
LEMMA PlaceDestroyRecord ==
    ASSUME BookInv, FlightFresh, SuffixInv, ApartInv, DestroyRecord
    PROVE  /\ FlightFresh' /\ SuffixInv' /\ ApartInv'
           /\ KeptInv /\ "crashInHand" \notin Races => KeptInv'
<1> USE RebindAssumption DEF BookInv
<1>1. FlightFresh'
  BY DEF DestroyRecord, FlightFresh, textVars
<1>2. SuffixInv'
  BY ElemsOfEmpty, AllPosted
     DEF SuffixInv, DestroyRecord, NoRebind, Given, Converging, At, threadVars, textVars
<1>3. ApartInv'
  BY ElemsOfEmpty, AllPosted DEF ApartInv, DestroyRecord
<1>4. ASSUME KeptInv, "crashInHand" \notin Races PROVE KeptInv'
  BY <1>4, ElemsOfEmpty, AllPosted DEF KeptInv, DestroyRecord
<1> QED BY <1>1, <1>2, <1>3, <1>4

\* What the agent got is a sequence of posted texts.
LEMMA GotTyped ==
    ASSUME BookInv
    PROVE  /\ Got \in Seq(posts) /\ Elems(Got) = Elems(turns) \cup Elems(inbox)
           /\ turns \in Seq(posts) /\ inbox \in Seq(posts)
BY ConcatProperties, ElemsOfConcat DEF BookInv, AgentPosted, Got

\* A text that reaches the agent is the last it got.
LEMMA GotGrows ==
    ASSUME BookInv, NEW m \in posts, Reaches(m), turns' = turns
    PROVE  Got' = Append(Got, m)
<1>1. turns \in Seq(posts) /\ inbox \in Seq(posts) /\ <<m>> \in Seq(posts) /\ Got \in Seq(posts)
  BY GotTyped
<1>2. Append(inbox, m) = inbox \o <<m>> /\ Append(Got, m) = Got \o <<m>>
  BY <1>1, AppendIsConcat
<1>3. turns \o (inbox \o <<m>>) = (turns \o inbox) \o <<m>>
  BY <1>1, ConcatAssociative
<1> QED BY <1>2, <1>3 DEF Got, Reaches

\* An agent that dies keeps the turns it took.
LEMMA GotCut ==
    ASSUME BookInv, OrderInv, turns' = turns, inbox' = <<>>, log' = log
    PROVE  OrderInv'
<1>1. Got' = turns
  BY GotTyped, ConcatEmptySeq DEF Got
<1>2. InOrder(turns, log)
  BY GotTyped, OrderOfPrefix DEF OrderInv, Got
<1> QED BY <1>1, <1>2 DEF OrderInv

\* A send that the record holds keeps what the agent got in the order of the log.
LEMMA OrderHoldSend ==
    ASSUME BookInv, OrderInv, NEW m \in Messages, HoldSend(m)
    PROVE  OrderInv'
<1>1. Got' = Got /\ log' = Append(log, m) /\ m \notin posts
  BY DEF HoldSend, Got, agentVars
<1>2. m \notin Elems(Got)
  BY <1>1, GotTyped, AllPosted
<1>3. Got \in Seq(Messages) /\ log \in Seq(Messages)
  BY GotTyped, SeqMonotonic DEF BookInv, OthersPosted
<1> QED BY <1>1, <1>2, <1>3, OrderInAppended DEF OrderInv

\* A send that leaves the composer for the agent keeps what the agent got in the order
\* of the log.
LEMMA OrderResolveSend ==
    ASSUME BookInv, OrderInv, NEW m \in Messages, ResolveSend(m)
    PROVE  OrderInv'
BY DEF ResolveSend, OrderInv, Got, agentVars

\* A send that reaches its agent, or is refused keeps what the agent got in the order
\* of the log.
LEMMA OrderSendLands ==
    ASSUME BookInv, FlightFresh, SuffixInv, ApartInv, OrderInv, NEW m \in Messages, SendLands(m)
    PROVE  OrderInv'
<1>1. log' = log /\ turns' = turns /\ m \in posts /\ m \notin Elems(log)
  BY DEF SendLands, BookInv, OthersPosted, FlightFresh
<1>2. CASE inbox' = inbox
  BY <1>1, <1>2 DEF OrderInv, Got
<1>3. CASE Reaches(m)
  <2>1. Got' = Append(Got, m)
    BY <1>1, <1>3, GotGrows
  <2>2. \A q \in 1 .. Len(log) : m # log[q]
    BY <1>1 DEF Elems
  <2>3. Got \in Seq(posts) /\ log \in Seq(posts)
    BY GotTyped DEF BookInv, OthersPosted
  <2> QED BY <1>1, <2>1, <2>2, <2>3, OrderOfAppend DEF OrderInv
<1> QED BY <1>2, <1>3 DEF SendLands

\* A page that reads the binding keeps what the agent got in the order of the log.
LEMMA OrderReadBinding ==
    ASSUME BookInv, OrderInv, ReadBinding
    PROVE  OrderInv'
BY DEF ReadBinding, OrderInv, Got, agentVars, textVars

\* A watcher built on the binding read keeps what the agent got in the order of the
\* log.
LEMMA OrderBuildWatcher ==
    ASSUME BookInv, OrderInv, BuildWatcher
    PROVE  OrderInv'
BY DEF BuildWatcher, OrderInv, Got, agentVars, textVars

\* A rebind that begins keeps what the agent got in the order of the log.
LEMMA OrderBeginRebind ==
    ASSUME BookInv, OrderInv, NEW to \in Accounts, NEW m \in Messages, NEW k \in BOOLEAN,
           BeginRebind(to, m, k)
    PROVE  OrderInv'
<1>1. Got' = Got /\ log' = <<m>> /\ m \notin posts
  BY DEF BeginRebind, Got, agentVars
<1>2. m \notin Elems(Got)
  BY <1>1, GotTyped, AllPosted
<1> QED BY <1>1, <1>2, OrderInNew DEF OrderInv

\* A retry of a failed rebind keeps what the agent got in the order of the log.
LEMMA OrderRetryRebind ==
    ASSUME BookInv, OrderInv, NEW to \in Accounts, RetryRebind(to)
    PROVE  OrderInv'
BY DEF RetryRebind, OrderInv, Got, agentVars, textVars

\* A drain whose turn is stopped keeps what the agent got in the order of the log.
LEMMA OrderStopped ==
    ASSUME BookInv, OrderInv, Stopped
    PROVE  OrderInv'
BY DEF Stopped, OrderInv, Got, agentVars, textVars

\* The drain's look at the agent keeps what the agent got in the order of the log.
LEMMA OrderDrain ==
    ASSUME BookInv, OrderInv, Drain
    PROVE  OrderInv'
<1>1. log' = log /\ turns' = turns /\ inbox' \in {inbox, <<>>}
  BY DEF Drain, textVars
<1>2. inbox' = inbox => OrderInv'
  BY <1>1 DEF OrderInv, Got
<1> QED BY <1>1, <1>2, GotCut

\* The end of the drain keeps what the agent got in the order of the log.
LEMMA OrderDrained ==
    ASSUME BookInv, OrderInv, Drained
    PROVE  OrderInv'
BY DEF Drained, OrderInv, Got, agentVars

\* The record's way into the restart keeps what the agent got in the order of the log.
LEMMA OrderRestart ==
    ASSUME BookInv, OrderInv, Restart
    PROVE  OrderInv'
BY DEF Restart, OrderInv, Got, agentVars, textVars

\* The stop of the agent keeps what the agent got in the order of the log.
LEMMA OrderStopAgent ==
    ASSUME BookInv, OrderInv, StopAgent
    PROVE  OrderInv'
<1>1. log' = log /\ turns' = turns /\ inbox' \in {inbox, <<>>}
  BY DEF StopAgent, textVars
<1>2. inbox' = inbox => OrderInv'
  BY <1>1 DEF OrderInv, Got
<1> QED BY <1>1, <1>2, GotCut

\* The note of where the files are keeps what the agent got in the order of the log.
LEMMA OrderRecordWhere ==
    ASSUME BookInv, OrderInv, RecordWhere
    PROVE  OrderInv'
BY DEF RecordWhere, OrderInv, Got, agentVars, textVars

\* The move of one file keeps what the agent got in the order of the log.
LEMMA OrderMoveFile ==
    ASSUME BookInv, OrderInv, NEW f \in Files, MoveFile(f)
    PROVE  OrderInv'
BY DEF MoveFile, OrderInv, Got, textVars

\* The end of the move keeps what the agent got in the order of the log.
LEMMA OrderMoveEnds ==
    ASSUME BookInv, OrderInv, MoveEnds
    PROVE  OrderInv'
BY DEF MoveEnds, OrderInv, Got, agentVars, textVars

\* The write of the environment file keeps what the agent got in the order of the log.
LEMMA OrderRebindAgent ==
    ASSUME BookInv, OrderInv, RebindAgent
    PROVE  OrderInv'
BY DEF RebindAgent, OrderInv, Got, textVars

\* The eviction of the watcher keeps what the agent got in the order of the log.
LEMMA OrderEvictWatcher ==
    ASSUME BookInv, OrderInv, EvictWatcher
    PROVE  OrderInv'
BY DEF EvictWatcher, OrderInv, Got, agentVars, textVars

\* The agent's new label keeps what the agent got in the order of the log.
LEMMA OrderRelabel ==
    ASSUME BookInv, OrderInv, Relabel
    PROVE  OrderInv'
BY DEF Relabel, OrderInv, Got, textVars

\* The start of the agent keeps what the agent got in the order of the log.
LEMMA OrderStartAgent ==
    ASSUME BookInv, OrderInv, StartAgent
    PROVE  OrderInv'
BY DEF StartAgent, OrderInv, Got, textVars

\* The write that lands the restart keeps what the agent got in the order of the log.
LEMMA OrderLand ==
    ASSUME BookInv, OrderInv, Land
    PROVE  OrderInv'
BY DEF Land, OrderInv, Got, agentVars, textVars

\* The model picked, sent to the agent keeps what the agent got in the order of the
\* log.
LEMMA OrderApplyModelPick ==
    ASSUME BookInv, OrderInv, ApplyModelPick
    PROVE  OrderInv'
BY DEF ApplyModelPick, OrderInv, Got, textVars

\* The note that the pick is done keeps what the agent got in the order of the log.
LEMMA OrderNotePick ==
    ASSUME BookInv, OrderInv, NotePick
    PROVE  OrderInv'
BY DEF NotePick, OrderInv, Got, agentVars, textVars

\* The look before the held sends go out keeps what the agent got in the order of the
\* log.
LEMMA OrderDeliverHeldSends ==
    ASSUME BookInv, OrderInv, DeliverHeldSends
    PROVE  OrderInv'
BY DEF DeliverHeldSends, OrderInv, Got, agentVars, textVars

\* The next held send, taken from the record keeps what the agent got in the order of
\* the log.
LEMMA OrderTakeNextHeldSend ==
    ASSUME BookInv, OrderInv, TakeNextHeldSend
    PROVE  OrderInv'
BY DEF TakeNextHeldSend, OrderInv, Got, agentVars, textVars

\* The delivery of the held send in hand keeps what the agent got in the order of the
\* log.
LEMMA OrderDeliverHeldSend ==
    ASSUME BookInv, FlightFresh, SuffixInv, ApartInv, OrderInv, DeliverHeldSend
    PROVE  OrderInv'
<1>1. log' = log /\ turns' = turns /\ hand \in posts /\ At("send")
  BY DEF DeliverHeldSend, BookInv, HandInv, BlockPosted, Maybe
<1>2. CASE inbox' = inbox
  BY <1>1, <1>2 DEF OrderInv, Got
<1>3. CASE Reaches(hand)
  <2>1. Got' = Append(Got, hand)
    BY <1>1, <1>3, GotGrows
  <2>2. ~doomed /\ ~destroyed
    BY <1>3 DEF Reaches, Started, BookInv, EndInv
  <2>3. Got \in Seq(posts) /\ log \in Seq(posts) /\ rebind.held \in Seq(posts)
    BY GotTyped DEF BookInv, OthersPosted, HeldPosted
  <2>4. Converging
    BY <1>1, <2>2 DEF BookInv, RunnerInv, Converging, At
  <2>5. /\ Ends(rebind.held, log) /\ Distinct(log) /\ hand = log[Len(log) - Len(rebind.held)]
        /\ Len(log) - Len(rebind.held) >= 1
    BY <1>1, <2>2, <2>4 DEF SuffixInv, Given
  <2>6. Elems(Got) \cap Elems(rebind.held) = {}
    BY <2>2, GotTyped DEF ApartInv, WithAgent
  <2>7. InOrder(Append(Got, hand), log)
    BY <2>3, <2>5, <2>6, OrderOfDelivered DEF OrderInv
  <2> QED BY <1>1, <2>1, <2>7 DEF OrderInv
<1> QED BY <1>2, <1>3 DEF DeliverHeldSend

\* A death of the app and its start keeps what the agent got in the order of the log.
LEMMA OrderReboot ==
    ASSUME BookInv, OrderInv, Reboot
    PROVE  OrderInv'
BY DEF Reboot, OrderInv, Got

\* What the observe stream says keeps what the agent got in the order of the log.
LEMMA OrderObserve ==
    ASSUME BookInv, OrderInv, Observe
    PROVE  OrderInv'
BY DEF Observe, OrderInv, Got, agentVars, textVars

\* A death of the agent keeps what the agent got in the order of the log.
LEMMA OrderAgentDies ==
    ASSUME BookInv, OrderInv, AgentDies
    PROVE  OrderInv'
<1>1. log' = log /\ turns' = turns /\ inbox' \in {inbox, <<>>}
  BY DEF AgentDies, textVars
<1>2. inbox' = inbox => OrderInv'
  BY <1>1 DEF OrderInv, Got
<1> QED BY <1>1, <1>2, GotCut

\* A turn of the agent keeps what the agent got in the order of the log.
LEMMA OrderAgentTurn ==
    ASSUME BookInv, OrderInv, AgentTurn
    PROVE  OrderInv'
<1>1. turns' = Got /\ inbox' = <<>> /\ log' = log
  BY DEF AgentTurn, Got, textVars
<1>2. Got' = Got
  BY <1>1, GotTyped, ConcatEmptySeq DEF Got
<1> QED BY <1>1, <1>2 DEF OrderInv

\* The destroyed chat's agent keeps what the agent got in the order of the log.
LEMMA OrderDestroyAgent ==
    ASSUME BookInv, OrderInv, DestroyAgent
    PROVE  OrderInv'
<1>1. log' = log /\ turns' = turns /\ inbox' \in {inbox, <<>>}
  BY DEF DestroyAgent, textVars
<1>2. inbox' = inbox => OrderInv'
  BY <1>1 DEF OrderInv, Got
<1> QED BY <1>1, <1>2, GotCut

\* The destroyed chat's record keeps what the agent got in the order of the log.
LEMMA OrderDestroyRecord ==
    ASSUME BookInv, OrderInv, DestroyRecord
    PROVE  OrderInv'
BY DEF DestroyRecord, OrderInv, Got, agentVars, textVars

\* The places of a text, in terms of the state.
LEMMA PlacesAre ==
    ASSUME BookInv, NEW m \in posts
    PROVE  \A x : x \in Places(m) <=>
             \/ \E i \in 1 .. Len(rebind.held) : rebind.held[i] = m /\ x = <<"held", i>>
             \/ \E i \in 1 .. Len(Got) : Got[i] = m /\ x = <<"agent", i>>
             \/ m \in InHand /\ x = <<"hand">>
             \/ m \in flight /\ x = <<"flight">>
             \/ m \in composer /\ x = <<"composer">>
<1>1. m # Nothing
  BY RebindAssumption DEF BookInv, OthersPosted
<1>2. m \in InHand <=> hand = m \/ m \in Elems(block)
  BY <1>1 DEF InHand
<1> QED BY <1>2 DEF Places, Got

\* A text is not in two places.
LEMMA OnePlaceOf ==
    ASSUME BookInv, ApartInv, ~doomed, NEW m \in posts
    PROVE  Cardinality(Places(m)) <= 1
<1>1. m \in Elems(rebind.held) <=> \E i \in 1 .. Len(rebind.held) : rebind.held[i] = m
  BY DEF Elems
<1>2. m \in WithAgent <=> \E i \in 1 .. Len(Got) : Got[i] = m
  BY GotTyped DEF WithAgent, Elems
<1>3. Distinct(rebind.held) /\ Distinct(Got)
  BY DistinctConcat DEF BookInv, HeldInv, ApartInv, AgentPosted, Got
<1>4. ASSUME NEW x \in Places(m), NEW y \in Places(m) PROVE x = y
  <2>1. CASE m \in Elems(rebind.held)
    <3>1. m \notin WithAgent \cup InHand \cup flight \cup composer
      BY <2>1 DEF ApartInv
    <3>2. PICK i \in 1 .. Len(rebind.held) : rebind.held[i] = m /\ x = <<"held", i>>
      BY <1>2, <1>4, <3>1, PlacesAre
    <3>3. PICK j \in 1 .. Len(rebind.held) : rebind.held[j] = m /\ y = <<"held", j>>
      BY <1>2, <1>4, <3>1, PlacesAre
    <3> QED BY <1>3, <3>2, <3>3 DEF Distinct
  <2>2. CASE m \in WithAgent
    <3>1. m \notin Elems(rebind.held) \cup InHand \cup flight \cup composer
      BY <2>2 DEF ApartInv
    <3>2. PICK i \in 1 .. Len(Got) : Got[i] = m /\ x = <<"agent", i>>
      BY <1>1, <1>4, <3>1, PlacesAre
    <3>3. PICK j \in 1 .. Len(Got) : Got[j] = m /\ y = <<"agent", j>>
      BY <1>1, <1>4, <3>1, PlacesAre
    <3> QED BY <1>3, <3>2, <3>3 DEF Distinct
  <2>3. CASE m \notin Elems(rebind.held) \cup WithAgent
    <3>1. \/ m \in InHand /\ x = <<"hand">>
          \/ m \in flight /\ x = <<"flight">>
          \/ m \in composer /\ x = <<"composer">>
      BY <1>1, <1>2, <1>4, <2>3, PlacesAre
    <3>2. \/ m \in InHand /\ y = <<"hand">>
          \/ m \in flight /\ y = <<"flight">>
          \/ m \in composer /\ y = <<"composer">>
      BY <1>1, <1>2, <1>4, <2>3, PlacesAre
    <3> QED BY <3>1, <3>2 DEF ApartInv
  <2> QED BY <2>1, <2>2, <2>3
<1>5. CASE Places(m) = {}
  BY <1>5, FS_EmptySet
<1>6. CASE Places(m) # {}
  <2>1. PICK x : Places(m) = {x}
    BY <1>4, <1>6
  <2>2. Cardinality({x}) = 1
    BY FS_Singleton
  <2> QED BY <2>1, <2>2
<1> QED BY <1>5, <1>6

\* A text is in some place, or refused, or cut off.
LEMMA SomePlaceOf ==
    ASSUME BookInv, KeptInv, ~doomed, NEW m \in posts
    PROVE  Places(m) # {} \/ m \in refused \/ m \in cut
<1>1. m \in Elems(rebind.held) <=> \E i \in 1 .. Len(rebind.held) : rebind.held[i] = m
  BY DEF Elems
<1>2. m \in WithAgent <=> \E i \in 1 .. Len(Got) : Got[i] = m
  BY GotTyped DEF WithAgent, Elems
<1>3. \/ m \in Elems(rebind.held) \/ m \in WithAgent \/ m \in InHand
      \/ m \in flight \/ m \in composer \/ m \in refused \/ m \in cut
  BY DEF KeptInv
<1> QED BY <1>1, <1>2, <1>3, PlacesAre

\* The parts of the invariant are what OnePlace says.
LEMMA OnePlaceFromParts ==
    ASSUME BookInv, ApartInv, KeptInv, OrderInv
    PROVE  OnePlace
<1>1. TypeOK
  BY BookIsTyped
<1>2. ASSUME ~doomed, NEW m \in posts
      PROVE  Cardinality(Places(m)) <= 1 /\ (Places(m) # {} \/ m \in refused \/ m \in cut)
  BY <1>2, OnePlaceOf, SomePlaceOf
<1>3. ASSUME NEW i \in 1 .. Len(Got), NEW j \in 1 .. Len(Got), i < j,
             Got[i] \in Elems(log), Got[j] \in Elems(log)
      PROVE  LogIndex(Got[i]) <= LogIndex(Got[j])
  <2>1. LogIndex(Got[i]) \in 1 .. Len(log) /\ log[LogIndex(Got[i])] = Got[i]
    BY <1>3 DEF LogIndex, Elems
  <2>2. LogIndex(Got[j]) \in 1 .. Len(log) /\ log[LogIndex(Got[j])] = Got[j]
    BY <1>3 DEF LogIndex, Elems
  <2> QED BY <1>3, <2>1, <2>2 DEF OrderInv, InOrder
<1> QED BY <1>1, <1>2, <1>3 DEF OnePlace

\* Where the texts are.
PlaceInv == FlightFresh /\ SuffixInv /\ ApartInv /\ OrderInv

\* It holds at the start.
LEMMA PlaceInit == Init => PlaceInv /\ KeptInv
<1> SUFFICES ASSUME Init PROVE PlaceInv /\ KeptInv
  OBVIOUS
<1> USE DEF Init
<1>1. FlightFresh /\ SuffixInv
  BY EmptyDistinct DEF FlightFresh, SuffixInv, NoRebind, NoRunner, Converging, At
<1>2. ApartInv /\ KeptInv
  BY EmptyDistinct, ElemsOfEmpty DEF ApartInv, KeptInv, WithAgent, InHand
<1>3. OrderInv
  <2>1. Len(log) = 0
    OBVIOUS
  <2> QED BY <2>1 DEF OrderInv, InOrder
<1> QED BY <1>1, <1>2, <1>3 DEF PlaceInv

\* Every step keeps it, whatever races there are.
LEMMA PlaceStep == BookInv /\ PlaceInv /\ [Next]_vars => PlaceInv'
<1> SUFFICES ASSUME BookInv, PlaceInv, [Next]_vars PROVE PlaceInv'
  OBVIOUS
<1> USE DEF PlaceInv
<1>1. CASE UNCHANGED vars
  BY <1>1
     DEF vars, recordVars, appVars, threadVars, agentVars, textVars, endVars, FlightFresh,
         SuffixInv, ApartInv, OrderInv, Given, InHand, WithAgent, Got, Converging, At
<1>2. CASE Next
  <2>1. FlightFresh' /\ SuffixInv' /\ ApartInv'
    BY <1>2, PlaceHoldSend, PlaceResolveSend, PlaceSendLands, PlaceReadBinding, PlaceBuildWatcher,
       PlaceBeginRebind, PlaceRetryRebind, PlaceStopped, PlaceDrain, PlaceDrained, PlaceRestart,
       PlaceStopAgent, PlaceRecordWhere, PlaceMoveFile, PlaceMoveEnds, PlaceRebindAgent,
       PlaceEvictWatcher, PlaceRelabel, PlaceStartAgent, PlaceLand, PlaceApplyModelPick,
       PlaceNotePick, PlaceDeliverHeldSends, PlaceTakeNextHeldSend, PlaceDeliverHeldSend,
       PlaceReboot, PlaceObserve, PlaceAgentDies, PlaceAgentTurn, PlaceDestroyAgent,
       PlaceDestroyRecord
       DEF Next, RunnerStep
  <2>2. OrderInv'
    BY <1>2, OrderHoldSend, OrderResolveSend, OrderSendLands, OrderReadBinding, OrderBuildWatcher,
       OrderBeginRebind, OrderRetryRebind, OrderStopped, OrderDrain, OrderDrained, OrderRestart,
       OrderStopAgent, OrderRecordWhere, OrderMoveFile, OrderMoveEnds, OrderRebindAgent,
       OrderEvictWatcher, OrderRelabel, OrderStartAgent, OrderLand, OrderApplyModelPick,
       OrderNotePick, OrderDeliverHeldSends, OrderTakeNextHeldSend, OrderDeliverHeldSend,
       OrderReboot, OrderObserve, OrderAgentDies, OrderAgentTurn, OrderDestroyAgent,
       OrderDestroyRecord
       DEF Next, RunnerStep
  <2> QED BY <2>1, <2>2
<1> QED BY <1>1, <1>2

\* No step loses a text, unless a death of the app takes the one in hand.
LEMMA KeptStep ==
    ASSUME "crashInHand" \notin Races
    PROVE  BookInv /\ PlaceInv /\ KeptInv /\ [Next]_vars => KeptInv'
<1> SUFFICES ASSUME BookInv, PlaceInv, KeptInv, [Next]_vars PROVE KeptInv'
  OBVIOUS
<1> USE DEF PlaceInv
<1>1. CASE UNCHANGED vars
  BY <1>1
     DEF vars, recordVars, appVars, threadVars, agentVars, textVars, endVars, KeptInv, InHand,
         WithAgent
<1>2. CASE Next
  BY <1>2, PlaceHoldSend, PlaceResolveSend, PlaceSendLands, PlaceReadBinding, PlaceBuildWatcher,
     PlaceBeginRebind, PlaceRetryRebind, PlaceStopped, PlaceDrain, PlaceDrained, PlaceRestart,
     PlaceStopAgent, PlaceRecordWhere, PlaceMoveFile, PlaceMoveEnds, PlaceRebindAgent,
     PlaceEvictWatcher, PlaceRelabel, PlaceStartAgent, PlaceLand, PlaceApplyModelPick,
     PlaceNotePick, PlaceDeliverHeldSends, PlaceTakeNextHeldSend, PlaceDeliverHeldSend,
     PlaceReboot, PlaceObserve, PlaceAgentDies, PlaceAgentTurn, PlaceDestroyAgent,
     PlaceDestroyRecord
     DEF Next, RunnerStep
<1> QED BY <1>1, <1>2

\* Texts are always in one place at most, and in order.
LEMMA Placed == Spec => []PlaceInv
BY Booked, PlaceInit, PlaceStep, PTL DEF Spec

\* OnePlace, apart from a death of the app with a text in hand (crashInHand): a text
\* the chat took is in one place, in none only if it was refused or cut off, and the
\* agent got what was held in its order.
THEOREM OnePlaceHolds ==
    ASSUME "crashInHand" \notin Races
    PROVE  Spec => []OnePlace
<1>1. Spec => []KeptInv
  BY Booked, Placed, PlaceInit, KeptStep, PTL DEF Spec
<1>2. BookInv /\ PlaceInv /\ KeptInv => OnePlace
  BY OnePlaceFromParts DEF PlaceInv
<1> QED BY <1>1, <1>2, Booked, Placed, PTL

--------------------------------------------------------------------------------
\* On which account.

\* The races that separate an agent from its account are left out.
Calm == Races \cap {"lateSend", "startLands", "pickRevives", "partialMove", "staleLanding",
                    "staleWatcher"} = {}

\* All session files are under one account.
FilesUnder(a) == \A f \in Files : fileAt[f] = a

\* Label, name, environment and files agree.
OnAccount(a) == label = a /\ named = a /\ env = a /\ FilesUnder(a)

\* No send is on its way past the drain.
FlightInv == rebind.phase \in {"restarting", "failed"} \/ At("drained") => flight = {}

\* Before the restart, and after it, everything is on one account.
SettledInv == rebind.phase \in {"none", "draining"} => OnAccount(env)

\* A running agent is on the account of its environment and its files; one that is
\* known to be down is down; and none runs while its files move.
RunsInv ==
    /\ proc = "up" => runsOn = env /\ FilesUnder(env)
    /\ seen = "down" => proc # "up"
    /\ pc.step \in {"where", "move", "bind", "evict", "label", "start"} => proc # "up"

\* Files are under the account they came from, that of the environment, or the target;
\* and the record knows where from once they may move.
FilesInv ==
    /\ pc.step \in {"stop", "where", "move"} => ranOn = env
    /\ rebind.files = Nothing => FilesUnder(env)
    /\ rebind.files # Nothing => \A f \in Files : fileAt[f] \in {rebind.files, env, rebind.target}
    /\ At("move") => rebind.files # Nothing

\* How far the restart has got, step by step.
BoundInv ==
    /\ At("bind") => FilesUnder(rebind.target)
    /\ pc.step \in {"evict", "label"} => env = rebind.target /\ FilesUnder(rebind.target)
    /\ pc.step \in {"start", "land", "pick", "noted", "deliver", "take", "send"}
            => OnAccount(rebind.target)

\* A restart that has landed is not run again, and everything is on its account.
LandedInv ==
    /\ rebind.phase = "draining" => rebind.landed = Nothing
    /\ rebind.landed # Nothing /\ rebind.landed = env => label = env /\ named = env
    /\ pc.step \in {"stop", "where", "move", "bind", "evict", "label", "start", "land"}
            => rebind.landed # rebind.target
    /\ pc.step \in {"pick", "noted", "deliver", "take", "send"} => rebind.landed = rebind.target
    /\ rebind.phase = "restarting" /\ rebind.landed = rebind.target => OnAccount(rebind.target)

\* A watcher reads the account of the environment, but just before it is evicted.
WatcherInv == watcher \in {Nothing, env} \/ At("evict")

\* The account, in parts.
AccountParts ==
    FlightInv /\ SettledInv /\ RunsInv /\ FilesInv /\ BoundInv /\ LandedInv /\ WatcherInv

\* It is claimed until the chat is destroyed.
AccountInv == ~doomed => AccountParts

\* A send that the record holds keeps the agent, its files and its label together
\* (AccountInv).
LEMMA AccountHoldSend ==
    ASSUME BookInv, Calm, AccountInv, NEW m \in Messages, HoldSend(m)
    PROVE  AccountInv'
<1> SUFFICES ASSUME AccountParts, ~doomed, ~destroyed PROVE AccountParts'
  BY DEF AccountInv, HoldSend, endVars, BookInv
<1> USE RebindAssumption DEF BookInv, AccountParts
<1>1. RunsInv' /\ WatcherInv'
  BY DEF HoldSend, RunsInv, WatcherInv, At, FilesUnder, appVars, threadVars, agentVars
<1>2. FlightInv'
  BY DEF HoldSend, FlightInv, At, appVars, threadVars
<1>3. SettledInv'
  BY DEF HoldSend, SettledInv, FilesUnder, OnAccount, Converging, appVars, agentVars
<1>4. FilesInv'
  BY DEF HoldSend, FilesInv, FilesUnder, At, Converging, threadVars, agentVars
<1>5. BoundInv'
  BY DEF HoldSend, BoundInv, FilesUnder, OnAccount, At, Converging, appVars, threadVars, agentVars
<1>6. LandedInv'
  BY DEF HoldSend, LandedInv, FilesUnder, OnAccount, Converging, appVars, threadVars, agentVars
<1> QED BY <1>1, <1>2, <1>3, <1>4, <1>5, <1>6

\* A send that leaves the composer for the agent keeps the agent, its files and its
\* label together (AccountInv).
LEMMA AccountResolveSend ==
    ASSUME BookInv, Calm, AccountInv, NEW m \in Messages, ResolveSend(m)
    PROVE  AccountInv'
<1> SUFFICES ASSUME AccountParts, ~doomed, ~destroyed PROVE AccountParts'
  BY DEF AccountInv, ResolveSend, endVars, BookInv, EndInv
<1> USE RebindAssumption DEF BookInv, AccountParts
<1>1. SettledInv' /\ RunsInv' /\ FilesInv' /\ BoundInv' /\ LandedInv' /\ WatcherInv'
  BY DEF ResolveSend, SettledInv, RunsInv, FilesInv, BoundInv, LandedInv, WatcherInv, At,
         FilesUnder, OnAccount, recordVars, threadVars, agentVars
<1>2. FlightInv'
  BY DEF ResolveSend, FlightInv, At, Converging, RunnerInv, RecordInv, EndInv, recordVars,
         threadVars
<1> QED BY <1>1, <1>2

\* A send that reaches its agent, or is refused keeps the agent, its files and its
\* label together (AccountInv).
LEMMA AccountSendLands ==
    ASSUME BookInv, Calm, AccountInv, NEW m \in Messages, SendLands(m)
    PROVE  AccountInv'
<1> SUFFICES ASSUME AccountParts, ~doomed, ~destroyed PROVE AccountParts'
  BY DEF AccountInv, SendLands, endVars, BookInv, EndInv
<1> USE RebindAssumption DEF BookInv, AccountParts
<1>1. SettledInv' /\ FilesInv' /\ BoundInv' /\ LandedInv' /\ WatcherInv'
  BY DEF SendLands, SettledInv, FilesInv, BoundInv, LandedInv, WatcherInv, At, FilesUnder,
         OnAccount, recordVars, threadVars
<1>2. FlightInv'
  BY DEF SendLands, FlightInv, At, recordVars, threadVars
<1>3. RunsInv'
  BY DEF SendLands, Reaches, Started, ToMove, Sources, FlightInv, SettledInv, RunsInv, FilesInv,
         BoundInv, LandedInv, WatcherInv, FilesUnder, OnAccount, At, Live, Goto, Converging,
         RunnerInv, RecordInv, EndInv, RecordType, Rebinds, ThreadType, AppType, AgentType, Calm,
         Race, threadVars
<1> QED BY <1>1, <1>2, <1>3

\* A page that reads the binding keeps the agent, its files and its label together
\* (AccountInv).
LEMMA AccountReadBinding ==
    ASSUME BookInv, Calm, AccountInv, ReadBinding
    PROVE  AccountInv'
<1> SUFFICES ASSUME AccountParts, ~doomed, ~destroyed PROVE AccountParts'
  BY DEF AccountInv, ReadBinding, endVars, BookInv, EndInv
<1> USE RebindAssumption DEF BookInv, AccountParts
<1>1. FlightInv' /\ SettledInv' /\ RunsInv' /\ FilesInv' /\ BoundInv' /\ LandedInv' /\ WatcherInv'
  BY DEF ReadBinding, FlightInv, SettledInv, RunsInv, FilesInv, BoundInv, LandedInv, WatcherInv,
         At, FilesUnder, OnAccount, recordVars, threadVars, agentVars
<1> QED BY <1>1

\* A watcher built on the binding read keeps the agent, its files and its label
\* together (AccountInv).
LEMMA AccountBuildWatcher ==
    ASSUME BookInv, Calm, AccountInv, BuildWatcher
    PROVE  AccountInv'
<1> SUFFICES ASSUME AccountParts, ~doomed, ~destroyed PROVE AccountParts'
  BY DEF AccountInv, BuildWatcher, endVars, BookInv, EndInv
<1> USE RebindAssumption DEF BookInv, AccountParts
<1>1. FlightInv' /\ SettledInv' /\ RunsInv' /\ FilesInv' /\ BoundInv' /\ LandedInv'
  BY DEF BuildWatcher, FlightInv, SettledInv, RunsInv, FilesInv, BoundInv, LandedInv, At,
         FilesUnder, OnAccount, recordVars, threadVars, agentVars
<1>2. WatcherInv'
  BY DEF BuildWatcher, WatcherInv, At, Live, Goto, Converging, RunnerInv, RecordInv, EndInv,
         ThreadType, Calm, Race, threadVars, agentVars
<1> QED BY <1>1, <1>2

\* A rebind that begins keeps the agent, its files and its label together (AccountInv).
LEMMA AccountBeginRebind ==
    ASSUME BookInv, Calm, AccountInv, NEW to \in Accounts, NEW m \in Messages, NEW k \in BOOLEAN,
           BeginRebind(to, m, k)
    PROVE  AccountInv'
<1> SUFFICES ASSUME AccountParts, ~doomed, ~destroyed PROVE AccountParts'
  BY DEF AccountInv, BeginRebind, endVars, BookInv, EndInv
<1> USE RebindAssumption DEF BookInv, AccountParts
<1>1. FlightInv'
  BY DEF BeginRebind, Opened, NoRebind, FlightInv, At, Converging
<1>2. SettledInv'
  BY DEF BeginRebind, SettledInv, FilesUnder, OnAccount, Converging, appVars, agentVars
<1>3. RunsInv'
  BY DEF BeginRebind, RunsInv, FilesUnder, Converging, appVars, agentVars
<1>4. FilesInv'
  BY DEF BeginRebind, NoRebind, FilesInv, FilesUnder, At, Converging, RunnerInv, RecordInv,
         EndInv, agentVars
<1>5. BoundInv'
  BY DEF BeginRebind, BoundInv, OnAccount, At, Converging
<1>6. LandedInv'
  BY DEF BeginRebind, Opened, NoRebind, LandedInv
<1>7. WatcherInv'
  BY DEF BeginRebind, NoRebind, WatcherInv, At, Converging, RunnerInv, RecordInv, EndInv, appVars,
         agentVars
<1> QED BY <1>1, <1>2, <1>3, <1>4, <1>5, <1>6, <1>7

\* A retry of a failed rebind keeps the agent, its files and its label together
\* (AccountInv).
LEMMA AccountRetryRebind ==
    ASSUME BookInv, Calm, AccountInv, NEW to \in Accounts, RetryRebind(to)
    PROVE  AccountInv'
<1> SUFFICES ASSUME AccountParts, ~doomed, ~destroyed PROVE AccountParts'
  BY DEF AccountInv, RetryRebind, endVars, BookInv
<1> USE RebindAssumption DEF BookInv, AccountParts
<1>1. FlightInv'
  BY DEF RetryRebind, FlightInv, appVars
<1>2. SettledInv'
  BY DEF RetryRebind, SettledInv, agentVars
<1>3. RunsInv'
  BY DEF RetryRebind, RunsInv, FilesUnder, appVars, agentVars
<1>4. FilesInv'
  BY DEF RetryRebind, FilesInv, BoundInv, LandedInv, WatcherInv, FilesUnder, OnAccount, At, Live,
         Goto, Converging, RunnerInv, RecordInv, EndInv, RecordType, Rebinds, ThreadType,
         AgentType, Maybe, Calm, Race, agentVars
<1>5. BoundInv'
  BY DEF RetryRebind, BoundInv, At, Race
<1>6. LandedInv'
  BY DEF RetryRebind, FilesInv, BoundInv, LandedInv, WatcherInv, FilesUnder, OnAccount, At, Live,
         Goto, Converging, RunnerInv, RecordInv, EndInv, RecordType, Rebinds, ThreadType,
         AgentType, Calm, Race, appVars, agentVars
<1>7. WatcherInv'
  BY DEF RetryRebind, WatcherInv, At, Converging, RunnerInv, RecordInv, EndInv, Race, appVars,
         agentVars
<1> QED BY <1>1, <1>2, <1>3, <1>4, <1>5, <1>6, <1>7

\* A drain whose turn is stopped keeps the agent, its files and its label together
\* (AccountInv).
LEMMA AccountStopped ==
    ASSUME BookInv, Calm, AccountInv, Stopped
    PROVE  AccountInv'
<1> SUFFICES ASSUME AccountParts, ~doomed, ~destroyed PROVE AccountParts'
  BY DEF AccountInv, Stopped, endVars, BookInv, EndInv
<1> USE RebindAssumption DEF BookInv, AccountParts
<1>1. SettledInv'
  BY DEF Stopped, SettledInv, FilesUnder, OnAccount, recordVars, appVars, agentVars
<1>2. FlightInv'
  BY DEF Stopped, FlightInv, At, Goto, recordVars, appVars
<1>3. RunsInv'
  BY DEF Stopped, RunsInv, FilesUnder, Goto, appVars, agentVars
<1>4. FilesInv'
  BY DEF Stopped, FilesInv, FilesUnder, At, Goto, recordVars, agentVars
<1>5. BoundInv'
  BY DEF Stopped, BoundInv, At, Goto
<1>6. LandedInv'
  BY DEF Stopped, LandedInv, FilesUnder, OnAccount, Goto, recordVars, appVars, agentVars
<1>7. WatcherInv'
  BY DEF Stopped, WatcherInv, At, Goto, Converging, RunnerInv, RecordInv, EndInv, appVars,
         agentVars
<1> QED BY <1>1, <1>2, <1>3, <1>4, <1>5, <1>6, <1>7

\* The drain's look at the agent keeps the agent, its files and its label together
\* (AccountInv).
LEMMA AccountDrain ==
    ASSUME BookInv, Calm, AccountInv, Drain
    PROVE  AccountInv'
<1> SUFFICES ASSUME AccountParts, ~doomed, ~destroyed PROVE AccountParts'
  BY DEF AccountInv, Drain, endVars, BookInv, EndInv
<1> USE RebindAssumption DEF BookInv, AccountParts
<1>1. SettledInv'
  BY DEF Drain, SettledInv, FilesUnder, OnAccount, recordVars, appVars
<1>2. FlightInv'
  BY DEF Drain, FlightInv, RecordInv, EndInv, RecordType, Rebinds, ThreadType, Calm, Race,
         recordVars, appVars
<1>3. RunsInv'
  BY DEF Drain, RunsInv, FilesUnder, At, Live, Goto, Race, appVars
<1>4. FilesInv'
  BY DEF Drain, FilesInv, FilesUnder, At, Live, Goto, Race, recordVars
<1>5. BoundInv'
  BY DEF Drain, BoundInv, At, Live, Goto, Race, recordVars, appVars
<1>6. LandedInv'
  BY DEF Drain, LandedInv, FilesUnder, OnAccount, Goto, Race, recordVars, appVars
<1>7. WatcherInv'
  BY DEF Drain, WatcherInv, At, Live, Goto, Race, appVars
<1> QED BY <1>1, <1>2, <1>3, <1>4, <1>5, <1>6, <1>7

\* The end of the drain keeps the agent, its files and its label together (AccountInv).
LEMMA AccountDrained ==
    ASSUME BookInv, Calm, AccountInv, Drained
    PROVE  AccountInv'
<1> SUFFICES ASSUME AccountParts, ~doomed, ~destroyed PROVE AccountParts'
  BY DEF AccountInv, Drained, endVars, BookInv, EndInv
<1> USE RebindAssumption DEF BookInv, AccountParts
<1>1. FlightInv'
  BY DEF Drained, FlightInv, appVars
<1>2. SettledInv'
  BY DEF Drained, SettledInv, FilesUnder, OnAccount, At, Goto, Converging, RunnerInv, RecordInv,
         EndInv, Race, appVars, agentVars
<1>3. RunsInv'
  BY DEF Drained, RunsInv, FilesInv, BoundInv, LandedInv, WatcherInv, FilesUnder, OnAccount, At,
         Live, Goto, Converging, RunnerInv, RecordInv, EndInv, RecordType, Rebinds, ThreadType,
         AppType, AgentType, Calm, Race, appVars, agentVars
<1>4. FilesInv'
  BY DEF Drained, FilesInv, BoundInv, LandedInv, WatcherInv, FilesUnder, OnAccount, At, Live,
         Goto, Converging, RunnerInv, RecordInv, EndInv, RecordType, Rebinds, ThreadType,
         AgentType, Maybe, Calm, Race, agentVars
<1>5. BoundInv'
  BY DEF Drained, BoundInv, At, Live, Goto, Converging, RunnerInv, RecordInv, EndInv, RecordType,
         Rebinds, ThreadType, AgentType, Calm, Race, appVars, agentVars
<1>6. LandedInv'
  BY DEF Drained, LandedInv, At, Live, Goto, Converging, RunnerInv, RecordInv, EndInv, RecordType,
         Rebinds, ThreadType, AgentType, Calm, Race, appVars, agentVars
<1>7. WatcherInv'
  BY DEF Drained, WatcherInv, At, Goto, Race, appVars, agentVars
<1> QED BY <1>1, <1>2, <1>3, <1>4, <1>5, <1>6, <1>7

\* The record's way into the restart keeps the agent, its files and its label together
\* (AccountInv).
LEMMA AccountRestart ==
    ASSUME BookInv, Calm, AccountInv, Restart
    PROVE  AccountInv'
<1> SUFFICES ASSUME AccountParts, ~doomed, ~destroyed PROVE AccountParts'
  BY DEF AccountInv, Restart, endVars, BookInv, EndInv
<1> USE RebindAssumption DEF BookInv, AccountParts
<1>1. FlightInv'
  BY DEF Restart, HasLanded, FlightInv, At, Live, Goto, Converging, RunnerInv, RecordInv, EndInv,
         appVars
<1>2. SettledInv'
  BY DEF Restart, FailStep, Fault, HasLanded, ToMove, Sources, FlightInv, SettledInv, OnAccount,
         At, Live, Goto, Converging, RunnerInv, RecordInv, EndInv, RecordType, Rebinds, AgentType,
         ThreadType, Calm, Race, appVars, agentVars
<1>3. RunsInv'
  BY DEF Restart, FailStep, Fault, HasLanded, ToMove, Sources, FlightInv, SettledInv, RunsInv,
         FilesInv, BoundInv, LandedInv, WatcherInv, FilesUnder, OnAccount, At, Live, Goto,
         Converging, RunnerInv, RecordInv, EndInv, RecordType, Rebinds, ThreadType, AppType,
         AgentType, Calm, Race, appVars, agentVars
<1>4. FilesInv'
  BY DEF Restart, FailStep, Fault, HasLanded, ToMove, Sources, FlightInv, SettledInv, RunsInv,
         FilesInv, BoundInv, LandedInv, WatcherInv, FilesUnder, OnAccount, At, Live, Goto,
         Converging, RunnerInv, RecordInv, EndInv, RecordType, Rebinds, ThreadType, AgentType,
         Maybe, Calm, Race, agentVars
<1>5. BoundInv'
  BY DEF Restart, FailStep, Fault, HasLanded, ToMove, Sources, FlightInv, SettledInv, RunsInv,
         FilesInv, BoundInv, LandedInv, WatcherInv, FilesUnder, OnAccount, At, Live, Goto,
         Converging, RunnerInv, RecordInv, EndInv, RecordType, Rebinds, ThreadType, AgentType,
         Calm, Race, appVars, agentVars
<1>6. LandedInv'
  BY DEF Restart, FailStep, Fault, HasLanded, ToMove, Sources, FlightInv, SettledInv, RunsInv,
         FilesInv, BoundInv, LandedInv, WatcherInv, FilesUnder, OnAccount, At, Live, Goto,
         Converging, RunnerInv, RecordInv, EndInv, RecordType, Rebinds, ThreadType, AgentType,
         Calm, Race, appVars, agentVars
<1>7. WatcherInv'
  BY DEF Restart, WatcherInv, At, Live, Goto, appVars, agentVars
<1> QED BY <1>1, <1>2, <1>3, <1>4, <1>5, <1>6, <1>7

\* The stop of the agent keeps the agent, its files and its label together
\* (AccountInv).
LEMMA AccountStopAgent ==
    ASSUME BookInv, Calm, AccountInv, StopAgent
    PROVE  AccountInv'
<1> SUFFICES ASSUME AccountParts, ~doomed, ~destroyed PROVE AccountParts'
  BY DEF AccountInv, StopAgent, endVars, BookInv, EndInv
<1> USE RebindAssumption DEF BookInv, AccountParts
<1>1. FlightInv'
  BY DEF StopAgent, FlightInv, At, Live, Goto, Converging, RunnerInv, RecordInv, EndInv
<1>2. SettledInv'
  BY DEF StopAgent, FailStep, Fault, Refused, ToMove, Sources, FlightInv, SettledInv, OnAccount,
         At, Live, Goto, Converging, RunnerInv, RecordInv, EndInv, RecordType, Rebinds, AgentType,
         ThreadType, Calm, Race
<1>3. RunsInv'
  BY DEF StopAgent, FailStep, Fault, Refused, ToMove, Sources, FlightInv, SettledInv, RunsInv,
         FilesInv, BoundInv, LandedInv, WatcherInv, FilesUnder, OnAccount, At, Live, Goto,
         Converging, RunnerInv, RecordInv, EndInv, RecordType, Rebinds, ThreadType, AppType,
         AgentType, Calm
<1>4. FilesInv'
  BY DEF StopAgent, FailStep, Fault, Refused, ToMove, Sources, FlightInv, SettledInv, RunsInv,
         FilesInv, BoundInv, LandedInv, WatcherInv, FilesUnder, OnAccount, At, Live, Goto,
         Converging, RunnerInv, RecordInv, EndInv, RecordType, Rebinds, ThreadType, AgentType,
         Maybe, Calm
<1>5. BoundInv'
  BY DEF StopAgent, FailStep, Fault, Refused, ToMove, Sources, FlightInv, BoundInv, OnAccount, At,
         Live, Goto, Converging, RunnerInv, RecordInv, EndInv, RecordType, Rebinds, ThreadType,
         AgentType, Calm, Race
<1>6. LandedInv'
  BY DEF StopAgent, FailStep, Fault, Refused, ToMove, Sources, FlightInv, LandedInv, OnAccount,
         At, Live, Goto, Converging, RunnerInv, RecordInv, EndInv, RecordType, Rebinds,
         ThreadType, AgentType, Calm, Race
<1>7. WatcherInv'
  BY DEF StopAgent, WatcherInv, At, Live
<1> QED BY <1>1, <1>2, <1>3, <1>4, <1>5, <1>6, <1>7

\* The note of where the files are keeps the agent, its files and its label together
\* (AccountInv).
LEMMA AccountRecordWhere ==
    ASSUME BookInv, Calm, AccountInv, RecordWhere
    PROVE  AccountInv'
<1> SUFFICES ASSUME AccountParts, ~doomed, ~destroyed PROVE AccountParts'
  BY DEF AccountInv, RecordWhere, endVars, BookInv, EndInv
<1> USE RebindAssumption DEF BookInv, AccountParts
<1>1. FlightInv'
  BY DEF RecordWhere, FlightInv, At, Live, Goto, Converging, RunnerInv, RecordInv, EndInv, appVars
<1>2. SettledInv'
  BY DEF RecordWhere, FailStep, Fault, ToMove, Sources, FlightInv, SettledInv, RunsInv, FilesInv,
         BoundInv, LandedInv, WatcherInv, FilesUnder, OnAccount, At, Live, Goto, Converging,
         RunnerInv, RecordInv, EndInv, RecordType, Rebinds, AgentType, ThreadType, Calm, Race,
         appVars
<1>3. RunsInv'
  BY DEF RecordWhere, RunsInv, At, Live, Goto, appVars, agentVars
<1>4. FilesInv'
  BY DEF RecordWhere, FailStep, Fault, ToMove, Sources, FlightInv, SettledInv, RunsInv, FilesInv,
         BoundInv, LandedInv, WatcherInv, FilesUnder, OnAccount, At, Live, Goto, Converging,
         RunnerInv, RecordInv, EndInv, RecordType, Rebinds, ThreadType, AgentType, Maybe, Calm,
         Race, agentVars
<1>5. BoundInv'
  BY DEF RecordWhere, FailStep, Fault, ToMove, Sources, FlightInv, SettledInv, RunsInv, FilesInv,
         BoundInv, LandedInv, WatcherInv, FilesUnder, OnAccount, At, Live, Goto, Converging,
         RunnerInv, RecordInv, EndInv, RecordType, Rebinds, ThreadType, AgentType, Calm, Race,
         appVars
<1>6. LandedInv'
  BY DEF RecordWhere, FailStep, Fault, ToMove, Sources, FlightInv, SettledInv, RunsInv, FilesInv,
         BoundInv, LandedInv, WatcherInv, FilesUnder, OnAccount, At, Live, Goto, Converging,
         RunnerInv, RecordInv, EndInv, RecordType, Rebinds, ThreadType, AgentType, Calm, Race,
         appVars, agentVars
<1>7. WatcherInv'
  BY DEF RecordWhere, WatcherInv, At, Live, Goto, appVars, agentVars
<1> QED BY <1>1, <1>2, <1>3, <1>4, <1>5, <1>6, <1>7

\* The move of one file keeps the agent, its files and its label together (AccountInv).
LEMMA AccountMoveFile ==
    ASSUME BookInv, Calm, AccountInv, NEW f \in Files, MoveFile(f)
    PROVE  AccountInv'
<1> SUFFICES ASSUME AccountParts, ~doomed, ~destroyed PROVE AccountParts'
  BY DEF AccountInv, MoveFile, endVars, BookInv, EndInv
<1> USE RebindAssumption DEF BookInv, AccountParts
<1>1. FlightInv' /\ WatcherInv'
  BY DEF MoveFile, FlightInv, WatcherInv, At, recordVars, appVars, threadVars
<1>2. SettledInv'
  BY DEF MoveFile, SettledInv, OnAccount, At, Live, Converging, RunnerInv, RecordInv, EndInv,
         recordVars, appVars
<1>3. RunsInv'
  BY DEF MoveFile, RunsInv, FilesUnder, At, Live, appVars, threadVars
<1>4. FilesInv'
  BY DEF MoveFile, FilesInv, Live, recordVars, threadVars
<1>5. BoundInv'
  BY DEF MoveFile, BoundInv, OnAccount, At, Live, recordVars, appVars, threadVars
<1>6. LandedInv'
  BY DEF MoveFile, LandedInv, OnAccount, At, Live, recordVars, appVars, threadVars
<1> QED BY <1>1, <1>2, <1>3, <1>4, <1>5, <1>6

\* The end of the move keeps the agent, its files and its label together (AccountInv).
LEMMA AccountMoveEnds ==
    ASSUME BookInv, Calm, AccountInv, MoveEnds
    PROVE  AccountInv'
<1> SUFFICES ASSUME AccountParts, ~doomed, ~destroyed PROVE AccountParts'
  BY DEF AccountInv, MoveEnds, endVars, BookInv, EndInv
<1> USE RebindAssumption DEF BookInv, AccountParts
<1>1. FlightInv'
  BY DEF MoveEnds, FlightInv, At, Live, Goto, Converging, RunnerInv, RecordInv, EndInv, appVars
<1>2. SettledInv'
  BY DEF MoveEnds, FailStep, Fault, ToMove, Sources, FlightInv, SettledInv, RunsInv, FilesInv,
         BoundInv, LandedInv, WatcherInv, FilesUnder, OnAccount, At, Live, Goto, Converging,
         RunnerInv, RecordInv, EndInv, RecordType, Rebinds, AgentType, ThreadType, Calm, Race,
         appVars
<1>3. RunsInv'
  BY DEF MoveEnds, RunsInv, At, Live, Goto, appVars, agentVars
<1>4. FilesInv'
  BY DEF MoveEnds, FailStep, Fault, ToMove, Sources, FlightInv, SettledInv, RunsInv, FilesInv,
         BoundInv, LandedInv, WatcherInv, FilesUnder, OnAccount, At, Live, Goto, Converging,
         RunnerInv, RecordInv, EndInv, RecordType, Rebinds, ThreadType, AgentType, Maybe, Calm,
         Race, agentVars
<1>5. BoundInv'
  BY DEF MoveEnds, FailStep, Fault, ToMove, Sources, FlightInv, SettledInv, RunsInv, FilesInv,
         BoundInv, LandedInv, WatcherInv, FilesUnder, OnAccount, At, Live, Goto, Converging,
         RunnerInv, RecordInv, EndInv, RecordType, Rebinds, ThreadType, AgentType, Calm, Race,
         appVars, agentVars
<1>6. LandedInv'
  BY DEF MoveEnds, FailStep, Fault, ToMove, Sources, FlightInv, SettledInv, RunsInv, FilesInv,
         BoundInv, LandedInv, WatcherInv, FilesUnder, OnAccount, At, Live, Goto, Converging,
         RunnerInv, RecordInv, EndInv, RecordType, Rebinds, ThreadType, AgentType, Calm, Race,
         appVars, agentVars
<1>7. WatcherInv'
  BY DEF MoveEnds, WatcherInv, At, Live, Goto, appVars, agentVars
<1> QED BY <1>1, <1>2, <1>3, <1>4, <1>5, <1>6, <1>7

\* The write of the environment file keeps the agent, its files and its label together
\* (AccountInv).
LEMMA AccountRebindAgent ==
    ASSUME BookInv, Calm, AccountInv, RebindAgent
    PROVE  AccountInv'
<1> SUFFICES ASSUME AccountParts, ~doomed, ~destroyed PROVE AccountParts'
  BY DEF AccountInv, RebindAgent, endVars, BookInv, EndInv
<1> USE RebindAssumption DEF BookInv, AccountParts
<1>1. FlightInv'
  BY DEF RebindAgent, Refused, FlightInv, At, Live, Goto, Converging, RunnerInv, RecordInv,
         EndInv, appVars
<1>2. SettledInv'
  BY DEF RebindAgent, FailStep, Fault, Refused, ToMove, Sources, FlightInv, SettledInv, RunsInv,
         FilesInv, BoundInv, LandedInv, WatcherInv, FilesUnder, OnAccount, At, Live, Goto,
         Converging, RunnerInv, RecordInv, EndInv, RecordType, Rebinds, AgentType, ThreadType,
         Calm, Race
<1>3. RunsInv'
  BY DEF RebindAgent, RunsInv, FilesUnder, At, Live
<1>4. FilesInv'
  BY DEF RebindAgent, FailStep, Fault, Refused, ToMove, Sources, FlightInv, SettledInv, RunsInv,
         FilesInv, BoundInv, LandedInv, WatcherInv, FilesUnder, OnAccount, At, Live, Goto,
         Converging, RunnerInv, RecordInv, EndInv, RecordType, Rebinds, ThreadType, AgentType,
         Maybe, Calm
<1>5. BoundInv'
  BY DEF RebindAgent, FailStep, Fault, Refused, ToMove, Sources, FlightInv, SettledInv, RunsInv,
         FilesInv, BoundInv, LandedInv, WatcherInv, FilesUnder, OnAccount, At, Live, Goto,
         Converging, RunnerInv, RecordInv, EndInv, RecordType, Rebinds, ThreadType, AgentType,
         Calm, Race
<1>6. LandedInv'
  BY DEF RebindAgent, FailStep, Fault, Refused, ToMove, Sources, FlightInv, SettledInv, RunsInv,
         FilesInv, BoundInv, LandedInv, WatcherInv, FilesUnder, OnAccount, At, Live, Goto,
         Converging, RunnerInv, RecordInv, EndInv, RecordType, Rebinds, ThreadType, AgentType,
         Calm, Race, appVars
<1>7. WatcherInv'
  BY DEF RebindAgent, WatcherInv, FilesUnder, OnAccount, At, Live, Goto, Converging, RunnerInv,
         RecordInv, EndInv, ThreadType, Calm, Race, appVars
<1> QED BY <1>1, <1>2, <1>3, <1>4, <1>5, <1>6, <1>7

\* The eviction of the watcher keeps the agent, its files and its label together
\* (AccountInv).
LEMMA AccountEvictWatcher ==
    ASSUME BookInv, Calm, AccountInv, EvictWatcher
    PROVE  AccountInv'
<1> SUFFICES ASSUME AccountParts, ~doomed, ~destroyed PROVE AccountParts'
  BY DEF AccountInv, EvictWatcher, endVars, BookInv, EndInv
<1> USE RebindAssumption DEF BookInv, AccountParts
<1>1. SettledInv'
  BY DEF EvictWatcher, SettledInv, FilesUnder, OnAccount, recordVars, agentVars
<1>2. FlightInv'
  BY DEF EvictWatcher, FlightInv, At, Live, Goto, recordVars
<1>3. RunsInv'
  BY DEF EvictWatcher, RunsInv, At, Live, Goto, agentVars
<1>4. FilesInv'
  BY DEF EvictWatcher, FilesInv, FilesUnder, At, Live, Goto, recordVars, agentVars
<1>5. BoundInv'
  BY DEF EvictWatcher, BoundInv, FilesUnder, OnAccount, At, Live, Goto, recordVars, agentVars
<1>6. LandedInv'
  BY DEF EvictWatcher, LandedInv, At, Live, Goto, recordVars, agentVars
<1>7. WatcherInv'
  BY DEF EvictWatcher, Evicted, WatcherInv
<1> QED BY <1>1, <1>2, <1>3, <1>4, <1>5, <1>6, <1>7

\* The agent's new label keeps the agent, its files and its label together
\* (AccountInv).
LEMMA AccountRelabel ==
    ASSUME BookInv, Calm, AccountInv, Relabel
    PROVE  AccountInv'
<1> SUFFICES ASSUME AccountParts, ~doomed, ~destroyed PROVE AccountParts'
  BY DEF AccountInv, Relabel, endVars, BookInv, EndInv
<1> USE RebindAssumption DEF BookInv, AccountParts
<1>1. FlightInv'
  BY DEF Relabel, FlightInv, At, Live, Goto, Converging, RunnerInv, RecordInv, EndInv
<1>2. SettledInv'
  BY DEF Relabel, FailStep, Fault, Refused, Noted, ToMove, Sources, FlightInv, SettledInv,
         RunsInv, FilesInv, BoundInv, LandedInv, WatcherInv, FilesUnder, OnAccount, At, Live,
         Goto, Converging, RunnerInv, RecordInv, EndInv, RecordType, Rebinds, AgentType,
         ThreadType, Calm
<1>3. RunsInv'
  BY DEF Relabel, RunsInv, FilesUnder, At, Live
<1>4. FilesInv'
  BY DEF Relabel, FailStep, Fault, Refused, Noted, ToMove, Sources, FilesInv, FilesUnder,
         OnAccount, At, Live, Goto, Converging, RunnerInv, RecordInv, EndInv, RecordType, Rebinds,
         ThreadType, AgentType, Maybe, Calm, Race
<1>5. BoundInv'
  BY DEF Relabel, FailStep, Fault, Refused, Noted, ToMove, Sources, FlightInv, SettledInv,
         RunsInv, FilesInv, BoundInv, LandedInv, WatcherInv, FilesUnder, OnAccount, At, Live,
         Goto, Converging, RunnerInv, RecordInv, EndInv, RecordType, Rebinds, ThreadType,
         AgentType, Calm
<1>6. LandedInv'
  BY DEF Relabel, FailStep, Fault, Refused, Noted, ToMove, Sources, FlightInv, SettledInv,
         RunsInv, FilesInv, BoundInv, LandedInv, WatcherInv, FilesUnder, OnAccount, At, Live,
         Goto, Converging, RunnerInv, RecordInv, EndInv, RecordType, Rebinds, ThreadType,
         AgentType, Calm
<1>7. WatcherInv'
  BY DEF Relabel, WatcherInv, At, Live, Goto
<1> QED BY <1>1, <1>2, <1>3, <1>4, <1>5, <1>6, <1>7

\* The start of the agent keeps the agent, its files and its label together
\* (AccountInv).
LEMMA AccountStartAgent ==
    ASSUME BookInv, Calm, AccountInv, StartAgent
    PROVE  AccountInv'
<1> SUFFICES ASSUME AccountParts, ~doomed, ~destroyed PROVE AccountParts'
  BY DEF AccountInv, StartAgent, endVars, BookInv, EndInv
<1> USE RebindAssumption DEF BookInv, AccountParts
<1>1. FlightInv'
  BY DEF StartAgent, FlightInv, At, Live, Goto, Converging, RunnerInv, RecordInv, EndInv, Race
<1>2. SettledInv'
  BY DEF StartAgent, FlightInv, SettledInv, RunsInv, FilesInv, BoundInv, LandedInv, WatcherInv,
         FilesUnder, OnAccount, At, Live, Goto, Converging, RunnerInv, RecordInv, EndInv,
         RecordType, Rebinds, AgentType, ThreadType, Calm
<1>3. RunsInv'
  BY DEF StartAgent, FailStep, Fault, Refused, Started, ToMove, Sources, FlightInv, SettledInv,
         RunsInv, FilesInv, BoundInv, LandedInv, WatcherInv, FilesUnder, OnAccount, At, Live,
         Goto, Converging, RunnerInv, RecordInv, EndInv, RecordType, Rebinds, ThreadType, AppType,
         AgentType, Calm, Race
<1>4. FilesInv'
  BY DEF StartAgent, FailStep, Fault, Refused, Started, ToMove, Sources, FilesInv, FilesUnder,
         OnAccount, At, Live, Goto, Converging, RunnerInv, RecordInv, EndInv, RecordType, Rebinds,
         ThreadType, AgentType, Maybe, Calm, Race
<1>5. BoundInv'
  BY DEF StartAgent, FailStep, Fault, Refused, Started, ToMove, Sources, FlightInv, SettledInv,
         RunsInv, FilesInv, BoundInv, LandedInv, WatcherInv, FilesUnder, OnAccount, At, Live,
         Goto, Converging, RunnerInv, RecordInv, EndInv, RecordType, Rebinds, ThreadType,
         AgentType, Calm
<1>6. LandedInv'
  BY DEF StartAgent, FailStep, Fault, Refused, Started, ToMove, Sources, FlightInv, SettledInv,
         RunsInv, FilesInv, BoundInv, LandedInv, WatcherInv, FilesUnder, OnAccount, At, Live,
         Goto, Converging, RunnerInv, RecordInv, EndInv, RecordType, Rebinds, ThreadType,
         AgentType, Calm
<1>7. WatcherInv'
  BY DEF StartAgent, WatcherInv, At, Live, Goto
<1> QED BY <1>1, <1>2, <1>3, <1>4, <1>5, <1>6, <1>7

\* The write that lands the restart keeps the agent, its files and its label together
\* (AccountInv).
LEMMA AccountLand ==
    ASSUME BookInv, Calm, AccountInv, Land
    PROVE  AccountInv'
<1> SUFFICES ASSUME AccountParts, ~doomed, ~destroyed PROVE AccountParts'
  BY DEF AccountInv, Land, endVars, BookInv, EndInv
<1> USE RebindAssumption DEF BookInv, AccountParts
<1>1. FlightInv'
  BY DEF Land, FlightInv, At, Live, Goto, Converging, RunnerInv, RecordInv, EndInv, appVars
<1>2. SettledInv'
  BY DEF Land, FailStep, Fault, ToMove, Sources, FlightInv, SettledInv, RunsInv, FilesInv,
         BoundInv, LandedInv, WatcherInv, FilesUnder, OnAccount, At, Live, Goto, Converging,
         RunnerInv, RecordInv, EndInv, RecordType, Rebinds, AgentType, ThreadType, Calm, Race,
         appVars
<1>3. RunsInv'
  BY DEF Land, FailStep, Fault, ToMove, Sources, FlightInv, SettledInv, RunsInv, FilesInv,
         BoundInv, LandedInv, WatcherInv, FilesUnder, OnAccount, At, Live, Goto, Converging,
         RunnerInv, RecordInv, EndInv, RecordType, Rebinds, ThreadType, AppType, AgentType, Calm,
         Race, appVars, agentVars
<1>4. FilesInv'
  BY DEF Land, FailStep, Fault, ToMove, Sources, FlightInv, SettledInv, RunsInv, FilesInv,
         BoundInv, LandedInv, WatcherInv, FilesUnder, OnAccount, At, Live, Goto, Converging,
         RunnerInv, RecordInv, EndInv, RecordType, Rebinds, ThreadType, AgentType, Maybe, Calm,
         Race, agentVars
<1>5. BoundInv'
  BY DEF Land, FailStep, Fault, ToMove, Sources, FlightInv, SettledInv, RunsInv, FilesInv,
         BoundInv, LandedInv, WatcherInv, FilesUnder, OnAccount, At, Live, Goto, Converging,
         RunnerInv, RecordInv, EndInv, RecordType, Rebinds, ThreadType, AgentType, Calm, Race,
         appVars, agentVars
<1>6. LandedInv'
  BY DEF Land, FailStep, Fault, ToMove, Sources, FlightInv, SettledInv, RunsInv, FilesInv,
         BoundInv, LandedInv, WatcherInv, FilesUnder, OnAccount, At, Live, Goto, Converging,
         RunnerInv, RecordInv, EndInv, RecordType, Rebinds, ThreadType, AgentType, Calm, Race,
         appVars, agentVars
<1>7. WatcherInv'
  BY DEF Land, WatcherInv, At, Live, Goto, appVars, agentVars
<1> QED BY <1>1, <1>2, <1>3, <1>4, <1>5, <1>6, <1>7

\* The model picked, sent to the agent keeps the agent, its files and its label
\* together (AccountInv).
LEMMA AccountApplyModelPick ==
    ASSUME BookInv, Calm, AccountInv, ApplyModelPick
    PROVE  AccountInv'
<1> SUFFICES ASSUME AccountParts, ~doomed, ~destroyed PROVE AccountParts'
  BY DEF AccountInv, ApplyModelPick, endVars, BookInv, EndInv
<1> USE RebindAssumption DEF BookInv, AccountParts
<1>1. FlightInv'
  BY DEF ApplyModelPick, FlightInv, At, Live, Goto, Converging, RunnerInv
<1>2. SettledInv'
  BY DEF ApplyModelPick, SettledInv, LandedInv, WatcherInv, FilesUnder, OnAccount, At, Live, Goto,
         Converging, RunnerInv, RecordInv, EndInv, RecordType, Rebinds, AgentType, ThreadType,
         Calm, Race
<1>3. RunsInv'
  BY DEF ApplyModelPick, FailStep, Fault, Refused, Started, PickWanted, ToMove, Sources,
         FlightInv, SettledInv, RunsInv, FilesInv, BoundInv, LandedInv, WatcherInv, FilesUnder,
         OnAccount, At, Live, Goto, Converging, RunnerInv, RecordInv, EndInv, RecordType, Rebinds,
         ThreadType, AppType, AgentType, Calm, Race
<1>4. FilesInv'
  BY DEF ApplyModelPick, FailStep, Fault, Refused, Started, PickWanted, ToMove, Sources,
         FlightInv, SettledInv, RunsInv, FilesInv, BoundInv, LandedInv, WatcherInv, FilesUnder,
         OnAccount, At, Live, Goto, Converging, RunnerInv, RecordInv, EndInv, RecordType, Rebinds,
         ThreadType, AgentType, Maybe, Calm
<1>5. BoundInv'
  BY DEF ApplyModelPick, FailStep, Fault, Refused, Started, PickWanted, ToMove, BoundInv,
         WatcherInv, FilesUnder, OnAccount, At, Live, Goto, Converging, RunnerInv, RecordInv,
         EndInv, RecordType, Rebinds, ThreadType, AgentType, Calm, Race
<1>6. LandedInv'
  BY DEF ApplyModelPick, FailStep, Fault, Refused, Started, PickWanted, ToMove, LandedInv,
         WatcherInv, FilesUnder, OnAccount, At, Live, Goto, Converging, RunnerInv, RecordInv,
         EndInv, RecordType, Rebinds, ThreadType, AgentType, Calm, Race
<1>7. WatcherInv'
  BY DEF ApplyModelPick, WatcherInv, At, Live
<1> QED BY <1>1, <1>2, <1>3, <1>4, <1>5, <1>6, <1>7

\* The note that the pick is done keeps the agent, its files and its label together
\* (AccountInv).
LEMMA AccountNotePick ==
    ASSUME BookInv, Calm, AccountInv, NotePick
    PROVE  AccountInv'
<1> SUFFICES ASSUME AccountParts, ~doomed, ~destroyed PROVE AccountParts'
  BY DEF AccountInv, NotePick, endVars, BookInv, EndInv
<1> USE RebindAssumption DEF BookInv, AccountParts
<1>1. FlightInv'
  BY DEF NotePick, FlightInv, At, Live, Goto, Converging, RunnerInv, RecordInv, EndInv, appVars
<1>2. SettledInv'
  BY DEF NotePick, FailStep, Fault, ToMove, Sources, FlightInv, SettledInv, RunsInv, FilesInv,
         BoundInv, LandedInv, WatcherInv, FilesUnder, OnAccount, At, Live, Goto, Converging,
         RunnerInv, RecordInv, EndInv, RecordType, Rebinds, AgentType, ThreadType, Calm, Race,
         appVars
<1>3. RunsInv'
  BY DEF NotePick, FailStep, Fault, ToMove, Sources, FlightInv, SettledInv, RunsInv, FilesInv,
         BoundInv, LandedInv, WatcherInv, FilesUnder, OnAccount, At, Live, Goto, Converging,
         RunnerInv, RecordInv, EndInv, RecordType, Rebinds, ThreadType, AppType, AgentType, Calm,
         Race, appVars, agentVars
<1>4. FilesInv'
  BY DEF NotePick, FailStep, Fault, ToMove, Sources, FlightInv, SettledInv, RunsInv, FilesInv,
         BoundInv, LandedInv, WatcherInv, FilesUnder, OnAccount, At, Live, Goto, Converging,
         RunnerInv, RecordInv, EndInv, RecordType, Rebinds, ThreadType, AgentType, Maybe, Calm,
         Race, agentVars
<1>5. BoundInv'
  BY DEF NotePick, FailStep, Fault, ToMove, Sources, FlightInv, SettledInv, RunsInv, FilesInv,
         BoundInv, LandedInv, WatcherInv, FilesUnder, OnAccount, At, Live, Goto, Converging,
         RunnerInv, RecordInv, EndInv, RecordType, Rebinds, ThreadType, AgentType, Calm, Race,
         appVars, agentVars
<1>6. LandedInv'
  BY DEF NotePick, FailStep, Fault, ToMove, Sources, FlightInv, SettledInv, RunsInv, FilesInv,
         BoundInv, LandedInv, WatcherInv, FilesUnder, OnAccount, At, Live, Goto, Converging,
         RunnerInv, RecordInv, EndInv, RecordType, Rebinds, ThreadType, AgentType, Calm, Race,
         appVars, agentVars
<1>7. WatcherInv'
  BY DEF NotePick, WatcherInv, At, Live, Goto, appVars, agentVars
<1> QED BY <1>1, <1>2, <1>3, <1>4, <1>5, <1>6, <1>7

\* The look before the held sends go out keeps the agent, its files and its label
\* together (AccountInv).
LEMMA AccountDeliverHeldSends ==
    ASSUME BookInv, Calm, AccountInv, DeliverHeldSends
    PROVE  AccountInv'
<1> SUFFICES ASSUME AccountParts, ~doomed, ~destroyed PROVE AccountParts'
  BY DEF AccountInv, DeliverHeldSends, endVars, BookInv, EndInv
<1> USE RebindAssumption DEF BookInv, AccountParts
<1>1. SettledInv'
  BY DEF DeliverHeldSends, SettledInv, FilesUnder, OnAccount, recordVars, appVars, agentVars
<1>2. FlightInv'
  BY DEF DeliverHeldSends, FlightInv, At, Live, Goto, recordVars, appVars
<1>3. RunsInv'
  BY DEF DeliverHeldSends, RunsInv, FilesUnder, At, Live, Goto, appVars, agentVars
<1>4. FilesInv'
  BY DEF DeliverHeldSends, FilesInv, FilesUnder, At, Live, Goto, recordVars, agentVars
<1>5. BoundInv'
  BY DEF DeliverHeldSends, BoundInv, FilesUnder, OnAccount, At, Live, Goto, recordVars, appVars,
         agentVars
<1>6. LandedInv'
  BY DEF DeliverHeldSends, LandedInv, FilesUnder, OnAccount, At, Live, Goto, recordVars, appVars,
         agentVars
<1>7. WatcherInv'
  BY DEF DeliverHeldSends, WatcherInv, At, Live, Goto, appVars, agentVars
<1> QED BY <1>1, <1>2, <1>3, <1>4, <1>5, <1>6, <1>7

\* The next held send, taken from the record keeps the agent, its files and its label
\* together (AccountInv).
LEMMA AccountTakeNextHeldSend ==
    ASSUME BookInv, Calm, AccountInv, TakeNextHeldSend
    PROVE  AccountInv'
<1> SUFFICES ASSUME AccountParts, ~doomed, ~destroyed PROVE AccountParts'
  BY DEF AccountInv, TakeNextHeldSend, endVars, BookInv, EndInv
<1> USE RebindAssumption DEF BookInv, AccountParts
<1>1. FlightInv'
  BY DEF TakeNextHeldSend, FlightInv, At, Live, Goto, Converging, RunnerInv, RecordInv, EndInv,
         appVars
<1>2. SettledInv'
  BY DEF TakeNextHeldSend, FlightInv, SettledInv, RunsInv, FilesInv, BoundInv, LandedInv,
         WatcherInv, FilesUnder, OnAccount, At, Live, Goto, Converging, RunnerInv, RecordInv,
         EndInv, RecordType, Rebinds, AgentType, ThreadType, Calm, Race, appVars, agentVars
<1>3. RunsInv'
  BY DEF TakeNextHeldSend, FailStep, Fault, NoRebind, NextHeld, Rest, ToMove, Sources, FlightInv,
         SettledInv, RunsInv, FilesInv, BoundInv, LandedInv, WatcherInv, FilesUnder, OnAccount,
         At, Live, Goto, Converging, RunnerInv, RecordInv, EndInv, RecordType, Rebinds,
         ThreadType, AppType, AgentType, Calm, Race, appVars, agentVars
<1>4. FilesInv'
  BY DEF TakeNextHeldSend, FailStep, Fault, NoRebind, NextHeld, Rest, ToMove, Sources, FlightInv,
         SettledInv, RunsInv, FilesInv, BoundInv, LandedInv, WatcherInv, FilesUnder, OnAccount,
         At, Live, Goto, Converging, RunnerInv, RecordInv, EndInv, RecordType, Rebinds,
         ThreadType, AgentType, Maybe, Calm, Race, agentVars
<1>5. BoundInv'
  BY DEF TakeNextHeldSend, FailStep, Fault, NoRebind, NextHeld, Rest, ToMove, Sources, FlightInv,
         SettledInv, RunsInv, FilesInv, BoundInv, LandedInv, WatcherInv, FilesUnder, OnAccount,
         At, Live, Goto, Converging, RunnerInv, RecordInv, EndInv, RecordType, Rebinds,
         ThreadType, AgentType, Calm, Race, appVars, agentVars
<1>6. LandedInv'
  BY DEF TakeNextHeldSend, FailStep, Fault, NoRebind, NextHeld, Rest, ToMove, Sources, FlightInv,
         SettledInv, RunsInv, FilesInv, BoundInv, LandedInv, WatcherInv, FilesUnder, OnAccount,
         At, Live, Goto, Converging, RunnerInv, RecordInv, EndInv, RecordType, Rebinds,
         ThreadType, AgentType, Calm, Race, appVars, agentVars
<1>7. WatcherInv'
  BY DEF TakeNextHeldSend, WatcherInv, At, Live, Goto, appVars, agentVars
<1> QED BY <1>1, <1>2, <1>3, <1>4, <1>5, <1>6, <1>7

\* The delivery of the held send in hand keeps the agent, its files and its label
\* together (AccountInv).
LEMMA AccountDeliverHeldSend ==
    ASSUME BookInv, Calm, AccountInv, DeliverHeldSend
    PROVE  AccountInv'
<1> SUFFICES ASSUME AccountParts, ~doomed, ~destroyed PROVE AccountParts'
  BY DEF AccountInv, DeliverHeldSend, endVars, BookInv, EndInv
<1> USE RebindAssumption DEF BookInv, AccountParts
<1>1. SettledInv'
  BY DEF DeliverHeldSend, SettledInv, FilesUnder, OnAccount, recordVars
<1>2. FlightInv'
  BY DEF DeliverHeldSend, FlightInv, At, Goto, recordVars
<1>3. RunsInv'
  BY DEF DeliverHeldSend, Reaches, Started, ToMove, Sources, FlightInv, SettledInv, RunsInv,
         FilesInv, BoundInv, LandedInv, WatcherInv, FilesUnder, OnAccount, At, Live, Goto,
         Converging, RunnerInv, RecordInv, EndInv, RecordType, Rebinds, ThreadType, AppType,
         AgentType, Calm, Race
<1>4. FilesInv'
  BY DEF DeliverHeldSend, FilesInv, FilesUnder, At, Goto, recordVars
<1>5. BoundInv'
  BY DEF DeliverHeldSend, BoundInv, FilesUnder, OnAccount, At, Goto, recordVars
<1>6. LandedInv'
  BY DEF DeliverHeldSend, LandedInv, FilesUnder, OnAccount, At, Goto, recordVars
<1>7. WatcherInv'
  BY DEF DeliverHeldSend, WatcherInv, At
<1> QED BY <1>1, <1>2, <1>3, <1>4, <1>5, <1>6, <1>7

\* A death of the app and its start keeps the agent, its files and its label together
\* (AccountInv).
LEMMA AccountReboot ==
    ASSUME BookInv, Calm, AccountInv, Reboot
    PROVE  AccountInv'
<1> SUFFICES ASSUME AccountParts, ~doomed, ~destroyed PROVE AccountParts'
  BY DEF AccountInv, Reboot, endVars, BookInv, EndInv
<1> USE RebindAssumption DEF BookInv, AccountParts
<1>1. FlightInv'
  BY DEF Reboot, FlightInv
<1>2. SettledInv'
  BY DEF Reboot, SettledInv, FilesUnder, OnAccount, At, Race, recordVars
<1>3. RunsInv'
  BY DEF Reboot, Started, ResumeLabel, ToMove, Sources, FlightInv, SettledInv, RunsInv, FilesInv,
         BoundInv, LandedInv, WatcherInv, FilesUnder, OnAccount, At, Live, Goto, Converging,
         RunnerInv, RecordInv, EndInv, RecordType, Rebinds, ThreadType, AppType, AgentType, Calm,
         Race
<1>4. FilesInv'
  BY DEF Reboot, ResumeLabel, FilesInv, FilesUnder, At, Race, recordVars
<1>5. BoundInv'
  BY DEF Reboot, ResumeLabel, BoundInv, FilesUnder, OnAccount, At, Race
<1>6. LandedInv'
  BY DEF Reboot, ResumeLabel, LandedInv, FilesUnder, OnAccount, At, Race, recordVars
<1>7. WatcherInv'
  BY DEF Reboot, WatcherInv
<1> QED BY <1>1, <1>2, <1>3, <1>4, <1>5, <1>6, <1>7

\* What the observe stream says keeps the agent, its files and its label together
\* (AccountInv).
LEMMA AccountObserve ==
    ASSUME BookInv, Calm, AccountInv, Observe
    PROVE  AccountInv'
<1> SUFFICES ASSUME AccountParts, ~doomed, ~destroyed PROVE AccountParts'
  BY DEF AccountInv, Observe, endVars, BookInv
<1> USE RebindAssumption DEF BookInv, AccountParts
<1>1. FlightInv' /\ SettledInv' /\ FilesInv' /\ BoundInv' /\ LandedInv'
  BY DEF Observe, FlightInv, SettledInv, FilesInv, BoundInv, LandedInv, At, FilesUnder, OnAccount,
         recordVars, threadVars, agentVars
<1>2. RunsInv'
  BY DEF Observe, RunsInv, FilesUnder, threadVars, agentVars
<1>3. WatcherInv'
  BY DEF Observe, WatcherInv, At, threadVars, agentVars
<1> QED BY <1>1, <1>2, <1>3

\* A death of the agent keeps the agent, its files and its label together (AccountInv).
LEMMA AccountAgentDies ==
    ASSUME BookInv, Calm, AccountInv, AgentDies
    PROVE  AccountInv'
<1> SUFFICES ASSUME AccountParts, ~doomed, ~destroyed PROVE AccountParts'
  BY DEF AccountInv, AgentDies, endVars, BookInv, EndInv
<1> USE RebindAssumption DEF BookInv, AccountParts
<1>1. FlightInv' /\ SettledInv' /\ FilesInv' /\ BoundInv' /\ LandedInv' /\ WatcherInv'
  BY DEF AgentDies, FlightInv, SettledInv, FilesInv, BoundInv, LandedInv, WatcherInv, At,
         FilesUnder, OnAccount, recordVars, appVars, threadVars
<1>2. RunsInv'
  BY DEF AgentDies, RunsInv
<1> QED BY <1>1, <1>2

\* A turn of the agent keeps the agent, its files and its label together (AccountInv).
LEMMA AccountAgentTurn ==
    ASSUME BookInv, Calm, AccountInv, AgentTurn
    PROVE  AccountInv'
<1> SUFFICES ASSUME AccountParts, ~doomed, ~destroyed PROVE AccountParts'
  BY DEF AccountInv, AgentTurn, endVars, BookInv, EndInv
<1> USE RebindAssumption DEF BookInv, AccountParts
<1>1. FlightInv' /\ SettledInv' /\ RunsInv' /\ FilesInv' /\ BoundInv' /\ LandedInv' /\ WatcherInv'
  BY DEF AgentTurn, FlightInv, SettledInv, RunsInv, FilesInv, BoundInv, LandedInv, WatcherInv, At,
         FilesUnder, OnAccount, recordVars, appVars, threadVars
<1> QED BY <1>1

\* The destroyed chat's agent keeps the agent, its files and its label together
\* (AccountInv).
LEMMA AccountDestroyAgent ==
    ASSUME BookInv, Calm, AccountInv, DestroyAgent
    PROVE  AccountInv'
BY DEF DestroyAgent, AccountInv

\* The destroyed chat's record keeps the agent, its files and its label together
\* (AccountInv).
LEMMA AccountDestroyRecord ==
    ASSUME BookInv, Calm, AccountInv, DestroyRecord
    PROVE  AccountInv'
BY DEF DestroyRecord, AccountInv

\* It holds at the start.
LEMMA AccountInit == Init => AccountInv
<1> SUFFICES ASSUME Init PROVE AccountParts
  BY DEF AccountInv
<1> QED
  BY DEF Init, AccountParts, FlightInv, SettledInv, RunsInv, FilesInv, BoundInv, LandedInv,
         WatcherInv, FilesUnder, OnAccount, NoRebind, NoRunner, At

\* Every step keeps it, without the races.
LEMMA AccountStep ==
    ASSUME Calm
    PROVE  BookInv /\ AccountInv /\ [Next]_vars => AccountInv'
<1> SUFFICES ASSUME BookInv, AccountInv, [Next]_vars PROVE AccountInv'
  OBVIOUS
<1>1. CASE UNCHANGED vars
  BY <1>1
     DEF vars, recordVars, appVars, threadVars, agentVars, endVars, AccountInv, AccountParts,
         FlightInv, SettledInv, RunsInv, FilesInv, BoundInv, LandedInv, WatcherInv, FilesUnder,
         OnAccount, At
<1>2. CASE Next
  BY <1>2, AccountHoldSend, AccountResolveSend, AccountSendLands, AccountReadBinding,
     AccountBuildWatcher, AccountBeginRebind, AccountRetryRebind, AccountStopped, AccountDrain,
     AccountDrained, AccountRestart, AccountStopAgent, AccountRecordWhere, AccountMoveFile,
     AccountMoveEnds, AccountRebindAgent, AccountEvictWatcher, AccountRelabel, AccountStartAgent,
     AccountLand, AccountApplyModelPick, AccountNotePick, AccountDeliverHeldSends,
     AccountTakeNextHeldSend, AccountDeliverHeldSend, AccountReboot, AccountObserve,
     AccountAgentDies, AccountAgentTurn, AccountDestroyAgent, AccountDestroyRecord
     DEF Next, RunnerStep
<1> QED BY <1>1, <1>2

\* It always holds, without the races.
LEMMA Accounted ==
    ASSUME Calm
    PROVE  Spec => []AccountInv
BY Booked, AccountInit, AccountStep, PTL DEF Spec

\* The parts of the invariant are what OneAccount says.
LEMMA OneAccountFromParts ==
    ASSUME BookInv, AccountInv
    PROVE  OneAccount
<1>1. FilesWithAgent
  BY DEF FilesWithAgent, BookInv, EndInv, AccountInv, AccountParts, RunsInv, FilesUnder
<1>2. ASSUME ~Converging, ~doomed
      PROVE  /\ label = env /\ named = label /\ \A f \in Files : fileAt[f] = env
             /\ proc = "up" => runsOn = env
             /\ watcher \in {Nothing, env}
  <2>1. At("idle")
    BY <1>2 DEF BookInv, RunnerInv, RecordInv, EndInv, Converging, At
  <2> QED
    BY <1>2, <2>1
       DEF AccountInv, AccountParts, SettledInv, RunsInv, WatcherInv, OnAccount, FilesUnder,
           Converging, At
<1> QED BY <1>1, <1>2 DEF OneAccount

\* OneAccount, apart from the races of Calm: an agent runs with its session files, and
\* a chat that is not converging is on one account throughout.
THEOREM OneAccountHolds ==
    ASSUME Calm
    PROVE  Spec => []OneAccount
<1>1. BookInv /\ AccountInv => OneAccount
  BY OneAccountFromParts
<1> QED BY <1>1, Booked, Accounted, PTL

--------------------------------------------------------------------------------
\* What is delivered, and when.

\* The pick on record is done for this rebind, and before anything is delivered.
PickInv ==
    /\ rebind.pickDone => picked = rebind.id
    /\ At("noted") => picked = pc.id
    /\ At("noted") /\ ~destroyed => rebind.pick
    /\ pc.step \in {"deliver", "take", "send"} /\ ~destroyed /\ rebind.pick => rebind.pickDone

\* What the chat's entry says is where the restart landed.
EntryInv == rebind.landed # Nothing => entry = rebind.landed

\* The restart has not landed.
Before == rebind.phase = "draining" \/ (rebind.phase = "restarting" /\ rebind.landed # rebind.target)

\* Nothing that was held reaches the agent before the restart has landed.
GivenInv == Before => ~Delivered

\* A send that the record holds gives nothing before the restart has landed.
LEMMA GivenHoldSend ==
    ASSUME BookInv, AccountInv, "movedAgain" \notin Races, FlightFresh, PickInv, EntryInv,
           GivenInv, NEW m \in Messages, HoldSend(m)
    PROVE  PickInv' /\ EntryInv' /\ GivenInv'
<1> USE RebindAssumption DEF BookInv
<1>1. PickInv'
  BY ElemsOfEmpty DEF HoldSend, PickInv, At, Converging, threadVars, agentVars
<1>2. EntryInv'
  BY ElemsOfEmpty DEF HoldSend, EntryInv
<1>3. GivenInv'
  <2>1. Elems(log') = Elems(log) \cup {m}
    BY HoldSendTexts
  <2>2. m \notin Elems(inbox) \cup Elems(turns)
    BY ElemsIn DEF HoldSend, AgentPosted
  <2>3. Before' = Before /\ inbox' = inbox /\ turns' = turns
    BY DEF HoldSend, Before, agentVars
  <2> QED BY <2>1, <2>2, <2>3 DEF GivenInv, Delivered
<1> QED BY <1>1, <1>2, <1>3

\* A send that leaves the composer for the agent gives nothing before the restart has
\* landed.
LEMMA GivenResolveSend ==
    ASSUME BookInv, AccountInv, "movedAgain" \notin Races, FlightFresh, PickInv, EntryInv,
           GivenInv, NEW m \in Messages, ResolveSend(m)
    PROVE  PickInv' /\ EntryInv' /\ GivenInv'
<1> USE RebindAssumption DEF BookInv
<1>1. PickInv' /\ EntryInv' /\ GivenInv'
  BY DEF ResolveSend, PickInv, EntryInv, GivenInv, At, Before, Delivered, recordVars, threadVars,
         agentVars, endVars
<1> QED BY <1>1

\* A send that reaches its agent, or is refused gives nothing before the restart has
\* landed.
LEMMA GivenSendLands ==
    ASSUME BookInv, AccountInv, "movedAgain" \notin Races, FlightFresh, PickInv, EntryInv,
           GivenInv, NEW m \in Messages, SendLands(m)
    PROVE  PickInv' /\ EntryInv' /\ GivenInv'
<1> USE RebindAssumption DEF BookInv
<1>1. PickInv' /\ EntryInv'
  BY DEF SendLands, PickInv, EntryInv, At, recordVars, threadVars, endVars
<1>2. GivenInv'
  <2>1. inbox' = inbox \/ inbox' = Append(inbox, m)
    BY DEF SendLands, Reaches
  <2>2. m \in posts /\ m \notin Elems(log)
    BY DEF SendLands, FlightFresh, OthersPosted
  <2>3. Elems(inbox') \subseteq Elems(inbox) \cup {m}
    <3>1. Elems(Append(inbox, m)) = Elems(inbox) \cup {m}
      BY <2>2, ElemsOfAppend DEF AgentPosted
    <3> QED BY <2>1, <3>1
  <2>4. Before' = Before /\ log' = log /\ turns' = turns
    BY DEF SendLands, Before, recordVars
  <2> QED BY <2>2, <2>3, <2>4 DEF GivenInv, Delivered
<1> QED BY <1>1, <1>2

\* A page that reads the binding gives nothing before the restart has landed.
LEMMA GivenReadBinding ==
    ASSUME BookInv, AccountInv, "movedAgain" \notin Races, FlightFresh, PickInv, EntryInv,
           GivenInv, ReadBinding
    PROVE  PickInv' /\ EntryInv' /\ GivenInv'
<1> USE RebindAssumption DEF BookInv
<1>1. PickInv' /\ EntryInv' /\ GivenInv'
  BY DEF ReadBinding, PickInv, EntryInv, GivenInv, At, Before, Delivered, recordVars, threadVars,
         agentVars, textVars, endVars
<1> QED BY <1>1

\* A watcher built on the binding read gives nothing before the restart has landed.
LEMMA GivenBuildWatcher ==
    ASSUME BookInv, AccountInv, "movedAgain" \notin Races, FlightFresh, PickInv, EntryInv,
           GivenInv, BuildWatcher
    PROVE  PickInv' /\ EntryInv' /\ GivenInv'
<1> USE RebindAssumption DEF BookInv
<1>1. PickInv' /\ EntryInv' /\ GivenInv'
  BY DEF BuildWatcher, PickInv, EntryInv, GivenInv, At, Before, Delivered, recordVars, threadVars,
         agentVars, textVars, endVars
<1> QED BY <1>1

\* A rebind that begins gives nothing before the restart has landed.
LEMMA GivenBeginRebind ==
    ASSUME BookInv, AccountInv, "movedAgain" \notin Races, FlightFresh, PickInv, EntryInv,
           GivenInv, NEW to \in Accounts, NEW m \in Messages, NEW k \in BOOLEAN,
           BeginRebind(to, m, k)
    PROVE  PickInv' /\ EntryInv' /\ GivenInv'
<1> USE RebindAssumption DEF BookInv
<1>1. PickInv'
  BY ElemsOfEmpty DEF BeginRebind, Opened, NoRebind, PickInv, At, Converging, agentVars, endVars
<1>2. EntryInv'
  BY ElemsOfEmpty DEF BeginRebind, Opened, NoRebind, EntryInv
<1>3. GivenInv'
  <2>1. Elems(log') = {m} /\ m \notin posts /\ inbox' = inbox /\ turns' = turns
    BY ElemsOfOne DEF BeginRebind, agentVars
  <2>2. m \notin Elems(inbox) \cup Elems(turns)
    BY <2>1, ElemsIn DEF AgentPosted
  <2> QED BY <2>1, <2>2 DEF GivenInv, Delivered
<1> QED BY <1>1, <1>2, <1>3

\* A retry of a failed rebind gives nothing before the restart has landed.
LEMMA GivenRetryRebind ==
    ASSUME BookInv, AccountInv, "movedAgain" \notin Races, FlightFresh, PickInv, EntryInv,
           GivenInv, NEW to \in Accounts, RetryRebind(to)
    PROVE  PickInv' /\ EntryInv' /\ GivenInv'
<1> USE RebindAssumption DEF BookInv
<1>1. PickInv'
  BY ElemsOfEmpty DEF RetryRebind, PickInv, At, Race, agentVars, endVars
<1>2. EntryInv'
  BY ElemsOfEmpty DEF RetryRebind, EntryInv
<1>3. GivenInv'
  BY ElemsOfEmpty DEF RetryRebind, GivenInv, Before, Delivered, Race, agentVars, textVars
<1> QED BY <1>1, <1>2, <1>3

\* A drain whose turn is stopped gives nothing before the restart has landed.
LEMMA GivenStopped ==
    ASSUME BookInv, AccountInv, "movedAgain" \notin Races, FlightFresh, PickInv, EntryInv,
           GivenInv, Stopped
    PROVE  PickInv' /\ EntryInv' /\ GivenInv'
<1> USE RebindAssumption DEF BookInv
<1>1. EntryInv' /\ GivenInv'
  BY DEF Stopped, EntryInv, GivenInv, Before, Delivered, recordVars, agentVars, textVars
<1>2. PickInv'
  BY ElemsOfEmpty DEF Stopped, PickInv, At, Goto, recordVars, agentVars
<1> QED BY <1>1, <1>2

\* The drain's look at the agent gives nothing before the restart has landed.
LEMMA GivenDrain ==
    ASSUME BookInv, AccountInv, "movedAgain" \notin Races, FlightFresh, PickInv, EntryInv,
           GivenInv, Drain
    PROVE  PickInv' /\ EntryInv' /\ GivenInv'
<1> USE RebindAssumption DEF BookInv
<1>1. EntryInv'
  BY DEF Drain, EntryInv, recordVars
<1>2. PickInv'
  BY ElemsOfEmpty DEF Drain, PickInv, At, Live, Goto, Race, recordVars, endVars
<1>3. GivenInv'
  BY ElemsOfEmpty DEF Drain, GivenInv, Before, Delivered, Goto, Race, recordVars, textVars
<1> QED BY <1>1, <1>2, <1>3

\* The end of the drain gives nothing before the restart has landed.
LEMMA GivenDrained ==
    ASSUME BookInv, AccountInv, "movedAgain" \notin Races, FlightFresh, PickInv, EntryInv,
           GivenInv, Drained
    PROVE  PickInv' /\ EntryInv' /\ GivenInv'
<1> USE RebindAssumption DEF BookInv
<1>1. PickInv'
  BY ElemsOfEmpty
     DEF Drained, PickInv, At, Live, Goto, Converging, RunnerInv, RecordInv, EndInv, RecordType,
         Rebinds, ThreadType, CountType, Race, agentVars, endVars
<1>2. EntryInv'
  BY ElemsOfEmpty
     DEF Drained, EntryInv, Converging, RunnerInv, RecordInv, EndInv, RecordType, Rebinds, Race
<1>3. GivenInv'
  BY ElemsOfEmpty
     DEF Drained, GivenInv, Before, Delivered, At, Goto, Converging, RunnerInv, RecordInv, EndInv,
         Race, agentVars
<1> QED BY <1>1, <1>2, <1>3

\* The record's way into the restart gives nothing before the restart has landed.
LEMMA GivenRestart ==
    ASSUME BookInv, AccountInv, "movedAgain" \notin Races, FlightFresh, PickInv, EntryInv,
           GivenInv, Restart
    PROVE  PickInv' /\ EntryInv' /\ GivenInv'
<1> USE RebindAssumption DEF BookInv
<1>1. PickInv'
  BY ElemsOfEmpty
     DEF Restart, FailStep, Fault, HasLanded, PickInv, EntryInv, FlightFresh, GivenInv, Before,
         Delivered, At, Live, Goto, Converging, RunnerInv, RecordInv, EndInv, RecordType, Rebinds,
         ThreadType, CountType, Race, recordVars, appVars, threadVars, agentVars, textVars,
         endVars
<1>2. EntryInv'
  BY ElemsOfEmpty
     DEF Restart, FailStep, Fault, HasLanded, PickInv, EntryInv, At, Live, Goto, Converging,
         RunnerInv, RecordInv, EndInv, RecordType, Rebinds, Race
<1>3. GivenInv'
  BY ElemsOfEmpty
     DEF Restart, FailStep, Fault, HasLanded, PickInv, EntryInv, FlightFresh, GivenInv, Before,
         Delivered, At, Live, Goto, Converging, RunnerInv, RecordInv, EndInv, RecordType, Rebinds,
         ThreadType, AgentType, Race, agentVars, textVars
<1> QED BY <1>1, <1>2, <1>3

\* The stop of the agent gives nothing before the restart has landed.
LEMMA GivenStopAgent ==
    ASSUME BookInv, AccountInv, "movedAgain" \notin Races, FlightFresh, PickInv, EntryInv,
           GivenInv, StopAgent
    PROVE  PickInv' /\ EntryInv' /\ GivenInv'
<1> USE RebindAssumption DEF BookInv
<1>1. PickInv'
  BY ElemsOfEmpty
     DEF StopAgent, FailStep, Fault, Refused, PickInv, EntryInv, FlightFresh, GivenInv, Before,
         Delivered, At, Live, Goto, Converging, RunnerInv, RecordInv, EndInv, RecordType, Rebinds,
         ThreadType, CountType, Race
<1>2. EntryInv'
  BY ElemsOfEmpty
     DEF StopAgent, FailStep, Fault, Refused, PickInv, EntryInv, At, Live, Goto, Converging,
         RunnerInv, RecordInv, EndInv, RecordType, Rebinds, Race
<1>3. GivenInv'
  BY ElemsOfEmpty
     DEF StopAgent, FailStep, Fault, Refused, PickInv, EntryInv, FlightFresh, GivenInv, Before,
         Delivered, At, Live, Goto, Converging, RunnerInv, RecordInv, EndInv, RecordType, Rebinds,
         ThreadType, HasLanded, AgentType
<1> QED BY <1>1, <1>2, <1>3

\* The note of where the files are gives nothing before the restart has landed.
LEMMA GivenRecordWhere ==
    ASSUME BookInv, AccountInv, "movedAgain" \notin Races, FlightFresh, PickInv, EntryInv,
           GivenInv, RecordWhere
    PROVE  PickInv' /\ EntryInv' /\ GivenInv'
<1> USE RebindAssumption DEF BookInv
<1>1. PickInv'
  BY ElemsOfEmpty
     DEF RecordWhere, FailStep, Fault, PickInv, EntryInv, FlightFresh, GivenInv, Before,
         Delivered, At, Live, Goto, Converging, RunnerInv, RecordInv, EndInv, RecordType, Rebinds,
         ThreadType, CountType, Race, agentVars
<1>2. EntryInv'
  BY ElemsOfEmpty
     DEF RecordWhere, FailStep, Fault, PickInv, EntryInv, FlightFresh, GivenInv, Before,
         Delivered, At, Live, Goto, Converging, RunnerInv, RecordInv, EndInv, RecordType, Rebinds
<1>3. GivenInv'
  BY ElemsOfEmpty
     DEF RecordWhere, FailStep, Fault, PickInv, EntryInv, FlightFresh, GivenInv, Before,
         Delivered, At, Live, Goto, Converging, RunnerInv, RecordInv, EndInv, RecordType, Rebinds,
         ThreadType, HasLanded, AgentType, Race, agentVars, textVars
<1> QED BY <1>1, <1>2, <1>3

\* The move of one file gives nothing before the restart has landed.
LEMMA GivenMoveFile ==
    ASSUME BookInv, AccountInv, "movedAgain" \notin Races, FlightFresh, PickInv, EntryInv,
           GivenInv, NEW f \in Files, MoveFile(f)
    PROVE  PickInv' /\ EntryInv' /\ GivenInv'
<1> USE RebindAssumption DEF BookInv
<1>1. PickInv' /\ EntryInv' /\ GivenInv'
  BY DEF MoveFile, PickInv, EntryInv, GivenInv, At, Before, Delivered, recordVars, threadVars,
         textVars, endVars
<1> QED BY <1>1

\* The end of the move gives nothing before the restart has landed.
LEMMA GivenMoveEnds ==
    ASSUME BookInv, AccountInv, "movedAgain" \notin Races, FlightFresh, PickInv, EntryInv,
           GivenInv, MoveEnds
    PROVE  PickInv' /\ EntryInv' /\ GivenInv'
<1> USE RebindAssumption DEF BookInv
<1>1. PickInv'
  BY ElemsOfEmpty
     DEF MoveEnds, FailStep, Fault, PickInv, EntryInv, FlightFresh, GivenInv, Before, Delivered,
         At, Live, Goto, Converging, RunnerInv, RecordInv, EndInv, RecordType, Rebinds,
         ThreadType, CountType, Race, agentVars
<1>2. EntryInv'
  BY ElemsOfEmpty
     DEF MoveEnds, FailStep, Fault, PickInv, EntryInv, FlightFresh, GivenInv, Before, Delivered,
         At, Live, Goto, Converging, RunnerInv, RecordInv, EndInv, RecordType, Rebinds
<1>3. GivenInv'
  BY ElemsOfEmpty
     DEF MoveEnds, FailStep, Fault, PickInv, EntryInv, FlightFresh, GivenInv, Before, Delivered,
         At, Live, Goto, Converging, RunnerInv, RecordInv, EndInv, RecordType, Rebinds,
         ThreadType, HasLanded, AgentType, Race, agentVars, textVars
<1> QED BY <1>1, <1>2, <1>3

\* The write of the environment file gives nothing before the restart has landed.
LEMMA GivenRebindAgent ==
    ASSUME BookInv, AccountInv, "movedAgain" \notin Races, FlightFresh, PickInv, EntryInv,
           GivenInv, RebindAgent
    PROVE  PickInv' /\ EntryInv' /\ GivenInv'
<1> USE RebindAssumption DEF BookInv
<1>1. PickInv'
  BY ElemsOfEmpty
     DEF RebindAgent, FailStep, Fault, Refused, PickInv, EntryInv, FlightFresh, GivenInv, Before,
         Delivered, At, Live, Goto, Converging, RunnerInv, RecordInv, EndInv, RecordType, Rebinds,
         ThreadType, CountType, Race, recordVars, appVars, threadVars, agentVars, textVars,
         endVars, countVars
<1>2. EntryInv'
  BY ElemsOfEmpty
     DEF RebindAgent, FailStep, Fault, Refused, PickInv, EntryInv, At, Live, Goto, Converging,
         RunnerInv, RecordInv, EndInv, RecordType, Rebinds, Race
<1>3. GivenInv'
  BY ElemsOfEmpty
     DEF RebindAgent, FailStep, Fault, Refused, PickInv, EntryInv, FlightFresh, GivenInv, Before,
         Delivered, At, Live, Goto, Converging, RunnerInv, RecordInv, EndInv, RecordType, Rebinds,
         ThreadType, HasLanded, AgentType, Race, textVars
<1> QED BY <1>1, <1>2, <1>3

\* The eviction of the watcher gives nothing before the restart has landed.
LEMMA GivenEvictWatcher ==
    ASSUME BookInv, AccountInv, "movedAgain" \notin Races, FlightFresh, PickInv, EntryInv,
           GivenInv, EvictWatcher
    PROVE  PickInv' /\ EntryInv' /\ GivenInv'
<1> USE RebindAssumption DEF BookInv
<1>1. EntryInv' /\ GivenInv'
  BY DEF EvictWatcher, EntryInv, GivenInv, Before, Delivered, recordVars, agentVars, textVars
<1>2. PickInv'
  BY ElemsOfEmpty DEF EvictWatcher, PickInv, At, Live, Goto, recordVars, agentVars
<1> QED BY <1>1, <1>2

\* The agent's new label gives nothing before the restart has landed.
LEMMA GivenRelabel ==
    ASSUME BookInv, AccountInv, "movedAgain" \notin Races, FlightFresh, PickInv, EntryInv,
           GivenInv, Relabel
    PROVE  PickInv' /\ EntryInv' /\ GivenInv'
<1> USE RebindAssumption DEF BookInv
<1>1. PickInv'
  BY ElemsOfEmpty
     DEF Relabel, FailStep, Fault, Refused, Noted, PickInv, EntryInv, FlightFresh, GivenInv,
         Before, Delivered, At, Live, Goto, Converging, RunnerInv, RecordInv, EndInv, RecordType,
         Rebinds, ThreadType, CountType, Race, endVars
<1>2. EntryInv'
  BY ElemsOfEmpty
     DEF Relabel, FailStep, Fault, Refused, Noted, PickInv, EntryInv, FlightFresh, GivenInv,
         Before, Delivered, At, Live, Goto, Converging, RunnerInv, RecordInv, EndInv, RecordType,
         Rebinds
<1>3. GivenInv'
  BY ElemsOfEmpty
     DEF Relabel, FailStep, Fault, Refused, Noted, PickInv, EntryInv, FlightFresh, GivenInv,
         Before, Delivered, At, Live, Goto, Converging, RunnerInv, RecordInv, EndInv, RecordType,
         Rebinds, ThreadType, HasLanded, AgentType, Race, textVars
<1> QED BY <1>1, <1>2, <1>3

\* The start of the agent gives nothing before the restart has landed.
LEMMA GivenStartAgent ==
    ASSUME BookInv, AccountInv, "movedAgain" \notin Races, FlightFresh, PickInv, EntryInv,
           GivenInv, StartAgent
    PROVE  PickInv' /\ EntryInv' /\ GivenInv'
<1> USE RebindAssumption DEF BookInv
<1>1. PickInv'
  BY ElemsOfEmpty
     DEF StartAgent, FailStep, Fault, Refused, Started, PickInv, EntryInv, FlightFresh, GivenInv,
         Before, Delivered, At, Live, Goto, Converging, RunnerInv, RecordInv, EndInv, RecordType,
         Rebinds, ThreadType, CountType, Race, endVars
<1>2. EntryInv'
  BY ElemsOfEmpty
     DEF StartAgent, FailStep, Fault, Refused, Started, PickInv, EntryInv, FlightFresh, GivenInv,
         Before, Delivered, At, Live, Goto, Converging, RunnerInv, RecordInv, EndInv, RecordType,
         Rebinds
<1>3. GivenInv'
  BY ElemsOfEmpty
     DEF StartAgent, FailStep, Fault, Refused, Started, PickInv, EntryInv, FlightFresh, GivenInv,
         Before, Delivered, At, Live, Goto, Converging, RunnerInv, RecordInv, EndInv, RecordType,
         Rebinds, ThreadType, HasLanded, AgentType, Race, textVars
<1> QED BY <1>1, <1>2, <1>3

\* The write that lands the restart gives nothing before the restart has landed.
LEMMA GivenLand ==
    ASSUME BookInv, AccountInv, "movedAgain" \notin Races, FlightFresh, PickInv, EntryInv,
           GivenInv, Land
    PROVE  PickInv' /\ EntryInv' /\ GivenInv'
<1> USE RebindAssumption DEF BookInv
<1>1. PickInv'
  BY ElemsOfEmpty
     DEF Land, FailStep, Fault, PickInv, EntryInv, FlightFresh, GivenInv, Before, Delivered, At,
         Live, Goto, Converging, RunnerInv, RecordInv, EndInv, RecordType, Rebinds, ThreadType,
         CountType, Race, agentVars
<1>2. EntryInv'
  BY ElemsOfEmpty
     DEF Land, FailStep, Fault, PickInv, EntryInv, FlightFresh, GivenInv, Before, Delivered, At,
         Live, Goto, Converging, RunnerInv, RecordInv, EndInv, RecordType, Rebinds
<1>3. GivenInv'
  BY ElemsOfEmpty
     DEF Land, FailStep, Fault, PickInv, EntryInv, FlightFresh, GivenInv, Before, Delivered, At,
         Live, Goto, Converging, RunnerInv, RecordInv, EndInv, RecordType, Rebinds, ThreadType,
         HasLanded, AgentType, Race, agentVars, textVars
<1> QED BY <1>1, <1>2, <1>3

\* The model picked, sent to the agent gives nothing before the restart has landed.
LEMMA GivenApplyModelPick ==
    ASSUME BookInv, AccountInv, "movedAgain" \notin Races, FlightFresh, PickInv, EntryInv,
           GivenInv, ApplyModelPick
    PROVE  PickInv' /\ EntryInv' /\ GivenInv'
<1> USE RebindAssumption DEF BookInv
<1>1. PickInv'
  BY ElemsOfEmpty
     DEF ApplyModelPick, FailStep, Fault, Refused, Started, PickWanted, PickInv, EntryInv,
         FlightFresh, GivenInv, Before, Delivered, At, Live, Goto, Converging, RunnerInv,
         RecordInv, EndInv, RecordType, Rebinds, ThreadType, CountType, Race
<1>2. EntryInv'
  BY ElemsOfEmpty
     DEF ApplyModelPick, FailStep, Fault, Refused, Started, EntryInv, Before, Delivered, At, Live,
         Goto, Converging, RunnerInv, RecordInv, EndInv, RecordType, Rebinds, Race
<1>3. GivenInv'
  BY ElemsOfEmpty
     DEF ApplyModelPick, FailStep, Fault, Refused, Started, PickWanted, PickInv, EntryInv,
         FlightFresh, GivenInv, Before, Delivered, At, Live, Goto, Converging, RunnerInv,
         RecordInv, EndInv, RecordType, Rebinds, ThreadType, HasLanded, AgentType, Race, textVars
<1> QED BY <1>1, <1>2, <1>3

\* The note that the pick is done gives nothing before the restart has landed.
LEMMA GivenNotePick ==
    ASSUME BookInv, AccountInv, "movedAgain" \notin Races, FlightFresh, PickInv, EntryInv,
           GivenInv, NotePick
    PROVE  PickInv' /\ EntryInv' /\ GivenInv'
<1> USE RebindAssumption DEF BookInv
<1>1. PickInv'
  BY ElemsOfEmpty
     DEF NotePick, FailStep, Fault, PickInv, EntryInv, FlightFresh, GivenInv, Before, Delivered,
         At, Live, Goto, Converging, RunnerInv, RecordInv, EndInv, RecordType, Rebinds,
         ThreadType, CountType, Race, agentVars
<1>2. EntryInv'
  BY ElemsOfEmpty
     DEF NotePick, FailStep, Fault, PickInv, EntryInv, FlightFresh, GivenInv, Before, Delivered,
         At, Live, Goto, Converging, RunnerInv, RecordInv, EndInv, RecordType, Rebinds
<1>3. GivenInv'
  BY ElemsOfEmpty
     DEF NotePick, FailStep, Fault, PickInv, EntryInv, FlightFresh, GivenInv, Before, Delivered,
         At, Live, Goto, Converging, RunnerInv, RecordInv, EndInv, RecordType, Rebinds,
         ThreadType, HasLanded, AgentType, Race, agentVars, textVars
<1> QED BY <1>1, <1>2, <1>3

\* The look before the held sends go out gives nothing before the restart has landed.
LEMMA GivenDeliverHeldSends ==
    ASSUME BookInv, AccountInv, "movedAgain" \notin Races, FlightFresh, PickInv, EntryInv,
           GivenInv, DeliverHeldSends
    PROVE  PickInv' /\ EntryInv' /\ GivenInv'
<1> USE RebindAssumption DEF BookInv
<1>1. EntryInv' /\ GivenInv'
  BY DEF DeliverHeldSends, EntryInv, GivenInv, Before, Delivered, recordVars, agentVars, textVars
<1>2. PickInv'
  BY ElemsOfEmpty DEF DeliverHeldSends, PickInv, At, Live, Goto, recordVars, agentVars, endVars
<1> QED BY <1>1, <1>2

\* The next held send, taken from the record gives nothing before the restart has
\* landed.
LEMMA GivenTakeNextHeldSend ==
    ASSUME BookInv, AccountInv, "movedAgain" \notin Races, FlightFresh, PickInv, EntryInv,
           GivenInv, TakeNextHeldSend
    PROVE  PickInv' /\ EntryInv' /\ GivenInv'
<1> USE RebindAssumption DEF BookInv
<1>1. PickInv'
  BY ElemsOfEmpty
     DEF TakeNextHeldSend, FailStep, Fault, NoRebind, NextHeld, Rest, PickInv, At, Live, Goto,
         Converging, RunnerInv, RecordInv, EndInv, RecordType, Rebinds, ThreadType, CountType,
         Race, agentVars, endVars
<1>2. EntryInv'
  BY ElemsOfEmpty
     DEF TakeNextHeldSend, FailStep, Fault, NoRebind, NextHeld, EntryInv, Before, Delivered, At,
         Live, Goto, Converging, RunnerInv, RecordInv, EndInv, RecordType, Rebinds, Race
<1>3. GivenInv'
  BY ElemsOfEmpty
     DEF TakeNextHeldSend, FailStep, Fault, NoRebind, NextHeld, Rest, PickInv, EntryInv,
         FlightFresh, GivenInv, Before, Delivered, At, Live, Goto, Converging, RunnerInv,
         RecordInv, EndInv, RecordType, Rebinds, ThreadType, HasLanded, AgentType, Race,
         agentVars, textVars
<1> QED BY <1>1, <1>2, <1>3

\* The delivery of the held send in hand gives nothing before the restart has landed.
LEMMA GivenDeliverHeldSend ==
    ASSUME BookInv, AccountInv, "movedAgain" \notin Races, FlightFresh, PickInv, EntryInv,
           GivenInv, DeliverHeldSend
    PROVE  PickInv' /\ EntryInv' /\ GivenInv'
<1> USE RebindAssumption DEF BookInv
<1>1. EntryInv'
  BY DEF DeliverHeldSend, EntryInv, recordVars
<1>2. PickInv'
  BY ElemsOfEmpty DEF DeliverHeldSend, PickInv, At, Goto, recordVars, endVars
<1>3. GivenInv'
  <2>1. rebind' = rebind /\ log' = log /\ turns' = turns
    BY DEF DeliverHeldSend, recordVars
  <2>2. CASE doomed
    <3>1. inbox' = inbox
      BY <2>2 DEF DeliverHeldSend, Reaches, Started, EndInv
    <3> QED BY <2>1, <3>1 DEF GivenInv, Delivered, Before
  <2>3. CASE ~doomed
    <3>1. rebind.phase = "restarting" /\ rebind.landed = rebind.target
      BY <2>3 DEF AccountInv, AccountParts, LandedInv, RunnerInv, EndInv, DeliverHeldSend, At
    <3> QED BY <2>1, <3>1 DEF GivenInv, Before
  <2> QED BY <2>2, <2>3
<1> QED BY <1>1, <1>2, <1>3

\* A death of the app and its start gives nothing before the restart has landed.
LEMMA GivenReboot ==
    ASSUME BookInv, AccountInv, "movedAgain" \notin Races, FlightFresh, PickInv, EntryInv,
           GivenInv, Reboot
    PROVE  PickInv' /\ EntryInv' /\ GivenInv'
<1> USE RebindAssumption DEF BookInv
<1>1. EntryInv' /\ GivenInv'
  BY DEF Reboot, EntryInv, GivenInv, Before, Delivered, recordVars
<1>2. PickInv'
  BY ElemsOfEmpty DEF Reboot, ResumeLabel, PickInv, At, Race, recordVars, endVars
<1> QED BY <1>1, <1>2

\* What the observe stream says gives nothing before the restart has landed.
LEMMA GivenObserve ==
    ASSUME BookInv, AccountInv, "movedAgain" \notin Races, FlightFresh, PickInv, EntryInv,
           GivenInv, Observe
    PROVE  PickInv' /\ EntryInv' /\ GivenInv'
<1> USE RebindAssumption DEF BookInv
<1>1. PickInv' /\ EntryInv' /\ GivenInv'
  BY DEF Observe, PickInv, EntryInv, GivenInv, At, Before, Delivered, recordVars, threadVars,
         agentVars, textVars, endVars
<1> QED BY <1>1

\* A death of the agent gives nothing before the restart has landed.
LEMMA GivenAgentDies ==
    ASSUME BookInv, AccountInv, "movedAgain" \notin Races, FlightFresh, PickInv, EntryInv,
           GivenInv, AgentDies
    PROVE  PickInv' /\ EntryInv' /\ GivenInv'
<1> USE RebindAssumption DEF BookInv
<1>1. PickInv' /\ EntryInv'
  BY DEF AgentDies, PickInv, EntryInv, At, recordVars, threadVars, endVars
<1>2. GivenInv'
  BY ElemsOfEmpty DEF AgentDies, GivenInv, Before, Delivered, recordVars
<1> QED BY <1>1, <1>2

\* A turn of the agent gives nothing before the restart has landed.
LEMMA GivenAgentTurn ==
    ASSUME BookInv, AccountInv, "movedAgain" \notin Races, FlightFresh, PickInv, EntryInv,
           GivenInv, AgentTurn
    PROVE  PickInv' /\ EntryInv' /\ GivenInv'
<1> USE RebindAssumption DEF BookInv
<1>1. PickInv' /\ EntryInv'
  BY DEF AgentTurn, PickInv, EntryInv, At, recordVars, threadVars, endVars
<1>2. GivenInv'
  <2>1. Elems(turns') = Elems(turns) \cup Elems(inbox) /\ Elems(inbox') = {}
    BY ElemsOfConcat, ElemsOfEmpty DEF AgentTurn, AgentPosted
  <2>2. Before' = Before /\ log' = log
    BY DEF AgentTurn, Before, recordVars, textVars
  <2> QED BY <2>1, <2>2 DEF GivenInv, Delivered
<1> QED BY <1>1, <1>2

\* The destroyed chat's agent gives nothing before the restart has landed.
LEMMA GivenDestroyAgent ==
    ASSUME BookInv, AccountInv, "movedAgain" \notin Races, FlightFresh, PickInv, EntryInv,
           GivenInv, DestroyAgent
    PROVE  PickInv' /\ EntryInv' /\ GivenInv'
<1> USE RebindAssumption DEF BookInv
<1>1. PickInv' /\ EntryInv'
  BY DEF DestroyAgent, PickInv, EntryInv, At, recordVars, threadVars
<1>2. GivenInv'
  BY ElemsOfEmpty DEF DestroyAgent, GivenInv, Before, Delivered, recordVars, textVars
<1> QED BY <1>1, <1>2

\* The destroyed chat's record gives nothing before the restart has landed.
LEMMA GivenDestroyRecord ==
    ASSUME BookInv, AccountInv, "movedAgain" \notin Races, FlightFresh, PickInv, EntryInv,
           GivenInv, DestroyRecord
    PROVE  PickInv' /\ EntryInv' /\ GivenInv'
<1> USE RebindAssumption DEF BookInv
<1>1. PickInv'
  BY ElemsOfEmpty DEF DestroyRecord, NoRebind, PickInv, At, threadVars, agentVars
<1>2. EntryInv'
  BY ElemsOfEmpty DEF DestroyRecord, NoRebind, EntryInv
<1>3. GivenInv'
  BY ElemsOfEmpty DEF DestroyRecord, NoRebind, GivenInv, Before, Delivered, agentVars
<1> QED BY <1>1, <1>2, <1>3

\* The two parts of HeldOnTarget, for one step.
GoesToTarget ==
    rebind.phase = "restarting" /\ Len(inbox') > Len(inbox) =>
        /\ runsOn' = rebind.target /\ entry = rebind.target
        /\ rebind.pick => picked = rebind.id
CutsNothingGiven == Converging /\ cut' # cut /\ faults' = faults => ~Delivered

\* Every step does what HeldOnTarget says of it.
LEMMA HeldStep ==
    ASSUME BookInv, AccountInv, PickInv, EntryInv, GivenInv, [Next]_vars
    PROVE  GoesToTarget /\ CutsNothingGiven
<1> USE RebindAssumption DEF BookInv
<1>0. Len(inbox) \in Nat /\ Len(<<>>) = 0
  BY LenProperties DEF AgentPosted
<1>1. ASSUME NEW m \in Messages, HoldSend(m) PROVE GoesToTarget /\ CutsNothingGiven
  BY <1>0, <1>1
     DEF HoldSend, GoesToTarget, CutsNothingGiven, agentVars, textVars, endVars, countVars
<1>2. ASSUME NEW m \in Messages, ResolveSend(m) PROVE GoesToTarget /\ CutsNothingGiven
  BY <1>0, <1>2 DEF ResolveSend, GoesToTarget, CutsNothingGiven, Converging
<1>3. ASSUME NEW m \in Messages, SendLands(m) PROVE GoesToTarget /\ CutsNothingGiven
  <2>1. cut' = cut
    BY <1>3 DEF SendLands
  <2>2. rebind.phase = "restarting" => inbox' = inbox
    BY <1>3 DEF SendLands, Reaches, Started, EndInv, AccountInv, AccountParts, FlightInv
  <2> QED BY <1>0, <2>1, <2>2 DEF GoesToTarget, CutsNothingGiven
<1>4. ASSUME ReadBinding PROVE GoesToTarget /\ CutsNothingGiven
  BY <1>0, <1>4
     DEF ReadBinding, GoesToTarget, CutsNothingGiven, agentVars, textVars, endVars, countVars
<1>5. ASSUME BuildWatcher PROVE GoesToTarget /\ CutsNothingGiven
  BY <1>0, <1>5
     DEF BuildWatcher, GoesToTarget, CutsNothingGiven, agentVars, textVars, endVars, countVars
<1>6. ASSUME NEW to \in Accounts, NEW m \in Messages, NEW k \in BOOLEAN, BeginRebind(to, m, k)
      PROVE  GoesToTarget /\ CutsNothingGiven
  BY <1>0, <1>6 DEF BeginRebind, GoesToTarget, CutsNothingGiven, Converging
<1>7. ASSUME NEW to \in Accounts, RetryRebind(to) PROVE GoesToTarget /\ CutsNothingGiven
  BY <1>0, <1>7
     DEF RetryRebind, GoesToTarget, CutsNothingGiven, agentVars, textVars, endVars, countVars
<1>8. ASSUME Stopped PROVE GoesToTarget /\ CutsNothingGiven
  BY <1>0, <1>8
     DEF Stopped, GoesToTarget, CutsNothingGiven, agentVars, textVars, endVars, countVars
<1>9. ASSUME Drain PROVE GoesToTarget /\ CutsNothingGiven
  BY <1>0, <1>9 DEF Drain, GoesToTarget, CutsNothingGiven, agentVars, textVars, endVars, countVars
<1>10. ASSUME Drained PROVE GoesToTarget /\ CutsNothingGiven
  <2>1. GoesToTarget
    BY <1>0, <1>10 DEF GoesToTarget, Drained, agentVars
  <2>2. Converging /\ cut' # cut => Before
    BY <1>10 DEF Converging, Drained, RunnerInv, EndInv, Before, At
  <2> QED BY <2>1, <2>2 DEF GivenInv, CutsNothingGiven
<1>11. ASSUME Restart PROVE GoesToTarget /\ CutsNothingGiven
  BY <1>0, <1>11
     DEF Restart, GoesToTarget, CutsNothingGiven, EndInv, recordVars, appVars, threadVars,
         agentVars, textVars, endVars, countVars
<1>12. ASSUME StopAgent PROVE GoesToTarget /\ CutsNothingGiven
  <2>1. GoesToTarget
    BY <1>0, <1>12 DEF GoesToTarget, StopAgent
  <2>2. cut' # cut => ~doomed /\ ~destroyed /\ At("stop")
    BY <1>12 DEF StopAgent, EndInv, Live, At
  <2>3. cut' # cut => Before
    BY <2>2 DEF AccountInv, AccountParts, LandedInv, RunnerInv, Before, At
  <2> QED BY <2>1, <2>3 DEF GivenInv, CutsNothingGiven
<1>13. ASSUME RecordWhere PROVE GoesToTarget /\ CutsNothingGiven
  BY <1>0, <1>13
     DEF RecordWhere, GoesToTarget, CutsNothingGiven, agentVars, textVars, endVars, countVars
<1>14. ASSUME NEW f \in Files, MoveFile(f) PROVE GoesToTarget /\ CutsNothingGiven
  BY <1>0, <1>14
     DEF MoveFile, GoesToTarget, CutsNothingGiven, agentVars, textVars, endVars, countVars
<1>15. ASSUME MoveEnds PROVE GoesToTarget /\ CutsNothingGiven
  BY <1>0, <1>15
     DEF MoveEnds, GoesToTarget, CutsNothingGiven, agentVars, textVars, endVars, countVars
<1>16. ASSUME RebindAgent PROVE GoesToTarget /\ CutsNothingGiven
  BY <1>0, <1>16 DEF RebindAgent, GoesToTarget, CutsNothingGiven, textVars, endVars, countVars
<1>17. ASSUME EvictWatcher PROVE GoesToTarget /\ CutsNothingGiven
  BY <1>0, <1>17
     DEF EvictWatcher, GoesToTarget, CutsNothingGiven, recordVars, appVars, threadVars, agentVars,
         textVars, endVars, countVars
<1>18. ASSUME Relabel PROVE GoesToTarget /\ CutsNothingGiven
  BY <1>0, <1>18
     DEF Relabel, GoesToTarget, CutsNothingGiven, agentVars, textVars, endVars, countVars
<1>19. ASSUME StartAgent PROVE GoesToTarget /\ CutsNothingGiven
  BY <1>0, <1>19
     DEF StartAgent, GoesToTarget, CutsNothingGiven, agentVars, textVars, endVars, countVars
<1>20. ASSUME Land PROVE GoesToTarget /\ CutsNothingGiven
  BY <1>0, <1>20 DEF Land, GoesToTarget, CutsNothingGiven, agentVars, textVars, endVars, countVars
<1>21. ASSUME ApplyModelPick PROVE GoesToTarget /\ CutsNothingGiven
  BY <1>0, <1>21 DEF ApplyModelPick, GoesToTarget, CutsNothingGiven, textVars, endVars, countVars
<1>22. ASSUME NotePick PROVE GoesToTarget /\ CutsNothingGiven
  BY <1>0, <1>22
     DEF NotePick, GoesToTarget, CutsNothingGiven, agentVars, textVars, endVars, countVars
<1>23. ASSUME DeliverHeldSends PROVE GoesToTarget /\ CutsNothingGiven
  BY <1>0, <1>23
     DEF DeliverHeldSends, GoesToTarget, CutsNothingGiven, agentVars, textVars, endVars, countVars
<1>24. ASSUME TakeNextHeldSend PROVE GoesToTarget /\ CutsNothingGiven
  BY <1>0, <1>24
     DEF TakeNextHeldSend, GoesToTarget, CutsNothingGiven, EndInv, recordVars, appVars,
         threadVars, agentVars, textVars, endVars, countVars
<1>25. ASSUME DeliverHeldSend PROVE GoesToTarget /\ CutsNothingGiven
  <2>1. cut' = cut
    BY <1>25 DEF DeliverHeldSend
  <2>2. CASE inbox' = inbox
    BY <1>0, <2>1, <2>2 DEF GoesToTarget, CutsNothingGiven
  <2>3. CASE Reaches(hand)
    <3>1. ~doomed /\ ~destroyed /\ At("send")
      BY <2>3, <1>25 DEF Reaches, Started, EndInv, DeliverHeldSend
    <3>2. rebind.landed = rebind.target /\ env = rebind.target
      BY <3>1 DEF AccountInv, AccountParts, LandedInv, BoundInv, OnAccount, At
    <3>3. runsOn' = rebind.target
      BY <2>3, <3>1, <3>2 DEF Reaches, Started, AccountInv, AccountParts, RunsInv
    <3>4. entry = rebind.target /\ rebind.target \in Accounts
      BY <3>1, <3>2 DEF EntryInv, RunnerInv, RecordInv, Converging, At
    <3>5. rebind.pick => picked = rebind.id
      BY <3>1 DEF PickInv, At
    <3> QED BY <2>1, <3>3, <3>4, <3>5 DEF GoesToTarget, CutsNothingGiven
  <2> QED BY <1>25, <2>2, <2>3 DEF DeliverHeldSend
<1>26. ASSUME Reboot PROVE GoesToTarget /\ CutsNothingGiven
  BY <1>0, <1>26 DEF Reboot, GoesToTarget, CutsNothingGiven
<1>27. ASSUME Observe PROVE GoesToTarget /\ CutsNothingGiven
  BY <1>0, <1>27
     DEF Observe, GoesToTarget, CutsNothingGiven, recordVars, appVars, threadVars, agentVars,
         textVars, endVars, countVars
<1>28. ASSUME AgentDies PROVE GoesToTarget /\ CutsNothingGiven
  BY <1>0, <1>28 DEF AgentDies, Fault, GoesToTarget, CutsNothingGiven
<1>29. ASSUME AgentTurn PROVE GoesToTarget /\ CutsNothingGiven
  BY <1>0, <1>29
     DEF AgentTurn, GoesToTarget, CutsNothingGiven, agentVars, textVars, endVars, countVars
<1>30. ASSUME DestroyAgent PROVE GoesToTarget /\ CutsNothingGiven
  BY <1>0, <1>30
     DEF DestroyAgent, GoesToTarget, CutsNothingGiven, agentVars, textVars, endVars, countVars
<1>31. ASSUME DestroyRecord PROVE GoesToTarget /\ CutsNothingGiven
  BY <1>0, <1>31
     DEF DestroyRecord, GoesToTarget, CutsNothingGiven, recordVars, appVars, threadVars,
         agentVars, textVars, endVars, countVars
<1>90. CASE UNCHANGED vars
  BY <1>0, <1>90 DEF vars, agentVars, textVars, GoesToTarget, CutsNothingGiven
<1> QED
  BY <1>1, <1>2, <1>3, <1>4, <1>5, <1>6, <1>7, <1>8, <1>9, <1>10, <1>11, <1>12, <1>13, <1>14,
     <1>15, <1>16, <1>17, <1>18, <1>19, <1>20, <1>21, <1>22, <1>23, <1>24, <1>25, <1>26, <1>27,
     <1>28, <1>29, <1>30, <1>31, <1>90
     DEF Next, RunnerStep

\* When the held sends go out.
DeliveryInv == PickInv /\ EntryInv /\ GivenInv

\* It holds at the start.
LEMMA DeliveryInit == Init => DeliveryInv
BY ElemsOfEmpty DEF Init, DeliveryInv, PickInv, EntryInv, GivenInv, Before, NoRebind, NoRunner, At

\* Every step keeps it, unless a chat is moved again between two attempts.
LEMMA DeliveryStep ==
    ASSUME "movedAgain" \notin Races
    PROVE  BookInv /\ PlaceInv /\ AccountInv /\ DeliveryInv /\ [Next]_vars => DeliveryInv'
<1> SUFFICES ASSUME BookInv, PlaceInv, AccountInv, DeliveryInv, [Next]_vars PROVE DeliveryInv'
  OBVIOUS
<1> USE DEF DeliveryInv, PlaceInv
<1>1. CASE UNCHANGED vars
  BY <1>1
     DEF vars, recordVars, threadVars, agentVars, textVars, endVars, PickInv, EntryInv, GivenInv,
         Before, Delivered, At
<1>2. CASE Next
  BY <1>2, GivenHoldSend, GivenResolveSend, GivenSendLands, GivenReadBinding, GivenBuildWatcher,
     GivenBeginRebind, GivenRetryRebind, GivenStopped, GivenDrain, GivenDrained, GivenRestart,
     GivenStopAgent, GivenRecordWhere, GivenMoveFile, GivenMoveEnds, GivenRebindAgent,
     GivenEvictWatcher, GivenRelabel, GivenStartAgent, GivenLand, GivenApplyModelPick,
     GivenNotePick, GivenDeliverHeldSends, GivenTakeNextHeldSend, GivenDeliverHeldSend,
     GivenReboot, GivenObserve, GivenAgentDies, GivenAgentTurn, GivenDestroyAgent,
     GivenDestroyRecord
     DEF Next, RunnerStep
<1> QED BY <1>1, <1>2

\* HeldOnTarget, apart from the races of Calm and a move to another account between two
\* attempts (movedAgain): what was held reaches the agent on the account and the model
\* chosen last, and nothing that was given to it is cut off by the runner.
THEOREM HeldOnTargetHolds ==
    ASSUME Calm, "movedAgain" \notin Races
    PROVE  Spec => HeldOnTarget
<1>1. Spec => []DeliveryInv
  BY Booked, Placed, Accounted, DeliveryInit, DeliveryStep, PTL DEF Spec
<1>2. BookInv /\ AccountInv /\ DeliveryInv /\ [Next]_vars => GoesToTarget /\ CutsNothingGiven
  BY HeldStep DEF DeliveryInv
<1>3. Spec => [][GoesToTarget]_vars /\ [][CutsNothingGiven]_vars
  BY <1>1, <1>2, Booked, Accounted, PTL DEF Spec
<1> QED BY <1>3 DEF HeldOnTarget, GoesToTarget, CutsNothingGiven
=============================================================================
