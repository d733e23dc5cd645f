------------------------------ MODULE EngineProofs ------------------------------
(***************************************************************************)
(* Tools run at most once and only approved (ToolsSafe), for any           *)
(* configurations, call ids and histories.  The invariant is Careful:      *)
(* what is queued has distinct ids, or all of it has to be approved, as    *)
(* what is set aside has to be (Listed); what runs is the head of the      *)
(* queue, approved where that is needed, or a batch of calls that need no  *)
(* approval, a writer alone (Guarded); and a call that is still queued or  *)
(* set aside has not run (Once).  Once needs that the two lists share no   *)
(* id, neither within nor across, and that nothing is set aside outside    *)
(* the tool phases, which is what `left' records the loss of.              *)
(*                                                                         *)
(* The engine is a record of two dozen fields that every handler changes   *)
(* a few of, so most lemmas are about Keeps(r, e, changed): r differs from *)
(* e in `changed' at most.  An operation that keeps all but the Loose      *)
(* fields, which no clause reads, keeps Careful without a further word.    *)
(*                                                                         *)
(* Spilled output outlives every item that points at it (SpillsAlive).     *)
(* The invariant, Holds, is that the history is drawn from items whose     *)
(* spill files exist, or are still only the run's (Backed), and that the   *)
(* session entries and deferrals hold no spill at all (Journal).  What a   *)
(* step does to a history is a concatenation, a subsequence or a           *)
(* compaction, which adds summaries and takes everything else from what it *)
(* was given (Stock), so a step only has to say which items are new.       *)
(*                                                                         *)
(* A finished run has answered all it was told (AnswersLast).  The         *)
(* invariant, Replied, follows what a run hears: what it was told of its   *)
(* children is staged or delivered (Heard), so it cannot come again; a     *)
(* queue that is closed stays empty (Queue); once an answer is final, all  *)
(* children are over and told (Joined), and nothing brings a new one; and  *)
(* an answer, or a tool's output that may become one, comes last (Said).   *)
(* A step keeps all four or ends the run (Passes).                         *)
(***************************************************************************)
EXTENDS Engine, TLAPS, FiniteSetTheorems, WellFoundedInduction, SequenceTheorems

LEMMA LeastNatural ==
    ASSUME NEW T \in SUBSET Nat, T # {}
    PROVE  \E n \in T : \A m \in T : n <= m
<1> DEFINE R == {ss \in Nat \X Nat : ss[1] < ss[2]}
<1>1. IsWellFoundedOn(R, Nat)
  BY NatLessThanWellFounded, Zenon DEF OpToRel
<1>2. ASSUME NEW x \in Nat, NEW y \in Nat, y < x PROVE <<y, x>> \in R
  <2>1. <<y, x>> \in Nat \X Nat /\ <<y, x>>[1] = y /\ <<y, x>>[2] = x
    OBVIOUS
  <2> QED BY <2>1, <1>2, Zenon
<1> HIDE DEF R
<1>3. PICK x \in T : \A y \in T : ~(<<y, x>> \in R)
  BY <1>1, WFMin, Zenon
<1>4. \A y \in T : ~(y < x)
  BY <1>2, <1>3
<1> QED BY <1>3, <1>4

LEMMA EveryNatural ==
    ASSUME NEW T, 0 \in T, \A n \in Nat : n \in T => n + 1 \in T
    PROVE  Nat \subseteq T
<1> SUFFICES ASSUME Nat \ T # {} PROVE FALSE
  OBVIOUS
<1>1. PICK n \in Nat \ T : \A m \in Nat \ T : n <= m
  BY LeastNatural, Zenon
<1>2. n # 0
  BY <1>1
<1>3. n - 1 \in T
  BY <1>1, <1>2
<1> QED BY <1>3, <1>1, <1>2

LEMMA GreatestNatural ==
    ASSUME NEW T \in SUBSET Nat, T # {}, NEW top \in Nat, \A m \in T : m <= top
    PROVE  \E n \in T : \A m \in T : m <= n
<1> DEFINE D == {top - m : m \in T}
<1>1. D \in SUBSET Nat /\ D # {}
  <2>1. \A m \in T : top - m \in Nat
    OBVIOUS
  <2> QED BY <2>1, Zenon
<1>2. PICK d \in D : \A m \in D : d <= m
  <2> HIDE DEF D
  <2> QED BY <1>1, LeastNatural
<1>3. PICK n \in T : d = top - n
  BY <1>2
<1>4. ASSUME NEW m \in T PROVE m <= n
  <2>1. top - m \in D
    OBVIOUS
  <2>2. d <= top - m
    BY <1>2, <2>1
  <2> QED BY <1>3, <2>2
<1> QED BY <1>4

--------------------------------------------------------------------------------
(* FlattenSeq, a recursive function: that there is one, and what it is.    *)
Flattens(s, f, S) == f = [i \in S |-> IF i = 1 THEN s[i] ELSE f[i - 1] \o s[i]]

LEMMA FlattensAt ==
    ASSUME NEW s, NEW S, NEW f, Flattens(s, f, S), NEW n \in S
    PROVE  f[n] = IF n = 1 THEN s[n] ELSE f[n - 1] \o s[n]
<1> DEFINE g == [m \in S |-> IF m = 1 THEN s[m] ELSE f[m - 1] \o s[m]]
<1>1. f = g
  BY Zenon DEF Flattens
<1>2. g[n] = IF n = 1 THEN s[n] ELSE f[n - 1] \o s[n]
  OBVIOUS
<1> QED BY <1>1, <1>2, Zenon

LEMMA FlattensTo ==
    ASSUME NEW s, NEW k \in Nat
    PROVE  \E f : Flattens(s, f, 1..k)
<1> DEFINE T == {n \in Nat : \E f : Flattens(s, f, 1..n)}
<1>1. 0 \in T
  <2> DEFINE f == [i \in 1..0 |-> {}]
  <2>1. f = [i \in 1..0 |-> IF i = 1 THEN s[i] ELSE f[i - 1] \o s[i]]
    OBVIOUS
  <2> QED BY <2>1 DEF Flattens
<1>2. ASSUME NEW n \in Nat, n \in T PROVE n + 1 \in T
  <2>1. PICK f : Flattens(s, f, 1..n)
    BY <1>2
  <2> DEFINE last == IF n + 1 = 1 THEN s[n + 1] ELSE f[n] \o s[n + 1]
             g == [i \in 1..n + 1 |-> IF i = n + 1 THEN last ELSE f[i]]
             h == [i \in 1..n + 1 |-> IF i = 1 THEN s[i] ELSE g[i - 1] \o s[i]]
  <2>2. ASSUME NEW i \in 1..n + 1 PROVE g[i] = h[i]
    <3>1. CASE i = n + 1
      <4>1. g[i] = last /\ h[i] = IF i = 1 THEN s[i] ELSE g[i - 1] \o s[i]
        BY <3>1
      <4>2. i # 1 => i - 1 = n /\ i - 1 \in 1..n + 1 /\ i - 1 # n + 1
        BY <3>1
      <4>3. i # 1 => g[i - 1] = f[n]
        BY <4>2
      <4> QED BY <3>1, <4>1, <4>3
    <3>2. CASE i # n + 1
      <4>1. i \in 1..n
        BY <3>2
      <4>2. g[i] = f[i] /\ h[i] = IF i = 1 THEN s[i] ELSE g[i - 1] \o s[i]
        BY <3>2
      <4>3. f[i] = IF i = 1 THEN s[i] ELSE f[i - 1] \o s[i]
        BY <4>1, <2>1, FlattensAt
      <4>4. i # 1 => g[i - 1] = f[i - 1]
        BY <4>1
      <4> QED BY <4>2, <4>3, <4>4
    <3> QED BY <3>1, <3>2
  <2>3. g = h
    <3>1. g = [i \in 1..n + 1 |-> g[i]] /\ h = [i \in 1..n + 1 |-> h[i]]
      OBVIOUS
    <3> HIDE DEF g, h
    <3> QED BY <2>2, <3>1, Zenon
  <2>4. Flattens(s, g, 1..n + 1)
    <3> HIDE DEF g
    <3> QED BY <2>3 DEF Flattens
  <2> QED BY <2>4
<1>3. Nat \subseteq T
  <2> HIDE DEF T
  <2> QED BY <1>1, <1>2, EveryNatural
<1> QED BY <1>3

(* The prefixes of a flattened sequence.                                   *)
LEMMA FlattenPrefix ==
    ASSUME NEW X, NEW s \in Seq(X), s # <<>>
    PROVE  \E f : Flattens(s, f, 1..Len(s)) /\ FlattenSeq(s) = f[Len(s)]
<1> DEFINE F == CHOOSE f : f = [i \in 1..Len(s) |-> IF i = 1 THEN s[i] ELSE f[i - 1] \o s[i]]
<1>1. Len(s) # 0 /\ Len(s) \in Nat
  OBVIOUS
<1>2. FlattenSeq(s) = F[Len(s)]
  BY <1>1, Zenon DEF FlattenSeq
<1>3. \E f : f = [i \in 1..Len(s) |-> IF i = 1 THEN s[i] ELSE f[i - 1] \o s[i]]
  BY <1>1, FlattensTo, Zenon DEF Flattens
<1>4. F = [i \in 1..Len(s) |-> IF i = 1 THEN s[i] ELSE F[i - 1] \o s[i]]
  BY <1>3, Zenon
<1>5. Flattens(s, F, 1..Len(s))
  <2> HIDE DEF F
  <2> QED BY <1>4, Zenon DEF Flattens
<1> HIDE DEF F
<1> QED BY <1>2, <1>5

(* Flattening keeps to a set.                                              *)
LEMMA FlattenType ==
    ASSUME NEW T, NEW s \in Seq(Seq(T))
    PROVE  FlattenSeq(s) \in Seq(T)
<1>1. CASE s = <<>>
  <2>1. Len(s) = 0
    BY <1>1
  <2>2. FlattenSeq(s) = s
    BY <2>1, Zenon DEF FlattenSeq
  <2>3. <<>> \in Seq(T)
    OBVIOUS
  <2> QED BY <1>1, <2>2, <2>3, Zenon
<1>2. CASE s # <<>>
  <2>1. PICK f : Flattens(s, f, 1..Len(s)) /\ FlattenSeq(s) = f[Len(s)]
    BY <1>2, FlattenPrefix, Zenon
  <2> DEFINE P == {n \in Nat : n \in 1..Len(s) => f[n] \in Seq(T)}
  <2>2. 0 \in P
    OBVIOUS
  <2>3. ASSUME NEW n \in Nat, n \in P PROVE n + 1 \in P
    <3> SUFFICES ASSUME n + 1 \in 1..Len(s) PROVE f[n + 1] \in Seq(T)
      OBVIOUS
    <3>1. f[n + 1] = IF n + 1 = 1 THEN s[n + 1] ELSE f[(n + 1) - 1] \o s[n + 1]
      BY <2>1, FlattensAt
    <3>2. s[n + 1] \in Seq(T)
      <4> DEFINE Q == Seq(T)
      <4>1. s \in Seq(Q)
        OBVIOUS
      <4> HIDE DEF Q
      <4>2. s[n + 1] \in Q
        BY <4>1
      <4> QED BY <4>2 DEF Q
    <3>3. CASE n = 0
      BY <3>1, <3>2, <3>3
    <3>4. CASE n # 0
      <4>1. (n + 1) - 1 = n /\ n \in 1..Len(s) /\ n + 1 # 1
        BY <3>4
      <4>2. f[n] \in Seq(T)
        BY <2>3, <4>1
      <4>3. f[n + 1] = f[n] \o s[n + 1]
        BY <3>1, <4>1, Zenon
      <4> QED BY <4>2, <4>3, <3>2
    <3> QED BY <3>3, <3>4
  <2>4. Nat \subseteq P
    <3> HIDE DEF P
    <3> QED BY <2>2, <2>3, EveryNatural
  <2> QED BY <2>1, <2>4, <1>2
<1> QED BY <1>1, <1>2

(* Flattening sequences of at most one element: the elements in their      *)
(* order, with the place each comes from.                                  *)
Filled(s, n) == {i \in 1..n : s[i] # <<>>}

Places(s, n, r, g) ==
    /\ g \in [1..Len(r) -> Filled(s, n)]
    /\ \A k \in 1..Len(r) : r[k] = s[g[k]][1]
    /\ \A j, k \in 1..Len(r) : j < k => g[j] < g[k]
    /\ \A i \in Filled(s, n) : \E k \in 1..Len(r) : g[k] = i

LEMMA PlacesStep ==
    ASSUME NEW T, NEW s, NEW n \in Nat, NEW r \in Seq(T), NEW g, Places(s, n, r, g),
           NEW x \in Seq(T), s[n + 1] = x, Len(x) <= 1
    PROVE  \E h : Places(s, n + 1, r \o x, h)
<1>1. CASE x = <<>>
  <2>1. r \o x = r
    BY <1>1
  <2>2. Filled(s, n + 1) = Filled(s, n)
    <3>1. \A i \in 1..n + 1 : i \in 1..n \/ i = n + 1
      OBVIOUS
    <3>2. 1..n \subseteq 1..n + 1
      OBVIOUS
    <3> QED BY <3>1, <3>2, <1>1, Zenon DEF Filled
  <2>3. Places(s, n + 1, r, g)
    BY <2>2, Zenon DEF Places
  <2> QED BY <2>1, <2>3
<1>2. CASE x # <<>>
  <2>1. Len(x) = 1
    <3>1. Len(x) \in Nat \ {0}
      BY <1>2, EmptySeq, Zenon
    <3>2. \A l \in Nat \ {0} : l <= 1 => l = 1
      OBVIOUS
    <3> QED BY <3>1, <3>2, Zenon
  <2>2. Len(r \o x) = Len(r) + 1 /\ (r \o x)[Len(r) + 1] = x[1]
        /\ \A k \in 1..Len(r) : (r \o x)[k] = r[k]
    <3>1. Len(r) \in Nat /\ Len(r \o x) = Len(r) + Len(x)
      OBVIOUS
    <3>2. \A k \in 1..Len(r) + Len(x) : (r \o x)[k] = IF k <= Len(r) THEN r[k] ELSE x[k - Len(r)]
      OBVIOUS
    <3> QED BY <2>1, <3>1, <3>2
  <2> DEFINE h == [k \in 1..Len(r) + 1 |-> IF k = Len(r) + 1 THEN n + 1 ELSE g[k]]
  <2>3. \A k \in 1..Len(r) : g[k] \in 1..n /\ s[g[k]] # <<>>
    BY DEF Places, Filled
  <2>4. n + 1 \in Filled(s, n + 1) /\ Filled(s, n) \subseteq Filled(s, n + 1)
    BY <1>2 DEF Filled
  <2>5. \A k \in 1..Len(r) : h[k] = g[k] /\ g[k] \in Filled(s, n + 1)
    <3>1. \A k \in 1..Len(r) : k \in 1..Len(r) + 1 /\ k # Len(r) + 1
      OBVIOUS
    <3> QED BY <3>1, <2>4 DEF Places
  <2>6. h[Len(r) + 1] = n + 1
    OBVIOUS
  <2>7. h \in [1..Len(r) + 1 -> Filled(s, n + 1)]
    <3>1. \A k \in 1..Len(r) + 1 : k \in 1..Len(r) \/ k = Len(r) + 1
      OBVIOUS
    <3>2. \A k \in 1..Len(r) + 1 : h[k] \in Filled(s, n + 1)
      <4> HIDE DEF h
      <4> QED BY <3>1, <2>4, <2>5, <2>6
    <3>3. h = [k \in 1..Len(r) + 1 |-> h[k]]
      OBVIOUS
    <3> HIDE DEF h
    <3> QED BY <3>2, <3>3, Zenon
  <2> HIDE DEF h
  <2>8. \A k \in 1..Len(r) + 1 : k \in 1..Len(r) \/ k = Len(r) + 1
    OBVIOUS
  <2>9. \A k \in 1..Len(r) + 1 : (r \o x)[k] = s[h[k]][1]
    <3>1. ASSUME NEW k \in 1..Len(r) PROVE (r \o x)[k] = s[h[k]][1]
      BY <2>2, <2>5 DEF Places
    <3>2. (r \o x)[Len(r) + 1] = s[h[Len(r) + 1]][1]
      BY <2>2, <2>6
    <3> QED BY <2>8, <3>1, <3>2
  <2>10. \A j, k \in 1..Len(r) + 1 : j < k => h[j] < h[k]
    <3> SUFFICES ASSUME NEW j \in 1..Len(r) + 1, NEW k \in 1..Len(r) + 1, j < k
                 PROVE  h[j] < h[k]
      OBVIOUS
    <3>1. j \in 1..Len(r)
      OBVIOUS
    <3>2. CASE k \in 1..Len(r)
      BY <3>1, <3>2, <2>5 DEF Places
    <3>3. CASE k = Len(r) + 1
      BY <3>1, <3>3, <2>5, <2>6, <2>3
    <3> QED BY <2>8, <3>2, <3>3
  <2>11. \A i \in Filled(s, n + 1) : \E k \in 1..Len(r) + 1 : h[k] = i
    <3> SUFFICES ASSUME NEW i \in Filled(s, n + 1) PROVE \E k \in 1..Len(r) + 1 : h[k] = i
      OBVIOUS
    <3>1. CASE i = n + 1
      BY <3>1, <2>6
    <3>2. CASE i # n + 1
      <4>1. i \in Filled(s, n)
        BY <3>2 DEF Filled
      <4>2. PICK k \in 1..Len(r) : g[k] = i
        BY <4>1 DEF Places
      <4> QED BY <4>2, <2>5
    <3> QED BY <3>1, <3>2
  <2>12. Places(s, n + 1, r \o x, h)
    BY <2>2, <2>7, <2>9, <2>10, <2>11, Zenon DEF Places
  <2> QED BY <2>12
<1> QED BY <1>1, <1>2

LEMMA FlattenPlaces ==
    ASSUME NEW T, NEW s \in Seq(Seq(T)), \A i \in 1..Len(s) : Len(s[i]) <= 1
    PROVE  \E g : Places(s, Len(s), FlattenSeq(s), g)
<1> DEFINE Q == Seq(T)
<1>1. s \in Seq(Q) /\ Len(s) \in Nat
  OBVIOUS
<1>2. \A i \in 1..Len(s) : s[i] \in Seq(T)
  <2> HIDE DEF Q
  <2>1. \A i \in 1..Len(s) : s[i] \in Q
    BY <1>1
  <2> QED BY <2>1 DEF Q
<1> DEFINE e == [k \in 1..0 |-> 0]
<1>3. Places(s, 0, <<>>, e)
  <2>1. Filled(s, 0) = {} /\ Len(<<>>) = 0 /\ 1..0 = {}
    BY DEF Filled
  <2>2. e \in [1..0 -> Filled(s, 0)]
    BY <2>1
  <2> HIDE DEF e
  <2> QED BY <2>1, <2>2 DEF Places
<1> HIDE DEF e
<1>4. CASE s = <<>>
  <2>1. Len(s) = 0
    BY <1>4
  <2>2. FlattenSeq(s) = s
    BY <2>1, Zenon DEF FlattenSeq
  <2> QED BY <1>3, <1>4, <2>1, <2>2
<1>5. CASE s # <<>>
  <2>1. PICK f : Flattens(s, f, 1..Len(s)) /\ FlattenSeq(s) = f[Len(s)]
    BY <1>1, <1>5, FlattenPrefix, Zenon
  <2> DEFINE Fine(n) == f[n] \in Seq(T) /\ \E g : Places(s, n, f[n], g)
             P == {n \in Nat : n \in 1..Len(s) => Fine(n)}
  <2>2. 0 \in P
    OBVIOUS
  <2>3. ASSUME NEW n \in Nat, n \in P PROVE n + 1 \in P
    <3> SUFFICES ASSUME n + 1 \in 1..Len(s) PROVE Fine(n + 1)
      OBVIOUS
    <3>1. f[n + 1] = IF n + 1 = 1 THEN s[n + 1] ELSE f[(n + 1) - 1] \o s[n + 1]
      BY <2>1, FlattensAt
    <3>2. s[n + 1] \in Seq(T) /\ Len(s[n + 1]) <= 1
      BY <1>2
    <3>3. CASE n = 0
      <4>1. f[n + 1] = s[n + 1] /\ <<>> \o s[n + 1] = s[n + 1] /\ <<>> \in Seq(T)
        BY <3>1, <3>2, <3>3
      <4>2. \E g : Places(s, 0 + 1, <<>> \o s[n + 1], g)
        BY <1>3, <3>2, <3>3, <4>1, PlacesStep
      <4> QED BY <4>1, <4>2, <3>2, <3>3
    <3>4. CASE n # 0
      <4>1. (n + 1) - 1 = n /\ n \in 1..Len(s) /\ n + 1 # 1
        BY <3>4
      <4>2. Fine(n)
        BY <2>3, <4>1
      <4>3. f[n + 1] = f[n] \o s[n + 1]
        BY <3>1, <4>1, Zenon
      <4>4. PICK g : Places(s, n, f[n], g)
        BY <4>2
      <4>5. \E h : Places(s, n + 1, f[n] \o s[n + 1], h)
        BY <4>2, <4>4, <3>2, PlacesStep
      <4> QED BY <4>2, <4>3, <4>5, <3>2
    <3> QED BY <3>3, <3>4
  <2>4. Nat \subseteq P
    <3> HIDE DEF P
    <3> QED BY <2>2, <2>3, EveryNatural
  <2>5. Fine(Len(s))
    BY <2>4, <1>1, <1>5
  <2> QED BY <2>1, <2>5
<1> QED BY <1>4, <1>5

(* The items at some of the positions of a sequence.                       *)
LEMMA PickType ==
    ASSUME NEW T, NEW s \in Seq(T), NEW places
    PROVE  Pick(s, places) \in Seq({s[i] : i \in DOMAIN s \cap places})
<1> DEFINE U == {s[i] : i \in DOMAIN s \cap places}
           t == [i \in DOMAIN s |-> IF i \in places THEN <<s[i]>> ELSE <<>>]
           Q == Seq(U)
<1>1. \A i \in DOMAIN s : t[i] \in Q
  <2> SUFFICES ASSUME NEW i \in DOMAIN s PROVE t[i] \in Q
    OBVIOUS
  <2>1. CASE i \in places
    <3>1. s[i] \in U
      BY <2>1
    <3> HIDE DEF U
    <3> QED BY <2>1, <3>1
  <2>2. CASE i \notin places
    BY <2>2
  <2> QED BY <2>1, <2>2
<1>2. DOMAIN s = 1..Len(s) /\ Len(s) \in Nat
  OBVIOUS
<1>3. t \in Seq(Q)
  <2>1. t = [i \in 1..Len(s) |-> t[i]]
    BY <1>2
  <2> HIDE DEF t, Q
  <2> QED BY <1>1, <1>2, <2>1
<1>4. FlattenSeq(t) \in Seq(U)
  <2> HIDE DEF t, U
  <2> QED BY <1>3, FlattenType
<1> QED BY <1>4 DEF Pick

LEMMA PickPlaces ==
    ASSUME NEW T, NEW s \in Seq(T), NEW places
    PROVE  \E g \in [DOMAIN Pick(s, places) -> DOMAIN s \cap places] :
              /\ \A k \in DOMAIN Pick(s, places) : Pick(s, places)[k] = s[g[k]]
              /\ \A j, k \in DOMAIN Pick(s, places) : j < k => g[j] < g[k]
              /\ \A i \in DOMAIN s \cap places : \E k \in DOMAIN Pick(s, places) : g[k] = i
<1> DEFINE t == [i \in DOMAIN s |-> IF i \in places THEN <<s[i]>> ELSE <<>>]
           Q == Seq(T)
           r == Pick(s, places)
<1>1. DOMAIN s = 1..Len(s) /\ Len(s) \in Nat
  OBVIOUS
<1>2. \A i \in DOMAIN s : /\ t[i] \in Q /\ Len(t[i]) <= 1 /\ (t[i] # <<>> <=> i \in places)
                          /\ i \in places => t[i][1] = s[i]
  OBVIOUS
<1>3. t = [i \in 1..Len(s) |-> t[i]]
  BY <1>1
<1>4. t \in Seq(Q) /\ Len(t) = Len(s)
  <2> HIDE DEF t, Q
  <2> QED BY <1>1, <1>2, <1>3
<1>5. PICK g : Places(t, Len(t), FlattenSeq(t), g)
  <2>1. t \in Seq(Seq(T)) /\ \A i \in 1..Len(t) : Len(t[i]) <= 1
    BY <1>1, <1>2, <1>4
  <2> HIDE DEF t
  <2> QED BY <2>1, FlattenPlaces
<1>6. Filled(t, Len(t)) = DOMAIN s \cap places
  <2> HIDE DEF t
  <2> QED BY <1>1, <1>2, <1>4 DEF Filled
<1>7. r = FlattenSeq(t)
  BY DEF Pick
<1>8. r \in Seq({s[i] : i \in DOMAIN s \cap places})
  BY PickType, Zenon
<1>9. DOMAIN r = 1..Len(r)
  BY <1>8
<1> HIDE DEF t, r
<1>10. /\ g \in [DOMAIN r -> DOMAIN s \cap places]
       /\ \A k \in DOMAIN r : r[k] = t[g[k]][1]
       /\ \A j, k \in DOMAIN r : j < k => g[j] < g[k]
       /\ \A i \in DOMAIN s \cap places : \E k \in DOMAIN r : g[k] = i
  BY <1>5, <1>6, <1>7, <1>9, Zenon DEF Places
<1>11. \A k \in DOMAIN r : r[k] = s[g[k]]
  BY <1>10, <1>2
<1> QED BY <1>10, <1>11 DEF r

--------------------------------------------------------------------------------
(* The fields of an engine that the invariants are about, and what an      *)
(* update leaves alone.                                                    *)
Fields == {"phase", "paused", "cfg", "resumed", "agent", "history", "entries", "deferrals",
           "calls", "deferred", "running", "outputs", "ran", "granted", "toolFinal", "told",
           "left", "spills"}

Has(e) == Fields \subseteq DOMAIN e

Keeps(r, e, changed) == Has(r) /\ \A f \in Fields \ changed : r[f] = e[f]

LEMMA KeepsItself ==
    ASSUME NEW e, Has(e)
    PROVE  \A changed : Keeps(e, e, changed)
BY DEF Keeps

LEMMA KeepsTrans ==
    ASSUME NEW e, NEW r, NEW q, NEW A, NEW B, Keeps(r, e, A), Keeps(q, r, B)
    PROVE  Keeps(q, e, A \cup B)
BY Zenon DEF Keeps

LEMMA AppendKeeps ==
    ASSUME NEW e, Has(e), NEW item
    PROVE  Keeps(append(e, item), e, {"history"}) /\ append(e, item).history = Append(e.history, item)
BY DEF append, Has, Fields, Keeps

LEMMA AppendAllKeeps ==
    ASSUME NEW e, Has(e), NEW items
    PROVE  /\ Keeps(AppendAll(e, items), e, {"history"})
           /\ AppendAll(e, items).history = e.history \o items
BY DEF AppendAll, Has, Fields, Keeps

LEMMA MarkedKeeps ==
    ASSUME NEW e, Has(e), NEW marker, NEW new, NEW at
    PROVE  /\ Keeps(Marked(e, marker, new, at), e, {"entries"})
           /\ Marked(e, marker, new, at).entries =
                Append(e.entries, [marker |-> marker, new |-> new, at |-> at])
BY DEF Marked, Has, Fields, Keeps

LEMMA PublishKeeps ==
    ASSUME NEW e, Has(e)
    PROVE  Keeps(publish_committed(e), e, {})
BY DEF publish_committed, Has, Fields, Keeps

LEMMA SettleKeeps ==
    ASSUME NEW e, Has(e)
    PROVE  LET r == settle_tool_turn(e)
           IN  Keeps(r, e, {"history"}) /\ r.history \in {e.history, Append(e.history, Message("note"))}
<1> DEFINE streak == IF \A i \in DOMAIN e.toolTurn : e.toolTurn[i] THEN e.streak + 1 ELSE 0
           settled == [e EXCEPT !.toolTurn = None]
           noted == [settled EXCEPT !.streak = streak, !.escalated = TRUE]
           calm == [settled EXCEPT !.streak = MinOf(streak, ErrorLimit),
                                   !.escalated = e.escalated /\ streak # 0]
<1>1. settle_tool_turn(e) \in {e, settled, append(noted, Message("note")), calm}
  BY Zenon DEF settle_tool_turn
<1>2. Keeps(settled, e, {}) /\ Keeps(noted, e, {}) /\ Keeps(calm, e, {})
  <2> HIDE DEF streak
  <2> QED BY DEF Has, Fields, Keeps
<1> HIDE DEF streak, settled, noted, calm
<1>3. CASE settle_tool_turn(e) = e
  BY <1>3, KeepsItself, Zenon
<1>4. CASE settle_tool_turn(e) = settled
  BY <1>4, <1>2 DEF Keeps, Fields
<1>5. CASE settle_tool_turn(e) = append(noted, Message("note"))
  <2>1. /\ Keeps(append(noted, Message("note")), noted, {"history"})
        /\ append(noted, Message("note")).history = Append(noted.history, Message("note"))
    BY <1>2, AppendKeeps DEF Keeps
  <2> HIDE DEF Has
  <2> QED BY <2>1, <1>2, <1>5 DEF Keeps, Fields
<1>6. CASE settle_tool_turn(e) = calm
  BY <1>6, <1>2 DEF Keeps, Fields
<1> QED BY <1>1, <1>3, <1>4, <1>5, <1>6

LEMMA HearsKeeps ==
    ASSUME NEW e, Has(e), NEW ids
    PROVE  /\ Keeps(Hears(e, ids), e, {"told"})
           /\ Hears(e, ids).told =
                [id \in DOMAIN e.told |-> e.told[id] + (IF id \in ids THEN 1 ELSE 0)]
BY DEF Hears, Has, Fields, Keeps

(* What is gathered before a request: a note, messages for the child and   *)
(* notes of its children.                                                  *)
Users(n) == [i \in 1..n |-> Message("user")]
Notes(n) == [i \in 1..n |-> Message("note")]

LEMMA CollectedKeeps ==
    ASSUME NEW e, Has(e)
    PROVE  LET r == Collected(e)
           IN  /\ Keeps(r, e, {"history", "told"})
               /\ r.history = e.history \o Notes(Cardinality(News))
               /\ r.told = [id \in DOMAIN e.told |-> e.told[id] + (IF id \in News THEN 1 ELSE 0)]
<1> DEFINE a == AppendAll(e, Notes(Cardinality(News)))
<1>1. Collected(e) = Hears(a, News)
  BY Zenon DEF Collected, Notes
<1>2. Keeps(a, e, {"history"}) /\ a.history = e.history \o Notes(Cardinality(News))
  BY AppendAllKeeps
<1> HIDE DEF a
<1>3. Has(a)
  BY <1>2 DEF Keeps
<1>4. /\ Keeps(Hears(a, News), a, {"told"})
      /\ Hears(a, News).told = [id \in DOMAIN a.told |-> a.told[id] + (IF id \in News THEN 1 ELSE 0)]
  BY <1>3, HearsKeeps
<1>5. a.told = e.told
  BY <1>2 DEF Keeps, Fields
<1>6. Keeps(Hears(a, News), e, {"history", "told"})
  BY <1>2, <1>4 DEF Keeps
<1>7. Hears(a, News).history = a.history
  BY <1>4 DEF Keeps, Fields
<1> QED BY <1>1, <1>2, <1>4, <1>5, <1>6, <1>7

LEMMA GatheredKeeps ==
    ASSUME NEW e, Has(e)
    PROVE  LET r == Gathered(e)
           IN  /\ Keeps(r, e, {"history", "told"})
               /\ \E h \in {e.history, Append(e.history, Message("note"))} :
                     r.history = (h \o Users(env.inbox)) \o Notes(Cardinality(News))
               /\ r.told = [id \in DOMAIN e.told |-> e.told[id] + (IF id \in News THEN 1 ELSE 0)]
<1> DEFINE s == settle_tool_turn(e)
           t == AppendAll(s, Users(env.inbox))
           c == Collected(t)
<1>1. Gathered(e) = publish_committed(c)
  BY Zenon DEF Gathered, Told, Users
<1>2. Keeps(s, e, {"history"}) /\ s.history \in {e.history, Append(e.history, Message("note"))}
  BY SettleKeeps
<1> HIDE DEF s
<1>3. Has(s)
  BY <1>2 DEF Keeps
<1>4. Keeps(t, s, {"history"}) /\ t.history = s.history \o Users(env.inbox)
  BY <1>3, AppendAllKeeps
<1> HIDE DEF t
<1>5. Has(t)
  BY <1>4 DEF Keeps
<1>6. /\ Keeps(c, t, {"history", "told"})
      /\ c.history = t.history \o Notes(Cardinality(News))
      /\ c.told = [id \in DOMAIN t.told |-> t.told[id] + (IF id \in News THEN 1 ELSE 0)]
  BY <1>5, CollectedKeeps
<1> HIDE DEF c
<1>7. Keeps(publish_committed(c), c, {})
  BY <1>6, PublishKeeps DEF Keeps
<1>8. t.told = e.told
  BY <1>2, <1>4 DEF Keeps, Fields
<1>9. Keeps(publish_committed(c), e, {"history", "told"})
  BY <1>2, <1>4, <1>6, <1>7 DEF Keeps
<1>10. publish_committed(c).history = c.history /\ publish_committed(c).told = c.told
  BY <1>7 DEF Keeps, Fields
<1> QED BY <1>1, <1>2, <1>4, <1>6, <1>8, <1>9, <1>10

(* Compaction changes the history and where markers stand.                 *)
LEMMA RebasedKeeps ==
    ASSUME NEW e, Has(e), NEW after
    PROVE  /\ Keeps(Rebased(e, after), e, {"history", "entries"})
           /\ Rebased(e, after).history = after
           /\ \/ Rebased(e, after).entries = e.entries
              \/ Rebased(e, after).entries =
                    [k \in DOMAIN e.entries |-> IF e.history = after THEN e.entries[k]
                                                ELSE rebase_entry(e.entries[k], e.history, after)]
BY DEF Rebased, Has, Fields, Keeps

LEMMA ReplacedKeeps ==
    ASSUME NEW e, Has(e), NEW final
    PROVE  /\ Keeps(Replaced(e, final), e, {"history", "entries"})
           /\ Replaced(e, final).history = SplitItems(final)
           /\ Replaced(e, final).entries = Reanchored(e.entries, SplitMarkers(final))
BY DEF Replaced, Has, Fields, Keeps

LEMMA CompactKeeps ==
    ASSUME NEW e, Has(e), NEW forced
    PROVE  Keeps(compact_local(e, forced), e, {"history", "entries"})
<1>1. \A mixed, planned : Keeps(PlannedFor(e, mixed, planned), e, {"history", "entries"})
  <2> SUFFICES ASSUME NEW mixed, NEW planned
               PROVE  Keeps(PlannedFor(e, mixed, planned), e, {"history", "entries"})
    OBVIOUS
  <2>1. CASE planned = None
    BY <2>1, KeepsItself, Zenon DEF PlannedFor
  <2>2. CASE planned # None
    BY <2>2, ReplacedKeeps, Zenon DEF PlannedFor
  <2> QED BY <2>1, <2>2
<1> QED BY <1>1, Zenon DEF compact_local, LocallyCompacted

(* A tool's output.                                                        *)
LEMMA ProcessedKeeps ==
    ASSUME NEW e, Has(e), NEW id, NEW out
    PROVE  LET r == Processed(e, id, out)
           IN  /\ Keeps(r, e, {"history", "spills"})
               /\ \/ /\ r.spills = e.spills
                     /\ \E tag \in {"text", "long", "media"} :
                           r.history = Append(e.history, Item("result", id, tag, 0))
                  \/ \E file : /\ r.spills = e.spills \cup {file}
                               /\ r.history = Append(e.history, Item("result", id, "long", file))
<1>1. \A item : /\ Keeps(append(e, item), e, {"history"})
                /\ append(e, item).history = Append(e.history, item)
  BY AppendKeeps
<1> DEFINE file == env.spilled + Cardinality(e.spills \ eng.spills) + 1
           plain == Item("result", id, IF out \in {"long", "media"} THEN out ELSE "text", 0)
           long == Item("result", id, "long", file)
           kept == [append(e, long) EXCEPT !.spills = @ \cup {file}]
<1>2. Processed(e, id, out) \in {kept, append(e, plain)}
  BY Zenon DEF Processed, Unspilled
<1>3. \E tag \in {"text", "long", "media"} : plain = Item("result", id, tag, 0)
  OBVIOUS
<1>4. CASE Processed(e, id, out) = append(e, plain)
  <2>1. append(e, plain).spills = e.spills
    BY <1>1 DEF Keeps, Fields
  <2>2. Keeps(append(e, plain), e, {"history", "spills"})
    BY <1>1 DEF Keeps
  <2> QED BY <1>1, <1>3, <1>4, <2>1, <2>2, Zenon
<1>5. CASE Processed(e, id, out) = kept
  <2> HIDE DEF file, long
  <2> DEFINE a == append(e, long)
  <2>1. Keeps(a, e, {"history"}) /\ a.history = Append(e.history, long)
    BY <1>1
  <2> HIDE DEF a
  <2>2. Keeps([a EXCEPT !.spills = @ \cup {file}], e, {"history", "spills"})
    BY <2>1 DEF Keeps, Has, Fields
  <2>3. /\ [a EXCEPT !.spills = @ \cup {file}].spills = e.spills \cup {file}
        /\ [a EXCEPT !.spills = @ \cup {file}].history = Append(e.history, long)
    BY <2>1 DEF Keeps, Has, Fields
  <2>4. Processed(e, id, out) = [a EXCEPT !.spills = @ \cup {file}]
    BY <1>5 DEF a
  <2> QED BY <2>2, <2>3, <2>4 DEF long
<1> QED BY <1>2, <1>4, <1>5

LEMMA FinishKeeps ==
    ASSUME NEW e, Has(e), NEW id, NEW out
    PROVE  /\ Keeps(finish_tool(e, id, out), e, {"history", "spills", "calls", "toolFinal", "running"})
           /\ finish_tool(e, id, out).history = Processed(e, id, out).history
           /\ finish_tool(e, id, out).spills = Processed(e, id, out).spills
           /\ finish_tool(e, id, out).running = e.running \ {id}
<1> DEFINE p == Processed(e, id, out)
<1>1. Keeps(p, e, {"history", "spills"})
  BY ProcessedKeeps
<1>2. finish_tool(e, id, out) =
        [p EXCEPT !.calls = CallsOf(@, Ids \ {id}), !.approvals = Without(@, {id}),
                  !.toolPause = @ \/ out = "pause", !.toolFinal = @ \/ out # "withheld",
                  !.toolTurn = IF @ = None THEN @ ELSE Append(@, out \in {"error", "withheld"}),
                  !.running = @ \ {id}]
  BY DEF finish_tool
<1>3. p = Processed(e, id, out)
  OBVIOUS
<1> HIDE DEF p
<1> DEFINE q == [p EXCEPT !.calls = CallsOf(@, Ids \ {id}), !.approvals = Without(@, {id}),
                  !.toolPause = @ \/ out = "pause", !.toolFinal = @ \/ out # "withheld",
                  !.toolTurn = IF @ = None THEN @ ELSE Append(@, out \in {"error", "withheld"}),
                  !.running = @ \ {id}]
<1>4. Keeps(q, p, {"calls", "toolFinal", "running"})
  BY <1>1 DEF Keeps, Has, Fields
<1>5. /\ q.calls = CallsOf(p.calls, Ids \ {id})
      /\ q.running = p.running \ {id}
  BY <1>1, Zenon DEF Keeps, Has, Fields
<1>6. p.calls = e.calls /\ p.running = e.running
  BY <1>1 DEF Keeps, Fields
<1>7. q.history = p.history /\ q.spills = p.spills
  BY <1>4 DEF Keeps, Fields
<1>8. finish_tool(e, id, out) = q
  BY <1>2
<1> HIDE DEF q
<1>9. Keeps(q, e, {"history", "spills", "calls", "toolFinal", "running"})
  BY <1>1, <1>4 DEF Keeps
<1> QED BY <1>3, <1>5, <1>6, <1>7, <1>8, <1>9

LEMMA FinishCalls ==
    ASSUME NEW e, Has(e), NEW id, NEW out
    PROVE  finish_tool(e, id, out).calls = CallsOf(e.calls, Ids \ {id})
<1> DEFINE p == Processed(e, id, out)
<1>1. Keeps(p, e, {"history", "spills"})
  BY ProcessedKeeps
<1>2. finish_tool(e, id, out) =
        [p EXCEPT !.calls = CallsOf(@, Ids \ {id}), !.approvals = Without(@, {id}),
                  !.toolPause = @ \/ out = "pause", !.toolFinal = @ \/ out # "withheld",
                  !.toolTurn = IF @ = None THEN @ ELSE Append(@, out \in {"error", "withheld"}),
                  !.running = @ \ {id}]
  BY DEF finish_tool
<1>3. p = Processed(e, id, out)
  OBVIOUS
<1> HIDE DEF p
<1> DEFINE q == [p EXCEPT !.calls = CallsOf(@, Ids \ {id}), !.approvals = Without(@, {id}),
                  !.toolPause = @ \/ out = "pause", !.toolFinal = @ \/ out # "withheld",
                  !.toolTurn = IF @ = None THEN @ ELSE Append(@, out \in {"error", "withheld"}),
                  !.running = @ \ {id}]
<1>4. q.calls = CallsOf(p.calls, Ids \ {id})
  BY <1>1, Zenon DEF Keeps, Has, Fields
<1>5. p.calls = e.calls
  BY <1>1 DEF Keeps, Fields
<1> HIDE DEF q
<1>6. finish_tool(e, id, out) = q
  BY <1>2 DEF q
<1> QED BY <1>4, <1>5, <1>6, Zenon

--------------------------------------------------------------------------------
(* The calls of a turn.                                                    *)
CallRecord == [id : Ids, tool : ToolNames]
ToolPhases == {"tools", "executing", "batch"}

IdsIn(calls) == {calls[k].id : k \in DOMAIN calls}
Distinct(calls) == \A j, k \in DOMAIN calls : calls[j].id = calls[k].id => j = k
CallList(calls) == calls \in Seq(CallRecord)

\* Calls that have to be approved whichever agent runs them: what can be deferred.
Gated(cfg, calls) ==
    \A k \in DOMAIN calls :
        calls[k].tool = "guarded" \/ (calls[k].tool = "write" /\ cfg.approve)

\* Calls wait in the phases of tools only, and two of them have the same id only
\* where all have to be approved.
Listed(e) ==
    /\ Has(e) /\ e.cfg \in Configs
    /\ CallList(e.calls) /\ CallList(e.deferred)
    /\ Distinct(e.calls) \/ Gated(e.cfg, e.calls)
    /\ Gated(e.cfg, e.deferred)
    /\ e.phase \notin ToolPhases => e.calls = <<>>
    /\ e.ran \in [Ids -> Nat]

\* What runs has been approved where that is needed, and shares with readers only.
Guarded(e) ==
    /\ e.phase \notin {"executing", "batch"} => e.running = {}
    /\ e.phase = "executing" =>
          /\ e.calls # <<>> /\ e.running = {e.calls[1].id}
          /\ NeedsApproval(e, e.calls[1]) => e.calls[1].id \in e.granted
    /\ e.phase = "batch" =>
          /\ parallel_batch_ready(e)
          /\ e.running \subseteq IdsIn(e.calls) \ DOMAIN e.outputs
          /\ \A id \in e.running : ToolOf(e, id) # "read" => e.running = {id}

Begun(e) == e.running \cup (IF e.phase = "batch" THEN DOMAIN e.outputs ELSE {})

\* What waits has not run in this turn.
Once(e) ==
    e.left \/ /\ \A id \in Ids : e.ran[id] <= 1
              /\ \A id \in IdsIn(e.calls) \ Begun(e) : e.ran[id] = 0
              /\ \A id \in IdsIn(e.deferred) : e.ran[id] = 0
              /\ IdsIn(e.calls) \cap IdsIn(e.deferred) = {}
              /\ Distinct(e.calls) /\ Distinct(e.deferred)
              /\ e.phase \notin ToolPhases => e.deferred = <<>>

Careful(e) == Listed(e) /\ Guarded(e) /\ Once(e)

CarefulInv == eng = Idle \/ Careful(eng)

(* What no clause of the invariant reads, and how it carries over.         *)
Loose == {"paused", "resumed", "history", "entries", "deferrals", "toolFinal", "told", "spills"}

LEMMA KeepsMore ==
    ASSUME NEW e, NEW r, NEW A, NEW B, Keeps(r, e, A), A \subseteq B
    PROVE  Keeps(r, e, B)
BY DEF Keeps

LEMMA KeepsTwice ==
    ASSUME NEW e, NEW r, NEW q, NEW B, Keeps(r, e, B), Keeps(q, r, B)
    PROVE  Keeps(q, e, B)
BY DEF Keeps

LEMMA SameCareful ==
    ASSUME NEW e, NEW r, Careful(e), Keeps(r, e, Loose \cup {"granted"}), e.granted \subseteq r.granted
    PROVE  Careful(r)
<1>1. /\ Has(r) /\ r.phase = e.phase /\ r.cfg = e.cfg /\ r.agent = e.agent /\ r.calls = e.calls
      /\ r.deferred = e.deferred /\ r.running = e.running /\ r.outputs = e.outputs
      /\ r.ran = e.ran /\ r.left = e.left
  BY DEF Keeps, Loose, Fields
<1>2. Listed(r)
  BY <1>1, Zenon DEF Careful, Listed
<1>3. /\ \A c : NeedsApproval(r, c) <=> NeedsApproval(e, c)
      /\ \A id : ToolOf(r, id) = ToolOf(e, id)
  BY <1>1, Zenon DEF NeedsApproval, ToolOf
<1>4. parallel_batch_ready(r) <=> parallel_batch_ready(e)
  BY <1>1, <1>3 DEF parallel_batch_ready
<1>5. Guarded(r)
  BY <1>1, <1>3, <1>4 DEF Careful, Guarded
<1>6. Begun(r) = Begun(e)
  BY <1>1, Zenon DEF Begun
<1>7. Once(r)
  BY <1>1, <1>6, Zenon DEF Careful, Once
<1> QED BY <1>2, <1>5, <1>7 DEF Careful

LEMMA MovesCareful ==
    ASSUME NEW e, NEW r, Careful(e), e.phase \notin ToolPhases,
           Keeps(r, e, Loose \cup {"phase"}), r.phase \notin ToolPhases
    PROVE  Careful(r)
<1>1. /\ Has(r) /\ r.cfg = e.cfg /\ r.calls = e.calls
      /\ r.deferred = e.deferred /\ r.running = e.running
      /\ r.ran = e.ran /\ r.left = e.left
  BY DEF Keeps, Loose, Fields
<1>2. Listed(r)
  BY <1>1, Zenon DEF Careful, Listed
<1>3. Guarded(r)
  BY <1>1 DEF Careful, Guarded, ToolPhases
<1>4. Begun(r) = Begun(e)
  BY <1>1 DEF Begun, ToolPhases
<1>5. Once(r)
  BY <1>1, <1>4, Zenon DEF Careful, Once
<1> QED BY <1>2, <1>3, <1>5 DEF Careful

(* A run ends, or pauses where nothing runs.                               *)
LEMMA EndsIdle ==
    ASSUME NEW e, NEW ending, ending # "paused", Ends(e, ending)
    PROVE  eng' = Idle
BY DEF Ends, child_status

LEMMA EndsCareful ==
    ASSUME NEW e, Careful(e), e.phase \notin {"executing", "batch"}, NEW ending, Ends(e, ending)
    PROVE  CarefulInv'
<1> DEFINE r == [e EXCEPT !.paused = TRUE, !.running = {}, !.outputs = <<>>]
<1>1. eng' = Idle \/ eng' = r
  BY DEF Ends
<1>2. /\ Has(r) /\ r.phase = e.phase /\ r.cfg = e.cfg /\ r.calls = e.calls /\ r.running = {}
      /\ r.deferred = e.deferred /\ r.ran = e.ran /\ r.left = e.left
  BY DEF Careful, Listed, Has, Fields
<1> HIDE DEF r
<1>3. Listed(r)
  BY <1>2, Zenon DEF Careful, Listed
<1>4. Guarded(r)
  BY <1>2 DEF Careful, Guarded
<1>5. Begun(r) = Begun(e)
  BY <1>2 DEF Begun, Careful, Guarded
<1>6. Once(r)
  BY <1>2, <1>5, Zenon DEF Careful, Once
<1> QED BY <1>1, <1>3, <1>4, <1>6 DEF Careful, CarefulInv

LEMMA NewCareful ==
    ASSUME NEW cfg \in Configs, NEW history
    PROVE  Careful(NewEngine(cfg, history))
<1> DEFINE e == NewEngine(cfg, history)
<1>1. /\ Has(e) /\ e.phase = "start" /\ e.cfg = cfg /\ e.calls = <<>> /\ e.running = {}
      /\ e.deferred = <<>> /\ e.ran = [id \in Ids |-> 0] /\ e.left = FALSE
  BY DEF NewEngine, Has, Fields
<1> HIDE DEF e
<1>2. CallList(<<>>) /\ IdsIn(<<>>) = {} /\ Distinct(<<>>) /\ Gated(cfg, <<>>)
  <2>1. <<>> \in Seq(CallRecord)
    OBVIOUS
  <2> QED BY <2>1 DEF CallList, Distinct, IdsIn, Gated
<1>3. Listed(e)
  BY <1>1, <1>2 DEF Listed, ToolPhases
<1>4. Guarded(e)
  BY <1>1 DEF Guarded
<1>5. Once(e)
  BY <1>1, <1>2 DEF Once, ToolPhases
<1> QED BY <1>3, <1>4, <1>5 DEF Careful, e

(* Some of the calls of a list.                                            *)
LEMMA CallsOfPlaces ==
    ASSUME NEW calls, CallList(calls), NEW ids
    PROVE  LET r == CallsOf(calls, ids)
           IN  /\ CallList(r) /\ (Distinct(calls) => Distinct(r))
               /\ \A k \in DOMAIN r : \E i \in DOMAIN calls : r[k] = calls[i] /\ calls[i].id \in ids
               /\ \A i \in DOMAIN calls : calls[i].id \in ids => \E k \in DOMAIN r : r[k] = calls[i]
<1> DEFINE places == {k \in DOMAIN calls : calls[k].id \in ids}
           r == Pick(calls, places)
<1>1. calls \in Seq(CallRecord)
  BY DEF CallList
<1>2. CallsOf(calls, ids) = r
  BY Zenon DEF CallsOf
<1>3. PICK g \in [DOMAIN r -> DOMAIN calls \cap places] :
        /\ \A k \in DOMAIN r : r[k] = calls[g[k]]
        /\ \A j, k \in DOMAIN r : j < k => g[j] < g[k]
        /\ \A i \in DOMAIN calls \cap places : \E k \in DOMAIN r : g[k] = i
  <2> HIDE DEF places
  <2> QED BY <1>1, PickPlaces
<1>4. r \in Seq({calls[i] : i \in DOMAIN calls \cap places})
  <2> HIDE DEF places
  <2> QED BY <1>1, PickType
<1>5. \A i \in DOMAIN calls : calls[i] \in CallRecord
  BY <1>1
<1> HIDE DEF r
<1>6. r \in Seq(CallRecord)
  <2>1. {calls[i] : i \in DOMAIN calls \cap places} \subseteq CallRecord
    BY <1>5
  <2> DEFINE U == {calls[i] : i \in DOMAIN calls \cap places}
  <2> HIDE DEF U
  <2>2. r \in Seq(U) /\ U \subseteq CallRecord
    BY <1>4, <2>1 DEF U
  <2> QED BY <2>2
<1>7. Distinct(calls) => Distinct(r)
  <2> SUFFICES ASSUME Distinct(calls),
                      NEW j \in DOMAIN r, NEW k \in DOMAIN r, r[j].id = r[k].id
               PROVE  j = k
    BY DEF Distinct
  <2>1. g[j] \in DOMAIN calls /\ g[k] \in DOMAIN calls /\ r[j] = calls[g[j]] /\ r[k] = calls[g[k]]
    BY <1>3
  <2>2. g[j] = g[k]
    BY <2>1, <1>1 DEF Distinct
  <2>3. j \in Int /\ k \in Int /\ g[j] \in Int
    BY <1>6, <1>1, <2>1
  <2>4. ~(j < k) /\ ~(k < j)
    BY <1>3, <2>2, <2>3
  <2> QED BY <2>3, <2>4
<1>8. \A k \in DOMAIN r : \E i \in DOMAIN calls : r[k] = calls[i] /\ calls[i].id \in ids
  BY <1>3
<1>9. \A i \in DOMAIN calls : calls[i].id \in ids => \E k \in DOMAIN r : r[k] = calls[i]
  BY <1>3
<1> QED BY <1>2, <1>1, <1>6, <1>7, <1>8, <1>9 DEF CallList

LEMMA CallsOfIds ==
    ASSUME NEW calls, CallList(calls), NEW ids
    PROVE  /\ CallList(CallsOf(calls, ids))
           /\ IdsIn(CallsOf(calls, ids)) = IdsIn(calls) \cap ids
           /\ IdsIn(calls) \subseteq Ids
           /\ Distinct(calls) => Distinct(CallsOf(calls, ids))
           /\ \A cfg : Gated(cfg, calls) => Gated(cfg, CallsOf(calls, ids))
<1>1. IdsIn(calls) \subseteq Ids
  <2>1. \A k \in DOMAIN calls : calls[k] \in CallRecord
    BY DEF CallList
  <2> QED BY <2>1 DEF IdsIn, CallRecord
<1> DEFINE r == CallsOf(calls, ids)
<1>2. /\ CallList(r) /\ (Distinct(calls) => Distinct(r))
      /\ \A k \in DOMAIN r : \E i \in DOMAIN calls : r[k] = calls[i] /\ calls[i].id \in ids
      /\ \A i \in DOMAIN calls : calls[i].id \in ids => \E k \in DOMAIN r : r[k] = calls[i]
  BY CallsOfPlaces
<1> HIDE DEF r
<1>3. IdsIn(r) = IdsIn(calls) \cap ids
  BY <1>2 DEF IdsIn
<1>4. \A cfg : Gated(cfg, calls) => Gated(cfg, r)
  BY <1>2 DEF Gated
<1> QED BY <1>1, <1>2, <1>3, <1>4 DEF r

LEMMA NoIds ==
    ASSUME NEW calls, CallList(calls)
    PROVE  /\ calls = <<>> <=> IdsIn(calls) = {}
           /\ calls # <<>> => 1 \in DOMAIN calls /\ Head(calls) = calls[1] /\ calls[1] \in CallRecord
<1>1. calls \in Seq(CallRecord)
  BY DEF CallList
<1>2. calls # <<>> => 1 \in DOMAIN calls /\ Head(calls) = calls[1]
  BY <1>1
<1>3. calls = <<>> => DOMAIN calls = {}
  OBVIOUS
<1>4. calls # <<>> => calls[1] \in CallRecord
  BY <1>1, <1>2
<1> QED BY <1>2, <1>3, <1>4 DEF IdsIn

LEMMA EmptyList ==
    CallList(<<>>) /\ IdsIn(<<>>) = {} /\ Distinct(<<>>) /\ \A cfg : Gated(cfg, <<>>)
<1>1. <<>> \in Seq(CallRecord)
  OBVIOUS
<1> QED BY <1>1 DEF CallList, Distinct, IdsIn, Gated

(* A response's calls.                                                     *)
LEMMA CallSetsListed ==
    ASSUME NEW e, e.cfg \in Configs, NEW calls \in CallSets(e)
    PROVE  CallList(calls) /\ Distinct(calls)
<1>1. PICK n \in 1..MaxCalls : calls \in FreshCalls(e, n)
  BY DEF CallSets
<1> DEFINE all == [i \in Ids |-> i]
           ids == Pick(all, NewIds(e))
<1>2. ids \in Seq(Ids) /\ all \in Seq(Ids) /\ DOMAIN all = Ids /\ Ids \subseteq Nat
  <2>1. Ids = 1..Cardinality(Ids) /\ Cardinality(Ids) \in Nat
    BY EngineAssumption, FS_CardinalityType
  <2>2. \A m \in Nat : Ids = 1..m => all \in Seq(Ids) /\ Ids \subseteq Nat
    OBVIOUS
  <2>3. all \in Seq(Ids) /\ Ids \subseteq Nat /\ DOMAIN all = Ids
    BY <2>1, <2>2
  <2> HIDE DEF all
  <2> DEFINE U == {all[i] : i \in DOMAIN all \cap NewIds(e)}
  <2>4. ids \in Seq(U)
    BY <2>3, PickType
  <2>5. U \subseteq Ids
    BY <2>3
  <2> HIDE DEF U, ids
  <2>6. ids \in Seq(Ids)
    BY <2>4, <2>5
  <2> QED BY <2>3, <2>6, Zenon
<1>3. \A j, k \in DOMAIN ids : ids[j] = ids[k] => j = k
  <2>1. PICK g \in [DOMAIN ids -> DOMAIN all \cap NewIds(e)] :
          /\ \A k \in DOMAIN ids : ids[k] = all[g[k]]
          /\ \A j, k \in DOMAIN ids : j < k => g[j] < g[k]
    <3> HIDE DEF all
    <3> QED BY <1>2, PickPlaces
  <2>2. \A k \in DOMAIN ids : ids[k] = g[k] /\ g[k] \in Nat
    BY <2>1, <1>2
  <2>3. DOMAIN ids \subseteq Int
    <3> HIDE DEF ids
    <3> QED BY <1>2
  <2> HIDE DEF ids
  <2>4. ASSUME NEW j \in DOMAIN ids, NEW k \in DOMAIN ids, ids[j] = ids[k] PROVE j = k
    <3>1. ~(j < k) /\ ~(k < j)
      BY <2>1, <2>2, <2>4
    <3> QED BY <3>1, <2>3
  <2> QED BY <2>4
<1>4. PICK tools \in [1..n -> e.cfg.tools] :
        calls = [k \in 1..n |-> [id |-> ids[k], tool |-> tools[k]]] /\ ~(Len(ids) < n)
  BY <1>1, Zenon DEF FreshCalls
<1> HIDE DEF ids
<1>5. n \in Nat /\ 1..n \subseteq DOMAIN ids
  BY <1>2, <1>4
<1>6. \A k \in 1..n : calls[k] = [id |-> ids[k], tool |-> tools[k]] /\ calls[k] \in CallRecord
  <2>1. e.cfg.tools \subseteq ToolNames
    BY EngineAssumption
  <2>2. \A k \in 1..n : ids[k] \in Ids /\ tools[k] \in ToolNames
    BY <1>2, <1>5, <1>4, <2>1
  <2> QED BY <1>4, <2>2 DEF CallRecord
<1>7. calls \in Seq(CallRecord) /\ DOMAIN calls = 1..n
  BY <1>4, <1>5, <1>6
<1>8. Distinct(calls)
  BY <1>3, <1>5, <1>6, <1>7 DEF Distinct
<1> QED BY <1>7, <1>8 DEF CallList

LEMMA HandoffFirstListed ==
    ASSUME NEW e, NEW calls, CallList(calls), Distinct(calls)
    PROVE  CallList(HandoffFirst(e, calls)) /\ Distinct(HandoffFirst(e, calls))
<1> DEFINE at == {k \in DOMAIN calls : CanHandOff(e, calls[k])}
           first == CHOOSE k \in at : \A j \in at : k <= j
           rest == Pick(calls, DOMAIN calls \ {first})
<1>1. calls \in Seq(CallRecord) /\ Distinct(calls)
  BY DEF CallList
<1>2. HandoffFirst(e, calls) = IF at = {} THEN calls ELSE <<calls[first]>> \o rest
  BY Zenon DEF HandoffFirst
<1>3. CASE at = {}
  BY <1>2, <1>3
<1>4. CASE at # {}
  <2>1. \E k \in at : \A j \in at : k <= j
    <3>1. at \in SUBSET Nat
      BY <1>1
    <3> HIDE DEF at
    <3> QED BY <3>1, <1>4, LeastNatural
  <2>2. first \in DOMAIN calls
    <3> HIDE DEF at
    <3>1. first \in at
      BY <2>1, Zenon
    <3> QED BY <3>1 DEF at
  <2> HIDE DEF at, first
  <2>3. PICK g \in [DOMAIN rest -> DOMAIN calls \cap (DOMAIN calls \ {first})] :
          /\ \A k \in DOMAIN rest : rest[k] = calls[g[k]]
          /\ \A j, k \in DOMAIN rest : j < k => g[j] < g[k]
    BY <1>1, PickPlaces
  <2>4. rest \in Seq(CallRecord)
    <3> DEFINE U == {calls[i] : i \in DOMAIN calls \cap (DOMAIN calls \ {first})}
    <3>1. rest \in Seq(U)
      BY <1>1, PickType
    <3>2. U \subseteq CallRecord
      BY <1>1
    <3> HIDE DEF U, rest
    <3> QED BY <3>1, <3>2
  <2> HIDE DEF rest
  <2> DEFINE r == <<calls[first]>> \o rest
  <2>5. calls[first] \in CallRecord
    BY <1>1, <2>2
  <2>6. r \in Seq(CallRecord) /\ Len(r) = Len(rest) + 1 /\ r[1] = calls[first]
        /\ \A k \in 2..Len(rest) + 1 : r[k] = rest[k - 1]
    BY <2>4, <2>5
  <2>7. Distinct(r)
    <3> SUFFICES ASSUME NEW j \in DOMAIN r, NEW k \in DOMAIN r, r[j].id = r[k].id PROVE j = k
      BY DEF Distinct
    <3> HIDE DEF r
    <3>1. j \in 1..Len(rest) + 1 /\ k \in 1..Len(rest) + 1 /\ Len(rest) \in Nat
      BY <2>4, <2>6
    <3>2. \A m \in 2..Len(rest) + 1 : m - 1 \in DOMAIN rest /\ g[m - 1] \in DOMAIN calls
                                      /\ g[m - 1] # first /\ r[m] = calls[g[m - 1]]
      BY <2>3, <2>4, <2>6
    <3>3. CASE j = 1 /\ k = 1
      BY <3>3
    <3>4. CASE j = 1 /\ k # 1
      <4>1. k \in 2..Len(rest) + 1
        BY <3>1, <3>4
      <4>2. calls[g[k - 1]].id = calls[first].id
        BY <3>2, <3>4, <4>1, <2>6
      <4> QED BY <4>1, <4>2, <3>2, <2>2, <1>1 DEF Distinct
    <3>5. CASE j # 1 /\ k = 1
      <4>1. j \in 2..Len(rest) + 1
        BY <3>1, <3>5
      <4>2. calls[g[j - 1]].id = calls[first].id
        BY <3>2, <3>5, <4>1, <2>6
      <4> QED BY <4>1, <4>2, <3>2, <2>2, <1>1 DEF Distinct
    <3>6. CASE j # 1 /\ k # 1
      <4>1. j \in 2..Len(rest) + 1 /\ k \in 2..Len(rest) + 1
        BY <3>1, <3>6
      <4>2. g[j - 1] = g[k - 1]
        BY <3>2, <4>1, <1>1 DEF Distinct
      <4>3. g[j - 1] \in Int /\ j - 1 \in DOMAIN rest /\ k - 1 \in DOMAIN rest
        BY <3>2, <4>1, <1>1
      <4>4. ~(j - 1 < k - 1) /\ ~(k - 1 < j - 1)
        BY <2>3, <4>2, <4>3
      <4> QED BY <4>1, <4>4
    <3> QED BY <3>3, <3>4, <3>5, <3>6
  <2> QED BY <1>2, <1>4, <2>6, <2>7 DEF CallList
<1> QED BY <1>3, <1>4

--------------------------------------------------------------------------------
(* The steps around a request.                                             *)
LEMMA Present ==
    ASSUME CarefulInv, eng.phase # "idle"
    PROVE  Careful(eng) /\ Has(eng)
<1>1. eng # Idle
  BY DEF Idle
<1> QED BY <1>1 DEF CarefulInv, Careful, Listed

LEMMA StepMoves ==
    ASSUME NEW e, Careful(e), e.phase \notin ToolPhases,
           Keeps(eng', e, Loose \cup {"phase"}), eng'.phase \notin ToolPhases
    PROVE  CarefulInv'
BY MovesCareful DEF CarefulInv

LEMMA FailedCareful ==
    ASSUME NEW e, Failed(e)
    PROVE  CarefulInv'
<1>1. eng' = Idle
  BY EndsIdle DEF Failed
<1> QED BY <1>1 DEF CarefulInv

LEMMA StartCareful ==
    ASSUME CarefulInv, Start
    PROVE  CarefulInv'
<1>1. At("start") /\ Careful(eng) /\ Has(eng) /\ eng.phase = "start"
  BY Present DEF Start, At, Active
<1>2. CASE Failed(eng)
  BY <1>2, FailedCareful
<1>3. CASE eng' = [eng EXCEPT !.phase = "model"]
  <2>1. Keeps(eng', eng, {"phase"}) /\ eng'.phase = "model"
    BY <1>1, <1>3 DEF Keeps, Has, Fields
  <2>2. Keeps(eng', eng, Loose \cup {"phase"})
    BY <2>1, KeepsMore
  <2> QED BY <1>1, <2>1, <2>2, StepMoves DEF ToolPhases
<1> QED BY <1>2, <1>3 DEF Start, Continues

LEMMA WaitingCareful ==
    ASSUME CarefulInv, Interrupt \/ Visible \/ Backoff
    PROVE  CarefulInv'
<1>1. /\ eng.phase \in {"waiting", "backoff"} /\ Careful(eng) /\ Has(eng)
  BY Present DEF Interrupt, Visible, Backoff, At, Active
<1>2. PICK p \in {"model", "visible", "attempt"} : eng' = [eng EXCEPT !.phase = p]
  BY DEF Interrupt, Visible, Backoff, Continues
<1>3. Keeps(eng', eng, {"phase"}) /\ eng'.phase = p
  BY <1>1, <1>2 DEF Keeps, Has, Fields
<1>4. Keeps(eng', eng, Loose \cup {"phase"})
  BY <1>3, KeepsMore
<1> QED BY <1>1, <1>3, <1>4, StepMoves DEF ToolPhases

LEMMA ExternallyKeeps ==
    ASSUME NEW e, Has(e), NEW x \in Externally(e)
    PROVE  Keeps(x, e, {"history", "entries"})
<1>1. x = e \/ x = Rebased(e, CompactedHistory(e.history))
  BY DEF Externally
<1>2. Keeps(e, e, {"history", "entries"})
  BY KeepsItself
<1>3. Keeps(Rebased(e, CompactedHistory(e.history)), e, {"history", "entries"})
  BY RebasedKeeps
<1> QED BY <1>1, <1>2, <1>3

LEMMA ModelTurnCareful ==
    ASSUME CarefulInv, model_turn
    PROVE  CarefulInv'
<1>1. eng.phase = "model" /\ Careful(eng) /\ Has(eng)
  BY Present DEF model_turn, At, Active
<1> DEFINE e == Gathered(eng)
<1>2. Keeps(e, eng, {"history", "told"})
  BY <1>1, GatheredKeeps
<1>3. PICK x \in Externally(e) : \E c \in {compact_local(x, FALSE)} :
        IF e.turns >= e.max \/ BadlyCompacted(e, x) \/ CompactionFails(x, c)
        THEN Ends(IF e.turns >= e.max \/ BadlyCompacted(e, x) THEN e ELSE x, "failed")
        ELSE eng' = [c EXCEPT !.phase = "attempt", !.attempt = 0,
                              !.index = FirstModel(c), !.asked = FirstModel(c)]
  BY Zenon DEF model_turn
<1> HIDE DEF e
<1> DEFINE c == compact_local(x, FALSE)
<1>4. Keeps(x, e, {"history", "entries"})
  BY <1>2, ExternallyKeeps DEF Keeps
<1>5. Keeps(c, x, {"history", "entries"})
  BY <1>4, CompactKeeps DEF Keeps
<1>6. \/ \E q : Ends(q, "failed")
      \/ eng' = [c EXCEPT !.phase = "attempt", !.attempt = 0,
                          !.index = FirstModel(c), !.asked = FirstModel(c)]
  BY <1>3, Zenon
<1> HIDE DEF c
<1>7. CASE \E q : Ends(q, "failed")
  BY <1>7, EndsIdle DEF CarefulInv
<1>8. CASE eng' = [c EXCEPT !.phase = "attempt", !.attempt = 0,
                            !.index = FirstModel(c), !.asked = FirstModel(c)]
  <2>1. Keeps(eng', c, {"phase"}) /\ eng'.phase = "attempt"
    BY <1>5, <1>8 DEF Keeps, Has, Fields
  <2> DEFINE B == Loose \cup {"phase"}
  <2>2. Keeps(eng', c, B) /\ Keeps(c, x, B) /\ Keeps(x, e, B) /\ Keeps(e, eng, B)
    BY <2>1, <1>5, <1>4, <1>2, KeepsMore DEF Loose
  <2>3. Keeps(eng', eng, B)
    <3> HIDE DEF B
    <3> QED BY <2>2, KeepsTwice
  <2> QED BY <1>1, <2>1, <2>3, StepMoves DEF ToolPhases
<1> QED BY <1>6, <1>7, <1>8

LEMMA AttemptCareful ==
    ASSUME CarefulInv, ModelAttempt
    PROVE  CarefulInv'
<1>1. eng.phase = "attempt" /\ Careful(eng) /\ Has(eng)
  BY Present DEF ModelAttempt, At, Active
<1>2. PICK c \in {eng, compact_local(eng, FALSE)} : Failed(eng) \/ eng' = Attempt(c)
  BY Zenon DEF ModelAttempt, Continues
<1>3. Keeps(c, eng, {"history", "entries"})
  BY <1>1, CompactKeeps, KeepsItself
<1>4. CASE Failed(eng)
  BY <1>4, FailedCareful
<1>5. CASE eng' = Attempt(c)
  <2>1. Keeps(eng', c, {"phase"}) /\ eng'.phase = "waiting"
    BY <1>3, <1>5 DEF Attempt, Keeps, Has, Fields
  <2> DEFINE B == Loose \cup {"phase"}
  <2>2. Keeps(eng', c, B) /\ Keeps(c, eng, B)
    BY <2>1, <1>3, KeepsMore DEF Loose
  <2>3. Keeps(eng', eng, B)
    <3> HIDE DEF B
    <3> QED BY <2>2, KeepsTwice
  <2> QED BY <1>1, <2>1, <2>3, StepMoves DEF ToolPhases
<1> QED BY <1>2, <1>4, <1>5

LEMMA AfterErrorKeeps ==
    ASSUME Has(eng), NEW kind, AfterError(kind)
    PROVE  Failed(eng) \/ (Keeps(eng', eng, {"phase"}) /\ eng'.phase \in {"attempt", "backoff"})
<1> DEFINE next == CASE eng.cfg.handler = "retry" -> "attempt"
                     [] eng.cfg.handler = "none" /\ RetryAllowed(eng, kind) -> "backoff"
                     [] OTHER -> "fails"
<1>1. \/ eng' = [eng EXCEPT !.phase = "attempt", !.index = @ + 1, !.attempt = NextAttempt(@),
                            !.fallback = [index |-> eng.index + 1, successes |-> 0]]
      \/ IF next = "fails" THEN Failed(eng)
         ELSE eng' = [eng EXCEPT !.phase = next, !.attempt = NextAttempt(@)]
  BY DEF AfterError, Continues
<1>2. next \in {"attempt", "backoff", "fails"}
  OBVIOUS
<1> HIDE DEF next
<1>3. CASE eng' = [eng EXCEPT !.phase = "attempt", !.index = @ + 1, !.attempt = NextAttempt(@),
                              !.fallback = [index |-> eng.index + 1, successes |-> 0]]
  BY <1>3 DEF Keeps, Has, Fields
<1>4. CASE eng' = [eng EXCEPT !.phase = next, !.attempt = NextAttempt(@)] /\ next # "fails"
  BY <1>2, <1>4 DEF Keeps, Has, Fields
<1> QED BY <1>1, <1>3, <1>4

LEMMA ErrorCareful ==
    ASSUME CarefulInv, ModelError
    PROVE  CarefulInv'
<1>1. eng.phase = "waiting" /\ Careful(eng) /\ Has(eng)
  BY Present DEF ModelError, At, Active
<1> DEFINE c == compact_local(eng, TRUE)
<1>2. \/ Failed(eng) \/ eng' = [c EXCEPT !.phase = "attempt"]
      \/ \E kind : AfterError(kind)
  BY Zenon DEF ModelError, Continues
<1>3. Keeps(c, eng, {"history", "entries"})
  BY <1>1, CompactKeeps
<1> HIDE DEF c
<1>4. CASE Failed(eng)
  BY <1>4, FailedCareful
<1>5. CASE eng' = [c EXCEPT !.phase = "attempt"]
  <2>1. Keeps(eng', c, {"phase"}) /\ eng'.phase = "attempt"
    BY <1>3, <1>5 DEF Keeps, Has, Fields
  <2> DEFINE B == Loose \cup {"phase"}
  <2>2. Keeps(eng', c, B) /\ Keeps(c, eng, B)
    BY <2>1, <1>3, KeepsMore DEF Loose
  <2>3. Keeps(eng', eng, B)
    <3> HIDE DEF B
    <3> QED BY <2>2, KeepsTwice
  <2> QED BY <1>1, <2>1, <2>3, StepMoves DEF ToolPhases
<1>6. ASSUME NEW kind, AfterError(kind) PROVE CarefulInv'
  <2>1. Failed(eng) \/ (Keeps(eng', eng, {"phase"}) /\ eng'.phase \in {"attempt", "backoff"})
    BY <1>1, <1>6, AfterErrorKeeps
  <2>2. CASE Keeps(eng', eng, {"phase"}) /\ eng'.phase \in {"attempt", "backoff"}
    <3>1. Keeps(eng', eng, Loose \cup {"phase"})
      BY <2>2, KeepsMore
    <3> QED BY <1>1, <2>2, <3>1, StepMoves DEF ToolPhases
  <2> QED BY <2>1, <2>2, FailedCareful
<1> QED BY <1>2, <1>4, <1>5, <1>6

LEMMA AccountedKeeps ==
    ASSUME NEW e, Has(e), NEW items, NEW r \in Accounted(e, items)
    PROVE  Keeps(r, e, {"history"}) /\ r.history = e.history \o items
<1> DEFINE back == e.fallback # None /\ e.fallback.successes + 1 = Reprobe
           count == IF e.fallback = None THEN None ELSE [e.fallback EXCEPT !.successes = @ + 1]
           Noted(n) == [e EXCEPT !.fallback = IF back THEN None ELSE count,
                                 !.calibration = observe_estimate(@, n, 100)]
<1>1. PICK n \in e.cfg.reports : r = publish_committed(AppendAll(Noted(n), items))
  BY Zenon DEF Accounted
<1> HIDE DEF back, count
<1>2. Keeps(Noted(n), e, {})
  BY DEF Keeps, Has, Fields
<1> DEFINE d == Noted(n)
<1> HIDE DEF Noted
<1>3. Keeps(d, e, {}) /\ d.history = e.history
  BY <1>2 DEF Keeps, Fields
<1> HIDE DEF d
<1> DEFINE a == AppendAll(d, items)
<1>4. Keeps(a, d, {"history"}) /\ a.history = d.history \o items
  BY <1>3, AppendAllKeeps DEF Keeps
<1> HIDE DEF a
<1>5. Keeps(publish_committed(a), a, {})
  BY <1>4, PublishKeeps DEF Keeps
<1>6. r = publish_committed(a)
  BY <1>1 DEF a, d
<1>7. r.history = a.history
  BY <1>5, <1>6 DEF Keeps, Fields
<1>8. Keeps(r, e, {"history"})
  BY <1>3, <1>4, <1>5, <1>6 DEF Keeps
<1> QED BY <1>3, <1>4, <1>7, <1>8

LEMMA RepliesCareful ==
    ASSUME CarefulInv, ModelReplies
    PROVE  CarefulInv'
<1>1. eng.phase \in {"visible", "waiting"} /\ Careful(eng) /\ Has(eng)
  BY Present DEF ModelReplies, At, Active
<1> DEFINE Called(e, calls) ==
             [e EXCEPT !.phase = "tools", !.calls = HandoffFirst(e, calls),
                       !.blocks = 0, !.toolTurn = <<>>, !.toolPause = FALSE,
                       !.toolFinal = FALSE, !.prepared = FALSE, !.granted = {},
                       !.ran = [id \in Ids |-> 0], !.approvals = <<>>]
<1>2. \/ \E e : Failed(e)
      \/ \E e \in Accounted(eng, <<Message("assistant")>>) :
            \/ eng' = [e EXCEPT !.phase = "candidate"]
            \/ eng' = [e EXCEPT !.phase = "model", !.blocks = 0]
      \/ \E calls \in CallSets(eng) : \E e \in Accounted(eng, CallItems(calls)) :
            eng' = Called(e, calls)
  BY Zenon DEF ModelReplies, Continues
<1>3. ASSUME NEW e, Failed(e) PROVE CarefulInv'
  BY <1>3, FailedCareful
<1>4. ASSUME NEW e \in Accounted(eng, <<Message("assistant")>>),
             \/ eng' = [e EXCEPT !.phase = "candidate"]
             \/ eng' = [e EXCEPT !.phase = "model", !.blocks = 0]
      PROVE  CarefulInv'
  <2>1. Keeps(e, eng, {"history"})
    BY <1>1, AccountedKeeps
  <2>2. Keeps(eng', e, {"phase"}) /\ eng'.phase \in {"candidate", "model"}
    BY <2>1, <1>4 DEF Keeps, Has, Fields
  <2> DEFINE B == Loose \cup {"phase"}
  <2>3. Keeps(eng', e, B) /\ Keeps(e, eng, B)
    BY <2>1, <2>2, KeepsMore DEF Loose
  <2>4. Keeps(eng', eng, B)
    <3> HIDE DEF B
    <3> QED BY <2>3, KeepsTwice
  <2> QED BY <1>1, <2>2, <2>4, StepMoves DEF ToolPhases
<1>5. ASSUME NEW calls \in CallSets(eng), NEW e \in Accounted(eng, CallItems(calls)),
             eng' = Called(e, calls)
      PROVE  CarefulInv'
  <2>1. Keeps(e, eng, {"history"})
    BY <1>1, AccountedKeeps
  <2>2. CallList(calls) /\ Distinct(calls)
    BY <1>1, CallSetsListed DEF Careful, Listed
  <2>3. CallList(HandoffFirst(e, calls)) /\ Distinct(HandoffFirst(e, calls))
    BY <2>2, HandoffFirstListed
  <2> DEFINE r == Called(e, calls)
  <2>4. /\ Has(r) /\ r.phase = "tools" /\ r.calls = HandoffFirst(e, calls) /\ r.cfg = eng.cfg
        /\ r.ran = [id \in Ids |-> 0] /\ r.deferred = eng.deferred /\ r.running = eng.running
        /\ r.left = eng.left
    BY <2>1 DEF Keeps, Has, Fields
  <2> HIDE DEF r, Called
  <2>5. Listed(r)
    BY <1>1, <2>3, <2>4 DEF Careful, Listed, ToolPhases
  <2>6. Guarded(r)
    BY <1>1, <2>4 DEF Careful, Guarded
  <2>7. Once(r)
    <3>1. eng.left \/ eng.deferred = <<>>
      BY <1>1 DEF Careful, Once, ToolPhases
    <3>2. IdsIn(r.calls) \subseteq Ids
      BY <2>3, <2>4, CallsOfIds
    <3>3. \A id \in Ids : r.ran[id] = 0
      BY <2>4
    <3> QED BY <2>3, <2>4, <3>1, <3>2, <3>3, EmptyList DEF Once, ToolPhases
  <2> QED BY <1>5, <2>5, <2>6, <2>7 DEF Careful, CarefulInv, r
<1> QED BY <1>2, <1>3, <1>4, <1>5

--------------------------------------------------------------------------------
(* The steps of tools.                                                     *)
LEMMA HasCareful ==
    ASSUME NEW e, Careful(e)
    PROVE  /\ Has(e) /\ CallList(e.calls) /\ CallList(e.deferred)
           /\ IdsIn(e.calls) \subseteq Ids /\ IdsIn(e.deferred) \subseteq Ids
BY CallsOfIds DEF Careful, Listed

LEMMA AskedGated ==
    ASSUME NEW e, CallList(e.calls), Distinct(e.calls) \/ Gated(e.cfg, e.calls),
           NEW ids \in SUBSET Asked(e)
    PROVE  Gated(e.cfg, CallsOf(e.calls, ids))
<1> DEFINE r == CallsOf(e.calls, ids)
<1>1. CASE Gated(e.cfg, e.calls)
  BY <1>1, CallsOfIds
<1>2. CASE Distinct(e.calls)
  <2>1. \A k \in DOMAIN r : \E i \in DOMAIN e.calls : r[k] = e.calls[i] /\ e.calls[i].id \in ids
    BY CallsOfPlaces
  <2> HIDE DEF r
  <2>2. ASSUME NEW i \in DOMAIN e.calls, e.calls[i].id \in ids
        PROVE  e.calls[i].tool = "guarded" \/ (e.calls[i].tool = "write" /\ e.cfg.approve)
    <3>1. PICK j \in DOMAIN e.calls :
            /\ NeedsApproval(e, e.calls[j]) /\ e.calls[j].tool # "handoff"
            /\ e.calls[j].id = e.calls[i].id
      BY <2>2 DEF Asked, Range
    <3>2. i = j
      BY <3>1, <1>2 DEF Distinct
    <3> QED BY <3>1, <3>2 DEF NeedsApproval
  <2>3. Gated(e.cfg, r)
    BY <2>1, <2>2 DEF Gated
  <2> QED BY <2>3 DEF r
<1> QED BY <1>1, <1>2

LEMMA JoinedList ==
    ASSUME NEW a, NEW b, CallList(a), CallList(b)
    PROVE  /\ CallList(a \o b) /\ IdsIn(a \o b) = IdsIn(a) \cup IdsIn(b)
           /\ \A cfg : Gated(cfg, a) /\ Gated(cfg, b) => Gated(cfg, a \o b)
           /\ Distinct(a) /\ Distinct(b) /\ IdsIn(a) \cap IdsIn(b) = {} => Distinct(a \o b)
<1> DEFINE r == a \o b
<1>1. /\ r \in Seq(CallRecord) /\ a \in Seq(CallRecord) /\ b \in Seq(CallRecord)
      /\ DOMAIN a = 1..Len(a) /\ DOMAIN b = 1..Len(b) /\ DOMAIN r = 1..Len(a) + Len(b)
      /\ Len(a) \in Nat /\ Len(b) \in Nat
      /\ \A k \in 1..Len(a) + Len(b) : r[k] = IF k <= Len(a) THEN a[k] ELSE b[k - Len(a)]
  BY DEF CallList
<1> HIDE DEF r
<1>2. \A k \in DOMAIN r : \/ k \in DOMAIN a /\ r[k] = a[k]
                          \/ k - Len(a) \in DOMAIN b /\ r[k] = b[k - Len(a)] /\ k \in Int
  BY <1>1
<1>3. /\ \A k \in DOMAIN a : k \in DOMAIN r /\ r[k] = a[k]
      /\ \A k \in DOMAIN b : k + Len(a) \in DOMAIN r /\ r[k + Len(a)] = b[k]
  BY <1>1
<1>4. IdsIn(r) = IdsIn(a) \cup IdsIn(b)
  BY <1>2, <1>3 DEF IdsIn
<1>5. \A cfg : Gated(cfg, a) /\ Gated(cfg, b) => Gated(cfg, r)
  BY <1>2 DEF Gated
<1>6. ASSUME Distinct(a), Distinct(b), IdsIn(a) \cap IdsIn(b) = {} PROVE Distinct(r)
  <2> SUFFICES ASSUME NEW j \in DOMAIN r, NEW k \in DOMAIN r, r[j].id = r[k].id PROVE j = k
    BY DEF Distinct
  <2>1. \A x \in DOMAIN a, y \in DOMAIN b : a[x].id # b[y].id
    BY <1>6 DEF IdsIn
  <2>2. CASE j \in DOMAIN a /\ r[j] = a[j] /\ k \in DOMAIN a /\ r[k] = a[k]
    BY <2>2, <1>6 DEF Distinct
  <2>3. CASE /\ j - Len(a) \in DOMAIN b /\ r[j] = b[j - Len(a)] /\ j \in Int
             /\ k - Len(a) \in DOMAIN b /\ r[k] = b[k - Len(a)] /\ k \in Int
    <3>1. j - Len(a) = k - Len(a)
      BY <2>3, <1>6 DEF Distinct
    <3> QED BY <3>1, <2>3, <1>1
  <2> QED BY <1>2, <2>1, <2>2, <2>3
<1> QED BY <1>1, <1>4, <1>5, <1>6 DEF CallList, r

LEMMA PrepareCareful ==
    ASSUME CarefulInv, PrepareTools
    PROVE  CarefulInv'
<1>1. eng.phase = "tools" /\ Careful(eng) /\ Has(eng)
  BY Present DEF PrepareTools, At, Active
<1> DEFINE Ready(decisions, deferred, more) ==
             [Prepared(eng, decisions, CallsOf(eng.calls, deferred), deferred)
                EXCEPT !.granted = @ \cup more]
<1>2. \/ eng' = [eng EXCEPT !.prepared = TRUE]
      \/ \E decisions, more : \E deferred \in SUBSET Asked(eng) : eng' = Ready(decisions, deferred, more)
  <2> DEFINE D(decisions) == {{id \in Asked(eng) : decisions[id] = "defer"}}
  <2>1. \/ eng' = [eng EXCEPT !.prepared = TRUE]
        \/ \E decisions, more : \E deferred \in D(decisions) : eng' = Ready(decisions, deferred, more)
    <3> DEFINE G == [Asked(eng) \ DOMAIN eng.approvals -> {"approve", "deny", "defer"}]
               M(given) == {id \in DOMAIN given : given[id] = "approve"}
    <3>1. \/ eng' = [eng EXCEPT !.prepared = TRUE]
          \/ \E given \in G : \E decisions \in {given @@ eng.approvals} :
                \E deferred \in D(decisions) : eng' = Ready(decisions, deferred, M(given))
      BY ZenonT(60) DEF PrepareTools, Continues
    <3> HIDE DEF G, M, D, Ready
    <3> QED BY <3>1, Zenon
  <2>2. \A decisions : \A deferred \in D(decisions) : deferred \in SUBSET Asked(eng)
    OBVIOUS
  <2> HIDE DEF Ready, D
  <2> QED BY <2>1, <2>2, Zenon
<1>3. CASE eng' = [eng EXCEPT !.prepared = TRUE]
  <2>1. Keeps(eng', eng, {}) /\ eng'.granted = eng.granted
    BY <1>1, <1>3 DEF Keeps, Has, Fields
  <2>2. Keeps(eng', eng, Loose \cup {"granted"})
    BY <2>1, KeepsMore
  <2> QED BY <1>1, <2>1, <2>2, SameCareful DEF CarefulInv
<1>4. ASSUME NEW decisions, NEW more, NEW deferred \in SUBSET Asked(eng),
             eng' = Ready(decisions, deferred, more)
      PROVE  CarefulInv'
  <2> DEFINE kept == CallsOf(eng.calls, Ids \ deferred)
             late == CallsOf(eng.calls, deferred)
             r == Ready(decisions, deferred, more)
  <2>1. /\ CallList(kept) /\ CallList(late)
        /\ IdsIn(kept) = IdsIn(eng.calls) \cap (Ids \ deferred)
        /\ IdsIn(late) = IdsIn(eng.calls) \cap deferred
        /\ IdsIn(eng.calls) \subseteq Ids
        /\ Distinct(eng.calls) => Distinct(kept) /\ Distinct(late)
        /\ Gated(eng.cfg, eng.calls) => Gated(eng.cfg, kept)
    BY <1>1, HasCareful, CallsOfIds
  <2>2. /\ Has(r) /\ r.phase = "tools" /\ r.calls = kept /\ r.deferred = eng.deferred \o late
        /\ r.cfg = eng.cfg /\ r.ran = eng.ran /\ r.running = eng.running /\ r.left = eng.left
    <3> HIDE DEF kept, late
    <3>1. kept = CallsOf(eng.calls, Ids \ deferred) /\ late = CallsOf(eng.calls, deferred)
      BY DEF kept, late
    <3> QED BY <1>1, <3>1 DEF Prepared, Has, Fields
  <2>3. Gated(eng.cfg, late)
    <3> HIDE DEF r, Ready
    <3> QED BY <1>1, <1>4, AskedGated DEF Careful, Listed
  <2> HIDE DEF kept, late, r, Ready
  <2>4. /\ CallList(r.deferred) /\ IdsIn(r.deferred) = IdsIn(eng.deferred) \cup IdsIn(late)
        /\ Gated(eng.cfg, r.deferred)
        /\ (/\ Distinct(eng.deferred) /\ Distinct(late)
            /\ IdsIn(eng.deferred) \cap IdsIn(late) = {}) => Distinct(r.deferred)
    BY <1>1, <2>1, <2>2, <2>3, JoinedList DEF Careful, Listed
  <2>5. Listed(r)
    BY <1>1, <2>1, <2>2, <2>4 DEF Careful, Listed, ToolPhases
  <2>6. Guarded(r)
    BY <1>1, <2>2 DEF Careful, Guarded
  <2>7. Begun(r) = {} /\ Begun(eng) = {}
    BY <1>1, <2>2 DEF Begun, Careful, Guarded
  <2>8. Once(r)
    <3>1. IdsIn(kept) \cap IdsIn(late) = {}
      BY <2>1
    <3>2. eng.left \/ (/\ \A id \in Ids : eng.ran[id] <= 1
                       /\ \A id \in IdsIn(eng.calls) : eng.ran[id] = 0
                       /\ \A id \in IdsIn(eng.deferred) : eng.ran[id] = 0
                       /\ IdsIn(eng.calls) \cap IdsIn(eng.deferred) = {}
                       /\ Distinct(eng.calls) /\ Distinct(eng.deferred))
      BY <1>1, <2>7 DEF Careful, Once
    <3>3. CASE eng.left
      BY <3>3, <2>2 DEF Once
    <3>4. CASE ~eng.left
      <4>1. IdsIn(eng.deferred) \cap IdsIn(late) = {} /\ Distinct(r.deferred)
        BY <2>1, <2>4, <3>2, <3>4
      <4> QED BY <2>1, <2>2, <2>4, <2>7, <3>1, <3>2, <3>4, <4>1 DEF Once, ToolPhases
    <3> QED BY <3>3, <3>4
  <2> QED BY <1>4, <2>5, <2>6, <2>8 DEF Careful, CarefulInv, r
<1> QED BY <1>2, <1>3, <1>4, Zenon

LEMMA ToBatchCareful ==
    ASSUME CarefulInv, ToBatch
    PROVE  CarefulInv'
<1>1. eng.phase = "tools" /\ Careful(eng) /\ Has(eng) /\ parallel_batch_ready(eng)
  BY Present DEF ToBatch, At, Active
<1> DEFINE r == [eng EXCEPT !.phase = "batch"]
<1>2. eng' = r
  BY DEF ToBatch, Continues
<1>3. Keeps(r, eng, {"phase"}) /\ r.phase = "batch"
  BY <1>1 DEF Keeps, Has, Fields
<1> HIDE DEF r
<1>4. /\ Has(r) /\ r.cfg = eng.cfg /\ r.agent = eng.agent /\ r.calls = eng.calls
      /\ r.deferred = eng.deferred /\ r.running = eng.running
      /\ r.ran = eng.ran /\ r.left = eng.left
  BY <1>3 DEF Keeps, Fields
<1>5. Listed(r)
  BY <1>1, <1>3, <1>4 DEF Careful, Listed, ToolPhases
<1>6. parallel_batch_ready(r)
  <2>1. \A c : NeedsApproval(r, c) <=> NeedsApproval(eng, c)
    BY <1>4, Zenon DEF NeedsApproval
  <2> QED BY <1>1, <1>4, <2>1 DEF parallel_batch_ready
<1>7. r.running = {} /\ Begun(eng) = {}
  BY <1>1, <1>4 DEF Careful, Guarded, Begun
<1>8. Guarded(r)
  BY <1>3, <1>6, <1>7 DEF Guarded
<1>9. Once(r)
  BY <1>1, <1>3, <1>4, <1>7 DEF Careful, Once, ToolPhases
<1> QED BY <1>2, <1>5, <1>8, <1>9 DEF Careful, CarefulInv

LEMMA ToolOfCall ==
    ASSUME NEW e, Distinct(e.calls), NEW k \in DOMAIN e.calls
    PROVE  ToolOf(e, e.calls[k].id) = e.calls[k].tool
<1> DEFINE S == {c \in Range(e.calls) : c.id = e.calls[k].id}
<1>1. \A c \in S : c = e.calls[k]
  BY DEF Distinct, Range
<1>2. e.calls[k] \in S
  BY DEF Range
<1>3. (CHOOSE c \in Range(e.calls) : c.id = e.calls[k].id) \in S
  <2>1. \E c \in Range(e.calls) : c.id = e.calls[k].id
    BY <1>2
  <2> QED BY <2>1, Zenon
<1> QED BY <1>1, <1>3 DEF ToolOf

LEMMA BatchDistinct ==
    ASSUME NEW e, Listed(e), parallel_batch_ready(e)
    PROVE  Distinct(e.calls)
<1>1. 1 \in DOMAIN e.calls
  BY DEF Listed, CallList, parallel_batch_ready
<1>2. ~NeedsApproval(e, e.calls[1])
  BY <1>1 DEF parallel_batch_ready
<1>3. ~Gated(e.cfg, e.calls)
  BY <1>1, <1>2 DEF Gated, NeedsApproval
<1> QED BY <1>3 DEF Listed

LEMMA BatchStartsCareful ==
    ASSUME CarefulInv, BatchStarts
    PROVE  CarefulInv'
<1>1. eng.phase = "batch" /\ Careful(eng) /\ Has(eng)
  BY Present DEF BatchStarts, At, Active
<1> DEFINE Begins1(k) == [eng EXCEPT !.running = @ \cup {eng.calls[k].id},
                                     !.ran[eng.calls[k].id] = @ + 1]
<1>2. PICK k \in DOMAIN eng.calls : MayStart(eng, eng.calls[k]) /\ eng' = Begins1(k)
  BY Zenon DEF BatchStarts, Continues
<1> DEFINE c == eng.calls[k]
           r == Begins1(k)
<1>3. /\ CallList(eng.calls) /\ c \in CallRecord /\ c.id \in Ids /\ c.id \in IdsIn(eng.calls)
      /\ eng.ran \in [Ids -> Nat]
  <2>1. eng.calls \in Seq(CallRecord)
    BY <1>1 DEF Careful, Listed, CallList
  <2>2. c \in CallRecord
    BY <2>1
  <2> QED BY <1>1, <2>2 DEF Careful, Listed, CallRecord, IdsIn
<1> HIDE DEF c
<1>4. /\ Has(r) /\ r.phase = "batch" /\ r.cfg = eng.cfg /\ r.agent = eng.agent /\ r.calls = eng.calls
      /\ r.deferred = eng.deferred /\ r.running = eng.running \cup {c.id}
      /\ r.outputs = eng.outputs /\ r.left = eng.left
      /\ r.ran = [eng.ran EXCEPT ![c.id] = @ + 1]
  BY <1>1 DEF Has, Fields, c
<1> HIDE DEF r, Begins1
<1>5. r.ran \in [Ids -> Nat] /\ r.ran[c.id] = eng.ran[c.id] + 1
      /\ \A id \in Ids : id # c.id => r.ran[id] = eng.ran[id]
  BY <1>3, <1>4
<1>6. Listed(r)
  BY <1>1, <1>4, <1>5 DEF Careful, Listed
<1>7. MayStart(eng, c)
  BY <1>2 DEF c
<1>8. /\ \A x : NeedsApproval(r, x) <=> NeedsApproval(eng, x)
      /\ \A id : ToolOf(r, id) = ToolOf(eng, id)
  BY <1>4, Zenon DEF NeedsApproval, ToolOf
<1>9. ToolOf(eng, c.id) = c.tool
  <2>1. Distinct(eng.calls)
    BY <1>1, BatchDistinct DEF Careful, Guarded
  <2> QED BY <1>2, <2>1, ToolOfCall DEF c
<1>10. Guarded(r)
  <2>1. /\ parallel_batch_ready(eng)
        /\ eng.running \subseteq IdsIn(eng.calls) \ DOMAIN eng.outputs
        /\ \A id \in eng.running : ToolOf(eng, id) # "read" => eng.running = {id}
    BY <1>1 DEF Careful, Guarded
  <2>2. parallel_batch_ready(r)
    BY <2>1, <1>4, <1>8 DEF parallel_batch_ready
  <2>3. r.running \subseteq IdsIn(r.calls) \ DOMAIN r.outputs
    BY <2>1, <1>3, <1>4, <1>7 DEF MayStart
  <2>4. ASSUME NEW id \in r.running, ToolOf(r, id) # "read" PROVE r.running = {id}
    <3>1. ToolOf(eng, id) # "read"
      BY <2>4, <1>8
    <3>2. c.tool # "read"
      <4>1. CASE id = c.id
        BY <4>1, <3>1, <1>9
      <4>2. CASE id # c.id
        BY <4>2, <3>1, <1>4, <2>4, <1>7 DEF MayStart
      <4> QED BY <4>1, <4>2
    <3>3. eng.running = {}
      BY <3>2, <1>7 DEF MayStart
    <3> QED BY <3>3, <2>4, <1>4
  <2> QED BY <1>4, <2>2, <2>3, <2>4 DEF Guarded
<1>11. Once(r)
  <2>1. CASE eng.left
    BY <2>1, <1>4 DEF Once
  <2>2. CASE ~eng.left
    <3>1. Begun(r) = Begun(eng) \cup {c.id} /\ c.id \notin Begun(eng)
      BY <1>1, <1>4, <1>7 DEF Begun, MayStart
    <3>2. /\ \A id \in Ids : eng.ran[id] <= 1
          /\ \A id \in IdsIn(eng.calls) \ Begun(eng) : eng.ran[id] = 0
          /\ \A id \in IdsIn(eng.deferred) : eng.ran[id] = 0
          /\ IdsIn(eng.calls) \cap IdsIn(eng.deferred) = {}
          /\ Distinct(eng.calls) /\ Distinct(eng.deferred)
      BY <1>1, <2>2 DEF Careful, Once
    <3>3. IdsIn(eng.calls) \subseteq Ids /\ IdsIn(eng.deferred) \subseteq Ids
      BY <1>1, HasCareful
    <3>4. eng.ran[c.id] = 0
      BY <3>1, <3>2, <1>3
    <3>5. \A id \in Ids : r.ran[id] <= 1
      BY <3>2, <3>4, <1>3, <1>5
    <3>6. \A id \in IdsIn(r.calls) \ Begun(r) : r.ran[id] = 0
      BY <3>1, <3>2, <3>3, <1>4, <1>5
    <3>7. \A id \in IdsIn(r.deferred) : r.ran[id] = 0
      BY <3>2, <3>3, <1>3, <1>4, <1>5
    <3> QED BY <3>2, <3>5, <3>6, <3>7, <1>4 DEF Once, ToolPhases
  <2> QED BY <2>1, <2>2
<1> QED BY <1>2, <1>6, <1>10, <1>11 DEF Careful, CarefulInv, r

LEMMA BatchReturnsCareful ==
    ASSUME CarefulInv, BatchReturns
    PROVE  CarefulInv'
<1>1. eng.phase = "batch" /\ Careful(eng) /\ Has(eng)
  BY Present DEF BatchReturns, At, Active
<1> DEFINE Back(e, id, out) == [e EXCEPT !.running = @ \ {id}, !.outputs = Output(@, id, out)]
<1>2. PICK id \in eng.running : \E out, ids :
        eng' = Back(eng, id, out) \/ eng' = Back(Hears(eng, ids), id, out)
  BY Zenon DEF BatchReturns, Continues
<1>3. PICK e, out : eng' = Back(e, id, out) /\ Keeps(e, eng, {"told"})
  BY <1>1, <1>2, HearsKeeps, KeepsItself, Zenon
<1>4. /\ Has(eng') /\ eng'.phase = "batch" /\ eng'.cfg = eng.cfg /\ eng'.agent = eng.agent
      /\ eng'.calls = eng.calls /\ eng'.deferred = eng.deferred
      /\ eng'.running = eng.running \ {id} /\ eng'.outputs = Output(eng.outputs, id, out)
      /\ eng'.left = eng.left /\ eng'.ran = eng.ran
  BY <1>1, <1>3 DEF Keeps, Has, Fields
<1> DEFINE r == eng'
<1> HIDE DEF Back, r
<1>5. DOMAIN Output(eng.outputs, id, out) = DOMAIN eng.outputs \cup {id}
  BY DEF Output
<1>6. /\ Has(r) /\ r.phase = "batch" /\ r.cfg = eng.cfg /\ r.agent = eng.agent
      /\ r.calls = eng.calls /\ r.deferred = eng.deferred
      /\ r.running = eng.running \ {id} /\ DOMAIN r.outputs = DOMAIN eng.outputs \cup {id}
      /\ r.left = eng.left /\ r.ran = eng.ran
  BY <1>4, <1>5 DEF r
<1>7. Listed(r)
  BY <1>1, <1>6 DEF Careful, Listed
<1>8. /\ \A x : NeedsApproval(r, x) <=> NeedsApproval(eng, x)
      /\ \A i : ToolOf(r, i) = ToolOf(eng, i)
  BY <1>6, Zenon DEF NeedsApproval, ToolOf
<1>9. Guarded(r)
  <2>1. /\ parallel_batch_ready(eng)
        /\ eng.running \subseteq IdsIn(eng.calls) \ DOMAIN eng.outputs
        /\ \A i \in eng.running : ToolOf(eng, i) # "read" => eng.running = {i}
    BY <1>1 DEF Careful, Guarded
  <2>2. parallel_batch_ready(r)
    BY <2>1, <1>6, <1>8 DEF parallel_batch_ready
  <2>3. r.running \subseteq IdsIn(r.calls) \ DOMAIN r.outputs
    BY <2>1, <1>6
  <2>4. \A i \in r.running : ToolOf(r, i) # "read" => r.running = {i}
    BY <2>1, <1>6, <1>8
  <2> QED BY <1>6, <2>2, <2>3, <2>4 DEF Guarded
<1>10. Begun(r) = Begun(eng)
  BY <1>1, <1>2, <1>6 DEF Begun
<1>11. Once(r)
  BY <1>1, <1>6, <1>10 DEF Careful, Once
<1> QED BY <1>7, <1>9, <1>11 DEF Careful, CarefulInv, r

(* A batch that ends, call by call.                                        *)
BatchBase(e) == [e EXCEPT !.outputs = <<>>, !.phase = "tools"]
BatchNext(e, prior, n) == Finished(prior, e.calls[n].id, e.outputs[e.calls[n].id])
Finishes(e, f, S) == f = [n \in S |-> IF n = 0 THEN BatchBase(e) ELSE BatchNext(e, f[n - 1], n)]

LEMMA FinishesAt ==
    ASSUME NEW e, NEW S, NEW f, Finishes(e, f, S), NEW n \in S
    PROVE  f[n] = IF n = 0 THEN BatchBase(e) ELSE BatchNext(e, f[n - 1], n)
<1> DEFINE g == [m \in S |-> IF m = 0 THEN BatchBase(e) ELSE BatchNext(e, f[m - 1], m)]
<1>1. f = g
  BY Zenon DEF Finishes
<1>2. g[n] = IF n = 0 THEN BatchBase(e) ELSE BatchNext(e, f[n - 1], n)
  OBVIOUS
<1> QED BY <1>1, <1>2, Zenon

LEMMA FinishesTo ==
    ASSUME NEW e, NEW k \in Nat
    PROVE  \E f : Finishes(e, f, 0..k)
<1> DEFINE T == {n \in Nat : \E f : Finishes(e, f, 0..n)}
<1>1. 0 \in T
  <2> DEFINE f == [i \in 0..0 |-> BatchBase(e)]
             h == [i \in 0..0 |-> IF i = 0 THEN BatchBase(e) ELSE BatchNext(e, f[i - 1], i)]
  <2>1. \A i \in 0..0 : f[i] = h[i]
    OBVIOUS
  <2>2. f = [i \in 0..0 |-> f[i]] /\ h = [i \in 0..0 |-> h[i]]
    OBVIOUS
  <2>3. f = h
    <3> HIDE DEF f, h
    <3> QED BY <2>1, <2>2, Zenon
  <2>4. Finishes(e, f, 0..0)
    <3> HIDE DEF f
    <3> QED BY <2>3 DEF Finishes
  <2> QED BY <2>4
<1>2. ASSUME NEW n \in Nat, n \in T PROVE n + 1 \in T
  <2>1. PICK f : Finishes(e, f, 0..n)
    BY <1>2
  <2> DEFINE g == [i \in 0..n + 1 |-> IF i = n + 1 THEN BatchNext(e, f[n], i) ELSE f[i]]
             h == [i \in 0..n + 1 |-> IF i = 0 THEN BatchBase(e) ELSE BatchNext(e, g[i - 1], i)]
  <2>2. ASSUME NEW i \in 0..n + 1 PROVE g[i] = h[i]
    <3>1. CASE i = n + 1
      <4>1. g[i] = BatchNext(e, f[n], i) /\ h[i] = BatchNext(e, g[i - 1], i)
        BY <3>1
      <4>2. g[i - 1] = f[n]
        BY <3>1
      <4> QED BY <4>1, <4>2, Zenon
    <3>2. CASE i # n + 1
      <4>1. i \in 0..n
        BY <3>2
      <4>2. g[i] = f[i] /\ h[i] = IF i = 0 THEN BatchBase(e) ELSE BatchNext(e, g[i - 1], i)
        BY <3>2
      <4>3. f[i] = IF i = 0 THEN BatchBase(e) ELSE BatchNext(e, f[i - 1], i)
        BY <4>1, <2>1, FinishesAt
      <4>4. i # 0 => g[i - 1] = f[i - 1]
        BY <4>1
      <4> HIDE DEF g, h
      <4> QED BY <4>2, <4>3, <4>4, Zenon
    <3> QED BY <3>1, <3>2
  <2>3. g = h
    <3>1. g = [i \in 0..n + 1 |-> g[i]] /\ h = [i \in 0..n + 1 |-> h[i]]
      OBVIOUS
    <3> HIDE DEF g, h
    <3> QED BY <2>2, <3>1, Zenon
  <2>4. Finishes(e, g, 0..n + 1)
    <3> HIDE DEF g
    <3> QED BY <2>3 DEF Finishes
  <2> QED BY <2>4
<1>3. Nat \subseteq T
  <2> HIDE DEF T
  <2> QED BY <1>1, <1>2, EveryNatural
<1> QED BY <1>3

LEMMA FinishedAllSteps ==
    ASSUME NEW e, Len(e.calls) \in Nat
    PROVE  \E f : /\ f[0] = BatchBase(e) /\ FinishedAll(e) = f[Len(e.calls)]
                  /\ \A n \in 1..Len(e.calls) : f[n] = BatchNext(e, f[n - 1], n)
<1> DEFINE L == Len(e.calls)
           F == CHOOSE f : f = [n \in 0..L |-> IF n = 0 THEN BatchBase(e) ELSE BatchNext(e, f[n - 1], n)]
<1>1. FinishedAll(e) = F[L]
  BY Zenon DEF FinishedAll, BatchBase, BatchNext
<1>2. \E f : f = [n \in 0..L |-> IF n = 0 THEN BatchBase(e) ELSE BatchNext(e, f[n - 1], n)]
  BY FinishesTo, Zenon DEF Finishes
<1>3. F = [n \in 0..L |-> IF n = 0 THEN BatchBase(e) ELSE BatchNext(e, F[n - 1], n)]
  <2> HIDE DEF L
  <2> QED BY <1>2, Zenon
<1>4. Finishes(e, F, 0..L)
  <2> HIDE DEF F, L
  <2> QED BY <1>3, Zenon DEF Finishes
<1> HIDE DEF F
<1>5. F[0] = BatchBase(e)
  <2> DEFINE S == 0..L
  <2>1. 0 \in S
    OBVIOUS
  <2> HIDE DEF S, L
  <2>2. Finishes(e, F, S)
    BY <1>4 DEF S
  <2>3. F[0] = IF 0 = 0 THEN BatchBase(e) ELSE BatchNext(e, F[0 - 1], 0)
    BY <2>1, <2>2, FinishesAt, Zenon
  <2> QED BY <2>3
<1>6. \A n \in 1..L : F[n] = BatchNext(e, F[n - 1], n)
  <2> SUFFICES ASSUME NEW n \in 1..L PROVE F[n] = BatchNext(e, F[n - 1], n)
    OBVIOUS
  <2>1. n \in 0..L /\ n # 0
    OBVIOUS
  <2> HIDE DEF L
  <2> QED BY <2>1, <1>4, FinishesAt
<1> QED BY <1>1, <1>5, <1>6

LEMMA FinishedKeeps ==
    ASSUME NEW e, Has(e), NEW id, NEW out
    PROVE  LET r == Finished(e, id, out)
           IN  /\ Keeps(r, e, {"history", "spills", "calls", "toolFinal", "running"})
               /\ r.calls = CallsOf(e.calls, Ids \ {id})
               /\ r.running \in {e.running, e.running \ {id}}
<1>1. CASE out = "lost"
  <2> DEFINE r == [e EXCEPT !.calls = CallsOf(@, Ids \ {id})]
  <2>1. Finished(e, id, out) = r
    BY <1>1, Zenon DEF Finished
  <2>2. /\ Keeps(r, e, {"history", "spills", "calls", "toolFinal", "running"})
        /\ r.calls = CallsOf(e.calls, Ids \ {id}) /\ r.running = e.running
    BY DEF Keeps, Has, Fields
  <2> QED BY <2>1, <2>2, Zenon
<1>2. CASE out # "lost"
  <2>1. Finished(e, id, out) = finish_tool(e, id, out)
    BY <1>2, Zenon DEF Finished
  <2> DEFINE r == finish_tool(e, id, out)
  <2>2. /\ Keeps(r, e, {"history", "spills", "calls", "toolFinal", "running"})
        /\ r.running = e.running \ {id}
    BY FinishKeeps
  <2>4. r.calls = CallsOf(e.calls, Ids \ {id})
    BY FinishCalls, Zenon
  <2> HIDE DEF r
  <2>3. Finished(e, id, out) = r
    BY <2>1 DEF r
  <2> QED BY <2>2, <2>3, <2>4, Zenon
<1> QED BY <1>1, <1>2

LEMMA FinishedAllKeeps ==
    ASSUME NEW e, Has(e), CallList(e.calls), e.running = {}
    PROVE  LET r == FinishedAll(e)
           IN  /\ Keeps(r, e, {"history", "spills", "calls", "toolFinal", "outputs", "phase"})
               /\ r.phase = "tools" /\ r.calls = <<>>
<1> DEFINE L == Len(e.calls)
           B == {"history", "spills", "calls", "toolFinal", "running"}
           b == BatchBase(e)
<1>1. e.calls \in Seq(CallRecord) /\ L \in Nat
  BY DEF CallList
<1>2. PICK f : /\ f[0] = b /\ FinishedAll(e) = f[L]
               /\ \A n \in 1..L : f[n] = BatchNext(e, f[n - 1], n)
  BY <1>1, FinishedAllSteps
<1>3. /\ Keeps(b, e, {"outputs", "phase"}) /\ b.phase = "tools"
      /\ b.calls = e.calls /\ b.running = {}
  BY DEF BatchBase, Keeps, Has, Fields
<1> HIDE DEF b, L
<1> DEFINE P(n) == /\ Keeps(f[n], b, B) /\ f[n].running = {} /\ CallList(f[n].calls)
                   /\ IdsIn(f[n].calls) \subseteq IdsIn(e.calls) \ {e.calls[i].id : i \in 1..n}
           T == {n \in Nat : n <= L => P(n)}
<1>4. 0 \in T
  <2>1. Keeps(b, b, B)
    BY <1>3, KeepsItself DEF Keeps
  <2>2. 1..0 = {}
    OBVIOUS
  <2>3. P(0)
    BY <1>2, <1>3, <2>1, <2>2
  <2> QED BY <2>3
<1>5. ASSUME NEW n \in Nat, n \in T PROVE n + 1 \in T
  <2> SUFFICES ASSUME n + 1 <= L PROVE P(n + 1)
    OBVIOUS
  <2>1. P(n) /\ n + 1 \in 1..L /\ (n + 1) - 1 = n
    BY <1>5, <1>1
  <2> DEFINE id == e.calls[n + 1].id
             out == e.outputs[id]
             r == Finished(f[n], id, out)
  <2>2. f[n + 1] = r
    BY <1>2, <2>1 DEF BatchNext
  <2>3. Has(f[n])
    BY <2>1 DEF Keeps
  <2>4. /\ Keeps(r, f[n], B) /\ r.calls = CallsOf(f[n].calls, Ids \ {id})
        /\ r.running \in {f[n].running, f[n].running \ {id}}
    <3> DEFINE d == f[n]
    <3> HIDE DEF d, id, out
    <3>1. Has(d)
      BY <2>3 DEF d
    <3>2. /\ Keeps(Finished(d, id, out), d, B)
          /\ Finished(d, id, out).calls = CallsOf(d.calls, Ids \ {id})
          /\ Finished(d, id, out).running \in {d.running, d.running \ {id}}
      BY <3>1, FinishedKeeps
    <3> QED BY <3>2 DEF d
  <2> HIDE DEF r, out
  <2>5. Keeps(r, b, B) /\ r.running = {}
    BY <2>1, <2>4, KeepsTwice
  <2>6. /\ CallList(r.calls)
        /\ IdsIn(r.calls) = IdsIn(f[n].calls) \cap (Ids \ {id})
    BY <2>1, <2>4, CallsOfIds
  <2>7. \A i \in 1..n + 1 : i \in 1..n \/ i = n + 1
    OBVIOUS
  <2>8. IdsIn(r.calls) \subseteq IdsIn(e.calls) \ {e.calls[i].id : i \in 1..n + 1}
    BY <2>1, <2>6, <2>7
  <2> QED BY <2>2, <2>5, <2>6, <2>8
<1>6. P(L)
  <2>1. Nat \subseteq T
    <3> HIDE DEF T
    <3> QED BY <1>4, <1>5, EveryNatural
  <2>2. L \in T /\ L <= L
    <3> HIDE DEF T
    <3> QED BY <2>1, <1>1
  <2> HIDE DEF P
  <2> QED BY <2>2
<1> DEFINE r == f[L]
<1>7. IdsIn(r.calls) = {}
  <2>1. DOMAIN e.calls = 1..L
    BY <1>1 DEF L
  <2>2. IdsIn(e.calls) = {e.calls[i].id : i \in 1..L}
    BY <2>1 DEF IdsIn
  <2> QED BY <1>6, <2>2
<1>8. r.calls = <<>>
  BY <1>6, <1>7, NoIds
<1>9. r.phase = "tools"
  BY <1>6, <1>3 DEF Keeps, Fields
<1>10. Keeps(r, e, {"history", "spills", "calls", "toolFinal", "outputs", "phase"})
  <2> SUFFICES ASSUME NEW x \in Fields \ {"history", "spills", "calls", "toolFinal", "outputs", "phase"}
               PROVE  Has(r) /\ r[x] = e[x]
    BY <1>6 DEF Keeps
  <2>1. CASE x = "running"
    BY <2>1, <1>6 DEF Keeps
  <2>2. CASE x # "running"
    BY <2>2, <1>6, <1>3 DEF Keeps
  <2> QED BY <2>1, <2>2
<1> HIDE DEF r
<1> QED BY <1>2, <1>8, <1>9, <1>10 DEF r

LEMMA BatchEndsCareful ==
    ASSUME CarefulInv, BatchEnds
    PROVE  CarefulInv'
<1>1. eng.phase = "batch" /\ Careful(eng) /\ Has(eng) /\ CallList(eng.calls)
  BY Present DEF BatchEnds, At, Active, Careful, Listed
<1>2. DOMAIN eng.outputs = IdsIn(eng.calls)
  BY DEF BatchEnds, IdsIn, Range
<1>3. eng.running = {}
  BY <1>1, <1>2 DEF Careful, Guarded
<1> DEFINE r == FinishedAll(eng)
<1>4. Ends(r, "failed") \/ eng' = r
  BY Zenon DEF BatchEnds
<1>5. /\ Keeps(r, eng, {"history", "spills", "calls", "toolFinal", "outputs", "phase"})
      /\ r.phase = "tools" /\ r.calls = <<>>
  BY <1>1, <1>3, FinishedAllKeeps
<1> HIDE DEF r
<1>6. /\ Has(r) /\ r.cfg = eng.cfg /\ r.deferred = eng.deferred /\ r.running = {}
      /\ r.ran = eng.ran /\ r.left = eng.left
  BY <1>3, <1>5 DEF Keeps, Fields
<1>7. Listed(r)
  BY <1>1, <1>5, <1>6, EmptyList DEF Careful, Listed
<1>8. Guarded(r)
  BY <1>5, <1>6 DEF Guarded
<1>9. Once(r)
  BY <1>1, <1>5, <1>6, EmptyList DEF Careful, Once, ToolPhases
<1>10. CASE Ends(r, "failed")
  BY <1>10, EndsIdle DEF CarefulInv
<1> QED BY <1>4, <1>7, <1>8, <1>9, <1>10 DEF Careful, CarefulInv

LEMMA DropCareful ==
    ASSUME NEW e, NEW r, NEW id, Careful(e), e.phase \in {"tools", "executing"},
           e.phase = "executing" => e.running = {id},
           Keeps(r, e, Loose \cup {"calls", "running", "phase"}),
           r.phase = "tools", r.running = {},
           CallList(r.calls), Gated(e.cfg, e.calls) => Gated(e.cfg, r.calls),
           Distinct(e.calls) => Distinct(r.calls) /\ IdsIn(r.calls) = IdsIn(e.calls) \ {id}
    PROVE  Careful(r)
<1>1. /\ Has(r) /\ r.cfg = e.cfg /\ r.deferred = e.deferred /\ r.ran = e.ran /\ r.left = e.left
  BY DEF Keeps, Loose, Fields
<1>2. Listed(r)
  BY <1>1 DEF Careful, Listed, ToolPhases
<1>3. Guarded(r)
  BY DEF Guarded
<1>4. Begun(r) = {} /\ Begun(e) \subseteq {id}
  BY DEF Begun, Careful, Guarded
<1>5. Once(r)
  BY <1>1, <1>4 DEF Careful, Once, ToolPhases
<1> QED BY <1>2, <1>3, <1>5 DEF Careful

LEMMA HandsOffKeeps ==
    ASSUME NEW e, Has(e)
    PROVE  /\ Keeps(HandsOff(e), e, {"history", "calls", "agent", "phase", "left"})
           /\ HandsOff(e).calls = <<>> /\ HandsOff(e).phase = "model"
           /\ ~HandsOff(e).left => ~e.left /\ e.deferred = <<>>
<1> DEFINE items == SkippedAnswers(e)
           a == AppendAll(e, items)
           b == [a EXCEPT !.calls = <<>>, !.toolTurn = None, !.agent = 2, !.phase = "model",
                          !.left = @ \/ e.deferred # <<>>]
<1>1. HandsOff(e) = publish_committed(b)
  BY Zenon DEF HandsOff
<1>2. Keeps(a, e, {"history"})
  BY AppendAllKeeps
<1> HIDE DEF items, a
<1>3. /\ Keeps(b, a, {"calls", "agent", "phase", "left"})
      /\ b.calls = <<>> /\ b.phase = "model"
  BY <1>2 DEF Keeps, Has, Fields
<1>4. b.left <=> (a.left \/ e.deferred # <<>>)
  BY <1>2, Zenon DEF Keeps, Has, Fields
<1>5. a.left = e.left
  BY <1>2 DEF Keeps, Fields
<1> HIDE DEF b
<1>6. Keeps(publish_committed(b), b, {})
  BY <1>3, PublishKeeps DEF Keeps
<1> DEFINE r == publish_committed(b)
<1> HIDE DEF r
<1>7. Keeps(r, b, {})
  BY <1>6 DEF r
<1>8. Keeps(r, e, {"history", "calls", "agent", "phase", "left"})
  BY <1>2, <1>3, <1>7 DEF Keeps
<1>9. r.calls = <<>> /\ r.phase = "model" /\ r.left = b.left
  BY <1>3, <1>7 DEF Keeps, Fields
<1>10. ~r.left => ~e.left /\ e.deferred = <<>>
  BY <1>4, <1>5, <1>9, Zenon
<1>11. HandsOff(e) = r
  BY <1>1 DEF r
<1> QED BY <1>8, <1>9, <1>10, <1>11, Zenon

LEMMA RunsCareful ==
    ASSUME NEW e, Careful(e), e.phase = "tools", e.calls # <<>>,
           NeedsApproval(e, e.calls[1]) => e.calls[1].id \in e.granted
    PROVE  Careful(Runs(e))
<1>1. Has(e) /\ CallList(e.calls) /\ Head(e.calls) = e.calls[1] /\ e.calls[1] \in CallRecord
      /\ 1 \in DOMAIN e.calls
  BY HasCareful, NoIds
<1> DEFINE id == e.calls[1].id
           x == [e EXCEPT !.phase = "executing", !.running = {id}, !.ran[id] = @ + 1]
<1>2. Runs(e) = IF CanHandOff(e, e.calls[1]) THEN HandsOff(e) ELSE x
  BY <1>1, Zenon DEF Runs
<1>3. Careful(HandsOff(e))
  <2> DEFINE r == HandsOff(e)
  <2>1. /\ Keeps(r, e, {"history", "calls", "agent", "phase", "left"})
        /\ r.calls = <<>> /\ r.phase = "model"
        /\ ~r.left => ~e.left /\ e.deferred = <<>>
    BY <1>1, HandsOffKeeps
  <2> HIDE DEF r
  <2>2. /\ Has(r) /\ r.cfg = e.cfg /\ r.deferred = e.deferred /\ r.running = e.running
        /\ r.ran = e.ran
    BY <2>1 DEF Keeps, Fields
  <2>3. Listed(r)
    BY <2>1, <2>2, EmptyList DEF Careful, Listed
  <2>4. Guarded(r)
    BY <2>1, <2>2 DEF Careful, Guarded
  <2>5. Once(r)
    BY <2>1, <2>2, EmptyList DEF Careful, Once, ToolPhases
  <2> QED BY <2>3, <2>4, <2>5 DEF Careful, r
<1>4. Careful(x)
  <2>1. id \in Ids /\ id \in IdsIn(e.calls) /\ e.ran \in [Ids -> Nat]
        /\ IdsIn(e.calls) \subseteq Ids /\ IdsIn(e.deferred) \subseteq Ids
    BY <1>1, HasCareful DEF CallRecord, IdsIn, Careful, Listed
  <2>2. /\ Has(x) /\ x.phase = "executing" /\ x.cfg = e.cfg /\ x.agent = e.agent /\ x.calls = e.calls
        /\ x.deferred = e.deferred /\ x.running = {id} /\ x.granted = e.granted
        /\ x.left = e.left /\ x.ran = [e.ran EXCEPT ![id] = @ + 1]
    BY <1>1 DEF Has, Fields
  <2> HIDE DEF x
  <2>3. /\ x.ran \in [Ids -> Nat] /\ x.ran[id] = e.ran[id] + 1
        /\ \A j \in Ids : j # id => x.ran[j] = e.ran[j]
    BY <2>1, <2>2
  <2>4. Listed(x)
    BY <2>2, <2>3 DEF Careful, Listed, ToolPhases
  <2>5. NeedsApproval(x, e.calls[1]) <=> NeedsApproval(e, e.calls[1])
    BY <2>2, Zenon DEF NeedsApproval
  <2>6. Guarded(x)
    BY <2>2, <2>5 DEF Guarded
  <2>7. Once(x)
    <3>1. CASE e.left
      BY <3>1, <2>2 DEF Once
    <3>2. CASE ~e.left
      <4>1. Begun(e) = {} /\ Begun(x) = {id}
        BY <2>2 DEF Begun, Careful, Guarded
      <4>2. /\ \A j \in Ids : e.ran[j] <= 1
            /\ \A j \in IdsIn(e.calls) : e.ran[j] = 0
            /\ \A j \in IdsIn(e.deferred) : e.ran[j] = 0
            /\ IdsIn(e.calls) \cap IdsIn(e.deferred) = {}
            /\ Distinct(e.calls) /\ Distinct(e.deferred)
        BY <3>2, <4>1 DEF Careful, Once
      <4>3. \A j \in Ids : x.ran[j] <= 1
        BY <2>1, <2>3, <4>2
      <4>4. \A j \in IdsIn(x.calls) \ Begun(x) : x.ran[j] = 0
        BY <2>1, <2>2, <2>3, <4>1, <4>2
      <4>5. \A j \in IdsIn(x.deferred) : x.ran[j] = 0
        BY <2>1, <2>2, <2>3, <4>2
      <4> QED BY <2>2, <4>2, <4>3, <4>4, <4>5 DEF Once, ToolPhases
    <3> QED BY <3>1, <3>2
  <2> QED BY <2>4, <2>6, <2>7 DEF Careful
<1> QED BY <1>2, <1>3, <1>4

LEMMA DecidedKeeps ==
    ASSUME NEW e, Has(e), NEW call, NEW decision
    PROVE  LET r == DecidedOn(e, call, decision)
           IN  /\ Keeps(r, e, {"entries", "granted"}) /\ e.granted \subseteq r.granted
               /\ decision = "approve" => call.id \in r.granted
<1> DEFINE m == Marked(e, Marker(call.id, MarkerPhase[decision], 0), e.new, Len(e.history))
<1>1. Keeps(m, e, {"entries"})
  BY MarkedKeeps
<1>2. DecidedOn(e, call, decision) =
        [m EXCEPT !.approvals = Without(@, {call.id}),
                  !.pending = IF decision = "defer" THEN {call.id} ELSE @ \ {call.id},
                  !.granted = IF decision = "approve" THEN @ \cup {call.id} ELSE @]
  BY Zenon DEF DecidedOn
<1> HIDE DEF m
<1> DEFINE q == [m EXCEPT !.approvals = Without(@, {call.id}),
                  !.pending = IF decision = "defer" THEN {call.id} ELSE @ \ {call.id},
                  !.granted = IF decision = "approve" THEN @ \cup {call.id} ELSE @]
<1>3. Keeps(q, m, {"granted"})
      /\ q.granted = IF decision = "approve" THEN m.granted \cup {call.id} ELSE m.granted
  BY <1>1 DEF Keeps, Has, Fields
<1>4. m.granted = e.granted
  BY <1>1 DEF Keeps, Fields
<1> HIDE DEF q
<1>5. Keeps(q, e, {"entries", "granted"})
  BY <1>1, <1>3 DEF Keeps
<1>6. DecidedOn(e, call, decision) = q
  BY <1>2 DEF q
<1>7. e.granted \subseteq q.granted /\ (decision = "approve" => call.id \in q.granted)
  BY <1>3, <1>4
<1> QED BY <1>5, <1>6, <1>7

LEMMA TailList ==
    ASSUME NEW calls, CallList(calls), calls # <<>>
    PROVE  /\ CallList(Tail(calls))
           /\ \A cfg : Gated(cfg, calls) => Gated(cfg, Tail(calls))
           /\ Distinct(calls) => /\ Distinct(Tail(calls))
                                 /\ IdsIn(Tail(calls)) = IdsIn(calls) \ {calls[1].id}
<1>1. /\ calls \in Seq(CallRecord) /\ Tail(calls) \in Seq(CallRecord)
      /\ Len(Tail(calls)) = Len(calls) - 1 /\ Len(calls) \in Nat /\ Len(calls) > 0
      /\ \A k \in 1..Len(calls) - 1 : Tail(calls)[k] = calls[k + 1]
  BY DEF CallList
<1>2. DOMAIN calls = 1..Len(calls) /\ DOMAIN Tail(calls) = 1..Len(calls) - 1
  BY <1>1
<1> DEFINE t == Tail(calls)
<1> HIDE DEF t
<1>3. /\ DOMAIN t = 1..Len(calls) - 1 /\ \A k \in DOMAIN t : t[k] = calls[k + 1] /\ k + 1 \in DOMAIN calls
  BY <1>1, <1>2 DEF t
<1>4. Distinct(calls) => Distinct(t)
  <2> SUFFICES ASSUME Distinct(calls), NEW j \in DOMAIN t, NEW k \in DOMAIN t, t[j].id = t[k].id PROVE j = k
    BY DEF Distinct
  <2>1. j + 1 = k + 1
    BY <1>3 DEF Distinct
  <2> QED BY <2>1, <1>3
<1>5. ASSUME Distinct(calls) PROVE IdsIn(t) = IdsIn(calls) \ {calls[1].id}
  <2>1. \A k \in DOMAIN t : calls[k + 1].id # calls[1].id
    <3> SUFFICES ASSUME NEW k \in DOMAIN t, calls[k + 1].id = calls[1].id PROVE FALSE
      OBVIOUS
    <3>1. 1 \in DOMAIN calls /\ k + 1 \in DOMAIN calls
      BY <1>1, <1>2, <1>3
    <3>2. k + 1 = 1
      BY <3>1, <1>5 DEF Distinct
    <3> QED BY <3>2, <1>3, <1>1
  <2>2. \A i \in DOMAIN calls : i = 1 \/ (i - 1 \in DOMAIN t /\ t[i - 1] = calls[i])
    BY <1>1, <1>2, <1>3
  <2> QED BY <1>3, <2>1, <2>2 DEF IdsIn
<1>6. \A cfg : Gated(cfg, calls) => Gated(cfg, t)
  BY <1>3 DEF Gated
<1> QED BY <1>1, <1>4, <1>5, <1>6 DEF CallList, t

LEMMA ToolCareful ==
    ASSUME Careful(eng), eng.phase = "tools", eng.calls # <<>>, NEW decision, Tool(decision)
    PROVE  CarefulInv'
<1> DEFINE call == eng.calls[1]
<1>1. /\ Has(eng) /\ CallList(eng.calls) /\ Head(eng.calls) = call /\ eng.running = {}
      /\ IdsIn(eng.calls) \subseteq Ids /\ call.id \in Ids
  <2>1. call \in CallRecord
    BY HasCareful, NoIds
  <2> QED BY <2>1, HasCareful, NoIds DEF Careful, Guarded, CallRecord
<1> DEFINE e == DecidedOn(eng, call, decision)
<1>2. /\ Keeps(e, eng, {"entries", "granted"}) /\ eng.granted \subseteq e.granted
      /\ decision = "approve" => call.id \in e.granted
  BY <1>1, DecidedKeeps
<1>3. \/ eng' = finish_tool(eng, call.id, "error")
      \/ eng' = Runs(eng) /\ ~NeedsApproval(eng, call)
      \/ Ends(publish_committed(e), "paused")
      \/ eng' = Runs(e) /\ decision = "approve"
      \/ eng' = Denied(e, call.id)
  BY <1>1, Zenon DEF Tool, Continues
<1> HIDE DEF e
<1>4. Careful(e) /\ e.phase = "tools" /\ e.calls = eng.calls /\ e.running = {} /\ Has(e)
  <2>1. Keeps(e, eng, Loose \cup {"granted"})
    BY <1>2, KeepsMore DEF Loose
  <2>2. Careful(e)
    BY <2>1, <1>2, SameCareful
  <2> QED BY <1>1, <1>2, <2>2 DEF Keeps, Fields
<1>5. CASE eng' = finish_tool(eng, call.id, "error")
  <2> DEFINE r == finish_tool(eng, call.id, "error")
  <2>1. /\ Keeps(r, eng, {"history", "spills", "calls", "toolFinal", "running"})
        /\ r.running = eng.running \ {call.id}
    <3> HIDE DEF call
    <3> QED BY <1>1, FinishKeeps
  <2>2. r.calls = CallsOf(eng.calls, Ids \ {call.id})
    <3> HIDE DEF call
    <3> QED BY <1>1, FinishCalls, Zenon
  <2> HIDE DEF r
  <2>3. /\ CallList(r.calls) /\ IdsIn(r.calls) = IdsIn(eng.calls) \ {call.id}
        /\ Gated(eng.cfg, eng.calls) => Gated(eng.cfg, r.calls)
        /\ Distinct(eng.calls) => Distinct(r.calls)
    <3>1. /\ CallList(r.calls) /\ IdsIn(r.calls) = IdsIn(eng.calls) \cap (Ids \ {call.id})
          /\ Gated(eng.cfg, eng.calls) => Gated(eng.cfg, r.calls)
          /\ Distinct(eng.calls) => Distinct(r.calls)
      <4> HIDE DEF call
      <4> QED BY <1>1, <2>2, CallsOfIds
    <3> QED BY <3>1, <1>1
  <2>4. r.phase = "tools" /\ r.running = {}
    BY <2>1, <1>1 DEF Keeps, Fields
  <2>5. Keeps(r, eng, Loose \cup {"calls", "running", "phase"})
    BY <2>1, KeepsMore DEF Loose
  <2>6. Careful(r)
    <3> HIDE DEF call
    <3> QED BY <2>3, <2>4, <2>5, DropCareful
  <2> QED BY <1>5, <2>6 DEF CarefulInv, r
<1>6. CASE eng' = Runs(eng) /\ ~NeedsApproval(eng, call)
  BY <1>6, RunsCareful DEF CarefulInv
<1>7. CASE Ends(publish_committed(e), "paused")
  <2> DEFINE r == publish_committed(e)
  <2>1. Keeps(r, e, {})
    BY <1>4, PublishKeeps
  <2> HIDE DEF r
  <2>2. Keeps(r, e, Loose \cup {"granted"}) /\ r.granted = e.granted /\ r.phase = "tools"
    BY <2>1, <1>4, KeepsMore DEF Keeps, Fields
  <2>3. Careful(r)
    BY <1>4, <2>2, SameCareful
  <2> QED BY <1>7, <2>2, <2>3, EndsCareful DEF r
<1>8. CASE eng' = Runs(e) /\ decision = "approve"
  <2>1. NeedsApproval(e, e.calls[1]) => e.calls[1].id \in e.granted
    BY <1>2, <1>4, <1>8
  <2>2. Careful(Runs(e))
    BY <1>4, <2>1, RunsCareful
  <2> QED BY <1>8, <2>2 DEF CarefulInv
<1>9. CASE eng' = Denied(e, call.id)
  <2> DEFINE item == Item("result", call.id, "text", 0)
             a == append(e, item)
             r == [a EXCEPT !.calls = Tail(@), !.toolTurn = IF @ = None THEN @ ELSE Append(@, TRUE)]
  <2>1. Denied(e, call.id) = r
    BY Zenon DEF Denied
  <2>2. Keeps(a, e, {"history"})
    BY <1>4, AppendKeeps
  <2> HIDE DEF a
  <2>3. Keeps(r, a, {"calls"}) /\ r.calls = Tail(a.calls)
    BY <2>2 DEF Keeps, Has, Fields
  <2>4. a.calls = e.calls /\ a.phase = "tools" /\ a.running = {}
    BY <2>2, <1>4 DEF Keeps, Fields
  <2> HIDE DEF r
  <2>5. r.phase = "tools" /\ r.running = {}
    BY <2>3, <2>4 DEF Keeps, Fields
  <2>6. Keeps(r, e, {"history", "calls"})
    BY <2>2, <2>3 DEF Keeps
  <2>7. Keeps(r, e, Loose \cup {"calls", "running", "phase"})
    BY <2>6, KeepsMore DEF Loose
  <2>8. /\ CallList(r.calls) /\ (Gated(e.cfg, e.calls) => Gated(e.cfg, r.calls))
        /\ Distinct(e.calls) => Distinct(r.calls) /\ IdsIn(r.calls) = IdsIn(e.calls) \ {call.id}
    BY <1>1, <1>4, <2>3, <2>4, TailList
  <2>9. Careful(r)
    <3> HIDE DEF call
    <3> QED BY <1>4, <2>5, <2>7, <2>8, DropCareful
  <2> QED BY <1>9, <2>1, <2>9 DEF CarefulInv
<1> QED BY <1>3, <1>5, <1>6, <1>7, <1>8, <1>9

LEMMA ToolAloneCareful ==
    ASSUME CarefulInv, ToolAlone
    PROVE  CarefulInv'
<1>1. Careful(eng) /\ eng.phase = "tools" /\ eng.calls # <<>>
  BY Present DEF ToolAlone, At, Active
<1>2. \E decision : Tool(decision)
  BY Zenon DEF ToolAlone
<1> QED BY <1>1, <1>2, ToolCareful

LEMMA GoGateCareful ==
    ASSUME CarefulInv, GoGate
    PROVE  CarefulInv'
<1>1. Careful(eng) /\ eng.phase = "tools" /\ eng.calls # <<>>
  BY Present DEF GoGate, At, Active
<1>2. Failed(eng) \/ \E decision : Tool(decision)
  BY Zenon DEF GoGate
<1> QED BY <1>1, <1>2, ToolCareful, FailedCareful

LEMMA GoGateEndsCareful ==
    ASSUME CarefulInv, GoGateEnds
    PROVE  CarefulInv'
<1>1. Careful(eng) /\ Has(eng)
  BY Present DEF GoGateEnds, Active
<1>2. Keeps(eng', eng, {"toolFinal"})
  BY <1>1 DEF GoGateEnds, Continues, Keeps, Has, Fields
<1>3. Keeps(eng', eng, Loose \cup {"granted"}) /\ eng.granted = eng'.granted
  BY <1>2, KeepsMore DEF Loose, Keeps, Fields
<1> QED BY <1>1, <1>3, SameCareful DEF CarefulInv

LEMMA ToolReturnsCareful ==
    ASSUME CarefulInv, ToolReturns
    PROVE  CarefulInv'
<1> DEFINE call == eng.calls[1]
<1>1. /\ Careful(eng) /\ Has(eng) /\ eng.phase = "executing" /\ CallList(eng.calls)
      /\ eng.running = {call.id} /\ Head(eng.calls) = call /\ IdsIn(eng.calls) \subseteq Ids
  <2>1. Careful(eng) /\ Has(eng) /\ eng.phase = "executing"
    BY Present DEF ToolReturns, At, Active
  <2>2. eng.calls # <<>> /\ eng.running = {call.id}
    BY <2>1 DEF Careful, Guarded
  <2> QED BY <2>1, <2>2, HasCareful, NoIds
<1> HIDE DEF call
<1>2. PICK out \in eng.cfg.outputs :
        LET e == [Hears(finish_tool(eng, call.id, out), Reported(call.tool, out)) EXCEPT
                    !.phase = "tools"]
        IN  Ends(e, "failed") \/ eng' = e
  BY <1>1, Zenon DEF ToolReturns
<1> DEFINE f == finish_tool(eng, call.id, out)
           h == Hears(f, Reported(call.tool, out))
           r == [h EXCEPT !.phase = "tools"]
<1>3. /\ Keeps(f, eng, {"history", "spills", "calls", "toolFinal", "running"})
      /\ f.running = eng.running \ {call.id}
  BY <1>1, FinishKeeps
<1>4. f.calls = CallsOf(eng.calls, Ids \ {call.id})
  BY <1>1, FinishCalls, Zenon
<1>5. Ends(r, "failed") \/ eng' = r
  BY <1>2, Zenon
<1> HIDE DEF f
<1>6. Keeps(h, f, {"told"})
  <2>1. Has(f)
    BY <1>3 DEF Keeps
  <2>2. \A ids : Keeps(Hears(f, ids), f, {"told"})
    BY <2>1, HearsKeeps
  <2> QED BY <2>2, Zenon
<1> HIDE DEF h
<1>7. Keeps(r, h, {"phase"}) /\ r.phase = "tools"
  BY <1>6 DEF Keeps, Has, Fields
<1> HIDE DEF r
<1>8. Keeps(r, eng, Loose \cup {"calls", "running", "phase"})
  <2> DEFINE B == Loose \cup {"calls", "running", "phase"}
  <2>1. Keeps(r, h, B) /\ Keeps(h, f, B) /\ Keeps(f, eng, B)
    BY <1>3, <1>6, <1>7, KeepsMore DEF Loose
  <2> HIDE DEF B
  <2>2. Keeps(r, eng, B)
    BY <2>1, KeepsTwice
  <2> QED BY <2>2 DEF B
<1>9. r.running = {} /\ r.calls = f.calls
  BY <1>1, <1>3, <1>6, <1>7 DEF Keeps, Fields
<1>10. /\ CallList(r.calls) /\ IdsIn(r.calls) = IdsIn(eng.calls) \ {call.id}
       /\ Gated(eng.cfg, eng.calls) => Gated(eng.cfg, r.calls)
       /\ Distinct(eng.calls) => Distinct(r.calls)
  <2>1. /\ CallList(r.calls) /\ IdsIn(r.calls) = IdsIn(eng.calls) \cap (Ids \ {call.id})
        /\ Gated(eng.cfg, eng.calls) => Gated(eng.cfg, r.calls)
        /\ Distinct(eng.calls) => Distinct(r.calls)
    BY <1>1, <1>4, <1>9, CallsOfIds
  <2> QED BY <2>1, <1>1
<1>11. Careful(r)
  BY <1>1, <1>7, <1>8, <1>9, <1>10, DropCareful
<1>12. CASE Ends(r, "failed")
  BY <1>12, EndsIdle DEF CarefulInv
<1> QED BY <1>5, <1>11, <1>12 DEF CarefulInv

LEMMA LeavesCareful ==
    ASSUME NEW e, NEW r, Careful(e), e.phase = "tools", e.calls = <<>>, e.deferred = <<>>,
           Keeps(r, e, Loose \cup {"phase"})
    PROVE  r.phase \notin {"executing", "batch"} => Careful(r)
<1> SUFFICES ASSUME r.phase \notin {"executing", "batch"} PROVE Careful(r)
  OBVIOUS
<1>1. /\ Has(r) /\ r.cfg = e.cfg /\ r.calls = <<>> /\ r.deferred = <<>> /\ r.running = {}
      /\ r.ran = e.ran /\ r.left = e.left
  BY DEF Keeps, Loose, Fields, Careful, Guarded
<1>2. Listed(r)
  BY <1>1 DEF Careful, Listed
<1>3. Guarded(r)
  BY <1>1 DEF Guarded
<1>4. Once(r)
  BY <1>1, EmptyList DEF Careful, Once
<1> QED BY <1>2, <1>3, <1>4 DEF Careful

LEMMA DeferringCareful ==
    ASSUME NEW e, Careful(e), e.phase = "tools", e.calls = <<>>
    PROVE  Careful(Deferring(e)) /\ Deferring(e).phase = "tools"
<1> DEFINE r == Deferring(e)
<1>1. /\ Has(r) /\ r.phase = "tools" /\ r.cfg = e.cfg /\ r.calls = e.deferred /\ r.deferred = <<>>
      /\ r.running = e.running /\ r.ran = e.ran /\ r.left = e.left
  <2>1. Has(e)
    BY HasCareful
  <2> QED BY <2>1 DEF Deferring, Has, Fields
<1> HIDE DEF r
<1>2. Listed(r)
  BY <1>1, EmptyList DEF Careful, Listed, ToolPhases
<1>3. Guarded(r)
  BY <1>1 DEF Careful, Guarded
<1>4. Once(r)
  BY <1>1, EmptyList DEF Careful, Once, ToolPhases
<1> QED BY <1>1, <1>2, <1>3, <1>4 DEF Careful, r

LEMMA ToolsDoneCareful ==
    ASSUME CarefulInv, ToolsDone
    PROVE  CarefulInv'
<1>1. Careful(eng) /\ Has(eng) /\ eng.phase = "tools" /\ eng.calls = <<>>
  BY Present DEF ToolsDone, At, Active
<1> DEFINE s == settle_tool_turn(eng)
           p == [s EXCEPT !.phase = "model", !.toolPause = FALSE]
           next == CASE ~StopsHere(eng) -> "model"
                     [] StopsHere(eng) /\ Supervised(eng) -> "candidate"
                     [] OTHER -> "finish"
           r == [s EXCEPT !.toolFinal = @ /\ ~StopsHere(eng), !.phase = next]
<1>2. \/ Ends(publish_committed(Deferring(s)), "paused")
      \/ eng.deferred = <<>> /\ Ends(publish_committed(p), "paused")
      \/ eng.deferred = <<>> /\ eng' = r
  BY Zenon DEF ToolsDone, Continues
<1>3. Keeps(s, eng, {"history"})
  BY <1>1, SettleKeeps
<1>4. next \in {"model", "candidate", "finish"}
  BY Zenon
<1> HIDE DEF s, next
<1>5. Careful(s) /\ s.phase = "tools" /\ s.calls = <<>> /\ s.deferred = eng.deferred /\ Has(s)
  <2>1. Keeps(s, eng, Loose \cup {"granted"}) /\ s.granted = eng.granted
    BY <1>3, KeepsMore DEF Loose, Keeps, Fields
  <2> QED BY <1>1, <1>3, <2>1, SameCareful DEF Keeps, Fields
<1>6. ASSUME NEW d, Careful(d), d.phase \notin {"executing", "batch"}, Ends(publish_committed(d), "paused")
      PROVE  CarefulInv'
  <2> DEFINE q == publish_committed(d)
  <2>1. Keeps(q, d, {})
    BY <1>6, HasCareful, PublishKeeps
  <2> HIDE DEF q
  <2>2. Keeps(q, d, Loose \cup {"granted"}) /\ q.granted = d.granted /\ q.phase = d.phase
    BY <2>1, KeepsMore DEF Keeps, Fields
  <2>3. Careful(q)
    BY <1>6, <2>2, SameCareful
  <2> QED BY <1>6, <2>2, <2>3, EndsCareful DEF q
<1>7. CASE Ends(publish_committed(Deferring(s)), "paused")
  <2>1. Careful(Deferring(s)) /\ Deferring(s).phase = "tools"
    BY <1>5, DeferringCareful
  <2> QED BY <1>6, <1>7, <2>1
<1>8. CASE eng.deferred = <<>> /\ Ends(publish_committed(p), "paused")
  <2>1. Keeps(p, s, {"phase"}) /\ p.phase = "model"
    BY <1>5 DEF Keeps, Has, Fields
  <2> HIDE DEF p
  <2>2. Keeps(p, s, Loose \cup {"phase"})
    BY <2>1, KeepsMore
  <2>3. Careful(p)
    BY <1>5, <1>8, <2>1, <2>2, LeavesCareful
  <2> QED BY <1>6, <1>8, <2>1, <2>3
<1>9. CASE eng.deferred = <<>> /\ eng' = r
  <2>1. Keeps(r, s, {"phase", "toolFinal"}) /\ r.phase = next
    BY <1>5 DEF Keeps, Has, Fields
  <2> HIDE DEF r
  <2>2. Keeps(r, s, Loose \cup {"phase"})
    BY <2>1, KeepsMore DEF Loose
  <2>3. Careful(r)
    BY <1>4, <1>5, <1>9, <2>1, <2>2, LeavesCareful
  <2> QED BY <1>9, <2>3 DEF CarefulInv
<1> QED BY <1>2, <1>7, <1>8, <1>9

--------------------------------------------------------------------------------
(* The end of a run, and its owner.                                        *)
LEMMA ToldKeeps ==
    ASSUME NEW e, Has(e), NEW n
    PROVE  Keeps(Told(e, n), e, {"history"}) /\ Told(e, n).history = e.history \o Users(n)
<1>1. Told(e, n) = AppendAll(e, Users(n))
  BY Zenon DEF Told, Users
<1> QED BY <1>1, AppendAllKeeps

LEMMA AnsweredKeeps ==
    ASSUME NEW e, Has(e), NEW n
    PROVE  LET r == [publish_committed(Told(e, n)) EXCEPT !.phase = "model"]
           IN  /\ Keeps(r, e, {"history", "phase"}) /\ r.phase = "model"
               /\ r.history = e.history \o Users(n)
<1> DEFINE t == Told(e, n)
           p == publish_committed(t)
           r == [p EXCEPT !.phase = "model"]
<1>1. Keeps(t, e, {"history"}) /\ t.history = e.history \o Users(n)
  BY ToldKeeps
<1> HIDE DEF t
<1>2. Keeps(p, t, {})
  BY <1>1, PublishKeeps DEF Keeps
<1>3. p.history = t.history
  BY <1>2 DEF Keeps, Fields
<1> HIDE DEF p
<1>4. Keeps(r, p, {"phase"}) /\ r.phase = "model"
  BY <1>2 DEF Keeps, Has, Fields
<1>5. r.history = p.history
  BY <1>4 DEF Keeps, Fields
<1> HIDE DEF r
<1>6. Keeps(r, e, {"history", "phase"})
  BY <1>1, <1>2, <1>4 DEF Keeps
<1>7. [publish_committed(Told(e, n)) EXCEPT !.phase = "model"] = r
  BY DEF r, p, t
<1> QED BY <1>1, <1>3, <1>4, <1>5, <1>6, <1>7

LEMMA ExtendedKeeps ==
    ASSUME NEW e, Has(e)
    PROVE  /\ Keeps(Extended(e), e, {"phase"}) /\ Extended(e).phase = "model"
           /\ Keeps(Blocked(e), e, {"phase", "history"}) /\ Blocked(e).phase = "model"
           /\ Blocked(e).history = Append(e.history, Message("note"))
<1>1. \A d : Has(d) => Keeps(Extended(d), d, {"phase"}) /\ Extended(d).phase = "model"
  BY DEF Extended, Keeps, Has, Fields
<1> DEFINE d == [e EXCEPT !.blocks = @ + 1]
           x == Extended(d)
           b == append(x, Message("note"))
<1>2. Keeps(d, e, {}) /\ d.history = e.history
  BY DEF Keeps, Has, Fields
<1> HIDE DEF d
<1>3. Keeps(x, d, {"phase"}) /\ x.phase = "model"
  BY <1>1, <1>2 DEF Keeps
<1>4. x.history = d.history
  BY <1>3 DEF Keeps, Fields
<1> HIDE DEF x
<1>5. Keeps(b, x, {"history"}) /\ b.history = Append(x.history, Message("note"))
  BY <1>3, AppendKeeps DEF Keeps
<1>6. b.phase = x.phase
  BY <1>5 DEF Keeps, Fields
<1> HIDE DEF b
<1>7. Keeps(b, e, {"phase", "history"})
  BY <1>2, <1>3, <1>5 DEF Keeps
<1>8. Blocked(e) = b
  BY Zenon DEF Blocked, b, x, d
<1> QED BY <1>1, <1>2, <1>3, <1>4, <1>5, <1>6, <1>7, <1>8

LEMMA CandidateCareful ==
    ASSUME CarefulInv, finish_candidate
    PROVE  CarefulInv'
<1>1. Careful(eng) /\ Has(eng) /\ eng.phase = "candidate"
  BY Present DEF finish_candidate, At, Active
<1> DEFINE closing == [eng EXCEPT !.phase = "closing",
                                  !.blocks = IF eng.cfg.gate /\ @ < MaxBlocks THEN 0 ELSE @]
<1>2. \/ Failed(eng)
      \/ eng' = [publish_committed(Told(eng, env.inbox)) EXCEPT !.phase = "model"]
      \/ eng' = [eng EXCEPT !.phase = "joining"]
      \/ eng' = Blocked(eng)
      \/ eng' = closing
  BY Zenon DEF finish_candidate, Continues
<1>3. Failed(eng) \/ (/\ Keeps(eng', eng, {"history", "phase"})
                      /\ eng'.phase \in {"model", "joining", "closing"})
  <2>1. CASE eng' = [publish_committed(Told(eng, env.inbox)) EXCEPT !.phase = "model"]
    BY <1>1, <2>1, AnsweredKeeps
  <2>2. CASE eng' = [eng EXCEPT !.phase = "joining"]
    BY <1>1, <2>2 DEF Keeps, Has, Fields
  <2>3. CASE eng' = Blocked(eng)
    BY <1>1, <2>3, ExtendedKeeps DEF Keeps
  <2>4. CASE eng' = closing
    BY <1>1, <2>4 DEF Keeps, Has, Fields
  <2> QED BY <1>2, <2>1, <2>2, <2>3, <2>4
<1>4. CASE Failed(eng)
  BY <1>4, FailedCareful
<1>5. CASE Keeps(eng', eng, {"history", "phase"}) /\ eng'.phase \in {"model", "joining", "closing"}
  <2>1. Keeps(eng', eng, Loose \cup {"phase"})
    BY <1>5, KeepsMore DEF Loose
  <2> QED BY <1>1, <1>5, <2>1, StepMoves DEF ToolPhases
<1> QED BY <1>3, <1>4, <1>5

LEMMA JoinsCareful ==
    ASSUME CarefulInv, Joins
    PROVE  CarefulInv'
<1>1. Careful(eng) /\ Has(eng) /\ eng.phase = "joining"
  BY Present DEF Joins, At, Active
<1> DEFINE x == Extended(eng)
<1>2. Keeps(x, eng, {"phase"}) /\ x.phase = "model"
  BY <1>1, ExtendedKeeps
<1>3. eng' = Collected(x)
  BY Zenon DEF Joins
<1> HIDE DEF x
<1>4. Keeps(eng', x, {"history", "told"})
  BY <1>2, <1>3, CollectedKeeps DEF Keeps
<1>5. eng'.phase = "model"
  BY <1>2, <1>4 DEF Keeps, Fields
<1>6. Keeps(eng', eng, Loose \cup {"phase"})
  BY <1>2, <1>4 DEF Keeps, Loose
<1> QED BY <1>1, <1>5, <1>6, StepMoves DEF ToolPhases

LEMMA ClosingCareful ==
    ASSUME CarefulInv, Closing
    PROVE  CarefulInv'
<1>1. Careful(eng) /\ Has(eng) /\ eng.phase = "closing"
  BY Present DEF Closing, At, Active
<1>2. \/ eng' = [publish_committed(Told(eng, env.inbox)) EXCEPT !.phase = "model"]
      \/ eng' = [eng EXCEPT !.phase = "finish"]
  BY Zenon DEF Closing, Closes
<1>3. Keeps(eng', eng, {"history", "phase"}) /\ eng'.phase \in {"model", "finish"}
  <2>1. CASE eng' = [publish_committed(Told(eng, env.inbox)) EXCEPT !.phase = "model"]
    BY <1>1, <2>1, AnsweredKeeps
  <2>2. CASE eng' = [eng EXCEPT !.phase = "finish"]
    BY <1>1, <2>2 DEF Keeps, Has, Fields
  <2> QED BY <1>2, <2>1, <2>2
<1>4. Keeps(eng', eng, Loose \cup {"phase"})
  BY <1>3, KeepsMore DEF Loose
<1> QED BY <1>1, <1>3, <1>4, StepMoves DEF ToolPhases

LEMMA OwnerCareful ==
    ASSUME CarefulInv,
           \/ ConversationRun \/ HostRun \/ Accept \/ Resume \/ ResumeInvalid \/ ResumeGoGate
           \/ Dropped \/ Fails \/ Steer \/ ChildDone \/ Reconcile \/ Finish \/ StreamBreaks
    PROVE  CarefulInv'
<1>1. CASE ConversationRun \/ HostRun
  <2>1. PICK cfg \in Configs : \E history : eng' = NewEngine(cfg, history)
    BY <1>1, Zenon DEF ConversationRun, HostRun, Begins
  <2> QED BY <2>1, NewCareful DEF CarefulInv
<1>2. CASE Accept \/ Steer \/ ChildDone \/ Reconcile
  <2>1. eng' = eng
    BY <1>2 DEF Accept, Steer, ChildDone, Reconcile
  <2> QED BY <2>1 DEF CarefulInv
<1>3. CASE ResumeInvalid \/ Dropped \/ Fails \/ Finish \/ StreamBreaks
  <2>1. eng' = Idle \/ \E e : Ends(e, "failed") \/ Ends(e, "completed")
    BY <1>3, Zenon DEF ResumeInvalid, Dropped, Fails, Finish, StreamBreaks, Failed
  <2>2. eng' = Idle
    BY <2>1, EndsIdle
  <2> QED BY <2>2 DEF CarefulInv
<1>4. CASE Resume \/ ResumeGoGate
  <2>1. Careful(eng) /\ Has(eng)
    BY <1>4, Present DEF Resume, ResumeGoGate
  <2>2. CASE Failed(eng)
    BY <2>2, FailedCareful
  <2>3. CASE Resume
    <3>1. PICK decisions \in [eng.pending -> {"approve", "deny", "defer"}], stream \in BOOLEAN :
            eng' = [eng EXCEPT !.paused = FALSE, !.resumed = TRUE, !.stream = stream,
                               !.approvals = decisions, !.prepared = FALSE, !.resumes = @ + 1,
                               !.granted = @ \cup {id \in eng.pending : decisions[id] = "approve"}]
      BY <2>3, Zenon DEF Resume
    <3>2. Keeps(eng', eng, {"paused", "resumed", "granted"}) /\ eng.granted \subseteq eng'.granted
      BY <2>1, <3>1 DEF Keeps, Has, Fields
    <3>3. Keeps(eng', eng, Loose \cup {"granted"})
      BY <3>2, KeepsMore DEF Loose
    <3> QED BY <2>1, <3>2, <3>3, SameCareful DEF CarefulInv
  <2>4. CASE eng' = [eng EXCEPT !.paused = FALSE, !.resumed = TRUE, !.stream = FALSE,
                                !.prepared = TRUE, !.go = TRUE, !.resumes = @ + 1]
    <3>1. Keeps(eng', eng, {"paused", "resumed"}) /\ eng.granted = eng'.granted
      BY <2>1, <2>4 DEF Keeps, Has, Fields
    <3>2. Keeps(eng', eng, Loose \cup {"granted"})
      BY <3>1, KeepsMore DEF Loose
    <3> QED BY <2>1, <3>1, <3>2, SameCareful DEF CarefulInv
  <2> QED BY <1>4, <2>2, <2>3, <2>4, Zenon DEF ResumeGoGate
<1> QED BY <1>1, <1>2, <1>3, <1>4

LEMMA NextCareful ==
    ASSUME CarefulInv, [Next]_vars
    PROVE  CarefulInv'
<1>1. CASE UNCHANGED vars
  BY <1>1 DEF vars, CarefulInv
<1>2. CASE Step
  BY <1>2, StartCareful, ModelTurnCareful, AttemptCareful, WaitingCareful, OwnerCareful,
     ErrorCareful, RepliesCareful, PrepareCareful, ToBatchCareful, BatchStartsCareful,
     BatchReturnsCareful, BatchEndsCareful, ToolAloneCareful, GoGateCareful, GoGateEndsCareful,
     ToolReturnsCareful, ToolsDoneCareful, CandidateCareful, JoinsCareful, ClosingCareful,
     Zenon DEF Step
<1>3. CASE Next /\ ~Step
  BY <1>3, OwnerCareful, Zenon DEF Next
<1> QED BY <1>1, <1>2, <1>3

(* Whatever a provider answers and a host decides, for any configurations, *)
(* bounds and number of calls: what runs alone runs alone, what needs an   *)
(* approval has one, and nothing runs twice unless a handoff has left      *)
(* deferred calls behind (parallel_batch_ready, tool_batch, tool and       *)
(* finish_tool).                                                           *)
THEOREM ToolsAreSafe == Spec => []ToolsSafe
<1>1. Init => CarefulInv
  BY DEF Init, CarefulInv
<1>2. CarefulInv /\ [Next]_vars => CarefulInv'
  BY NextCareful
<1>3. CarefulInv => ToolsSafe
  <2> SUFFICES ASSUME CarefulInv, Active PROVE
         /\ eng.left \/ \A id \in Ids : eng.ran[id] <= 1
         /\ \A id \in eng.running :
              /\ \A c \in Range(eng.calls) :
                    c.id = id /\ NeedsApproval(eng, c) => id \in eng.granted
              /\ ToolOf(eng, id) # "read" => eng.running = {id}
    BY DEF ToolsSafe
  <2>1. Careful(eng) /\ CallList(eng.calls)
    BY Present, HasCareful DEF Active
  <2>2. eng.left \/ \A id \in Ids : eng.ran[id] <= 1
    BY <2>1 DEF Careful, Once
  <2>3. ASSUME NEW id \in eng.running, NEW c \in Range(eng.calls), c.id = id, NeedsApproval(eng, c)
        PROVE  id \in eng.granted
    <3>1. PICK k \in DOMAIN eng.calls : c = eng.calls[k]
      BY DEF Range
    <3>2. CASE eng.phase = "batch"
      BY <2>1, <2>3, <3>1, <3>2 DEF Careful, Guarded, parallel_batch_ready
    <3>3. CASE eng.phase = "executing"
      <4>1. eng.calls # <<>> /\ id = eng.calls[1].id
            /\ (NeedsApproval(eng, eng.calls[1]) => eng.calls[1].id \in eng.granted)
        BY <2>1, <3>3 DEF Careful, Guarded
      <4>2. 1 \in DOMAIN eng.calls
        BY <2>1, <4>1, NoIds
      <4>3. CASE Distinct(eng.calls)
        <5>1. k = 1
          BY <2>3, <3>1, <4>1, <4>2, <4>3 DEF Distinct
        <5> QED BY <2>3, <3>1, <4>1, <5>1
      <4>4. CASE Gated(eng.cfg, eng.calls)
        <5>1. NeedsApproval(eng, eng.calls[1])
          BY <4>2, <4>4 DEF Gated, NeedsApproval
        <5> QED BY <4>1, <5>1
      <4> QED BY <2>1, <4>3, <4>4 DEF Careful, Listed
    <3> QED BY <2>1, <3>2, <3>3 DEF Careful, Guarded
  <2>4. ASSUME NEW id \in eng.running, ToolOf(eng, id) # "read"
        PROVE  eng.running = {id}
    BY <2>1, <2>4 DEF Careful, Guarded
  <2> QED BY <2>2, <2>3, <2>4
<1> QED BY <1>1, <1>2, <1>3, PTL DEF Spec

--------------------------------------------------------------------------------
(* What compaction makes of the items of a history: it adds summaries, and *)
(* takes everything else from what it was given.                           *)
Stock(T) == /\ \A x \in T : Estimate(x) \in Nat
            /\ \A n \in Nat : Item("summary", 0, "text", n) \in T

Sums(s, f, S) == f = [n \in S |-> IF n = 0 THEN 0 ELSE f[n - 1] + Estimate(s[n])]

LEMMA SumsAt ==
    ASSUME NEW s, NEW S, NEW f, Sums(s, f, S), NEW n \in S
    PROVE  f[n] = IF n = 0 THEN 0 ELSE f[n - 1] + Estimate(s[n])
<1> DEFINE g == [m \in S |-> IF m = 0 THEN 0 ELSE f[m - 1] + Estimate(s[m])]
<1>1. f = g
  BY Zenon DEF Sums
<1>2. g[n] = IF n = 0 THEN 0 ELSE f[n - 1] + Estimate(s[n])
  OBVIOUS
<1> QED BY <1>1, <1>2, Zenon

LEMMA SumsTo ==
    ASSUME NEW s, NEW k \in Nat
    PROVE  \E f : Sums(s, f, 0..k)
<1> DEFINE T == {n \in Nat : \E f : Sums(s, f, 0..n)}
<1>1. 0 \in T
  <2> DEFINE f == [i \in 0..0 |-> 0]
             h == [i \in 0..0 |-> IF i = 0 THEN 0 ELSE f[i - 1] + Estimate(s[i])]
  <2>1. \A i \in 0..0 : f[i] = h[i]
    OBVIOUS
  <2>2. f = [i \in 0..0 |-> f[i]] /\ h = [i \in 0..0 |-> h[i]]
    OBVIOUS
  <2>3. f = h
    <3> HIDE DEF f, h
    <3> QED BY <2>1, <2>2, Zenon
  <2>4. Sums(s, f, 0..0)
    <3> HIDE DEF f
    <3> QED BY <2>3 DEF Sums
  <2> QED BY <2>4
<1>2. ASSUME NEW n \in Nat, n \in T PROVE n + 1 \in T
  <2>1. PICK f : Sums(s, f, 0..n)
    BY <1>2
  <2> DEFINE g == [i \in 0..n + 1 |-> IF i = n + 1 THEN f[n] + Estimate(s[i]) ELSE f[i]]
             h == [i \in 0..n + 1 |-> IF i = 0 THEN 0 ELSE g[i - 1] + Estimate(s[i])]
  <2>2. ASSUME NEW i \in 0..n + 1 PROVE g[i] = h[i]
    <3>1. CASE i = n + 1
      <4>1. g[i] = f[n] + Estimate(s[i]) /\ h[i] = g[i - 1] + Estimate(s[i])
        BY <3>1
      <4>2. g[i - 1] = f[n]
        BY <3>1
      <4> QED BY <4>1, <4>2, Zenon
    <3>2. CASE i # n + 1
      <4>1. i \in 0..n
        BY <3>2
      <4>2. g[i] = f[i] /\ h[i] = IF i = 0 THEN 0 ELSE g[i - 1] + Estimate(s[i])
        BY <3>2
      <4>3. f[i] = IF i = 0 THEN 0 ELSE f[i - 1] + Estimate(s[i])
        BY <4>1, <2>1, SumsAt
      <4>4. i # 0 => g[i - 1] = f[i - 1]
        BY <4>1
      <4> HIDE DEF g, h
      <4> QED BY <4>2, <4>3, <4>4, Zenon
    <3> QED BY <3>1, <3>2
  <2>3. g = h
    <3>1. g = [i \in 0..n + 1 |-> g[i]] /\ h = [i \in 0..n + 1 |-> h[i]]
      OBVIOUS
    <3> HIDE DEF g, h
    <3> QED BY <2>2, <3>1, Zenon
  <2>4. Sums(s, g, 0..n + 1)
    <3> HIDE DEF g
    <3> QED BY <2>3 DEF Sums
  <2> QED BY <2>4
<1>3. Nat \subseteq T
  <2> HIDE DEF T
  <2> QED BY <1>1, <1>2, EveryNatural
<1> QED BY <1>3

LEMMA EstimateType ==
    ASSUME NEW T, Stock(T), NEW s \in Seq(T)
    PROVE  estimate_mixed_tokens(s) \in Nat
<1> DEFINE L == Len(s)
           F == CHOOSE f : f = [n \in 0..L |-> IF n = 0 THEN 0 ELSE f[n - 1] + Estimate(s[n])]
<1>1. estimate_mixed_tokens(s) = F[L] /\ L \in Nat
  <2>1. L \in Nat
    OBVIOUS
  <2> QED BY <2>1, Zenon DEF estimate_mixed_tokens
<1>2. \E f : f = [n \in 0..L |-> IF n = 0 THEN 0 ELSE f[n - 1] + Estimate(s[n])]
  BY <1>1, SumsTo, Zenon DEF Sums
<1>3. F = [n \in 0..L |-> IF n = 0 THEN 0 ELSE F[n - 1] + Estimate(s[n])]
  <2> HIDE DEF L
  <2> QED BY <1>2, Zenon
<1>4. Sums(s, F, 0..L)
  <2> HIDE DEF F, L
  <2> QED BY <1>3, Zenon DEF Sums
<1> HIDE DEF F
<1>5. \A n \in 1..L : Estimate(s[n]) \in Nat
  BY DEF Stock
<1> DEFINE N == {n \in Nat : n <= L => F[n] \in Nat}
           D == 0..L
<1> HIDE DEF L
<1>6. \A n \in D : F[n] = IF n = 0 THEN 0 ELSE F[n - 1] + Estimate(s[n])
  <2> SUFFICES ASSUME NEW n \in D PROVE F[n] = IF n = 0 THEN 0 ELSE F[n - 1] + Estimate(s[n])
    OBVIOUS
  <2>1. Sums(s, F, D)
    BY <1>4
  <2> HIDE DEF D
  <2> QED BY <2>1, SumsAt
<1>7. 0 \in N
  <2>1. F[0] = 0
    BY <1>1, <1>6
  <2> QED BY <2>1
<1>8. ASSUME NEW n \in Nat, n \in N PROVE n + 1 \in N
  <2> SUFFICES ASSUME n + 1 <= L PROVE F[n + 1] \in Nat
    OBVIOUS
  <2>1. n + 1 \in 0..L /\ n + 1 \in 1..L /\ n + 1 # 0 /\ (n + 1) - 1 = n
    BY <1>1
  <2>2. F[n + 1] = F[(n + 1) - 1] + Estimate(s[n + 1])
    BY <1>6, <2>1
  <2> QED BY <1>1, <1>5, <1>8, <2>1, <2>2
<1>9. Nat \subseteq N
  <2> HIDE DEF N
  <2> QED BY <1>7, <1>8, EveryNatural
<1> QED BY <1>1, <1>9

(* A candidate.                                                            *)
LEMMA RemovedType ==
    ASSUME NEW T, NEW s \in Seq(T), NEW places
    PROVE  Pick(s, places) \in Seq(T)
<1> DEFINE U == {s[i] : i \in DOMAIN s \cap places}
<1>1. Pick(s, places) \in Seq(U)
  BY PickType
<1>2. U \subseteq T
  OBVIOUS
<1> HIDE DEF U
<1> QED BY <1>1, <1>2

LEMMA PiecesType ==
    ASSUME NEW T, NEW n \in Nat, NEW s, s = [i \in 1..n |-> s[i]], \A i \in 1..n : s[i] \in Seq(T)
    PROVE  FlattenSeq(s) \in Seq(T)
<1> DEFINE Q == Seq(T)
<1>1. \A i \in 1..n : s[i] \in Q
  OBVIOUS
<1> HIDE DEF Q
<1>2. s \in Seq(Q)
  BY <1>1
<1> QED BY <1>2, FlattenType DEF Q

LEMMA RebuildType ==
    ASSUME NEW T, Stock(T), NEW s \in Seq(T), NEW protected, NEW tokens \in Nat
    PROVE  rebuild(s, protected, tokens) \in Seq(T)
<1> DEFINE place == SummaryPlace(s, DOMAIN s \ protected, protected)
           summary == Item("summary", 0, "text", tokens)
           p == [i \in DOMAIN s |->
                   (IF i \in protected THEN <<s[i]>> ELSE <<>>)
                   \o (IF i = place THEN <<summary>> ELSE <<>>)]
<1>1. rebuild(s, protected, tokens) = FlattenSeq(p)
  BY Zenon DEF rebuild, WithSummary
<1>2. summary \in T
  BY DEF Stock
<1> HIDE DEF place, summary
<1>3. Len(s) \in Nat /\ DOMAIN s = 1..Len(s)
  OBVIOUS
<1>4. \A i \in 1..Len(s) : p[i] \in Seq(T)
  <2> SUFFICES ASSUME NEW i \in 1..Len(s) PROVE p[i] \in Seq(T)
    OBVIOUS
  <2>1. <<s[i]>> \in Seq(T) /\ <<summary>> \in Seq(T) /\ <<>> \in Seq(T)
    BY <1>2
  <2> DEFINE a == IF i \in protected THEN <<s[i]>> ELSE <<>>
             b == IF i = place THEN <<summary>> ELSE <<>>
  <2>2. a \in Seq(T) /\ b \in Seq(T)
    BY <2>1
  <2>3. p[i] = a \o b
    BY <1>3
  <2> HIDE DEF a, b, p
  <2> QED BY <2>2, <2>3
<1>5. p = [i \in 1..Len(s) |-> p[i]]
  BY <1>3
<1> HIDE DEF p
<1> QED BY <1>1, <1>3, <1>4, <1>5, PiecesType

LEMMA SummaryType ==
    ASSUME NEW T, NEW removed \in Seq(T), NEW bullets \in Nat
    PROVE  summarize(removed, bullets) \in Nat /\ summarize_terse(removed) \in Nat
<1> DEFINE more == IF \E i \in DOMAIN removed : removed[i].kind = "summary" THEN 1 ELSE 0
<1>1. more \in Nat /\ Len(removed) \in Nat /\ SummaryTokens \in Nat
  BY SizeAssumption
<1>2. summarize(removed, bullets) = 2 * SummaryTokens + MinOf(Len(removed), bullets) + more
      /\ summarize_terse(removed) = SummaryTokens + more
  BY DEF summarize, summarize_terse
<1> HIDE DEF more
<1>3. MinOf(Len(removed), bullets) \in Nat
  BY <1>1 DEF MinOf
<1> QED BY <1>1, <1>2, <1>3

CandidateRecord(T) == [recent : Nat, history : Seq(T), after : Nat]

LEMMA CandidateType ==
    ASSUME NEW T, Stock(T), NEW mixed \in Seq(T), NEW policy, policy.bullets \in Nat,
           NEW recent \in Nat, NEW protected
    PROVE  LET c == Candidate(mixed, policy, recent, protected)
           IN  c \in CandidateRecord(T) /\ c.recent = recent
<1> DEFINE Q == Seq(T)
           c == Candidate(mixed, policy, recent, protected)
           all == [recent |-> recent, history |-> mixed, after |-> estimate_mixed_tokens(mixed)]
           keeps == Removed(mixed, DOMAIN mixed \ protected)
           kept == estimate_mixed_tokens(keeps)
           removed == Removed(mixed, protected)
           long == FirstSummary(removed, policy.bullets)
           tokens == SummarySize(long, summarize_terse(removed), policy.target - kept)
           less == [recent |-> recent, history |-> rebuild(mixed, protected, tokens), after |-> kept + tokens]
<1>1. c = IF protected = DOMAIN mixed THEN all ELSE less
  BY Zenon DEF Candidate, Shrunk, Rebuilt
<1>2. keeps \in Seq(T) /\ removed \in Seq(T)
  BY RemovedType DEF Removed
<1>3. estimate_mixed_tokens(mixed) \in Nat /\ kept \in Nat
  <2> HIDE DEF keeps
  <2> QED BY <1>2, EstimateType
<1>4. tokens \in Nat
  <2> HIDE DEF removed, kept
  <2>1. summarize(removed, policy.bullets) \in Nat /\ summarize_terse(removed) \in Nat
    BY <1>2, SummaryType
  <2>2. long \in {summarize(removed, policy.bullets), summarize_terse(removed)}
    BY DEF FirstSummary
  <2>3. long \in Nat
    BY <2>1, <2>2
  <2> HIDE DEF long
  <2>4. tokens \in {long, summarize_terse(removed), Placeholder}
    BY Zenon DEF SummarySize
  <2>5. Placeholder \in Nat
    BY DEF Placeholder
  <2> QED BY <2>1, <2>3, <2>4, <2>5
<1> HIDE DEF kept, tokens
<1>5. rebuild(mixed, protected, tokens) \in Q /\ mixed \in Q
  BY <1>4, RebuildType
<1> HIDE DEF Q
<1>6. all \in [recent : Nat, history : Q, after : Nat] /\ all.recent = recent
  BY <1>3, <1>5
<1>7. less \in [recent : Nat, history : Q, after : Nat] /\ less.recent = recent
  BY <1>3, <1>4, <1>5
<1> HIDE DEF all, less, c
<1>8. c \in [recent : Nat, history : Q, after : Nat] /\ c.recent = recent
  BY <1>1, <1>6, <1>7
<1> QED BY <1>8 DEF CandidateRecord, Q, c

LEMMA LatestThere ==
    ASSUME NEW T, NEW S \in SUBSET CandidateRecord(T), S # {}, NEW top \in Nat, \A c \in S : c.recent <= top
    PROVE  Latest(S) \in S
<1> DEFINE R == {c.recent : c \in S}
<1>1. \A c \in S : c.recent \in Nat
  BY DEF CandidateRecord
<1>2. \E n \in R : \A m \in R : m <= n
  <2>1. R \in SUBSET Nat /\ R # {} /\ \A m \in R : m <= top
    BY <1>1
  <2> HIDE DEF R
  <2> QED BY <2>1, GreatestNatural
<1>3. \E c \in S : \A other \in S : other.recent <= c.recent
  BY <1>2
<1> QED BY <1>3, Zenon DEF Latest

LEMMA BestType ==
    ASSUME NEW T, NEW S \in SUBSET CandidateRecord(T), NEW top \in Nat, \A c \in S : c.recent <= top,
           NEW target
    PROVE  Best(S, target) \in Seq(T) \cup {None}
<1> DEFINE A == {c \in S : c.after <= target}
           B == {c \in S : \A other \in S : c.after <= other.after}
<1>1. \A c \in S : c.history \in Seq(T) /\ c.after \in Nat
  <2> DEFINE Q == Seq(T)
  <2>1. \A c \in S : c \in [recent : Nat, history : Q, after : Nat]
    BY DEF CandidateRecord
  <2> HIDE DEF Q
  <2>2. \A c \in S : c.history \in Q /\ c.after \in Nat
    BY <2>1
  <2> QED BY <2>2 DEF Q
<1>2. Best(S, target) = None \/ (A # {} /\ Best(S, target) = Latest(A).history)
      \/ (S # {} /\ Best(S, target) = Latest(B).history)
  <2>1. (\E c \in S : c.after <= target) => A # {}
    OBVIOUS
  <2> QED BY <2>1, Zenon DEF Best
<1>3. S # {} => B # {}
  <2> SUFFICES ASSUME S # {} PROVE B # {}
    OBVIOUS
  <2> DEFINE F == {c.after : c \in S}
  <2>1. F \in SUBSET Nat /\ F # {}
    BY <1>1
  <2>2. \E n \in F : \A m \in F : n <= m
    <3> HIDE DEF F
    <3> QED BY <2>1, LeastNatural
  <2> QED BY <2>2
<1>4. A \in SUBSET CandidateRecord(T) /\ B \in SUBSET CandidateRecord(T)
      /\ (\A c \in A : c.recent <= top) /\ (\A c \in B : c.recent <= top)
      /\ A \subseteq S /\ B \subseteq S
  OBVIOUS
<1> HIDE DEF A, B
<1>5. (A # {} => Latest(A) \in S) /\ (B # {} => Latest(B) \in S)
  BY <1>4, LatestThere
<1> QED BY <1>1, <1>2, <1>3, <1>5

(* The plan.                                                               *)
PolicyFields == {"enabled", "trigger", "target", "recent", "initial", "bullets"}

Sized(policy) == PolicyFields \subseteq DOMAIN policy /\ policy.recent \in Nat /\ policy.bullets \in Nat

LEMMA NormalizedSized ==
    ASSUME NEW policy, Sized(policy)
    PROVE  Sized(normalized(policy))
BY DEF Sized, PolicyFields, normalized

LEMMA CalibratedSized ==
    ASSUME NEW calibration
    PROVE  Sized(Policy) /\ Sized(CalibratedPolicy(calibration, Policy))
<1>1. Sized(Policy)
  BY EngineAssumption DEF Sized, PolicyFields
<1> DEFINE n == normalized(Policy)
           c == [n EXCEPT !.trigger = MaxOf((100 * @) \div calibration, 1),
                          !.target = MaxOf((100 * @) \div calibration, 1)]
<1>2. Sized(n)
  BY <1>1, NormalizedSized
<1>3. CalibratedPolicy(calibration, Policy) \in {Policy, c}
  BY Zenon DEF CalibratedPolicy
<1> HIDE DEF n
<1>4. Sized(c)
  BY <1>2 DEF Sized, PolicyFields
<1> HIDE DEF c
<1> QED BY <1>1, <1>3, <1>4

LEMMA LocalSized ==
    ASSUME NEW e, NEW forced, NEW size
    PROVE  Sized(LocalPolicy(e, forced, size))
<1> DEFINE p == CalibratedPolicy(e.calibration, Policy)
           q == [p EXCEPT !.trigger = 1, !.target = MinOf(@, MaxOf(size \div 2, 1))]
<1>1. LocalPolicy(e, forced, size) \in {p, q}
  BY Zenon DEF LocalPolicy
<1>2. Sized(p)
  BY CalibratedSized
<1> HIDE DEF p
<1>3. Sized(q)
  BY <1>2 DEF Sized, PolicyFields
<1> HIDE DEF q
<1> QED BY <1>1, <1>2, <1>3

LEMMA PlannedType ==
    ASSUME NEW T, Stock(T), NEW mixed \in Seq(T), NEW policy, Sized(policy), NEW before
    PROVE  Planned(mixed, policy, before) \in Seq(T) \cup {None}
<1> DEFINE top == MaxOf(MinOf(policy.recent, Len(mixed)), 1)
           C(recent) == Candidate(mixed, policy, recent, Protected(mixed, policy, recent))
           S == {c \in {C(recent) : recent \in 1..top} : c.after < before}
<1>1. Planned(mixed, policy, before) = None \/ Planned(mixed, policy, before) = Best(S, policy.target)
  BY Zenon DEF Planned
<1>2. top \in Nat
  BY DEF MaxOf, MinOf, Sized
<1>3. ASSUME NEW recent \in 1..top
      PROVE  C(recent) \in CandidateRecord(T) /\ C(recent).recent <= top
  <2> HIDE DEF top
  <2>1. recent \in Nat /\ recent <= top
    BY <1>2
  <2>2. C(recent) \in CandidateRecord(T) /\ C(recent).recent = recent
    BY <2>1, CandidateType DEF Sized
  <2> QED BY <2>1, <2>2
<1> HIDE DEF top, C
<1>4. S \in SUBSET CandidateRecord(T) /\ \A c \in S : c.recent <= top
  BY <1>3
<1> HIDE DEF S
<1>5. Best(S, policy.target) \in Seq(T) \cup {None}
  BY <1>2, <1>4, BestType
<1> QED BY <1>1, <1>5

LEMMA PlanType ==
    ASSUME NEW T, Stock(T), NEW mixed \in Seq(T), NEW policy, Sized(policy), NEW overhead
    PROVE  compact_mixed(mixed, policy, overhead) \in Seq(T) \cup {None}
<1> DEFINE n == normalized(policy)
           m == [n EXCEPT !.trigger = MaxOf(@ - overhead, 1), !.target = MaxOf(@ - overhead, 1)]
           before == estimate_mixed_tokens(mixed)
<1>1. \/ compact_mixed(mixed, policy, overhead) = None
      \/ compact_mixed(mixed, policy, overhead) = Planned(mixed, normalized(m), before)
  BY Zenon DEF compact_mixed
<1>2. Sized(n)
  BY NormalizedSized
<1> HIDE DEF n
<1>3. Sized(m)
  BY <1>2 DEF Sized, PolicyFields
<1> HIDE DEF m, before
<1>4. Sized(normalized(m))
  BY <1>3, NormalizedSized
<1>5. Planned(mixed, normalized(m), before) \in Seq(T) \cup {None}
  BY <1>4, PlannedType
<1> QED BY <1>1, <1>5

(* Finalization.                                                           *)
LEMMA LastItemThere ==
    ASSUME NEW T, NEW all \in Seq(T), NEW kind, NEW id \in IdsOf(all, kind)
    PROVE  LastItem(all, kind, id) \in T
<1> DEFINE I == {i \in DOMAIN all : all[i].kind = kind /\ all[i].id = id}
<1>1. I \in SUBSET Nat /\ I # {} /\ Len(all) \in Nat /\ \A m \in I : m <= Len(all)
  BY DEF IdsOf
<1>2. PICK n \in I : \A m \in I : m <= n
  <2> HIDE DEF I
  <2> QED BY <1>1, GreatestNatural
<1>3. n \in LastIndex(all, kind, id)
  <2>1. \A j \in n + 1..Len(all) : j \in DOMAIN all /\ ~(j <= n)
    BY <1>1
  <2> QED BY <1>2, <2>1 DEF LastIndex
<1>4. LastIndex(all, kind, id) \subseteq DOMAIN all
  BY DEF LastIndex
<1> DEFINE L == LastIndex(all, kind, id)
<1> HIDE DEF L
<1>5. (CHOOSE i \in L : TRUE) \in L
  <2>1. \E i \in L : TRUE
    BY <1>3 DEF L
  <2> QED BY <2>1, Zenon
<1>6. LastItem(all, kind, id) = all[CHOOSE i \in L : TRUE]
  BY DEF LastItem, L
<1>7. (CHOOSE i \in L : TRUE) \in DOMAIN all
  BY <1>4, <1>5 DEF L
<1> DEFINE x == CHOOSE i \in L : TRUE
<1> HIDE DEF x
<1>8. x \in DOMAIN all /\ LastItem(all, kind, id) = all[x]
  BY <1>6, <1>7 DEF x
<1> QED BY <1>8

LEMMA FinalizedType ==
    ASSUME NEW T, NEW items \in Seq(T), NEW all \in Seq(T), NEW n \in DOMAIN items
    PROVE  Finalized(items, all, n, items[n]) \in Seq(T)
<1> DEFINE item == items[n]
           a == IF item.id \in IdsOf(all, "result") \ IdsOf(items, "result")
                THEN <<LastItem(all, "result", item.id)>> ELSE <<>>
           b == IF EmittedCall(items, all, n) THEN <<>> ELSE <<LastItem(all, "call", item.id)>>
           r == Finalized(items, all, n, item)
<1>1. item \in T
  OBVIOUS
<1>2. \/ r = <<>> \/ r = <<item>> \o a \/ r = <<item>>
      \/ item.id \in IdsOf(all, "call") /\ r = b \o <<item>>
  BY Zenon DEF Finalized
<1> HIDE DEF item
<1>3. a \in Seq(T)
  <2>1. CASE item.id \in IdsOf(all, "result") \ IdsOf(items, "result")
    <3>1. LastItem(all, "result", item.id) \in T
      BY <2>1, LastItemThere
    <3> QED BY <2>1, <3>1
  <2>2. CASE item.id \notin IdsOf(all, "result") \ IdsOf(items, "result")
    BY <2>2
  <2> QED BY <2>1, <2>2
<1>4. item.id \in IdsOf(all, "call") => b \in Seq(T)
  <2> SUFFICES ASSUME item.id \in IdsOf(all, "call") PROVE b \in Seq(T)
    OBVIOUS
  <2>1. LastItem(all, "call", item.id) \in T
    BY LastItemThere
  <2> QED BY <2>1
<1>5. <<item>> \in Seq(T) /\ <<>> \in Seq(T)
  BY <1>1
<1> HIDE DEF a, b
<1>6. <<item>> \o a \in Seq(T)
  BY <1>3, <1>5
<1>7. item.id \in IdsOf(all, "call") => b \o <<item>> \in Seq(T)
  BY <1>4, <1>5
<1>8. r \in Seq(T)
  <2> HIDE DEF r
  <2> QED BY <1>2, <1>5, <1>6, <1>7, Zenon
<1> QED BY <1>8 DEF item

LEMMA FinalType ==
    ASSUME NEW T, NEW compacted \in Seq(T), NEW previous \in Seq(T)
    PROVE  finalize_mixed_history(compacted, previous) \in Seq(T)
<1> DEFINE items == WithoutCarry(compacted)
           all == previous \o items
           p == [n \in DOMAIN items |-> Finalized(items, all, n, items[n])]
<1>1. finalize_mixed_history(compacted, previous) = FlattenSeq(p)
  BY Zenon DEF finalize_mixed_history, FinalizedAll
<1>2. items \in Seq(T)
  BY RemovedType DEF WithoutCarry
<1> HIDE DEF items
<1>3. all \in Seq(T) /\ Len(items) \in Nat /\ DOMAIN items = 1..Len(items)
  BY <1>2
<1> HIDE DEF all
<1>4. \A n \in 1..Len(items) : p[n] \in Seq(T)
  <2> SUFFICES ASSUME NEW n \in 1..Len(items) PROVE p[n] \in Seq(T)
    OBVIOUS
  <2>1. n \in DOMAIN items
    BY <1>3
  <2>2. p[n] = Finalized(items, all, n, items[n])
    BY <2>1
  <2>3. Finalized(items, all, n, items[n]) \in Seq(T)
    BY <2>1, <1>2, <1>3, FinalizedType
  <2> HIDE DEF p
  <2> QED BY <2>2, <2>3
<1>5. p = [n \in 1..Len(items) |-> p[n]]
  BY <1>3
<1> HIDE DEF p
<1> QED BY <1>1, <1>3, <1>4, <1>5, PiecesType

(* Markers.                                                                *)
Notice(x) == x.kind = "approval" /\ Estimate(x) \in Nat
EntryLike(x) == {"marker", "new", "at"} \subseteq DOMAIN x /\ Notice(x.marker)
Journal(s) == \E S : s \in Seq(S) /\ \A x \in S : EntryLike(x)

LEMMA JournalAppends ==
    ASSUME NEW s, Journal(s)
    PROVE  /\ \A x : EntryLike(x) => Journal(Append(s, x))
           /\ \A r : Journal(r) => Journal(s \o r)
<1>1. PICK S : s \in Seq(S) /\ \A x \in S : EntryLike(x)
  BY DEF Journal
<1>2. ASSUME NEW x, EntryLike(x) PROVE Journal(Append(s, x))
  <2> DEFINE U == S \cup {x}
  <2>1. s \in Seq(U) /\ x \in U
    BY <1>1
  <2>2. \A y \in U : EntryLike(y)
    BY <1>1, <1>2
  <2> HIDE DEF U
  <2>3. Append(s, x) \in Seq(U)
    BY <2>1
  <2> QED BY <2>2, <2>3 DEF Journal
<1>3. ASSUME NEW r, Journal(r) PROVE Journal(s \o r)
  <2>1. PICK R : r \in Seq(R) /\ \A x \in R : EntryLike(x)
    BY <1>3 DEF Journal
  <2> DEFINE U == S \cup R
  <2>2. s \in Seq(U) /\ r \in Seq(U)
    BY <1>1, <2>1
  <2>3. \A y \in U : EntryLike(y)
    BY <1>1, <2>1
  <2> HIDE DEF U
  <2>4. s \o r \in Seq(U)
    BY <2>2
  <2> QED BY <2>3, <2>4 DEF Journal
<1> QED BY <1>2, <1>3

LEMMA JournalOf ==
    ASSUME NEW n \in Nat, NEW s, s = [k \in 1..n |-> s[k]], \A k \in 1..n : EntryLike(s[k])
    PROVE  Journal(s)
<1> DEFINE U == {s[k] : k \in 1..n}
<1>1. \A x \in U : EntryLike(x)
  OBVIOUS
<1>2. \A k \in 1..n : s[k] \in U
  OBVIOUS
<1> HIDE DEF U
<1>3. s \in Seq(U)
  BY <1>2
<1> QED BY <1>1, <1>3 DEF Journal

LEMMA JournalPlaces ==
    ASSUME NEW s, Journal(s)
    PROVE  \E n \in Nat : DOMAIN s = 1..n /\ \A k \in 1..n : EntryLike(s[k])
<1>1. PICK S : s \in Seq(S) /\ \A x \in S : EntryLike(x)
  BY DEF Journal
<1>2. Len(s) \in Nat /\ DOMAIN s = 1..Len(s) /\ \A k \in 1..Len(s) : s[k] \in S
  BY <1>1
<1> QED BY <1>1, <1>2

(* An entry as it is, or with another place.                               *)
Moved(x, y) == y = x \/ \E v : y = [x EXCEPT !.at = v]

LEMMA JournalMoves ==
    ASSUME NEW s, Journal(s), NEW r, DOMAIN r = DOMAIN s, r = [k \in DOMAIN s |-> r[k]],
           \A k \in DOMAIN s : Moved(s[k], r[k])
    PROVE  Journal(r)
<1>1. PICK n \in Nat : DOMAIN s = 1..n /\ \A k \in 1..n : EntryLike(s[k])
  BY JournalPlaces
<1>2. \A x, y : EntryLike(x) /\ Moved(x, y) => EntryLike(y)
  BY DEF EntryLike, Moved
<1>3. \A k \in 1..n : EntryLike(r[k])
  BY <1>1, <1>2
<1>4. r = [k \in 1..n |-> r[k]]
  BY <1>1
<1> QED BY <1>3, <1>4, JournalOf

LEMMA RebaseMoves ==
    ASSUME NEW entry, NEW before, NEW after
    PROVE  Moved(entry, rebase_entry(entry, before, after)) /\ Moved(entry, entry)
  BY Zenon DEF rebase_entry, Moved

LEMMA RebasedJournal ==
    ASSUME NEW e, Has(e), Journal(e.entries), NEW after
    PROVE  Journal(Rebased(e, after).entries)
<1> DEFINE r == [k \in DOMAIN e.entries |-> IF e.history = after THEN e.entries[k]
                                            ELSE rebase_entry(e.entries[k], e.history, after)]
<1>1. Rebased(e, after).entries = e.entries \/ Rebased(e, after).entries = r
  BY RebasedKeeps
<1>2. /\ DOMAIN r = DOMAIN e.entries
      /\ \A k \in DOMAIN e.entries : r[k] = e.entries[k] \/ r[k] = rebase_entry(e.entries[k], e.history, after)
  OBVIOUS
<1>3. r = [k \in DOMAIN e.entries |-> r[k]]
  OBVIOUS
<1> HIDE DEF r
<1>4. \A k \in DOMAIN e.entries : Moved(e.entries[k], r[k])
  <2> TAKE k \in DOMAIN e.entries
  <2>1. Moved(e.entries[k], e.entries[k])
        /\ Moved(e.entries[k], rebase_entry(e.entries[k], e.history, after))
    BY RebaseMoves
  <2> QED BY <1>2, <2>1
<1>5. Journal(r)
  BY <1>2, <1>3, <1>4, JournalMoves
<1> QED BY <1>1, <1>5

LEMMA ReanchoredJournal ==
    ASSUME NEW s, Journal(s), NEW markers
    PROVE  Journal(Reanchored(s, markers))
<1> DEFINE Nth(k) == Cardinality({j \in 1..k : s[j].marker = s[k].marker})
           Found(k) == SelectSeq(markers, LAMBDA m : m.marker = s[k].marker)
           v(k) == IF Nth(k) <= Len(Found(k)) THEN Found(k)[Nth(k)].before ELSE None
           r == [k \in DOMAIN s |-> [s[k] EXCEPT !.at = v(k)]]
<1>1. Reanchored(s, markers) = r
  BY DEF Reanchored
<1> HIDE DEF v
<1>2. DOMAIN r = DOMAIN s /\ \A k \in DOMAIN s : Moved(s[k], r[k])
  <2>1. DOMAIN r = DOMAIN s /\ \A k \in DOMAIN s : r[k] = [s[k] EXCEPT !.at = v(k)]
    OBVIOUS
  <2> HIDE DEF r
  <2> QED BY <2>1, Zenon DEF Moved
<1>3. r = [k \in DOMAIN s |-> r[k]]
  OBVIOUS
<1> HIDE DEF r
<1>4. Journal(r)
  BY <1>2, <1>3, JournalMoves
<1> QED BY <1>1, <1>4

MarkerRecord(A) == [before : Nat, marker : A]

LEMMA MarkersType ==
    ASSUME NEW e, NEW T, e.history \in Seq(T), Journal(e.entries),
           NEW A, \A k \in DOMAIN e.entries : e.entries[k].marker \in A
    PROVE  history_markers(e) \in Seq(MarkerRecord(A))
<1>1. PICK m \in Nat : DOMAIN e.entries = 1..m /\ \A k \in 1..m : EntryLike(e.entries[k])
  BY JournalPlaces
<1> DEFINE x(n, k) == [before |-> n - 1, marker |-> e.entries[k].marker]
           q(n) == [k \in DOMAIN e.entries |-> IF e.entries[k].at = n - 1 THEN <<x(n, k)>> ELSE <<>>]
           N == Len(e.history) + 1
           p == [n \in 1..N |-> FlattenSeq(q(n))]
<1>2. history_markers(e) = FlattenSeq(p)
  BY Zenon DEF history_markers
<1>3. N \in Nat
  OBVIOUS
<1> HIDE DEF N
<1>4. ASSUME NEW n \in 1..N PROVE FlattenSeq(q(n)) \in Seq(MarkerRecord(A))
  <2>1. ASSUME NEW k \in 1..m PROVE q(n)[k] \in Seq(MarkerRecord(A))
    <3>1. x(n, k) \in MarkerRecord(A)
      BY <1>1, <1>3 DEF MarkerRecord, EntryLike
    <3> HIDE DEF x
    <3>2. <<x(n, k)>> \in Seq(MarkerRecord(A)) /\ <<>> \in Seq(MarkerRecord(A))
      BY <3>1
    <3>3. q(n)[k] = <<x(n, k)>> \/ q(n)[k] = <<>>
      BY <1>1
    <3> HIDE DEF q
    <3> QED BY <3>2, <3>3
  <2>2. q(n) = [k \in 1..m |-> q(n)[k]]
    BY <1>1
  <2> HIDE DEF q
  <2> QED BY <2>1, <2>2, PiecesType
<1> HIDE DEF q
<1>5. \A n \in 1..N : p[n] \in Seq(MarkerRecord(A))
  <2> SUFFICES ASSUME NEW n \in 1..N PROVE p[n] \in Seq(MarkerRecord(A))
    OBVIOUS
  <2>1. p[n] = FlattenSeq(q(n))
    OBVIOUS
  <2> HIDE DEF p
  <2> QED BY <2>1, <1>4
<1>6. p = [n \in 1..N |-> p[n]]
  OBVIOUS
<1> HIDE DEF p
<1> QED BY <1>2, <1>3, <1>5, <1>6, PiecesType

LEMMA MixedType ==
    ASSUME NEW T, NEW items \in Seq(T), NEW markers \in Seq(MarkerRecord(T))
    PROVE  mixed_history(items, markers) \in Seq(T)
<1> DEFINE q(n) == [k \in DOMAIN markers |->
                      IF markers[k].before = n - 1 THEN <<markers[k].marker>> ELSE <<>>]
           N == Len(items) + 1
           a(n) == FlattenSeq(q(n))
           b(n) == IF n <= Len(items) THEN <<items[n]>> ELSE <<>>
           p == [n \in 1..N |-> a(n) \o b(n)]
<1>1. mixed_history(items, markers) = FlattenSeq(p)
  BY Zenon DEF mixed_history
<1>2. N \in Nat /\ Len(markers) \in Nat /\ DOMAIN markers = 1..Len(markers)
      /\ \A k \in DOMAIN markers : markers[k].marker \in T
  <2>1. N \in Nat /\ Len(markers) \in Nat /\ DOMAIN markers = 1..Len(markers)
        /\ \A k \in DOMAIN markers : markers[k] \in MarkerRecord(T)
    OBVIOUS
  <2>2. \A x \in MarkerRecord(T) : x.marker \in T
    BY DEF MarkerRecord
  <2> QED BY <2>1, <2>2
<1>3. ASSUME NEW n \in 1..N PROVE a(n) \in Seq(T)
  <2>1. ASSUME NEW k \in 1..Len(markers) PROVE q(n)[k] \in Seq(T)
    <3>1. <<markers[k].marker>> \in Seq(T) /\ <<>> \in Seq(T)
      BY <1>2
    <3>2. q(n)[k] = <<markers[k].marker>> \/ q(n)[k] = <<>>
      BY <1>2
    <3> HIDE DEF q
    <3> QED BY <3>1, <3>2
  <2>2. q(n) = [k \in 1..Len(markers) |-> q(n)[k]]
    BY <1>2
  <2> HIDE DEF q
  <2> QED BY <1>2, <2>1, <2>2, PiecesType
<1>4. ASSUME NEW n \in 1..N PROVE b(n) \in Seq(T)
  <2>1. n <= Len(items) => n \in DOMAIN items
    OBVIOUS
  <2> QED BY <2>1
<1> HIDE DEF a, b, N
<1>5. ASSUME NEW n \in 1..N PROVE p[n] \in Seq(T)
  <2>1. p[n] = a(n) \o b(n)
    OBVIOUS
  <2> HIDE DEF p
  <2> QED BY <2>1, <1>3, <1>4
<1>6. p = [n \in 1..N |-> p[n]]
  OBVIOUS
<1> HIDE DEF p
<1> QED BY <1>1, <1>2, <1>5, <1>6, PiecesType

LEMMA CompactedType ==
    ASSUME NEW T, Stock(T), NEW h \in Seq(T)
    PROVE  CompactedHistory(h) \in Seq(T)
<1> DEFINE p == compact_mixed(h, Policy, Overhead)
<1>1. p \in Seq(T) \cup {None}
  BY CalibratedSized, PlanType
<1>2. CompactedHistory(h) = IF p = None THEN h ELSE finalize_mixed_history(p, h)
  BY DEF CompactedHistory, FinalHistory
<1> HIDE DEF p
<1>3. p # None => finalize_mixed_history(p, h) \in Seq(T)
  BY <1>1, FinalType
<1> QED BY <1>2, <1>3

LEMMA CompactType ==
    ASSUME NEW H, Stock(H), NEW e, Has(e), e.history \in Seq(H), Journal(e.entries), NEW forced
    PROVE  LET c == compact_local(e, forced)
           IN  /\ Journal(c.entries)
               /\ \E T : /\ Stock(T) /\ \A x \in T : x \in H \/ x.kind = "approval"
                        /\ c.history \in Seq(T)
<1> DEFINE mixed == mixed_history(e.history, history_markers(e))
           policy == LocalPolicy(e, forced, estimate_mixed_tokens(mixed))
           plan == LocalPlan(mixed, policy, forced)
           over == IF forced THEN 0 ELSE Overhead
           final == finalize_mixed_history(plan, mixed)
           c == compact_local(e, forced)
<1>1. c = IF plan = None THEN e ELSE Replaced(e, final)
  BY Zenon DEF compact_local, LocallyCompacted, PlannedFor
<1> DEFINE A == {e.entries[k].marker : k \in DOMAIN e.entries}
           T == H \cup A
<1>10. \A x \in A : Notice(x)
  <2>1. \A k \in DOMAIN e.entries : EntryLike(e.entries[k])
    BY JournalPlaces
  <2> QED BY <2>1 DEF EntryLike
<1>11. \A k \in DOMAIN e.entries : e.entries[k].marker \in T
  OBVIOUS
<1>12. Stock(T) /\ \A x \in T : x \in H \/ x.kind = "approval"
  BY <1>10 DEF Stock, Notice
<1>13. e.history \in Seq(T)
  OBVIOUS
<1> HIDE DEF T, A
<1>2. mixed \in Seq(T)
  <2>1. history_markers(e) \in Seq(MarkerRecord(T))
    BY <1>11, <1>13, MarkersType
  <2> QED BY <1>13, <2>1, MixedType
<1> HIDE DEF mixed
<1>3. Sized(policy)
  BY LocalSized
<1> HIDE DEF policy
<1>4. compact_mixed(mixed, policy, over) \in Seq(T) \cup {None}
  BY <1>2, <1>3, <1>12, PlanType
<1>5. plan = None \/ plan = compact_mixed(mixed, policy, over)
  BY Zenon DEF LocalPlan
<1>6. plan \in Seq(T) \cup {None}
  BY <1>4, <1>5
<1> HIDE DEF plan, over
<1>7. CASE plan = None
  BY <1>1, <1>7, <1>12, <1>13
<1>8. CASE plan # None
  <2>1. final \in Seq(T)
    BY <1>2, <1>6, <1>8, FinalType
  <2> HIDE DEF final
  <2>2. SplitItems(final) \in Seq(T)
    BY <2>1, RemovedType DEF SplitItems
  <2>3. Journal(Reanchored(e.entries, SplitMarkers(final)))
    BY ReanchoredJournal
  <2>4. c.history = SplitItems(final) /\ c.entries = Reanchored(e.entries, SplitMarkers(final))
    BY <1>1, <1>8, ReplacedKeeps
  <2> HIDE DEF c
  <2> QED BY <2>2, <2>3, <2>4, <1>12 DEF c
<1> QED BY <1>7, <1>8

--------------------------------------------------------------------------------
(* Spilled outputs: every file that an item of a history names is in Z.    *)
Fits(x, Z) == Estimate(x) \in Nat /\ (x.kind = "result" => x.spill \in Z \cup {0})
Kept(T, Z) == Stock(T) /\ \A x \in T : Fits(x, Z)
Backed(h, Z) == \E T : Kept(T, Z) /\ h \in Seq(T)

LEMMA ItemFits ==
    ASSUME NEW Z, NEW id, NEW tag, NEW n
    PROVE  /\ \A kind : kind \notin {"summary", "result"} => Fits(Item(kind, id, tag, n), Z)
           /\ n \in Nat => Fits(Item("summary", id, tag, n), Z)
           /\ n \in Z \cup {0} => Fits(Item("result", id, tag, n), Z)
<1>1. TextTokens \in Nat /\ LongTokens \in Nat
  BY SizeAssumption
<1>2. \A kind : /\ Item(kind, id, tag, n).kind = kind /\ Item(kind, id, tag, n).spill = n
                /\ Item(kind, id, tag, n).tag = tag
  BY DEF Item
<1>3. \A x : x.kind # "summary" => Estimate(x) \in Nat
  BY <1>1 DEF Estimate
<1>4. \A x : x.kind = "summary" => Estimate(x) = x.spill
  BY DEF Estimate
<1> QED BY <1>2, <1>3, <1>4 DEF Fits

LEMMA MessageFits ==
    ASSUME NEW Z, NEW kind \in {"user", "note", "system", "assistant"}
    PROVE  Fits(Message(kind), Z)
BY ItemFits DEF Message

LEMMA StockSet ==
    ASSUME NEW Z, NEW X, \A x \in X : Fits(x, Z)
    PROVE  \E T : Kept(T, Z) /\ X \subseteq T
<1> DEFINE S == {Item("summary", 0, "text", n) : n \in Nat}
           T == S \cup X
<1>1. \A x \in S : Fits(x, Z)
  BY ItemFits
<1>2. \A x \in T : Fits(x, Z)
  BY <1>1
<1>3. \A n \in Nat : Item("summary", 0, "text", n) \in T
  OBVIOUS
<1>4. X \subseteq T
  OBVIOUS
<1> HIDE DEF T
<1>5. Kept(T, Z)
  BY <1>2, <1>3 DEF Kept, Stock, Fits
<1> QED BY <1>4, <1>5

LEMMA BackedOf ==
    ASSUME NEW Z, NEW n \in Nat, NEW s, s = [k \in 1..n |-> s[k]], \A k \in 1..n : Fits(s[k], Z)
    PROVE  Backed(s, Z)
<1> DEFINE X == {s[k] : k \in 1..n}
<1>4. \A x \in X : Fits(x, Z)
  OBVIOUS
<1>5. \A k \in 1..n : s[k] \in X
  OBVIOUS
<1> HIDE DEF X
<1>1. PICK T : Kept(T, Z) /\ X \subseteq T
  BY <1>4, StockSet
<1>2. \A k \in 1..n : s[k] \in T
  BY <1>1, <1>5
<1>3. s \in Seq(T)
  BY <1>2
<1> QED BY <1>1, <1>3 DEF Backed

LEMMA BackedNone ==
    ASSUME NEW Z
    PROVE  Backed(<<>>, Z)
<1> DEFINE s == <<>>
<1>1. s = [k \in 1..0 |-> s[k]]
  OBVIOUS
<1>2. \A k \in 1..0 : Fits(s[k], Z)
  OBVIOUS
<1> HIDE DEF s
<1>3. Backed(s, Z)
  BY <1>1, <1>2, BackedOf
<1> QED BY <1>3 DEF s

LEMMA BackedOne ==
    ASSUME NEW Z, NEW x, Fits(x, Z)
    PROVE  Backed(<<x>>, Z)
<1> DEFINE s == <<x>>
<1>1. s = [k \in 1..1 |-> s[k]] /\ \A k \in 1..1 : s[k] = x
  OBVIOUS
<1>2. \A k \in 1..1 : Fits(s[k], Z)
  BY <1>1
<1> HIDE DEF s
<1>3. Backed(s, Z)
  BY <1>1, <1>2, BackedOf
<1> QED BY <1>3 DEF s

LEMMA BackedMore ==
    ASSUME NEW Y, NEW Z, Y \subseteq Z, NEW h, Backed(h, Y)
    PROVE  Backed(h, Z)
<1>1. PICK T : Kept(T, Y) /\ h \in Seq(T)
  BY DEF Backed
<1>2. Kept(T, Z)
  BY <1>1 DEF Kept, Fits
<1> QED BY <1>1, <1>2 DEF Backed

LEMMA BackedJoin ==
    ASSUME NEW Z, NEW g, NEW h, Backed(g, Z), Backed(h, Z)
    PROVE  Backed(g \o h, Z)
<1>1. PICK S : Kept(S, Z) /\ g \in Seq(S)
  BY DEF Backed
<1>2. PICK T : Kept(T, Z) /\ h \in Seq(T)
  BY DEF Backed
<1> DEFINE U == S \cup T
<1>3. Kept(U, Z)
  BY <1>1, <1>2 DEF Kept, Stock
<1>4. g \in Seq(U) /\ h \in Seq(U)
  BY <1>1, <1>2
<1> HIDE DEF U
<1>5. g \o h \in Seq(U)
  BY <1>4
<1> QED BY <1>3, <1>5 DEF Backed

LEMMA BackedAppend ==
    ASSUME NEW Z, NEW h, Backed(h, Z), NEW x, Fits(x, Z)
    PROVE  Backed(Append(h, x), Z)
<1>1. PICK S : Kept(S, Z) /\ h \in Seq(S)
  BY DEF Backed
<1> DEFINE U == S \cup {x}
<1>2. Kept(U, Z)
  BY <1>1 DEF Kept, Stock, Fits
<1>3. h \in Seq(U) /\ x \in U
  BY <1>1
<1> HIDE DEF U
<1>4. Append(h, x) \in Seq(U)
  BY <1>3
<1> QED BY <1>2, <1>4 DEF Backed

LEMMA BackedRefers ==
    ASSUME NEW Z, NEW h, Backed(h, Z)
    PROVE  Refers(h) \subseteq Z
<1>1. PICK T : Kept(T, Z) /\ h \in Seq(T)
  BY DEF Backed
<1>2. \A i \in DOMAIN h : h[i] \in T
  BY <1>1
<1>3. \A i \in DOMAIN h : h[i].kind = "result" => h[i].spill \in Z \cup {0}
  BY <1>1, <1>2 DEF Kept, Fits
<1> QED BY <1>3 DEF Refers

LEMMA BackedCompacted ==
    ASSUME NEW Z, NEW h, Backed(h, Z)
    PROVE  Backed(CompactedHistory(h), Z)
<1>1. PICK T : Kept(T, Z) /\ h \in Seq(T)
  BY DEF Backed
<1>2. CompactedHistory(h) \in Seq(T)
  BY <1>1, CompactedType DEF Kept
<1> QED BY <1>1, <1>2 DEF Backed

LEMMA BackedCompact ==
    ASSUME NEW Z, NEW e, Has(e), Backed(e.history, Z), Journal(e.entries), NEW forced
    PROVE  /\ Backed(compact_local(e, forced).history, Z)
           /\ Journal(compact_local(e, forced).entries)
<1>1. PICK H : Kept(H, Z) /\ e.history \in Seq(H)
  BY DEF Backed
<1> DEFINE c == compact_local(e, forced)
<1>2. /\ Journal(c.entries)
      /\ \E T : /\ Stock(T) /\ \A x \in T : x \in H \/ x.kind = "approval"
                /\ c.history \in Seq(T)
  BY <1>1, CompactType DEF Kept
<1> HIDE DEF c
<1>3. PICK T : /\ Stock(T) /\ \A x \in T : x \in H \/ x.kind = "approval"
               /\ c.history \in Seq(T)
  BY <1>2
<1>4. Kept(T, Z)
  <2>1. \A x \in T : x.kind = "result" => x.spill \in Z \cup {0}
    BY <1>1, <1>3 DEF Kept, Fits
  <2> QED BY <1>3, <2>1 DEF Kept, Fits, Stock
<1>5. Backed(c.history, Z)
  BY <1>3, <1>4 DEF Backed
<1> QED BY <1>2, <1>5 DEF c

(* What an engine holds, next to what its conversation keeps.              *)
Holds(e) == /\ Backed(e.history, conv.spills \cup e.spills)
            /\ Journal(e.entries) /\ Journal(e.deferrals)

LEMMA HoldsBy ==
    ASSUME NEW e, NEW r, Holds(e), NEW changed, Keeps(r, e, changed),
           changed \cap {"entries", "deferrals", "spills"} = {},
           Backed(r.history, conv.spills \cup e.spills)
    PROVE  Has(r) /\ Holds(r)
<1>1. Has(r) /\ r.entries = e.entries /\ r.deferrals = e.deferrals /\ r.spills = e.spills
  BY DEF Keeps, Fields
<1> QED BY <1>1 DEF Holds

LEMMA HoldsSame ==
    ASSUME NEW e, NEW r, Holds(e), NEW changed, Keeps(r, e, changed),
           changed \cap {"history", "entries", "deferrals", "spills"} = {}
    PROVE  Has(r) /\ Holds(r)
<1>1. r.history = e.history
  BY DEF Keeps, Fields
<1>2. Backed(r.history, conv.spills \cup e.spills)
  BY <1>1 DEF Holds
<1>3. changed \cap {"entries", "deferrals", "spills"} = {}
  OBVIOUS
<1> QED BY <1>2, <1>3, HoldsBy

LEMMA HoldsAppends ==
    ASSUME NEW e, NEW r, Holds(e), NEW changed, Keeps(r, e, changed),
           changed \cap {"entries", "deferrals", "spills"} = {},
           NEW items, Backed(items, conv.spills \cup e.spills), r.history = e.history \o items
    PROVE  Has(r) /\ Holds(r)
<1>1. Backed(r.history, conv.spills \cup e.spills)
  BY BackedJoin DEF Holds
<1> QED BY <1>1, HoldsBy

(* The session of the children, and the messages for a child.              *)
EnvFields == {"inbox", "tasks", "staged", "closed", "runs", "steered", "spilled"}
Session(v) == EnvFields \subseteq DOMAIN v /\ v.inbox \in Nat /\ DOMAIN v.tasks = 1..Children

LEMMA SessionKept ==
    ASSUME NEW v, Session(v)
    PROVE  /\ \A ids : Session(Delivered(v, ids))
           /\ \A e : Session(Spilled(e, v))
           /\ \A x : Session([v EXCEPT !.staged = x])
           /\ Session([v EXCEPT !.inbox = 0])
           /\ \A id, x : Session([v EXCEPT !.tasks[id] = x])
<1>1. \A ids : /\ DOMAIN commit_delivery(v.tasks, ids) = 1..Children
  BY DEF Session, commit_delivery
<1>2. \A ids : Session(Delivered(v, ids))
  BY <1>1 DEF Delivered, Session, EnvFields
<1>3. \A e : Session(Spilled(e, v))
  BY DEF Spilled, Session, EnvFields
<1>4. /\ \A x : Session([v EXCEPT !.staged = x])
      /\ Session([v EXCEPT !.inbox = 0])
      /\ \A id, x : Session([v EXCEPT !.tasks[id] = x])
  BY DEF Session, EnvFields
<1> QED BY <1>2, <1>3, <1>4

LEMMA DelegatesSession ==
    ASSUME Session(env), NEW tool, NEW out
    PROVE  Session(Delegates(tool, out))
<1>1. \/ Delegates(tool, out) = [env EXCEPT !.staged = @ \cup Reported(tool, out)]
      \/ \E id, x : Delegates(tool, out) = [env EXCEPT !.tasks[id] = x]
  BY Zenon DEF Delegates
<1>2. CASE Delegates(tool, out) = [env EXCEPT !.staged = @ \cup Reported(tool, out)]
  BY <1>2 DEF Session, EnvFields
<1>3. CASE \E id, x : Delegates(tool, out) = [env EXCEPT !.tasks[id] = x]
  BY <1>3 DEF Session, EnvFields
<1> QED BY <1>1, <1>2, <1>3

LEMMA SessionNext ==
    ASSUME Session(env), [Next]_vars
    PROVE  Session(env)'
<1>1. CASE UNCHANGED env
  BY <1>1
<1>2. CASE model_turn
  <2>1. \/ env' = [env EXCEPT !.inbox = 0, !.staged = @ \cup News]
        \/ env' = [Delivered(env, env.staged \cup News) EXCEPT !.inbox = 0]
    BY <1>2, Zenon DEF model_turn
  <2>2. CASE env' = [env EXCEPT !.inbox = 0, !.staged = @ \cup News]
    BY <2>2 DEF Session, EnvFields
  <2>3. CASE env' = [Delivered(env, env.staged \cup News) EXCEPT !.inbox = 0]
    BY <2>3, SessionKept, Zenon
  <2> QED BY <2>1, <2>2, <2>3
<1>3. CASE BatchReturns \/ BatchEnds \/ ToolReturns
  <2>1. \/ UNCHANGED env \/ \E tool, out : env' = Delegates(tool, out)
        \/ \E e : env' = Spilled(e, Delivered(env, env.staged))
        \/ \E e, tool, out : LET after == Delegates(tool, out)
                             IN  \/ env' = Spilled(e, after)
                                 \/ env' = Spilled(e, Delivered(after, after.staged))
    <3>1. CASE BatchReturns
      BY <3>1, Zenon DEF BatchReturns, Continues
    <3>2. CASE BatchEnds
      BY <3>2, Zenon DEF BatchEnds
    <3>3. CASE ToolReturns
      <4>1. \E e, tool, out : \E after \in {Delegates(tool, out)} :
              env' = Spilled(e, IF out = "withheld" THEN after ELSE Delivered(after, after.staged))
        BY <3>3, Zenon DEF ToolReturns
      <4> QED BY <4>1
    <3> QED BY <1>3, <3>1, <3>2, <3>3
  <2>2. ASSUME NEW tool, NEW out
        PROVE  LET after == Delegates(tool, out)
               IN  /\ Session(after) /\ \A e : Session(Spilled(e, after))
                   /\ \A e : Session(Spilled(e, Delivered(after, after.staged)))
    <3> DEFINE after == Delegates(tool, out)
               d == Delivered(after, after.staged)
    <3>1. Session(after)
      BY DelegatesSession
    <3> HIDE DEF after
    <3>2. Session(d) /\ \A e : Session(Spilled(e, after))
      BY <3>1, SessionKept
    <3> HIDE DEF d
    <3>3. \A e : Session(Spilled(e, d))
      BY <3>2, SessionKept
    <3> QED BY <3>1, <3>2, <3>3 DEF after, d
  <2>3. \A e : Session(Spilled(e, Delivered(env, env.staged)))
    <3> DEFINE d == Delivered(env, env.staged)
    <3>1. Session(d)
      BY SessionKept
    <3> HIDE DEF d
    <3>2. \A e : Session(Spilled(e, d))
      BY <3>1, SessionKept
    <3> QED BY <3>2 DEF d
  <2> QED BY <2>1, <2>2, <2>3, Zenon
<1>4. CASE finish_candidate \/ Joins \/ Closing
  <2>1. \/ UNCHANGED env \/ env' = [env EXCEPT !.inbox = 0]
        \/ env' = [env EXCEPT !.staged = @ \cup News]
        \/ env' = [env EXCEPT !.inbox = 0, !.closed = @ \/ env.inbox = 0]
    BY <1>4, Zenon DEF finish_candidate, Joins, Closing, Continues, Failed
  <2>2. CASE env' = [env EXCEPT !.inbox = 0, !.closed = @ \/ env.inbox = 0]
    BY <2>2 DEF Session, EnvFields
  <2>3. CASE env' = [env EXCEPT !.staged = @ \cup News]
    BY <2>3 DEF Session, EnvFields
  <2>4. CASE env' = [env EXCEPT !.inbox = 0]
    BY <2>4 DEF Session, EnvFields
  <2> QED BY <2>1, <2>2, <2>3, <2>4
<1>5. CASE ConversationRun \/ HostRun
  <2>1. env' = [env EXCEPT !.runs = @ + 1, !.inbox = 0, !.closed = FALSE, !.staged = {}]
    BY <1>5, Zenon DEF ConversationRun, HostRun, Begins
  <2> QED BY <2>1 DEF Session, EnvFields
<1>6. CASE Accept
  <2>1. DOMAIN NoTasks = 1..Children
    BY DEF NoTasks
  <2>2. env' = env \/ env' = [env EXCEPT !.tasks = NoTasks]
    BY <1>6, Zenon DEF Accept
  <2> QED BY <2>1, <2>2 DEF Session, EnvFields
<1>7. CASE Steer \/ ChildDone \/ Reconcile
  <2>1. \/ env' = [env EXCEPT !.inbox = @ + 1, !.steered = @ + 1]
        \/ \E id, status : env' = [env EXCEPT !.tasks[id].status = status]
    BY <1>7, Zenon DEF Steer, ChildDone, Reconcile
  <2>2. CASE env' = [env EXCEPT !.inbox = @ + 1, !.steered = @ + 1]
    BY <2>2 DEF Session, EnvFields
  <2>3. ASSUME NEW id, NEW status, env' = [env EXCEPT !.tasks[id].status = status] PROVE Session(env)'
    <3> DEFINE t == [env.tasks[id] EXCEPT !.status = status]
    <3>1. env' = [env EXCEPT !.tasks[id] = t]
      BY <2>3
    <3> HIDE DEF t
    <3> QED BY <3>1 DEF Session, EnvFields
  <2> QED BY <2>1, <2>2, <2>3
<1>8. CASE Step
  <2>1. \/ UNCHANGED env \/ model_turn \/ BatchReturns \/ BatchEnds \/ ToolReturns
        \/ finish_candidate \/ Joins \/ Closing
    <3>1. CASE Start \/ ModelAttempt \/ Interrupt \/ Visible \/ StreamBreaks \/ Backoff \/ ModelReplies
      BY <3>1, Zenon DEF Start, ModelAttempt, Interrupt, Visible, StreamBreaks, Backoff, ModelReplies,
         Continues, Failed
    <3>2. CASE ModelError
      <4>1. (\E e : Continues(e)) \/ (\E e : Failed(e)) \/ \E kind : AfterError(kind)
        BY <3>2, Zenon DEF ModelError
      <4>2. ASSUME NEW kind, AfterError(kind) PROVE UNCHANGED env
        BY <4>2 DEF AfterError, Continues, Failed
      <4> QED BY <4>1, <4>2, Zenon DEF Continues, Failed
    <3>3. CASE PrepareTools \/ ToBatch \/ BatchStarts \/ GoGateEnds \/ Finish
      BY <3>3, ZenonT(60) DEF PrepareTools, ToBatch, BatchStarts, GoGateEnds, Finish, Continues
    <3>4. CASE ToolAlone \/ GoGate
      <4>1. (\E e : Failed(e)) \/ \E decision : Tool(decision)
        BY <3>4, Zenon DEF ToolAlone, GoGate
      <4> QED BY <4>1, Zenon DEF Failed, Tool, Continues
    <3>5. CASE ToolsDone
      BY <3>5, Zenon DEF ToolsDone, Continues
    <3> QED BY <1>8, <3>1, <3>2, <3>3, <3>4, <3>5, Zenon DEF Step
  <2> QED BY <2>1, <1>1, <1>2, <1>3, <1>4
<1>9. CASE Resume \/ ResumeInvalid \/ ResumeGoGate \/ Dropped \/ Fails
  BY <1>9, <1>1, Zenon DEF Resume, ResumeInvalid, ResumeGoGate, Dropped, Fails, Failed
<1>10. CASE UNCHANGED vars
  BY <1>1, <1>10 DEF vars
<1> QED BY <1>5, <1>6, <1>7, <1>8, <1>9, <1>10, Zenon DEF Next

LEMMA NewsCount ==
    ASSUME Session(env)
    PROVE  News \in SUBSET (1..Children) /\ Cardinality(News) \in Nat
<1>1. News \subseteq DOMAIN env.tasks
  <2>1. visible(env.tasks, 0) \subseteq DOMAIN env.tasks
    BY Zenon DEF visible
  <2> QED BY <2>1 DEF News, collect, stage_results
<1>2. IsFiniteSet(1..Children)
  BY EngineAssumption, FS_Interval
<1> QED BY <1>1, <1>2, FS_Subset, FS_CardinalityType DEF Session

ConvFields == {"history", "spills", "paused"}

HoldsInv ==
    /\ ConvFields \subseteq DOMAIN conv
    /\ Backed(conv.history, conv.spills)
    /\ eng # Idle => Holds(eng)
    /\ outcome # None => Backed(outcome.history, conv.spills \cup outcome.spills)

(* A step that ends a run or goes on with it keeps that.                   *)
Carries ==
    \/ \E e, ending : Holds(e) /\ Has(e) /\ Ends(e, ending)
    \/ Holds(eng') /\ conv' = conv /\ outcome' = outcome

LEMMA HoldsOver ==
    ASSUME NEW e, Holds(e), conv.spills \subseteq conv'.spills
    PROVE  /\ Backed(e.history, conv'.spills \cup e.spills)
           /\ Journal(e.entries) /\ Journal(e.deferrals)
<1>1. conv.spills \cup e.spills \subseteq conv'.spills \cup e.spills
  OBVIOUS
<1>2. Backed(e.history, conv.spills \cup e.spills)
  BY DEF Holds
<1> DEFINE A == conv.spills \cup e.spills
           B == conv'.spills \cup e.spills
<1> HIDE DEF A, B
<1>3. A \subseteq B /\ Backed(e.history, A)
  BY <1>1, <1>2 DEF A, B
<1>4. Backed(e.history, B)
  BY <1>3, BackedMore
<1> QED BY <1>4 DEF Holds, B

LEMMA AdoptedFields ==
    ASSUME ConvFields \subseteq DOMAIN conv, NEW result
    PROVE  /\ ConvFields \subseteq DOMAIN Adopted(result)
           /\ Adopted(result).history = result.history
           /\ Adopted(result).spills = conv.spills \cup result.spills
BY DEF Adopted, ConvFields

LEMMA EndsHolds ==
    ASSUME HoldsInv, NEW e, NEW ending, Holds(e), Has(e), Ends(e, ending)
    PROVE  HoldsInv'
<1> DEFINE status == IF e.cfg.owner = "child" THEN child_status(ending) ELSE ending
           result == [status |-> status, owner |-> e.cfg.owner, history |-> e.history,
                      spills |-> e.spills, pending |-> e.pending]
           paused == [e EXCEPT !.paused = TRUE, !.running = {}, !.outputs = <<>>]
<1>1. /\ \/ outcome' = None /\ conv' = Adopted(result)
         \/ outcome' = result /\ conv' = conv
      /\ eng' = Idle \/ eng' = paused
  BY Zenon DEF Ends
<1>2. result.history = e.history /\ result.spills = e.spills
  OBVIOUS
<1>3. Keeps(paused, e, {"paused", "running", "outputs"})
  BY DEF Keeps, Has, Fields
<1> HIDE DEF result, paused
<1>4. Holds(paused)
  BY <1>3, HoldsSame
<1>5. CASE conv' = Adopted(result) /\ outcome' = None
  <2>1. /\ ConvFields \subseteq DOMAIN conv' /\ conv'.history = e.history
        /\ conv'.spills = conv.spills \cup e.spills
    BY <1>2, <1>5, AdoptedFields DEF HoldsInv
  <2>2. Backed(conv'.history, conv'.spills)
    BY <2>1 DEF Holds
  <2>3. eng' = paused => /\ Backed(eng'.history, conv'.spills \cup eng'.spills)
                         /\ Journal(eng'.entries) /\ Journal(eng'.deferrals)
    <3>1. conv.spills \subseteq conv'.spills
      BY <2>1
    <3> QED BY <1>4, <3>1, HoldsOver
  <2> QED BY <1>1, <1>5, <2>1, <2>2, <2>3 DEF HoldsInv, Holds
<1>6. CASE outcome' = result /\ conv' = conv
  <2>1. Backed(outcome'.history, conv'.spills \cup outcome'.spills)
    BY <1>2, <1>6 DEF Holds
  <2>2. eng' = Idle \/ (/\ Backed(eng'.history, conv'.spills \cup eng'.spills)
                        /\ Journal(eng'.entries) /\ Journal(eng'.deferrals))
    BY <1>1, <1>4, <1>6 DEF Holds
  <2> QED BY <1>6, <2>1, <2>2 DEF HoldsInv, Holds
<1> QED BY <1>1, <1>5, <1>6

LEMMA CarriesHolds ==
    ASSUME HoldsInv, Carries
    PROVE  HoldsInv'
<1>1. CASE \E e, ending : Holds(e) /\ Has(e) /\ Ends(e, ending)
  BY <1>1, EndsHolds
<1>2. CASE Holds(eng') /\ conv' = conv /\ outcome' = outcome
  BY <1>2 DEF HoldsInv, Holds
<1> QED BY <1>1, <1>2 DEF Carries

LEMMA PresentHolds ==
    ASSUME HoldsInv, CarefulInv, eng.phase # "idle"
    PROVE  Careful(eng) /\ Has(eng) /\ Holds(eng)
<1>1. eng # Idle
  BY DEF Idle
<1> QED BY <1>1, Present DEF HoldsInv

LEMMA FailedHolds ==
    ASSUME NEW e, Holds(e), Has(e), Failed(e)
    PROVE  Carries
BY DEF Failed, Carries

LEMMA ContinuesHolds ==
    ASSUME NEW e, Holds(e), Continues(e)
    PROVE  Carries
BY DEF Continues, Carries

LEMMA SameHolds ==
    ASSUME HoldsInv, CarefulInv,
           \/ Start \/ Interrupt \/ Visible \/ Backoff \/ ToBatch \/ BatchStarts \/ BatchReturns
           \/ GoGateEnds \/ Fails
    PROVE  Carries
<1>1. Has(eng) /\ Holds(eng)
  BY PresentHolds DEF Start, Interrupt, Visible, Backoff, ToBatch, BatchStarts, BatchReturns,
                      GoGateEnds, Fails, At, Active
<1>2. ASSUME Failed(eng) PROVE Carries
  BY <1>1, <1>2, FailedHolds
<1>3. ASSUME NEW r, Keeps(r, eng, {"phase", "running", "ran", "outputs", "told", "toolFinal"}),
             eng' = r, conv' = conv, outcome' = outcome
      PROVE  Carries
  <2> DEFINE changed == {"phase", "running", "ran", "outputs", "told", "toolFinal"}
  <2>1. changed \cap {"history", "entries", "deferrals", "spills"} = {}
    OBVIOUS
  <2> HIDE DEF changed
  <2>2. Holds(r)
    BY <1>1, <1>3, <2>1, HoldsSame DEF changed
  <2> QED BY <1>3, <2>2 DEF Carries
<1>4. CASE Start \/ Interrupt \/ Visible \/ Backoff \/ ToBatch
  <2>1. Failed(eng) \/ \E p : eng' = [eng EXCEPT !.phase = p] /\ conv' = conv /\ outcome' = outcome
    BY <1>4, Zenon DEF Start, Interrupt, Visible, Backoff, ToBatch, Continues
  <2>2. \A p : Keeps([eng EXCEPT !.phase = p], eng, {"phase", "running", "ran", "outputs", "told", "toolFinal"})
    BY <1>1 DEF Keeps, Has, Fields
  <2> QED BY <1>2, <1>3, <2>1, <2>2
<1>5. CASE BatchStarts
  <2>1. PICK k : /\ eng' = [eng EXCEPT !.running = @ \cup {eng.calls[k].id},
                                       !.ran[eng.calls[k].id] = @ + 1]
                 /\ conv' = conv /\ outcome' = outcome
    BY <1>5, Zenon DEF BatchStarts, Continues
  <2>2. Keeps(eng', eng, {"phase", "running", "ran", "outputs", "told", "toolFinal"})
    BY <1>1, <2>1 DEF Keeps, Has, Fields
  <2> QED BY <1>3, <2>1, <2>2
<1>6. CASE BatchReturns
  <2> DEFINE Back(e, id, out) == [e EXCEPT !.running = @ \ {id}, !.outputs = Output(@, id, out)]
  <2>1. PICK id, out, ids : /\ eng' = Back(eng, id, out) \/ eng' = Back(Hears(eng, ids), id, out)
                            /\ conv' = conv /\ outcome' = outcome
    BY <1>6, Zenon DEF BatchReturns, Continues
  <2>2. \A e : Keeps(e, eng, {"told"}) =>
           Keeps(Back(e, id, out), eng, {"phase", "running", "ran", "outputs", "told", "toolFinal"})
    BY DEF Keeps, Has, Fields
  <2>3. Keeps(eng, eng, {"told"}) /\ Keeps(Hears(eng, ids), eng, {"told"})
    BY <1>1, HearsKeeps, KeepsItself
  <2> HIDE DEF Back
  <2> QED BY <1>3, <2>1, <2>2, <2>3
<1>7. CASE GoGateEnds
  <2>1. /\ Keeps(eng', eng, {"phase", "running", "ran", "outputs", "told", "toolFinal"})
        /\ conv' = conv /\ outcome' = outcome
    BY <1>1, <1>7 DEF GoGateEnds, Continues, Keeps, Has, Fields
  <2> QED BY <1>3, <2>1
<1>8. CASE Fails
  BY <1>2, <1>8 DEF Fails
<1> QED BY <1>2, <1>4, <1>5, <1>6, <1>7, <1>8

LEMMA OwnerHolds ==
    ASSUME HoldsInv, CarefulInv,
           \/ ConversationRun \/ HostRun \/ Accept \/ Resume \/ ResumeInvalid \/ ResumeGoGate
           \/ Dropped \/ Steer \/ ChildDone \/ Reconcile
    PROVE  HoldsInv'
<1>1. ASSUME NEW cfg, NEW h, NEW Z, Backed(h, Z), eng' = NewEngine(cfg, h), conv'.spills = Z
      PROVE  Holds(eng)'
  <2>1. eng'.history = h /\ eng'.entries = <<>> /\ eng'.deferrals = <<>> /\ eng'.spills = {}
    BY <1>1 DEF NewEngine
  <2>2. Journal(<<>>)
    <3> DEFINE S == {}
    <3>1. <<>> \in Seq(S) /\ \A x \in S : EntryLike(x)
      OBVIOUS
    <3> HIDE DEF S
    <3> QED BY <3>1 DEF Journal
  <2>3. conv'.spills \cup eng'.spills = Z
    BY <1>1, <2>1
  <2> QED BY <1>1, <2>1, <2>2, <2>3 DEF Holds
<1>2. CASE ConversationRun
  <2> DEFINE h == Append(conv.history, Message("user"))
  <2>1. PICK cfg : eng' = NewEngine(cfg, h)
    BY <1>2, Zenon DEF ConversationRun, Begins
  <2>2. /\ ConvFields \subseteq DOMAIN conv' /\ conv'.history = h /\ conv'.spills = conv.spills
        /\ outcome' = outcome
    BY <1>2 DEF ConversationRun, HoldsInv, ConvFields
  <2>3. Backed(h, conv.spills)
    BY MessageFits, BackedAppend DEF HoldsInv
  <2> HIDE DEF h
  <2>4. Holds(eng)'
    BY <1>1, <2>1, <2>2, <2>3
  <2> QED BY <2>2, <2>3, <2>4 DEF HoldsInv
<1>3. CASE HostRun
  <2> DEFINE h == <<Message("system"), Message("user")>>
  <2>1. PICK cfg : eng' = NewEngine(cfg, h)
    BY <1>3, Zenon DEF HostRun, Begins
  <2>2. Backed(h, conv.spills)
    <3> DEFINE a == <<Message("system")>>
               b == <<Message("user")>>
    <3>1. Backed(a, conv.spills) /\ Backed(b, conv.spills)
      BY MessageFits, BackedOne
    <3>2. h = a \o b
      OBVIOUS
    <3> HIDE DEF a, b, h
    <3> QED BY <3>1, <3>2, BackedJoin
  <2> HIDE DEF h
  <2>3. conv' = conv /\ outcome' = outcome
    BY <1>3 DEF HostRun
  <2>4. Holds(eng)'
    BY <1>1, <2>1, <2>2, <2>3
  <2> QED BY <2>3, <2>4 DEF HoldsInv
<1>4. CASE Accept
  <2>1. /\ eng' = eng /\ outcome' = None /\ outcome # None
        /\ conv' = Adopted(outcome) \/ conv' = conv
    BY <1>4 DEF Accept
  <2>2. CASE conv' = conv
    BY <2>1, <2>2 DEF HoldsInv, Holds
  <2>3. CASE conv' = Adopted(outcome)
    <3>1. /\ ConvFields \subseteq DOMAIN conv' /\ conv'.history = outcome.history
          /\ conv'.spills = conv.spills \cup outcome.spills
      BY <2>3, AdoptedFields DEF HoldsInv
    <3>2. Backed(conv'.history, conv'.spills)
      BY <2>1, <3>1 DEF HoldsInv
    <3>3. eng # Idle => /\ Backed(eng.history, conv'.spills \cup eng.spills)
                        /\ Journal(eng.entries) /\ Journal(eng.deferrals)
      BY <3>1, HoldsOver DEF HoldsInv
    <3> QED BY <2>1, <3>1, <3>2, <3>3 DEF HoldsInv, Holds
  <2> QED BY <2>1, <2>2, <2>3
<1>5. CASE Resume \/ ResumeInvalid \/ ResumeGoGate
  <2>1. Has(eng) /\ Holds(eng)
    BY <1>5, PresentHolds DEF Resume, ResumeInvalid, ResumeGoGate
  <2>2. ASSUME NEW r, Keeps(r, eng, {"paused", "resumed", "granted"}) PROVE Holds(r) /\ Has(r)
    <3> DEFINE changed == {"paused", "resumed", "granted"}
    <3>1. changed \cap {"history", "entries", "deferrals", "spills"} = {}
      OBVIOUS
    <3> HIDE DEF changed
    <3> QED BY <2>1, <2>2, <3>1, HoldsSame DEF changed
  <2>3. CASE Resume
    <3>1. PICK decisions \in [eng.pending -> {"approve", "deny", "defer"}], stream \in BOOLEAN :
            eng' = [eng EXCEPT !.paused = FALSE, !.resumed = TRUE, !.stream = stream,
                               !.approvals = decisions, !.prepared = FALSE, !.resumes = @ + 1,
                               !.granted = @ \cup {id \in eng.pending : decisions[id] = "approve"}]
      BY <2>3, Zenon DEF Resume
    <3>2. Keeps(eng', eng, {"paused", "resumed", "granted"})
      BY <2>1, <3>1 DEF Keeps, Has, Fields
    <3>3. conv' = conv /\ outcome' = outcome
      BY <2>3 DEF Resume
    <3> QED BY <2>2, <3>2, <3>3 DEF HoldsInv, Holds
  <2>4. CASE ResumeInvalid
    <3> DEFINE r == [eng EXCEPT !.resumed = TRUE]
    <3>1. Keeps(r, eng, {"paused", "resumed", "granted"})
      BY <2>1 DEF Keeps, Has, Fields
    <3>2. Failed(r)
      BY <2>4, Zenon DEF ResumeInvalid
    <3> HIDE DEF r
    <3> QED BY <2>2, <3>1, <3>2, FailedHolds, CarriesHolds
  <2>5. CASE ResumeGoGate
    <3>1. \/ Failed(eng)
          \/ /\ eng' = [eng EXCEPT !.paused = FALSE, !.resumed = TRUE, !.stream = FALSE,
                                   !.prepared = TRUE, !.go = TRUE, !.resumes = @ + 1]
             /\ outcome' = None /\ conv' = conv
      BY <2>5, Zenon DEF ResumeGoGate
    <3>2. CASE Failed(eng)
      BY <2>1, <3>2, FailedHolds, CarriesHolds
    <3>3. CASE /\ eng' = [eng EXCEPT !.paused = FALSE, !.resumed = TRUE, !.stream = FALSE,
                                     !.prepared = TRUE, !.go = TRUE, !.resumes = @ + 1]
               /\ outcome' = None /\ conv' = conv
      <4>1. Keeps(eng', eng, {"paused", "resumed", "granted"})
        BY <2>1, <3>3 DEF Keeps, Has, Fields
      <4> QED BY <2>2, <3>3, <4>1 DEF HoldsInv, Holds
    <3> QED BY <3>1, <3>2, <3>3
  <2> QED BY <1>5, <2>3, <2>4, <2>5
<1>6. CASE Dropped
  BY <1>6 DEF Dropped, HoldsInv, Holds
<1>7. CASE Steer \/ ChildDone \/ Reconcile
  <2>1. UNCHANGED <<conv, eng, outcome>>
    BY <1>7 DEF Steer, ChildDone, Reconcile
  <2> QED BY <2>1 DEF HoldsInv, Holds
<1> QED BY <1>2, <1>3, <1>4, <1>5, <1>6, <1>7

(* The operations on an engine.                                            *)
LEMMA MessagesBacked ==
    ASSUME NEW n \in Nat, NEW Z
    PROVE  Backed(Users(n), Z) /\ Backed(Notes(n), Z)
<1>1. Fits(Message("user"), Z) /\ Fits(Message("note"), Z)
  BY MessageFits
<1> DEFINE u == Users(n)
           v == Notes(n)
<1>2. /\ u = [k \in 1..n |-> u[k]] /\ v = [k \in 1..n |-> v[k]]
      /\ \A k \in 1..n : u[k] = Message("user") /\ v[k] = Message("note")
  BY DEF Users, Notes
<1> HIDE DEF u, v
<1>3. Backed(u, Z) /\ Backed(v, Z)
  BY <1>1, <1>2, BackedOf
<1> QED BY <1>3 DEF u, v

LEMMA AppendHolds ==
    ASSUME NEW e, Has(e), Holds(e), NEW kind \in {"user", "note", "system", "assistant"}
    PROVE  /\ Backed(Append(e.history, Message(kind)), conv.spills \cup e.spills)
           /\ Backed(<<Message(kind)>>, conv.spills \cup e.spills)
BY MessageFits, BackedAppend, BackedOne DEF Holds

LEMMA SettleHolds ==
    ASSUME NEW e, Has(e), Holds(e)
    PROVE  Has(settle_tool_turn(e)) /\ Holds(settle_tool_turn(e))
<1> DEFINE r == settle_tool_turn(e)
<1>1. Keeps(r, e, {"history"}) /\ r.history \in {e.history, Append(e.history, Message("note"))}
  BY SettleKeeps
<1> HIDE DEF r
<1>2. Backed(r.history, conv.spills \cup e.spills)
  BY <1>1, AppendHolds DEF Holds
<1>3. Has(r) /\ Holds(r)
  BY <1>1, <1>2, HoldsBy
<1> QED BY <1>3 DEF r

LEMMA PublishHolds ==
    ASSUME NEW e, Has(e), Holds(e)
    PROVE  Has(publish_committed(e)) /\ Holds(publish_committed(e))
BY PublishKeeps, HoldsSame

LEMMA GatheredHolds ==
    ASSUME Session(env), NEW e, Has(e), Holds(e)
    PROVE  Has(Gathered(e)) /\ Holds(Gathered(e))
<1> DEFINE r == Gathered(e)
           Z == conv.spills \cup e.spills
           u == Users(env.inbox)
           v == Notes(Cardinality(News))
<1>1. /\ Keeps(r, e, {"history", "told"})
      /\ \E h \in {e.history, Append(e.history, Message("note"))} : r.history = (h \o u) \o v
  BY GatheredKeeps
<1>2. Backed(u, Z) /\ Backed(v, Z)
  BY NewsCount, MessagesBacked DEF Session
<1>3. Backed(e.history, Z) /\ Backed(Append(e.history, Message("note")), Z)
  BY AppendHolds DEF Holds
<1> HIDE DEF r, u, v, Z
<1>4. PICK h : Backed(h, Z) /\ r.history = (h \o u) \o v
  BY <1>1, <1>3
<1> DEFINE w == h \o u
<1>5. Backed(w, Z)
  BY <1>2, <1>4, BackedJoin
<1> HIDE DEF w
<1>6. Backed(w \o v, Z)
  BY <1>2, <1>5, BackedJoin
<1>7. Backed(r.history, Z)
  BY <1>4, <1>6 DEF w
<1>8. Has(r) /\ Holds(r)
  BY <1>1, <1>7, HoldsBy DEF Z
<1> QED BY <1>8 DEF r

LEMMA ExternallyHolds ==
    ASSUME NEW e, Has(e), Holds(e), NEW x \in Externally(e)
    PROVE  Has(x) /\ Holds(x)
<1> DEFINE h == CompactedHistory(e.history)
           r == Rebased(e, h)
<1>1. x = e \/ x = r
  BY DEF Externally
<1>2. /\ Keeps(r, e, {"history", "entries"}) /\ r.history = h
  BY RebasedKeeps
<1>3. Journal(r.entries)
  BY RebasedJournal DEF Holds
<1>4. Backed(h, conv.spills \cup e.spills)
  BY BackedCompacted DEF Holds
<1> HIDE DEF h, r
<1>5. Has(r) /\ r.spills = e.spills /\ r.deferrals = e.deferrals
  BY <1>2 DEF Keeps, Fields
<1>6. Holds(r)
  BY <1>2, <1>3, <1>4, <1>5 DEF Holds
<1> QED BY <1>1, <1>5, <1>6

LEMMA CompactHolds ==
    ASSUME NEW e, Has(e), Holds(e), NEW forced
    PROVE  Has(compact_local(e, forced)) /\ Holds(compact_local(e, forced))
<1> DEFINE c == compact_local(e, forced)
           Z == conv.spills \cup e.spills
<1>1. Keeps(c, e, {"history", "entries"})
  BY CompactKeeps
<1>2. Backed(e.history, Z) /\ Journal(e.entries)
  BY DEF Holds
<1> HIDE DEF Z
<1>3. Backed(c.history, Z) /\ Journal(c.entries)
  BY <1>2, BackedCompact
<1> HIDE DEF c
<1>4. Has(c) /\ c.spills = e.spills /\ c.deferrals = e.deferrals
  BY <1>1 DEF Keeps, Fields
<1>5. Holds(c)
  BY <1>3, <1>4 DEF Holds, Z
<1> QED BY <1>4, <1>5 DEF c

LEMMA FinishHolds ==
    ASSUME NEW e, Has(e), Holds(e), NEW id, NEW out
    PROVE  Has(finish_tool(e, id, out)) /\ Holds(finish_tool(e, id, out))
<1> DEFINE r == finish_tool(e, id, out)
           p == Processed(e, id, out)
<1>1. /\ Keeps(r, e, {"history", "spills", "calls", "toolFinal", "running"})
      /\ r.history = p.history /\ r.spills = p.spills
  BY FinishKeeps
<1>2. \/ /\ p.spills = e.spills
         /\ \E tag \in {"text", "long", "media"} :
               p.history = Append(e.history, Item("result", id, tag, 0))
      \/ \E file : /\ p.spills = e.spills \cup {file}
                   /\ p.history = Append(e.history, Item("result", id, "long", file))
  BY ProcessedKeeps
<1> HIDE DEF r, p
<1>3. Has(r) /\ r.entries = e.entries /\ r.deferrals = e.deferrals
  BY <1>1 DEF Keeps, Fields
<1>4. Backed(r.history, conv.spills \cup r.spills)
  <2>1. CASE /\ p.spills = e.spills
             /\ \E tag \in {"text", "long", "media"} :
                   p.history = Append(e.history, Item("result", id, tag, 0))
    <3> DEFINE Z == conv.spills \cup e.spills
    <3>1. PICK tag \in {"text", "long", "media"} :
            p.history = Append(e.history, Item("result", id, tag, 0))
      BY <2>1
    <3>2. Fits(Item("result", id, tag, 0), Z) /\ Backed(e.history, Z)
      BY ItemFits DEF Holds
    <3> HIDE DEF Z
    <3>3. Backed(p.history, Z)
      BY <3>1, <3>2, BackedAppend
    <3> QED BY <1>1, <2>1, <3>3 DEF Z
  <2>2. ASSUME NEW file, p.spills = e.spills \cup {file},
               p.history = Append(e.history, Item("result", id, "long", file))
        PROVE  Backed(r.history, conv.spills \cup r.spills)
    <3> DEFINE Y == conv.spills \cup e.spills
               Z == conv.spills \cup (e.spills \cup {file})
    <3>1. file \in Z /\ Y \subseteq Z /\ Backed(e.history, Y)
      BY DEF Holds
    <3> HIDE DEF Y, Z
    <3>2. Backed(e.history, Z) /\ Fits(Item("result", id, "long", file), Z)
      BY <3>1, BackedMore, ItemFits
    <3>3. Backed(p.history, Z)
      BY <2>2, <3>2, BackedAppend
    <3> QED BY <1>1, <2>2, <3>3 DEF Z
  <2> QED BY <1>2, <2>1, <2>2
<1>5. Holds(r)
  BY <1>3, <1>4 DEF Holds
<1> QED BY <1>3, <1>5 DEF r

LEMMA FinishedHolds ==
    ASSUME NEW e, Has(e), Holds(e), NEW id, NEW out
    PROVE  Has(Finished(e, id, out)) /\ Holds(Finished(e, id, out))
<1>1. CASE out = "lost"
  <2> DEFINE r == [e EXCEPT !.calls = CallsOf(@, Ids \ {id})]
  <2>1. Finished(e, id, out) = r
    BY <1>1, Zenon DEF Finished
  <2>2. Keeps(r, e, {"calls"})
    BY DEF Keeps, Has, Fields
  <2> HIDE DEF r
  <2>3. Has(r) /\ Holds(r)
    BY <2>2, HoldsSame
  <2> QED BY <2>1, <2>3
<1>2. CASE out # "lost"
  <2>1. Finished(e, id, out) = finish_tool(e, id, out)
    BY <1>2, Zenon DEF Finished
  <2> QED BY <2>1, FinishHolds
<1> QED BY <1>1, <1>2

LEMMA FinishedAllHolds ==
    ASSUME NEW e, Has(e), Holds(e), CallList(e.calls)
    PROVE  Has(FinishedAll(e)) /\ Holds(FinishedAll(e))
<1> DEFINE L == Len(e.calls)
           b == BatchBase(e)
<1>1. e.calls \in Seq(CallRecord) /\ L \in Nat
  BY DEF CallList
<1>2. PICK f : /\ f[0] = b /\ FinishedAll(e) = f[L]
               /\ \A n \in 1..L : f[n] = BatchNext(e, f[n - 1], n)
  BY <1>1, FinishedAllSteps
<1>3. Keeps(b, e, {"outputs", "phase"})
  BY DEF BatchBase, Keeps, Has, Fields
<1> HIDE DEF b, L
<1> DEFINE P(n) == Has(f[n]) /\ Holds(f[n])
           T == {n \in Nat : n <= L => P(n)}
<1>4. 0 \in T
  <2>1. P(0)
    BY <1>2, <1>3, HoldsSame
  <2> QED BY <2>1
<1>5. ASSUME NEW n \in Nat, n \in T PROVE n + 1 \in T
  <2> SUFFICES ASSUME n + 1 <= L PROVE P(n + 1)
    OBVIOUS
  <2>1. P(n) /\ n + 1 \in 1..L /\ (n + 1) - 1 = n
    BY <1>5, <1>1
  <2> DEFINE id == e.calls[n + 1].id
             out == e.outputs[id]
             d == f[n]
  <2>2. f[n + 1] = Finished(d, id, out)
    BY <1>2, <2>1 DEF BatchNext
  <2> HIDE DEF id, out
  <2>3. Has(d) /\ Holds(d)
    BY <2>1
  <2> HIDE DEF d
  <2>4. Has(Finished(d, id, out)) /\ Holds(Finished(d, id, out))
    BY <2>3, FinishedHolds
  <2> QED BY <2>2, <2>4
<1>6. P(L)
  <2>1. Nat \subseteq T
    <3> HIDE DEF T
    <3> QED BY <1>4, <1>5, EveryNatural
  <2>2. L \in T /\ L <= L
    <3> HIDE DEF T
    <3> QED BY <2>1, <1>1
  <2> HIDE DEF P
  <2> QED BY <2>2
<1> QED BY <1>2, <1>6

LEMMA FreshBacked ==
    ASSUME NEW e, NEW n \in Nat, NEW calls \in FreshCalls(e, n), NEW Z
    PROVE  Backed(CallItems(calls), Z)
<1> DEFINE ids == Pick([i \in Ids |-> i], NewIds(e))
<1>1. \E tools \in [1..n -> e.cfg.tools] : calls = [k \in 1..n |-> [id |-> ids[k], tool |-> tools[k]]]
  BY Zenon DEF FreshCalls
<1> HIDE DEF ids
<1>2. DOMAIN calls = 1..n
  BY <1>1
<1> DEFINE s == CallItems(calls)
<1>3. /\ s = [k \in 1..n |-> s[k]]
      /\ \A k \in 1..n : s[k] = Item("call", calls[k].id, calls[k].tool, 0)
  BY <1>2 DEF CallItems
<1> HIDE DEF s
<1>4. \A k \in 1..n : Fits(s[k], Z)
  <2>1. \A id, tag : Fits(Item("call", id, tag, 0), Z)
    BY ItemFits
  <2> QED BY <1>3, <2>1
<1>5. Backed(s, Z)
  BY <1>3, <1>4, BackedOf
<1> QED BY <1>5 DEF s

LEMMA CallsBacked ==
    ASSUME NEW e, NEW calls \in CallSets(e), NEW Z
    PROVE  Backed(CallItems(calls), Z)
<1>1. PICK n \in 1..MaxCalls : calls \in FreshCalls(e, n)
  BY DEF CallSets
<1>2. n \in Nat
  BY <1>1
<1> QED BY <1>1, <1>2, FreshBacked

(* The steps.                                                              *)
LEMMA ModelTurnHolds ==
    ASSUME HoldsInv, CarefulInv, Session(env), model_turn
    PROVE  Carries
<1>1. Has(eng) /\ Holds(eng)
  BY PresentHolds DEF model_turn, At, Active
<1> DEFINE e == Gathered(eng)
<1>2. Has(e) /\ Holds(e)
  BY <1>1, GatheredHolds
<1>3. PICK x \in Externally(e) : \E c \in {compact_local(x, FALSE)} :
        \/ Ends(e, "failed") \/ Ends(x, "failed")
        \/ /\ eng' = [c EXCEPT !.phase = "attempt", !.attempt = 0,
                               !.index = FirstModel(c), !.asked = FirstModel(c)]
           /\ conv' = conv /\ outcome' = outcome
  <2>1. PICK x \in Externally(e) : \E c \in {compact_local(x, FALSE)} :
          IF e.turns >= e.max \/ BadlyCompacted(e, x) \/ CompactionFails(x, c)
          THEN Ends(IF e.turns >= e.max \/ BadlyCompacted(e, x) THEN e ELSE x, "failed")
          ELSE /\ eng' = [c EXCEPT !.phase = "attempt", !.attempt = 0,
                                   !.index = FirstModel(c), !.asked = FirstModel(c)]
               /\ conv' = conv /\ outcome' = outcome
    BY Zenon DEF model_turn
  <2> HIDE DEF e
  <2>3. CASE e.turns >= e.max \/ BadlyCompacted(e, x)
    <3>1. Ends(IF e.turns >= e.max \/ BadlyCompacted(e, x) THEN e ELSE x, "failed")
      BY <2>1, <2>3, Zenon
    <3>2. (IF e.turns >= e.max \/ BadlyCompacted(e, x) THEN e ELSE x) = e
      BY <2>3, Zenon
    <3>3. Ends(e, "failed")
      BY <3>1, <3>2
    <3> QED BY <2>1, <3>3, Zenon
  <2>4. CASE ~(e.turns >= e.max \/ BadlyCompacted(e, x))
    <3>1. (IF e.turns >= e.max \/ BadlyCompacted(e, x) THEN e ELSE x) = x
      BY <2>4, Zenon
    <3>2. \E c \in {compact_local(x, FALSE)} :
            \/ Ends(IF e.turns >= e.max \/ BadlyCompacted(e, x) THEN e ELSE x, "failed")
            \/ /\ eng' = [c EXCEPT !.phase = "attempt", !.attempt = 0,
                                   !.index = FirstModel(c), !.asked = FirstModel(c)]
               /\ conv' = conv /\ outcome' = outcome
      BY <2>1, Zenon
    <3> QED BY <3>1, <3>2
  <2> QED BY <2>3, <2>4
<1> HIDE DEF e
<1>4. Has(x) /\ Holds(x)
  BY <1>2, ExternallyHolds
<1> DEFINE c == compact_local(x, FALSE)
<1>5. Has(c) /\ Holds(c)
  BY <1>4, CompactHolds
<1>6. \/ Ends(e, "failed") \/ Ends(x, "failed")
      \/ /\ eng' = [c EXCEPT !.phase = "attempt", !.attempt = 0,
                             !.index = FirstModel(c), !.asked = FirstModel(c)]
         /\ conv' = conv /\ outcome' = outcome
  BY <1>3, Zenon
<1> HIDE DEF c
<1>7. CASE Ends(e, "failed") \/ Ends(x, "failed")
  BY <1>2, <1>4, <1>7 DEF Carries
<1>8. CASE /\ eng' = [c EXCEPT !.phase = "attempt", !.attempt = 0,
                               !.index = FirstModel(c), !.asked = FirstModel(c)]
           /\ conv' = conv /\ outcome' = outcome
  <2>1. Keeps(eng', c, {"phase"})
    BY <1>5, <1>8 DEF Keeps, Has, Fields
  <2>2. Holds(eng')
    BY <1>5, <2>1, HoldsSame
  <2> QED BY <1>8, <2>2 DEF Carries
<1> QED BY <1>6, <1>7, <1>8

LEMMA PhaseHolds ==
    ASSUME NEW e, Has(e), Holds(e), NEW r, Keeps(r, e, {"phase"}), Continues(r)
    PROVE  Carries
<1>1. Holds(r)
  BY HoldsSame
<1> QED BY <1>1, ContinuesHolds

LEMMA AttemptHolds ==
    ASSUME HoldsInv, CarefulInv, ModelAttempt
    PROVE  Carries
<1>1. Has(eng) /\ Holds(eng)
  BY PresentHolds DEF ModelAttempt, At, Active
<1>2. PICK c \in {eng, compact_local(eng, FALSE)} : Failed(eng) \/ Continues(Attempt(c))
  BY Zenon DEF ModelAttempt
<1>3. Has(c) /\ Holds(c)
  BY <1>1, CompactHolds
<1>4. Keeps(Attempt(c), c, {"phase"})
  BY <1>3 DEF Attempt, Keeps, Has, Fields
<1> QED BY <1>1, <1>2, <1>3, <1>4, PhaseHolds, FailedHolds

LEMMA ErrorHolds ==
    ASSUME HoldsInv, CarefulInv, ModelError
    PROVE  Carries
<1>1. Has(eng) /\ Holds(eng)
  BY PresentHolds DEF ModelError, At, Active
<1> DEFINE c == compact_local(eng, TRUE)
           r == [c EXCEPT !.phase = "attempt"]
<1>2. \/ Failed(eng) \/ Continues(r)
      \/ \E kind : AfterError(kind)
  BY Zenon DEF ModelError
<1>3. Has(c) /\ Holds(c)
  BY <1>1, CompactHolds
<1> HIDE DEF c
<1>4. Keeps(r, c, {"phase"})
  BY <1>3 DEF Keeps, Has, Fields
<1> HIDE DEF r
<1>5. ASSUME NEW kind, AfterError(kind) PROVE Carries
  <2>1. Failed(eng) \/ Keeps(eng', eng, {"phase"})
    BY <1>1, <1>5, AfterErrorKeeps
  <2>2. Failed(eng) \/ (conv' = conv /\ outcome' = outcome)
    BY <1>5 DEF AfterError, Continues
  <2>3. CASE ~Failed(eng)
    <3>1. Holds(eng')
      BY <1>1, <2>1, <2>3, HoldsSame
    <3> QED BY <2>2, <2>3, <3>1 DEF Carries
  <2> QED BY <1>1, <2>3, FailedHolds
<1> QED BY <1>1, <1>2, <1>3, <1>4, <1>5, PhaseHolds, FailedHolds

LEMMA RepliesHolds ==
    ASSUME HoldsInv, CarefulInv, ModelReplies
    PROVE  Carries
<1>1. Has(eng) /\ Holds(eng)
  BY PresentHolds DEF ModelReplies, At, Active
<1> DEFINE Z == conv.spills \cup eng.spills
           Called(e, calls) ==
             [e EXCEPT !.phase = "tools", !.calls = HandoffFirst(e, calls),
                       !.blocks = 0, !.toolTurn = <<>>, !.toolPause = FALSE,
                       !.toolFinal = FALSE, !.prepared = FALSE, !.granted = {},
                       !.ran = [id \in Ids |-> 0], !.approvals = <<>>]
<1>2. ASSUME NEW items, Backed(items, Z), NEW e \in Accounted(eng, items)
      PROVE  /\ Has(e) /\ Holds(e)
             /\ \A r : Keeps(r, e, {"phase", "calls", "toolFinal", "granted", "ran"}) => Holds(r)
  <2>1. Keeps(e, eng, {"history"}) /\ e.history = eng.history \o items
    BY <1>1, AccountedKeeps
  <2>2. Has(e) /\ Holds(e)
    BY <1>1, <1>2, <2>1, HoldsAppends
  <2> DEFINE B == {"phase", "calls", "toolFinal", "granted", "ran"}
  <2>3. B \cap {"history", "entries", "deferrals", "spills"} = {}
    OBVIOUS
  <2> HIDE DEF B
  <2>4. \A r : Keeps(r, e, B) => Holds(r)
    BY <2>2, <2>3, HoldsSame
  <2> QED BY <2>2, <2>4 DEF B
<1>3. /\ Backed(<<Message("assistant")>>, Z) /\ Backed(<<Message("system")>>, Z)
      /\ \A id : Backed(<<Item("call", id, "read", 0)>>, Z)
      /\ \A calls \in CallSets(eng) : Backed(CallItems(calls), Z)
  <2> HIDE DEF Z
  <2>1. /\ Fits(Message("assistant"), Z) /\ Fits(Message("system"), Z)
        /\ \A id : Fits(Item("call", id, "read", 0), Z)
    BY MessageFits, ItemFits
  <2> QED BY <2>1, BackedOne, CallsBacked
<1>4. \/ \E items, e : Backed(items, Z) /\ e \in Accounted(eng, items) /\ Failed(e)
      \/ \E e \in Accounted(eng, <<Message("assistant")>>) :
            \/ Continues([e EXCEPT !.phase = "candidate"])
            \/ Continues([e EXCEPT !.phase = "model", !.blocks = 0])
      \/ \E calls \in CallSets(eng) : \E e \in Accounted(eng, CallItems(calls)) :
            Continues(Called(e, calls))
  <2> HIDE DEF Z
  <2> QED BY <1>3, Zenon DEF ModelReplies
<1> HIDE DEF Z
<1>5. ASSUME NEW items, NEW e, Backed(items, Z), e \in Accounted(eng, items), Failed(e) PROVE Carries
  BY <1>2, <1>5, FailedHolds
<1>6. ASSUME NEW e \in Accounted(eng, <<Message("assistant")>>),
             \/ Continues([e EXCEPT !.phase = "candidate"])
             \/ Continues([e EXCEPT !.phase = "model", !.blocks = 0])
      PROVE  Carries
  <2>1. Has(e) /\ Holds(e)
    BY <1>2, <1>3
  <2>2. PICK r : Continues(r) /\ Keeps(r, e, {"phase"})
    <3>1. /\ Keeps([e EXCEPT !.phase = "candidate"], e, {"phase"})
          /\ Keeps([e EXCEPT !.phase = "model", !.blocks = 0], e, {"phase"})
      BY <2>1 DEF Keeps, Has, Fields
    <3> QED BY <1>6, <3>1
  <2> QED BY <2>1, <2>2, PhaseHolds
<1>7. ASSUME NEW calls \in CallSets(eng), NEW e \in Accounted(eng, CallItems(calls)),
             Continues(Called(e, calls))
      PROVE  Carries
  <2>1. Has(e) /\ \A r : Keeps(r, e, {"phase", "calls", "toolFinal", "granted", "ran"}) => Holds(r)
    BY <1>2, <1>3
  <2>2. Keeps(Called(e, calls), e, {"phase", "calls", "toolFinal", "granted", "ran"})
    BY <2>1 DEF Keeps, Has, Fields
  <2> HIDE DEF Called
  <2> QED BY <1>7, <2>1, <2>2, ContinuesHolds
<1> QED BY <1>4, <1>5, <1>6, <1>7

LEMMA StreamHolds ==
    ASSUME HoldsInv, CarefulInv, StreamBreaks
    PROVE  Carries
<1>1. Has(eng) /\ Holds(eng)
  BY PresentHolds DEF StreamBreaks, At, Active
<1> DEFINE Z == conv.spills \cup eng.spills
<1>2. PICK items : /\ \/ items = <<>> \/ items = <<Message("assistant")>>
                      \/ \E c \in FreshCalls(eng, 1) : items = CallItems(c)
                   /\ Failed(AppendAll(eng, items))
  BY Zenon DEF StreamBreaks
<1>3. Backed(items, Z)
  <2> HIDE DEF Z
  <2> QED BY <1>2, BackedNone, BackedOne, MessageFits, FreshBacked
<1> DEFINE r == AppendAll(eng, items)
<1>4. Keeps(r, eng, {"history"}) /\ r.history = eng.history \o items
  BY <1>1, AppendAllKeeps
<1> HIDE DEF r
<1>5. Has(r) /\ Holds(r)
  BY <1>1, <1>3, <1>4, HoldsAppends
<1> QED BY <1>2, <1>5, FailedHolds DEF r

LEMMA PrepareHolds ==
    ASSUME HoldsInv, CarefulInv, PrepareTools
    PROVE  Carries
<1>1. Has(eng) /\ Holds(eng) /\ CallList(eng.calls)
  BY PresentHolds, HasCareful DEF PrepareTools, At, Active
<1> DEFINE late(deferred) == CallsOf(eng.calls, deferred)
           marks(deferred) == [k \in DOMAIN late(deferred) |-> Deferral(eng, late(deferred)[k], deferred)]
           Ready(decisions, deferred, more) ==
             [Prepared(eng, decisions, late(deferred), deferred) EXCEPT !.granted = @ \cup more]
<1>2. \/ Continues([eng EXCEPT !.prepared = TRUE])
      \/ \E decisions, more, deferred : Continues(Ready(decisions, deferred, more))
  BY ZenonT(60) DEF PrepareTools
<1>3. CASE Continues([eng EXCEPT !.prepared = TRUE])
  <2>1. Keeps([eng EXCEPT !.prepared = TRUE], eng, {"phase"})
    BY <1>1 DEF Keeps, Has, Fields
  <2> QED BY <1>1, <1>3, <2>1, PhaseHolds
<1>4. ASSUME NEW decisions, NEW more, NEW deferred, Continues(Ready(decisions, deferred, more))
      PROVE  Carries
  <2> DEFINE r == Ready(decisions, deferred, more)
             m == marks(deferred)
             l == late(deferred)
  <2>1. CallList(l)
    BY <1>1, CallsOfIds
  <2>2. Journal(m)
    <3> HIDE DEF l
    <3>1. Len(l) \in Nat /\ DOMAIN l = 1..Len(l)
      BY <2>1 DEF CallList
    <3>2. /\ m = [k \in 1..Len(l) |-> m[k]]
          /\ \A k \in 1..Len(l) : m[k] = Deferral(eng, l[k], deferred)
      BY <3>1 DEF l
    <3>3. \A c : EntryLike(Deferral(eng, c, deferred))
      <4>1. \A id, a : Marker(id, "pending", a).kind = "approval" /\ Estimate(Marker(id, "pending", a)) \in Nat
        BY SizeAssumption DEF Marker, Item, Estimate
      <4> QED BY <4>1 DEF Deferral, EntryLike, Notice
    <3> HIDE DEF m
    <3> QED BY <3>1, <3>2, <3>3, JournalOf
  <2>3. /\ Has(r) /\ r.history = eng.history /\ r.spills = eng.spills /\ r.entries = eng.entries
        /\ r.deferrals = eng.deferrals \o m
    <3> HIDE DEF l, late
    <3>1. r = [Prepared(eng, decisions, late(deferred), deferred) EXCEPT !.granted = @ \cup more]
      OBVIOUS
    <3> QED BY <1>1, <3>1 DEF Prepared, Has, Fields
  <2> HIDE DEF m, r
  <2>4. Journal(r.deferrals)
    BY <1>1, <2>2, <2>3, JournalAppends DEF Holds
  <2>5. Holds(r)
    BY <1>1, <2>3, <2>4 DEF Holds
  <2> QED BY <1>4, <2>5, ContinuesHolds DEF r
<1> QED BY <1>2, <1>3, <1>4

LEMMA BatchEndsHolds ==
    ASSUME HoldsInv, CarefulInv, BatchEnds
    PROVE  Carries
<1>1. Has(eng) /\ Holds(eng) /\ CallList(eng.calls)
  BY PresentHolds, HasCareful DEF BatchEnds, At, Active
<1> DEFINE r == FinishedAll(eng)
<1>2. Ends(r, "failed") \/ (eng' = r /\ conv' = conv /\ outcome' = outcome)
  BY Zenon DEF BatchEnds
<1>3. Has(r) /\ Holds(r)
  BY <1>1, FinishedAllHolds
<1> HIDE DEF r
<1> QED BY <1>2, <1>3 DEF Carries

LEMMA HandsOffHolds ==
    ASSUME NEW e, Has(e), Holds(e)
    PROVE  Has(HandsOff(e)) /\ Holds(HandsOff(e))
<1> DEFINE items == SkippedAnswers(e)
           a == AppendAll(e, items)
           b == [a EXCEPT !.calls = <<>>, !.toolTurn = None, !.agent = 2, !.phase = "model",
                          !.left = @ \/ e.deferred # <<>>]
           Z == conv.spills \cup e.spills
<1>1. HandsOff(e) = publish_committed(b)
  BY Zenon DEF HandsOff
<1>2. Keeps(a, e, {"history"}) /\ a.history = e.history \o items
  BY AppendAllKeeps
<1>3. Backed(items, Z)
  <2> DEFINE open == Pick(e.history, {i \in DOMAIN e.history :
                     e.history[i].kind = "call" /\ \E c \in Range(e.calls) : c.id = e.history[i].id})
  <2>1. items = [k \in DOMAIN open |-> SkippedAnswer(e, open[k])]
    BY DEF SkippedAnswers
  <2>2. PICK T : e.history \in Seq(T)
    BY DEF Holds, Backed
  <2>3. open \in Seq(T)
    BY <2>2, RemovedType
  <2> HIDE DEF open, items, Z
  <2>4. Len(open) \in Nat /\ DOMAIN open = 1..Len(open)
    BY <2>3
  <2>5. items = [k \in 1..Len(open) |-> items[k]] /\ \A k \in 1..Len(open) : items[k] = SkippedAnswer(e, open[k])
    BY <2>1, <2>4
  <2>6. \A x : Fits(SkippedAnswer(e, x), Z)
    <3> TAKE x
    <3>1. \/ SkippedAnswer(e, x) = Item("handoff", x.id, "text", 0)
          \/ SkippedAnswer(e, x) = Item("result", x.id, "text", 0)
      BY DEF SkippedAnswer
    <3>2. Fits(Item("handoff", x.id, "text", 0), Z) /\ Fits(Item("result", x.id, "text", 0), Z)
      BY ItemFits
    <3> QED BY <3>1, <3>2
  <2> QED BY <2>4, <2>5, <2>6, BackedOf
<1> HIDE DEF items, a
<1>4. Has(a) /\ Holds(a)
  BY <1>2, <1>3, HoldsAppends
<1>5. Keeps(b, a, {"calls", "agent", "phase", "left"})
  BY <1>4 DEF Keeps, Has, Fields
<1> HIDE DEF b
<1>6. Has(b) /\ Holds(b)
  BY <1>4, <1>5, HoldsSame
<1> QED BY <1>1, <1>6, PublishHolds

LEMMA RunsHolds ==
    ASSUME NEW e, Has(e), Holds(e)
    PROVE  Has(Runs(e)) /\ Holds(Runs(e))
<1> DEFINE id == Head(e.calls).id
           x == [e EXCEPT !.phase = "executing", !.running = {id}, !.ran[id] = @ + 1]
<1>1. Runs(e) = HandsOff(e) \/ Runs(e) = x
  BY Zenon DEF Runs
<1>2. Keeps(x, e, {"phase", "running", "ran"})
  BY DEF Keeps, Has, Fields
<1> HIDE DEF x
<1>3. Has(x) /\ Holds(x)
  BY <1>2, HoldsSame
<1> QED BY <1>1, <1>3, HandsOffHolds

LEMMA DecidedHolds ==
    ASSUME NEW e, Has(e), Holds(e), NEW call, NEW decision
    PROVE  Has(DecidedOn(e, call, decision)) /\ Holds(DecidedOn(e, call, decision))
<1> DEFINE marker == Marker(call.id, MarkerPhase[decision], 0)
           entry == [marker |-> marker, new |-> e.new, at |-> Len(e.history)]
           m == Marked(e, marker, e.new, Len(e.history))
           q == [m EXCEPT !.approvals = Without(@, {call.id}),
                  !.pending = IF decision = "defer" THEN {call.id} ELSE @ \ {call.id},
                  !.granted = IF decision = "approve" THEN @ \cup {call.id} ELSE @]
<1>1. DecidedOn(e, call, decision) = q
  BY Zenon DEF DecidedOn
<1>2. Keeps(m, e, {"entries"}) /\ m.entries = Append(e.entries, entry)
  BY MarkedKeeps
<1>3. EntryLike(entry)
  <2>1. marker.kind = "approval" /\ Estimate(marker) \in Nat
    BY SizeAssumption DEF Marker, Item, Estimate
  <2> HIDE DEF marker
  <2> QED BY <2>1 DEF EntryLike, Notice
<1> HIDE DEF entry, m
<1>4. Journal(m.entries)
  BY <1>2, <1>3, JournalAppends DEF Holds
<1>5. Has(m) /\ m.history = e.history /\ m.spills = e.spills /\ m.deferrals = e.deferrals
  BY <1>2 DEF Keeps, Fields
<1>6. Holds(m)
  BY <1>4, <1>5 DEF Holds
<1>7. Keeps(q, m, {"granted"})
  BY <1>5 DEF Keeps, Has, Fields
<1> HIDE DEF q
<1>8. Has(q) /\ Holds(q)
  BY <1>6, <1>7, HoldsSame
<1> QED BY <1>1, <1>8

LEMMA DeniedHolds ==
    ASSUME NEW e, Has(e), Holds(e), NEW id
    PROVE  Has(Denied(e, id)) /\ Holds(Denied(e, id))
<1> DEFINE item == Item("result", id, "text", 0)
           a == append(e, item)
           r == [a EXCEPT !.calls = Tail(@), !.toolTurn = IF @ = None THEN @ ELSE Append(@, TRUE)]
<1>1. Denied(e, id) = r
  BY Zenon DEF Denied
<1>2. Keeps(a, e, {"history"}) /\ a.history = Append(e.history, item)
  BY AppendKeeps
<1>3. Backed(Append(e.history, item), conv.spills \cup e.spills)
  <2> DEFINE Z == conv.spills \cup e.spills
  <2>1. Backed(e.history, Z)
    BY DEF Holds
  <2> HIDE DEF Z
  <2>2. Fits(item, Z)
    BY ItemFits
  <2> HIDE DEF item
  <2>3. Backed(Append(e.history, item), Z)
    BY <2>1, <2>2, BackedAppend
  <2> QED BY <2>3 DEF Z
<1> HIDE DEF a, item
<1>4. Has(a) /\ Holds(a)
  BY <1>2, <1>3, HoldsBy
<1>5. Keeps(r, a, {"calls"})
  BY <1>4 DEF Keeps, Has, Fields
<1> HIDE DEF r
<1>6. Has(r) /\ Holds(r)
  BY <1>4, <1>5, HoldsSame
<1> QED BY <1>1, <1>6

LEMMA ToolHolds ==
    ASSUME Has(eng), Holds(eng), NEW decision, Tool(decision)
    PROVE  Carries
<1> DEFINE call == Head(eng.calls)
           e == DecidedOn(eng, call, decision)
<1>1. \/ Continues(finish_tool(eng, call.id, "error"))
      \/ Continues(Runs(eng))
      \/ Ends(publish_committed(e), "paused")
      \/ Continues(Runs(e))
      \/ Continues(Denied(e, call.id))
  <2>1. \/ Continues(finish_tool(eng, call.id, "error"))
        \/ Continues(Runs(eng))
        \/ Ends(publish_committed(e), "paused")
        \/ Continues(IF decision = "approve" THEN Runs(e) ELSE Denied(e, call.id))
    BY Zenon DEF Tool
  <2> HIDE DEF e, call
  <2> QED BY <2>1
<1>2. Has(e) /\ Holds(e)
  BY DecidedHolds
<1> HIDE DEF e
<1>3. Has(publish_committed(e)) /\ Holds(publish_committed(e))
  BY <1>2, PublishHolds
<1>4. Holds(Runs(e)) /\ Holds(Runs(eng)) /\ Holds(Denied(e, call.id))
  BY <1>2, RunsHolds, DeniedHolds
<1>5. Holds(finish_tool(eng, call.id, "error"))
  BY FinishHolds
<1> HIDE DEF call
<1>6. CASE Ends(publish_committed(e), "paused")
  BY <1>3, <1>6 DEF Carries
<1> QED BY <1>1, <1>4, <1>5, <1>6, ContinuesHolds

LEMMA ToolStepHolds ==
    ASSUME HoldsInv, CarefulInv, ToolAlone \/ GoGate
    PROVE  Carries
<1>1. Has(eng) /\ Holds(eng)
  BY PresentHolds DEF ToolAlone, GoGate, At, Active
<1>2. Failed(eng) \/ \E decision : Tool(decision)
  BY Zenon DEF ToolAlone, GoGate
<1> QED BY <1>1, <1>2, ToolHolds, FailedHolds

LEMMA ToolReturnsHolds ==
    ASSUME HoldsInv, CarefulInv, ToolReturns
    PROVE  Carries
<1>1. Has(eng) /\ Holds(eng)
  BY PresentHolds DEF ToolReturns, At, Active
<1> DEFINE call == Head(eng.calls)
<1>2. PICK out \in eng.cfg.outputs :
        LET e == [Hears(finish_tool(eng, call.id, out), Reported(call.tool, out)) EXCEPT
                    !.phase = "tools"]
        IN  Ends(e, "failed") \/ (eng' = e /\ conv' = conv /\ outcome' = outcome)
  BY Zenon DEF ToolReturns
<1> DEFINE f == finish_tool(eng, call.id, out)
           h == Hears(f, Reported(call.tool, out))
           r == [h EXCEPT !.phase = "tools"]
<1>3. Has(f) /\ Holds(f)
  BY <1>1, FinishHolds
<1>4. Ends(r, "failed") \/ (eng' = r /\ conv' = conv /\ outcome' = outcome)
  BY <1>2, Zenon
<1> HIDE DEF f, call
<1>5. Keeps(h, f, {"told"})
  <2>1. \A ids : Keeps(Hears(f, ids), f, {"told"})
    BY <1>3, HearsKeeps
  <2> QED BY <2>1, Zenon
<1> HIDE DEF h
<1>6. Has(h) /\ Holds(h)
  BY <1>3, <1>5, HoldsSame
<1>7. Keeps(r, h, {"phase"})
  BY <1>6 DEF Keeps, Has, Fields
<1> HIDE DEF r
<1>8. Has(r) /\ Holds(r)
  BY <1>6, <1>7, HoldsSame
<1> QED BY <1>4, <1>8 DEF Carries

LEMMA ToolsDoneHolds ==
    ASSUME HoldsInv, CarefulInv, ToolsDone
    PROVE  Carries
<1>1. Has(eng) /\ Holds(eng)
  BY PresentHolds DEF ToolsDone, At, Active
<1> DEFINE s == settle_tool_turn(eng)
           d == Deferring(s)
           p == [s EXCEPT !.phase = "model", !.toolPause = FALSE]
           next == CASE ~StopsHere(eng) -> "model"
                     [] StopsHere(eng) /\ Supervised(eng) -> "candidate"
                     [] OTHER -> "finish"
           r == [s EXCEPT !.toolFinal = @ /\ ~StopsHere(eng), !.phase = next]
<1>2. \/ Ends(publish_committed(d), "paused")
      \/ Ends(publish_committed(p), "paused")
      \/ Continues(r)
  <2>1. \/ Ends(publish_committed(IF eng.deferred # <<>> THEN d ELSE p), "paused")
        \/ Continues(r)
    BY Zenon DEF ToolsDone
  <2> HIDE DEF d, p, r
  <2>2. (IF eng.deferred # <<>> THEN d ELSE p) \in {d, p}
    OBVIOUS
  <2> QED BY <2>1, <2>2
<1>3. Has(s) /\ Holds(s)
  BY <1>1, SettleHolds
<1> HIDE DEF s, next
<1>4. Has(d) /\ Holds(d)
  <2>1. /\ Has(d) /\ d.history = s.history /\ d.spills = s.spills
        /\ d.entries = s.entries \o s.deferrals /\ d.deferrals = <<>>
    BY <1>3 DEF Deferring, Has, Fields
  <2> HIDE DEF d
  <2>2. Journal(<<>>)
    <3> DEFINE S == {}
    <3>1. <<>> \in Seq(S) /\ \A x \in S : EntryLike(x)
      OBVIOUS
    <3> HIDE DEF S
    <3> QED BY <3>1 DEF Journal
  <2>3. Journal(d.entries)
    BY <1>3, <2>1, JournalAppends DEF Holds
  <2> QED BY <1>3, <2>1, <2>2, <2>3 DEF Holds
<1>5. Keeps(p, s, {"phase"}) /\ Keeps(r, s, {"phase", "toolFinal"})
  BY <1>3 DEF Keeps, Has, Fields
<1> HIDE DEF d, p, r
<1>6. Has(p) /\ Holds(p) /\ Holds(r)
  <2>1. {"phase", "toolFinal"} \cap {"history", "entries", "deferrals", "spills"} = {}
    OBVIOUS
  <2> QED BY <1>3, <1>5, <2>1, HoldsSame
<1>7. /\ Has(publish_committed(p)) /\ Holds(publish_committed(p))
      /\ Has(publish_committed(d)) /\ Holds(publish_committed(d))
  BY <1>4, <1>6, PublishHolds
<1>8. CASE Ends(publish_committed(d), "paused") \/ Ends(publish_committed(p), "paused")
  BY <1>7, <1>8 DEF Carries
<1> QED BY <1>2, <1>6, <1>8, ContinuesHolds

LEMMA AnsweredHolds ==
    ASSUME NEW e, Has(e), Holds(e), NEW n \in Nat
    PROVE  Holds([publish_committed(Told(e, n)) EXCEPT !.phase = "model"])
<1> DEFINE r == [publish_committed(Told(e, n)) EXCEPT !.phase = "model"]
<1>1. Keeps(r, e, {"history", "phase"}) /\ r.history = e.history \o Users(n)
  BY AnsweredKeeps
<1> HIDE DEF r
<1>2. Backed(Users(n), conv.spills \cup e.spills)
  BY MessagesBacked
<1> DEFINE u == Users(n)
<1> HIDE DEF u
<1>3. Holds(r)
  BY <1>1, <1>2, HoldsAppends DEF u
<1> QED BY <1>3 DEF r

LEMMA CandidateHolds ==
    ASSUME HoldsInv, CarefulInv, Session(env), finish_candidate
    PROVE  Carries
<1>1. Has(eng) /\ Holds(eng)
  BY PresentHolds DEF finish_candidate, At, Active
<1> DEFINE closing == [eng EXCEPT !.phase = "closing",
                                  !.blocks = IF eng.cfg.gate /\ @ < MaxBlocks THEN 0 ELSE @]
           told == [publish_committed(Told(eng, env.inbox)) EXCEPT !.phase = "model"]
<1>2. \/ Failed(eng)
      \/ eng' = told /\ conv' = conv /\ outcome' = outcome
      \/ Continues([eng EXCEPT !.phase = "joining"])
      \/ Continues(Blocked(eng))
      \/ Continues(closing)
  BY Zenon DEF finish_candidate
<1>3. Holds(told)
  BY <1>1, AnsweredHolds DEF Session
<1>4. /\ Keeps(closing, eng, {"phase"})
      /\ Keeps([eng EXCEPT !.phase = "joining"], eng, {"phase"})
  BY <1>1 DEF Keeps, Has, Fields
<1>5. Holds(Blocked(eng))
  <2> DEFINE b == Blocked(eng)
  <2>1. Keeps(b, eng, {"phase", "history"}) /\ b.history = Append(eng.history, Message("note"))
    BY <1>1, ExtendedKeeps
  <2> HIDE DEF b
  <2>2. Backed(b.history, conv.spills \cup eng.spills)
    BY <1>1, <2>1, AppendHolds
  <2>3. Holds(b)
    BY <1>1, <2>1, <2>2, HoldsBy
  <2> QED BY <2>3 DEF b
<1> HIDE DEF told, closing
<1>6. CASE eng' = told /\ conv' = conv /\ outcome' = outcome
  BY <1>3, <1>6 DEF Carries
<1> QED BY <1>1, <1>2, <1>4, <1>5, <1>6, FailedHolds, ContinuesHolds, PhaseHolds

LEMMA JoinsHolds ==
    ASSUME HoldsInv, CarefulInv, Session(env), Joins
    PROVE  Carries
<1>1. Has(eng) /\ Holds(eng)
  BY PresentHolds DEF Joins, At, Active
<1> DEFINE x == Extended(eng)
           v == Notes(Cardinality(News))
<1>2. Keeps(x, eng, {"phase"})
  BY <1>1, ExtendedKeeps
<1>3. eng' = Collected(x) /\ conv' = conv /\ outcome' = outcome
  BY Zenon DEF Joins
<1> HIDE DEF x
<1>4. Has(x) /\ Holds(x)
  BY <1>1, <1>2, HoldsSame
<1>5. Keeps(eng', x, {"history", "told"}) /\ eng'.history = x.history \o v
  BY <1>3, <1>4, CollectedKeeps
<1>6. Backed(v, conv.spills \cup x.spills)
  BY NewsCount, MessagesBacked
<1> HIDE DEF v
<1>7. Holds(eng')
  BY <1>4, <1>5, <1>6, HoldsAppends
<1> QED BY <1>3, <1>7 DEF Carries

LEMMA ClosingHolds ==
    ASSUME HoldsInv, CarefulInv, Session(env), Closing
    PROVE  Carries
<1>1. Has(eng) /\ Holds(eng)
  BY PresentHolds DEF Closing, At, Active
<1> DEFINE told == [publish_committed(Told(eng, env.inbox)) EXCEPT !.phase = "model"]
<1>2. eng' = told \/ eng' = [eng EXCEPT !.phase = "finish"]
  BY Zenon DEF Closing, Closes
<1>3. conv' = conv /\ outcome' = outcome
  BY DEF Closing
<1>4. Holds(told)
  BY <1>1, AnsweredHolds DEF Session
<1> HIDE DEF told
<1>5. CASE eng' = [eng EXCEPT !.phase = "finish"]
  <2>1. Keeps(eng', eng, {"phase"})
    BY <1>1, <1>5 DEF Keeps, Has, Fields
  <2>2. Holds(eng')
    BY <1>1, <2>1, HoldsSame
  <2> QED BY <1>3, <2>2 DEF Carries
<1> QED BY <1>2, <1>3, <1>4, <1>5 DEF Carries

LEMMA FinishStepHolds ==
    ASSUME HoldsInv, CarefulInv, Finish
    PROVE  Carries
<1>1. Has(eng) /\ Holds(eng)
  BY PresentHolds DEF Finish, At, Active
<1>2. Has(publish_committed(eng)) /\ Holds(publish_committed(eng))
  BY <1>1, PublishHolds
<1> QED BY <1>2 DEF Finish, Carries

LEMMA NextHolds ==
    ASSUME HoldsInv, CarefulInv, Session(env), [Next]_vars
    PROVE  HoldsInv'
<1>1. CASE UNCHANGED vars
  BY <1>1 DEF vars, HoldsInv, Holds
<1>2. CASE Step \/ Fails
  <2>1. Carries
    BY <1>2, SameHolds, ModelTurnHolds, AttemptHolds, ErrorHolds, RepliesHolds, StreamHolds, PrepareHolds,
       BatchEndsHolds, ToolStepHolds, ToolReturnsHolds, ToolsDoneHolds, CandidateHolds, JoinsHolds,
       ClosingHolds, FinishStepHolds, Zenon DEF Step
  <2> QED BY <2>1, CarriesHolds
<1>3. CASE Next /\ ~(Step \/ Fails)
  BY <1>3, OwnerHolds, Zenon DEF Next
<1> QED BY <1>1, <1>2, <1>3

LEMMA InitHolds == Init => HoldsInv /\ CarefulInv /\ Session(env)
<1> SUFFICES ASSUME Init PROVE HoldsInv /\ CarefulInv /\ Session(env)
  OBVIOUS
<1>1. CarefulInv /\ eng = Idle /\ outcome = None
  BY DEF Init, CarefulInv
<1>2. Session(env)
  <2>1. DOMAIN NoTasks = 1..Children
    BY DEF NoTasks
  <2> QED BY <2>1 DEF Init, Session, EnvFields
<1>3. ConvFields \subseteq DOMAIN conv /\ conv.history = <<>>
  BY DEF Init, ConvFields
<1> QED BY <1>1, <1>2, <1>3, BackedNone DEF HoldsInv

(* A file that a history names, of a conversation or of a result that its  *)
(* owner has not adopted yet, is among the spills kept with it, whatever   *)
(* compaction, pauses, failures and resumes the runs went through          *)
(* (OutputPolicy::process, Conversation::accept and accept_error).         *)
THEOREM SpillsStayAlive == Spec => []SpillsAlive
<1> DEFINE IInv == HoldsInv /\ CarefulInv /\ Session(env)
<1>1. Init => IInv
  BY InitHolds
<1>2. IInv /\ [Next]_vars => IInv'
  BY NextHolds, NextCareful, SessionNext
<1>3. IInv => SpillsAlive
  BY BackedRefers DEF HoldsInv, SpillsAlive
<1> QED BY <1>1, <1>2, <1>3, PTL DEF Spec

--------------------------------------------------------------------------------
(* What a run has been told, and what its last answer answers.             *)
TaskStatuses == {"absent", "running", "reconciling"} \cup TaskOver
TaskType == [status : TaskStatuses, parent : {0}, delivered : BOOLEAN]

\* Children answer to the session itself, and only what is over is delivered.
Tasks(t) == /\ t \in [1..Children -> TaskType]
            /\ \A id \in 1..Children : t[id].delivered => t[id].status \in TaskOver

\* What was told is staged until a checkpoint delivers it.
Heard(told, t, staged) ==
    /\ told \in [1..Children -> {0, 1}]
    /\ \A id \in 1..Children : told[id] = 1 => id \in staged \/ t[id].delivered
    /\ staged \in SUBSET (1..Children)
    /\ \A id \in staged : t[id].status \in TaskOver

\* Only a child is sent messages, until its queue is closed.
Queue(e, v) ==
    /\ e.cfg.owner # "child" => v.inbox = 0
    /\ e.phase = "finish" => v.inbox = 0 /\ (v.closed \/ e.cfg.owner # "child")

\* Once an answer is final, all children are over and what they found is told.
Joined(e, v) ==
    e.phase \in {"closing", "finish"} /\ e.cfg.children =>
        \A id \in 1..Children : v.tasks[id].status # "absent" =>
            v.tasks[id].status \in TaskOver /\ (id \in v.staged \/ v.tasks[id].delivered)

Answered(h) ==
    \A i \in DOMAIN h : h[i].kind = "user" =>
        \E j \in i + 1..Len(h) : h[j].kind \in {"assistant", "result"}

\* An answer, and a tool's output that may become one, comes last.
Said(e) ==
    \/ e.phase \in {"candidate", "closing", "finish"}
    \/ e.phase \in ToolPhases /\ e.toolFinal
    => Answered(e.history)

Replied(e, v) == Heard(e.told, v.tasks, v.staged) /\ Queue(e, v) /\ Joined(e, v) /\ Said(e)

RepliedInv ==
    /\ Tasks(env.tasks)
    /\ eng = Idle \/ (Replied(eng, env) /\ (outcome = None \/ outcome.owner # "child"))

LEMMA AllVisible ==
    ASSUME NEW t, Tasks(t)
    PROVE  visible(t, 0) = {id \in 1..Children : t[id].status # "absent"}
<1> DEFINE D == DOMAIN t
           n == Cardinality(D)
           A(f) == [k \in 0..n |->
                      [id \in D |-> IF k = 0 THEN {}
                                    ELSE {t[id].parent} \cup
                                         (IF t[id].parent = 0 THEN {} ELSE f[k - 1][t[id].parent])]]
           above == CHOOSE f : f = A(f)
           g == [k \in 0..n |-> [id \in D |-> IF k = 0 THEN {} ELSE {0}]]
<1>1. D = 1..Children /\ \A id \in D : t[id].parent = 0
  BY DEF Tasks, TaskType
<1>2. n = Children
  <2>1. Children \in Nat
    BY EngineAssumption
  <2>2. Cardinality(1..Children) = Children
    BY <2>1, FS_Interval
  <2> QED BY <1>1, <2>2
<1>3. visible(t, 0) = {id \in D : t[id].status # "absent" /\ 0 \in above[n][id]}
  BY Zenon DEF visible
<1> HIDE DEF D, n
<1>4. g = A(g)
  <2>1. ASSUME NEW k \in 0..n, NEW id \in D
        PROVE  g[k][id] = A(g)[k][id]
    BY <1>1, <2>1
  <2>2. g = [k \in 0..n |-> [id \in D |-> g[k][id]]] /\ A(g) = [k \in 0..n |-> [id \in D |-> A(g)[k][id]]]
    OBVIOUS
  <2> HIDE DEF g, A
  <2> QED BY <2>1, <2>2, Zenon
<1>5. above = A(above)
  <2> HIDE DEF A, g
  <2> QED BY <1>4, Zenon
<1>6. ASSUME NEW id \in D PROVE 0 \in above[n][id]
  <2>1. n \in Nat /\ n # 0 /\ n \in 0..n
    BY <1>1, <1>2, <1>6, EngineAssumption
  <2> HIDE DEF above
  <2>2. above[n][id] = {t[id].parent} \cup (IF t[id].parent = 0 THEN {} ELSE above[n - 1][t[id].parent])
    <3>1. A(above)[n][id] = {t[id].parent} \cup (IF t[id].parent = 0 THEN {} ELSE above[n - 1][t[id].parent])
      BY <2>1, <1>6
    <3> HIDE DEF A
    <3> QED BY <1>5, <3>1, Zenon
  <2> QED BY <2>2, <1>1, <1>6
<1> HIDE DEF above
<1> QED BY <1>1, <1>3, <1>6

LEMMA FirstThere ==
    ASSUME NEW S \in SUBSET Nat, S # {}
    PROVE  First(S) \in S
<1>1. \E i \in S : \A j \in S : i <= j
  BY LeastNatural
<1> QED BY <1>1, Zenon DEF First

\* What News are.
LEMMA NewsFresh ==
    ASSUME Tasks(env.tasks)
    PROVE  /\ News \in SUBSET (1..Children)
           /\ \A id \in News : /\ env.tasks[id].status \in TaskOver
                               /\ ~env.tasks[id].delivered /\ id \notin env.staged
<1>1. visible(env.tasks, 0) \subseteq 1..Children
  BY AllVisible
<1> QED BY <1>1 DEF News, collect, stage_results

LEMMA HeardMore ==
    ASSUME NEW told, NEW t, NEW staged, NEW ids, Tasks(t), Heard(told, t, staged),
           ids \in SUBSET (1..Children),
           \A id \in ids : t[id].status \in TaskOver /\ ~t[id].delivered /\ id \notin staged
    PROVE  Heard([id \in DOMAIN told |-> told[id] + (IF id \in ids THEN 1 ELSE 0)], t, staged \cup ids)
<1> DEFINE more == [id \in DOMAIN told |-> told[id] + (IF id \in ids THEN 1 ELSE 0)]
<1>1. DOMAIN told = 1..Children /\ \A id \in 1..Children : told[id] \in {0, 1}
  BY DEF Heard
<1>2. \A id \in ids : told[id] = 0
  BY <1>1 DEF Heard
<1>3. \A id \in 1..Children : more[id] = IF id \in ids THEN 1 ELSE told[id]
  BY <1>1, <1>2
<1>4. more \in [1..Children -> {0, 1}]
  <2>1. more = [id \in 1..Children |-> more[id]]
    BY <1>1
  <2> HIDE DEF more
  <2> QED BY <1>1, <1>3, <2>1
<1> HIDE DEF more
<1>5. Heard(more, t, staged \cup ids)
  BY <1>3, <1>4 DEF Heard
<1> QED BY <1>5 DEF more

LEMMA CommitTasks ==
    ASSUME NEW t, Tasks(t), NEW ids
    PROVE  /\ Tasks(commit_delivery(t, ids))
           /\ \A id \in 1..Children :
                 /\ commit_delivery(t, ids)[id].status = t[id].status
                 /\ commit_delivery(t, ids)[id].delivered <=>
                       (t[id].delivered \/ (id \in ids /\ t[id].status \in TaskOver))
<1> DEFINE c == commit_delivery(t, ids)
<1>1. c = [id \in 1..Children |->
             [t[id] EXCEPT !.delivered = @ \/ (id \in ids /\ t[id].status \in TaskOver)]]
  BY DEF commit_delivery, Tasks
<1>2. ASSUME NEW id \in 1..Children
      PROVE  /\ c[id] \in TaskType /\ c[id].status = t[id].status
             /\ c[id].delivered = (t[id].delivered \/ (id \in ids /\ t[id].status \in TaskOver))
  <2>1. t[id] \in TaskType
    BY <1>2 DEF Tasks
  <2>2. c[id] = [t[id] EXCEPT !.delivered = @ \/ (id \in ids /\ t[id].status \in TaskOver)]
    BY <1>1
  <2> HIDE DEF c
  <2> QED BY <2>1, <2>2 DEF TaskType
<1> HIDE DEF c
<1>3. c \in [1..Children -> TaskType]
  BY <1>1, <1>2
<1>4. Tasks(c)
  BY <1>2, <1>3 DEF Tasks
<1> QED BY <1>2, <1>4 DEF c

LEMMA HeardDelivered ==
    ASSUME NEW told, NEW t, NEW staged, Tasks(t), Heard(told, t, staged)
    PROVE  Heard(told, commit_delivery(t, staged), {})
<1> DEFINE c == commit_delivery(t, staged)
<1>1. \A id \in 1..Children : c[id].delivered <=>
                       (t[id].delivered \/ (id \in staged /\ t[id].status \in TaskOver))
  BY CommitTasks
<1> HIDE DEF c
<1>2. Heard(told, c, {})
  BY <1>1 DEF Heard
<1> QED BY <1>2 DEF c

LEMMA TaskStarts ==
    ASSUME NEW t, Tasks(t), NEW id \in 1..Children, t[id].status = "absent"
    PROVE  /\ Tasks([t EXCEPT ![id] = TaskRecord("running", 0)])
           /\ \A told, staged : Heard(told, t, staged) =>
                 Heard(told, [t EXCEPT ![id] = TaskRecord("running", 0)], staged)
<1> DEFINE x == TaskRecord("running", 0)
           u == [t EXCEPT ![id] = x]
<1>1. x \in TaskType /\ x.status = "running" /\ x.delivered = FALSE
  BY DEF TaskRecord, TaskType, TaskStatuses
<1>2. t \in [1..Children -> TaskType] /\ \A i \in 1..Children : t[i].delivered => t[i].status \in TaskOver
  BY DEF Tasks
<1> HIDE DEF x
<1>3. /\ u \in [1..Children -> TaskType]
      /\ \A i \in 1..Children : u[i] = IF i = id THEN x ELSE t[i]
  BY <1>1, <1>2
<1> HIDE DEF u
<1>4. Tasks(u)
  BY <1>1, <1>2, <1>3 DEF Tasks
<1>5. ASSUME NEW told, NEW staged, Heard(told, t, staged) PROVE Heard(told, u, staged)
  <2>1. id \notin staged /\ ~t[id].delivered
    BY <1>2, <1>5 DEF Heard, TaskOver
  <2>2. \A i \in 1..Children : i # id => u[i] = t[i]
    BY <1>3
  <2> QED BY <1>5, <2>1, <2>2 DEF Heard
<1> QED BY <1>4, <1>5 DEF u, x

LEMMA TaskEnds ==
    ASSUME NEW t, NEW v, NEW id \in 1..Children, NEW status \in {"completed", "reconciling"},
           Tasks(t), t[id].status \in {"running", "reconciling"},
           v = [t EXCEPT ![id].status = status]
    PROVE  /\ Tasks(v)
           /\ \A i \in 1..Children : /\ t[i].status \in TaskOver => v[i].status = t[i].status
                                     /\ t[i].status # "absent" <=> v[i].status # "absent"
                                     /\ v[i].delivered = t[i].delivered
<1> DEFINE x == [t[id] EXCEPT !.status = status]
           u == [t EXCEPT ![id] = x]
<1>1. t \in [1..Children -> TaskType] /\ \A i \in 1..Children : t[i].delivered => t[i].status \in TaskOver
  BY DEF Tasks
<1>2. t[id] \in TaskType
  BY <1>1
<1>3. x \in TaskType /\ x.status = status /\ x.delivered = t[id].delivered
  BY <1>2 DEF TaskType, TaskStatuses, TaskOver
<1>4. u = v
  OBVIOUS
<1> HIDE DEF x
<1>5. /\ u \in [1..Children -> TaskType]
      /\ \A i \in 1..Children : u[i] = IF i = id THEN x ELSE t[i]
  BY <1>1, <1>3
<1> HIDE DEF u
<1>6. t[id].status \notin TaskOver /\ ~t[id].delivered
  BY <1>1 DEF TaskOver
<1>7. Tasks(u)
  BY <1>1, <1>3, <1>5, <1>6 DEF Tasks
<1>8. \A i \in 1..Children : /\ t[i].status \in TaskOver => u[i].status = t[i].status
                             /\ t[i].status # "absent" <=> u[i].status # "absent"
                             /\ u[i].delivered = t[i].delivered
  BY <1>3, <1>5, <1>6
<1> QED BY <1>4, <1>7, <1>8

LEMMA DelegatesHeard ==
    ASSUME Session(env), Tasks(env.tasks), NEW tool, NEW out
    PROVE  LET d == Delegates(tool, out)
           IN  /\ d.inbox = env.inbox /\ d.closed = env.closed /\ Tasks(d.tasks)
               /\ \A told : Heard(told, env.tasks, env.staged) =>
                     Heard([id \in DOMAIN told |-> told[id] + (IF id \in Reported(tool, out) THEN 1 ELSE 0)],
                           d.tasks, d.staged)
<1> DEFINE d == Delegates(tool, out)
           ids == Reported(tool, out)
           free == {id \in 1..Children : env.tasks[id].status = "absent"}
           More(told) == [id \in DOMAIN told |-> told[id] + (IF id \in ids THEN 1 ELSE 0)]
<1>1. /\ ids \in SUBSET (1..Children)
      /\ \A id \in ids : /\ env.tasks[id].status \in TaskOver
                         /\ ~env.tasks[id].delivered /\ id \notin env.staged
  BY NewsFresh DEF Reported
<1>2. \A told : Heard(told, env.tasks, env.staged) => Heard(More(told), env.tasks, env.staged \cup ids)
  <2> SUFFICES ASSUME NEW told, Heard(told, env.tasks, env.staged)
               PROVE  Heard(More(told), env.tasks, env.staged \cup ids)
    OBVIOUS
  <2> HIDE DEF ids
  <2> QED BY <1>1, HeardMore
<1>3. CASE tool = "subagent" /\ out # "error" /\ free # {}
  <2>1. d = [env EXCEPT !.tasks[First(free)] = TaskRecord("running", 0)]
    BY <1>3, Zenon DEF Delegates
  <2>2. First(free) \in free
    BY <1>3, FirstThere
  <2> DEFINE id == First(free)
             u == [env.tasks EXCEPT ![id] = TaskRecord("running", 0)]
  <2>3. id \in 1..Children /\ env.tasks[id].status = "absent"
    BY <2>2
  <2> HIDE DEF id, free
  <2>4. Tasks(u) /\ \A told, staged : Heard(told, env.tasks, staged) => Heard(told, u, staged)
    BY <2>3, TaskStarts
  <2>5. d.tasks = u /\ d.staged = env.staged /\ d.inbox = env.inbox /\ d.closed = env.closed
    <3>1. d = [env EXCEPT !.tasks = u]
      BY <2>1 DEF id
    <3> HIDE DEF u, d
    <3> QED BY <3>1 DEF Session, EnvFields
  <2>6. ids = {}
    BY <1>3 DEF Reported
  <2>7. env.staged \cup ids = env.staged
    BY <2>6
  <2> HIDE DEF u, d, ids, More
  <2>8. \A told : Heard(told, env.tasks, env.staged) => Heard(More(told), u, env.staged)
    BY <1>2, <2>4, <2>7
  <2> QED BY <2>4, <2>5, <2>8 DEF d, More, ids
<1>4. CASE ~(tool = "subagent" /\ out # "error" /\ free # {})
  <2>1. d = [env EXCEPT !.staged = @ \cup ids]
    BY <1>4, Zenon DEF Delegates
  <2> HIDE DEF d, ids, More
  <2>2. d.tasks = env.tasks /\ d.staged = env.staged \cup ids /\ d.inbox = env.inbox /\ d.closed = env.closed
    BY <2>1 DEF Session, EnvFields
  <2> QED BY <1>2, <2>2 DEF d, More, ids
<1> QED BY <1>3, <1>4

Sequence(h) == \E T : h \in Seq(T)

LEMMA AppendAnswered ==
    ASSUME NEW h, Sequence(h), NEW x
    PROVE  /\ Sequence(Append(h, x))
           /\ x.kind \in {"assistant", "result"} => Answered(Append(h, x))
           /\ Answered(h) /\ x.kind # "user" => Answered(Append(h, x))
<1>1. PICK S : h \in Seq(S)
  BY DEF Sequence
<1> DEFINE U == S \cup {x}
           L == Len(h)
           g == Append(h, x)
<1>2. h \in Seq(U) /\ x \in U
  BY <1>1
<1> HIDE DEF U
<1>3. /\ L \in Nat /\ DOMAIN h = 1..L /\ g \in Seq(U) /\ Len(g) = L + 1 /\ DOMAIN g = 1..L + 1
      /\ \A i \in 1..L : g[i] = h[i]
      /\ g[L + 1] = x
  BY <1>2
<1> HIDE DEF g, L
<1>4. ASSUME x.kind \in {"assistant", "result"} PROVE Answered(g)
  <2> SUFFICES ASSUME NEW i \in 1..L + 1, g[i].kind = "user"
               PROVE  \E j \in i + 1..L + 1 : g[j].kind \in {"assistant", "result"}
    BY <1>3 DEF Answered
  <2>1. i # L + 1
    BY <1>3, <1>4
  <2>2. L + 1 \in i + 1..L + 1
    BY <1>3, <2>1
  <2> QED BY <1>3, <1>4, <2>2
<1>5. ASSUME Answered(h), x.kind # "user" PROVE Answered(g)
  <2> SUFFICES ASSUME NEW i \in 1..L + 1, g[i].kind = "user"
               PROVE  \E j \in i + 1..L + 1 : g[j].kind \in {"assistant", "result"}
    BY <1>3 DEF Answered
  <2>1. i \in 1..L
    BY <1>3, <1>5
  <2>2. PICK j \in i + 1..L : h[j].kind \in {"assistant", "result"}
    BY <1>3, <1>5, <2>1 DEF Answered, L
  <2>3. j \in 1..L /\ j \in i + 1..L + 1
    BY <1>3, <2>1
  <2> QED BY <1>3, <2>2, <2>3
<1> QED BY <1>3, <1>4, <1>5 DEF Sequence, g

LEMMA HoldsSequence ==
    ASSUME NEW e, Holds(e)
    PROVE  Sequence(e.history)
BY DEF Holds, Backed, Sequence

(* A step keeps what a run was told, adds to it, or ends the run.          *)
Aside == Fields \ {"cfg", "told"}
Open(e) == e.phase \notin {"closing", "finish"}
Quiet == {"start", "model", "attempt", "waiting", "visible", "backoff", "joining"}

LEMMA QuietSaid ==
    ASSUME NEW e, e.phase \in Quiet
    PROVE  Open(e) /\ Said(e)
BY DEF Quiet, Open, Said, ToolPhases

LEMMA RepliedOpen ==
    ASSUME NEW e, NEW r, NEW v, NEW w, Replied(e, v), r.cfg = e.cfg, Open(r), Said(r),
           w.inbox \in {0, v.inbox}, Heard(r.told, w.tasks, w.staged)
    PROVE  Replied(r, w)
BY DEF Replied, Queue, Joined, Open

LEMMA RepliedStep ==
    ASSUME NEW e, NEW r, NEW v, Replied(e, v), Keeps(r, e, Aside), Open(r), Said(r)
    PROVE  Replied(r, v)
<1>1. r.cfg = e.cfg /\ r.told = e.told
  BY DEF Keeps, Aside, Fields
<1> QED BY <1>1, RepliedOpen DEF Replied

Passes ==
    /\ Tasks(env'.tasks)
    /\ \/ \E e, ending : ending # "paused" /\ Ends(e, ending)
       \/ \E e : Has(e) /\ Replied(e, env') /\ Ends(e, "paused")
       \/ Replied(eng', env') /\ outcome' = outcome

RepliedPresent == /\ Tasks(env.tasks) /\ Replied(eng, env)
                  /\ outcome = None \/ outcome.owner # "child"

LEMMA PresentReplied ==
    ASSUME RepliedInv, eng.phase # "idle"
    PROVE  RepliedPresent
<1>1. eng # Idle
  BY DEF Idle
<1> QED BY <1>1 DEF RepliedInv, RepliedPresent

LEMMA PassesReplied ==
    ASSUME RepliedPresent, Passes
    PROVE  RepliedInv'
<1>1. CASE \E e, ending : ending # "paused" /\ Ends(e, ending)
  <2>1. eng' = Idle
    BY <1>1, EndsIdle
  <2> QED BY <2>1 DEF RepliedInv, Passes
<1>2. CASE \E e : Has(e) /\ Replied(e, env') /\ Ends(e, "paused")
  <2>1. PICK e : Has(e) /\ Replied(e, env') /\ Ends(e, "paused")
    BY <1>2
  <2>2. CASE e.cfg.owner = "child"
    <3>1. eng' = Idle
      BY <2>1, <2>2 DEF Ends, child_status
    <3> QED BY <3>1 DEF RepliedInv, Passes
  <2>3. CASE e.cfg.owner # "child"
    <3> DEFINE r == [e EXCEPT !.paused = TRUE, !.running = {}, !.outputs = <<>>]
    <3>1. eng' = r
      BY <2>1, <2>3 DEF Ends
    <3>2. outcome' = None \/ outcome'.owner # "child"
      <4> DEFINE result(status) == [status |-> status, owner |-> e.cfg.owner, history |-> e.history,
                                    spills |-> e.spills, pending |-> e.pending]
      <4>1. outcome' = None \/ \E status : outcome' = result(status)
        BY <2>1, Zenon DEF Ends
      <4>2. \A status : result(status).owner = e.cfg.owner
        OBVIOUS
      <4> HIDE DEF result
      <4> QED BY <2>3, <4>1, <4>2
    <3>3. Keeps(r, e, {"paused", "running", "outputs"})
      BY <2>1 DEF Keeps, Has, Fields
    <3> HIDE DEF r
    <3>4. /\ r.cfg = e.cfg /\ r.told = e.told /\ r.phase = e.phase /\ r.history = e.history
          /\ r.toolFinal = e.toolFinal
      BY <3>3 DEF Keeps, Fields
    <3>5. Replied(r, env')
      BY <2>1, <3>4 DEF Replied, Queue, Joined, Said
    <3> QED BY <3>1, <3>2, <3>5 DEF RepliedInv, Passes
  <2> QED BY <2>2, <2>3
<1>3. CASE Replied(eng', env') /\ outcome' = outcome
  BY <1>3 DEF RepliedInv, RepliedPresent, Passes
<1> QED BY <1>1, <1>2, <1>3 DEF Passes

LEMMA FailedPasses ==
    ASSUME RepliedPresent, NEW e, Failed(e)
    PROVE  Passes
<1>1. Ends(e, "failed") /\ env' = env
  BY DEF Failed
<1>2. "failed" # "paused"
  OBVIOUS
<1> QED BY <1>1, <1>2 DEF Passes, RepliedPresent

LEMMA ContinuesPasses ==
    ASSUME RepliedPresent, NEW r, Continues(r), Keeps(r, eng, Aside), Open(r), Said(r)
    PROVE  Passes
<1>1. eng' = r /\ env' = env /\ outcome' = outcome
  BY DEF Continues
<1>2. Replied(r, env)
  BY RepliedStep DEF RepliedPresent
<1> QED BY <1>1, <1>2 DEF Passes, RepliedPresent

LEMMA KeepsAside ==
    ASSUME NEW e, NEW r, NEW changed, Keeps(r, e, changed), changed \cap {"cfg", "told"} = {}
    PROVE  Keeps(r, e, Aside)
<1>1. Fields \ Aside \subseteq Fields \ changed
  BY DEF Aside
<1> QED BY <1>1 DEF Keeps

LEMMA MovePasses ==
    ASSUME RepliedPresent, NEW r, Continues(r), NEW changed, Keeps(r, eng, changed),
           changed \cap {"cfg", "told"} = {}, r.phase \in Quiet
    PROVE  Passes
BY KeepsAside, QuietSaid, ContinuesPasses

LEMMA WaitingPasses ==
    ASSUME CarefulInv, RepliedInv, Start \/ Interrupt \/ Visible \/ Backoff \/ StreamBreaks \/ Fails
    PROVE  Passes
<1>1. RepliedPresent /\ Has(eng)
  BY PresentReplied, Present DEF Start, Interrupt, Visible, Backoff, StreamBreaks, Fails, At, Active
<1>2. \/ \E e : Failed(e)
      \/ \E p \in {"model", "visible", "attempt"} : Continues([eng EXCEPT !.phase = p])
  BY DEF Start, Interrupt, Visible, Backoff, StreamBreaks, Fails
<1>3. \A p : Keeps([eng EXCEPT !.phase = p], eng, {"phase"}) /\ [eng EXCEPT !.phase = p].phase = p
  BY <1>1 DEF Keeps, Has, Fields
<1>4. ASSUME NEW p \in {"model", "visible", "attempt"}, Continues([eng EXCEPT !.phase = p])
      PROVE  Passes
  <2> DEFINE r == [eng EXCEPT !.phase = p]
  <2>1. Continues(r) /\ Keeps(r, eng, {"phase"}) /\ r.phase \in Quiet
    BY <1>3, <1>4 DEF Quiet
  <2> HIDE DEF r
  <2> QED BY <1>1, <2>1, MovePasses
<1> QED BY <1>1, <1>2, <1>4, FailedPasses

LEMMA AttemptPasses ==
    ASSUME CarefulInv, RepliedInv, ModelAttempt
    PROVE  Passes
<1>1. RepliedPresent /\ Has(eng)
  BY PresentReplied, Present DEF ModelAttempt, At, Active
<1>2. PICK c \in {eng, compact_local(eng, FALSE)} : Failed(eng) \/ Continues(Attempt(c))
  BY Zenon DEF ModelAttempt
<1>3. Keeps(c, eng, {"history", "entries"})
  BY <1>1, CompactKeeps, KeepsItself
<1> DEFINE r == Attempt(c)
<1>4. Keeps(r, eng, {"phase", "history", "entries"}) /\ r.phase = "waiting"
  BY <1>3 DEF Attempt, Keeps, Has, Fields
<1> HIDE DEF r
<1>5. CASE Continues(r)
  BY <1>1, <1>4, <1>5, MovePasses DEF Quiet
<1> QED BY <1>1, <1>2, <1>5, FailedPasses DEF r

LEMMA ErrorPasses ==
    ASSUME CarefulInv, RepliedInv, ModelError
    PROVE  Passes
<1>1. RepliedPresent /\ Has(eng)
  BY PresentReplied, Present DEF ModelError, At, Active
<1> DEFINE c == compact_local(eng, TRUE)
           r == [c EXCEPT !.phase = "attempt"]
<1>2. \/ Failed(eng) \/ Continues(r)
      \/ \E kind : AfterError(kind)
  BY Zenon DEF ModelError
<1>3. Keeps(c, eng, {"history", "entries"})
  BY <1>1, CompactKeeps
<1> HIDE DEF c
<1>4. Keeps(r, eng, {"phase", "history", "entries"}) /\ r.phase = "attempt"
  BY <1>3 DEF Keeps, Has, Fields
<1> HIDE DEF r
<1>5. CASE Continues(r)
  BY <1>1, <1>4, <1>5, MovePasses DEF Quiet
<1>6. ASSUME NEW kind, AfterError(kind) PROVE Passes
  <2>1. Failed(eng) \/ (Keeps(eng', eng, {"phase"}) /\ eng'.phase \in {"attempt", "backoff"})
    BY <1>1, <1>6, AfterErrorKeeps
  <2>2. Failed(eng) \/ Continues(eng')
    BY <1>6 DEF AfterError, Continues
  <2>3. CASE Continues(eng') /\ Keeps(eng', eng, {"phase"}) /\ eng'.phase \in {"attempt", "backoff"}
    BY <1>1, <2>3, MovePasses DEF Quiet
  <2> QED BY <1>1, <2>1, <2>2, <2>3, FailedPasses
<1> QED BY <1>1, <1>2, <1>5, <1>6, FailedPasses

LEMMA RepliesPasses ==
    ASSUME HoldsInv, CarefulInv, RepliedInv, ModelReplies
    PROVE  Passes
<1>1. RepliedPresent /\ Has(eng) /\ Holds(eng)
  BY PresentReplied, PresentHolds DEF ModelReplies, At, Active
<1> DEFINE said == <<Message("assistant")>>
           Called(e, calls) ==
             [e EXCEPT !.phase = "tools", !.calls = HandoffFirst(e, calls),
                       !.blocks = 0, !.toolTurn = <<>>, !.toolPause = FALSE,
                       !.toolFinal = FALSE, !.prepared = FALSE, !.granted = {},
                       !.ran = [id \in Ids |-> 0], !.approvals = <<>>]
<1>2. \/ \E e : Failed(e)
      \/ \E e \in Accounted(eng, said) :
            \/ Continues([e EXCEPT !.phase = "candidate"])
            \/ Continues([e EXCEPT !.phase = "model", !.blocks = 0])
      \/ \E calls : \E e \in Accounted(eng, CallItems(calls)) : Continues(Called(e, calls))
  BY Zenon DEF ModelReplies
<1>3. ASSUME NEW e \in Accounted(eng, said),
             \/ Continues([e EXCEPT !.phase = "candidate"])
             \/ Continues([e EXCEPT !.phase = "model", !.blocks = 0])
      PROVE  Passes
  <2>1. Keeps(e, eng, {"history"}) /\ e.history = eng.history \o said
    BY <1>1, AccountedKeeps
  <2>2. PICK r : Continues(r) /\ Keeps(r, e, {"phase"}) /\ r.phase \in {"candidate", "model"}
    <3> DEFINE c == [e EXCEPT !.phase = "candidate"]
               m == [e EXCEPT !.phase = "model", !.blocks = 0]
    <3>1. /\ Keeps(c, e, {"phase"}) /\ c.phase = "candidate"
          /\ Keeps(m, e, {"phase"}) /\ m.phase = "model"
      BY <2>1 DEF Keeps, Has, Fields
    <3>2. Continues(c) \/ Continues(m)
      BY <1>3
    <3> HIDE DEF c, m
    <3> QED BY <3>1, <3>2
  <2>3. Keeps(r, eng, {"history", "phase"}) /\ r.history = e.history
    BY <2>1, <2>2 DEF Keeps, Fields
  <2>4. Answered(r.history)
    <3>1. PICK T : eng.history \in Seq(T)
      BY <1>1, HoldsSequence DEF Sequence
    <3> DEFINE x == Message("assistant")
    <3>2. x.kind = "assistant"
      BY DEF Message, Item
    <3> HIDE DEF x
    <3>3. eng.history \o <<x>> = Append(eng.history, x)
      <4> DEFINE U == T \cup {x}
      <4>1. eng.history \in Seq(U) /\ x \in U
        BY <3>1
      <4> HIDE DEF U
      <4> QED BY <4>1
    <3>4. Answered(Append(eng.history, x))
      BY <1>1, <3>2, HoldsSequence, AppendAnswered
    <3> QED BY <2>1, <2>3, <3>3, <3>4 DEF x
  <2>5. Open(r) /\ Said(r)
    BY <2>2, <2>4 DEF Open, Said
  <2>6. Keeps(r, eng, Aside)
    BY <2>3, KeepsAside
  <2> QED BY <1>1, <2>2, <2>5, <2>6, ContinuesPasses
<1>4. ASSUME NEW calls, NEW e \in Accounted(eng, CallItems(calls)), Continues(Called(e, calls))
      PROVE  Passes
  <2>1. Keeps(e, eng, {"history"})
    BY <1>1, AccountedKeeps
  <2> DEFINE r == Called(e, calls)
  <2>2. Has(r) /\ r.phase = "tools" /\ r.cfg = e.cfg /\ r.told = e.told /\ r.toolFinal = FALSE
    BY <2>1 DEF Keeps, Has, Fields
  <2>3. Continues(r)
    BY <1>4
  <2> HIDE DEF r, Called
  <2>4. e.cfg = eng.cfg /\ e.told = eng.told
    BY <2>1 DEF Keeps, Fields
  <2>5. Keeps(r, eng, Aside)
    BY <2>2, <2>4 DEF Keeps, Aside
  <2>6. Open(r) /\ Said(r)
    BY <2>2 DEF Open, Said
  <2> QED BY <1>1, <2>3, <2>5, <2>6, ContinuesPasses
<1> QED BY <1>1, <1>2, <1>3, <1>4, FailedPasses

(* Tools: what they say comes after what was asked.                        *)
LEMMA ToolPasses ==
    ASSUME RepliedPresent, NEW r, Continues(r), NEW changed, Keeps(r, eng, changed),
           changed \cap {"cfg", "told", "history", "toolFinal"} = {},
           eng.phase \in ToolPhases, r.phase \in ToolPhases
    PROVE  Passes
<1>1. r.history = eng.history /\ r.toolFinal = eng.toolFinal
  BY DEF Keeps, Fields
<1>2. Open(r) /\ Said(r)
  BY <1>1 DEF Open, Said, ToolPhases, RepliedPresent, Replied
<1>3. changed \cap {"cfg", "told"} = {}
  OBVIOUS
<1> QED BY <1>2, <1>3, KeepsAside, ContinuesPasses

LEMMA BatchPasses ==
    ASSUME CarefulInv, RepliedInv, ToBatch \/ BatchStarts \/ GoGateEnds
    PROVE  Passes
<1>1. RepliedPresent /\ Has(eng)
  BY PresentReplied, Present DEF ToBatch, BatchStarts, GoGateEnds, At, Active
<1>2. CASE ToBatch
  <2> DEFINE r == [eng EXCEPT !.phase = "batch"]
  <2>1. Continues(r) /\ eng.phase = "tools"
    BY <1>2 DEF ToBatch, At
  <2>2. Keeps(r, eng, {"phase"}) /\ r.phase = "batch"
    BY <1>1 DEF Keeps, Has, Fields
  <2> HIDE DEF r
  <2> QED BY <1>1, <2>1, <2>2, ToolPasses DEF ToolPhases
<1>3. CASE BatchStarts
  <2>1. PICK k : Continues([eng EXCEPT !.running = @ \cup {eng.calls[k].id},
                                       !.ran[eng.calls[k].id] = @ + 1])
    BY <1>3, Zenon DEF BatchStarts
  <2> DEFINE r == [eng EXCEPT !.running = @ \cup {eng.calls[k].id}, !.ran[eng.calls[k].id] = @ + 1]
  <2>2. Continues(r) /\ eng.phase = "batch"
    BY <1>3, <2>1 DEF BatchStarts, At
  <2>3. Keeps(r, eng, {"running", "ran"}) /\ r.phase = eng.phase
    BY <1>1 DEF Keeps, Has, Fields
  <2> HIDE DEF r
  <2> QED BY <1>1, <2>2, <2>3, ToolPasses DEF ToolPhases
<1>4. CASE GoGateEnds
  <2> DEFINE r == [eng EXCEPT !.go = FALSE, !.turns = 0, !.max = eng.cfg.turns, !.blocks = 0,
                              !.streak = 0, !.escalated = FALSE, !.fallback = None,
                              !.calibration = 100, !.toolFinal = FALSE]
  <2>1. Continues(r) /\ eng.phase \in {"tools", "model"}
    BY <1>4 DEF GoGateEnds
  <2>2. Keeps(r, eng, {"toolFinal"}) /\ r.phase = eng.phase /\ r.toolFinal = FALSE
    BY <1>1 DEF Keeps, Has, Fields
  <2> HIDE DEF r
  <2>3. Open(r) /\ Said(r)
    BY <2>1, <2>2 DEF Open, Said
  <2>4. Keeps(r, eng, Aside)
    BY <2>2, KeepsAside
  <2> QED BY <1>1, <2>1, <2>3, <2>4, ContinuesPasses
<1> QED BY <1>2, <1>3, <1>4

LEMMA PreparePasses ==
    ASSUME CarefulInv, RepliedInv, PrepareTools
    PROVE  Passes
<1>1. RepliedPresent /\ Has(eng) /\ eng.phase = "tools"
  BY PresentReplied, Present DEF PrepareTools, At, Active
<1> DEFINE Ready(decisions, deferred, more) ==
             [Prepared(eng, decisions, CallsOf(eng.calls, deferred), deferred) EXCEPT !.granted = @ \cup more]
<1>2. \/ Continues([eng EXCEPT !.prepared = TRUE])
      \/ \E decisions, more, deferred : Continues(Ready(decisions, deferred, more))
  BY ZenonT(60) DEF PrepareTools
<1>3. CASE Continues([eng EXCEPT !.prepared = TRUE])
  <2> DEFINE r == [eng EXCEPT !.prepared = TRUE]
  <2>1. Continues(r) /\ Keeps(r, eng, {"phase"}) /\ r.phase = "tools"
    BY <1>1, <1>3 DEF Keeps, Has, Fields
  <2> HIDE DEF r
  <2> QED BY <1>1, <2>1, ToolPasses DEF ToolPhases
<1>4. ASSUME NEW decisions, NEW more, NEW deferred, Continues(Ready(decisions, deferred, more))
      PROVE  Passes
  <2> DEFINE r == Ready(decisions, deferred, more)
             changed == {"calls", "deferred", "deferrals", "granted"}
  <2>1. Keeps(r, eng, changed) /\ r.phase = "tools"
    BY <1>1 DEF Prepared, Keeps, Has, Fields
  <2>2. changed \cap {"cfg", "told", "history", "toolFinal"} = {}
    OBVIOUS
  <2> HIDE DEF r, changed
  <2> QED BY <1>1, <1>4, <2>1, <2>2, ToolPasses DEF ToolPhases, r
<1> QED BY <1>2, <1>3, <1>4

LEMMA FinishSaid ==
    ASSUME NEW e, Has(e), Sequence(e.history), NEW id, NEW out
    PROVE  LET r == finish_tool(e, id, out)
           IN  Has(r) /\ Sequence(r.history) /\ Answered(r.history)
<1> DEFINE r == finish_tool(e, id, out)
<1>1. Has(r) /\ r.history = Processed(e, id, out).history
  BY FinishKeeps DEF Keeps
<1>2. PICK tag, file : r.history = Append(e.history, Item("result", id, tag, file))
  BY <1>1, ProcessedKeeps
<1> DEFINE x == Item("result", id, tag, file)
<1>3. x.kind = "result"
  BY DEF Item
<1> HIDE DEF x, r
<1>4. Sequence(Append(e.history, x)) /\ Answered(Append(e.history, x))
  BY <1>3, AppendAnswered
<1> QED BY <1>1, <1>2, <1>4 DEF r, x

LEMMA ToolSays ==
    ASSUME RepliedPresent, Has(eng), Holds(eng), eng.phase = "tools", NEW decision, Tool(decision)
    PROVE  Passes
<1> DEFINE call == Head(eng.calls)
           e == DecidedOn(eng, call, decision)
<1>1. \/ Continues(finish_tool(eng, call.id, "error"))
      \/ Continues(Runs(eng))
      \/ Ends(publish_committed(e), "paused") /\ UNCHANGED env
      \/ Continues(Runs(e))
      \/ Continues(Denied(e, call.id))
  <2>1. \/ Continues(finish_tool(eng, call.id, "error"))
        \/ Continues(Runs(eng))
        \/ Ends(publish_committed(e), "paused") /\ UNCHANGED env
        \/ Continues(IF decision = "approve" THEN Runs(e) ELSE Denied(e, call.id))
    BY Zenon DEF Tool
  <2> HIDE DEF e, call
  <2> QED BY <2>1
<1>2. Keeps(e, eng, {"entries", "granted"})
  BY DecidedKeeps
<1> HIDE DEF e, call
<1>3. /\ Has(e) /\ e.history = eng.history /\ e.toolFinal = eng.toolFinal /\ e.phase = "tools"
      /\ Sequence(eng.history)
  BY <1>2, HoldsSequence DEF Keeps, Fields
<1>4. ASSUME NEW d, Has(d), d.phase = "tools", Keeps(d, eng, {"entries", "granted"}), Continues(Runs(d))
      PROVE  Passes
  <2> DEFINE id == Head(d.calls).id
             x == [d EXCEPT !.phase = "executing", !.running = {id}, !.ran[id] = @ + 1]
  <2>1. Runs(d) = HandsOff(d) \/ Runs(d) = x
    BY Zenon DEF Runs
  <2>2. CASE Runs(d) = HandsOff(d)
    <3> DEFINE r == HandsOff(d)
    <3>1. Keeps(r, d, {"history", "calls", "agent", "phase", "left"}) /\ r.phase = "model"
      BY <1>4, HandsOffKeeps
    <3> HIDE DEF r
    <3>2. Keeps(r, eng, {"history", "calls", "agent", "phase", "left", "entries", "granted"})
      BY <1>4, <3>1 DEF Keeps
    <3>3. Continues(r)
      BY <1>4, <2>2 DEF r
    <3>4. {"history", "calls", "agent", "phase", "left", "entries", "granted"} \cap {"cfg", "told"} = {}
      OBVIOUS
    <3> DEFINE changed == {"history", "calls", "agent", "phase", "left", "entries", "granted"}
    <3> HIDE DEF changed
    <3> QED BY <3>1, <3>2, <3>3, <3>4, MovePasses DEF Quiet, changed
  <2>3. CASE Runs(d) = x
    <3>1. Keeps(x, d, {"phase", "running", "ran"}) /\ x.phase = "executing"
      BY <1>4 DEF Keeps, Has, Fields
    <3>2. Continues(x)
      BY <1>4, <2>3
    <3> HIDE DEF x
    <3> DEFINE changed == {"phase", "running", "ran", "entries", "granted"}
    <3>3. Keeps(x, eng, changed)
      BY <1>4, <3>1 DEF Keeps
    <3>4. changed \cap {"cfg", "told", "history", "toolFinal"} = {}
      OBVIOUS
    <3> HIDE DEF changed
    <3> QED BY <3>1, <3>2, <3>3, <3>4, ToolPasses DEF ToolPhases
  <2> QED BY <2>1, <2>2, <2>3
<1>5. CASE Continues(finish_tool(eng, call.id, "error"))
  <2> DEFINE r == finish_tool(eng, call.id, "error")
             changed == {"history", "spills", "calls", "toolFinal", "running"}
  <2>1. Keeps(r, eng, changed)
    BY FinishKeeps
  <2>2. Answered(r.history)
    BY <1>3, FinishSaid
  <2>3. Continues(r)
    BY <1>5
  <2>4. changed \cap {"cfg", "told"} = {}
    OBVIOUS
  <2> HIDE DEF r
  <2>5. r.phase = "tools"
    BY <2>1 DEF Keeps, Fields
  <2> HIDE DEF changed
  <2>6. Keeps(r, eng, Aside) /\ Open(r) /\ Said(r)
    BY <2>1, <2>2, <2>4, <2>5, KeepsAside DEF Open, Said
  <2> QED BY <2>3, <2>6, ContinuesPasses
<1>6. CASE Ends(publish_committed(e), "paused") /\ UNCHANGED env
  <2> DEFINE r == publish_committed(e)
  <2>1. Keeps(r, e, {})
    BY <1>3, PublishKeeps
  <2> HIDE DEF r
  <2>2. /\ Keeps(r, eng, Aside) /\ r.phase = "tools" /\ r.history = eng.history
        /\ r.toolFinal = eng.toolFinal
    BY <1>2, <1>3, <2>1 DEF Keeps, Fields, Aside
  <2>3. Open(r) /\ Said(r)
    BY <2>2 DEF Open, Said, ToolPhases, RepliedPresent, Replied
  <2>4. Replied(r, env)
    BY <2>2, <2>3, RepliedStep DEF RepliedPresent
  <2> QED BY <1>6, <2>1, <2>4 DEF Passes, RepliedPresent, r, Keeps
<1>7. CASE Continues(Denied(e, call.id))
  <2> DEFINE item == Item("result", call.id, "text", 0)
             a == append(e, item)
             r == [a EXCEPT !.calls = Tail(@), !.toolTurn = IF @ = None THEN @ ELSE Append(@, TRUE)]
  <2>1. Denied(e, call.id) = r
    BY Zenon DEF Denied
  <2>2. item.kind = "result"
    BY DEF Item
  <2> HIDE DEF item
  <2>3. Keeps(a, e, {"history"}) /\ a.history = Append(e.history, item)
    BY <1>3, AppendKeeps
  <2>4. Answered(Append(eng.history, item))
    BY <1>3, <2>2, AppendAnswered
  <2> HIDE DEF a
  <2>5. Keeps(r, a, {"calls"})
    BY <2>3 DEF Keeps, Has, Fields
  <2> HIDE DEF r
  <2>6. r.history = a.history /\ r.phase = "tools"
    BY <1>3, <2>3, <2>5 DEF Keeps, Fields
  <2>7. Keeps(r, eng, Aside)
    BY <1>2, <2>3, <2>5 DEF Keeps, Aside, Fields
  <2>8. Open(r) /\ Said(r)
    BY <1>3, <2>3, <2>4, <2>6 DEF Open, Said
  <2> QED BY <1>7, <2>1, <2>7, <2>8, ContinuesPasses
<1>8. Keeps(eng, eng, {"entries", "granted"})
  BY KeepsItself
<1> QED BY <1>1, <1>2, <1>3, <1>4, <1>5, <1>6, <1>7, <1>8

LEMMA ToolAlonePasses ==
    ASSUME HoldsInv, CarefulInv, RepliedInv, ToolAlone \/ GoGate
    PROVE  Passes
<1>1. RepliedPresent /\ Has(eng) /\ Holds(eng) /\ eng.phase = "tools"
  BY PresentReplied, PresentHolds DEF ToolAlone, GoGate, At, Active
<1>2. Failed(eng) \/ \E decision : Tool(decision)
  BY Zenon DEF ToolAlone, GoGate
<1> QED BY <1>1, <1>2, ToolSays, FailedPasses

LEMMA SpilledFields ==
    ASSUME NEW e, NEW v, Session(v)
    PROVE  LET w == Spilled(e, v)
           IN  w.tasks = v.tasks /\ w.staged = v.staged /\ w.inbox = v.inbox /\ w.closed = v.closed
BY DEF Spilled, Session, EnvFields

LEMMA DeliveredFields ==
    ASSUME NEW v, Session(v), NEW ids
    PROVE  LET w == Delivered(v, ids)
           IN  /\ w.tasks = commit_delivery(v.tasks, ids) /\ w.staged = {}
               /\ w.inbox = v.inbox /\ w.closed = v.closed
BY DEF Delivered, Session, EnvFields

LEMMA TellsPasses ==
    ASSUME RepliedPresent, outcome' = outcome, eng'.cfg = eng.cfg, Open(eng'), Said(eng'),
           env'.inbox \in {0, env.inbox}, Tasks(env'.tasks), Heard(eng'.told, env'.tasks, env'.staged)
    PROVE  Passes
BY RepliedOpen DEF RepliedPresent, Passes

LEMMA BatchReturnsPasses ==
    ASSUME CarefulInv, RepliedInv, Session(env), BatchReturns
    PROVE  Passes
<1>1. RepliedPresent /\ Has(eng) /\ eng.phase = "batch"
  BY PresentReplied, Present DEF BatchReturns, At, Active
<1> DEFINE Back(e, id, out) == [e EXCEPT !.running = @ \ {id}, !.outputs = Output(@, id, out)]
<1>2. \/ \E id, out : Continues(Back(eng, id, out))
      \/ \E id, tool, out : /\ env' = Delegates(tool, out) /\ outcome' = outcome
                            /\ eng' = Back(Hears(eng, Reported(tool, out)), id, out)
  BY Zenon DEF BatchReturns
<1>3. \A e, id, out : Has(e) => /\ Keeps(Back(e, id, out), e, {"running", "outputs"})
                                /\ Back(e, id, out).phase = e.phase
  BY DEF Keeps, Has, Fields
<1> HIDE DEF Back
<1>4. ASSUME NEW id, NEW out, Continues(Back(eng, id, out)) PROVE Passes
  <2> DEFINE r == Back(eng, id, out)
  <2>1. Continues(r) /\ Keeps(r, eng, {"running", "outputs"}) /\ r.phase = "batch"
    BY <1>1, <1>3, <1>4
  <2> HIDE DEF r
  <2> QED BY <1>1, <2>1, ToolPasses DEF ToolPhases
<1>5. ASSUME NEW id, NEW tool, NEW out, env' = Delegates(tool, out), outcome' = outcome,
             eng' = Back(Hears(eng, Reported(tool, out)), id, out)
      PROVE  Passes
  <2> DEFINE ids == Reported(tool, out)
             h == Hears(eng, ids)
  <2>1. /\ Keeps(h, eng, {"told"})
        /\ h.told = [i \in DOMAIN eng.told |-> eng.told[i] + (IF i \in ids THEN 1 ELSE 0)]
    BY <1>1, HearsKeeps
  <2>2. eng' = Back(h, id, out)
    BY <1>5
  <2> HIDE DEF h
  <2>3. Keeps(eng', h, {"running", "outputs"}) /\ eng'.phase = h.phase
    BY <1>3, <2>1, <2>2 DEF Keeps
  <2>4. /\ eng'.cfg = eng.cfg /\ eng'.told = h.told /\ eng'.phase = "batch"
        /\ eng'.history = eng.history /\ eng'.toolFinal = eng.toolFinal
    BY <1>1, <2>1, <2>3 DEF Keeps, Fields
  <2>5. /\ env'.inbox = env.inbox /\ Tasks(env'.tasks)
        /\ \A told : Heard(told, env.tasks, env.staged) =>
              Heard([i \in DOMAIN told |-> told[i] + (IF i \in ids THEN 1 ELSE 0)], env'.tasks, env'.staged)
    BY <1>1, <1>5, DelegatesHeard DEF RepliedPresent
  <2>6. Heard(eng'.told, env'.tasks, env'.staged)
    <3>1. Heard(eng.told, env.tasks, env.staged)
      BY <1>1 DEF RepliedPresent, Replied
    <3> HIDE DEF ids
    <3> QED BY <2>1, <2>4, <2>5, <3>1
  <2>7. Open(eng') /\ Said(eng')
    BY <1>1, <2>4 DEF Open, Said, RepliedPresent, Replied, ToolPhases
  <2> QED BY <1>1, <1>5, <2>4, <2>5, <2>6, <2>7, TellsPasses
<1> QED BY <1>2, <1>4, <1>5

\* What is said by a batch: the results come after what was asked.
Spoken(e) == Has(e) /\ Sequence(e.history) /\ (e.toolFinal => Answered(e.history))

LEMMA FinishedSaid ==
    ASSUME NEW e, Spoken(e), NEW id, NEW out
    PROVE  Spoken(Finished(e, id, out))
<1>1. CASE out = "lost"
  <2> DEFINE r == [e EXCEPT !.calls = CallsOf(@, Ids \ {id})]
  <2>1. Finished(e, id, out) = r
    BY <1>1, Zenon DEF Finished
  <2>2. Keeps(r, e, {"calls"})
    BY DEF Spoken, Keeps, Has, Fields
  <2> HIDE DEF r
  <2>3. Has(r) /\ r.history = e.history /\ r.toolFinal = e.toolFinal
    BY <2>2 DEF Keeps, Fields
  <2> QED BY <2>1, <2>3 DEF Spoken
<1>2. CASE out # "lost"
  <2>1. Finished(e, id, out) = finish_tool(e, id, out)
    BY <1>2, Zenon DEF Finished
  <2> QED BY <2>1, FinishSaid DEF Spoken
<1> QED BY <1>1, <1>2

LEMMA FinishedAllSaid ==
    ASSUME NEW e, Spoken(e), CallList(e.calls)
    PROVE  Spoken(FinishedAll(e))
<1> DEFINE L == Len(e.calls)
           b == BatchBase(e)
<1>1. e.calls \in Seq(CallRecord) /\ L \in Nat
  BY DEF CallList
<1>2. PICK f : /\ f[0] = b /\ FinishedAll(e) = f[L]
               /\ \A n \in 1..L : f[n] = BatchNext(e, f[n - 1], n)
  BY <1>1, FinishedAllSteps
<1>3. Keeps(b, e, {"outputs", "phase"})
  BY DEF Spoken, BatchBase, Keeps, Has, Fields
<1> HIDE DEF b, L
<1> DEFINE P(n) == Spoken(f[n])
           T == {n \in Nat : n <= L => P(n)}
<1>4. 0 \in T
  <2>1. Has(b) /\ b.history = e.history /\ b.toolFinal = e.toolFinal
    BY <1>3 DEF Keeps, Fields
  <2>2. P(0)
    BY <1>2, <2>1 DEF Spoken
  <2> QED BY <2>2
<1>5. ASSUME NEW n \in Nat, n \in T PROVE n + 1 \in T
  <2> SUFFICES ASSUME n + 1 <= L PROVE P(n + 1)
    OBVIOUS
  <2>1. P(n) /\ n + 1 \in 1..L /\ (n + 1) - 1 = n
    BY <1>5, <1>1
  <2> DEFINE id == e.calls[n + 1].id
             out == e.outputs[id]
             d == f[n]
  <2>2. f[n + 1] = Finished(d, id, out)
    BY <1>2, <2>1 DEF BatchNext
  <2> HIDE DEF id, out
  <2>3. Spoken(d)
    BY <2>1
  <2> HIDE DEF d
  <2>4. Spoken(Finished(d, id, out))
    BY <2>3, FinishedSaid
  <2> QED BY <2>2, <2>4
<1>6. P(L)
  <2>1. Nat \subseteq T
    <3> HIDE DEF T
    <3> QED BY <1>4, <1>5, EveryNatural
  <2>2. L \in T /\ L <= L
    <3> HIDE DEF T
    <3> QED BY <2>1, <1>1
  <2> HIDE DEF P
  <2> QED BY <2>2
<1> QED BY <1>2, <1>6

LEMMA PresentSpoken ==
    ASSUME RepliedPresent, Has(eng), Holds(eng), eng.phase \in ToolPhases
    PROVE  Spoken(eng)
BY HoldsSequence DEF Spoken, RepliedPresent, Replied, Said

LEMMA BatchEndsPasses ==
    ASSUME HoldsInv, CarefulInv, RepliedInv, Session(env), BatchEnds
    PROVE  Passes
<1>1. /\ RepliedPresent /\ Has(eng) /\ Holds(eng) /\ eng.phase = "batch" /\ CallList(eng.calls)
      /\ Careful(eng)
  BY PresentReplied, PresentHolds, HasCareful DEF BatchEnds, At, Active
<1>2. eng.running = {}
  <2>1. DOMAIN eng.outputs = IdsIn(eng.calls)
    BY DEF BatchEnds, IdsIn, Range
  <2> QED BY <1>1, <2>1 DEF Careful, Guarded
<1> DEFINE r == FinishedAll(eng)
           v == Delivered(env, env.staged)
<1>3. /\ env' = Spilled(r, v)
      /\ Ends(r, "failed") \/ (eng' = r /\ outcome' = outcome)
  BY Zenon DEF BatchEnds
<1>4. /\ Keeps(r, eng, {"history", "spills", "calls", "toolFinal", "outputs", "phase"})
      /\ r.phase = "tools"
  BY <1>1, <1>2, FinishedAllKeeps
<1>5. Spoken(r)
  BY <1>1, PresentSpoken, FinishedAllSaid DEF ToolPhases
<1> HIDE DEF r
<1>6. Session(v) /\ v.tasks = commit_delivery(env.tasks, env.staged) /\ v.staged = {} /\ v.inbox = env.inbox
  <2>1. Session(v)
    BY SessionKept
  <2>2. v.tasks = commit_delivery(env.tasks, env.staged) /\ v.staged = {} /\ v.inbox = env.inbox
    BY DeliveredFields
  <2> QED BY <2>1, <2>2
<1> HIDE DEF v
<1>7. /\ env'.tasks = commit_delivery(env.tasks, env.staged) /\ env'.staged = {}
      /\ env'.inbox = env.inbox
  BY <1>3, <1>6, SpilledFields
<1>8. Tasks(env'.tasks) /\ Heard(eng.told, env'.tasks, env'.staged)
  BY <1>1, <1>7, CommitTasks, HeardDelivered DEF RepliedPresent, Replied
<1>9. CASE Ends(r, "failed")
  <2>1. "failed" # "paused"
    OBVIOUS
  <2> QED BY <1>8, <1>9, <2>1 DEF Passes
<1>10. CASE eng' = r /\ outcome' = outcome
  <2>1. r.cfg = eng.cfg /\ r.told = eng.told
    BY <1>4 DEF Keeps, Fields
  <2>2. Open(r) /\ Said(r)
    BY <1>4, <1>5 DEF Open, Said, Spoken
  <2> QED BY <1>1, <1>7, <1>8, <1>10, <2>1, <2>2, TellsPasses
<1> QED BY <1>3, <1>9, <1>10

LEMMA ToolReturnsPasses ==
    ASSUME HoldsInv, CarefulInv, RepliedInv, Session(env), ToolReturns
    PROVE  Passes
<1>1. RepliedPresent /\ Has(eng) /\ Holds(eng) /\ eng.phase = "executing"
  BY PresentReplied, PresentHolds DEF ToolReturns, At, Active
<1> DEFINE call == Head(eng.calls)
<1>2. PICK out \in eng.cfg.outputs :
        LET e == [Hears(finish_tool(eng, call.id, out), Reported(call.tool, out)) EXCEPT
                    !.phase = "tools"]
        IN  /\ \E after \in {Delegates(call.tool, out)} :
                  env' = Spilled(e, IF out = "withheld" THEN after ELSE Delivered(after, after.staged))
            /\ Ends(e, "failed") \/ (eng' = e /\ outcome' = outcome /\ out # "withheld")
  BY Zenon DEF ToolReturns
<1> DEFINE f == finish_tool(eng, call.id, out)
           ids == Reported(call.tool, out)
           h == Hears(f, ids)
           r == [h EXCEPT !.phase = "tools"]
           d == Delegates(call.tool, out)
           w == Delivered(d, d.staged)
<1>3. /\ env' = Spilled(r, IF out = "withheld" THEN d ELSE w)
      /\ Ends(r, "failed") \/ (eng' = r /\ outcome' = outcome /\ out # "withheld")
  BY <1>2, Zenon
<1>4. /\ Keeps(f, eng, {"history", "spills", "calls", "toolFinal", "running"})
      /\ Answered(f.history)
  <2>1. Sequence(eng.history)
    BY <1>1, HoldsSequence
  <2> HIDE DEF call
  <2> QED BY <1>1, <2>1, FinishKeeps, FinishSaid
<1>5. /\ Session(d) /\ d.inbox = env.inbox /\ Tasks(d.tasks)
      /\ \A told : Heard(told, env.tasks, env.staged) =>
            Heard([i \in DOMAIN told |-> told[i] + (IF i \in ids THEN 1 ELSE 0)], d.tasks, d.staged)
  <2>1. Tasks(env.tasks)
    BY <1>1 DEF RepliedPresent
  <2> HIDE DEF call
  <2>2. Session(d)
    BY DelegatesSession
  <2> QED BY <2>1, <2>2, DelegatesHeard
<1> HIDE DEF f, d, call
<1>6. /\ Keeps(h, f, {"told"})
      /\ h.told = [i \in DOMAIN f.told |-> f.told[i] + (IF i \in ids THEN 1 ELSE 0)]
  <2>1. Has(f)
    BY <1>4 DEF Keeps
  <2> HIDE DEF ids
  <2> QED BY <2>1, HearsKeeps
<1> HIDE DEF h, ids
<1>7. Keeps(r, h, {"phase"}) /\ r.phase = "tools"
  BY <1>6 DEF Keeps, Has, Fields
<1> HIDE DEF r
<1>8. /\ f.told = eng.told /\ r.told = h.told /\ r.history = f.history /\ r.cfg = eng.cfg
  BY <1>4, <1>6, <1>7 DEF Keeps, Fields
<1>9. Heard(r.told, d.tasks, d.staged)
  <2>1. Heard(eng.told, env.tasks, env.staged)
    BY <1>1 DEF RepliedPresent, Replied
  <2> QED BY <1>5, <1>6, <1>8, <2>1
<1>10. /\ Session(w) /\ w.tasks = commit_delivery(d.tasks, d.staged) /\ w.staged = {}
       /\ w.inbox = env.inbox
  <2>1. Session(w)
    BY <1>5, SessionKept
  <2>2. w.tasks = commit_delivery(d.tasks, d.staged) /\ w.staged = {} /\ w.inbox = d.inbox
    BY <1>5, DeliveredFields
  <2> QED BY <1>5, <2>1, <2>2
<1>11. Tasks(w.tasks) /\ Heard(r.told, w.tasks, w.staged)
  BY <1>5, <1>9, <1>10, CommitTasks, HeardDelivered
<1> HIDE DEF w
<1>12. CASE Ends(r, "failed")
  <2>1. env' = Spilled(r, d) \/ env' = Spilled(r, w)
    BY <1>3
  <2>2. Tasks(env'.tasks)
    BY <1>5, <1>10, <1>11, <2>1, SpilledFields
  <2>3. "failed" # "paused"
    OBVIOUS
  <2> QED BY <1>12, <2>2, <2>3 DEF Passes
<1>13. CASE eng' = r /\ outcome' = outcome /\ out # "withheld"
  <2>1. env' = Spilled(r, w)
    BY <1>3, <1>13
  <2>2. env'.tasks = w.tasks /\ env'.staged = w.staged /\ env'.inbox = w.inbox
    BY <1>10, <2>1, SpilledFields
  <2>3. Open(r) /\ Said(r)
    BY <1>4, <1>7, <1>8 DEF Open, Said
  <2> QED BY <1>1, <1>8, <1>10, <1>11, <1>13, <2>2, <2>3, TellsPasses
<1> QED BY <1>3, <1>12, <1>13

LEMMA ToolsDonePasses ==
    ASSUME HoldsInv, CarefulInv, RepliedInv, ToolsDone
    PROVE  Passes
<1>1. RepliedPresent /\ Has(eng) /\ Holds(eng) /\ eng.phase = "tools"
  BY PresentReplied, PresentHolds DEF ToolsDone, At, Active
<1> DEFINE s == settle_tool_turn(eng)
           d == Deferring(s)
           p == [s EXCEPT !.phase = "model", !.toolPause = FALSE]
           next == CASE ~StopsHere(eng) -> "model"
                     [] StopsHere(eng) /\ Supervised(eng) -> "candidate"
                     [] OTHER -> "finish"
           r == [s EXCEPT !.toolFinal = @ /\ ~StopsHere(eng), !.phase = next]
<1>2. \/ Ends(publish_committed(d), "paused") /\ env' = env
      \/ Ends(publish_committed(p), "paused") /\ env' = env
      \/ Continues(r)
  <2>1. \/ Ends(publish_committed(IF eng.deferred # <<>> THEN d ELSE p), "paused") /\ env' = env
        \/ Continues(r)
    BY Zenon DEF ToolsDone
  <2> HIDE DEF d, p, r
  <2>2. (IF eng.deferred # <<>> THEN d ELSE p) \in {d, p}
    OBVIOUS
  <2> QED BY <2>1, <2>2
<1>3. Keeps(s, eng, {"history"}) /\ s.history \in {eng.history, Append(eng.history, Message("note"))}
  BY <1>1, SettleKeeps
<1>4. /\ next \in {"model", "candidate", "finish"}
      /\ next # "model" => StopsHere(eng)
      /\ next = "finish" => ~Supervised(eng)
  BY Zenon
<1> HIDE DEF s, next
<1>5. /\ Has(s) /\ s.cfg = eng.cfg /\ s.told = eng.told /\ s.toolFinal = eng.toolFinal
      /\ s.phase = "tools"
  BY <1>1, <1>3 DEF Keeps, Fields
<1>6. eng.toolFinal => Answered(s.history)
  <2> SUFFICES ASSUME eng.toolFinal PROVE Answered(s.history)
    OBVIOUS
  <2>1. Answered(eng.history) /\ Sequence(eng.history)
    BY <1>1, HoldsSequence DEF RepliedPresent, Replied, Said, ToolPhases
  <2> DEFINE x == Message("note")
  <2>2. x.kind # "user"
    BY DEF Message, Item
  <2> HIDE DEF x
  <2>3. Answered(Append(eng.history, x))
    BY <2>1, <2>2, AppendAnswered
  <2> QED BY <1>3, <2>1, <2>3 DEF x
<1>7. ASSUME NEW q, Has(q), q.cfg = eng.cfg, q.told = eng.told, Open(q), Said(q),
             Ends(publish_committed(q), "paused"), env' = env
      PROVE  Passes
  <2> DEFINE z == publish_committed(q)
  <2>1. Keeps(z, q, {})
    BY <1>7, PublishKeeps
  <2> HIDE DEF z
  <2>2. /\ Has(z) /\ z.cfg = eng.cfg /\ z.told = eng.told /\ z.phase = q.phase
        /\ z.history = q.history /\ z.toolFinal = q.toolFinal
    BY <1>7, <2>1 DEF Keeps, Fields
  <2>3. Open(z) /\ Said(z)
    BY <1>7, <2>2 DEF Open, Said
  <2>4. Keeps(z, eng, Aside)
    BY <2>2 DEF Keeps, Aside
  <2>5. Replied(z, env)
    BY <1>1, <2>3, <2>4, RepliedStep DEF RepliedPresent
  <2> QED BY <1>1, <1>7, <2>2, <2>5 DEF Passes, RepliedPresent, z
<1>8. CASE Ends(publish_committed(d), "paused") /\ env' = env
  <2>1. /\ Has(d) /\ d.cfg = eng.cfg /\ d.told = eng.told /\ d.phase = "tools"
        /\ d.history = s.history /\ d.toolFinal = eng.toolFinal
    BY <1>5 DEF Deferring, Has, Fields
  <2> HIDE DEF d
  <2>2. Open(d) /\ Said(d)
    BY <1>6, <2>1 DEF Open, Said
  <2> QED BY <1>7, <1>8, <2>1, <2>2
<1>9. CASE Ends(publish_committed(p), "paused") /\ env' = env
  <2>1. Has(p) /\ p.cfg = eng.cfg /\ p.told = eng.told /\ p.phase = "model"
    BY <1>5 DEF Has, Fields
  <2> HIDE DEF p
  <2>2. Open(p) /\ Said(p)
    BY <2>1, QuietSaid DEF Quiet
  <2> QED BY <1>7, <1>9, <2>1, <2>2
<1>10. CASE Continues(r)
  <2>1. /\ Has(r) /\ r.cfg = eng.cfg /\ r.told = eng.told /\ r.phase = next
        /\ r.history = s.history
    BY <1>5 DEF Has, Fields
  <2> HIDE DEF r
  <2>2. next # "model" => Answered(r.history)
    BY <1>4, <1>6, <2>1 DEF StopsHere
  <2>3. Said(r)
    BY <1>4, <2>1, <2>2 DEF Said, ToolPhases
  <2>4. Heard(r.told, env.tasks, env.staged)
    BY <1>1, <2>1 DEF RepliedPresent, Replied
  <2>5. Joined(r, env)
    BY <1>4, <2>1 DEF Joined, Supervised
  <2>6. Queue(r, env)
    BY <1>1, <1>4, <2>1 DEF Queue, Supervised, RepliedPresent, Replied
  <2>7. Replied(r, env)
    BY <2>3, <2>4, <2>5, <2>6 DEF Replied
  <2> QED BY <1>1, <1>10, <2>7 DEF Continues, Passes, RepliedPresent
<1> QED BY <1>2, <1>8, <1>9, <1>10

LEMMA HeardNow ==
    ASSUME NEW told, NEW more, NEW t, NEW staged, NEW ids, Tasks(t), Heard(told, t, staged),
           ids \in SUBSET (1..Children),
           \A id \in ids : t[id].status \in TaskOver /\ ~t[id].delivered /\ id \notin staged,
           more = [id \in DOMAIN told |-> told[id] + (IF id \in ids THEN 1 ELSE 0)]
    PROVE  Heard(more, t, staged \cup ids)
<1>1. Heard([id \in DOMAIN told |-> told[id] + (IF id \in ids THEN 1 ELSE 0)], t, staged \cup ids)
  BY HeardMore
<1> QED BY <1>1, Zenon

LEMMA ModelTurnPasses ==
    ASSUME CarefulInv, RepliedInv, Session(env), model_turn
    PROVE  Passes
<1>1. RepliedPresent /\ Has(eng)
  BY PresentReplied, Present DEF model_turn, At, Active
<1> DEFINE e == Gathered(eng)
           ids == env.staged \cup News
           d == Delivered(env, ids)
<1>2. /\ Keeps(e, eng, {"history", "told"})
      /\ e.told = [i \in DOMAIN eng.told |-> eng.told[i] + (IF i \in News THEN 1 ELSE 0)]
  BY <1>1, GatheredKeeps
<1>3. PICK x \in Externally(e) : \E c \in {compact_local(x, FALSE)} :
        \/ /\ \E q : Ends(q, "failed")
           /\ env' = [env EXCEPT !.inbox = 0, !.staged = @ \cup News]
        \/ /\ env' = [d EXCEPT !.inbox = 0] /\ outcome' = outcome
           /\ eng' = [c EXCEPT !.phase = "attempt", !.attempt = 0,
                               !.index = FirstModel(c), !.asked = FirstModel(c)]
  BY Zenon DEF model_turn
<1> HIDE DEF e
<1> DEFINE c == compact_local(x, FALSE)
           r == [c EXCEPT !.phase = "attempt", !.attempt = 0,
                          !.index = FirstModel(c), !.asked = FirstModel(c)]
<1>4. Keeps(x, e, {"history", "entries"})
  BY <1>2, ExternallyKeeps DEF Keeps
<1>5. Keeps(c, x, {"history", "entries"})
  BY <1>4, CompactKeeps DEF Keeps
<1>6. \/ (\E q : Ends(q, "failed")) /\ env' = [env EXCEPT !.inbox = 0, !.staged = @ \cup News]
      \/ env' = [d EXCEPT !.inbox = 0] /\ outcome' = outcome /\ eng' = r
  BY <1>3, Zenon
<1> HIDE DEF c
<1>7. r.phase = "attempt" /\ r.cfg = c.cfg /\ r.told = c.told
  BY <1>5 DEF Keeps, Has, Fields
<1> HIDE DEF r
<1>8. r.cfg = eng.cfg /\ r.told = e.told
  BY <1>2, <1>4, <1>5, <1>7 DEF Keeps, Fields
<1>9. Tasks(env.tasks) /\ Heard(eng.told, env.tasks, env.staged)
  BY <1>1 DEF RepliedPresent, Replied
<1>10. Heard(r.told, env.tasks, ids)
  <2> DEFINE N == News
  <2>1. /\ N \in SUBSET (1..Children)
        /\ \A id \in N : /\ env.tasks[id].status \in TaskOver
                         /\ ~env.tasks[id].delivered /\ id \notin env.staged
    BY <1>9, NewsFresh
  <2>2. r.told = [i \in DOMAIN eng.told |-> eng.told[i] + (IF i \in N THEN 1 ELSE 0)]
    BY <1>2, <1>8
  <2> HIDE DEF N
  <2>3. Heard(r.told, env.tasks, env.staged \cup N)
    BY <1>9, <2>1, <2>2, HeardNow
  <2> QED BY <2>3 DEF N
<1> HIDE DEF ids
<1>11. CASE (\E q : Ends(q, "failed")) /\ env' = [env EXCEPT !.inbox = 0, !.staged = @ \cup News]
  <2>1. env'.tasks = env.tasks
    BY <1>11 DEF Session, EnvFields
  <2>2. "failed" # "paused"
    OBVIOUS
  <2> QED BY <1>9, <1>11, <2>1, <2>2 DEF Passes
<1>12. CASE env' = [d EXCEPT !.inbox = 0] /\ outcome' = outcome /\ eng' = r
  <2>1. Session(d)
    BY SessionKept
  <2>2. d.tasks = commit_delivery(env.tasks, ids) /\ d.staged = {}
    BY DeliveredFields
  <2> HIDE DEF d
  <2>3. env'.tasks = d.tasks /\ env'.staged = {} /\ env'.inbox = 0
    BY <1>12, <2>1, <2>2 DEF Session, EnvFields
  <2>4. Tasks(env'.tasks) /\ Heard(r.told, env'.tasks, env'.staged)
    BY <1>9, <1>10, <2>2, <2>3, CommitTasks, HeardDelivered
  <2>5. Open(r) /\ Said(r)
    BY <1>7, QuietSaid DEF Quiet
  <2> QED BY <1>1, <1>8, <1>12, <2>3, <2>4, <2>5, TellsPasses
<1> QED BY <1>6, <1>11, <1>12

LEMMA JoinsPasses ==
    ASSUME CarefulInv, RepliedInv, Session(env), Joins
    PROVE  Passes
<1>1. RepliedPresent /\ Has(eng)
  BY PresentReplied, Present DEF Joins, At, Active
<1> DEFINE x == Extended(eng)
           N == News
<1>2. Keeps(x, eng, {"phase"}) /\ x.phase = "model"
  BY <1>1, ExtendedKeeps
<1>3. eng' = Collected(x) /\ env' = [env EXCEPT !.staged = @ \cup N] /\ outcome' = outcome
  BY Zenon DEF Joins
<1> HIDE DEF x
<1>4. /\ Keeps(eng', x, {"history", "told"})
      /\ eng'.told = [i \in DOMAIN x.told |-> x.told[i] + (IF i \in N THEN 1 ELSE 0)]
  BY <1>2, <1>3, CollectedKeeps DEF Keeps
<1>5. eng'.phase = "model" /\ eng'.cfg = eng.cfg /\ x.told = eng.told
  BY <1>2, <1>4 DEF Keeps, Fields
<1>6. Tasks(env.tasks) /\ Heard(eng.told, env.tasks, env.staged)
  BY <1>1 DEF RepliedPresent, Replied
<1>7. /\ N \in SUBSET (1..Children)
      /\ \A id \in N : /\ env.tasks[id].status \in TaskOver
                       /\ ~env.tasks[id].delivered /\ id \notin env.staged
  BY <1>6, NewsFresh
<1> HIDE DEF N
<1>8. Heard(eng'.told, env.tasks, env.staged \cup N)
  <2>1. eng'.told = [i \in DOMAIN eng.told |-> eng.told[i] + (IF i \in N THEN 1 ELSE 0)]
    BY <1>4, <1>5
  <2> QED BY <1>6, <1>7, <2>1, HeardNow
<1>9. env'.tasks = env.tasks /\ env'.staged = env.staged \cup N /\ env'.inbox = env.inbox
  BY <1>3 DEF Session, EnvFields
<1>10. Open(eng') /\ Said(eng')
  BY <1>5, QuietSaid DEF Quiet
<1> QED BY <1>1, <1>3, <1>5, <1>6, <1>8, <1>9, <1>10, TellsPasses

LEMMA NothingToJoin ==
    ASSUME Tasks(env.tasks), eng.cfg.children, ToJoin = {}
    PROVE  \A id \in 1..Children : env.tasks[id].status # "absent" =>
              env.tasks[id].status \in TaskOver /\ (id \in env.staged \/ env.tasks[id].delivered)
<1>1. visible(env.tasks, 0) = {id \in 1..Children : env.tasks[id].status # "absent"}
  BY AllVisible
<1>2. \A id \in 1..Children : env.tasks[id].parent = 0
  BY DEF Tasks, TaskType
<1>3. join_ids(env.tasks, env.staged, 0) = {}
  BY DEF ToJoin
<1> QED BY <1>1, <1>2, <1>3 DEF join_ids, pending_ids

\* Messages are taken: the run goes on, and nothing is left of them.
LEMMA TakesPasses ==
    ASSUME RepliedPresent, Has(eng), Session(env), outcome' = outcome,
           eng' = [publish_committed(Told(eng, env.inbox)) EXCEPT !.phase = "model"],
           env'.inbox = 0, env'.tasks = env.tasks, env'.staged = env.staged
    PROVE  Passes
<1>1. Keeps(eng', eng, {"history", "phase"}) /\ eng'.phase = "model"
  BY AnsweredKeeps
<1>2. eng'.cfg = eng.cfg /\ eng'.told = eng.told
  BY <1>1 DEF Keeps, Fields
<1>3. Open(eng') /\ Said(eng')
  <2> DEFINE r == eng'
  <2>1. r.phase \in Quiet
    BY <1>1 DEF Quiet
  <2> HIDE DEF r
  <2>2. Open(r) /\ Said(r)
    BY <2>1, QuietSaid
  <2> QED BY <2>2 DEF r
<1>4. Tasks(env.tasks) /\ Heard(eng.told, env.tasks, env.staged)
  BY DEF RepliedPresent, Replied
<1> QED BY <1>2, <1>3, <1>4, TellsPasses

LEMMA CandidatePasses ==
    ASSUME CarefulInv, RepliedInv, Session(env), finish_candidate
    PROVE  Passes
<1>1. RepliedPresent /\ Has(eng) /\ eng.phase = "candidate"
  BY PresentReplied, Present DEF finish_candidate, At, Active
<1> DEFINE r == [eng EXCEPT !.phase = "closing",
                            !.blocks = IF eng.cfg.gate /\ @ < MaxBlocks THEN 0 ELSE @]
           j == [eng EXCEPT !.phase = "joining"]
           told == [publish_committed(Told(eng, env.inbox)) EXCEPT !.phase = "model"]
<1>2. \/ Failed(eng)
      \/ eng' = told /\ env' = [env EXCEPT !.inbox = 0] /\ outcome' = outcome
      \/ Continues(j)
      \/ Continues(Blocked(eng))
      \/ Continues(r) /\ ToJoin = {}
  BY Zenon DEF finish_candidate
<1>3. CASE eng' = told /\ env' = [env EXCEPT !.inbox = 0] /\ outcome' = outcome
  <2>1. env'.inbox = 0 /\ env'.tasks = env.tasks /\ env'.staged = env.staged
    BY <1>3 DEF Session, EnvFields
  <2> QED BY <1>1, <1>3, <2>1, TakesPasses
<1>4. CASE Continues(j)
  <2>1. Keeps(j, eng, {"phase"}) /\ j.phase = "joining"
    BY <1>1 DEF Keeps, Has, Fields
  <2> HIDE DEF j
  <2> QED BY <1>1, <1>4, <2>1, MovePasses DEF Quiet
<1>5. CASE Continues(Blocked(eng))
  <2> DEFINE b == Blocked(eng)
  <2>1. Keeps(b, eng, {"phase", "history"}) /\ b.phase = "model"
    BY <1>1, ExtendedKeeps
  <2> HIDE DEF b
  <2> QED BY <1>1, <1>5, <2>1, MovePasses DEF Quiet, b
<1>6. CASE Continues(r) /\ ToJoin = {}
  <2>1. Keeps(r, eng, {"phase"}) /\ r.phase = "closing"
    BY <1>1 DEF Keeps, Has, Fields
  <2> HIDE DEF r
  <2>2. r.cfg = eng.cfg /\ r.told = eng.told /\ r.history = eng.history
    BY <2>1 DEF Keeps, Fields
  <2>3. Joined(r, env)
    BY <1>1, <1>6, <2>2, NothingToJoin DEF Joined, RepliedPresent
  <2>4. Replied(r, env)
    BY <1>1, <2>1, <2>2, <2>3 DEF RepliedPresent, Replied, Queue, Said
  <2> QED BY <1>1, <1>6, <2>4 DEF Continues, Passes, RepliedPresent
<1> QED BY <1>1, <1>2, <1>3, <1>4, <1>5, <1>6, FailedPasses

LEMMA ClosingPasses ==
    ASSUME CarefulInv, RepliedInv, Session(env), Closing
    PROVE  Passes
<1>1. RepliedPresent /\ Has(eng) /\ eng.phase = "closing"
  BY PresentReplied, Present DEF Closing, At, Active
<1>2. /\ env' = [env EXCEPT !.inbox = 0, !.closed = @ \/ env.inbox = 0] /\ outcome' = outcome
      /\ \/ eng' = [publish_committed(Told(eng, env.inbox)) EXCEPT !.phase = "model"]
         \/ eng' = [eng EXCEPT !.phase = "finish"] /\ ~(env.inbox > 0)
  BY Zenon DEF Closing, Closes
<1>3. env'.inbox = 0 /\ env'.tasks = env.tasks /\ env'.staged = env.staged
  BY <1>2 DEF Session, EnvFields
<1>4. CASE eng' = [publish_committed(Told(eng, env.inbox)) EXCEPT !.phase = "model"]
  BY <1>1, <1>2, <1>3, <1>4, TakesPasses
<1>5. CASE eng' = [eng EXCEPT !.phase = "finish"] /\ ~(env.inbox > 0)
  <2>1. Keeps(eng', eng, {"phase"}) /\ eng'.phase = "finish"
    BY <1>1, <1>5 DEF Keeps, Has, Fields
  <2>2. eng'.cfg = eng.cfg /\ eng'.told = eng.told /\ eng'.history = eng.history
    BY <2>1 DEF Keeps, Fields
  <2>3. env.inbox = 0
    BY <1>5 DEF Session
  <2>4. env'.closed
    <3>1. env' = [[env EXCEPT !.inbox = 0] EXCEPT !.closed = TRUE]
      BY <1>2, <2>3
    <3> QED BY <3>1 DEF Session, EnvFields
  <2>5. Queue(eng', env')
    BY <1>3, <2>4 DEF Queue
  <2>6. Joined(eng', env') /\ Said(eng') /\ Heard(eng'.told, env'.tasks, env'.staged)
    BY <1>1, <1>3, <2>1, <2>2 DEF RepliedPresent, Replied, Joined, Said
  <2>7. Replied(eng', env')
    BY <2>5, <2>6 DEF Replied
  <2> QED BY <1>1, <1>2, <1>3, <2>7 DEF Passes, RepliedPresent
<1> QED BY <1>2, <1>4, <1>5

LEMMA FinishPasses ==
    ASSUME RepliedInv, Finish
    PROVE  Passes
<1>1. RepliedPresent
  BY PresentReplied DEF Finish, At, Active
<1>2. Ends(publish_committed(eng), "completed") /\ env' = env
  BY DEF Finish
<1>3. "completed" # "paused"
  OBVIOUS
<1> QED BY <1>1, <1>2, <1>3 DEF Passes, RepliedPresent

LEMMA NoTasksYet == Tasks(NoTasks)
<1> DEFINE x == TaskRecord("absent", 0)
<1>1. x \in TaskType /\ x.delivered = FALSE
  BY DEF TaskRecord, TaskType, TaskStatuses
<1> HIDE DEF x
<1>2. NoTasks = [id \in 1..Children |-> x]
  BY DEF NoTasks, x
<1> QED BY <1>1, <1>2 DEF Tasks

LEMMA BeginsReplied ==
    ASSUME RepliedInv, Session(env), ConversationRun \/ HostRun
    PROVE  RepliedInv'
<1>1. PICK cfg, h : Begins(cfg, h)
  BY Zenon DEF ConversationRun, HostRun
<1>2. eng' = NewEngine(cfg, h) /\ outcome' = None
  BY <1>1 DEF Begins, ConversationRun, HostRun
<1>3. eng'.phase = "start" /\ eng'.told = [id \in 1..Children |-> 0]
  BY <1>2 DEF NewEngine
<1>4. env'.inbox = 0 /\ env'.staged = {} /\ env'.tasks = env.tasks
  BY <1>1 DEF Begins, Session, EnvFields
<1>5. Heard(eng'.told, env'.tasks, env'.staged)
  BY <1>3, <1>4 DEF Heard
<1>6. Replied(eng', env')
  BY <1>3, <1>4, <1>5 DEF Replied, Queue, Joined, Said, ToolPhases
<1> QED BY <1>2, <1>4, <1>6 DEF RepliedInv

LEMMA AcceptReplied ==
    ASSUME RepliedInv, Session(env), Accept
    PROVE  RepliedInv'
<1>1. outcome # None /\ outcome' = None /\ eng' = eng
  BY DEF Accept
<1>2. CASE outcome.owner = "child"
  <2>1. env' = [env EXCEPT !.tasks = NoTasks]
    BY <1>2 DEF Accept
  <2>2. env'.tasks = NoTasks
    BY <2>1 DEF Session, EnvFields
  <2>3. eng' = Idle
    BY <1>1, <1>2 DEF RepliedInv
  <2> QED BY <2>2, <2>3, NoTasksYet DEF RepliedInv
<1>3. CASE outcome.owner # "child"
  <2>1. env' = env
    BY <1>3 DEF Accept
  <2> QED BY <1>1, <2>1 DEF RepliedInv
<1> QED BY <1>2, <1>3

LEMMA ResumeReplied ==
    ASSUME CarefulInv, RepliedInv, Resume \/ ResumeInvalid \/ ResumeGoGate
    PROVE  RepliedInv'
<1>1. RepliedPresent /\ Has(eng)
  BY PresentReplied, Present DEF Resume, ResumeInvalid, ResumeGoGate
<1>2. ASSUME Keeps(eng', eng, {"paused", "resumed", "granted"}), env' = env, outcome' = None
      PROVE  RepliedInv'
  <2>1. /\ eng'.cfg = eng.cfg /\ eng'.told = eng.told /\ eng'.phase = eng.phase
        /\ eng'.history = eng.history /\ eng'.toolFinal = eng.toolFinal
    BY <1>2 DEF Keeps, Fields
  <2>2. Replied(eng', env')
    BY <1>1, <1>2, <2>1 DEF RepliedPresent, Replied, Queue, Joined, Said
  <2> QED BY <1>1, <1>2, <2>2 DEF RepliedInv, RepliedPresent
<1>3. CASE Resume
  <2>1. PICK decisions \in [eng.pending -> {"approve", "deny", "defer"}], stream \in BOOLEAN :
          eng' = [eng EXCEPT !.paused = FALSE, !.resumed = TRUE, !.stream = stream,
                             !.approvals = decisions, !.prepared = FALSE, !.resumes = @ + 1,
                             !.granted = @ \cup {id \in eng.pending : decisions[id] = "approve"}]
    BY <1>3, Zenon DEF Resume
  <2>2. Keeps(eng', eng, {"paused", "resumed", "granted"})
    BY <1>1, <2>1 DEF Keeps, Has, Fields
  <2>3. env' = env /\ outcome' = None
    BY <1>3 DEF Resume
  <2> QED BY <1>2, <2>2, <2>3
<1>4. CASE ResumeInvalid
  <2>1. Failed([eng EXCEPT !.resumed = TRUE])
    BY <1>4, Zenon DEF ResumeInvalid
  <2> QED BY <1>1, <2>1, FailedPasses, PassesReplied
<1>5. CASE ResumeGoGate
  <2> DEFINE r == [eng EXCEPT !.paused = FALSE, !.resumed = TRUE, !.stream = FALSE,
                              !.prepared = TRUE, !.go = TRUE, !.resumes = @ + 1]
  <2>1. Failed(eng) \/ (eng' = r /\ outcome' = None /\ env' = env)
    BY <1>5, Zenon DEF ResumeGoGate
  <2>2. Keeps(r, eng, {"paused", "resumed", "granted"})
    BY <1>1 DEF Keeps, Has, Fields
  <2> HIDE DEF r
  <2>3. CASE Failed(eng)
    BY <1>1, <2>3, FailedPasses, PassesReplied
  <2>4. CASE eng' = r /\ outcome' = None /\ env' = env
    BY <1>2, <2>2, <2>4
  <2> QED BY <2>1, <2>3, <2>4
<1> QED BY <1>3, <1>4, <1>5

LEMMA DroppedReplied ==
    ASSUME RepliedInv, Dropped
    PROVE  RepliedInv'
BY DEF RepliedInv, Dropped

LEMMA SteerReplied ==
    ASSUME RepliedInv, Session(env), Steer
    PROVE  RepliedInv'
<1>1. RepliedPresent
  BY PresentReplied DEF Steer
<1>2. eng.cfg.owner = "child" /\ ~env.closed /\ eng' = eng /\ outcome' = outcome
  BY DEF Steer
<1>3. env'.tasks = env.tasks /\ env'.staged = env.staged
  BY DEF Steer, Session, EnvFields
<1>4. eng.phase # "finish"
  BY <1>1, <1>2 DEF RepliedPresent, Replied, Queue
<1>5. Replied(eng, env')
  BY <1>1, <1>2, <1>3, <1>4 DEF RepliedPresent, Replied, Queue, Joined
<1> QED BY <1>1, <1>2, <1>3, <1>5 DEF RepliedInv, RepliedPresent

LEMMA ChildReplied ==
    ASSUME RepliedInv, Session(env), ChildDone \/ Reconcile
    PROVE  RepliedInv'
<1>1. PICK id \in 1..Children, status \in {"completed", "reconciling"} :
        /\ env.tasks[id].status \in {"running", "reconciling"}
        /\ env' = [env EXCEPT !.tasks[id].status = status]
  BY DEF ChildDone, Reconcile
<1> DEFINE t == env.tasks
           u == [t EXCEPT ![id].status = status]
<1>2. Tasks(t) /\ eng' = eng /\ outcome' = outcome
  BY DEF RepliedInv, ChildDone, Reconcile
<1>3. /\ Tasks(u)
      /\ \A i \in 1..Children : /\ t[i].status \in TaskOver => u[i].status = t[i].status
                                /\ t[i].status # "absent" <=> u[i].status # "absent"
                                /\ u[i].delivered = t[i].delivered
  <2>1. t[id].status \in {"running", "reconciling"}
    BY <1>1
  <2>2. id \in 1..Children /\ status \in {"completed", "reconciling"} /\ Tasks(t)
    BY <1>1, <1>2
  <2>3. u = [t EXCEPT ![id].status = status]
    OBVIOUS
  <2> HIDE DEF t, u
  <2>4. Tasks(u)
    BY <2>1, <2>2, <2>3, TaskEnds
  <2>5. ASSUME NEW i \in 1..Children
        PROVE  /\ t[i].status \in TaskOver => u[i].status = t[i].status
               /\ t[i].status # "absent" <=> u[i].status # "absent"
               /\ u[i].delivered = t[i].delivered
    <3>1. t[i].status \in TaskOver => u[i].status = t[i].status
      BY <2>1, <2>2, <2>3, <2>5, TaskEnds DEF TaskOver
    <3>2. t[i].status # "absent" <=> u[i].status # "absent"
      BY <2>1, <2>2, <2>3, <2>5, TaskEnds
    <3>3. u[i].delivered = t[i].delivered
      BY <2>1, <2>2, <2>3, <2>5, TaskEnds
    <3> QED BY <3>1, <3>2, <3>3
  <2> QED BY <2>4, <2>5
<1>4. env'.tasks = u /\ env'.staged = env.staged /\ env'.inbox = env.inbox /\ env'.closed = env.closed
  <2>1. env' = [env EXCEPT !.tasks = u]
    BY <1>1
  <2> HIDE DEF u
  <2> QED BY <2>1 DEF Session, EnvFields
<1> HIDE DEF u
<1>5. ASSUME Replied(eng, env) PROVE Replied(eng, env')
  <2>1. Heard(eng.told, env'.tasks, env'.staged)
    BY <1>3, <1>4, <1>5 DEF Replied, Heard
  <2>2. Joined(eng, env')
    BY <1>3, <1>4, <1>5 DEF Replied, Joined
  <2>3. Queue(eng, env') /\ Said(eng)
    BY <1>4, <1>5 DEF Replied, Queue
  <2> QED BY <2>1, <2>2, <2>3 DEF Replied
<1> QED BY <1>2, <1>3, <1>4, <1>5 DEF RepliedInv

LEMMA NextReplied ==
    ASSUME HoldsInv, CarefulInv, Session(env), RepliedInv, [Next]_vars
    PROVE  RepliedInv'
<1>1. CASE UNCHANGED vars
  BY <1>1 DEF vars, RepliedInv
<1>2. CASE Step \/ Fails
  <2>1. Passes
    BY <1>2, WaitingPasses, ModelTurnPasses, AttemptPasses, ErrorPasses, RepliesPasses, PreparePasses,
       BatchPasses, BatchReturnsPasses, BatchEndsPasses, ToolAlonePasses, ToolReturnsPasses,
       ToolsDonePasses, CandidatePasses, JoinsPasses, ClosingPasses, FinishPasses, Zenon DEF Step
  <2>2. Active
    BY <1>2 DEF Step, Fails, Start, model_turn, ModelAttempt, Interrupt, Visible, StreamBreaks, ModelError,
       Backoff, ModelReplies, PrepareTools, ToBatch, BatchStarts, BatchReturns, BatchEnds, ToolAlone,
       GoGate, GoGateEnds, ToolReturns, ToolsDone, finish_candidate, Joins, Closing, Finish, At
  <2>3. RepliedPresent
    BY <2>2, PresentReplied DEF Active
  <2> QED BY <2>1, <2>3, PassesReplied
<1>3. CASE Next /\ ~(Step \/ Fails)
  BY <1>3, BeginsReplied, AcceptReplied, ResumeReplied, DroppedReplied, SteerReplied, ChildReplied,
     Zenon DEF Next
<1> QED BY <1>1, <1>2, <1>3

LEMMA RepliedAnswers ==
    ASSUME RepliedInv
    PROVE  AnswersLast
<1>1. Tasks(env.tasks)
  BY DEF RepliedInv
<1>2. ToldOnce
  <2>1. SUFFICES ASSUME eng.phase # "idle", NEW id \in 1..Children PROVE eng.told[id] <= 1
    BY DEF ToldOnce
  <2>2. Heard(eng.told, env.tasks, env.staged)
    BY <2>1, PresentReplied DEF RepliedPresent, Replied
  <2>3. eng.told[id] \in {0, 1}
    BY <2>1, <2>2 DEF Heard
  <2> QED BY <2>3
<1>3. ASSUME At("finish")
      PROVE  /\ env.inbox = 0
             /\ eng.cfg.children => \A id \in visible(env.tasks, 0) :
                   env.tasks[id].status \in TaskOver /\ id \in env.staged \cup
                     {t \in 1..Children : env.tasks[t].delivered}
             /\ \A i \in DOMAIN eng.history : eng.history[i].kind = "user" =>
                   \E j \in i + 1..Len(eng.history) : eng.history[j].kind \in {"assistant", "result"}
  <2>1. Replied(eng, env) /\ eng.phase = "finish"
    BY <1>3, PresentReplied DEF At, Active, RepliedPresent
  <2>2. env.inbox = 0
    BY <2>1 DEF Replied, Queue
  <2>3. Answered(eng.history)
    BY <2>1 DEF Replied, Said
  <2>4. ASSUME eng.cfg.children, NEW id \in visible(env.tasks, 0)
        PROVE  env.tasks[id].status \in TaskOver /\ id \in env.staged \cup
                 {t \in 1..Children : env.tasks[t].delivered}
    <3>1. id \in 1..Children /\ env.tasks[id].status # "absent"
      BY <1>1, <2>4, AllVisible
    <3> QED BY <2>1, <2>4, <3>1 DEF Replied, Joined
  <2> QED BY <2>2, <2>3, <2>4 DEF Answered
<1> QED BY <1>2, <1>3 DEF AnswersLast

(* A run that finishes has answered all it was told: nothing is left in its *)
(* queue, the last message of its owner or of those who steered it stands   *)
(* before the last thing the model or a tool said, its children are over    *)
(* and it was told what they found; and no run is told a result twice       *)
(* (Engine::finish_candidate, SubagentSession::collect, staged_delivery).   *)
THEOREM AnswersComeLast == Spec => []AnswersLast
<1> DEFINE IInv == HoldsInv /\ CarefulInv /\ Session(env) /\ RepliedInv
<1>1. Init => IInv
  <2>1. ASSUME Init PROVE RepliedInv
    <3>1. eng = Idle /\ env.tasks = NoTasks
      BY <2>1 DEF Init
    <3> QED BY <3>1, NoTasksYet DEF RepliedInv
  <2> QED BY <2>1, InitHolds
<1>2. IInv /\ [Next]_vars => IInv'
  BY NextHolds, NextCareful, SessionNext, NextReplied
<1>3. IInv => AnswersLast
  BY RepliedAnswers
<1> QED BY <1>1, <1>2, <1>3, PTL DEF Spec
=============================================================================
