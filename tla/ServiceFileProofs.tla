------------------------- MODULE ServiceFileProofs --------------------------
(* The linked list of services and the file of stations, for any number of   *)
(* stations, nodes and records.  First the list, while the file is loaded    *)
(* into it and the window edits it: its nodes are a chain that stands for a  *)
(* sequence, and nothing freed or null is followed.  Then the file: what is  *)
(* saved is listed, and the file with the viewer's list and the window       *)
(* implements StationStore.  The invariant of the file, FileInv, says of     *)
(* each kind of work under way how far the file has got: which records a     *)
(* save has put behind the old ones, how much of a list a rewrite has        *)
(* written, how many records a load has turned into nodes.                   *)
EXTENDS ServiceFile, WellFoundedInduction, FiniteSetTheorems, SequenceTheorems, TLAPS

\* A set of numbers that is not empty has a first one.
LEMMA HasFirst ==
  ASSUME NEW S, S \subseteq Nat, S # {}
  PROVE  \E i \in S : \A j \in S : i <= j
<1> DEFINE Less == {ss \in Nat \X Nat : ss[1] < ss[2]}
<1>1. IsWellFoundedOn(Less, Nat)
  BY NatLessThanWellFounded DEF OpToRel
<1>2. PICK i \in S : \A j \in S : ~ (<<j, i>> \in Less)
  <2> HIDE DEF Less
  <2> QED
    BY <1>1, WFMin
<1>3. \A j \in S : i <= j
  <2> SUFFICES ASSUME NEW j \in S, ~ (i <= j) PROVE FALSE
    OBVIOUS
  <2>1. <<j, i>> \in Less
    BY <1>2
  <2> QED
    BY <1>2, <2>1
<1> QED
  BY <1>3

-----------------------------------------------------------------------------
(* Chains of nodes *)

First(s) == IF s = << >> THEN NULL ELSE s[1]

\* The pointers f lead through the nodes of s, each met once, and end there.
IsChain(f, s) ==
  /\ DOMAIN f \subseteq Nodes
  /\ s \in Seq(DOMAIN f)
  /\ \A i, j \in 1 .. Len(s) : s[i] = s[j] => i = j
  /\ \A i \in 1 .. Len(s) : f[s[i]] = IF i < Len(s) THEN s[i + 1] ELSE NULL

\* What Path evaluates, with the pointers as a parameter.
Hops(f, p) ==
  LET hop[n \in 0 .. Cardinality(Nodes)] ==
        IF n = 0 THEN p
        ELSE IF hop[n - 1] \in DOMAIN f THEN f[hop[n - 1]] ELSE NULL
  IN  hop

\* The first hops along a chain are its nodes, the others the null pointer.
LEMMA HopsAlongChain ==
  ASSUME NEW f, NEW s, IsChain(f, s)
  PROVE  Hops(f, First(s)) = [n \in 0 .. Cardinality(Nodes) |->
                                IF n < Len(s) THEN s[n + 1] ELSE NULL]
<1> DEFINE C == Cardinality(Nodes)
           g == [n \in 0 .. C |-> IF n < Len(s) THEN s[n + 1] ELSE NULL]
           p == First(s)
           Eq(h) == h = [n \in 0 .. C |->
                          IF n = 0 THEN p
                          ELSE IF h[n - 1] \in DOMAIN f THEN f[h[n - 1]] ELSE NULL]
<1>0. C \in Nat
  BY NodeAssumption, FS_CardinalityType
<1>1. Eq(g)
  <2>1. ASSUME NEW n \in 0 .. C
        PROVE  g[n] = IF n = 0 THEN p
                      ELSE IF g[n - 1] \in DOMAIN f THEN f[g[n - 1]] ELSE NULL
    <3>1. CASE n = 0
      BY <1>0, <2>1, <3>1, EmptySeq, LenProperties DEF First, IsChain
    <3>2. CASE n # 0 /\ n - 1 < Len(s)
      <4>1. n \in 1 .. Len(s) /\ n - 1 \in 0 .. C /\ n < Len(s) + 1
        BY <1>0, <2>1, <3>2, LenProperties DEF IsChain
      <4>2. g[n - 1] = s[n]
        BY <3>2, <4>1
      <4>3. s[n] \in DOMAIN f
        BY <4>1, ElementOfSeq DEF IsChain
      <4>4. f[s[n]] = IF n < Len(s) THEN s[n + 1] ELSE NULL
        BY <4>1 DEF IsChain
      <4> QED
        BY <2>1, <3>2, <4>2, <4>3, <4>4
    <3>3. CASE n # 0 /\ ~ (n - 1 < Len(s))
      <4>1. n - 1 \in 0 .. C /\ ~ (n < Len(s))
        BY <1>0, <2>1, <3>3, LenProperties DEF IsChain
      <4>2. g[n - 1] = NULL
        BY <3>3, <4>1
      <4>3. NULL \notin DOMAIN f
        BY NodeAssumption DEF IsChain
      <4> QED
        BY <2>1, <3>3, <4>1, <4>2, <4>3
    <3> QED
      BY <3>1, <3>2, <3>3
  <2> HIDE DEF p
  <2> QED
    BY <2>1
<1>2. Hops(f, p) = CHOOSE h : Eq(h)
  BY DEF Hops
<1>3. ASSUME NEW h, Eq(h)
      PROVE  h = g
  <2> DEFINE Wrong == {n \in 0 .. C : h[n] # g[n]}
  <2>1. SUFFICES ASSUME Wrong # {}
                 PROVE  FALSE
    <3>1. DOMAIN h = 0 .. C /\ h = [n \in DOMAIN h |-> h[n]]
      BY <1>3
    <3> HIDE DEF p
    <3> QED
      BY <3>1
  <2>2. PICK m \in Wrong : \A j \in Wrong : m <= j
    <3>1. Wrong \subseteq Nat
      BY <1>0
    <3> HIDE DEF Wrong
    <3> QED
      BY <2>1, <3>1, HasFirst
  <2>3. m \in 0 .. C /\ h[m] # g[m]
    BY <2>2
  <2>4. h[m] = IF m = 0 THEN p ELSE IF h[m - 1] \in DOMAIN f THEN f[h[m - 1]] ELSE NULL
    BY <1>3, <2>3
  <2>5. g[m] = IF m = 0 THEN p ELSE IF g[m - 1] \in DOMAIN f THEN f[g[m - 1]] ELSE NULL
    BY <1>1, <2>3
  <2>6. m # 0 => h[m - 1] = g[m - 1]
    <3>1. SUFFICES ASSUME m # 0, h[m - 1] # g[m - 1]
                   PROVE  FALSE
      OBVIOUS
    <3>2. m - 1 \in 0 .. C /\ ~ (m <= m - 1)
      BY <1>0, <2>3, <3>1
    <3> QED
      BY <2>2, <3>1, <3>2
  <2> HIDE DEF g, p
  <2> QED
    BY <2>3, <2>4, <2>5, <2>6
<1> HIDE DEF g, Eq
<1>4. Hops(f, p) = g
  BY <1>1, <1>2, <1>3
<1> QED
  BY <1>4 DEF g

\* A chain is not longer than the nodes are many.
LEMMA ChainFits ==
  ASSUME NEW f, NEW s, IsChain(f, s)
  PROVE  Len(s) \in 0 .. Cardinality(Nodes)
<1>1. Len(s) \in Nat /\ s \in [1 .. Len(s) -> Nodes]
  <2>1. s \in Seq(Nodes)
    BY SeqMonotonic DEF IsChain
  <2> QED
    BY <2>1, LenProperties
<1>2. s \in Injection(1 .. Len(s), Nodes)
  BY <1>1 DEF IsChain, Injection, IsInjective
<1>3. Cardinality(1 .. Len(s)) = Len(s)
  BY <1>1, FS_Interval
<1>4. Cardinality(1 .. Len(s)) <= Cardinality(Nodes)
  BY <1>1, <1>2, NodeAssumption, FS_Injection DEF ExistsInjection
<1> QED
  BY <1>1, <1>3, <1>4, NodeAssumption, FS_CardinalityType

\* What the loops of the list code walk from the first node is the chain.
LEMMA PathIsChain ==
  ASSUME NEW s, IsChain(next, s)
  PROVE  Path(First(s)) = s
<1> DEFINE C == Cardinality(Nodes)
           h == Hops(next, First(s))
           on == {n \in 0 .. C : h[n] \in DOMAIN next}
<1>1. Path(First(s)) = [i \in 1 .. Cardinality(on) |-> h[i - 1]]
  BY DEF Path, Hops, Live
<1>2. h = [n \in 0 .. C |-> IF n < Len(s) THEN s[n + 1] ELSE NULL]
  BY HopsAlongChain
<1>3. Len(s) \in 0 .. C /\ C \in Nat /\ Len(s) \in Nat
  BY ChainFits, NodeAssumption, FS_CardinalityType
<1>4. \A n \in 0 .. C : n \in on <=> n < Len(s)
  <2>1. TAKE n \in 0 .. C
  <2>2. CASE n < Len(s)
    <3>1. n + 1 \in 1 .. Len(s)
      BY <1>3, <2>2
    <3>2. s[n + 1] \in DOMAIN next
      BY <3>1, ElementOfSeq DEF IsChain
    <3> QED
      BY <1>2, <2>1, <2>2, <3>2
  <2>3. CASE ~ (n < Len(s))
    <3>1. NULL \notin DOMAIN next
      BY NodeAssumption DEF IsChain
    <3> QED
      BY <1>2, <2>1, <2>3, <3>1
  <2> QED
    BY <2>2, <2>3
<1>5. on = 0 .. Len(s) - 1
  <2>1. on \subseteq 0 .. C
    OBVIOUS
  <2> HIDE DEF on
  <2> DEFINE L == Len(s)
             D == C
  <2>2. L \in Nat /\ D \in Nat /\ L <= D
    BY <1>3
  <2> HIDE DEF L, D, C
  <2>3. ASSUME NEW n
        PROVE  n \in on <=> n \in 0 .. L - 1
    <3>1. n \in 0 .. L - 1 <=> n \in 0 .. D /\ n < L
      BY <2>2
    <3>2. n \in 0 .. D => (n \in on <=> n < L)
      BY <1>4 DEF L, D
    <3>3. n \in on => n \in 0 .. D
      BY <2>1 DEF D
    <3> QED
      BY <3>1, <3>2, <3>3
  <2>4. on = 0 .. L - 1
    BY <2>3
  <2> QED
    BY <2>4 DEF L
<1>6. Cardinality(on) = Len(s)
  <2>1. 0 \in Int /\ Len(s) - 1 \in Int
    BY <1>3
  <2>2. Cardinality(0 .. Len(s) - 1) = IF 0 > Len(s) - 1 THEN 0 ELSE (Len(s) - 1) - 0 + 1
    BY <2>1, FS_Interval
  <2> HIDE DEF on
  <2> QED
    BY <1>3, <1>5, <2>2
<1>7. Path(First(s)) = [i \in 1 .. Len(s) |-> s[i]]
  <2>1. \A i \in 1 .. Len(s) : h[i - 1] = s[i]
    <3>1. TAKE i \in 1 .. Len(s)
    <3>2. i - 1 \in 0 .. C /\ i - 1 < Len(s) /\ (i - 1) + 1 = i
      BY <1>3, <3>1
    <3> QED
      BY <1>2, <3>2
  <2> HIDE DEF h, on
  <2> QED
    BY <1>1, <1>6, <2>1
<1> QED
  BY <1>7, LenProperties DEF IsChain

\* The same for the state after a step.
WalksFollowChains == \A s : IsChain(next, s) => Path(First(s)) = s

LEMMA WalksFollowChainsNext == WalksFollowChains'
<1>1. WalksFollowChains
  BY PathIsChain DEF WalksFollowChains
<1> QED
  BY <1>1, PTL

-----------------------------------------------------------------------------
(* The operations on chains *)

Exchanging(s, i) == [s EXCEPT ![i] = s[i + 1], ![i + 1] = s[i]]

\* A new node behind the last one.
LEMMA AppendChain ==
  ASSUME NEW f, NEW s, IsChain(f, s), NEW n \in Nodes, n \notin DOMAIN f, s # << >>
  PROVE  IsChain(Linked(Linked(f, n, NULL), s[Len(s)], n), Append(s, n))
<1> DEFINE L == Len(s)
           t == Append(s, n)
           last == s[L]
           g == Linked(Linked(f, n, NULL), last, n)
<1>1. L \in Nat /\ L # 0 /\ L \in 1 .. L
  BY EmptySeq, LenProperties DEF IsChain
<1>2. last \in DOMAIN f /\ \A i \in 1 .. L : s[i] \in DOMAIN f
  BY <1>1, ElementOfSeq DEF IsChain
<1>3. Len(t) = L + 1 /\ t[L + 1] = n /\ (\A i \in 1 .. L : t[i] = s[i]) /\ t \in Seq(DOMAIN f \cup {n})
  <2>1. s \in Seq(DOMAIN f \cup {n})
    BY SeqMonotonic DEF IsChain
  <2> QED
    BY <2>1, AppendProperties
<1>4. DOMAIN g = DOMAIN f \cup {n}
  BY <1>2 DEF Linked
<1>5. g[n] = NULL /\ g[last] = n /\ \A m \in DOMAIN f \ {last} : g[m] = f[m]
  BY <1>2 DEF Linked
<1>6. \A i, j \in 1 .. L : s[i] = s[j] => i = j
  BY DEF IsChain
<1>7. \A i \in 1 .. L : f[s[i]] = IF i < L THEN s[i + 1] ELSE NULL
  BY DEF IsChain
<1>8. \A i \in 1 .. L + 1 : i \in 1 .. L \/ i = L + 1
  BY <1>1
<1> HIDE DEF L, t, g
<1>9. ASSUME NEW i \in 1 .. L + 1, NEW j \in 1 .. L + 1, t[i] = t[j]
      PROVE  i = j
  BY <1>2, <1>3, <1>6, <1>8, <1>9
<1>10. ASSUME NEW i \in 1 .. L + 1
       PROVE  g[t[i]] = IF i < L + 1 THEN t[i + 1] ELSE NULL
  <2>1. CASE i = L + 1
    BY <1>1, <1>3, <1>5, <2>1
  <2>2. CASE i \in 1 .. L /\ i = L
    BY <1>1, <1>3, <1>5, <2>2
  <2>3. CASE i \in 1 .. L /\ i # L
    <3>1. i < L /\ i + 1 \in 1 .. L /\ i < L + 1
      BY <1>1, <2>3
    <3>2. s[i] # last
      BY <1>1, <1>6, <2>3 DEF L
    <3>3. g[s[i]] = s[i + 1]
      BY <1>2, <1>5, <1>7, <2>3, <3>1, <3>2
    <3> QED
      BY <1>3, <2>3, <3>1, <3>3
  <2> QED
    BY <1>8, <2>1, <2>2, <2>3
<1>11. DOMAIN f \subseteq Nodes
  BY DEF IsChain
<1>12. IsChain(g, t)
  BY <1>3, <1>4, <1>9, <1>10, <1>11 DEF IsChain
<1> QED
  BY <1>12 DEF g, t, L

\* The first node of a list.
LEMMA SingleChain ==
  ASSUME NEW f, DOMAIN f \subseteq Nodes, NEW n \in Nodes
  PROVE  IsChain(Linked(f, n, NULL), << n >>)
<1>1. << n >> \in Seq(DOMAIN f \cup {n}) /\ Len(<< n >>) = 1 /\ << n >>[1] = n
  OBVIOUS
<1>2. \A i \in 1 .. 1 : i = 1
  OBVIOUS
<1>3. DOMAIN Linked(f, n, NULL) = DOMAIN f \cup {n} /\ Linked(f, n, NULL)[n] = NULL
  BY DEF Linked
<1> QED
  BY <1>1, <1>2, <1>3 DEF IsChain

\* What is left of a sequence when one element is taken out.
LEMMA RemovedShape ==
  ASSUME NEW S, NEW s \in Seq(S), NEW i \in 1 .. Len(s)
  PROVE  /\ Len(RemoveAt(s, i)) = Len(s) - 1
         /\ \A k \in 1 .. Len(s) - 1 : RemoveAt(s, i)[k] = IF k < i THEN s[k] ELSE s[k + 1]
         /\ RemoveAt(s, i) = [k \in 1 .. Len(s) - 1 |-> RemoveAt(s, i)[k]]
<1> DEFINE L == Len(s)
           a == SubSeq(s, 1, i - 1)
           b == SubSeq(s, i + 1, L)
<1>1. L \in Nat /\ i \in Int /\ 1 <= i /\ i <= L
  BY LenProperties
<1>2. a \in Seq(S) /\ Len(a) = i - 1 /\ \A k \in 1 .. i - 1 : a[k] = s[k]
  <2>1. \A k \in 1 .. i - 1 : s[k] \in S
    BY <1>1, ElementOfSeq
  <2>2. Len(a) = IF 1 <= i - 1 THEN (i - 1) - 1 + 1 ELSE 0
    BY <1>1, <2>1, SubSeqProperties
  <2> QED
    BY <1>1, <2>1, <2>2, SubSeqProperties
<1>3. b \in Seq(S) /\ Len(b) = L - i /\ \A k \in 1 .. L - i : b[k] = s[i + k]
  BY <1>1, ElementOfSeq, SubSeqProperties
<1>4. RemoveAt(s, i) = a \o b
  BY DEF RemoveAt
<1> HIDE DEF a, b, L
<1>5. /\ Len(a \o b) = Len(a) + Len(b)
      /\ \A k \in 1 .. Len(a) + Len(b) : (a \o b)[k] = IF k <= Len(a) THEN a[k] ELSE b[k - Len(a)]
      /\ a \o b \in Seq(S)
  BY <1>2, <1>3, ConcatProperties
<1>6. Len(a) + Len(b) = L - 1
  BY <1>1, <1>2, <1>3
<1>7. ASSUME NEW k \in 1 .. L - 1
      PROVE  (a \o b)[k] = IF k < i THEN s[k] ELSE s[k + 1]
  <2>1. CASE k < i
    <3>1. k \in 1 .. i - 1 /\ k <= Len(a)
      BY <1>1, <1>2, <2>1
    <3> QED
      BY <1>2, <1>5, <1>6, <2>1, <3>1
  <2>2. CASE ~ (k < i)
    <3>1. k - (i - 1) \in 1 .. L - i /\ i + (k - (i - 1)) = k + 1 /\ ~ (k <= Len(a))
      BY <1>1, <1>2, <2>2
    <3> QED
      BY <1>2, <1>3, <1>5, <1>6, <2>2, <3>1
  <2> QED
    BY <2>1, <2>2
<1>8. a \o b = [k \in 1 .. L - 1 |-> (a \o b)[k]]
  BY <1>5, <1>6, LenProperties
<1> QED
  BY <1>4, <1>5, <1>6, <1>7, <1>8 DEF L

\* The node at i taken out: what was before it now leads past it.
LEMMA RemoveChain ==
  ASSUME NEW f, NEW s, IsChain(f, s), NEW i \in 1 .. Len(s)
  PROVE  LET g == IF i = 1 THEN Freed(f, s[1])
                  ELSE Freed(Linked(f, s[i - 1], f[s[i]]), s[i])
         IN  IsChain(g, RemoveAt(s, i)) /\ Len(RemoveAt(s, i)) = Len(s) - 1
             /\ First(RemoveAt(s, i)) = IF i = 1 THEN f[s[1]] ELSE First(s)
<1> DEFINE L == Len(s)
           t == RemoveAt(s, i)
           g == IF i = 1 THEN Freed(f, s[1])
                ELSE Freed(Linked(f, s[i - 1], f[s[i]]), s[i])
<1>1. L \in Nat /\ i \in 1 .. L /\ i \in Nat /\ 1 \in 1 .. L
  BY LenProperties DEF IsChain
<1>2. \A k \in 1 .. L : s[k] \in DOMAIN f
  BY <1>1, ElementOfSeq DEF IsChain
<1>3. /\ Len(t) = L - 1
      /\ \A k \in 1 .. L - 1 : t[k] = IF k < i THEN s[k] ELSE s[k + 1]
      /\ t = [k \in 1 .. L - 1 |-> t[k]]
  BY <1>1, RemovedShape DEF IsChain
<1>4. \A j, k \in 1 .. L : s[j] = s[k] => j = k
  BY DEF IsChain
<1>5. \A k \in 1 .. L : f[s[k]] = IF k < L THEN s[k + 1] ELSE NULL
  BY DEF IsChain
<1>6. DOMAIN g = DOMAIN f \ {s[i]}
  BY <1>1, <1>2 DEF Linked, Freed
<1>7. \A m \in DOMAIN g : g[m] = IF i # 1 /\ m = s[i - 1] THEN f[s[i]] ELSE f[m]
  BY <1>1, <1>2, <1>6 DEF Linked, Freed
<1>8. \A k \in 1 .. L - 1 : (IF k < i THEN k ELSE k + 1) \in (1 .. L) \ {i}
  BY <1>1
<1> HIDE DEF L, t, g
<1>9. \A k \in 1 .. L - 1 : t[k] \in DOMAIN g
  BY <1>2, <1>3, <1>4, <1>6, <1>8, <1>1
<1>10. t \in Seq(DOMAIN g)
  <2>1. L - 1 \in Nat
    BY <1>1
  <2> QED
    BY <1>3, <1>9, <2>1, IsASeq
<1>11. ASSUME NEW j \in 1 .. L - 1, NEW k \in 1 .. L - 1, t[j] = t[k]
       PROVE  j = k
  <2>1. (IF j < i THEN j ELSE j + 1) = (IF k < i THEN k ELSE k + 1)
    <3>1. /\ t[j] = s[IF j < i THEN j ELSE j + 1]
          /\ t[k] = s[IF k < i THEN k ELSE k + 1]
      BY <1>3
    <3> QED
      BY <1>4, <1>8, <1>11, <3>1
  <2> QED
    BY <1>1, <2>1
<1>12. ASSUME NEW k \in 1 .. L - 1
       PROVE  g[t[k]] = IF k < L - 1 THEN t[k + 1] ELSE NULL
  <2>1. CASE k < i - 1
    <3>1. k < i /\ k + 1 < i /\ k \in 1 .. L /\ k + 1 \in 1 .. L - 1 /\ k < L - 1 /\ k < L
      BY <1>1, <2>1
    <3>2. t[k] = s[k] /\ t[k + 1] = s[k + 1]
      BY <1>3, <3>1
    <3>3. i - 1 \in 1 .. L /\ k # i - 1
      BY <1>1, <2>1
    <3>4. s[k] # s[i - 1]
      BY <1>4, <3>1, <3>3
    <3> QED
      BY <1>5, <1>7, <1>9, <3>1, <3>2, <3>4
  <2>2. CASE k = i - 1
    <3>1. k < i /\ ~ (k + 1 < i) /\ i # 1 /\ (k + 1) + 1 = i + 1
      BY <1>1, <2>2
    <3>2. t[k] = s[i - 1]
      BY <1>3, <2>2, <3>1
    <3>3. g[t[k]] = IF i < L THEN s[i + 1] ELSE NULL
      BY <1>1, <1>5, <1>7, <1>9, <3>1, <3>2
    <3>4. k < L - 1 <=> i < L
      BY <1>1, <2>2
    <3>5. k < L - 1 => k + 1 \in 1 .. L - 1
      BY <1>1
    <3>6. k < L - 1 => t[k + 1] = s[i + 1]
      BY <1>3, <3>1, <3>5
    <3> QED
      BY <3>3, <3>4, <3>6
  <2>3. CASE k > i - 1
    <3>1. ~ (k < i) /\ ~ (k + 1 < i) /\ k + 1 \in 1 .. L
          /\ (k < L - 1 <=> k + 1 < L) /\ (k < L - 1 => k + 1 \in 1 .. L - 1)
      BY <1>1, <2>3
    <3>2. t[k] = s[k + 1] /\ (k < L - 1 => t[k + 1] = s[(k + 1) + 1])
      BY <1>3, <3>1
    <3>3. i # 1 => i - 1 \in 1 .. L /\ k + 1 # i - 1
      BY <1>1, <2>3
    <3>4. i # 1 => s[k + 1] # s[i - 1]
      BY <1>4, <3>1, <3>3
    <3>5. g[t[k]] = f[s[k + 1]]
      BY <1>7, <1>9, <3>2, <3>4
    <3> QED
      BY <1>5, <3>1, <3>2, <3>5
  <2> QED
    BY <1>1, <2>1, <2>2, <2>3
<1>13. IsChain(g, t)
  <2>1. DOMAIN g \subseteq Nodes
    BY <1>6 DEF IsChain
  <2> QED
    BY <1>3, <1>10, <1>11, <1>12, <2>1 DEF IsChain
<1>14. First(t) = IF i = 1 THEN f[s[1]] ELSE First(s)
  <2>1. t = << >> <=> L = 1
    BY <1>1, <1>3, <1>10, EmptySeq
  <2>2. s # << >>
    BY <1>1, EmptySeq DEF L
  <2>3. L # 1 => 1 \in 1 .. L - 1 /\ 1 < L /\ (1 < i <=> i # 1)
    BY <1>1
  <2>4. L = 1 => i = 1 /\ ~ (1 < L)
    BY <1>1
  <2>5. f[s[1]] = IF 1 < L THEN s[1 + 1] ELSE NULL
    BY <1>1, <1>5
  <2> QED
    BY <1>3, <2>1, <2>2, <2>3, <2>4, <2>5 DEF First
<1> QED
  BY <1>3, <1>13, <1>14 DEF g, t, L

\* Two neighbours exchanged by the assignments of move_down and move_up.
LEMMA ExchangeChain ==
  ASSUME NEW s, IsChain(next, s), NEW i \in 1 .. Len(s) - 1
  PROVE  LET g == Exchanged(IF i = 1 THEN NULL ELSE s[i - 1], s[i], s[i + 1])
         IN  IsChain(g, Exchanging(s, i)) /\ Len(Exchanging(s, i)) = Len(s)
             /\ First(Exchanging(s, i)) = IF i = 1 THEN s[2] ELSE First(s)
<1> DEFINE L == Len(s)
           t == Exchanging(s, i)
           a == s[i]
           b == s[i + 1]
           prev == IF i = 1 THEN NULL ELSE s[i - 1]
           g == Exchanged(prev, a, b)
           \* where the k-th node of the new chain was
           was(k) == IF k = i THEN i + 1 ELSE IF k = i + 1 THEN i ELSE k
<1>1. L \in Nat /\ i \in 1 .. L /\ i + 1 \in 1 .. L /\ i \in Nat /\ 1 \in 1 .. L /\ i < L
  BY LenProperties DEF IsChain
<1>2. \A k \in 1 .. L : s[k] \in DOMAIN next
  BY <1>1, ElementOfSeq DEF IsChain
<1>3. /\ t \in Seq(DOMAIN next) /\ Len(t) = L
      /\ \A k \in 1 .. L : t[k] = s[was(k)] /\ was(k) \in 1 .. L
  <2>1. s \in [1 .. L -> DOMAIN next]
    BY LenProperties DEF IsChain
  <2>2. t = [k \in 1 .. L |-> s[was(k)]]
    BY <1>1, <2>1 DEF Exchanging
  <2>3. \A k \in 1 .. L : was(k) \in 1 .. L
    BY <1>1
  <2>4. \A k \in 1 .. L : s[was(k)] \in DOMAIN next
    BY <1>2, <2>3
  <2> HIDE DEF t, was
  <2>5. t \in Seq(DOMAIN next)
    BY <1>1, <2>2, <2>4, IsASeq
  <2>6. DOMAIN t = 1 .. L /\ DOMAIN t = 1 .. Len(t) /\ Len(t) \in Nat
    BY <2>2, <2>5, LenProperties
  <2>7. Len(t) = L
    BY <1>1, <2>6
  <2> QED
    BY <2>2, <2>3, <2>5, <2>7
<1>4. \A j, k \in 1 .. L : s[j] = s[k] => j = k
  BY DEF IsChain
<1>5. \A k \in 1 .. L : next[s[k]] = IF k < L THEN s[k + 1] ELSE NULL
  BY DEF IsChain
<1>6. i # 1 => i - 1 \in 1 .. L
  BY <1>1
<1>7. /\ DOMAIN g = DOMAIN next
      /\ \A m \in DOMAIN next : g[m] = IF i # 1 /\ m = s[i - 1] THEN b
                                      ELSE IF m = b THEN a
                                      ELSE IF m = a THEN next[b] ELSE next[m]
  <2>1. NULL \notin DOMAIN next
    BY NodeAssumption DEF IsChain
  <2>2. a \in DOMAIN next /\ b \in DOMAIN next /\ a # b
        /\ (i # 1 => s[i - 1] \in DOMAIN next /\ s[i - 1] # a /\ s[i - 1] # b)
    <3>1. i # i + 1 /\ i - 1 # i /\ i - 1 # i + 1
      BY <1>1
    <3> QED
      BY <1>1, <1>2, <1>4, <1>6, <3>1
  <2>3. i # 1 => prev # NULL
    BY <2>1, <2>2
  <2> HIDE DEF a, b
  <2> QED
    BY <2>1, <2>2, <2>3 DEF Exchanged
<1>8. \A j, k \in 1 .. L : was(j) = was(k) => j = k
  BY <1>1
<1>9. was(i) = i + 1 /\ was(i + 1) = i /\ \A k \in 1 .. L : k # i /\ k # i + 1 => was(k) = k
  BY <1>1
<1> HIDE DEF t, g, was, L
<1>10. ASSUME NEW j \in 1 .. L, NEW k \in 1 .. L, t[j] = t[k]
       PROVE  j = k
  <2>1. s[was(j)] = s[was(k)] /\ was(j) \in 1 .. L /\ was(k) \in 1 .. L
    BY <1>3, <1>10
  <2> QED
    BY <1>4, <1>8, <2>1
<1>11. ASSUME NEW k \in 1 .. L
       PROVE  g[t[k]] = IF k < L THEN t[k + 1] ELSE NULL
  <2>0. t[k] = s[was(k)] /\ s[was(k)] \in DOMAIN next /\ was(k) \in 1 .. L
    BY <1>2, <1>3
  <2>1. CASE k = i
    <3>1. t[k] = b /\ t[k + 1] = a /\ k < L
      BY <1>1, <1>3, <1>9, <2>1
    <3>2. i # 1 => s[i - 1] # b
      <4>1. i - 1 # i + 1
        BY <1>1
      <4> QED
        BY <1>1, <1>4, <1>6, <4>1
    <3> QED
      BY <1>7, <2>0, <3>1, <3>2
  <2>2. CASE k = i + 1
    <3>1. t[k] = a
      BY <1>1, <1>3, <1>9, <2>2
    <3>2. a # b /\ (i # 1 => s[i - 1] # a)
      <4>1. i - 1 # i /\ i # i + 1
        BY <1>1
      <4> QED
        BY <1>1, <1>4, <1>6, <4>1
    <3>3. g[t[k]] = IF i + 1 < L THEN s[(i + 1) + 1] ELSE NULL
      BY <1>1, <1>5, <1>7, <2>0, <3>1, <3>2
    <3>4. k < L => k + 1 \in 1 .. L /\ k + 1 # i /\ k + 1 # i + 1
      BY <1>1, <2>2
    <3>5. k < L => t[k + 1] = s[k + 1]
      BY <1>3, <1>9, <3>4
    <3> QED
      BY <2>2, <3>3, <3>5
  <2>3. CASE k # i /\ k # i + 1 /\ k + 1 = i
    <3>1. k = i - 1 /\ i # 1 /\ k < L
      BY <1>1, <2>3
    <3>2. t[k] = s[i - 1] /\ t[k + 1] = b
      BY <1>1, <1>3, <1>9, <2>3, <3>1
    <3> QED
      BY <1>7, <2>0, <3>1, <3>2
  <2>4. CASE k # i /\ k # i + 1 /\ k + 1 # i
    <3>1. t[k] = s[k]
      BY <1>9, <2>0, <2>4
    <3>2. k # i - 1 /\ (k < L => k + 1 \in 1 .. L /\ k + 1 # i + 1)
      BY <1>1, <2>4
    <3>3. s[k] # a /\ s[k] # b /\ (i # 1 => s[k] # s[i - 1])
      BY <1>1, <1>4, <1>6, <2>4, <3>2
    <3>4. g[t[k]] = next[s[k]]
      BY <1>7, <2>0, <3>1, <3>3
    <3>5. k < L => t[k + 1] = s[k + 1]
      BY <1>3, <1>9, <2>4, <3>2
    <3> QED
      BY <1>5, <3>4, <3>5
  <2> QED
    BY <2>1, <2>2, <2>3, <2>4
<1>12. IsChain(g, t)
  BY <1>3, <1>7, <1>10, <1>11 DEF IsChain
<1>13. First(t) = IF i = 1 THEN s[2] ELSE First(s)
  <2>1. t # << >> /\ s # << >>
    BY <1>1, <1>3, EmptySeq DEF L
  <2>2. i = 1 => was(1) = 2
    BY <1>9
  <2>3. i # 1 => was(1) = 1
    <3>1. i # 1 => 1 # i + 1
      BY <1>1
    <3> QED
      BY <1>1, <1>9, <3>1
  <2> QED
    BY <1>1, <1>3, <2>1, <2>2, <2>3 DEF First
<1> QED
  BY <1>3, <1>12, <1>13 DEF g, t, L, a, b, prev

-----------------------------------------------------------------------------
(* The list *)

\* The nodes of s, in this order, are the list: reached from list_head, as many
\* as list_cnt says, and as long as the list is filled list_end is the last one.
ListIs(s) ==
  /\ IsChain(next, s)
  /\ list_head = First(s)
  /\ list_cnt = Len(s)
  /\ filling /\ s # << >> => list_end = s[Len(s)]
  /\ ~ badAccess

ListInv == \E s : ListIs(s)

\* Nothing is a chain, whatever the pointers.
LEMMA EmptyIsChain == ASSUME NEW f, DOMAIN f \subseteq Nodes
                      PROVE  IsChain(f, << >>) /\ First(<< >>) = NULL /\ Len(<< >>) = 0
<1>1. << >> \in Seq(DOMAIN f) /\ Len(<< >>) = 0 /\ \A i \in 1 .. 0 : FALSE
  BY EmptySeq
<1> QED
  BY <1>1 DEF IsChain, First

\* An element of a chain, and its being empty.
LEMMA ChainElements ==
  ASSUME NEW f, NEW s, IsChain(f, s)
  PROVE  /\ Len(s) \in Nat
         /\ \A i \in 1 .. Len(s) : s[i] \in DOMAIN f /\ s[i] # NULL
         /\ s = << >> <=> Len(s) = 0
         /\ s = << >> <=> First(s) = NULL
<1>1. Len(s) \in Nat /\ \A i \in 1 .. Len(s) : s[i] \in DOMAIN f
  BY LenProperties, ElementOfSeq DEF IsChain
<1>2. \A n \in DOMAIN f : n # NULL
  BY NodeAssumption DEF IsChain
<1>3. s = << >> <=> Len(s) = 0
  BY EmptySeq DEF IsChain
<1>4. Len(s) # 0 => 1 \in 1 .. Len(s)
  BY <1>1
<1> QED
  BY <1>1, <1>2, <1>3, <1>4 DEF First

\* add_to_list appends, as long as list_end is still the last node.
LEMMA AddStep ==
  ASSUME NEW s, ListIs(s), NEW n \in Nodes, add_to_list(n)
  PROVE  ListIs(Append(s, n))'
<1> DEFINE t == Append(s, n)
<1>1. IsChain(next, s) /\ Len(s) \in Nat /\ n \notin DOMAIN next /\ DOMAIN next \subseteq Nodes
  BY ChainElements DEF ListIs, add_to_list, Live, IsChain
<1>2. t \in Seq(Nodes) /\ Len(t) = Len(s) + 1 /\ t[Len(s) + 1] = n
      /\ (\A i \in 1 .. Len(s) : t[i] = s[i])
  <2>1. s \in Seq(Nodes)
    BY <1>1, SeqMonotonic DEF IsChain
  <2> QED
    BY <2>1, AppendProperties
<1>3. t # << >>
  BY <1>1, <1>2, EmptySeq
<1>4. list_end' = t[Len(t)] /\ list_cnt' = Len(t)
  BY <1>2 DEF add_to_list, ListIs
<1>5. CASE list_head = NULL
  <2>1. s = << >> /\ t = << n >>
    <3>1. First(s) = NULL
      BY <1>5 DEF ListIs
    <3>2. s = << >>
      BY <1>1, <3>1, ChainElements
    <3> QED
      BY <3>2
  <2>2. next' = Linked(next, n, NULL) /\ list_head' = n /\ badAccess' = badAccess
    BY <1>5 DEF add_to_list
  <2>3. IsChain(next', t)
    BY <1>1, <2>1, <2>2, SingleChain
  <2>4. First(t) = n
    BY <1>3, <2>1 DEF First
  <2> QED
    BY <1>4, <2>2, <2>3, <2>4 DEF ListIs
<1>6. CASE list_head # NULL
  <2>1. s # << >> /\ Len(s) # 0 /\ Len(s) \in 1 .. Len(s) /\ 1 \in 1 .. Len(s)
    BY <1>1, <1>6, ChainElements DEF ListIs
  <2>2. list_end = s[Len(s)] /\ list_end \in DOMAIN next /\ next[list_end] = NULL
    BY <1>1, <2>1, ChainElements DEF ListIs, add_to_list, IsChain
  <2>3. Path(list_end) = << list_end >>
    <3>1. IsChain(next, << list_end >>)
      <4>1. << list_end >> \in Seq(DOMAIN next) /\ Len(<< list_end >>) = 1
            /\ << list_end >>[1] = list_end /\ \A i \in 1 .. 1 : i = 1
        BY <2>2
      <4> QED
        BY <1>1, <2>2, <4>1 DEF IsChain
    <3>2. First(<< list_end >>) = list_end
      BY DEF First
    <3> QED
      BY <3>1, <3>2, PathIsChain
  <2>4. ~ Dangles(list_end) /\ Path(list_end) # << >>
        /\ Path(list_end)[Len(Path(list_end))] = list_end
    BY <2>2, <2>3 DEF Dangles
  <2>5. /\ next' = Linked(Linked(next, n, NULL), list_end, n)
        /\ list_head' = list_head
        /\ badAccess' = (badAccess \/ Dangles(list_end))
    BY <1>6, <2>4 DEF add_to_list
  <2>6. IsChain(next', t)
    BY <1>1, <2>1, <2>2, <2>5, AppendChain
  <2>7. First(t) = First(s)
    BY <1>2, <1>3, <2>1 DEF First
  <2> QED
    BY <1>4, <2>4, <2>5, <2>6, <2>7 DEF ListIs
<1> QED
  BY <1>5, <1>6

\* remove_nth_node takes one node out; its position was on the list.
LEMMA RemoveStep ==
  ASSUME NEW s, ListIs(s), NEW pos \in Nat, remove_nth_node(pos)
  PROVE  pos + 1 \in 1 .. Len(s) /\ ListIs(RemoveAt(s, pos + 1))'
<1> DEFINE i == pos + 1
           t == RemoveAt(s, i)
<1>1. IsChain(next, s) /\ Len(s) \in Nat /\ list_cnt = Len(s) /\ list_head = First(s)
  BY ChainElements DEF ListIs
<1>2. i \in 1 .. Len(s) /\ (i = 1 <=> pos = 0)
  BY <1>1 DEF remove_nth_node
<1>3. Path(list_head) = s
  BY <1>1, PathIsChain
<1>4. /\ next' = IF i = 1 THEN Freed(next, s[1])
                 ELSE Freed(Linked(next, s[i - 1], next[s[i]]), s[i])
      /\ list_head' = IF i = 1 THEN next[s[1]] ELSE list_head
      /\ list_cnt' = Len(s) - 1 /\ ~ filling' /\ badAccess' = badAccess
  <2>1. (i - 1) = pos
    BY <1>2
  <2> QED
    BY <1>1, <1>2, <1>3, <2>1 DEF remove_nth_node
<1>5. IsChain(next', t) /\ Len(t) = Len(s) - 1
      /\ First(t) = IF i = 1 THEN next[s[1]] ELSE First(s)
  <2> HIDE DEF i
  <2> QED
    BY <1>1, <1>2, <1>4, RemoveChain
<1> HIDE DEF t, i
<1>6. ListIs(t)'
  BY <1>1, <1>4, <1>5 DEF ListIs
<1> QED
  BY <1>2, <1>6 DEF t, i

\* What both moves do to the list.
LEMMA ExchangeStep ==
  ASSUME NEW s, ListIs(s), NEW i \in 1 .. Len(s) - 1,
         next' = Exchanged(IF i = 1 THEN NULL ELSE s[i - 1], s[i], s[i + 1]),
         list_head' = IF i = 1 THEN s[2] ELSE list_head,
         filling' = FALSE, UNCHANGED << list_cnt, badAccess >>
  PROVE  ListIs(Exchanging(s, i))'
<1> DEFINE t == Exchanging(s, i)
<1>1. IsChain(next, s) /\ list_head = First(s)
  BY DEF ListIs
<1>2. IsChain(next', t) /\ Len(t) = Len(s) /\ First(t) = IF i = 1 THEN s[2] ELSE First(s)
  BY <1>1, ExchangeChain
<1> HIDE DEF t
<1>3. ListIs(t)'
  BY <1>1, <1>2 DEF ListIs
<1> QED
  BY <1>3 DEF t

\* The window moves a station down: two neighbours change places.
LEMMA DownStep ==
  ASSUME NEW s, ListIs(s), NEW idx \in Nat, KeyDown(idx)
  PROVE  idx + 1 \in 1 .. Len(s) - 1 /\ ListIs(Exchanging(s, idx + 1))'
<1> DEFINE i == idx + 1
<1>1. IsChain(next, s) /\ Len(s) \in Nat /\ list_cnt = Len(s) /\ list_head = First(s)
  BY ChainElements DEF ListIs
<1>2. i \in 1 .. Len(s) - 1 /\ i + 1 \in 1 .. Len(s) /\ Len(s) # 1
  BY <1>1 DEF KeyDown
<1>3. Path(list_head) = s
  BY <1>1, PathIsChain
<1>4. move_down(i)
  BY DEF KeyDown
<1> HIDE DEF i
<1>5. /\ next' = Exchanged(IF i = 1 THEN NULL ELSE s[i - 1], s[i], s[i + 1])
      /\ list_head' = IF i = 1 THEN s[2] ELSE list_head
      /\ filling' = FALSE /\ UNCHANGED << list_cnt, badAccess >>
  <2>1. 1 + 1 = 2 /\ ~ (1 \in 2 .. Len(s) - 1)
    BY <1>1
  <2> QED
    BY <1>2, <1>3, <1>4, <2>1 DEF move_down
<1>6. ListIs(Exchanging(s, i))'
  BY <1>2, <1>5, ExchangeStep
<1> QED
  BY <1>2, <1>6 DEF i

\* And up.
LEMMA UpStep ==
  ASSUME NEW s, ListIs(s), NEW idx \in Nat, KeyUp(idx)
  PROVE  idx \in 1 .. Len(s) - 1 /\ ListIs(Exchanging(s, idx))'
<1> DEFINE up == idx + 1
<1>1. IsChain(next, s) /\ Len(s) \in Nat /\ list_cnt = Len(s) /\ list_head = First(s)
  BY ChainElements DEF ListIs
<1>2. idx \in 1 .. Len(s) - 1 /\ Len(s) # 1
  BY <1>1 DEF KeyUp
<1>3. Path(list_head) = s
  BY <1>1, PathIsChain
<1>4. move_up(up) /\ up - 2 = idx - 1 /\ up - 1 = idx /\ (up = 2 <=> idx = 1)
  BY DEF KeyUp
<1> HIDE DEF up
<1>5. /\ next' = Exchanged(IF idx = 1 THEN NULL ELSE s[idx - 1], s[idx], s[up])
      /\ list_head' = IF idx = 1 THEN s[2] ELSE list_head
      /\ filling' = FALSE /\ UNCHANGED << list_cnt, badAccess >>
  <2>1. ~ (2 \in 3 .. Len(s))
    BY <1>1
  <2> QED
    BY <1>2, <1>3, <1>4, <2>1 DEF move_up
<1>6. ListIs(Exchanging(s, idx))'
  BY <1>2, <1>5, ExchangeStep DEF up
<1> QED
  BY <1>2, <1>6

\* destroy_list frees every node and leaves the empty list.
LEMMA DestroyStep ==
  ASSUME NEW s, ListIs(s), destroy_list
  PROVE  ListIs(<< >>)'
<1>1. IsChain(next, s) /\ Len(s) \in Nat /\ list_cnt = Len(s) /\ list_head = First(s)
  BY ChainElements DEF ListIs
<1>2. CASE list_cnt = 0
  <2>1. s = << >>
    <3>1. Len(s) = 0
      BY <1>1, <1>2
    <3> QED
      BY <1>1, <3>1, ChainElements
  <2> QED
    BY <1>1, <1>2, <2>1 DEF ListIs, destroy_list
<1>3. CASE list_cnt # 0
  <2>1. Path(list_head) = s
    BY <1>1, PathIsChain
  <2>2. s # << >> /\ Len(s) \in 1 .. Len(s)
    BY <1>1, <1>3, ChainElements
  <2>3. ~ Dangles(list_head)
    BY <1>1, <2>1, <2>2 DEF Dangles, IsChain
  <2>4. DOMAIN next' \subseteq Nodes
    BY <1>1, <1>3 DEF destroy_list, IsChain, Live
  <2>5. list_head' = NULL /\ list_cnt' = 0 /\ ~ badAccess'
    BY <1>3, <2>3 DEF destroy_list, ListIs
  <2> QED
    BY <2>4, <2>5, EmptyIsChain DEF ListIs
<1> QED
  BY <1>2, <1>3

\* One step of the sequence the nodes stand for, or none.
ListStep(s, t) ==
  \/ t = s
  \/ \E n \in Nodes : t = Append(s, n)
  \/ \E i \in 1 .. Len(s) : t = RemoveAt(s, i)
  \/ \E i \in 1 .. Len(s) - 1 : t = Exchanging(s, i)
  \/ t = << >>

\* The lowest free address is an address.
LEMMA FreeAddress == DOMAIN next \subseteq Nodes /\ Live # Nodes => Min(Nodes \ Live) \in Nodes \ Live
<1> SUFFICES ASSUME DOMAIN next \subseteq Nodes, Live # Nodes
             PROVE  Min(Nodes \ Live) \in Nodes \ Live
  OBVIOUS
<1> DEFINE F == Nodes \ Live
<1>1. F # {}
  BY DEF Live
<1>2. F \subseteq Nat
  <2>1. Cardinality(Nodes) \in Nat
    BY NodeAssumption, FS_CardinalityType
  <2> QED
    BY <2>1, NodesAssumption
<1> HIDE DEF F
<1>3. PICK n \in F : \A m \in F : n <= m
  BY <1>1, <1>2, HasFirst
<1>4. Min(F) \in F
  BY <1>3 DEF Min
<1> QED
  BY <1>4 DEF F

\* Every step of the file and of the window keeps the nodes a list, and changes it
\* by one operation of a sequence at most.
LEMMA FileStepOnList ==
  ASSUME NEW s, ListIs(s), [FileNext]_allVars
  PROVE  \E t : ListIs(t)' /\ ListStep(s, t)
<1>1. IsChain(next, s) /\ DOMAIN next \subseteq Nodes /\ \A idx \in 0 .. Cardinality(Nodes) - 1 : idx \in Nat
  BY DEF ListIs, IsChain
<1>2. CASE UNCHANGED vars
  <2>1. ListIs(s)'
    BY <1>2 DEF ListIs, vars
  <2> QED
    BY <2>1 DEF ListStep
<1>3. CASE LoadRecord
  <2>1. CASE UNCHANGED vars
    BY <1>2, <2>1
  <2>2. CASE Live # Nodes /\ add_to_list(Min(Nodes \ Live))
    <3>1. PICK n \in Nodes : add_to_list(n)
      BY <1>1, <2>2, FreeAddress
    <3>2. ListIs(Append(s, n))'
      BY <3>1, AddStep
    <3> QED
      BY <3>2 DEF ListStep
  <2> QED
    BY <1>3, <2>1, <2>2 DEF LoadRecord
<1>4. CASE \E idx \in 0 .. Cardinality(Nodes) - 1 : WindowMove(idx)
  <2>1. PICK idx \in 0 .. Cardinality(Nodes) - 1 : WindowMove(idx)
    BY <1>4
  <2>2. CASE KeyDown(idx)
    <3>1. idx + 1 \in 1 .. Len(s) - 1 /\ ListIs(Exchanging(s, idx + 1))'
      BY <1>1, <2>2, DownStep
    <3> QED
      BY <3>1 DEF ListStep
  <2>3. CASE KeyUp(idx)
    <3>1. idx \in 1 .. Len(s) - 1 /\ ListIs(Exchanging(s, idx))'
      BY <1>1, <2>3, UpStep
    <3> QED
      BY <3>1 DEF ListStep
  <2> QED
    BY <2>1, <2>2, <2>3 DEF WindowMove
<1>5. CASE \E idx \in 0 .. Cardinality(Nodes) - 1, b \in BOOLEAN : ServiceRemove(idx, b)
  <2>1. PICK idx \in 0 .. Cardinality(Nodes) - 1 : remove_nth_node(idx)
    BY <1>5 DEF ServiceRemove
  <2>2. idx + 1 \in 1 .. Len(s) /\ ListIs(RemoveAt(s, idx + 1))'
    BY <1>1, <2>1, RemoveStep
  <2> QED
    BY <2>2 DEF ListStep
<1>6. CASE WindowExit
  <2>1. ListIs(<< >>)'
    BY <1>6, DestroyStep DEF WindowExit
  <2> QED
    BY <2>1 DEF ListStep
<1>7. CASE CrashRestart
  <2>1. list_head' = NULL /\ list_cnt' = 0 /\ badAccess' = badAccess /\ DOMAIN next' = {}
    BY <1>7 DEF CrashRestart
  <2>2. ListIs(<< >>)'
    BY <2>1, EmptyIsChain DEF ListIs
  <2> QED
    BY <2>2 DEF ListStep
<1>8. ASSUME NEW m \in Multiplexes, SaveScan(m)
      PROVE  UNCHANGED vars
  BY <1>8 DEF SaveScan
<1>9. ASSUME NEW b \in BOOLEAN, AppendCount(b) \/ SaveScanRefused(b)
      PROVE  UNCHANGED vars
  BY <1>9 DEF AppendCount, SaveScanRefused
<1>10. ASSUME NEW idx, NEW b \in BOOLEAN, WindowEnable(idx, b)
       PROVE  UNCHANGED vars
  BY <1>10 DEF WindowEnable
<1>11. CASE AppendRecord \/ ScanEnd \/ RewriteCreate \/ RewriteRefused \/ RewriteCount
            \/ RewriteRecord \/ RewriteEnd \/ SelectUpdatesPids \/ WindowOpen \/ WindowShown
  <2>1. UNCHANGED vars
    BY <1>11 DEF AppendRecord, ScanEnd, RewriteCreate, RewriteRefused, RewriteCount, RewriteRecord, RewriteEnd,
                 SelectUpdatesPids, WindowOpen, WindowShown
  <2> QED
    BY <1>2, <2>1
<1>12. CASE UNCHANGED allVars
  BY <1>2, <1>12 DEF allVars
<1> QED
  BY <1>2, <1>3, <1>4, <1>5, <1>6, <1>7, <1>8, <1>9, <1>10, <1>11, <1>12 DEF FileNext

\* A list without a node is the empty sequence.
LEMMA InitList == FileInit => ListIs(<< >>)
BY EmptyIsChain DEF FileInit, Init, ListIs

\* The nodes stay a chain, whatever the window and the load do to them
\* (service_list.cpp:48-442).
THEOREM ListKept == FileSpec => []ListInv
<1>1. FileInit => ListInv
  BY InitList DEF ListInv
<1>2. ListInv /\ [FileNext]_allVars => ListInv'
  BY FileStepOnList DEF ListInv
<1> QED
  BY <1>1, <1>2, PTL DEF FileSpec

\* No operation on the list follows the null pointer or a freed node, whatever
\* is loaded, moved, removed and destroyed, with any number of stations:
\* remove_nth_node and the moves leave list_end behind, but nothing is added
\* before the list has been destroyed (service_list.cpp:75, 229, 326, 387).
THEOREM NeverBadAccess == FileSpec => []NoBadAccess
<1>1. ListInv => NoBadAccess
  BY DEF ListInv, ListIs, NoBadAccess
<1> QED
  BY <1>1, ListKept, PTL

\* The nodes implement a sequence: what get_from_list counts off from the head
\* changes by one append, one removal, one exchange of neighbours, or all at
\* once (service_list.cpp:48-442).
THEOREM NodesImplementSequence == FileSpec => ImplementsSequence
<1>1. FileInit => Sequence!Init
  <2>1. FileInit => Path(list_head) = << >>
    <3>1. ListIs(<< >>) => Path(list_head) = << >>
      BY PathIsChain DEF ListIs
    <3> QED
      BY <3>1, InitList
  <2> QED
    BY <2>1 DEF Sequence!Init
<1>2. ListInv /\ [FileNext]_allVars => [Sequence!Next]_(Path(list_head))
  <2> SUFFICES ASSUME ListInv, [FileNext]_allVars
               PROVE  [Sequence!Next]_(Path(list_head))
    OBVIOUS
  <2>1. PICK s : ListIs(s)
    BY DEF ListInv
  <2>2. PICK t : ListIs(t)' /\ ListStep(s, t)
    BY <2>1, FileStepOnList
  <2>3. Path(list_head) = s
    BY <2>1, PathIsChain DEF ListIs
  <2>4. Path(list_head)' = t
    <3>1. IsChain(next', t) /\ list_head' = First(t)
      BY <2>2 DEF ListIs
    <3>2. WalksFollowChains'
      BY WalksFollowChainsNext
    <3>3. Path(First(t))' = t
      BY <3>1, <3>2 DEF WalksFollowChains
    <3> QED
      BY <3>1, <3>3 DEF Path
  <2> DEFINE stations == Path(list_head)
  <2>5. stations = s /\ stations' = t
    BY <2>3, <2>4
  <2>6. (\E n \in Nodes : t = Append(s, n)) => \E n \in Nodes : Sequence!PutLast(n)
    <3> HIDE DEF ListIs
    <3> QED
      BY <2>5 DEF Sequence!PutLast
  <2>7. (\E i \in 1 .. Len(s) : t = RemoveAt(s, i)) => \E i \in 1 .. Len(stations) : Sequence!TakeOut(i)
    BY <2>5 DEF Sequence!TakeOut, Sequence!RemoveAt, RemoveAt
  <2>8. (\E i \in 1 .. Len(s) - 1 : t = Exchanging(s, i))
           => \E i \in 1 .. Len(stations) - 1 : Sequence!Exchange(i)
    BY <2>5 DEF Sequence!Exchange, Sequence!Swapped, Exchanging
  <2>9. t = << >> => Sequence!Empty
    BY <2>5 DEF Sequence!Empty
  <2>10. t = s => UNCHANGED stations
    BY <2>5
  <2> QED
    BY <2>2, <2>6, <2>7, <2>8, <2>9, <2>10 DEF ListStep, Sequence!Next
<1> QED
  BY <1>1, <1>2, ListKept, PTL DEF FileSpec, ImplementsSequence, Sequence!Spec

\* What holds of 0 and passes from one number to the next holds up to N.
LEMMA CountingUp ==
  ASSUME NEW N \in Nat, NEW G, 0 \in G, \A n \in 0 .. N - 1 : n \in G => n + 1 \in G
  PROVE  \A n \in 0 .. N : n \in G
<1> DEFINE Out == {n \in 0 .. N : n \notin G}
<1>1. SUFFICES ASSUME Out # {}
               PROVE  FALSE
  OBVIOUS
<1>2. Out \subseteq Nat
  OBVIOUS
<1>4. PICK n \in Out : \A m \in Out : n <= m
  <2> HIDE DEF Out
  <2> QED
    BY <1>1, <1>2, HasFirst
<1>5. n # 0 /\ n - 1 \in 0 .. N - 1 /\ ~ (n <= n - 1)
  BY <1>4
<1>6. n - 1 \in G
  BY <1>4, <1>5
<1>7. (n - 1) + 1 = n
  BY <1>4
<1> QED
  BY <1>4, <1>5, <1>6, <1>7

\* The first k elements of s.
FirstOf(s, k) == [i \in DOMAIN s \cap 1 .. k |-> s[i]]

\* It is a sequence of k elements.
LEMMA FirstOfSeq ==
  ASSUME NEW S, NEW s \in Seq(S), NEW k \in 0 .. Len(s)
  PROVE  /\ FirstOf(s, k) \in Seq(S)
         /\ Len(FirstOf(s, k)) = k
         /\ \A i \in 1 .. k : FirstOf(s, k)[i] = s[i]
<1>1. Len(s) \in Nat /\ DOMAIN s = 1 .. Len(s) /\ \A i \in 1 .. Len(s) : s[i] \in S
  BY LenProperties, ElementOfSeq
<1>2. DOMAIN s \cap 1 .. k = 1 .. k
  BY <1>1
<1>3. FirstOf(s, k) = [i \in 1 .. k |-> s[i]]
  BY <1>2 DEF FirstOf
<1>4. FirstOf(s, k) \in [1 .. k -> S]
  BY <1>1, <1>3
<1>5. k \in Nat
  BY <1>1
<1>6. FirstOf(s, k) \in Seq(S)
  BY <1>4, <1>5, SeqDef
<1>7. Len(FirstOf(s, k)) = k
  BY <1>3, <1>5, <1>6
<1> QED
  BY <1>3, <1>6, <1>7

\* All of s when k is large enough.
LEMMA FirstOfAll ==
  ASSUME NEW S, NEW s \in Seq(S), NEW k \in Nat, Len(s) <= k
  PROVE  FirstOf(s, k) = s
<1>1. Len(s) \in Nat /\ DOMAIN s = 1 .. Len(s) /\ s = [i \in 1 .. Len(s) |-> s[i]]
  BY LenProperties
<1>2. DOMAIN s \cap 1 .. k = 1 .. Len(s)
  BY <1>1
<1> QED
  BY <1>1, <1>2 DEF FirstOf

\* Nothing when k is 0.
LEMMA FirstOfNone ==
  ASSUME NEW S, NEW s \in Seq(S)
  PROVE  FirstOf(s, 0) = << >>
<1>1. FirstOf(s, 0) \in Seq(S) /\ Len(FirstOf(s, 0)) = 0
  <2>1. 0 \in 0 .. Len(s)
    BY LenProperties
  <2> QED
    BY <2>1, FirstOfSeq
<1> QED
  BY <1>1, EmptySeq

\* One element more is that element appended.
LEMMA FirstOfNext ==
  ASSUME NEW S, NEW s \in Seq(S), NEW k \in 0 .. Len(s) - 1
  PROVE  FirstOf(s, k + 1) = Append(FirstOf(s, k), s[k + 1])
<1> DEFINE a == FirstOf(s, k + 1)
           b == Append(FirstOf(s, k), s[k + 1])
<1>1. Len(s) \in Nat /\ k \in 0 .. Len(s) /\ k + 1 \in 0 .. Len(s) /\ k + 1 \in 1 .. Len(s) /\ k \in Nat
  BY LenProperties
<1>2. s[k + 1] \in S
  BY <1>1, ElementOfSeq
<1>3. a \in Seq(S) /\ Len(a) = k + 1 /\ \A i \in 1 .. k + 1 : a[i] = s[i]
  BY <1>1, FirstOfSeq
<1>4. FirstOf(s, k) \in Seq(S) /\ Len(FirstOf(s, k)) = k /\ \A i \in 1 .. k : FirstOf(s, k)[i] = s[i]
  BY <1>1, FirstOfSeq
<1>5. b \in Seq(S) /\ Len(b) = k + 1 /\ (\A i \in 1 .. k : b[i] = s[i]) /\ b[k + 1] = s[k + 1]
  BY <1>2, <1>4, AppendProperties
<1> HIDE DEF a, b
<1>6. \A i \in 1 .. k + 1 : i \in 1 .. k \/ i = k + 1
  BY <1>1
<1>7. \A i \in 1 .. k + 1 : a[i] = b[i]
  BY <1>3, <1>5, <1>6
<1>8. a = b
  BY <1>3, <1>5, <1>7, SeqEqual
<1> QED
  BY <1>8 DEF a, b

\* A set of sequences that holds the empty one and, with a sequence, whatever is
\* appended to it, holds all sequences.
LEMMA SequencesByAppending ==
  ASSUME NEW S, NEW G, << >> \in G,
         \A s \in Seq(S), r \in S : s \in G => Append(s, r) \in G
  PROVE  \A s \in Seq(S) : s \in G
<1>1. TAKE s \in Seq(S)
<1> DEFINE N == {n \in 0 .. Len(s) : FirstOf(s, n) \in G}
<1>2. Len(s) \in Nat
  BY LenProperties
<1>3. 0 \in N
  BY <1>2, FirstOfNone
<1>4. \A n \in 0 .. Len(s) - 1 : n \in N => n + 1 \in N
  <2>1. TAKE n \in 0 .. Len(s) - 1
  <2>2. HAVE n \in N
  <2>3. n \in 0 .. Len(s) /\ n + 1 \in 0 .. Len(s) /\ n + 1 \in 1 .. Len(s)
    BY <1>2
  <2>4. FirstOf(s, n) \in Seq(S) /\ s[n + 1] \in S
    BY <2>3, FirstOfSeq, ElementOfSeq
  <2>5. Append(FirstOf(s, n), s[n + 1]) \in G
    BY <2>2, <2>4
  <2> QED
    BY <2>3, <2>5, FirstOfNext
<1> HIDE DEF N
<1>5. \A n \in 0 .. Len(s) : n \in N
  BY <1>2, <1>3, <1>4, CountingUp
<1>6. Len(s) \in N
  BY <1>2, <1>5
<1> QED
  BY <1>2, <1>6, FirstOfAll DEF N

-----------------------------------------------------------------------------
(* What Selected copies *)

\* h holds what the loop has copied after each of the first n elements.
Copies(s, T, n, h) ==
  h = [m \in 0 .. n |->
         IF m = 0 THEN << >>
         ELSE IF s[m] \in T THEN Append(h[m - 1], s[m]) ELSE h[m - 1]]

\* The copying loop of Selected has an outcome at every turn.
LEMMA CopiesExist ==
  ASSUME NEW s, NEW T, NEW N \in Nat
  PROVE  \E h : Copies(s, T, N, h)
<1> DEFINE G == {n \in 0 .. N : \E h : Copies(s, T, n, h)}
<1>1. 0 \in G
  <2>1. Copies(s, T, 0, [m \in 0 .. 0 |-> << >>])
    <3>1. \A m \in 0 .. 0 : m = 0
      OBVIOUS
    <3> QED
      BY <3>1 DEF Copies
  <2> QED
    BY <2>1
<1>2. \A n \in 0 .. N - 1 : n \in G => n + 1 \in G
  <2>1. TAKE n \in 0 .. N - 1
  <2>2. HAVE n \in G
  <2>3. PICK h : Copies(s, T, n, h)
    BY <2>2
  <2> DEFINE k == n + 1
             g == [m \in 0 .. k |->
                     IF m = k THEN IF s[k] \in T THEN Append(h[n], s[k]) ELSE h[n]
                     ELSE h[m]]
             step(f, m) == IF m = 0 THEN << >>
                           ELSE IF s[m] \in T THEN Append(f[m - 1], s[m]) ELSE f[m - 1]
  <2>4. k \in 0 .. N /\ k # 0 /\ k - 1 = n /\ n # k /\ n \in 0 .. k
    OBVIOUS
  <2>5. ASSUME NEW m \in 0 .. k
        PROVE  g[m] = step(g, m)
    <3>1. CASE m = k
      <4>1. g[k - 1] = h[n]
        BY <2>4
      <4> QED
        BY <2>4, <3>1, <4>1
    <3>2. CASE m # k
      <4>1. m \in 0 .. n
        BY <3>2
      <4>2. g[m] = h[m]
        BY <3>2
      <4>3. h[m] = step(h, m)
        BY <2>3, <4>1 DEF Copies
      <4>4. m # 0 => g[m - 1] = h[m - 1]
        <5>1. m # 0 => m - 1 \in 0 .. k /\ m - 1 # k
          BY <4>1
        <5> QED
          BY <5>1
      <4> QED
        BY <4>2, <4>3, <4>4
    <3> QED
      BY <3>1, <3>2
  <2>6. g = [m \in 0 .. k |-> step(g, m)]
    BY <2>5
  <2>7. Copies(s, T, k, g)
    BY <2>6 DEF Copies
  <2> QED
    BY <2>4, <2>7
<1> HIDE DEF G
<1>3. \A n \in 0 .. N : n \in G
  BY <1>1, <1>2, CountingUp
<1> QED
  BY <1>3 DEF G

\* Two loops over lists that agree so far have copied the same.
LEMMA CopiesAgree ==
  ASSUME NEW s, NEW t, NEW T, NEW n \in Nat, NEW k \in Nat, NEW h, NEW g,
         Copies(s, T, n, h), Copies(t, T, k, g),
         NEW m \in Nat, m <= n, m <= k, \A i \in 1 .. m : s[i] = t[i]
  PROVE  h[m] = g[m]
<1> DEFINE G == {i \in 0 .. m : h[i] = g[i]}
<1>1. 0 \in G
  BY DEF Copies
<1>2. \A i \in 0 .. m - 1 : i \in G => i + 1 \in G
  <2>1. TAKE i \in 0 .. m - 1
  <2>2. HAVE i \in G
  <2> DEFINE j == i + 1
  <2>3. j \in 0 .. m /\ j \in 0 .. n /\ j \in 0 .. k /\ j # 0 /\ j - 1 = i /\ j \in 1 .. m
    OBVIOUS
  <2>4. h[j] = IF s[j] \in T THEN Append(h[j - 1], s[j]) ELSE h[j - 1]
    BY <2>3 DEF Copies
  <2>5. g[j] = IF t[j] \in T THEN Append(g[j - 1], t[j]) ELSE g[j - 1]
    BY <2>3 DEF Copies
  <2> HIDE DEF j
  <2>6. s[j] = t[j] /\ h[j - 1] = g[j - 1]
    BY <2>2, <2>3
  <2>7. h[j] = g[j]
    BY <2>4, <2>5, <2>6
  <2>8. j \in G
    BY <2>3, <2>7
  <2> QED
    BY <2>8 DEF j
<1> HIDE DEF G
<1>3. \A i \in 0 .. m : i \in G
  BY <1>1, <1>2, CountingUp
<1>4. m \in 0 .. m
  OBVIOUS
<1> QED
  BY <1>3, <1>4 DEF G

\* Selected is the outcome of its copying loop.
LEMMA SelectedIsCopied ==
  ASSUME NEW S, NEW s \in Seq(S), NEW T, NEW h, Copies(s, T, Len(s), h)
  PROVE  Selected(s, T) = h[Len(s)]
<1> DEFINE g == CHOOSE f : Copies(s, T, Len(s), f)
<1>1. Len(s) \in Nat
  BY LenProperties
<1>2. Copies(s, T, Len(s), g)
  BY <1>1, CopiesExist
<1>3. Selected(s, T) = g[Len(s)]
  BY DEF Selected, Copies
<1> HIDE DEF g
<1>4. g[Len(s)] = h[Len(s)]
  BY <1>1, <1>2, CopiesAgree
<1> QED
  BY <1>3, <1>4

\* Nothing is copied from nothing, and what comes last is copied last, if at all.
LEMMA SelectedEmpty == ASSUME NEW T PROVE Selected(<< >>, T) = << >>
<1>1. << >> \in Seq(T) /\ Len(<< >>) = 0
  BY EmptySeq
<1>2. PICK h : Copies(<< >>, T, 0, h)
  BY CopiesExist
<1>3. h[0] = << >>
  BY <1>2 DEF Copies
<1>4. Selected(<< >>, T) = h[0]
  BY <1>1, <1>2, SelectedIsCopied
<1> QED
  BY <1>3, <1>4

\* One element more is copied when it is wanted.
LEMMA SelectedAppend ==
  ASSUME NEW S, NEW s \in Seq(S), NEW r \in S, NEW T
  PROVE  Selected(Append(s, r), T) =
           IF r \in T THEN Append(Selected(s, T), r) ELSE Selected(s, T)
<1> DEFINE n == Len(s)
           t == Append(s, r)
<1>1. n \in Nat /\ t \in Seq(S) /\ Len(t) = n + 1 /\ t[n + 1] = r /\ \A i \in 1 .. n : s[i] = t[i]
  BY LenProperties, AppendProperties
<1>2. PICK h : Copies(s, T, n, h)
  BY <1>1, CopiesExist
<1>3. PICK g : Copies(t, T, n + 1, g)
  <2>1. n + 1 \in Nat
    BY <1>1
  <2> QED
    BY <2>1, CopiesExist
<1>4. Selected(s, T) = h[n]
  BY <1>2, SelectedIsCopied
<1>5. Selected(t, T) = g[n + 1]
  BY <1>1, <1>3, SelectedIsCopied
<1> HIDE DEF n, t
<1>6. h[n] = g[n]
  <2>1. n + 1 \in Nat /\ n <= n /\ n <= n + 1
    BY <1>1
  <2> QED
    BY <1>1, <1>2, <1>3, <2>1, CopiesAgree
<1>7. g[n + 1] = IF t[n + 1] \in T THEN Append(g[n], t[n + 1]) ELSE g[n]
  <2>1. n + 1 \in 0 .. n + 1 /\ n + 1 # 0 /\ (n + 1) - 1 = n
    BY <1>1
  <2> QED
    BY <1>3, <2>1 DEF Copies
<1>8. Selected(t, T) = IF r \in T THEN Append(Selected(s, T), r) ELSE Selected(s, T)
  BY <1>1, <1>4, <1>5, <1>6, <1>7
<1> QED
  BY <1>8 DEF t

\* What is selected comes from s and is wanted.
LEMMA SelectedSeq ==
  ASSUME NEW S, NEW s \in Seq(S), NEW T
  PROVE  Selected(s, T) \in Seq(S \cap T)
<1> DEFINE G == {t \in Seq(S) : Selected(t, T) \in Seq(S \cap T)}
<1>1. << >> \in G
  BY SelectedEmpty, EmptySeq
<1>2. \A t \in Seq(S), r \in S : t \in G => Append(t, r) \in G
  <2>1. TAKE t \in Seq(S), r \in S
  <2>2. HAVE t \in G
  <2>3. Append(t, r) \in Seq(S)
    BY AppendProperties
  <2>4. r \in T => Append(Selected(t, T), r) \in Seq(S \cap T)
    BY <2>2, AppendProperties
  <2> QED
    BY <2>2, <2>3, <2>4, SelectedAppend
<1> HIDE DEF G
<1>3. s \in G
  BY <1>1, <1>2, SequencesByAppending
<1> QED
  BY <1>3 DEF G

\* A list of wanted elements is copied as it is.
LEMMA SelectedWhole ==
  ASSUME NEW T, NEW s \in Seq(T)
  PROVE  Selected(s, T) = s
<1> DEFINE G == {t \in Seq(T) : Selected(t, T) = t}
<1>1. << >> \in G
  BY SelectedEmpty, EmptySeq
<1>2. \A t \in Seq(T), r \in T : t \in G => Append(t, r) \in G
  BY AppendProperties, SelectedAppend
<1> HIDE DEF G
<1>3. s \in G
  BY <1>1, <1>2, SequencesByAppending
<1> QED
  BY <1>3 DEF G

\* The values in a sequence.
Values(s) == {s[i] : i \in DOMAIN s}

\* Appending adds one value.
LEMMA AppendValues ==
  ASSUME NEW S, NEW s \in Seq(S), NEW r \in S
  PROVE  Values(Append(s, r)) = Values(s) \cup {r}
<1>1. Len(s) \in Nat /\ DOMAIN s = 1 .. Len(s)
  BY LenProperties
<1> DEFINE t == Append(s, r)
<1>2. t \in Seq(S) /\ Len(t) = Len(s) + 1 /\ t[Len(s) + 1] = r /\ \A i \in 1 .. Len(s) : t[i] = s[i]
  BY AppendProperties
<1> HIDE DEF t
<1>3. DOMAIN t = 1 .. Len(s) + 1
  BY <1>2, LenProperties
<1>4. \A i : i \in DOMAIN t <=> i \in DOMAIN s \/ i = Len(s) + 1
  BY <1>1, <1>3
<1>5. Values(t) = Values(s) \cup {r}
  BY <1>1, <1>2, <1>4 DEF Values
<1> QED
  BY <1>5 DEF t

\* What is selected is all of s that is wanted.
LEMMA SelectedValues ==
  ASSUME NEW S, NEW s \in Seq(S), NEW T
  PROVE  Values(Selected(s, T)) = Values(s) \cap T
<1> DEFINE G == {t \in Seq(S) : Values(Selected(t, T)) = Values(t) \cap T}
<1>1. << >> \in G
  <2>1. Values(<< >>) = {}
    <3>1. << >> \in Seq(S) /\ DOMAIN << >> = 1 .. 0
      BY EmptySeq, LenProperties
    <3>2. \A i \in 1 .. 0 : FALSE
      OBVIOUS
    <3> QED
      BY <3>1, <3>2 DEF Values
  <2> QED
    BY <2>1, SelectedEmpty, EmptySeq
<1>2. \A t \in Seq(S), r \in S : t \in G => Append(t, r) \in G
  <2>1. TAKE t \in Seq(S), r \in S
  <2>2. HAVE t \in G
  <2>3. Append(t, r) \in Seq(S) /\ Values(Append(t, r)) = Values(t) \cup {r}
    BY AppendProperties, AppendValues
  <2>4. CASE r \in T
    <3>1. Selected(t, T) \in Seq(S \cap T) /\ r \in S \cap T
      BY <2>4, SelectedSeq
    <3>2. Values(Append(Selected(t, T), r)) = Values(Selected(t, T)) \cup {r}
      BY <3>1, AppendValues
    <3>3. Selected(Append(t, r), T) = Append(Selected(t, T), r)
      BY <2>4, SelectedAppend
    <3> QED
      BY <2>2, <2>3, <2>4, <3>2, <3>3
  <2>5. CASE r \notin T
    <3>1. Selected(Append(t, r), T) = Selected(t, T)
      BY <2>5, SelectedAppend
    <3> QED
      BY <2>2, <2>3, <2>5, <3>1
  <2> QED
    BY <2>4, <2>5
<1> HIDE DEF G
<1>3. s \in G
  BY <1>1, <1>2, SequencesByAppending
<1> QED
  BY <1>3 DEF G

\* No element twice.
NoRepeat(s) == \A i, j \in DOMAIN s : s[i] = s[j] => i = j

\* An appended element is new, or is met twice.
LEMMA AppendNoRepeat ==
  ASSUME NEW S, NEW s \in Seq(S), NEW r \in S
  PROVE  NoRepeat(Append(s, r)) <=> NoRepeat(s) /\ r \notin Values(s)
<1>1. Len(s) \in Nat /\ DOMAIN s = 1 .. Len(s)
  BY LenProperties
<1> DEFINE t == Append(s, r)
<1>2. t \in Seq(S) /\ Len(t) = Len(s) + 1 /\ t[Len(s) + 1] = r /\ \A i \in 1 .. Len(s) : t[i] = s[i]
  BY AppendProperties
<1> HIDE DEF t
<1>3. DOMAIN t = 1 .. Len(s) + 1
  BY <1>2, LenProperties
<1>4. /\ \A i : i \in DOMAIN t <=> i \in DOMAIN s \/ i = Len(s) + 1
      /\ Len(s) + 1 \notin DOMAIN s
      /\ \A i \in DOMAIN s : t[i] = s[i]
  BY <1>1, <1>2, <1>3
<1>5. ASSUME NoRepeat(t)
      PROVE  NoRepeat(s) /\ r \notin Values(s)
  BY <1>2, <1>4, <1>5 DEF NoRepeat, Values
<1>6. ASSUME NoRepeat(s), r \notin Values(s)
      PROVE  NoRepeat(t)
  <2>1. SUFFICES ASSUME NEW i \in DOMAIN t, NEW j \in DOMAIN t, t[i] = t[j]
                 PROVE  i = j
    BY DEF NoRepeat
  <2>2. CASE i \in DOMAIN s /\ j \in DOMAIN s
    BY <1>4, <1>6, <2>1, <2>2 DEF NoRepeat
  <2>3. CASE i \in DOMAIN s /\ j = Len(s) + 1
    BY <1>2, <1>4, <1>6, <2>1, <2>3 DEF Values
  <2>4. CASE j \in DOMAIN s /\ i = Len(s) + 1
    BY <1>2, <1>4, <1>6, <2>1, <2>4 DEF Values
  <2> QED
    BY <1>4, <2>1, <2>2, <2>3, <2>4
<1>7. NoRepeat(t) <=> NoRepeat(s) /\ r \notin Values(s)
  BY <1>5, <1>6
<1> QED
  BY <1>7 DEF t

\* Selecting makes no copies.
LEMMA SelectedNoRepeat ==
  ASSUME NEW S, NEW s \in Seq(S), NEW T, NoRepeat(s)
  PROVE  NoRepeat(Selected(s, T))
<1> DEFINE G == {t \in Seq(S) : NoRepeat(t) => NoRepeat(Selected(t, T))}
<1>1. << >> \in G
  BY SelectedEmpty, EmptySeq
<1>2. \A t \in Seq(S), r \in S : t \in G => Append(t, r) \in G
  <2>1. TAKE t \in Seq(S), r \in S
  <2>2. HAVE t \in G
  <2>3. Append(t, r) \in Seq(S)
    BY AppendProperties
  <2>4. SUFFICES ASSUME NoRepeat(Append(t, r))
                 PROVE  NoRepeat(Selected(Append(t, r), T))
    BY <2>3
  <2>5. NoRepeat(Selected(t, T)) /\ r \notin Values(t)
    BY <2>2, <2>4, AppendNoRepeat
  <2>6. CASE r \in T
    <3>1. Selected(t, T) \in Seq(S \cap T) /\ r \in S \cap T
      BY <2>6, SelectedSeq
    <3>2. r \notin Values(Selected(t, T))
      BY <2>5, SelectedValues
    <3>3. NoRepeat(Append(Selected(t, T), r))
      BY <2>5, <3>1, <3>2, AppendNoRepeat
    <3> QED
      BY <2>6, <3>3, SelectedAppend
  <2>7. CASE r \notin T
    BY <2>5, <2>7, SelectedAppend
  <2> QED
    BY <2>6, <2>7
<1> HIDE DEF G
<1>3. s \in G
  BY <1>1, <1>2, SequencesByAppending
<1> QED
  BY <1>3 DEF G

\* s is how t begins.
Begins(s, t) == Len(s) <= Len(t) /\ \A i \in 1 .. Len(s) : s[i] = t[i]

\* Begins is IsPrefix of the community modules.
LEMMA BeginsIsPrefix ==
  ASSUME NEW S, NEW s \in Seq(S), NEW t \in Seq(S)
  PROVE  IsPrefix(s, t) <=> Begins(s, t)
<1> DEFINE a == SubSeq(s, 1, Len(s))
           b == SubSeq(t, 1, Len(s))
<1>1. Len(s) \in Nat /\ Len(t) \in Nat
  BY LenProperties
<1>2. a = s
  BY SubSeqFull
<1>3. CASE Len(s) <= Len(t)
  <2>1. \A i \in 1 .. Len(s) : t[i] \in S
    BY <1>1, <1>3, ElementOfSeq
  <2>2. b \in Seq(S) /\ (1 <= Len(s) => Len(b) = Len(s)) /\ (~ (1 <= Len(s)) => Len(b) = 0)
        /\ \A i \in 1 .. Len(s) : b[i] = t[i]
    <3>1. b \in Seq(S) /\ Len(b) = (IF 1 <= Len(s) THEN Len(s) - 1 + 1 ELSE 0)
          /\ \A i \in 1 .. Len(s) - 1 + 1 : b[i] = t[1 + i - 1]
      BY <1>1, <2>1, SubSeqProperties
    <3>2. Len(s) - 1 + 1 = Len(s) /\ \A i \in 1 .. Len(s) : 1 + i - 1 = i
      BY <1>1
    <3> QED
      BY <3>1, <3>2
  <2> HIDE DEF b
  <2>3. Len(b) = Len(s)
    BY <1>1, <2>2
  <2>4. ASSUME \A i \in 1 .. Len(s) : s[i] = t[i]
        PROVE  b = s
    <3>1. \A i \in 1 .. Len(b) : b[i] = s[i]
      BY <2>2, <2>3, <2>4
    <3> QED
      BY <2>2, <2>3, <3>1, SeqEqual
  <2>5. b = s <=> \A i \in 1 .. Len(s) : s[i] = t[i]
    BY <2>2, <2>4
  <2> QED
    BY <1>2, <1>3, <2>5 DEF IsPrefix, Begins, b
<1>4. CASE ~ (Len(s) <= Len(t))
  BY <1>4 DEF IsPrefix, Begins
<1> QED
  BY <1>3, <1>4

\* What is selected from the first elements is how the selection begins.
LEMMA SelectedBegins ==
  ASSUME NEW S, NEW s \in Seq(S), NEW k \in 0 .. Len(s), NEW T
  PROVE  Begins(Selected(FirstOf(s, k), T), Selected(s, T))
<1> DEFINE L == Len(s)
           p(n) == Selected(FirstOf(s, n), T)
           G == {m \in 0 .. L - k : Begins(p(k), p(k + m))}
<1>1. L \in Nat /\ k \in Nat /\ L - k \in Nat /\ \A m \in 0 .. L - k : k + m \in 0 .. L
  BY LenProperties
<1>2. \A n \in 0 .. L : p(n) \in Seq(S \cap T) /\ Len(p(n)) \in Nat
  BY FirstOfSeq, SelectedSeq, LenProperties
<1>3. 0 \in G
  <2>1. k + 0 = k
    BY <1>1
  <2>2. Begins(p(k), p(k))
    <3> HIDE DEF p
    <3> QED
      BY <1>2 DEF Begins
  <2> HIDE DEF p
  <2> QED
    BY <1>1, <2>1, <2>2
<1>4. \A m \in 0 .. (L - k) - 1 : m \in G => m + 1 \in G
  <2>1. TAKE m \in 0 .. (L - k) - 1
  <2>2. HAVE m \in G
  <2> DEFINE n == k + m
  <2>3. n \in 0 .. L - 1 /\ n \in 0 .. L /\ n + 1 \in 1 .. L /\ k + (m + 1) = n + 1 /\ m + 1 \in 0 .. L - k
    BY <1>1
  <2> HIDE DEF n
  <2>4. s[n + 1] \in S /\ FirstOf(s, n) \in Seq(S)
        /\ FirstOf(s, n + 1) = Append(FirstOf(s, n), s[n + 1])
    BY <2>3, ElementOfSeq, FirstOfSeq, FirstOfNext
  <2>5. p(n + 1) = IF s[n + 1] \in T THEN Append(p(n), s[n + 1]) ELSE p(n)
    <3> DEFINE t == FirstOf(s, n)
               r == s[n + 1]
    <3>1. t \in Seq(S) /\ r \in S /\ p(n + 1) = Selected(Append(t, r), T) /\ p(n) = Selected(t, T)
      BY <2>4
    <3> HIDE DEF t, r, p
    <3>2. Selected(Append(t, r), T) = IF r \in T THEN Append(Selected(t, T), r) ELSE Selected(t, T)
      BY <3>1, SelectedAppend
    <3>3. p(n + 1) = IF r \in T THEN Append(p(n), r) ELSE p(n)
      BY <3>1, <3>2
    <3> QED
      BY <3>3 DEF r
  <2>6. Begins(p(k), p(n))
    BY <2>2 DEF n
  <2>7. p(n) \in Seq(S \cap T) /\ Len(p(n)) \in Nat /\ Len(p(k)) \in Nat
    BY <1>2, <2>3
  <2> HIDE DEF p
  <2>8. Begins(p(k), p(n + 1))
    <3>1. CASE s[n + 1] \in T
      <4>1. s[n + 1] \in S \cap T
        BY <2>4, <3>1
      <4>2. /\ Len(Append(p(n), s[n + 1])) = Len(p(n)) + 1
            /\ \A i \in 1 .. Len(p(n)) : Append(p(n), s[n + 1])[i] = p(n)[i]
        BY <2>7, <4>1, AppendProperties
      <4>3. p(n + 1) = Append(p(n), s[n + 1])
        BY <2>5, <3>1
      <4> QED
        BY <2>6, <2>7, <4>2, <4>3 DEF Begins
    <3>2. CASE s[n + 1] \notin T
      BY <2>5, <2>6, <3>2
    <3> QED
      BY <3>1, <3>2
  <2> QED
    BY <2>3, <2>8
<1> HIDE DEF G
<1>5. \A m \in 0 .. L - k : m \in G
  BY <1>1, <1>3, <1>4, CountingUp
<1>6. L - k \in G
  BY <1>1, <1>5
<1>7. k + (L - k) = L /\ FirstOf(s, L) = s
  BY <1>1, FirstOfAll
<1> QED
  BY <1>6, <1>7 DEF G

-----------------------------------------------------------------------------
(* The window's list as a sequence of records *)

\* What the nodes of s carry.
Carried(d, s) == [i \in DOMAIN s |-> d[s[i]]]

\* Every node of the list, and no other, carries a record that was loaded.
DataOK ==
  /\ DOMAIN data = Live
  /\ \A n \in Live : data[n] \in LoadableRecord

\* The window's list is what the nodes carry, in their order.
EditedIsCarried == \A s : ListIs(s) => Edited = Carried(data, s)

\* So it is in every state,
LEMMA EditedCarried == EditedIsCarried
BY PathIsChain DEF EditedIsCarried, Edited, Carried, ListIs

\* in the state after a step too,
LEMMA EditedCarriedNext == EditedIsCarried'
<1>1. EditedIsCarried
  BY EditedCarried
<1> QED
  BY <1>1, PTL

\* and in the two states of a step.
LEMMA EditedNow ==
  ASSUME NEW s, ListIs(s), NEW t, ListIs(t)'
  PROVE  Edited = Carried(data, s) /\ Edited' = Carried(data', t)
BY EditedCarried, EditedCarriedNext DEF EditedIsCarried

\* What a chain carries is as long as the chain.
LEMMA CarriedSeq ==
  ASSUME NEW f, NEW s, IsChain(f, s), NEW d, NEW R, \A n \in DOMAIN f : d[n] \in R
  PROVE  /\ Carried(d, s) \in Seq(R)
         /\ Len(Carried(d, s)) = Len(s)
         /\ \A i \in 1 .. Len(s) : Carried(d, s)[i] = d[s[i]]
<1> DEFINE c == Carried(d, s)
<1>1. Len(s) \in Nat /\ DOMAIN s = 1 .. Len(s) /\ \A i \in 1 .. Len(s) : s[i] \in DOMAIN f
  BY LenProperties, ElementOfSeq DEF IsChain
<1>2. c = [i \in 1 .. Len(s) |-> d[s[i]]]
  BY <1>1 DEF Carried
<1>3. c \in [1 .. Len(s) -> R]
  BY <1>1, <1>2
<1>4. c \in Seq(R)
  BY <1>1, <1>3, SeqDef
<1>5. Len(c) = Len(s)
  BY <1>1, <1>2, <1>4
<1> QED
  BY <1>2, <1>4, <1>5

\* An empty chain carries nothing.
LEMMA CarriedNothing == ASSUME NEW d PROVE Carried(d, << >>) = << >>
<1>1. << >> \in Seq({}) /\ DOMAIN << >> = 1 .. 0
  BY EmptySeq, LenProperties
<1>2. Carried(d, << >>) = [i \in 1 .. 0 |-> d[<< >>[i]]]
  BY <1>1 DEF Carried
<1>3. << >> = [i \in 1 .. 0 |-> << >>[i]]
  BY <1>1
<1>4. \A i \in 1 .. 0 : FALSE
  OBVIOUS
<1> QED
  BY <1>2, <1>3, <1>4

\* A node behind the others carries its record behind the others.
LEMMA CarriedAppend ==
  ASSUME NEW f, NEW s, IsChain(f, s), NEW n, n \notin DOMAIN f, NEW R, NEW r \in R,
         NEW d, DOMAIN d = DOMAIN f, \A m \in DOMAIN f : d[m] \in R
  PROVE  Carried(Linked(d, n, r), Append(s, n)) = Append(Carried(d, s), r)
<1> DEFINE N == DOMAIN f \cup {n}
           L == Len(s)
           t == Append(s, n)
           e == Linked(d, n, r)
           a == Carried(e, t)
           b == Append(Carried(d, s), r)
<1>1. L \in Nat /\ s \in Seq(N) /\ \A i \in 1 .. L : s[i] \in DOMAIN f
  BY LenProperties, ElementOfSeq, SeqMonotonic DEF IsChain
<1>2. t \in Seq(N) /\ Len(t) = L + 1 /\ t[L + 1] = n /\ \A i \in 1 .. L : t[i] = s[i]
  BY <1>1, AppendProperties
<1>3. Carried(d, s) \in Seq(R) /\ Len(Carried(d, s)) = L /\ \A i \in 1 .. L : Carried(d, s)[i] = d[s[i]]
  BY CarriedSeq
<1>4. b \in Seq(R) /\ Len(b) = L + 1 /\ b[L + 1] = r /\ \A i \in 1 .. L : b[i] = d[s[i]]
  BY <1>3, AppendProperties
<1>5. e[n] = r /\ \A m \in DOMAIN f : e[m] = d[m]
  BY DEF Linked
<1> HIDE DEF b, t, e
<1>6. DOMAIN t = 1 .. L + 1 /\ DOMAIN b = 1 .. L + 1
  BY <1>2, <1>4, LenProperties
<1>7. b = [i \in 1 .. L + 1 |-> b[i]]
  BY <1>4, <1>6, LenProperties
<1>8. a = [i \in 1 .. L + 1 |-> e[t[i]]]
  BY <1>6 DEF Carried
<1>9. ASSUME NEW i \in 1 .. L + 1
      PROVE  b[i] = e[t[i]]
  <2>1. CASE i = L + 1
    BY <1>2, <1>4, <1>5, <2>1
  <2>2. CASE i # L + 1
    <3>1. i \in 1 .. L
      BY <1>1, <2>2
    <3> QED
      BY <1>1, <1>2, <1>4, <1>5, <3>1
  <2> QED
    BY <2>1, <2>2
<1>10. a = b
  <2> HIDE DEF a
  <2> QED
    BY <1>7, <1>8, <1>9
<1> QED
  BY <1>10 DEF b, t, e

\* Nodes that change places take their records along.
LEMMA CarriedExchange ==
  ASSUME NEW f, NEW s, IsChain(f, s), NEW d, NEW i \in 1 .. Len(s) - 1
  PROVE  Carried(d, Exchanging(s, i)) = Exchanging(Carried(d, s), i)
<1>1. Len(s) \in Nat /\ DOMAIN s = 1 .. Len(s) /\ i \in 1 .. Len(s) /\ i + 1 \in 1 .. Len(s) /\ i # i + 1
  BY LenProperties DEF IsChain
<1> DEFINE D == DOMAIN s
<1>2. i \in D /\ i + 1 \in D /\ i # i + 1
  BY <1>1
<1> DEFINE j == i + 1
<1> HIDE DEF j
<1>3. j \in D /\ i # j
  BY <1>2 DEF j
<1>4. Exchanging(s, i) = [s EXCEPT ![i] = s[j], ![j] = s[i]]
  BY DEF Exchanging, j
<1>5. DOMAIN Exchanging(s, i) = D
  BY <1>4
<1>6. \A k \in D : Exchanging(s, i)[k] = IF k = j THEN s[i] ELSE IF k = i THEN s[j] ELSE s[k]
  BY <1>2, <1>3, <1>4
<1>7. Carried(d, Exchanging(s, i)) = [k \in D |-> d[Exchanging(s, i)[k]]]
  BY <1>5 DEF Carried
<1> DEFINE c == Carried(d, s)
<1>8. c = [k \in D |-> d[s[k]]]
  BY DEF Carried
<1>9. Exchanging(c, i) = [c EXCEPT ![i] = c[j], ![j] = c[i]]
  BY DEF Exchanging, j
<1>10. Exchanging(c, i) = [k \in D |-> IF k = j THEN c[i] ELSE IF k = i THEN c[j] ELSE c[k]]
  <2> HIDE DEF c
  <2> QED
    BY <1>2, <1>3, <1>8, <1>9
<1>11. \A k \in D : d[Exchanging(s, i)[k]] = IF k = j THEN c[i] ELSE IF k = i THEN c[j] ELSE c[k]
  BY <1>2, <1>3, <1>6, <1>8
<1> QED
  BY <1>7, <1>10, <1>11

\* A node taken out takes its record away.
LEMMA CarriedRemove ==
  ASSUME NEW s, NEW f, IsChain(f, s), NEW d, NEW i \in 1 .. Len(s),
         NEW g, IsChain(g, RemoveAt(s, i)), NEW e, \A n \in DOMAIN g : e[n] = d[n]
  PROVE  Carried(e, RemoveAt(s, i)) = RemoveAt(Carried(d, s), i)
<1> DEFINE L == Len(s)
           R == {d[n] : n \in DOMAIN f}
           t == RemoveAt(s, i)
           c == Carried(d, s)
           a == Carried(e, t)
           b == RemoveAt(c, i)
<1>1. L \in Nat /\ s \in Seq(DOMAIN f)
  BY LenProperties DEF IsChain
<1>2. Len(t) = L - 1 /\ \A k \in 1 .. L - 1 : t[k] = IF k < i THEN s[k] ELSE s[k + 1]
  BY <1>1, RemovedShape
<1>3. c \in Seq(R) /\ Len(c) = L /\ \A k \in 1 .. L : c[k] = d[s[k]]
  <2>1. c \in Seq(R) /\ Len(c) = L
    <3>1. \A n \in DOMAIN f : d[n] \in R
      OBVIOUS
    <3> HIDE DEF R, t, a, b
    <3> QED
      BY <3>1, CarriedSeq
  <2>2. DOMAIN s = 1 .. L
    BY <1>1, LenProperties
  <2> QED
    BY <2>1, <2>2 DEF Carried
<1> HIDE DEF c
<1>4. /\ Len(b) = L - 1
      /\ \A k \in 1 .. L - 1 : b[k] = IF k < i THEN c[k] ELSE c[k + 1]
      /\ b = [k \in 1 .. L - 1 |-> b[k]]
  <2>1. i \in 1 .. Len(c)
    BY <1>3
  <2>2. /\ Len(RemoveAt(c, i)) = Len(c) - 1
        /\ \A k \in 1 .. Len(c) - 1 : RemoveAt(c, i)[k] = IF k < i THEN c[k] ELSE c[k + 1]
        /\ RemoveAt(c, i) = [k \in 1 .. Len(c) - 1 |-> RemoveAt(c, i)[k]]
    BY <1>3, <2>1, RemovedShape
  <2> QED
    BY <1>3, <2>2
<1> HIDE DEF t, b
<1>5. DOMAIN t = 1 .. L - 1 /\ \A k \in 1 .. L - 1 : t[k] \in DOMAIN g
  BY <1>2, LenProperties, ElementOfSeq DEF IsChain, t
<1>6. a = [k \in 1 .. L - 1 |-> e[t[k]]]
  BY <1>5 DEF Carried
<1>7. ASSUME NEW k \in 1 .. L - 1
      PROVE  e[t[k]] = b[k]
  <2>1. e[t[k]] = d[t[k]]
    BY <1>5
  <2>2. k \in 1 .. L /\ k + 1 \in 1 .. L
    BY <1>1
  <2> QED
    BY <1>2, <1>3, <1>4, <2>1, <2>2
<1>8. a = b
  <2> HIDE DEF a
  <2> QED
    BY <1>4, <1>6, <1>7
<1> QED
  BY <1>8 DEF b, c, t

\* What an operation on the list does to the records it carries.
LEMMA EditedStays ==
  ASSUME DataOK, UNCHANGED << vars, data >>
  PROVE  DataOK' /\ Edited' = Edited
BY DEF DataOK, Edited, Path, Live, vars

\* The window's list holds records a load accepts.
LEMMA EditedSeq ==
  ASSUME ListInv, DataOK
  PROVE  Edited \in Seq(LoadableRecord) /\ DOMAIN Edited = 1 .. Len(Edited)
<1>1. PICK s : ListIs(s)
  BY DEF ListInv
<1>2. Edited = Carried(data, s)
  BY <1>1, EditedCarried DEF EditedIsCarried
<1>3. IsChain(next, s) /\ \A n \in DOMAIN next : data[n] \in LoadableRecord
  BY <1>1 DEF ListIs, DataOK, Live
<1>4. Edited \in Seq(LoadableRecord)
  BY <1>2, <1>3, CarriedSeq
<1> QED
  BY <1>4, LenProperties

\* add_to_list puts the record that was read at the end.
LEMMA EditedAdds ==
  ASSUME ListInv, DataOK, NEW n \in Nodes, add_to_list(n), NEW r \in LoadableRecord,
         data' = Linked(data, n, r)
  PROVE  DataOK' /\ Edited' = Append(Edited, r)
<1>1. PICK s : ListIs(s)
  BY DEF ListInv
<1>2. ListIs(Append(s, n))'
  BY <1>1, AddStep
<1>3. Edited = Carried(data, s) /\ Edited' = Carried(data', Append(s, n))
  BY <1>1, <1>2, EditedNow
<1>4. IsChain(next, s) /\ n \notin DOMAIN next /\ DOMAIN data = DOMAIN next
      /\ \A m \in DOMAIN next : data[m] \in LoadableRecord
  BY <1>1 DEF ListIs, DataOK, Live, add_to_list
<1>5. Edited' = Append(Edited, r)
  BY <1>3, <1>4, CarriedAppend
<1>6. DOMAIN next' = DOMAIN next \cup {n}
  <2>1. CASE list_head = NULL
    BY <2>1 DEF add_to_list, Linked
  <2>2. CASE list_head # NULL /\ Path(list_end) = << >>
    BY <2>2 DEF add_to_list, Linked
  <2>3. CASE list_head # NULL /\ Path(list_end) # << >>
    <3>1. next' = Linked(Linked(next, n, NULL), Path(list_end)[Len(Path(list_end))], n)
      BY <2>3 DEF add_to_list
    <3>2. IsChain(next', Append(s, n)) /\ s # << >> /\ list_end = s[Len(s)] /\ Len(s) \in 1 .. Len(s)
      <4>1. s # << >> /\ Len(s) \in Nat /\ Len(s) # 0
        BY <1>1, <1>4, <2>3, ChainElements DEF ListIs, First
      <4> QED
        BY <1>1, <1>2, <4>1 DEF ListIs, add_to_list
    <3>3. DOMAIN next' = DOMAIN next \cup {n} \cup {Path(list_end)[Len(Path(list_end))]}
      BY <3>1 DEF Linked
    <3>4. Path(list_end)[Len(Path(list_end))] = s[Len(s)]
      <4>1. Path(list_end) = << s[Len(s)] >>
        <5> DEFINE p == << s[Len(s)] >>
        <5>1. s[Len(s)] \in DOMAIN next /\ next[s[Len(s)]] = NULL
          BY <1>4, <3>2, ChainElements DEF IsChain
        <5>2. IsChain(next, p)
          <6>1. p \in Seq(DOMAIN next) /\ Len(p) = 1 /\ p[1] = s[Len(s)]
            BY <5>1
          <6>2. \A i \in 1 .. 1 : i = 1
            OBVIOUS
          <6> HIDE DEF p
          <6> QED
            BY <1>4, <5>1, <6>1, <6>2 DEF IsChain
        <5>3. First(p) = s[Len(s)]
          BY DEF First
        <5> QED
          BY <3>2, <5>2, <5>3, PathIsChain
      <4> QED
        BY <4>1
    <3>5. s[Len(s)] \in DOMAIN next
      BY <1>4, <3>2, ChainElements
    <3> QED
      BY <3>3, <3>4, <3>5
  <2> QED
    BY <2>1, <2>2, <2>3
<1>7. /\ DOMAIN data' = DOMAIN next \cup {n} /\ data'[n] = r
      /\ \A m \in DOMAIN next : data'[m] = IF m = n THEN r ELSE data[m]
  BY <1>4 DEF Linked
<1>8. DataOK'
  BY <1>4, <1>6, <1>7 DEF DataOK, Live
<1> QED
  BY <1>5, <1>8

\* move_down and move_up exchange two neighbours.
LEMMA EditedMoves ==
  ASSUME ListInv, DataOK, NEW idx \in Nat, KeyDown(idx) \/ KeyUp(idx), UNCHANGED data
  PROVE  DataOK' /\ \E i \in 1 .. Len(Edited) - 1 : Edited' = Exchanging(Edited, i)
<1>1. PICK s : ListIs(s)
  BY DEF ListInv
<1>2. IsChain(next, s) /\ DOMAIN data = DOMAIN next
      /\ \A m \in DOMAIN next : data[m] \in LoadableRecord
  BY <1>1 DEF ListIs, DataOK, Live
<1>3. PICK i \in 1 .. Len(s) - 1 : ListIs(Exchanging(s, i))'
  BY <1>1, DownStep, UpStep
<1>4. Edited = Carried(data, s) /\ Edited' = Carried(data, Exchanging(s, i))
  BY <1>1, <1>3, EditedNow
<1>5. Edited' = Exchanging(Edited, i)
  BY <1>2, <1>4, CarriedExchange
<1>6. Len(Edited) = Len(s)
  BY <1>2, <1>4, CarriedSeq
<1>7. DOMAIN next' = DOMAIN next
  <2>1. ASSUME NEW index, move_down(index)
        PROVE  DOMAIN next' = DOMAIN next
    BY <2>1 DEF move_down, Exchanged
  <2>2. ASSUME NEW index, move_up(index)
        PROVE  DOMAIN next' = DOMAIN next
    BY <2>2 DEF move_up, Exchanged
  <2> QED
    BY <2>1, <2>2 DEF KeyDown, KeyUp
<1> QED
  BY <1>2, <1>5, <1>6, <1>7 DEF DataOK, Live

\* remove_nth_node takes one record out.
LEMMA EditedRemoves ==
  ASSUME ListInv, DataOK, NEW pos \in Nat, remove_nth_node(pos), data' = [n \in Live' |-> data[n]]
  PROVE  DataOK' /\ \E i \in 1 .. Len(Edited) : Edited' = RemoveAt(Edited, i)
<1>1. PICK s : ListIs(s)
  BY DEF ListInv
<1>2. IsChain(next, s) /\ DOMAIN data = DOMAIN next
      /\ \A m \in DOMAIN next : data[m] \in LoadableRecord
  BY <1>1 DEF ListIs, DataOK, Live
<1> DEFINE i == pos + 1
<1>3. i \in 1 .. Len(s) /\ ListIs(RemoveAt(s, i))'
  BY <1>1, RemoveStep
<1> HIDE DEF i
<1>4. Edited = Carried(data, s) /\ Edited' = Carried(data', RemoveAt(s, i))
  BY <1>1, <1>3, EditedNow
<1>5. DOMAIN next' \subseteq DOMAIN next
  <2>1. Path(list_head) = s /\ list_cnt = Len(s)
    BY <1>1, PathIsChain DEF ListIs
  <2>2. pos = 0 => next' = Freed(next, s[1])
    BY <2>1 DEF remove_nth_node
  <2>3. pos # 0 => next' = Freed(Linked(next, s[pos], next[s[pos + 1]]), s[pos + 1]) /\ pos \in 1 .. Len(s)
    BY <1>3, <2>1 DEF remove_nth_node, i
  <2>4. pos # 0 => s[pos] \in DOMAIN next
    BY <1>2, <2>3, ChainElements
  <2> QED
    BY <2>2, <2>3, <2>4 DEF Freed, Linked
<1>6. DOMAIN data' = DOMAIN next' /\ \A n \in DOMAIN next' : data'[n] = data[n]
  BY DEF Live
<1>7. IsChain(next', RemoveAt(s, i))
  BY <1>3 DEF ListIs
<1>8. Edited' = RemoveAt(Edited, i)
  <2>1. \A n \in DOMAIN next' : data'[n] = data[n]
    BY <1>6
  <2>2. Carried(data', RemoveAt(s, i)) = RemoveAt(Carried(data, s), i)
    <3> DEFINE d == data
               e == data'
               g == next'
    <3>1. IsChain(next, s) /\ i \in 1 .. Len(s)
      BY <1>2, <1>3
    <3>2. IsChain(g, RemoveAt(s, i)) /\ \A n \in DOMAIN g : e[n] = d[n]
      BY <1>7, <2>1
    <3> HIDE DEF d, e, g
    <3>3. Carried(e, RemoveAt(s, i)) = RemoveAt(Carried(d, s), i)
      BY <3>1, <3>2, CarriedRemove
    <3> QED
      BY <3>3 DEF d, e, g
  <2> QED
    BY <1>4, <2>2
<1>9. Len(Edited) = Len(s)
  BY <1>2, <1>4, CarriedSeq
<1> QED
  BY <1>2, <1>3, <1>5, <1>6, <1>8, <1>9 DEF DataOK, Live

\* Setting the visible flag of a node changes one record.
LEMMA EditedHides ==
  ASSUME ListInv, DataOK, NEW idx \in Nat, NEW b \in BOOLEAN, UNCHANGED vars, idx < list_cnt,
         LET n == Path(list_head)[idx + 1] IN data' = [data EXCEPT ![n].visible = b]
  PROVE  DataOK' /\ \E i \in 1 .. Len(Edited) : Edited' = [Edited EXCEPT ![i].visible = b]
<1>1. PICK s : ListIs(s)
  BY DEF ListInv
<1>2. IsChain(next, s) /\ DOMAIN data = DOMAIN next /\ Len(s) \in Nat
      /\ \A m \in DOMAIN next : data[m] \in LoadableRecord
  BY <1>1, ChainElements DEF ListIs, DataOK, Live
<1> DEFINE i == idx + 1
           n == s[i]
           r == [data[n] EXCEPT !.visible = b]
<1>3. Path(list_head) = s /\ list_cnt = Len(s)
  BY <1>1, PathIsChain DEF ListIs
<1>4. i \in 1 .. Len(s) /\ n \in DOMAIN next
  BY <1>2, <1>3, ChainElements
<1>5. ListIs(s)'
  BY <1>1 DEF ListIs, vars, IsChain
<1>6. Edited = Carried(data, s) /\ Edited' = Carried(data', s)
  BY <1>1, <1>5, EditedNow
<1>7. data' = [data EXCEPT ![n] = r]
  BY <1>3
<1>8. r \in LoadableRecord
  <2>1. data[n] \in LoadableRecord
    BY <1>2, <1>4
  <2> HIDE DEF n
  <2> QED
    BY <2>1 DEF LoadableRecord
<1> HIDE DEF i, n, r
<1>9. DOMAIN data' = DOMAIN next /\ \A m \in DOMAIN next : data'[m] = IF m = n THEN r ELSE data[m]
  BY <1>2, <1>4, <1>7
<1>10. DataOK'
  BY <1>2, <1>8, <1>9 DEF DataOK, Live, vars
<1>11. Len(Edited) = Len(s) /\ DOMAIN Edited = 1 .. Len(s) /\ \A k \in 1 .. Len(s) : Edited[k] = data[s[k]]
  <2>1. /\ Edited \in Seq(LoadableRecord) /\ Len(Edited) = Len(s)
        /\ \A k \in 1 .. Len(s) : Edited[k] = data[s[k]]
    BY <1>2, <1>6, CarriedSeq
  <2> QED
    BY <2>1, LenProperties
<1>12. Edited' = [Edited EXCEPT ![i] = r]
  <2>1. DOMAIN s = 1 .. Len(s)
    BY <1>2, LenProperties DEF IsChain
  <2>2. Edited' = [k \in 1 .. Len(s) |-> data'[s[k]]]
    BY <1>6, <2>1 DEF Carried
  <2>3. Edited = [k \in 1 .. Len(s) |-> data[s[k]]]
    BY <1>6, <2>1 DEF Carried
  <2>4. \A k \in 1 .. Len(s) : s[k] \in DOMAIN next /\ (s[k] = n <=> k = i)
    BY <1>2, <1>4, ChainElements DEF IsChain, n
  <2>5. \A k \in 1 .. Len(s) : data'[s[k]] = IF k = i THEN r ELSE data[s[k]]
    BY <1>9, <2>4
  <2> QED
    BY <1>4, <2>2, <2>3, <2>5
<1>13. r = [Edited[i] EXCEPT !.visible = b]
  BY <1>4, <1>11 DEF r, n
<1>14. Edited' = [Edited EXCEPT ![i].visible = b]
  BY <1>12, <1>13
<1> QED
  BY <1>4, <1>10, <1>11, <1>14

\* destroy_list leaves nothing.
LEMMA EditedEmpties ==
  ASSUME ListInv, DataOK, destroy_list, data' = [n \in Live' |-> data[n]]
  PROVE  DataOK' /\ Edited' = << >>
<1>1. PICK s : ListIs(s)
  BY DEF ListInv
<1>2. ListIs(<< >>)'
  BY <1>1, DestroyStep
<1>3. Edited' = Carried(data', << >>)
  BY <1>1, <1>2, EditedNow
<1>4. DOMAIN next' \subseteq DOMAIN next
  BY DEF destroy_list, Live
<1>5. DOMAIN data' = DOMAIN next' /\ \A n \in DOMAIN next' : data'[n] = data[n]
  BY DEF Live
<1> QED
  BY <1>3, <1>4, <1>5, CarriedNothing DEF DataOK, Live

\* After a restart the window's list is empty.
LEMMA EditedAfterCrash ==
  ASSUME ListInv, CrashRestart
  PROVE  DataOK' /\ Edited' = << >>
<1>1. ListIs(<< >>)'
  <2>1. list_head' = NULL /\ list_cnt' = 0 /\ badAccess' = badAccess /\ DOMAIN next' = {}
    BY DEF CrashRestart
  <2> QED
    BY <2>1, EmptyIsChain DEF ListInv, ListIs
<1>2. PICK s : ListIs(s)
  BY DEF ListInv
<1>3. Edited' = Carried(data', << >>)
  BY <1>1, <1>2, EditedNow
<1>4. DOMAIN data' = {} /\ DOMAIN next' = {}
  BY DEF CrashRestart
<1> QED
  BY <1>3, <1>4, CarriedNothing DEF DataOK, Live

\* FirstOf for any k.
LEMMA FirstOfAny ==
  ASSUME NEW S, NEW s \in Seq(S), NEW k \in Nat
  PROVE  FirstOf(s, k) \in Seq(S)
<1>1. Len(s) \in Nat
  BY LenProperties
<1>2. CASE k \in 0 .. Len(s)
  BY <1>2, FirstOfSeq
<1>3. CASE Len(s) <= k
  BY <1>3, FirstOfAll
<1> QED
  BY <1>1, <1>2, <1>3

\* An element appended past the first k is not among them.
LEMMA FirstOfAppend ==
  ASSUME NEW S, NEW s \in Seq(S), NEW r \in S, NEW k \in Nat
  PROVE  FirstOf(Append(s, r), k) = IF Len(s) < k THEN Append(s, r) ELSE FirstOf(s, k)
<1> DEFINE t == Append(s, r)
           L == Len(s)
<1>1. L \in Nat /\ t \in Seq(S) /\ Len(t) = L + 1 /\ \A i \in 1 .. L : t[i] = s[i]
  BY LenProperties, AppendProperties
<1> HIDE DEF t
<1>2. CASE L < k
  <2>1. Len(t) <= k
    BY <1>1, <1>2
  <2> QED
    BY <1>1, <1>2, <2>1, FirstOfAll DEF t
<1>3. CASE ~ (L < k)
  <2>1. DOMAIN t = 1 .. L + 1 /\ DOMAIN s = 1 .. L
    BY <1>1, LenProperties
  <2>2. DOMAIN t \cap 1 .. k = 1 .. k /\ DOMAIN s \cap 1 .. k = 1 .. k
    BY <1>1, <1>3, <2>1
  <2>3. \A i \in 1 .. k : t[i] = s[i]
    BY <1>1, <1>3
  <2>4. FirstOf(t, k) = FirstOf(s, k)
    BY <2>2, <2>3 DEF FirstOf
  <2> QED
    BY <1>3, <2>4 DEF t
<1> QED
  BY <1>2, <1>3

\* The more elements are looked at, the more is copied, at the end.
LEMMA SelectedGrows ==
  ASSUME NEW S, NEW s \in Seq(S), NEW k \in Nat, NEW l \in Nat, k <= l, NEW T
  PROVE  Begins(Selected(FirstOf(s, k), T), Selected(FirstOf(s, l), T))
<1> DEFINE t == FirstOf(s, l)
<1>1. t \in Seq(S) /\ Len(t) \in Nat
  BY FirstOfAny, LenProperties
<1>2. CASE k <= Len(t)
  <2>1. FirstOf(t, k) = FirstOf(s, k)
    <3>1. DOMAIN s \cap 1 .. k = DOMAIN t \cap 1 .. k
      BY DEF FirstOf
    <3>2. \A i \in DOMAIN t : t[i] = s[i]
      BY DEF FirstOf
    <3> HIDE DEF t
    <3> QED
      BY <3>1, <3>2 DEF FirstOf
  <2> HIDE DEF t
  <2>2. Begins(Selected(FirstOf(t, k), T), Selected(t, T))
    BY <1>1, <1>2, SelectedBegins
  <2> QED
    BY <2>1, <2>2 DEF t
<1>3. CASE ~ (k <= Len(t))
  <2>1. Len(s) \in Nat /\ DOMAIN s = 1 .. Len(s)
    BY LenProperties
  <2>2. Len(s) <= k
    <3>1. l \in 0 .. Len(s) => Len(t) = l
      BY FirstOfSeq
    <3>2. Len(s) <= l => t = s
      BY FirstOfAll
    <3> HIDE DEF t
    <3> QED
      BY <1>1, <1>3, <2>1, <3>1, <3>2
  <2>3. FirstOf(s, k) = s /\ t = s
    BY <2>1, <2>2, FirstOfAll
  <2>4. Selected(s, T) \in Seq(S \cap T)
    BY SelectedSeq
  <2>5. Len(Selected(s, T)) \in Nat
    BY <2>4, LenProperties
  <2> HIDE DEF t
  <2> QED
    BY <2>3, <2>5 DEF Begins, t
<1> QED
  BY <1>2, <1>3

\* The visible stations are a list of the same kind.
LEMMA VisibleSeq ==
  ASSUME NEW S, NEW s \in Seq(S)
  PROVE  Visible(s) \in Seq(S)
<1> DEFINE T == {r \in {s[i] : i \in DOMAIN s} : r.visible}
<1>1. Selected(s, T) \in Seq(S \cap T)
  BY SelectedSeq
<1>2. Selected(s, T) \in Seq(S)
  BY <1>1, SeqMonotonic
<1> QED
  BY <1>2 DEF Visible

-----------------------------------------------------------------------------
(* Identities *)

\* The identities of a list are those of its values.
LEMMA IdsOfValues == ASSUME NEW s PROVE Ids(s) = {r.id : r \in Values(s)}
BY DEF Ids, Values

\* A station that is not in the list yet may be appended.
LEMMA OnceAppend ==
  ASSUME NEW S, NEW s \in Seq(S), NEW r \in S, Once(s), r.id \notin Ids(s)
  PROVE  Once(Append(s, r))
<1> DEFINE t == Append(s, r)
           L == Len(s)
<1>1. L \in Nat /\ DOMAIN s = 1 .. L
  BY LenProperties
<1>2. t \in Seq(S) /\ Len(t) = L + 1 /\ t[L + 1] = r /\ \A i \in 1 .. L : t[i] = s[i]
  BY AppendProperties
<1> HIDE DEF t
<1>3. DOMAIN t = 1 .. L + 1
  BY <1>2, LenProperties
<1>4. \A i \in DOMAIN t : (i \in DOMAIN s /\ t[i] = s[i]) \/ (i = L + 1 /\ t[i] = r)
  BY <1>1, <1>2, <1>3
<1>5. \A i \in DOMAIN s : s[i].id # r.id
  BY DEF Ids
<1>6. ASSUME NEW i \in DOMAIN t, NEW j \in DOMAIN t, t[i].id = t[j].id
      PROVE  i = j
  <2>1. CASE i \in DOMAIN s /\ t[i] = s[i] /\ j \in DOMAIN s /\ t[j] = s[j]
    BY <1>6, <2>1 DEF Once
  <2>2. CASE i \in DOMAIN s /\ t[i] = s[i] /\ j = L + 1 /\ t[j] = r
    <3>1. s[i].id # r.id
      BY <1>5, <2>2
    <3> QED
      BY <1>6, <2>2, <3>1
  <2>3. CASE j \in DOMAIN s /\ t[j] = s[j] /\ i = L + 1 /\ t[i] = r
    <3>1. s[j].id # r.id
      BY <1>5, <2>3
    <3> QED
      BY <1>6, <2>3, <3>1
  <2>4. CASE i = L + 1 /\ j = L + 1
    BY <2>4
  <2> QED
    BY <1>4, <2>1, <2>2, <2>3, <2>4
<1> QED
  BY <1>6 DEF Once, t

\* What begins a list without repetition has none.
LEMMA OnceBegins ==
  ASSUME NEW S, NEW s \in Seq(S), NEW t \in Seq(S), Begins(s, t), Once(t)
  PROVE  Once(s)
<1>1. DOMAIN s = 1 .. Len(s) /\ DOMAIN t = 1 .. Len(t) /\ Len(s) \in Nat /\ Len(t) \in Nat
  BY LenProperties
<1>2. \A i \in DOMAIN s : i \in DOMAIN t /\ s[i] = t[i]
  BY <1>1 DEF Begins
<1> QED
  BY <1>2 DEF Once

\* What begins a list is in it.
LEMMA BeginsValues ==
  ASSUME NEW S, NEW s \in Seq(S), NEW t \in Seq(S), Begins(s, t)
  PROVE  Values(s) \subseteq Values(t)
<1>1. DOMAIN s = 1 .. Len(s) /\ DOMAIN t = 1 .. Len(t) /\ Len(s) \in Nat /\ Len(t) \in Nat
  BY LenProperties
<1>2. \A i \in DOMAIN s : i \in DOMAIN t /\ s[i] = t[i]
  BY <1>1 DEF Begins
<1> QED
  BY <1>2 DEF Values

\* A list begins the one that has an element more.
LEMMA AppendBegins ==
  ASSUME NEW S, NEW s \in Seq(S), NEW r \in S
  PROVE  Begins(s, Append(s, r)) /\ Begins(s, s)
<1>1. Len(s) \in Nat /\ Len(Append(s, r)) = Len(s) + 1 /\ \A i \in 1 .. Len(s) : Append(s, r)[i] = s[i]
  BY LenProperties, AppendProperties
<1> QED
  BY <1>1 DEF Begins

-----------------------------------------------------------------------------
(* The file *)

\* The records of s that a load accepts.
Kept(s) == Selected(s, LoadableRecord)

\* No station is in both lists.
Apart(s, t) == \A i \in DOMAIN s, j \in DOMAIN t : s[i].id # t[j].id

\* A load keeps the acceptable ones of the records that are counted.
LEMMA ListedIsKept ==
  ASSUME NEW f
  PROVE  Listed(f) = IF f.shifted \/ f.empty THEN << >> ELSE Kept(FirstOf(f.recs, f.count))
BY DEF Listed, Counted, Kept, FirstOf

\* What is kept are records a load accepts.
LEMMA KeptSeq ==
  ASSUME NEW s \in Seq(Record)
  PROVE  Kept(s) \in Seq(LoadableRecord)
<1>1. Kept(s) \in Seq(Record \cap LoadableRecord)
  BY SelectedSeq DEF Kept
<1> QED
  BY <1>1, SeqMonotonic

\* A record is acceptable when its station is.
LEMMA LoadableRecords ==
  /\ LoadableRecord \subseteq Record
  /\ \A r \in Record : r.id \in Stations /\ (r \in LoadableRecord <=> r.id \in Loadable)
BY LoadableAssumption DEF LoadableRecord, Record

\* One record more is kept when it is acceptable.
LEMMA KeptAppend ==
  ASSUME NEW s \in Seq(Record), NEW r \in Record
  PROVE  Kept(Append(s, r)) = IF r \in LoadableRecord THEN Append(Kept(s), r) ELSE Kept(s)
BY SelectedAppend DEF Kept

\* The fields of a file.
LEMMA FileFields ==
  ASSUME NEW f \in File
  PROVE  /\ f.count \in Nat /\ f.recs \in Seq(Record) /\ Len(f.recs) \in Nat
         /\ f.there \in BOOLEAN /\ f.empty \in BOOLEAN /\ f.shifted \in BOOLEAN
<1>1. f.recs \in Seq(Record)
  BY DEF File
<1> QED
  BY <1>1, LenProperties DEF File

\* What a load gives is a list of acceptable records.
LEMMA ListedSeq ==
  ASSUME NEW f \in File
  PROVE  Listed(f) \in Seq(LoadableRecord) /\ ListedVisible(f) \in Seq(LoadableRecord)
<1>1. FirstOf(f.recs, f.count) \in Seq(Record)
  BY FileFields, FirstOfAny
<1>2. Listed(f) \in Seq(LoadableRecord)
  BY <1>1, KeptSeq, ListedIsKept, EmptySeq
<1> QED
  BY <1>2, VisibleSeq DEF ListedVisible

\* A file that holds no record lists none.
LEMMA ListedNothing ==
  ASSUME NEW f \in File, f.recs = << >> \/ f.count = 0
  PROVE  Listed(f) = << >>
<1>1. f.recs \in Seq(Record) /\ f.count \in Nat
  BY FileFields
<1>2. FirstOf(f.recs, f.count) = << >>
  <2>1. CASE f.count = 0
    BY <1>1, <2>1, FirstOfNone
  <2>2. CASE f.recs = << >>
    <3>1. Len(f.recs) = 0
      BY <2>2, EmptySeq
    <3>2. Len(f.recs) <= f.count
      BY <1>1, <2>2, <3>1
    <3>3. FirstOf(f.recs, f.count) = f.recs
      BY <1>1, <3>2, FirstOfAll
    <3> QED
      BY <2>2, <3>3
  <2> QED
    BY <2>1, <2>2
<1> QED
  BY <1>2, ListedIsKept, SelectedEmpty DEF Kept

\* A count that covers all records lists them all.
LEMMA ListedAll ==
  ASSUME NEW f \in File, ~ f.shifted, ~ f.empty, Len(f.recs) <= f.count
  PROVE  Listed(f) = Kept(f.recs)
<1>1. FirstOf(f.recs, f.count) = f.recs
  BY FileFields, FirstOfAll
<1> QED
  BY <1>1, ListedIsKept

-----------------------------------------------------------------------------
(* The invariant of the file and the window *)

\* A file that was just created holds nothing.
FileShape ==
  /\ file \in File
  /\ ~ file.there \/ file.empty => file.count = 0 /\ file.recs = << >> /\ ~ file.shifted

\* A save puts its records behind those of the file, or where they are not read.
Appending ==
  /\ window = "closed" /\ file.there
  /\ job.at # 0
  /\ file.shifted \/ (file.count = job.cnt /\ (job.cnt # 0 => job.at = Len(file.recs) + 1))

\* Before any crash has cut a save, the records of a save are in the file or to
\* be written, and none of them is of a station the file has already.
AppendingUncut ==
  /\ ~ file.shifted /\ ~ file.empty
  /\ file.count = job.cnt /\ job.at = Len(file.recs) + 1
  /\ Len(file.recs) + Len(job.todo) <= job.cnt + Len(job.all)
  /\ Values(job.all) \subseteq Values(job.todo) \cup Values(file.recs)
  /\ Once(job.todo)
  /\ Apart(job.todo, Kept(file.recs))
  /\ Once(Listed(file)) => Once(Kept(file.recs))

\* A rewrite has removed the file, created it, written the count, or some of the
\* records the count announces.
RewritingPart ==
  /\ job.all \in Seq(LoadableRecord) /\ job.todo \in Seq(LoadableRecord)
  /\ job.op = "create" => file = NoFile /\ job.todo = job.all
  /\ job.op = "count" => file = EmptyFile /\ job.todo = job.all
  /\ job.op = "records" =>
        /\ file.there /\ ~ file.empty /\ ~ file.shifted /\ file.count = Len(job.all)
        /\ Len(file.recs) + Len(job.todo) = Len(job.all)
        /\ \A i \in 1 .. Len(file.recs) : file.recs[i] = job.all[i]
        /\ \A i \in 1 .. Len(job.todo) : job.todo[i] = job.all[Len(file.recs) + i]

\* The window's list is what a loop over the first records has copied.
Loading ==
  /\ window = "closed"
  /\ job.at \in 1 .. file.count + 1
  /\ Edited = IF file.shifted THEN << >> ELSE Kept(FirstOf(file.recs, job.at - 1))

\* A file no crash has cut counts all its records.
UncutFile == ~ file.shifted /\ ~ file.empty /\ Len(file.recs) <= file.count

\* What job can be.
Job == [op : Working, todo : Seq(Record), all : Seq(Record), at : Nat, cnt : Nat, reload : BOOLEAN]

\* The file, the viewer's list and the work under way.
DiskInv ==
  /\ FileShape
  /\ shown \in Seq(LoadableRecord)
  /\ job \in Job
  /\ job.op = "append" => Appending
  /\ job.op = "append" /\ ~ cut => AppendingUncut
  /\ Rewriting => RewritingPart
  /\ ~ cut /\ job.op \in {"idle", "load"} => UncutFile

\* The window's list: there while the window is open or being filled.
WindowInv ==
  /\ DataOK
  /\ window \in {"open", "closed"}
  /\ window = "closed" /\ job.op # "load" => Edited = << >>
  /\ job.op = "load" => Loading

\* The inductive invariant.
FileInv == ListInv /\ DiskInv /\ WindowInv

\* The three files without records.
LEMMA NoFiles ==
  /\ NoFile \in File /\ EmptyFile \in File /\ NewFile \in File
  /\ NoFile.count = 0 /\ NoFile.recs = << >> /\ ~ NoFile.there /\ ~ NoFile.empty /\ ~ NoFile.shifted
  /\ EmptyFile.count = 0 /\ EmptyFile.recs = << >> /\ EmptyFile.there /\ EmptyFile.empty
  /\ ~ EmptyFile.shifted
  /\ NewFile.count = 0 /\ NewFile.recs = << >> /\ NewFile.there /\ ~ NewFile.empty /\ ~ NewFile.shifted
<1>1. << >> \in Seq(Record)
  BY EmptySeq
<1> QED
  BY <1>1 DEF NoFile, EmptyFile, NewFile, File

\* No work.
LEMMA IdleJob == Idle \in Job /\ Idle.op = "idle" /\ Idle.todo = << >> /\ Idle.all = << >>
<1>1. << >> \in Seq(Record)
  BY EmptySeq
<1> QED
  BY <1>1 DEF Idle, Job, Working

\* Records stay what they are when fields are set to values of their kind.
LEMMA JobSet ==
  ASSUME NEW j \in Job
  PROVE  /\ \A op \in Working, todo, all \in Seq(Record), at, cnt \in Nat :
               [j EXCEPT !.op = op, !.todo = todo, !.all = all, !.at = at, !.cnt = cnt] \in Job
         /\ \A op \in Working, todo, all \in Seq(Record), reload \in BOOLEAN :
               [j EXCEPT !.op = op, !.todo = todo, !.all = all, !.reload = reload] \in Job
         /\ \A todo \in Seq(Record), at \in Nat : [j EXCEPT !.todo = todo, !.at = at] \in Job
         /\ \A todo \in Seq(Record) : [j EXCEPT !.todo = todo] \in Job
         /\ \A op \in Working : [j EXCEPT !.op = op] \in Job
         /\ \A op \in Working, at \in Nat : [j EXCEPT !.op = op, !.at = at] \in Job
         /\ \A at \in Nat : [j EXCEPT !.at = at] \in Job
BY DEF Job

\* The invariant holds at first.
LEMMA FileInvInit == FileInit => FileInv
<1> SUFFICES ASSUME FileInit
             PROVE  FileInv
  OBVIOUS
<1>1. ListIs(<< >>)
  BY InitList
<1>2. Edited = << >>
  BY <1>1, EditedCarried, CarriedNothing DEF EditedIsCarried
<1>3. DataOK
  BY DEF FileInit, Init, DataOK, Live
<1>4. job \in Job /\ job.op = "idle" /\ window = "closed" /\ file = NoFile /\ shown = << >> /\ ~ cut
  BY IdleJob DEF FileInit
<1>5. Len(file.recs) = 0
  BY <1>4, NoFiles, EmptySeq
<1>6. shown \in Seq(LoadableRecord)
  BY <1>4, EmptySeq
<1>7. DiskInv
  BY <1>4, <1>5, <1>6, NoFiles DEF DiskInv, FileShape, UncutFile, Rewriting
<1>8. WindowInv
  BY <1>2, <1>3, <1>4 DEF WindowInv
<1> QED
  BY <1>1, <1>7, <1>8 DEF FileInv, ListInv

-----------------------------------------------------------------------------
(* The steps of the store *)

\* What is stored: the list being written, or what a load of the file gives.
Stored == IF Rewriting THEN job.all ELSE Listed(file)
\* The list of the open window.
InWindow == IF window = "open" THEN Edited ELSE << >>

\* What a step of the store is, in the terms of this module.
StoreAdds ==
  /\ Begins(Stored, Stored')
  /\ cut \/ (Once(Stored) => Once(Stored'))
  /\ shown' \in {shown, Visible(Stored')}
  /\ UNCHANGED << InWindow, cut >>

\* An edit: a station hidden or shown, exchanged with its neighbour, or deleted.
StoreEditOf(s, t) ==
  \/ \E i \in DOMAIN s, v \in BOOLEAN : t = [s EXCEPT ![i].visible = v]
  \/ \E i \in 1 .. Len(s) - 1 : t = Exchanging(s, i)
  \/ \E i \in DOMAIN s : t = RemoveAt(s, i)

\* An edit, stored or kept in memory.
StoreEdits ==
  /\ StoreEditOf(InWindow, InWindow')
  /\ Stored' \in {InWindow', Stored}
  /\ UNCHANGED << shown, cut >>

\* The viewer's list written.
StoreWritesShown == Stored' = shown /\ UNCHANGED << shown, InWindow, cut >>

\* The window opened on what is stored.
StoreOpens == InWindow = << >> /\ InWindow' = Stored /\ UNCHANGED << Stored, shown, cut >>

\* The window closed, and the viewer's list read again.
StoreCloses == InWindow' = << >> /\ shown' = Visible(Stored) /\ UNCHANGED << Stored, cut >>

\* The viewer's list read again.
StoreReloads == shown' = Visible(Stored) /\ UNCHANGED << Stored, InWindow, cut >>

\* A crash leaves how the stored list begins.
StoreCrashes ==
  /\ Begins(Stored', Stored)
  /\ shown' = Visible(Stored')
  /\ InWindow' = << >>
  /\ cut => cut'

\* A rewrite whose file could not be created leaves nothing.
StoreRefused ==
  /\ Stored' = << >>
  /\ shown' \in {shown, Visible(Stored')}
  /\ UNCHANGED << InWindow, cut >>

\* A step of the file that the store does not see.
StoreStays == UNCHANGED << Stored, shown, InWindow, cut >>

\* Any of these.
StoreStep ==
  StoreAdds \/ StoreEdits \/ StoreWritesShown \/ StoreOpens \/ StoreCloses \/ StoreReloads
  \/ StoreCrashes \/ StoreRefused \/ StoreStays

\* What is stored are records a load accepts,
StoredIsSeq == FileInv => Stored \in Seq(LoadableRecord)

\* in every state
LEMMA StoredSeq == StoredIsSeq
BY ListedSeq DEF FileInv, DiskInv, FileShape, RewritingPart, Stored, StoredIsSeq

\* and in the state after a step.
LEMMA StoredSeqNext == StoredIsSeq'
<1>1. StoredIsSeq
  BY StoredSeq
<1> QED
  BY <1>1, PTL

\* The operators of StationStore are those of this module.
LEMMA StoreOperators ==
  ASSUME NEW s, NEW t
  PROVE  /\ Store!Visible(s) = Visible(s)
         /\ Store!Once(s) = Once(s)
         /\ Store!IsPrefix(s, t) = IsPrefix(s, t)
         /\ Store!EditOf(s, t) = StoreEditOf(s, t)
<1>1. Store!Visible(s) = Visible(s)
  BY DEF Store!Visible, Visible, Store!Selected, Selected
<1>2. Store!Once(s) = Once(s)
  BY DEF Store!Once, Once
<1>3. Store!IsPrefix(s, t) = IsPrefix(s, t)
  BY DEF Store!IsPrefix, IsPrefix
<1>4. Store!EditOf(s, t) = StoreEditOf(s, t)
  BY DEF Store!EditOf, StoreEditOf, Exchanging, Store!RemoveAt, RemoveAt
<1> QED
  BY <1>1, <1>2, <1>3, <1>4

\* Those steps are the steps of StationStore.
LEMMA StepOfStore ==
  ASSUME FileInv, FileInv', StoreStep
  PROVE  [Store!Next]_(Store!vars)
<1> DEFINE R == LoadableRecord
<1>1. Stored \in Seq(R) /\ Stored' \in Seq(R)
  BY StoredSeq, StoredSeqNext DEF StoredIsSeq
<1>2. CASE StoreAdds
  <2>1. IsPrefix(Stored, Stored')
    BY <1>1, <1>2, BeginsIsPrefix DEF StoreAdds
  <2>2. Store!AddFound
    BY <1>2, <2>1, StoreOperators DEF StoreAdds, Store!AddFound, Stored, InWindow
  <2> QED
    BY <2>2 DEF Store!Next
<1>3. CASE StoreEdits
  <2>1. Store!Edit \/ Store!EditInMemory
    BY <1>3, StoreOperators DEF StoreEdits, Store!Edit, Store!EditInMemory, Stored, InWindow
  <2> QED
    BY <2>1 DEF Store!Next
<1>4. CASE StoreWritesShown
  <2>1. Store!StoreShown
    BY <1>4 DEF StoreWritesShown, Store!StoreShown, Stored, InWindow
  <2> QED
    BY <2>1 DEF Store!Next
<1>5. CASE StoreOpens
  <2>1. Store!OpenEditor
    BY <1>5 DEF StoreOpens, Store!OpenEditor, Stored, InWindow
  <2> QED
    BY <2>1 DEF Store!Next
<1>6. CASE StoreCloses
  <2>1. Store!CloseEditor
    BY <1>6, StoreOperators DEF StoreCloses, Store!CloseEditor, Stored, InWindow
  <2> QED
    BY <2>1 DEF Store!Next
<1>7. CASE StoreReloads
  <2>1. Store!Reload
    BY <1>7, StoreOperators DEF StoreReloads, Store!Reload, Stored, InWindow
  <2> QED
    BY <2>1 DEF Store!Next
<1>8. CASE StoreCrashes
  <2>1. IsPrefix(Stored', Stored)
    BY <1>1, <1>8, BeginsIsPrefix DEF StoreCrashes
  <2>2. Store!Crash
    BY <1>8, <2>1, StoreOperators DEF StoreCrashes, Store!Crash, Stored, InWindow
  <2> QED
    BY <2>2 DEF Store!Next
<1>9. CASE StoreStays
  BY <1>9 DEF StoreStays, Store!vars, Stored, InWindow
<1>10. CASE StoreRefused
  <2>1. Store!Refused
    BY <1>10, StoreOperators DEF StoreRefused, Store!Refused, Stored, InWindow
  <2> QED
    BY <2>1 DEF Store!Next
<1> QED
  BY <1>2, <1>3, <1>4, <1>5, <1>6, <1>7, <1>8, <1>9, <1>10 DEF StoreStep

-----------------------------------------------------------------------------
(* Saving what a scan found *)

\* What is to be saved: records of stations that differ, and that a load of the
\* file does not give.
LEMMA NewStations ==
  ASSUME FileShape, NEW m \in Multiplexes
  PROVE  /\ NotYetSaved(m) \in Seq(Record)
         /\ Once(NotYetSaved(m))
         /\ Apart(NotYetSaved(m), Listed(file))
<1> DEFINE old == IF file.count = 0 THEN << >> ELSE Listed(file)
           T == Stations \ Ids(old)
           new == Selected(m, T)
           rec == NotYetSaved(m)
<1>1. m \in Seq(Stations) /\ NoRepeat(m)
  BY MultiplexAssumption DEF NoRepeat
<1>2. old = Listed(file)
  BY ListedNothing DEF FileShape
<1>3. new \in Seq(Stations \cap T) /\ NoRepeat(new)
  BY <1>1, SelectedSeq, SelectedNoRepeat
<1>4. DOMAIN new = 1 .. Len(new) /\ Len(new) \in Nat /\ \A i \in 1 .. Len(new) : new[i] \in Stations \cap T
  BY <1>3, LenProperties, ElementOfSeq
<1>5. rec = [i \in DOMAIN new |-> [id |-> new[i], visible |-> TRUE]]
  BY DEF NotYetSaved
<1> HIDE DEF old, new, rec
<1>6. \A i \in DOMAIN new : rec[i].id = new[i] /\ rec[i] \in Record
  BY <1>4, <1>5 DEF Record
<1>7. DOMAIN rec = 1 .. Len(new)
  BY <1>4, <1>5
<1>8. rec \in Seq(Record)
  <2>1. rec \in [1 .. Len(new) -> Record]
    BY <1>4, <1>5, <1>6
  <2> QED
    BY <1>4, <2>1, SeqDef
<1>9. Once(rec)
  BY <1>3, <1>4, <1>6, <1>7 DEF Once, NoRepeat
<1>10. Apart(rec, old)
  BY <1>4, <1>6, <1>7 DEF Apart, Ids
<1> QED
  BY <1>2, <1>8, <1>9, <1>10 DEF rec

\* What is to be saved is apart from what the file lists.
LEMMA SaveScanStep ==
  ASSUME FileInv, NEW m \in Multiplexes, SaveScan(m)
  PROVE  DiskInv' /\ WindowInv' /\ StoreStep
<1> DEFINE all == NotYetSaved(m)
<1>1. /\ job.op = "idle" /\ window = "closed" /\ FileShape /\ file \in File
      /\ shown \in Seq(LoadableRecord) /\ DataOK /\ Edited = << >> /\ (~ cut => UncutFile)
  BY DEF FileInv, DiskInv, WindowInv, SaveScan, FileShape
<1>2. all \in Seq(Record) /\ Once(all) /\ Apart(all, Listed(file))
  BY <1>1, NewStations
<1>3. /\ job'.op = "append" /\ job'.todo = all /\ job'.all = all /\ job'.cnt = file.count
      /\ job'.at = IF file.count = 0 THEN 1 ELSE Len(file.recs) + 1
      /\ file' = IF file.there THEN file ELSE NewFile
      /\ job' \in Job
      /\ UNCHANGED << vars, data, shown, window, cut >>
  <2>1. job' = [Idle EXCEPT !.op = "append", !.todo = all, !.all = all,
                           !.at = IF file.count = 0 THEN 1 ELSE Len(file.recs) + 1,
                           !.cnt = file.count]
        /\ file' = (IF file.there THEN file ELSE NewFile) /\ UNCHANGED << vars, data, shown, window, cut >>
    BY DEF SaveScan
  <2>2. file.count \in Nat /\ Len(file.recs) \in Nat
    BY <1>1, FileFields
  <2> HIDE DEF all
  <2>3. job' \in Job
    <3> DEFINE at == IF file.count = 0 THEN 1 ELSE Len(file.recs) + 1
    <3>1. at \in Nat /\ "append" \in Working
      BY <2>2 DEF Working
    <3> HIDE DEF at
    <3>2. [Idle EXCEPT !.op = "append", !.todo = all, !.all = all, !.at = at, !.cnt = file.count] \in Job
      BY <1>2, <2>2, <3>1, IdleJob, JobSet
    <3> QED
      BY <2>1, <3>2 DEF at
  <2> QED
    BY <2>1, <2>3 DEF Idle
<1> HIDE DEF all
<1>4. DataOK' /\ Edited' = Edited
  BY <1>1, <1>3, EditedStays
<1>5. /\ file'.count = file.count /\ file'.recs = file.recs /\ file'.there
      /\ file'.shifted = file.shifted /\ file'.empty = (file.there /\ file.empty) /\ file' \in File
  BY <1>1, <1>3, FileFields, NoFiles DEF FileShape
<1>6. FileShape' /\ Listed(file') = Listed(file)
  <2>1. FileShape'
    BY <1>1, <1>5 DEF FileShape
  <2>2. CASE file.there
    BY <1>3, <2>1, <2>2
  <2>3. CASE ~ file.there
    BY <1>1, <1>5, <2>1, <2>3, ListedNothing DEF FileShape
  <2> QED
    BY <2>2, <2>3
<1>7. file.count \in Nat /\ file.recs \in Seq(Record) /\ Len(file.recs) \in Nat
  BY <1>1, FileFields
<1>8. Appending'
  BY <1>1, <1>2, <1>3, <1>5, <1>7 DEF Appending
<1>9. ASSUME ~ cut'
      PROVE  AppendingUncut'
  <2>1. ~ file'.shifted /\ ~ file'.empty /\ Len(file.recs) <= file.count
    BY <1>1, <1>3, <1>5, <1>9 DEF UncutFile
  <2>2. Listed(file') = Kept(file'.recs)
    BY <1>5, <2>1, ListedAll
  <2>3. Apart(all, Kept(file'.recs)) /\ (Once(Listed(file')) => Once(Kept(file'.recs)))
    BY <1>2, <1>6, <2>2
  <2>4. job'.at = Len(file.recs) + 1 /\ Len(file.recs) + Len(all) <= file.count + Len(all)
    <3>1. Len(all) \in Nat
      BY <1>2, LenProperties
    <3> QED
      BY <1>3, <1>7, <2>1, <3>1
  <2> QED
    BY <1>2, <1>3, <1>5, <2>1, <2>3, <2>4 DEF AppendingUncut
<1>10. DiskInv'
  BY <1>1, <1>3, <1>6, <1>8, <1>9 DEF DiskInv, Rewriting
<1>11. WindowInv'
  BY <1>1, <1>3, <1>4 DEF WindowInv
<1>12. StoreStays
  BY <1>1, <1>3, <1>6 DEF StoreStays, Stored, InWindow, Rewriting
<1> QED
  BY <1>10, <1>11, <1>12 DEF StoreStep

\* A record put into a list, or behind it.
LEMMA PutAtSeq ==
  ASSUME NEW S, NEW s \in Seq(S), NEW i \in Nat \ {0}, NEW r \in S
  PROVE  PutAt(s, i, r) \in Seq(S) /\ (i = Len(s) + 1 => PutAt(s, i, r) = Append(s, r))
<1>1. Len(s) \in Nat
  BY LenProperties
<1>2. CASE i > Len(s)
  BY <1>1, <1>2, AppendProperties DEF PutAt
<1>3. CASE ~ (i > Len(s))
  <2>1. i \in 1 .. Len(s)
    BY <1>1, <1>3
  <2> QED
    BY <1>1, <1>3, <2>1, ExceptSeq DEF PutAt
<1> QED
  BY <1>2, <1>3

\* The first element of a list and the others.
LEMMA TailValues ==
  ASSUME NEW S, NEW s \in Seq(S), s # << >>
  PROVE  /\ Tail(s) \in Seq(S) /\ Head(s) \in S /\ Len(s) \in Nat /\ Len(Tail(s)) = Len(s) - 1
         /\ Head(s) = s[1] /\ DOMAIN s = 1 .. Len(s) /\ DOMAIN Tail(s) = 1 .. Len(s) - 1
         /\ \A i \in 1 .. Len(s) - 1 : Tail(s)[i] = s[i + 1]
         /\ Values(s) = {Head(s)} \cup Values(Tail(s))
<1>1. /\ Tail(s) \in Seq(S) /\ Head(s) \in S /\ Len(s) \in Nat \ {0} /\ Len(Tail(s)) = Len(s) - 1
      /\ \A i \in 1 .. Len(Tail(s)) : Tail(s)[i] = s[i + 1]
  BY HeadTailProperties, EmptySeq
<1>2. DOMAIN s = 1 .. Len(s) /\ DOMAIN Tail(s) = 1 .. Len(s) - 1 /\ Head(s) = s[1]
  BY <1>1, LenProperties
<1>3. Values(s) = {s[1]} \cup Values(Tail(s))
  <2>1. ASSUME NEW x \in Values(s)
        PROVE  x \in {s[1]} \cup Values(Tail(s))
    <3>1. PICK i \in 1 .. Len(s) : x = s[i]
      BY <1>2 DEF Values
    <3>2. CASE i = 1
      BY <3>1, <3>2
    <3>3. CASE i # 1
      <4>1. i - 1 \in 1 .. Len(s) - 1 /\ (i - 1) + 1 = i
        BY <1>1, <3>3
      <4>2. x = Tail(s)[i - 1]
        BY <1>1, <3>1, <4>1
      <4> QED
        BY <1>2, <4>1, <4>2 DEF Values
    <3> QED
      BY <3>2, <3>3
  <2>2. ASSUME NEW x \in Values(Tail(s))
        PROVE  x \in Values(s)
    <3>1. PICK i \in 1 .. Len(s) - 1 : x = Tail(s)[i]
      BY <1>2 DEF Values
    <3>2. i + 1 \in 1 .. Len(s) /\ x = s[i + 1]
      BY <1>1, <3>1
    <3> QED
      BY <1>2, <3>2 DEF Values
  <2>3. s[1] \in Values(s)
    <3>1. 1 \in 1 .. Len(s)
      BY <1>1
    <3> QED
      BY <1>2, <3>1 DEF Values
  <2> QED
    BY <2>1, <2>2, <2>3
<1> QED
  BY <1>1, <1>2, <1>3

\* A record written behind those counted is not listed yet; one written into
\* a hole a cut rewrite has left is the next of the list.
LEMMA AppendRecordStep ==
  ASSUME FileInv, AppendRecord
  PROVE  DiskInv' /\ WindowInv' /\ StoreStep
<1> DEFINE r == Head(job.todo)
           rest == Tail(job.todo)
           recs == file.recs
<1>1. /\ job.op = "append" /\ Appending /\ FileShape /\ file \in File
      /\ shown \in Seq(LoadableRecord) /\ DataOK /\ window = "closed"
      /\ job \in Job /\ Edited = << >> /\ (~ cut => AppendingUncut)
  BY DEF FileInv, DiskInv, WindowInv, AppendRecord, FileShape, Appending
<1>2. job.todo \in Seq(Record) /\ job.todo # << >> /\ job.all \in Seq(Record)
      /\ job.at \in Nat \ {0} /\ job.cnt \in Nat /\ file.there
  BY <1>1 DEF Appending, AppendRecord, Job
<1>3. /\ job'.op = "append" /\ job'.todo = rest /\ job'.all = job.all
      /\ job'.at = job.at + 1 /\ job'.cnt = job.cnt
      /\ file'.recs = PutAt(recs, job.at, r)
      /\ file'.shifted = (file.shifted \/ file.empty) /\ file'.empty = FALSE
      /\ file'.count = IF file.empty THEN 1 ELSE file.count
      /\ file'.there
      /\ UNCHANGED << vars, data, shown, window, cut >>
  <2>1. job' = [job EXCEPT !.todo = Tail(@), !.at = @ + 1] /\ UNCHANGED << vars, data, shown, window, cut >>
    BY DEF AppendRecord
  <2>2. file' = [file EXCEPT !.recs = PutAt(@, job.at, Head(job.todo)),
                             !.shifted = @ \/ file.empty,
                             !.empty = FALSE,
                             !.count = IF file.empty THEN 1 ELSE @]
    BY DEF AppendRecord
  <2>3. file'.recs = PutAt(recs, job.at, r)
      /\ file'.shifted = (file.shifted \/ file.empty) /\ file'.empty = FALSE
      /\ file'.count = (IF file.empty THEN 1 ELSE file.count)
      /\ file'.there = file.there
    <3> HIDE DEF r
    <3> QED
      BY <1>1, <2>2 DEF File, r
  <2>4. /\ job'.op = job.op /\ job'.todo = rest /\ job'.all = job.all
        /\ job'.at = job.at + 1 /\ job'.cnt = job.cnt
    BY <1>1, <2>1 DEF Job
  <2> QED
    BY <1>1, <1>2, <2>1, <2>3, <2>4
<1>4. recs \in Seq(Record) /\ Len(recs) \in Nat /\ file.count \in Nat
  BY <1>1, FileFields
<1>5. r \in Record /\ rest \in Seq(Record) /\ Len(job.todo) \in Nat /\ Len(rest) = Len(job.todo) - 1
      /\ Values(job.todo) = {r} \cup Values(rest)
  BY <1>2, TailValues
<1> HIDE DEF r, rest, recs
<1>6. file'.recs \in Seq(Record) /\ (job.at = Len(recs) + 1 => file'.recs = Append(recs, r))
  <2>1. PutAt(recs, job.at, r) \in Seq(Record)
        /\ (job.at = Len(recs) + 1 => PutAt(recs, job.at, r) = Append(recs, r))
    <3> DEFINE at == job.at
    <3>1. at \in Nat \ {0} /\ recs \in Seq(Record) /\ r \in Record
      BY <1>2, <1>4, <1>5
    <3> HIDE DEF at
    <3>2. PutAt(recs, at, r) \in Seq(Record) /\ (at = Len(recs) + 1 => PutAt(recs, at, r) = Append(recs, r))
      BY <3>1, PutAtSeq
    <3> QED
      BY <3>2 DEF at
  <2> QED
    BY <1>3, <2>1
<1>7. file' \in File
  <2>1. file' = [file EXCEPT !.recs = PutAt(@, job.at, Head(job.todo)),
                             !.shifted = @ \/ file.empty,
                             !.empty = FALSE,
                             !.count = IF file.empty THEN 1 ELSE @]
    BY DEF AppendRecord
  <2>2. PutAt(file.recs, job.at, Head(job.todo)) \in Seq(Record)
    BY <1>3, <1>6 DEF r, recs
  <2> QED
    BY <1>1, <1>4, <2>1, <2>2 DEF File
<1>8. job' \in Job
  <2>1. job' = [job EXCEPT !.todo = rest, !.at = job.at + 1]
    BY DEF AppendRecord, rest
  <2>2. job.at + 1 \in Nat
    BY <1>2
  <2> QED
    BY <1>1, <1>5, <2>1, <2>2, JobSet
<1>9. FileShape'
  BY <1>3, <1>7 DEF FileShape
<1>10. DataOK' /\ Edited' = Edited
  BY <1>1, <1>3, EditedStays
<1>11. WindowInv'
  BY <1>1, <1>3, <1>10 DEF WindowInv
<1>12. CASE file.shifted \/ file.empty
  <2>1. cut /\ cut'
    BY <1>1, <1>3, <1>12 DEF AppendingUncut
  <2>2. Appending'
    <3>1. file'.shifted
      BY <1>3, <1>12
    <3>2. job'.at # 0
      BY <1>2, <1>3
    <3> QED
      BY <1>1, <1>3, <3>1, <3>2 DEF Appending
  <2>3. Listed(file) = << >> /\ Listed(file') = << >>
    BY <1>3, <1>12, ListedIsKept
  <2>4. DiskInv'
    BY <1>1, <1>3, <1>8, <1>9, <2>1, <2>2 DEF DiskInv, Rewriting
  <2>5. StoreStays
    BY <1>1, <1>3, <2>3 DEF StoreStays, Stored, InWindow, Rewriting
  <2> QED
    BY <1>11, <2>4, <2>5 DEF StoreStep
<1>13. CASE ~ file.shifted /\ ~ file.empty
  <2>1. file.count = job.cnt /\ file'.count = job.cnt /\ (job.cnt # 0 => job.at = Len(recs) + 1)
        /\ ~ file'.shifted /\ ~ file'.empty
    BY <1>1, <1>3, <1>13 DEF Appending, recs
  <2>2. job.cnt # 0 => job'.at = Len(file'.recs) + 1
    <3>1. Len(Append(recs, r)) = Len(recs) + 1
      BY <1>4, <1>5, AppendProperties
    <3> QED
      BY <1>3, <1>6, <2>1, <3>1
  <2>3. Appending'
    BY <1>1, <1>2, <1>3, <2>1, <2>2 DEF Appending
  <2> DEFINE K == Kept(recs)
             K2 == Kept(Append(recs, r))
  <2>4. K \in Seq(LoadableRecord) /\ K2 = IF r \in LoadableRecord THEN Append(K, r) ELSE K
    BY <1>4, <1>5, KeptSeq, KeptAppend
  <2>5. Listed(file) = IF job.cnt = 0 THEN << >> ELSE Kept(FirstOf(recs, job.cnt))
    <3>1. job.cnt = 0 => Listed(file) = << >>
      BY <1>1, <2>1, ListedNothing
    <3> QED
      BY <1>13, <2>1, <3>1, ListedIsKept DEF recs
  <2>6. Listed(file') = IF job.cnt = 0 THEN << >>
                        ELSE IF Len(recs) < job.cnt THEN K2 ELSE Listed(file)
    <3>1. job.cnt = 0 => Listed(file') = << >>
      BY <1>7, <2>1, ListedNothing
    <3>2. CASE job.cnt # 0
      <4>1. Listed(file') = Kept(FirstOf(Append(recs, r), job.cnt))
        BY <1>6, <2>1, <3>2, ListedIsKept
      <4>2. FirstOf(Append(recs, r), job.cnt) =
              IF Len(recs) < job.cnt THEN Append(recs, r) ELSE FirstOf(recs, job.cnt)
        BY <1>2, <1>4, <1>5, FirstOfAppend
      <4> QED
        BY <2>5, <3>2, <4>1, <4>2
    <3> QED
      BY <3>1, <3>2
  <2>7. Len(recs) < job.cnt => Listed(file) = K
    <3>1. Len(recs) < job.cnt => Len(file.recs) <= file.count
      BY <1>2, <1>4, <2>1 DEF recs
    <3>2. Len(file.recs) <= file.count => Listed(file) = Kept(file.recs)
      BY <1>1, <1>13, ListedAll
    <3> QED
      BY <3>1, <3>2 DEF recs
  <2> HIDE DEF K, K2
  <2>8. Begins(K, K2) /\ Begins(Listed(file), Listed(file))
    <3>1. Begins(K, K)
      BY <2>4, LenProperties DEF Begins
    <3>2. r \in LoadableRecord => Begins(K, Append(K, r))
      BY <2>4, AppendBegins
    <3>3. Len(Listed(file)) \in Nat
      BY <1>1, ListedSeq, LenProperties
    <3> QED
      BY <2>4, <3>1, <3>2, <3>3 DEF Begins
  <2>9. Begins(Listed(file), Listed(file'))
    BY <1>2, <2>5, <2>6, <2>7, <2>8
  <2>10. ~ cut => /\ (Once(K) => Once(K2))
                  /\ Once(rest) /\ Apart(rest, K2)
    <3>1. SUFFICES ASSUME ~ cut
                   PROVE  (Once(K) => Once(K2)) /\ Once(rest) /\ Apart(rest, K2)
      OBVIOUS
    <3>2. Once(job.todo) /\ Apart(job.todo, K)
      BY <1>1, <3>1 DEF AppendingUncut, K, recs
    <3> DEFINE n == Len(job.todo)
    <3>3. /\ n \in Nat /\ r = job.todo[1] /\ DOMAIN job.todo = 1 .. n /\ DOMAIN rest = 1 .. n - 1
          /\ 1 \in 1 .. n /\ \A i \in 1 .. n - 1 : rest[i] = job.todo[i + 1] /\ i + 1 \in 1 .. n
      <4>1. /\ n \in Nat /\ r = job.todo[1] /\ DOMAIN job.todo = 1 .. n /\ DOMAIN rest = 1 .. n - 1
            /\ \A i \in 1 .. n - 1 : rest[i] = job.todo[i + 1]
        BY <1>2, TailValues DEF r, rest
      <4>2. n # 0
        BY <1>2, EmptySeq
      <4> QED
        BY <4>1, <4>2
    <3> HIDE DEF n
    <3>4. \A i \in DOMAIN K : r.id # K[i].id
      BY <3>2, <3>3 DEF Apart
    <3>5. \A i \in DOMAIN rest : rest[i].id # r.id
      <4>1. TAKE i \in DOMAIN rest
      <4>2. i + 1 \in DOMAIN job.todo /\ 1 \in DOMAIN job.todo /\ i + 1 # 1 /\ rest[i] = job.todo[i + 1]
        BY <3>3
      <4> QED
        BY <3>2, <3>3, <4>2 DEF Once
    <3>6. Once(rest)
      <4>1. \A i, j \in DOMAIN rest : rest[i].id = rest[j].id => i + 1 = j + 1
        <5>1. TAKE i, j \in DOMAIN rest
        <5>2. i + 1 \in DOMAIN job.todo /\ j + 1 \in DOMAIN job.todo
              /\ rest[i] = job.todo[i + 1] /\ rest[j] = job.todo[j + 1]
          BY <3>3
        <5> QED
          BY <3>2, <5>2 DEF Once
      <4>2. \A i, j \in DOMAIN rest : i + 1 = j + 1 => i = j
        BY <3>3
      <4> QED
        BY <4>1, <4>2 DEF Once
    <3>7. \A i \in DOMAIN rest, j \in DOMAIN K : rest[i].id # K[j].id
      <4>1. TAKE i \in DOMAIN rest, j \in DOMAIN K
      <4>2. i + 1 \in DOMAIN job.todo /\ rest[i] = job.todo[i + 1]
        BY <3>3
      <4> QED
        BY <3>2, <4>2 DEF Apart
    <3>8. CASE r \in LoadableRecord
      <4>1. K2 = Append(K, r)
        BY <2>4, <3>8
      <4>2. Once(K) => Once(K2)
        BY <2>4, <3>4, <3>8, <4>1, OnceAppend DEF Ids
      <4>3. \A j \in DOMAIN K2 : (j \in DOMAIN K /\ K2[j] = K[j]) \/ K2[j] = r
        <5>1. /\ Len(K) \in Nat /\ DOMAIN K = 1 .. Len(K)
              /\ K2 \in Seq(LoadableRecord) /\ Len(K2) = Len(K) + 1
              /\ K2[Len(K) + 1] = r /\ \A i \in 1 .. Len(K) : K2[i] = K[i]
          BY <2>4, <3>8, <4>1, LenProperties, AppendProperties
        <5>2. DOMAIN K2 = 1 .. Len(K) + 1
          BY <5>1, LenProperties
        <5> QED
          BY <5>1, <5>2
      <4>4. Apart(rest, K2)
        BY <3>5, <3>7, <4>3 DEF Apart
      <4> QED
        BY <3>6, <4>2, <4>4
    <3>9. CASE r \notin LoadableRecord
      BY <2>4, <3>6, <3>7, <3>9 DEF Apart
    <3> QED
      BY <3>8, <3>9
  <2>11. ~ cut => (Once(Listed(file)) => Once(Listed(file')))
    BY <2>5, <2>6, <2>7, <2>10
  <2>12. StoreAdds
    BY <1>1, <1>3, <1>10, <2>9, <2>11 DEF StoreAdds, Stored, InWindow, Rewriting
  <2>13. ASSUME ~ cut'
         PROVE  AppendingUncut'
    <3>1. AppendingUncut
      BY <1>1, <1>3, <2>13
    <3>2. job.at = Len(recs) + 1 /\ file'.recs = Append(recs, r) /\ Len(file'.recs) = Len(recs) + 1
          /\ Values(file'.recs) = Values(recs) \cup {r}
      <4>1. job.at = Len(recs) + 1
        BY <3>1 DEF AppendingUncut, recs
      <4>2. file'.recs = Append(recs, r)
        BY <1>6, <4>1
      <4>3. Len(Append(recs, r)) = Len(recs) + 1
        BY <1>4, <1>5, AppendProperties
      <4>4. Values(Append(recs, r)) = Values(recs) \cup {r}
        BY <1>4, <1>5, AppendValues
      <4> QED
        BY <4>1, <4>2, <4>3, <4>4
    <3>3. Len(file'.recs) + Len(rest) <= job.cnt + Len(job.all)
      <4>1. Len(recs) + Len(job.todo) <= job.cnt + Len(job.all)
        BY <3>1 DEF AppendingUncut, recs
      <4>2. Len(job.all) \in Nat
        BY <1>2, LenProperties
      <4>3. \A a, b, c, d, e, f \in Nat : a + b <= c + d /\ e = a + 1 /\ f = b - 1 => e + f <= c + d
        OBVIOUS
      <4>4. Len(file'.recs) \in Nat /\ Len(rest) \in Nat
        BY <1>5, <1>6, LenProperties
      <4> QED
        BY <1>2, <1>4, <1>5, <3>2, <4>1, <4>2, <4>3, <4>4
    <3>4. Values(job.all) \subseteq Values(rest) \cup Values(file'.recs)
      BY <1>5, <3>1, <3>2 DEF AppendingUncut, recs
    <3>5. Once(Listed(file')) => Once(K2)
      <4>1. Once(Listed(file)) => Once(K)
        BY <3>1 DEF AppendingUncut, K, recs
      <4>2. Once(Listed(file')) => Once(Listed(file))
        BY <1>1, <1>7, <2>9, ListedSeq, OnceBegins
      <4> QED
        BY <1>3, <2>10, <2>13, <4>1, <4>2
    <3>6. Kept(file'.recs) = K2
      BY <3>2 DEF K2
    <3> QED
      BY <1>3, <2>1, <2>10, <2>13, <3>2, <3>3, <3>4, <3>5, <3>6 DEF AppendingUncut
  <2>14. DiskInv'
    BY <1>1, <1>3, <1>8, <1>9, <2>3, <2>13 DEF DiskInv, Rewriting
  <2> QED
    BY <1>11, <2>12, <2>14 DEF StoreStep
<1> QED
  BY <1>12, <1>13

\* The new count covers what the old one covered, and more.
LEMMA AppendCountStep ==
  ASSUME FileInv, NEW reload \in BOOLEAN, AppendCount(reload)
  PROVE  /\ DiskInv' /\ WindowInv' /\ StoreStep
         /\ ~ cut => /\ Values(Listed(file)) \subseteq Values(Listed(file'))
                     /\ Values(job.all) \cap LoadableRecord \subseteq Values(Listed(file'))
<1>1. /\ job.op = "append" /\ job.todo = << >> /\ Appending /\ FileShape /\ file \in File
      /\ shown \in Seq(LoadableRecord) /\ DataOK /\ window = "closed" /\ job \in Job
      /\ Edited = << >> /\ (~ cut => AppendingUncut)
  BY DEF FileInv, DiskInv, WindowInv, AppendCount, FileShape, Appending
<1>2. job.all \in Seq(Record) /\ job.cnt \in Nat /\ Len(job.all) \in Nat /\ file.there
  <2>1. job.all \in Seq(Record) /\ job.cnt \in Nat
    BY <1>1 DEF Job
  <2> QED
    BY <1>1, <2>1, LenProperties DEF Appending
<1> DEFINE n == job.cnt + Len(job.all)
<1>3. /\ file' = [file EXCEPT !.count = n, !.empty = FALSE]
      /\ shown' = IF reload THEN ListedVisible(file') ELSE shown
      /\ job' = Idle /\ UNCHANGED << vars, data, window, cut >>
  BY DEF AppendCount
<1>4. n \in Nat /\ job.cnt <= n
  BY <1>2
<1> HIDE DEF n
<1>5. /\ file' \in File /\ file'.recs = file.recs /\ file'.shifted = file.shifted
      /\ file'.count = n /\ file'.empty = FALSE /\ file'.there
  BY <1>1, <1>2, <1>3, <1>4 DEF File
<1>6. file.recs \in Seq(Record) /\ Len(file.recs) \in Nat
  BY <1>1, FileFields
<1>7. DataOK' /\ Edited' = Edited
  BY <1>1, <1>3, EditedStays
<1>8. WindowInv'
  BY <1>1, <1>3, <1>7, IdleJob DEF WindowInv
<1>9. Listed(file) \in Seq(LoadableRecord) /\ Listed(file') \in Seq(LoadableRecord)
      /\ ListedVisible(file') \in Seq(LoadableRecord)
      /\ Len(Listed(file)) \in Nat /\ Len(Listed(file')) \in Nat
  BY <1>1, <1>5, ListedSeq, LenProperties
<1>10. Begins(Listed(file), Listed(file'))
  <2>1. CASE file.shifted \/ file.empty
    <3>1. Listed(file) = << >>
      BY <2>1, ListedIsKept
    <3>2. Len(Listed(file)) = 0
      BY <3>1, EmptySeq
    <3> QED
      BY <1>9, <3>2 DEF Begins
  <2>2. CASE ~ file.shifted /\ ~ file.empty
    <3>1. file.count = job.cnt
      BY <1>1, <2>2 DEF Appending
    <3>2. Listed(file) = Kept(FirstOf(file.recs, job.cnt)) /\ Listed(file') = Kept(FirstOf(file.recs, n))
      BY <1>5, <2>2, <3>1, ListedIsKept
    <3>3. Begins(Kept(FirstOf(file.recs, job.cnt)), Kept(FirstOf(file.recs, n)))
      BY <1>2, <1>4, <1>6, SelectedGrows DEF Kept
    <3> QED
      BY <3>2, <3>3
  <2> QED
    BY <2>1, <2>2
<1>11. ASSUME ~ cut
       PROVE  /\ UncutFile' /\ Listed(file') = Kept(file.recs)
              /\ Once(Listed(file)) => Once(Listed(file'))
              /\ Values(job.all) \subseteq Values(file.recs)
  <2>1. AppendingUncut
    BY <1>1, <1>11
  <2>2. Len(file.recs) <= n
    <3>1. Len(job.todo) = 0
      BY <1>1, EmptySeq
    <3> QED
      BY <1>6, <2>1, <3>1 DEF AppendingUncut, n
  <2>3. Values(job.todo) = {}
    <3>1. DOMAIN job.todo = 1 .. 0
      BY <1>1, EmptySeq, LenProperties
    <3>2. \A i \in 1 .. 0 : FALSE
      OBVIOUS
    <3> QED
      BY <3>1, <3>2 DEF Values
  <2>4. UncutFile'
    BY <1>5, <2>1, <2>2 DEF UncutFile, AppendingUncut
  <2>5. Listed(file') = Kept(file.recs)
    BY <1>5, <2>1, <2>2, ListedAll DEF AppendingUncut
  <2> QED
    BY <2>1, <2>3, <2>4, <2>5 DEF AppendingUncut
<1>12. FileShape'
  BY <1>5 DEF FileShape
<1>13. shown' \in Seq(LoadableRecord)
  BY <1>1, <1>3, <1>9
<1>14. DiskInv'
  BY <1>3, <1>11, <1>12, <1>13, IdleJob DEF DiskInv, Rewriting
<1>15. shown' \in {shown, Visible(Listed(file'))}
  BY <1>3 DEF ListedVisible
<1>16. StoreAdds
  BY <1>1, <1>3, <1>7, <1>10, <1>11, <1>15, IdleJob DEF StoreAdds, Stored, InWindow, Rewriting
<1>17. ASSUME ~ cut
       PROVE  /\ Values(Listed(file)) \subseteq Values(Listed(file'))
              /\ Values(job.all) \cap LoadableRecord \subseteq Values(Listed(file'))
  <2>1. Values(Kept(file.recs)) = Values(file.recs) \cap LoadableRecord
    BY <1>6, SelectedValues DEF Kept
  <2> QED
    BY <1>9, <1>10, <1>11, <1>17, <2>1, BeginsValues
<1> QED
  BY <1>8, <1>14, <1>16, <1>17 DEF StoreStep

\* The end of an automatic scan reads the viewer's list again.
LEMMA ScanEndStep ==
  ASSUME FileInv, ScanEnd
  PROVE  DiskInv' /\ WindowInv' /\ StoreStep
<1>1. /\ job.op = "idle" /\ file \in File /\ DataOK /\ DiskInv /\ WindowInv
      /\ shown' = ListedVisible(file) /\ UNCHANGED << vars, file, data, window, job, cut >>
  BY DEF FileInv, DiskInv, WindowInv, ScanEnd, FileShape
<1>2. DataOK' /\ Edited' = Edited
  BY <1>1, EditedStays
<1>3. shown' \in Seq(LoadableRecord)
  BY <1>1, ListedSeq
<1>4. DiskInv'
  BY <1>1, <1>3 DEF DiskInv, FileShape, Rewriting, UncutFile
<1>5. WindowInv'
  BY <1>1, <1>2 DEF WindowInv
<1>6. StoreReloads
  BY <1>1, <1>2 DEF StoreReloads, Stored, InWindow, Rewriting, ListedVisible
<1> QED
  BY <1>4, <1>5, <1>6 DEF StoreStep

\* A save that could not open the file leaves everything but the end of the scan.
LEMMA SaveScanRefusedStep ==
  ASSUME FileInv, NEW automatic \in BOOLEAN, SaveScanRefused(automatic)
  PROVE  DiskInv' /\ WindowInv' /\ StoreStep
<1>1. /\ UNCHANGED << vars, file, data, shown, window, job, cut >> /\ DataOK
      /\ DiskInv /\ WindowInv /\ job.op = "idle"
  BY DEF FileInv, WindowInv, SaveScanRefused
<1>2. DataOK' /\ Edited' = Edited
  BY <1>1, EditedStays
<1>3. DiskInv'
  BY <1>1 DEF DiskInv, FileShape, Rewriting, UncutFile
<1>4. WindowInv'
  BY <1>1, <1>2 DEF WindowInv
<1>5. StoreStays
  BY <1>1, <1>2 DEF StoreStays, Stored, InWindow, Rewriting
<1> QED
  BY <1>3, <1>4, <1>5 DEF StoreStep

-----------------------------------------------------------------------------
(* Rewriting the file *)

\* remove() leaves no file, and the list to write in memory.
LEMMA RewriteStarts ==
  ASSUME NEW list \in Seq(LoadableRecord), NEW reload \in BOOLEAN, Rewrite(list, reload),
         shown \in Seq(LoadableRecord), UNCHANGED << shown, cut >>
  PROVE  DiskInv' /\ job'.op = "create" /\ Stored' = list
<1>1. list \in Seq(Record)
  BY LoadableRecords, SeqMonotonic
<1>2. /\ job'.op = "create" /\ job'.todo = list /\ job'.all = list /\ file' = NoFile
  BY DEF Rewrite, Idle
<1>3. job' \in Job
  <2>1. "create" \in Working
    BY DEF Working
  <2> QED
    BY <1>1, <2>1, IdleJob, JobSet DEF Rewrite
<1>4. FileShape'
  BY <1>2, NoFiles DEF FileShape
<1>5. RewritingPart'
  BY <1>2 DEF RewritingPart
<1>6. DiskInv'
  BY <1>2, <1>3, <1>4, <1>5 DEF DiskInv, Rewriting
<1> QED
  BY <1>2, <1>6 DEF Stored, Rewriting

\* The steps of a rewrite do not change what is stored.
LEMMA RewriteCreateStep ==
  ASSUME FileInv, RewriteCreate
  PROVE  DiskInv' /\ WindowInv' /\ StoreStep
<1>1. /\ job.op = "create" /\ job \in Job /\ DataOK /\ RewritingPart /\ WindowInv
      /\ shown \in Seq(LoadableRecord)
  BY DEF FileInv, DiskInv, WindowInv, RewriteCreate, Rewriting
<1>2. /\ file' = EmptyFile /\ job' = [job EXCEPT !.op = "count"]
      /\ UNCHANGED << vars, data, shown, window, cut >>
  BY DEF RewriteCreate
<1>3. job'.op = "count" /\ job'.todo = job.todo /\ job'.all = job.all
  BY <1>1, <1>2 DEF Job
<1>4. job' \in Job
  <2>1. "count" \in Working
    BY DEF Working
  <2> QED
    BY <1>1, <1>2, <2>1, JobSet
<1>5. DataOK' /\ Edited' = Edited
  BY <1>1, <1>2, EditedStays
<1>6. DiskInv'
  BY <1>1, <1>2, <1>3, <1>4, NoFiles DEF DiskInv, FileShape, RewritingPart, Rewriting
<1>7. WindowInv'
  BY <1>1, <1>2, <1>3, <1>5 DEF WindowInv
<1>8. StoreStays
  BY <1>1, <1>2, <1>3, <1>5 DEF StoreStays, Stored, InWindow, Rewriting
<1> QED
  BY <1>6, <1>7, <1>8 DEF StoreStep

\* The count announces all the records.
LEMMA RewriteCountStep ==
  ASSUME FileInv, RewriteCount
  PROVE  DiskInv' /\ WindowInv' /\ StoreStep
<1>1. /\ job.op = "count" /\ job \in Job /\ DataOK /\ RewritingPart /\ WindowInv
      /\ shown \in Seq(LoadableRecord)
  BY DEF FileInv, DiskInv, WindowInv, RewriteCount, Rewriting
<1>2. /\ file' = [NewFile EXCEPT !.count = Len(job.all)] /\ job' = [job EXCEPT !.op = "records"]
      /\ UNCHANGED << vars, data, shown, window, cut >>
  BY DEF RewriteCount
<1>3. job'.op = "records" /\ job'.todo = job.todo /\ job'.all = job.all
  BY <1>1, <1>2 DEF Job
<1>4. job' \in Job
  <2>1. "records" \in Working
    BY DEF Working
  <2> QED
    BY <1>1, <1>2, <2>1, JobSet
<1>5. Len(job.all) \in Nat /\ job.all \in Seq(LoadableRecord) /\ job.todo = job.all
  BY <1>1, LenProperties DEF RewritingPart
<1>6. /\ file' \in File /\ file'.there /\ ~ file'.empty /\ ~ file'.shifted
      /\ file'.count = Len(job.all) /\ file'.recs = << >>
  BY <1>2, <1>5, NoFiles DEF File
<1>7. DataOK' /\ Edited' = Edited
  BY <1>1, <1>2, EditedStays
<1>8. RewritingPart'
  <2>1. Len(file'.recs) = 0
    BY <1>6, EmptySeq
  <2>2. \A i \in 1 .. 0 : FALSE
    OBVIOUS
  <2>3. 0 + Len(job.all) = Len(job.all) /\ \A i \in 1 .. Len(job.all) : 0 + i = i
    BY <1>5
  <2> QED
    BY <1>3, <1>5, <1>6, <2>1, <2>2, <2>3 DEF RewritingPart
<1>9. DiskInv'
  BY <1>1, <1>2, <1>3, <1>4, <1>6, <1>8 DEF DiskInv, FileShape, Rewriting
<1>10. WindowInv'
  BY <1>1, <1>2, <1>3, <1>7 DEF WindowInv
<1>11. StoreStays
  BY <1>1, <1>2, <1>3, <1>7 DEF StoreStays, Stored, InWindow, Rewriting
<1> QED
  BY <1>9, <1>10, <1>11 DEF StoreStep

\* One record more of the list is in the file.
LEMMA RewriteRecordStep ==
  ASSUME FileInv, RewriteRecord
  PROVE  DiskInv' /\ WindowInv' /\ StoreStep
<1> DEFINE r == Head(job.todo)
           rest == Tail(job.todo)
<1>1. /\ job.op = "records" /\ job \in Job /\ DataOK /\ RewritingPart /\ WindowInv
      /\ shown \in Seq(LoadableRecord) /\ file \in File /\ job.todo # << >>
  BY DEF FileInv, DiskInv, WindowInv, RewriteRecord, Rewriting, FileShape
<1>2. /\ file' = [file EXCEPT !.recs = Append(@, r)] /\ job' = [job EXCEPT !.todo = rest]
      /\ UNCHANGED << vars, data, shown, window, cut >>
  BY DEF RewriteRecord
<1>3. /\ job.todo \in Seq(LoadableRecord) /\ job.all \in Seq(LoadableRecord)
      /\ file.there /\ ~ file.empty /\ ~ file.shifted /\ file.count = Len(job.all)
      /\ Len(file.recs) + Len(job.todo) = Len(job.all)
      /\ \A i \in 1 .. Len(file.recs) : file.recs[i] = job.all[i]
      /\ \A i \in 1 .. Len(job.todo) : job.todo[i] = job.all[Len(file.recs) + i]
  BY <1>1 DEF RewritingPart
<1>4. /\ rest \in Seq(LoadableRecord) /\ r \in LoadableRecord /\ r = job.todo[1]
      /\ Len(job.todo) \in Nat \ {0} /\ Len(rest) = Len(job.todo) - 1
      /\ \A i \in 1 .. Len(job.todo) - 1 : rest[i] = job.todo[i + 1]
  BY <1>1, <1>3, TailValues, EmptySeq
<1>5. r \in Record /\ rest \in Seq(Record) /\ file.recs \in Seq(Record) /\ Len(file.recs) \in Nat
      /\ Len(job.all) \in Nat
  BY <1>1, <1>3, <1>4, LoadableRecords, SeqMonotonic, FileFields, LenProperties
<1> HIDE DEF r, rest
<1> DEFINE L == Len(file.recs)
           a == Append(file.recs, r)
<1>6. a \in Seq(Record) /\ Len(a) = L + 1 /\ a[L + 1] = r /\ \A i \in 1 .. L : a[i] = file.recs[i]
  BY <1>5, AppendProperties
<1> HIDE DEF a
<1>7. job'.op = "records" /\ job'.todo = rest /\ job'.all = job.all
  BY <1>1, <1>2 DEF Job
<1>8. job' \in Job
  BY <1>1, <1>2, <1>5, JobSet
<1>9. /\ file' \in File /\ file'.recs = a /\ file'.count = file.count
      /\ file'.there /\ ~ file'.empty /\ ~ file'.shifted
  BY <1>1, <1>2, <1>3, <1>6 DEF File, a
<1>10. DataOK' /\ Edited' = Edited
  BY <1>1, <1>2, EditedStays
<1>11. RewritingPart'
  <2>1. Len(a) + Len(rest) = Len(job.all)
    <3> DEFINE A == Len(a)
               Q == Len(rest)
               T == Len(job.todo)
               N == Len(job.all)
    <3>1. A = L + 1 /\ Q = T - 1 /\ L + T = N
      BY <1>3, <1>4, <1>6
    <3>2. L \in Nat /\ T \in Nat
      BY <1>4, <1>5
    <3> HIDE DEF A, Q, T, N, L
    <3>3. A + Q = N
      BY <3>1, <3>2
    <3> QED
      BY <3>3 DEF A, Q, N
  <2>2. ASSUME NEW i \in 1 .. Len(a)
        PROVE  a[i] = job.all[i]
    <3>1. CASE i = L + 1
      <4>1. 1 \in 1 .. Len(job.todo)
        BY <1>4
      <4> QED
        BY <1>3, <1>4, <1>6, <3>1, <4>1
    <3>2. CASE i # L + 1
      <4>1. i \in 1 .. L
        BY <1>5, <1>6, <3>2
      <4> QED
        BY <1>3, <1>6, <4>1
    <3> QED
      BY <3>1, <3>2
  <2>3. ASSUME NEW i \in 1 .. Len(rest)
        PROVE  rest[i] = job.all[Len(a) + i]
    <3>1. i \in 1 .. Len(job.todo) - 1 /\ i + 1 \in 1 .. Len(job.todo) /\ L + (i + 1) = Len(a) + i
      <4> DEFINE A == Len(a)
                 Q == Len(rest)
                 T == Len(job.todo)
      <4>1. A = L + 1 /\ Q = T - 1 /\ L \in Nat /\ T \in Nat
        BY <1>4, <1>5, <1>6
      <4> HIDE DEF A, Q, T, L
      <4>2. i \in 1 .. Q
        BY DEF Q
      <4>3. i \in 1 .. T - 1 /\ i + 1 \in 1 .. T /\ L + (i + 1) = A + i
        BY <4>1, <4>2
      <4> QED
        BY <4>3 DEF A, T
    <3>2. job.todo[i + 1] = job.all[L + (i + 1)]
      BY <1>3, <3>1
    <3> QED
      BY <1>4, <3>1, <3>2
  <2>4. Len(file'.recs) + Len(job'.todo) = Len(job'.all)
    BY <1>7, <1>9, <2>1
  <2>5. \A i \in 1 .. Len(file'.recs) : file'.recs[i] = job'.all[i]
    BY <1>7, <1>9, <2>2
  <2>6. \A i \in 1 .. Len(job'.todo) : job'.todo[i] = job'.all[Len(file'.recs) + i]
    BY <1>7, <1>9, <2>3
  <2>7. /\ job'.all \in Seq(LoadableRecord) /\ job'.todo \in Seq(LoadableRecord)
        /\ file'.there /\ ~ file'.empty /\ ~ file'.shifted /\ file'.count = Len(job'.all)
    BY <1>3, <1>4, <1>7, <1>9
  <2> QED
    BY <1>7, <2>4, <2>5, <2>6, <2>7 DEF RewritingPart
<1>12. DiskInv'
  BY <1>1, <1>2, <1>7, <1>8, <1>9, <1>11 DEF DiskInv, FileShape, Rewriting
<1>13. WindowInv'
  BY <1>1, <1>2, <1>7, <1>10 DEF WindowInv
<1>14. StoreStays
  BY <1>1, <1>2, <1>7, <1>10 DEF StoreStays, Stored, InWindow, Rewriting
<1> QED
  BY <1>12, <1>13, <1>14 DEF StoreStep

\* The records written so far are how the list begins.
LEMMA RewrittenBegins ==
  ASSUME FileInv, job.op = "records"
  PROVE  /\ Begins(Listed(file), job.all)
         /\ job.todo = << >> => Listed(file) = job.all
         /\ UncutFile
<1>1. /\ file \in File /\ job.todo \in Seq(LoadableRecord) /\ job.all \in Seq(LoadableRecord)
      /\ file.there /\ ~ file.empty /\ ~ file.shifted /\ file.count = Len(job.all)
      /\ Len(file.recs) + Len(job.todo) = Len(job.all)
      /\ \A i \in 1 .. Len(file.recs) : file.recs[i] = job.all[i]
  BY DEF FileInv, DiskInv, FileShape, RewritingPart, Rewriting
<1> DEFINE R == file.recs
<1>2. R \in Seq(Record) /\ Len(R) \in Nat /\ Len(job.all) \in Nat /\ Len(job.todo) \in Nat
  BY <1>1, FileFields, LenProperties
<1>3. Len(R) <= Len(job.all)
  <2>1. \A l, t, n \in Nat : l + t = n => l <= n
    OBVIOUS
  <2> QED
    BY <1>1, <1>2, <2>1
<1>4. R \in Seq(LoadableRecord)
  <2>1. \A i \in 1 .. Len(R) : R[i] \in LoadableRecord
    <3>1. TAKE i \in 1 .. Len(R)
    <3>2. i \in 1 .. Len(job.all)
      BY <1>2, <1>3
    <3>3. job.all[i] \in LoadableRecord
      BY <1>1, <3>2, ElementOfSeq
    <3> QED
      BY <1>1, <3>3
  <2>2. R = [i \in 1 .. Len(R) |-> R[i]]
    BY <1>2, LenProperties
  <2> HIDE DEF R
  <2>3. R \in [1 .. Len(R) -> LoadableRecord]
    BY <2>1, <2>2
  <2> QED
    BY <1>2, <2>3, SeqDef
<1>5. Listed(file) = R
  <2>1. Listed(file) = Kept(R)
    BY <1>1, <1>3, ListedAll
  <2> QED
    BY <1>4, <2>1, SelectedWhole DEF Kept
<1>6. Begins(R, job.all)
  BY <1>1, <1>3 DEF Begins
<1>7. ASSUME job.todo = << >>
      PROVE  R = job.all
  <2>1. Len(R) = Len(job.all)
    <3>1. Len(job.todo) = 0
      BY <1>7, EmptySeq
    <3> QED
      BY <1>1, <1>2, <3>1
  <2> QED
    BY <1>1, <1>4, <2>1, SeqEqual
<1> QED
  BY <1>1, <1>3, <1>5, <1>6, <1>7 DEF UncutFile

\* When no record is left to write, the file lists what was stored.
LEMMA RewriteEndStep ==
  ASSUME FileInv, RewriteEnd
  PROVE  DiskInv' /\ WindowInv' /\ StoreStep
<1>1. /\ job.op = "records" /\ job \in Job /\ DataOK /\ WindowInv /\ FileShape
      /\ shown \in Seq(LoadableRecord) /\ file \in File /\ job.todo = << >>
  BY DEF FileInv, DiskInv, WindowInv, RewriteEnd, FileShape
<1>2. /\ job' = Idle /\ UNCHANGED << vars, file, data, window, cut >>
      /\ shown' = IF job.reload THEN ListedVisible(file) ELSE shown
  BY DEF RewriteEnd
<1>3. Listed(file) = job.all /\ UncutFile
  BY <1>1, RewrittenBegins
<1>4. DataOK' /\ Edited' = Edited
  BY <1>1, <1>2, EditedStays
<1>5. shown' \in Seq(LoadableRecord)
  BY <1>1, <1>2, ListedSeq
<1>6. DiskInv'
  BY <1>1, <1>2, <1>3, <1>5, IdleJob DEF DiskInv, FileShape, Rewriting, UncutFile
<1>7. WindowInv'
  BY <1>1, <1>2, <1>4, IdleJob DEF WindowInv
<1>8. Stored = job.all /\ Stored' = job.all /\ InWindow' = InWindow
  BY <1>1, <1>2, <1>3, <1>4, IdleJob DEF Stored, InWindow, Rewriting
<1>9. StoreReloads \/ StoreStays
  BY <1>2, <1>3, <1>8 DEF StoreReloads, StoreStays, ListedVisible
<1> QED
  BY <1>6, <1>7, <1>9 DEF StoreStep

\* A rewrite whose file cannot be created: the old one is gone already.
LEMMA RewriteRefusedStep ==
  ASSUME FileInv, RewriteRefused
  PROVE  DiskInv' /\ WindowInv' /\ StoreStep
<1>1. /\ job.op = "create" /\ DataOK /\ WindowInv /\ FileShape
      /\ shown \in Seq(LoadableRecord) /\ file = NoFile
  BY DEF FileInv, DiskInv, WindowInv, RewriteRefused, Rewriting, RewritingPart
<1>2. /\ job' = Idle /\ UNCHANGED << vars, file, data, window, cut >>
      /\ shown' = IF job.reload THEN ListedVisible(file) ELSE shown
  BY DEF RewriteRefused
<1>3. file \in File /\ Listed(file) = << >> /\ UncutFile
  BY <1>1, NoFiles, ListedNothing DEF UncutFile
<1>4. DataOK' /\ Edited' = Edited
  BY <1>1, <1>2, EditedStays
<1>5. shown' \in Seq(LoadableRecord)
  BY <1>1, <1>2, <1>3, ListedSeq
<1>6. DiskInv'
  BY <1>1, <1>2, <1>3, <1>5, IdleJob DEF DiskInv, FileShape, Rewriting, UncutFile
<1>7. WindowInv'
  BY <1>1, <1>2, <1>4, IdleJob DEF WindowInv
<1>8. Stored' = Listed(file) /\ InWindow' = InWindow
  BY <1>1, <1>2, <1>4, IdleJob DEF Stored, InWindow, Rewriting
<1>9. StoreRefused
  BY <1>2, <1>3, <1>8 DEF StoreRefused, ListedVisible
<1> QED
  BY <1>6, <1>7, <1>9 DEF StoreStep

\* A selection that found other PIDs stores the viewer's list.
LEMMA SelectUpdatesPidsStep ==
  ASSUME FileInv, SelectUpdatesPids
  PROVE  DiskInv' /\ WindowInv' /\ StoreStep
<1>1. /\ job.op = "idle" /\ DataOK /\ WindowInv /\ shown \in Seq(LoadableRecord)
      /\ Rewrite(shown, TRUE) /\ UNCHANGED << vars, data, shown, window, cut >>
  BY DEF FileInv, DiskInv, WindowInv, SelectUpdatesPids
<1>2. DataOK' /\ Edited' = Edited
  BY <1>1, EditedStays
<1>3. DiskInv' /\ job'.op = "create" /\ Stored' = shown
  BY <1>1, RewriteStarts
<1>4. WindowInv'
  BY <1>1, <1>2, <1>3 DEF WindowInv
<1>5. StoreWritesShown
  BY <1>1, <1>2, <1>3 DEF StoreWritesShown, InWindow
<1> QED
  BY <1>3, <1>4, <1>5 DEF StoreStep

-----------------------------------------------------------------------------
(* The window *)

\* Nothing is in the window's list before the first record is read.
LEMMA WindowOpenStep ==
  ASSUME FileInv, WindowOpen
  PROVE  DiskInv' /\ WindowInv' /\ StoreStep
<1>1. /\ job.op = "idle" /\ window = "closed" /\ Edited = << >> /\ DataOK /\ DiskInv
      /\ file \in File /\ file.count > 0
      /\ UNCHANGED << vars, file, data, shown, window, cut >>
      /\ job' = [Idle EXCEPT !.op = "load", !.at = 1]
  BY DEF FileInv, DiskInv, WindowInv, WindowOpen, FileShape
<1>2. job'.op = "load" /\ job'.at = 1
  BY <1>1 DEF Idle
<1>3. job' \in Job
  <2>1. "load" \in Working /\ 1 \in Nat
    BY DEF Working
  <2> QED
    BY <1>1, <2>1, IdleJob, JobSet
<1>4. DataOK' /\ Edited' = Edited
  BY <1>1, EditedStays
<1>5. DiskInv'
  BY <1>1, <1>2, <1>3 DEF DiskInv, FileShape, Rewriting, UncutFile
<1>6. Loading'
  <2>1. Kept(FirstOf(file.recs, 0)) = << >>
    <3>1. FirstOf(file.recs, 0) = << >>
      BY <1>1, FileFields, FirstOfNone
    <3> QED
      BY <3>1, SelectedEmpty DEF Kept
  <2>2. 1 \in 1 .. file.count + 1 /\ 1 - 1 = 0
    BY <1>1, FileFields
  <2>3. Kept(FirstOf(file'.recs, job'.at - 1)) = << >>
    BY <1>1, <1>2, <2>1, <2>2
  <2> QED
    BY <1>1, <1>2, <1>4, <2>2, <2>3 DEF Loading
<1>7. WindowInv'
  BY <1>1, <1>2, <1>4, <1>6 DEF WindowInv
<1>8. StoreStays
  BY <1>1, <1>2 DEF StoreStays, Stored, InWindow, Rewriting
<1> QED
  BY <1>5, <1>7, <1>8 DEF StoreStep

\* A record that is read is put behind those read before, or dropped.
LEMMA LoadRecordStep ==
  ASSUME FileInv, LoadRecord
  PROVE  DiskInv' /\ WindowInv' /\ StoreStep
<1> DEFINE k == job.at
           recs == file.recs
           put == ~ file.shifted /\ k <= Len(recs) /\ recs[k].id \in Loadable
<1>1. /\ job.op = "load" /\ job \in Job /\ Loading /\ window = "closed" /\ DataOK /\ DiskInv
      /\ file \in File /\ ListInv /\ k <= file.count
      /\ UNCHANGED << file, shown, window, cut >> /\ job' = [job EXCEPT !.at = k + 1]
  BY DEF FileInv, DiskInv, WindowInv, LoadRecord, FileShape, Loading
<1>2. recs \in Seq(Record) /\ Len(recs) \in Nat /\ file.count \in Nat
  BY <1>1, FileFields
<1>3. k \in 1 .. file.count /\ k \in Nat /\ k - 1 \in Nat /\ k + 1 \in 1 .. file.count + 1
      /\ (k + 1) - 1 = k /\ (k - 1) + 1 = k
  <2> HIDE DEF k
  <2>1. k \in 1 .. file.count + 1
    BY <1>1 DEF Loading, k
  <2> QED
    BY <1>1, <1>2, <2>1
<1>4. job'.op = "load" /\ job'.at = k + 1 /\ job' \in Job
  <2>1. k + 1 \in Nat
    BY <1>3
  <2>2. job' \in Job
    BY <1>1, <2>1, JobSet
  <2> QED
    BY <1>1, <2>2 DEF Job
<1> DEFINE K == Kept(FirstOf(recs, k - 1))
           K2 == Kept(FirstOf(recs, k))
<1>5. Edited = IF file.shifted THEN << >> ELSE K
  BY <1>1 DEF Loading
<1> HIDE DEF k, recs
<1>6. K2 = IF k <= Len(recs) /\ recs[k].id \in Loadable THEN Append(K, recs[k]) ELSE K
  <2>1. CASE k <= Len(recs)
    <3>1. k - 1 \in 0 .. Len(recs) - 1 /\ k \in 1 .. Len(recs)
      BY <1>2, <1>3, <2>1
    <3>2. FirstOf(recs, k) = Append(FirstOf(recs, k - 1), recs[k])
      BY <1>2, <1>3, <3>1, FirstOfNext
    <3>3. FirstOf(recs, k - 1) \in Seq(Record) /\ recs[k] \in Record
      BY <1>2, <1>3, <3>1, FirstOfAny, ElementOfSeq
    <3>4. recs[k] \in LoadableRecord <=> recs[k].id \in Loadable
      BY <3>3, LoadableRecords
    <3> QED
      BY <2>1, <3>2, <3>3, <3>4, KeptAppend
  <2>2. CASE ~ (k <= Len(recs))
    <3>1. Len(recs) <= k /\ Len(recs) <= k - 1
      BY <1>2, <1>3, <2>2
    <3> QED
      BY <1>2, <1>3, <2>2, <3>1, FirstOfAll
  <2> QED
    BY <2>1, <2>2
<1> HIDE DEF K, K2
<1>7. DataOK' /\ Edited' = IF put THEN Append(Edited, recs[k]) ELSE Edited
  <2>1. CASE put
    <3>1. k \in 1 .. Len(recs)
      BY <1>2, <1>3, <2>1
    <3>2. recs[k] \in LoadableRecord
      BY <1>2, <2>1, <3>1, ElementOfSeq, LoadableRecords
    <3> DEFINE n == Min(Nodes \ Live)
    <3>3. Live # Nodes /\ add_to_list(n) /\ data' = Linked(data, n, recs[k])
      BY <2>1 DEF LoadRecord, k, recs
    <3>4. n \in Nodes
      <4>1. DOMAIN next \subseteq Nodes
        BY <1>1 DEF ListInv, ListIs, IsChain
      <4> QED
        BY <3>3, <4>1, FreeAddress
    <3> HIDE DEF n, put
    <3> QED
      BY <1>1, <2>1, <3>2, <3>3, <3>4, EditedAdds
  <2>2. CASE ~ put
    <3>1. UNCHANGED << vars, data >>
      BY <2>2 DEF LoadRecord, k, recs
    <3> HIDE DEF put
    <3> QED
      BY <1>1, <2>2, <3>1, EditedStays
  <2> QED
    BY <2>1, <2>2
<1>8. Edited' = IF file.shifted THEN << >> ELSE K2
  BY <1>5, <1>6, <1>7
<1>9. Loading'
  <2>1. K2 = Kept(FirstOf(file'.recs, job'.at - 1))
    BY <1>1, <1>3, <1>4 DEF K2, recs
  <2> QED
    BY <1>1, <1>3, <1>4, <1>8, <2>1 DEF Loading
<1>10. DiskInv'
  BY <1>1, <1>4 DEF DiskInv, FileShape, Rewriting, UncutFile
<1>11. WindowInv'
  BY <1>1, <1>4, <1>7, <1>9 DEF WindowInv
<1>12. StoreStays
  BY <1>1, <1>4 DEF StoreStays, Stored, InWindow, Rewriting
<1> QED
  BY <1>10, <1>11, <1>12 DEF StoreStep

\* When the window is shown its list is that of the file.
LEMMA WindowShownStep ==
  ASSUME FileInv, WindowShown
  PROVE  DiskInv' /\ WindowInv' /\ StoreStep
<1>1. /\ job.op = "load" /\ Loading /\ window = "closed" /\ DataOK /\ DiskInv /\ FileShape
      /\ file \in File /\ job.at > file.count
      /\ window' = "open" /\ job' = Idle /\ UNCHANGED << vars, file, data, shown, cut >>
  BY DEF FileInv, DiskInv, WindowInv, WindowShown, FileShape, Loading
<1>2. DataOK' /\ Edited' = Edited
  BY <1>1, EditedStays
<1>3. file.count \in Nat /\ file.recs \in Seq(Record)
  BY <1>1, FileFields
<1>4. job.at - 1 = file.count
  <2>1. \A c, at \in Nat : at \in 1 .. c + 1 /\ at > c => at - 1 = c
    OBVIOUS
  <2>2. job.at \in 1 .. file.count + 1 /\ job.at \in Nat
    BY <1>1 DEF Loading
  <2> QED
    BY <1>1, <1>3, <2>1, <2>2
<1>5. Edited = Listed(file)
  <2>1. Edited = IF file.shifted THEN << >> ELSE Kept(FirstOf(file.recs, file.count))
    BY <1>1, <1>4 DEF Loading
  <2>2. CASE file.empty
    <3>1. ~ file.shifted /\ file.count = 0 /\ file.recs = << >>
      BY <1>1, <2>2 DEF FileShape
    <3>2. Kept(FirstOf(file.recs, file.count)) = << >>
      <4>1. FirstOf(file.recs, 0) = << >>
        BY <1>3, FirstOfNone
      <4> QED
        BY <3>1, <4>1, SelectedEmpty DEF Kept
    <3> QED
      BY <2>1, <2>2, <3>1, <3>2, ListedIsKept
  <2>3. CASE ~ file.empty
    BY <2>1, <2>3, ListedIsKept
  <2> QED
    BY <2>2, <2>3
<1>6. DiskInv'
  BY <1>1, IdleJob DEF DiskInv, FileShape, Rewriting, UncutFile
<1>7. WindowInv'
  BY <1>1, <1>2, IdleJob DEF WindowInv
<1>8. StoreOpens
  BY <1>1, <1>2, <1>5, IdleJob DEF StoreOpens, Stored, InWindow, Rewriting
<1> QED
  BY <1>6, <1>7, <1>8 DEF StoreStep

\* The window's list holds records a load accepts,
EditedIsSeq == ListInv /\ DataOK => Edited \in Seq(LoadableRecord)

\* after a step too.
LEMMA EditedSeqNext == EditedIsSeq'
<1>1. EditedIsSeq
  BY EditedSeq DEF EditedIsSeq
<1> QED
  BY <1>1, PTL

\* An edited list is a list of loaded records still.
LEMMA EditedStored ==
  ASSUME ListInv', DataOK', shown \in Seq(LoadableRecord), UNCHANGED << shown, window, cut >>,
         window = "open", Rewrite(Edited', FALSE), StoreEditOf(Edited, Edited')
  PROVE  DiskInv' /\ WindowInv' /\ StoreStep
<1>1. Edited' \in Seq(LoadableRecord)
  BY EditedSeqNext DEF EditedIsSeq
<1> DEFINE list == Edited'
<1>2. Rewrite(list, FALSE) /\ list \in Seq(LoadableRecord)
  BY <1>1
<1> HIDE DEF list
<1>3. DiskInv' /\ job'.op = "create" /\ Stored' = list
  BY <1>2, RewriteStarts
<1>4. WindowInv'
  BY <1>3 DEF WindowInv
<1>5. StoreEdits
  BY <1>3 DEF StoreEdits, InWindow, list
<1> QED
  BY <1>3, <1>4, <1>5 DEF StoreStep

\* A station moved, and the list stored.
LEMMA WindowMoveStep ==
  ASSUME FileInv, ListInv', NEW idx \in Nat, WindowMove(idx)
  PROVE  DiskInv' /\ WindowInv' /\ StoreStep
<1>1. /\ job.op = "idle" /\ window = "open" /\ DataOK /\ ListInv /\ shown \in Seq(LoadableRecord)
      /\ KeyDown(idx) \/ KeyUp(idx)
      /\ UNCHANGED << data, shown, window, cut >> /\ Rewrite(Edited', FALSE)
  BY DEF FileInv, DiskInv, WindowInv, WindowMove, Key
<1>2. DataOK' /\ \E i \in 1 .. Len(Edited) - 1 : Edited' = Exchanging(Edited, i)
  BY <1>1, EditedMoves
<1>3. StoreEditOf(Edited, Edited')
  BY <1>2 DEF StoreEditOf
<1> QED
  BY <1>1, <1>2, <1>3, EditedStored

\* A station hidden or shown, and the list stored.
LEMMA WindowEnableStep ==
  ASSUME FileInv, ListInv', NEW idx \in Nat, NEW b \in BOOLEAN, WindowEnable(idx, b)
  PROVE  DiskInv' /\ WindowInv' /\ StoreStep
<1>1. /\ job.op = "idle" /\ window = "open" /\ DataOK /\ ListInv /\ shown \in Seq(LoadableRecord)
      /\ idx < list_cnt /\ UNCHANGED vars
      /\ LET n == Path(list_head)[idx + 1] IN data' = [data EXCEPT ![n].visible = b]
      /\ UNCHANGED << shown, window, cut >> /\ Rewrite(Edited', FALSE)
  BY DEF FileInv, DiskInv, WindowInv, WindowEnable, Key
<1>2. DataOK' /\ \E i \in 1 .. Len(Edited) : Edited' = [Edited EXCEPT ![i].visible = b]
  BY <1>1, EditedHides
<1>3. StoreEditOf(Edited, Edited')
  <2>1. DOMAIN Edited = 1 .. Len(Edited)
    BY <1>1, EditedSeq
  <2> QED
    BY <1>2, <2>1 DEF StoreEditOf
<1> QED
  BY <1>1, <1>2, <1>3, EditedStored

\* A station removed, and the list stored or not.
LEMMA ServiceRemoveStep ==
  ASSUME FileInv, ListInv', NEW idx \in Nat, NEW b \in BOOLEAN, ServiceRemove(idx, b)
  PROVE  DiskInv' /\ WindowInv' /\ StoreStep
<1>1. /\ job.op = "idle" /\ window = "open" /\ DataOK /\ ListInv /\ shown \in Seq(LoadableRecord)
      /\ remove_nth_node(idx) /\ data' = [n \in Live' |-> data[n]] /\ DiskInv
      /\ UNCHANGED << shown, window, cut >>
      /\ IF b THEN Rewrite(Edited', FALSE) ELSE UNCHANGED << file, job >>
  BY DEF FileInv, DiskInv, WindowInv, ServiceRemove, Key
<1>2. DataOK' /\ \E i \in 1 .. Len(Edited) : Edited' = RemoveAt(Edited, i)
  BY <1>1, EditedRemoves
<1>3. StoreEditOf(Edited, Edited')
  <2>1. DOMAIN Edited = 1 .. Len(Edited)
    BY <1>1, EditedSeq
  <2> QED
    BY <1>2, <2>1 DEF StoreEditOf
<1>4. CASE b
  BY <1>1, <1>2, <1>3, <1>4, EditedStored
<1>5. CASE ~ b
  <2>1. DiskInv'
    BY <1>1, <1>5 DEF DiskInv, FileShape, Rewriting, UncutFile
  <2>2. WindowInv'
    BY <1>1, <1>2, <1>5 DEF WindowInv
  <2>3. StoreEdits
    BY <1>1, <1>3, <1>5 DEF StoreEdits, Stored, InWindow, Rewriting
  <2> QED
    BY <2>1, <2>2, <2>3 DEF StoreStep
<1> QED
  BY <1>4, <1>5

\* The window closed.
LEMMA WindowExitStep ==
  ASSUME FileInv, WindowExit
  PROVE  DiskInv' /\ WindowInv' /\ StoreStep
<1>1. /\ job.op = "idle" /\ window = "open" /\ DataOK /\ ListInv /\ DiskInv /\ file \in File
      /\ destroy_list /\ data' = [n \in Live' |-> data[n]] /\ window' = "closed"
      /\ shown' = ListedVisible(file) /\ UNCHANGED << file, job, cut >>
  BY DEF FileInv, DiskInv, WindowInv, WindowExit, Key, FileShape
<1>2. DataOK' /\ Edited' = << >>
  BY <1>1, EditedEmpties
<1>3. shown' \in Seq(LoadableRecord)
  BY <1>1, ListedSeq
<1>4. DiskInv'
  BY <1>1, <1>3 DEF DiskInv, FileShape, Rewriting, UncutFile
<1>5. WindowInv'
  BY <1>1, <1>2 DEF WindowInv
<1>6. StoreCloses
  BY <1>1 DEF StoreCloses, Stored, InWindow, Rewriting, ListedVisible
<1> QED
  BY <1>4, <1>5, <1>6 DEF StoreStep

-----------------------------------------------------------------------------
(* A crash *)

\* What was being written has begun to be written, or is not there at all.
LEMMA CrashRestartStep ==
  ASSUME FileInv, CrashRestart
  PROVE  DiskInv' /\ WindowInv' /\ StoreStep
<1>1. /\ job \in Job /\ DataOK /\ ListInv /\ DiskInv /\ FileShape /\ file \in File
      /\ shown' = ListedVisible(file) /\ window' = "closed" /\ job' = Idle
      /\ cut' = (cut \/ job.op = "append" \/ file.empty) /\ UNCHANGED file
  BY DEF FileInv, DiskInv, WindowInv, CrashRestart, FileShape
<1>2. DataOK' /\ Edited' = << >>
  BY <1>1, EditedAfterCrash
<1>3. Listed(file) \in Seq(LoadableRecord) /\ shown' \in Seq(LoadableRecord) /\ Len(Listed(file)) \in Nat
      /\ Stored \in Seq(LoadableRecord) /\ Len(Stored) \in Nat
  BY <1>1, ListedSeq, StoredSeq, LenProperties DEF StoredIsSeq
<1>4. Stored' = Listed(file)
  BY <1>1, IdleJob DEF Stored, Rewriting
<1>5. Begins(Listed(file), Stored) /\ (~ cut' => UncutFile)
  <2>1. CASE job.op \in {"create", "count"}
    <3>1. file = NoFile \/ (file = EmptyFile /\ cut')
      BY <1>1, <2>1, NoFiles DEF DiskInv, Rewriting, RewritingPart
    <3>2. /\ file.recs = << >> /\ Len(file.recs) = 0 /\ file.count = 0 /\ ~ file.shifted
          /\ ~ cut' => ~ file.empty
      BY <3>1, NoFiles, EmptySeq
    <3>3. Len(Listed(file)) = 0
      BY <1>1, <3>2, ListedNothing, EmptySeq
    <3>4. Begins(Listed(file), Stored)
      BY <1>3, <3>3 DEF Begins
    <3> QED
      BY <3>2, <3>4 DEF UncutFile
  <2>2. CASE job.op = "records"
    <3>1. Stored = job.all
      BY <2>2 DEF Stored, Rewriting
    <3> QED
      BY <2>2, <3>1, RewrittenBegins
  <2>3. CASE job.op \notin {"create", "count", "records"}
    <3>1. Stored = Listed(file)
      BY <2>3 DEF Stored, Rewriting
    <3>2. Begins(Listed(file), Stored)
      BY <1>3, <3>1 DEF Begins
    <3>3. job.op \in Working
      BY <1>1 DEF Job
    <3>4. ~ cut' => UncutFile
      BY <1>1, <2>3, <3>3 DEF DiskInv, Working
    <3> QED
      BY <3>2, <3>4
  <2> QED
    BY <2>1, <2>2, <2>3
<1>6. FileShape'
  BY <1>1 DEF FileShape
<1>7. DiskInv'
  BY <1>1, <1>3, <1>5, <1>6, IdleJob DEF DiskInv, Rewriting, UncutFile
<1>8. WindowInv'
  BY <1>1, <1>2, IdleJob DEF WindowInv
<1>9. StoreCrashes
  BY <1>1, <1>4, <1>5 DEF StoreCrashes, InWindow, ListedVisible
<1> QED
  BY <1>7, <1>8, <1>9 DEF StoreStep

-----------------------------------------------------------------------------
(* The theorems *)

\* A step that changes nothing.
LEMMA NothingHappens ==
  ASSUME FileInv, UNCHANGED allVars
  PROVE  DiskInv' /\ WindowInv' /\ StoreStep
<1>1. UNCHANGED << vars, file, data, shown, window, job, cut >>
  BY DEF allVars, fileVars
<1>2. DataOK' /\ Edited' = Edited
  BY <1>1, EditedStays DEF FileInv, WindowInv
<1>3. DiskInv'
  BY <1>1 DEF FileInv, DiskInv, FileShape, Appending, AppendingUncut, RewritingPart, Rewriting, UncutFile
<1>4. WindowInv'
  BY <1>1, <1>2 DEF FileInv, WindowInv, Loading
<1>5. StoreStays
  BY <1>1, <1>2 DEF StoreStays, Stored, InWindow, Rewriting
<1> QED
  BY <1>3, <1>4, <1>5 DEF StoreStep

\* Every step keeps the invariant, and is a step of the store or none.
LEMMA FileStep ==
  ASSUME FileInv, [FileNext]_allVars
  PROVE  FileInv' /\ StoreStep
<1>1. ListInv'
  BY FileStepOnList DEF FileInv, ListInv
<1>2. DiskInv' /\ WindowInv' /\ StoreStep
  <2>1. CASE UNCHANGED allVars
    BY <2>1, NothingHappens
  <2>2. CASE \E m \in Multiplexes : SaveScan(m)
    BY <2>2, SaveScanStep
  <2>3. CASE AppendRecord
    BY <2>3, AppendRecordStep
  <2>4. CASE \E b \in BOOLEAN : AppendCount(b) \/ SaveScanRefused(b)
    BY <2>4, AppendCountStep, SaveScanRefusedStep
  <2>5. CASE ScanEnd
    BY <2>5, ScanEndStep
  <2>6. CASE RewriteCreate
    BY <2>6, RewriteCreateStep
  <2>17. CASE RewriteRefused
    BY <2>17, RewriteRefusedStep
  <2>7. CASE RewriteCount
    BY <2>7, RewriteCountStep
  <2>8. CASE RewriteRecord
    BY <2>8, RewriteRecordStep
  <2>9. CASE RewriteEnd
    BY <2>9, RewriteEndStep
  <2>10. CASE SelectUpdatesPids
    BY <2>10, SelectUpdatesPidsStep
  <2>11. CASE WindowOpen
    BY <2>11, WindowOpenStep
  <2>12. CASE LoadRecord
    BY <2>12, LoadRecordStep
  <2>13. CASE WindowShown
    BY <2>13, WindowShownStep
  <2>14. CASE WindowExit
    BY <2>14, WindowExitStep
  <2>15. CASE CrashRestart
    BY <2>15, CrashRestartStep
  <2>16. ASSUME NEW idx \in 0 .. Cardinality(Nodes) - 1,
                \/ WindowMove(idx)
                \/ \E b \in BOOLEAN : WindowEnable(idx, b) \/ ServiceRemove(idx, b)
         PROVE  DiskInv' /\ WindowInv' /\ StoreStep
    <3>1. idx \in Nat
      OBVIOUS
    <3> QED
      BY <1>1, <2>16, <3>1, WindowMoveStep, WindowEnableStep, ServiceRemoveStep
  <2> QED
    BY <2>1, <2>2, <2>3, <2>4, <2>5, <2>6, <2>7, <2>8, <2>9, <2>10, <2>11, <2>12, <2>13, <2>14,
       <2>15, <2>16, <2>17 DEF FileNext
<1> QED
  BY <1>1, <1>2 DEF FileInv

\* The invariant holds always (service_management.cpp:46-601).
THEOREM FileKept == FileSpec => []FileInv
<1>1. FileInv /\ [FileNext]_allVars => FileInv'
  BY FileStep
<1> QED
  BY <1>1, FileInvInit, PTL DEF FileSpec

\* What DTV_Save_Scan has saved is there for the next load, and nothing that was
\* there before is pushed out, as long as no crash has cut an append, for any
\* file, stations and multiplexes (service_management.cpp:75-192, 240-336).
THEOREM SavedStaysListed == FileSpec => SavedIsListed
<1> DEFINE Listing ==
             job.op = "append" /\ job'.op = "idle" /\ ~ cut'
               => Ids(Listed(file)) \cup (Ids(job.all) \cap Loadable) \subseteq Ids(Listed(file'))
<1>1. FileInv /\ [FileNext]_allVars => Listing
  <2> SUFFICES ASSUME FileInv, [FileNext]_allVars, job.op = "append", job'.op = "idle", ~ cut'
               PROVE  Ids(Listed(file)) \cup (Ids(job.all) \cap Loadable) \subseteq Ids(Listed(file'))
    OBVIOUS
  <2>1. job \in Job
    BY DEF FileInv, DiskInv
  <2>2. ~ AppendRecord
    <3>1. AppendRecord => job' = [job EXCEPT !.todo = Tail(@), !.at = @ + 1]
      BY DEF AppendRecord
    <3>2. AppendRecord => job'.op = job.op
      BY <2>1, <3>1 DEF Job
    <3> QED
      BY <3>2
  <2>3. ~ UNCHANGED allVars /\ ~ CrashRestart
    BY DEF allVars, fileVars, CrashRestart
  <2>4. PICK reload \in BOOLEAN : AppendCount(reload)
    BY <2>2, <2>3 DEF FileNext, SaveScan, SaveScanRefused, ScanEnd, RewriteCreate, RewriteRefused, RewriteCount, RewriteRecord, RewriteEnd,
         SelectUpdatesPids, WindowOpen, LoadRecord, WindowShown, WindowExit, WindowMove, WindowEnable,
         ServiceRemove, Key
  <2>5. /\ Values(Listed(file)) \subseteq Values(Listed(file'))
        /\ Values(job.all) \cap LoadableRecord \subseteq Values(Listed(file'))
    <3>1. ~ cut
      BY <2>4 DEF AppendCount
    <3> QED
      BY <2>4, <3>1, AppendCountStep
  <2>6. Ids(Listed(file)) \subseteq Ids(Listed(file'))
    BY <2>5, IdsOfValues
  <2>7. Ids(job.all) \cap Loadable \subseteq Ids(Listed(file'))
    <3>1. ASSUME NEW r \in Values(job.all), r.id \in Loadable
          PROVE  r \in Values(Listed(file'))
      <4>1. job.all \in Seq(Record)
        BY <2>1 DEF Job
      <4>2. r \in Record
        BY <4>1, LenProperties, ElementOfSeq DEF Values
      <4> QED
        BY <2>5, <3>1, <4>2, LoadableRecords
    <3> QED
      BY <3>1, IdsOfValues
  <2> QED
    BY <2>6, <2>7
<1> QED
  BY <1>1, FileKept, PTL DEF FileSpec, SavedIsListed

\* The file, the viewer's list and the window implement the store of stations:
\* saves add and list nothing twice, an edit stores the edited list, a crash
\* costs at most the end of the list being written, however many records there
\* are and wherever the crash comes, and a rewrite that is refused costs the list
\* (service_management.cpp:46-601).
THEOREM FileImplementsStore == FileSpec => ImplementsStore
<1>1. FileInit => Store!Init
  <2> SUFFICES ASSUME FileInit
               PROVE  Store!Init
    OBVIOUS
  <2>1. ~ Rewriting /\ window = "closed" /\ shown = << >> /\ ~ cut /\ file = NoFile
    BY IdleJob DEF FileInit, Rewriting
  <2>2. Listed(file) = << >>
    BY <2>1, NoFiles, ListedNothing
  <2>3. cut = FALSE
    BY DEF FileInit
  <2> QED
    BY <2>1, <2>2, <2>3 DEF Store!Init
<1>2. FileInv /\ FileInv' /\ [FileNext]_allVars => [Store!Next]_(Store!vars)
  BY FileStep, StepOfStore
<1> QED
  BY <1>1, <1>2, FileKept, PTL DEF FileSpec, ImplementsStore, Store!Spec
=============================================================================
