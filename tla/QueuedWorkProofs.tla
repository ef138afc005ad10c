-------------------------- MODULE QueuedWorkProofs --------------------------
(***************************************************************************)
(* What one claim takes, for queues of any length and any limit.  The      *)
(* lemmas on numbers and on filtered sequences that the proofs about the   *)
(* machines need as well come first: induction is stated of a set, since a *)
(* statement about an operator could not be used.                          *)
(***************************************************************************)
EXTENDS QueuedWork, Filters, WellFoundedInduction, TLAPS

\* A set of numbers that is not empty has a least one.
LEMMA LeastNat ==
  ASSUME NEW T \in SUBSET Nat, T # {}
  PROVE  \E n \in T : \A m \in T : n <= m
<1> DEFINE R == OpToRel(<, Nat)
<1>1. IsWellFoundedOn(R, Nat)
  BY NatLessThanWellFounded
<1>2. \A i, j \in Nat : <<i, j>> \in R <=> i < j
  BY DEF OpToRel
<1> HIDE DEF R
<1>3. PICK n \in T : \A m \in T : ~(<<m, n>> \in R)
  BY <1>1, WFMin, Zenon
<1>4. \A m \in T : ~(m < n)
  BY <1>2, <1>3
<1> QED
  BY <1>3, <1>4

\* Induction: a set with 0 and with the successor of each of its numbers.
LEMMA NatInd ==
  ASSUME NEW T, 0 \in T, \A n \in Nat : n \in T => n + 1 \in T
  PROVE  Nat \subseteq T
<1> SUFFICES ASSUME Nat \ T # {} PROVE FALSE
  OBVIOUS
<1>1. PICK n \in Nat \ T : \A m \in Nat \ T : n <= m
  BY LeastNat
<1>2. n # 0 /\ n - 1 \in Nat
  BY <1>1
<1>3. n - 1 \in T
  BY <1>1, <1>2
<1> QED
  BY <1>1, <1>2, <1>3

\* Induction over the sequences of a set.
LEMMA SeqInd ==
  ASSUME NEW S, NEW T, <<>> \in T,
         \A s \in Seq(S), x \in S : s \in T => Append(s, x) \in T
  PROVE  Seq(S) \subseteq T
<1> DEFINE D == {n \in Nat : \A s \in Seq(S) : Len(s) = n => s \in T}
<1>1. 0 \in D
  OBVIOUS
<1>2. ASSUME NEW n \in Nat, n \in D PROVE n + 1 \in D
  <2> SUFFICES ASSUME NEW s \in Seq(S), Len(s) = n + 1 PROVE s \in T
    OBVIOUS
  <2> DEFINE front == SubSeq(s, 1, n)
  <2>1. front \in Seq(S) /\ Len(front) = n /\ s[n + 1] \in S
    OBVIOUS
  <2>2. s = Append(front, s[n + 1])
    OBVIOUS
  <2>3. front \in T
    BY <1>2, <2>1
  <2> HIDE DEF front
  <2> QED
    BY <2>1, <2>2, <2>3
<1>3. Nat \subseteq D
  <2> HIDE DEF D
  <2> QED
    BY <1>1, <1>2, NatInd
<1> QED
  BY <1>3

-----------------------------------------------------------------------------
(* Filtered sequences. *)

\* The recursion that defines Among has a solution.
LEMMA AmongRun ==
  ASSUME NEW S, NEW s \in Seq(S), NEW T
  PROVE  \E F : /\ F[0] = <<>> /\ Among(s, T) = F[Len(s)]
                /\ \A i \in 1..Len(s) :
                     F[i] = IF s[i] \in T THEN Append(F[i - 1], s[i]) ELSE F[i - 1]
<1> DEFINE Step(G, i) == IF i = 0 THEN <<>> ELSE IF s[i] \in T THEN Append(G[i-1], s[i]) ELSE G[i-1]
           Is(G, k) == G = [i \in 0..k |-> Step(G, i)]
           D == {k \in Nat : \E G : Is(G, k)}
<1>1. 0 \in D
  <2> DEFINE g == [i \in 0..0 |-> <<>>]
  <2>1. Is(g, 0)
    OBVIOUS
  <2> QED
    BY <2>1
<1>2. ASSUME NEW k \in Nat, k \in D PROVE k + 1 \in D
  <2>1. PICK G : Is(G, k)
    BY <1>2
  <2>2. \A i \in 0..k : G[i] = Step(G, i)
    BY <2>1, Zenon
  <2> DEFINE H == [i \in 0..(k+1) |-> IF i <= k THEN G[i] ELSE Step(G, i)]
  <2>3. ASSUME NEW i \in 0..(k+1) PROVE H[i] = Step(H, i)
    <3>1. i # 0 => H[i-1] = G[i-1]
      OBVIOUS
    <3>2. H[i] = IF i <= k THEN G[i] ELSE Step(G, i)
      OBVIOUS
    <3>3. H[i] = Step(G, i)
      BY <2>2, <3>2
    <3> HIDE DEF H
    <3> QED
      BY <3>1, <3>3
  <2>4. H = [i \in 0..(k+1) |-> Step(H, i)]
    <3>1. H = [i \in 0..(k+1) |-> H[i]]
      OBVIOUS
    <3> HIDE DEF H, Step
    <3> QED
      BY <2>3, <3>1
  <2>5. \E X : Is(X, k + 1)
    <3> HIDE DEF H
    <3> QED
      BY <2>4
  <2> QED
    BY <2>5
<1>3. Len(s) \in D
  <2> HIDE DEF D
  <2>1. Nat \subseteq D
    BY <1>1, <1>2, NatInd
  <2> QED
    BY <2>1
<1> DEFINE F == CHOOSE G : Is(G, Len(s))
<1>4. Is(F, Len(s))
  BY <1>3
<1>5. Among(s, T) = F[Len(s)]
  BY DEF Among
<1>6. \A i \in 0..Len(s) : F[i] = Step(F, i)
  BY <1>4, Zenon
<1> HIDE DEF F
<1>7. F[0] = <<>>
  <2>1. 0 \in 0..Len(s)
    OBVIOUS
  <2>2. F[0] = Step(F, 0)
    BY <1>6, <2>1, Zenon
  <2> QED
    BY <2>2
<1>8. ASSUME NEW i \in 1..Len(s)
      PROVE  F[i] = IF s[i] \in T THEN Append(F[i - 1], s[i]) ELSE F[i - 1]
  <2>1. i \in 0..Len(s) /\ i # 0
    OBVIOUS
  <2>2. F[i] = Step(F, i)
    BY <1>6, <2>1, Zenon
  <2> QED
    BY <2>1, <2>2
<1> QED
  BY <1>5, <1>7, <1>8

\* Nothing is picked from an empty sequence, and a further element is picked
\* after those before it.
LEMMA AmongEmpty ==
  ASSUME NEW T
  PROVE  Among(<<>>, T) = <<>>
<1>1. PICK F : F[0] = <<>> /\ Among(<<>>, T) = F[Len(<<>>)]
  <2>1. <<>> \in Seq({})
    OBVIOUS
  <2> QED
    BY <2>1, AmongRun
<1> QED
  BY <1>1

\* One more element is selected or not.
LEMMA AmongAppend ==
  ASSUME NEW S, NEW s \in Seq(S), NEW x \in S, NEW T
  PROVE  Among(Append(s, x), T) = IF x \in T THEN Append(Among(s, T), x) ELSE Among(s, T)
<1> DEFINE t == Append(s, x)
<1>0. t \in Seq(S) /\ Len(t) = Len(s) + 1 /\ t[Len(s) + 1] = x /\ \A i \in 1..Len(s) : t[i] = s[i]
  OBVIOUS
<1> HIDE DEF t
<1>1. PICK F : /\ F[0] = <<>> /\ Among(s, T) = F[Len(s)]
               /\ \A i \in 1..Len(s) :
                    F[i] = IF s[i] \in T THEN Append(F[i - 1], s[i]) ELSE F[i - 1]
  BY AmongRun
<1>2. PICK G : /\ G[0] = <<>> /\ Among(t, T) = G[Len(t)]
               /\ \A i \in 1..Len(t) :
                    G[i] = IF t[i] \in T THEN Append(G[i - 1], t[i]) ELSE G[i - 1]
  BY <1>0, AmongRun
<1> DEFINE D == {n \in Nat : n <= Len(s) => F[n] = G[n]}
<1>3. 0 \in D
  BY <1>1, <1>2
<1>4. ASSUME NEW n \in Nat, n \in D PROVE n + 1 \in D
  <2> SUFFICES ASSUME n + 1 <= Len(s) PROVE F[n + 1] = G[n + 1]
    OBVIOUS
  <2>1. n + 1 \in 1..Len(s) /\ n + 1 \in 1..Len(t) /\ (n + 1) - 1 = n /\ F[n] = G[n]
    BY <1>0, <1>4
  <2>2. t[n + 1] = s[n + 1]
    BY <1>0, <2>1
  <2>3. F[n + 1] = IF s[n + 1] \in T THEN Append(F[n], s[n + 1]) ELSE F[n]
    BY <1>1, <2>1
  <2>4. G[n + 1] = IF t[n + 1] \in T THEN Append(G[n], t[n + 1]) ELSE G[n]
    BY <1>2, <2>1
  <2> QED
    BY <2>1, <2>2, <2>3, <2>4
<1>5. Nat \subseteq D
  <2> HIDE DEF D
  <2> QED
    BY <1>3, <1>4, NatInd
<1>6. Len(s) \in Nat
  OBVIOUS
<1>7. F[Len(s)] = G[Len(s)]
  BY <1>5, <1>6
<1>8. Len(s) + 1 \in 1..Len(t) /\ (Len(s) + 1) - 1 = Len(s)
  BY <1>0, <1>6
<1>9. G[Len(s) + 1] = IF x \in T THEN Append(G[Len(s)], x) ELSE G[Len(s)]
  BY <1>0, <1>2, <1>8
<1> QED
  BY <1>0, <1>1, <1>2, <1>7, <1>9 DEF t

\* What is picked is of the sequence and wanted.
LEMMA AmongSeq ==
  ASSUME NEW S, NEW s \in Seq(S), NEW T
  PROVE  Among(s, T) \in Seq(S \cap T)
<1> DEFINE D == {q \in Seq(S) : Among(q, T) \in Seq(S \cap T)}
<1>1. <<>> \in D
  <2>1. <<>> \in Seq(S) /\ <<>> \in Seq(S \cap T)
    OBVIOUS
  <2>2. Among(<<>>, T) \in Seq(S \cap T)
    BY <2>1, AmongEmpty
  <2> QED
    BY <2>1, <2>2
<1>2. ASSUME NEW q \in Seq(S), NEW x \in S, q \in D PROVE Append(q, x) \in D
  <2>1. Among(Append(q, x), T) = IF x \in T THEN Append(Among(q, T), x) ELSE Among(q, T)
    BY AmongAppend
  <2>2. Among(q, T) \in Seq(S \cap T) /\ Append(q, x) \in Seq(S)
    BY <1>2
  <2>3. Among(Append(q, x), T) \in Seq(S \cap T)
    <3>1. CASE x \in T
      BY <2>1, <2>2, <3>1
    <3>2. CASE x \notin T
      BY <2>1, <2>2, <3>2
    <3> QED
      BY <3>1, <3>2
  <2> QED
    BY <2>2, <2>3
<1>3. Seq(S) \subseteq D
  <2> HIDE DEF D
  <2> QED
    BY <1>1, <1>2, SeqInd
<1> QED
  BY <1>3

\* Picking from two sequences, one after the other.
LEMMA AmongConcat ==
  ASSUME NEW S, NEW s \in Seq(S), NEW t \in Seq(S), NEW T
  PROVE  Among(s \o t, T) = Among(s, T) \o Among(t, T)
<1> DEFINE D == {q \in Seq(S) : Among(s \o q, T) = Among(s, T) \o Among(q, T)}
<1>0. Among(s, T) \in Seq(S \cap T)
  BY AmongSeq
<1>1. <<>> \in D
  <2>1. s \o <<>> = s /\ Among(s, T) \o <<>> = Among(s, T)
    BY <1>0
  <2>2. Among(s \o <<>>, T) = Among(s, T) \o Among(<<>>, T)
    BY <2>1, AmongEmpty
  <2>3. <<>> \in Seq(S)
    OBVIOUS
  <2> QED
    BY <2>2, <2>3
<1>2. ASSUME NEW q \in Seq(S), NEW x \in S, q \in D PROVE Append(q, x) \in D
  <2>1. s \o q \in Seq(S) /\ s \o Append(q, x) = Append(s \o q, x)
    OBVIOUS
  <2>2. Among(Append(q, x), T) = IF x \in T THEN Append(Among(q, T), x) ELSE Among(q, T)
    BY AmongAppend
  <2>3. Among(Append(s \o q, x), T) = IF x \in T THEN Append(Among(s \o q, T), x) ELSE Among(s \o q, T)
    BY <2>1, AmongAppend
  <2>4. Among(q, T) \in Seq(S \cap T) /\ Append(q, x) \in Seq(S)
    BY AmongSeq
  <2>5. Among(s \o q, T) = Among(s, T) \o Among(q, T)
    BY <1>2
  <2>6. x \in T => Append(Among(s, T) \o Among(q, T), x) = Among(s, T) \o Append(Among(q, T), x)
    <3> SUFFICES ASSUME x \in T
                 PROVE  Append(Among(s, T) \o Among(q, T), x) = Among(s, T) \o Append(Among(q, T), x)
      OBVIOUS
    <3> DEFINE a == Among(s, T)
               b == Among(q, T)
               l == Append(a \o b, x)
               r == a \o Append(b, x)
               U == S \cap T
    <3>0. a \in Seq(U) /\ b \in Seq(U) /\ x \in U
      BY <1>0, <2>4
    <3> HIDE DEF a, b, U
    <3>1. Len(l) = Len(r) /\ l \in Seq(U) /\ r \in Seq(U)
      BY <3>0
    <3>2. ASSUME NEW i \in 1..Len(l) PROVE l[i] = r[i]
      <4>1. Len(l) = Len(a) + Len(b) + 1 /\ Len(a) \in Nat /\ Len(b) \in Nat
            /\ i \in Nat /\ i <= Len(a) + Len(b) + 1
        BY <3>0
      <4>2. CASE i <= Len(a)
        BY <3>0, <4>1, <4>2
      <4>3. CASE i > Len(a) /\ i <= Len(a) + Len(b)
        BY <3>0, <4>1, <4>3
      <4>4. CASE i = Len(a) + Len(b) + 1
        BY <3>0, <4>1, <4>4
      <4> QED
        BY <4>1, <4>2, <4>3, <4>4
    <3>3. l = r
      <4> HIDE DEF l, r
      <4> QED
        BY <3>1, <3>2
    <3> QED
      BY <3>3 DEF a, b
  <2>7. Among(s \o Append(q, x), T) = Among(s, T) \o Among(Append(q, x), T)
    <3>1. CASE x \in T
      BY <2>1, <2>2, <2>3, <2>5, <2>6, <3>1, Zenon
    <3>2. CASE x \notin T
      BY <2>1, <2>2, <2>3, <2>5, <3>2, Zenon
    <3> QED
      BY <3>1, <3>2
  <2> QED
    BY <2>4, <2>7
<1>3. Seq(S) \subseteq D
  <2> HIDE DEF D
  <2> QED
    BY <1>1, <1>2, SeqInd
<1> QED
  BY <1>3

-----------------------------------------------------------------------------
(* Selection. *)

\* The loop over the candidates takes a run of candidates that join the first,
\* and ends at the limit, at the end of the queue or at one that does not join.
LEMMA JoinRunStops ==
  ASSUME NEW S, NEW cands \in Seq(S), cands # <<>>, NEW max \in Nat \ {0}
  PROVE  LET n == JoinRun(cands, max)
         IN  /\ n \in 1..Len(cands) /\ n <= max
             /\ \A i \in 2..n : Joins(cands[i], cands[1])
             /\ n = max \/ n = Len(cands) \/ ~Joins(cands[n + 1], cands[1])
<1> DEFINE Go(n) == n < max /\ n < Len(cands) /\ Joins(cands[n + 1], cands[1])
           Stop(n, k) == k >= n /\ ~Go(k) /\ \A j \in n..(k - 1) : Go(j)
           Is(f) == f = [n \in Nat |-> IF Go(n) THEN f[n + 1] ELSE n]
           g == [n \in Nat |-> CHOOSE k \in Nat : Stop(n, k)]
<1>0. Len(cands) \in Nat \ {0}
  OBVIOUS
<1>1. ASSUME NEW n \in Nat PROVE \E k \in Nat : Stop(n, k)
  <2> DEFINE T == {k \in Nat : k >= n /\ ~Go(k)}
  <2>1. n + Len(cands) \in T
    BY <1>0
  <2>2. PICK k \in T : \A m \in T : k <= m
    <3> HIDE DEF T
    <3>1. T \in SUBSET Nat /\ T # {}
      BY <2>1 DEF T
    <3> QED
      BY <3>1, LeastNat
  <2>3. ASSUME NEW j \in n..(k - 1) PROVE Go(j)
    <3>1. j \in Nat /\ j >= n /\ j < k
      BY <2>2
    <3> HIDE DEF Go
    <3> QED
      BY <2>2, <3>1
  <2> QED
    BY <2>2, <2>3
<1>2. ASSUME NEW n \in Nat, NEW k \in Nat, NEW l \in Nat, Stop(n, k), Stop(n, l) PROVE k = l
  <2> HIDE DEF Go
  <2> QED
    BY <1>2
<1>3. ASSUME NEW n \in Nat PROVE g[n] \in Nat /\ Stop(n, g[n])
  <2>1. g[n] = CHOOSE k \in Nat : Stop(n, k)
    OBVIOUS
  <2> HIDE DEF Stop, g
  <2> QED
    BY <1>1, <2>1
<1>4. ASSUME NEW n \in Nat PROVE g[n] = IF Go(n) THEN g[n + 1] ELSE n
  <2> HIDE DEF g, Go
  <2>1. CASE ~Go(n)
    <3>1. Stop(n, n)
      BY <2>1
    <3> QED
      BY <1>2, <1>3, <2>1, <3>1
  <2>2. CASE Go(n)
    <3>1. n + 1 \in Nat
      OBVIOUS
    <3>2. g[n + 1] \in Nat /\ Stop(n + 1, g[n + 1])
      BY <1>3, <3>1
    <3>3. Stop(n, g[n + 1])
      BY <2>2, <3>2
    <3> QED
      BY <1>2, <1>3, <2>2, <3>2, <3>3
  <2> QED
    BY <2>1, <2>2
<1>5. \E f : Is(f)
  <2>1. g = [n \in Nat |-> g[n]]
    OBVIOUS
  <2> HIDE DEF g, Go
  <2>2. Is(g)
    BY <1>4, <2>1
  <2> QED
    BY <2>2
<1> DEFINE f == CHOOSE f : Is(f)
<1>6. Is(f)
  BY <1>5
<1>7. JoinRun(cands, max) = f[1]
  BY DEF JoinRun
<1>8. \A n \in Nat : f[n] = IF Go(n) THEN f[n + 1] ELSE n
  BY <1>6, Zenon
<1>9. PICK k \in Nat : Stop(1, k)
  BY <1>1
<1> DEFINE E == {d \in Nat : d < k => f[k - d] = k}
<1> HIDE DEF f
<1>10. 0 \in E
  <2>1. f[k] = IF Go(k) THEN f[k + 1] ELSE k
    BY <1>8
  <2>2. ~Go(k)
    BY <1>9
  <2> HIDE DEF Go
  <2> QED
    BY <2>1, <2>2
<1>11. ASSUME NEW d \in Nat, d \in E PROVE d + 1 \in E
  <2> SUFFICES ASSUME d + 1 < k PROVE f[k - (d + 1)] = k
    OBVIOUS
  <2>1. k - (d + 1) \in Nat /\ k - (d + 1) \in 1..(k - 1) /\ (k - (d + 1)) + 1 = k - d
    OBVIOUS
  <2>2. f[k - d] = k
    BY <1>11
  <2> HIDE DEF Go
  <2>3. Go(k - (d + 1))
    BY <1>9, <2>1
  <2>4. f[k - (d + 1)] = f[(k - (d + 1)) + 1]
    BY <1>8, <2>1, <2>3
  <2> QED
    BY <2>1, <2>2, <2>4
<1>12. f[1] = k
  <2>1. Nat \subseteq E
    <3> HIDE DEF E
    <3> QED
      BY <1>10, <1>11, NatInd
  <2>2. k \in Nat /\ k >= 1 /\ k - 1 \in Nat /\ k - 1 < k /\ k - (k - 1) = 1
    BY <1>9
  <2>3. k - 1 \in E
    BY <2>1, <2>2
  <2> QED
    BY <2>2, <2>3
<1>13. k <= max /\ k <= Len(cands)
  <2>1. CASE k = 1
    BY <1>0, <2>1
  <2>2. CASE k # 1
    <3>1. k - 1 \in 1..(k - 1)
      BY <1>9, <2>2
    <3>2. Go(k - 1)
      BY <1>9, <3>1
    <3> QED
      BY <1>0, <3>2
  <2> QED
    BY <2>1, <2>2
<1>14. ASSUME NEW i \in 2..k PROVE Joins(cands[i], cands[1])
  <2>1. i - 1 \in 1..(k - 1) /\ (i - 1) + 1 = i
    OBVIOUS
  <2>2. Go(i - 1)
    BY <1>9, <2>1
  <2> QED
    BY <2>1, <2>2
<1> QED
  BY <1>0, <1>7, <1>9, <1>12, <1>13, <1>14

\* A claim of turn work starts at the head of the queue, stays within its limit,
\* and is as long as the limit and the group of the head allow.
LEMMA SelectionRule ==
  ASSUME NEW S, NEW cands \in Seq(S), NEW max \in Nat, NEW boundary
  PROVE  LET n == SelectTurnWork(cands, boundary, max)
         IN  /\ n \in 0..Len(cands) /\ n <= max
             /\ n = 0 <=> max = 0 \/ cands = <<>> \/ ~Admits(cands[1], boundary)
             /\ n > 1 => cands[1].slot = "join"
             /\ \A i \in 2..n : Joins(cands[i], cands[1])
             /\ n \notin {0, max, Len(cands)} =>
                  cands[1].slot # "join" \/ ~Joins(cands[n + 1], cands[1])
<1>1. CASE max = 0 \/ cands = <<>> \/ ~Admits(cands[1], boundary)
  BY <1>1 DEF SelectTurnWork
<1>2. CASE /\ ~(max = 0 \/ cands = <<>> \/ ~Admits(cands[1], boundary))
           /\ cands[1].slot # "join"
  BY <1>2 DEF SelectTurnWork
<1>3. CASE /\ ~(max = 0 \/ cands = <<>> \/ ~Admits(cands[1], boundary))
           /\ cands[1].slot = "join"
  <2>1. SelectTurnWork(cands, boundary, max) = JoinRun(cands, max)
    BY <1>3 DEF SelectTurnWork
  <2>2. max \in Nat \ {0} /\ cands # <<>>
    BY <1>3
  <2> QED
    BY <1>3, <2>1, <2>2, JoinRunStops
<1> QED
  BY <1>1, <1>2, <1>3
=============================================================================
