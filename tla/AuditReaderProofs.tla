------------------------- MODULE AuditReaderProofs -------------------------
(***************************************************************************)
(* Proofs about the readers of the audit log: for logs, queries and pages  *)
(* of any size and Merkle trees of any number of leaves.                   *)
(***************************************************************************)
EXTENDS AuditReader, SequenceTheorems, FiniteSetTheorems, WellFoundedInduction,
        TLAPS

\* A set of natural numbers that holds 0 and the successor of each of its
\* members holds them all.
LEMMA AllNaturals ==
  ASSUME NEW T, 0 \in T, \A n \in Nat : n \in T => n + 1 \in T
  PROVE  Nat \subseteq T
<1> SUFFICES ASSUME NEW m \in Nat, m \notin T PROVE FALSE
  OBVIOUS
<1> DEFINE Missing == {n \in Nat : n \notin T}
<1>1. Missing \subseteq Nat /\ Missing # {}
  OBVIOUS
<1>2. PICK k \in Missing : \A y \in Missing : ~ (<<y, k>> \in OpToRel(<, Nat))
  <2> HIDE DEF Missing
  <2> QED BY <1>1, NatLessThanWellFounded, WFMin
<1>3. \A y \in Missing : ~ (y < k)
  BY <1>1, <1>2 DEF OpToRel
<1>4. k # 0 /\ k \in Nat /\ k \notin T
  OBVIOUS
<1>5. k - 1 \in Nat /\ k - 1 \notin Missing
  BY <1>3, <1>4
<1>6. (k - 1) + 1 \in T
  BY <1>5
<1> QED BY <1>4, <1>6

\* f goes from b by the steps of F, and stays in S.
Steps(f, n, S, b, F) ==
  /\ f \in [0..n -> S]
  /\ f[0] = b
  /\ \A i \in 1..n : f[i] = F[<<i, f[i - 1]>>]

\* A recursion over the first n natural numbers defines a function, and one
\* into the set its steps stay in.
LEMMA StepByStep ==
  ASSUME NEW n \in Nat, NEW S, NEW b \in S, NEW F \in [(1..n) \X S -> S]
  PROVE  \E f : Steps(f, n, S, b, F)
<1> DEFINE Ok(f, m) == /\ f \in [0..m -> S]
                       /\ f[0] = b /\ \A i \in 1..m : f[i] = F[<<i, f[i - 1]>>]
           T == {m \in Nat : m <= n => \E f : Ok(f, m)}
<1>1. 0 \in T
  <2> DEFINE f == [i \in 0..0 |-> b]
  <2>1. Ok(f, 0)
    OBVIOUS
  <2> QED BY <2>1
<1>2. ASSUME NEW m \in Nat, m \in T PROVE m + 1 \in T
  <2>1. ASSUME m + 1 <= n PROVE \E f : Ok(f, m + 1)
    <3>1. PICK f : Ok(f, m)
      BY <1>2, <2>1
    <3> DEFINE v == F[<<m + 1, f[m]>>]
               g == [i \in 0..(m + 1) |-> IF i = m + 1 THEN v ELSE f[i]]
    <3>2. v \in S
      BY <3>1, <2>1
    <3> HIDE DEF v
    <3>3. g \in [0..(m + 1) -> S] /\ g[0] = b /\ g[m + 1] = v
      BY <3>1, <3>2
    <3>4. ASSUME NEW i \in 1..(m + 1) PROVE g[i] = F[<<i, g[i - 1]>>]
      <4>1. i - 1 \in 0..m /\ g[i - 1] = f[i - 1]
        OBVIOUS
      <4>2. CASE i = m + 1
        <5> HIDE DEF g
        <5>1. g[i - 1] = f[m] /\ g[i] = v
          BY <3>3, <4>1, <4>2
        <5>2. F[<<i, g[i - 1]>>] = F[<<m + 1, f[m]>>]
          BY <4>2, <5>1
        <5> QED BY <5>1, <5>2 DEF v
      <4>3. CASE i # m + 1
        <5>1. i \in 1..m /\ g[i] = f[i]
          BY <4>3
        <5> QED BY <3>1, <4>1, <5>1
      <4> QED BY <4>2, <4>3
    <3>5. Ok(g, m + 1)
      BY <3>3, <3>4
    <3> HIDE DEF Ok, g
    <3> QED BY <3>5
  <2> QED BY <2>1
<1>3. Nat \subseteq T
  <2> HIDE DEF T
  <2> QED BY <1>1, <1>2, AllNaturals
<1>4. PICK f : Ok(f, n)
  BY <1>3
<1>5. Steps(f, n, S, b, F)
  BY <1>4 DEF Steps
<1> QED BY <1>5
-----------------------------------------------------------------------------
(***************************************************************************)
(* The Merkle tree.                                                        *)
(***************************************************************************)
List(s) == \E S : s \in Seq(S)

Distinct(s) == \A i, j \in 1..Len(s) : s[i] = s[j] => i = j

LEMMA NodeInjective ==
  ASSUME NEW a, NEW b, NEW c, NEW d, Node(a, b) = Node(c, d)
  PROVE  a = c /\ b = d
<1>1. Node(a, b).left = a /\ Node(a, b).right = b
  BY DEF Node
<1>2. Node(c, d).left = c /\ Node(c, d).right = d
  BY DEF Node
<1> QED BY <1>1, <1>2

\* Where the length is odd the last one is there twice.
LEMMA PaddedFacts ==
  ASSUME NEW S, NEW s \in Seq(S), s # <<>>
  PROVE  /\ Padded(s) \in Seq(S)
         /\ Len(Padded(s)) = 2 * ((Len(s) + 1) \div 2)
         /\ \A i \in 1..Len(s) : Padded(s)[i] = s[i]
         /\ Len(s) % 2 = 1 => Padded(s)[Len(s) + 1] = s[Len(s)]
<1>1. Len(s) \in Nat \ {0} /\ s[Len(s)] \in S
  OBVIOUS
<1>2. CASE Len(s) % 2 = 1
  <2>1. Padded(s) = Append(s, s[Len(s)])
    BY <1>2 DEF Padded
  <2>2. Len(s) + 1 = 2 * ((Len(s) + 1) \div 2)
    BY <1>1, <1>2
  <2> QED BY <1>1, <2>1, <2>2
<1>3. CASE Len(s) % 2 # 1
  <2>1. Padded(s) = s
    BY <1>3 DEF Padded
  <2>2. Len(s) = 2 * ((Len(s) + 1) \div 2)
    BY <1>1, <1>3
  <2> QED BY <1>3, <2>1, <2>2
<1> QED BY <1>2, <1>3

\* The level above has half as many nodes, rounded up, each the pair of two
\* neighbours.
LEMMA ParentsFacts ==
  ASSUME NEW s, List(s), s # <<>>
  PROVE  /\ List(Parents(s)) /\ Parents(s) # <<>>
         /\ Len(Parents(s)) = (Len(s) + 1) \div 2
         /\ \A i \in 1..Len(Parents(s)) :
              Parents(s)[i] = Node(Padded(s)[2 * i - 1], Padded(s)[2 * i])
<1>1. PICK S : s \in Seq(S)
  BY DEF List
<1> DEFINE m == (Len(s) + 1) \div 2
           node(i) == Node(Padded(s)[2 * i - 1], Padded(s)[2 * i])
           N == {node(i) : i \in 1..m}
<1>2. Len(s) \in Nat \ {0} /\ m \in Nat \ {0}
  BY <1>1
<1>3. Len(Padded(s)) \div 2 = m
  BY <1>1, <1>2, PaddedFacts
<1>4. Parents(s) = [i \in 1..m |-> node(i)]
  BY <1>3 DEF Parents
<1> HIDE DEF m, node
<1>5. Parents(s) \in Seq(N) /\ Len(Parents(s)) = m
  BY <1>2, <1>4
<1>6. \A i \in 1..m : Parents(s)[i] = node(i)
  BY <1>4
<1> QED BY <1>2, <1>5, <1>6 DEF List, m, node

\* The levels, one by one.
LEMMA LevelsUnfold ==
  ASSUME NEW leaves, Len(leaves) \in Nat
  PROVE  LET level == Levels(leaves)
         IN /\ DOMAIN level = 0..Len(leaves)
            /\ level[0] = leaves
            /\ \A h \in 1..Len(leaves) :
                 level[h] = IF Len(level[h - 1]) > 1 THEN Parents(level[h - 1])
                            ELSE level[h - 1]
<1> DEFINE Step(f, h) == IF h = 0 THEN leaves
                         ELSE IF Len(f[h - 1]) > 1 THEN Parents(f[h - 1])
                         ELSE f[h - 1]
           Ok(f, n) == f = [h \in 0..n |-> Step(f, h)]
\* The function they are defined by exists.
<1>1. \E f : Ok(f, Len(leaves))
  <2> DEFINE T == {n \in Nat : \E f : Ok(f, n)}
  <2>1. 0 \in T
    <3> DEFINE f == [h \in 0..0 |-> leaves]
    <3>1. Ok(f, 0)
      OBVIOUS
    <3> QED BY <3>1
  <2>2. ASSUME NEW n \in Nat, n \in T PROVE n + 1 \in T
    <3>1. PICK f : Ok(f, n)
      BY <2>2
    <3> DEFINE g == [h \in 0..(n + 1) |-> IF h = n + 1 THEN Step(f, n + 1) ELSE f[h]]
    <3>2. ASSUME NEW h \in 0..(n + 1) PROVE g[h] = Step(g, h)
      <4>1. h # n + 1 => h \in 0..n
        OBVIOUS
      <4>2. \A j \in 0..n : f[j] = Step(f, j)
        <5> HIDE DEF Step
        <5> QED BY <3>1, Zenon
      <4>3. h # n + 1 => g[h] = f[h] /\ f[h] = Step(f, h)
        <5> HIDE DEF Step, Ok
        <5> QED BY <4>1, <4>2
      <4>4. h # 0 => h - 1 \in 0..n /\ g[h - 1] = f[h - 1]
        OBVIOUS
      <4>5. g[n + 1] = Step(f, n + 1)
        OBVIOUS
      <4> HIDE DEF g, Ok
      <4> QED BY <4>3, <4>4, <4>5
    <3> DEFINE k == g
    <3>3. \A h \in 0..(n + 1) : k[h] = Step(k, h)
      <4> HIDE DEF Step, Ok
      <4> QED BY <3>2
    <3>4. k = [h \in 0..(n + 1) |-> k[h]]
      OBVIOUS
    <3>5. Ok(k, n + 1)
      <4> HIDE DEF Step, k
      <4>1. [h \in 0..(n + 1) |-> k[h]] = [h \in 0..(n + 1) |-> Step(k, h)]
        BY <3>3
      <4> QED BY <3>4, <4>1, Zenon
    <3> HIDE DEF k, g, Ok
    <3>6. \E f2 : Ok(f2, n + 1)
      BY <3>5
    <3> QED BY <3>6
  <2>3. Nat \subseteq T
    <3> HIDE DEF T
    <3> QED BY <2>1, <2>2, AllNaturals
  <2> QED BY <2>3
<1> DEFINE level == CHOOSE f : Ok(f, Len(leaves))
<1>2. Ok(level, Len(leaves))
  BY <1>1
<1>3. Levels(leaves) = level
  BY DEF Levels
<1> HIDE DEF level
<1>4. \A h \in 0..Len(leaves) : level[h] = Step(level, h)
  <2> HIDE DEF Step
  <2> QED BY <1>2
<1>5. DOMAIN level = 0..Len(leaves)
  <2> HIDE DEF Step
  <2> QED BY <1>2
<1>6. level[0] = leaves
  BY <1>4
<1>7. ASSUME NEW h \in 1..Len(leaves)
      PROVE  level[h] = IF Len(level[h - 1]) > 1 THEN Parents(level[h - 1])
                        ELSE level[h - 1]
  <2>1. h \in 0..Len(leaves) /\ h # 0
    OBVIOUS
  <2> QED BY <1>4, <2>1
<1> QED BY <1>3, <1>5, <1>6, <1>7

LEMMA OneOrMore == ASSUME NEW m \in Nat \ {0} PROVE m = 1 \/ m > 1
  OBVIOUS

\* Every level is a list of nodes, and shorter than the one below it until it
\* has a single node.
LEMMA LevelsShrink ==
  ASSUME NEW leaves, List(leaves), leaves # <<>>
  PROVE  \A h \in 0..Len(leaves) :
           LET s == Levels(leaves)[h]
           IN /\ List(s) /\ s # <<>> /\ Len(s) \in Nat \ {0}
              /\ Len(s) = 1 \/ Len(s) <= Len(leaves) - h
<1> DEFINE level == Levels(leaves)
           n == Len(leaves)
           Ok(h) == LET s == level[h]
                    IN /\ List(s) /\ s # <<>> /\ Len(s) \in Nat \ {0}
                       /\ Len(s) = 1 \/ Len(s) <= n - h
           T == {h \in Nat : h <= n => Ok(h)}
<1>1. n \in Nat \ {0}
  BY DEF List
<1>2. /\ level[0] = leaves
      /\ \A h \in 1..n :
           level[h] = IF Len(level[h - 1]) > 1 THEN Parents(level[h - 1])
                      ELSE level[h - 1]
  BY <1>1, LevelsUnfold
<1> HIDE DEF level, n
<1>3. 0 \in T
  <2>1. level[0] # <<>> /\ List(level[0]) /\ Len(level[0]) = n
    BY <1>2 DEF n
  <2> QED BY <1>1, <2>1
<1>4. ASSUME NEW h \in Nat, h \in T PROVE h + 1 \in T
  <2> SUFFICES ASSUME h + 1 <= n PROVE Ok(h + 1)
    OBVIOUS
  <2>1. Ok(h) /\ h + 1 \in 1..n /\ (h + 1) - 1 = h
    BY <1>1, <1>4
  <2>2. level[h + 1] = IF Len(level[h]) > 1 THEN Parents(level[h]) ELSE level[h]
    BY <1>2, <2>1
  <2>3. CASE Len(level[h]) > 1
    <3>1. /\ List(level[h + 1]) /\ level[h + 1] # <<>>
          /\ Len(level[h + 1]) = (Len(level[h]) + 1) \div 2
      BY <2>1, <2>2, <2>3, ParentsFacts
    <3> DEFINE m == Len(level[h])
    <3>2. m \in Nat /\ m > 1 /\ m <= n - h
      <4>1. m \in Nat \ {0} /\ (m = 1 \/ m <= n - h) /\ m > 1
        BY <2>1, <2>3
      <4> HIDE DEF m
      <4> QED BY <1>1, <4>1
    <3> HIDE DEF m
    <3>3. (m + 1) \div 2 \in Nat \ {0} /\ (m + 1) \div 2 <= m - 1
      BY <3>2
    <3>4. Len(level[h + 1]) = (m + 1) \div 2
      BY <3>1 DEF m
    <3>5. Len(level[h + 1]) \in Nat \ {0} /\ Len(level[h + 1]) <= n - (h + 1)
      BY <1>1, <3>2, <3>3, <3>4
    <3> QED BY <3>1, <3>5
  <2>4. CASE ~(Len(level[h]) > 1)
    <3>1. level[h + 1] = level[h] /\ Len(level[h]) = 1
      <4>1. Len(level[h]) \in Nat \ {0}
        BY <2>1
      <4>2. Len(level[h]) = 1
        BY <2>4, <4>1, OneOrMore
      <4> HIDE DEF Ok, T
      <4> QED BY <2>2, <2>4, <4>2
    <3>2. List(level[h]) /\ level[h] # <<>>
      BY <2>1
    <3>3. List(level[h + 1]) /\ level[h + 1] # <<>> /\ Len(level[h + 1]) = 1
      BY <3>1, <3>2
    <3> QED BY <3>3
  <2> QED BY <2>3, <2>4
<1>5. Nat \subseteq T
  <2> HIDE DEF T
  <2> QED BY <1>3, <1>4, AllNaturals
<1> QED BY <1>1, <1>5 DEF level, n

\* The root is the only node of the level at the height of the tree, above which
\* nothing changes.
LEMMA HeightFacts ==
  ASSUME NEW leaves, List(leaves), leaves # <<>>
  PROVE  LET level == Levels(leaves)
             H == Height(level)
         IN /\ H \in 0..Len(leaves)
            /\ level[0] = leaves
            /\ \A h \in 0..H : List(level[h]) /\ level[h] # <<>>
            /\ \A h \in 0..(H - 1) : level[h + 1] = Parents(level[h])
            /\ Len(level[H]) = 1
            /\ MerkleRoot(leaves) = level[H][1]
<1> DEFINE level == Levels(leaves)
           n == Len(leaves)
<1>1. n \in Nat \ {0}
  BY DEF List
<1>2. /\ DOMAIN level = 0..n /\ level[0] = leaves
      /\ \A h \in 1..n :
           level[h] = IF Len(level[h - 1]) > 1 THEN Parents(level[h - 1])
                      ELSE level[h - 1]
  BY <1>1, LevelsUnfold
<1>3. \A h \in 0..n : /\ List(level[h]) /\ level[h] # <<>>
                      /\ Len(level[h]) \in Nat \ {0}
                      /\ Len(level[h]) = 1 \/ Len(level[h]) <= n - h
  BY LevelsShrink
<1>4. MerkleRoot(leaves) = level[n][1]
  BY DEF MerkleRoot
<1>5. Height(level) = Cardinality({h \in 0..n : Len(level[h]) > 1})
  BY <1>2 DEF Height
<1> HIDE DEF level, n
<1>6. n \in 0..n /\ Len(level[n]) = 1
  BY <1>1, <1>3
<1> DEFINE single == {h \in 0..n : Len(level[h]) = 1}
<1>7. PICK H \in single : \A h \in single : ~(h < H)
  <2>1. single \subseteq Nat /\ single # {}
    BY <1>6
  <2>2. PICK H \in single : \A y \in single : ~ (<<y, H>> \in OpToRel(<, Nat))
    <3> HIDE DEF single
    <3> QED BY <2>1, NatLessThanWellFounded, WFMin
  <2> QED BY <2>1, <2>2 DEF OpToRel
<1>8. H \in 0..n /\ Len(level[H]) = 1 /\ \A h \in 0..(H - 1) : Len(level[h]) > 1
  <2>1. H \in 0..n /\ Len(level[H]) = 1
    BY <1>7
  <2>2. ASSUME NEW h \in 0..(H - 1) PROVE Len(level[h]) > 1
    <3>1. h \in 0..n /\ h < H
      BY <1>1, <2>1
    <3>2. Len(level[h]) # 1
      BY <1>7, <3>1
    <3>3. Len(level[h]) \in Nat \ {0}
      BY <1>3, <3>1
    <3> QED BY <3>2, <3>3, OneOrMore
  <2> QED BY <2>1, <2>2
<1>9. \A h \in 0..n : h >= H => level[h] = level[H]
  <2> DEFINE T == {k \in Nat : H + k <= n => level[H + k] = level[H]}
  <2>1. 0 \in T
    BY <1>8
  <2>2. ASSUME NEW k \in Nat, k \in T PROVE k + 1 \in T
    <3> SUFFICES ASSUME H + (k + 1) <= n PROVE level[H + (k + 1)] = level[H]
      OBVIOUS
    <3>1. level[H + k] = level[H] /\ H + (k + 1) \in 1..n /\ (H + (k + 1)) - 1 = H + k
      BY <1>1, <1>8, <2>2
    <3>2. ~(Len(level[H + k]) > 1)
      <4>1. Len(level[H + k]) = 1
        BY <1>8, <3>1
      <4> QED BY <4>1
    <3> QED BY <1>2, <3>1, <3>2
  <2>3. Nat \subseteq T
    <3> HIDE DEF T
    <3> QED BY <2>1, <2>2, AllNaturals
  <2>4. ASSUME NEW h \in 0..n, h >= H PROVE level[h] = level[H]
    <3>1. h - H \in Nat /\ H + (h - H) = h
      BY <1>8, <2>4
    <3>2. h - H \in T
      BY <2>3, <3>1
    <3> QED BY <1>1, <3>1, <3>2
  <2> QED BY <2>4
<1>10. {h \in 0..n : Len(level[h]) > 1} = 0..(H - 1)
  <2>1. ASSUME NEW h \in 0..n, Len(level[h]) > 1 PROVE h \in 0..(H - 1)
    <3>1. CASE h >= H
      <4>1. Len(level[h]) = 1
        BY <1>8, <1>9, <3>1
      <4> QED BY <2>1, <4>1
    <3>2. CASE ~(h >= H)
      BY <1>1, <1>8, <3>2
    <3> QED BY <3>1, <3>2
  <2>2. ASSUME NEW h \in 0..(H - 1) PROVE h \in 0..n /\ Len(level[h]) > 1
    BY <1>1, <1>8
  <2> QED BY <2>1, <2>2
<1>11. Height(level) = H
  <2>1. Cardinality(0..(H - 1)) = H
    BY <1>8, FS_Interval
  <2> QED BY <1>5, <1>10, <2>1
<1>12. \A h \in 0..(H - 1) : level[h + 1] = Parents(level[h])
  <2> SUFFICES ASSUME NEW h \in 0..(H - 1) PROVE level[h + 1] = Parents(level[h])
    OBVIOUS
  <2>1. h + 1 \in 1..n /\ (h + 1) - 1 = h /\ Len(level[h]) > 1
    BY <1>1, <1>8
  <2> QED BY <1>2, <2>1
<1>13. level[n] = level[H]
  BY <1>1, <1>8, <1>9
<1>14. \A h \in 0..H : List(level[h]) /\ level[h] # <<>>
  BY <1>1, <1>3, <1>8
<1> QED BY <1>2, <1>4, <1>8, <1>11, <1>12, <1>13, <1>14 DEF level, n

\* A level is known from the one above it, unless it holds a node twice.
LEMMA ParentsInjective ==
  ASSUME NEW s, NEW t, List(s), List(t), s # <<>>, t # <<>>,
         Distinct(s), Distinct(t), Parents(s) = Parents(t)
  PROVE  s = t
<1>1. PICK S : s \in Seq(S)
  BY DEF List
<1>2. PICK T : t \in Seq(T)
  BY DEF List
<1> DEFINE m == Len(Parents(s))
<1>3. /\ Len(s) \in Nat \ {0} /\ Len(t) \in Nat \ {0}
      /\ m = (Len(s) + 1) \div 2 /\ m = (Len(t) + 1) \div 2 /\ m \in Nat
  BY <1>1, <1>2, ParentsFacts
<1>4. ASSUME NEW i \in 1..(2 * m) PROVE Padded(s)[i] = Padded(t)[i]
  <2>1. ASSUME NEW k \in 1..m
        PROVE  /\ Padded(s)[2 * k - 1] = Padded(t)[2 * k - 1]
               /\ Padded(s)[2 * k] = Padded(t)[2 * k]
    <3>1. /\ Parents(s)[k] = Node(Padded(s)[2 * k - 1], Padded(s)[2 * k])
          /\ Parents(t)[k] = Node(Padded(t)[2 * k - 1], Padded(t)[2 * k])
      BY <1>3, <2>1, ParentsFacts
    <3> QED BY <3>1, NodeInjective
  <2> HIDE DEF m
  <2>2. (\E k \in 1..m : i = 2 * k - 1) \/ (\E k \in 1..m : i = 2 * k)
    <3>1. CASE i % 2 = 0
      <4>1. i \div 2 \in 1..m /\ i = 2 * (i \div 2)
        BY <1>3, <3>1
      <4> QED BY <4>1
    <3>2. CASE i % 2 # 0
      <4>1. (i + 1) \div 2 \in 1..m /\ i = 2 * ((i + 1) \div 2) - 1
        BY <1>3, <3>2
      <4> QED BY <4>1
    <3> QED BY <3>1, <3>2
  <2> QED BY <2>1, <2>2
<1>5. ASSUME NEW u, NEW v, NEW U, NEW V, u \in Seq(U), v \in Seq(V), Distinct(u),
             u # <<>>, v # <<>>, Len(v) + 1 = Len(u), Len(v) % 2 = 1,
             \A i \in 1..Len(u) : Padded(u)[i] = Padded(v)[i]
      PROVE  FALSE
  <2>1. Len(u) \in Nat /\ Len(v) \in Nat /\ Len(v) >= 1
    BY <1>5
  <2>2. Padded(u)[Len(u)] = u[Len(u)] /\ Padded(u)[Len(v)] = u[Len(v)]
    BY <1>5, <2>1, PaddedFacts
  <2>3. Padded(v)[Len(u)] = v[Len(v)] /\ Padded(v)[Len(v)] = v[Len(v)]
    BY <1>5, <2>1, PaddedFacts
  <2>4. u[Len(u)] = u[Len(v)]
    BY <1>5, <2>1, <2>2, <2>3
  <2> QED BY <1>5, <2>1, <2>4 DEF Distinct
<1>6. Len(s) = Len(t)
  <2>1. /\ \A i \in 1..Len(s) : Padded(s)[i] = Padded(t)[i]
        /\ \A i \in 1..Len(t) : Padded(s)[i] = Padded(t)[i]
    <3>1. 1..Len(s) \subseteq 1..(2 * m) /\ 1..Len(t) \subseteq 1..(2 * m)
      <4> HIDE DEF m
      <4> QED BY <1>3
    <3> HIDE DEF m
    <3> QED BY <1>4, <3>1
  <2>2. ~(Len(t) + 1 = Len(s) /\ Len(t) % 2 = 1)
    BY <1>1, <1>2, <1>5, <2>1
  <2>3. ~(Len(s) + 1 = Len(t) /\ Len(s) % 2 = 1)
    BY <1>1, <1>2, <1>5, <2>1
  <2> HIDE DEF m
  <2> QED BY <1>3, <2>2, <2>3
<1>7. \A i \in 1..Len(s) : s[i] = t[i]
  <2> SUFFICES ASSUME NEW i \in 1..Len(s) PROVE s[i] = t[i]
    OBVIOUS
  <2>1. i \in 1..(2 * m) /\ i \in 1..Len(t)
    <3> HIDE DEF m
    <3> QED BY <1>3, <1>6
  <2>2. Padded(s)[i] = s[i] /\ Padded(t)[i] = t[i]
    BY <1>1, <1>2, <2>1, PaddedFacts
  <2> QED BY <1>4, <2>1, <2>2
<1> QED BY <1>1, <1>2, <1>6, <1>7

\* The nodes above distinct nodes are distinct.
LEMMA ParentsDistinct ==
  ASSUME NEW s, List(s), s # <<>>, Distinct(s)
  PROVE  Distinct(Parents(s))
<1>1. PICK S : s \in Seq(S)
  BY DEF List
<1> SUFFICES ASSUME NEW i \in 1..Len(Parents(s)), NEW j \in 1..Len(Parents(s)),
                    Parents(s)[i] = Parents(s)[j]
             PROVE  i = j
  BY DEF Distinct
<1>2. /\ Parents(s)[i] = Node(Padded(s)[2 * i - 1], Padded(s)[2 * i])
      /\ Parents(s)[j] = Node(Padded(s)[2 * j - 1], Padded(s)[2 * j])
  BY ParentsFacts
<1>3. Padded(s)[2 * i - 1] = Padded(s)[2 * j - 1]
  <2>1. Node(Padded(s)[2 * i - 1], Padded(s)[2 * i])
          = Node(Padded(s)[2 * j - 1], Padded(s)[2 * j])
    BY <1>2
  <2> QED BY <2>1, NodeInjective
<1>4. Len(s) \in Nat \ {0} /\ Len(Parents(s)) = (Len(s) + 1) \div 2
  BY <1>1, ParentsFacts
<1>5. 2 * i - 1 \in 1..Len(s) /\ 2 * j - 1 \in 1..Len(s)
  BY <1>4
<1>6. s[2 * i - 1] = s[2 * j - 1]
  BY <1>1, <1>3, <1>5, PaddedFacts
<1>7. 2 * i - 1 = 2 * j - 1
  BY <1>5, <1>6 DEF Distinct
<1> QED BY <1>4, <1>7

\* The tree above distinct leaves can be taken apart again from its root.
LEMMA RootInjectiveUpTo ==
  ASSUME NEW s, NEW t, List(s), List(t), s # <<>>, t # <<>>,
         Distinct(s), Distinct(t), MerkleRoot(s) = MerkleRoot(t),
         \A i \in 1..Len(s) : \A a, b : s[i] # Node(a, b),
         Height(Levels(s)) <= Height(Levels(t))
  PROVE  s = t
<1> DEFINE S == Levels(s)
           T == Levels(t)
           H == Height(S)
           K == Height(T)
<1>1. /\ H \in 0..Len(s) /\ S[0] = s
      /\ \A h \in 0..H : List(S[h]) /\ S[h] # <<>>
      /\ \A h \in 0..(H - 1) : S[h + 1] = Parents(S[h])
      /\ Len(S[H]) = 1 /\ MerkleRoot(s) = S[H][1]
  BY HeightFacts
<1>2. /\ K \in 0..Len(t) /\ T[0] = t
      /\ \A h \in 0..K : List(T[h]) /\ T[h] # <<>>
      /\ \A h \in 0..(K - 1) : T[h + 1] = Parents(T[h])
      /\ Len(T[K]) = 1 /\ MerkleRoot(t) = T[K][1]
  BY HeightFacts
<1>3. H \in Nat /\ K \in Nat /\ H <= K
  <2>1. Len(s) \in Nat /\ Len(t) \in Nat
    BY DEF List
  <2> QED BY <1>1, <1>2, <2>1
<1>4. MerkleRoot(s) = MerkleRoot(t)
  OBVIOUS
<1> HIDE DEF S, T, H, K
\* Every level is distinct.
<1>5. ASSUME NEW L, NEW G \in Nat, Distinct(L[0]),
             \A h \in 0..G : List(L[h]) /\ L[h] # <<>>,
             \A h \in 0..(G - 1) : L[h + 1] = Parents(L[h])
      PROVE  \A h \in 0..G : Distinct(L[h])
  <2> DEFINE D == {h \in Nat : h <= G => Distinct(L[h])}
  <2>1. 0 \in D
    BY <1>5
  <2>2. ASSUME NEW h \in Nat, h \in D PROVE h + 1 \in D
    <3> SUFFICES ASSUME h + 1 <= G PROVE Distinct(L[h + 1])
      OBVIOUS
    <3>1. h \in 0..G /\ h \in 0..(G - 1) /\ Distinct(L[h])
      BY <1>5, <2>2
    <3>2. L[h + 1] = Parents(L[h]) /\ List(L[h]) /\ L[h] # <<>>
      BY <1>5, <3>1
    <3>3. Distinct(Parents(L[h]))
      BY <3>1, <3>2, ParentsDistinct
    <3> QED BY <3>2, <3>3
  <2>3. Nat \subseteq D
    <3> HIDE DEF D
    <3> QED BY <2>1, <2>2, AllNaturals
  <2> QED BY <2>3
<1>6. \A h \in 0..H : Distinct(S[h])
  BY <1>1, <1>3, <1>5
<1>7. \A h \in 0..K : Distinct(T[h])
  BY <1>2, <1>3, <1>5
\* Level by level from the root down the two trees are the same.
<1>8. \A k \in 0..H : S[H - k] = T[K - k]
  <2> DEFINE D == {k \in Nat : k <= H => S[H - k] = T[K - k]}
  <2>1. 0 \in D
    <3>1. S[H] = T[K]
      <4>1. List(S[H]) /\ List(T[K])
        BY <1>1, <1>2, <1>3
      <4>2. PICK A : S[H] \in Seq(A)
        BY <4>1 DEF List
      <4>3. PICK B : T[K] \in Seq(B)
        BY <4>1 DEF List
      <4>4. S[H][1] = T[K][1]
        BY <1>1, <1>2, <1>4
      <4> QED BY <1>1, <1>2, <4>2, <4>3, <4>4
    <3>2. H - 0 = H /\ K - 0 = K
      BY <1>3
    <3> QED BY <3>1, <3>2
  <2>2. ASSUME NEW k \in Nat, k \in D PROVE k + 1 \in D
    <3> SUFFICES ASSUME k + 1 <= H PROVE S[H - (k + 1)] = T[K - (k + 1)]
      OBVIOUS
    <3> DEFINE i == H - (k + 1)
               j == K - (k + 1)
    <3>1. /\ i \in 0..(H - 1) /\ i \in 0..H /\ i + 1 = H - k
          /\ j \in 0..(K - 1) /\ j \in 0..K /\ j + 1 = K - k
      BY <1>3
    <3>2. S[H - k] = T[K - k]
      BY <1>3, <2>2
    <3> HIDE DEF i, j
    <3>3. Parents(S[i]) = Parents(T[j])
      BY <1>1, <1>2, <3>1, <3>2
    <3>4. S[i] = T[j]
      BY <1>1, <1>2, <1>6, <1>7, <3>1, <3>3, ParentsInjective
    <3> QED BY <3>4 DEF i, j
  <2>3. Nat \subseteq D
    <3> HIDE DEF D
    <3> QED BY <2>1, <2>2, AllNaturals
  <2> QED BY <1>3, <2>3
<1>9. s = T[K - H]
  <2>1. H \in 0..H /\ H - H = 0
    BY <1>3
  <2> QED BY <1>1, <1>8, <2>1
\* The leaves of s are no nodes, so they are on the lowest level of t.
<1>10. K = H
  <2> SUFFICES ASSUME K # H PROVE FALSE
    OBVIOUS
  <2> DEFINE j == (K - H) - 1
  <2>1. j \in 0..(K - 1) /\ j \in 0..K /\ j + 1 = K - H
    BY <1>3
  <2> HIDE DEF j
  <2>2. s = Parents(T[j]) /\ List(T[j]) /\ T[j] # <<>>
    BY <1>2, <1>9, <2>1
  <2>3. Len(s) \in Nat \ {0}
    BY DEF List
  <2>4. s[1] = Node(Padded(T[j])[2 * 1 - 1], Padded(T[j])[2 * 1])
    <3>1. 1 \in 1..Len(Parents(T[j]))
      BY <2>2, <2>3
    <3> QED BY <2>2, <3>1, ParentsFacts
  <2> QED BY <2>3, <2>4
<1> QED BY <1>2, <1>3, <1>9, <1>10

\* "The root commits to the entire log", as a fact about the tree alone: two
\* lists of distinct leaves, of any length, have the same Merkle root only if
\* they are the same list.
THEOREM RootInjective ==
  ASSUME NEW s, NEW t, List(s), List(t), s # <<>>, t # <<>>,
         Distinct(s), Distinct(t), MerkleRoot(s) = MerkleRoot(t),
         \A i \in 1..Len(s) : \A a, b : s[i] # Node(a, b),
         \A i \in 1..Len(t) : \A a, b : t[i] # Node(a, b)
  PROVE  s = t
<1>1. /\ Height(Levels(s)) \in 0..Len(s) /\ Height(Levels(t)) \in 0..Len(t)
      /\ Len(s) \in Nat /\ Len(t) \in Nat
  BY HeightFacts DEF List
<1>2. \/ Height(Levels(s)) <= Height(Levels(t))
      \/ Height(Levels(t)) <= Height(Levels(s))
  BY <1>1
<1> QED BY <1>2, RootInjectiveUpTo
-----------------------------------------------------------------------------
(***************************************************************************)
(* Merkle proofs.                                                          *)
(***************************************************************************)

\* The index of an entry's ancestors: halved from level to level.
LEMMA IndexUnfold ==
  ASSUME NEW number \in Nat \ {0}, NEW h \in Nat
  PROVE  \E f \in [0..h -> Nat] : /\ IndexAt(number, h) = f[h]
                                /\ f[0] = number - 1
                                /\ \A k \in 1..h : f[k] = f[k - 1] \div 2
<1> DEFINE Half == [z \in (1..h) \X Nat |-> z[2] \div 2]
           Step(f, k) == IF k = 0 THEN number - 1 ELSE f[k - 1] \div 2
<1>1. Half \in [(1..h) \X Nat -> Nat]
  OBVIOUS
<1>2. PICK f \in [0..h -> Nat] :
        f[0] = number - 1 /\ \A k \in 1..h : f[k] = Half[<<k, f[k - 1]>>]
  <2> DEFINE b == number - 1
  <2>1. b \in Nat
    OBVIOUS
  <2> HIDE DEF Half, b
  <2>2. PICK f : Steps(f, h, Nat, b, Half)
    BY <1>1, <2>1, StepByStep
  <2> QED BY <2>2 DEF Steps, b
<1>3. \A k \in 1..h : f[k] = f[k - 1] \div 2
  <2> SUFFICES ASSUME NEW k \in 1..h PROVE f[k] = f[k - 1] \div 2
    OBVIOUS
  <2>1. k - 1 \in 0..h /\ f[k - 1] \in Nat
    BY <1>2
  <2>2. <<k, f[k - 1]>> \in (1..h) \X Nat
    BY <2>1
  <2> QED BY <1>2, <2>2
<1>4. \E g : g = [k \in 0..h |-> Step(g, k)]
  <2>1. \A k \in 0..h : f[k] = Step(f, k)
    BY <1>2, <1>3
  <2>2. f = [k \in 0..h |-> f[k]]
    BY <1>2
  <2> HIDE DEF Step
  <2>3. [k \in 0..h |-> f[k]] = [k \in 0..h |-> Step(f, k)]
    BY <2>1
  <2>4. f = [k \in 0..h |-> Step(f, k)]
    BY <2>2, <2>3, Zenon
  <2> QED BY <2>4
<1> DEFINE idx == CHOOSE g : g = [k \in 0..h |-> Step(g, k)]
<1>5. idx = [k \in 0..h |-> Step(idx, k)]
  <2> HIDE DEF Step
  <2> QED BY <1>4
<1>6. IndexAt(number, h) = idx[h]
  BY DEF IndexAt
<1> HIDE DEF idx
<1>7. \A k \in 0..h : idx[k] = Step(idx, k)
  <2> HIDE DEF Step
  <2> QED BY <1>5
<1>8. \A k \in 0..h : idx[k] = f[k]
  <2> DEFINE T == {k \in Nat : k <= h => idx[k] = f[k]}
  <2>1. 0 \in T
    BY <1>2, <1>7
  <2>2. ASSUME NEW k \in Nat, k \in T PROVE k + 1 \in T
    <3> SUFFICES ASSUME k + 1 <= h PROVE idx[k + 1] = f[k + 1]
      OBVIOUS
    <3>1. k + 1 \in 0..h /\ k + 1 \in 1..h /\ (k + 1) - 1 = k /\ k + 1 # 0
      OBVIOUS
    <3>2. idx[k] = f[k]
      BY <2>2
    <3>3. idx[k + 1] = idx[k] \div 2 /\ f[k + 1] = f[k] \div 2
      BY <1>3, <1>7, <3>1
    <3> QED BY <3>2, <3>3
  <2>3. Nat \subseteq T
    <3> HIDE DEF T
    <3> QED BY <2>1, <2>2, AllNaturals
  <2> QED BY <2>3
<1>9. IndexAt(number, h) = f[h]
  BY <1>6, <1>8, h \in 0..h
<1> HIDE DEF Half, Step
<1> QED BY <1>2, <1>3, <1>9

LEMMA IndexFacts ==
  ASSUME NEW number \in Nat \ {0}
  PROVE  /\ IndexAt(number, 0) = number - 1
         /\ \A h \in Nat : /\ IndexAt(number, h) \in Nat
                          /\ IndexAt(number, h + 1) = IndexAt(number, h) \div 2
<1>1. IndexAt(number, 0) = number - 1
  BY IndexUnfold
<1>2. ASSUME NEW h \in Nat
      PROVE  /\ IndexAt(number, h) \in Nat
             /\ IndexAt(number, h + 1) = IndexAt(number, h) \div 2
  <2>1. PICK f \in [0..h -> Nat] : /\ IndexAt(number, h) = f[h]
                                 /\ f[0] = number - 1
                                 /\ \A k \in 1..h : f[k] = f[k - 1] \div 2
    BY IndexUnfold
  <2>2. PICK g \in [0..(h + 1) -> Nat] : /\ IndexAt(number, h + 1) = g[h + 1]
                                       /\ g[0] = number - 1
                                       /\ \A k \in 1..(h + 1) : g[k] = g[k - 1] \div 2
    BY IndexUnfold, h + 1 \in Nat
  <2> DEFINE T == {k \in Nat : k <= h => g[k] = f[k]}
  <2>3. 0 \in T
    BY <2>1, <2>2
  <2>4. ASSUME NEW k \in Nat, k \in T PROVE k + 1 \in T
    <3> SUFFICES ASSUME k + 1 <= h PROVE g[k + 1] = f[k + 1]
      OBVIOUS
    <3>1. k + 1 \in 1..h /\ k + 1 \in 1..(h + 1) /\ (k + 1) - 1 = k /\ g[k] = f[k]
      BY <2>4
    <3>2. f[k + 1] = f[k] \div 2 /\ g[k + 1] = g[k] \div 2
      BY <2>1, <2>2, <3>1
    <3> QED BY <3>1, <3>2
  <2>5. h \in T
    <3> HIDE DEF T
    <3> QED BY <2>3, <2>4, AllNaturals
  <2>6. g[h + 1] = g[h] \div 2
    <3>1. h + 1 \in 1..(h + 1) /\ (h + 1) - 1 = h
      OBVIOUS
    <3> QED BY <2>2, <3>1
  <2>7. f[h] \in Nat
    BY <2>1
  <2> QED BY <2>1, <2>2, <2>5, <2>6, <2>7
<1> QED BY <1>1, <1>2

\* What a proof is folded to, step by step.
Folds(node, leaf, number, proof) ==
  /\ FoldProof(leaf, number, proof) = node[Len(proof)]
  /\ node[0] = leaf
  /\ \A h \in 1..Len(proof) :
       node[h] = IF IndexAt(number, h - 1) % 2 = 0
                 THEN Node(node[h - 1], proof[h])
                 ELSE Node(proof[h], node[h - 1])

LEMMA FoldUnfold ==
  ASSUME NEW leaf, NEW number, NEW proof, Len(proof) \in Nat
  PROVE  \E node : Folds(node, leaf, number, proof)
<1> DEFINE Step(f, h) == IF h = 0 THEN leaf
                         ELSE IF IndexAt(number, h - 1) % 2 = 0
                              THEN Node(f[h - 1], proof[h])
                         ELSE Node(proof[h], f[h - 1])
           Ok(f, n) == f = [h \in 0..n |-> Step(f, h)]
\* The function exists.
<1>1. \E f : Ok(f, Len(proof))
  <2> DEFINE T == {n \in Nat : \E f : Ok(f, n)}
  <2>1. 0 \in T
    <3> DEFINE f == [h \in 0..0 |-> leaf]
    <3>1. Ok(f, 0)
      OBVIOUS
    <3> QED BY <3>1
  <2>2. ASSUME NEW n \in Nat, n \in T PROVE n + 1 \in T
    <3>1. PICK f : Ok(f, n)
      BY <2>2
    <3> DEFINE g == [h \in 0..(n + 1) |-> IF h = n + 1 THEN Step(f, n + 1) ELSE f[h]]
    <3>2. ASSUME NEW h \in 0..(n + 1) PROVE g[h] = Step(g, h)
      <4>1. h # n + 1 => h \in 0..n
        OBVIOUS
      <4>2. \A j \in 0..n : f[j] = Step(f, j)
        <5> HIDE DEF Step
        <5> QED BY <3>1, Zenon
      <4>3. h # n + 1 => g[h] = f[h] /\ f[h] = Step(f, h)
        <5> HIDE DEF Step, Ok
        <5> QED BY <4>1, <4>2
      <4>4. h # 0 => h - 1 \in 0..n /\ g[h - 1] = f[h - 1]
        OBVIOUS
      <4>5. g[n + 1] = Step(f, n + 1)
        OBVIOUS
      <4> HIDE DEF g, Ok
      <4> QED BY <4>3, <4>4, <4>5
    <3> DEFINE k == g
    <3>3. \A h \in 0..(n + 1) : k[h] = Step(k, h)
      <4> HIDE DEF Step, Ok
      <4> QED BY <3>2
    <3>4. k = [h \in 0..(n + 1) |-> k[h]]
      OBVIOUS
    <3>5. Ok(k, n + 1)
      <4> HIDE DEF Step, k
      <4>1. [h \in 0..(n + 1) |-> k[h]] = [h \in 0..(n + 1) |-> Step(k, h)]
        BY <3>3
      <4> QED BY <3>4, <4>1, Zenon
    <3> HIDE DEF k, g, Ok
    <3>6. \E f2 : Ok(f2, n + 1)
      BY <3>5
    <3> QED BY <3>6
  <2>3. Nat \subseteq T
    <3> HIDE DEF T
    <3> QED BY <2>1, <2>2, AllNaturals
  <2> QED BY <2>3
<1> DEFINE node == CHOOSE f : Ok(f, Len(proof))
<1>2. Ok(node, Len(proof))
  BY <1>1
<1>3. FoldProof(leaf, number, proof) = node[Len(proof)]
  BY DEF FoldProof
<1> HIDE DEF node
<1>4. \A h \in 0..Len(proof) : node[h] = Step(node, h)
  <2> HIDE DEF Step
  <2> QED BY <1>2
<1>5. node[0] = leaf
  BY <1>4
<1>6. ASSUME NEW h \in 1..Len(proof)
      PROVE  node[h] = IF IndexAt(number, h - 1) % 2 = 0
                       THEN Node(node[h - 1], proof[h])
                       ELSE Node(proof[h], node[h - 1])
  <2>1. h \in 0..Len(proof) /\ h # 0
    OBVIOUS
  <2> QED BY <1>4, <2>1
<1>7. Folds(node, leaf, number, proof)
  BY <1>3, <1>5, <1>6 DEF Folds
<1> QED BY <1>7

\* A proof folded over anything leads to the root exactly if it starts from the
\* leaf it is for: going up a level keeps what is there apart from the ancestor.
LEMMA ProofClimbs ==
  ASSUME NEW leaves, List(leaves), leaves # <<>>, NEW i \in 1..Len(leaves), NEW x
  PROVE  FoldProof(x, i, MerkleProof(leaves, i)) = MerkleRoot(leaves)
           <=> x = leaves[i]
<1> DEFINE level == Levels(leaves)
           H == Height(level)
           proof == MerkleProof(leaves, i)
           k(h) == IndexAt(i, h)
<1>1. /\ H \in 0..Len(leaves) /\ level[0] = leaves
      /\ \A h \in 0..H : List(level[h]) /\ level[h] # <<>>
      /\ \A h \in 0..(H - 1) : level[h + 1] = Parents(level[h])
      /\ Len(level[H]) = 1 /\ MerkleRoot(leaves) = level[H][1]
  BY HeightFacts
<1>2. Len(leaves) \in Nat /\ H \in Nat /\ i \in Nat \ {0}
  <2>1. Len(leaves) \in Nat
    BY DEF List
  <2> HIDE DEF H
  <2> QED BY <1>1, <2>1
<1>3. proof = [h \in 1..H |-> Padded(level[h - 1])[Sibling(k(h - 1)) + 1]]
  BY DEF MerkleProof
<1> HIDE DEF level, H
<1>4. /\ Len(proof) = H
      /\ \A h \in 1..H : proof[h] = Padded(level[h - 1])[Sibling(k(h - 1)) + 1]
  <2> HIDE DEF k, proof
  <2>1. DOMAIN proof = 1..H
    BY <1>3
  <2>2. Len(proof) = H
    <3> DEFINE e(h) == Padded(level[h - 1])[Sibling(k(h - 1)) + 1]
    <3>1. proof = [h \in 1..H |-> e(h)]
      BY <1>3
    <3> HIDE DEF e
    <3> QED BY <1>2, <3>1
  <2> QED BY <1>3, <2>2
<1> HIDE DEF proof
<1>41. Len(proof) \in Nat
  <2> HIDE DEF k
  <2> QED BY <1>2, <1>4
<1>5. PICK node : /\ FoldProof(x, i, proof) = node[Len(proof)]
                  /\ node[0] = x
                  /\ \A h \in 1..Len(proof) :
                       node[h] = IF k(h - 1) % 2 = 0
                                 THEN Node(node[h - 1], proof[h])
                                 ELSE Node(proof[h], node[h - 1])
  <2>1. PICK node : Folds(node, x, i, proof)
    BY <1>41, FoldUnfold
  <2> QED BY <2>1 DEF Folds
<1>6. k(0) = i - 1 /\ \A h \in Nat : k(h) \in Nat /\ k(h + 1) = k(h) \div 2
  BY <1>2, IndexFacts
<1> HIDE DEF k
<1> DEFINE Ok(h) == /\ k(h) + 1 \in 1..Len(level[h])
                    /\ node[h] = level[h][k(h) + 1] <=> x = leaves[i]
           T == {h \in Nat : h <= H => Ok(h)}
<1>7. 0 \in T
  <2>1. k(0) + 1 = i
    BY <1>2, <1>6
  <2>2. node[0] = x /\ level[0] = leaves
    BY <1>1, <1>5
  <2>3. Ok(0)
    BY <2>1, <2>2
  <2> HIDE DEF Ok
  <2> QED BY <2>3
<1>8. ASSUME NEW h \in Nat, h \in T PROVE h + 1 \in T
  <2> SUFFICES ASSUME h + 1 <= H PROVE Ok(h + 1)
    OBVIOUS
  <2> DEFINE s == level[h]
             p == Padded(s)
             up == Parents(s)
             q == k(h + 1) + 1
  <2>1. Ok(h) /\ h \in 0..H /\ h \in 0..(H - 1) /\ h + 1 \in 1..H /\ (h + 1) - 1 = h
    BY <1>2, <1>8
  <2>2. List(s) /\ s # <<>> /\ level[h + 1] = up
    BY <1>1, <2>1
  <2>3. PICK A : s \in Seq(A)
    BY <2>2 DEF List
  <2>4. /\ k(h) \in Nat /\ q = (k(h) \div 2) + 1
        /\ k(h) + 1 \in 1..Len(s) /\ Len(s) \in Nat
    <3> HIDE DEF s
    <3>1. k(h) + 1 \in 1..Len(s)
      BY <2>1 DEF s
    <3>2. Len(s) \in Nat
      BY <2>3
    <3> QED BY <1>6, <3>1, <3>2
  <2>5. p[k(h) + 1] = s[k(h) + 1]
    BY <2>2, <2>3, <2>4, PaddedFacts
  <2>6. /\ Len(up) = (Len(s) + 1) \div 2
        /\ \A j \in 1..Len(up) : up[j] = Node(p[2 * j - 1], p[2 * j])
    BY <2>2, ParentsFacts
  <2>7. /\ node[h + 1] = IF k(h) % 2 = 0 THEN Node(node[h], proof[h + 1])
                         ELSE Node(proof[h + 1], node[h])
        /\ proof[h + 1] = p[Sibling(k(h)) + 1]
    <3>1. h + 1 \in 1..H /\ (h + 1) - 1 = h
      BY <2>1
    <3> QED BY <1>4, <1>5, <3>1
  <2>8. node[h] = s[k(h) + 1] <=> x = leaves[i]
    BY <2>1
  <2> HIDE DEF Ok, s, p, up, q
  <2>9. q \in 1..Len(up)
    BY <2>4, <2>6
  <2>10. up[q] = Node(p[2 * q - 1], p[2 * q])
    BY <2>6, <2>9
  <2>11. node[h + 1] = up[q] <=> x = leaves[i]
    <3>1. CASE k(h) % 2 = 0
      <4>1. /\ 2 * q - 1 = k(h) + 1 /\ 2 * q = k(h) + 2
            /\ Sibling(k(h)) + 1 = k(h) + 2
        BY <2>4, <3>1 DEF Sibling
      <4>2. up[q] = Node(s[k(h) + 1], p[k(h) + 2])
        BY <2>5, <2>10, <4>1
      <4>3. node[h + 1] = Node(node[h], p[k(h) + 2])
        BY <2>7, <3>1, <4>1
      <4>4. ASSUME node[h + 1] = up[q] PROVE node[h] = s[k(h) + 1]
        <5>1. Node(node[h], p[k(h) + 2]) = Node(s[k(h) + 1], p[k(h) + 2])
          BY <4>2, <4>3, <4>4
        <5> QED BY <5>1, NodeInjective
      <4>5. node[h] = s[k(h) + 1] => node[h + 1] = up[q]
        BY <4>2, <4>3
      <4> QED BY <2>8, <4>4, <4>5
    <3>2. CASE k(h) % 2 # 0
      <4>0. k(h) % 2 = 1
        BY <2>4, <3>2
      <4>1. /\ 2 * q - 1 = k(h) /\ 2 * q = k(h) + 1
            /\ Sibling(k(h)) + 1 = k(h)
        <5>1. k(h) = 2 * (k(h) \div 2) + 1
          BY <2>4, <4>0
        <5>2. Sibling(k(h)) = k(h) - 1
          BY <4>0 DEF Sibling
        <5> DEFINE m == k(h) \div 2
        <5>3. m \in Nat
          BY <2>4
        <5>4. q = m + 1
          BY <2>4
        <5>5. k(h) = 2 * m + 1
          BY <5>1
        <5> HIDE DEF m
        <5> QED BY <5>2, <5>3, <5>4, <5>5
      <4>2. up[q] = Node(p[k(h)], s[k(h) + 1])
        BY <2>5, <2>10, <4>1
      <4>3. node[h + 1] = Node(p[k(h)], node[h])
        BY <2>7, <3>2, <4>1
      <4>4. ASSUME node[h + 1] = up[q] PROVE node[h] = s[k(h) + 1]
        <5>1. Node(p[k(h)], node[h]) = Node(p[k(h)], s[k(h) + 1])
          BY <4>2, <4>3, <4>4
        <5> QED BY <5>1, NodeInjective
      <4>5. node[h] = s[k(h) + 1] => node[h + 1] = up[q]
        BY <4>2, <4>3
      <4> QED BY <2>8, <4>4, <4>5
    <3> QED BY <3>1, <3>2
  <2>12. Ok(h + 1)
    BY <2>2, <2>9, <2>11 DEF Ok, q
  <2> QED BY <2>12
<1>9. Ok(H)
  <2> HIDE DEF Ok
  <2>1. Nat \subseteq T
    <3> HIDE DEF T
    <3> QED BY <1>7, <1>8, AllNaturals
  <2> QED BY <1>2, <2>1
<1>10. k(H) + 1 = 1
  <2>1. k(H) + 1 \in 1..1
    BY <1>1, <1>9
  <2> QED BY <2>1
<1>11. FoldProof(x, i, proof) = MerkleRoot(leaves) <=> x = leaves[i]
  BY <1>1, <1>4, <1>5, <1>9, <1>10
<1> QED BY <1>11 DEF proof
-----------------------------------------------------------------------------
(***************************************************************************)
(* The query loop.                                                         *)
(***************************************************************************)

\* The elements at some of the positions, collected from the left.
Picks(picked, s, positions, S) ==
  /\ picked \in [0..Len(s) -> Seq(S)]
  /\ Picked(s, positions) = picked[Len(s)]
  /\ picked[0] = <<>>
  /\ \A i \in 1..Len(s) :
       picked[i] = IF i \in positions THEN Append(picked[i - 1], s[i])
                   ELSE picked[i - 1]

LEMMA PickedUnfold ==
  ASSUME NEW S, NEW s \in Seq(S), NEW positions
  PROVE  \E picked : Picks(picked, s, positions, S)
<1> DEFINE n == Len(s)
           F == [z \in (1..n) \X Seq(S) |->
                   IF z[1] \in positions THEN Append(z[2], s[z[1]]) ELSE z[2]]
           Step(f, i) == IF i = 0 THEN <<>>
                         ELSE IF i \in positions THEN Append(f[i - 1], s[i])
                         ELSE f[i - 1]
<1>1. n \in Nat /\ <<>> \in Seq(S) /\ \A i \in 1..n : s[i] \in S
  OBVIOUS
<1>2. F \in [(1..n) \X Seq(S) -> Seq(S)]
  BY <1>1
<1>3. PICK f : Steps(f, n, Seq(S), <<>>, F)
  <2> HIDE DEF F, n
  <2> QED BY <1>1, <1>2, StepByStep
<1>4. f \in [0..n -> Seq(S)]
  BY <1>3 DEF Steps
<1>5. \A i \in 0..n : f[i] = Step(f, i)
  <2> SUFFICES ASSUME NEW i \in 0..n PROVE f[i] = Step(f, i)
    OBVIOUS
  <2>1. CASE i = 0
    BY <1>3, <2>1 DEF Steps
  <2>2. CASE i # 0
    <3>1. i \in 1..n /\ i - 1 \in 0..n
      BY <2>2
    <3>2. f[i] = F[<<i, f[i - 1]>>]
      <4> HIDE DEF F
      <4> QED BY <1>3, <3>1 DEF Steps
    <3>3. <<i, f[i - 1]>> \in (1..n) \X Seq(S)
      BY <1>4, <3>1
    <3>4. F[<<i, f[i - 1]>>] = IF i \in positions THEN Append(f[i - 1], s[i])
                               ELSE f[i - 1]
      BY <3>3
    <3> HIDE DEF F
    <3> QED BY <2>2, <3>2, <3>4
  <2> QED BY <2>1, <2>2
<1>6. f = [i \in 0..n |-> Step(f, i)]
  <2>1. f = [i \in 0..n |-> f[i]]
    BY <1>4
  <2> HIDE DEF Step
  <2>2. [i \in 0..n |-> f[i]] = [i \in 0..n |-> Step(f, i)]
    BY <1>5
  <2> QED BY <2>1, <2>2, Zenon
<1> DEFINE picked == CHOOSE g : g = [i \in 0..n |-> Step(g, i)]
<1>7. picked = [i \in 0..n |-> Step(picked, i)]
  <2> HIDE DEF Step
  <2> QED BY <1>6
<1>8. Picked(s, positions) = picked[n]
  BY DEF Picked
<1> HIDE DEF picked, F
<1>9. \A i \in 0..n : picked[i] = Step(picked, i)
  <2> HIDE DEF Step
  <2> QED BY <1>7
<1>10. picked[0] = <<>>
  BY <1>1, <1>9
<1>11. \A i \in 1..n : picked[i] = IF i \in positions THEN Append(picked[i - 1], s[i])
                                   ELSE picked[i - 1]
  <2> SUFFICES ASSUME NEW i \in 1..n
               PROVE picked[i] = IF i \in positions THEN Append(picked[i - 1], s[i])
                                 ELSE picked[i - 1]
    OBVIOUS
  <2>1. i \in 0..n /\ i # 0
    OBVIOUS
  <2> QED BY <1>9, <2>1
<1>12. \A i \in 0..n : picked[i] \in Seq(S)
  <2> DEFINE T == {i \in Nat : i <= n => picked[i] \in Seq(S)}
  <2>1. 0 \in T
    BY <1>1, <1>10
  <2>2. ASSUME NEW i \in Nat, i \in T PROVE i + 1 \in T
    <3> SUFFICES ASSUME i + 1 <= n PROVE picked[i + 1] \in Seq(S)
      OBVIOUS
    <3>1. picked[i] \in Seq(S) /\ i + 1 \in 1..n /\ (i + 1) - 1 = i /\ s[i + 1] \in S
      BY <1>1, <2>2
    <3>2. picked[i + 1] = Append(picked[i], s[i + 1]) \/ picked[i + 1] = picked[i]
      BY <1>11, <3>1
    <3>3. Append(picked[i], s[i + 1]) \in Seq(S)
      BY <3>1, AppendProperties
    <3> QED BY <3>1, <3>2, <3>3
  <2>3. Nat \subseteq T
    <3> HIDE DEF T
    <3> QED BY <2>1, <2>2, AllNaturals
  <2> QED BY <1>1, <2>3
<1>14. picked \in [0..n -> Seq(S)]
  <2>1. picked = [i \in 0..n |-> picked[i]]
    <3> HIDE DEF Step
    <3> QED BY <1>7
  <2> QED BY <1>12, <2>1
<1>15. Picks(picked, s, positions, S)
  BY <1>8, <1>10, <1>11, <1>14 DEF Picks
<1> QED BY <1>15

\* What is picked from a longer list.
LEMMA PickedAppend ==
  ASSUME NEW S, NEW s \in Seq(S), NEW e \in S, NEW P, NEW Q,
         \A i \in 1..Len(s) : i \in P <=> i \in Q
  PROVE  Picked(Append(s, e), Q)
           = IF Len(s) + 1 \in Q THEN Append(Picked(s, P), e) ELSE Picked(s, P)
<1> DEFINE n == Len(s)
           t == Append(s, e)
<1>1. n \in Nat /\ t \in Seq(S) /\ Len(t) = n + 1 /\ t[n + 1] = e
      /\ \A i \in 1..n : t[i] = s[i]
  OBVIOUS
<1>2. PICK f : Picks(f, s, P, S)
  BY PickedUnfold
<1>3. PICK g : Picks(g, t, Q, S)
  BY <1>1, PickedUnfold
<1>4. /\ Picked(s, P) = f[n] /\ f[0] = <<>>
      /\ \A i \in 1..n : f[i] = IF i \in P THEN Append(f[i - 1], s[i]) ELSE f[i - 1]
  BY <1>2 DEF Picks
<1> HIDE DEF t
<1>5. /\ Picked(t, Q) = g[n + 1] /\ g[0] = <<>>
      /\ \A i \in 1..(n + 1) : g[i] = IF i \in Q THEN Append(g[i - 1], t[i])
                                      ELSE g[i - 1]
  BY <1>1, <1>3 DEF Picks
<1> HIDE DEF n
<1> DEFINE T == {i \in Nat : i <= n => f[i] = g[i]}
<1>6. 0 \in T
  BY <1>4, <1>5
<1>7. ASSUME NEW i \in Nat, i \in T PROVE i + 1 \in T
  <2> SUFFICES ASSUME i + 1 <= n PROVE f[i + 1] = g[i + 1]
    OBVIOUS
  <2>1. /\ f[i] = g[i] /\ i + 1 \in 1..n /\ i + 1 \in 1..(n + 1) /\ (i + 1) - 1 = i
    BY <1>1, <1>7
  <2>2. s[i + 1] = t[i + 1] /\ (i + 1 \in P <=> i + 1 \in Q)
    BY <1>1, <2>1 DEF n
  <2> QED BY <1>4, <1>5, <2>1, <2>2
<1>8. f[n] = g[n]
  <2> HIDE DEF T
  <2>1. n \in T
    BY <1>1, <1>6, <1>7, AllNaturals
  <2> QED BY <1>1, <2>1 DEF T
<1>9. g[n + 1] = IF n + 1 \in Q THEN Append(g[n], e) ELSE g[n]
  <2>1. n + 1 \in 1..(n + 1) /\ (n + 1) - 1 = n
    BY <1>1
  <2> QED BY <1>1, <1>5, <2>1
<1> QED BY <1>4, <1>5, <1>8, <1>9 DEF t, n

Scans(S) == [skipped: Nat, results: Seq(S), ended: BOOLEAN]

\* The loop of a query over s, entry by entry.
Runs(scan, entries, s, q, S) ==
  /\ scan \in [0..Len(s) -> Scans(S)]
  /\ RunQuery(entries, q) = scan[Len(s)].results
  /\ scan[0] = Started
  /\ \A i \in 1..Len(s) : scan[i] = Visit(scan[i - 1], s[i], q)

LEMMA VisitTypes ==
  ASSUME NEW S, NEW e \in S, NEW x \in Scans(S), NEW q
  PROVE  Visit(x, e, q) \in Scans(S)
<1>1. x.skipped \in Nat /\ x.results \in Seq(S) /\ x.ended \in BOOLEAN
  BY DEF Scans
<1>2. Append(x.results, e) \in Seq(S) /\ x.skipped + 1 \in Nat
  BY <1>1, AppendProperties
<1>3. \/ Visit(x, e, q) = [x EXCEPT !.ended = TRUE]
      \/ Visit(x, e, q) = x
      \/ Visit(x, e, q) = [x EXCEPT !.skipped = @ + 1]
      \/ Visit(x, e, q) = [x EXCEPT !.results = Append(@, e)]
  BY DEF Visit
<1> QED BY <1>2, <1>3 DEF Scans

LEMMA QueryUnfold ==
  ASSUME NEW S, NEW entries, NEW q, NEW s \in Seq(S), s = InOrder(entries, q)
  PROVE  \E scan : Runs(scan, entries, s, q, S)
<1> DEFINE n == Len(s)
           F == [z \in (1..n) \X Scans(S) |-> Visit(z[2], s[z[1]], q)]
           Step(f, i) == IF i = 0 THEN Started ELSE Visit(f[i - 1], s[i], q)
<1>1. n \in Nat /\ \A i \in 1..n : s[i] \in S
  OBVIOUS
<1>2. Started \in Scans(S)
  BY DEF Started, Scans
<1>3. F \in [(1..n) \X Scans(S) -> Scans(S)]
  <2>1. ASSUME NEW z \in (1..n) \X Scans(S) PROVE Visit(z[2], s[z[1]], q) \in Scans(S)
    <3>1. z[2] \in Scans(S) /\ s[z[1]] \in S
      BY <1>1
    <3> QED BY <3>1, VisitTypes
  <2> QED BY <2>1
<1>4. PICK f : Steps(f, n, Scans(S), Started, F)
  <2> HIDE DEF F, n
  <2> QED BY <1>1, <1>2, <1>3, StepByStep
<1>5. f \in [0..n -> Scans(S)]
  BY <1>4 DEF Steps
<1>6. \A i \in 0..n : f[i] = Step(f, i)
  <2> SUFFICES ASSUME NEW i \in 0..n PROVE f[i] = Step(f, i)
    OBVIOUS
  <2>1. CASE i = 0
    BY <1>4, <2>1 DEF Steps
  <2>2. CASE i # 0
    <3>1. i \in 1..n /\ i - 1 \in 0..n
      BY <2>2
    <3>2. f[i] = F[<<i, f[i - 1]>>]
      <4> HIDE DEF F
      <4> QED BY <1>4, <3>1 DEF Steps
    <3>3. <<i, f[i - 1]>> \in (1..n) \X Scans(S)
      BY <1>5, <3>1
    <3>4. F[<<i, f[i - 1]>>] = Visit(f[i - 1], s[i], q)
      BY <3>3
    <3> HIDE DEF F
    <3> QED BY <2>2, <3>2, <3>4
  <2> QED BY <2>1, <2>2
<1>7. f = [i \in 0..n |-> Step(f, i)]
  <2>1. f = [i \in 0..n |-> f[i]]
    BY <1>5
  <2> HIDE DEF Step
  <2>2. [i \in 0..n |-> f[i]] = [i \in 0..n |-> Step(f, i)]
    BY <1>6
  <2> QED BY <2>1, <2>2, Zenon
<1> DEFINE scan == CHOOSE g : g = [i \in 0..n |-> Step(g, i)]
<1>8. scan = [i \in 0..n |-> Step(scan, i)]
  <2> HIDE DEF Step
  <2> QED BY <1>7
<1>9. RunQuery(entries, q) = scan[n].results
  BY DEF RunQuery
<1> HIDE DEF scan, F
<1>10. \A i \in 0..n : scan[i] = Step(scan, i)
  <2> HIDE DEF Step
  <2> QED BY <1>8
<1>11. scan[0] = Started
  BY <1>1, <1>10
<1>12. \A i \in 1..n : scan[i] = Visit(scan[i - 1], s[i], q)
  <2> SUFFICES ASSUME NEW i \in 1..n PROVE scan[i] = Visit(scan[i - 1], s[i], q)
    OBVIOUS
  <2>1. i \in 0..n /\ i # 0
    OBVIOUS
  <2> QED BY <1>10, <2>1
<1>13. \A i \in 0..n : scan[i] \in Scans(S)
  <2> DEFINE T == {i \in Nat : i <= n => scan[i] \in Scans(S)}
  <2>1. 0 \in T
    BY <1>2, <1>11
  <2>2. ASSUME NEW i \in Nat, i \in T PROVE i + 1 \in T
    <3> SUFFICES ASSUME i + 1 <= n PROVE scan[i + 1] \in Scans(S)
      OBVIOUS
    <3>1. scan[i] \in Scans(S) /\ i + 1 \in 1..n /\ (i + 1) - 1 = i /\ s[i + 1] \in S
      BY <1>1, <2>2
    <3>2. scan[i + 1] = Visit(scan[i], s[i + 1], q)
      BY <1>12, <3>1
    <3> QED BY <3>1, <3>2, VisitTypes
  <2>3. Nat \subseteq T
    <3> HIDE DEF T
    <3> QED BY <2>1, <2>2, AllNaturals
  <2> QED BY <1>1, <2>3
<1>14. scan \in [0..n -> Scans(S)]
  <2>1. scan = [i \in 0..n |-> scan[i]]
    <3> HIDE DEF Step
    <3> QED BY <1>8
  <2> QED BY <1>13, <2>1
<1>15. Runs(scan, entries, s, q, S)
  BY <1>9, <1>11, <1>12, <1>14 DEF Runs
<1> QED BY <1>15

\* How long a page is.
LEMMA PageLength ==
  ASSUME NEW S, NEW p \in Seq(S), NEW q, q.offset \in Nat, q.limit \in Nat
  PROVE  /\ Page(p, q) \in Seq(S)
         /\ Len(Page(p, q)) = IF Len(p) <= q.offset THEN 0
                              ELSE IF q.offset + q.limit < Len(p) THEN q.limit
                              ELSE Len(p) - q.offset
         /\ \A j \in 1..Len(Page(p, q)) : /\ q.offset + j \in 1..Len(p)
                                          /\ Page(p, q)[j] = p[q.offset + j]
<1> DEFINE n == Len(p)
           off == q.offset
           lim == q.limit
           last == IF off + lim < n THEN off + lim ELSE n
<1>1. n \in Nat /\ off \in Nat /\ lim \in Nat /\ last \in Nat /\ last <= n
  OBVIOUS
<1>2. Page(p, q) = SubSeq(p, off + 1, last)
  BY DEF Page
<1>3. \A i \in (off + 1)..last : p[i] \in S
  BY <1>1
<1> DEFINE m == off + 1
<1>4. m \in Int /\ last \in Int /\ \A i \in m..last : p[i] \in S
  BY <1>1, <1>3
<1>5. Page(p, q) = SubSeq(p, m, last)
  BY <1>2
<1> HIDE DEF m, last
<1>6. /\ Page(p, q) \in Seq(S)
      /\ Len(Page(p, q)) = IF m <= last THEN last - m + 1 ELSE 0
      /\ \A i \in 1..(last - m + 1) : Page(p, q)[i] = p[m + i - 1]
  BY <1>4, <1>5, SubSeqProperties
<1> HIDE DEF n, off, lim
<1>7. Len(Page(p, q)) = IF n <= off THEN 0
                        ELSE IF off + lim < n THEN lim ELSE n - off
  BY <1>1, <1>6 DEF m, last
<1>8. ASSUME NEW j \in 1..Len(Page(p, q))
      PROVE  off + j \in 1..n /\ Page(p, q)[j] = p[off + j]
  <2>1. m <= last /\ j \in 1..(last - m + 1)
    BY <1>1, <1>6
  <2>2. m + j - 1 = off + j /\ off + j \in 1..n
    BY <1>1, <2>1 DEF m
  <2> QED BY <1>6, <2>1, <2>2
<1> QED BY <1>6, <1>7, <1>8 DEF n, off, lim

\* What one more result does to a page: nothing before its offset and nothing
\* when it is full.
LEMMA PageGrows ==
  ASSUME NEW S, NEW p \in Seq(S), NEW e \in S, NEW q,
         q.offset \in Nat, q.limit \in Nat
  PROVE  Page(Append(p, e), q)
           = IF Len(p) < q.offset \/ Len(Page(p, q)) >= q.limit THEN Page(p, q)
             ELSE Append(Page(p, q), e)
<1> DEFINE n == Len(p)
           off == q.offset
           lim == q.limit
           t == Append(p, e)
           P == Page(p, q)
           T == Page(t, q)
<1>1. n \in Nat /\ off \in Nat /\ lim \in Nat
  OBVIOUS
<1>2. t \in Seq(S) /\ Len(t) = n + 1 /\ t[n + 1] = e /\ \A i \in 1..n : t[i] = p[i]
  BY AppendProperties
<1>3. /\ P \in Seq(S)
      /\ Len(P) = IF n <= off THEN 0 ELSE IF off + lim < n THEN lim ELSE n - off
      /\ \A j \in 1..Len(P) : off + j \in 1..n /\ P[j] = p[off + j]
  BY PageLength
<1> HIDE DEF t, P
<1>4. /\ T \in Seq(S)
      /\ Len(T) = IF n + 1 <= off THEN 0
                  ELSE IF off + lim < n + 1 THEN lim ELSE (n + 1) - off
      /\ \A j \in 1..Len(T) : off + j \in 1..(n + 1) /\ T[j] = t[off + j]
  <2> HIDE DEF n
  <2>1. t \in Seq(S)
    BY <1>2
  <2>2. /\ T \in Seq(S)
        /\ Len(T) = IF Len(t) <= off THEN 0
                    ELSE IF off + lim < Len(t) THEN lim ELSE Len(t) - off
        /\ \A j \in 1..Len(T) : off + j \in 1..Len(t) /\ T[j] = t[off + j]
    BY <2>1, PageLength
  <2> HIDE DEF T, off, lim
  <2> QED BY <1>2, <2>2
<1> HIDE DEF T, n, off, lim
<1>5. CASE n < off \/ Len(P) >= lim
  <2>1. Len(T) = Len(P)
    BY <1>1, <1>3, <1>4, <1>5
  <2>2. ASSUME NEW j \in 1..Len(T) PROVE T[j] = P[j]
    <3>1. off + j \in 1..n /\ P[j] = p[off + j] /\ T[j] = t[off + j]
      BY <1>3, <1>4, <2>1
    <3> QED BY <1>2, <3>1
  <2>3. T = P
    BY <1>3, <1>4, <2>1, <2>2, SeqEqual
  <2> QED BY <1>5, <2>3 DEF T, P, t, n, off, lim
<1>6. CASE ~(n < off \/ Len(P) >= lim)
  <2> DEFINE l == Len(P)
  <2>1. l \in Nat
    BY <1>3
  <2>2. l = n - off /\ n >= off /\ Len(T) = l + 1
    BY <1>1, <1>3, <1>4, <1>6
  <2> DEFINE A == Append(P, e)
  <2>3. A \in Seq(S) /\ Len(A) = l + 1 /\ A[l + 1] = e /\ \A j \in 1..l : A[j] = P[j]
    BY <1>3, AppendProperties
  <2> HIDE DEF A
  <2>4. ASSUME NEW j \in 1..Len(T) PROVE T[j] = A[j]
    <3>1. T[j] = t[off + j]
      BY <1>4
    <3>2. CASE j = l + 1
      <4>1. off + j = n + 1
        BY <1>1, <2>1, <2>2, <3>2
      <4> QED BY <1>2, <2>3, <3>1, <3>2, <4>1
    <3>3. CASE j # l + 1
      <4>1. j \in 1..l
        BY <2>1, <2>2, <3>3
      <4>2. off + j \in 1..n /\ P[j] = p[off + j]
        BY <1>3, <4>1
      <4> QED BY <1>2, <2>3, <3>1, <4>1, <4>2
    <3> QED BY <3>2, <3>3
  <2>5. T = A
    BY <1>4, <2>2, <2>3, <2>4, SeqEqual
  <2> QED BY <1>6, <2>5 DEF T, A, P, t, n, off, lim
<1> QED BY <1>5, <1>6

\* A query gives what it means as long as nothing it looks for comes after an
\* entry that ends it.
LEMMA QueryLoop ==
  ASSUME NEW S, NEW entries, NEW q, NEW s \in Seq(S), s = InOrder(entries, q),
         q.offset \in Nat, q.limit \in Nat,
         \A i, j \in 1..Len(s) :
           i <= j /\ EndsScan(s[i], q) => ~Selected(s[j], q)
  PROVE  /\ RunQuery(entries, q)
              = Page(Picked(s, {i \in 1..Len(s) : Selected(s[i], q)}), q)
         /\ RunQuery(entries, q) \in Seq(S)
<1> DEFINE n == Len(s)
           at == {i \in 1..n : Selected(s[i], q)}
           off == q.offset
           lim == q.limit
<1>1. n \in Nat /\ \A i \in 1..n : s[i] \in S
  OBVIOUS
<1>2. PICK scan : Runs(scan, entries, s, q, S)
  BY QueryUnfold
<1>3. PICK picked : Picks(picked, s, at, S)
  <2> HIDE DEF at
  <2> QED BY PickedUnfold
<1>4. /\ scan \in [0..n -> Scans(S)]
      /\ RunQuery(entries, q) = scan[n].results
      /\ scan[0] = Started
      /\ \A i \in 1..n : scan[i] = Visit(scan[i - 1], s[i], q)
  BY <1>2 DEF Runs
<1>5. /\ picked \in [0..n -> Seq(S)]
      /\ Picked(s, at) = picked[n]
      /\ picked[0] = <<>>
      /\ \A i \in 1..n : picked[i] = IF i \in at THEN Append(picked[i - 1], s[i])
                                     ELSE picked[i - 1]
  <2> HIDE DEF at
  <2> QED BY <1>3 DEF Picks
<1>6. \A i, j \in 1..n : i <= j /\ EndsScan(s[i], q) => ~(j \in at)
  OBVIOUS
<1>7. \A i \in 1..n : i \in at <=> Selected(s[i], q)
  OBVIOUS
<1> HIDE DEF n, at
<1> DEFINE page(i) == Page(picked[i], q)
           Ok(i) == /\ scan[i].results = page(i)
                    /\ ~scan[i].ended =>
                         scan[i].skipped = IF Len(picked[i]) < off THEN Len(picked[i])
                                           ELSE off
                    /\ scan[i].ended =>
                         \/ Len(page(i)) >= lim
                         \/ \A j \in 1..n : i <= j /\ i # 0 => j \notin at
           T == {i \in Nat : i <= n => Ok(i)}
<1>8. 0 \in T
  <2>1. /\ scan[0].results = <<>> /\ scan[0].skipped = 0 /\ scan[0].ended = FALSE
    BY <1>4 DEF Started
  <2>2. picked[0] \in Seq(S) /\ Len(picked[0]) = 0
    BY <1>1, <1>5
  <2>3. page(0) \in Seq(S) /\ Len(page(0)) = 0
    BY <2>2, PageLength
  <2>4. page(0) = <<>>
    BY <2>3
  <2>5. Ok(0)
    BY <2>1, <2>2, <2>4
  <2> HIDE DEF Ok
  <2> QED BY <2>5
<1>9. ASSUME NEW i \in Nat, i \in T PROVE i + 1 \in T
  <2> SUFFICES ASSUME i + 1 <= n PROVE Ok(i + 1)
    OBVIOUS
  <2> DEFINE k == i + 1
             x == scan[i]
             y == scan[k]
             e == s[k]
             p == picked[i]
             r == picked[k]
  <2>1. /\ i \in 0..n /\ k \in 1..n /\ k \in 0..n /\ k - 1 = i /\ k \in Nat /\ k # 0
        /\ Ok(i)
    BY <1>1, <1>9
  <2>2. /\ y = Visit(x, e, q)
        /\ r = IF k \in at THEN Append(p, e) ELSE p
    BY <1>4, <1>5, <2>1
  <2>3. x \in Scans(S) /\ p \in Seq(S) /\ e \in S /\ Len(p) \in Nat
    BY <1>1, <1>4, <1>5, <2>1
  <2>4. x.results \in Seq(S) /\ x.skipped \in Nat /\ x.ended \in BOOLEAN
        /\ DOMAIN x = {"skipped", "results", "ended"}
    BY <2>3 DEF Scans
  <2>5. k \in at => page(k) = IF Len(p) < off \/ Len(page(i)) >= lim THEN page(i)
                              ELSE Append(page(i), e)
    <3>1. Page(Append(p, e), q) = IF Len(p) < off \/ Len(page(i)) >= lim THEN page(i)
                                  ELSE Append(page(i), e)
      BY <2>3, PageGrows
    <3>2. k \in at => page(k) = Page(Append(p, e), q)
      BY <2>2
    <3> HIDE DEF p, e, off, lim, page, k
    <3> QED BY <3>1, <3>2
  <2>6. k \notin at => page(k) = page(i) /\ r = p
    BY <2>2
  <2>7. page(i) \in Seq(S) /\ Len(page(i)) \in Nat
    BY <2>3, PageLength
  <2>8. k \in at => Len(r) = Len(p) + 1
    BY <2>2, <2>3, AppendProperties
  <2>9. /\ x.results = page(i)
        /\ ~x.ended => x.skipped = IF Len(p) < off THEN Len(p) ELSE off
        /\ x.ended => \/ Len(page(i)) >= lim
                      \/ \A j \in 1..n : i <= j /\ i # 0 => j \notin at
    BY <2>1
  <2>10. (k \in at <=> Selected(e, q)) /\ (EndsScan(e, q) => \A j \in 1..n : k <= j => j \notin at)
    BY <1>6, <1>7, <2>1
  <2> SUFFICES /\ y.results = page(k)
               /\ ~y.ended => y.skipped = IF Len(r) < off THEN Len(r) ELSE off
               /\ y.ended => \/ Len(page(k)) >= lim
                             \/ \A j \in 1..n : k <= j => j \notin at
    BY <2>1
  <2> HIDE DEF k, x, y, e, p, r, page, Ok, off, lim
  <2>11. off \in Nat /\ lim \in Nat
    BY DEF off, lim
  <2>12. CASE x.ended \/ Len(x.results) >= lim \/ EndsScan(e, q)
    <3>1. y.results = x.results /\ y.ended = TRUE
      BY <2>2, <2>4, <2>12 DEF Visit, lim
    <3>2. Len(page(i)) >= lim \/ \A j \in 1..n : k <= j => j \notin at
      <4>1. CASE i # 0 /\ \A j \in 1..n : i <= j /\ i # 0 => j \notin at
        BY <2>1, <4>1 DEF k
      <4>2. CASE i = 0 /\ x.ended
        BY <1>4, <4>2 DEF Started, x
      <4> QED BY <2>9, <2>10, <2>12, <4>1, <4>2
    <3>3. CASE Len(page(i)) >= lim
      <4>1. page(k) = page(i)
        BY <2>5, <2>6, <3>3
      <4> QED BY <2>9, <3>1, <3>3, <4>1
    <3>4. CASE \A j \in 1..n : k <= j => j \notin at
      <4>1. k \notin at
        BY <2>1, <3>4
      <4> QED BY <2>6, <2>9, <3>1, <3>4, <4>1
    <3> QED BY <3>2, <3>3, <3>4
  <2>13. CASE ~(x.ended \/ Len(x.results) >= lim \/ EndsScan(e, q)) /\ k \notin at
    <3>1. y = x
      BY <2>2, <2>10, <2>13 DEF Visit, lim
    <3> QED BY <2>6, <2>9, <2>13, <3>1
  <2>14. CASE /\ ~(x.ended \/ Len(x.results) >= lim \/ EndsScan(e, q)) /\ k \in at
              /\ x.skipped < off
    <3>1. y = [x EXCEPT !.skipped = @ + 1]
      BY <2>2, <2>10, <2>14 DEF Visit, lim, off
    <3>2. y.results = x.results /\ y.ended = x.ended /\ y.skipped = x.skipped + 1
      BY <2>4, <3>1
    <3>3. x.skipped = Len(p) /\ Len(p) < off
      BY <2>3, <2>9, <2>11, <2>14
    <3> QED BY <2>3, <2>5, <2>8, <2>9, <2>11, <2>14, <3>2, <3>3
  <2>15. CASE /\ ~(x.ended \/ Len(x.results) >= lim \/ EndsScan(e, q)) /\ k \in at
              /\ ~(x.skipped < off)
    <3>1. y = [x EXCEPT !.results = Append(@, e)]
      BY <2>2, <2>10, <2>15 DEF Visit, lim, off
    <3>2. y.results = Append(x.results, e) /\ y.ended = x.ended /\ y.skipped = x.skipped
      BY <2>4, <3>1
    <3>3. x.skipped = off /\ ~(Len(p) < off)
      BY <2>3, <2>9, <2>11, <2>15
    <3> QED BY <2>3, <2>5, <2>8, <2>9, <2>11, <2>15, <3>2, <3>3
  <2> QED BY <2>12, <2>13, <2>14, <2>15
<1>10. Ok(n)
  <2> HIDE DEF Ok
  <2>1. Nat \subseteq T
    <3> HIDE DEF T
    <3> QED BY <1>8, <1>9, AllNaturals
  <2> QED BY <1>1, <2>1
<1>11. RunQuery(entries, q) = Page(Picked(s, at), q)
  BY <1>4, <1>5, <1>10
<1>12. RunQuery(entries, q) \in Seq(S)
  <2>1. n \in 0..n
    BY <1>1
  <2>2. scan[n] \in Scans(S)
    BY <1>4, <2>1
  <2> QED BY <1>4, <2>2 DEF Scans
<1> QED BY <1>11, <1>12 DEF at, n
-----------------------------------------------------------------------------
(***************************************************************************)
(* Types.                                                                  *)
(***************************************************************************)
LEMMA EntryTypes ==
  ASSUME NEW n \in 1..MaxEntries, NEW c \in Categories, NEW s \in Seq(AuditEntry),
         clock \in Time
  PROVE  /\ Entry(n, c, s) \in AuditEntry
         /\ Entry(n, c, s).entry_hash
              = Append(LastHash(s), [category |-> c, time |-> clock])
         /\ LastHash(s) \in Hash
<1> DEFINE content == [category |-> c, time |-> clock]
<1>1. content \in Content
  BY DEF Content
<1>2. LastHash(s) \in Seq(Content)
  <2>1. CASE s = <<>>
    BY <2>1 DEF LastHash
  <2>2. CASE s # <<>>
    <3>1. s[Len(s)] \in AuditEntry
      BY <2>2
    <3> QED BY <2>2, <3>1 DEF LastHash, AuditEntry, Hash
  <2> QED BY <2>1, <2>2
<1> HIDE DEF content
<1>3. Append(LastHash(s), content) \in Hash
  BY <1>1, <1>2, AppendProperties DEF Hash
<1>4. Entry(n, c, s) = [sequence |-> n, category |-> c, time |-> clock,
                        entry_hash |-> Append(LastHash(s), content)]
  BY DEF Entry, content
<1> HIDE DEF content
<1>5. Entry(n, c, s) \in AuditEntry
  BY <1>3, <1>4 DEF AuditEntry
<1>6. Entry(n, c, s).entry_hash = Append(LastHash(s), content)
  BY <1>4
<1> QED BY <1>2, <1>5, <1>6 DEF content, Hash

\* A query without bounds on the time never ends early.
LEMMA UnboundedLoop ==
  ASSUME NEW S, NEW s \in Seq(S), NEW q, q.since = 0, q.until = 0,
         q.offset \in Nat, q.limit \in Nat, q.asc \in BOOLEAN
  PROVE  /\ q.asc => RunQuery(s, q)
                       = Page(Picked(s, {i \in 1..Len(s) : OfCategory(s[i], q)}), q)
         /\ RunQuery(s, q) \in Seq(S)
<1> DEFINE u == InOrder(s, q)
<1>1. u \in Seq(S) /\ (q.asc => u = s)
  <2>1. CASE q.asc
    BY <2>1 DEF InOrder
  <2>2. CASE ~q.asc
    <3> DEFINE n == Len(s)
    <3>1. u = [i \in 1..n |-> s[(n - i) + 1]] /\ n \in Nat
      BY <2>2 DEF InOrder, Reverse
    <3>2. \A i \in 1..n : s[(n - i) + 1] \in S
      BY <3>1
    <3> HIDE DEF n
    <3>3. u \in Seq(S)
      BY <3>1, <3>2
    <3> QED BY <2>2, <3>3
  <2> QED BY <2>1, <2>2
<1>2. PICK t \in Seq(S) : t = u
  BY <1>1
<1> DEFINE P == {i \in 1..Len(t) : Selected(t[i], q)}
<1>3. \A e : ~EndsScan(e, q) /\ (Selected(e, q) <=> OfCategory(e, q))
  BY DEF EndsScan, Selected, TooEarly, TooLate
<1>4. \A i, j \in 1..Len(t) : i <= j /\ EndsScan(t[i], q) => ~Selected(t[j], q)
  BY <1>3
<1>5. RunQuery(s, q) = Page(Picked(t, P), q) /\ RunQuery(s, q) \in Seq(S)
  BY <1>2, <1>4, QueryLoop
<1>6. P = {i \in 1..Len(t) : OfCategory(t[i], q)}
  BY <1>3
<1> QED BY <1>1, <1>2, <1>5, <1>6

\* The page a reader asks for.
LEMMA NextPageLoop ==
  ASSUME NEW S, NEW s \in Seq(S), NEW c \in Readers,
         seen \in [Readers -> Seq(AuditEntry)]
  PROVE  /\ c.asc =>
              RunQuery(s, NextPage(c))
                = Page(Picked(s, {i \in 1..Len(s) :
                                    c.category \in {None, s[i].category}}),
                       NextPage(c))
         /\ RunQuery(s, NextPage(c)) \in Seq(S)
<1> DEFINE q == NextPage(c)
<1>1. /\ q.category = c.category /\ q.since = 0 /\ q.until = 0
      /\ q.limit = PageSize /\ q.offset = Len(seen[c]) /\ q.asc = c.asc
  BY DEF NextPage
<1>2. q.offset \in Nat /\ q.limit \in Nat /\ q.asc \in BOOLEAN
  BY <1>1, ReaderAssumption
<1> HIDE DEF q
<1>3. /\ q.asc => RunQuery(s, q)
                    = Page(Picked(s, {i \in 1..Len(s) : OfCategory(s[i], q)}), q)
      /\ RunQuery(s, q) \in Seq(S)
  BY <1>1, <1>2, UnboundedLoop
<1>4. {i \in 1..Len(s) : OfCategory(s[i], q)}
        = {i \in 1..Len(s) : c.category \in {None, s[i].category}}
  BY <1>1 DEF OfCategory
<1> QED BY <1>1, <1>3, <1>4 DEF q

\* The types are kept by every step because the log stays within its bound.
Typed == TypeOK /\ Len(log) <= MaxEntries

LEMMA TypesInit == Init => Typed
<1> SUFFICES ASSUME Init PROVE Typed
  OBVIOUS
<1>1. log \in Seq(AuditEntry) /\ anchor.of \in Seq(AuditEntry)
  BY DEF Init
<1>2. clock \in Time /\ damages \in Nat
  BY ReaderAssumption DEF Init, Time
<1>3. seen \in [Readers -> Seq(AuditEntry)]
  BY DEF Init
<1>4. Len(log) <= MaxEntries
  BY ReaderAssumption DEF Init
<1> QED BY <1>1, <1>2, <1>3, <1>4 DEF TypeOK, Typed

LEMMA TypesNext == Typed /\ [Next]_vars => Typed'
<1> SUFFICES ASSUME Typed, [Next]_vars PROVE Typed'
  OBVIOUS
<1> USE DEF Typed, TypeOK
<1>1. ASSUME NEW c \in Categories, Record(c) PROVE Typed'
  <2>1. Len(log) \in Nat /\ Len(log) + 1 \in 1..MaxEntries
    BY <1>1, ReaderAssumption DEF Record
  <2>2. Entry(Len(log) + 1, c, log) \in AuditEntry
    BY <2>1, EntryTypes
  <2>3. log' \in Seq(AuditEntry) /\ Len(log') = Len(log) + 1
    BY <1>1, <2>2, AppendProperties DEF Record
  <2> QED BY <1>1, <2>1, <2>3 DEF Record
<1>2. ASSUME NEW c \in Readers, ReadPage(c) PROVE Typed'
  <2>1. RunQuery(log, NextPage(c)) \in Seq(AuditEntry) /\ seen[c] \in Seq(AuditEntry)
    BY NextPageLoop
  <2>2. seen[c] \o RunQuery(log, NextPage(c)) \in Seq(AuditEntry)
    BY <2>1, ConcatProperties
  <2>3. seen' \in [Readers -> Seq(AuditEntry)]
    BY <1>2, <2>2 DEF ReadPage
  <2> QED BY <1>2, <2>3 DEF ReadPage
<1>3. CASE Anchor
  BY <1>3 DEF Anchor
<1>4. CASE Tick
  BY <1>4, ReaderAssumption DEF Tick, Time
<1>5. CASE SetBack
  BY <1>5, ReaderAssumption DEF SetBack, Time
<1>6. ASSUME NEW fault \in Faults, Damage(fault) PROVE Typed'
  <2>1. fault \in {"modify", "truncate", "repeat"} /\ log # <<>>
    BY <1>6, ReaderAssumption DEF Damage
  <2>2. log' \in Seq(AuditEntry) /\ Len(log') <= MaxEntries
    <3>1. CASE fault = "modify"
      <4>1. PICK i \in 1..Len(log), c \in Categories :
              log' = [log EXCEPT ![i] = Entry(i, c, SubSeq(log, 1, i - 1))]
        BY <1>6, <3>1 DEF Damage
      <4>2. i \in 1..MaxEntries
        BY ReaderAssumption
      <4>3. SubSeq(log, 1, i - 1) \in Seq(AuditEntry)
        BY SubSeqProperties
      <4>4. Entry(i, c, SubSeq(log, 1, i - 1)) \in AuditEntry
        BY <4>2, <4>3, EntryTypes
      <4> QED BY <4>1, <4>4
    <3>2. CASE fault = "truncate"
      <4>1. log' = SubSeq(log, 1, Len(log) - 1)
        BY <1>6, <3>2 DEF Damage
      <4>2. Len(log) \in Nat \ {0}
        BY <2>1
      <4>3. log' \in Seq(AuditEntry) /\ Len(log') = Len(log) - 1
        <5> DEFINE k == Len(log) - 1
        <5>1. k \in Nat /\ log' = SubSeq(log, 1, k) /\ \A i \in 1..k : log[i] \in AuditEntry
          BY <4>1, <4>2
        <5> HIDE DEF k
        <5>2. log' \in Seq(AuditEntry) /\ Len(log') = k
          BY <5>1, SubSeqProperties
        <5> QED BY <5>2 DEF k
      <4> QED BY <4>2, <4>3, ReaderAssumption
    <3>3. CASE fault = "repeat"
      <4>1. /\ log' = Append(log, log[Len(log)]) /\ log[Len(log)] \in AuditEntry
            /\ Len(log) < MaxEntries
        BY <1>6, <2>1, <3>3 DEF Damage
      <4>2. Len(log) \in Nat /\ Len(log') = Len(log) + 1 /\ log' \in Seq(AuditEntry)
        BY <4>1, AppendProperties
      <4> QED BY <4>1, <4>2, ReaderAssumption
    <3> QED BY <2>1, <3>1, <3>2, <3>3
  <2>3. damages' \in Nat
    BY <1>6 DEF Damage
  <2> QED BY <1>6, <2>2, <2>3 DEF Damage
<1>7. CASE UNCHANGED vars
  BY <1>7 DEF vars
<1> QED BY <1>1, <1>2, <1>3, <1>4, <1>5, <1>6, <1>7 DEF Next

\* Every variable of the log and its readers has its type.
THEOREM ReaderTypes == Spec => []TypeOK
<1>1. Init => Typed
  BY TypesInit
<1>2. Typed /\ [Next]_vars => Typed'
  BY TypesNext
<1>3. Typed => TypeOK
  BY DEF Typed
<1> QED BY <1>1, <1>2, <1>3, PTL DEF Spec
-----------------------------------------------------------------------------
(***************************************************************************)
(* Queries and pages.                                                      *)
(***************************************************************************)

\* Where each entry is at least as old as the next, so are all after it.
LEMMA InTimeOrder ==
  ASSUME NEW s \in Seq(AuditEntry),
         \A i \in 1..(Len(s) - 1) : s[i].time <= s[i + 1].time
  PROVE  \A i, j \in 1..Len(s) : i <= j => s[i].time <= s[j].time
<1> DEFINE n == Len(s)
           at(i) == s[i].time
           T == {d \in Nat : \A i \in 1..n : i + d <= n => at(i) <= at(i + d)}
<1>1. n \in Nat /\ \A i \in 1..n : at(i) \in Int
  <2>1. \A i \in 1..n : s[i] \in AuditEntry
    OBVIOUS
  <2> QED BY <2>1, ReaderAssumption DEF AuditEntry, Time
<1>2. \A i \in 1..(n - 1) : at(i) <= at(i + 1)
  OBVIOUS
<1> HIDE DEF n, at
<1>3. 0 \in T
  BY <1>1
<1>4. ASSUME NEW d \in Nat, d \in T PROVE d + 1 \in T
  <2> SUFFICES ASSUME NEW i \in 1..n, i + (d + 1) <= n
               PROVE at(i) <= at(i + (d + 1))
    OBVIOUS
  <2>1. at(i) <= at(i + d)
    BY <1>1, <1>4
  <2>2. i + d \in 1..(n - 1) /\ i + d \in 1..n /\ (i + d) + 1 = i + (d + 1)
        /\ i + (d + 1) \in 1..n
    BY <1>1
  <2>3. at(i + d) <= at(i + (d + 1))
    BY <1>2, <2>2
  <2> QED BY <1>1, <2>1, <2>2, <2>3
<1>5. Nat \subseteq T
  <2> HIDE DEF T
  <2> QED BY <1>3, <1>4, AllNaturals
<1>6. ASSUME NEW i \in 1..n, NEW j \in 1..n, i <= j PROVE at(i) <= at(j)
  <2>1. j - i \in Nat /\ i + (j - i) = j
    BY <1>6
  <2>2. j - i \in T
    BY <1>5, <2>1
  <2> QED BY <1>1, <2>1, <2>2
<1> QED BY <1>6 DEF n, at

\* Whatever is asked, the loop gives it, once the log is in the order of time:
\* what ends a scan is too late or too early, and so is all that would follow.
LEMMA QueryOfOrdered ==
  ASSUME NEW s \in Seq(AuditEntry), NEW q \in Query,
         \A i \in 1..(Len(s) - 1) : s[i].time <= s[i + 1].time
  PROVE  RunQuery(s, q) = Meaning(s, q)
<1> DEFINE t == InOrder(s, q)
           n == Len(s)
<1>1. /\ q.offset \in Nat /\ q.limit \in Nat /\ q.since \in Nat /\ q.until \in Nat
      /\ q.asc \in BOOLEAN
  <2>1. /\ q.offset \in Offsets /\ q.limit \in Limits /\ q.since \in 0..MaxTime
        /\ q.until \in 0..MaxTime /\ q.asc \in BOOLEAN
    BY DEF Query
  <2>2. Offsets \subseteq Nat /\ Limits \subseteq Nat /\ MaxTime \in Nat
    BY ReaderAssumption
  <2>3. q.offset \in Nat /\ q.limit \in Nat
    BY <2>1, <2>2
  <2>4. q.since \in Nat /\ q.until \in Nat
    BY <2>1, <2>2
  <2> QED BY <2>1, <2>3, <2>4
<1>2. \A i, j \in 1..n : i <= j => s[i].time <= s[j].time
  BY InTimeOrder
<1>3. n \in Nat /\ \A i \in 1..n : s[i] \in AuditEntry /\ s[i].time \in Nat
  <2>1. n \in Nat /\ \A i \in 1..n : s[i] \in AuditEntry
    OBVIOUS
  <2> QED BY <2>1, ReaderAssumption DEF AuditEntry, Time
<1>4. /\ t \in Seq(AuditEntry) /\ Len(t) = n
      /\ \A i \in 1..n : t[i].time \in Nat
      /\ \A i, j \in 1..n : i <= j => IF q.asc THEN t[i].time <= t[j].time
                                     ELSE t[j].time <= t[i].time
  <2>1. CASE q.asc
    <3>1. t = s
      BY <2>1 DEF InOrder
    <3> QED BY <1>2, <1>3, <2>1, <3>1
  <2>2. CASE ~q.asc
    <3> HIDE DEF n
    <3>1. t = [i \in 1..n |-> s[(n - i) + 1]]
      BY <2>2 DEF InOrder, Reverse, n
    <3>2. \A i \in 1..n : (n - i) + 1 \in 1..n
      BY <1>3
    <3>3. \A i \in 1..n : t[i] = s[(n - i) + 1] /\ t[i] \in AuditEntry
      BY <1>3, <3>1, <3>2
    <3>4. t \in Seq(AuditEntry) /\ Len(t) = n
      BY <1>3, <3>1, <3>2
    <3>5. \A i \in 1..n : t[i].time \in Nat
      BY <1>3, <3>2, <3>3
    <3>6. ASSUME NEW i \in 1..n, NEW j \in 1..n, i <= j
          PROVE  t[j].time <= t[i].time
      <4>1. (n - j) + 1 <= (n - i) + 1
        BY <1>3, <3>6
      <4> HIDE DEF t
      <4> QED BY <1>2, <3>2, <3>3, <4>1
    <3> HIDE DEF t
    <3> QED BY <2>2, <3>4, <3>5, <3>6
  <2> QED BY <2>1, <2>2
<1> HIDE DEF n
<1>5. Meaning(s, q) = Page(Picked(t, {i \in 1..Len(t) : Selected(t[i], q)}), q)
  BY DEF Meaning
<1>6. t = InOrder(s, q)
  OBVIOUS
<1> HIDE DEF t
<1>7. ASSUME NEW i \in 1..Len(t), NEW j \in 1..Len(t), i <= j, EndsScan(t[i], q)
      PROVE  ~Selected(t[j], q)
  <2>1. /\ t[i].time \in Nat /\ t[j].time \in Nat
        /\ IF q.asc THEN t[i].time <= t[j].time ELSE t[j].time <= t[i].time
    BY <1>4, <1>7
  <2>2. CASE q.asc
    <3>1. q.until # 0 /\ t[i].time > q.until
      BY <1>7, <2>2 DEF EndsScan, TooLate
    <3> QED BY <1>1, <2>1, <2>2, <3>1 DEF Selected, TooLate
  <2>3. CASE ~q.asc
    <3>1. q.since # 0 /\ t[i].time < q.since
      BY <1>7, <2>3 DEF EndsScan, TooEarly
    <3> QED BY <1>1, <2>1, <2>3, <3>1 DEF Selected, TooEarly
  <2> QED BY <2>2, <2>3
<1> QED BY <1>1, <1>4, <1>5, <1>6, <1>7, QueryLoop

\* Ending the scan early loses nothing: in a log whose entries are in the order
\* of time every query returns exactly what its filters, its offset and its
\* limit mean.
THEOREM QueriesFilter == Spec => []QueryIsFilter
<1>1. Typed => QueryIsFilter
  BY QueryOfOrdered DEF Typed, TypeOK, QueryIsFilter
<1>2. Init => Typed
  BY TypesInit
<1>3. Typed /\ [Next]_vars => Typed'
  BY TypesNext
<1> QED BY <1>1, <1>2, <1>3, PTL DEF Spec

LEMMA PagesNext == Typed /\ PagesAreExact /\ [Next]_vars => PagesAreExact'
<1> SUFFICES ASSUME Typed, PagesAreExact, [Next]_vars, damages' = 0,
                    NEW c \in Readers, c.asc
             PROVE  (/\ Len(seen[c]) <= Len(Asked(c))
                     /\ seen[c] = SubSeq(Asked(c), 1, Len(seen[c])))'
  BY DEF PagesAreExact
<1> DEFINE of == {i \in 1..Len(log) : c.category \in {None, log[i].category}}
           all == Picked(log, of)
           k == Len(seen[c])
           Exact == k <= Len(all) /\ seen[c] = SubSeq(all, 1, k)
<1> SUFFICES Exact'
  BY DEF Asked
<1>1. /\ log \in Seq(AuditEntry) /\ seen \in [Readers -> Seq(AuditEntry)]
      /\ damages \in Nat /\ seen[c] \in Seq(AuditEntry) /\ k \in Nat
  BY DEF Typed, TypeOK
<1>2. all \in Seq(AuditEntry) /\ Len(all) \in Nat
  <2> HIDE DEF of
  <2>1. PICK picked : Picks(picked, log, of, AuditEntry)
    BY <1>1, PickedUnfold
  <2>2. Len(log) \in 0..Len(log)
    BY <1>1
  <2>3. all \in Seq(AuditEntry)
    BY <2>1, <2>2 DEF Picks
  <2> HIDE DEF all
  <2> QED BY <2>3
<1>3. damages = 0 => Exact
  BY DEF PagesAreExact, Asked
<1>4. ASSUME NEW d \in Categories, Record(d) PROVE Exact'
  <2> DEFINE e == Entry(Len(log) + 1, d, log)
  <2>1. /\ log' = Append(log, e) /\ seen' = seen /\ damages = 0
        /\ Len(log) + 1 \in 1..MaxEntries
    BY <1>1, <1>4, ReaderAssumption DEF Record
  <2>2. e \in AuditEntry
    BY <1>1, <2>1, EntryTypes DEF Typed, TypeOK
  <2> HIDE DEF e
  <2>3. \A i \in 1..Len(log) : i \in of <=> i \in of'
    BY <1>1, <2>1, <2>2
  <2>4. all' = all \/ all' = Append(all, e)
    <3> HIDE DEF of
    <3>1. all' = Picked(Append(log, e), of')
      BY <2>1
    <3> QED BY <1>1, <2>2, <2>3, <3>1, PickedAppend
  <2>5. k <= Len(all) /\ seen[c] = SubSeq(all, 1, k) /\ k' = k /\ seen[c]' = seen[c]
    BY <1>3, <2>1
  <2> HIDE DEF all, k
  <2>6. k <= Len(all') /\ SubSeq(all', 1, k) = SubSeq(all, 1, k)
    <3>1. CASE all' = all
      BY <2>5, <3>1
    <3>2. CASE all' = Append(all, e)
      <4>1. /\ all' \in Seq(AuditEntry) /\ Len(all') = Len(all) + 1
            /\ \A i \in 1..k : all'[i] = all[i]
        BY <1>1, <1>2, <2>2, <2>5, <3>2, AppendProperties
      <4> QED BY <1>1, <1>2, <2>5, <4>1
    <3> QED BY <2>4, <3>1, <3>2
  <2> QED BY <2>5, <2>6 DEF k
<1>5. ASSUME NEW d \in Readers, ReadPage(d) PROVE Exact'
  <2>1. /\ log' = log /\ damages = 0
        /\ seen' = [seen EXCEPT ![d] = @ \o RunQuery(log, NextPage(d))]
    BY <1>5 DEF ReadPage
  <2>2. all' = all /\ Exact
    BY <1>3, <2>1
  <2>3. CASE d # c
    <3>1. seen'[c] = seen[c]
      BY <1>1, <2>1, <2>3
    <3> QED BY <2>2, <3>1
  <2>4. CASE d = c
    <3> DEFINE p == RunQuery(log, NextPage(c))
               last == IF k + PageSize < Len(all) THEN k + PageSize ELSE Len(all)
    <3>1. p = Page(all, NextPage(c))
      BY <1>1, NextPageLoop
    <3>2. p = SubSeq(all, k + 1, last)
      BY <3>1 DEF Page, NextPage
    <3>3. seen'[c] = seen[c] \o p
      BY <1>1, <2>1, <2>4
    <3> HIDE DEF all, k, p
    <3>4. last \in Nat /\ k <= last /\ last <= Len(all)
      BY <1>1, <1>2, <2>2, ReaderAssumption
    <3> HIDE DEF last
    <3>5. SubSeq(all, 1, k) \o SubSeq(all, k + 1, last) = SubSeq(all, 1, last)
      <4> DEFINE m == 1
      <4>1. m \in 1..(Len(all) + 1) /\ k \in (m - 1)..Len(all) /\ last \in k..Len(all)
        BY <1>1, <1>2, <2>2, <3>4
      <4> HIDE DEF m
      <4>2. SubSeq(all, m, k) \o SubSeq(all, k + 1, last) = SubSeq(all, m, last)
        BY <1>2, <4>1, ConcatAdjacentSubSeq
      <4> QED BY <4>2 DEF m
    <3>6. seen'[c] = SubSeq(all, 1, last)
      BY <2>2, <3>2, <3>3, <3>5
    <3>7. Len(seen'[c]) = last
      BY <1>2, <3>4, <3>6
    <3> QED BY <2>2, <3>4, <3>6, <3>7 DEF k
  <2> QED BY <2>3, <2>4
<1>6. CASE Anchor \/ Tick \/ SetBack \/ UNCHANGED vars
  <2>1. log' = log /\ seen' = seen /\ damages' = damages
    BY <1>6 DEF Anchor, Tick, SetBack, vars
  <2> QED BY <1>3, <2>1
<1>7. ASSUME NEW fault \in Faults, Damage(fault) PROVE Exact'
  <2>1. damages' = damages + 1
    BY <1>7 DEF Damage
  <2> QED BY <1>1, <2>1
<1> QED BY <1>4, <1>5, <1>6, <1>7 DEF Next

\* A reader that takes the log page by page, oldest first, while entries are
\* recorded, is given every entry of its category once and in order, however
\* long the pages and the log are.
THEOREM PagesExact == Spec => []PagesAreExact
<1>1. Init => PagesAreExact
  <2> SUFFICES ASSUME Init, NEW c \in Readers
               PROVE  /\ Len(seen[c]) <= Len(Asked(c))
                      /\ seen[c] = SubSeq(Asked(c), 1, Len(seen[c]))
    BY DEF PagesAreExact
  <2> DEFINE of == {i \in 1..Len(log) : c.category \in {None, log[i].category}}
             all == Picked(log, of)
  <2>1. log \in Seq(AuditEntry) /\ log = <<>> /\ seen[c] = <<>>
    BY DEF Init
  <2> HIDE DEF of
  <2>2. PICK picked : Picks(picked, log, of, AuditEntry)
    BY <2>1, PickedUnfold
  <2>3. all = <<>>
    BY <2>1, <2>2 DEF Picks
  <2> HIDE DEF all
  <2>4. Len(seen[c]) <= Len(all) /\ seen[c] = SubSeq(all, 1, Len(seen[c]))
    BY <2>1, <2>3
  <2> QED BY <2>4 DEF all, of, Asked
<1>2. Init => Typed
  BY TypesInit
<1>3. Typed /\ [Next]_vars => Typed'
  BY TypesNext
<1>4. Typed /\ PagesAreExact /\ [Next]_vars => PagesAreExact'
  BY PagesNext
<1> QED BY <1>1, <1>2, <1>3, <1>4, PTL DEF Spec
-----------------------------------------------------------------------------
(***************************************************************************)
(* Proofs and roots of the log.                                            *)
(***************************************************************************)
LEMMA LeavesFacts ==
  ASSUME NEW s \in Seq(AuditEntry)
  PROVE  /\ List(Leaves(s)) /\ Len(Leaves(s)) = Len(s)
         /\ DOMAIN Leaves(s) = 1..Len(s)
         /\ \A i \in 1..Len(s) : Leaves(s)[i] = Leaf(s[i])
<1>1. Len(s) \in Nat
  OBVIOUS
<1> DEFINE n == Len(s)
           e(i) == Leaf(s[i])
<1>2. Leaves(s) = [i \in 1..n |-> e(i)]
  BY DEF Leaves
<1> HIDE DEF n, e
<1>3. n \in Nat
  BY <1>1 DEF n
<1>4. Leaves(s) \in Seq({e(i) : i \in 1..n}) /\ Len(Leaves(s)) = n
  BY <1>2, <1>3
<1>5. \A i \in 1..n : Leaves(s)[i] = e(i)
  BY <1>2
<1>6. DOMAIN Leaves(s) = 1..n
  BY <1>2
<1> QED BY <1>4, <1>5, <1>6 DEF List, n, e

\* A Merkle proof leads from its leaf, and from no other, to the root: in the
\* tree of every log, and in the trees of numbered leaves of every size.
THEOREM ProofsLead == Spec => []ProofsVerify
<1>1. Typed => ProofsVerify
  <2> SUFFICES ASSUME Typed PROVE ProofsVerify
    OBVIOUS
  <2> DEFINE trees == IF log # <<>> THEN {Leaves(log)}
                      ELSE {[i \in 1..n |-> [leaf |-> i]] : n \in 1..MaxLeaves}
  <2>1. ASSUME NEW leaves \in trees
        PROVE  List(leaves) /\ leaves # <<>> /\ DOMAIN leaves = 1..Len(leaves)
    <3>1. CASE log # <<>>
      <4>1. leaves = Leaves(log) /\ log \in Seq(AuditEntry)
        BY <3>1 DEF Typed, TypeOK
      <4>2. Len(log) # 0
        BY <3>1, <4>1
      <4>3. List(leaves) /\ Len(leaves) = Len(log) /\ DOMAIN leaves = 1..Len(log)
        BY <4>1, LeavesFacts
      <4> QED BY <4>2, <4>3
    <3>2. CASE log = <<>>
      <4>1. PICK n \in 1..MaxLeaves : leaves = [i \in 1..n |-> [leaf |-> i]]
        BY <3>2
      <4>2. n \in Nat \ {0}
        BY ReaderAssumption
      <4> DEFINE e(i) == [leaf |-> i]
      <4>3. leaves = [i \in 1..n |-> e(i)]
        BY <4>1
      <4> HIDE DEF e, trees
      <4>4. /\ leaves \in Seq({e(i) : i \in 1..n}) /\ Len(leaves) = n
            /\ DOMAIN leaves = 1..n
        BY <4>2, <4>3
      <4> QED BY <4>2, <4>4 DEF List
    <3> QED BY <3>1, <3>2
  <2>2. ASSUME NEW leaves \in trees, NEW i \in DOMAIN leaves, NEW j \in DOMAIN leaves
        PROVE  FoldProof(leaves[j], i, MerkleProof(leaves, i)) = MerkleRoot(leaves)
                 <=> leaves[j] = leaves[i]
    <3> HIDE DEF trees
    <3>1. List(leaves) /\ leaves # <<>> /\ i \in 1..Len(leaves)
      BY <2>1
    <3> QED BY <3>1, ProofClimbs
  <2> QED BY <2>2 DEF ProofsVerify
<1>2. Init => Typed
  BY TypesInit
<1>3. Typed /\ [Next]_vars => Typed'
  BY TypesNext
<1> QED BY <1>1, <1>2, <1>3, PTL DEF Spec

\* An entry commits to all that is before it, so that its hash is as long as its
\* position and ends with its own content.
Chained(s) ==
  \A i \in 1..Len(s) :
    /\ s[i].sequence = i
    /\ Len(s[i].entry_hash) = i
    /\ s[i].entry_hash[i] = [category |-> s[i].category, time |-> s[i].time]

\* The inductive invariant of the anchored root.
Anchored ==
  /\ Typed
  /\ Chained(log) /\ Chained(anchor.of)
  /\ anchor.root = ComputeMerkleRoot(anchor.of)

\* Leaves, nodes and the root of an empty log are told apart.
LEMMA KindsOfHash ==
  ASSUME NEW e, NEW a, NEW b
  PROVE  Leaf(e) # Node(a, b) /\ EMPTY_LOG # Leaf(e) /\ EMPTY_LOG # Node(a, b)
<1>1. DOMAIN Leaf(e) = {"leaf"} /\ DOMAIN EMPTY_LOG = {"empty"}
  BY DEF Leaf, EMPTY_LOG
<1>2. DOMAIN Node(a, b) = {"left", "right"}
  BY DEF Node
<1>3. "leaf" # "left" /\ "empty" # "left" /\ "empty" # "leaf"
  OBVIOUS
<1> QED BY <1>1, <1>2, <1>3

\* The root of a log with entries is a leaf or a node.
LEMMA RootNotEmpty ==
  ASSUME NEW s \in Seq(AuditEntry), s # <<>>
  PROVE  ComputeMerkleRoot(s) # EMPTY_LOG
<1> DEFINE leaves == Leaves(s)
           level == Levels(leaves)
           H == Height(level)
<1>1. /\ List(leaves) /\ Len(leaves) = Len(s)
      /\ \A i \in 1..Len(s) : leaves[i] = Leaf(s[i])
  BY LeavesFacts
<1>2. Len(s) \in Nat \ {0}
  OBVIOUS
<1>3. leaves # <<>>
  BY <1>1, <1>2
<1> HIDE DEF leaves
<1>4. /\ H \in 0..Len(leaves) /\ level[0] = leaves
      /\ \A h \in 0..H : List(level[h]) /\ level[h] # <<>>
      /\ \A h \in 0..(H - 1) : level[h + 1] = Parents(level[h])
      /\ Len(level[H]) = 1 /\ MerkleRoot(leaves) = level[H][1]
  BY <1>1, <1>3, HeightFacts
<1> HIDE DEF level, H
<1>5. CASE H = 0
  <2>1. MerkleRoot(leaves) = Leaf(s[1])
    BY <1>1, <1>2, <1>4, <1>5
  <2> QED BY <2>1, KindsOfHash DEF ComputeMerkleRoot, leaves
<1>6. CASE H # 0
  <2> DEFINE h == H - 1
  <2>1. h \in 0..(H - 1) /\ h \in 0..H /\ h + 1 = H
    BY <1>1, <1>2, <1>4, <1>6
  <2> HIDE DEF h
  <2>2. level[H] = Parents(level[h]) /\ List(level[h]) /\ level[h] # <<>>
    BY <1>4, <2>1
  <2>3. level[H][1] = Node(Padded(level[h])[2 * 1 - 1], Padded(level[h])[2 * 1])
    <3>1. 1 \in 1..Len(Parents(level[h]))
      BY <1>4, <2>2
    <3> QED BY <2>2, <3>1, ParentsFacts
  <2> QED BY <1>4, <2>3, KindsOfHash DEF ComputeMerkleRoot, leaves
<1> QED BY <1>5, <1>6

\* Logs with the same root are the same.
LEMMA RootsTellLogs ==
  ASSUME NEW s \in Seq(AuditEntry), NEW t \in Seq(AuditEntry), Chained(s), Chained(t),
         ComputeMerkleRoot(s) = ComputeMerkleRoot(t)
  PROVE  s = t
<1>1. ASSUME NEW u \in Seq(AuditEntry), u = <<>> PROVE ComputeMerkleRoot(u) = EMPTY_LOG
  <2>1. Len(u) = 0 /\ List(Leaves(u)) /\ Len(Leaves(u)) = Len(u)
    BY <1>1, LeavesFacts
  <2>2. Leaves(u) = <<>>
    BY <2>1 DEF List
  <2> QED BY <2>2 DEF ComputeMerkleRoot, MerkleRoot
<1>2. CASE s = <<>> \/ t = <<>>
  BY <1>1, <1>2, RootNotEmpty
<1>3. CASE s # <<>> /\ t # <<>>
  <2>1. ASSUME NEW u \in Seq(AuditEntry), Chained(u), u # <<>>
        PROVE  /\ List(Leaves(u)) /\ Leaves(u) # <<>> /\ Distinct(Leaves(u))
               /\ \A i \in 1..Len(Leaves(u)) : \A a, b : Leaves(u)[i] # Node(a, b)
    <3>1. /\ List(Leaves(u)) /\ Len(Leaves(u)) = Len(u)
          /\ \A i \in 1..Len(u) : Leaves(u)[i] = Leaf(u[i])
      BY LeavesFacts
    <3>2. Leaves(u) # <<>>
      <4>1. Len(u) # 0
        BY <2>1
      <4> QED BY <3>1, <4>1
    <3>3. ASSUME NEW i \in 1..Len(u), NEW j \in 1..Len(u), Leaves(u)[i] = Leaves(u)[j]
          PROVE  i = j
      <4>1. Leaf(u[i]).leaf = Leaf(u[j]).leaf
        BY <3>1, <3>3
      <4>2. u[i].entry_hash = u[j].entry_hash
        BY <4>1 DEF Leaf
      <4>3. Len(u[i].entry_hash) = i /\ Len(u[j].entry_hash) = j
        BY <2>1 DEF Chained
      <4> QED BY <4>2, <4>3
    <3>4. \A i \in 1..Len(u) : \A a, b : Leaves(u)[i] # Node(a, b)
      BY <3>1, KindsOfHash
    <3> QED BY <3>1, <3>2, <3>3, <3>4 DEF Distinct
  <2>2. Leaves(s) = Leaves(t)
    <3>1. MerkleRoot(Leaves(s)) = MerkleRoot(Leaves(t))
      BY DEF ComputeMerkleRoot
    <3> QED BY <1>3, <2>1, <3>1, RootInjective
  <2>3. Len(s) = Len(t)
    BY <2>2, LeavesFacts
  <2>4. ASSUME NEW i \in 1..Len(s) PROVE s[i] = t[i]
    <3>1. Leaf(s[i]).leaf = Leaf(t[i]).leaf
      <4>1. Leaves(s)[i] = Leaf(s[i]) /\ Leaves(t)[i] = Leaf(t[i])
        BY <2>3, LeavesFacts
      <4> QED BY <2>2, <4>1
    <3>2. s[i].entry_hash = t[i].entry_hash
      BY <3>1 DEF Leaf
    <3>3. /\ s[i].sequence = i /\ t[i].sequence = i
          /\ s[i].entry_hash[i] = [category |-> s[i].category, time |-> s[i].time]
          /\ t[i].entry_hash[i] = [category |-> t[i].category, time |-> t[i].time]
      BY <2>3 DEF Chained
    <3>4. s[i].category = t[i].category /\ s[i].time = t[i].time
      <4> DEFINE C(e) == [category |-> e.category, time |-> e.time]
      <4>1. C(s[i]) = C(t[i])
        BY <3>2, <3>3
      <4>2. C(s[i]).category = C(t[i]).category /\ C(s[i]).time = C(t[i]).time
        <5> HIDE DEF C
        <5> QED BY <4>1
      <4> QED BY <4>2
    <3>5. s[i] \in AuditEntry /\ t[i] \in AuditEntry
      BY <2>3
    <3>6. \A e \in AuditEntry :
            e = [sequence |-> e.sequence, category |-> e.category, time |-> e.time,
                 entry_hash |-> e.entry_hash]
      BY DEF AuditEntry
    <3>7. s[i].sequence = t[i].sequence
      BY <3>3
    <3> QED BY <3>2, <3>4, <3>5, <3>6, <3>7
  <2> QED BY <2>3, <2>4, SeqEqual
<1> QED BY <1>2, <1>3

\* The last entry of a chained log is as long as the log.
LEMMA ChainGrows ==
  ASSUME NEW s \in Seq(AuditEntry), Chained(s), clock \in Time, NEW c \in Categories,
         Len(s) + 1 \in 1..MaxEntries
  PROVE  LET e == Entry(Len(s) + 1, c, s)
         IN /\ e.sequence = Len(s) + 1
            /\ Len(e.entry_hash) = Len(s) + 1
            /\ e.entry_hash[Len(s) + 1] = [category |-> e.category, time |-> e.time]
<1> DEFINE n == Len(s)
           x == [category |-> c, time |-> clock]
           e == Entry(n + 1, c, s)
<1>1. n \in Nat /\ LastHash(s) \in Seq(Content)
  <2>1. LastHash(s) \in Hash
    BY EntryTypes
  <2> QED BY <2>1 DEF Hash
<1>2. Len(LastHash(s)) = n
  <2>1. CASE s = <<>>
    BY <2>1 DEF LastHash
  <2>2. CASE s # <<>>
    <3>1. n \in 1..n
      BY <2>2
    <3> QED BY <2>2, <3>1 DEF LastHash, Chained
  <2> QED BY <2>1, <2>2
<1>3. x \in Content
  BY DEF Content
<1>4. /\ e.sequence = n + 1 /\ e.category = c /\ e.time = clock
      /\ e.entry_hash = Append(LastHash(s), x)
  BY DEF Entry
<1> HIDE DEF x, n, e
<1>5. Len(e.entry_hash) = n + 1 /\ e.entry_hash[n + 1] = x
  BY <1>1, <1>2, <1>3, <1>4, AppendProperties
<1> QED BY <1>4, <1>5 DEF x, n, e

LEMMA AnchoredInit == Init => Anchored
<1> SUFFICES ASSUME Init PROVE Anchored
  OBVIOUS
<1>1. log = <<>> /\ anchor.of = <<>> /\ anchor.root = EMPTY_LOG
  BY DEF Init
<1>2. Chained(log) /\ Chained(anchor.of)
  BY <1>1 DEF Chained
<1>3. ComputeMerkleRoot(anchor.of) = EMPTY_LOG
  <2>1. Leaves(anchor.of) = <<>>
    BY <1>1 DEF Leaves
  <2> QED BY <2>1 DEF ComputeMerkleRoot, MerkleRoot
<1> QED BY <1>1, <1>2, <1>3, TypesInit DEF Anchored

LEMMA AnchoredNext ==
  ASSUME "repeat" \notin Faults
  PROVE  Anchored /\ [Next]_vars => Anchored'
<1> SUFFICES ASSUME Anchored, [Next]_vars PROVE Anchored'
  OBVIOUS
<1>1. /\ log \in Seq(AuditEntry) /\ Len(log) \in Nat /\ Len(log) <= MaxEntries
      /\ clock \in Time /\ anchor.of \in Seq(AuditEntry)
      /\ Chained(log) /\ Chained(anchor.of)
      /\ anchor.root = ComputeMerkleRoot(anchor.of)
  BY DEF Anchored, Typed, TypeOK
<1>2. Typed'
  BY TypesNext DEF Anchored
<1>3. ASSUME anchor' = anchor, Chained(log') PROVE Anchored'
  BY <1>1, <1>2, <1>3 DEF Anchored
<1>4. ASSUME NEW c \in Categories, Record(c) PROVE Anchored'
  <2> DEFINE e == Entry(Len(log) + 1, c, log)
  <2>1. Len(log) + 1 \in 1..MaxEntries /\ log' = Append(log, e) /\ anchor' = anchor
    BY <1>1, <1>4, ReaderAssumption DEF Record
  <2>2. e \in AuditEntry
    BY <1>1, <2>1, EntryTypes
  <2>3. /\ e.sequence = Len(log) + 1 /\ Len(e.entry_hash) = Len(log) + 1
        /\ e.entry_hash[Len(log) + 1] = [category |-> e.category, time |-> e.time]
    BY <1>1, <2>1, ChainGrows
  <2> HIDE DEF e
  <2>4. /\ Len(log') = Len(log) + 1 /\ log'[Len(log) + 1] = e
        /\ \A i \in 1..Len(log) : log'[i] = log[i]
    BY <1>1, <2>1, <2>2, AppendProperties
  <2>5. ASSUME NEW i \in 1..Len(log')
        PROVE  /\ log'[i].sequence = i
               /\ Len(log'[i].entry_hash) = i
               /\ log'[i].entry_hash[i] = [category |-> log'[i].category,
                                           time |-> log'[i].time]
    <3>1. CASE i = Len(log) + 1
      BY <2>3, <2>4, <3>1
    <3>2. CASE i # Len(log) + 1
      <4>1. i \in 1..Len(log) /\ log'[i] = log[i]
        BY <1>1, <2>4, <3>2
      <4> QED BY <1>1, <4>1 DEF Chained
    <3> QED BY <3>1, <3>2
  <2>6. Chained(log')
    BY <2>5 DEF Chained
  <2> QED BY <1>3, <2>1, <2>6
<1>5. CASE Anchor
  BY <1>1, <1>2, <1>5 DEF Anchor, Anchored
<1>6. ASSUME NEW c \in Readers, ReadPage(c) PROVE Anchored'
  BY <1>1, <1>3, <1>6 DEF ReadPage
<1>7. CASE Tick \/ SetBack \/ UNCHANGED vars
  BY <1>1, <1>3, <1>7 DEF Tick, SetBack, vars
<1>8. ASSUME NEW fault \in Faults, Damage(fault) PROVE Anchored'
  <2>1. fault \in {"modify", "truncate"} /\ log # <<>> /\ anchor' = anchor
    BY <1>8, ReaderAssumption DEF Damage
  <2>2. CASE fault = "modify"
    <3>1. PICK k \in 1..Len(log), c \in Categories :
            log' = [log EXCEPT ![k] = Entry(k, c, SubSeq(log, 1, k - 1))]
      BY <1>8, <2>2 DEF Damage
    <3> DEFINE s == SubSeq(log, 1, k - 1)
               j == k - 1
    <3>2. /\ s \in Seq(AuditEntry) /\ Len(s) = k - 1
          /\ \A i \in 1..(k - 1) : s[i] = log[i]
      <4>1. j \in Nat /\ j <= Len(log) /\ s = SubSeq(log, 1, j)
            /\ \A i \in 1..j : log[i] \in AuditEntry
        BY <1>1
      <4> HIDE DEF j, s
      <4>2. s \in Seq(AuditEntry) /\ Len(s) = j /\ \A i \in 1..j : s[i] = log[i]
        BY <4>1, SubSeqProperties
      <4> QED BY <4>2 DEF j
    <3> HIDE DEF s
    <3>3. Chained(s)
      <4>1. Len(s) <= Len(log)
        BY <1>1, <3>2
      <4> QED BY <1>1, <3>2, <4>1 DEF Chained
    <3> DEFINE e == Entry(k, c, s)
    <3>4. Len(s) + 1 = k /\ k \in 1..MaxEntries
      BY <1>1, <3>2, ReaderAssumption
    <3>5. /\ e.sequence = k /\ Len(e.entry_hash) = k
          /\ e.entry_hash[k] = [category |-> e.category, time |-> e.time]
      BY <1>1, <3>2, <3>3, <3>4, ChainGrows
    <3>6. log' = [log EXCEPT ![k] = e]
      BY <3>1 DEF s
    <3> HIDE DEF e
    <3>7. Len(log') = Len(log) /\ \A i \in 1..Len(log) : log'[i] = IF i = k THEN e ELSE log[i]
      BY <1>1, <3>6
    <3>8. ASSUME NEW i \in 1..Len(log')
          PROVE  /\ log'[i].sequence = i
                 /\ Len(log'[i].entry_hash) = i
                 /\ log'[i].entry_hash[i] = [category |-> log'[i].category,
                                             time |-> log'[i].time]
      BY <1>1, <3>5, <3>7 DEF Chained
    <3>9. Chained(log')
      BY <3>8 DEF Chained
    <3> QED BY <1>3, <2>1, <3>9
  <2>3. CASE fault = "truncate"
    <3> DEFINE j == Len(log) - 1
    <3>1. log' = SubSeq(log, 1, Len(log) - 1)
      BY <1>8, <2>3 DEF Damage
    <3>2. j \in Nat /\ j <= Len(log) /\ log' = SubSeq(log, 1, j)
          /\ \A i \in 1..j : log[i] \in AuditEntry
      <4>1. Len(log) # 0
        BY <1>1, <2>1
      <4> QED BY <1>1, <3>1, <4>1
    <3> HIDE DEF j
    <3>3. Len(log') = j /\ \A i \in 1..j : log'[i] = log[i]
      BY <3>2, SubSeqProperties
    <3>4. Chained(log')
      <4>1. j <= Len(log) /\ j \in Nat
        BY <3>2
      <4> QED BY <1>1, <3>3, <4>1 DEF Chained
    <3> QED BY <1>3, <2>1, <3>4
  <2> QED BY <2>1, <2>2, <2>3
<1> QED BY <1>4, <1>5, <1>6, <1>7, <1>8 DEF Next

\* "The root commits to the entire log": verify_merkle accepts an anchored root
\* exactly if the log is the one it was taken of, however many entries were
\* rewritten or lost in between, unless an entry was stored twice.
THEOREM RootsCommit ==
  ASSUME "repeat" \notin Faults
  PROVE  Spec => []RootCommits
<1>1. Init => Anchored
  BY AnchoredInit
<1>2. Anchored /\ [Next]_vars => Anchored'
  BY AnchoredNext
<1>3. Anchored => RootCommits
  <2> SUFFICES ASSUME Anchored PROVE RootCommits
    OBVIOUS
  <2>1. /\ log \in Seq(AuditEntry) /\ anchor.of \in Seq(AuditEntry)
        /\ Chained(log) /\ Chained(anchor.of)
        /\ anchor.root = ComputeMerkleRoot(anchor.of)
    BY DEF Anchored, Typed, TypeOK
  <2>2. ComputeMerkleRoot(log) = anchor.root => log = anchor.of
    BY <2>1, RootsTellLogs
  <2> QED BY <2>1, <2>2 DEF RootCommits, VerifyMerkle
<1> QED BY <1>1, <1>2, <1>3, PTL DEF Spec
=============================================================================
