----------------------------- MODULE TrustProofs ----------------------------
(***************************************************************************)
(* What holds of every trust record, whatever receipts, signals and bonds  *)
(* arrive and in whatever order their snapshots are signed: reputation is  *)
(* measured from the ledger, the stake it shows is held, flags cost, and   *)
(* the ledger can be audited with inclusion proofs.                        *)
(***************************************************************************)
EXTENDS Trust, SequenceTheorems, SetLemmas, TLAPS

-----------------------------------------------------------------------------
(* The ledger: a sequence of entries that only grows.                      *)

IsSeq(s) == \E S : s \in Seq(S)

(* A sequence is its length and its elements.                              *)
LEMMA SeqShape ==
  ASSUME NEW s, IsSeq(s)
  PROVE  Len(s) \in Nat /\ DOMAIN s = 1..Len(s) /\ s = [i \in 1..Len(s) |-> s[i]]
<1>1. PICK S : s \in Seq(S)
  BY DEF IsSeq
<1> QED
  BY <1>1, LenProperties

(* A function on 1..n is a sequence of length n.                           *)
LEMMA SeqFromFunction ==
  ASSUME NEW n \in Nat, NEW s, DOMAIN s = 1..n, s = [i \in 1..n |-> s[i]]
  PROVE  IsSeq(s) /\ Len(s) = n
<1> DEFINE S == {s[i] : i \in 1..n}
<1>1. s \in [1..n -> S]
  OBVIOUS
<1> HIDE DEF S
<1>2. s \in Seq(S)
  BY <1>1, SeqDef
<1>3. Len(s) \in Nat /\ DOMAIN s = 1..Len(s)
  BY <1>2, LenProperties
<1>4. Len(s) = n
  BY <1>3
<1> QED
  BY <1>2, <1>4 DEF IsSeq

(* What an append changes.                                                 *)
LEMMA Appending ==
  ASSUME NEW s, IsSeq(s), NEW e
  PROVE  /\ IsSeq(Append(s, e))
         /\ Len(Append(s, e)) = Len(s) + 1
         /\ Append(s, e)[Len(s) + 1] = e
         /\ \A i \in 1..Len(s) : Append(s, e)[i] = s[i]
<1>1. PICK S : s \in Seq(S)
  BY DEF IsSeq
<1> DEFINE T == S \cup {e}
<1>2. s \in Seq(T) /\ e \in T
  BY <1>1, SeqMonotonic
<1> HIDE DEF T
<1> QED
  BY <1>2, AppendProperties DEF IsSeq

-----------------------------------------------------------------------------
(* The Merkle tree.                                                        *)

(* The levels up to n.                                                     *)
IsLevels(g, n) ==
  g = [k \in 0..n |-> IF k = 0 THEN L!Leaves ELSE L!NextLevel(g[k - 1])]

(* There are levels, of any number of rounds.                              *)
LEMMA LevelsExist ==
  ASSUME NEW n \in Nat
  PROVE  \E g : IsLevels(g, n)
<1> DEFINE T == {m \in 0..n : ~\E g : IsLevels(g, m)}
<1>1. n \notin T
  <2> SUFFICES ASSUME T # {} PROVE FALSE
    OBVIOUS
  <2>1. T \in SUBSET Nat
    OBVIOUS
  <2>2. PICK m \in T : \A u \in T : m <= u
    <3> HIDE DEF T
    <3> QED
      BY <2>1, LeastNat
  <2>3. m # 0
    <3> DEFINE g == [k \in 0..0 |-> L!Leaves]
    <3>1. g = [k \in 0..0 |-> IF k = 0 THEN L!Leaves ELSE L!NextLevel(g[k - 1])]
      OBVIOUS
    <3> HIDE DEF g
    <3>2. IsLevels(g, 0)
      BY <3>1 DEF IsLevels
    <3> QED
      BY <3>2
  <2>4. PICK g : IsLevels(g, m - 1)
    <3>1. m - 1 \in 0..n /\ m - 1 \notin T
      BY <2>2, <2>3
    <3> QED
      BY <3>1
  <2>5. m \in Nat /\ m - 1 \in 0..(m - 1)
    BY <2>3
  <2>6. \A k \in 0..(m - 1) : g[k] = IF k = 0 THEN L!Leaves ELSE L!NextLevel(g[k - 1])
    BY <2>4 DEF IsLevels
  <2> DEFINE h == [k \in 0..m |-> IF k = m THEN L!NextLevel(g[m - 1]) ELSE g[k]]
  <2>7. ASSUME NEW k \in 0..m
        PROVE  h[k] = IF k = 0 THEN L!Leaves ELSE L!NextLevel(h[k - 1])
    <3>1. CASE k = m
      <4>1. h[k - 1] = g[m - 1]
        BY <2>5, <3>1
      <4> QED
        BY <2>3, <3>1, <4>1
    <3>2. CASE k # m
      <4>1. k \in 0..(m - 1) /\ h[k] = g[k] /\ (k # 0 => h[k - 1] = g[k - 1])
        BY <2>5, <3>2
      <4> QED
        BY <2>6, <4>1
    <3> QED
      BY <3>1, <3>2
  <2>8. h = [k \in 0..m |-> h[k]]
    OBVIOUS
  <2> HIDE DEF h
  <2>9. IsLevels(h, m)
    BY <2>7, <2>8 DEF IsLevels
  <2> QED
    BY <2>9
<1> QED
  BY <1>1

(* What the levels are.                                                    *)
LEMMA LevelEquations ==
  ASSUME Len(entries) \in Nat
  PROVE  /\ L!Level[0] = L!Leaves
         /\ \A n \in 1..Len(entries) : L!Level[n] = L!NextLevel(L!Level[n - 1])
<1>1. L!Level = CHOOSE g : IsLevels(g, Len(entries))
  BY DEF L!Level, IsLevels
<1>2. IsLevels(L!Level, Len(entries))
  BY <1>1, LevelsExist
<1> QED
  BY <1>2 DEF IsLevels

(* The next level has half the nodes, rounded up.                          *)
LEMMA NextLevelShape ==
  ASSUME NEW level, IsSeq(level), Len(level) > 1
  PROVE  /\ IsSeq(L!NextLevel(level))
         /\ Len(L!NextLevel(level)) = (Len(level) + 1) \div 2
         /\ \A k \in 1..((Len(level) + 1) \div 2) :
              L!NextLevel(level)[k] = <<level[2*k - 1], L!Right(level, 2*k - 1)>>
<1>1. Len(level) \in Nat
  BY SeqShape
<1> DEFINE m == (Len(level) + 1) \div 2
           next == L!NextLevel(level)
<1>2. m \in Nat
  BY <1>1
<1>3. next = [k \in 1..m |-> <<level[2*k - 1], L!Right(level, 2*k - 1)>>]
  BY <1>1 DEF L!NextLevel, L!HashPair
<1> HIDE DEF m, next
<1>4. DOMAIN next = 1..m /\ next = [k \in 1..m |-> next[k]]
      /\ \A k \in 1..m : next[k] = <<level[2*k - 1], L!Right(level, 2*k - 1)>>
  BY <1>3
<1> QED
  BY <1>2, <1>4, SeqFromFunction DEF m, next

(* Levels are sequences that shrink, down to a single node.                *)
Narrow(n) ==
  /\ IsSeq(L!Level[n])
  /\ Len(L!Level[n]) >= 1
  /\ Len(L!Level[n]) <= 1 \/ Len(L!Level[n]) <= Len(entries) - n

(* Every level is so.                                                      *)
LEMMA LevelsShrink ==
  ASSUME IsSeq(entries), entries # <<>>
  PROVE  Len(entries) >= 1 /\ \A n \in 0..Len(entries) : Narrow(n)
<1>1. Len(entries) \in Nat /\ DOMAIN entries = 1..Len(entries)
  BY SeqShape
<1>2. Len(entries) >= 1
  BY <1>1, EmptySeq DEF IsSeq
<1>3. L!Level[0] = L!Leaves /\ \A n \in 1..Len(entries) : L!Level[n] = L!NextLevel(L!Level[n - 1])
  BY <1>1, LevelEquations
<1>4. Narrow(0)
  <2> DEFINE leaves == L!Leaves
  <2>1. DOMAIN leaves = 1..Len(entries) /\ leaves = [i \in 1..Len(entries) |-> leaves[i]]
    BY <1>1 DEF L!Leaves
  <2> HIDE DEF leaves
  <2>2. IsSeq(leaves) /\ Len(leaves) = Len(entries)
    BY <1>1, <2>1, SeqFromFunction
  <2> QED
    BY <1>1, <1>2, <1>3, <2>2 DEF Narrow, leaves
<1> DEFINE T == {n \in 0..Len(entries) : ~Narrow(n)}
<1>5. T = {}
  <2> SUFFICES ASSUME T # {} PROVE FALSE
    OBVIOUS
  <2>1. T \in SUBSET Nat
    BY <1>1
  <2>2. PICK n \in T : \A u \in T : n <= u
    <3> HIDE DEF T
    <3> QED
      BY <2>1, LeastNat
  <2>3. n \in 1..Len(entries) /\ n - 1 \in 0..Len(entries) /\ ~(n <= n - 1)
    BY <1>1, <1>4, <2>2
  <2>4. Narrow(n - 1) /\ ~Narrow(n)
    BY <2>2, <2>3
  <2> DEFINE below == L!Level[n - 1]
             above == L!Level[n]
  <2>5. above = L!NextLevel(below)
    BY <1>3, <2>3
  <2>6. IsSeq(below) /\ Len(below) \in Nat /\ Len(below) >= 1
        /\ (Len(below) <= 1 \/ Len(below) <= Len(entries) - (n - 1))
    BY <2>4, SeqShape DEF Narrow
  <2>7. IsSeq(above) /\ Len(above) >= 1 /\ (Len(above) <= 1 \/ Len(above) <= Len(entries) - n)
    <3>1. CASE Len(below) <= 1
      BY <2>5, <2>6, <3>1 DEF L!NextLevel
    <3>2. CASE Len(below) > 1
      <4> HIDE DEF below, above
      <4>1. IsSeq(above) /\ Len(above) = (Len(below) + 1) \div 2
        BY <2>5, <2>6, <3>2, NextLevelShape
      <4> QED
        BY <1>1, <2>3, <2>6, <3>2, <4>1
    <3> QED
      BY <2>6, <3>1, <3>2
  <2> QED
    BY <2>4, <2>7 DEF Narrow
<1> QED
  BY <1>2, <1>5

(* The loop stops at the first level of one node.                          *)
LEMMA HeightReached ==
  ASSUME IsSeq(entries), entries # <<>>
  PROVE  /\ L!Height \in 0..Len(entries)
         /\ IsSeq(L!MerkleRoot) /\ Len(L!MerkleRoot) = 1
         /\ \A n \in 0..L!Height : IsSeq(L!Level[n]) /\ Len(L!Level[n]) \in Nat \ {0}
         /\ \A n \in 0..(L!Height - 1) : Len(L!Level[n]) > 1
<1>1. Len(entries) \in Nat /\ \A n \in 0..Len(entries) : Narrow(n)
  BY LevelsShrink, SeqShape
<1>2. \A n \in 0..Len(entries) : IsSeq(L!Level[n]) /\ Len(L!Level[n]) \in Nat \ {0}
  <2> SUFFICES ASSUME NEW n \in 0..Len(entries)
               PROVE  IsSeq(L!Level[n]) /\ Len(L!Level[n]) \in Nat \ {0}
    OBVIOUS
  <2>1. Narrow(n) /\ IsSeq(L!Level[n])
    BY <1>1 DEF Narrow
  <2>2. Len(L!Level[n]) \in Nat
    BY <2>1, SeqShape
  <2> QED
    BY <2>1, <2>2 DEF Narrow
<1> DEFINE S == {n \in 0..Len(entries) : Len(L!Level[n]) <= 1}
<1>3. Len(entries) \in S
  <2>1. Narrow(Len(entries)) /\ Len(L!Level[Len(entries)]) \in Nat
    BY <1>1, <1>2
  <2> QED
    BY <1>1, <2>1 DEF Narrow
<1>4. S \in SUBSET Nat /\ S # {}
  BY <1>1, <1>3
<1>5. L!Height = Min(S)
  BY DEF L!Height, L!Min, Min
<1>6. Min(S) \in S /\ \A m \in S : Min(S) <= m
  <2> HIDE DEF S
  <2> QED
    BY <1>4, MinNat
<1>7. L!Height \in 0..Len(entries) /\ Len(L!Level[L!Height]) <= 1
  BY <1>5, <1>6
<1>8. ASSUME NEW n \in 0..(L!Height - 1)
      PROVE  Len(L!Level[n]) > 1
  <2>1. n \in 0..Len(entries) /\ ~(L!Height <= n)
    BY <1>1, <1>7
  <2>2. n \notin S
    BY <1>5, <1>6, <2>1
  <2> QED
    BY <1>2, <2>1, <2>2
<1>9. \A n \in 0..L!Height : n \in 0..Len(entries)
  BY <1>1, <1>7
<1>10. IsSeq(L!MerkleRoot) /\ Len(L!MerkleRoot) = 1
  <2>1. IsSeq(L!Level[L!Height]) /\ Len(L!Level[L!Height]) \in Nat \ {0}
    BY <1>2, <1>7
  <2> QED
    BY <1>7, <2>1 DEF L!MerkleRoot
<1> QED
  BY <1>2, <1>7, <1>8, <1>9, <1>10

(* Where the ancestors of a leaf are, and that they are in their levels.   *)
IsPath(at, i, n) ==
  at = [k \in 0..n |-> IF k = 0 THEN i ELSE (at[k - 1] + 1) \div 2]

(* There is a path of any length,                                          *)
LEMMA PathExists ==
  ASSUME NEW n \in Nat, NEW i \in Nat
  PROVE  \E at : IsPath(at, i, n)
<1> DEFINE F == [k \in 1..n |-> [x \in Nat |-> (x + 1) \div 2]]
<1>1. F \in [1..n -> [Nat -> Nat]]
  OBVIOUS
<1>2. \A k \in 1..n : \A x \in Nat : F[k][x] = (x + 1) \div 2
  OBVIOUS
<1> HIDE DEF F
<1>3. PICK at : Recursion(at, n, Nat, i, F)
  BY <1>1, RecursionDefines
<1>4. at \in [0..n -> Nat] /\ at[0] = i /\ \A k \in 1..n : at[k] = F[k][at[k - 1]]
  BY <1>3 DEF Recursion
<1>5. \A k \in 1..n : at[k] = (at[k - 1] + 1) \div 2
  <2>1. \A k \in 1..n : at[k - 1] \in Nat
    BY <1>4
  <2> QED
    BY <1>2, <1>4, <2>1
<1>6. \A k \in 0..n : at[k] = IF k = 0 THEN i ELSE (at[k - 1] + 1) \div 2
  BY <1>4, <1>5
<1> DEFINE G(k) == IF k = 0 THEN i ELSE (at[k - 1] + 1) \div 2
<1>7. at = [k \in 0..n |-> at[k]]
  BY <1>4
<1> QED
  BY <1>6, <1>7 DEF IsPath

(* the one that the model takes,                                           *)
LEMMA PathEquations ==
  ASSUME Len(entries) \in Nat, NEW i \in Nat
  PROVE  /\ L!Ancestor(i)[0] = i
         /\ \A n \in 1..Len(entries) : L!Ancestor(i)[n] = (L!Ancestor(i)[n - 1] + 1) \div 2
<1>1. L!Ancestor(i) = CHOOSE at : IsPath(at, i, Len(entries))
  BY DEF L!Ancestor, IsPath
<1>2. IsPath(L!Ancestor(i), i, Len(entries))
  BY <1>1, PathExists
<1> DEFINE at == L!Ancestor(i)
<1> HIDE DEF at
<1>3. at = [k \in 0..Len(entries) |-> IF k = 0 THEN i ELSE (at[k - 1] + 1) \div 2]
  BY <1>2 DEF IsPath, at
<1>4. at[0] = i /\ \A n \in 1..Len(entries) : at[n] = (at[n - 1] + 1) \div 2
  BY <1>3
<1> QED
  BY <1>4 DEF at

(* and it stays inside the levels.                                         *)
LEMMA PathInLevels ==
  ASSUME IsSeq(entries), NEW i \in DOMAIN entries
  PROVE  /\ L!Ancestor(i)[0] = i
         /\ \A n \in 0..L!Height : L!Ancestor(i)[n] \in 1..Len(L!Level[n])
<1>1. Len(entries) \in Nat /\ DOMAIN entries = 1..Len(entries) /\ i \in Nat /\ entries # <<>>
  BY SeqShape
<1> DEFINE H == L!Height
           at == L!Ancestor(i)
<1>2. /\ H \in 0..Len(entries)
      /\ \A n \in 0..H : IsSeq(L!Level[n]) /\ Len(L!Level[n]) \in Nat \ {0}
      /\ \A n \in 0..(H - 1) : Len(L!Level[n]) > 1
  BY <1>1, HeightReached
<1>3. at[0] = i /\ \A n \in 1..Len(entries) : at[n] = (at[n - 1] + 1) \div 2
  BY <1>1, PathEquations
<1>4. L!Level[0] = L!Leaves /\ \A n \in 1..Len(entries) : L!Level[n] = L!NextLevel(L!Level[n - 1])
  BY <1>1, LevelEquations
<1>5. at[0] \in 1..Len(L!Level[0])
  <2> DEFINE leaves == L!Leaves
  <2>1. DOMAIN leaves = 1..Len(entries) /\ leaves = [k \in 1..Len(entries) |-> leaves[k]]
    BY <1>1 DEF L!Leaves
  <2> HIDE DEF leaves
  <2>2. Len(leaves) = Len(entries)
    BY <1>1, <2>1, SeqFromFunction
  <2> QED
    BY <1>1, <1>3, <1>4, <2>2 DEF leaves
<1> HIDE DEF H, at
<1> DEFINE T == {n \in 0..H : at[n] \notin 1..Len(L!Level[n])}
<1>6. T = {}
  <2> SUFFICES ASSUME T # {} PROVE FALSE
    OBVIOUS
  <2>1. T \in SUBSET Nat
    BY <1>2
  <2>2. PICK n \in T : \A u \in T : n <= u
    <3> HIDE DEF T
    <3> QED
      BY <2>1, LeastNat
  <2>3. n \in 1..Len(entries) /\ n \in 0..H /\ n - 1 \in 0..(H - 1) /\ ~(n <= n - 1)
    BY <1>1, <1>2, <1>5, <2>2
  <2>4. n - 1 \in 0..H /\ n - 1 \notin T
    BY <1>2, <2>2, <2>3
  <2>5. at[n - 1] \in 1..Len(L!Level[n - 1])
    BY <2>4
  <2> DEFINE below == L!Level[n - 1]
             above == L!Level[n]
             a == at[n - 1]
  <2>6. above = L!NextLevel(below) /\ IsSeq(below) /\ Len(below) > 1 /\ Len(below) \in Nat
        /\ a \in 1..Len(below) /\ at[n] = (a + 1) \div 2
    BY <1>2, <1>3, <1>4, <2>3, <2>4, <2>5
  <2>7. at[n] \notin 1..Len(above)
    BY <2>2
  <2> HIDE DEF below, above, a
  <2>8. Len(above) = (Len(below) + 1) \div 2
    BY <2>6, NextLevelShape
  <2> QED
    BY <2>6, <2>7, <2>8
<1> QED
  BY <1>3, <1>6 DEF H, at

(* What a verifier computes from a leaf and a proof, step by step.         *)
Folded(c, leaf, proof) ==
  c = [n \in 0..Len(proof) |->
         IF n = 0 THEN leaf
         ELSE IF proof[n].position = "left" THEN <<proof[n].sibling, c[n - 1]>>
         ELSE <<c[n - 1], proof[n].sibling>>]

(* There is such a computation for every leaf and proof,                   *)
LEMMA FoldExists ==
  ASSUME NEW leaf, NEW proof, Len(proof) \in Nat
  PROVE  \E c : Folded(c, leaf, proof)
<1> DEFINE Step(n, x) == IF proof[n].position = "left" THEN <<proof[n].sibling, x>>
                         ELSE <<x, proof[n].sibling>>
           Upto(c, m) == c = [n \in 0..m |-> IF n = 0 THEN leaf ELSE Step(n, c[n - 1])]
           T == {m \in 0..Len(proof) : ~\E c : Upto(c, m)}
<1>1. Len(proof) \notin T
  <2> SUFFICES ASSUME T # {} PROVE FALSE
    OBVIOUS
  <2>1. T \in SUBSET Nat
    OBVIOUS
  <2>2. PICK m \in T : \A u \in T : m <= u
    <3> HIDE DEF T
    <3> QED
      BY <2>1, LeastNat
  <2> HIDE DEF Step
  <2>3. m # 0
    <3> DEFINE g == [n \in 0..0 |-> leaf]
    <3>1. g = [n \in 0..0 |-> IF n = 0 THEN leaf ELSE Step(n, g[n - 1])]
      OBVIOUS
    <3> HIDE DEF g
    <3>2. Upto(g, 0)
      BY <3>1
    <3> QED
      BY <3>2
  <2>4. PICK g : Upto(g, m - 1)
    <3>1. m - 1 \in 0..Len(proof) /\ m - 1 \notin T
      BY <2>2, <2>3
    <3> QED
      BY <3>1
  <2>5. m \in Nat /\ m - 1 \in 0..(m - 1)
    BY <2>3
  <2>6. \A n \in 0..(m - 1) : g[n] = IF n = 0 THEN leaf ELSE Step(n, g[n - 1])
    BY <2>4
  <2> DEFINE h == [n \in 0..m |-> IF n = m THEN Step(m, g[m - 1]) ELSE g[n]]
  <2>7. ASSUME NEW n \in 0..m
        PROVE  h[n] = IF n = 0 THEN leaf ELSE Step(n, h[n - 1])
    <3>1. CASE n = m
      <4>1. h[n - 1] = g[m - 1]
        BY <2>5, <3>1
      <4> QED
        BY <2>3, <3>1, <4>1
    <3>2. CASE n # m
      <4>1. n \in 0..(m - 1) /\ h[n] = g[n] /\ (n # 0 => h[n - 1] = g[n - 1])
        BY <2>5, <3>2
      <4> QED
        BY <2>6, <4>1
    <3> QED
      BY <3>1, <3>2
  <2>8. h = [n \in 0..m |-> h[n]]
    OBVIOUS
  <2> HIDE DEF h
  <2>9. Upto(h, m)
    BY <2>7, <2>8
  <2> QED
    BY <2>9
<1>2. \E c : Upto(c, Len(proof))
  BY <1>1
<1> QED
  BY <1>2 DEF Folded

(* What is so computed, at every step.                                     *)
Climbs(c, leaf, proof) ==
  /\ c[0] = leaf
  /\ \A n \in 1..Len(proof) :
       c[n] = IF proof[n].position = "left" THEN <<proof[n].sibling, c[n - 1]>>
              ELSE <<c[n - 1], proof[n].sibling>>

(* and its last value is what the verifier compares with the root.         *)
LEMMA FoldVerifies ==
  ASSUME NEW leaf, NEW proof, Len(proof) \in Nat
  PROVE  \E c : /\ Climbs(c, leaf, proof)
                /\ \A root : L!VerifyProof(leaf, proof, root) <=> <<c[Len(proof)]>> = root
<1> DEFINE c == CHOOSE x : Folded(x, leaf, proof)
<1>1. Folded(c, leaf, proof)
  BY FoldExists
<1>2. \A root : L!VerifyProof(leaf, proof, root) <=> <<c[Len(proof)]>> = root
  BY DEF L!VerifyProof, L!HashPair, Folded
<1> HIDE DEF c
<1> DEFINE Step(n, x) == IF proof[n].position = "left" THEN <<proof[n].sibling, x>>
                         ELSE <<x, proof[n].sibling>>
           Value(n) == IF n = 0 THEN leaf ELSE Step(n, c[n - 1])
<1>3. c = [n \in 0..Len(proof) |-> Value(n)]
  BY <1>1 DEF Folded
<1>4. \A n \in 0..Len(proof) : c[n] = Value(n)
  <2> HIDE DEF Value
  <2> QED
    BY <1>3
<1>5. c[0] = leaf
  <2>1. 0 \in 0..Len(proof) /\ Value(0) = leaf
    OBVIOUS
  <2> HIDE DEF Value
  <2> QED
    BY <1>4, <2>1
<1>6. ASSUME NEW n \in 1..Len(proof)
      PROVE  c[n] = Step(n, c[n - 1])
  <2>1. n \in 0..Len(proof) /\ n # 0
    OBVIOUS
  <2> QED
    BY <1>4, <2>1
<1>7. Climbs(c, leaf, proof)
  BY <1>5, <1>6 DEF Climbs
<1> QED
  BY <1>2, <1>7

(* The proof of a leaf leads from the leaf to the root.                    *)
LEMMA ProofLeadsUp ==
  ASSUME IsSeq(entries), NEW i \in DOMAIN entries, NEW proof, proof = L!MerkleProofs[i], NEW c,
         Climbs(c, entries[i].hash, proof)
  PROVE  Len(proof) = L!Height /\ <<c[L!Height]>> = L!MerkleRoot
<1> DEFINE H == L!Height
           at == L!Ancestor(i)
<1>1. Len(entries) \in Nat /\ DOMAIN entries = 1..Len(entries) /\ i \in Nat /\ entries # <<>>
  BY SeqShape
<1>2. /\ H \in 0..Len(entries) /\ H \in Nat
      /\ IsSeq(L!MerkleRoot) /\ Len(L!MerkleRoot) = 1
      /\ \A n \in 0..H : IsSeq(L!Level[n]) /\ Len(L!Level[n]) \in Nat \ {0}
      /\ \A n \in 0..(H - 1) : Len(L!Level[n]) > 1
  BY <1>1, HeightReached
<1>3. at[0] = i /\ \A n \in 0..H : at[n] \in 1..Len(L!Level[n])
  BY PathInLevels
<1>4. \A n \in 1..Len(entries) : at[n] = (at[n - 1] + 1) \div 2
  BY <1>1, PathEquations
<1>5. L!Level[0] = L!Leaves /\ \A n \in 1..Len(entries) : L!Level[n] = L!NextLevel(L!Level[n - 1])
  BY <1>1, LevelEquations
<1>6. proof = [n \in 1..H |-> L!ProofStep(L!Level[n - 1], at[n - 1])]
  BY DEF L!MerkleProofs
<1> HIDE DEF H, at
<1>7. Len(proof) = H /\ \A n \in 1..H : proof[n] = L!ProofStep(L!Level[n - 1], at[n - 1])
  <2>1. DOMAIN proof = 1..H /\ proof = [n \in 1..H |-> proof[n]]
    BY <1>6
  <2> QED
    BY <1>2, <1>6, <2>1, SeqFromFunction
<1>8. c[0] = L!Level[0][at[0]]
  BY <1>3, <1>5 DEF L!Leaves, Climbs
<1> DEFINE T == {n \in 0..H : c[n] # L!Level[n][at[n]]}
<1>9. T = {}
  <2> SUFFICES ASSUME T # {} PROVE FALSE
    OBVIOUS
  <2>1. T \in SUBSET Nat
    BY <1>2
  <2>2. PICK n \in T : \A u \in T : n <= u
    <3> HIDE DEF T
    <3> QED
      BY <2>1, LeastNat
  <2>3. n \in 1..Len(entries) /\ n \in 1..H /\ n - 1 \in 0..(H - 1) /\ n - 1 \in 0..H /\ ~(n <= n - 1)
    BY <1>1, <1>2, <1>8, <2>2
  <2>4. c[n - 1] = L!Level[n - 1][at[n - 1]]
    BY <2>2, <2>3
  <2> DEFINE below == L!Level[n - 1]
             above == L!Level[n]
             a == at[n - 1]
  <2>5. /\ above = L!NextLevel(below) /\ IsSeq(below) /\ Len(below) > 1 /\ Len(below) \in Nat
        /\ a \in 1..Len(below) /\ at[n] = (a + 1) \div 2 /\ c[n - 1] = below[a]
        /\ proof[n] = L!ProofStep(below, a)
    BY <1>2, <1>3, <1>4, <1>5, <1>7, <2>3, <2>4
  <2>6. c[n] = IF proof[n].position = "left" THEN <<proof[n].sibling, c[n - 1]>>
               ELSE <<c[n - 1], proof[n].sibling>>
    BY <1>7, <2>3 DEF Climbs
  <2>7. c[n] # above[at[n]]
    BY <2>2
  <2> HIDE DEF below, above, a
  <2>8. \A k \in 1..((Len(below) + 1) \div 2) : above[k] = <<below[2*k - 1], L!Right(below, 2*k - 1)>>
    BY <2>5, NextLevelShape
  <2>9. CASE a % 2 = 0
    <3>1. at[n] \in 1..((Len(below) + 1) \div 2) /\ 2 * at[n] = a
      BY <2>5, <2>9
    <3>2. above[at[n]] = <<below[a - 1], L!Right(below, a - 1)>>
      BY <2>8, <3>1
    <3>3. L!Right(below, a - 1) = below[a]
      BY <2>5 DEF L!Right
    <3>4. c[n] = <<below[a - 1], below[a]>>
      BY <2>5, <2>6, <2>9 DEF L!ProofStep
    <3> QED
      BY <2>7, <3>2, <3>3, <3>4
  <2>10. CASE a % 2 # 0
    <3>1. at[n] \in 1..((Len(below) + 1) \div 2) /\ 2 * at[n] - 1 = a
      BY <2>5, <2>10
    <3>2. above[at[n]] = <<below[a], L!Right(below, a)>>
      BY <2>8, <3>1
    <3>3. c[n] = <<below[a], L!Right(below, a)>>
      BY <2>5, <2>6, <2>10 DEF L!ProofStep
    <3> QED
      BY <2>7, <3>2, <3>3
  <2> QED
    BY <2>9, <2>10
<1>10. c[H] = L!Level[H][at[H]]
  BY <1>2, <1>9
<1> DEFINE root == L!MerkleRoot
<1>11. root = L!Level[H] /\ at[H] = 1
  <2>1. root = L!Level[H]
    BY DEF L!MerkleRoot, H
  <2>2. at[H] \in 1..Len(L!Level[H])
    BY <1>2, <1>3
  <2>3. Len(L!Level[H]) = 1
    BY <1>2, <2>1
  <2> QED
    BY <2>1, <2>2, <2>3
<1>12. root = <<c[H]>>
  <2> HIDE DEF root
  <2>1. root = [k \in 1..1 |-> root[k]]
    BY <1>2, SeqShape DEF root
  <2>2. root[1] = c[H]
    BY <1>10, <1>11
  <2> QED
    BY <2>1, <2>2
<1> QED
  BY <1>7, <1>12 DEF H

(* Two leaves from which one proof leads to one root are the same leaf.    *)
LEMMA FoldIsInjective ==
  ASSUME NEW n \in Nat, NEW proof, Len(proof) = n, NEW c, NEW d, c[n] = d[n],
         NEW leaf, NEW other, Climbs(c, leaf, proof), Climbs(d, other, proof)
  PROVE  leaf = other
<1> DEFINE T == {k \in 0..n : c[k] = d[k]}
<1>1. T \in SUBSET Nat /\ T # {}
  OBVIOUS
<1>2. PICK k \in T : \A u \in T : k <= u
  <2> HIDE DEF T
  <2> QED
    BY <1>1, LeastNat
<1>3. CASE k = 0
  BY <1>2, <1>3 DEF Climbs
<1>4. CASE k # 0
  <2>1. k \in 1..n /\ k - 1 \in 0..n /\ ~(k <= k - 1) /\ c[k] = d[k]
    BY <1>2, <1>4
  <2>2. c[k - 1] = d[k - 1]
    <3>1. CASE proof[k].position = "left"
      <4>1. <<proof[k].sibling, c[k - 1]>> = <<proof[k].sibling, d[k - 1]>>
        BY <2>1, <3>1 DEF Climbs
      <4> QED
        BY <4>1
    <3>2. CASE proof[k].position # "left"
      <4>1. <<c[k - 1], proof[k].sibling>> = <<d[k - 1], proof[k].sibling>>
        BY <2>1, <3>2 DEF Climbs
      <4> QED
        BY <4>1
    <3> QED
      BY <3>1, <3>2
  <2>3. k - 1 \in T
    BY <2>1, <2>2
  <2> QED
    BY <1>2, <2>1, <2>3
<1> QED
  BY <1>3, <1>4

(* A chain that checks has no two entries with one hash.                   *)
LEMMA HashesDiffer ==
  ASSUME L!VerifyChain, NEW i \in DOMAIN entries, NEW j \in DOMAIN entries,
         entries[i].hash = entries[j].hash
  PROVE  i = j
<1>1. L!Content(entries[i]) = L!Content(entries[j])
  BY DEF L!VerifyChain, L!HashChain
<1>2. entries[i].seq = entries[j].seq
  BY <1>1 DEF L!Content
<1> QED
  BY <1>2 DEF L!VerifyChain

(* Every entry has a proof of its inclusion, and no other entry passes     *)
(* with it, however long the ledger is.                                    *)
LEMMA ProofsDecide ==
  ASSUME IsSeq(entries), L!VerifyChain, NEW i \in DOMAIN entries, NEW j \in DOMAIN entries
  PROVE  L!VerifyProof(entries[j].hash, L!MerkleProofs[i], L!MerkleRoot) <=> i = j
<1>1. PICK proof : proof = L!MerkleProofs[i]
  OBVIOUS
<1>2. Len(proof) = L!Height /\ L!Height \in Nat
  <2>1. entries # <<>> /\ Len(entries) \in Nat
    BY SeqShape
  <2>2. L!Height \in Nat
    BY <2>1, HeightReached
  <2>3. proof = [n \in 1..L!Height |-> proof[n]] /\ DOMAIN proof = 1..L!Height
    BY <1>1 DEF L!MerkleProofs
  <2> QED
    BY <2>2, <2>3, SeqFromFunction
<1>3. PICK c : Climbs(c, entries[i].hash, proof)
  BY <1>2, FoldVerifies
<1>4. PICK d : /\ Climbs(d, entries[j].hash, proof)
               /\ L!VerifyProof(entries[j].hash, proof, L!MerkleRoot) <=>
                    <<d[Len(proof)]>> = L!MerkleRoot
  <2>1. \E d : /\ Climbs(d, entries[j].hash, proof)
               /\ \A root : L!VerifyProof(entries[j].hash, proof, root) <=>
                              <<d[Len(proof)]>> = root
    <3>1. Len(proof) \in Nat
      BY <1>2
    <3> QED
      BY <3>1, FoldVerifies
  <2> QED
    BY <2>1
<1>5. <<c[Len(proof)]>> = L!MerkleRoot
  BY <1>1, <1>2, <1>3, ProofLeadsUp
<1>6. ASSUME i = j
      PROVE  <<d[Len(proof)]>> = L!MerkleRoot
  BY <1>1, <1>2, <1>4, <1>6, ProofLeadsUp
<1>7. ASSUME <<d[Len(proof)]>> = L!MerkleRoot
      PROVE  i = j
  <2>1. c[Len(proof)] = d[Len(proof)]
    <3>1. <<c[Len(proof)]>> = <<d[Len(proof)]>>
      BY <1>5, <1>7
    <3> QED
      BY <3>1
  <2>2. entries[i].hash = entries[j].hash
    BY <1>2, <1>3, <1>4, <2>1, FoldIsInjective
  <2> QED
    BY <2>2, HashesDiffer
<1> QED
  BY <1>1, <1>4, <1>6, <1>7

-----------------------------------------------------------------------------
(* The inductive invariant.                                                *)

LedgerInv == IsSeq(entries) /\ L!VerifyChain

(* The receipts of d that a has folded in, and those of them that count.   *)
Mine(d, a) == {r \in Payment : r.payee = d /\ r.id \in a.ingested}
Counted(d, a) == {r \in Mine(d, a) : r.outcome # "refunded"}

Credits == [r \in Payment |-> Credit[r.outcome]]
Values == [r \in Payment |-> r.amount]

(* An accumulator is the sum of the receipts it has folded in; a receipt   *)
(* of d it has not is one of another currency than the one it has.         *)
MeasuredAs(d, a) ==
  /\ \A r \in Mine(d, a) : InLedger(r)
  /\ \A r \in Payment : r.payee = d /\ InLedger(r) /\ r.id \notin a.ingested =>
       r.outcome # "refunded" /\ a.currency \notin {None, r.currency}

SumsUp(d, a) ==
  /\ IsFiniteSet(Mine(d, a))
  /\ a.jobs = Cardinality(Mine(d, a))
  /\ a.credit = SumFunctionOnSet(Credits, Mine(d, a))
  /\ a.value = SumFunctionOnSet(Values, Counted(d, a))
  /\ \A r \in Counted(d, a) : r.currency = a.currency
  /\ a.payers = {r.payer : r \in Mine(d, a)}
  /\ Len(a.latency) = a.jobs

MeasureInv == \A d \in Did : MeasuredAs(d, Known(d)) /\ SumsUp(d, Known(d))

RowsOf(d) == {i \in DOMAIN stakes : stakes[i].did = d}

(* The bonds of an agent in a currency are what is held of it.             *)
BondsHeld(d, c) ==
  /\ IsFiniteSet(Held(d, c))
  /\ TotalBonded(stakes, d, c) \in Nat
  /\ TotalBonded(stakes, d, c) =
       SumFunctionOnSet([h \in Held(d, c) |-> hold[h].amount], Held(d, c))

(* Reputation shows the bonds in the currency of the last.                 *)
StakeShown(d) ==
  /\ RowsOf(d) # {} =>
       /\ acc[d] # None
       /\ acc[d].stake = TotalBonded(stakes, d, stakes[Max(RowsOf(d))].currency)
  /\ IsFiniteSet(L!Listed("stake_bonded", d))
  /\ Cardinality(L!Listed("stake_bonded", d)) = Cardinality(RowsOf(d))

StakesInv ==
  /\ \A d \in Did, c \in Currency : BondsHeld(d, c)
  /\ \A d \in Did : StakeShown(d)

TrustInv == TypeOK /\ LedgerInv /\ MeasureInv /\ StakesInv

-----------------------------------------------------------------------------
(* Appending to the ledger.                                                *)

(* The chain checks with the new entry, too, and the filter finds it.      *)
LEMMA LedgerGrows ==
  ASSUME LedgerInv, NEW kind \in {"receipt", "stake_bonded"}, NEW subject \in Did, NEW payload,
         entries' = L!Appended(kind, subject, payload)
  PROVE  /\ LedgerInv'
         /\ \A d \in Did : L!Listed(kind, d)' =
              IF d = subject THEN L!Listed(kind, d) \cup {Len(entries) + 1} ELSE L!Listed(kind, d)
         /\ \A d \in Did : \A k \in {"receipt", "stake_bonded"} \ {kind} :
              L!Listed(k, d)' = L!Listed(k, d)
         /\ entries'[Len(entries) + 1].payload = payload
         /\ \A i \in DOMAIN entries : entries'[i] = entries[i]
         /\ DOMAIN entries = 1..Len(entries) /\ Len(entries) \in Nat
<1> DEFINE n == Len(entries)
           e == L!Entry(kind, subject, payload)
<1>1. n \in Nat /\ DOMAIN entries = 1..n
  BY SeqShape DEF LedgerInv
<1>2. entries' = Append(entries, e)
  BY DEF L!Appended
<1>3. /\ e.seq = n + 1 /\ e.kind = kind /\ e.subject = subject /\ e.payload = payload
      /\ e.prevHash = L!HeadHash /\ e.hash = <<L!HeadHash, L!Content(e)>>
  BY DEF L!Entry, L!HashChain, L!Content
<1> HIDE DEF e
<1>4. /\ IsSeq(entries') /\ Len(entries') = n + 1 /\ entries'[n + 1] = e
      /\ \A i \in 1..n : entries'[i] = entries[i]
  BY <1>2, Appending DEF LedgerInv
<1>5. DOMAIN entries' = 1..(n + 1)
  BY <1>4, SeqShape
<1>6. L!HeadHash = IF n + 1 = 1 THEN None ELSE entries[n].hash
  <2>1. entries = <<>> <=> n = 0
    BY EmptySeq DEF LedgerInv, IsSeq
  <2> QED
    BY <1>1, <2>1 DEF L!HeadHash, L!Last
<1> HIDE DEF n
<1>7. L!VerifyChain'
  <2>1. \A i \in 1..n : /\ entries[i].seq = i
                        /\ entries[i].prevHash = IF i = 1 THEN None ELSE entries[i - 1].hash
                        /\ entries[i].hash = <<entries[i].prevHash, L!Content(entries[i])>>
    BY <1>1 DEF LedgerInv, L!VerifyChain, L!HashChain
  <2>2. \A i \in 1..(n + 1) :
          /\ entries'[i].seq = i
          /\ entries'[i].prevHash = IF i = 1 THEN None ELSE entries'[i - 1].hash
          /\ entries'[i].hash = <<entries'[i].prevHash, L!Content(entries'[i])>>
    <3> SUFFICES ASSUME NEW i \in 1..(n + 1)
                 PROVE  /\ entries'[i].seq = i
                        /\ entries'[i].prevHash = IF i = 1 THEN None ELSE entries'[i - 1].hash
                        /\ entries'[i].hash = <<entries'[i].prevHash, L!Content(entries'[i])>>
      OBVIOUS
    <3>1. CASE i = n + 1
      <4>1. entries'[i] = e /\ (i # 1 => entries'[i - 1] = entries[n])
        BY <1>1, <1>4, <3>1
      <4> QED
        BY <1>3, <1>6, <3>1, <4>1
    <3>2. CASE i # n + 1
      <4>1. i \in 1..n /\ entries'[i] = entries[i] /\ (i # 1 => entries'[i - 1] = entries[i - 1])
        BY <1>1, <1>4, <3>2
      <4> QED
        BY <2>1, <4>1
    <3> QED
      BY <3>1, <3>2
  <2> QED
    BY <1>5, <2>2 DEF L!VerifyChain, L!HashChain
<1>8. \A d \in Did : \A k \in {"receipt", "stake_bonded"} :
        L!Listed(k, d)' = IF k = kind /\ d = subject THEN L!Listed(k, d) \cup {n + 1}
                          ELSE L!Listed(k, d)
  <2> SUFFICES ASSUME NEW d \in Did, NEW k \in {"receipt", "stake_bonded"}
               PROVE  L!Listed(k, d)' = IF k = kind /\ d = subject THEN L!Listed(k, d) \cup {n + 1}
                                        ELSE L!Listed(k, d)
    OBVIOUS
  <2>1. k # None /\ d # None
    BY NullAssumption
  <2>2. L!Listed(k, d) = {i \in 1..n : k = entries[i].kind /\ d = entries[i].subject}
    BY <1>1, <2>1 DEF L!Listed
  <2>3. L!Listed(k, d)' = {i \in 1..(n + 1) : k = entries'[i].kind /\ d = entries'[i].subject}
    BY <1>5, <2>1 DEF L!Listed
  <2> QED
    BY <1>1, <1>3, <1>4, <2>2, <2>3
<1> QED
  BY <1>1, <1>3, <1>4, <1>7, <1>8 DEF LedgerInv, n

(* A receipt is in the ledger when it was, or has just been appended.      *)
LEMMA ReceiptAppended ==
  ASSUME LedgerInv, NEW r \in Payment, entries' = L!Appended("receipt", r.payee, r.id)
  PROVE  LedgerInv' /\ \A s \in Payment : InLedger(s)' <=> (InLedger(s) \/ s = r)
<1>1. \A s \in Payment : s.payee \in Did
  BY TrustAssumption DEF Receipt
<1>2. /\ LedgerInv'
      /\ \A d \in Did : L!Listed("receipt", d)' =
           IF d = r.payee THEN L!Listed("receipt", d) \cup {Len(entries) + 1}
           ELSE L!Listed("receipt", d)
      /\ entries'[Len(entries) + 1].payload = r.id
      /\ \A i \in DOMAIN entries : entries'[i] = entries[i]
  BY <1>1, LedgerGrows
<1>3. ASSUME NEW s \in Payment
      PROVE  InLedger(s)' <=> (InLedger(s) \/ s = r)
  <2>1. L!Listed("receipt", s.payee) \subseteq DOMAIN entries
    BY DEF L!Listed
  <2>2. s.id = r.id => s = r
    BY TrustAssumption
  <2>3. InLedger(s)' <=> \E i \in L!Listed("receipt", s.payee)' : entries'[i].payload = s.id
    BY DEF InLedger
  <2> QED
    BY <1>1, <1>2, <2>1, <2>2, <2>3 DEF InLedger
<1> QED
  BY <1>2, <1>3

(* A bond appended to the ledger is no receipt.                            *)
LEMMA BondAppended ==
  ASSUME LedgerInv, NEW d \in Did, NEW a, entries' = L!Appended("stake_bonded", d, a)
  PROVE  LedgerInv' /\ \A s \in Payment : InLedger(s)' <=> InLedger(s)
<1>1. \A s \in Payment : s.payee \in Did
  BY TrustAssumption DEF Receipt
<1>2. /\ LedgerInv'
      /\ \A e \in Did : L!Listed("receipt", e)' = L!Listed("receipt", e)
      /\ \A i \in DOMAIN entries : entries'[i] = entries[i]
  <2>1. "receipt" \in {"receipt", "stake_bonded"} \ {"stake_bonded"}
    OBVIOUS
  <2> QED
    BY <2>1, LedgerGrows
<1>3. ASSUME NEW s \in Payment
      PROVE  InLedger(s)' <=> InLedger(s)
  <2>1. L!Listed("receipt", s.payee) \subseteq DOMAIN entries
    BY DEF L!Listed
  <2>2. InLedger(s)' <=> \E i \in L!Listed("receipt", s.payee)' : entries'[i].payload = s.id
    BY DEF InLedger
  <2> QED
    BY <1>1, <1>2, <2>1, <2>2 DEF InLedger
<1> QED
  BY <1>2, <1>3

-----------------------------------------------------------------------------
(* Folding a receipt in.                                                   *)

(* What a fold leaves in the accumulator.                                  *)
LEMMA FoldFields ==
  ASSUME NEW a \in MetricsAccumulator, NEW r \in Payment
  PROVE  /\ Fold(a, r) \in MetricsAccumulator
         /\ Fold(a, r).ingested = a.ingested \cup {r.id}
         /\ Fold(a, r).jobs = a.jobs + 1
         /\ Fold(a, r).payers = a.payers \cup {r.payer}
         /\ Len(Fold(a, r).latency) = Len(a.latency) + 1
         /\ Fold(a, r).credit = a.credit + Credit[r.outcome]
         /\ Fold(a, r).value = IF Counts(r) THEN a.value + r.amount ELSE a.value
         /\ Fold(a, r).currency = IF Counts(r) THEN r.currency ELSE a.currency
         /\ Fold(a, r).stake = a.stake
<1>1. r \in Receipt
  BY TrustAssumption
<1>2. Credit[r.outcome] \in Nat
  BY <1>1 DEF Receipt, Outcomes, Credit
<1>3. /\ r.id \in {s.id : s \in Payment} /\ r.payer \in Did /\ r.latency \in Nat /\ r.day \in Nat
      /\ r.amount \in Nat /\ r.currency \in Currency
  BY <1>1 DEF Receipt
<1>4. /\ a.ingested \in SUBSET {s.id : s \in Payment} /\ a.jobs \in Nat /\ a.credit \in Nat
      /\ a.disputes \in Nat /\ a.refunds \in Nat /\ a.latency \in Seq(Nat) /\ a.value \in Nat
      /\ a.currency \in Currency \cup {None} /\ a.payers \in SUBSET Did
      /\ a.first \in Nat \cup {None} /\ a.last \in Nat \cup {None}
  BY DEF MetricsAccumulator
<1>5. Append(a.latency, r.latency) \in Seq(Nat) /\ Len(Append(a.latency, r.latency)) = Len(a.latency) + 1
  BY <1>3, <1>4, AppendProperties
<1>6. Earliest(a.first, r.day) \in Nat \cup {None} /\ Latest(a.last, r.day) \in Nat \cup {None}
  BY <1>3, <1>4 DEF Earliest, Latest
<1> DEFINE f == Fold(a, r)
<1>7. /\ f.ingested = a.ingested \cup {r.id} /\ f.jobs = a.jobs + 1
      /\ f.payers = a.payers \cup {r.payer} /\ f.latency = Append(a.latency, r.latency)
      /\ f.credit = a.credit + Credit[r.outcome]
      /\ f.value = (IF Counts(r) THEN a.value + r.amount ELSE a.value)
      /\ f.currency = (IF Counts(r) THEN r.currency ELSE a.currency)
      /\ f.stake = a.stake
  BY DEF Fold, MetricsAccumulator
<1>8. f \in MetricsAccumulator
  <2> DEFINE refunds == IF r.outcome = "refunded" THEN a.refunds + 1 ELSE a.refunds
             disputes == IF r.outcome = "disputed" THEN a.disputes + 1 ELSE a.disputes
             value == IF Counts(r) THEN a.value + r.amount ELSE a.value
             currency == IF Counts(r) THEN r.currency ELSE a.currency
             credit == a.credit + Credit[r.outcome]
             first == Earliest(a.first, r.day)
             last == Latest(a.last, r.day)
             latency == Append(a.latency, r.latency)
  <2>1. f = [a EXCEPT !.ingested = a.ingested \cup {r.id}, !.jobs = a.jobs + 1,
                      !.payers = a.payers \cup {r.payer}, !.latency = latency, !.credit = credit,
                      !.refunds = refunds, !.disputes = disputes, !.value = value,
                      !.currency = currency, !.first = first, !.last = last]
    BY DEF Fold, MetricsAccumulator
  <2>2. /\ refunds \in Nat /\ disputes \in Nat /\ value \in Nat /\ currency \in Currency \cup {None}
        /\ credit \in Nat
    <3>1. refunds \in Nat
      BY <1>4
    <3>2. disputes \in Nat
      BY <1>4
    <3>3. value \in Nat
      BY <1>3, <1>4
    <3>4. currency \in Currency \cup {None}
      BY <1>3, <1>4
    <3>5. credit \in Nat
      <4> HIDE DEF Credit
      <4> QED
        BY <1>2, <1>4
    <3> QED
      BY <3>1, <3>2, <3>3, <3>4, <3>5
  <2>3. first \in Nat \cup {None} /\ last \in Nat \cup {None} /\ latency \in Seq(Nat)
    BY <1>5, <1>6
  <2> HIDE DEF f, refunds, disputes, value, currency, credit, first, last, latency
  <2>4. a.jobs + 1 \in Nat /\ a.payers \cup {r.payer} \in SUBSET Did
        /\ a.ingested \cup {r.id} \in SUBSET {s.id : s \in Payment}
    BY <1>3, <1>4
  <2> QED
    BY <2>1, <2>2, <2>3, <2>4 DEF MetricsAccumulator
<1> QED
  BY <1>5, <1>7, <1>8

(* The accumulator then sums up one receipt more.                          *)
LEMMA FoldSums ==
  ASSUME NEW d \in Did, NEW a \in MetricsAccumulator, NEW r \in Payment, r.payee = d,
         r.id \notin a.ingested, Coherent(a, r), SumsUp(d, a)
  PROVE  SumsUp(d, Fold(a, r))
<1>1. Payment \subseteq Receipt /\ \A s, u \in Payment : s.id = u.id => s = u
  BY TrustAssumption
<1> DEFINE f == Fold(a, r)
           M == Mine(d, a)
           C == Counted(d, a)
<1>2. /\ f.ingested = a.ingested \cup {r.id} /\ f.jobs = a.jobs + 1
      /\ f.payers = a.payers \cup {r.payer} /\ Len(f.latency) = Len(a.latency) + 1
      /\ f.credit = a.credit + Credit[r.outcome]
      /\ f.value = (IF Counts(r) THEN a.value + r.amount ELSE a.value)
      /\ f.currency = (IF Counts(r) THEN r.currency ELSE a.currency)
  BY FoldFields
<1> HIDE DEF f
<1>3. Mine(d, f) = M \cup {r} /\ r \notin M
  BY <1>1, <1>2 DEF Mine
<1>4. Counted(d, f) = (IF Counts(r) THEN C \cup {r} ELSE C) /\ r \notin C /\ C \subseteq M
  BY <1>3 DEF Counted, Counts
<1>5. \A s \in Payment : /\ Credits[s] = Credit[s.outcome] /\ Credits[s] \in Int
                         /\ Values[s] = s.amount /\ Values[s] \in Int
                         /\ s.currency \in Currency
  BY <1>1 DEF Credits, Values, Credit, Receipt, Outcomes
<1>6. M \subseteq Payment /\ C \subseteq Payment
  BY DEF Mine, Counted
<1>7. /\ IsFiniteSet(M) /\ a.jobs = Cardinality(M) /\ a.credit = SumFunctionOnSet(Credits, M)
      /\ a.value = SumFunctionOnSet(Values, C) /\ \A s \in C : s.currency = a.currency
      /\ a.payers = {s.payer : s \in M} /\ Len(a.latency) = a.jobs
  BY DEF SumsUp
<1> HIDE DEF M, C
<1>8. IsFiniteSet(C)
  BY <1>4, <1>7, FS_Subset
<1>9. IsFiniteSet(Mine(d, f)) /\ Cardinality(Mine(d, f)) = Cardinality(M) + 1
  BY <1>3, <1>7, FS_AddElement
<1>10. SumFunctionOnSet(Credits, M \cup {r}) = SumFunctionOnSet(Credits, M) + Credits[r]
  BY <1>3, <1>5, <1>6, <1>7, SumAdd
<1>11. SumFunctionOnSet(Values, C \cup {r}) = SumFunctionOnSet(Values, C) + Values[r]
  BY <1>4, <1>5, <1>6, <1>8, SumAdd
<1>12. f.value = SumFunctionOnSet(Values, Counted(d, f))
  BY <1>2, <1>4, <1>5, <1>7, <1>11
<1>13. \A s \in Counted(d, f) : s.currency = f.currency
  <2>1. CASE Counts(r)
    <3>1. a.currency \in {None, r.currency} /\ f.currency = r.currency
      BY <1>2, <2>1 DEF Coherent
    <3>2. \A s \in C : s.currency = r.currency
      BY <1>5, <1>6, <1>7, <3>1, NullAssumption
    <3> QED
      BY <1>4, <3>1, <3>2
  <2>2. CASE ~Counts(r)
    BY <1>2, <1>4, <1>7, <2>2
  <2> QED
    BY <2>1, <2>2
<1>14. f.payers = {s.payer : s \in Mine(d, f)}
  BY <1>2, <1>3, <1>7
<1>15. f.jobs = Cardinality(Mine(d, f)) /\ Len(f.latency) = f.jobs
  BY <1>2, <1>7, <1>9
<1>16. f.credit = SumFunctionOnSet(Credits, Mine(d, f))
  BY <1>2, <1>3, <1>5, <1>7, <1>10
<1>17. SumsUp(d, f)
  BY <1>9, <1>12, <1>13, <1>14, <1>15, <1>16 DEF SumsUp
<1> QED
  BY <1>17 DEF f

(* And what it has not folded in is still of another currency.             *)
LEMMA FoldMeasures ==
  ASSUME NEW d \in Did, NEW a \in MetricsAccumulator, NEW r \in Payment, r.payee = d,
         Coherent(a, r), MeasuredAs(d, a),
         \A s \in Payment : InLedger(s)' <=> (InLedger(s) \/ s = r)
  PROVE  MeasuredAs(d, Fold(a, r))'
<1>1. \A s, u \in Payment : s.id = u.id => s = u
  BY TrustAssumption
<1>2. PICK f : f = Fold(a, r)
  OBVIOUS
<1>3. /\ f.ingested = a.ingested \cup {r.id}
      /\ f.currency = IF Counts(r) THEN r.currency ELSE a.currency
  BY <1>2, FoldFields
<1>4. \A s \in Mine(d, f) : s \in Mine(d, a) \/ s = r
  BY <1>1, <1>3 DEF Mine
<1>5. \A s \in Mine(d, f) : s \in Payment /\ InLedger(s)'
  BY <1>4 DEF MeasuredAs, Mine
<1>6. ASSUME NEW s \in Payment, s.payee = d, InLedger(s)', s.id \notin f.ingested
      PROVE  s.outcome # "refunded" /\ f.currency \notin {None, s.currency}
  <2>1. InLedger(s) /\ s.id \notin a.ingested
    BY <1>3, <1>6
  <2>2. s.outcome # "refunded" /\ a.currency \notin {None, s.currency}
    BY <1>6, <2>1 DEF MeasuredAs
  <2> QED
    BY <1>3, <2>2 DEF Coherent
<1>7. MeasuredAs(d, f)'
  BY <1>5, <1>6 DEF MeasuredAs, Mine
<1> QED
  BY <1>2, <1>7

(* An accumulator that does not change measures a ledger that has grown by *)
(* receipts it had folded in or cannot add up.                             *)
LEMMA LedgerMeasures ==
  ASSUME NEW d \in Did, NEW a, MeasuredAs(d, a),
         \A s \in Payment : InLedger(s) => InLedger(s)',
         \A s \in Payment : s.payee = d /\ InLedger(s)' /\ ~InLedger(s) =>
           s.id \in a.ingested \/ ~Coherent(a, s)
  PROVE  MeasuredAs(d, a)'
<1>1. \A s \in Mine(d, a) : s \in Payment /\ InLedger(s)'
  BY DEF MeasuredAs, Mine
<1>2. ASSUME NEW s \in Payment, s.payee = d, InLedger(s)', s.id \notin a.ingested
      PROVE  s.outcome # "refunded" /\ a.currency \notin {None, s.currency}
  <2>1. CASE InLedger(s)
    BY <1>2, <2>1 DEF MeasuredAs
  <2>2. CASE ~InLedger(s)
    BY <1>2, <2>2 DEF Coherent, Counts
  <2> QED
    BY <2>1, <2>2
<1> QED
  BY <1>1, <1>2 DEF MeasuredAs, Mine

(* Flags and stakes are no part of what is measured.                       *)
LEMMA OtherFields ==
  ASSUME NEW d \in Did, NEW a, NEW b, MeasuredAs(d, a), SumsUp(d, a),
         b.ingested = a.ingested, b.jobs = a.jobs, b.credit = a.credit, b.value = a.value,
         b.currency = a.currency, b.payers = a.payers, b.latency = a.latency
  PROVE  MeasuredAs(d, b) /\ SumsUp(d, b)
<1>1. Mine(d, b) = Mine(d, a)
  BY DEF Mine
<1>2. Counted(d, b) = Counted(d, a)
  BY <1>1 DEF Counted
<1> QED
  BY <1>1, <1>2 DEF MeasuredAs, SumsUp

-----------------------------------------------------------------------------
(* The steps.                                                              *)

AccTyped == acc \in [Did -> MetricsAccumulator \cup {None}]

(* The accumulator to start with is one, and null is none.                 *)
LEMMA EmptyTyped ==
  /\ emptyAccumulator \in MetricsAccumulator
  /\ None \notin MetricsAccumulator
<1>1. {} \in SUBSET {r.id : r \in Payment} /\ <<>> \in Seq(Nat) /\ {} \in SUBSET Did /\ 0 \in Nat
  BY EmptySeq
<1>2. None \in Currency \cup {None} /\ None \in Nat \cup {None}
  OBVIOUS
<1> QED
  BY <1>1, <1>2, NullAssumption DEF emptyAccumulator, MetricsAccumulator

(* What is known of an agent is an accumulator.                            *)
LEMMA KnownTyped ==
  ASSUME AccTyped, NEW d \in Did
  PROVE  Known(d) \in MetricsAccumulator
BY EmptyTyped DEF AccTyped, Known

(* What an update leaves, and that no stake that is shown changes by a     *)
(* fold or a flag.                                                         *)
StakesKept == \A d \in Did : acc[d] # None => acc'[d] # None /\ acc'[d].stake = acc[d].stake

(* What an update of an accumulator changes, and what it leaves.           *)
LEMMA UpdateAcc ==
  ASSUME AccTyped, NEW d \in Did, NEW a \in MetricsAccumulator, Update(d, a)
  PROVE  /\ AccTyped'
         /\ acc'[d] = a
         /\ \A e \in Did : Known(e)' = IF e = d THEN a ELSE Known(e)
         /\ \A e \in Did : e # d => acc'[e] = acc[e]
         /\ a.stake = Known(d).stake => StakesKept
<1>1. acc' = [acc EXCEPT ![d] = a]
  BY DEF Update
<1>2. \A e \in Did : acc'[e] = IF e = d THEN a ELSE acc[e]
  BY <1>1 DEF AccTyped
<1>3. a # None
  BY EmptyTyped
<1>4. AccTyped'
  BY <1>1 DEF AccTyped
<1>5. \A e \in Did : Known(e)' = IF e = d THEN a ELSE Known(e)
  BY <1>2, <1>3 DEF Known
<1>6. a.stake = Known(d).stake => StakesKept
  BY <1>2, <1>3 DEF StakesKept, Known
<1> QED
  BY <1>2, <1>4, <1>5, <1>6

(* A receipt is delivered: it is in the ledger by then.                    *)
LEMMA IngestStep ==
  ASSUME AccTyped, MeasureInv, NEW r \in Payment, Ingest(r),
         \A s \in Payment : InLedger(s)' <=> (InLedger(s) \/ s = r)
  PROVE  AccTyped' /\ MeasureInv' /\ StakesKept
<1>1. r.payee \in Did
  BY TrustAssumption DEF Receipt
<1>d. PICK d \in Did : d = r.payee
  BY <1>1
<1>a. PICK a \in MetricsAccumulator : a = Known(d)
  BY KnownTyped
<1>2. \A e \in Did : MeasuredAs(e, Known(e)) /\ SumsUp(e, Known(e))
  BY DEF MeasureInv
<1>3. CASE r.id \notin a.ingested /\ Coherent(a, r)
  <2>f. PICK f : f = Fold(a, r)
    OBVIOUS
  <2>1. Update(d, f)
    BY <1>3, <1>d, <1>a, <2>f DEF Ingest
  <2>2. f \in MetricsAccumulator /\ f.stake = a.stake
    BY <2>f, FoldFields
  <2>3. /\ AccTyped' /\ StakesKept
        /\ \A e \in Did : Known(e)' = IF e = d THEN f ELSE Known(e)
    BY <1>a, <2>1, <2>2, UpdateAcc
  <2>4. SumsUp(d, f)
    BY <1>2, <1>3, <1>d, <1>a, <2>f, FoldSums
  <2>5. MeasuredAs(d, f)'
    <3>1. MeasuredAs(d, a)
      BY <1>2, <1>a
    <3> QED
      BY <1>3, <1>d, <2>f, <3>1, FoldMeasures
  <2>6. ASSUME NEW e \in Did
        PROVE  (MeasuredAs(e, Known(e)) /\ SumsUp(e, Known(e)))'
    <3>1. CASE e = d
      BY <2>3, <2>4, <2>5, <3>1 DEF MeasuredAs, SumsUp
    <3>2. CASE e # d
      <4>1. PICK b : b = Known(e)
        OBVIOUS
      <4>2. MeasuredAs(e, b)
        BY <1>2, <4>1
      <4>3. MeasuredAs(e, b)'
        BY <1>d, <3>2, <4>2, LedgerMeasures
      <4>4. Known(e)' = b /\ SumsUp(e, b)
        BY <1>2, <2>3, <3>2, <4>1
      <4> QED
        BY <4>3, <4>4 DEF MeasuredAs, SumsUp
    <3> QED
      BY <3>1, <3>2
  <2>7. MeasureInv'
    BY <2>6 DEF MeasureInv
  <2> QED
    BY <2>3, <2>7
<1>4. CASE ~(r.id \notin a.ingested /\ Coherent(a, r))
  <2>1. acc' = acc
    BY <1>4, <1>d, <1>a DEF Ingest
  <2>2. AccTyped' /\ StakesKept
    BY <2>1 DEF AccTyped, StakesKept
  <2>3. ASSUME NEW e \in Did
        PROVE  (MeasuredAs(e, Known(e)) /\ SumsUp(e, Known(e)))'
    <3>1. PICK b : b = Known(e)
      OBVIOUS
    <3>2. Known(e)' = b
      BY <2>1, <3>1 DEF Known
    <3>3. MeasuredAs(e, b) /\ SumsUp(e, b)
      BY <1>2, <3>1
    <3>4. \A s \in Payment : s.payee = e /\ InLedger(s)' /\ ~InLedger(s) =>
            s.id \in b.ingested \/ ~Coherent(b, s)
      BY <1>4, <1>d, <1>a, <3>1
    <3>5. MeasuredAs(e, b)'
      BY <3>3, <3>4, LedgerMeasures
    <3> QED
      BY <3>2, <3>3, <3>5 DEF MeasuredAs, SumsUp
  <2> QED
    BY <2>2, <2>3 DEF MeasureInv
<1> QED
  BY <1>3, <1>4

(* An update of the flags or of the stake, with no new receipt.            *)
LEMMA OtherUpdate ==
  ASSUME AccTyped, MeasureInv, NEW d \in Did, NEW b \in MetricsAccumulator, Update(d, b),
         \A s \in Payment : InLedger(s)' <=> InLedger(s),
         LET a == Known(d)
         IN  /\ b.ingested = a.ingested /\ b.jobs = a.jobs /\ b.credit = a.credit
             /\ b.value = a.value /\ b.currency = a.currency /\ b.payers = a.payers
             /\ b.latency = a.latency
  PROVE  MeasureInv'
<1>1. \A e \in Did : MeasuredAs(e, Known(e)) /\ SumsUp(e, Known(e))
  BY DEF MeasureInv
<1>2. \A e \in Did : Known(e)' = IF e = d THEN b ELSE Known(e)
  BY UpdateAcc
<1>3. ASSUME NEW e \in Did
      PROVE  (MeasuredAs(e, Known(e)) /\ SumsUp(e, Known(e)))'
  <2>1. PICK x : x = Known(e)'
    OBVIOUS
  <2>2. MeasuredAs(e, x) /\ SumsUp(e, x)
    <3>1. CASE e = d
      <4>1. PICK a : a = Known(d)
        OBVIOUS
      <4>2. MeasuredAs(d, a) /\ SumsUp(d, a) /\ x = b
        BY <1>1, <1>2, <2>1, <3>1, <4>1
      <4> QED
        BY <3>1, <4>1, <4>2, OtherFields
    <3>2. CASE e # d
      BY <1>1, <1>2, <2>1, <3>2
    <3> QED
      BY <3>1, <3>2
  <2>3. MeasuredAs(e, x)'
    BY <2>2, LedgerMeasures
  <2> QED
    BY <2>1, <2>2, <2>3 DEF MeasuredAs, SumsUp
<1> QED
  BY <1>3 DEF MeasureInv

(* Nothing changes what is measured when receipts and accumulators do not. *)
LEMMA MeasureKept ==
  ASSUME MeasureInv, UNCHANGED <<entries, acc>>
  PROVE  MeasureInv'
<1>1. \A s \in Payment : InLedger(s)' <=> InLedger(s)
  BY DEF InLedger, L!Listed
<1>2. ASSUME NEW d \in Did
      PROVE  (MeasuredAs(d, Known(d)) /\ SumsUp(d, Known(d)))'
  <2>1. PICK a : a = Known(d)
    OBVIOUS
  <2>2. Known(d)' = a
    BY <2>1 DEF Known
  <2>3. MeasuredAs(d, a) /\ SumsUp(d, a)
    BY <2>1 DEF MeasureInv
  <2>4. MeasuredAs(d, a)'
    BY <1>1, <2>3, LedgerMeasures
  <2> QED
    BY <2>2, <2>3, <2>4 DEF MeasuredAs, SumsUp
<1> QED
  BY <1>2 DEF MeasureInv

-----------------------------------------------------------------------------
(* Stakes.                                                                 *)

(* The rows of the stakes and what is bonded when one is appended.         *)
LEMMA RowAppended ==
  ASSUME stakes \in Seq(StakeRow), NEW row \in StakeRow, stakes' = Append(stakes, row)
  PROVE  /\ stakes' \in Seq(StakeRow)
         /\ Len(stakes) \in Nat /\ DOMAIN stakes = 1..Len(stakes)
         /\ DOMAIN stakes' = 1..(Len(stakes) + 1)
         /\ stakes'[Len(stakes) + 1] = row
         /\ \A i \in 1..Len(stakes) : stakes'[i] = stakes[i] /\ stakes[i] \in StakeRow
BY AppendProperties, LenProperties, ElementOfSeq

(* What is bonded grows by the row, in its account and in no other.        *)
LEMMA BondsGrow ==
  ASSUME stakes \in Seq(StakeRow), NEW row \in StakeRow, stakes' = Append(stakes, row),
         NEW d \in Did, NEW c \in Currency
  PROVE  /\ TotalBonded(stakes, d, c) \in Int
         /\ TotalBonded(stakes', d, c) = IF row.did = d /\ row.currency = c
                                         THEN TotalBonded(stakes, d, c) + row.amount
                                         ELSE TotalBonded(stakes, d, c)
<1>1. /\ Len(stakes) \in Nat /\ DOMAIN stakes = 1..Len(stakes)
      /\ DOMAIN stakes' = 1..(Len(stakes) + 1)
      /\ stakes'[Len(stakes) + 1] = row
      /\ \A i \in 1..Len(stakes) : stakes'[i] = stakes[i] /\ stakes[i] \in StakeRow
  BY RowAppended
<1> DEFINE n == Len(stakes)
           B == Bonded(stakes, d, c)
           f == [i \in DOMAIN stakes |-> stakes[i].amount]
           g == [i \in DOMAIN stakes' |-> stakes'[i].amount]
<1>2. B \subseteq 1..n
  BY <1>1 DEF Bonded
<1>3. Bonded(stakes', d, c) = IF row.did = d /\ row.currency = c THEN B \cup {n + 1} ELSE B
  BY <1>1 DEF Bonded
<1>4. \A i \in B : f[i] \in Int /\ g[i] = f[i]
  BY <1>1, <1>2 DEF StakeRow
<1>5. g[n + 1] = row.amount /\ row.amount \in Int
  BY <1>1 DEF StakeRow
<1>6. IsFiniteSet(B) /\ n + 1 \notin B
  <2>1. IsFiniteSet(1..n)
    BY <1>1, FS_Interval
  <2>2. n + 1 \notin 1..n
    BY <1>1
  <2> HIDE DEF B, n
  <2>3. IsFiniteSet(B)
    BY <1>2, <2>1, FS_Subset
  <2> QED
    BY <1>2, <2>2, <2>3
<1>7. /\ TotalBonded(stakes, d, c) = SumFunctionOnSet(f, B)
      /\ TotalBonded(stakes', d, c) = SumFunctionOnSet(g, Bonded(stakes', d, c))
  BY DEF TotalBonded
<1> HIDE DEF n, B, f, g
<1>8. SumFunctionOnSet(f, B) \in Int
  BY <1>4, <1>6, SumInt
<1>9. SumFunctionOnSet(g, B) = SumFunctionOnSet(f, B)
  BY <1>4, <1>6, SumSame
<1>10. SumFunctionOnSet(g, B \cup {n + 1}) = SumFunctionOnSet(f, B) + row.amount
  <2>1. PICK m : m = n + 1
    OBVIOUS
  <2>2. m \notin B /\ g[m] = row.amount /\ g[m] \in Int
    BY <1>5, <1>6, <2>1
  <2>3. \A i \in B : g[i] \in Int
    BY <1>4
  <2>4. SumFunctionOnSet(g, B \cup {m}) = SumFunctionOnSet(g, B) + g[m]
    BY <1>6, <2>2, <2>3, SumAdd
  <2> QED
    BY <1>9, <2>1, <2>2, <2>4
<1> QED
  BY <1>3, <1>7, <1>8, <1>9, <1>10

(* What is held of an account when a hold is placed.                       *)
HeldSum(d, c) == SumFunctionOnSet([h \in Held(d, c) |-> hold[h].amount], Held(d, c))

(* So does what is held.                                                   *)
LEMMA HoldsGrow ==
  ASSUME W!TypeOK, NEW h \in HoldId, NEW owner \in Account, NEW a \in Nat,
         W!PlaceHold(h, owner, a), NEW d \in Did, NEW c \in Currency, IsFiniteSet(Held(d, c))
  PROVE  /\ IsFiniteSet(Held(d, c))'
         /\ HeldSum(d, c)' = IF owner = <<d, c>> THEN HeldSum(d, c) + a ELSE HeldSum(d, c)
<1>1. /\ hold \in [HoldId -> W!Hold \cup {W!NoHold}] /\ hold[h] = W!NoHold
      /\ hold' = [hold EXCEPT ![h] = [state |-> "active", did |-> owner, amount |-> a]]
  BY DEF W!TypeOK, W!PlaceHold, W!Fresh
<1> DEFINE new == [state |-> "active", did |-> owner, amount |-> a]
           H == Held(d, c)
<1>2. \A k \in HoldId : hold'[k] = IF k = h THEN new ELSE hold[k]
  BY <1>1
<1>3. new # W!NoHold
  <2>1. new.state # "none"
    OBVIOUS
  <2> QED
    BY <2>1 DEF W!NoHold
<1>4. Held(d, c)' = (IF owner = <<d, c>> THEN H \cup {h} ELSE H) /\ h \notin H /\ H \subseteq HoldId
  BY <1>1, <1>2, <1>3 DEF Held
<1> DEFINE f == [k \in H |-> hold[k].amount]
           K == Held(d, c)'
           g == [k \in K |-> hold'[k].amount]
<1>5. \A k \in H : f[k] \in Int
  BY <1>1 DEF Held, W!Hold
<1>6. \A k \in H : g[k] = f[k]
  BY <1>2, <1>4
<1>7. HeldSum(d, c) = SumFunctionOnSet(f, H) /\ HeldSum(d, c)' = SumFunctionOnSet(g, K)
  BY DEF HeldSum
<1>8. owner = <<d, c>> => g[h] = a /\ g[h] \in Int
  BY <1>2, <1>4
<1>9. K = (IF owner = <<d, c>> THEN H \cup {h} ELSE H) /\ h \notin H /\ IsFiniteSet(H)
  BY <1>4
<1>10. IsFiniteSet(Held(d, c))'
  <2>1. IsFiniteSet(H \cup {h})
    <3> HIDE DEF H
    <3> QED
      BY <1>9, FS_AddElement
  <2> QED
    BY <1>9, <2>1
<1> HIDE DEF H, f, K, g
<1>11. SumFunctionOnSet(g, H) = SumFunctionOnSet(f, H)
  BY <1>6, <1>9, SumSame
<1>12. owner = <<d, c>> => SumFunctionOnSet(g, H \cup {h}) = SumFunctionOnSet(f, H) + a
  BY <1>5, <1>6, <1>8, <1>9, SumJoins
<1> QED
  BY <1>7, <1>9, <1>10, <1>11, <1>12

(* The bonds of every account stay what is held of it.                     *)
LEMMA BondsStay ==
  ASSUME W!TypeOK, stakes \in Seq(StakeRow), NEW h \in HoldId, NEW d \in Did, NEW a \in StakeAmount,
         NEW c \in Currency, W!PlaceHold(h, <<d, c>>, a),
         NEW row \in StakeRow, row.did = d, row.currency = c, row.amount = a,
         stakes' = Append(stakes, row), NEW e \in Did, NEW x \in Currency, BondsHeld(e, x)
  PROVE  BondsHeld(e, x)'
<1>1. a \in Nat /\ <<d, c>> \in Account
  BY TrustAssumption DEF Account
<1>2. /\ IsFiniteSet(Held(e, x)) /\ TotalBonded(stakes, e, x) \in Nat
      /\ TotalBonded(stakes, e, x) = HeldSum(e, x)
  BY DEF BondsHeld, HeldSum
<1>3. /\ IsFiniteSet(Held(e, x))'
      /\ HeldSum(e, x)' = IF <<d, c>> = <<e, x>> THEN HeldSum(e, x) + a ELSE HeldSum(e, x)
  BY <1>1, <1>2, HoldsGrow
<1>4. TotalBonded(stakes', e, x) = IF d = e /\ c = x THEN TotalBonded(stakes, e, x) + a
                                   ELSE TotalBonded(stakes, e, x)
  BY BondsGrow
<1>5. TotalBonded(stakes', e, x) \in Nat /\ TotalBonded(stakes', e, x) = HeldSum(e, x)'
  BY <1>1, <1>2, <1>3, <1>4
<1> QED
  BY <1>3, <1>5 DEF BondsHeld, HeldSum

(* Reputation shows the total of the agent's bonds in the last currency.   *)
LEMMA StakesStayShown ==
  ASSUME stakes \in Seq(StakeRow), NEW d \in Did, NEW row \in StakeRow, row.did = d,
         stakes' = Append(stakes, row), LedgerInv, NEW a,
         entries' = L!Appended("stake_bonded", d, a),
         acc'[d] # None, acc'[d].stake = TotalBonded(stakes', d, row.currency),
         \A e \in Did : e # d => acc'[e] = acc[e],
         NEW e \in Did, StakeShown(e)
  PROVE  StakeShown(e)'
<1>1. /\ stakes' \in Seq(StakeRow)
      /\ Len(stakes) \in Nat /\ DOMAIN stakes = 1..Len(stakes)
      /\ DOMAIN stakes' = 1..(Len(stakes) + 1)
      /\ stakes'[Len(stakes) + 1] = row
      /\ \A i \in 1..Len(stakes) : stakes'[i] = stakes[i] /\ stakes[i] \in StakeRow
  BY RowAppended
<1> DEFINE n == Len(stakes)
           R == RowsOf(e)
           Listed == L!Listed("stake_bonded", e)
<1>2. RowsOf(e)' = (IF e = d THEN R \cup {n + 1} ELSE R) /\ R \subseteq 1..n
  BY <1>1 DEF RowsOf
<1>3. /\ L!Listed("stake_bonded", e)' = (IF e = d THEN Listed \cup {Len(entries) + 1} ELSE Listed)
      /\ Len(entries) \in Nat /\ Listed \subseteq 1..Len(entries)
  <2>1. L!Listed("stake_bonded", e)' = IF e = d THEN Listed \cup {Len(entries) + 1} ELSE Listed
    BY LedgerGrows
  <2>2. DOMAIN entries = 1..Len(entries) /\ Len(entries) \in Nat
    BY LedgerGrows
  <2> QED
    BY <2>1, <2>2 DEF L!Listed
<1>4. /\ R # {} => acc[e] # None /\ acc[e].stake = TotalBonded(stakes, e, stakes[Max(R)].currency)
      /\ IsFiniteSet(Listed) /\ Cardinality(Listed) = Cardinality(R)
  BY DEF StakeShown
<1>5. /\ R # {} => Max(R) \in R
      /\ Max(R \cup {n + 1}) = n + 1
      /\ IsFiniteSet(R)
  <2>1. R \in SUBSET Nat /\ \A i \in R : i <= n
    BY <1>1, <1>2
  <2>2. R \cup {n + 1} \in SUBSET Nat /\ R \cup {n + 1} # {} /\ n + 1 \in Nat
        /\ \A i \in R \cup {n + 1} : i <= n + 1
    BY <1>1, <2>1
  <2>3. n \in Nat /\ n + 1 \notin R
    BY <1>1, <2>1
  <2> HIDE DEF R, n
  <2>4. R # {} => Max(R) \in R
    BY <2>1, <2>3, MaxNat
  <2>5. Max(R \cup {n + 1}) \in R \cup {n + 1} /\ n + 1 <= Max(R \cup {n + 1})
    BY <2>2, MaxNat
  <2>6. Max(R \cup {n + 1}) = n + 1
    <3>1. PICK m : m = Max(R \cup {n + 1})
      OBVIOUS
    <3>2. m \in R \cup {n + 1} /\ n + 1 <= m
      BY <2>5, <3>1
    <3>3. m \notin R
      BY <2>1, <2>3, <3>2
    <3> QED
      BY <3>1, <3>2, <3>3
  <2>7. IsFiniteSet(R)
    BY <2>1, <2>3, FS_BoundedSetOfNaturals
  <2> QED
    BY <2>4, <2>6, <2>7
<1>6. CASE e = d
  <2>1. /\ RowsOf(e)' = R \cup {n + 1} /\ n + 1 \notin R
        /\ L!Listed("stake_bonded", e)' = Listed \cup {Len(entries) + 1}
        /\ Len(entries) + 1 \notin Listed
    BY <1>1, <1>2, <1>3, <1>6
  <2>2. stakes'[Max(RowsOf(e)')] = row
    BY <1>1, <1>5, <2>1
  <2> DEFINE k == n + 1
             m == Len(entries) + 1
             listed == L!Listed("stake_bonded", e)'
             rows == RowsOf(e)'
  <2>3. rows = R \cup {k} /\ k \notin R /\ listed = Listed \cup {m} /\ m \notin Listed
    BY <2>1
  <2>4. IsFiniteSet(listed) /\ Cardinality(listed) = Cardinality(rows)
    <3> HIDE DEF k, m, R, Listed, rows, listed, n
    <3>1. IsFiniteSet(listed) /\ Cardinality(listed) = Cardinality(Listed) + 1
      BY <1>4, <2>3, FS_AddElement
    <3>2. Cardinality(rows) = Cardinality(R) + 1
      BY <1>5, <2>3, FS_AddElement
    <3> QED
      BY <1>4, <3>1, <3>2
  <2>5. acc'[e] # None /\ acc'[e].stake = TotalBonded(stakes', e, stakes'[Max(RowsOf(e)')].currency)
    BY <1>6, <2>2
  <2> HIDE DEF R, Listed
  <2> QED
    BY <2>4, <2>5 DEF StakeShown
<1>7. CASE e # d
  <2>1. RowsOf(e)' = R /\ L!Listed("stake_bonded", e)' = Listed /\ acc'[e] = acc[e]
    BY <1>2, <1>3, <1>7
  <2>2. ASSUME R # {}
        PROVE  /\ acc'[e] # None
               /\ acc'[e].stake = TotalBonded(stakes', e, stakes'[Max(R)].currency)
    <3>1. Max(R) \in 1..n
      BY <1>2, <1>5, <2>2
    <3>2. stakes'[Max(R)].currency = stakes[Max(R)].currency
          /\ stakes[Max(R)].currency \in Currency
      BY <1>1, <3>1 DEF StakeRow
    <3>3. PICK x \in Currency : x = stakes[Max(R)].currency
      BY <3>2
    <3>4. TotalBonded(stakes', e, x) = TotalBonded(stakes, e, x)
      BY <1>7, BondsGrow
    <3> QED
      BY <1>4, <2>1, <2>2, <3>2, <3>3, <3>4
  <2> HIDE DEF R, Listed
  <2>3. IsFiniteSet(L!Listed("stake_bonded", e)')
        /\ Cardinality(L!Listed("stake_bonded", e)') = Cardinality(RowsOf(e)')
    BY <1>4, <2>1 DEF R, Listed
  <2> QED
    BY <2>1, <2>2, <2>3 DEF StakeShown
<1> QED
  BY <1>6, <1>7

(* Where no stake is bonded, what is shown stays.                          *)
LEMMA StakesStay ==
  ASSUME StakesInv, UNCHANGED <<hold, stakes>>, StakesKept,
         \A d \in Did : L!Listed("stake_bonded", d)' = L!Listed("stake_bonded", d)
  PROVE  StakesInv'
<1>1. ASSUME NEW d \in Did, NEW c \in Currency
      PROVE  BondsHeld(d, c)'
  <2>1. Held(d, c)' = Held(d, c)
    BY DEF Held
  <2>2. BondsHeld(d, c)
    BY DEF StakesInv
  <2> QED
    BY <2>1, <2>2 DEF BondsHeld
<1>2. ASSUME NEW d \in Did
      PROVE  StakeShown(d)'
  <2>1. RowsOf(d)' = RowsOf(d)
    BY DEF RowsOf
  <2>2. StakeShown(d)
    BY DEF StakesInv
  <2>3. L!Listed("stake_bonded", d)' = L!Listed("stake_bonded", d)
    OBVIOUS
  <2> QED
    BY <2>1, <2>2, <2>3 DEF StakeShown, StakesKept
<1> QED
  BY <1>1, <1>2 DEF StakesInv

-----------------------------------------------------------------------------
(* The invariant holds.                                                    *)

(* At first nothing is known of anyone and nothing is bonded.              *)
LEMMA InitTrustInv ==
  Init => TrustInv
<1> SUFFICES ASSUME Init PROVE TrustInv
  OBVIOUS
<1>1. /\ entries = <<>> /\ stakes = <<>> /\ acc = [d \in Did |-> None]
      /\ hold = [h \in HoldId |-> W!NoHold]
  BY DEF Init
<1>2. TypeOK
  <2>1. W!TypeOK
    BY TrustAssumption DEF Init, W!TypeOK
  <2>2. stakes \in Seq(StakeRow)
    BY <1>1, EmptySeq
  <2> QED
    BY <1>1, <2>1, <2>2 DEF TypeOK
<1>3. DOMAIN entries = {} /\ DOMAIN stakes = {}
  BY <1>1
<1>4. LedgerInv
  <2>1. IsSeq(entries)
    BY <1>1, EmptySeq DEF IsSeq
  <2> QED
    BY <1>3, <2>1 DEF LedgerInv, L!VerifyChain
<1>5. MeasureInv
  <2> SUFFICES ASSUME NEW d \in Did
               PROVE  MeasuredAs(d, Known(d)) /\ SumsUp(d, Known(d))
    BY DEF MeasureInv
  <2>1. Known(d) = emptyAccumulator
    BY <1>1 DEF Known
  <2>2. Mine(d, emptyAccumulator) = {} /\ Counted(d, emptyAccumulator) = {}
    BY DEF Mine, Counted, emptyAccumulator
  <2>3. \A r \in Payment : ~InLedger(r)
    BY <1>3 DEF InLedger, L!Listed
  <2>4. Len(emptyAccumulator.latency) = 0
    BY EmptySeq DEF emptyAccumulator
  <2>5. SumsUp(d, emptyAccumulator)
    BY <2>2, <2>4, SumEmpty, FS_EmptySet DEF SumsUp, emptyAccumulator
  <2> QED
    BY <2>1, <2>2, <2>3, <2>5 DEF MeasuredAs
<1>6. StakesInv
  <2>1. ASSUME NEW d \in Did, NEW c \in Currency
        PROVE  BondsHeld(d, c)
    <3>1. Held(d, c) = {}
      BY <1>1 DEF Held
    <3>2. TotalBonded(stakes, d, c) = 0
      BY <1>3, SumEmpty DEF TotalBonded, Bonded
    <3> QED
      BY <3>1, <3>2, SumEmpty, FS_EmptySet DEF BondsHeld
  <2>2. ASSUME NEW d \in Did
        PROVE  StakeShown(d)
    <3>1. RowsOf(d) = {} /\ L!Listed("stake_bonded", d) = {}
      BY <1>3 DEF RowsOf, L!Listed
    <3> QED
      BY <3>1, FS_EmptySet DEF StakeShown
  <2> QED
    BY <2>1, <2>2 DEF StakesInv
<1> QED
  BY <1>2, <1>4, <1>5, <1>6 DEF TrustInv

(* Nothing but the ledger's receipts, accumulators, bonds and holds        *)
(* matters.                                                                *)
LEMMA TypeKept ==
  ASSUME TypeOK, UNCHANGED stakeVars, AccTyped'
  PROVE  TypeOK'
BY DEF TypeOK, W!TypeOK, stakeVars, walletVars, AccTyped

(* A receipt is settled, or delivered once more.                           *)
LEMMA SettleKeeps ==
  ASSUME TrustInv, NEW r \in Payment, Settle(r) \/ Redeliver(r)
  PROVE  TrustInv'
<1>1. TypeOK /\ LedgerInv /\ MeasureInv /\ StakesInv /\ AccTyped
  BY DEF TrustInv, TypeOK, AccTyped
<1>2. Ingest(r) /\ UNCHANGED stakeVars
  BY DEF Settle, Redeliver
<1>3. /\ LedgerInv'
      /\ \A s \in Payment : InLedger(s)' <=> (InLedger(s) \/ s = r)
      /\ \A d \in Did : L!Listed("stake_bonded", d)' = L!Listed("stake_bonded", d)
  <2>1. CASE Settle(r)
    <3>1. r.payee \in Did
      BY TrustAssumption DEF Receipt
    <3>2. entries' = L!Appended("receipt", r.payee, r.id)
      BY <2>1 DEF Settle
    <3>3. \A d \in Did : \A k \in {"receipt", "stake_bonded"} \ {"receipt"} :
            L!Listed(k, d)' = L!Listed(k, d)
      BY <1>1, <3>1, <3>2, LedgerGrows
    <3>4. "stake_bonded" \in {"receipt", "stake_bonded"} \ {"receipt"}
      OBVIOUS
    <3>5. \A d \in Did : L!Listed("stake_bonded", d)' = L!Listed("stake_bonded", d)
      BY <3>3, <3>4
    <3> QED
      BY <1>1, <3>2, <3>5, ReceiptAppended
  <2>2. CASE Redeliver(r)
    <3>1. entries' = entries /\ InLedger(r)
      BY <2>2 DEF Redeliver
    <3>2. LedgerInv'
      BY <1>1, <3>1 DEF LedgerInv, IsSeq, L!VerifyChain, L!HashChain, L!Content
    <3>3. \A s \in Payment : InLedger(s)' <=> InLedger(s)
      BY <3>1 DEF InLedger, L!Listed
    <3>4. \A d \in Did : L!Listed("stake_bonded", d)' = L!Listed("stake_bonded", d)
      BY <3>1 DEF L!Listed
    <3> QED
      BY <3>1, <3>2, <3>3, <3>4
  <2> QED
    BY <2>1, <2>2
<1>4. AccTyped' /\ MeasureInv' /\ StakesKept
  BY <1>1, <1>2, <1>3, IngestStep
<1>5. StakesInv'
  BY <1>1, <1>2, <1>3, <1>4, StakesStay DEF stakeVars, walletVars
<1>6. TypeOK'
  BY <1>1, <1>2, <1>4, TypeKept
<1> QED
  BY <1>3, <1>4, <1>5, <1>6 DEF TrustInv

(* The ledger as it was.                                                   *)
LEMMA LedgerKept ==
  ASSUME LedgerInv, UNCHANGED entries
  PROVE  /\ LedgerInv'
         /\ \A s \in Payment : InLedger(s)' <=> InLedger(s)
         /\ \A d \in Did : L!Listed("stake_bonded", d)' = L!Listed("stake_bonded", d)
BY DEF LedgerInv, IsSeq, L!VerifyChain, L!HashChain, L!Content, InLedger, L!Listed

(* An abuse signal.                                                        *)
LEMMA SignalKeeps ==
  ASSUME TrustInv, NEW d \in Reported, NEW kind \in SignalKind, Signal(d, kind)
  PROVE  TrustInv'
<1>1. TypeOK /\ LedgerInv /\ MeasureInv /\ StakesInv /\ AccTyped
  BY DEF TrustInv, TypeOK, AccTyped
<1>2. d \in Did
  BY TrustAssumption
<1>a. PICK a \in MetricsAccumulator : a = Known(d)
  BY <1>1, <1>2, KnownTyped
<1>b. PICK b : b = IF kind = "message_spam" THEN [a EXCEPT !.spam = @ + 1]
                                            ELSE [a EXCEPT !.posts = @ + 1]
  OBVIOUS
<1>3. Update(d, b) /\ UNCHANGED <<stakeVars, entries>>
  BY <1>a, <1>b DEF Signal
<1>4. b \in MetricsAccumulator
  <2>1. a.spam + 1 \in Nat /\ a.posts + 1 \in Nat
    BY DEF MetricsAccumulator
  <2>2. \A n \in Nat : [a EXCEPT !.spam = n] \in MetricsAccumulator
                       /\ [a EXCEPT !.posts = n] \in MetricsAccumulator
    BY DEF MetricsAccumulator
  <2> QED
    BY <1>b, <2>1, <2>2
<1>5. /\ b.ingested = a.ingested /\ b.jobs = a.jobs /\ b.credit = a.credit
      /\ b.value = a.value /\ b.currency = a.currency /\ b.payers = a.payers
      /\ b.latency = a.latency /\ b.stake = a.stake
  BY <1>b DEF MetricsAccumulator
<1>6. AccTyped' /\ StakesKept
  BY <1>1, <1>2, <1>3, <1>4, <1>5, <1>a, UpdateAcc
<1>7. /\ LedgerInv'
      /\ \A s \in Payment : InLedger(s)' <=> InLedger(s)
      /\ \A e \in Did : L!Listed("stake_bonded", e)' = L!Listed("stake_bonded", e)
  BY <1>1, <1>3, LedgerKept
<1>8. MeasureInv'
  BY <1>1, <1>2, <1>3, <1>4, <1>5, <1>7, <1>a, OtherUpdate
<1>9. StakesInv'
  BY <1>1, <1>3, <1>6, <1>7, StakesStay DEF stakeVars, walletVars
<1>10. TypeOK'
  BY <1>1, <1>3, <1>6, TypeKept
<1> QED
  BY <1>7, <1>8, <1>9, <1>10 DEF TrustInv

(* A stake.                                                                *)
LEMMA StakeKeeps ==
  ASSUME TrustInv, NEW h \in HoldId, NEW d \in Did, NEW a \in StakeAmount, NEW c \in Currency,
         Stake(h, d, a, c)
  PROVE  TrustInv'
<1>1. TypeOK /\ LedgerInv /\ MeasureInv /\ StakesInv /\ AccTyped
  BY DEF TrustInv, TypeOK, AccTyped
<1>2. W!TypeOK /\ stakes \in Seq(StakeRow)
  BY <1>1 DEF TypeOK
<1>3. a \in Nat /\ <<d, c>> \in Account
  BY TrustAssumption DEF Account
<1>r. PICK row : row = [did |-> d, hold |-> h, amount |-> a, currency |-> c, state |-> "bonded"]
  OBVIOUS
<1>4. row \in StakeRow /\ row.did = d /\ row.currency = c /\ row.amount = a
  BY <1>3, <1>r DEF StakeRow
<1>5. /\ W!PlaceHold(h, <<d, c>>, a)
      /\ stakes' = Append(stakes, row)
      /\ entries' = L!Appended("stake_bonded", d, a)
      /\ Update(d, [Known(d) EXCEPT !.stake = TotalBonded(stakes', d, c)])
  BY <1>r DEF Stake
<1>k. PICK k \in MetricsAccumulator : k = Known(d)
  BY <1>1, KnownTyped
<1>b. PICK b : b = [k EXCEPT !.stake = TotalBonded(stakes', d, c)]
  OBVIOUS
<1>6. ASSUME NEW e \in Did, NEW x \in Currency
      PROVE  BondsHeld(e, x)'
  <2>1. BondsHeld(e, x)
    BY <1>1 DEF StakesInv
  <2> QED
    BY <1>2, <1>4, <1>5, <2>1, BondsStay
<1>7. TotalBonded(stakes', d, c) \in Nat
  BY <1>6 DEF BondsHeld
<1>8. /\ b \in MetricsAccumulator
      /\ b.stake = TotalBonded(stakes', d, c)
      /\ b.ingested = k.ingested /\ b.jobs = k.jobs /\ b.credit = k.credit
      /\ b.value = k.value /\ b.currency = k.currency /\ b.payers = k.payers
      /\ b.latency = k.latency
  BY <1>7, <1>b DEF MetricsAccumulator
<1>9. Update(d, b)
  BY <1>5, <1>k, <1>b
<1>10. AccTyped' /\ acc'[d] = b /\ \A e \in Did : e # d => acc'[e] = acc[e]
  BY <1>1, <1>8, <1>9, UpdateAcc
<1>11. LedgerInv' /\ \A s \in Payment : InLedger(s)' <=> InLedger(s)
  BY <1>1, <1>5, BondAppended
<1>12. MeasureInv'
  BY <1>1, <1>8, <1>9, <1>11, <1>k, OtherUpdate
<1>13. acc'[d] # None /\ acc'[d].stake = TotalBonded(stakes', d, row.currency)
  BY <1>4, <1>8, <1>10, EmptyTyped
<1>14. ASSUME NEW e \in Did
       PROVE  StakeShown(e)'
  <2>1. StakeShown(e)
    BY <1>1 DEF StakesInv
  <2> QED
    BY <1>1, <1>2, <1>4, <1>5, <1>10, <1>13, <2>1, StakesStayShown
<1>15. StakesInv'
  BY <1>6, <1>14 DEF StakesInv
<1>16. TypeOK'
  <2>1. stakes' \in Seq(StakeRow)
    BY <1>2, <1>4, <1>5, RowAppended
  <2>2. W!TypeOK'
    <3>1. available' \in [Account -> Nat]
      BY <1>2, <1>3, <1>5 DEF W!PlaceHold, W!CanHold, W!TypeOK
    <3>2. held' \in [Account -> Int]
      BY <1>2, <1>3, <1>5 DEF W!PlaceHold, W!TypeOK
    <3>3. hold' \in [HoldId -> W!Hold \cup {W!NoHold}]
      <4>1. [state |-> "active", did |-> <<d, c>>, amount |-> a] \in W!Hold
        BY <1>3 DEF W!Hold, W!HoldState
      <4> QED
        BY <1>2, <1>5, <4>1 DEF W!PlaceHold, W!TypeOK
    <3> QED
      BY <3>1, <3>2, <3>3 DEF W!TypeOK
  <2> QED
    BY <1>10, <2>1, <2>2 DEF TypeOK, AccTyped
<1> QED
  BY <1>11, <1>12, <1>15, <1>16 DEF TrustInv

(* Signing, answering and expiring snapshots touches none of it.           *)
LEMMA SnapshotsKeep ==
  ASSUME TrustInv, UNCHANGED <<stakeVars, entries, acc>>
  PROVE  TrustInv'
<1>1. TypeOK /\ LedgerInv /\ MeasureInv /\ StakesInv /\ AccTyped'
  BY DEF TrustInv, TypeOK, AccTyped
<1>2. StakesKept
  BY DEF StakesKept
<1>3. LedgerInv' /\ \A d \in Did : L!Listed("stake_bonded", d)' = L!Listed("stake_bonded", d)
  BY <1>1, LedgerKept
<1>4. StakesInv'
  BY <1>1, <1>2, <1>3, StakesStay DEF stakeVars, walletVars
<1>5. MeasureInv'
  BY <1>1, MeasureKept
<1>6. TypeOK'
  BY <1>1, TypeKept
<1> QED
  BY <1>3, <1>4, <1>5, <1>6 DEF TrustInv

(* Every step keeps the invariant.                                         *)
LEMMA StepTrustInv ==
  TrustInv /\ [Next]_vars => TrustInv'
<1> SUFFICES ASSUME TrustInv, [Next]_vars PROVE TrustInv'
  OBVIOUS
<1>1. CASE \E r \in Payment : Settle(r) \/ Redeliver(r)
  BY <1>1, SettleKeeps
<1>2. CASE \E d \in Reported, kind \in SignalKind : Signal(d, kind)
  BY <1>2, SignalKeeps
<1>3. CASE \E s \in signing : Cache(s)
  BY <1>3, SnapshotsKeep DEF Cache
<1>4. CASE \E d \in Did : GetSnapshot(d) \/ Expire(d)
  BY <1>4, SnapshotsKeep DEF GetSnapshot, Expire
<1>5. CASE Staking
  <2>1. PICK d \in Did, a \in StakeAmount, c \in Currency : Stake(FreshHold, d, a, c)
    BY <1>5 DEF Staking
  <2>2. FreshHold \in HoldId
    BY <1>5 DEF Staking, FreshHold
  <2> QED
    BY <2>1, <2>2, StakeKeeps
<1>6. CASE UNCHANGED vars
  BY <1>6, SnapshotsKeep DEF vars
<1> QED
  BY <1>1, <1>2, <1>3, <1>4, <1>5, <1>6 DEF Next

(* So it always holds.                                                     *)
LEMMA TrustInvariant ==
  Spec => []TrustInv
BY InitTrustInv, StepTrustInv, PTL DEF Spec

(* An agent's reputation is the sum of its receipts in the ledger, each    *)
(* once, those of a second currency aside (reputation.service.ts:40-57).   *)
THEOREM MeasuredFromLedger ==
  Spec => []Measured
<1>1. TrustInv => Measured
  <2> SUFFICES ASSUME TrustInv PROVE Measured
    OBVIOUS
  <2>1. TypeOK /\ \A d \in Did : MeasuredAs(d, Known(d)) /\ SumsUp(d, Known(d))
    BY DEF TrustInv, MeasureInv
  <2>2. ASSUME NEW d \in Did, acc[d] # None
        PROVE  MeasuredAs(d, acc[d]) /\ SumsUp(d, acc[d])
    BY <2>1, <2>2 DEF Known
  <2>3. ASSUME NEW d \in Did, acc[d] # None
        PROVE  \A r \in Payment : r.payee = d /\ InLedger(r) /\ r.id \notin acc[d].ingested =>
                 r.outcome # "refunded" /\ r.currency # acc[d].currency
    BY <2>2, <2>3 DEF MeasuredAs
  <2>4. ASSUME NEW d \in Did, acc[d] # None
        PROVE  \A r \in Mine(d, acc[d]) : InLedger(r)
    BY <2>2, <2>4 DEF MeasuredAs
  <2> QED
    BY <2>1, <2>2, <2>3, <2>4, Zenon DEF Measured, SumsUp, Mine, Counted, Credits, Values
<1> QED
  BY <1>1, TrustInvariant, PTL

(* The stake that reputation shows is what the agent's active holds lock,  *)
(* and the ledger has each bond (stake/service.ts:60-95).                  *)
THEOREM StakeIsBacked ==
  Spec => []StakeBacked
<1>1. TrustInv => StakeBacked
  <2> SUFFICES ASSUME TrustInv, NEW d \in Did, RowsOf(d) # {}
               PROVE  LET c == stakes[Max(RowsOf(d))].currency
                      IN  /\ acc[d].stake = SumFunctionOnSet([h \in Held(d, c) |-> hold[h].amount],
                                                             Held(d, c))
                          /\ Cardinality(L!Listed("stake_bonded", d)) = Cardinality(RowsOf(d))
    BY DEF StakeBacked, RowsOf
  <2>1. StakeShown(d) /\ stakes \in Seq(StakeRow)
    BY DEF TrustInv, StakesInv, TypeOK
  <2>2. Max(RowsOf(d)) \in RowsOf(d)
    <3>1. Len(stakes) \in Nat /\ DOMAIN stakes = 1..Len(stakes)
      BY <2>1, LenProperties
    <3>2. RowsOf(d) \in SUBSET Nat /\ \A i \in RowsOf(d) : i <= Len(stakes)
      BY <3>1 DEF RowsOf
    <3> QED
      BY <3>1, <3>2, MaxNat
  <2>3. stakes[Max(RowsOf(d))].currency \in Currency
    <3>1. PICK i \in DOMAIN stakes : i = Max(RowsOf(d))
      BY <2>2 DEF RowsOf
    <3>2. stakes[i] \in StakeRow
      BY <2>1, LenProperties, ElementOfSeq
    <3> QED
      BY <3>1, <3>2 DEF StakeRow
  <2>4. PICK c \in Currency : c = stakes[Max(RowsOf(d))].currency
    BY <2>3
  <2>5. BondsHeld(d, c)
    BY DEF TrustInv, StakesInv
  <2>6. acc[d].stake = TotalBonded(stakes, d, c)
    BY <2>1, <2>4 DEF StakeShown
  <2>7. Cardinality(L!Listed("stake_bonded", d)) = Cardinality(RowsOf(d))
    BY <2>1 DEF StakeShown
  <2> QED
    BY <2>4, <2>5, <2>6, <2>7 DEF BondsHeld
<1> QED
  BY <1>1, TrustInvariant, PTL

(* The chain always checks, and every entry has a proof of inclusion that  *)
(* is no proof for another, however many entries there are (ledger.ts:     *)
(* 110-130, merkle.ts:30-59).                                              *)
THEOREM LedgerAudits ==
  Spec => []Auditable
<1>1. TrustInv => Auditable
  <2> SUFFICES ASSUME TrustInv PROVE Auditable
    OBVIOUS
  <2>1. IsSeq(entries) /\ L!VerifyChain
    BY DEF TrustInv, LedgerInv
  <2>2. \A i, j \in DOMAIN entries :
          L!VerifyProof(entries[j].hash, L!MerkleProofs[i], L!MerkleRoot) <=> i = j
    BY <2>1, ProofsDecide
  <2> QED
    BY <2>1, <2>2 DEF Auditable
<1> QED
  BY <1>1, TrustInvariant, PTL

-----------------------------------------------------------------------------
(* Trust.                                                                  *)

(* A share is a whole number of percent.                                   *)
LEMMA PercentBounds ==
  ASSUME NEW part \in Nat, NEW whole \in Nat
  PROVE  Percent(part, whole) \in 0..100
<1>1. CASE whole = 0
  BY <1>1 DEF Percent
<1>2. CASE whole # 0
  <2> DEFINE x == (100 * part) \div whole
  <2>1. x \in Nat
    <3>1. PICK n \in Nat : n = 100 * part
      OBVIOUS
    <3>2. n \div whole \in Nat
      BY <1>2
    <3> QED
      BY <3>1, <3>2
  <2>2. Percent(part, whole) = Min({100, x})
    BY <1>2 DEF Percent
  <2> HIDE DEF x
  <2>3. {100, x} \in SUBSET Nat /\ {100, x} # {}
    BY <2>1
  <2>4. Min({100, x}) \in {100, x} /\ \A m \in {100, x} : Min({100, x}) <= m
    BY <2>3, MinNat
  <2>5. PICK m : m = Min({100, x})
    OBVIOUS
  <2>6. m \in Nat /\ m <= 100
    BY <2>1, <2>4, <2>5
  <2> QED
    BY <2>2, <2>5, <2>6
<1> QED
  BY <1>1, <1>2

(* Samples have an upper bound.                                            *)
LEMMA SamplesBounded ==
  ASSUME NEW samples \in Seq(Nat)
  PROVE  \E b \in Nat : \A i \in 1..Len(samples) : samples[i] <= b
<1>1. Len(samples) \in Nat /\ \A i \in 1..Len(samples) : samples[i] \in Nat
  BY LenProperties, ElementOfSeq
<1> DEFINE n == Len(samples)
           T == {k \in 0..n : ~\E b \in Nat : \A i \in 1..k : samples[i] <= b}
<1>2. n \notin T
  <2> SUFFICES ASSUME T # {} PROVE FALSE
    OBVIOUS
  <2>1. T \in SUBSET Nat
    BY <1>1
  <2>2. PICK k \in T : \A u \in T : k <= u
    <3> HIDE DEF T
    <3> QED
      BY <2>1, LeastNat
  <2>3. k # 0
    <3>1. \A i \in 1..0 : samples[i] <= 0
      OBVIOUS
    <3> QED
      BY <3>1
  <2>4. k - 1 \in 0..n /\ k \in 1..n /\ ~(k <= k - 1)
    BY <1>1, <2>2, <2>3
  <2>5. PICK b \in Nat : \A i \in 1..(k - 1) : samples[i] <= b
    <3>1. k - 1 \notin T
      BY <2>2, <2>4
    <3> QED
      BY <2>4, <3>1
  <2>s. PICK s \in Nat : s = samples[k]
    BY <1>1, <2>4
  <2>c. PICK c \in Nat : c = b + s
    OBVIOUS
  <2> HIDE DEF T
  <2>6. ASSUME NEW i \in 1..k
        PROVE  samples[i] <= c
    <3>1. CASE i = k
      <4>1. s <= c
        BY <2>c
      <4> QED
        BY <2>s, <3>1, <4>1
    <3>2. CASE i # k
      <4>1. i \in 1..(k - 1) /\ i \in 1..n
        BY <1>1, <2>4, <3>2
      <4>2. samples[i] \in Nat /\ samples[i] <= b
        BY <1>1, <2>5, <4>1
      <4>3. b <= c /\ b \in Nat /\ c \in Nat
        BY <2>c
      <4>4. PICK v \in Nat : v = samples[i]
        BY <4>2
      <4>5. v <= c
        BY <4>2, <4>3, <4>4
      <4> QED
        BY <4>4, <4>5
    <3> QED
      BY <3>1, <3>2
  <2> QED
    BY <2>6 DEF T
<1> QED
  BY <1>1, <1>2

(* A percentile of natural samples is a natural: the largest sample has    *)
(* all of them at or below.                                                *)
LEMMA PercentileNat ==
  ASSUME NEW samples \in Seq(Nat), NEW q \in 0..100
  PROVE  Percentile(samples, q) \in Nat
<1>1. CASE samples = <<>>
  BY <1>1 DEF Percentile
<1>2. CASE samples # <<>>
  <2> DEFINE n == Len(samples)
             Below(x) == {i \in DOMAIN samples : samples[i] <= x}
             S == {x \in Range(samples) : 100 * Cardinality(Below(x)) >= q * n}
  <2>1. n \in Nat /\ DOMAIN samples = 1..n /\ n # 0 /\ \A i \in 1..n : samples[i] \in Nat
    BY <1>2, LenProperties, ElementOfSeq, EmptySeq
  <2>2. Range(samples) = {samples[i] : i \in 1..n}
    BY <2>1 DEF Range
  <2>3. PICK b \in Nat : \A i \in 1..n : samples[i] <= b
    BY SamplesBounded
  <2> DEFINE R == Range(samples)
  <2>4. R \in SUBSET Nat /\ R # {} /\ \A x \in R : x <= b
    <3>1. samples[1] \in R
      BY <2>1, <2>2
    <3> QED
      BY <2>1, <2>2, <2>3, <3>1
  <2>5. PICK x \in R : \A y \in R : y <= x
    <3> HIDE DEF R
    <3> QED
      BY <2>4, GreatestNat
  <2>6. Below(x) = 1..n
    BY <2>1, <2>2, <2>5
  <2>7. Cardinality(1..n) = n
    <3>1. 1 \in Int /\ n \in Int /\ ~(1 > n)
      BY <2>1
    <3> HIDE DEF n
    <3> QED
      BY <3>1, FS_Interval
  <2>8. 100 * n >= q * n
    <3>1. PICK k \in Nat : k = 100 - q
      OBVIOUS
    <3>2. k * n >= 0
      BY <2>1
    <3>3. 100 * n = q * n + k * n
      BY <2>1, <3>1
    <3> QED
      BY <2>1, <3>2, <3>3
  <2>9. x \in S
    BY <2>5, <2>6, <2>7, <2>8
  <2>10. S \in SUBSET Nat /\ S # {}
    BY <2>4, <2>9
  <2>11. Percentile(samples, q) = Min(S)
    BY <1>2 DEF Percentile
  <2> HIDE DEF S
  <2> QED
    BY <2>10, <2>11, MinNat
<1> QED
  BY <1>1, <1>2

(* Products of bounded numbers.                                            *)
LEMMA ProductBounds ==
  ASSUME NEW a \in Nat, NEW b \in Nat, NEW x \in 0..a, NEW y \in 0..b
  PROVE  x * y \in 0..(a * b)
<1>1. PICK u \in Nat : a = x + u
  OBVIOUS
<1>2. PICK v \in Nat : b = y + v
  OBVIOUS
<1>3. a * b = x * y + x * v + u * y + u * v
  BY <1>1, <1>2
<1>4. x * y \in Nat /\ x * v \in Nat /\ u * y \in Nat /\ u * v \in Nat
  BY <1>1, <1>2
<1> QED
  BY <1>3, <1>4

(* Percents.                                                               *)
Share == 0..100

(* The base, scaled by what diversity and the flags leave of it.           *)
Scaled(base, q, f) == (base * q * f) \div 10000

(* Trust is between 0 and 1 and falls with the flags.                      *)
LEMMA TrustFalls ==
  ASSUME NEW base \in Share, NEW q \in Share, NEW f \in Share, NEW g \in Share, g <= f
  PROVE  Scaled(base, q, f) \in Share /\ Scaled(base, q, g) <= Scaled(base, q, f)
<1>1. PICK x : x = base * q
  OBVIOUS
<1>2. x \in Nat /\ x <= 100 * 100
  <2>1. PICK m \in Nat : m = 100
    OBVIOUS
  <2>2. base \in 0..m /\ q \in 0..m
    BY <2>1 DEF Share
  <2>3. x \in 0..(m * m)
    BY <1>1, <2>2, ProductBounds
  <2>4. x \in Nat /\ x <= m * m
    BY <2>3
  <2> QED
    BY <2>1, <2>4
<1>3. PICK y : y = x * f
  OBVIOUS
<1>4. PICK z : z = x * g
  OBVIOUS
<1>5. y \in Nat /\ y <= 100 * 100 * 100
  <2>1. PICK n \in Nat : n = 100 * 100
    OBVIOUS
  <2>2. x \in 0..n
    BY <1>2, <2>1
  <2>3. y \in 0..(n * 100)
    BY <1>3, <2>2, ProductBounds DEF Share
  <2>4. y \in Nat /\ y <= n * 100
    BY <2>3
  <2> QED
    BY <2>1, <2>4
<1>6. z \in Nat /\ z <= y
  <2>1. x \in 0..x /\ x \in Nat /\ f \in Nat /\ g \in 0..f
    BY <1>2 DEF Share
  <2>2. x * g \in 0..(x * f)
    BY <2>1, ProductBounds
  <2> QED
    BY <1>3, <1>4, <1>5, <2>2
<1>7. y \div 10000 \in 0..100 /\ z \div 10000 <= y \div 10000
  BY <1>5, <1>6
<1> QED
  BY <1>1, <1>3, <1>4, <1>7 DEF Scaled, Share

(* Abuse is never rewarded, whatever an agent has earned: one more flag    *)
(* lowers trust or leaves it, and trust stays between 0 and 1              *)
(* (reputation.service.ts:97-98, domain/reputation.ts:60-83).              *)
THEOREM AbuseNeverPays ==
  Spec => []AbuseCosts
<1>1. TrustInv => AbuseCosts
  <2> SUFFICES ASSUME TrustInv, NEW d \in Did, acc[d] # None
               PROVE  LET m == Metrics(acc[d])
                          flagged == Metrics([acc[d] EXCEPT !.posts = @ + 1])
                      IN  /\ computeTrust(m) \in 0..100
                          /\ computeTrust(flagged) <= computeTrust(m)
    BY DEF AbuseCosts
  <2>a. PICK a \in MetricsAccumulator : a = acc[d]
    BY DEF TrustInv, TypeOK
  <2>b. PICK b : b = [a EXCEPT !.posts = @ + 1]
    OBVIOUS
  <2>1. /\ a.credit \in Nat /\ a.jobs \in Nat /\ a.disputes \in Nat /\ a.refunds \in Nat
        /\ a.latency \in Seq(Nat) /\ a.stake \in Nat /\ a.spam \in Nat /\ a.posts \in Nat
    BY DEF MetricsAccumulator
  <2>2. Cardinality(a.payers) \in Nat
    <3> DEFINE M == Mine(d, a)
               P == a.payers
    <3>1. SumsUp(d, a)
      BY <2>a DEF TrustInv, MeasureInv, Known
    <3>2. IsFiniteSet(M) /\ P = {r.payer : r \in M}
      BY <3>1 DEF SumsUp
    <3> DEFINE f == [r \in M |-> r.payer]
    <3>3. f \in Surjection(M, P)
      BY <3>2 DEF Surjection
    <3> HIDE DEF M, P, f
    <3>4. IsFiniteSet(P)
      BY <3>2, <3>3, FS_Surjection
    <3> QED
      BY <3>4, FS_CardinalityType DEF P
  <2>m. PICK m : m = Metrics(a)
    OBVIOUS
  <2>n. PICK n : n = Metrics(b)
    OBVIOUS
  <2>3. /\ m.success \in 0..100 /\ m.dispute \in 0..100 /\ m.refund \in 0..100
        /\ m.diversity \in 0..100 /\ m.p95 \in Nat /\ m.stake \in Nat /\ m.uptime = 100
        /\ m.spam = a.spam /\ m.posts = a.posts
    <3>1. 2 * a.jobs \in Nat /\ 95 \in 0..100
      BY <2>1
    <3>2. /\ Percent(a.credit, 2 * a.jobs) \in 0..100 /\ Percent(a.disputes, a.jobs) \in 0..100
          /\ Percent(a.refunds, a.jobs) \in 0..100
          /\ Percent(Cardinality(a.payers), a.jobs) \in 0..100
          /\ Percentile(a.latency, 95) \in Nat
      BY <2>1, <2>2, <3>1, PercentBounds, PercentileNat
    <3> QED
      BY <2>1, <2>m, <3>2 DEF Metrics
  <2>4. /\ n.success = m.success /\ n.dispute = m.dispute /\ n.refund = m.refund
        /\ n.diversity = m.diversity /\ n.p95 = m.p95 /\ n.stake = m.stake
        /\ n.uptime = m.uptime /\ n.spam = m.spam /\ n.posts = m.posts + 1
    BY <2>b, <2>m, <2>n DEF Metrics, MetricsAccumulator
  <2> DEFINE latency == Percent(LatencyTarget, Max({m.p95, 1}))
             stake == Percent(m.stake, StakeSaturation)
             base == Clamp((45 * m.success + 20 * m.uptime + 20 * latency + 15 * stake
                            - 30 * m.dispute - 15 * m.refund) \div 100)
             q == 60 + (40 * m.diversity) \div 100
  <2>5. Max({m.p95, 1}) \in Nat
    <3>1. PICK p \in Nat : p = m.p95
      BY <2>3
    <3>2. {p, 1} \in SUBSET Nat /\ {p, 1} # {} /\ p + 1 \in Nat /\ \A x \in {p, 1} : x <= p + 1
      OBVIOUS
    <3>3. Max({p, 1}) \in {p, 1}
      BY <3>2, MaxNat
    <3> QED
      BY <3>1, <3>3
  <2>6. latency \in 0..100 /\ stake \in 0..100
    BY <2>3, <2>5, PercentBounds, TrustAssumption
  <2>7. base \in 0..100
    <3> HIDE DEF latency, stake
    <3>1. PICK x : x = 45 * m.success + 20 * m.uptime + 20 * latency + 15 * stake
                       - 30 * m.dispute - 15 * m.refund
      OBVIOUS
    <3>2. 45 * m.success \in Int /\ 20 * m.uptime \in Int /\ 20 * latency \in Int
          /\ 15 * stake \in Int /\ 30 * m.dispute \in Int /\ 15 * m.refund \in Int
      BY <2>3, <2>6
    <3>3. x \in Int
      BY <3>1, <3>2
    <3>4. x \div 100 \in Int
      BY <3>3
    <3>5. base = Clamp(x \div 100)
      BY <3>1
    <3> QED
      BY <3>4, <3>5 DEF Clamp
  <2>8. q \in 0..100
    BY <2>3
  <2>9. FlagFactor(m) \in 0..100 /\ FlagFactor(n) \in 0..100 /\ FlagFactor(n) <= FlagFactor(m)
    <3>1. m.spam \in Nat /\ m.posts \in Nat
      BY <2>1, <2>3
    <3> QED
      BY <2>4, <3>1 DEF FlagFactor, Clamp
  <2>10. computeTrust(m) = Scaled(base, q, FlagFactor(m))
    BY DEF computeTrust, Scaled
  <2>11. computeTrust(n) = Scaled(base, q, FlagFactor(n))
    BY <2>4 DEF computeTrust, Scaled
  <2> HIDE DEF base, q
  <2>12. computeTrust(m) \in 0..100 /\ computeTrust(n) <= computeTrust(m)
    <3>1. /\ base \in Share /\ q \in Share
          /\ FlagFactor(m) \in Share /\ FlagFactor(n) \in Share
      BY <2>7, <2>8, <2>9 DEF Share
    <3>2. /\ Scaled(base, q, FlagFactor(m)) \in Share
          /\ Scaled(base, q, FlagFactor(n)) <= Scaled(base, q, FlagFactor(m))
      BY <2>9, <3>1, TrustFalls
    <3> QED
      BY <2>10, <2>11, <3>2 DEF Share
  <2> QED
    BY <2>a, <2>b, <2>m, <2>n, <2>12
<1> QED
  BY <1>1, TrustInvariant, PTL
=============================================================================
