-------------------------- MODULE OperationProofs --------------------------
(***************************************************************************)
(* Operations, for every partitioned table: the names and the waits, the   *)
(* plans the three planners make, what a plan comes to when it is executed *)
(* node by node, and what a run that has stopped leaves to a new plan.     *)
(*                                                                         *)
(* The names and the waits are arithmetic over sequences.  A plan is a     *)
(* head, a chain for every leaf and a foot, laid end to end and numbered;  *)
(* of that shape follows what RunEngine assumes of a plan.  Execution is a *)
(* recursion over the plan; ChainWalk is the rule that takes it chain by   *)
(* chain.  The last three parts say, operation by operation, in which      *)
(* condition every step of a run keeps the catalog, and that a new plan    *)
(* made over a catalog in that condition goes through.                     *)
(***************************************************************************)
EXTENDS CatalogProofs, Operation, FiniteSetTheorems, NaturalsInduction,
        SequenceTheorems

-----------------------------------------------------------------------------
(* Sets of numbers, and recursion over them *)

(* A set of numbers has a least one: what an argument by induction needs.  *)
LEMMA Least ==
  ASSUME NEW T, T \subseteq Nat, T # {}
  PROVE  \E m \in T : \A k \in T : m <= k
<1>1. PICK m \in T : \A k \in T : ~ (<<k, m>> \in OpToRel(<, Nat))
  BY NatLessThanWellFounded, WFMin
<1>2. ASSUME NEW k \in T PROVE m <= k
  <2>1. ~(<<k, m>> \in OpToRel(<, Nat))
    BY <1>1
  <2>2. ~(k < m)
    BY <2>1 DEF OpToRel
  <2> QED  BY <2>2
<1> QED  BY <1>2

(* A bounded one has a greatest.                                           *)
LEMMA Greatest ==
  ASSUME NEW n \in Nat, NEW T, T \subseteq 0..n, T # {}
  PROVE  \E m \in T : \A k \in T : k <= m
<1> DEFINE R == {n - k : k \in T}
<1>1. R \subseteq Nat
  OBVIOUS
<1>0. R # {}
  <2>1. PICK k : k \in T
    OBVIOUS
  <2> QED  BY <2>1
<1>2. PICK r \in R : \A k \in R : r <= k
  <2> HIDE DEF R
  <2> QED  BY <1>0, <1>1, Least
<1>3. PICK m \in T : r = n - m
  BY <1>2
<1>4. ASSUME NEW k \in T PROVE k <= m
  <2>1. n - k \in R /\ k \in Nat /\ m \in Nat
    OBVIOUS
  <2>2. r <= n - k
    BY <1>2, <2>1
  <2> QED  BY <2>2, <1>3, <2>1
<1> QED  BY <1>3, <1>4

(* f is what the steps F make of b, one after the other.                   *)
Iterates(f, b, F, n) == \A i \in 0..n : f[i] = IF i = 0 THEN b ELSE F[i][f[i - 1]]

(* Induction, with the numbers it holds for as a set.                      *)
LEMMA Upwards ==
  ASSUME NEW n \in Nat, NEW Good, 0 \in Good,
         \A m \in 1..n : m - 1 \in Good => m \in Good
  PROVE  \A m \in 0..n : m \in Good
<1> DEFINE Bad == (0..n) \ Good
<1>1. SUFFICES ASSUME Bad # {} PROVE FALSE
  OBVIOUS
<1>2. Bad \subseteq Nat
  OBVIOUS
<1>3. PICK m \in Bad : \A k \in Bad : m <= k
  <2> HIDE DEF Bad
  <2> QED  BY <1>1, <1>2, Least
<1>4. m # 0 /\ m \in 0..n /\ m - 1 \in 0..n
  BY <1>3
<1>5. m - 1 \notin Bad
  BY <1>3, <1>4
<1> QED  BY <1>3, <1>4, <1>5

(* A recursion over numbers has a solution.                                *)
LEMMA Iteration ==
  ASSUME NEW S, NEW b \in S, NEW n \in Nat, NEW F,
         \A i \in 1..n, x \in S : F[i][x] \in S
  PROVE  \E f \in [0..n -> S] : Iterates(f, b, F, n)
<1> DEFINE Good == {m \in 0..n : \E f \in [0..m -> S] : Iterates(f, b, F, m)}
<1>1. 0 \in Good
  <2>1. Iterates([i \in 0..0 |-> b], b, F, 0)
    BY DEF Iterates
  <2>2. [i \in 0..0 |-> b] \in [0..0 -> S]
    OBVIOUS
  <2> QED  BY <2>1, <2>2
<1>2. ASSUME NEW m \in 1..n, m - 1 \in Good PROVE m \in Good
  <2>2. PICK f \in [0..(m - 1) -> S] : Iterates(f, b, F, m - 1)
    BY <1>2
  <2> DEFINE g == [i \in 0..m |-> IF i = m THEN F[m][f[m - 1]] ELSE f[i]]
  <2>3. \A i \in 0..(m-1) : f[i] = IF i = 0 THEN b ELSE F[i][f[i - 1]]
    BY <2>2 DEF Iterates
  <2>4. F[m][f[m - 1]] \in S
    OBVIOUS
  <2>5. \A i \in 0..m : g[i] = IF i = 0 THEN b ELSE F[i][g[i - 1]]
    BY <2>3
  <2>6. Iterates(g, b, F, m)
    BY <2>5 DEF Iterates
  <2>7. g \in [0..m -> S]
    BY <2>4
  <2> QED  BY <2>6, <2>7
<1>3. \A m \in 0..n : m \in Good
  <2> HIDE DEF Good
  <2> QED  BY <1>1, <1>2, Upwards
<1> QED  BY <1>3

-----------------------------------------------------------------------------
(* Names *)

Word == Seq(Symbol)

IsUpto(f, s) == f = [k \in 0..Len(s) |-> IF k = 0 THEN 0 ELSE f[k - 1] + WidthOf[s[k]]]

(* The count of bytes is the last value of the running count.              *)
LEMMA BytesUnfold ==
  ASSUME NEW s \in Word
  PROVE  \E f \in [0..Len(s) -> Nat] : IsUpto(f, s) /\ Bytes(s) = f[Len(s)]
<1>1. PICK n \in Nat : n = Len(s)
  BY DEF Word
<1>2. PICK w \in [1..n -> Nat] : \A i \in 1..n : w[i] = WidthOf[s[i]]
  <2>1. \A i \in 1..n : WidthOf[s[i]] \in Nat
    BY <1>1, WidthAssumption DEF Word
  <2>2. [i \in 1..n |-> WidthOf[s[i]]] \in [1..n -> Nat]
    BY <2>1
  <2> QED  BY <2>2
<1> DEFINE F == [i \in 1..n |-> [x \in Nat |-> x + w[i]]]
           Body(f) == [k \in 0..n |-> IF k = 0 THEN 0 ELSE f[k - 1] + WidthOf[s[k]]]
           upto == CHOOSE f : f = Body(f)
<1>3. \A i \in 1..n, x \in Nat : F[i][x] = x + w[i] /\ F[i][x] \in Nat
  OBVIOUS
<1>4. PICK f \in [0..n -> Nat] : Iterates(f, 0, F, n)
  <2> HIDE DEF F
  <2> QED  BY <1>3, Iteration
<1>5. f = Body(f)
  <2> HIDE DEF F
  <2>1. f[0] = 0
    BY <1>4 DEF Iterates
  <2>2. ASSUME NEW k \in 1..n PROVE f[k] = f[k - 1] + WidthOf[s[k]]
    <3>1. f[k] = F[k][f[k - 1]]
      BY <1>4 DEF Iterates
    <3>2. f[k - 1] \in Nat
      OBVIOUS
    <3>3. F[k][f[k - 1]] = f[k - 1] + w[k]
      BY <1>3, <3>2
    <3>4. w[k] = WidthOf[s[k]]
      BY <1>2
    <3> QED  BY <3>1, <3>3, <3>4
  <2> QED  BY <2>1, <2>2
<1>6. upto = Body(upto)
  BY <1>5
<1>7. Bytes(s) = upto[n]
  BY <1>1 DEF Bytes
<1> HIDE DEF upto
<1>a. upto[0] = 0 /\ \A k \in 1..n : upto[k] = upto[k - 1] + WidthOf[s[k]]
  BY <1>6
<1>8. \A k \in 0..n : upto[k] \in Nat
  <2> DEFINE Good == {k \in 0..n : upto[k] \in Nat}
  <2>1. 0 \in Good
    BY <1>a
  <2>2. ASSUME NEW m \in 1..n, m - 1 \in Good PROVE m \in Good
    <3>1. upto[m - 1] \in Nat /\ w[m] \in Nat /\ w[m] = WidthOf[s[m]]
      BY <1>2, <2>2
    <3>2. upto[m] = upto[m - 1] + w[m]
      BY <1>a, <3>1
    <3> QED  BY <3>1, <3>2
  <2>3. \A m \in 0..n : m \in Good
    <3> HIDE DEF Good
    <3> QED  BY <2>1, <2>2, Upwards
  <2> QED  BY <2>3
<1>9. upto \in [0..n -> Nat]
  BY <1>6, <1>8
<1> QED  BY <1>1, <1>6, <1>7, <1>9 DEF IsUpto

(* A name has a number of bytes.                                           *)
LEMMA BytesType == ASSUME NEW s \in Word PROVE Bytes(s) \in Nat
BY BytesUnfold DEF Word

(* The empty name has none.                                                *)
LEMMA BytesEmpty == Bytes(<<>>) = 0
<1>1. <<>> \in Word /\ Len(<<>>) = 0
  BY DEF Word
<1> QED  BY <1>1, BytesUnfold DEF IsUpto

(* A symbol more is as many bytes more as the symbol is wide.              *)
LEMMA BytesAppend ==
  ASSUME NEW s \in Word, NEW r \in Symbol
  PROVE  Bytes(Append(s, r)) = Bytes(s) + WidthOf[r]
<1> DEFINE t == Append(s, r)
<1>1. t \in Word /\ Len(t) = Len(s) + 1 /\ Len(s) \in Nat
      /\ t[Len(t)] = r /\ \A k \in 1..Len(s) : t[k] = s[k]
  BY DEF Word
<1> HIDE DEF t
<1>2. PICK f \in [0..Len(s) -> Nat] : IsUpto(f, s) /\ Bytes(s) = f[Len(s)]
  BY BytesUnfold
<1>3. PICK g \in [0..Len(t) -> Nat] : IsUpto(g, t) /\ Bytes(t) = g[Len(t)]
  BY BytesUnfold, <1>1
<1>4. \A k \in 0..Len(s) : f[k] = g[k]
  <2> DEFINE Good == {k \in 0..Len(s) : f[k] = g[k]}
  <2>1. 0 \in Good
    BY <1>1, <1>2, <1>3 DEF IsUpto
  <2>2. ASSUME NEW m \in 1..Len(s), m - 1 \in Good PROVE m \in Good
    <3>1. f[m] = f[m - 1] + WidthOf[s[m]]
      BY <1>1, <1>2 DEF IsUpto
    <3>2. g[m] = g[m - 1] + WidthOf[t[m]]
      BY <1>1, <1>3 DEF IsUpto
    <3> QED  BY <1>1, <2>2, <3>1, <3>2
  <2>3. \A m \in 0..Len(s) : m \in Good
    <3> HIDE DEF Good
    <3> QED  BY <1>1, <2>1, <2>2, Upwards
  <2> QED  BY <2>3
<1>5. g[Len(t)] = g[Len(t) - 1] + WidthOf[t[Len(t)]]
  BY <1>3, <1>1 DEF IsUpto
<1> QED  BY <1>1, <1>2, <1>3, <1>4, <1>5 DEF t

(* A name cut to a budget is a name within the budget (truncateUTF8).      *)
LEMMA Truncated ==
  ASSUME NEW s \in Word, NEW budget \in Nat
  PROVE  truncateUTF8(s, budget) \in Word /\ Bytes(truncateUTF8(s, budget)) <= budget
<1> DEFINE Fits == {k \in 0..Len(s) : Bytes(SubSeq(s, 1, k)) <= budget}
           best == CHOOSE k \in Fits : \A m \in Fits : m <= k
<1>1. Len(s) \in Nat
  BY DEF Word
<1>2. SubSeq(s, 1, 0) = <<>>
  BY SubSeqEmpty DEF Word
<1>3. 0 \in Fits /\ Fits \subseteq 0..Len(s)
  <2>1. Bytes(SubSeq(s, 1, 0)) = 0
    BY <1>2, BytesEmpty
  <2> QED  BY <1>1, <2>1
<1>4. \E k \in Fits : \A m \in Fits : m <= k
  <2> HIDE DEF Fits
  <2> QED  BY <1>1, <1>3, Greatest
<1>5. best \in Fits
  BY <1>4
<1>6. SubSeq(s, 1, best) \in Word
  <2> HIDE DEF best
  <2>1. \A k \in 0..Len(s) : \A i \in 1..k : s[i] \in Symbol
    BY <1>1 DEF Word
  <2>2. best \in 0..Len(s) /\ best \in Int
    BY <1>5, <1>1
  <2> QED  BY <2>1, <2>2, SubSeqProperties DEF Word
<1>7. truncateUTF8(s, budget) = SubSeq(s, 1, best) /\ Bytes(SubSeq(s, 1, best)) <= budget
  BY <1>5 DEF truncateUTF8
<1> HIDE DEF best
<1> QED  BY <1>6, <1>7

(* A partition's name is a name.                                           *)
LEMMA PartitionIsWord == ASSUME NEW p \in Partition PROVE p \in Word
BY DEF Partition, Word

(* However long the names of two partitions are and whatever they imitate, *)
(* the names ChildIndexName gives the indexes of two partitions differ,    *)
(* and each fits the catalog's width.                                      *)
THEOREM ChildrenAreTold == ChildrenApart
<1> SUFFICES ASSUME NEW p \in Partition, NEW q \in Partition, p # q,
                    NEW s \in Tag, NEW t \in Tag
             PROVE  /\ Bytes(ChildIndexName(p, s)) <= MaxBytes
                    /\ s # t => ChildIndexName(p, s) # ChildIndexName(q, t)
  BY DEF ChildrenApart
<1> DEFINE np == Prefix \o p
           nq == Prefix \o q
           cp == truncateUTF8(np, MaxBytes - TagBytes)
           cq == truncateUTF8(nq, MaxBytes - TagBytes)
<1>1. p \in Word /\ q \in Word /\ Prefix \in Word
  BY PartitionIsWord, WidthAssumption DEF Word
<1>2. np \in Word /\ nq \in Word
  BY <1>1 DEF Word
<1>3. MaxBytes \in Nat /\ TagBytes \in Nat /\ MaxBytes - TagBytes \in Nat
  BY WidthAssumption
<1>4. cp \in Word /\ Bytes(cp) <= MaxBytes - TagBytes /\ cq \in Word
  BY <1>2, <1>3, Truncated
<1>5. np # nq
  <2>1. CASE Len(p) # Len(q)
    <3>1. Len(np) # Len(nq)
      BY <2>1, <1>1 DEF Word
    <3> QED  BY <3>1
  <2>2. CASE Len(p) = Len(q)
    <3>1. PICK i \in 1..Len(p) : p[i] # q[i]
      BY <2>2, <1>1 DEF Word
    <3>2. np[Len(Prefix) + i] = p[i] /\ nq[Len(Prefix) + i] = q[i]
      BY <1>1, <2>2, <3>1 DEF Word
    <3> QED  BY <3>1, <3>2
  <2> QED  BY <2>1, <2>2
<1>6. ~Natural(Append(cp, s)) /\ ~Natural(Append(cq, t))
  <2>1. ASSUME NEW w \in Word, NEW u \in Tag PROVE looksTagged(Append(w, u))
    BY <2>1 DEF looksTagged, Last, Word
  <2> QED  BY <2>1, <1>4 DEF Natural
<1>7. s # t => Append(cp, s) # Append(cq, t)
  <2>1. ASSUME NEW w \in Word, NEW u PROVE Append(w, u)[Len(Append(w, u))] = u
    BY DEF Word
  <2> QED  BY <2>1, <1>4
<1>8. Bytes(Append(cp, s)) <= MaxBytes
  <2>1. s \in Symbol /\ WidthOf[s] = TagBytes
    BY WidthAssumption
  <2>2. Bytes(Append(cp, s)) = Bytes(cp) + TagBytes /\ Bytes(cp) \in Nat
    BY BytesAppend, BytesType, <1>4, <2>1
  <2> QED  BY <2>2, <1>3, <1>4
<1>9. /\ ChildIndexName(p, s) = IF Natural(np) THEN np ELSE Append(cp, s)
      /\ ChildIndexName(q, t) = IF Natural(nq) THEN nq ELSE Append(cq, t)
  BY DEF ChildIndexName
<1>10. Natural(np) => Bytes(np) <= MaxBytes
  BY DEF Natural
<1> HIDE DEF np, nq, cp, cq
<1> QED  BY <1>5, <1>6, <1>7, <1>8, <1>9, <1>10

(* Two different things are a set of two.                                  *)
LEMMA TwoThings == ASSUME NEW a, NEW b, a # b PROVE Cardinality({a, b}) = 2
<1>1. {a, b} = {a} \cup {b} /\ b \notin {a}
  OBVIOUS
<1>2. IsFiniteSet({a}) /\ Cardinality({a}) = 1
  BY FS_Singleton
<1> QED  BY <1>1, <1>2, FS_AddElement

(* The base of a leftover is found among two names, or is found to be      *)
(* either (DerivesLeftover, ResolveLeftoverBase).                          *)
THEOREM BasesAreFound == BaseIsFound
<1> SUFFICES ASSUME NEW p \in Partition, NEW q \in Partition, p # q,
                    NEW k1 \in Kind, NEW k2 \in Kind
             PROVE  LET names  == {Plain(p), Plain(q)}
                        first  == Rebuild(Plain(q), k1, names)
                        second == Rebuild(Plain(p), k2, names \cup {first})
                        all    == names \cup {first, second}
                        alike  == DerivesLeftover(Plain(q), second)
                    IN  /\ Bytes(second.stem) + SuffixOf(second) <= MaxBytes
                        /\ ResolveLeftoverBase(second, all) =
                             IF alike THEN Plain(<<>>) ELSE Plain(p)
  BY DEF BaseIsFound
<1> DEFINE names  == {Plain(p), Plain(q)}
           first  == Rebuild(Plain(q), k1, names)
           second == Rebuild(Plain(p), k2, names \cup {first})
           all    == names \cup {first, second}
           alike  == DerivesLeftover(Plain(q), second)
<1>1. ASSUME NEW b, NEW k, NEW taken
      PROVE  \E d : Rebuild(b, k, taken) = Derived(b, k, d)
  BY DEF Rebuild
<1>2. ASSUME NEW b, NEW k, NEW d
      PROVE  /\ Derived(b, k, d).kind = k /\ Derived(b, k, d).digit = d
             /\ SuffixOf(Derived(b, k, d)) = SuffixBytes + IF d = 0 THEN 0 ELSE 1
             /\ Derived(b, k, d).stem =
                  truncateUTF8(b.stem, MaxBytes - (SuffixBytes + IF d = 0 THEN 0 ELSE 1))
  BY DEF Derived, SuffixOf
<1>3. PICK d1 : first = Derived(Plain(q), k1, d1)
  BY <1>1
<1>4. PICK d2 : second = Derived(Plain(p), k2, d2)
  BY <1>1
<1> HIDE DEF first, second
<1>5. first.kind # "none" /\ second.kind # "none"
  BY <1>2, <1>3, <1>4 DEF Kind
<1>6. Bytes(second.stem) + SuffixOf(second) <= MaxBytes
  <2> DEFINE suffix == SuffixBytes + IF d2 = 0 THEN 0 ELSE 1
  <2>1. MaxBytes - suffix \in Nat /\ suffix \in Nat /\ MaxBytes \in Nat
    BY WidthAssumption
  <2>2. second.stem = truncateUTF8(p, MaxBytes - suffix) /\ SuffixOf(second) = suffix
    BY <1>2, <1>4 DEF Plain
  <2> HIDE DEF suffix
  <2>3. p \in Word
    BY PartitionIsWord
  <2>4. Bytes(second.stem) <= MaxBytes - suffix /\ Bytes(second.stem) \in Nat
    BY <2>1, <2>2, <2>3, Truncated, BytesType
  <2> QED  BY <2>1, <2>2, <2>4
<1>7. DerivesLeftover(Plain(p), second)
  BY <1>2, <1>4, <1>5 DEF DerivesLeftover
<1>8. Plain(p) # Plain(q) /\ Plain(p).kind = "none" /\ Plain(q).kind = "none"
  BY DEF Plain
<1>9. Bases(second, all) = IF alike THEN {Plain(p), Plain(q)} ELSE {Plain(p)}
  BY <1>5, <1>7, <1>8 DEF Bases
<1>10. ResolveLeftoverBase(second, all) = IF alike THEN Plain(<<>>) ELSE Plain(p)
  <2>0. Plain(p) \in all
    OBVIOUS
  <2> HIDE DEF all, alike
  <2>1. CASE alike
    <3>1. Cardinality(Bases(second, all)) # 1
      <4>1. Bases(second, all) = {Plain(p), Plain(q)}
        BY <1>9, <2>1
      <4>2. Cardinality({Plain(p), Plain(q)}) = 2
        BY <1>8, TwoThings
      <4> QED  BY <4>1, <4>2
    <3> QED  BY <2>1, <3>1 DEF ResolveLeftoverBase
  <2>2. CASE ~alike
    <3>1. Cardinality(Bases(second, all)) = 1
      BY <1>9, <2>2, FS_Singleton
    <3>2. \A b \in all : {Plain(p)} = {b} <=> b = Plain(p)
      OBVIOUS
    <3>3. ResolveLeftoverBase(second, all) = CHOOSE b \in all : {Plain(p)} = {b}
      BY <1>9, <2>2, <3>1 DEF ResolveLeftoverBase
    <3> QED  BY <2>0, <2>2, <3>2, <3>3
  <2> QED  BY <2>1, <2>2
<1> QED  BY <1>6, <1>10 DEF first, second

-----------------------------------------------------------------------------
(* Pauses *)



IsDoubling(f, p, n) ==
  f = [i \in 2..n |-> IF i = 2 THEN p.BaseDelay ELSE Doubling(p, f[i - 1])]
IsPower(f, p, n) ==
  f = [i \in 2..n |-> IF i = 2 THEN p.BaseDelay ELSE 2 * f[i - 1]]

(* Each of the two recursions has a solution.                              *)
LEMMA DoublingUnfolds ==
  ASSUME NEW p, NEW n \in Nat, p.BaseDelay \in Int, p.MaxDelay \in Int
  PROVE  /\ IsDoubling(CHOOSE f : IsDoubling(f, p, n), p, n)
         /\ IsPower(CHOOSE f : IsPower(f, p, n), p, n)
<1>0. PICK Z : Z = Int
  OBVIOUS
<1> DEFINE F == [i \in 1..n |-> [x \in Z |-> IF i <= 2 THEN p.BaseDelay ELSE Doubling(p, x)]]
           G == [i \in 1..n |-> [x \in Z |-> IF i <= 2 THEN p.BaseDelay ELSE 2 * x]]
<1>1. \A x \in Z : Doubling(p, x) \in Z /\ 2 * x \in Z
  BY <1>0, LimitAssumption DEF Doubling, Wrap
<1>2. \A i \in 1..n, x \in Z :
        /\ F[i][x] = IF i <= 2 THEN p.BaseDelay ELSE Doubling(p, x)
        /\ G[i][x] = IF i <= 2 THEN p.BaseDelay ELSE 2 * x
  OBVIOUS
<1> HIDE DEF F, G
<1>3. p.BaseDelay \in Z /\ 0 \in Z
  BY <1>0
<1>4. \A i \in 1..n, x \in Z : F[i][x] \in Z
  BY <1>1, <1>2, <1>3
<1>5. \A i \in 1..n, x \in Z : G[i][x] \in Z
  BY <1>1, <1>2, <1>3
<1>6. PICK f \in [0..n -> Z] : Iterates(f, 0, F, n)
  BY <1>3, <1>4, Iteration
<1>7. PICK g \in [0..n -> Z] : Iterates(g, 0, G, n)
  BY <1>3, <1>5, Iteration
<1>8. ASSUME NEW i \in 2..n
      PROVE  /\ f[i] = IF i = 2 THEN p.BaseDelay ELSE Doubling(p, f[i - 1])
             /\ g[i] = IF i = 2 THEN p.BaseDelay ELSE 2 * g[i - 1]
  <2>1. f[i] = F[i][f[i - 1]] /\ g[i] = G[i][g[i - 1]]
    BY <1>6, <1>7 DEF Iterates
  <2>2. i \in 1..n /\ f[i - 1] \in Z /\ g[i - 1] \in Z
    OBVIOUS
  <2>3. F[i][f[i - 1]] = IF i <= 2 THEN p.BaseDelay ELSE Doubling(p, f[i - 1])
    BY <1>2, <2>2
  <2>4. G[i][g[i - 1]] = IF i <= 2 THEN p.BaseDelay ELSE 2 * g[i - 1]
    BY <1>2, <2>2
  <2> QED  BY <2>1, <2>3, <2>4
<1>9. IsDoubling([i \in 2..n |-> f[i]], p, n)
  BY <1>8 DEF IsDoubling
<1>10. IsPower([i \in 2..n |-> g[i]], p, n)
  BY <1>8 DEF IsPower
<1> QED  BY <1>9, <1>10

(* Doubling in integers that wrap is doubling, as long as it is under a cap*)
(* of at most half the range.                                              *)
LEMMA DoublingStays ==
  ASSUME NEW p, NEW d \in Int, 0 < d, p.MaxDelay \in 0..(Limit \div 2)
  PROVE  Doubling(p, d) = IF d >= p.MaxDelay THEN p.MaxDelay ELSE 2 * d
<1>1. ASSUME d < p.MaxDelay PROVE Wrap(2 * d) = 2 * d
  <2>1. 2 * d + Limit \in 0..(2 * Limit - 1)
    BY <1>1, LimitAssumption
  <2>2. \A n \in 0..(2 * Limit - 1) : n % (2 * Limit) = n
    BY LimitAssumption
  <2> QED  BY <2>1, <2>2, LimitAssumption DEF Wrap
<1> QED  BY <1>1, LimitAssumption DEF Doubling

(* Whatever base, cap, attempt and jitter, a delay is a duration of the    *)
(* machine within the cap: the doubling does not overflow into a negative  *)
(* wait (Delay, JitteredDelay).                                            *)
THEOREM DelaysAreCapped == Capped
<1> SUFFICES ASSUME NEW base \in 0..(Limit \div 2), NEW cap \in 0..(Limit \div 2),
                    NEW attempt \in Attempts
             PROVE  LET p == Policy(base, cap)
                    IN  /\ Delay(p, attempt) = Exponential(p, attempt)
                        /\ JitteredDelay(p, attempt) \subseteq 0..p.MaxDelay
  BY DEF Capped
<1> DEFINE p == Policy(base, cap)
           after == CHOOSE f : IsDoubling(f, p, attempt)
           power == CHOOSE f : IsPower(f, p, attempt)
<1>1. /\ p.BaseDelay \in 1..(Limit \div 2) /\ p.MaxDelay \in 1..(Limit \div 2)
      /\ p.BaseDelay <= p.MaxDelay
  BY LimitAssumption DEF Policy
<1>2. Delay(p, attempt) = IF attempt <= 1 THEN 0
                          ELSE IF after[attempt] > p.MaxDelay THEN p.MaxDelay ELSE after[attempt]
  BY DEF Delay, IsDoubling
<1>3. Exponential(p, attempt) =
        IF attempt = 1 THEN 0
        ELSE IF power[attempt] > p.MaxDelay THEN p.MaxDelay ELSE power[attempt]
  BY DEF Exponential, IsPower
<1>4. IsDoubling(after, p, attempt) /\ IsPower(power, p, attempt)
  <2> HIDE DEF p
  <2> QED  BY <1>1, LimitAssumption, DoublingUnfolds
<1>0. attempt \in Nat /\ attempt # 0 /\ Limit \in Nat
  BY LimitAssumption
<1> HIDE DEF p, after, power
<1>5. \A i \in 2..attempt :
        /\ after[i] = IF i = 2 THEN p.BaseDelay ELSE Doubling(p, after[i - 1])
        /\ power[i] = IF i = 2 THEN p.BaseDelay ELSE 2 * power[i - 1]
  BY <1>0, <1>4 DEF IsDoubling, IsPower
<1> DEFINE Same(i) == /\ after[i] \in Nat \ {0} /\ power[i] \in Nat \ {0}
                      /\ \/ after[i] = power[i]
                         \/ after[i] >= p.MaxDelay /\ power[i] >= p.MaxDelay
           Good == {i \in 0..attempt : i >= 2 => Same(i)}
<1>6. 0 \in Good
  BY <1>0
<1>7. ASSUME NEW i \in 1..attempt, i - 1 \in Good PROVE i \in Good
  <2>1. CASE i = 1
    BY <1>0, <2>1
  <2>2. CASE i = 2
    BY <1>0, <2>2, <1>1, <1>5
  <2>3. CASE i > 2
    <3>1. Same(i - 1)
      BY <1>0, <1>7, <2>3
    <3>2. after[i] = Doubling(p, after[i - 1]) /\ power[i] = 2 * power[i - 1]
      BY <1>5, <2>3
    <3>3. Doubling(p, after[i - 1]) = IF after[i - 1] >= p.MaxDelay THEN p.MaxDelay
                                      ELSE 2 * after[i - 1]
      BY <1>0, <3>1, <1>1, DoublingStays
    <3> QED  BY <1>0, <1>1, <3>1, <3>2, <3>3
  <2> QED  BY <2>1, <2>2, <2>3
<1>8. \A i \in 0..attempt : i \in Good
  <2> HIDE DEF Good
  <2> QED  BY <1>0, <1>6, <1>7, Upwards
<1>9. attempt >= 2 => Same(attempt)
  BY <1>0, <1>8
<1>10. Delay(p, attempt) = Exponential(p, attempt) /\ Delay(p, attempt) \in 0..p.MaxDelay
  BY <1>0, <1>1, <1>2, <1>3, <1>9
<1>11. JitteredDelay(p, attempt) \subseteq 0..p.MaxDelay
  BY <1>0, <1>10, <1>1 DEF JitteredDelay
<1> QED  BY <1>10, <1>11 DEF p

-----------------------------------------------------------------------------
(* Chains laid end to end *)

(* Sequences, one after the other: where each begins in the whole.         *)
Joined(ss, start, flat) ==
  /\ start \in [0..Len(ss) -> Nat] /\ start[0] = 0 /\ Len(flat) = start[Len(ss)]
  /\ \A i \in 1..Len(ss) : start[i] = start[i - 1] + Len(ss[i])
  /\ \A i \in 1..Len(ss) : \A j \in 1..Len(ss[i]) :
       start[i - 1] + j \in 1..Len(flat) /\ flat[start[i - 1] + j] = ss[i][j]
  /\ \A k \in 1..Len(flat) : \E i \in 1..Len(ss) : \E j \in 1..Len(ss[i]) : k = start[i - 1] + j

(* What stands where in two sequences laid end to end.                     *)
LEMMA Concatenation ==
  ASSUME NEW S, NEW s \in Seq(S), NEW t \in Seq(S)
  PROVE  /\ s \o t \in Seq(S) /\ Len(s) \in Nat /\ Len(t) \in Nat /\ Len(s \o t) = Len(s) + Len(t)
         /\ \A k \in 1..Len(s) : (s \o t)[k] = s[k]
         /\ \A j \in 1..Len(t) : (s \o t)[Len(s) + j] = t[j]
OBVIOUS

IsFlatten(f, ss) == f = [i \in 1..Len(ss) |-> IF i = 1 THEN ss[i] ELSE f[i - 1] \o ss[i]]

(* What has been joined after so many of them.                             *)
LEMMA FlattenUnfolds ==
  ASSUME NEW S, NEW ss \in Seq(Seq(S))
  PROVE  \E f \in [0..Len(ss) -> Seq(S)] :
           /\ f[0] = <<>> /\ FlattenSeq(ss) = f[Len(ss)]
           /\ \A i \in 1..Len(ss) : f[i] = f[i - 1] \o ss[i]
<1>1. PICK T : T = Seq(S)
  OBVIOUS
<1>2. PICK n \in Nat : n = Len(ss)
  OBVIOUS
<1>3. \A i \in 1..n : ss[i] \in T
  BY <1>1, <1>2
<1>4. <<>> \in T /\ \A x, y \in T : x \o y \in T
  BY <1>1, Concatenation
<1>5. \A x \in T : <<>> \o x = x
  BY <1>1
<1> DEFINE F == [i \in 1..n |-> [x \in T |-> x \o ss[i]]]
<1>6. \A i \in 1..n, x \in T : F[i][x] = x \o ss[i]
  OBVIOUS
<1> HIDE DEF F
<1>7. \A i \in 1..n, x \in T : F[i][x] \in T
  BY <1>3, <1>4, <1>6
<1>8. PICK f \in [0..n -> T] : Iterates(f, <<>>, F, n)
  BY <1>4, <1>7, Iteration
<1>9. f[0] = <<>> /\ \A i \in 1..n : f[i] = f[i - 1] \o ss[i]
  <2>1. f[0] = <<>>
    BY <1>8 DEF Iterates
  <2>2. ASSUME NEW i \in 1..n PROVE f[i] = f[i - 1] \o ss[i]
    <3>1. f[i] = F[i][f[i - 1]] /\ f[i - 1] \in T
      BY <1>8 DEF Iterates
    <3> QED  BY <1>6, <3>1
  <2> QED  BY <2>1, <2>2
<1>10. CASE n = 0
  <2>1. Len(ss) = 0
    BY <1>2, <1>10
  <2>2. ss = <<>>
    BY <2>1
  <2>3. FlattenSeq(ss) = ss
    BY <2>1 DEF FlattenSeq
  <2> QED  BY <1>1, <1>2, <1>9, <1>10, <2>2, <2>3
<1>11. CASE n # 0
  <2>1. ASSUME NEW i \in 1..n PROVE f[i] = IF i = 1 THEN ss[i] ELSE f[i - 1] \o ss[i]
    BY <1>3, <1>5, <1>9, SMTT(30)
  <2>2. IsFlatten([i \in 1..n |-> f[i]], ss)
    BY <1>2, <2>1 DEF IsFlatten
  <2> DEFINE g == CHOOSE f1 : IsFlatten(f1, ss)
  <2>3. IsFlatten(g, ss)
    BY <2>2
  <2>4. FlattenSeq(ss) = g[n]
    BY <1>2, <1>11 DEF FlattenSeq, IsFlatten
  <2> HIDE DEF g
  <2>5. \A i \in 1..n : g[i] = IF i = 1 THEN ss[i] ELSE g[i - 1] \o ss[i]
    BY <1>2, <2>3 DEF IsFlatten
  <2> DEFINE Good == {i \in 0..n : i # 0 => g[i] = f[i]}
  <2>6. 0 \in Good
    OBVIOUS
  <2>7. ASSUME NEW i \in 1..n, i - 1 \in Good PROVE i \in Good
    <3>1. CASE i = 1
      <4>1. g[1] = ss[1] /\ f[1] = ss[1]
        BY <2>1, <2>5, <3>1
      <4> QED  BY <3>1, <4>1
    <3>2. CASE i # 1
      <4>1. g[i - 1] = f[i - 1]
        BY <2>7, <3>2
      <4>2. g[i] = g[i - 1] \o ss[i] /\ f[i] = f[i - 1] \o ss[i]
        BY <1>9, <2>5, <3>2
      <4>3. g[i] = f[i]
        BY <4>1, <4>2
      <4> QED  BY <4>3
    <3> QED  BY <3>1, <3>2
  <2>8. \A i \in 0..n : i \in Good
    <3> HIDE DEF Good
    <3> QED  BY <2>6, <2>7, Upwards
  <2>9. g[n] = f[n]
    BY <1>11, <2>8
  <2> QED  BY <1>1, <1>2, <1>9, <2>4, <2>9
<1> QED  BY <1>10, <1>11

(* What FlattenSeq makes of a sequence of sequences.                       *)
LEMMA JoinedSequences ==
  ASSUME NEW S, NEW ss \in Seq(Seq(S))
  PROVE  FlattenSeq(ss) \in Seq(S) /\ \E start : Joined(ss, start, FlattenSeq(ss))
<1>1. PICK n \in Nat : n = Len(ss)
  OBVIOUS
<1>a. PICK T : T = Seq(S)
  OBVIOUS
<1>2. PICK f \in [0..n -> T] :
        /\ f[0] = <<>> /\ FlattenSeq(ss) = f[n]
        /\ \A i \in 1..n : f[i] = f[i - 1] \o ss[i]
  BY <1>1, <1>a, FlattenUnfolds
<1>3. \A i \in 1..n : ss[i] \in T /\ f[i] \in T /\ f[i - 1] \in T
  <2>1. \A i \in 1..n : ss[i] \in Seq(S)
    BY <1>1
  <2> QED  BY <1>a, <2>1
<1>b. \A x, y \in T :
        /\ Len(x) \in Nat /\ Len(y) \in Nat /\ Len(x \o y) = Len(x) + Len(y)
        /\ \A k \in 1..Len(x) : (x \o y)[k] = x[k]
        /\ \A j \in 1..Len(y) : (x \o y)[Len(x) + j] = y[j]
  BY <1>a, Concatenation
<1>4. ASSUME NEW i \in 1..n
      PROVE  /\ Len(f[i - 1]) \in Nat /\ Len(ss[i]) \in Nat /\ Len(f[i]) = Len(f[i - 1]) + Len(ss[i])
             /\ \A k \in 1..Len(f[i - 1]) : f[i][k] = f[i - 1][k]
             /\ \A j \in 1..Len(ss[i]) : f[i][Len(f[i - 1]) + j] = ss[i][j]
  <2>1. f[i - 1] \in T /\ ss[i] \in T /\ f[i] = f[i - 1] \o ss[i]
    BY <1>2, <1>3
  <2>2. PICK x \in T : x = f[i - 1]
    BY <2>1
  <2>3. PICK y \in T : y = ss[i]
    BY <2>1
  <2>4. f[i] = x \o y
    BY <2>1, <2>2, <2>3
  <2>5. /\ Len(x) \in Nat /\ Len(y) \in Nat /\ Len(x \o y) = Len(x) + Len(y)
        /\ \A k \in 1..Len(x) : (x \o y)[k] = x[k]
        /\ \A j \in 1..Len(y) : (x \o y)[Len(x) + j] = y[j]
    BY <1>b
  <2> QED  BY <2>2, <2>3, <2>4, <2>5
<1> DEFINE start == [i \in 0..n |-> Len(f[i])]
<1>5. start \in [0..n -> Nat] /\ start[0] = 0 /\ \A i \in 0..n : start[i] = Len(f[i])
  <2>1. \A i \in 0..n : Len(f[i]) \in Nat
    BY <1>b
  <2> QED  BY <2>1, <1>2
<1> HIDE DEF start
<1>6. \A i \in 1..n : /\ start[i - 1] \in Nat /\ start[i] \in Nat /\ Len(ss[i]) \in Nat
                      /\ start[i - 1] = Len(f[i - 1]) /\ start[i] = start[i - 1] + Len(ss[i])
  <2> TAKE i \in 1..n
  <2>1. i - 1 \in 0..n /\ i \in 0..n
    OBVIOUS
  <2> QED  BY <1>4, <1>5, <2>1
<1> DEFINE Placed(i) ==
             /\ \A h \in 1..i : \A j \in 1..Len(ss[h]) :
                  start[h - 1] + j \in 1..start[i] /\ f[i][start[h - 1] + j] = ss[h][j]
             /\ \A k \in 1..start[i] : \E h \in 1..i : \E j \in 1..Len(ss[h]) : k = start[h - 1] + j
           Good == {i \in 0..n : Placed(i)}
<1>7. 0 \in Good
  BY <1>5
<1>8. ASSUME NEW i \in 1..n, i - 1 \in Good PROVE i \in Good
  <2>1. Placed(i - 1)
    BY <1>8
  <2>2. /\ start[i - 1] \in Nat /\ start[i] \in Nat /\ Len(ss[i]) \in Nat
        /\ start[i] = start[i - 1] + Len(ss[i])
        /\ \A k \in 1..start[i - 1] : f[i][k] = f[i - 1][k]
        /\ \A j \in 1..Len(ss[i]) : f[i][start[i - 1] + j] = ss[i][j]
    <3>1. start[i - 1] = Len(f[i - 1])
      BY <1>6
    <3> QED  BY <1>4, <1>6, <3>1, ZenonT(30)
  <2>3. ASSUME NEW h \in 1..i, NEW j \in 1..Len(ss[h])
        PROVE  start[h - 1] + j \in 1..start[i] /\ f[i][start[h - 1] + j] = ss[h][j]
    <3>1. CASE h = i
      BY <2>2, <3>1
    <3>2. CASE h # i
      <4>1. h \in 1..(i - 1)
        BY <3>2
      <4>2. start[h - 1] + j \in 1..start[i - 1] /\ f[i - 1][start[h - 1] + j] = ss[h][j]
        BY <2>1, <4>1
      <4> QED  BY <2>2, <4>2, SMTT(30)
    <3> QED  BY <3>1, <3>2
  <2>4. ASSUME NEW k \in 1..start[i]
        PROVE  \E h \in 1..i : \E j \in 1..Len(ss[h]) : k = start[h - 1] + j
    <3>1. CASE k <= start[i - 1]
      <4>0. k \in 1..start[i - 1]
        BY <2>2, <3>1
      <4>1. PICK h \in 1..(i - 1) : \E j \in 1..Len(ss[h]) : k = start[h - 1] + j
        BY <2>1, <4>0
      <4>2. h \in 1..i
        OBVIOUS
      <4> QED  BY <4>1, <4>2
    <3>2. CASE k > start[i - 1]
      <4>1. k - start[i - 1] \in 1..Len(ss[i]) /\ k = start[i - 1] + (k - start[i - 1]) /\ i \in 1..i
        BY <2>2, <3>2
      <4> QED  BY <4>1
    <3> QED  BY <2>2, <3>1, <3>2
  <2> QED  BY <2>3, <2>4
<1>9. Placed(n)
  <2>1. \A i \in 0..n : i \in Good
    <3> HIDE DEF Good
    <3> QED  BY <1>7, <1>8, Upwards
  <2>2. n \in 0..n
    OBVIOUS
  <2> QED  BY <2>1, <2>2
<1>10. Len(f[n]) = start[n] /\ f[n] \in Seq(S)
  BY <1>a, <1>5
<1>11. Joined(ss, start, f[n])
  BY <1>1, <1>5, <1>6, <1>9, <1>10 DEF Joined
<1> QED  BY <1>2, <1>10, <1>11

-----------------------------------------------------------------------------
(* The bare plans a planner lays out *)

After == {"nothing", "previous", "root", "tails"}

BareNode == [kind : NodeKind, object : Object, other : Object, after : After,
             auth : {"none", "provenance", "leftover", "explicit"},
             expect : {"none", "name_free", "parent_exists", "leaves_attached",
                       "index_valid", "index_attached", "tree_valid", "absent"},
             scope : SUBSET Object]

(* The fields of a node laid out with its defaults.                        *)
LEMMA BareIs ==
  ASSUME NEW kind \in NodeKind, NEW object \in Object, NEW after \in After
  PROVE  /\ Bare(kind, object, after) \in BareNode
         /\ Bare(kind, object, after).kind = kind /\ Bare(kind, object, after).object = object
         /\ Bare(kind, object, after).after = after /\ Bare(kind, object, after).auth = "none"
         /\ Bare(kind, object, after).expect = "none" /\ Bare(kind, object, after).scope = {}
         /\ Bare(kind, object, after).other = Parent
BY ObjectAssumption DEF BareNode, Bare

Leaves == Len(LeafOrder)

(* The leaves in the order the planners take them.                         *)
LEMMA LeafFacts ==
  /\ Leaves \in Nat /\ DOMAIN LeafOrder = 1..Leaves /\ Parent \notin Leaf /\ Leaf \subseteq Object
  /\ Parent \in Object
  /\ \A i \in 1..Leaves : LeafOrder[i] \in Leaf
  /\ \A l \in Leaf : \E i \in 1..Leaves : LeafOrder[i] = l
  /\ \A i, h \in 1..Leaves : LeafOrder[i] = LeafOrder[h] => i = h
  /\ Rebuilding \in [Leaf -> Object]
BY LeafAssumption, ObjectAssumption DEF Leaves

(* The chains lie one after the other in s, from base on: chain i ends at  *)
(* start[i].                                                               *)
Laid(chain, start, base, s) ==
  /\ start \in [0..Leaves -> Nat] /\ start[0] = base
  /\ \A i \in 1..Leaves : start[i] = start[i - 1] + Len(chain[LeafOrder[i]])
  /\ \A i \in 1..Leaves : \A j \in 1..Len(chain[LeafOrder[i]]) :
       /\ start[i - 1] + j \in 1..Len(s)
       /\ s[start[i - 1] + j] =
            [chain[LeafOrder[i]][j] EXCEPT !.after = IF j = 1 THEN "root" ELSE @]
  /\ \A k \in 1..start[Leaves] : base < k =>
       \E i \in 1..Leaves : \E j \in 1..Len(chain[LeafOrder[i]]) : k = start[i - 1] + j

(* The leaves' chains laid end to end, in the order of the leaves.         *)
LEMMA ChainsLaid ==
  ASSUME NEW chain \in [Leaf -> Seq(BareNode)]
  PROVE  /\ Chains(chain) \in Seq(BareNode)
         /\ \E start : Laid(chain, start, 0, Chains(chain)) /\ Len(Chains(chain)) = start[Leaves]
<1> DEFINE ss == [i \in DOMAIN LeafOrder |-> Chained(chain[LeafOrder[i]])]
<1>1. ASSUME NEW c \in Seq(BareNode)
      PROVE  /\ Chained(c) \in Seq(BareNode) /\ Len(Chained(c)) = Len(c)
             /\ \A j \in 1..Len(c) : Chained(c)[j] = [c[j] EXCEPT !.after = IF j = 1 THEN "root" ELSE @]
  <2>1. PICK n \in Nat : n = Len(c) /\ DOMAIN c = 1..n
    OBVIOUS
  <2>2. \A j \in 1..n : c[j] \in BareNode
    BY <2>1
  <2>3. \A j \in 1..n : [c[j] EXCEPT !.after = IF j = 1 THEN "root" ELSE @] \in BareNode
    BY <2>2 DEF BareNode, After
  <2>4. Chained(c) = [j \in 1..n |-> [c[j] EXCEPT !.after = IF j = 1 THEN "root" ELSE @]]
    BY <2>1 DEF Chained
  <2> QED  BY <2>1, <2>3, <2>4
<1>2. \A i \in 1..Leaves : chain[LeafOrder[i]] \in Seq(BareNode)
  BY LeafFacts
<1>3. \A i \in 1..Leaves :
        /\ ss[i] \in Seq(BareNode) /\ Len(ss[i]) = Len(chain[LeafOrder[i]])
        /\ \A j \in 1..Len(ss[i]) :
             ss[i][j] = [chain[LeafOrder[i]][j] EXCEPT !.after = IF j = 1 THEN "root" ELSE @]
  BY <1>1, <1>2, LeafFacts
<1>4. ss \in Seq(Seq(BareNode)) /\ Len(ss) = Leaves
  <2>1. ss = [i \in 1..Leaves |-> ss[i]]
    BY LeafFacts
  <2> HIDE DEF ss
  <2>2. PICK T : T = Seq(BareNode)
    OBVIOUS
  <2>3. \A i \in 1..Leaves : ss[i] \in T
    BY <1>3, <2>2
  <2>4. Leaves \in Nat
    BY LeafFacts
  <2>5. ss \in Seq(T) /\ Len(ss) = Leaves
    BY <2>1, <2>3, <2>4
  <2> QED  BY <2>2, <2>5
<1>5. Chains(chain) = FlattenSeq(ss)
  BY DEF Chains
<1> HIDE DEF ss
<1>6. PICK start : Joined(ss, start, FlattenSeq(ss))
  BY <1>4, JoinedSequences
<1>7. FlattenSeq(ss) \in Seq(BareNode)
  BY <1>4, JoinedSequences
<1>8. Laid(chain, start, 0, FlattenSeq(ss))
  <2>1. \A i \in 1..Leaves : start[i] = start[i - 1] + Len(chain[LeafOrder[i]])
    BY <1>3, <1>4, <1>6 DEF Joined
  <2>2. ASSUME NEW i \in 1..Leaves, NEW j \in 1..Len(chain[LeafOrder[i]])
        PROVE  /\ start[i - 1] + j \in 1..Len(FlattenSeq(ss))
               /\ FlattenSeq(ss)[start[i - 1] + j] =
                    [chain[LeafOrder[i]][j] EXCEPT !.after = IF j = 1 THEN "root" ELSE @]
    <3>1. j \in 1..Len(ss[i])
      BY <1>3
    <3>2. start[i - 1] + j \in 1..Len(FlattenSeq(ss)) /\ FlattenSeq(ss)[start[i - 1] + j] = ss[i][j]
      BY <1>4, <1>6, <3>1 DEF Joined
    <3> QED  BY <1>3, <3>1, <3>2
  <2>3. ASSUME NEW k \in 1..start[Leaves]
        PROVE  \E i \in 1..Leaves : \E j \in 1..Len(chain[LeafOrder[i]]) : k = start[i - 1] + j
    <3>1. PICK i \in 1..Leaves : \E j \in 1..Len(ss[i]) : k = start[i - 1] + j
      BY <1>4, <1>6 DEF Joined
    <3>2. Len(ss[i]) = Len(chain[LeafOrder[i]])
      BY <1>3
    <3> QED  BY <3>1, <3>2
  <2>4. start \in [0..Leaves -> Nat] /\ start[0] = 0
    BY <1>4, <1>6 DEF Joined
  <2> QED  BY <2>1, <2>2, <2>3, <2>4 DEF Laid
<1>9. Len(FlattenSeq(ss)) = start[Leaves]
  BY <1>4, <1>6 DEF Joined
<1> QED  BY <1>5, <1>7, <1>8, <1>9

(* With something before and something behind.                             *)
Framed(chain, head, foot, s) ==
  /\ s \in Seq(BareNode)
  /\ \A k \in 1..Len(head) : s[k] = head[k]
  /\ \E start : /\ Laid(chain, start, Len(head), s)
                /\ Len(s) = start[Leaves] + Len(foot)
                /\ \A j \in 1..Len(foot) : s[start[Leaves] + j] = foot[j]

(* And between a head and a foot: the shape of every planner's plan.       *)
LEMMA PlanLaid ==
  ASSUME NEW chain \in [Leaf -> Seq(BareNode)],
         NEW head \in Seq(BareNode), NEW foot \in Seq(BareNode)
  PROVE  Framed(chain, head, foot, head \o Chains(chain) \o foot)
<1>0. PICK s : s = head \o Chains(chain) \o foot
  OBVIOUS
<1>1. PICK mid \in Seq(BareNode) : mid = Chains(chain)
  BY ChainsLaid
<1>2. PICK begin : Laid(chain, begin, 0, mid) /\ Len(mid) = begin[Leaves]
  BY <1>1, ChainsLaid
<1>3. /\ s \in Seq(BareNode) /\ Len(head) \in Nat /\ Len(mid) \in Nat /\ Len(foot) \in Nat
      /\ Len(s) = Len(head) + Len(mid) + Len(foot)
      /\ \A k \in 1..Len(head) : s[k] = head[k]
      /\ \A k \in 1..Len(mid) : s[Len(head) + k] = mid[k]
      /\ \A j \in 1..Len(foot) : s[Len(head) + Len(mid) + j] = foot[j]
  <2>0. PICK T : T = Seq(BareNode)
    OBVIOUS
  <2>1. \A x, y \in T :
          /\ x \o y \in T /\ Len(x) \in Nat /\ Len(y) \in Nat /\ Len(x \o y) = Len(x) + Len(y)
          /\ \A k \in 1..Len(x) : (x \o y)[k] = x[k]
          /\ \A j \in 1..Len(y) : (x \o y)[Len(x) + j] = y[j]
    BY <2>0, Concatenation
  <2>2. PICK t : t = head \o mid
    OBVIOUS
  <2>3. /\ t \in T /\ Len(t) = Len(head) + Len(mid)
        /\ Len(head) \in Nat /\ Len(mid) \in Nat
        /\ \A k \in 1..Len(head) : t[k] = head[k]
        /\ \A k \in 1..Len(mid) : t[Len(head) + k] = mid[k]
    BY <2>0, <2>1, <2>2
  <2>4. s = t \o foot
    BY <1>0, <1>1, <2>2
  <2>5. /\ s \in T /\ Len(s) = Len(t) + Len(foot) /\ Len(foot) \in Nat
        /\ \A k \in 1..Len(t) : s[k] = t[k]
        /\ \A j \in 1..Len(foot) : s[Len(t) + j] = foot[j]
    <3>1. t \in T /\ foot \in T
      BY <2>0, <2>3
    <3>2. /\ t \o foot \in T /\ Len(t \o foot) = Len(t) + Len(foot) /\ Len(foot) \in Nat
          /\ \A k \in 1..Len(t) : (t \o foot)[k] = t[k]
          /\ \A j \in 1..Len(foot) : (t \o foot)[Len(t) + j] = foot[j]
      BY <2>1, <3>1
    <3> QED  BY <2>4, <3>2
  <2>6. \A k \in 1..Len(head) : s[k] = head[k]
    BY <2>3, <2>5
  <2>7. \A k \in 1..Len(mid) : s[Len(head) + k] = mid[k]
    BY <2>3, <2>5
  <2> QED  BY <2>0, <2>3, <2>5, <2>6, <2>7
<1> DEFINE start == [i \in 0..Leaves |-> Len(head) + begin[i]]
<1>a. 0 \in 0..Leaves /\ Leaves \in 0..Leaves
  BY LeafFacts
<1>4. start \in [0..Leaves -> Nat] /\ \A i \in 0..Leaves : start[i] = Len(head) + begin[i] /\ begin[i] \in Nat
  BY <1>2, <1>3 DEF Laid
<1> HIDE DEF start
<1>5. Len(s) = start[Leaves] + Len(foot) /\ \A j \in 1..Len(foot) : s[start[Leaves] + j] = foot[j]
  BY <1>2, <1>3, <1>4, <1>a
<1>6. Laid(chain, start, Len(head), s)
  <2>1. start[0] = Len(head)
    BY <1>2, <1>3, <1>4, <1>a DEF Laid
  <2>2. ASSUME NEW i \in 1..Leaves PROVE start[i] = start[i - 1] + Len(chain[LeafOrder[i]])
    <3>1. begin[i] = begin[i - 1] + Len(chain[LeafOrder[i]])
      BY <1>2 DEF Laid
    <3>2. /\ start[i] = Len(head) + begin[i] /\ start[i - 1] = Len(head) + begin[i - 1]
          /\ begin[i - 1] \in Nat /\ begin[i] \in Nat
      <4>1. i - 1 \in 0..Leaves /\ i \in 0..Leaves
        BY LeafFacts
      <4> QED  BY <1>4, <4>1
    <3>3. Len(chain[LeafOrder[i]]) \in Nat
      BY LeafFacts
    <3> QED  BY <1>3, <3>1, <3>2, <3>3
  <2>3. ASSUME NEW i \in 1..Leaves, NEW j \in 1..Len(chain[LeafOrder[i]])
        PROVE  /\ start[i - 1] + j \in 1..Len(s)
               /\ s[start[i - 1] + j] =
                    [chain[LeafOrder[i]][j] EXCEPT !.after = IF j = 1 THEN "root" ELSE @]
    <3>1. /\ begin[i - 1] + j \in 1..Len(mid)
          /\ mid[begin[i - 1] + j] =
               [chain[LeafOrder[i]][j] EXCEPT !.after = IF j = 1 THEN "root" ELSE @]
      BY <1>2 DEF Laid
    <3>2. start[i - 1] = Len(head) + begin[i - 1] /\ begin[i - 1] \in Nat /\ j \in Nat
      BY <1>4, LeafFacts
    <3>3. start[i - 1] + j = Len(head) + (begin[i - 1] + j)
      BY <1>3, <3>2
    <3>4. s[start[i - 1] + j] = mid[begin[i - 1] + j]
      BY <1>3, <3>1, <3>3
    <3>5. start[i - 1] + j \in 1..Len(s)
      BY <1>3, <3>1, <3>3, SMTT(30)
    <3> QED  BY <3>1, <3>4, <3>5
  <2>4. ASSUME NEW k \in 1..start[Leaves], Len(head) < k
        PROVE  \E i \in 1..Leaves : \E j \in 1..Len(chain[LeafOrder[i]]) : k = start[i - 1] + j
    <3>1. k - Len(head) \in 1..begin[Leaves] /\ 0 < k - Len(head)
      BY <1>3, <1>4, <1>a, <2>4
    <3>2. PICK i \in 1..Leaves : \E j \in 1..Len(chain[LeafOrder[i]]) : k - Len(head) = begin[i - 1] + j
      BY <1>2, <3>1 DEF Laid
    <3>3. PICK j \in 1..Len(chain[LeafOrder[i]]) : k - Len(head) = begin[i - 1] + j
      BY <3>2
    <3>4. start[i - 1] = Len(head) + begin[i - 1] /\ begin[i - 1] \in Nat /\ j \in Nat
      BY <1>4, LeafFacts
    <3>5. k = start[i - 1] + j
      <4>1. k \in Int /\ Len(head) \in Int /\ begin[i - 1] + j \in Int
        BY <1>3, <1>4, <1>a, <3>4
      <4>2. k = Len(head) + (begin[i - 1] + j)
        BY <3>3, <4>1
      <4> QED  BY <1>3, <3>4, <4>2
    <3> QED  BY <3>5
  <2> QED  BY <1>4, <2>1, <2>2, <2>3, <2>4 DEF Laid
<1> QED  BY <1>0, <1>3, <1>5, <1>6 DEF Framed

(* A chain that comes earlier ends before a later one begins.              *)
LEMMA ChainsInOrder ==
  ASSUME NEW chain \in [Leaf -> Seq(BareNode)], NEW start, NEW base, NEW s,
         Laid(chain, start, base, s)
  PROVE  /\ \A i \in 0..Leaves : start[i] \in Nat
         /\ \A i \in 1..Leaves : Len(chain[LeafOrder[i]]) \in Nat
         /\ \A h \in 0..Leaves : \A i \in 0..h : start[i] <= start[h]
<1>1. \A i \in 0..Leaves : start[i] \in Nat
  BY DEF Laid
<1>2. \A i \in 1..Leaves : Len(chain[LeafOrder[i]]) \in Nat
  BY LeafFacts
<1> DEFINE Good == {h \in 0..Leaves : \A i \in 0..h : start[i] <= start[h]}
<1>3. 0 \in Good
  BY <1>1, LeafFacts
<1>4. ASSUME NEW h \in 1..Leaves, h - 1 \in Good PROVE h \in Good
  <2>1. start[h] = start[h - 1] + Len(chain[LeafOrder[h]])
    BY DEF Laid
  <2>2. start[h - 1] <= start[h] /\ start[h - 1] \in Nat /\ start[h] \in Nat
    BY <1>1, <1>2, <2>1, LeafFacts
  <2>3. ASSUME NEW i \in 0..h PROVE start[i] <= start[h]
    <3>1. CASE i = h
      BY <2>2, <3>1
    <3>2. CASE i # h
      <4>1. i \in 0..(h - 1) /\ start[i] \in Nat
        BY <3>2, <1>1, LeafFacts
      <4>2. start[i] <= start[h - 1]
        BY <1>4, <4>1
      <4> QED  BY <2>2, <4>1, <4>2
    <3> QED  BY <3>1, <3>2
  <2> QED  BY <2>3
<1>5. \A h \in 0..Leaves : h \in Good
  <2> HIDE DEF Good
  <2> QED  BY <1>3, <1>4, LeafFacts, Upwards
<1> QED  BY <1>1, <1>2, <1>5

-----------------------------------------------------------------------------
(* The planners' plans are sound *)

(* Numbering changes nothing of a node but how it names what it waits for. *)
Alike(p, b) == /\ p.kind = b.kind /\ p.object = b.object /\ p.other = b.other
               /\ p.auth = b.auth /\ p.expect = b.expect /\ p.scope = b.scope

(* The plan has the nodes that were laid out, and in their places.         *)
LEMMA NumberKeeps ==
  ASSUME NEW s \in Seq(BareNode), NEW root
  PROVE  /\ DOMAIN Number(s, root) = 1..Len(s)
         /\ \A k \in 1..Len(s) : Alike(Number(s, root)[k], s[k])
<1>1. DOMAIN s = 1..Len(s)
  OBVIOUS
<1> QED  BY <1>1, Zenon DEF Number, Alike

(* Where every node that waits for the root comes after it, every node     *)
(* waits for earlier ones only.                                            *)
LEMMA NumberOrdered ==
  ASSUME NEW s \in Seq(BareNode), NEW root \in Nat \ {0},
         \A k \in 1..Len(s) : /\ s[k].after = "previous" => k > 1
                              /\ s[k].after \in {"root", "tails"} => root < k
  PROVE  Ordered(Number(s, root))
<1> DEFINE I == {k \in 1..Len(s) : s[k].after = "tails"}
           closing == SelectInSeq(s, LAMBDA n : n.after = "tails")
           tails   == {k \in (root + 1) .. (closing - 1) :
                         k + 1 \in Positions(s, "root") \cup Positions(s, "tails")}
           deps(k) == CASE s[k].after = "nothing"  -> {}
                        [] s[k].after = "previous" -> {k - 1}
                        [] s[k].after = "root"     -> {root}
                        [] s[k].after = "tails"    -> IF tails = {} THEN {root} ELSE tails
<1>1. Number(s, root) =
        [k \in 1..Len(s) |->
           [kind |-> s[k].kind, object |-> s[k].object, other |-> s[k].other,
            deps |-> deps(k), auth |-> s[k].auth, expect |-> s[k].expect,
            scope |-> s[k].scope]]
  <2>1. DOMAIN s = 1..Len(s)
    OBVIOUS
  <2> QED  BY <2>1, Zenon DEF Number
<1>2. \A k \in I : closing \in 1..Len(s) /\ closing <= k
  <2>1. closing = IF I # {} THEN Min(I) ELSE 0
    BY DEF SelectInSeq
  <2>2. CASE I # {}
    <3>1. \E m \in I : \A k \in I : m <= k
      <4>1. I \subseteq Nat
        OBVIOUS
      <4> HIDE DEF I
      <4> QED  BY <2>2, <4>1, Least
    <3>2. Min(I) \in I /\ \A k \in I : Min(I) <= k
      <4> HIDE DEF I
      <4> QED  BY <3>1 DEF Min
    <3> QED  BY <2>1, <2>2, <3>2
  <2>3. CASE I = {}
    BY <2>3
  <2> QED  BY <2>2, <2>3
<1> HIDE DEF closing
<1>3. ASSUME NEW k \in 1..Len(s) PROVE deps(k) \subseteq 1..(k - 1)
  <2>0. s[k] \in BareNode /\ k \in Nat
    OBVIOUS
  <2>1. s[k].after \in After
    BY <2>0 DEF BareNode
  <2>a. tails \subseteq (root + 1)..(closing - 1)
    OBVIOUS
  <2>b. PICK a : a = s[k].after
    OBVIOUS
  <2>c. PICK t : t = tails
    OBVIOUS
  <2>d. /\ a = "nothing" => deps(k) = {}
        /\ a = "previous" => deps(k) = {k - 1}
        /\ a = "root" => deps(k) = {root}
        /\ a = "tails" => deps(k) = IF t = {} THEN {root} ELSE t
    <3> HIDE DEF tails
    <3> QED  BY <2>b, <2>c
  <2> HIDE DEF tails, deps
  <2>2. CASE a = "nothing"
    BY <2>2, <2>d
  <2>3. CASE a = "previous"
    <3>1. k > 1
      BY <2>3, <2>b
    <3>2. k - 1 \in 1..(k - 1)
      BY <3>1
    <3> QED  BY <2>3, <2>d, <3>2
  <2>4. CASE a = "root"
    <3>1. root < k
      BY <2>4, <2>b
    <3>2. root \in 1..(k - 1)
      BY <3>1
    <3> QED  BY <2>4, <2>d, <3>2
  <2>5. CASE a = "tails"
    <3>1. root < k
      BY <2>5, <2>b
    <3>2. closing \in 1..Len(s) /\ closing <= k
      BY <1>2, <2>5, <2>b
    <3>3. \A x \in (root + 1)..(closing - 1) : x \in 1..(k - 1)
      BY <3>2
    <3>4. root \in 1..(k - 1)
      BY <3>1
    <3> QED  BY <2>a, <2>c, <2>5, <2>d, <3>3, <3>4
  <2> QED  BY <2>1, <2>b, <2>2, <2>3, <2>4, <2>5 DEF After
<1> HIDE DEF deps
<1>4. ASSUME NEW k \in 1..Len(s)
      PROVE  [kind |-> s[k].kind, object |-> s[k].object, other |-> s[k].other,
              deps |-> deps(k), auth |-> s[k].auth, expect |-> s[k].expect,
              scope |-> s[k].scope] \in PlanNode
  <2>1. s[k] \in BareNode
    OBVIOUS
  <2>2. deps(k) \in SUBSET Nat
    BY <1>3
  <2> QED  BY <2>1, <2>2 DEF BareNode, PlanNode
<1> QED  BY <1>1, <1>3, <1>4 DEF Ordered

(* What the chain of leaf l may hold: nodes about l; at most its first may *)
(* drop something, l itself or what is neither a leaf's nor the parent's;  *)
(* and a verdict about nothing but l.                                      *)
LeafChain(l, c) ==
  \A j \in 1..Len(c) :
    /\ c[j].after = "previous" /\ c[j].kind # "drop_partitioned"
    /\ IF c[j].kind = "drop_concurrently"
         THEN /\ j = 1 /\ c[j].auth \in {"provenance", "leftover"}
              /\ c[j].object = l \/ c[j].object \notin Leaf \cup {Parent}
         ELSE c[j].object = l
    /\ c[j].kind = "verify" => c[j].expect \in {"index_valid", "index_attached"} /\ c[j].scope = {}

Opening(head) ==
  /\ Len(head) >= 1 /\ head[1].after = "nothing"
  /\ \A k \in 1..Len(head) : /\ head[k].after \in {"nothing", "previous"}
                             /\ head[k].after = "previous" => k > 1
                             /\ head[k].kind \notin DestructiveKinds \cup {"verify"}
                             /\ head[k].object = Parent

Foot(foot, chain) ==
  \A j \in 1..Len(foot) :
    /\ foot[j].after \in {"tails", "previous"}
    /\ foot[j].kind \notin ClaimingKinds \cup {"drop_concurrently"}
    /\ foot[j].kind = "drop_partitioned" =>
         /\ foot[j].auth = "explicit"
         /\ \A l \in Leaf : \A h \in 1..Len(chain[l]) : chain[l][h].kind # "verify"
    /\ foot[j].kind = "verify" => j = Len(foot) /\ foot[j].expect \in {"tree_valid", "absent"}

(* Where a node of the plan comes from.                                    *)
From(k, chain, start, head, foot) ==
  \/ k \in 1..Len(head)
  \/ \E i \in 1..Leaves : \E j \in 1..Len(chain[LeafOrder[i]]) : k = start[i - 1] + j
  \/ \E j \in 1..Len(foot) : k = start[Leaves] + j

(* A node of a plan is of the head, of one leaf's chain or of the foot.    *)
LEMMA WhichNode ==
  ASSUME NEW chain \in [Leaf -> Seq(BareNode)], NEW start,
         NEW head \in Seq(BareNode), NEW foot \in Seq(BareNode), NEW s \in Seq(BareNode),
         Laid(chain, start, Len(head), s), Len(s) = start[Leaves] + Len(foot)
  PROVE  \A k \in 1..Len(s) : From(k, chain, start, head, foot)
<1> SUFFICES ASSUME NEW k \in 1..Len(s) PROVE From(k, chain, start, head, foot)
  OBVIOUS
<1> USE DEF From
<1>1. /\ Len(head) \in Nat /\ Len(foot) \in Nat /\ start[Leaves] \in Nat /\ k \in Nat
  BY LeafFacts, ChainsInOrder, SMTT(30)
<1>2. CASE k <= Len(head)
  BY <1>1, <1>2
<1>3. CASE Len(head) < k /\ k <= start[Leaves]
  <2>1. k \in 1..start[Leaves]
    BY <1>1, <1>3
  <2> QED  BY <1>3, <2>1 DEF Laid
<1>4. CASE k > start[Leaves]
  <2>1. k - start[Leaves] \in 1..Len(foot) /\ k = start[Leaves] + (k - start[Leaves])
    BY <1>1, <1>4
  <2> QED  BY <2>1
<1> QED  BY <1>1, <1>2, <1>3, <1>4

(* A plan built like that meets what a run assumes of its plan.            *)
LEMMA ChainedPlan ==
  ASSUME NEW chain \in [Leaf -> Seq(BareNode)],
         NEW head \in Seq(BareNode), NEW foot \in Seq(BareNode),
         \A l \in Leaf : LeafChain(l, chain[l]),
         Opening(head), Foot(foot, chain),
         NEW plan, plan = Number(head \o Chains(chain) \o foot, Len(head))
  PROVE  Ordered(plan) /\ DropsProven(plan) /\ VerdictsStand(plan)
<1>0. PICK s : s = head \o Chains(chain) \o foot
  OBVIOUS
<1>a. Framed(chain, head, foot, s)
  BY <1>0, PlanLaid
<1>1. s \in Seq(BareNode) /\ \A k \in 1..Len(head) : s[k] = head[k]
  BY <1>a DEF Framed
<1>2. PICK start : /\ Laid(chain, start, Len(head), s)
                   /\ Len(s) = start[Leaves] + Len(foot)
                   /\ \A j \in 1..Len(foot) : s[start[Leaves] + j] = foot[j]
  BY <1>a DEF Framed
<1>3. plan = Number(s, Len(head))
  BY <1>0
<1>b. \A k \in 1..Len(s) : From(k, chain, start, head, foot)
  BY <1>1, <1>2, WhichNode
<1>w. \A k \in 1..Len(s) :
         \/ k \in 1..Len(head)
         \/ \E i \in 1..Leaves : \E j \in 1..Len(chain[LeafOrder[i]]) : k = start[i - 1] + j
         \/ \E j \in 1..Len(foot) : k = start[Leaves] + j
  BY <1>b DEF From
<1>4. /\ Len(head) \in Nat \ {0} /\ Len(foot) \in Nat /\ start[Leaves] \in Nat
      /\ \A i \in 1..Leaves : LeafOrder[i] \in Leaf /\ start[i - 1] \in Nat /\ i - 1 \in 0..Leaves
      /\ \A i \in 1..Leaves : start[i - 1] >= Len(head) /\ start[i] <= start[Leaves]
      /\ start[Leaves] >= Len(head)
  <2>1. Len(head) \in Nat /\ Len(foot) \in Nat /\ Len(head) \in Nat \ {0}
    BY DEF Opening
  <2>2. \A i \in 1..Leaves : i - 1 \in 0..Leaves /\ 0 \in 0..(i - 1) /\ i \in 0..Leaves /\ i \in 0..Leaves
    BY LeafFacts
  <2>3. Leaves \in 0..Leaves /\ 0 \in 0..Leaves
    BY LeafFacts
  <2>4. \A h \in 0..Leaves : start[h] \in Nat /\ \A i \in 0..h : start[i] <= start[h]
    BY <1>2, ChainsInOrder
  <2>5. start[0] = Len(head)
    BY <1>2 DEF Laid
  <2>6. \A i \in 1..Leaves : start[i - 1] >= Len(head) /\ start[i] <= start[Leaves] /\ start[i - 1] \in Nat
    <3> TAKE i \in 1..Leaves
    <3>1. start[0] <= start[i - 1] /\ start[i] <= start[Leaves] /\ start[i - 1] \in Nat
      BY <2>2, <2>3, <2>4
    <3> QED  BY <2>1, <2>5, <3>1
  <2>7. start[Leaves] >= Len(head) /\ start[Leaves] \in Nat
    BY <2>1, <2>3, <2>4, <2>5
  <2> QED  BY <2>1, <2>2, <2>6, <2>7, LeafFacts
<1> HIDE DEF Leaves
<1>5. ASSUME NEW i \in 1..Leaves, NEW j \in 1..Len(chain[LeafOrder[i]])
      PROVE  LET k == start[i - 1] + j
                 b == chain[LeafOrder[i]][j]
             IN  /\ Len(head) < k /\ k <= start[Leaves] /\ k \in 1..Len(s)
                 /\ s[k].after = IF j = 1 THEN "root" ELSE "previous"
                 /\ s[k].kind = b.kind /\ s[k].kind # "drop_partitioned" /\ s[k].object = b.object /\ s[k].auth = b.auth
                 /\ s[k].expect = b.expect /\ s[k].scope = b.scope
  <2>1. PICK l \in Leaf : l = LeafOrder[i]
    BY <1>4
  <2>2. Len(chain[l]) \in Nat /\ j \in Nat /\ j <= Len(chain[l]) /\ j > 0
    BY <2>1
  <2>3. start[i] = start[i - 1] + Len(chain[l]) /\ start[i - 1] \in Nat
    BY <1>2, <1>4, <2>1 DEF Laid
  <2>4. start[i - 1] + j \in 1..Len(s)
    BY <1>2 DEF Laid
  <2>5. s[start[i - 1] + j] = [chain[l][j] EXCEPT !.after = IF j = 1 THEN "root" ELSE @]
    BY <1>2, <2>1 DEF Laid
  <2>6. chain[l][j] \in BareNode
    BY <2>1, <2>2
  <2>7. chain[l][j].after = "previous" /\ chain[l][j].kind # "drop_partitioned"
    BY <2>1 DEF LeafChain
  <2>8. start[i - 1] >= Len(head) /\ start[i] <= start[Leaves]
    BY <1>4
  <2>9. Len(head) < start[i - 1] + j /\ start[i - 1] + j <= start[Leaves]
    BY <1>4, <2>2, <2>3, <2>8
  <2> QED  BY <2>1, <2>4, <2>5, <2>6, <2>7, <2>9 DEF BareNode
<1>6. \A j \in 1..Len(foot) : start[Leaves] + j \in 1..Len(s) /\ start[Leaves] + j > start[Leaves]
                              /\ s[start[Leaves] + j] = foot[j]
  BY <1>2, <1>4
<1>7. Ordered(plan)
  <2>1. ASSUME NEW k \in 1..Len(s)
        PROVE  /\ s[k].after = "previous" => k > 1
               /\ s[k].after \in {"root", "tails"} => Len(head) < k
    <3>1. CASE k \in 1..Len(head)
      BY <1>1, <3>1 DEF Opening
    <3>2. CASE \E i \in 1..Leaves : \E j \in 1..Len(chain[LeafOrder[i]]) : k = start[i - 1] + j
      BY <1>4, <1>5, <3>2
    <3>3. CASE \E j \in 1..Len(foot) : k = start[Leaves] + j
      BY <1>4, <1>6, <3>3
    <3> QED  BY <1>w, <3>1, <3>2, <3>3
  <2> QED  BY <1>1, <1>3, <1>4, <2>1, NumberOrdered
<1>8. DOMAIN plan = 1..Len(s)
      /\ \A k \in 1..Len(s) : /\ plan[k].kind = s[k].kind /\ plan[k].object = s[k].object
                              /\ plan[k].auth = s[k].auth /\ plan[k].expect = s[k].expect
                              /\ plan[k].scope = s[k].scope
  BY <1>1, <1>3, NumberKeeps DEF Alike
<1> HIDE DEF DestructiveKinds, ClaimingKinds
<1>9. ASSUME NEW n \in 1..Len(s), s[n].kind = "drop_concurrently"
      PROVE  \E i \in 1..Leaves : /\ Len(chain[LeafOrder[i]]) > 0 /\ 1 \in 1..Len(chain[LeafOrder[i]])
                                  /\ n = start[i - 1] + 1
                                  /\ s[n].auth \in {"provenance", "leftover"}
                                  /\ s[n].object = LeafOrder[i] \/ s[n].object \notin Leaf \cup {Parent}
                                  /\ s[n].object # Parent
  <2>1. CASE n \in 1..Len(head)
    BY <1>1, <1>9, <2>1 DEF Opening, DestructiveKinds
  <2>2. CASE \E i \in 1..Leaves : \E j \in 1..Len(chain[LeafOrder[i]]) : n = start[i - 1] + j
    <3>1. PICK i \in 1..Leaves : \E j \in 1..Len(chain[LeafOrder[i]]) : n = start[i - 1] + j
      BY <2>2
    <3>2. PICK j \in 1..Len(chain[LeafOrder[i]]) : n = start[i - 1] + j
      BY <3>1
    <3>3. PICK l \in Leaf : l = LeafOrder[i]
      BY <1>4
    <3>4. chain[l][j].kind = "drop_concurrently" /\ s[n].auth = chain[l][j].auth
          /\ s[n].object = chain[l][j].object
      BY <1>5, <1>9, <3>2, <3>3
    <3>5. j = 1 /\ chain[l][j].auth \in {"provenance", "leftover"}
          /\ (chain[l][j].object = l \/ chain[l][j].object \notin Leaf \cup {Parent})
      BY <3>3, <3>4 DEF LeafChain
    <3>6. Len(chain[l]) \in Nat
      OBVIOUS
    <3> QED  BY <3>2, <3>3, <3>4, <3>5, <3>6, LeafFacts
  <2>3. CASE \E j \in 1..Len(foot) : n = start[Leaves] + j
    BY <1>6, <1>9, <2>3 DEF Foot
  <2> QED  BY <1>w, <2>1, <2>2, <2>3
<1>10. DropsProven(plan)
  <2>1. ASSUME NEW n \in 1..Len(s), s[n].kind = "drop_partitioned" PROVE s[n].auth = "explicit"
    <3>1. CASE n \in 1..Len(head)
      BY <1>1, <2>1, <3>1 DEF Opening, DestructiveKinds
    <3>2. CASE \E i \in 1..Leaves : \E j \in 1..Len(chain[LeafOrder[i]]) : n = start[i - 1] + j
      <4>1. PICK i \in 1..Leaves : \E j \in 1..Len(chain[LeafOrder[i]]) : n = start[i - 1] + j
        BY <3>2
      <4>2. PICK j \in 1..Len(chain[LeafOrder[i]]) : n = start[i - 1] + j
        BY <4>1
      <4>3. s[start[i - 1] + j].kind # "drop_partitioned"
        BY <1>5
      <4> QED  BY <2>1, <4>2, <4>3
    <3>3. CASE \E j \in 1..Len(foot) : n = start[Leaves] + j
      BY <1>6, <2>1, <3>3 DEF Foot
    <3> QED  BY <1>w, <3>1, <3>2, <3>3
  <2>2. ASSUME NEW n \in 1..Len(s), s[n].kind = "drop_concurrently",
               NEW m \in 1..Len(s), s[m].kind \in ClaimingKinds, s[m].object = s[n].object
        PROVE  n < m
    <3>1. PICK i \in 1..Leaves : /\ 1 \in 1..Len(chain[LeafOrder[i]]) /\ n = start[i - 1] + 1
                                 /\ s[n].object = LeafOrder[i] \/ s[n].object \notin Leaf \cup {Parent}
                                 /\ s[n].object # Parent
      BY <1>9, <2>2
    <3>2. CASE m \in 1..Len(head)
      BY <1>1, <2>2, <3>1, <3>2 DEF Opening
    <3>3. CASE \E h \in 1..Leaves : \E j \in 1..Len(chain[LeafOrder[h]]) : m = start[h - 1] + j
      <4>1. PICK h \in 1..Leaves : \E j \in 1..Len(chain[LeafOrder[h]]) : m = start[h - 1] + j
        BY <3>3
      <4>2. PICK j \in 1..Len(chain[LeafOrder[h]]) : m = start[h - 1] + j
        BY <4>1
      <4>3. PICK l \in Leaf : l = LeafOrder[h]
        BY <1>4
      <4>4. chain[l][j].kind = s[m].kind /\ chain[l][j].object = s[m].object
        BY <1>5, <4>2, <4>3
      <4>5. chain[l][j].kind # "drop_concurrently"
        BY <2>2, <4>4 DEF ClaimingKinds
      <4>6. s[m].object = l
        BY <4>2, <4>3, <4>4, <4>5 DEF LeafChain
      <4>7. l = LeafOrder[i]
        BY <2>2, <3>1, <4>6
      <4>8. i = h
        BY <4>3, <4>7, LeafFacts
      <4>9. j # 1
        <5>1. j = 1 => m = n
          BY <3>1, <4>2, <4>8
        <5>2. m # n
          BY <2>2 DEF ClaimingKinds
        <5> QED  BY <5>1, <5>2
      <4>10. j \in Nat /\ j > 0 /\ start[i - 1] \in Nat
        <5>1. Len(chain[l]) \in Nat /\ j \in 1..Len(chain[l])
          BY <4>2, <4>3
        <5> QED  BY <1>4, <5>1
      <4> QED  BY <3>1, <4>2, <4>8, <4>9, <4>10
    <3>4. CASE \E j \in 1..Len(foot) : m = start[Leaves] + j
      BY <1>6, <2>2, <3>4 DEF Foot
    <3> QED  BY <1>w, <3>2, <3>3, <3>4
  <2>3. ASSUME NEW n \in 1..Len(s), s[n].kind = "drop_concurrently"
        PROVE  s[n].auth \in {"provenance", "leftover"}
    BY <1>9, <2>3
  <2> QED  BY <1>8, <2>1, <2>2, <2>3 DEF DropsProven
<1>11. VerdictsStand(plan)
  <2>1. ASSUME NEW v \in 1..Len(s), s[v].kind = "verify"
        PROVE  \/ v = Len(s) /\ s[v].expect \in {"tree_valid", "absent"}
               \/ \E i \in 1..Leaves : \E j \in 1..Len(chain[LeafOrder[i]]) :
                    /\ v = start[i - 1] + j /\ chain[LeafOrder[i]][j].kind = "verify"
                    /\ s[v].expect \in {"index_valid", "index_attached"}
                    /\ s[v].scope = {} /\ s[v].object = LeafOrder[i]
    <3>1. CASE v \in 1..Len(head)
      BY <1>1, <2>1, <3>1 DEF Opening
    <3>2. CASE \E i \in 1..Leaves : \E j \in 1..Len(chain[LeafOrder[i]]) : v = start[i - 1] + j
      <4>1. PICK i \in 1..Leaves : \E j \in 1..Len(chain[LeafOrder[i]]) : v = start[i - 1] + j
        BY <3>2
      <4>2. PICK j \in 1..Len(chain[LeafOrder[i]]) : v = start[i - 1] + j
        BY <4>1
      <4>3. PICK l \in Leaf : l = LeafOrder[i]
        BY <1>4
      <4>4. /\ chain[l][j].kind = s[v].kind /\ chain[l][j].object = s[v].object
            /\ chain[l][j].expect = s[v].expect /\ chain[l][j].scope = s[v].scope
        BY <1>5, <4>2, <4>3
      <4>5. /\ chain[l][j].object = l /\ chain[l][j].scope = {}
            /\ chain[l][j].expect \in {"index_valid", "index_attached"}
        BY <2>1, <4>2, <4>3, <4>4 DEF LeafChain
      <4> QED  BY <2>1, <4>2, <4>3, <4>4, <4>5
    <3>3. CASE \E j \in 1..Len(foot) : v = start[Leaves] + j
      BY <1>2, <1>6, <2>1, <3>3 DEF Foot
    <3> QED  BY <1>w, <3>1, <3>2, <3>3
  <2>2. ASSUME NEW v \in 1..Len(s), s[v].kind = "verify", NEW n \in 1..Len(s), v < n
        PROVE  ~Undoes(plan[n], plan[v])
    <3>1. Len(s) \in Nat /\ v \in Nat /\ n \in Nat /\ v # Len(s)
      BY <1>1, <2>2
    <3>2. PICK i \in 1..Leaves : \E j \in 1..Len(chain[LeafOrder[i]]) :
                    /\ v = start[i - 1] + j /\ chain[LeafOrder[i]][j].kind = "verify"
                    /\ s[v].scope = {} /\ s[v].object = LeafOrder[i]
      BY <2>1, <2>2, <3>1
    <3>3. PICK j \in 1..Len(chain[LeafOrder[i]]) :
                    /\ v = start[i - 1] + j /\ chain[LeafOrder[i]][j].kind = "verify"
                    /\ s[v].scope = {} /\ s[v].object = LeafOrder[i]
      BY <3>2
    <3>4. s[n].kind # "drop_partitioned"
      <4>1. CASE n \in 1..Len(head)
        BY <1>1, <4>1 DEF Opening, DestructiveKinds
      <4>2. CASE \E h \in 1..Leaves : \E m \in 1..Len(chain[LeafOrder[h]]) : n = start[h - 1] + m
        <5>1. PICK h \in 1..Leaves : \E m \in 1..Len(chain[LeafOrder[h]]) : n = start[h - 1] + m
          BY <4>2
        <5>2. PICK m \in 1..Len(chain[LeafOrder[h]]) : n = start[h - 1] + m
          BY <5>1
        <5> QED  BY <1>5, <5>2
      <4>3. CASE \E m \in 1..Len(foot) : n = start[Leaves] + m
        <5>1. PICK m \in 1..Len(foot) : n = start[Leaves] + m
          BY <4>3
        <5>2. s[n] = foot[m] /\ LeafOrder[i] \in Leaf
          BY <1>4, <1>6, <5>1
        <5>3. foot[m].kind # "drop_partitioned"
          BY <3>3, <5>2 DEF Foot
        <5> QED  BY <5>2, <5>3
      <4> QED  BY <1>w, <4>1, <4>2, <4>3
    <3>5. ~(s[n].kind = "drop_concurrently" /\ s[n].object \in {s[v].object, Parent})
      <4> SUFFICES ASSUME s[n].kind = "drop_concurrently", s[n].object \in {s[v].object, Parent}
                   PROVE  FALSE
        OBVIOUS
      <4>1. PICK h \in 1..Leaves : /\ 1 \in 1..Len(chain[LeafOrder[h]]) /\ n = start[h - 1] + 1
                                   /\ s[n].object = LeafOrder[h] \/ s[n].object \notin Leaf \cup {Parent}
                                   /\ s[n].object # Parent
        BY <1>9
      <4>2. s[n].object = LeafOrder[i] /\ LeafOrder[i] \in Leaf
        BY <1>4, <3>3, <4>1
      <4>3. LeafOrder[h] = LeafOrder[i]
        BY <4>1, <4>2
      <4>4. h = i
        BY <4>3, LeafFacts
      <4>5. j \in Nat /\ j > 0 /\ start[i - 1] \in Nat
        BY <1>4, LeafFacts
      <4> QED  BY <2>2, <3>3, <4>1, <4>4, <4>5
    <3> QED  BY <1>8, <3>3, <3>4, <3>5 DEF Undoes
  <2>3. ASSUME NEW v \in 1..Len(s), s[v].kind = "verify"
        PROVE  s[v].expect \in {"index_valid", "index_attached", "tree_valid", "absent"}
    BY <2>1, <2>3
  <2> QED  BY <1>8, <2>2, <2>3 DEF VerdictsStand
<1> QED  BY <1>7, <1>10, <1>11

-----------------------------------------------------------------------------
(* drop-index *)

(* Sequences of no, one and two nodes.                                     *)
LEMMA BareSequences ==
  /\ <<>> \in Seq(BareNode)
  /\ \A a \in BareNode : <<a>> \in Seq(BareNode) /\ Len(<<a>>) = 1 /\ <<a>>[1] = a
  /\ \A a, b \in BareNode : <<a, b>> \in Seq(BareNode) /\ Len(<<a, b>>) = 2
                             /\ <<a, b>>[1] = a /\ <<a, b>>[2] = b
OBVIOUS

(* The nodes of the three planners.                                        *)
LEMMA BareKinds ==
  ASSUME NEW kind \in NodeKind, NEW object \in Object, NEW after \in After,
         NEW auth \in {"none", "provenance", "leftover", "explicit"},
         NEW expect \in {"none", "name_free", "parent_exists", "leaves_attached",
                         "index_valid", "index_attached", "tree_valid", "absent"},
         NEW other \in Object, NEW scope \in SUBSET Object
  PROVE  LET b == Bare(kind, object, after)
         IN  /\ b \in BareNode
             /\ [b EXCEPT !.auth = auth] \in BareNode
             /\ [b EXCEPT !.other = other] \in BareNode
             /\ [b EXCEPT !.expect = expect] \in BareNode
             /\ [b EXCEPT !.auth = auth, !.other = other] \in BareNode
             /\ [b EXCEPT !.expect = expect, !.scope = scope] \in BareNode
BY ObjectAssumption DEF BareNode, Bare

(* drop-index: one drop per orphan, then the tree and the last look.       *)
ExistsAssertion == [Bare("assert", Parent, "nothing") EXCEPT !.expect = "parent_exists"]
LeafDrop(l) == [Bare("drop_concurrently", l, "previous") EXCEPT !.auth = "provenance"]
TreeDrop == [Bare("drop_partitioned", Parent, "tails") EXCEPT !.auth = "explicit"]
AbsentVerify(c, claims) ==
  [Bare("verify", Parent, "previous") EXCEPT
     !.expect = "absent",
     !.scope = {Parent} \cup {l \in Leaf : ~Skipped(c, l, claims)}]
DropLaid(c, claims) ==
  [l \in Leaf |-> IF Orphan(c, l, claims) THEN <<LeafDrop(l)>> ELSE <<>>]

(* The nodes of a drop-index plan.                                         *)
LEMMA DropNodes ==
  ASSUME NEW c, NEW claims
  PROVE  LET final == AbsentVerify(c, claims)
         IN  /\ ExistsAssertion \in BareNode /\ TreeDrop \in BareNode /\ final \in BareNode
             /\ ExistsAssertion.after = "nothing" /\ ExistsAssertion.kind = "assert"
             /\ ExistsAssertion.object = Parent /\ ExistsAssertion.expect = "parent_exists"
             /\ ExistsAssertion.scope = {}
             /\ TreeDrop.after = "tails" /\ TreeDrop.kind = "drop_partitioned"
             /\ TreeDrop.auth = "explicit" /\ TreeDrop.object = Parent
             /\ final.after = "previous" /\ final.kind = "verify" /\ final.expect = "absent"
             /\ final.scope = {Parent} \cup {l \in Leaf : ~Skipped(c, l, claims)}
             /\ \A l \in Leaf :
                  /\ LeafDrop(l) \in BareNode
                  /\ LeafDrop(l).after = "previous" /\ LeafDrop(l).kind = "drop_concurrently"
                  /\ LeafDrop(l).auth = "provenance" /\ LeafDrop(l).object = l
<1>0. Leaf \subseteq Object /\ Parent \in Object
  BY LeafFacts
<1>1. ExistsAssertion \in BareNode /\ TreeDrop \in BareNode
  BY <1>0, BareKinds, ZenonT(30) DEF NodeKind, DDLKinds, DestructiveKinds, After, ExistsAssertion, TreeDrop
<1>2. AbsentVerify(c, claims) \in BareNode
  <2>1. {Parent} \cup {l \in Leaf : ~Skipped(c, l, claims)} \in SUBSET Object
    BY <1>0
  <2> QED  BY <1>0, <2>1, BareKinds, ZenonT(30) DEF NodeKind, After, AbsentVerify
<1>3. \A l \in Leaf : LeafDrop(l) \in BareNode
  BY <1>0, BareKinds, ZenonT(30) DEF NodeKind, DDLKinds, DestructiveKinds, After, LeafDrop
<1> QED  BY <1>1, <1>2, <1>3 DEF Bare, ExistsAssertion, TreeDrop, AbsentVerify, LeafDrop

(* A drop-index plan by its head, chains and foot.                         *)
LEMMA DropParts ==
  ASSUME NEW c, NEW claims
  PROVE  LET chain == DropLaid(c, claims)
             head  == <<ExistsAssertion>>
             foot  == <<TreeDrop, AbsentVerify(c, claims)>>
         IN  /\ chain \in [Leaf -> Seq(BareNode)] /\ \A l \in Leaf : LeafChain(l, chain[l])
             /\ head \in Seq(BareNode) /\ Len(head) = 1 /\ head[1] = ExistsAssertion
             /\ foot \in Seq(BareNode) /\ Len(foot) = 2
             /\ foot[1] = TreeDrop /\ foot[2] = AbsentVerify(c, claims)
             /\ Opening(head) /\ Foot(foot, chain)
             /\ DropPlan(c, claims) = Number(head \o Chains(chain) \o foot, Len(head))
<1>a. PICK assertion : assertion = ExistsAssertion
  OBVIOUS
<1>b. PICK tree : tree = TreeDrop
  OBVIOUS
<1>c. PICK final : final = AbsentVerify(c, claims)
  OBVIOUS
<1>d. PICK orphans : orphans = DropLaid(c, claims)
  OBVIOUS
<1>1. /\ assertion \in BareNode /\ tree \in BareNode /\ final \in BareNode
      /\ assertion.after = "nothing" /\ assertion.kind = "assert" /\ assertion.object = Parent
      /\ tree.after = "tails" /\ tree.kind = "drop_partitioned" /\ tree.auth = "explicit"
      /\ final.after = "previous" /\ final.kind = "verify" /\ final.expect = "absent"
  BY <1>a, <1>b, <1>c, DropNodes
<1>2. DropPlan(c, claims) = Number(<<assertion>> \o Chains(orphans) \o <<tree, final>>, 1)
  BY <1>a, <1>b, <1>c, <1>d, Zenon
     DEF DropPlan, ExistsAssertion, TreeDrop, AbsentVerify, DropLaid, LeafDrop
<1>3. \A l \in Leaf : orphans[l] \in {<<>>, <<LeafDrop(l)>>}
  BY <1>d DEF DropLaid
<1>4. orphans \in [Leaf -> Seq(BareNode)]
  <2>1. \A l \in Leaf : orphans[l] \in Seq(BareNode)
    <3> TAKE l \in Leaf
    <3>1. PICK b \in BareNode : b = LeafDrop(l)
      BY DropNodes
    <3>2. orphans[l] \in {<<>>, <<b>>}
      BY <1>3, <3>1
    <3> QED  BY <3>2, BareSequences
  <2> QED  BY <1>d, <2>1 DEF DropLaid
<1>5. ASSUME NEW l \in Leaf
      PROVE  LeafChain(l, orphans[l]) /\ \A h \in 1..Len(orphans[l]) : orphans[l][h].kind # "verify"
  <2>1. PICK b : b = LeafDrop(l)
    OBVIOUS
  <2>2. b.after = "previous" /\ b.kind = "drop_concurrently" /\ b.auth = "provenance" /\ b.object = l
    BY <2>1, DropNodes
  <2>3. CASE orphans[l] = <<>>
    BY <2>3 DEF LeafChain
  <2>4. CASE orphans[l] = <<b>>
    BY <2>2, <2>4 DEF LeafChain
  <2> QED  BY <1>3, <2>1, <2>3, <2>4
<1>6. Opening(<<assertion>>) /\ Len(<<assertion>>) = 1
  BY <1>1 DEF Opening, DestructiveKinds
<1>7. Foot(<<tree, final>>, orphans)
  BY <1>1, <1>5 DEF Foot, ClaimingKinds
<1>8. /\ <<assertion>> \in Seq(BareNode) /\ <<assertion>>[1] = assertion
      /\ <<tree, final>> \in Seq(BareNode) /\ Len(<<tree, final>>) = 2
      /\ <<tree, final>>[1] = tree /\ <<tree, final>>[2] = final
  BY <1>1, BareSequences
<1>9. DropPlan(c, claims) = Number(<<assertion>> \o Chains(orphans) \o <<tree, final>>, Len(<<assertion>>))
  BY <1>2, <1>6
<1> QED  BY <1>a, <1>b, <1>c, <1>d, <1>4, <1>5, <1>6, <1>7, <1>8, <1>9

(* A drop-index plan, over any catalog and any records: every node waits   *)
(* only for nodes before it, every concurrent drop asks for the proof its  *)
(* kind needs before anything makes its name anew, and no later node       *)
(* undoes what a verify node has found (Planner.Plan).                     *)
THEOREM DropPlanIsSound ==
  ASSUME NEW c \in Catalog, NEW claims
  PROVE  LET plan == DropPlan(c, claims)
         IN  Ordered(plan) /\ DropsProven(plan) /\ VerdictsStand(plan)
BY DropParts, ChainedPlan

(* The nodes of a leaf's chain in create-index, in full.                   *)
LeafCreate(l) == Bare("create_concurrently", l, "previous")
LeafVerify(l) == [Bare("verify", l, "previous") EXCEPT !.expect = "index_valid"]
LeafAttach(l) == Bare("attach", l, "previous")
LeafWait(l)   == Bare("wait", l, "previous")

(* Short sequences, put together.                                         *)
LEMMA Prefixed ==
  ASSUME NEW S, NEW f \in Seq(S), NEW s \in Seq(S), NEW t \in Seq(S), Len(f) = 1,
         Len(t) = 1 + Len(s), t[1] = f[1], \A k \in 1..Len(s) : t[1 + k] = s[k]
  PROVE  f \o s = t
<1>1. PICK x : x = f \o s
  OBVIOUS
<1>2. PICK n \in Nat : n = Len(s)
  OBVIOUS
<1>3. /\ x \in Seq(S) /\ Len(x) = 1 + n
      /\ \A i \in 1..(1 + n) : x[i] = IF i <= 1 THEN f[i] ELSE s[i - 1]
  <2>1. PICK T : T = Seq(S)
    OBVIOUS
  <2>2. \A g, h \in T :
          /\ g \o h \in T /\ Len(g \o h) = Len(g) + Len(h)
          /\ \A i \in 1..Len(g) + Len(h) : (g \o h)[i] = IF i <= Len(g) THEN g[i] ELSE h[i - Len(g)]
    BY <2>1, ConcatProperties
  <2>3. f \in T /\ s \in T
    BY <2>1
  <2>4. /\ x \in T /\ Len(x) = Len(f) + Len(s)
        /\ \A i \in 1..Len(f) + Len(s) : x[i] = IF i <= Len(f) THEN f[i] ELSE s[i - Len(f)]
    BY <1>1, <2>2, <2>3, Zenon
  <2>5. x \in T /\ Len(x) = 1 + n /\ \A i \in 1..(1 + n) : x[i] = IF i <= 1 THEN f[i] ELSE s[i - 1]
    BY <1>2, <2>4
  <2> QED  BY <2>1, <2>5
<1>4. ASSUME NEW i \in 1..(1 + n) PROVE x[i] = t[i]
  <2>1. CASE i = 1
    BY <1>3, <2>1
  <2>2. CASE i # 1
    <3>1. i - 1 \in 1..n /\ i = 1 + (i - 1)
      BY <2>2
    <3>2. t[i] = s[i - 1]
      BY <1>2, <3>1
    <3> QED  BY <1>3, <2>2, <3>2
  <2> QED  BY <2>1, <2>2
<1> QED  BY <1>1, <1>2, <1>3, <1>4, SeqEqual

(* A node before a short chain.                                            *)
LEMMA ShortConcats ==
  ASSUME NEW b, NEW v, NEW a, NEW w
  PROVE  /\ <<b>> \o <<>> = <<b>> /\ <<b>> \o <<v>> = <<b, v>>
         /\ <<b>> \o <<v, a>> = <<b, v, a>> /\ <<b>> \o <<v, a, w>> = <<b, v, a, w>>
<1> PICK S : S = {b, v, a, w}
  OBVIOUS
<1>1. /\ <<>> \in Seq(S) /\ <<b>> \in Seq(S) /\ <<v>> \in Seq(S) /\ <<b, v>> \in Seq(S)
      /\ <<v, a>> \in Seq(S) /\ <<b, v, a>> \in Seq(S)
      /\ <<v, a, w>> \in Seq(S) /\ <<b, v, a, w>> \in Seq(S)
  OBVIOUS
<1> DEFINE Fits(s, t) == /\ Len(t) = 1 + Len(s) /\ t[1] = <<b>>[1]
                         /\ \A k \in 1..Len(s) : t[1 + k] = s[k]
<1>2. \A s, t \in Seq(S) : Fits(s, t) => <<b>> \o s = t
  <2>1. PICK f \in Seq(S) : f = <<b>>
    BY <1>1
  <2>2. Len(f) = 1
    BY <2>1
  <2> SUFFICES ASSUME NEW s \in Seq(S), NEW t \in Seq(S), Len(t) = 1 + Len(s), t[1] = f[1],
                      \A k \in 1..Len(s) : t[1 + k] = s[k]
               PROVE  f \o s = t
    BY <2>1
  <2> QED  BY <2>2, Prefixed
<1>3. Fits(<<>>, <<b>>)
  OBVIOUS
<1>4. Fits(<<v>>, <<b, v>>)
  OBVIOUS
<1>5. Fits(<<v, a>>, <<b, v, a>>)
  OBVIOUS
<1>6. Fits(<<v, a, w>>, <<b, v, a, w>>)
  OBVIOUS
<1> HIDE DEF Fits
<1> QED  BY <1>1, <1>2, <1>3, <1>4, <1>5, <1>6, Zenon

(* The chain of a leaf, by what is found of the leaf's index.              *)
LEMMA CreateChainIs ==
  ASSUME NEW c, NEW l
  PROVE  /\ Usable(c[l]) /\ c[l].attached  => CreateChain(c, l) = <<>>
         /\ Usable(c[l]) /\ ~c[l].attached =>
              CreateChain(c, l) = <<LeafVerify(l), LeafAttach(l), LeafWait(l)>>
         /\ Unusable(c[l]) =>
              CreateChain(c, l) = <<LeafDrop(l), LeafCreate(l), LeafVerify(l), LeafAttach(l), LeafWait(l)>>
         /\ ~Exists(c[l]) =>
              CreateChain(c, l) = <<LeafCreate(l), LeafVerify(l), LeafAttach(l), LeafWait(l)>>
<1>1. \A b, v, a, w : <<b>> \o <<v, a, w>> = <<b, v, a, w>>
  BY ShortConcats
<1>2. \A d, b, v, a, w : <<d>> \o <<b>> \o <<v, a, w>> = <<d, b, v, a, w>>
  <2> TAKE d, b, v, a, w
  <2>1. PICK S : S = {d, b, v, a, w}
    OBVIOUS
  <2>2. <<d>> \o <<b>> = <<d, b>>
    BY ShortConcats
  <2>3. /\ <<d, b>> \in Seq(S) /\ <<v, a, w>> \in Seq(S) /\ <<d, b, v, a, w>> \in Seq(S)
        /\ Len(<<d, b>>) = 2 /\ Len(<<v, a, w>>) = 3 /\ Len(<<d, b, v, a, w>>) = 5
    BY <2>1
  <2>4. PICK x : x = <<d, b>> \o <<v, a, w>>
    OBVIOUS
  <2>5. x \in Seq(S) /\ Len(x) = 5
    BY <2>3, <2>4
  <2>6. x[1] = d /\ x[2] = b /\ x[3] = v /\ x[4] = a /\ x[5] = w
    BY <2>4
  <2>7. \A i \in 1..5 : x[i] = <<d, b, v, a, w>>[i]
    BY <2>6
  <2>8. x = <<d, b, v, a, w>>
    BY <2>3, <2>5, <2>7, SeqEqual
  <2> QED  BY <2>2, <2>4, <2>8
<1>3. /\ <<LeafDrop(l)>> \o <<LeafCreate(l)>> \o <<LeafVerify(l), LeafAttach(l), LeafWait(l)>>
           = <<LeafDrop(l), LeafCreate(l), LeafVerify(l), LeafAttach(l), LeafWait(l)>>
      /\ <<LeafCreate(l)>> \o <<LeafVerify(l), LeafAttach(l), LeafWait(l)>>
           = <<LeafCreate(l), LeafVerify(l), LeafAttach(l), LeafWait(l)>>
  BY <1>1, <1>2
<1>4. PICK x, y, z : /\ x = <<LeafDrop(l)>> \o <<LeafCreate(l)>> \o <<LeafVerify(l), LeafAttach(l), LeafWait(l)>>
                     /\ y = <<LeafCreate(l)>> \o <<LeafVerify(l), LeafAttach(l), LeafWait(l)>>
                     /\ z = <<LeafVerify(l), LeafAttach(l), LeafWait(l)>>
  OBVIOUS
<1>5. CreateChain(c, l) = CASE Usable(c[l]) /\ c[l].attached  -> <<>>
                            [] Usable(c[l]) /\ ~c[l].attached -> z
                            [] Unusable(c[l])                 -> x
                            [] ~Exists(c[l])                  -> y
  <2> HIDE DEF Usable, Unusable, Exists
  <2> QED  BY <1>4, Zenon DEF CreateChain, LeafDrop, LeafCreate, LeafVerify, LeafAttach, LeafWait
<1>6. /\ Unusable(c[l]) => ~Usable(c[l]) /\ Exists(c[l])
      /\ Usable(c[l]) => Exists(c[l])
  BY DEF Usable, Unusable, Exists
<1>7. /\ Usable(c[l]) /\ c[l].attached  => CreateChain(c, l) = <<>>
      /\ Usable(c[l]) /\ ~c[l].attached => CreateChain(c, l) = z
      /\ Unusable(c[l]) => CreateChain(c, l) = x
      /\ ~Exists(c[l]) => CreateChain(c, l) = y
  <2> HIDE DEF Usable, Unusable, Exists
  <2> HIDE <1>4
  <2> QED  BY <1>5, <1>6
<1> QED  BY <1>3, <1>4, <1>7

(* The nodes of a leaf's chain.                                            *)
LEMMA LeafNodes ==
  ASSUME NEW l \in Leaf
  PROVE  /\ {LeafDrop(l), LeafCreate(l), LeafVerify(l), LeafAttach(l), LeafWait(l)} \subseteq BareNode
         /\ LeafDrop(l).kind = "drop_concurrently" /\ LeafDrop(l).auth = "provenance"
         /\ LeafCreate(l).kind = "create_concurrently"
         /\ LeafVerify(l).kind = "verify" /\ LeafVerify(l).expect = "index_valid"
         /\ LeafAttach(l).kind = "attach" /\ LeafAttach(l).other = Parent
         /\ LeafWait(l).kind = "wait"
         /\ \A b \in {LeafDrop(l), LeafCreate(l), LeafVerify(l), LeafAttach(l), LeafWait(l)} :
              b.after = "previous" /\ b.object = l /\ b.scope = {}
<1>1. l \in Object
  BY LeafFacts
<1>2. {LeafDrop(l), LeafCreate(l), LeafVerify(l), LeafAttach(l), LeafWait(l)} \subseteq BareNode
  <2>1. /\ {"drop_concurrently", "create_concurrently", "verify", "attach", "wait"} \subseteq NodeKind
        /\ "previous" \in After
    BY DEF NodeKind, DDLKinds, DestructiveKinds, ClaimingKinds, After
  <2>2. LeafDrop(l) \in BareNode
    BY <1>1, <2>1, BareKinds DEF LeafDrop
  <2>3. LeafCreate(l) \in BareNode /\ LeafAttach(l) \in BareNode /\ LeafWait(l) \in BareNode
    BY <1>1, <2>1, BareIs DEF LeafCreate, LeafAttach, LeafWait
  <2>4. LeafVerify(l) \in BareNode
    BY <1>1, <2>1, BareKinds DEF LeafVerify
  <2> QED  BY <2>2, <2>3, <2>4
<1> QED  BY <1>2 DEF LeafDrop, LeafCreate, LeafVerify, LeafAttach, LeafWait, Bare

(* A leaf's chain is a chain of nodes of that leaf.                        *)
LEMMA CreateChains ==
  ASSUME NEW c, NEW l \in Leaf
  PROVE  CreateChain(c, l) \in Seq(BareNode) /\ LeafChain(l, CreateChain(c, l))
<1> PICK d : d = LeafDrop(l)
  OBVIOUS
<1> PICK b : b = LeafCreate(l)
  OBVIOUS
<1> PICK v : v = LeafVerify(l)
  OBVIOUS
<1> PICK a : a = LeafAttach(l)
  OBVIOUS
<1> PICK w : w = LeafWait(l)
  OBVIOUS
<1>1. /\ {d, b, v, a, w} \subseteq BareNode
      /\ d.kind = "drop_concurrently" /\ d.auth = "provenance" /\ b.kind = "create_concurrently"
      /\ v.kind = "verify" /\ v.expect = "index_valid" /\ a.kind = "attach" /\ w.kind = "wait"
      /\ \A x \in {d, b, v, a, w} : x.after = "previous" /\ x.object = l /\ x.scope = {}
  BY LeafNodes
<1>2. CreateChain(c, l) \in {<<>>, <<v, a, w>>, <<d, b, v, a, w>>, <<b, v, a, w>>}
  <2>1. \/ Usable(c[l]) /\ c[l].attached
        \/ Usable(c[l]) /\ ~c[l].attached
        \/ Unusable(c[l])
        \/ ~Exists(c[l])
    BY DEF Unusable
  <2> HIDE DEF Usable, Unusable, Exists
  <2> QED  BY <2>1, CreateChainIs
<1>3. ASSUME NEW s \in {<<>>, <<v, a, w>>, <<d, b, v, a, w>>, <<b, v, a, w>>}
      PROVE  s \in Seq(BareNode) /\ LeafChain(l, s)
  <2>1. CASE s = <<>>
    BY <2>1 DEF LeafChain
  <2>2. CASE s = <<v, a, w>>
    <3>1. s \in Seq(BareNode)
      BY <1>1, <2>2
    <3>2. Len(s) = 3 /\ s[1] = v /\ s[2] = a /\ s[3] = w
      BY <2>2
    <3>3. LeafChain(l, s)
      BY <1>1, <3>2 DEF LeafChain
    <3> QED  BY <3>1, <3>3
  <2>3. CASE s = <<d, b, v, a, w>>
    <3>1. s \in Seq(BareNode)
      BY <1>1, <2>3
    <3>2. Len(s) = 5 /\ s[1] = d /\ s[2] = b /\ s[3] = v /\ s[4] = a /\ s[5] = w
      BY <2>3
    <3>3. LeafChain(l, s)
      BY <1>1, <3>2 DEF LeafChain
    <3> QED  BY <3>1, <3>3
  <2>4. CASE s = <<b, v, a, w>>
    <3>1. s \in Seq(BareNode)
      BY <1>1, <2>4
    <3>2. Len(s) = 4 /\ s[1] = b /\ s[2] = v /\ s[3] = a /\ s[4] = w
      BY <2>4
    <3>3. LeafChain(l, s)
      BY <1>1, <3>2 DEF LeafChain
    <3> QED  BY <3>1, <3>3
  <2> QED  BY <1>3, <2>1, <2>2, <2>3, <2>4
<1> QED  BY <1>2, <1>3

(* create-index.                                                           *)
NameAssertion == [Bare("assert", Parent, "nothing") EXCEPT !.expect = "name_free"]
ParentCreate  == Bare("create_parent_invalid", Parent, "previous")
TreeVerify    == [Bare("verify", Parent, "tails") EXCEPT !.expect = "tree_valid"]
CreateHead(c) == IF Exists(c[Parent]) THEN <<NameAssertion>> ELSE <<NameAssertion, ParentCreate>>
CreateLaid(c) == [l \in Leaf |-> CreateChain(c, l)]

(* The nodes before and after the chains of a create-index plan.           *)
LEMMA CreateNodes ==
  /\ {NameAssertion, ParentCreate, TreeVerify} \subseteq BareNode
  /\ NameAssertion.after = "nothing" /\ NameAssertion.kind = "assert"
  /\ NameAssertion.expect = "name_free" /\ NameAssertion.scope = {}
  /\ ParentCreate.after = "previous" /\ ParentCreate.kind = "create_parent_invalid"
  /\ TreeVerify.after = "tails" /\ TreeVerify.kind = "verify" /\ TreeVerify.expect = "tree_valid"
  /\ TreeVerify.scope = {}
  /\ \A b \in {NameAssertion, ParentCreate, TreeVerify} : b.object = Parent
<1>1. Parent \in Object
  BY LeafFacts
<1>2. {NameAssertion, ParentCreate, TreeVerify} \subseteq BareNode
  <2>1. /\ {"assert", "create_parent_invalid", "verify"} \subseteq NodeKind
        /\ {"nothing", "previous", "tails"} \subseteq After
    BY DEF NodeKind, DDLKinds, ClaimingKinds, After
  <2>2. NameAssertion \in BareNode
    BY <1>1, <2>1, BareKinds DEF NameAssertion
  <2>3. ParentCreate \in BareNode
    BY <1>1, <2>1, BareIs DEF ParentCreate
  <2>4. TreeVerify \in BareNode
    BY <1>1, <2>1, BareKinds DEF TreeVerify
  <2> QED  BY <2>2, <2>3, <2>4
<1> QED  BY <1>2 DEF NameAssertion, ParentCreate, TreeVerify, Bare

(* A create-index plan by its head, chains and foot.                       *)
LEMMA CreateParts ==
  ASSUME NEW c
  PROVE  /\ CreateHead(c) \in Seq(BareNode) /\ Opening(CreateHead(c))
         /\ Len(CreateHead(c)) = IF Exists(c[Parent]) THEN 1 ELSE 2
         /\ CreateLaid(c) \in [Leaf -> Seq(BareNode)] /\ \A l \in Leaf : LeafChain(l, CreateLaid(c)[l])
         /\ <<TreeVerify>> \in Seq(BareNode) /\ Foot(<<TreeVerify>>, CreateLaid(c))
         /\ CreatePlan(c) = Number(CreateHead(c) \o Chains(CreateLaid(c)) \o <<TreeVerify>>,
                                    Len(CreateHead(c)))
<1>1. CreateLaid(c) \in [Leaf -> Seq(BareNode)] /\ \A l \in Leaf : LeafChain(l, CreateLaid(c)[l])
  BY CreateChains DEF CreateLaid
<1>2. <<TreeVerify>> \in Seq(BareNode) /\ Foot(<<TreeVerify>>, CreateLaid(c))
  <2>1. <<TreeVerify>> \in Seq(BareNode) /\ Len(<<TreeVerify>>) = 1 /\ <<TreeVerify>>[1] = TreeVerify
    BY CreateNodes, BareSequences
  <2> QED  BY <2>1, CreateNodes DEF Foot, ClaimingKinds
<1>3. /\ CreateHead(c) \in Seq(BareNode) /\ Opening(CreateHead(c))
      /\ Len(CreateHead(c)) = IF Exists(c[Parent]) THEN 1 ELSE 2
  <2>1. CASE Exists(c[Parent])
    <3>1. CreateHead(c) = <<NameAssertion>>
      BY <2>1 DEF CreateHead
    <3>2. CreateHead(c) \in Seq(BareNode) /\ Len(CreateHead(c)) = 1 /\ CreateHead(c)[1] = NameAssertion
      BY <3>1, CreateNodes, BareSequences
    <3> QED  BY <2>1, <3>2, CreateNodes DEF Opening, DestructiveKinds
  <2>2. CASE ~Exists(c[Parent])
    <3>1. CreateHead(c) = <<NameAssertion, ParentCreate>>
      BY <2>2 DEF CreateHead
    <3>2. /\ CreateHead(c) \in Seq(BareNode) /\ Len(CreateHead(c)) = 2
          /\ CreateHead(c)[1] = NameAssertion /\ CreateHead(c)[2] = ParentCreate
      BY <3>1, CreateNodes, BareSequences
    <3> QED  BY <2>2, <3>2, CreateNodes DEF Opening, DestructiveKinds
  <2> QED  BY <2>1, <2>2
<1>4. CreatePlan(c) = Number(CreateHead(c) \o Chains(CreateLaid(c)) \o <<TreeVerify>>,
                             Len(CreateHead(c)))
  <2>1. CASE Exists(c[Parent])
    <3>1. CreateHead(c) = <<NameAssertion>> \o <<>> /\ Len(CreateHead(c)) = 1 + Len(<<>>)
      BY <1>3, <2>1, ShortConcats DEF CreateHead
    <3> QED  BY <2>1, <3>1, Zenon DEF CreatePlan, CreateLaid, NameAssertion, TreeVerify
  <2>2. CASE ~Exists(c[Parent])
    <3>1. CreateHead(c) = <<NameAssertion>> \o <<ParentCreate>> /\ Len(CreateHead(c)) = 1 + Len(<<ParentCreate>>)
      <4>1. <<NameAssertion>> \o <<ParentCreate>> = <<NameAssertion, ParentCreate>>
        BY ShortConcats
      <4>2. Len(<<ParentCreate>>) = 1
        OBVIOUS
      <4>3. CreateHead(c) = <<NameAssertion, ParentCreate>> /\ Len(CreateHead(c)) = 2
        BY <1>3, <2>2 DEF CreateHead
      <4>4. CreateHead(c) = <<NameAssertion>> \o <<ParentCreate>>
        BY <4>1, <4>3, Zenon
      <4>5. Len(CreateHead(c)) = 1 + Len(<<ParentCreate>>)
        BY <4>2, <4>3
      <4> QED  BY <4>4, <4>5
    <3> QED  BY <2>2, <3>1, Zenon DEF CreatePlan, CreateLaid, NameAssertion, ParentCreate, TreeVerify
  <2> QED  BY <2>1, <2>2
<1> QED  BY <1>1, <1>2, <1>3, <1>4

(* The same of a create-index plan, over any catalog (Planner.Plan).       *)
THEOREM CreatePlanIsSound ==
  ASSUME NEW c \in Catalog
  PROVE  LET plan == CreatePlan(c)
         IN  Ordered(plan) /\ DropsProven(plan) /\ VerdictsStand(plan)
BY CreateParts, ChainedPlan

-----------------------------------------------------------------------------
(* reindex-index *)

(* PostgreSQL's _ccnew names are nobody else's.                            *)
RebuildsApart ==
  /\ \A l \in Leaf : Rebuilding[l] \notin Leaf \cup {Parent}
  /\ \A l, m \in Leaf : Rebuilding[l] = Rebuilding[m] => l = m

LeftoverDrop(l) == [Bare("drop_concurrently", Rebuilding[l], "previous")
                      EXCEPT !.auth = "leftover", !.other = l]
LeafReindex(l)  == [Bare("reindex_concurrently", l, "previous") EXCEPT !.other = Rebuilding[l]]
LeafLook(l)     == [Bare("verify", l, "previous") EXCEPT !.expect = "index_attached"]

(* The chain of a leaf, by whether a rebuild has left a transient index.   *)
LEMMA ReindexChainIs ==
  ASSUME NEW c, NEW l
  PROVE  ReindexChain(c, l) =
           IF Exists(c[Rebuilding[l]]) THEN <<LeftoverDrop(l), LeafReindex(l), LeafLook(l)>>
                                       ELSE <<LeafReindex(l), LeafLook(l)>>
<1>1. \A b, v, a : <<b>> \o <<v, a>> = <<b, v, a>>
  BY ShortConcats
<1>2. \A v, a : <<>> \o <<v, a>> = <<v, a>>
  <2> TAKE v, a
  <2>1. PICK S : S = {v, a}
    OBVIOUS
  <2>2. <<v, a>> \in Seq(S)
    BY <2>1
  <2> QED  BY <2>2, ConcatEmptySeq
<1> HIDE DEF Exists
<1> QED  BY <1>1, <1>2, Zenon DEF ReindexChain, LeftoverDrop, LeafReindex, LeafLook

(* The nodes of a leaf's chain.                                            *)
LEMMA ReindexNodes ==
  ASSUME NEW l \in Leaf
  PROVE  /\ {LeftoverDrop(l), LeafReindex(l), LeafLook(l)} \subseteq BareNode
         /\ LeftoverDrop(l).kind = "drop_concurrently" /\ LeftoverDrop(l).auth = "leftover"
         /\ LeftoverDrop(l).object = Rebuilding[l] /\ LeftoverDrop(l).other = l
         /\ LeafReindex(l).kind = "reindex_concurrently" /\ LeafReindex(l).object = l
         /\ LeafReindex(l).other = Rebuilding[l]
         /\ LeafLook(l).kind = "verify" /\ LeafLook(l).expect = "index_attached"
         /\ LeafLook(l).object = l
         /\ \A b \in {LeftoverDrop(l), LeafReindex(l), LeafLook(l)} :
              b.after = "previous" /\ b.scope = {}
<1>1. l \in Object /\ Rebuilding[l] \in Object
  BY LeafFacts
<1>2. /\ {"drop_concurrently", "reindex_concurrently", "verify"} \subseteq NodeKind
      /\ "previous" \in After
  BY DEF NodeKind, DDLKinds, DestructiveKinds, ClaimingKinds, After
<1>3. LeftoverDrop(l) \in BareNode
  BY <1>1, <1>2, BareKinds DEF LeftoverDrop
<1>4. LeafReindex(l) \in BareNode
  BY <1>1, <1>2, BareKinds DEF LeafReindex
<1>5. LeafLook(l) \in BareNode
  BY <1>1, <1>2, BareKinds DEF LeafLook
<1> QED  BY <1>3, <1>4, <1>5 DEF LeftoverDrop, LeafReindex, LeafLook, Bare

(* A leaf's chain is a chain of nodes of that leaf.                        *)
LEMMA ReindexChains ==
  ASSUME NEW c, NEW l \in Leaf, RebuildsApart
  PROVE  ReindexChain(c, l) \in Seq(BareNode) /\ LeafChain(l, ReindexChain(c, l))
<1>0. PICK d, b, v : d = LeftoverDrop(l) /\ b = LeafReindex(l) /\ v = LeafLook(l)
  OBVIOUS
<1>1. /\ {d, b, v} \subseteq BareNode
      /\ d.kind = "drop_concurrently" /\ d.auth = "leftover" /\ d.object \notin Leaf \cup {Parent}
      /\ b.kind = "reindex_concurrently" /\ b.object = l
      /\ v.kind = "verify" /\ v.expect = "index_attached" /\ v.object = l
      /\ \A x \in {d, b, v} : x.after = "previous" /\ x.scope = {}
  BY <1>0, ReindexNodes DEF RebuildsApart
<1>2. ReindexChain(c, l) \in {<<d, b, v>>, <<b, v>>}
  BY <1>0, ReindexChainIs
<1>3. ASSUME NEW s \in {<<d, b, v>>, <<b, v>>} PROVE s \in Seq(BareNode) /\ LeafChain(l, s)
  <2>1. CASE s = <<d, b, v>>
    <3>1. s \in Seq(BareNode)
      BY <1>1, <2>1
    <3>2. Len(s) = 3 /\ s[1] = d /\ s[2] = b /\ s[3] = v
      BY <2>1
    <3>3. LeafChain(l, s)
      BY <1>1, <3>2 DEF LeafChain
    <3> QED  BY <3>1, <3>3
  <2>2. CASE s = <<b, v>>
    <3>1. s \in Seq(BareNode)
      BY <1>1, <2>2
    <3>2. Len(s) = 2 /\ s[1] = b /\ s[2] = v
      BY <2>2
    <3>3. LeafChain(l, s)
      BY <1>1, <3>2 DEF LeafChain
    <3> QED  BY <3>1, <3>3
  <2> QED  BY <1>3, <2>1, <2>2
<1> QED  BY <1>2, <1>3

LeavesAssertion == [Bare("assert", Parent, "nothing") EXCEPT !.expect = "leaves_attached"]
CleanVerify     == [Bare("verify", Parent, "tails") EXCEPT
                      !.expect = "tree_valid", !.scope = {Rebuilding[l] : l \in Leaf}]
ReindexLaid(c)  == [l \in Leaf |-> ReindexChain(c, l)]

(* The nodes before and after the chains of a reindex-index plan.          *)
LEMMA ReindexNodesAround ==
  /\ LeavesAssertion \in BareNode /\ CleanVerify \in BareNode
  /\ LeavesAssertion.after = "nothing" /\ LeavesAssertion.kind = "assert" /\ LeavesAssertion.object = Parent
  /\ LeavesAssertion.expect = "leaves_attached" /\ LeavesAssertion.scope = {}
  /\ CleanVerify.after = "tails" /\ CleanVerify.kind = "verify" /\ CleanVerify.expect = "tree_valid"
  /\ CleanVerify.scope = {Rebuilding[l] : l \in Leaf}
<1>0. {"assert", "verify"} \subseteq NodeKind /\ {"nothing", "tails"} \subseteq After /\ Parent \in Object
  BY LeafFacts DEF NodeKind, After
<1>1. LeavesAssertion \in BareNode
  BY <1>0, BareKinds DEF LeavesAssertion
<1>2. CleanVerify \in BareNode
  <2>1. {Rebuilding[l] : l \in Leaf} \in SUBSET Object
    BY LeafFacts
  <2> QED  BY <1>0, <2>1, BareKinds DEF CleanVerify
<1> QED  BY <1>1, <1>2 DEF Bare, LeavesAssertion, CleanVerify

(* A reindex-index plan by its head, chains and foot.                      *)
LEMMA ReindexParts ==
  ASSUME NEW c \in Catalog, RebuildsApart
  PROVE  /\ ReindexLaid(c) \in [Leaf -> Seq(BareNode)]
         /\ \A l \in Leaf : LeafChain(l, ReindexLaid(c)[l])
         /\ <<LeavesAssertion>> \in Seq(BareNode) /\ Len(<<LeavesAssertion>>) = 1
         /\ <<CleanVerify>> \in Seq(BareNode) /\ Len(<<CleanVerify>>) = 1
         /\ <<LeavesAssertion>>[1] = LeavesAssertion /\ <<CleanVerify>>[1] = CleanVerify
         /\ Opening(<<LeavesAssertion>>) /\ Foot(<<CleanVerify>>, ReindexLaid(c))
         /\ ReindexPlan(c) = Number(<<LeavesAssertion>> \o Chains(ReindexLaid(c)) \o <<CleanVerify>>,
                                    Len(<<LeavesAssertion>>))
<1>4. ReindexLaid(c) \in [Leaf -> Seq(BareNode)] /\ \A l \in Leaf : LeafChain(l, ReindexLaid(c)[l])
  BY ReindexChains DEF ReindexLaid
<1>5. /\ <<LeavesAssertion>> \in Seq(BareNode) /\ Len(<<LeavesAssertion>>) = 1
      /\ <<LeavesAssertion>>[1] = LeavesAssertion
      /\ <<CleanVerify>> \in Seq(BareNode) /\ Len(<<CleanVerify>>) = 1 /\ <<CleanVerify>>[1] = CleanVerify
  BY ReindexNodesAround, BareSequences
<1>6. Opening(<<LeavesAssertion>>)
  BY ReindexNodesAround, <1>5 DEF Opening, DestructiveKinds
<1>7. Foot(<<CleanVerify>>, ReindexLaid(c))
  BY ReindexNodesAround, <1>5 DEF Foot, ClaimingKinds
<1>8. ReindexPlan(c) = Number(<<LeavesAssertion>> \o Chains(ReindexLaid(c)) \o <<CleanVerify>>, 1)
  BY Zenon DEF ReindexPlan, ReindexLaid, LeavesAssertion, CleanVerify
<1>9. ReindexPlan(c) = Number(<<LeavesAssertion>> \o Chains(ReindexLaid(c)) \o <<CleanVerify>>,
                              Len(<<LeavesAssertion>>))
  BY <1>5, <1>8
<1> QED  BY <1>4, <1>5, <1>6, <1>7, <1>9

(* The same of a reindex-index plan, over any catalog, where the transient *)
(* indexes of the leaves are told apart (Planner.Plan).                    *)
THEOREM ReindexPlanIsSound ==
  ASSUME NEW c \in Catalog, RebuildsApart
  PROVE  LET plan == ReindexPlan(c)
         IN  Ordered(plan) /\ DropsProven(plan) /\ VerdictsStand(plan)
BY ReindexParts, ChainedPlan

-----------------------------------------------------------------------------
(* A plan executed node by node *)

(* A catalog, and whether the plan has stopped on its way to it.           *)
Outcome == [cat : Catalog, stuck : BOOLEAN]

(* A node that is not stuck leaves a catalog.                              *)
LEMMA CarriedType ==
  ASSUME NEW n \in PlanNode, NEW c \in Catalog, ~Stuck(n, c)
  PROVE  Carried(n, c) \in Catalog
<1>1. n.object \in Object /\ n.other \in Object
  BY DEF PlanNode
<1>2. CASE n.kind \notin DDLKinds
  BY <1>2 DEF Carried
<1>3. CASE n.kind \in DDLKinds
  <2>1. Committed(n, c) # {} /\ Committed(n, c) \subseteq Catalog
    <3>1. n.kind \notin {"assert", "verify"}
      BY <1>3 DEF DDLKinds, DestructiveKinds, ClaimingKinds
    <3> QED  BY <1>1, <1>3, <3>1, CommittedType DEF Stuck, DDLKinds
  <2> DEFINE d == CHOOSE d \in Committed(n, c) : TRUE
  <2>2. d \in Catalog
    BY <2>1
  <2> HIDE DEF d
  <2>3. [d EXCEPT ![n.object].marker = "ours"] \in Catalog
    BY <1>1, <2>2 DEF Catalog, Index, MarkerStatus
  <2>4. Carried(n, c) \in {d, [d EXCEPT ![n.object].marker = "ours"]}
    BY <1>3 DEF Carried, d
  <2> QED  BY <2>2, <2>3, <2>4
<1> QED  BY <1>2, <1>3

(* So does every node of a plan.                                           *)
LEMMA StepType ==
  ASSUME NEW r \in Outcome, NEW n \in PlanNode
  PROVE  Step(r, n) \in Outcome
<1>1. CASE r.stuck \/ Stuck(n, r.cat)
  BY <1>1 DEF Step, Outcome
<1>2. CASE ~r.stuck /\ ~Stuck(n, r.cat)
  <2>1. Carried(n, r.cat) \in Catalog
    BY <1>2, CarriedType DEF Outcome
  <2> QED  BY <1>2, <2>1 DEF Step, Outcome
<1> QED  BY <1>1, <1>2

(* What it comes to after each node. *)
Walks(after, plan, c) ==
  /\ after \in [0..Len(plan) -> Outcome]
  /\ after[0] = [cat |-> c, stuck |-> FALSE]
  /\ \A k \in 1..Len(plan) : after[k] = Step(after[k - 1], plan[k])
  /\ Executed(plan, c) = after[Len(plan)]

(* What a plan comes to is what its nodes make of the catalog, one after   *)
(* the other.                                                              *)
LEMMA ExecutedUnfolds ==
  ASSUME NEW plan \in Seq(PlanNode), NEW c \in Catalog
  PROVE  \E after : Walks(after, plan, c)
<1>1. PICK n \in Nat : n = Len(plan)
  OBVIOUS
<1>2. \A k \in 1..n : plan[k] \in PlanNode
  BY <1>1
<1>3. PICK b : b = [cat |-> c, stuck |-> FALSE]
  OBVIOUS
<1>4. b \in Outcome
  BY <1>3 DEF Outcome
<1> DEFINE F == [k \in 1..n |-> [r \in Outcome |-> Step(r, plan[k])]]
<1>5. \A k \in 1..n, r \in Outcome : F[k][r] = Step(r, plan[k]) /\ F[k][r] \in Outcome
  BY <1>2, StepType
<1> HIDE DEF F
<1>6. PICK f \in [0..n -> Outcome] : Iterates(f, b, F, n)
  BY <1>4, <1>5, Iteration
<1>7. ASSUME NEW k \in 0..n PROVE f[k] = IF k = 0 THEN b ELSE Step(f[k - 1], plan[k])
  <2>1. CASE k = 0
    BY <1>6, <2>1 DEF Iterates
  <2>2. CASE k # 0
    <3>1. k \in 1..n /\ k - 1 \in 0..n
      BY <2>2
    <3>2. f[k] = F[k][f[k - 1]] /\ f[k - 1] \in Outcome
      BY <1>6, <2>2, <3>1 DEF Iterates
    <3> QED  BY <1>5, <2>2, <3>1, <3>2
  <2> QED  BY <2>1, <2>2
<1> DEFINE Is(g) == g = [k \in 0..n |-> IF k = 0 THEN b ELSE Step(g[k - 1], plan[k])]
           g == CHOOSE g : Is(g)
<1>8. Is(f)
  BY <1>6, <1>7
<1>9. Is(g)
  BY <1>8
<1>10. Executed(plan, c) = g[n]
  BY <1>1, <1>3, Zenon DEF Executed
<1> HIDE DEF g
<1>11. \A k \in 0..n : g[k] = IF k = 0 THEN b ELSE Step(g[k - 1], plan[k])
  BY <1>9
<1> DEFINE Good == {k \in 0..n : g[k] = f[k]}
<1>12. 0 \in Good
  BY <1>7, <1>11
<1>13. ASSUME NEW k \in 1..n, k - 1 \in Good PROVE k \in Good
  BY <1>7, <1>11, <1>13
<1>14. \A k \in 0..n : k \in Good
  <2> HIDE DEF Good
  <2> QED  BY <1>12, <1>13, Upwards
<1>15. g[n] = f[n]
  BY <1>14
<1>16. \A k \in 1..n : f[k] = Step(f[k - 1], plan[k])
  BY <1>7
<1>17. f[0] = b
  BY <1>7
<1> QED  BY <1>1, <1>3, <1>6, <1>10, <1>15, <1>16, <1>17 DEF Walks

(* What a node does rests on nothing but what numbering keeps of it.       *)
LEMMA AlikeStep ==
  ASSUME NEW p, NEW b, Alike(p, b), NEW d
  PROVE  (Stuck(p, d) <=> Stuck(b, d)) /\ Carried(p, d) = Carried(b, d)
<1>1. Committed(p, d) = Committed(b, d)
  BY DEF Alike, Committed, CreateParent, CreateConcurrently, AttachChild, DropConcurrently,
         Reindex, DropPartitioned
<1>2. (Holds(p, d) <=> Holds(b, d)) /\ Authorize(p, d) = Authorize(b, d)
  BY DEF Alike, Holds, Authorize
<1> QED  BY <1>1, <1>2 DEF Alike, Stuck, Carried

(* One node that gets through, with what it makes.                         *)
Goes(b, d, S) == ~Stuck(b, d) /\ Carried(b, d) \in S

(* A node of the plan does what the node laid out for its place does.      *)
LEMMA OneStep ==
  ASSUME NEW plan \in Seq(PlanNode), NEW c, NEW after, Walks(after, plan, c),
         NEW k \in 1..Len(plan), ~after[k - 1].stuck,
         NEW b, Alike(plan[k], b), NEW S, Goes(b, after[k - 1].cat, S)
  PROVE  ~after[k].stuck /\ after[k].cat \in S /\ after[k].cat = Carried(b, after[k - 1].cat)
<1>1. after[k] = Step(after[k - 1], plan[k]) /\ after[k - 1] \in Outcome
  BY DEF Walks
<1>2. ~Stuck(plan[k], after[k - 1].cat) /\ Carried(plan[k], after[k - 1].cat) \in S
      /\ Carried(plan[k], after[k - 1].cat) = Carried(b, after[k - 1].cat)
  BY AlikeStep DEF Goes
<1> QED  BY <1>1, <1>2 DEF Step, Outcome

(* A plan that is executed over its chains: G is what every node keeps, and*)
(* L[l][r] what holds while r nodes of leaf l's chain are still to come,   *)
(* whatever the chains of other leaves do.                                 *)
Chainwise(chain, G, L) ==
  \A l \in Leaf : \A j \in 1..Len(chain[l]) : \A d \in G :
    d \in L[l][Len(chain[l]) - j + 1] =>
      /\ Goes(chain[l][j], d, G) /\ Goes(chain[l][j], d, L[l][Len(chain[l]) - j])
      /\ \A m \in Leaf \ {l} : \A r \in Nat : d \in L[m][r] => Goes(chain[l][j], d, L[m][r])

Reached(x, G, L, chain, i) ==
  /\ ~x.stuck /\ x.cat \in G
  /\ \A h \in 1..Leaves : x.cat \in L[LeafOrder[h]][IF h <= i THEN 0 ELSE Len(chain[LeafOrder[h]])]

(* Where the nodes of a leaf's chain stand in the plan.                    *)
LEMMA LaidAlike ==
  ASSUME NEW chain \in [Leaf -> Seq(BareNode)], NEW start, NEW base, NEW s \in Seq(BareNode), NEW root,
         Laid(chain, start, base, s),
         NEW i \in 1..Leaves, NEW j \in 1..Len(chain[LeafOrder[i]])
  PROVE  /\ start[i - 1] + j \in 1..Len(s)
         /\ Alike(Number(s, root)[start[i - 1] + j], chain[LeafOrder[i]][j])
<1>1. PICK k \in 1..Len(s) : k = start[i - 1] + j
  BY DEF Laid
<1>2. s[k] = [chain[LeafOrder[i]][j] EXCEPT !.after = IF j = 1 THEN "root" ELSE @]
  BY <1>1 DEF Laid
<1>3. PICK l \in Leaf : l = LeafOrder[i]
  BY LeafFacts
<1>4. PICK b \in BareNode : b = chain[l][j]
  BY <1>3
<1>5. Alike(s[k], b)
  <2>1. s[k] = [b EXCEPT !.after = IF j = 1 THEN "root" ELSE @]
    BY <1>2, <1>3, <1>4
  <2> HIDE <1>2
  <2> QED  BY <2>1 DEF Alike, BareNode
<1>6. Alike(Number(s, root)[k], s[k])
  BY NumberKeeps
<1>7. Alike(Number(s, root)[k], b)
  BY <1>5, <1>6 DEF Alike
<1> QED  BY <1>1, <1>3, <1>4, <1>7

(* The rule of one chain: it goes through, and takes its leaf with it      *)
(* while the leaves that are done and those to come stay as they are.      *)
LEMMA OneChain ==
  ASSUME NEW chain \in [Leaf -> Seq(BareNode)], NEW start, NEW base, NEW s \in Seq(BareNode), NEW root,
         Laid(chain, start, base, s),
         NEW plan \in Seq(PlanNode), plan = Number(s, root), Len(plan) = Len(s),
         NEW c, NEW after, Walks(after, plan, c),
         NEW G, NEW L, Chainwise(chain, G, L),
         NEW i \in 1..Leaves, Reached(after[start[i - 1]], G, L, chain, i - 1)
  PROVE  Reached(after[start[i]], G, L, chain, i)
<1>1. PICK l \in Leaf : l = LeafOrder[i]
  BY LeafFacts
<1>2. PICK n \in Nat : n = Len(chain[l])
  OBVIOUS
<1>3. start[i] = start[i - 1] + n /\ start[i - 1] \in Nat
  <2>1. i - 1 \in 0..Leaves
    BY LeafFacts
  <2> QED  BY <1>1, <1>2, <2>1 DEF Laid
<1> DEFINE Mid(x, j) == /\ ~x.stuck /\ x.cat \in G /\ x.cat \in L[l][n - j]
                        /\ \A h \in 1..Leaves : h # i =>
                             x.cat \in L[LeafOrder[h]][IF h <= i THEN 0 ELSE Len(chain[LeafOrder[h]])]
           Good == {j \in 0..n : Mid(after[start[i - 1] + j], j)}
<1>4. 0 \in Good
  <2>1. start[i - 1] + 0 = start[i - 1] /\ n - 0 = n
    BY <1>3
  <2>2. PICK x : x = after[start[i - 1]]
    OBVIOUS
  <2>3. ~x.stuck /\ x.cat \in G /\ \A h \in 1..Leaves :
          x.cat \in L[LeafOrder[h]][IF h <= i - 1 THEN 0 ELSE Len(chain[LeafOrder[h]])]
    BY <2>2 DEF Reached
  <2>4. x.cat \in L[l][n]
    BY <2>3, <1>1, <1>2
  <2>5. ASSUME NEW h \in 1..Leaves, h # i
        PROVE  x.cat \in L[LeafOrder[h]][IF h <= i THEN 0 ELSE Len(chain[LeafOrder[h]])]
    <3>1. h <= i - 1 <=> h <= i
      BY <2>5, LeafFacts
    <3> QED  BY <2>3, <3>1
  <2>6. Mid(x, 0)
    BY <2>1, <2>3, <2>4, <2>5
  <2> QED  BY <2>1, <2>2, <2>6
<1>5. ASSUME NEW j \in 1..n, j - 1 \in Good PROVE j \in Good
  <2>1. PICK k \in 1..Len(plan) : k = start[i - 1] + j
    <3>1. j \in 1..Len(chain[LeafOrder[i]])
      BY <1>1, <1>2
    <3> QED  BY <3>1, LaidAlike
  <2>2. k - 1 = start[i - 1] + (j - 1)
    BY <1>3, <2>1
  <2>3. PICK b : b = chain[l][j]
    OBVIOUS
  <2>4. Alike(plan[k], b)
    <3>1. j \in 1..Len(chain[LeafOrder[i]])
      BY <1>1, <1>2
    <3> QED  BY <1>1, <2>1, <2>3, <3>1, LaidAlike
  <2>5. PICK x : x = after[k - 1]
    OBVIOUS
  <2>6. Mid(x, j - 1)
    BY <1>5, <2>2, <2>5
  <2>7. n - (j - 1) = n - j + 1 /\ n - j \in Nat
    OBVIOUS
  <2>8. ~x.stuck /\ x.cat \in G /\ x.cat \in L[l][n - j + 1]
    BY <2>6, <2>7
  <2>9. /\ Goes(b, x.cat, G) /\ Goes(b, x.cat, L[l][n - j])
        /\ \A m \in Leaf \ {l} : \A r \in Nat : x.cat \in L[m][r] => Goes(b, x.cat, L[m][r])
    BY <1>2, <2>3, <2>8 DEF Chainwise
  <2>10. ~after[k].stuck /\ after[k].cat = Carried(b, x.cat)
    <3>1. ~after[k - 1].stuck /\ Goes(b, after[k - 1].cat, G)
      BY <2>5, <2>8, <2>9
    <3> QED  BY <2>4, <2>5, <3>1, OneStep
  <2>11. after[k].cat \in G /\ after[k].cat \in L[l][n - j]
    BY <2>9, <2>10 DEF Goes
  <2>12. ASSUME NEW h \in 1..Leaves, h # i
         PROVE  after[k].cat \in L[LeafOrder[h]][IF h <= i THEN 0 ELSE Len(chain[LeafOrder[h]])]
    <3>1. LeafOrder[h] \in Leaf \ {l}
      BY <1>1, <2>12, LeafFacts
    <3>2. PICK r : r = IF h <= i THEN 0 ELSE Len(chain[LeafOrder[h]])
      OBVIOUS
    <3>3. r \in Nat
      BY <3>1, <3>2
    <3>4. x.cat \in L[LeafOrder[h]][r]
      BY <2>6, <2>12, <3>2
    <3>5. Goes(b, x.cat, L[LeafOrder[h]][r])
      BY <2>9, <3>1, <3>3, <3>4
    <3> QED  BY <2>10, <3>2, <3>5 DEF Goes
  <2>13. Mid(after[k], j)
    BY <2>10, <2>11, <2>12
  <2> QED  BY <2>1, <2>13
<1>6. \A j \in 0..n : j \in Good
  <2> HIDE DEF Good
  <2> QED  BY <1>4, <1>5, Upwards
<1>7. Mid(after[start[i]], n)
  BY <1>3, <1>6
<1>8. PICK y : y = after[start[i]]
  OBVIOUS
<1>9. Mid(y, n) /\ n - n = 0
  BY <1>7, <1>8
<1>10. ASSUME NEW h \in 1..Leaves
       PROVE  y.cat \in L[LeafOrder[h]][IF h <= i THEN 0 ELSE Len(chain[LeafOrder[h]])]
  <2>1. CASE h = i
    <3>1. h <= i
      BY <2>1, LeafFacts
    <3> QED  BY <1>1, <1>9, <2>1, <3>1
  <2>2. CASE h # i
    BY <1>9, <2>2
  <2> QED  BY <2>1, <2>2
<1> QED  BY <1>8, <1>9, <1>10 DEF Reached

(* The rule of execution. Where every chain, in the order of the leaves,   *)
(* keeps G and takes its own leaf from its first condition to its last     *)
(* without touching another's, all the chains go through.                  *)
LEMMA ChainWalk ==
  ASSUME NEW chain \in [Leaf -> Seq(BareNode)], NEW start, NEW base, NEW s \in Seq(BareNode), NEW root,
         Laid(chain, start, base, s),
         NEW plan \in Seq(PlanNode), plan = Number(s, root), Len(plan) = Len(s),
         NEW c, NEW after, Walks(after, plan, c),
         NEW G, NEW L, Chainwise(chain, G, L),
         ~after[base].stuck, after[base].cat \in G,
         \A l \in Leaf : after[base].cat \in L[l][Len(chain[l])]
  PROVE  /\ ~after[start[Leaves]].stuck /\ after[start[Leaves]].cat \in G
         /\ \A l \in Leaf : after[start[Leaves]].cat \in L[l][0]
<1> DEFINE Good == {i \in 0..Leaves : Reached(after[start[i]], G, L, chain, i)}
<1>1. 0 \in Good
  <2>1. start[0] = base /\ 0 \in 0..Leaves
    BY LeafFacts DEF Laid
  <2>2. \A h \in 1..Leaves : ~(h <= 0) /\ LeafOrder[h] \in Leaf
    BY LeafFacts
  <2>3. Reached(after[base], G, L, chain, 0)
    BY <2>2 DEF Reached
  <2> QED  BY <2>1, <2>3
<1>2. ASSUME NEW i \in 1..Leaves, i - 1 \in Good PROVE i \in Good
  <2>1. Reached(after[start[i - 1]], G, L, chain, i - 1)
    BY <1>2
  <2>2. Reached(after[start[i]], G, L, chain, i)
    BY <2>1, OneChain
  <2>3. i \in 0..Leaves
    BY LeafFacts
  <2> QED  BY <2>2, <2>3
<1>3. \A i \in 0..Leaves : i \in Good
  <2> HIDE DEF Good
  <2> QED  BY <1>1, <1>2, LeafFacts, Upwards
<1>4. Reached(after[start[Leaves]], G, L, chain, Leaves)
  BY <1>3, LeafFacts
<1>5. PICK y : y = after[start[Leaves]]
  OBVIOUS
<1>6. ASSUME NEW l \in Leaf PROVE y.cat \in L[l][0]
  <2>1. PICK h \in 1..Leaves : LeafOrder[h] = l
    BY LeafFacts
  <2>2. h <= Leaves
    BY LeafFacts
  <2> QED  BY <1>4, <1>5, <2>1, <2>2 DEF Reached
<1> QED  BY <1>4, <1>5, <1>6 DEF Reached

(* A plan of nodes is a sequence of them. *)
LEMMA PlanIsSequence ==
  ASSUME NEW s \in Seq(BareNode), NEW root, Ordered(Number(s, root))
  PROVE  Number(s, root) \in Seq(PlanNode) /\ Len(Number(s, root)) = Len(s)
<1>1. PICK n \in Nat : n = Len(s)
  OBVIOUS
<1>2. PICK p : p = Number(s, root)
  OBVIOUS
<1>3. DOMAIN p = 1..n
  BY <1>1, <1>2, NumberKeeps
<1>4. p \in [1..n -> PlanNode]
  BY <1>2, <1>3 DEF Ordered
<1>5. p \in Seq(PlanNode) /\ Len(p) = n
  BY <1>4
<1> QED  BY <1>1, <1>2, <1>5

(* What a statement with one outcome makes of the catalog.                 *)
LEMMA CarriedSingle ==
  ASSUME NEW b, NEW d, NEW e, Committed(b, d) = {e}, b.kind \in DDLKinds
  PROVE  /\ Carried(b, d) \in {e, [e EXCEPT ![b.object].marker = "ours"]}
         /\ b.kind \notin ClaimingKinds => Carried(b, d) = e
         /\ b.kind \in ClaimingKinds /\ MayMark(e[b.object].marker)
              => Carried(b, d) = [e EXCEPT ![b.object].marker = "ours"]
<1>1. (CHOOSE x \in Committed(b, d) : TRUE) = e
  OBVIOUS
<1> QED  BY <1>1, Zenon DEF Carried

-----------------------------------------------------------------------------
(* A new reindex-index plan *)

(* A whole tree; nothing an interrupted rebuild left is attached.          *)
ReindexSound(c) ==
  /\ Usable(c[Parent])
  /\ \A l \in Leaf : Exists(c[l]) /\ c[l].attached /\ ~c[Rebuilding[l]].attached

Ours(c, d) == \A l \in Leaf : Exists(c[Rebuilding[l]]) => d[l].marker = "ours"

Cleaned(l, r) == {d \in Catalog :
                    IF r = 3 THEN Exists(d[Rebuilding[l]])
                    ELSE ~Exists(d[Rebuilding[l]]) /\ (r <= 1 => Usable(d[l]))}

(* The transient index a dead rebuild left is dropped: its base is marked  *)
(* ours (authorizeLeftover).                                               *)
LEMMA DropsLeftover ==
  ASSUME RebuildsApart, NEW d \in Catalog, ReindexSound(d), NEW l \in Leaf,
         Exists(d[Rebuilding[l]]), d[l].marker = "ours"
  PROVE  /\ ~Stuck(LeftoverDrop(l), d)
         /\ Carried(LeftoverDrop(l), d) = [d EXCEPT ![Rebuilding[l]] = NoIndex]
<1>1. PICK b : b = LeftoverDrop(l)
  OBVIOUS
<1>2. b.kind = "drop_concurrently" /\ b.auth = "leftover" /\ b.object = Rebuilding[l] /\ b.other = l
  BY <1>1, ReindexNodes
<1>3. Committed(b, d) = {[d EXCEPT ![Rebuilding[l]] = NoIndex]}
  BY <1>2 DEF Committed, DropConcurrently, ReindexSound
<1>4. Authorize(b, d) = "drop"
  BY <1>2 DEF Authorize, DecideLeftoverDrop
<1>5. b.kind \in DDLKinds /\ b.kind \notin ClaimingKinds /\ b.kind \in DestructiveKinds
  BY <1>2 DEF DDLKinds, ClaimingKinds, DestructiveKinds
<1>6. ~Stuck(b, d)
  BY <1>2, <1>3, <1>4, <1>5 DEF Stuck
<1>7. Carried(b, d) = [d EXCEPT ![Rebuilding[l]] = NoIndex]
  BY <1>3, <1>5, CarriedSingle
<1> QED  BY <1>1, <1>6, <1>7

(* A rebuild makes the leaf valid, and is marked ours or keeps its marker. *)
LEMMA Reindexes ==
  ASSUME NEW d \in Catalog, ReindexSound(d), NEW l \in Leaf
  PROVE  /\ ~Stuck(LeafReindex(l), d)
         /\ \E m \in MarkerStatus :
              /\ m \in {"ours", d[l].marker}
              /\ Carried(LeafReindex(l), d) = [d EXCEPT ![l] = [d[l] EXCEPT !.cond = "valid", !.marker = m]]
<1>1. PICK b : b = LeafReindex(l)
  OBVIOUS
<1>2. b.kind = "reindex_concurrently" /\ b.object = l
  BY <1>1, ReindexNodes
<1>3. PICK e : e = [d EXCEPT ![l].cond = "valid"]
  OBVIOUS
<1>4. Committed(b, d) = {e}
  BY <1>2, <1>3 DEF Committed, Reindex, ReindexSound
<1>5. b.kind \in DDLKinds /\ b.kind \notin DestructiveKinds
  BY <1>2 DEF DDLKinds, ClaimingKinds, DestructiveKinds
<1>6. ~Stuck(b, d)
  BY <1>2, <1>4, <1>5 DEF Stuck
<1>7. Carried(b, d) \in {e, [e EXCEPT ![l].marker = "ours"]}
  BY <1>2, <1>4, <1>5, CarriedSingle
<1>8. l \in Object /\ d[l] \in Index
  BY LeafFacts DEF Catalog
<1>9. e = [d EXCEPT ![l] = [d[l] EXCEPT !.cond = "valid", !.marker = d[l].marker]]
  BY <1>3, <1>8 DEF Catalog, Index
<1>10. [e EXCEPT ![l].marker = "ours"] = [d EXCEPT ![l] = [d[l] EXCEPT !.cond = "valid", !.marker = "ours"]]
  BY <1>3, <1>8 DEF Catalog, Index
<1>11. d[l].marker \in MarkerStatus /\ "ours" \in MarkerStatus
  BY <1>8 DEF Index, MarkerStatus
<1> QED  BY <1>1, <1>6, <1>7, <1>9, <1>10, <1>11

(* The check after a rebuild finds the leaf attached.                      *)
LEMMA LooksAt ==
  ASSUME NEW d \in Catalog, ReindexSound(d), NEW l \in Leaf, Usable(d[l])
  PROVE  ~Stuck(LeafLook(l), d) /\ Carried(LeafLook(l), d) = d
<1>1. PICK b : b = LeafLook(l)
  OBVIOUS
<1>2. b.kind = "verify" /\ b.expect = "index_attached" /\ b.object = l /\ b.scope = {}
  BY <1>1, ReindexNodes
<1>3. Holds(b, d)
  BY <1>2 DEF Holds, Attached, ReindexSound
<1>4. ~Stuck(b, d) /\ Carried(b, d) = d
  BY <1>2, <1>3 DEF Stuck, Carried, DDLKinds, ClaimingKinds, DestructiveKinds
<1> QED  BY <1>1, <1>4

(* What each node of the chains keeps and makes.                           *)
LEMMA ReindexChainwise ==
  ASSUME RebuildsApart, NEW c \in Catalog,
         NEW G, G = {d \in Catalog : ReindexSound(d) /\ Ours(c, d)},
         NEW L, L = [l \in Leaf |-> [r \in Nat |-> Cleaned(l, r)]]
  PROVE  Chainwise(ReindexLaid(c), G, L)
<1>0. \A d \in G : d \in Catalog /\ ReindexSound(d) /\ Ours(c, d)
  OBVIOUS
<1>1. ASSUME NEW l \in Leaf, NEW d \in G, NEW e \in Catalog,
             \A o \in Object \ {Rebuilding[l]} : e[o] = d[o],
             ~e[Rebuilding[l]].attached, ~Exists(e[Rebuilding[l]])
      PROVE  /\ e \in G
             /\ \A m \in Leaf \ {l} : \A r \in Nat : d \in L[m][r] => e \in L[m][r]
  <2>0. e[Parent] = d[Parent] /\ \A m \in Leaf : e[m] = d[m] /\ (m # l => e[Rebuilding[m]] = d[Rebuilding[m]])
    <3>1. Parent \in Object \ {Rebuilding[l]}
      BY LeafFacts DEF RebuildsApart
    <3>2. \A m \in Leaf : m \in Object \ {Rebuilding[l]}
      BY LeafFacts DEF RebuildsApart
    <3>3. \A m \in Leaf : m # l => Rebuilding[m] \in Object \ {Rebuilding[l]}
      BY LeafFacts DEF RebuildsApart
    <3> QED  BY <1>1, <3>1, <3>2, <3>3
  <2>2. ReindexSound(e)
    <3>1. ReindexSound(d)
      BY <1>0
    <3> QED  BY <1>1, <2>0, <3>1 DEF ReindexSound
  <2>3. Ours(c, e)
    <3>1. Ours(c, d)
      BY <1>0
    <3> QED  BY <2>0, <3>1 DEF Ours
  <2>4. ASSUME NEW m \in Leaf \ {l}, NEW r \in Nat, d \in L[m][r] PROVE e \in L[m][r]
    <3>1. d \in Cleaned(m, r)
      BY <2>4
    <3>2. e[m] = d[m] /\ e[Rebuilding[m]] = d[Rebuilding[m]]
      BY <2>0
    <3>3. e \in Cleaned(m, r)
      BY <3>1, <3>2 DEF Cleaned
    <3> QED  BY <3>3
  <2> QED  BY <2>2, <2>3, <2>4
<1>2. ASSUME NEW l \in Leaf, NEW d \in G, NEW e \in Catalog,
             \A o \in Object \ {l} : e[o] = d[o],
             Exists(e[l]), e[l].attached, e[l].marker \in {"ours", d[l].marker}
      PROVE  /\ e \in G
             /\ \A m \in Leaf \ {l} : \A r \in Nat : d \in L[m][r] => e \in L[m][r]
  <2>1. /\ Parent \in Object \ {l}
        /\ \A m \in Leaf : Rebuilding[m] \in Object \ {l} /\ (m # l => m \in Object \ {l})
    BY LeafFacts DEF RebuildsApart
  <2>2. ReindexSound(e)
    BY <1>2, <2>1 DEF ReindexSound
  <2>3. Ours(c, e)
    BY <1>2, <2>1 DEF Ours
  <2>4. ASSUME NEW m \in Leaf \ {l}, NEW r \in Nat, d \in L[m][r] PROVE e \in L[m][r]
    <3>1. d \in Cleaned(m, r)
      BY <2>4
    <3>2. e[m] = d[m] /\ e[Rebuilding[m]] = d[Rebuilding[m]]
      BY <1>2, <2>1, <2>4
    <3>3. e \in Cleaned(m, r)
      BY <3>1, <3>2 DEF Cleaned
    <3> QED  BY <3>3
  <2> QED  BY <2>2, <2>3, <2>4
<1>3. ASSUME NEW l \in Leaf, NEW d \in G, Exists(c[Rebuilding[l]]), d \in L[l][3]
      PROVE  /\ Goes(LeftoverDrop(l), d, G) /\ Goes(LeftoverDrop(l), d, L[l][2])
             /\ \A m \in Leaf \ {l} : \A r \in Nat : d \in L[m][r] => Goes(LeftoverDrop(l), d, L[m][r])
  <2>1. PICK e : e = Carried(LeftoverDrop(l), d)
    OBVIOUS
  <2>2. Exists(d[Rebuilding[l]]) /\ d[l].marker = "ours" /\ ReindexSound(d) /\ d \in Catalog
    BY <1>3 DEF Cleaned, Ours
  <2>3. ~Stuck(LeftoverDrop(l), d) /\ e = [d EXCEPT ![Rebuilding[l]] = NoIndex]
    BY <2>1, <2>2, DropsLeftover
  <2>4. Rebuilding[l] \in Object
    BY LeafFacts
  <2>5. e \in Catalog /\ \A o \in Object \ {Rebuilding[l]} : e[o] = d[o]
    BY <2>2, <2>3, NoIndexType DEF Catalog
  <2>6. ~e[Rebuilding[l]].attached /\ ~Exists(e[Rebuilding[l]])
    BY <2>2, <2>3, <2>4 DEF Catalog, NoIndex, Exists
  <2>7. e \in G /\ \A m \in Leaf \ {l} : \A r \in Nat : d \in L[m][r] => e \in L[m][r]
    BY <1>1, <2>5, <2>6
  <2>8. e \in L[l][2]
    BY <2>5, <2>6 DEF Cleaned
  <2> QED  BY <2>1, <2>3, <2>7, <2>8 DEF Goes
<1>4. ASSUME NEW l \in Leaf, NEW d \in G, d \in L[l][2]
      PROVE  /\ Goes(LeafReindex(l), d, G) /\ Goes(LeafReindex(l), d, L[l][1])
             /\ \A m \in Leaf \ {l} : \A r \in Nat : d \in L[m][r] => Goes(LeafReindex(l), d, L[m][r])
  <2>1. PICK e : e = Carried(LeafReindex(l), d)
    OBVIOUS
  <2>2. ~Exists(d[Rebuilding[l]]) /\ ReindexSound(d) /\ d \in Catalog
    BY <1>4 DEF Cleaned
  <2>a. /\ ~Stuck(LeafReindex(l), d)
        /\ \E m \in MarkerStatus :
             /\ m \in {"ours", d[l].marker}
             /\ Carried(LeafReindex(l), d) = [d EXCEPT ![l] = [d[l] EXCEPT !.cond = "valid", !.marker = m]]
    BY <2>2, Reindexes
  <2>3. PICK m \in MarkerStatus :
          /\ ~Stuck(LeafReindex(l), d) /\ m \in {"ours", d[l].marker}
          /\ e = [d EXCEPT ![l] = [d[l] EXCEPT !.cond = "valid", !.marker = m]]
    BY <2>1, <2>a
  <2>4. l \in Object /\ d[l] \in Index /\ Rebuilding[l] \in Object \ {l}
    BY <2>2, LeafFacts DEF Catalog, RebuildsApart
  <2>5. e \in Catalog /\ \A o \in Object \ {l} : e[o] = d[o]
    BY <2>2, <2>3, <2>4 DEF Catalog, Index, Condition
  <2>6. /\ Exists(e[l]) /\ e[l].attached /\ e[l].marker \in {"ours", d[l].marker} /\ Usable(e[l])
    BY <2>2, <2>3, <2>4 DEF Catalog, Index, Exists, Usable, ReindexSound
  <2>7. e \in G /\ \A x \in Leaf \ {l} : \A r \in Nat : d \in L[x][r] => e \in L[x][r]
    BY <1>2, <2>5, <2>6
  <2>8. e \in L[l][1]
    BY <2>2, <2>4, <2>5, <2>6 DEF Cleaned
  <2> QED  BY <2>1, <2>3, <2>7, <2>8 DEF Goes
<1>5. ASSUME NEW l \in Leaf, NEW d \in G, d \in L[l][1]
      PROVE  /\ Goes(LeafLook(l), d, G) /\ Goes(LeafLook(l), d, L[l][0])
             /\ \A m \in Leaf \ {l} : \A r \in Nat : d \in L[m][r] => Goes(LeafLook(l), d, L[m][r])
  <2>1. Usable(d[l]) /\ ReindexSound(d) /\ d \in Catalog
    BY <1>5 DEF Cleaned
  <2>2. ~Stuck(LeafLook(l), d) /\ Carried(LeafLook(l), d) = d
    BY <2>1, LooksAt
  <2>3. d \in L[l][0]
    BY <1>5 DEF Cleaned
  <2> QED  BY <1>5, <2>2, <2>3 DEF Goes
<1> HIDE DEF Goes
<1>6. ASSUME NEW l \in Leaf, NEW j \in 1..Len(ReindexLaid(c)[l]), NEW d \in G,
             d \in L[l][Len(ReindexLaid(c)[l]) - j + 1]
      PROVE  LET b == ReindexLaid(c)[l][j]
             IN  /\ Goes(b, d, G) /\ Goes(b, d, L[l][Len(ReindexLaid(c)[l]) - j])
                 /\ \A m \in Leaf \ {l} : \A r \in Nat : d \in L[m][r] => Goes(b, d, L[m][r])
  <2>1. PICK x, y, z : x = LeftoverDrop(l) /\ y = LeafReindex(l) /\ z = LeafLook(l)
    OBVIOUS
  <2>2. PICK t : t = ReindexLaid(c)[l]
    OBVIOUS
  <2>3. t = IF Exists(c[Rebuilding[l]]) THEN <<x, y, z>> ELSE <<y, z>>
    BY <2>1, <2>2, ReindexChainIs DEF ReindexLaid
  <2> DEFINE Fine(b, r) == /\ Goes(b, d, G) /\ Goes(b, d, L[l][r])
                           /\ \A m \in Leaf \ {l} : \A q \in Nat : d \in L[m][q] => Goes(b, d, L[m][q])
  <2>a. Exists(c[Rebuilding[l]]) /\ d \in L[l][3] => Fine(x, 2)
    BY <1>3, <2>1
  <2>b. d \in L[l][2] => Fine(y, 1)
    BY <1>4, <2>1
  <2>c. d \in L[l][1] => Fine(z, 0)
    BY <1>5, <2>1
  <2> SUFFICES Fine(t[j], Len(t) - j)
    BY <2>2
  <2>d. j \in 1..Len(t) /\ d \in L[l][Len(t) - j + 1]
    BY <1>6, <2>2
  <2> HIDE DEF Fine
  <2>4. CASE Exists(c[Rebuilding[l]])
    <3>1. Len(t) = 3 /\ t[1] = x /\ t[2] = y /\ t[3] = z
      BY <2>3, <2>4
    <3> QED  BY <2>a, <2>b, <2>c, <2>d, <2>4, <3>1
  <2>5. CASE ~Exists(c[Rebuilding[l]])
    <3>1. Len(t) = 2 /\ t[1] = y /\ t[2] = z
      BY <2>3, <2>5
    <3> QED  BY <2>b, <2>c, <2>d, <3>1
  <2> QED  BY <2>4, <2>5
<1> QED  BY <1>6 DEF Chainwise

(* A new reindex-index plan over a catalog that ReindexSound describes is  *)
(* not refused, goes through to its end, and leaves every leaf valid and   *)
(* no transient index (Planner.Plan, DecideLeftoverDrop).                  *)
THEOREM ReindexGoesThrough ==
  ASSUME RebuildsApart, NEW c \in Catalog, ReindexSound(c), Ours(c, c)
  PROVE  LET r == Executed(ReindexPlan(c), c)
         IN  /\ ~ReindexRefused(c) /\ ~r.stuck
             /\ \A l \in Leaf : Usable(r.cat[l]) /\ ~Exists(r.cat[Rebuilding[l]])
<1>a. PICK chain : chain = ReindexLaid(c)
  OBVIOUS
<1>b. PICK head : head = <<LeavesAssertion>>
  OBVIOUS
<1>c. PICK foot : foot = <<CleanVerify>>
  OBVIOUS
<1>d. PICK s : s = head \o Chains(chain) \o foot
  OBVIOUS
<1>e. PICK plan : plan = Number(s, Len(head))
  OBVIOUS
<1>1. /\ chain \in [Leaf -> Seq(BareNode)] /\ head \in Seq(BareNode) /\ foot \in Seq(BareNode)
      /\ Len(head) = 1 /\ Len(foot) = 1 /\ head[1] = LeavesAssertion /\ foot[1] = CleanVerify
      /\ ReindexPlan(c) = plan
  BY <1>a, <1>b, <1>c, <1>d, <1>e, ReindexParts
<1>2. Framed(chain, head, foot, s)
  BY <1>1, <1>d, PlanLaid
<1>3. s \in Seq(BareNode) /\ s[1] = LeavesAssertion
  BY <1>1, <1>2 DEF Framed
<1>4. PICK start : /\ Laid(chain, start, 1, s) /\ Len(s) = start[Leaves] + 1
                   /\ s[start[Leaves] + 1] = CleanVerify
  BY <1>1, <1>2 DEF Framed
<1>5. plan \in Seq(PlanNode) /\ Len(plan) = Len(s)
  <2>1. Ordered(plan)
    BY <1>1, ReindexPlanIsSound
  <2> QED  BY <1>3, <1>e, <2>1, PlanIsSequence
<1>6. PICK after : Walks(after, plan, c)
  BY <1>5, ExecutedUnfolds
<1>7. start[Leaves] \in Nat /\ 1 \in 1..Len(s) /\ Len(s) \in 1..Len(s) /\ Len(s) \in Nat
  <2>1. start[Leaves] \in Nat
    BY <1>4, LeafFacts DEF Laid
  <2> QED  BY <1>4, <2>1
<1>f. PICK G : G = {d \in Catalog : ReindexSound(d) /\ Ours(c, d)}
  OBVIOUS
<1>g. PICK L : L = [l \in Leaf |-> [r \in Nat |-> Cleaned(l, r)]]
  OBVIOUS
<1>8. ~after[1].stuck /\ after[1].cat = c
  <2>1. ~after[0].stuck /\ after[0].cat = c
    BY <1>6 DEF Walks
  <2>2. Alike(plan[1], LeavesAssertion)
    BY <1>3, <1>7, <1>e, NumberKeeps
  <2>3. Goes(LeavesAssertion, c, {c}) /\ Carried(LeavesAssertion, c) = c
    <3>1. Holds(LeavesAssertion, c)
      BY ReindexNodesAround DEF Holds, Attached, ReindexSound
    <3> QED  BY <3>1, ReindexNodesAround DEF Goes, Stuck, Carried, DDLKinds, DestructiveKinds, ClaimingKinds
  <2>4. 1 - 1 = 0 /\ 1 \in 1..Len(plan)
    BY <1>5, <1>7
  <2> QED  BY <1>5, <1>6, <2>1, <2>2, <2>3, <2>4, OneStep
<1>9. c \in G /\ \A l \in Leaf : c \in L[l][Len(chain[l])]
  <2>1. c \in G
    BY <1>f
  <2>2. ASSUME NEW l \in Leaf PROVE c \in L[l][Len(chain[l])]
    <3>1. Len(chain[l]) = IF Exists(c[Rebuilding[l]]) THEN 3 ELSE 2
      BY <1>a, ReindexChainIs DEF ReindexLaid
    <3>2. Len(chain[l]) \in Nat
      BY <3>1
    <3>3. c \in Cleaned(l, Len(chain[l]))
      BY <3>1 DEF Cleaned
    <3> QED  BY <1>g, <3>2, <3>3
  <2> QED  BY <2>1, <2>2
<1>10. /\ ~after[start[Leaves]].stuck /\ after[start[Leaves]].cat \in G
       /\ \A l \in Leaf : after[start[Leaves]].cat \in L[l][0]
  <2>1. Chainwise(chain, G, L)
    BY <1>a, <1>f, <1>g, ReindexChainwise
  <2>2. /\ ~after[1].stuck /\ after[1].cat \in G
        /\ \A l \in Leaf : after[1].cat \in L[l][Len(chain[l])]
    BY <1>8, <1>9
  <2>3. chain \in [Leaf -> Seq(BareNode)] /\ s \in Seq(BareNode) /\ Laid(chain, start, 1, s)
    BY <1>1, <1>3, <1>4
  <2>4. /\ plan \in Seq(PlanNode) /\ Len(plan) = Len(s) /\ plan = Number(s, Len(head))
        /\ Walks(after, plan, c)
    BY <1>5, <1>6, <1>e
  <2> QED  BY <2>1, <2>2, <2>3, <2>4, ChainWalk
<1>11. PICK d : d = after[start[Leaves]].cat
  OBVIOUS
<1>12. ReindexSound(d) /\ \A l \in Leaf : ~Exists(d[Rebuilding[l]]) /\ Usable(d[l])
  <2>1. \A l \in Leaf : d \in Cleaned(l, 0)
    BY <1>10, <1>11, <1>g
  <2>2. \A l \in Leaf : ~Exists(d[Rebuilding[l]]) /\ Usable(d[l])
    BY <2>1 DEF Cleaned
  <2> QED  BY <1>10, <1>11, <1>f, <2>2
<1>13. ~after[Len(s)].stuck /\ after[Len(s)].cat = d
  <2>1. Alike(plan[Len(s)], CleanVerify)
    BY <1>3, <1>4, <1>7, <1>e, NumberKeeps
  <2>2. Goes(CleanVerify, d, {d}) /\ Carried(CleanVerify, d) = d
    <3>1. Holds(CleanVerify, d)
      BY <1>12, ReindexNodesAround DEF Holds, Attached, ReindexSound
    <3> QED  BY <3>1, ReindexNodesAround DEF Goes, Stuck, Carried, DDLKinds, DestructiveKinds, ClaimingKinds
  <2>3. Len(s) - 1 = start[Leaves] /\ Len(s) \in 1..Len(plan)
    BY <1>4, <1>5, <1>7
  <2> QED  BY <1>5, <1>6, <1>10, <1>11, <2>1, <2>2, <2>3, OneStep
<1>14. Executed(ReindexPlan(c), c) = after[Len(s)]
  BY <1>1, <1>5, <1>6 DEF Walks
<1>15. ~ReindexRefused(c)
  BY DEF ReindexRefused, ReindexSound, Ours, DecideLeftoverDrop, Usable, Exists
<1> QED  BY <1>12, <1>13, <1>14, <1>15

-----------------------------------------------------------------------------
(* A reindex-index run, and what it leaves *)

(* Every node of a plan is one of its planner's.                           *)
LEMMA PlanNodeFrom ==
  ASSUME NEW chain \in [Leaf -> Seq(BareNode)],
         NEW head \in Seq(BareNode), NEW foot \in Seq(BareNode),
         NEW plan, plan = Number(head \o Chains(chain) \o foot, Len(head)),
         NEW k \in DOMAIN plan
  PROVE  \/ \E j \in 1..Len(head) : Alike(plan[k], head[j])
         \/ \E l \in Leaf : \E j \in 1..Len(chain[l]) : Alike(plan[k], chain[l][j])
         \/ \E j \in 1..Len(foot) : Alike(plan[k], foot[j])
<1>0. PICK s : s = head \o Chains(chain) \o foot
  OBVIOUS
<1>1. Framed(chain, head, foot, s)
  BY <1>0, PlanLaid
<1>2. s \in Seq(BareNode) /\ \A j \in 1..Len(head) : s[j] = head[j]
  BY <1>1 DEF Framed
<1>3. PICK start : /\ Laid(chain, start, Len(head), s) /\ Len(s) = start[Leaves] + Len(foot)
                   /\ \A j \in 1..Len(foot) : s[start[Leaves] + j] = foot[j]
  BY <1>1 DEF Framed
<1>4. plan = Number(s, Len(head))
  BY <1>0
<1>5. k \in 1..Len(s) /\ Alike(plan[k], s[k])
  BY <1>2, <1>4, NumberKeeps
<1>6. From(k, chain, start, head, foot)
  BY <1>2, <1>3, <1>5, WhichNode
<1>7. CASE k \in 1..Len(head)
  BY <1>2, <1>5, <1>7
<1>8. CASE \E i \in 1..Leaves : \E j \in 1..Len(chain[LeafOrder[i]]) : k = start[i - 1] + j
  <2>1. PICK i \in 1..Leaves : \E j \in 1..Len(chain[LeafOrder[i]]) : k = start[i - 1] + j
    BY <1>8
  <2>2. PICK j \in 1..Len(chain[LeafOrder[i]]) : k = start[i - 1] + j
    BY <2>1
  <2>3. Alike(plan[k], chain[LeafOrder[i]][j])
    <3>1. Laid(chain, start, Len(head), s) /\ s \in Seq(BareNode)
      BY <1>2, <1>3
    <3>2. Alike(Number(s, Len(head))[start[i - 1] + j], chain[LeafOrder[i]][j])
      BY <2>2, <3>1, LaidAlike
    <3> QED  BY <1>4, <2>2, <3>2
  <2>4. LeafOrder[i] \in Leaf
    BY LeafFacts
  <2> QED  BY <2>2, <2>3, <2>4
<1>9. CASE \E j \in 1..Len(foot) : k = start[Leaves] + j
  BY <1>3, <1>5, <1>9
<1> QED  BY <1>6, <1>7, <1>8, <1>9 DEF From

ReindexRun ==
  /\ Plan = ReindexPlan(InitialCatalog) /\ RebuildsApart
  /\ ReindexSound(InitialCatalog) /\ DbaMoves \subseteq {"comment"}

(* The statements a reindex-index plan sends.                              *)
LEMMA ReindexStatements ==
  ASSUME RebuildsApart, NEW c \in Catalog, Plan = ReindexPlan(c),
         NEW n \in Node, Plan[n].kind \in DDLKinds
  PROVE  \E l \in Leaf : \/ /\ Plan[n].kind = "reindex_concurrently"
                            /\ Plan[n].object = l /\ Plan[n].other = Rebuilding[l]
                         \/ Plan[n].kind = "drop_concurrently" /\ Plan[n].object = Rebuilding[l]
<1>1. PICK chain, head, foot : /\ chain = ReindexLaid(c) /\ head = <<LeavesAssertion>>
                               /\ foot = <<CleanVerify>>
  OBVIOUS
<1>2. /\ chain \in [Leaf -> Seq(BareNode)] /\ head \in Seq(BareNode) /\ foot \in Seq(BareNode)
      /\ Len(head) = 1 /\ Len(foot) = 1 /\ head[1] = LeavesAssertion /\ foot[1] = CleanVerify
      /\ Plan = Number(head \o Chains(chain) \o foot, Len(head))
  BY <1>1, ReindexParts
<1>3. n \in DOMAIN Plan
  BY PlanFacts
<1>4. \/ \E j \in 1..Len(head) : Alike(Plan[n], head[j])
      \/ \E l \in Leaf : \E j \in 1..Len(chain[l]) : Alike(Plan[n], chain[l][j])
      \/ \E j \in 1..Len(foot) : Alike(Plan[n], foot[j])
  BY <1>2, <1>3, PlanNodeFrom
<1>5. ASSUME NEW l \in Leaf, NEW j \in 1..Len(chain[l])
      PROVE  chain[l][j] \in {LeftoverDrop(l), LeafReindex(l), LeafLook(l)}
  <2>1. chain[l] = IF Exists(c[Rebuilding[l]]) THEN <<LeftoverDrop(l), LeafReindex(l), LeafLook(l)>>
                                               ELSE <<LeafReindex(l), LeafLook(l)>>
    BY <1>1, ReindexChainIs DEF ReindexLaid
  <2>2. PICK x, y, z : x = LeftoverDrop(l) /\ y = LeafReindex(l) /\ z = LeafLook(l)
    OBVIOUS
  <2>3. chain[l] \in {<<x, y, z>>, <<y, z>>}
    BY <2>1, <2>2
  <2>4. chain[l][j] \in {x, y, z}
    BY <2>3
  <2> QED  BY <2>2, <2>4
<1>6. Plan[n].kind \notin {"assert", "verify"}
  BY DEF DDLKinds, DestructiveKinds, ClaimingKinds
<1>7. PICK l \in Leaf : \E j \in 1..Len(chain[l]) : Alike(Plan[n], chain[l][j])
  BY <1>2, <1>4, <1>6, ReindexNodesAround DEF Alike
<1>8. PICK b \in {LeftoverDrop(l), LeafReindex(l), LeafLook(l)} : Alike(Plan[n], b)
  BY <1>5, <1>7
<1> QED  BY <1>6, <1>8, ReindexNodes DEF Alike

(* The run keeps the tree whole.                                           *)
LEMMA ReindexKept ==
  ASSUME ReindexRun, TypeInv, Next, ReindexSound(cat)
  PROVE  ReindexSound(cat')
<1>0. cat \in Catalog /\ Leaf \subseteq Object /\ Parent \in Object /\ Rebuilding \in [Leaf -> Object]
      /\ \A l \in Leaf : Rebuilding[l] \notin Leaf \cup {Parent}
  BY LeafFacts DEF TypeInv, TypeOK, ReindexRun, RebuildsApart
<1> DEFINE Similar(o, j) == /\ Exists(cat[o]) => Exists(j)
                            /\ Usable(cat[o]) => Usable(j)
                            /\ j.attached = cat[o].attached
<1>1. ASSUME NEW o \in Object, NEW j, cat' = [cat EXCEPT ![o] = j], Similar(o, j)
      PROVE  ReindexSound(cat')
  <2>1. \A x \in Object : /\ Exists(cat[x]) => Exists(cat'[x])
                          /\ Usable(cat[x]) => Usable(cat'[x])
                          /\ cat'[x].attached = cat[x].attached
    BY <1>0, <1>1 DEF Catalog
  <2> QED  BY <1>0, <2>1 DEF ReindexSound
<1>2. ASSUME NEW l \in Leaf, NEW j, cat' = [cat EXCEPT ![Rebuilding[l]] = j], ~j.attached
      PROVE  ReindexSound(cat')
  <2>1. \A x \in Object : x # Rebuilding[l] => cat'[x] = cat[x]
    BY <1>0, <1>2 DEF Catalog
  <2>2. cat'[Parent] = cat[Parent] /\ \A m \in Leaf : cat'[m] = cat[m]
    BY <1>0, <2>1
  <2>3. \A m \in Leaf : cat'[Rebuilding[m]] = cat[Rebuilding[m]] \/ ~cat'[Rebuilding[m]].attached
    BY <1>0, <1>2, <2>1 DEF Catalog
  <2> QED  BY <2>2, <2>3 DEF ReindexSound
<1>3. CASE pc = "exec" /\ current.kind \in DDLKinds /\ cat' \in Outcomes(current)
  <2>0. pc \in NodePc /\ cur \in Node
    BY <1>3 DEF TypeInv, NodePc
  <2>1. PICK l \in Leaf : \/ /\ current.kind = "reindex_concurrently"
                             /\ current.object = l /\ current.other = Rebuilding[l]
                          \/ current.kind = "drop_concurrently" /\ current.object = Rebuilding[l]
    BY <1>3, <2>0, ReindexStatements, ObjectAssumption DEF current, ReindexRun
  <2>2. CASE current.kind = "reindex_concurrently" /\ current.object = l /\ current.other = Rebuilding[l]
    <3>1. \/ cat' = cat
          \/ cat' = [cat EXCEPT ![l] = [cat[l] EXCEPT !.cond = "valid"]]
          \/ cat' = [cat EXCEPT ![Rebuilding[l]] = NewIndex("invalid", "tool")]
      BY <1>3, <2>2 DEF Outcomes, Committed, Reindex, Wreckage, StillBuilding
    <3>2. Similar(l, [cat[l] EXCEPT !.cond = "valid"])
      BY <1>0 DEF Catalog, Index, Exists, Usable
    <3>3. ~NewIndex("invalid", "tool").attached
      BY DEF NewIndex
    <3> QED  BY <1>0, <1>1, <1>2, <3>1, <3>2, <3>3
  <2>3. CASE current.kind = "drop_concurrently" /\ current.object = Rebuilding[l]
    <3>1. \/ cat' = cat
          \/ cat' = [cat EXCEPT ![Rebuilding[l]] = NoIndex]
          \/ cat' = [cat EXCEPT ![Rebuilding[l]] = [cat[Rebuilding[l]] EXCEPT !.cond = "not_live"]]
      BY <1>3, <2>3 DEF Outcomes, Committed, DropConcurrently, Wreckage, StillBuilding
    <3>2. ~NoIndex.attached
      BY DEF NoIndex
    <3>3. ~[cat[Rebuilding[l]] EXCEPT !.cond = "not_live"].attached
      BY <1>0 DEF Catalog, Index, ReindexSound
    <3> QED  BY <1>2, <3>1, <3>2, <3>3
  <2> QED  BY <2>1, <2>2, <2>3
<1>4. CASE pc = "cleanup_drop" /\ cat' \in Outcomes(CleanupStatement)
  <2>1. target \in Leaf
    BY <1>4 DEF TypeInv
  <2>2. CleanupStatement.kind = "drop_concurrently" /\ cat[CleanupStatement.object].attached
    BY <2>1 DEF CleanupStatement, ReindexSound
  <2>3. cat' = cat
    BY <1>4, <2>2 DEF Outcomes, Committed, DropConcurrently, Wreckage, StillBuilding
  <2> QED  BY <2>3
<1>5. CASE \E o \in Object : Commenting(o)
  <2>1. PICK o \in Object : cat' = [cat EXCEPT ![o].marker = "ours"]
    BY <1>5 DEF Commenting
  <2>2. Similar(o, [cat[o] EXCEPT !.marker = "ours"])
    BY <1>0 DEF Catalog, Index, Exists, Usable
  <2> QED  BY <1>1, <2>1, <2>2
<1>6. CASE BackendFinishes
  <2>1. PICK o \in Object, as \in {"invalid", "valid"} :
          cat[o].cond = "building" /\ cat' = [cat EXCEPT ![o].cond = as]
    BY <1>6 DEF BackendFinishes
  <2>2. Similar(o, [cat[o] EXCEPT !.cond = as])
    BY <1>0, <2>1 DEF Catalog, Index, Exists, Usable
  <2> QED  BY <1>1, <2>1, <2>2
<1>7. CASE Dba
  <2>1. PICK o \in Leaf : cat' = [cat EXCEPT ![o].marker = "foreign"]
    BY <1>7 DEF Dba, ReindexRun
  <2>2. Similar(o, [cat[o] EXCEPT !.marker = "foreign"])
    BY <1>0 DEF Catalog, Index, Exists, Usable
  <2> QED  BY <1>0, <1>1, <2>1, <2>2
<1> QED  BY <1>3, <1>4, <1>5, <1>6, <1>7, CatalogSteps DEF Sent

(* Wherever reindex-index was interrupted, a new plan goes through and     *)
(* leaves no leftover, unless somebody wrote over the marker that proves   *)
(* one ours (Planner.Plan, authorizeLeftover, refuseExecute).              *)
THEOREM ReindexCanStartOver ==
  ASSUME ReindexRun
  PROVE  Spec => []NewReindexCleans
<1>1. Init => ReindexSound(cat)
  BY DEF Init, ReindexRun
<1>2. TypeInv /\ ReindexSound(cat) /\ [Next]_vars => ReindexSound(cat')
  <2> SUFFICES ASSUME TypeInv, ReindexSound(cat), [Next]_vars PROVE ReindexSound(cat')
    OBVIOUS
  <2>1. CASE UNCHANGED vars
    BY <2>1 DEF vars
  <2>2. CASE Next
    BY <2>2, ReindexKept
  <2> QED  BY <2>1, <2>2
<1>3. TypeInv /\ ReindexSound(cat) => NewReindexCleans
  <2> SUFFICES ASSUME TypeInv, ReindexSound(cat), Ours(cat, cat) PROVE NewReindexCleans
    BY DEF NewReindexCleans, Ours
  <2>1. cat \in Catalog /\ RebuildsApart
    BY DEF TypeInv, TypeOK, ReindexRun
  <2> QED  BY <2>1, ReindexGoesThrough DEF NewReindexCleans
<1> DEFINE Sound == ReindexSound(cat)
<1>4. Spec => []TypeInv
  BY TypeInvariant
<1>5. Init => Sound
  BY <1>1
<1>6. TypeInv /\ Sound /\ [Next]_vars => Sound'
  BY <1>2
<1>7. TypeInv /\ Sound => NewReindexCleans
  BY <1>3
<1> HIDE DEF Sound
<1> QED  BY <1>4, <1>5, <1>6, <1>7, PTL DEF Spec

-----------------------------------------------------------------------------
(* A new create-index plan *)

(* What a create-index that was interrupted leaves: nothing unusable is    *)
(* attached, and a parent whose leaves are all attached is valid.          *)
CreateSound(c) ==
  /\ \A l \in Leaf : c[l].attached => Usable(c[l]) /\ Exists(c[Parent])
  /\ (\A l \in Leaf : c[l].attached) => Usable(c[Parent])

(* Of every dead build the comment says that it is the tool's.             *)
Proven(c) == \A o \in Leaf \cup {Parent} : Unusable(c[o]) => c[o].marker = "ours"

(* Leaf l with r nodes of its chain to come.                               *)
Growing(l, r) == {d \in Catalog :
                    CASE r = 5        -> Unusable(d[l]) /\ ~d[l].attached /\ d[l].marker = "ours"
                      [] r = 4        -> ~Exists(d[l]) /\ ~d[l].attached
                      [] r \in {2, 3} -> Usable(d[l])
                      [] OTHER        -> Usable(d[l]) /\ d[l].attached}

Trees == {d \in Catalog : CreateSound(d) /\ Exists(d[Parent])}

(* A dead build of a leaf is dropped: its marker proves it ours.           *)
LEMMA DropsDeadBuild ==
  ASSUME NEW d \in Trees, NEW l \in Leaf, d \in Growing(l, 5)
  PROVE  ~Stuck(LeafDrop(l), d) /\ Carried(LeafDrop(l), d) = [d EXCEPT ![l] = NoIndex]
<1>1. PICK b : b = LeafDrop(l)
  OBVIOUS
<1>2. b.kind = "drop_concurrently" /\ b.auth = "provenance" /\ b.object = l
  BY <1>1, LeafNodes
<1>3. Exists(d[l]) /\ ~d[l].attached /\ d[l].marker = "ours"
  BY DEF Growing, Unusable
<1>4. Committed(b, d) = {[d EXCEPT ![l] = NoIndex]}
  BY <1>2, <1>3 DEF Committed, DropConcurrently
<1>5. Authorize(b, d) = "drop"
  BY <1>2, <1>3 DEF Authorize, ProvenanceVerdict, DecideProvenanceDrop
<1>6. b.kind \in DDLKinds /\ b.kind \notin ClaimingKinds /\ b.kind \in DestructiveKinds
  BY <1>2 DEF DDLKinds, ClaimingKinds, DestructiveKinds
<1>7. ~Stuck(b, d)
  BY <1>2, <1>4, <1>5, <1>6 DEF Stuck
<1>8. Carried(b, d) = [d EXCEPT ![l] = NoIndex]
  BY <1>4, <1>6, CarriedSingle
<1> QED  BY <1>1, <1>7, <1>8

(* Where nothing stands under the name, a build makes the index and marks  *)
(* it.                                                                     *)
LEMMA BuildsIndex ==
  ASSUME NEW d \in Catalog, NEW b, NEW o \in Object, NEW cond,
         \/ b.kind = "create_concurrently" /\ cond = "valid"
         \/ b.kind = "create_parent_invalid" /\ cond = "invalid",
         b.object = o, ~Exists(d[o])
  PROVE  /\ ~Stuck(b, d)
         /\ Carried(b, d) = [d EXCEPT ![o] = [NewIndex(cond, "tool") EXCEPT !.marker = "ours"]]
<1>1. PICK e : e = [d EXCEPT ![o] = NewIndex(cond, "tool")]
  OBVIOUS
<1>2. Committed(b, d) = {e}
  BY <1>1 DEF Committed, CreateConcurrently, CreateParent
<1>3. b.kind \in DDLKinds /\ b.kind \in ClaimingKinds /\ b.kind \notin DestructiveKinds
  BY DEF DDLKinds, ClaimingKinds, DestructiveKinds
<1>4. ~Stuck(b, d)
  BY <1>2, <1>3 DEF Stuck
<1>5. e[o] = NewIndex(cond, "tool") /\ MayMark(e[o].marker)
  BY <1>1 DEF Catalog, NewIndex, MayMark
<1>6. Carried(b, d) = [e EXCEPT ![o].marker = "ours"]
  BY <1>2, <1>3, <1>5, CarriedSingle, ZenonT(30)
<1>7. [e EXCEPT ![o].marker = "ours"] = [d EXCEPT ![o] = [NewIndex(cond, "tool") EXCEPT !.marker = "ours"]]
  BY <1>1, <1>5 DEF Catalog
<1> QED  BY <1>4, <1>6, <1>7

(* The check of a build finds it valid.                                    *)
LEMMA LooksValid ==
  ASSUME NEW d, NEW l \in Leaf, Usable(d[l])
  PROVE  ~Stuck(LeafVerify(l), d) /\ Carried(LeafVerify(l), d) = d
<1>1. PICK b : b = LeafVerify(l)
  OBVIOUS
<1>2. b.kind = "verify" /\ b.expect = "index_valid" /\ b.object = l /\ b.scope = {}
  BY <1>1, LeafNodes
<1>3. ~Stuck(b, d) /\ Carried(b, d) = d
  BY <1>2 DEF Holds, Stuck, Carried, DDLKinds, ClaimingKinds, DestructiveKinds
<1> QED  BY <1>1, <1>3

(* A wait changes nothing and stops nothing.                               *)
LEMMA WaitsOnly ==
  ASSUME NEW d, NEW l \in Leaf
  PROVE  ~Stuck(LeafWait(l), d) /\ Carried(LeafWait(l), d) = d
<1>1. PICK b : b = LeafWait(l)
  OBVIOUS
<1>2. b.kind = "wait"
  BY <1>1, LeafNodes
<1>3. ~Stuck(b, d) /\ Carried(b, d) = d
  BY <1>2 DEF Stuck, Carried, DDLKinds, ClaimingKinds, DestructiveKinds
<1> QED  BY <1>1, <1>3

(* An attach, which makes the parent valid when it completes the set.      *)
Joins(l, d) ==
  LET e == [d EXCEPT ![l].attached = TRUE]
  IN  IF \A m \in Leaf : e[m].attached /\ Usable(e[m]) THEN [e EXCEPT ![Parent].cond = "valid"] ELSE e

(* An attached leaf stays attached, and the last one makes the parent      *)
(* valid.                                                                  *)
LEMMA JoinsWell ==
  ASSUME NEW d \in Trees, NEW l \in Leaf, Usable(d[l])
  PROVE  /\ Joins(l, d) \in Trees /\ \A o \in Object \ {l, Parent} : Joins(l, d)[o] = d[o]
         /\ Usable(Joins(l, d)[l]) /\ Joins(l, d)[l].attached
<1>0. /\ d \in Catalog /\ CreateSound(d) /\ Exists(d[Parent])
      /\ l \in Object /\ Parent \in Object /\ l # Parent /\ Leaf \subseteq Object
  BY LeafFacts DEF Trees
<1>1. PICK e : e = [d EXCEPT ![l].attached = TRUE]
  OBVIOUS
<1>2. /\ e \in Catalog /\ \A o \in Object : o # l => e[o] = d[o]
      /\ e[l].attached /\ e[l].cond = d[l].cond
  BY <1>0, <1>1 DEF Catalog, Index
<1>3. PICK f : f = [e EXCEPT ![Parent].cond = "valid"]
  OBVIOUS
<1>4. f \in Catalog /\ (\A o \in Object : o # Parent => f[o] = e[o]) /\ f[Parent].cond = "valid"
  BY <1>0, <1>2, <1>3 DEF Catalog, Index, Condition
<1>5. Joins(l, d) = IF \A m \in Leaf : e[m].attached /\ Usable(e[m]) THEN f ELSE e
  BY <1>1, <1>3 DEF Joins
<1>6. \A m \in Leaf : m # Parent
  BY LeafFacts
<1>7. (CreateSound(f) /\ Exists(f[Parent])) \/ ~\A m \in Leaf : e[m].attached /\ Usable(e[m])
  BY <1>4, <1>6, <1>0 DEF CreateSound, Usable, Exists
<1>8. \A m \in Leaf : e[m].attached => Usable(e[m])
  BY <1>0, <1>2 DEF CreateSound, Usable
<1>9. (CreateSound(e) /\ Exists(e[Parent])) \/ \A m \in Leaf : e[m].attached /\ Usable(e[m])
  BY <1>0, <1>2, <1>8 DEF CreateSound
<1>10. CASE \A m \in Leaf : e[m].attached /\ Usable(e[m])
  BY <1>0, <1>2, <1>4, <1>5, <1>7, <1>10 DEF Trees, Usable
<1>11. CASE ~\A m \in Leaf : e[m].attached /\ Usable(e[m])
  BY <1>0, <1>2, <1>5, <1>9, <1>11 DEF Trees, Usable
<1> QED  BY <1>10, <1>11

(* What an attach of a leaf commits.                                       *)
LEMMA AttachCommits ==
  ASSUME NEW d, NEW b, b.kind = "attach", b.object \in Leaf, b.other = Parent
  PROVE  Committed(b, d) = IF ~Exists(d[b.object]) \/ ~Exists(d[Parent]) THEN {} ELSE {Joins(b.object, d)}
BY DEF Committed, AttachChild, Joins

(* A valid leaf is attached, whether it was before or not.                 *)
LEMMA AttachesLeaf ==
  ASSUME NEW d \in Trees, NEW l \in Leaf, Usable(d[l]),
         NEW e, e = Carried(LeafAttach(l), d)
  PROVE  /\ ~Stuck(LeafAttach(l), d) /\ e \in Trees
         /\ \A o \in Object \ {l, Parent} : e[o] = d[o]
         /\ Usable(e[l]) /\ e[l].attached
<1>1. PICK b : b = LeafAttach(l)
  OBVIOUS
<1>2. b.kind = "attach" /\ b.object = l /\ b.other = Parent
  BY <1>1, LeafNodes
<1>3. Exists(d[l]) /\ Exists(d[Parent])
  BY DEF Trees, Usable, Exists
<1>4. PICK f : f = Joins(l, d)
  OBVIOUS
<1>5. Committed(b, d) = {f}
  BY <1>2, <1>3, <1>4, AttachCommits
<1>6. b.kind \in DDLKinds /\ b.kind \notin DestructiveKinds
  BY <1>2 DEF DDLKinds, ClaimingKinds, DestructiveKinds
<1>7. ~Stuck(b, d)
  BY <1>2, <1>5, <1>6 DEF Stuck
<1>8. e \in {f, [f EXCEPT ![l].marker = "ours"]}
  BY <1>1, <1>2, <1>5, <1>6, CarriedSingle
<1>9. f \in Trees /\ (\A o \in Object \ {l, Parent} : f[o] = d[o]) /\ Usable(f[l]) /\ f[l].attached
  BY <1>4, JoinsWell
<1>10. CASE e = [f EXCEPT ![l].marker = "ours"]
  <2>1. f \in Catalog /\ l \in Object /\ Leaf \subseteq Object /\ Parent \in Object
    BY <1>9, LeafFacts DEF Trees
  <2>2. /\ e \in Catalog
        /\ \A o \in Object : e[o].cond = f[o].cond /\ e[o].attached = f[o].attached
        /\ \A o \in Object \ {l, Parent} : e[o] = f[o]
    BY <1>10, <2>1 DEF Catalog, Index, MarkerStatus
  <2>3. e \in Trees
    BY <1>9, <2>1, <2>2 DEF Trees, CreateSound, Usable, Exists
  <2> QED  BY <1>1, <1>7, <1>9, <2>1, <2>2, <2>3 DEF Usable
<1> QED  BY <1>1, <1>7, <1>8, <1>9, <1>10

(* What each node of the chains keeps and makes.                           *)
LEMMA CreateChainwise ==
  ASSUME NEW c,
         NEW L, L = [l \in Leaf |-> [r \in Nat |-> Growing(l, r)]]
  PROVE  Chainwise(CreateLaid(c), Trees, L)
<1>0. \A l \in Leaf : \A r \in Nat : L[l][r] = Growing(l, r)
  OBVIOUS
<1>1. ASSUME NEW l \in Leaf, NEW d \in Trees, NEW e \in Catalog,
             \A o \in Object \ {l, Parent} : e[o] = d[o]
      PROVE  \A m \in Leaf \ {l} : \A r \in Nat : d \in L[m][r] => e \in L[m][r]
  <2> SUFFICES ASSUME NEW m \in Leaf \ {l}, NEW r \in Nat, d \in Growing(m, r)
               PROVE  e \in Growing(m, r)
    BY <1>0
  <2>1. e[m] = d[m]
    BY <1>1, LeafFacts
  <2> QED  BY <2>1 DEF Growing
<1>2. ASSUME NEW l \in Leaf, NEW d \in Trees, NEW e \in Catalog,
             \A o \in Object \ {l} : e[o] = d[o], ~e[l].attached
      PROVE  e \in Trees /\ \A o \in Object \ {l, Parent} : e[o] = d[o]
  <2>1. e[Parent] = d[Parent] /\ \A m \in Leaf \ {l} : e[m] = d[m]
    BY <1>2, LeafFacts
  <2>2. CreateSound(d) /\ Exists(d[Parent])
    BY DEF Trees
  <2>3. CreateSound(e)
    BY <1>2, <2>1, <2>2 DEF CreateSound
  <2> QED  BY <1>2, <2>1, <2>2, <2>3 DEF Trees
<1> DEFINE Fine(l, b, d, r) == /\ Goes(b, d, Trees) /\ Goes(b, d, L[l][r])
                               /\ \A m \in Leaf \ {l} : \A q \in Nat : d \in L[m][q] => Goes(b, d, L[m][q])
<1>f. ASSUME NEW l \in Leaf, NEW b, NEW d, NEW e, NEW r \in Nat,
             ~Stuck(b, d), e = Carried(b, d), e \in Trees, e \in Growing(l, r),
             \A m \in Leaf \ {l} : \A q \in Nat : d \in L[m][q] => e \in L[m][q]
      PROVE  Fine(l, b, d, r)
  <2>1. e \in L[l][r]
    BY <1>0, <1>f
  <2>2. \A X : e \in X => Goes(b, d, X)
    BY <1>f DEF Goes
  <2> QED  BY <1>f, <2>1, <2>2
<1>3. ASSUME NEW l \in Leaf, NEW d \in Trees, d \in L[l][5]
      PROVE  Fine(l, LeafDrop(l), d, 4)
  <2>1. PICK e : e = Carried(LeafDrop(l), d)
    OBVIOUS
  <2>2. ~Stuck(LeafDrop(l), d) /\ e = [d EXCEPT ![l] = NoIndex]
    BY <1>0, <1>3, <2>1, DropsDeadBuild
  <2>3. d \in Catalog /\ l \in Object
    BY LeafFacts DEF Trees
  <2>4. /\ e \in Catalog /\ (\A o \in Object \ {l} : e[o] = d[o])
        /\ ~Exists(e[l]) /\ ~e[l].attached
    BY <2>2, <2>3, NoIndexType DEF Catalog, NoIndex, Exists
  <2>5. e \in Trees /\ \A m \in Leaf \ {l} : \A r \in Nat : d \in L[m][r] => e \in L[m][r]
    BY <1>1, <1>2, <2>4
  <2>6. e \in Growing(l, 4)
    BY <2>4 DEF Growing
  <2>7. ~Stuck(LeafDrop(l), d)
    BY <2>2
  <2> HIDE DEF Fine
  <2> HIDE <2>2
  <2> QED  BY <1>f, <2>1, <2>5, <2>6, <2>7
<1>4. ASSUME NEW l \in Leaf, NEW d \in Trees, d \in L[l][4]
      PROVE  Fine(l, LeafCreate(l), d, 3)
  <2>1. PICK e : e = Carried(LeafCreate(l), d)
    OBVIOUS
  <2>a. ~Exists(d[l]) /\ d \in Catalog /\ l \in Object
    BY <1>0, <1>4, LeafFacts DEF Growing, Trees
  <2>b. LeafCreate(l).kind = "create_concurrently" /\ LeafCreate(l).object = l
    BY LeafNodes
  <2>2. /\ ~Stuck(LeafCreate(l), d)
        /\ e = [d EXCEPT ![l] = [NewIndex("valid", "tool") EXCEPT !.marker = "ours"]]
    BY <2>1, <2>a, <2>b, BuildsIndex
  <2>3. [NewIndex("valid", "tool") EXCEPT !.marker = "ours"] \in Index
    BY DEF NewIndex, Index, Condition, MarkerStatus
  <2>4. /\ e \in Catalog /\ (\A o \in Object \ {l} : e[o] = d[o])
        /\ e[l] = [NewIndex("valid", "tool") EXCEPT !.marker = "ours"]
    BY <2>2, <2>3, <2>a DEF Catalog
  <2>c. Usable(e[l]) /\ ~e[l].attached
    BY <2>4 DEF NewIndex, Usable
  <2>d. e \in Catalog /\ \A o \in Object \ {l} : e[o] = d[o]
    BY <2>4
  <2>5. e \in Trees /\ \A m \in Leaf \ {l} : \A r \in Nat : d \in L[m][r] => e \in L[m][r]
    <3> HIDE <2>4, <2>2
    <3> QED  BY <1>1, <1>2, <2>c, <2>d
  <2>6. e \in Growing(l, 3)
    BY <2>4, <2>c DEF Growing
  <2>7. ~Stuck(LeafCreate(l), d)
    BY <2>2
  <2> HIDE DEF Fine
  <2> HIDE <2>2
  <2> QED  BY <1>f, <2>1, <2>5, <2>6, <2>7
<1>5. ASSUME NEW l \in Leaf, NEW d \in Trees, d \in L[l][3]
      PROVE  Fine(l, LeafVerify(l), d, 2)
  <2>1. d \in Growing(l, 2) /\ Usable(d[l])
    BY <1>0, <1>5 DEF Growing
  <2>2. ~Stuck(LeafVerify(l), d) /\ Carried(LeafVerify(l), d) = d
    BY <2>1, LooksValid
  <2> QED  BY <1>0, <2>1, <2>2 DEF Goes
<1>6. ASSUME NEW l \in Leaf, NEW d \in Trees, d \in L[l][2]
      PROVE  Fine(l, LeafAttach(l), d, 1)
  <2>1. PICK e : e = Carried(LeafAttach(l), d)
    OBVIOUS
  <2>2. Usable(d[l])
    BY <1>0, <1>6 DEF Growing
  <2>3. /\ ~Stuck(LeafAttach(l), d) /\ e \in Trees
        /\ \A o \in Object \ {l, Parent} : e[o] = d[o]
        /\ Usable(e[l]) /\ e[l].attached
    BY <2>1, <2>2, AttachesLeaf
  <2>4. e \in Catalog
    BY <2>3 DEF Trees
  <2>5. \A m \in Leaf \ {l} : \A r \in Nat : d \in L[m][r] => e \in L[m][r]
    BY <1>1, <2>3, <2>4
  <2>6. e \in Growing(l, 1)
    BY <2>3, <2>4 DEF Growing
  <2> HIDE DEF Fine
  <2> QED  BY <1>f, <2>1, <2>3, <2>5, <2>6
<1>7. ASSUME NEW l \in Leaf, NEW d \in Trees, d \in L[l][1]
      PROVE  Fine(l, LeafWait(l), d, 0)
  <2>1. d \in Growing(l, 0)
    BY <1>0, <1>7 DEF Growing
  <2>2. ~Stuck(LeafWait(l), d) /\ Carried(LeafWait(l), d) = d
    BY WaitsOnly
  <2> QED  BY <1>0, <2>1, <2>2 DEF Goes
<1> HIDE DEF Fine
<1>8. ASSUME NEW l \in Leaf, NEW j \in 1..Len(CreateLaid(c)[l]), NEW d \in Trees,
             d \in L[l][Len(CreateLaid(c)[l]) - j + 1]
      PROVE  Fine(l, CreateLaid(c)[l][j], d, Len(CreateLaid(c)[l]) - j)
  <2>1. PICK x, b, v, a, w : /\ x = LeafDrop(l) /\ b = LeafCreate(l) /\ v = LeafVerify(l)
                             /\ a = LeafAttach(l) /\ w = LeafWait(l)
    OBVIOUS
  <2>2. PICK t : t = CreateLaid(c)[l]
    OBVIOUS
  <2>3. t \in {<<>>, <<v, a, w>>, <<x, b, v, a, w>>, <<b, v, a, w>>}
    <3>1. t = CreateChain(c, l)
      BY <2>2 DEF CreateLaid
    <3>2. \/ Usable(c[l]) /\ c[l].attached
          \/ Usable(c[l]) /\ ~c[l].attached
          \/ Unusable(c[l])
          \/ ~Exists(c[l])
      BY DEF Unusable
    <3> HIDE DEF Usable, Unusable, Exists
    <3> QED  BY <2>1, <3>1, <3>2, CreateChainIs
  <2>4. /\ d \in L[l][5] => Fine(l, x, d, 4)
        /\ d \in L[l][4] => Fine(l, b, d, 3)
        /\ d \in L[l][3] => Fine(l, v, d, 2)
        /\ d \in L[l][2] => Fine(l, a, d, 1)
        /\ d \in L[l][1] => Fine(l, w, d, 0)
    BY <1>3, <1>4, <1>5, <1>6, <1>7, <2>1
  <2>5. j \in 1..Len(t) /\ d \in L[l][Len(t) - j + 1]
    BY <1>8, <2>2
  <2> SUFFICES Fine(l, t[j], d, Len(t) - j)
    BY <2>2
  <2>6. CASE t = <<>>
    BY <2>5, <2>6
  <2>7. CASE t = <<v, a, w>>
    <3>1. Len(t) = 3 /\ t[1] = v /\ t[2] = a /\ t[3] = w
      BY <2>7
    <3>2. j \in {1, 2, 3}
      BY <2>5, <3>1
    <3> QED  BY <2>4, <2>5, <3>1, <3>2
  <2>8. CASE t = <<x, b, v, a, w>>
    <3>1. Len(t) = 5 /\ t[1] = x /\ t[2] = b /\ t[3] = v /\ t[4] = a /\ t[5] = w
      BY <2>8
    <3>2. j \in {1, 2, 3, 4, 5}
      BY <2>5, <3>1
    <3> QED  BY <2>4, <2>5, <3>1, <3>2
  <2>9. CASE t = <<b, v, a, w>>
    <3>1. Len(t) = 4 /\ t[1] = b /\ t[2] = v /\ t[3] = a /\ t[4] = w
      BY <2>9
    <3>2. j \in {1, 2, 3, 4}
      BY <2>5, <3>1
    <3> QED  BY <2>4, <2>5, <3>1, <3>2
  <2> QED  BY <2>3, <2>6, <2>7, <2>8, <2>9
<1> QED  BY <1>8 DEF Chainwise, Fine

(* Where every leaf is built and attached, nothing is planned.             *)
LEMMA NothingToPlan ==
  ASSUME NEW d \in Catalog, Exists(d[Parent]), \A l \in Leaf : Usable(d[l]) /\ d[l].attached
  PROVE  NoDDL(CreatePlan(d))
<1>1. PICK chain, head, foot : chain = CreateLaid(d) /\ head = CreateHead(d) /\ foot = <<TreeVerify>>
  OBVIOUS
<1>2. /\ chain \in [Leaf -> Seq(BareNode)] /\ head \in Seq(BareNode) /\ foot \in Seq(BareNode)
      /\ CreatePlan(d) = Number(head \o Chains(chain) \o foot, Len(head))
  BY <1>1, CreateParts
<1>3. Len(head) = 1 /\ head[1] = NameAssertion
  <2>1. head = <<NameAssertion>>
    BY <1>1 DEF CreateHead
  <2> QED  BY <2>1
<1>4. Len(foot) = 1 /\ foot[1] = TreeVerify
  BY <1>1
<1>5. ASSUME NEW l \in Leaf PROVE Len(chain[l]) = 0
  <2>1. chain[l] = CreateChain(d, l)
    BY <1>1 DEF CreateLaid
  <2>2. CreateChain(d, l) = <<>>
    BY CreateChainIs
  <2> QED  BY <2>1, <2>2
<1>6. ASSUME NEW k \in DOMAIN CreatePlan(d) PROVE CreatePlan(d)[k].kind \notin DDLKinds
  <2>1. PICK p : p = CreatePlan(d)
    OBVIOUS
  <2>2. \/ \E j \in 1..Len(head) : Alike(p[k], head[j])
        \/ \E l \in Leaf : \E j \in 1..Len(chain[l]) : Alike(p[k], chain[l][j])
        \/ \E j \in 1..Len(foot) : Alike(p[k], foot[j])
    <3>1. k \in DOMAIN p /\ p = Number(head \o Chains(chain) \o foot, Len(head))
      BY <1>2, <2>1
    <3> QED  BY <1>2, <3>1, PlanNodeFrom
  <2>3. Alike(p[k], NameAssertion) \/ Alike(p[k], TreeVerify)
    BY <1>3, <1>4, <1>5, <2>2
  <2>4. p[k].kind \in {"assert", "verify"}
    BY <2>3, CreateNodes DEF Alike
  <2> QED  BY <2>1, <2>4 DEF DDLKinds, DestructiveKinds, ClaimingKinds
<1> QED  BY <1>6 DEF NoDDL

(* The two nodes before the chains. *)
LEMMA HeadGoes ==
  ASSUME Leaf # {}, NEW c \in Catalog, CreateSound(c), Proven(c)
  PROVE  /\ ~Stuck(NameAssertion, c) /\ Carried(NameAssertion, c) = c
         /\ ~Exists(c[Parent]) => /\ ~Stuck(ParentCreate, c)
                                  /\ Carried(ParentCreate, c) \in Trees
                                  /\ \A l \in Leaf : Carried(ParentCreate, c)[l] = c[l]
<1>1. ~Stuck(NameAssertion, c) /\ Carried(NameAssertion, c) = c
  <2>1. NameFree(Parent, c)
    BY LeafFacts DEF NameFree, ProvenanceVerdict, DecideProvenanceDrop, Proven, Unusable
  <2>2. Holds(NameAssertion, c)
    BY <2>1, CreateNodes DEF Holds
  <2> QED  BY <2>2, CreateNodes DEF Stuck, Carried, DDLKinds, DestructiveKinds, ClaimingKinds
<1>2. CASE ~Exists(c[Parent])
  <2>1. PICK i : i = [NewIndex("invalid", "tool") EXCEPT !.marker = "ours"]
    OBVIOUS
  <2>2. PICK e : e = Carried(ParentCreate, c)
    OBVIOUS
  <2>3. ~Stuck(ParentCreate, c) /\ e = [c EXCEPT ![Parent] = i]
    BY <1>2, <2>1, <2>2, BuildsIndex, CreateNodes, LeafFacts
  <2>4. i \in Index /\ Exists(i)
    BY <2>1 DEF NewIndex, Index, Condition, MarkerStatus, Exists
  <2>5. e \in Catalog /\ e[Parent] = i /\ \A o \in Object \ {Parent} : e[o] = c[o]
    BY <2>3, <2>4, LeafFacts DEF Catalog
  <2>6. \A l \in Leaf : e[l] = c[l]
    BY <2>5, LeafFacts
  <2>7. \A l \in Leaf : ~c[l].attached
    BY <1>2 DEF CreateSound
  <2>8. e \in Trees
    BY <2>4, <2>5, <2>6, <2>7 DEF Trees, CreateSound
  <2> QED  BY <1>1, <2>2, <2>3, <2>6, <2>8
<1> QED  BY <1>1, <1>2

(* A new create-index plan over what CreateSound and Proven describe is    *)
(* not refused, goes through to its end, and leaves every leaf built and   *)
(* attached: a plan made after it has no statement to send (Planner.Plan). *)
THEOREM CreateGoesThrough ==
  ASSUME Leaf # {}, NEW c \in Catalog, CreateSound(c), Proven(c), NEW claims
  PROVE  LET r == Executed(CreatePlan(c), c)
         IN  /\ ~CreateRefused(c, claims) /\ ~r.stuck
             /\ \A l \in Leaf : Usable(r.cat[l]) /\ r.cat[l].attached
             /\ NoDDL(CreatePlan(r.cat))
<1>a. PICK chain : chain = CreateLaid(c)
  OBVIOUS
<1>b. PICK head : head = CreateHead(c)
  OBVIOUS
<1>c. PICK foot : foot = <<TreeVerify>>
  OBVIOUS
<1>d. PICK s : s = head \o Chains(chain) \o foot
  OBVIOUS
<1>e. PICK base : base = Len(head)
  OBVIOUS
<1>f. PICK plan : plan = Number(s, base)
  OBVIOUS
<1>1. /\ chain \in [Leaf -> Seq(BareNode)] /\ head \in Seq(BareNode) /\ foot \in Seq(BareNode)
      /\ base = (IF Exists(c[Parent]) THEN 1 ELSE 2) /\ Len(foot) = 1 /\ foot[1] = TreeVerify
      /\ CreatePlan(c) = plan
  BY <1>a, <1>b, <1>c, <1>d, <1>e, <1>f, CreateParts
<1>2. base \in {1, 2} /\ head[1] = NameAssertion /\ (base = 2 => head[2] = ParentCreate)
  <2>1. CASE Exists(c[Parent])
    <3>1. head = <<NameAssertion>>
      BY <1>b, <2>1 DEF CreateHead
    <3> QED  BY <1>1, <2>1, <3>1
  <2>2. CASE ~Exists(c[Parent])
    <3>1. head = <<NameAssertion, ParentCreate>>
      BY <1>b, <2>2 DEF CreateHead
    <3> QED  BY <1>1, <2>2, <3>1
  <2> QED  BY <2>1, <2>2
<1>3. Framed(chain, head, foot, s)
  BY <1>1, <1>d, PlanLaid
<1>4. s \in Seq(BareNode) /\ s[1] = NameAssertion /\ (base = 2 => s[2] = ParentCreate)
  BY <1>2, <1>3, <1>e DEF Framed
<1>5. PICK start : /\ Laid(chain, start, base, s) /\ Len(s) = start[Leaves] + 1
                   /\ s[start[Leaves] + 1] = TreeVerify
  BY <1>1, <1>3, <1>e DEF Framed
<1>6. plan \in Seq(PlanNode) /\ Len(plan) = Len(s)
  <2>1. Ordered(plan)
    BY <1>1, CreatePlanIsSound
  <2> QED  BY <1>4, <1>f, <2>1, PlanIsSequence
<1>7. PICK after : Walks(after, plan, c)
  BY <1>6, ExecutedUnfolds
<1>8. start[Leaves] \in Nat /\ Len(s) \in Nat /\ base \in 1..Len(s) /\ 1 \in 1..Len(s) /\ Len(s) \in 1..Len(s)
  <2>1. start[Leaves] \in Nat /\ base <= start[Leaves]
    <3>1. 0 \in 0..Leaves /\ Leaves \in 0..Leaves /\ 0 \in 0..Leaves
      BY LeafFacts
    <3>2. start[0] = base /\ start[Leaves] \in Nat
      BY <1>5, <3>1 DEF Laid
    <3>3. start[0] <= start[Leaves]
      BY <1>1, <1>5, <3>1, ChainsInOrder
    <3> QED  BY <3>2, <3>3
  <2> QED  BY <1>2, <1>5, <2>1
<1>g. PICK L : L = [l \in Leaf |-> [r \in Nat |-> Growing(l, r)]]
  OBVIOUS
<1>9. ~after[1].stuck /\ after[1].cat = c
  <2>1. ~after[0].stuck /\ after[0].cat = c
    BY <1>7 DEF Walks
  <2>2. Alike(plan[1], NameAssertion)
    BY <1>4, <1>8, <1>f, NumberKeeps
  <2>3. Goes(NameAssertion, c, {c}) /\ Carried(NameAssertion, c) = c
    BY HeadGoes DEF Goes
  <2>4. 1 - 1 = 0 /\ 1 \in 1..Len(plan)
    BY <1>6, <1>8
  <2> QED  BY <1>6, <1>7, <2>1, <2>2, <2>3, <2>4, OneStep
<1>10. /\ ~after[base].stuck /\ after[base].cat \in Trees
       /\ \A l \in Leaf : after[base].cat[l] = c[l]
  <2>1. CASE Exists(c[Parent])
    <3>1. base = 1 /\ c \in Trees
      BY <1>1, <2>1 DEF Trees
    <3> QED  BY <1>9, <3>1
  <2>2. CASE ~Exists(c[Parent])
    <3>1. base = 2
      BY <1>1, <2>2
    <3>2. Alike(plan[2], ParentCreate)
      BY <1>4, <1>8, <1>f, <3>1, NumberKeeps
    <3>3. /\ Goes(ParentCreate, c, Trees)
          /\ \A l \in Leaf : Carried(ParentCreate, c)[l] = c[l]
      BY <2>2, HeadGoes DEF Goes
    <3>4. 2 - 1 = 1 /\ 2 \in 1..Len(plan)
      BY <1>6, <1>8, <3>1
    <3>5. ~after[2 - 1].stuck /\ Goes(ParentCreate, after[2 - 1].cat, Trees)
      BY <1>9, <3>3, <3>4
    <3>6. /\ ~after[2].stuck /\ after[2].cat \in Trees
          /\ after[2].cat = Carried(ParentCreate, after[2 - 1].cat)
      BY <1>6, <1>7, <3>2, <3>4, <3>5, OneStep
    <3>7. after[2].cat = Carried(ParentCreate, c)
      BY <1>9, <3>4, <3>6
    <3> QED  BY <3>1, <3>3, <3>6, <3>7
  <2> QED  BY <2>1, <2>2
<1>11. ASSUME NEW l \in Leaf PROVE after[base].cat \in L[l][Len(chain[l])]
  <2>1. PICK d : d = after[base].cat
    OBVIOUS
  <2>2. d \in Catalog /\ d[l] = c[l]
    BY <1>10, <2>1 DEF Trees
  <2>3. /\ Usable(c[l]) /\ c[l].attached  => Len(chain[l]) = 0
        /\ Usable(c[l]) /\ ~c[l].attached => Len(chain[l]) = 3
        /\ Unusable(c[l]) => Len(chain[l]) = 5
        /\ ~Exists(c[l])  => Len(chain[l]) = 4
    <3>1. PICK x, b, v, a, w : /\ x = LeafDrop(l) /\ b = LeafCreate(l) /\ v = LeafVerify(l)
                               /\ a = LeafAttach(l) /\ w = LeafWait(l)
      OBVIOUS
    <3>2. chain[l] = CreateChain(c, l)
      BY <1>a DEF CreateLaid
    <3>3. /\ Usable(c[l]) /\ c[l].attached  => chain[l] = <<>>
          /\ Usable(c[l]) /\ ~c[l].attached => chain[l] = <<v, a, w>>
          /\ Unusable(c[l]) => chain[l] = <<x, b, v, a, w>>
          /\ ~Exists(c[l])  => chain[l] = <<b, v, a, w>>
      BY <3>1, <3>2, CreateChainIs
    <3>4. Len(<<>>) = 0 /\ Len(<<v, a, w>>) = 3 /\ Len(<<x, b, v, a, w>>) = 5 /\ Len(<<b, v, a, w>>) = 4
      OBVIOUS
    <3> HIDE DEF Usable, Unusable, Exists
    <3> QED  BY <3>3, <3>4
  <2>4. c[l].attached => Usable(c[l])
    BY DEF CreateSound
  <2>5. Unusable(c[l]) => c[l].marker = "ours"
    BY DEF Proven
  <2>6. d \in Growing(l, Len(chain[l])) /\ Len(chain[l]) \in Nat
    <3>1. \/ Usable(c[l]) /\ c[l].attached
          \/ Usable(c[l]) /\ ~c[l].attached
          \/ Unusable(c[l])
          \/ ~Exists(c[l])
      BY DEF Unusable
    <3>2. CASE Usable(c[l]) /\ c[l].attached
      BY <2>2, <2>3, <3>2 DEF Growing
    <3>3. CASE Usable(c[l]) /\ ~c[l].attached
      BY <2>2, <2>3, <3>3 DEF Growing
    <3>4. CASE Unusable(c[l])
      <4>1. ~c[l].attached
        BY <2>4, <3>4 DEF Unusable
      <4>2. Len(chain[l]) = 5 /\ c[l].marker = "ours"
        BY <2>3, <2>5, <3>4
      <4>3. d \in Growing(l, 5)
        BY <2>2, <3>4, <4>1, <4>2 DEF Growing
      <4> QED  BY <4>2, <4>3
    <3>5. CASE ~Exists(c[l])
      <4>1. ~c[l].attached
        BY <2>4, <3>5 DEF Usable, Exists
      <4>2. Len(chain[l]) = 4
        BY <2>3, <3>5
      <4>3. d \in Growing(l, 4)
        BY <2>2, <3>5, <4>1 DEF Growing
      <4> QED  BY <4>2, <4>3
    <3> QED  BY <3>1, <3>2, <3>3, <3>4, <3>5
  <2> QED  BY <1>g, <2>1, <2>6
<1>12. /\ ~after[start[Leaves]].stuck /\ after[start[Leaves]].cat \in Trees
       /\ \A l \in Leaf : after[start[Leaves]].cat \in L[l][0]
  <2>1. Chainwise(chain, Trees, L)
    BY <1>a, <1>g, CreateChainwise
  <2>2. /\ ~after[base].stuck /\ after[base].cat \in Trees
        /\ \A l \in Leaf : after[base].cat \in L[l][Len(chain[l])]
    BY <1>10, <1>11
  <2>3. chain \in [Leaf -> Seq(BareNode)] /\ s \in Seq(BareNode) /\ Laid(chain, start, base, s)
    BY <1>1, <1>4, <1>5
  <2>4. /\ plan \in Seq(PlanNode) /\ Len(plan) = Len(s) /\ plan = Number(s, base)
        /\ Walks(after, plan, c)
    BY <1>6, <1>7, <1>f
  <2> QED  BY <2>1, <2>2, <2>3, <2>4, ChainWalk
<1>13. PICK d : d = after[start[Leaves]].cat
  OBVIOUS
<1>14. d \in Trees /\ \A l \in Leaf : Usable(d[l]) /\ d[l].attached
  <2>1. \A l \in Leaf : d \in Growing(l, 0)
    BY <1>12, <1>13, <1>g
  <2>2. \A l \in Leaf : Usable(d[l]) /\ d[l].attached
    BY <2>1 DEF Growing
  <2> QED  BY <1>12, <1>13, <2>2
<1>15. ~after[Len(s)].stuck /\ after[Len(s)].cat = d
  <2>1. Alike(plan[Len(s)], TreeVerify)
    BY <1>4, <1>5, <1>8, <1>f, NumberKeeps
  <2>2. Goes(TreeVerify, d, {d}) /\ Carried(TreeVerify, d) = d
    <3>1. Usable(d[Parent]) /\ \A l \in Leaf : Attached(l, d)
      BY <1>14 DEF Trees, CreateSound, Attached, Usable, Exists
    <3>2. Holds(TreeVerify, d)
      BY <3>1, CreateNodes DEF Holds
    <3> QED  BY <3>2, CreateNodes DEF Goes, Stuck, Carried, DDLKinds, DestructiveKinds, ClaimingKinds
  <2>3. Len(s) - 1 = start[Leaves] /\ Len(s) \in 1..Len(plan)
    BY <1>5, <1>6, <1>8
  <2> QED  BY <1>6, <1>7, <1>12, <1>13, <2>1, <2>2, <2>3, OneStep
<1>16. Executed(CreatePlan(c), c) = after[Len(s)]
  BY <1>1, <1>6, <1>7 DEF Walks
<1>17. ~CreateRefused(c, claims)
  BY DEF CreateRefused, CreateSound, Proven, PlannedVerdict, DecideProvenanceDrop, Unusable
<1>18. NoDDL(CreatePlan(d))
  BY <1>14, NothingToPlan DEF Trees
<1> QED  BY <1>14, <1>15, <1>16, <1>17, <1>18

-----------------------------------------------------------------------------
(* A create-index run, and what it leaves *)

(* What a create-index plan sends, and what comes before an attach. *)
LEMMA CreateStatements ==
  ASSUME NEW c \in Catalog, Plan = CreatePlan(c), NEW n \in Node, Plan[n].kind \in DDLKinds
  PROVE  \/ Plan[n].kind = "create_parent_invalid" /\ Plan[n].object = Parent
         \/ \E l \in Leaf :
              /\ Plan[n].object = l
              /\ \/ Plan[n].kind \in {"create_concurrently", "drop_concurrently"}
                 \/ /\ Plan[n].kind = "attach" /\ Plan[n].other = Parent
                    /\ \E v \in Node : /\ v < n /\ Plan[v].object = l
                                       /\ Plan[v].kind = "verify" /\ Plan[v].expect = "index_valid"
<1>a. PICK chain : chain = CreateLaid(c)
  OBVIOUS
<1>b. PICK head : head = CreateHead(c)
  OBVIOUS
<1>c. PICK foot : foot = <<TreeVerify>>
  OBVIOUS
<1>d. PICK s : s = head \o Chains(chain) \o foot
  OBVIOUS
<1>1. /\ chain \in [Leaf -> Seq(BareNode)] /\ head \in Seq(BareNode) /\ foot \in Seq(BareNode)
      /\ Len(head) = (IF Exists(c[Parent]) THEN 1 ELSE 2) /\ Len(foot) = 1 /\ foot[1] = TreeVerify
      /\ Plan = Number(s, Len(head))
  BY <1>a, <1>b, <1>c, <1>d, CreateParts
<1>2. Framed(chain, head, foot, s)
  BY <1>1, <1>d, PlanLaid
<1>3. s \in Seq(BareNode) /\ \A j \in 1..Len(head) : s[j] = head[j]
  BY <1>2 DEF Framed
<1>4. PICK start : /\ Laid(chain, start, Len(head), s) /\ Len(s) = start[Leaves] + Len(foot)
                   /\ \A j \in 1..Len(foot) : s[start[Leaves] + j] = foot[j]
  BY <1>2 DEF Framed
<1>5. DOMAIN Plan = 1..Len(s) /\ \A k \in 1..Len(s) : Alike(Plan[k], s[k])
  BY <1>1, <1>3, NumberKeeps
<1>6. Node = 1..Len(s)
  BY <1>5, PlanFacts
<1>7. \A j \in 1..Len(head) : head[j] \in {NameAssertion, ParentCreate}
  <2>1. CASE Exists(c[Parent])
    <3>1. head = <<NameAssertion>>
      BY <1>b, <2>1 DEF CreateHead
    <3> QED  BY <3>1
  <2>2. CASE ~Exists(c[Parent])
    <3>1. head = <<NameAssertion, ParentCreate>>
      BY <1>b, <2>2 DEF CreateHead
    <3> QED  BY <3>1
  <2> QED  BY <2>1, <2>2
<1>8. From(n, chain, start, head, foot)
  BY <1>1, <1>3, <1>4, <1>6, WhichNode
<1>9. Plan[n].kind \notin {"assert", "verify", "wait"}
  BY DEF DDLKinds, DestructiveKinds, ClaimingKinds
<1>10. CASE n \in 1..Len(head)
  <2>1. Alike(Plan[n], NameAssertion) \/ Alike(Plan[n], ParentCreate)
    BY <1>3, <1>5, <1>6, <1>7, <1>10
  <2> QED  BY <1>9, <2>1, CreateNodes DEF Alike
<1>11. CASE \E j \in 1..Len(foot) : n = start[Leaves] + j
  <2>1. PICK j \in 1..Len(foot) : n = start[Leaves] + j
    BY <1>11
  <2>2. j = 1
    BY <1>1
  <2>3. Alike(Plan[n], TreeVerify)
    BY <1>1, <1>4, <1>5, <1>6, <2>1, <2>2
  <2> QED  BY <1>9, <2>3, CreateNodes DEF Alike
<1>12. CASE \E i \in 1..Leaves : \E j \in 1..Len(chain[LeafOrder[i]]) : n = start[i - 1] + j
  <2>1. PICK i \in 1..Leaves : \E j \in 1..Len(chain[LeafOrder[i]]) : n = start[i - 1] + j
    BY <1>12
  <2>2. PICK l \in Leaf : l = LeafOrder[i]
    BY LeafFacts
  <2>3. PICK t : t = chain[l]
    OBVIOUS
  <2>4. PICK j \in 1..Len(t) : n = start[i - 1] + j
    BY <2>1, <2>2, <2>3
  <2>5. \A h \in 1..Len(t) : /\ start[i - 1] + h \in Node
                             /\ Alike(Plan[start[i - 1] + h], t[h])
    <3> SUFFICES ASSUME NEW h \in 1..Len(t)
                 PROVE  start[i - 1] + h \in Node /\ Alike(Plan[start[i - 1] + h], t[h])
      OBVIOUS
    <3>1. h \in 1..Len(chain[LeafOrder[i]]) /\ t[h] = chain[LeafOrder[i]][h]
      BY <2>2, <2>3
    <3>2. /\ start[i - 1] + h \in 1..Len(s)
          /\ Alike(Number(s, Len(head))[start[i - 1] + h], chain[LeafOrder[i]][h])
      BY <1>1, <1>3, <1>4, <3>1, LaidAlike
    <3> QED  BY <1>1, <1>6, <3>1, <3>2
  <2>6. Alike(Plan[n], t[j])
    BY <2>4, <2>5
  <2>7. start[i - 1] \in Nat
    <3>1. i - 1 \in 0..Leaves
      BY LeafFacts
    <3> QED  BY <1>4, <3>1 DEF Laid
  <2>8. PICK x, b, v, a, w : /\ x = LeafDrop(l) /\ b = LeafCreate(l) /\ v = LeafVerify(l)
                             /\ a = LeafAttach(l) /\ w = LeafWait(l)
    OBVIOUS
  <2>9. /\ x.kind = "drop_concurrently" /\ b.kind = "create_concurrently"
        /\ v.kind = "verify" /\ v.expect = "index_valid"
        /\ a.kind = "attach" /\ a.other = Parent /\ w.kind = "wait"
        /\ \A y \in {x, b, v, a, w} : y.object = l
    BY <2>8, LeafNodes
  <2>10. t \in {<<>>, <<v, a, w>>, <<x, b, v, a, w>>, <<b, v, a, w>>}
    <3>1. t = CreateChain(c, l)
      BY <1>a, <2>3 DEF CreateLaid
    <3>2. \/ Usable(c[l]) /\ c[l].attached
          \/ Usable(c[l]) /\ ~c[l].attached
          \/ Unusable(c[l])
          \/ ~Exists(c[l])
      BY DEF Unusable
    <3> HIDE DEF Usable, Unusable, Exists
    <3> QED  BY <2>8, <3>1, <3>2, CreateChainIs
  <2>11. t[j] \in {x, b, v, a, w} /\ (t[j] = a => j > 1 /\ j - 1 \in 1..Len(t) /\ t[j - 1] = v)
    <3>0. a # x /\ a # b /\ a # v /\ a # w
      BY <2>9
    <3>1. CASE t = <<>>
      BY <2>4, <3>1
    <3>2. CASE t = <<v, a, w>>
      <4>1. Len(t) = 3 /\ t[1] = v /\ t[2] = a /\ t[3] = w
        BY <3>2
      <4>2. j \in {1, 2, 3}
        BY <2>4, <4>1
      <4> QED  BY <3>0, <4>1, <4>2
    <3>3. CASE t = <<x, b, v, a, w>>
      <4>1. Len(t) = 5 /\ t[1] = x /\ t[2] = b /\ t[3] = v /\ t[4] = a /\ t[5] = w
        BY <3>3
      <4>2. j \in {1, 2, 3, 4, 5}
        BY <2>4, <4>1
      <4> QED  BY <3>0, <4>1, <4>2
    <3>4. CASE t = <<b, v, a, w>>
      <4>1. Len(t) = 4 /\ t[1] = b /\ t[2] = v /\ t[3] = a /\ t[4] = w
        BY <3>4
      <4>2. j \in {1, 2, 3, 4}
        BY <2>4, <4>1
      <4> QED  BY <3>0, <4>1, <4>2
    <3> QED  BY <2>10, <3>1, <3>2, <3>3, <3>4
  <2>12. CASE t[j] = a
    <3>1. PICK m : m = start[i - 1] + (j - 1)
      OBVIOUS
    <3>2. m \in Node /\ Alike(Plan[m], v)
      BY <2>5, <2>11, <2>12, <3>1
    <3>3. m < n
      BY <2>4, <2>7, <3>1
    <3>4. Plan[n].kind = "attach" /\ Plan[n].other = Parent /\ Plan[n].object = l
      BY <2>6, <2>9, <2>12 DEF Alike
    <3>5. Plan[m].object = l /\ Plan[m].kind = "verify" /\ Plan[m].expect = "index_valid"
      BY <2>9, <3>2 DEF Alike
    <3> QED  BY <3>2, <3>3, <3>4, <3>5
  <2>13. CASE t[j] \in {x, b, v, w}
    <3>1. Plan[n].kind \in {"drop_concurrently", "create_concurrently"} /\ Plan[n].object = l
      BY <1>9, <2>6, <2>9, <2>13 DEF Alike
    <3> QED  BY <3>1
  <2> QED  BY <2>11, <2>12, <2>13
<1> QED  BY <1>8, <1>10, <1>11, <1>12 DEF From

(* A create-index by itself: planned over what earlier runs of the tool    *)
(* may have left, with nobody else at work on these indexes.               *)
ToolMarked(c) == \A o \in Leaf \cup {Parent} : c[o].marker \in {"absent", "ours"}

CreateRun ==
  /\ Plan = CreatePlan(InitialCatalog) /\ Leaf # {} /\ DbaMoves = {}
  /\ CreateSound(InitialCatalog) /\ ToolMarked(InitialCatalog)

(* An attach is sent for a leaf that was found valid and has stayed so.    *)
LEMMA AttachedIsUsable ==
  ASSUME CreateRun, BuiltInv, pc = "exec", current.kind = "attach"
  PROVE  Usable(cat[current.object])
<1>1. PICK c \in Catalog : c = InitialCatalog
  BY ObjectAssumption
<1>2. FrontierInv /\ pc \in NodePc
  BY DEF BuiltInv, NodePc
<1>3. cur \in Incomplete /\ cur \in Node
  BY <1>2, InHandIsFirst DEF Incomplete
<1>4. Plan = CreatePlan(c) /\ Plan[cur].kind = "attach" /\ Plan[cur].kind \in DDLKinds
  BY <1>1 DEF CreateRun, current, DDLKinds, ClaimingKinds
<1>5. PICK v \in Node : /\ v < cur /\ Plan[v].object = Plan[cur].object
                        /\ Plan[v].kind = "verify" /\ Plan[v].expect = "index_valid"
  <2>1. PICK l \in Leaf :
          /\ Plan[cur].object = l
          /\ \/ Plan[cur].kind \in {"create_concurrently", "drop_concurrently"}
             \/ /\ Plan[cur].kind = "attach" /\ Plan[cur].other = Parent
                /\ \E v \in Node : /\ v < cur /\ Plan[v].object = l
                                   /\ Plan[v].kind = "verify" /\ Plan[v].expect = "index_valid"
    BY <1>3, <1>4, CreateStatements
  <2> QED  BY <1>4, <2>1
<1>6. v \notin Incomplete
  <2>1. \A m \in Incomplete : cur <= m
    BY <1>2, InHandIsFirst
  <2>2. \A x, y \in Node : ~(x < y /\ y <= x)
    BY DEF Node
  <2> QED  BY <1>3, <1>5, <2>1, <2>2
<1>7. Holds(Plan[v], cat)
  <2>1. Verified(v)
    BY <1>5, <1>6 DEF Verified, Incomplete
  <2> QED  BY <2>1 DEF BuiltInv
<1> QED  BY <1>5, <1>7 DEF Holds, current

(* A leaf's index replaced by one that is not attached.                    *)
LEMMA LeafReplaced ==
  ASSUME NEW c \in Catalog, CreateSound(c), ToolMarked(c), NEW l \in Leaf, NEW j,
         ~j.attached, j.marker \in {"absent", "ours"}, NEW e, e = [c EXCEPT ![l] = j]
  PROVE  CreateSound(e) /\ ToolMarked(e)
<1>1. l \in Object /\ Parent # l /\ Parent \in Object /\ Leaf \subseteq Object
  BY LeafFacts
<1>2. e[l] = j /\ \A o \in Object \ {l} : e[o] = c[o]
  BY <1>1 DEF Catalog
<1>3. e[Parent] = c[Parent] /\ \A m \in Leaf \ {l} : e[m] = c[m]
  BY <1>1, <1>2
<1>4. CreateSound(e)
  BY <1>2, <1>3 DEF CreateSound
<1>5. ToolMarked(e)
  BY <1>2, <1>3 DEF ToolMarked
<1> QED  BY <1>4, <1>5

(* Every step of a create-index run keeps what a new plan relies on.       *)
LEMMA CreateKept ==
  ASSUME CreateRun, BuiltInv, Next, CreateSound(cat), ToolMarked(cat)
  PROVE  CreateSound(cat') /\ ToolMarked(cat')
<1>0. /\ TypeInv /\ cat \in Catalog /\ Leaf \subseteq Object /\ Parent \in Object
      /\ \A l \in Leaf : l # Parent
  BY LeafFacts DEF BuiltInv, FrontierInv, RecordInv, TypeInv, TypeOK
<1>1. \A x : NewIndex(x, "tool").marker = "absent" /\ ~NewIndex(x, "tool").attached
  BY DEF NewIndex
<1>2. NoIndex.marker = "absent" /\ ~NoIndex.attached
  BY DEF NoIndex
<1>3. CASE pc = "exec" /\ current.kind \in DDLKinds /\ cat' \in Outcomes(current)
  <2>0. pc \in NodePc /\ cur \in Node
    BY <1>0, <1>3 DEF TypeInv, NodePc
  <2>1. PICK c \in Catalog : c = InitialCatalog
    BY ObjectAssumption
  <2>2. \/ current.kind = "create_parent_invalid" /\ current.object = Parent
        \/ \E l \in Leaf :
             /\ current.object = l
             /\ \/ current.kind \in {"create_concurrently", "drop_concurrently"}
                \/ current.kind = "attach" /\ current.other = Parent
    <3>1. Plan = CreatePlan(c) /\ Plan[cur].kind \in DDLKinds
      BY <1>3, <2>1 DEF CreateRun, current
    <3> QED  BY <2>0, <3>1, CreateStatements DEF current
  <2>3. CASE current.kind = "create_parent_invalid" /\ current.object = Parent
    <3>1. \/ cat' = cat
          \/ ~Exists(cat[Parent]) /\ cat' = [cat EXCEPT ![Parent] = NewIndex("invalid", "tool")]
      BY <1>3, <2>3 DEF Outcomes, Committed, CreateParent, Wreckage, StillBuilding
    <3>2. CASE ~Exists(cat[Parent]) /\ cat' = [cat EXCEPT ![Parent] = NewIndex("invalid", "tool")]
      <4>1. /\ cat'[Parent] = NewIndex("invalid", "tool")
            /\ \A l \in Leaf : cat'[l] = cat[l]
        BY <1>0, <3>2 DEF Catalog
      <4>2. \A l \in Leaf : ~cat[l].attached
        BY <3>2 DEF CreateSound
      <4>3. CreateSound(cat')
        BY <4>1, <4>2 DEF CreateSound, CreateRun
      <4>4. ToolMarked(cat')
        BY <1>1, <4>1 DEF ToolMarked
      <4> QED  BY <4>3, <4>4
    <3> QED  BY <3>1, <3>2
  <2>4. ASSUME NEW l \in Leaf, current.object = l, current.kind = "create_concurrently"
        PROVE  CreateSound(cat') /\ ToolMarked(cat')
    <3>1. cat' = cat \/ \E x \in Condition : cat' = [cat EXCEPT ![l] = NewIndex(x, "tool")]
      BY <1>3, <2>4 DEF Outcomes, Committed, CreateConcurrently, Wreckage, StillBuilding, Condition
    <3> QED  BY <1>0, <1>1, <3>1, LeafReplaced
  <2>5. ASSUME NEW l \in Leaf, current.object = l, current.kind = "drop_concurrently"
        PROVE  CreateSound(cat') /\ ToolMarked(cat')
    <3>1. \/ cat' = cat
          \/ cat' = [cat EXCEPT ![l] = NoIndex]
          \/ ~cat[l].attached /\ cat' = [cat EXCEPT ![l] = [cat[l] EXCEPT !.cond = "not_live"]]
      BY <1>3, <2>5 DEF Outcomes, Committed, DropConcurrently, Wreckage, StillBuilding
    <3>2. [cat[l] EXCEPT !.cond = "not_live"].attached = cat[l].attached
          /\ [cat[l] EXCEPT !.cond = "not_live"].marker = cat[l].marker
      BY <1>0 DEF Catalog, Index
    <3>3. cat[l].marker \in {"absent", "ours"}
      BY DEF ToolMarked
    <3> QED  BY <1>0, <1>2, <3>1, <3>2, <3>3, LeafReplaced
  <2>6. ASSUME NEW l \in Leaf, current.object = l, current.kind = "attach", current.other = Parent
        PROVE  CreateSound(cat') /\ ToolMarked(cat')
    <3>1. Usable(cat[l])
      BY <1>3, <2>6, AttachedIsUsable
    <3>2. Wreckage(current, cat) = {} /\ StillBuilding(current, cat) = {}
      BY <2>6 DEF Wreckage, StillBuilding
    <3>3. Committed(current, cat) = IF ~Exists(cat[l]) \/ ~Exists(cat[Parent]) THEN {} ELSE {Joins(l, cat)}
      BY <2>6, AttachCommits
    <3>4. cat' = cat \/ (Exists(cat[Parent]) /\ cat' = Joins(l, cat))
      BY <1>3, <3>2, <3>3 DEF Outcomes
    <3>5. CASE Exists(cat[Parent]) /\ cat' = Joins(l, cat)
      <4>1. cat \in Trees
        BY <1>0, <3>5 DEF Trees
      <4>2. CreateSound(cat')
        BY <3>1, <3>5, <4>1, JoinsWell DEF Trees
      <4>3. \A o \in Object : cat'[o].marker = cat[o].marker
        <5>1. PICK e : e = [cat EXCEPT ![l].attached = TRUE]
          OBVIOUS
        <5>2. e \in Catalog /\ \A o \in Object : e[o].marker = cat[o].marker
          BY <1>0, <5>1 DEF Catalog, Index
        <5>3. PICK f : f = [e EXCEPT ![Parent].cond = "valid"]
          OBVIOUS
        <5>4. \A o \in Object : f[o].marker = e[o].marker
          BY <1>0, <5>2, <5>3 DEF Catalog, Index
        <5>5. cat' \in {e, f}
          BY <3>5, <5>1, <5>3 DEF Joins
        <5> QED  BY <5>2, <5>4, <5>5
      <4> QED  BY <1>0, <4>2, <4>3 DEF ToolMarked
    <3> QED  BY <3>4, <3>5
  <2> QED  BY <2>2, <2>3, <2>4, <2>5, <2>6
<1>4. CASE pc = "cleanup_drop" /\ cat' \in Outcomes(CleanupStatement)
  <2>1. PICK l \in Leaf : l = target
    BY <1>0, <1>4 DEF TypeInv
  <2>2. \/ cat' = cat
        \/ cat' = [cat EXCEPT ![l] = NoIndex]
        \/ ~cat[l].attached /\ cat' = [cat EXCEPT ![l] = [cat[l] EXCEPT !.cond = "not_live"]]
    BY <1>4, <2>1 DEF Outcomes, Committed, DropConcurrently, Wreckage, StillBuilding, CleanupStatement
  <2>3. [cat[l] EXCEPT !.cond = "not_live"].attached = cat[l].attached
        /\ [cat[l] EXCEPT !.cond = "not_live"].marker = cat[l].marker
    BY <1>0 DEF Catalog, Index
  <2>4. cat[l].marker \in {"absent", "ours"}
    BY DEF ToolMarked
  <2> QED  BY <1>0, <1>2, <2>2, <2>3, <2>4, LeafReplaced
<1>5. CASE \E o \in Object : Commenting(o)
  <2>1. PICK o \in Object : cat' = [cat EXCEPT ![o].marker = "ours"]
    BY <1>5 DEF Commenting
  <2>2. \A x \in Object : /\ cat'[x].cond = cat[x].cond /\ cat'[x].attached = cat[x].attached
                          /\ cat'[x].marker \in {cat[x].marker, "ours"}
    BY <1>0, <2>1 DEF Catalog, Index
  <2> QED  BY <1>0, <2>2 DEF CreateSound, ToolMarked, Usable, Exists
<1>6. CASE BackendFinishes
  <2>1. PICK o \in Object, as \in {"invalid", "valid"} :
          cat[o].cond = "building" /\ cat' = [cat EXCEPT ![o].cond = as]
    BY <1>6 DEF BackendFinishes
  <2>2. \A x \in Object : /\ Exists(cat[x]) => Exists(cat'[x])
                          /\ Usable(cat[x]) => Usable(cat'[x])
                          /\ cat'[x].attached = cat[x].attached /\ cat'[x].marker = cat[x].marker
    BY <1>0, <2>1 DEF Catalog, Index, Exists, Usable
  <2> QED  BY <1>0, <2>2 DEF CreateSound, ToolMarked
<1>7. CASE Dba
  BY <1>7 DEF Dba, CreateRun
<1> QED  BY <1>0, <1>3, <1>4, <1>5, <1>6, <1>7, CatalogSteps DEF Sent

(* Wherever create-index was interrupted, a new plan goes through and      *)
(* leaves nothing to plan, unless a dead build is not marked yet and so    *)
(* resume's to adopt (leafChain, classifyParentIndex, refuseExecute).      *)
THEOREM CreateCanStartOver ==
  ASSUME CreateRun
  PROVE  Spec => []NewCreateBuilds
<1> DEFINE Sound == CreateSound(cat) /\ ToolMarked(cat)
<1>1. Init => Sound
  BY DEF Init, CreateRun
<1>2. BuiltInv /\ Sound /\ [Next]_vars => Sound'
  <2> SUFFICES ASSUME BuiltInv, Sound, [Next]_vars PROVE Sound'
    OBVIOUS
  <2>1. CASE UNCHANGED vars
    BY <2>1 DEF vars
  <2>2. CASE Next
    BY <2>2, CreateKept
  <2> QED  BY <2>1, <2>2
<1>3. BuiltInv /\ Sound => NewCreateBuilds
  <2> SUFFICES ASSUME BuiltInv, Sound, ~\E o \in Object : Unproven(o) PROVE NewCreateBuilds
    BY DEF NewCreateBuilds
  <2>1. cat \in Catalog /\ Leaf # {}
    BY DEF BuiltInv, FrontierInv, RecordInv, TypeInv, TypeOK, CreateRun
  <2>2. Proven(cat)
    BY LeafFacts DEF Proven, Unproven, ToolMarked
  <2>3. LET r == Executed(CreatePlan(cat), cat)
        IN  ~CreateRefused(cat, LiveClaims) /\ ~r.stuck /\ NoDDL(CreatePlan(r.cat))
    BY <2>1, <2>2, CreateGoesThrough
  <2> QED  BY <2>3, Zenon DEF NewCreateBuilds
<1>4. Spec => []BuiltInv
  <2>1. OnlyComments
    BY DEF OnlyComments, CreateRun
  <2> QED  BY <2>1, BuiltInvariant
<1> HIDE DEF Sound
<1> QED  BY <1>1, <1>2, <1>3, <1>4, PTL DEF Spec

-----------------------------------------------------------------------------
(* A new drop-index plan *)

(* Every orphan the plan is to drop carries the proof that it is ours.     *)
OrphansProven(c, claims) == \A l \in Leaf : Orphan(c, l, claims) => c[l].marker = "ours"

(* Of the catalog c some orphans are gone; nothing else has changed.       *)
Lighter(c, claims) ==
  {d \in Catalog : \A o \in Object :
     d[o] = c[o] \/ (o \in Leaf /\ Orphan(c, o, claims) /\ d[o] = NoIndex)}

Emptied(c, claims, l, r) ==
  {d \in Catalog : IF r = 0 THEN Orphan(c, l, claims) => d[l] = NoIndex ELSE d[l] = c[l]}

(* An unattached leaf that carries our marker is dropped.                  *)
LEMMA DropsOrphan ==
  ASSUME NEW c, NEW claims, OrphansProven(c, claims), NEW d \in Catalog,
         NEW l \in Leaf, Orphan(c, l, claims), d[l] = c[l]
  PROVE  ~Stuck(LeafDrop(l), d) /\ Carried(LeafDrop(l), d) = [d EXCEPT ![l] = NoIndex]
<1>1. PICK b : b = LeafDrop(l)
  OBVIOUS
<1>2. b.kind = "drop_concurrently" /\ b.auth = "provenance" /\ b.object = l
  BY <1>1, DropNodes
<1>3. Exists(d[l]) /\ ~d[l].attached /\ d[l].marker = "ours"
  BY DEF OrphansProven, Orphan
<1>4. Committed(b, d) = {[d EXCEPT ![l] = NoIndex]}
  BY <1>2, <1>3 DEF Committed, DropConcurrently
<1>5. Authorize(b, d) = "drop"
  BY <1>2, <1>3 DEF Authorize, ProvenanceVerdict, DecideProvenanceDrop
<1>6. b.kind \in DDLKinds /\ b.kind \notin ClaimingKinds /\ b.kind \in DestructiveKinds
  BY <1>2 DEF DDLKinds, ClaimingKinds, DestructiveKinds
<1>7. ~Stuck(b, d)
  BY <1>2, <1>4, <1>5, <1>6 DEF Stuck
<1>8. Carried(b, d) = [d EXCEPT ![l] = NoIndex]
  BY <1>4, <1>6, CarriedSingle
<1> QED  BY <1>1, <1>7, <1>8

(* The orphans' chains, one drop each at most.                             *)
LEMMA DropChainwise ==
  ASSUME NEW c \in Catalog, NEW claims, OrphansProven(c, claims),
         NEW G, G = Lighter(c, claims),
         NEW L, L = [l \in Leaf |-> [r \in Nat |-> Emptied(c, claims, l, r)]]
  PROVE  Chainwise(DropLaid(c, claims), G, L)
<1>1. PICK chain : chain = DropLaid(c, claims)
  OBVIOUS
<1>2. ASSUME NEW l \in Leaf, NEW j \in 1..Len(chain[l]), NEW d \in G, d \in L[l][Len(chain[l]) - j + 1]
      PROVE  /\ Goes(chain[l][j], d, G) /\ Goes(chain[l][j], d, L[l][Len(chain[l]) - j])
             /\ \A m \in Leaf \ {l} : \A r \in Nat : d \in L[m][r] => Goes(chain[l][j], d, L[m][r])
  <2>1. PICK b : b = LeafDrop(l)
    OBVIOUS
  <2>2. Orphan(c, l, claims) /\ chain[l] = <<b>>
    <3>1. chain[l] = IF Orphan(c, l, claims) THEN <<b>> ELSE <<>>
      BY <1>1, <2>1 DEF DropLaid
    <3>2. chain[l] # <<>>
      BY <1>2
    <3> HIDE DEF Orphan
    <3> QED  BY <3>1, <3>2
  <2>3. Len(chain[l]) = 1 /\ j = 1 /\ chain[l][j] = b
    <3>1. Len(<<b>>) = 1 /\ <<b>>[1] = b
      OBVIOUS
    <3>2. Len(chain[l]) = 1
      BY <2>2, <3>1
    <3>3. j = 1
      BY <1>2, <3>2
    <3> QED  BY <2>2, <3>1, <3>2, <3>3
  <2>4. Len(chain[l]) - j + 1 = 1 /\ Len(chain[l]) - j = 0
    BY <2>3
  <2>5. d \in Catalog /\ d \in Lighter(c, claims) /\ d[l] = c[l]
    <3>1. d \in L[l][1]
      BY <1>2, <2>4
    <3>2. L[l][1] = Emptied(c, claims, l, 1)
      OBVIOUS
    <3> QED  BY <1>2, <3>1, <3>2 DEF Emptied, Lighter
  <2>6. PICK e : e = Carried(b, d)
    OBVIOUS
  <2>7. ~Stuck(b, d) /\ e = [d EXCEPT ![l] = NoIndex]
    BY <2>1, <2>2, <2>5, <2>6, DropsOrphan
  <2>8. l \in Object
    BY LeafFacts
  <2>9. e \in Catalog /\ e[l] = NoIndex /\ \A o \in Object \ {l} : e[o] = d[o]
    BY <2>5, <2>7, <2>8, NoIndexType DEF Catalog
  <2>10. e \in G
    <3> HIDE DEF Orphan
    <3> QED  BY <2>2, <2>5, <2>8, <2>9 DEF Lighter
  <2>11. e \in L[l][0]
    BY <2>9 DEF Emptied
  <2>12. ASSUME NEW m \in Leaf \ {l}, NEW r \in Nat, d \in L[m][r] PROVE e \in L[m][r]
    <3>1. d \in Emptied(c, claims, m, r)
      BY <2>12
    <3>2. e[m] = d[m]
      BY <2>9, LeafFacts
    <3>3. e \in Emptied(c, claims, m, r)
      BY <2>9, <3>1, <3>2 DEF Emptied
    <3> QED  BY <3>3
  <2>13. Goes(b, d, G) /\ Goes(b, d, L[l][0])
    BY <2>6, <2>7, <2>10, <2>11 DEF Goes
  <2>14. \A m \in Leaf \ {l} : \A r \in Nat : d \in L[m][r] => Goes(b, d, L[m][r])
    BY <2>6, <2>7, <2>12 DEF Goes
  <2> QED  BY <2>3, <2>4, <2>13, <2>14
<1> QED  BY <1>1, <1>2 DEF Chainwise

(* What is left when the tree is dropped.                                  *)
Felled(d) == [o \in Object |-> IF o = Parent \/ d[o].attached THEN NoIndex ELSE d[o]]

(* The last two nodes.                                                     *)
LEMMA TreeGoes ==
  ASSUME NEW c \in Catalog, NEW claims, Exists(c[Parent]),
         NEW d \in Lighter(c, claims), \A l \in Leaf : Orphan(c, l, claims) => d[l] = NoIndex
  PROVE  /\ ~Stuck(TreeDrop, d) /\ Carried(TreeDrop, d) = Felled(d)
         /\ ~Stuck(AbsentVerify(c, claims), Felled(d))
         /\ Carried(AbsentVerify(c, claims), Felled(d)) = Felled(d)
         /\ ~Exists(Felled(d)[Parent])
         /\ \A l \in Leaf : ~Skipped(c, l, claims) => ~Exists(Felled(d)[l])
<1>0. d \in Catalog /\ Parent \in Object /\ Parent \notin Leaf /\ Leaf \subseteq Object
  BY LeafFacts DEF Lighter
<1>1. PICK b : b = TreeDrop
  OBVIOUS
<1>2. b.kind = "drop_partitioned" /\ b.auth = "explicit" /\ b.object = Parent
  BY <1>1, DropNodes
<1>3. Exists(d[Parent])
  <2>1. d[Parent] = c[Parent]
    BY <1>0 DEF Lighter
  <2> QED  BY <2>1
<1>4. Committed(b, d) = {Felled(d)}
  BY <1>2, <1>3 DEF Committed, DropPartitioned, Felled
<1>5. Authorize(b, d) = "drop"
  BY <1>2 DEF Authorize
<1>6. b.kind \in DDLKinds /\ b.kind \notin ClaimingKinds /\ b.kind \in DestructiveKinds
  BY <1>2 DEF DDLKinds, ClaimingKinds, DestructiveKinds
<1>7. ~Stuck(b, d)
  BY <1>2, <1>4, <1>5, <1>6 DEF Stuck
<1>8. Carried(b, d) = Felled(d)
  BY <1>4, <1>6, CarriedSingle
<1>9. ~Exists(NoIndex)
  BY DEF NoIndex, Exists
<1>10. ~Exists(Felled(d)[Parent])
  BY <1>0, <1>9 DEF Felled
<1>11. ASSUME NEW l \in Leaf, ~Skipped(c, l, claims) PROVE ~Exists(Felled(d)[l])
  <2>1. Felled(d)[l] = NoIndex \/ (Felled(d)[l] = d[l] /\ ~d[l].attached)
    BY <1>0 DEF Felled
  <2>2. d[l] = NoIndex \/ d[l] = c[l]
    BY <1>0 DEF Lighter
  <2>3. CASE Orphan(c, l, claims)
    BY <1>9, <2>1, <2>3
  <2>4. CASE ~Orphan(c, l, claims)
    BY <1>9, <1>11, <2>1, <2>2, <2>4 DEF Skipped
  <2> QED  BY <2>3, <2>4
<1>12. PICK v : v = AbsentVerify(c, claims)
  OBVIOUS
<1>13. /\ v.kind = "verify" /\ v.expect = "absent"
       /\ v.scope = {Parent} \cup {l \in Leaf : ~Skipped(c, l, claims)}
  BY <1>12, DropNodes
<1>14. PICK e : e = Felled(d)
  OBVIOUS
<1>15. \A o \in v.scope : ~Exists(e[o])
  BY <1>10, <1>11, <1>13, <1>14
<1>16. Holds(v, e)
  BY <1>13, <1>15 DEF Holds
<1>17. ~Stuck(v, e) /\ Carried(v, e) = e
  BY <1>13, <1>16 DEF Stuck, Carried, DDLKinds, DestructiveKinds, ClaimingKinds
<1> QED  BY <1>1, <1>7, <1>8, <1>10, <1>11, <1>12, <1>14, <1>17

(* A new drop-index plan over a catalog whose claimed orphans carry the    *)
(* marker goes through to its end, and leaves neither the parent nor any   *)
(* leaf it did not skip (Planner.Plan, DecideDrop).                        *)
THEOREM DropGoesThrough ==
  ASSUME NEW c \in Catalog, NEW claims, Exists(c[Parent]), OrphansProven(c, claims)
  PROVE  LET r == Executed(DropPlan(c, claims), c)
         IN  /\ ~r.stuck /\ ~Exists(r.cat[Parent])
             /\ \A l \in Leaf : ~Skipped(c, l, claims) => ~Exists(r.cat[l])
<1>a. PICK chain : chain = DropLaid(c, claims)
  OBVIOUS
<1>b. PICK head : head = <<ExistsAssertion>>
  OBVIOUS
<1>h. PICK final : final = AbsentVerify(c, claims)
  OBVIOUS
<1>c. PICK foot : foot = <<TreeDrop, final>>
  OBVIOUS
<1>d. PICK s : s = head \o Chains(chain) \o foot
  OBVIOUS
<1>e. PICK plan : plan = Number(s, Len(head))
  OBVIOUS
<1>1. /\ chain \in [Leaf -> Seq(BareNode)] /\ head \in Seq(BareNode) /\ foot \in Seq(BareNode)
      /\ Len(head) = 1 /\ Len(foot) = 2 /\ head[1] = ExistsAssertion
      /\ foot[1] = TreeDrop /\ foot[2] = final
      /\ DropPlan(c, claims) = plan
  BY <1>a, <1>b, <1>c, <1>d, <1>e, <1>h, DropParts
<1>2. Framed(chain, head, foot, s)
  BY <1>1, <1>d, PlanLaid
<1>3. s \in Seq(BareNode) /\ s[1] = ExistsAssertion
  BY <1>1, <1>2 DEF Framed
<1>4. PICK start : /\ Laid(chain, start, 1, s) /\ Len(s) = start[Leaves] + 2
                   /\ s[start[Leaves] + 1] = TreeDrop /\ s[start[Leaves] + 2] = final
  BY <1>1, <1>2 DEF Framed
<1>5. plan \in Seq(PlanNode) /\ Len(plan) = Len(s)
  <2>1. Ordered(plan)
    BY <1>1, DropPlanIsSound
  <2> QED  BY <1>3, <1>e, <2>1, PlanIsSequence
<1>6. PICK after : Walks(after, plan, c)
  BY <1>5, ExecutedUnfolds
<1>i. PICK t : t = start[Leaves]
  OBVIOUS
<1>7. /\ t \in Nat /\ 1 \in 1..Len(s) /\ t + 1 \in 1..Len(s) /\ t + 2 \in 1..Len(s)
      /\ (t + 1) - 1 = t /\ (t + 2) - 1 = t + 1 /\ Len(s) = t + 2
  <2>1. t \in Nat
    BY <1>4, <1>i, LeafFacts DEF Laid
  <2> QED  BY <1>4, <1>i, <2>1
<1>f. PICK G : G = Lighter(c, claims)
  OBVIOUS
<1>g. PICK L : L = [l \in Leaf |-> [r \in Nat |-> Emptied(c, claims, l, r)]]
  OBVIOUS
<1>8. ~after[1].stuck /\ after[1].cat = c
  <2>1. ~after[0].stuck /\ after[0].cat = c
    BY <1>6 DEF Walks
  <2>2. Alike(plan[1], ExistsAssertion)
    BY <1>3, <1>7, <1>e, NumberKeeps
  <2>3. Goes(ExistsAssertion, c, {c}) /\ Carried(ExistsAssertion, c) = c
    <3>1. Holds(ExistsAssertion, c)
      BY DropNodes DEF Holds
    <3> QED  BY <3>1, DropNodes DEF Goes, Stuck, Carried, DDLKinds, DestructiveKinds, ClaimingKinds
  <2>4. 1 - 1 = 0 /\ 1 \in 1..Len(plan)
    BY <1>5, <1>7
  <2> QED  BY <1>5, <1>6, <2>1, <2>2, <2>3, <2>4, OneStep
<1>9. c \in G /\ \A l \in Leaf : c \in L[l][Len(chain[l])]
  <2>1. c \in G
    BY <1>f DEF Lighter
  <2>2. ASSUME NEW l \in Leaf PROVE c \in L[l][Len(chain[l])]
    <3>1. PICK b : b = LeafDrop(l)
      OBVIOUS
    <3>2. chain[l] = IF Orphan(c, l, claims) THEN <<b>> ELSE <<>>
      BY <1>a, <3>1 DEF DropLaid
    <3>3. Len(<<b>>) = 1 /\ Len(<<>>) = 0
      OBVIOUS
    <3>4. Len(chain[l]) \in {0, 1} /\ (Len(chain[l]) = 0 => ~Orphan(c, l, claims))
      <4> HIDE DEF Orphan
      <4> QED  BY <3>2, <3>3
    <3>5. c \in Emptied(c, claims, l, Len(chain[l]))
      <4> HIDE DEF Orphan
      <4> QED  BY <3>4 DEF Emptied
    <3>6. Len(chain[l]) \in Nat
      BY <3>4
    <3> QED  BY <1>g, <3>5, <3>6
  <2> QED  BY <2>1, <2>2
<1>10. /\ ~after[t].stuck /\ after[t].cat \in G
       /\ \A l \in Leaf : after[t].cat \in L[l][0]
  <2>1. Chainwise(chain, G, L)
    BY <1>a, <1>f, <1>g, DropChainwise
  <2>2. /\ ~after[1].stuck /\ after[1].cat \in G
        /\ \A l \in Leaf : after[1].cat \in L[l][Len(chain[l])]
    BY <1>8, <1>9
  <2>3. chain \in [Leaf -> Seq(BareNode)] /\ s \in Seq(BareNode) /\ Laid(chain, start, 1, s)
    BY <1>1, <1>3, <1>4
  <2>4. /\ plan \in Seq(PlanNode) /\ Len(plan) = Len(s) /\ plan = Number(s, Len(head))
        /\ Walks(after, plan, c)
    BY <1>5, <1>6, <1>e
  <2>5. /\ ~after[start[Leaves]].stuck /\ after[start[Leaves]].cat \in G
        /\ \A l \in Leaf : after[start[Leaves]].cat \in L[l][0]
    BY <2>1, <2>2, <2>3, <2>4, ChainWalk
  <2> QED  BY <1>i, <2>5
<1>11. PICK d : d = after[t].cat
  OBVIOUS
<1>12. d \in Lighter(c, claims) /\ \A l \in Leaf : Orphan(c, l, claims) => d[l] = NoIndex
  <2>1. \A l \in Leaf : d \in Emptied(c, claims, l, 0)
    BY <1>10, <1>11, <1>g
  <2>2. \A l \in Leaf : Orphan(c, l, claims) => d[l] = NoIndex
    BY <2>1 DEF Emptied
  <2> QED  BY <1>10, <1>11, <1>f, <2>2
<1>13. PICK e : e = Felled(d)
  OBVIOUS
<1>14. /\ ~Stuck(TreeDrop, d) /\ Carried(TreeDrop, d) = e
       /\ ~Stuck(final, e) /\ Carried(final, e) = e
       /\ ~Exists(e[Parent]) /\ \A l \in Leaf : ~Skipped(c, l, claims) => ~Exists(e[l])
  <2> HIDE DEF Orphan, Skipped, Exists
  <2> QED  BY <1>12, <1>13, <1>h, TreeGoes
<1>15. ~after[t + 1].stuck /\ after[t + 1].cat = e
  <2>1. Alike(plan[t + 1], TreeDrop)
    <3>1. s[t + 1] = TreeDrop
      BY <1>4, <1>i
    <3> QED  BY <1>3, <1>7, <1>e, <3>1, NumberKeeps
  <2>2. Goes(TreeDrop, d, {e})
    BY <1>14 DEF Goes
  <2>3. t + 1 \in 1..Len(plan) /\ ~after[(t + 1) - 1].stuck /\ after[(t + 1) - 1].cat = d
    BY <1>5, <1>7, <1>10, <1>11
  <2>4. after[t + 1].cat \in {e} /\ ~after[t + 1].stuck
    BY <1>5, <1>6, <2>1, <2>2, <2>3, OneStep
  <2> QED  BY <2>4
<1>16. ~after[t + 2].stuck /\ after[t + 2].cat = e
  <2>1. Alike(plan[t + 2], final)
    <3>1. s[t + 2] = final
      BY <1>4, <1>i
    <3> QED  BY <1>3, <1>7, <1>e, <3>1, NumberKeeps
  <2>2. Goes(final, e, {e})
    BY <1>14 DEF Goes
  <2>3. t + 2 \in 1..Len(plan) /\ ~after[(t + 2) - 1].stuck /\ after[(t + 2) - 1].cat = e
    BY <1>5, <1>7, <1>15
  <2>4. after[t + 2].cat \in {e} /\ ~after[t + 2].stuck
    BY <1>5, <1>6, <2>1, <2>2, <2>3, OneStep
  <2> QED  BY <2>4
<1>17. Executed(DropPlan(c, claims), c) = after[t + 2]
  BY <1>1, <1>5, <1>6, <1>7 DEF Walks
<1> QED  BY <1>14, <1>16, <1>17

(* A drop-index by itself, planned over what earlier runs of the tool may  *)
(* have left: what it made is marked, or unattached and still claimed, and *)
(* nothing else unattached and unmarked is claimed.                        *)
DropSound(c) ==
  /\ Exists(c[Parent])
  /\ \A o \in Object : Exists(c[o]) \/ c[o] = NoIndex
  /\ \A o \in Object : c[o].maker = "tool" => o \in Leaf \cup {Parent} /\ c[o].marker \in {"absent", "ours"}
  /\ \A l \in Leaf : Exists(c[l]) /\ ~c[l].attached /\ c[l].marker = "absent" =>
       (c[l].maker = "tool" <=> l \in PriorClaims)

DropRun ==
  /\ Plan = DropPlan(InitialCatalog, PriorClaims) /\ DbaMoves = {}
  /\ DropSound(InitialCatalog)

(* What a drop-index plan sends, and what comes before the tree goes.      *)
LEMMA DropStatements ==
  ASSUME NEW c \in Catalog, NEW claims, Plan = DropPlan(c, claims), NEW n \in Node
  PROVE  /\ Plan[n].kind \notin ClaimingKinds
         /\ Plan[n].kind = "drop_concurrently" => Plan[n].object \in Leaf
         /\ Plan[n].kind = "drop_partitioned" =>
              /\ Plan[n].object = Parent
              /\ \A l \in Leaf : Orphan(c, l, claims) =>
                   \E m \in Node : m < n /\ Plan[m].kind = "drop_concurrently" /\ Plan[m].object = l
<1>a. PICK chain : chain = DropLaid(c, claims)
  OBVIOUS
<1>b. PICK head : head = <<ExistsAssertion>>
  OBVIOUS
<1>h. PICK final : final = AbsentVerify(c, claims)
  OBVIOUS
<1>c. PICK foot : foot = <<TreeDrop, final>>
  OBVIOUS
<1>d. PICK s : s = head \o Chains(chain) \o foot
  OBVIOUS
<1>1. /\ chain \in [Leaf -> Seq(BareNode)] /\ head \in Seq(BareNode) /\ foot \in Seq(BareNode)
      /\ Len(head) = 1 /\ Len(foot) = 2 /\ head[1] = ExistsAssertion
      /\ foot[1] = TreeDrop /\ foot[2] = final
      /\ Plan = Number(s, Len(head))
  BY <1>a, <1>b, <1>c, <1>d, <1>h, DropParts
<1>2. Framed(chain, head, foot, s)
  BY <1>1, <1>d, PlanLaid
<1>3. s \in Seq(BareNode) /\ s[1] = ExistsAssertion
  BY <1>1, <1>2 DEF Framed
<1>4. PICK start : /\ Laid(chain, start, Len(head), s) /\ Len(s) = start[Leaves] + Len(foot)
                   /\ \A j \in 1..Len(foot) : s[start[Leaves] + j] = foot[j]
  BY <1>2 DEF Framed
<1>5. DOMAIN Plan = 1..Len(s) /\ \A k \in 1..Len(s) : Alike(Plan[k], s[k])
  BY <1>1, <1>3, NumberKeeps
<1>6. Node = 1..Len(s)
  BY <1>5, PlanFacts
<1>7. From(n, chain, start, head, foot)
  BY <1>1, <1>3, <1>4, <1>6, WhichNode
<1>8. ASSUME NEW i \in 1..Leaves, NEW j \in 1..Len(chain[LeafOrder[i]])
      PROVE  /\ start[i - 1] + j \in Node
             /\ Alike(Plan[start[i - 1] + j], LeafDrop(LeafOrder[i]))
  <2>1. PICK l \in Leaf : l = LeafOrder[i]
    BY LeafFacts
  <2>2. PICK b : b = LeafDrop(l)
    OBVIOUS
  <2>3. chain[l] = IF Orphan(c, l, claims) THEN <<b>> ELSE <<>>
    BY <1>a, <2>2 DEF DropLaid
  <2>4. j \in 1..Len(chain[l])
    BY <2>1
  <2>5. chain[l][j] = b
    <3>1. chain[l] \in {<<b>>, <<>>}
      BY <2>3
    <3>2. chain[l] # <<>>
      BY <2>4
    <3>3. Len(<<b>>) = 1 /\ <<b>>[1] = b
      OBVIOUS
    <3>4. chain[l] = <<b>>
      BY <3>1, <3>2
    <3>5. j = 1
      BY <2>4, <3>3, <3>4
    <3> QED  BY <3>3, <3>4, <3>5
  <2>6. /\ start[i - 1] + j \in 1..Len(s)
        /\ Alike(Number(s, Len(head))[start[i - 1] + j], chain[LeafOrder[i]][j])
    BY <1>1, <1>3, <1>4, LaidAlike
  <2> QED  BY <1>1, <1>6, <2>1, <2>2, <2>5, <2>6
<1>9. CASE n \in 1..Len(head)
  <2>1. n = 1
    BY <1>1, <1>9
  <2>2. Alike(Plan[n], ExistsAssertion)
    BY <1>3, <1>5, <1>6, <2>1
  <2>3. Plan[n].kind = "assert"
    BY <2>2, DropNodes DEF Alike
  <2> QED  BY <2>3 DEF ClaimingKinds
<1>10. CASE \E i \in 1..Leaves : \E j \in 1..Len(chain[LeafOrder[i]]) : n = start[i - 1] + j
  <2>0. PICK i \in 1..Leaves : \E j \in 1..Len(chain[LeafOrder[i]]) : n = start[i - 1] + j
    BY <1>10
  <2>1. PICK j \in 1..Len(chain[LeafOrder[i]]) : n = start[i - 1] + j
    BY <2>0
  <2>2. Alike(Plan[n], LeafDrop(LeafOrder[i]))
    BY <1>8, <2>1
  <2>3. LeafOrder[i] \in Leaf
    BY LeafFacts
  <2>4. Plan[n].kind = "drop_concurrently" /\ Plan[n].object = LeafOrder[i]
    BY <2>2, <2>3, DropNodes DEF Alike
  <2> QED  BY <2>3, <2>4 DEF ClaimingKinds
<1>11. CASE \E j \in 1..Len(foot) : n = start[Leaves] + j
  <2>1. PICK j \in 1..Len(foot) : n = start[Leaves] + j
    BY <1>11
  <2>2. Alike(Plan[n], foot[j]) /\ j \in {1, 2}
    BY <1>1, <1>4, <1>5, <1>6, <2>1
  <2>3. CASE j = 2
    <3>1. Alike(Plan[n], final)
      BY <1>1, <2>2, <2>3
    <3>2. Plan[n].kind = "verify"
      BY <1>h, <3>1, DropNodes DEF Alike
    <3> QED  BY <3>2 DEF ClaimingKinds
  <2>4. CASE j = 1
    <3>1. Alike(Plan[n], TreeDrop)
      BY <1>1, <2>2, <2>4
    <3>2. Plan[n].kind = "drop_partitioned" /\ Plan[n].object = Parent
      BY <3>1, DropNodes DEF Alike
    <3>3. ASSUME NEW l \in Leaf, Orphan(c, l, claims)
          PROVE  \E m \in Node : m < n /\ Plan[m].kind = "drop_concurrently" /\ Plan[m].object = l
      <4>1. PICK i \in 1..Leaves : LeafOrder[i] = l
        BY LeafFacts
      <4>2. PICK b : b = LeafDrop(l)
        OBVIOUS
      <4>3. chain[l] = <<b>>
        BY <1>a, <3>3, <4>2 DEF DropLaid
      <4>4. Len(chain[LeafOrder[i]]) = 1
        BY <4>1, <4>3
      <4>5. 1 \in 1..Len(chain[LeafOrder[i]])
        BY <4>4
      <4>6. PICK m : m = start[i - 1] + 1
        OBVIOUS
      <4>7. m \in Node /\ Alike(Plan[m], b)
        BY <1>8, <4>1, <4>2, <4>5, <4>6
      <4>8. m < n
        <5>1. /\ i \in 0..Leaves /\ i - 1 \in 0..Leaves /\ Leaves \in 0..Leaves
              /\ start[i] = start[i - 1] + 1
          <6>1. /\ i \in 0..Leaves /\ i - 1 \in 0..Leaves /\ Leaves \in 0..Leaves
            BY LeafFacts
          <6>2. start[i] = start[i - 1] + Len(chain[LeafOrder[i]])
            BY <1>4 DEF Laid
          <6> QED  BY <4>4, <6>1, <6>2
        <5>2. start[i] <= start[Leaves]
          <6>1. \A x \in 0..Leaves : start[x] \in Nat
            BY <1>4 DEF Laid
          <6>2. Laid(chain, start, Len(head), s)
            BY <1>4
          <6>3. Leaves \in 0..Leaves /\ i \in 0..Leaves
            BY <5>1
          <6> QED  BY <1>1, <6>2, <6>3, LeafFacts, ChainsInOrder
        <5>3. start[i] \in Nat /\ start[Leaves] \in Nat /\ m = start[i] /\ n = start[Leaves] + 1
          BY <1>4, <2>1, <2>4, <4>6, <5>1 DEF Laid
        <5> QED  BY <5>2, <5>3
      <4>9. Plan[m].kind = "drop_concurrently" /\ Plan[m].object = l
        BY <4>2, <4>7, DropNodes DEF Alike
      <4> QED  BY <4>7, <4>8, <4>9
    <3>4. Plan[n].kind \notin ClaimingKinds
      BY <3>2 DEF ClaimingKinds
    <3> HIDE DEF Orphan
    <3> QED  BY <3>2, <3>3, <3>4
  <2> QED  BY <2>2, <2>3, <2>4
<1> QED  BY <1>7, <1>9, <1>10, <1>11 DEF From

-----------------------------------------------------------------------------
(* A drop-index run, and what it leaves *)

(* Index i of a drop-index run: it goes, or all that changes of it is its  *)
(* condition and that our marker is put on it.                             *)
Fades(i, j) ==
  \/ j = NoIndex
  \/ /\ Exists(i) /\ Exists(j) /\ j.maker = i.maker /\ j.attached = i.attached
     /\ j.marker \in {i.marker, "ours"}

(* A leaf whose drop has committed as far as this session or the records   *)
(* know.                                                                   *)
Dropped(n) == /\ Plan[n].kind = "drop_concurrently"
              /\ Done(n, state) \/ state[n] = "VERIFYING" \/ (pc = "verifying" /\ n = cur)

OursGone == \A o \in Object : cat[o].maker # "tool"

DropInv ==
  /\ FrontierInv /\ pc # "mark"
  /\ \A o \in Object : Fades(InitialCatalog[o], cat[o])
  /\ \A n \in Node : Dropped(n) => ~Exists(cat[Plan[n].object])
  /\ ~Exists(cat[Parent]) => OursGone

(* What fades twice has faded.                                             *)
LEMMA FadesOn ==
  ASSUME NEW i, NEW j, NEW k, Fades(i, j), j = k \/ Fades(j, k)
  PROVE  Fades(i, k)
BY DEF Fades, NoIndex, Exists

(* Every step lets indexes fade, and only the drop of the tree takes the   *)
(* parent's.                                                               *)
LEMMA DropFades ==
  ASSUME DropRun, TypeInv, Next
  PROVE  /\ \A o \in Object : cat'[o] = cat[o] \/ Fades(cat[o], cat'[o])
         /\ \/ Exists(cat'[Parent]) \/ ~Exists(cat[Parent])
            \/ /\ pc = "exec" /\ current.kind = "drop_partitioned"
               /\ cat' \in DropPartitioned(current, cat)
<1>0. cat \in Catalog /\ Leaf \subseteq Object /\ Parent \in Object /\ Parent \notin Leaf
  BY LeafFacts DEF TypeInv, TypeOK
<1> DEFINE Fine == /\ \A o \in Object : cat'[o] = cat[o] \/ Fades(cat[o], cat'[o])
                   /\ Exists(cat'[Parent]) \/ ~Exists(cat[Parent])
<1>1. ASSUME NEW o \in Object, NEW j, cat' = [cat EXCEPT ![o] = j], Fades(cat[o], j),
             o # Parent \/ Exists(j)
      PROVE  Fine
  <2>1. cat'[o] = j /\ \A x \in Object : x # o => cat'[x] = cat[x]
    BY <1>0, <1>1 DEF Catalog
  <2> QED  BY <1>0, <1>1, <2>1
<1>2. ASSUME NEW l \in Leaf,
             \/ cat' = cat
             \/ cat' = [cat EXCEPT ![l] = NoIndex]
             \/ Exists(cat[l]) /\ cat' = [cat EXCEPT ![l] = [cat[l] EXCEPT !.cond = "not_live"]]
      PROVE  Fine
  <2>1. Fades(cat[l], NoIndex)
    BY DEF Fades
  <2>2. Exists(cat[l]) => Fades(cat[l], [cat[l] EXCEPT !.cond = "not_live"])
    BY <1>0 DEF Fades, Exists, Catalog, Index
  <2> QED  BY <1>0, <1>1, <1>2, <2>1, <2>2
<1>3. CASE pc = "exec" /\ current.kind \in DDLKinds /\ cat' \in Outcomes(current)
  <2>0. cur \in Node
    BY <1>3 DEF TypeInv, NodePc
  <2>1. PICK c \in Catalog : c = InitialCatalog
    BY ObjectAssumption
  <2>2. /\ current.kind \notin ClaimingKinds
        /\ current.kind = "drop_concurrently" => current.object \in Leaf
        /\ current.kind = "drop_partitioned" => current.object = Parent
    <3>1. Plan = DropPlan(c, PriorClaims)
      BY <2>1 DEF DropRun
    <3> QED  BY <2>0, <3>1, DropStatements DEF current
  <2>3. CASE current.kind = "drop_concurrently"
    <3>1. PICK l \in Leaf : l = current.object
      BY <2>2, <2>3
    <3>2. \/ cat' = cat
          \/ cat' = [cat EXCEPT ![l] = NoIndex]
          \/ Exists(cat[l]) /\ cat' = [cat EXCEPT ![l] = [cat[l] EXCEPT !.cond = "not_live"]]
      BY <1>3, <2>3, <3>1 DEF Outcomes, Committed, DropConcurrently, Wreckage, StillBuilding
    <3> QED  BY <1>2, <3>2
  <2>4. CASE current.kind = "drop_partitioned"
    <3>1. cat' = cat \/ cat' \in DropPartitioned(current, cat)
      BY <1>3, <2>4 DEF Outcomes, Committed, Wreckage, StillBuilding
    <3>2. CASE cat' \in DropPartitioned(current, cat)
      <4>1. \A o \in Object : cat'[o] = cat[o] \/ cat'[o] = NoIndex
        BY <3>2 DEF DropPartitioned
      <4> QED  BY <1>3, <2>4, <3>2, <4>1 DEF Fades
    <3> QED  BY <1>0, <3>1, <3>2
  <2> QED  BY <1>3, <2>2, <2>3, <2>4 DEF DDLKinds, DestructiveKinds
<1>4. CASE pc = "cleanup_drop" /\ cat' \in Outcomes(CleanupStatement)
  <2>1. PICK l \in Leaf : l = target
    BY <1>4 DEF TypeInv
  <2>2. \/ cat' = cat
        \/ cat' = [cat EXCEPT ![l] = NoIndex]
        \/ Exists(cat[l]) /\ cat' = [cat EXCEPT ![l] = [cat[l] EXCEPT !.cond = "not_live"]]
    BY <1>4, <2>1 DEF Outcomes, Committed, DropConcurrently, Wreckage, StillBuilding, CleanupStatement
  <2> QED  BY <1>2, <2>2
<1>5. CASE \E o \in Object : Commenting(o)
  <2>1. PICK o \in Object : Exists(cat[o]) /\ cat' = [cat EXCEPT ![o].marker = "ours"]
    BY <1>5 DEF Commenting
  <2>2. PICK j : j = [cat[o] EXCEPT !.marker = "ours"]
    OBVIOUS
  <2>3. Fades(cat[o], j) /\ Exists(j)
    BY <1>0, <2>1, <2>2 DEF Fades, Exists, Catalog, Index
  <2> QED  BY <1>1, <2>1, <2>2, <2>3
<1>6. CASE BackendFinishes
  <2>1. PICK o \in Object, as \in {"invalid", "valid"} :
          cat[o].cond = "building" /\ cat' = [cat EXCEPT ![o].cond = as]
    BY <1>6 DEF BackendFinishes
  <2>2. PICK j : j = [cat[o] EXCEPT !.cond = as]
    OBVIOUS
  <2>3. Fades(cat[o], j) /\ Exists(j)
    BY <1>0, <2>1, <2>2 DEF Fades, Exists, Catalog, Index
  <2> QED  BY <1>1, <2>1, <2>2, <2>3
<1>7. CASE Dba
  BY <1>7 DEF Dba, DropRun
<1>8. CASE cat' = cat
  BY <1>8
<1> QED  BY <1>3, <1>4, <1>5, <1>6, <1>7, <1>8, CatalogSteps DEF Sent

(* No node of the plan makes an index, so none is ever to be marked.       *)
LEMMA NothingToMark ==
  ASSUME DropRun, TypeInv, Next, pc' = "mark"
  PROVE  pc = "mark"
<1> USE DEF Goto, Ends, walk, store, Gone
<1>0. pc = "exec" => current.kind \notin ClaimingKinds
  <2>1. PICK c \in Catalog : c = InitialCatalog
    BY ObjectAssumption
  <2>2. Plan = DropPlan(c, PriorClaims)
    BY <2>1 DEF DropRun
  <2>3. pc = "exec" => cur \in Node
    BY DEF TypeInv, NodePc
  <2> QED  BY <2>2, <2>3, DropStatements DEF current
<1>1. CASE Execute \/ Resume \/ Adopting
  BY <1>1 DEF Execute, Resume, Adopting, MarkOrphaned, RewindOrphans, AdoptRun, AdoptLease,
              RewindFailed, Rewind
<1>2. CASE Cleaning
  BY <1>2 DEF Cleaning, Inspect, Recheck, CleanupComment, CleanupDrop, CleanupFailed
<1>3. CASE Recover \/ Ready \/ Run \/ Verifying \/ Finished \/ Halted \/ Retry
  BY <1>3 DEF Recover, Ready, Run, Verifying, Finished, Halted, Retry, Checkpoint
<1>4. CASE Boundary
  BY <1>4 DEF Boundary, Entry
<1>5. CASE Evaluate \/ Statement \/ Mark
  BY <1>0, <1>5 DEF Evaluate, Statement, Mark
<1>6. CASE WalkLease \/ LoadStates \/ Attempt \/ AdoptComment \/ Verify \/ Deferred \/ Backoff
           \/ Finish \/ Release
  BY <1>6 DEF WalkLease, LoadStates, Attempt, AdoptComment, Verify, Deferred, Backoff,
              Finish, Release
<1>7. CASE Environment
  BY <1>7 DEF Environment, Crash, ExpireLease, LeaseLapses, Heartbeat, BackendFinishes,
              Signal, Cancel, Dba
<1> QED  BY <1>1, <1>2, <1>3, <1>4, <1>5, <1>6, <1>7 DEF Next, Process, Walking

(* A dropped leaf stays away.                                              *)
LEMMA DroppedSteps ==
  ASSUME DropRun, DropInv, Next, NEW n \in Node, Dropped(n)'
  PROVE  ~Exists(cat'[Plan[n].object])
<1>0. TypeInv /\ RecordInv /\ FrontierInv
  BY DEF DropInv, FrontierInv, RecordInv
<1>1. PICK o \in Object : o = Plan[n].object
  BY PlanFacts DEF PlanNode
<1>2. ~Exists(NoIndex)
  BY DEF NoIndex, Exists
<1>3. CASE Dropped(n)
  <2>1. ~Exists(cat[o])
    BY <1>1, <1>3 DEF DropInv
  <2>2. cat'[o] = cat[o] \/ Fades(cat[o], cat'[o])
    BY <1>0, DropFades
  <2> QED  BY <1>1, <1>2, <2>1, <2>2 DEF Fades
<1>4. CASE ~Dropped(n)
  <2>1. Plan[n].kind = "drop_concurrently"
    BY DEF Dropped
  <2>2. ~Done(n, state) /\ state[n] # "VERIFYING" /\ ~(pc = "verifying" /\ n = cur)
    BY <1>4, <2>1 DEF Dropped
  <2>3. state'[n] # "VERIFYING" /\ ~Done(n, state')
    BY <1>0, <2>2, RecordSteps DEF Done, CompleteStates, RecordAt
  <2>4. pc' = "verifying" /\ n = cur'
    BY <2>3 DEF Dropped
  <2>5. /\ cur = n /\ pc = "exec"
        /\ current.kind \in DDLKinds => cat' \in Committed(current, cat)
    BY <2>2, <2>4, VerifyingSteps DEF DropInv, Mark
  <2>6. cat' \in DropConcurrently(current, cat) /\ current.object = o
    BY <1>1, <2>1, <2>5 DEF current, Committed, DDLKinds, DestructiveKinds
  <2>7. cat'[o] = NoIndex
    BY <1>0, <2>6 DEF DropConcurrently, TypeInv, TypeOK, Catalog
  <2> QED  BY <1>1, <1>2, <2>7
<1> QED  BY <1>3, <1>4

(* The tree goes last, and takes with it what is left of ours.             *)
LEMMA TreeGoesLast ==
  ASSUME DropRun, DropInv, pc = "exec", current.kind = "drop_partitioned",
         cat' \in DropPartitioned(current, cat)
  PROVE  OursGone'
<1>0. TypeInv /\ FrontierInv /\ cur \in Node /\ cat \in Catalog
  BY DEF DropInv, FrontierInv, RecordInv, TypeInv, TypeOK, NodePc
<1>1. PICK c \in Catalog : c = InitialCatalog
  BY ObjectAssumption
<1>2. DropSound(c) /\ Plan = DropPlan(c, PriorClaims)
  BY <1>1 DEF DropRun
<1>3. /\ current.object = Parent
      /\ \A l \in Leaf : Orphan(c, l, PriorClaims) =>
           \E m \in Node : m < cur /\ Plan[m].kind = "drop_concurrently" /\ Plan[m].object = l
  BY <1>0, <1>2, DropStatements DEF current
<1>4. cat' = [o \in Object |-> IF o = Parent \/ cat[o].attached THEN NoIndex ELSE cat[o]]
  BY <1>3 DEF DropPartitioned
<1>5. SUFFICES ASSUME NEW o \in Object, cat'[o].maker = "tool" PROVE FALSE
  BY DEF OursGone
<1>6. cat'[o] = cat[o] /\ o # Parent /\ ~cat[o].attached
  BY <1>4, <1>5 DEF NoIndex
<1>7. Exists(cat[o]) /\ Exists(c[o]) /\ c[o].maker = "tool" /\ ~c[o].attached
  <2>1. Fades(c[o], cat[o])
    BY <1>1 DEF DropInv
  <2>2. cat[o] # NoIndex
    BY <1>5, <1>6 DEF NoIndex
  <2> QED  BY <1>5, <1>6, <2>1, <2>2 DEF Fades
<1>8. o \in Leaf /\ c[o].marker \in {"absent", "ours"}
  BY <1>2, <1>6, <1>7 DEF DropSound
<1>9. Orphan(c, o, PriorClaims)
  <2>1. c[o].marker = "absent" => o \in PriorClaims
    BY <1>2, <1>7, <1>8 DEF DropSound
  <2>2. PlannedVerdict(c, o, PriorClaims) # "halt"
    BY <1>8, <2>1 DEF PlannedVerdict, DecideProvenanceDrop
  <2> QED  BY <1>7, <2>2 DEF Orphan
<1>10. PICK m \in Node : m < cur /\ Plan[m].kind = "drop_concurrently" /\ Plan[m].object = o
  <2> HIDE DEF Orphan
  <2> QED  BY <1>3, <1>8, <1>9
<1>11. Done(m, state)
  <2>1. \A x \in Incomplete : cur <= x
    BY <1>0, InHandIsFirst DEF NodePc
  <2>2. \A x, y \in Node : ~(x < y /\ y <= x)
    BY DEF Node
  <2> QED  BY <1>0, <1>10, <2>1, <2>2 DEF Incomplete
<1>12. ~Exists(cat[o])
  BY <1>10, <1>11 DEF DropInv, Dropped
<1> QED  BY <1>7, <1>12

(* Every step of a drop-index run keeps the invariant.                     *)
LEMMA DropStep ==
  ASSUME DropRun, DropInv, FrontierInv', Next
  PROVE  DropInv'
<1>0. TypeInv
  BY DEF DropInv, FrontierInv, RecordInv
<1>1. pc' # "mark"
  BY <1>0, NothingToMark DEF DropInv
<1>2. ASSUME NEW o \in Object PROVE Fades(InitialCatalog[o], cat'[o])
  <2>1. Fades(InitialCatalog[o], cat[o])
    BY DEF DropInv
  <2>2. cat'[o] = cat[o] \/ Fades(cat[o], cat'[o])
    BY <1>0, DropFades
  <2> QED  BY <2>1, <2>2, FadesOn
<1>3. \A n \in Node : Dropped(n)' => ~Exists(cat'[Plan[n].object])
  BY DroppedSteps
<1>4. ASSUME ~Exists(cat'[Parent]) PROVE OursGone'
  <2>1. CASE ~Exists(cat[Parent])
    <3>1. OursGone
      BY <2>1 DEF DropInv
    <3>2. ASSUME NEW o \in Object PROVE cat'[o].maker # "tool"
      <4>1. cat'[o] = cat[o] \/ Fades(cat[o], cat'[o])
        BY <1>0, DropFades
      <4> QED  BY <3>1, <4>1 DEF OursGone, Fades, NoIndex
    <3> QED  BY <3>2 DEF OursGone
  <2>2. CASE Exists(cat[Parent])
    <3>1. /\ pc = "exec" /\ current.kind = "drop_partitioned"
          /\ cat' \in DropPartitioned(current, cat)
      BY <1>0, <1>4, <2>2, DropFades
    <3> QED  BY <3>1, TreeGoesLast
  <2> QED  BY <2>1, <2>2
<1> HIDE DEF Fades, OursGone, Dropped
<1> QED  BY <1>1, <1>2, <1>3, <1>4 DEF DropInv

(* What a drop-index run that has stopped leaves to a new plan.            *)
LEMMA DropLeft ==
  ASSUME DropRun, DropInv
  PROVE  NewDropRemoves
<1>1. PICK c0 \in Catalog : c0 = InitialCatalog
  BY ObjectAssumption
<1>2. DropSound(c0) /\ Plan = DropPlan(c0, PriorClaims)
  BY <1>1 DEF DropRun
<1>3. PICK c \in Catalog : c = cat
  BY DEF DropInv, FrontierInv, RecordInv, TypeInv, TypeOK
<1>4. \A o \in Object : Fades(c0[o], c[o])
  BY <1>1, <1>3 DEF DropInv
<1>5. PICK claims : claims = LiveClaims
  OBVIOUS
<1>6. \A o \in Object : o \in claims <=> o \in PriorClaims
  <2>1. \A n \in Node : Plan[n].kind \notin ClaimingKinds
    BY <1>2, DropStatements
  <2>2. \A o \in Object : Claimed(o) <=> o \in PriorClaims
    BY <2>1 DEF Claimed, ClaimingNode
  <2> QED  BY <1>5, <2>2 DEF LiveClaims
<1>7. PICK ours : ours = {o \in Object : c[o].maker = "tool"}
  OBVIOUS
<1>8. ASSUME NEW o \in ours
      PROVE  /\ o \in Object /\ c[o] # NoIndex /\ Exists(c[o]) /\ Exists(c0[o])
             /\ c0[o].maker = "tool" /\ c0[o].attached = c[o].attached
             /\ c[o].marker \in {c0[o].marker, "ours"}
             /\ o \in Leaf \cup {Parent} /\ c[o].marker \in {"absent", "ours"}
  <2>1. o \in Object /\ c[o].maker = "tool"
    BY <1>7
  <2>2. c[o] # NoIndex
    BY <2>1 DEF NoIndex
  <2>3. /\ Exists(c[o]) /\ Exists(c0[o]) /\ c0[o].maker = "tool" /\ c0[o].attached = c[o].attached
        /\ c[o].marker \in {c0[o].marker, "ours"}
    BY <1>4, <2>1, <2>2 DEF Fades
  <2>4. o \in Leaf \cup {Parent} /\ c0[o].marker \in {"absent", "ours"}
    BY <1>2, <2>1, <2>3 DEF DropSound
  <2> QED  BY <2>1, <2>2, <2>3, <2>4
<1>9. CASE ~Exists(c[Parent])
  <2>1. OursGone
    BY <1>3, <1>9 DEF DropInv
  <2>2. {o \in Object : cat[o].maker = "tool"} = {} /\ DropRefused(cat)
    BY <1>3, <1>9, <2>1 DEF OursGone, DropRefused
  <2> QED  BY <2>2 DEF NewDropRemoves
<1>10. CASE Exists(c[Parent]) /\ \E o \in ours : c[o].marker = "absent"
  <2>1. \E o \in {o \in Object : cat[o].maker = "tool"} : cat[o].marker = "absent"
    BY <1>3, <1>7, <1>10
  <2>2. ~DropRefused(cat)
    BY <1>3, <1>10 DEF DropRefused
  <2> QED  BY <2>1, <2>2 DEF NewDropRemoves
<1>11. CASE Exists(c[Parent]) /\ \A o \in ours : c[o].marker # "absent"
  <2>1. OrphansProven(c, claims)
    <3>1. SUFFICES ASSUME NEW l \in Leaf, Orphan(c, l, claims) PROVE c[l].marker = "ours"
      BY DEF OrphansProven
    <3>2. l \in Object
      BY LeafFacts
    <3>3. Exists(c[l]) /\ ~c[l].attached /\ PlannedVerdict(c, l, claims) # "halt"
      BY <3>1 DEF Orphan
    <3>4. c[l].marker = "ours" \/ (c[l].marker = "absent" /\ l \in PriorClaims)
      BY <1>6, <3>2, <3>3 DEF PlannedVerdict, DecideProvenanceDrop
    <3>5. ASSUME c[l].marker = "absent", l \in PriorClaims PROVE FALSE
      <4>1. /\ Exists(c0[l]) /\ c[l].maker = c0[l].maker /\ ~c0[l].attached
            /\ c0[l].marker = "absent"
        <5>1. c[l] # NoIndex
          BY <3>3 DEF NoIndex, Exists
        <5> QED  BY <1>4, <3>2, <3>3, <3>5, <5>1 DEF Fades
      <4>2. c0[l].maker = "tool"
        BY <1>2, <3>5, <4>1 DEF DropSound
      <4> QED  BY <1>7, <1>11, <3>2, <3>5, <4>1, <4>2
    <3> QED  BY <3>4, <3>5
  <2>2. PICK r : r = Executed(DropPlan(c, claims), c)
    OBVIOUS
  <2>3. /\ ~r.stuck /\ ~Exists(r.cat[Parent])
        /\ \A l \in Leaf : ~Skipped(c, l, claims) => ~Exists(r.cat[l])
    <3> HIDE DEF Skipped, OrphansProven, Exists
    <3> QED  BY <1>11, <2>1, <2>2, DropGoesThrough
  <2>4. ASSUME NEW o \in ours PROVE ~Exists(r.cat[o])
    <3>1. CASE o = Parent
      BY <2>3, <3>1
    <3>2. CASE o # Parent
      <4>1. o \in Leaf /\ c[o].marker = "ours"
        BY <1>8, <1>11, <3>2
      <4>2. ~Skipped(c, o, claims)
        BY <4>1 DEF Skipped, Orphan, PlannedVerdict, DecideProvenanceDrop
      <4> QED  BY <2>3, <4>1, <4>2
    <3> QED  BY <3>1, <3>2
  <2>5. ~DropRefused(cat)
    BY <1>3, <1>11 DEF DropRefused
  <2>6. /\ r = Executed(DropPlan(cat, LiveClaims), cat)
        /\ ours = {o \in Object : cat[o].maker = "tool"}
    BY <1>3, <1>5, <1>7, <2>2
  <2> HIDE DEF Exists, DropRefused
  <2> QED  BY <2>3, <2>4, <2>5, <2>6 DEF NewDropRemoves
<1> QED  BY <1>9, <1>10, <1>11

(* Wherever drop-index was interrupted, a new plan goes through and leaves *)
(* nothing of ours that could be proved so, or the old one had already     *)
(* left nothing of ours (Planner.Plan, refuseExecute).                     *)
THEOREM DropCanStartOver ==
  ASSUME DropRun
  PROVE  Spec => []NewDropRemoves
<1>1. Init => DropInv
  <2> SUFFICES ASSUME Init PROVE DropInv
    OBVIOUS
  <2>1. \A o \in Object : Fades(InitialCatalog[o], InitialCatalog[o])
    BY DEF Fades, DropRun, DropSound
  <2>2. pc = "idle" /\ state = Fresh /\ cat = InitialCatalog
    BY DEF Init
  <2>3. \A n \in Node : ~Dropped(n)
    BY <2>2 DEF Dropped, Done, Fresh, InitialNodeState, CompleteStates
  <2>4. Exists(cat[Parent])
    BY <2>2 DEF DropRun, DropSound
  <2> QED  BY <2>1, <2>2, <2>3, <2>4, InitFrontier DEF DropInv
<1>2. DropInv /\ FrontierInv' /\ [Next]_vars => DropInv'
  <2> SUFFICES ASSUME DropInv, FrontierInv', [Next]_vars PROVE DropInv'
    OBVIOUS
  <2>1. CASE UNCHANGED vars
    BY <2>1 DEF vars, store, nodes, walk, DropInv, Dropped, Done, OursGone
  <2>2. CASE Next
    BY <2>2, DropStep
  <2> QED  BY <2>1, <2>2
<1>3. DropInv => NewDropRemoves
  BY DropLeft
<1> HIDE DEF DropInv
<1> QED  BY <1>1, <1>2, <1>3, FrontierInvariant, PTL DEF Spec

-----------------------------------------------------------------------------
(* A reindex-index over whatever a run has left *)

(* What ATTACH PARTITION is sent for is the index of a leaf.               *)
AttachesLeaves == \A n \in Node : Plan[n].kind = "attach" => Plan[n].object \in Leaf

(* The plans of the three planners attach nothing else (leafChain).        *)
LEMMA PlansAttachLeaves ==
  ASSUME RebuildsApart,
         \E c \in Catalog : \/ Plan = CreatePlan(c)
                            \/ \E claims : Plan = DropPlan(c, claims)
                            \/ Plan = ReindexPlan(c)
  PROVE  AttachesLeaves
<1> SUFFICES ASSUME NEW n \in Node, Plan[n].kind = "attach" PROVE Plan[n].object \in Leaf
  BY DEF AttachesLeaves
<1>1. Plan[n].kind \in DDLKinds /\ Plan[n].kind \in ClaimingKinds
  BY DEF DDLKinds, ClaimingKinds
<1>2. PICK c \in Catalog : \/ Plan = CreatePlan(c)
                          \/ \E claims : Plan = DropPlan(c, claims)
                          \/ Plan = ReindexPlan(c)
  OBVIOUS
<1>3. CASE Plan = CreatePlan(c)
  BY <1>1, <1>3, CreateStatements
<1>4. CASE \E claims : Plan = DropPlan(c, claims)
  BY <1>1, <1>4, DropStatements
<1>5. CASE Plan = ReindexPlan(c)
  BY <1>1, <1>5, ReindexStatements
<1> QED  BY <1>2, <1>3, <1>4, <1>5

(* No transient index of a rebuild hangs in the tree.                      *)
Loose == \A l \in Leaf : ~cat[Rebuilding[l]].attached

(* An index is attached by the statement that attaches it, and by no other.*)
LEMMA AttachedBy ==
  ASSUME cat \in Catalog, NEW p, p.object \in Object, p.other \in Object,
         NEW d \in Outcomes(p), NEW o \in Object, d[o].attached
  PROVE  cat[o].attached \/ (p.kind = "attach" /\ o = p.object)
<1>1. \A cond, maker : ~NewIndex(cond, maker).attached
  BY DEF NewIndex
<1>2. ~NoIndex.attached
  BY DEF NoIndex
<1>3. CASE d = cat
  BY <1>3
<1>4. CASE p.kind = "attach"
  <2> DEFINE e == [cat EXCEPT ![p.object].attached = TRUE]
  <2>1. d = cat \/ d = e \/ d = [e EXCEPT ![p.other].cond = "valid"]
    BY <1>4 DEF Outcomes, Committed, AttachChild, Wreckage, StillBuilding
  <2>2. o # p.object => /\ e[o].attached = cat[o].attached
                        /\ [e EXCEPT ![p.other].cond = "valid"][o].attached = cat[o].attached
    BY DEF Catalog, Index
  <2> QED  BY <1>4, <2>1, <2>2
<1>5. CASE d # cat /\ p.kind \in {"create_parent_invalid", "create_concurrently"}
  <2>1. \E cond : d = [cat EXCEPT ![p.object] = NewIndex(cond, "tool")]
    BY <1>5 DEF Outcomes, Committed, CreateParent, CreateConcurrently, Wreckage, StillBuilding
  <2> QED  BY <1>1, <2>1 DEF Catalog
<1>6. CASE d # cat /\ p.kind = "drop_concurrently"
  <2>1. \/ d = [cat EXCEPT ![p.object] = NoIndex]
        \/ d = [cat EXCEPT ![p.object].cond = "not_live"]
    BY <1>6 DEF Outcomes, Committed, DropConcurrently, Wreckage, StillBuilding
  <2> QED  BY <1>2, <2>1 DEF Catalog, Index
<1>7. CASE d # cat /\ p.kind = "reindex_concurrently"
  <2>1. \/ d = [cat EXCEPT ![p.object].cond = "valid"]
        \/ d = [cat EXCEPT ![p.other] = NewIndex("invalid", "tool")]
    BY <1>7 DEF Outcomes, Committed, Reindex, Wreckage, StillBuilding
  <2> QED  BY <1>1, <2>1 DEF Catalog, Index
<1>8. CASE d # cat /\ p.kind = "drop_partitioned"
  <2>1. d = [x \in Object |-> IF x = p.object \/ cat[x].attached THEN NoIndex ELSE cat[x]]
    BY <1>8 DEF Outcomes, Committed, DropPartitioned, Wreckage, StillBuilding
  <2> QED  BY <1>2, <2>1
<1> QED  BY <1>3, <1>4, <1>5, <1>6, <1>7, <1>8 DEF Outcomes, Committed, Wreckage, StillBuilding

(* No step of the run, nor of others, attaches a transient index.          *)
LEMMA LooseKept ==
  ASSUME RebuildsApart, AttachesLeaves, TypeInv, Next, Loose
  PROVE  Loose'
<1>0. /\ cat \in Catalog /\ Leaf \subseteq Object /\ Parent \in Object /\ Rebuilding \in [Leaf -> Object]
      /\ \A l \in Leaf : Rebuilding[l] \notin Leaf
  BY LeafFacts DEF TypeInv, TypeOK, RebuildsApart
<1> SUFFICES ASSUME NEW l \in Leaf, cat'[Rebuilding[l]].attached PROVE FALSE
  BY DEF Loose
<1>a. PICK o \in Object : o = Rebuilding[l] /\ o \notin Leaf /\ ~cat[o].attached /\ cat'[o].attached
  BY <1>0 DEF Loose
<1>1. CASE pc = "exec" /\ current.kind \in DDLKinds /\ cat' \in Outcomes(current)
  <2>1. pc \in NodePc /\ cur \in Node
    BY <1>1 DEF TypeInv, NodePc
  <2>2. current.object \in Object /\ current.other \in Object
    BY <2>1, PlanNodeType
  <2>3. current.kind = "attach" /\ current.object = o
    BY <1>0, <1>1, <1>a, <2>2, AttachedBy
  <2> QED  BY <1>a, <2>1, <2>3 DEF AttachesLeaves, current
<1>2. CASE pc = "cleanup_drop" /\ cat' \in Outcomes(CleanupStatement)
  <2>1. target \in Leaf
    BY <1>2 DEF TypeInv
  <2>2. /\ CleanupStatement.object \in Object /\ CleanupStatement.other \in Object
        /\ CleanupStatement.kind = "drop_concurrently"
    BY <1>0, <2>1 DEF CleanupStatement
  <2> QED  BY <1>0, <1>2, <1>a, <2>2, AttachedBy
<1>3. CASE \E x \in Object : Commenting(x)
  BY <1>0, <1>3, <1>a DEF Commenting, Catalog, Index
<1>4. CASE BackendFinishes
  <2>1. PICK x \in Object, as \in {"invalid", "valid"} : cat' = [cat EXCEPT ![x].cond = as]
    BY <1>4 DEF BackendFinishes
  <2> QED  BY <1>0, <1>a, <2>1 DEF Catalog, Index
<1>5. CASE Dba
  <2>1. PICK x \in Leaf : \A y \in Object : y # x => cat'[y] = cat[y]
    BY <1>0, <1>5 DEF Dba, Catalog
  <2> QED  BY <1>a, <2>1
<1>6. CASE cat' = cat
  BY <1>6, <1>a
<1> QED  BY <1>1, <1>2, <1>3, <1>4, <1>5, <1>6, CatalogSteps DEF Sent

(* Whatever a run leaves and others make of it, a new reindex-index plan   *)
(* is refused or goes through: what its final verification asks for is     *)
(* known before the first rebuild (resolveParentIndex, attachedChild,      *)
(* authorizeLeftover).                                                     *)
THEOREM ReindexIsNeverHopeless ==
  ASSUME RebuildsApart, AttachesLeaves, \A l \in Leaf : ~InitialCatalog[Rebuilding[l]].attached
  PROVE  Spec => []NoHopelessReindex
<1>1. Init => Loose
  BY DEF Init, Loose
<1>2. TypeInv /\ Loose /\ [Next]_vars => Loose'
  <2> SUFFICES ASSUME TypeInv, Loose, [Next]_vars PROVE Loose'
    OBVIOUS
  <2>1. CASE UNCHANGED vars
    BY <2>1 DEF vars, Loose
  <2>2. CASE Next
    BY <2>2, LooseKept
  <2> QED  BY <2>1, <2>2
<1>3. TypeInv /\ Loose => NoHopelessReindex
  <2> SUFFICES ASSUME TypeInv, Loose, ~ReindexRefused(cat) PROVE NoHopelessReindex
    BY DEF NoHopelessReindex
  <2>1. cat \in Catalog
    BY DEF TypeInv, TypeOK
  <2>2. ReindexSound(cat)
    BY DEF ReindexRefused, ReindexSound, Loose
  <2>3. Ours(cat, cat)
    BY DEF ReindexRefused, Ours, DecideLeftoverDrop
  <2> QED  BY <2>1, <2>2, <2>3, ReindexGoesThrough DEF NoHopelessReindex
<1>4. Spec => []TypeInv
  BY TypeInvariant
<1> HIDE DEF Loose
<1> QED  BY <1>1, <1>2, <1>3, <1>4, PTL DEF Spec

-----------------------------------------------------------------------------
(* What a run relies on of the names and the pauses *)

(* A walk that backs off waits the exponential delay under its cap, for    *)
(* every width of the machine and every policy (Delay, JitteredDelay).     *)
THEOREM WaitsStayCapped == Spec => []WaitsAreCapped
<1>1. WaitsAreCapped
  BY DelaysAreCapped DEF WaitsAreCapped
<1> QED  BY <1>1, PTL

(* Where an index is built, the names of the leaves' indexes were told     *)
(* apart, for every width of the catalog's names (ChildIndexName,          *)
(* ChildIndexNames).                                                       *)
THEOREM NamesStayApart == Spec => []ChildNamesApart
<1>1. ChildNamesApart
  BY ChildrenAreTold DEF ChildNamesApart
<1> QED  BY <1>1, PTL

(* Where a leftover is judged, its base is the index it was made from, for *)
(* every name and every tag (ResolveLeftoverBase, authorizeLeftover).      *)
THEOREM BasesStayFound == Spec => []LeftoverBasesFound
<1>1. LeftoverBasesFound
  BY BasesAreFound DEF LeftoverBasesFound
<1> QED  BY <1>1, PTL

=============================================================================
