------------------------- MODULE GlobalBarrierProofs -------------------------
(***************************************************************************)
(* The global barrier synchronises the clusters of any communicator, for   *)
(* every number of clusters and cores, all sizes of communicators (powers  *)
(* of two or not), every program of calls and both ways of waking.         *)
(*                                                                         *)
(* The invariant has a part for each layer.  ShapeInv: the hardware        *)
(* barriers keep the cores of a cluster in one call and on one side of its *)
(* first barrier, so the data movers stand for their clusters.  InterInv,  *)
(* about the data movers: nobody is through with a call before all members *)
(* sleep in it or are through too (SyncInv); that follows from what the    *)
(* counter counts (CountInv), so that the last one finds all others asleep *)
(* (ResetInv); the wake-ups still to be sent go to members asleep in the   *)
(* same call with no interrupt pending, and nobody else wakes them         *)
(* (WakeInv); so a pending interrupt is of the barrier its data mover is   *)
(* in (IntInv), and none sleeps a barrier too short.                       *)
(*                                                                         *)
(* What the counter counts is known only once core 0 has stored 0 in it;   *)
(* that it has, whenever a call uses it, is the barrier of all clusters in *)
(* the creating call (StoredBeforeUse): SyncInv of one communicator is     *)
(* what CountInv of another rests on.                                      *)
(*                                                                         *)
(* The enumeration of the submasks stays within the members for any size   *)
(* because a & b <= b (AndBound), by induction over the halves (UpTo).     *)
(*                                                                         *)
(* For sizes that are powers of two nobody is forgotten either.  A call    *)
(* that is not released has a member that is not asleep yet, because the   *)
(* last one to be counted in resets the counter (LateInv); once it is      *)
(* released, whoever sleeps without an interrupt pending is among those    *)
(* that the loop of snrt_wake_clusters still reaches (WokenInv), because   *)
(* an and with ones gives the other operand (AndOnes).                     *)
(***************************************************************************)
EXTENDS GlobalBarrier, FiniteSetTheorems, TLAPS

----------------------------------------------------------------------------
(* Arithmetic. *)

\* There are b + 1 numbers up to b.
LEMMA IntervalSize ==
    ASSUME NEW b \in Nat
    PROVE  IsFiniteSet(0 .. b) /\ Cardinality(0 .. b) = b + 1
<1>1. 0 \in Int /\ b \in Int /\ ~(0 > b) /\ b - 0 + 1 = b + 1
  OBVIOUS
<1>2. Cardinality(0 .. b) = IF 0 > b THEN 0 ELSE b - 0 + 1
  BY <1>1, FS_Interval
<1>3. IsFiniteSet(0 .. b)
  BY <1>1, FS_Interval
<1> QED
  BY <1>1, <1>2, <1>3

\* Induction up to n, for a set: the first number missing from S would follow
\* one that is not missing, so counting backwards maps the missing numbers
\* one-to-one into themselves, and onto; but nothing maps to the last one.
LEMMA UpTo ==
    ASSUME NEW n \in Nat, NEW S, 0 \in S, \A i \in 0 .. (n - 1) : i \in S => i + 1 \in S
    PROVE  n \in S
<1> SUFFICES ASSUME n \notin S PROVE FALSE
  OBVIOUS
<1> DEFINE T == {i \in 0 .. n : i \notin S}
           f == [i \in T |-> i - 1]
<1>1. IsFiniteSet(T)
  <2>1. IsFiniteSet(0 .. n) /\ T \in SUBSET (0 .. n)
    BY FS_Interval
  <2> QED
    BY <2>1, FS_Subset
<1>2. f \in Injection(T, T)
  <2>1. \A i \in T : i - 1 \in T
    <3>1. SUFFICES ASSUME NEW i \in T PROVE i - 1 \in T
      OBVIOUS
    <3>2. i \in 1 .. n /\ i - 1 \in 0 .. (n - 1) /\ (i - 1) + 1 = i
      OBVIOUS
    <3> QED
      BY <3>1, <3>2
  <2>2. \A i, j \in T : f[i] = f[j] => i = j
    OBVIOUS
  <2> HIDE DEF T
  <2> QED
    BY <2>1, <2>2 DEF Injection, IsInjective
<1>3. f \in Surjection(T, T)
  <2> HIDE DEF f, T
  <2> QED
    BY <1>1, <1>2, FS_Injection
<1>4. PICK i \in T : f[i] = n
  <2>1. n \in T
    OBVIOUS
  <2> HIDE DEF f, T
  <2> QED
    BY <1>3, <2>1 DEF Surjection
<1> QED
  BY <1>4

\* A half is smaller, and comes with a last bit.
LEMMA Halves ==
    \A n \in Nat : /\ n = 2 * (n \div 2) + (n % 2)
                   /\ n % 2 \in 0 .. 1 /\ n \div 2 \in Nat
                   /\ n > 0 => n \div 2 < n
<1>1. \A n \in Nat :
        n = 2 * (n \div 2) + (n % 2) /\ n % 2 \in 0 .. 1 /\ n \div 2 \in Nat
  OBVIOUS
<1>2. ASSUME NEW n \in Nat, n > 0 PROVE n \div 2 < n
  <2> DEFINE d == n \div 2
             r == n % 2
  <2>1. n = 2 * d + r /\ r \in 0 .. 1 /\ d \in Nat
    BY <1>1
  <2> HIDE DEF d, r
  <2>2. d < n
    BY <1>2, <2>1
  <2> QED
    BY <2>2 DEF d
<1> QED
  BY <1>1, <1>2

Pairs(a, b) == (0 .. a) \X (0 .. b)
Half(p) == <<p[1] \div 2, p[2] \div 2>>
LastBit(p) == (p[1] % 2) * (p[2] % 2)
IsAnd(f, D) == \A p \in D :
    f[p] = IF p[1] = 0 \/ p[2] = 0 THEN 0 ELSE LastBit(p) + 2 * f[Half(p)]

LEMMA HalfPair ==
    ASSUME NEW n \in Nat, NEW b \in Nat, NEW p \in Pairs(n + 1, b)
    PROVE  /\ LastBit(p) \in 0 .. 1 /\ LastBit(p) <= p[1] % 2 /\ LastBit(p) <= p[2] % 2
           /\ p[1] # 0 => Half(p) \in Pairs(n, b)
<1>1. p[1] \in 0 .. (n + 1) /\ p[2] \in 0 .. b
  BY DEF Pairs
<1>2. /\ p[1] % 2 \in 0 .. 1 /\ p[2] % 2 \in 0 .. 1
      /\ p[1] \div 2 \in Nat /\ p[2] \div 2 \in Nat
      /\ p[1] # 0 => p[1] \div 2 < p[1]
      /\ p[2] \div 2 <= p[2]
  BY <1>1, Halves
<1>3. p[1] # 0 => p[1] \div 2 \in 0 .. n
  BY <1>1, <1>2
<1>4. p[2] \div 2 \in 0 .. b
  BY <1>1, <1>2
<1>5. p[1] # 0 => Half(p) \in Pairs(n, b)
  BY <1>3, <1>4 DEF Half, Pairs
<1>6. /\ LastBit(p) \in 0 .. 1
      /\ LastBit(p) <= p[1] % 2 /\ LastBit(p) <= p[2] % 2
  <2>1. (p[1] % 2 = 0 \/ p[1] % 2 = 1) /\ (p[2] % 2 = 0 \/ p[2] % 2 = 1)
    BY <1>2
  <2> QED
    BY <2>1 DEF LastBit
<1> QED
  BY <1>5, <1>6

\* The recursion of And has a solution on any initial part of its domain.
LEMMA AndExists ==
    ASSUME NEW a \in Nat, NEW b \in Nat
    PROVE  \E f \in [Pairs(a, b) -> Nat] : IsAnd(f, Pairs(a, b))
<1> DEFINE S == {n \in 0 .. a : \E f \in [Pairs(n, b) -> Nat] : IsAnd(f, Pairs(n, b))}
<1>1. 0 \in S
  <2> DEFINE f == [p \in Pairs(0, b) |-> 0]
  <2>1. \A p \in Pairs(0, b) : p[1] = 0
    BY DEF Pairs
  <2>2. f \in [Pairs(0, b) -> Nat] /\ IsAnd(f, Pairs(0, b))
    BY <2>1 DEF IsAnd
  <2> QED
    BY <2>2
<1>2. ASSUME NEW n \in 0 .. (a - 1), n \in S PROVE n + 1 \in S
  <2>1. PICK f \in [Pairs(n, b) -> Nat] : IsAnd(f, Pairs(n, b))
    BY <1>2
  <2> DEFINE D == Pairs(n + 1, b)
             g == [p \in D |-> IF p[1] = 0 \/ p[2] = 0 THEN 0
                               ELSE LastBit(p) + 2 * f[Half(p)]]
  <2>2. \A p \in D : LastBit(p) \in Nat /\ (p[1] # 0 => Half(p) \in Pairs(n, b))
    BY HalfPair
  <2>3. g \in [D -> Nat]
    BY <2>2
  <2>4. \A p \in Pairs(n, b) : p \in D
    BY DEF Pairs
  <2>5. \A p \in Pairs(n, b) : f[p] = g[p]
    BY <2>1, <2>4 DEF IsAnd
  <2>6. IsAnd(g, D)
    <3>1. \A p \in D : p[1] # 0 => f[Half(p)] = g[Half(p)]
      BY <2>2, <2>5
    <3>2. \A p \in D : g[p] = IF p[1] = 0 \/ p[2] = 0 THEN 0 ELSE LastBit(p) + 2 * f[Half(p)]
      OBVIOUS
    <3> HIDE DEF g, D
    <3> QED
      BY <3>1, <3>2 DEF IsAnd
  <2> QED
    BY <2>3, <2>6
<1>3. a \in S
  <2> HIDE DEF S
  <2> QED
    BY <1>1, <1>2, UpTo
<1> QED
  BY <1>3

\* And(a, b) is the value of a function that satisfies the recursion.
LEMMA AndRecurses ==
    ASSUME NEW a \in Nat, NEW b \in Nat
    PROVE  \E f : And(a, b) = f[<<a, b>>] /\ IsAnd(f, Pairs(a, b))
<1> DEFINE D == Pairs(a, b)
           Body(h) == [p \in D |-> IF p[1] = 0 \/ p[2] = 0 THEN 0
                                   ELSE LastBit(p) + 2 * h[Half(p)]]
           f == CHOOSE h : h = Body(h)
<1>1. f = Body(f)
  <2>1. PICK g \in [D -> Nat] : IsAnd(g, D)
    BY AndExists
  <2>2. g = Body(g)
    BY <2>1 DEF IsAnd
  <2> QED
    BY <2>2
<1>2. And(a, b) = f[<<a, b>>]
  BY DEF And, Pairs, LastBit, Half
<1> HIDE DEF f
<1>3. IsAnd(f, D)
  BY <1>1 DEF IsAnd
<1> QED
  BY <1>2, <1>3

\* A bitwise and is no larger than either operand.
LEMMA AndBound ==
    ASSUME NEW a \in Nat, NEW b \in Nat
    PROVE  And(a, b) \in Nat /\ And(a, b) <= a /\ And(a, b) <= b
<1> DEFINE D == Pairs(a, b)
<1>1. PICK f : And(a, b) = f[<<a, b>>] /\ IsAnd(f, D)
  BY AndRecurses
<1>3. \A p \in D : f[p] = IF p[1] = 0 \/ p[2] = 0 THEN 0 ELSE LastBit(p) + 2 * f[Half(p)]
  BY <1>1 DEF IsAnd
<1> DEFINE S == {n \in 0 .. a : \A p \in Pairs(n, b) :
                    f[p] \in Nat /\ f[p] <= p[1] /\ f[p] <= p[2]}
<1>4. 0 \in S
  <2>1. \A p \in Pairs(0, b) : p[1] = 0 /\ p[2] \in Nat /\ p \in D
    BY DEF Pairs
  <2> QED
    BY <1>3, <2>1
<1>5. ASSUME NEW n \in 0 .. (a - 1), n \in S PROVE n + 1 \in S
  <2>1. SUFFICES ASSUME NEW p \in Pairs(n + 1, b)
                 PROVE  f[p] \in Nat /\ f[p] <= p[1] /\ f[p] <= p[2]
    OBVIOUS
  <2>2. p \in D /\ p[1] \in Nat /\ p[2] \in Nat
    BY DEF Pairs
  <2>3. CASE p[1] = 0 \/ p[2] = 0
    BY <1>3, <2>2, <2>3
  <2>4. CASE ~(p[1] = 0 \/ p[2] = 0)
    <3>1. Half(p) \in Pairs(n, b) /\ LastBit(p) \in 0 .. 1
          /\ LastBit(p) <= p[1] % 2 /\ LastBit(p) <= p[2] % 2
      BY <2>4, HalfPair
    <3>2. /\ f[Half(p)] \in Nat /\ f[Half(p)] <= p[1] \div 2
          /\ f[Half(p)] <= p[2] \div 2
      BY <1>5, <3>1 DEF Half
    <3>3. f[p] = LastBit(p) + 2 * f[Half(p)]
      BY <1>3, <2>2, <2>4
    <3>4. p[1] = 2 * (p[1] \div 2) + (p[1] % 2) /\ p[2] = 2 * (p[2] \div 2) + (p[2] % 2)
          /\ p[1] \div 2 \in Nat /\ p[2] \div 2 \in Nat /\ p[1] % 2 \in 0 .. 1 /\ p[2] % 2 \in 0 .. 1
      BY <2>2, Halves
    <3> DEFINE u == p[1] \div 2
               v == p[2] \div 2
               r == p[1] % 2
               s == p[2] % 2
    <3>5. /\ p[1] = 2 * u + r /\ p[2] = 2 * v + s /\ u \in Nat /\ v \in Nat
          /\ r \in 0 .. 1 /\ s \in 0 .. 1
          /\ LastBit(p) \in 0 .. 1 /\ LastBit(p) <= r /\ LastBit(p) <= s
          /\ f[Half(p)] \in Nat /\ f[Half(p)] <= u /\ f[Half(p)] <= v
      BY <3>1, <3>2, <3>4
    <3> HIDE DEF u, v, r, s
    <3> QED
      BY <3>3, <3>5
  <2> QED
    BY <2>3, <2>4
<1>6. a \in S
  <2> HIDE DEF S
  <2> QED
    BY <1>4, <1>5, UpTo
<1>7. <<a, b>> \in Pairs(a, b)
  BY DEF Pairs
<1> QED
  BY <1>1, <1>6, <1>7


\* A set with one more element has twice as many subsets.
LEMMA Double ==
    ASSUME NEW n \in Nat
    PROVE  2^n \in Nat \ {0} /\ 2^(n + 1) = 2 * 2^n
<1> DEFINE S == 1 .. n
           T == 1 .. (n + 1)
           With == [X \in SUBSET S |-> X \cup {n + 1}]
           New == {X \cup {n + 1} : X \in SUBSET S}
<1>1. /\ IsFiniteSet(S) /\ Cardinality(S) = n
      /\ IsFiniteSet(T) /\ Cardinality(T) = n + 1
  BY FS_Interval
<1>2. /\ IsFiniteSet(SUBSET S) /\ Cardinality(SUBSET S) = 2^n
      /\ Cardinality(SUBSET T) = 2^(n + 1)
  BY <1>1, FS_SUBSET
<1>3. n + 1 \notin S /\ T = S \cup {n + 1}
  OBVIOUS
<1>4. IsFiniteSet(New) /\ Cardinality(New) = Cardinality(SUBSET S)
  <2>1. With \in Bijection(SUBSET S, New)
    <3> HIDE DEF S
    <3>1. With \in [SUBSET S -> New]
      OBVIOUS
    <3>2. ASSUME NEW X \in SUBSET S, NEW Y \in SUBSET S, With[X] = With[Y] PROVE X = Y
      BY <1>3, <3>2
    <3>3. \A Y \in New : \E X \in SUBSET S : With[X] = Y
      OBVIOUS
    <3> QED
      BY <3>1, <3>2, <3>3 DEF Bijection, Injection, Surjection, IsInjective
  <2> HIDE DEF S, New, With
  <2> QED
    BY <1>2, <2>1, FS_Bijection DEF ExistsBijection
<1>5. SUBSET T = (SUBSET S) \cup New /\ (SUBSET S) \cap New = {}
  <2> HIDE DEF S, T
  <2>1. ASSUME NEW X \in SUBSET T, n + 1 \in X PROVE X \in New
    <3>1. X \ {n + 1} \in SUBSET S /\ X = (X \ {n + 1}) \cup {n + 1}
      BY <1>3, <2>1
    <3> QED
      BY <3>1
  <2>2. ASSUME NEW X \in New PROVE X \in SUBSET T /\ n + 1 \in X
    BY <1>3
  <2>3. SUBSET S \subseteq SUBSET T /\ \A X \in SUBSET S : n + 1 \notin X
    BY <1>3
  <2>4. \A X \in SUBSET T : n + 1 \notin X => X \in SUBSET S
    BY <1>3
  <2> HIDE DEF New
  <2> QED
    BY <2>1, <2>2, <2>3, <2>4
<1>6. Cardinality(SUBSET T) = Cardinality(SUBSET S) + Cardinality(New) - Cardinality({})
  <2> HIDE DEF S, T, New
  <2> QED
    BY <1>2, <1>4, <1>5, FS_Union
<1>7. Cardinality(SUBSET S) \in Nat /\ Cardinality(SUBSET S) # 0
  <2>1. {} \in SUBSET S
    OBVIOUS
  <2> HIDE DEF S
  <2> QED
    BY <1>2, <2>1, FS_CardinalityType, FS_EmptySet
<1> HIDE DEF S, T, New
<1> QED
  BY <1>2, <1>4, <1>6, <1>7, FS_EmptySet

\* The numbers all of whose bits are ones.
AllOnes(n) == \E k \in Nat : n = 2^k - 1

\* The last bit of such a number is one, and the rest is again such a number.
LEMMA AllOnesHalves ==
    ASSUME NEW n \in Nat \ {0}, AllOnes(n)
    PROVE  n % 2 = 1 /\ AllOnes(n \div 2)
<1>1. PICK k \in Nat : n = 2^k - 1
  BY DEF AllOnes
<1>2. k # 0
  <2>1. Cardinality(SUBSET {}) = 2^0
    BY FS_EmptySet, FS_SUBSET
  <2>2. SUBSET {} = {{}}
    OBVIOUS
  <2>3. 2^0 = 1
    BY <2>1, <2>2, FS_Singleton
  <2>4. k = 0 => 2^k - 1 = 0
    BY <2>3
  <2> QED
    BY <1>1, <2>4
<1> DEFINE h == 2^(k - 1)
<1>3. k - 1 \in Nat /\ (k - 1) + 1 = k
  BY <1>2
<1>4. h \in Nat \ {0} /\ 2^k = 2 * h
  BY <1>3, Double
<1> HIDE DEF h
<1>5. n = 2 * (h - 1) + 1 /\ h - 1 \in Nat
  BY <1>1, <1>4
<1>6. n % 2 = 1 /\ n \div 2 = h - 1
  BY <1>5
<1> QED
  BY <1>3, <1>6 DEF AllOnes, h

\* A bitwise and with ones everywhere gives the other operand.
LEMMA AndOnes ==
    ASSUME NEW a \in Nat, NEW b \in Nat
    PROVE  /\ AllOnes(b) /\ a <= b => And(a, b) = a
           /\ AllOnes(a) /\ b <= a => And(a, b) = b
<1> DEFINE D == Pairs(a, b)
           IsOther(f, p) == /\ AllOnes(p[2]) /\ p[1] <= p[2] => f[p] = p[1]
                            /\ AllOnes(p[1]) /\ p[2] <= p[1] => f[p] = p[2]
<1>1. PICK f : And(a, b) = f[<<a, b>>] /\ IsAnd(f, D)
  BY AndRecurses
<1>2. \A p \in D : f[p] = IF p[1] = 0 \/ p[2] = 0 THEN 0 ELSE LastBit(p) + 2 * f[Half(p)]
  BY <1>1 DEF IsAnd
<1> DEFINE S == {n \in 0 .. a : \A p \in Pairs(n, b) : IsOther(f, p)}
<1>3. ASSUME NEW p \in D, p[1] = 0 \/ p[2] = 0 PROVE IsOther(f, p)
  <2>1. p[1] \in Nat /\ p[2] \in Nat /\ f[p] = 0
    BY <1>2, <1>3 DEF Pairs
  <2> QED
    BY <1>3, <2>1
<1>4. 0 \in S
  <2>1. \A p \in Pairs(0, b) : p[1] = 0 /\ p \in D
    BY DEF Pairs
  <2> QED
    BY <1>3, <2>1
<1>5. ASSUME NEW n \in 0 .. (a - 1), n \in S PROVE n + 1 \in S
  <2>1. SUFFICES ASSUME NEW p \in Pairs(n + 1, b), p[1] # 0, p[2] # 0
                 PROVE  IsOther(f, p)
    <3>1. \A p \in Pairs(n + 1, b) : p \in D
      BY DEF Pairs
    <3> QED
      BY <1>3, <3>1
  <2> DEFINE u == p[1] \div 2
             v == p[2] \div 2
             q == p[1] % 2
             r == p[2] % 2
  <2>2. p \in D /\ p[1] \in Nat \ {0} /\ p[2] \in Nat \ {0}
    BY <2>1 DEF Pairs
  <2>3. /\ p[1] = 2 * u + q /\ q \in 0 .. 1 /\ u \in Nat
        /\ p[2] = 2 * v + r /\ r \in 0 .. 1 /\ v \in Nat
    BY <2>2, Halves
  <2>4. /\ AllOnes(p[1]) => q = 1 /\ AllOnes(u)
        /\ AllOnes(p[2]) => r = 1 /\ AllOnes(v)
    BY <2>2, AllOnesHalves
  <2>5. f[p] = q * r + 2 * f[Half(p)]
    BY <1>2, <2>1, <2>2 DEF LastBit
  <2>6. IsOther(f, Half(p)) /\ Half(p)[1] = u /\ Half(p)[2] = v
    BY <1>5, <2>1, HalfPair DEF Half
  <2>7. /\ AllOnes(v) /\ u <= v => f[Half(p)] = u
        /\ AllOnes(u) /\ v <= u => f[Half(p)] = v
    BY <2>6
  <2> HIDE DEF u, v, q, r
  <2>8. ASSUME AllOnes(p[2]), p[1] <= p[2] PROVE f[p] = p[1]
    <3>1. r = 1 /\ u <= v /\ q * r = q
      BY <2>3, <2>4, <2>8
    <3>2. f[Half(p)] = u
      BY <2>4, <2>7, <2>8, <3>1
    <3> QED
      BY <2>3, <2>5, <3>1, <3>2
  <2>9. ASSUME AllOnes(p[1]), p[2] <= p[1] PROVE f[p] = p[2]
    <3>1. q = 1 /\ v <= u /\ q * r = r
      BY <2>3, <2>4, <2>9
    <3>2. f[Half(p)] = v
      BY <2>4, <2>7, <2>9, <3>1
    <3> QED
      BY <2>3, <2>5, <3>1, <3>2
  <2> QED
    BY <2>8, <2>9
<1>6. a \in S
  <2> HIDE DEF S
  <2> QED
    BY <1>4, <1>5, UpTo
<1>7. <<a, b>> \in Pairs(a, b)
  BY DEF Pairs
<1>8. IsOther(f, <<a, b>>)
  BY <1>6, <1>7
<1> QED
  BY <1>1, <1>8
----------------------------------------------------------------------------
(* The masks of a communicator. *)

\* 2^Width is a positive number.
LEMMA WidthPower == 2^Width \in Nat \ {0}
<1>1. IsFiniteSet(1 .. Width) /\ Cardinality(1 .. Width) = Width
  BY FS_Interval, WidthAssumption
<1>2. 2^Width \in Nat
  <2>1. /\ Cardinality(SUBSET (1 .. Width)) = 2^Width
        /\ Cardinality(SUBSET (1 .. Width)) \in Nat
    BY <1>1, FS_SUBSET, FS_CardinalityType
  <2> QED
    BY <2>1
<1> QED
  BY <1>2, WidthAssumption, ClustersAssumption

\* The sizes and masks of communicators, and the calls of the program.
LEMMA Constants ==
    /\ \A m \in Comms : size[m] \in 1 .. C /\ mask(m) \in Nat
    /\ \A m \in Comms : 0 .. mask(m) = {c \in Clusters : is_participant(c, m)}
    /\ \A j \in 1 .. Len(Program) :
        Program[j].via \in Comms /\ Program[j].new \subseteq Comms
    /\ Len(Program) \in Nat
    /\ 0 \in Clusters /\ 0 \in Cores /\ DM \in Cores
<1>1. \A m \in Comms : size[m] \in 1 .. C /\ mask(m) \in Nat
  BY CommsAssumption, ClustersAssumption DEF mask
<1>2. ASSUME NEW m \in Comms
      PROVE  0 .. mask(m) = {c \in Clusters : is_participant(c, m)}
  BY <1>1, ClustersAssumption DEF mask, Clusters, is_participant
<1>3. /\ \A j \in 1 .. Len(Program) :
          Program[j].via \in Comms /\ Program[j].new \subseteq Comms
      /\ Len(Program) \in Nat
  <2> DEFINE R == [via : Comms, new : {{}} \cup {{m} : m \in Comms}]
  <2>1. Program \in Seq(R) /\ \A r \in R : r.via \in Comms /\ r.new \subseteq Comms
    BY ProgramAssumption
  <2> HIDE DEF R
  <2>2. Len(Program) \in Nat /\ \A j \in 1 .. Len(Program) : Program[j] \in R
    BY <2>1
  <2> QED
    BY <2>1, <2>2
<1>4. 0 \in Clusters /\ 0 \in Cores /\ DM \in Cores
  BY ClustersAssumption DEF Clusters, Cores, DM
<1> QED
  BY <1>1, <1>2, <1>3, <1>4

\* The enumeration of the submasks goes down, from the mask.
LEMMA NextSubmaskBound ==
    ASSUME NEW s \in Nat, NEW m \in Comms
    PROVE  /\ NextSubmask(s, m) \in 0 .. mask(m)
           /\ s > 0 => NextSubmask(s, m) < s
<1> DEFINE w == 2^Width
           r == (s - 1) % w
<1>1. w \in Nat \ {0} /\ mask(m) \in Nat
  BY WidthPower, Constants
<1> HIDE DEF w
<1>2. r \in Nat /\ (s > 0 => r <= s - 1)
  <2>1. \A a \in Int : a % w \in Nat
    BY <1>1
  <2>2. \A a \in Nat : a % w <= a
    <3>1. SUFFICES ASSUME NEW a \in Nat PROVE a % w <= a
      OBVIOUS
    <3>2. a = w * (a \div w) + (a % w) /\ a \div w \in Nat
      BY <1>1
    <3>3. w * (a \div w) \in Nat
      BY <1>1, <3>2
    <3> QED
      BY <2>1, <3>2, <3>3
  <2> QED
    BY <2>1, <2>2
<1>3. NextSubmask(s, m) = And(r, mask(m))
  BY DEF NextSubmask, w
<1> HIDE DEF r
<1>4. And(r, mask(m)) \in Nat /\ And(r, mask(m)) <= r /\ And(r, mask(m)) <= mask(m)
  BY <1>1, <1>2, AndBound
<1> QED
  BY <1>1, <1>2, <1>3, <1>4

\* A multicast write reaches participants only.
LEMMA McastBound ==
    ASSUME NEW m \in Comms
    PROVE  McastTargets(m) \subseteq 0 .. mask(m) /\ McastTargets(m) \subseteq Clusters
<1>1. \A i \in Clusters : i \in Nat /\ And(i, mask(m)) <= mask(m)
  <2>1. mask(m) \in Nat /\ \A i \in Clusters : i \in Nat
    BY Constants, ClustersAssumption DEF Clusters
  <2> QED
    BY <2>1, AndBound
<1> QED
  BY <1>1, Constants DEF McastTargets

\* The communicators that snrt_wake_clusters is made for.
PowersOfTwo == \A m \in Comms : \E k \in Nat : size[m] = 2^k

\* With such a communicator the enumeration visits every number up to the mask.
LEMMA NextSubmaskIs ==
    ASSUME PowersOfTwo, NEW m \in Comms, NEW s \in 0 .. mask(m)
    PROVE  NextSubmask(s, m) = IF s = 0 THEN mask(m) ELSE s - 1
<1> DEFINE w == 2^Width
           b == mask(m)
<1>1. w \in Nat \ {0} /\ b \in Nat /\ b <= w - 1
  <2>1. w \in Nat \ {0} /\ C \in Nat /\ C <= w
    BY WidthPower, WidthAssumption, ClustersAssumption
  <2>2. size[m] \in 1 .. C /\ b = size[m] - 1
    BY Constants DEF mask
  <2> HIDE DEF w, b
  <2> QED
    BY <2>1, <2>2
<1>2. AllOnes(b) /\ AllOnes(w - 1)
  BY WidthAssumption DEF AllOnes, PowersOfTwo, mask
<1>3. NextSubmask(s, m) = And((s - 1) % w, b)
  BY DEF NextSubmask
<1> HIDE DEF w, b
<1>4. CASE s = 0
  <2>1. (s - 1) % w = w - 1 /\ w - 1 \in Nat
    BY <1>1, <1>4
  <2>2. And(w - 1, b) = b
    BY <1>1, <1>2, <2>1, AndOnes
  <2> QED
    BY <1>3, <1>4, <2>1, <2>2 DEF b
<1>5. CASE s # 0
  <2>1. s - 1 \in Nat /\ s - 1 <= b
    BY <1>1, <1>5 DEF b
  <2>2. (s - 1) % w = s - 1
    BY <1>1, <2>1
  <2>3. And(s - 1, b) = s - 1
    BY <1>1, <1>2, <2>1, AndOnes
  <2> QED
    BY <1>3, <1>5, <2>2, <2>3
<1> QED
  BY <1>4, <1>5

\* ... and a multicast write reaches all participants.
LEMMA McastTargetsAre ==
    ASSUME PowersOfTwo, NEW m \in Comms
    PROVE  McastTargets(m) = 0 .. mask(m)
<1>1. mask(m) \in Nat /\ AllOnes(mask(m))
  BY Constants DEF AllOnes, PowersOfTwo, mask
<1>2. \A i \in 0 .. mask(m) : i \in Clusters /\ And(i, mask(m)) = i
  <2>1. SUFFICES ASSUME NEW i \in 0 .. mask(m) PROVE And(i, mask(m)) = i
    BY Constants
  <2>2. i \in Nat /\ i <= mask(m)
    OBVIOUS
  <2> QED
    BY <1>1, <2>2, AndOnes
<1> QED
  BY <1>2, McastBound DEF McastTargets

----------------------------------------------------------------------------
(* Inside a cluster. *)

Inner == {"add", "reset", "wfi", "wake", "clr"}
After == Inner \cup {"hw2", "stall2"}
Labels == {"out", "store", "hw1", "stall1"} \cup After

TypeInv ==
    /\ pc \in [Clusters \X Cores -> Labels]
    /\ call \in [Clusters \X Cores -> 0 .. Len(Program)]
    /\ ret \in [Clusters \X Cores -> Nat]
    /\ arrival \in [Clusters -> SUBSET Cores]
    /\ cnt \in [Comms -> Nat]
    /\ mcip \in [Clusters -> BOOLEAN]
    /\ submask \in [Clusters -> Nat]
    /\ todo \in [Clusters -> SUBSET Clusters]
    /\ multicast \in BOOLEAN

\* The cores of a cluster are in the same call, and on the same side of its
\* first hardware barrier; only the data mover is in the inter-cluster part.
ShapeInv ==
    /\ \A c \in Clusters, k \in Cores :
        /\ call[<<c, k>>] = IF pc[<<c, k>>] = "out" THEN ret[<<c, k>>]
                                                    ELSE ret[<<c, k>>] + 1
        /\ pc[<<c, k>>] = "store" => c = 0 /\ k = 0
        /\ pc[<<c, k>>] \in Inner => k = DM /\ is_participant(c, Via(c))
        /\ k \in arrival[c] <=> pc[<<c, k>>] \in {"stall1", "stall2"}
    /\ \A c \in Clusters, k, l \in Cores :
        /\ ret[<<c, k>>] = ret[<<c, l>>]
        /\ pc[<<c, k>>] \in After => pc[<<c, l>>] \in After

\* One core moves.
LEMMA MoveOne ==
    ASSUME TypeInv, NEW c \in Clusters, NEW k \in Cores,
           NEW from, NEW to \in Labels, Goto(<<c, k>>, from, to)
    PROVE  /\ pc[<<c, k>>] = from
           /\ pc' \in [Clusters \X Cores -> Labels]
           /\ \A d \in Clusters, l \in Cores :
               pc'[<<d, l>>] = IF d = c /\ l = k THEN to ELSE pc[<<d, l>>]
BY DEF TypeInv, Goto

\* One core moves without crossing a hardware barrier or the end of the call.
LEMMA ShapeKept ==
    ASSUME TypeInv, ShapeInv, NEW c \in Clusters, NEW k \in Cores,
           NEW from \in Labels, NEW to \in Labels, Goto(<<c, k>>, from, to),
           UNCHANGED <<call, ret, arrival>>,
           from \in After <=> to \in After,
           from \notin {"out", "stall1", "stall2"},
           to \notin {"out", "stall1", "stall2", "store"},
           to \in Inner => k = DM /\ is_participant(c, Via(c))
    PROVE  ShapeInv'
<1>1. /\ \A d \in Clusters, l \in Cores :
            pc'[<<d, l>>] = IF d = c /\ l = k THEN to ELSE pc[<<d, l>>]
      /\ pc[<<c, k>>] = from
  BY DEF Goto, TypeInv
<1>2. \A d \in Clusters : Via(d)' = Via(d)
  BY DEF Via
<1>3. \A d \in Clusters, l \in Cores :
        pc'[<<d, l>>] \in After <=> pc[<<d, l>>] \in After
  BY <1>1
<1>4. ASSUME NEW d \in Clusters, NEW l \in Cores
      PROVE  /\ call'[<<d, l>>] = IF pc'[<<d, l>>] = "out" THEN ret'[<<d, l>>]
                                                         ELSE ret'[<<d, l>>] + 1
             /\ pc'[<<d, l>>] = "store" => d = 0 /\ l = 0
             /\ pc'[<<d, l>>] \in Inner => l = DM /\ is_participant(d, Via(d))
             /\ l \in arrival'[d] <=> pc'[<<d, l>>] \in {"stall1", "stall2"}
  <2>1. CASE d = c /\ l = k
    BY <1>1, <2>1 DEF ShapeInv
  <2>2. CASE ~(d = c /\ l = k)
    <3>1. pc'[<<d, l>>] = pc[<<d, l>>]
      BY <1>1, <2>2
    <3> QED
      BY <3>1 DEF ShapeInv
  <2> QED
    BY <2>1, <2>2
<1>5. \A d \in Clusters, j, l \in Cores :
        /\ ret'[<<d, j>>] = ret'[<<d, l>>]
        /\ pc'[<<d, j>>] \in After => pc'[<<d, l>>] \in After
  BY <1>3 DEF ShapeInv
<1> QED
  BY <1>2, <1>4, <1>5 DEF ShapeInv, is_participant

\* The shape is kept by the steps of all cores.
LEMMA ShapeStep ==
    ASSUME TypeInv, ShapeInv, [Next]_vars
    PROVE  TypeInv' /\ ShapeInv'
<1> USE Constants DEF TypeInv, Labels, After, Inner
<1>1. CASE UNCHANGED vars
  BY <1>1 DEF vars, Via, is_participant, ShapeInv
<1>2. ASSUME NEW x \in Clusters \X Cores, Begin(x) PROVE TypeInv' /\ ShapeInv'
  <2>1. PICK c \in Clusters, k \in Cores : x = <<c, k>>
    OBVIOUS
  <2>2. PICK to \in {"store", "hw1"} : /\ Goto(<<c, k>>, "out", to)
                                       /\ to = "store" => x = <<0, 0>>
    BY <1>2, <2>1 DEF Begin
  <2>3. /\ \A d \in Clusters, l \in Cores :
            pc'[<<d, l>>] = IF d = c /\ l = k THEN to ELSE pc[<<d, l>>]
        /\ pc[<<c, k>>] = "out" /\ pc' \in [Clusters \X Cores -> Labels]
    BY <2>2, MoveOne
  <2>4. /\ call[<<c, k>>] < Len(Program)
        /\ call' = [call EXCEPT ![<<c, k>>] = @ + 1]
        /\ UNCHANGED <<ret, arrival, cnt, mcip, submask, todo, multicast>>
    BY <1>2, <2>1 DEF Begin
  <2>5. \A d \in Clusters, l \in Cores : call'[<<d, l>>] =
            IF d = c /\ l = k THEN call[<<d, l>>] + 1 ELSE call[<<d, l>>]
    BY <2>4
  <2>6. TypeInv'
    BY <2>3, <2>4
  <2>7. \A d \in Clusters : pc'[<<d, DM>>] \in Inner => Via(d)' = Via(d)
    BY <2>3, <2>5 DEF Via
  <2>8. (c = 0 /\ k = 0) \/ to = "hw1"
    BY <2>1, <2>2
  <2>9. ASSUME NEW d \in Clusters, NEW l \in Cores
        PROVE  /\ call'[<<d, l>>] = IF pc'[<<d, l>>] = "out" THEN ret'[<<d, l>>]
                                                           ELSE ret'[<<d, l>>] + 1
               /\ pc'[<<d, l>>] = "store" => d = 0 /\ l = 0
               /\ pc'[<<d, l>>] \in Inner => l = DM /\ is_participant(d, Via(d)')
               /\ l \in arrival'[d] <=> pc'[<<d, l>>] \in {"stall1", "stall2"}
    <3>1. CASE d = c /\ l = k
      <4>1. pc'[<<d, l>>] = to /\ call'[<<d, l>>] = call[<<d, l>>] + 1
        BY <2>3, <2>5, <3>1
      <4>2. call[<<d, l>>] = ret[<<d, l>>] /\ l \notin arrival[d]
        BY <2>3, <3>1 DEF ShapeInv
      <4>3. to \in {"store", "hw1"} /\ (to = "store" => d = 0 /\ l = 0)
        BY <2>8, <3>1
      <4> QED
        BY <2>4, <4>1, <4>2, <4>3
    <3>2. CASE ~(d = c /\ l = k)
      <4>1. pc'[<<d, l>>] = pc[<<d, l>>] /\ call'[<<d, l>>] = call[<<d, l>>]
        BY <2>3, <2>5, <3>2
      <4>2. /\ pc[<<d, l>>] = "store" => d = 0 /\ l = 0
            /\ pc[<<d, l>>] \in Inner => l = DM /\ is_participant(d, Via(d))
            /\ l \in arrival[d] <=> pc[<<d, l>>] \in {"stall1", "stall2"}
            /\ call[<<d, l>>] = IF pc[<<d, l>>] = "out" THEN ret[<<d, l>>]
                                                       ELSE ret[<<d, l>>] + 1
        BY DEF ShapeInv
      <4>3. pc'[<<d, l>>] \in Inner => is_participant(d, Via(d)')
        BY <2>7, <4>1, <4>2
      <4> QED
        BY <2>4, <4>1, <4>2, <4>3
    <3> QED
      BY <3>1, <3>2
  <2>10. \A d \in Clusters, j, l \in Cores :
          /\ ret'[<<d, j>>] = ret'[<<d, l>>]
          /\ pc'[<<d, j>>] \in After => pc'[<<d, l>>] \in After
    <3>1. \A d \in Clusters, l \in Cores :
            pc'[<<d, l>>] \in After <=> pc[<<d, l>>] \in After
      BY <2>3
    <3> HIDE DEF After, Labels, Inner, TypeInv
    <3>2. ret' = ret
      BY <2>4
    <3>3. \A d \in Clusters, j, l \in Cores :
            ret[<<d, j>>] = ret[<<d, l>>] /\ (pc[<<d, j>>] \in After => pc[<<d, l>>] \in After)
      BY DEF ShapeInv
    <3> QED
      BY <3>1, <3>2, <3>3
  <2> HIDE DEF After, Labels, Inner, TypeInv
  <2> QED
    BY <2>6, <2>9, <2>10 DEF ShapeInv, is_participant
<1>3. CASE Store
  <2>1. Goto(<<0, 0>>, "store", "hw1") /\ UNCHANGED <<call, ret, arrival>>
    BY <1>3 DEF Store
  <2>2. ShapeInv'
    BY <2>1, ShapeKept
  <2> QED
    BY <1>3, <2>1, <2>2, MoveOne DEF Store
<1>4. ASSUME NEW x \in Clusters \X Cores, Arrive(x) PROVE TypeInv' /\ ShapeInv'
  <2>1. PICK c \in Clusters, k \in Cores : x = <<c, k>>
    OBVIOUS
  <2>2. \/ Goto(<<c, k>>, "hw1", "stall1")
        \/ Goto(<<c, k>>, "hw2", "stall2")
    BY <1>4, <2>1 DEF Arrive
  <2>3. PICK to \in {"stall1", "stall2"} :
          /\ \A d \in Clusters, l \in Cores :
              pc'[<<d, l>>] = IF d = c /\ l = k THEN to ELSE pc[<<d, l>>]
          /\ pc[<<c, k>>] = IF to = "stall1" THEN "hw1" ELSE "hw2"
          /\ pc' \in [Clusters \X Cores -> Labels]
    BY <2>2, MoveOne
  <2>4. /\ arrival' = [arrival EXCEPT ![c] = @ \cup {k}]
        /\ UNCHANGED <<call, ret, cnt, mcip, submask, todo, multicast>>
    BY <1>4, <2>1 DEF Arrive
  <2>5. \A d \in Clusters : Via(d)' = Via(d)
    BY <2>4 DEF Via
  <2>6. \A d \in Clusters, l \in Cores :
          l \in arrival'[d] <=> l \in arrival[d] \/ (d = c /\ l = k)
    BY <2>4
  <2>7. TypeInv'
    BY <2>3, <2>4
  <2>8. ASSUME NEW d \in Clusters, NEW l \in Cores
        PROVE  /\ call'[<<d, l>>] = IF pc'[<<d, l>>] = "out" THEN ret'[<<d, l>>]
                                                           ELSE ret'[<<d, l>>] + 1
               /\ pc'[<<d, l>>] = "store" => d = 0 /\ l = 0
               /\ pc'[<<d, l>>] \in Inner => l = DM /\ is_participant(d, Via(d))
               /\ l \in arrival'[d] <=> pc'[<<d, l>>] \in {"stall1", "stall2"}
    <3>1. CASE d = c /\ l = k
      BY <2>3, <2>4, <2>6, <3>1 DEF ShapeInv
    <3>2. CASE ~(d = c /\ l = k)
      <4>1. pc'[<<d, l>>] = pc[<<d, l>>] /\ (l \in arrival'[d] <=> l \in arrival[d])
        BY <2>3, <2>6, <3>2
      <4> QED
        BY <2>4, <4>1 DEF ShapeInv
    <3> QED
      BY <3>1, <3>2
  <2>9. \A d \in Clusters, j, l \in Cores :
          /\ ret'[<<d, j>>] = ret'[<<d, l>>]
          /\ pc'[<<d, j>>] \in After => pc'[<<d, l>>] \in After
    <3>1. \A d \in Clusters, l \in Cores :
            pc'[<<d, l>>] \in After <=> pc[<<d, l>>] \in After
      BY <2>3
    <3> HIDE DEF After, Labels, Inner, TypeInv
    <3>2. ret' = ret
      BY <2>4
    <3>3. \A d \in Clusters, j, l \in Cores :
            ret[<<d, j>>] = ret[<<d, l>>] /\ (pc[<<d, j>>] \in After => pc[<<d, l>>] \in After)
      BY DEF ShapeInv
    <3> QED
      BY <3>1, <3>2, <3>3
  <2> HIDE DEF After, Labels, Inner, TypeInv
  <2> QED
    BY <2>5, <2>7, <2>8, <2>9 DEF ShapeInv, is_participant
<1>5. ASSUME NEW c \in Clusters, Release(c) PROVE TypeInv' /\ ShapeInv'
  BY <1>5 DEF ShapeInv, Release, Resume, Via
<1>6. ASSUME NEW c \in Clusters, InterCluster(c) PROVE TypeInv' /\ ShapeInv'
  <2>1. PICK from \in Inner, to \in After :
          Goto(<<c, DM>>, from, to) /\ UNCHANGED <<call, ret, arrival, multicast>>
    BY <1>6 DEF InterCluster, Add, Reset, WakeOne, WakeMulticast, Wfi, Clr, Goto
  <2>2. to # "stall2"
    BY <1>6, <2>1 DEF InterCluster, Add, Reset, WakeOne, WakeMulticast, Wfi, Clr, Goto
  <2>3. ShapeInv'
    <3>1. pc[<<c, DM>>] = from
      BY <2>1, MoveOne
    <3>2. is_participant(c, Via(c))
      BY <2>1, <3>1 DEF ShapeInv
    <3> QED
      BY <2>1, <2>2, <3>2, ShapeKept
  <2>4. pc' \in [Clusters \X Cores -> Labels]
    BY <2>1, MoveOne
  <2>5. /\ cnt' \in [Comms -> Nat] /\ mcip' \in [Clusters -> BOOLEAN]
        /\ submask' \in [Clusters -> Nat] /\ todo' \in [Clusters -> SUBSET Clusters]
    <3>1. Via(c) \in Comms
      <4>1. pc[<<c, DM>>] = from /\ from # "out"
        BY <2>1, MoveOne
      <4>2. call[<<c, DM>>] = ret[<<c, DM>>] + 1 /\ ret[<<c, DM>>] \in Nat
        BY <4>1 DEF ShapeInv
      <4>3. call[<<c, DM>>] \in 1 .. Len(Program)
        BY <4>2
      <4> QED
        BY <4>3 DEF Via
    <3>2. CASE Add(c)
      BY <3>1, <3>2 DEF Add
    <3>3. CASE Reset(c)
      BY <3>1, <3>3, McastBound DEF Reset
    <3>4. CASE WakeOne(c)
      <4>1. NextSubmask(submask[c], Via(c)) \in Nat
        BY <3>1, NextSubmaskBound
      <4> QED
        BY <3>4, <4>1 DEF WakeOne
    <3>5. CASE Wfi(c) \/ Clr(c)
      BY <3>5 DEF Wfi, Clr
    <3>6. ASSUME NEW i \in Clusters, WakeMulticast(c, i)
          PROVE  /\ cnt' = cnt /\ submask' = submask
                 /\ mcip' \in [Clusters -> BOOLEAN]
                 /\ todo' \in [Clusters -> SUBSET Clusters]
      BY <3>6 DEF WakeMulticast
    <3> QED
      BY <1>6, <3>2, <3>3, <3>4, <3>5, <3>6 DEF InterCluster
  <2> QED
    BY <2>1, <2>3, <2>4, <2>5
<1> QED
  BY <1>1, <1>2, <1>3, <1>4, <1>5, <1>6 DEF Next, InBarrier

----------------------------------------------------------------------------
(* Between clusters.  What follows speaks of the data movers only.          *)

place(c) == pc[<<c, DM>>]
calls(c) == call[<<c, DM>>]
rets(c) == ret[<<c, DM>>]

Calls == 1 .. Len(Program)
Participants(j) == {c \in Clusters : is_participant(c, Program[j].via)}
Busy == {"reset", "wfi", "wake", "clr"}

\* Cluster c is through with the counting of call j, and some member is.
Passed(c, j) ==
    rets(c) >= j \/ (calls(c) = j /\ place(c) \in {"wake", "clr", "hw2", "stall2"})
Released(j) == \E c \in Participants(j) : Passed(c, j)

\* Nobody is through before every member has counted itself in.
SyncInv ==
    \A j \in Calls : \A c, i \in Participants(j) :
        Passed(c, j) => Passed(i, j) \/ (calls(i) = j /\ place(i) = "wfi")

\* Core 0 has stored 0 in the counter of m, if that is left to it.
Stored(m) ==
    \A i \in Calls : m \in Program[i].new =>
        \/ ret[<<0, 0>>] >= i
        \/ call[<<0, 0>>] = i /\ pc[<<0, 0>>] \notin {"out", "store"}

\* The counter counts the clusters that have been counted in and not released.
Counted(m) == {c \in Clusters : /\ place(c) \in {"wfi", "reset"}
                                /\ Program[calls(c)].via = m
                                /\ ~Released(calls(c))}
CountInv == \A m \in Comms : Stored(m) => cnt[m] = Cardinality(Counted(m))

\* The last to be counted in finds all the others asleep, in the same call.
ResetInv ==
    \A c \in Clusters : place(c) = "reset" =>
        /\ ~Released(calls(c))
        /\ \A i \in Participants(calls(c)) \ {c} :
            place(i) = "wfi" /\ calls(i) = calls(c)

\* The clusters that the waking one may still wake are asleep, in its call,
\* and nobody else wakes them.
Remaining(c) ==
    IF multicast THEN todo[c]
    ELSE IF submask[c] = 0 THEN 0 .. mask(Program[calls(c)].via) ELSE 1 .. submask[c]
WakeInv ==
    \A c \in Clusters : place(c) = "wake" =>
        /\ Remaining(c) \subseteq Clusters
        /\ ~multicast => submask[c] \in 0 .. mask(Program[calls(c)].via)
        /\ \A i \in Remaining(c) \ {c} :
            place(i) = "wfi" /\ calls(i) = calls(c) /\ ~mcip[i]
        /\ \A i \in Clusters : place(i) = "wake" /\ calls(i) = calls(c) => i = c

\* A pending interrupt belongs to the call.
IntInv ==
    \A c \in Clusters : mcip[c] =>
        /\ place(c) \in {"wfi", "wake", "clr"}
        /\ place(c) = "wfi" => Released(calls(c))

InterInv == SyncInv /\ CountInv /\ ResetInv /\ WakeInv /\ IntInv

\* What the shape says of a data mover.
LEMMA MoverFacts ==
    ASSUME TypeInv, ShapeInv, NEW c \in Clusters
    PROVE  /\ place(c) \in Labels /\ calls(c) \in Nat /\ rets(c) \in Nat
           /\ calls(c) <= Len(Program)
           /\ calls(c) = IF place(c) = "out" THEN rets(c) ELSE rets(c) + 1
           /\ place(c) \in Inner => c \in Participants(calls(c))
           /\ place(c) # "out" => calls(c) \in Calls /\ Program[calls(c)].via \in Comms
<1>1. DM \in Cores /\ Len(Program) \in Nat
      /\ \A j \in Calls : Program[j].via \in Comms
  BY Constants DEF Calls
<1>2. /\ place(c) \in Labels /\ calls(c) \in 0 .. Len(Program) /\ rets(c) \in Nat
  BY <1>1 DEF TypeInv, place, calls, rets
<1>3. /\ calls(c) = IF place(c) = "out" THEN rets(c) ELSE rets(c) + 1
      /\ place(c) \in Inner => c \in Participants(calls(c))
  BY <1>1 DEF ShapeInv, place, calls, rets, Participants, Via
<1> QED
  BY <1>1, <1>2, <1>3 DEF Calls

\* A counter is used only after core 0 has stored 0 in it: the creating call
\* passes a barrier of all clusters, and nobody knows the counter before.
LEMMA StoredBeforeUse ==
    ASSUME TypeInv, ShapeInv, SyncInv, NEW c \in Clusters, place(c) # "out"
    PROVE  Stored(Program[calls(c)].via)
<1> DEFINE m == Program[calls(c)].via
<1>1. SUFFICES ASSUME NEW i \in Calls, m \in Program[i].new
               PROVE  \/ ret[<<0, 0>>] >= i
                      \/ call[<<0, 0>>] = i /\ pc[<<0, 0>>] \notin {"out", "store"}
  BY DEF Stored
<1>2. Participants(i) = Clusters
  <2>1. size[Program[i].via] = C
    BY <1>1, CreationAssumption DEF Calls
  <2>2. \A d \in Clusters : d < C
    BY ClustersAssumption DEF Clusters
  <2> QED
    BY <2>1, <2>2 DEF Participants, is_participant
<1>3. calls(c) > i
  BY <1>1, CreationAssumption, MoverFacts DEF Calls
<1>4. Passed(c, i)
  <2>1. calls(c) \in Nat /\ rets(c) \in Nat /\ calls(c) = rets(c) + 1
    BY MoverFacts
  <2>2. i \in Nat
    BY DEF Calls
  <2> QED
    BY <1>3, <2>1, <2>2 DEF Passed
<1>5. Passed(0, i) \/ (calls(0) = i /\ place(0) = "wfi")
  BY <1>2, <1>4, Constants DEF SyncInv
<1>6. /\ ret[<<0, 0>>] = rets(0) /\ rets(0) \in Nat
      /\ place(0) \in After => pc[<<0, 0>>] \in After
      /\ pc[<<0, 0>>] # "out" => call[<<0, 0>>] = ret[<<0, 0>>] + 1
      /\ place(0) # "out" => calls(0) = rets(0) + 1
  BY Constants, MoverFacts DEF ShapeInv, rets, place
<1>7. CASE rets(0) >= i
  BY <1>6, <1>7
<1>8. CASE calls(0) = i /\ place(0) \in After
  BY <1>6, <1>8 DEF After, Inner
<1> QED
  BY <1>5, <1>7, <1>8 DEF Passed, After, Inner

\* What a step outside the inter-cluster part leaves to the data movers.
Quiet ==
    /\ UNCHANGED <<mcip, submask, todo, multicast>>
    /\ \A c \in Clusters :
        /\ place(c)' \in Busy <=> place(c) \in Busy
        /\ place(c) \in Busy => place(c)' = place(c) /\ calls(c)' = calls(c)
    /\ \A j \in Calls : \A c \in Participants(j) : Passed(c, j)' <=> Passed(c, j)

\* The steps of a call that are not between clusters are quiet.
LEMMA QuietSteps ==
    ASSUME TypeInv, ShapeInv,
           \/ UNCHANGED vars \/ Store
           \/ \E x \in Clusters \X Cores : Begin(x) \/ Arrive(x)
           \/ \E c \in Clusters : Release(c)
    PROVE  /\ Quiet
           /\ ~Store => cnt' = cnt /\ \A m \in Comms : Stored(m)' => Stored(m)
<1> USE Constants
<1>1. \A c \in Clusters :
        /\ place(c) \in Labels /\ calls(c) \in Nat /\ rets(c) \in Nat
        /\ calls(c) = IF place(c) = "out" THEN rets(c) ELSE rets(c) + 1
  BY MoverFacts
<1>2. /\ ret[<<0, 0>>] \in Nat /\ call[<<0, 0>>] \in Nat
      /\ call[<<0, 0>>] = IF pc[<<0, 0>>] = "out" THEN ret[<<0, 0>>] ELSE ret[<<0, 0>>] + 1
  BY DEF TypeInv, ShapeInv
<1>3. CASE UNCHANGED vars
  BY <1>3 DEF vars, Quiet, Passed, Stored, place, calls, rets
<1>4. CASE Store
  <2>1. \A c \in Clusters : /\ calls(c)' = calls(c) /\ rets(c)' = rets(c)
                            /\ place(c)' = place(c) \/ (place(c) = "store" /\ place(c)' = "hw1")
    BY <1>4 DEF Store, Goto, TypeInv, place, calls, rets
  <2> QED
    BY <1>4, <2>1 DEF Store, Quiet, Passed, Busy, Participants
<1>5. ASSUME NEW x \in Clusters \X Cores, Begin(x)
      PROVE  Quiet /\ cnt' = cnt /\ \A m \in Comms : Stored(m)' => Stored(m)
  <2>1. PICK d \in Clusters, k \in Cores : x = <<d, k>>
    OBVIOUS
  <2>2. PICK to \in {"store", "hw1"} :
          /\ pc[<<d, k>>] = "out"
          /\ pc' = [pc EXCEPT ![<<d, k>>] = to]
          /\ call' = [call EXCEPT ![<<d, k>>] = @ + 1] /\ ret' = ret
          /\ x = <<0, 0>> /\ Program[call[x] + 1].new # {} => to = "store"
    BY <1>5, <2>1 DEF Begin, Goto
  <2>3. \A c \in Clusters :
          \/ place(c)' = place(c) /\ calls(c)' = calls(c) /\ rets(c)' = rets(c)
          \/ /\ place(c) = "out" /\ place(c)' \in {"store", "hw1"}
             /\ calls(c)' = calls(c) + 1 /\ rets(c)' = rets(c)
    BY <2>1, <2>2 DEF TypeInv, place, calls, rets
  <2>4. Quiet
    BY <1>1, <1>5, <2>3 DEF Begin, Quiet, Passed, Busy, Participants, Calls
  <2>5. ASSUME NEW m \in Comms, Stored(m)' PROVE Stored(m)
    <3>1. CASE x = <<0, 0>>
      <4>1. /\ pc'[<<0, 0>>] = to /\ call'[<<0, 0>>] = call[<<0, 0>>] + 1
            /\ Program[call[<<0, 0>>] + 1].new # {} => to = "store"
        BY <2>1, <2>2, <3>1 DEF TypeInv
      <4> QED
        BY <1>2, <2>2, <2>5, <4>1 DEF Stored, Calls
    <3>2. CASE x # <<0, 0>>
      <4>1. pc'[<<0, 0>>] = pc[<<0, 0>>] /\ call'[<<0, 0>>] = call[<<0, 0>>]
        BY <2>1, <2>2, <3>2 DEF TypeInv
      <4> QED
        BY <2>2, <2>5, <4>1 DEF Stored
    <3> QED
      BY <3>1, <3>2
  <2> QED
    BY <1>5, <2>4, <2>5 DEF Begin
<1>6. ASSUME NEW x \in Clusters \X Cores, Arrive(x)
      PROVE  Quiet /\ cnt' = cnt /\ \A m \in Comms : Stored(m)' => Stored(m)
  <2>1. PICK d \in Clusters, k \in Cores : x = <<d, k>>
    OBVIOUS
  <2>2. PICK from \in {"hw1", "hw2"} :
          /\ pc[<<d, k>>] = from /\ call' = call /\ ret' = ret
          /\ pc' = [pc EXCEPT ![<<d, k>>] = IF from = "hw1" THEN "stall1" ELSE "stall2"]
    BY <1>6, <2>1 DEF Arrive, Goto
  <2>3. \A c \in Clusters :
          /\ calls(c)' = calls(c) /\ rets(c)' = rets(c)
          /\ \/ place(c)' = place(c)
             \/ place(c) = "hw1" /\ place(c)' = "stall1"
             \/ place(c) = "hw2" /\ place(c)' = "stall2"
    BY <2>1, <2>2 DEF TypeInv, place, calls, rets
  <2>4. Quiet
    BY <1>1, <1>6, <2>3 DEF Arrive, Quiet, Passed, Busy, Participants, Calls
  <2>5. \A m \in Comms : Stored(m)' => Stored(m)
    <3>1. pc'[<<0, 0>>] = pc[<<0, 0>>] \/ pc[<<0, 0>>] \in {"hw1", "hw2"}
      BY <2>1, <2>2 DEF TypeInv
    <3> QED
      BY <2>2, <3>1 DEF Stored
  <2> QED
    BY <1>6, <2>4, <2>5 DEF Arrive
<1>7. ASSUME NEW d \in Clusters, Release(d)
      PROVE  Quiet /\ cnt' = cnt /\ \A m \in Comms : Stored(m)' => Stored(m)
  <2>1. \A k \in Cores : pc[<<d, k>>] \in {"stall1", "stall2"}
    BY <1>7 DEF Release, ShapeInv
  <2>2. \A c \in Clusters, k \in Cores :
          /\ call'[<<c, k>>] = call[<<c, k>>]
          /\ \/ pc'[<<c, k>>] = pc[<<c, k>>] /\ ret'[<<c, k>>] = ret[<<c, k>>]
             \/ /\ pc[<<c, k>>] = "stall2" /\ pc'[<<c, k>>] = "out"
                /\ ret'[<<c, k>>] = ret[<<c, k>>] + 1
             \/ /\ pc[<<c, k>>] = "stall1" /\ pc'[<<c, k>>] \in {"add", "hw2"}
                /\ k = DM /\ is_participant(c, Via(c)) => pc'[<<c, k>>] = "add"
                /\ ret'[<<c, k>>] = ret[<<c, k>>]
    BY <1>7, <2>1 DEF Release, Resume
  <2>3. \A c \in Clusters :
          /\ calls(c)' = calls(c)
          /\ \/ place(c)' = place(c) /\ rets(c)' = rets(c)
             \/ place(c) = "stall2" /\ place(c)' = "out" /\ rets(c)' = rets(c) + 1
             \/ /\ place(c) = "stall1" /\ place(c)' \in {"add", "hw2"}
                /\ c \in Participants(calls(c)) => place(c)' = "add"
                /\ rets(c)' = rets(c)
    BY <2>2 DEF place, calls, rets, Participants, Via
  <2>4. Quiet
    <3>1. UNCHANGED <<mcip, submask, todo, multicast>>
      BY <1>7 DEF Release
    <3>2. \A c \in Clusters :
            /\ place(c)' \in Busy <=> place(c) \in Busy
            /\ place(c) \in Busy => place(c)' = place(c) /\ calls(c)' = calls(c)
      BY <2>3 DEF Busy
    <3>3. ASSUME NEW j \in Calls, NEW c \in Participants(j) PROVE Passed(c, j)' <=> Passed(c, j)
      <4>1. c \in Clusters /\ j \in Nat
        BY <3>3 DEF Participants, Calls
      <4> QED
        BY <1>1, <2>3, <3>3, <4>1 DEF Passed
    <3> QED
      BY <3>1, <3>2, <3>3 DEF Quiet
  <2>5. \A m \in Comms : Stored(m)' => Stored(m)
    BY <1>2, <2>2 DEF Stored, Calls
  <2> QED
    BY <1>7, <2>4, <2>5 DEF Release
<1> QED
  BY <1>3, <1>4, <1>5, <1>6, <1>7

\* A quiet step leaves alone what the invariant says, but for the counters.
LEMMA QuietFrame ==
    ASSUME Quiet
    PROVE  /\ \A j \in Calls : Released(j)' <=> Released(j)
           /\ SyncInv => SyncInv'
           /\ \A c \in Clusters : \A j \in Calls :
               place(c) \in Busy /\ calls(c) = j => (Released(calls(c))' <=> Released(j))
<1>1. \A c \in Clusters :
        /\ place(c)' \in Busy <=> place(c) \in Busy
        /\ place(c) \in Busy => place(c)' = place(c) /\ calls(c)' = calls(c)
  BY DEF Quiet
<1>2. \A j \in Calls : \A c \in Participants(j) :
        (Passed(c, j)' <=> Passed(c, j)) /\ c \in Clusters
  BY DEF Quiet, Participants
<1>3. \A j \in Calls : Released(j)' <=> Released(j)
  BY <1>2 DEF Released
<1>4. SyncInv => SyncInv'
  BY <1>1, <1>2 DEF SyncInv, Busy
<1>5. ASSUME NEW c \in Clusters, NEW j \in Calls, place(c) \in Busy, calls(c) = j
      PROVE  Released(calls(c))' <=> Released(j)
  <2>1. calls(c)' = j
    BY <1>1, <1>5
  <2>2. Released(calls(c))' <=> \E i \in Participants(j) : Passed(i, j)'
    BY <2>1 DEF Released, Passed
  <2> QED
    BY <1>2, <1>5, <2>2 DEF Released
<1> QED
  BY <1>3, <1>4, <1>5

LEMMA QuietStep ==
    ASSUME TypeInv, ShapeInv, InterInv, Quiet,
           ~Store => cnt' = cnt /\ \A m \in Comms : Stored(m)' => Stored(m)
    PROVE  InterInv'
<1>1. \A c \in Clusters :
        /\ place(c)' \in Busy <=> place(c) \in Busy
        /\ place(c) \in Busy => place(c)' = place(c) /\ calls(c)' = calls(c)
  BY DEF Quiet
<1>2. \A c \in Clusters : place(c) \in Busy =>
        calls(c) \in Calls /\ Program[calls(c)].via \in Comms
  BY MoverFacts DEF Busy
<1>3. \A c \in Clusters : place(c) \in Busy =>
        (Released(calls(c))' <=> Released(calls(c)))
  BY <1>2, QuietFrame
<1>4. SyncInv'
  BY QuietFrame DEF InterInv
<1>5. ResetInv'
  <2>1. SUFFICES ASSUME NEW c \in Clusters, place(c)' = "reset"
                 PROVE  /\ ~Released(calls(c))'
                        /\ \A i \in Participants(calls(c)') \ {c} :
                            place(i)' = "wfi" /\ calls(i)' = calls(c)'
    BY DEF ResetInv
  <2>2. place(c) = "reset" /\ calls(c)' = calls(c)
    BY <1>1, <2>1 DEF Busy
  <2>3. ~Released(calls(c))'
    BY <1>3, <2>2 DEF InterInv, ResetInv, Busy
  <2>4. ASSUME NEW i \in Participants(calls(c)) \ {c}
        PROVE  place(i)' = "wfi" /\ calls(i)' = calls(c)
    <3>1. i \in Clusters /\ place(i) = "wfi" /\ calls(i) = calls(c)
      BY <2>2, <2>4 DEF InterInv, ResetInv, Participants
    <3> QED
      BY <1>1, <3>1 DEF Busy
  <2> QED
    BY <2>2, <2>3, <2>4
<1>6. WakeInv'
  <2>1. SUFFICES ASSUME NEW c \in Clusters, place(c)' = "wake"
                 PROVE  /\ Remaining(c)' \subseteq Clusters
                        /\ ~multicast' => submask'[c] \in 0 .. mask(Program[calls(c)'].via)
                        /\ \A i \in Remaining(c)' \ {c} :
                            place(i)' = "wfi" /\ calls(i)' = calls(c)' /\ ~mcip'[i]
                        /\ \A i \in Clusters :
                            place(i)' = "wake" /\ calls(i)' = calls(c)' => i = c
    BY DEF WakeInv, mask
  <2>2. /\ place(c) = "wake" /\ calls(c)' = calls(c)
        /\ UNCHANGED <<mcip, submask, todo, multicast>>
    BY <1>1, <2>1 DEF Busy, Quiet
  <2>3. Remaining(c)' = Remaining(c)
    BY <2>2 DEF Remaining, mask
  <2>4. /\ Remaining(c) \subseteq Clusters
        /\ ~multicast => submask[c] \in 0 .. mask(Program[calls(c)].via)
        /\ \A i \in Remaining(c) \ {c} :
            place(i) = "wfi" /\ calls(i) = calls(c) /\ ~mcip[i]
        /\ \A i \in Clusters : place(i) = "wake" /\ calls(i) = calls(c) => i = c
    BY <2>2 DEF InterInv, WakeInv
  <2>5. \A i \in Remaining(c) \ {c} :
            place(i)' = "wfi" /\ calls(i)' = calls(c)' /\ ~mcip'[i]
    BY <1>1, <2>2, <2>4 DEF Busy
  <2>6. \A i \in Clusters : place(i)' = "wake" /\ calls(i)' = calls(c)' => i = c
    BY <1>1, <2>2, <2>4 DEF Busy
  <2> QED
    BY <2>2, <2>3, <2>4, <2>5, <2>6
<1>7. IntInv'
  <2>1. SUFFICES ASSUME NEW c \in Clusters, mcip'[c]
                 PROVE  /\ place(c)' \in {"wfi", "wake", "clr"}
                        /\ place(c)' = "wfi" => Released(calls(c))'
    BY DEF IntInv
  <2>2. mcip[c]
    BY <2>1 DEF Quiet
  <2>3. place(c) \in {"wfi", "wake", "clr"} /\ (place(c) = "wfi" => Released(calls(c)))
    BY <2>2 DEF InterInv, IntInv
  <2> QED
    BY <1>1, <1>3, <2>3 DEF Busy
<1>8. ASSUME NEW m \in Comms PROVE Counted(m)' = Counted(m)
  <2>1. ASSUME NEW c \in Clusters
        PROVE  /\ place(c)' \in {"wfi", "reset"} /\ Program[calls(c)'].via = m
                    /\ ~Released(calls(c))'
               <=> /\ place(c) \in {"wfi", "reset"} /\ Program[calls(c)].via = m
                   /\ ~Released(calls(c))
    BY <1>1, <1>3 DEF Busy
  <2> QED
    BY <2>1 DEF Counted
<1>9. CountInv'
  <2>1. CASE ~Store
    BY <1>8, <2>1 DEF InterInv, CountInv
  <2>2. CASE Store
    <3>1. SUFFICES ASSUME NEW m \in Comms, Stored(m)'
                   PROVE  cnt'[m] = Cardinality(Counted(m)')
      BY DEF CountInv
    <3> DEFINE j == call[<<0, 0>>]
    <3>2. /\ pc[<<0, 0>>] = "store" /\ call' = call /\ ret' = ret
          /\ cnt' = [n \in Comms |-> IF n \in Program[j].new THEN 0 ELSE cnt[n]]
      BY <2>2 DEF Store, Goto
    <3>3. j = ret[<<0, 0>>] + 1 /\ ret[<<0, 0>>] \in Nat /\ j \in Calls
      <4>1. /\ ret[<<0, 0>>] \in Nat /\ j \in 0 .. Len(Program)
            /\ Len(Program) \in Nat
        BY Constants DEF TypeInv
      <4>2. j = ret[<<0, 0>>] + 1
        BY <3>2, Constants DEF ShapeInv
      <4> QED
        BY <4>1, <4>2 DEF Calls
    <3>4. CASE m \in Program[j].new
      <4>1. ~Stored(m)
        BY <3>2, <3>3, <3>4 DEF Stored
      <4>2. Counted(m) = {}
        BY <4>1, StoredBeforeUse DEF Counted, InterInv
      <4> QED
        BY <1>8, <3>2, <3>4, <4>2, FS_EmptySet
    <3>5. CASE m \notin Program[j].new
      <4>1. Stored(m)
        BY <3>1, <3>2, <3>3, <3>5 DEF Stored, Calls
      <4> QED
        BY <1>8, <3>2, <3>5, <4>1 DEF InterInv, CountInv
    <3> QED
      BY <3>4, <3>5
  <2> QED
    BY <2>1, <2>2
<1> QED
  BY <1>4, <1>5, <1>6, <1>7, <1>9 DEF InterInv

----------------------------------------------------------------------------
(* The steps between clusters. *)

\* A step between clusters moves one data mover.
LEMMA InterFacts ==
    ASSUME TypeInv, ShapeInv, NEW c \in Clusters, InterCluster(c)
    PROVE  /\ \A i \in Clusters : calls(i)' = calls(i) /\ rets(i)' = rets(i)
           /\ \A i \in Clusters \ {c} : place(i)' = place(i)
           /\ place(c) \in Inner /\ place(c)' \in Inner \cup {"hw2"}
           /\ calls(c) \in Calls /\ Program[calls(c)].via \in Comms
           /\ c \in Participants(calls(c)) /\ rets(c) = calls(c) - 1
           /\ Via(c) = Program[calls(c)].via
           /\ \A m \in Comms : Stored(m)' => Stored(m)
           /\ multicast' = multicast
<1>1. PICK from \in Inner, to \in Inner \cup {"hw2"} :
        /\ Goto(<<c, DM>>, from, to)
        /\ UNCHANGED <<call, ret, multicast>>
  BY DEF InterCluster, Add, Reset, WakeOne, WakeMulticast, Wfi, Clr, Goto, Inner
<1>2. /\ pc[<<c, DM>>] = from
      /\ \A d \in Clusters, l \in Cores :
          pc'[<<d, l>>] = IF d = c /\ l = DM THEN to ELSE pc[<<d, l>>]
  BY <1>1, Constants DEF Goto, TypeInv
<1>3. /\ \A i \in Clusters : calls(i)' = calls(i) /\ rets(i)' = rets(i)
      /\ \A i \in Clusters \ {c} : place(i)' = place(i)
      /\ place(c) = from /\ place(c)' = to
  BY <1>1, <1>2, Constants DEF calls, rets, place
<1>4. pc'[<<0, 0>>] = pc[<<0, 0>>] \/ pc[<<0, 0>>] \in Inner
  BY <1>2, Constants
<1>5. \A m \in Comms : Stored(m)' => Stored(m)
  BY <1>1, <1>4 DEF Stored, Inner
<1>6. /\ calls(c) \in Calls /\ Program[calls(c)].via \in Comms
      /\ c \in Participants(calls(c)) /\ rets(c) = calls(c) - 1
  BY <1>3, MoverFacts DEF Inner
<1> QED
  BY <1>1, <1>3, <1>5, <1>6 DEF Via, calls

\* Who has passed, after a step between clusters.
LEMMA InterPassed ==
    ASSUME TypeInv, ShapeInv, NEW c \in Clusters, InterCluster(c)
    PROVE  /\ \A j \in Calls : \A i \in Participants(j) :
               \/ Passed(i, j)' <=> Passed(i, j)
               \/ i = c /\ j = calls(c)
           /\ \A j \in Calls : j # calls(c) => (Released(j)' <=> Released(j))
           /\ place(c)' \in {"wake", "clr", "hw2"} <=> Passed(c, calls(c))'
           /\ place(c) \in {"wake", "clr", "hw2"} <=> Passed(c, calls(c))
<1>1. /\ \A i \in Clusters : calls(i)' = calls(i) /\ rets(i)' = rets(i)
      /\ \A i \in Clusters \ {c} : place(i)' = place(i)
      /\ place(c) \in Inner /\ place(c)' \in Inner \cup {"hw2"}
      /\ calls(c) \in Calls /\ c \in Participants(calls(c)) /\ rets(c) = calls(c) - 1
  BY InterFacts
<1>2. ASSUME NEW j \in Calls, NEW i \in Participants(j), ~(i = c /\ j = calls(c))
      PROVE  Passed(i, j)' <=> Passed(i, j)
  <2>1. i \in Clusters
    BY DEF Participants
  <2>2. calls(i)' = calls(i) /\ rets(i)' = rets(i) /\ (i = c \/ place(i)' = place(i))
    BY <1>1, <2>1
  <2>3. CASE i # c
    BY <2>2, <2>3 DEF Passed
  <2>4. CASE j # calls(i)
    BY <2>2, <2>4 DEF Passed
  <2> QED
    BY <1>2, <2>3, <2>4
<1>3. ASSUME NEW j \in Calls, j # calls(c) PROVE Released(j)' <=> Released(j)
  BY <1>2, <1>3 DEF Released
<1>4. calls(c) \in Nat /\ ~(rets(c) >= calls(c)) /\ ~(rets(c)' >= calls(c))
  BY <1>1 DEF Calls
<1>5. place(c)' \in {"wake", "clr", "hw2"} <=> Passed(c, calls(c))'
  BY <1>1, <1>4 DEF Passed, Inner
<1>6. place(c) \in {"wake", "clr", "hw2"} <=> Passed(c, calls(c))
  BY <1>1, <1>4 DEF Passed, Inner
<1> QED
  BY <1>2, <1>3, <1>5, <1>6

\* The ways a data mover goes.
LEMMA InterMoves ==
    ASSUME TypeInv, NEW c \in Clusters, InterCluster(c)
    PROVE  \/ Add(c) /\ place(c) = "add" /\ place(c)' \in {"reset", "wfi"}
           \/ Reset(c) /\ place(c) = "reset" /\ place(c)' = "wake"
           \/ /\ WakeOne(c) \/ \E i \in Clusters : WakeMulticast(c, i)
              /\ place(c) = "wake" /\ place(c)' \in {"wake", "clr"}
           \/ Wfi(c) /\ place(c) = "wfi" /\ place(c)' = "clr" /\ mcip[c]
           \/ Clr(c) /\ place(c) = "clr" /\ place(c)' = "hw2"
<1>1. \A t : pc' = [pc EXCEPT ![<<c, DM>>] = t] => pc'[<<c, DM>>] = t
  BY Constants DEF TypeInv
<1>2. CASE Add(c)
  BY <1>1, <1>2 DEF Add, Goto, place
<1>3. CASE Reset(c)
  BY <1>1, <1>3 DEF Reset, Goto, place
<1>4. CASE WakeOne(c)
  BY <1>1, <1>4 DEF WakeOne, Goto, place
<1>5. ASSUME NEW i \in Clusters, WakeMulticast(c, i)
      PROVE  place(c) = "wake" /\ place(c)' \in {"wake", "clr"}
  BY <1>1, <1>5 DEF WakeMulticast, Goto, place
<1>6. CASE Wfi(c)
  BY <1>1, <1>6 DEF Wfi, Goto, place
<1>7. CASE Clr(c)
  BY <1>1, <1>7 DEF Clr, Goto, place
<1> QED
  BY <1>2, <1>3, <1>4, <1>5, <1>6, <1>7 DEF InterCluster

\* A call is released by the reset of its counter.
LEMMA ReleasedStep ==
    ASSUME TypeInv, ShapeInv, InterInv, NEW c \in Clusters, InterCluster(c)
    PROVE  /\ ~Reset(c) => \A j \in Calls : Released(j)' <=> Released(j)
           /\ Reset(c) => Released(calls(c))'
           /\ SyncInv'
<1> DEFINE j0 == calls(c)
<1>1. /\ \A i \in Clusters : calls(i)' = calls(i) /\ rets(i)' = rets(i)
      /\ \A i \in Clusters \ {c} : place(i)' = place(i)
      /\ j0 \in Calls /\ c \in Participants(j0)
  BY InterFacts
<1>2. /\ \A j \in Calls : \A i \in Participants(j) :
          (Passed(i, j)' <=> Passed(i, j)) \/ (i = c /\ j = j0)
      /\ \A j \in Calls : j # j0 => (Released(j)' <=> Released(j))
      /\ place(c)' \in {"wake", "clr", "hw2"} <=> Passed(c, j0)'
      /\ place(c) \in {"wake", "clr", "hw2"} <=> Passed(c, j0)
  BY InterPassed
<1>3. \A j \in Calls : \A i \in Participants(j) : Passed(i, j) => Passed(i, j)'
  <2>1. ASSUME NEW j \in Calls, NEW i \in Participants(j), Passed(i, j), i = c, j = j0
        PROVE  Passed(i, j)'
    <3>1. place(c) \in {"wake", "clr", "hw2"}
      BY <1>2, <2>1
    <3>2. place(c)' \in {"wake", "clr", "hw2"}
      BY <3>1, InterMoves
    <3> QED
      BY <1>1, <1>2, <2>1, <3>2
  <2> QED
    BY <1>2, <2>1
<1>4. CASE Reset(c)
  <2>1. place(c) = "reset" /\ place(c)' = "wake"
    BY <1>4, Constants DEF Reset, Goto, place, TypeInv
  <2>2. Passed(c, j0)'
    BY <1>2, <2>1
  <2>3. Released(j0)'
    <3>1. \A j \in Calls : j = j0 => (Released(j)' <=> \E i \in Participants(j) : Passed(i, j)')
      BY DEF Released
    <3>2. Released(calls(c))' <=> \E i \in Participants(j0) : Passed(i, j0)'
      BY <1>1 DEF Released, Passed
    <3>3. Passed(c, j0)' <=> Passed(c, calls(c))'
      BY <1>1
    <3> QED
      BY <1>1, <2>2, <3>2
  <2>4. \A i \in Participants(j0) \ {c} : calls(i) = j0 /\ place(i) = "wfi"
    BY <2>1 DEF InterInv, ResetInv
  <2>5. ASSUME NEW j \in Calls, NEW d \in Participants(j), NEW i \in Participants(j), Passed(d, j)'
        PROVE  Passed(i, j)' \/ (calls(i)' = j /\ place(i)' = "wfi")
    <3>0. i \in Clusters /\ d \in Clusters
      BY DEF Participants
    <3>1. CASE j = j0
      BY <1>1, <2>2, <2>4, <3>0, <3>1
    <3>2. CASE j # j0
      <4>1. Passed(d, j)
        BY <1>2, <2>5, <3>2
      <4>2. Passed(i, j) \/ (calls(i) = j /\ place(i) = "wfi")
        BY <4>1 DEF InterInv, SyncInv
      <4> QED
        BY <1>1, <1>3, <2>1, <3>0, <4>2
    <3> QED
      BY <3>1, <3>2
  <2> QED
    BY <1>4, <2>3, <2>5 DEF SyncInv
<1>5. CASE ~Reset(c)
  <2>1. /\ Released(j0) \/ (place(c) = "add" /\ ~Passed(c, j0)' /\ ~Passed(c, j0))
    <3>1. CASE place(c) = "add" /\ place(c)' \in {"reset", "wfi"}
      BY <1>2, <3>1
    <3>2. CASE place(c) \in {"wake", "clr"}
      BY <1>1, <1>2, <3>2 DEF Released
    <3>3. CASE place(c) = "wfi" /\ mcip[c]
      BY <3>3 DEF InterInv, IntInv
    <3> QED
      BY <1>5, <3>1, <3>2, <3>3, InterMoves
  <2>2. \A j \in Calls : Released(j)' <=> Released(j)
    <3>1. ASSUME NEW j \in Calls, j = j0 PROVE Released(j)' <=> Released(j)
      <4>1. CASE Released(j0)
        BY <1>3, <3>1, <4>1 DEF Released
      <4>2. CASE ~Passed(c, j0)' /\ ~Passed(c, j0)
        BY <1>1, <1>2, <3>1, <4>2 DEF Released
      <4> QED
        BY <2>1, <4>1, <4>2
    <3> QED
      BY <1>2, <3>1
  <2>3. ASSUME NEW j \in Calls, NEW d \in Participants(j), NEW i \in Participants(j), Passed(d, j)'
        PROVE  Passed(i, j)' \/ (calls(i)' = j /\ place(i)' = "wfi")
    <3>0. i \in Clusters /\ d \in Clusters
      BY DEF Participants
    <3>1. Released(j)
      BY <2>2, <2>3 DEF Released
    <3>2. Passed(i, j) \/ (calls(i) = j /\ place(i) = "wfi")
      BY <3>1 DEF Released, InterInv, SyncInv
    <3>3. CASE i = c /\ calls(i) = j /\ place(i) = "wfi"
      BY <1>1, <1>2, <3>3, InterMoves
    <3> QED
      BY <1>1, <1>3, <3>0, <3>2, <3>3
  <2> QED
    BY <1>5, <2>2, <2>3 DEF SyncInv
<1> QED
  BY <1>4, <1>5

\* Two clusters counted by the same counter are in the same call, unless one
\* of the calls is released.
LEMMA SameCall ==
    ASSUME TypeInv, ShapeInv, NEW c \in Clusters, NEW i \in Clusters,
           place(c) \in Inner, place(i) \in Inner,
           Program[calls(i)].via = Program[calls(c)].via,
           ~Released(calls(c)), ~Released(calls(i))
    PROVE  calls(i) = calls(c)
<1>1. /\ calls(c) \in Nat /\ calls(i) \in Nat
      /\ rets(c) = calls(c) - 1 /\ rets(i) = calls(i) - 1
      /\ c \in Participants(calls(i)) /\ i \in Participants(calls(c))
  BY MoverFacts DEF Inner, Participants
<1>2. ~(calls(i) < calls(c))
  BY <1>1 DEF Released, Passed
<1>3. ~(calls(c) < calls(i))
  BY <1>1 DEF Released, Passed
<1> QED
  BY <1>1, <1>2, <1>3

\* A cluster that counts itself in was not released, and when it is the last
\* of the members all the others are asleep in its call.
LEMMA AddCounts ==
    ASSUME TypeInv, ShapeInv, InterInv, NEW c \in Clusters, Add(c)
    PROVE  LET m == Program[calls(c)].via
           IN  /\ ~Released(calls(c)) /\ Stored(m) /\ c \notin Counted(m)
               /\ IsFiniteSet(Counted(m)) /\ cnt[m] = Cardinality(Counted(m))
               /\ Counted(m) \subseteq Participants(calls(c))
               /\ cnt[m] + 1 = size[m] => \A i \in Participants(calls(c)) \ {c} :
                                            place(i) = "wfi" /\ calls(i) = calls(c)
<1> DEFINE j == calls(c)
           m == Program[j].via
           N == Counted(m)
<1>1. place(c) = "add"
  BY DEF Add, place
<1>2. j \in Calls /\ m \in Comms /\ c \in Participants(j) /\ rets(c) = j - 1 /\ j \in Nat
  BY <1>1, MoverFacts DEF Inner
<1>3. ~Released(j)
  <2>1. SUFFICES ASSUME NEW w \in Participants(j), Passed(w, j) PROVE FALSE
    BY DEF Released
  <2>2. Passed(c, j)
    BY <1>1, <1>2, <2>1 DEF InterInv, SyncInv
  <2> QED
    BY <1>1, <1>2, <2>2 DEF Passed
<1>4. Stored(m) /\ cnt[m] = Cardinality(N)
  BY <1>1, <1>2, StoredBeforeUse DEF InterInv, CountInv
<1>5. c \notin N
  BY <1>1 DEF Counted
<1>6. Participants(j) = 0 .. mask(m) /\ mask(m) = size[m] - 1 /\ mask(m) \in Nat
  BY <1>2, Constants DEF Participants, mask
<1>7. ASSUME NEW i \in N PROVE i \in Participants(j) /\ calls(i) = j /\ place(i) = "wfi"
  <2>1. /\ i \in Clusters /\ place(i) \in {"wfi", "reset"}
        /\ Program[calls(i)].via = m /\ ~Released(calls(i))
    BY <1>7 DEF Counted
  <2>2. calls(i) = j
    BY <1>1, <1>3, <2>1, SameCall DEF Inner
  <2>3. i \in Participants(j)
    BY <2>1, <2>2, MoverFacts DEF Inner
  <2>4. place(i) # "reset"
    BY <1>1, <1>2, <2>1, <2>2 DEF InterInv, ResetInv
  <2> QED
    BY <2>1, <2>2, <2>3, <2>4
<1>8. IsFiniteSet(0 .. mask(m)) /\ Cardinality(0 .. mask(m)) = size[m]
  <2>1. mask(m) \in Nat /\ size[m] = mask(m) + 1
    BY <1>2, <1>6, Constants
  <2> QED
    BY <2>1, IntervalSize
<1>9. N \in SUBSET (0 .. mask(m)) /\ N \cup {c} \in SUBSET (0 .. mask(m))
  BY <1>2, <1>6, <1>7
<1>10. IsFiniteSet(N)
  BY <1>8, <1>9, FS_Subset
<1>11. cnt[m] + 1 = size[m] => N \cup {c} = 0 .. mask(m)
  <2>1. Cardinality(N \cup {c}) = Cardinality(N) + 1
    BY <1>5, <1>10, FS_AddElement
  <2> HIDE DEF N
  <2> QED
    BY <1>4, <1>8, <1>9, <2>1, FS_Subset
<1>12. cnt[m] + 1 = size[m] =>
        \A i \in Participants(j) \ {c} : place(i) = "wfi" /\ calls(i) = j
  BY <1>6, <1>7, <1>11
<1> QED
  BY <1>3, <1>4, <1>5, <1>7, <1>10, <1>12

\* The last to be counted in still finds the others asleep.
LEMMA ResetInvStep ==
    ASSUME TypeInv, ShapeInv, InterInv, NEW c \in Clusters, InterCluster(c)
    PROVE  ResetInv'
<1>1. /\ \A i \in Clusters : calls(i)' = calls(i)
      /\ \A i \in Clusters \ {c} : place(i)' = place(i)
      /\ calls(c) \in Calls /\ c \in Participants(calls(c)) /\ Via(c) = Program[calls(c)].via
  BY InterFacts
<1>2. \A i \in Clusters : \A j \in Calls : i \in Participants(j) => i \in Clusters
  OBVIOUS
<1>3. SUFFICES ASSUME NEW d \in Clusters, place(d)' = "reset"
               PROVE  /\ ~Released(calls(d))'
                      /\ \A i \in Participants(calls(d)') \ {d} :
                          place(i)' = "wfi" /\ calls(i)' = calls(d)'
  BY DEF ResetInv
<1>4. CASE d = c
  <2>1. Add(c) /\ place(c) = "add"
    BY <1>3, <1>4, InterMoves
  <2>2. cnt[Via(c)] + 1 = size[Via(c)]
    BY <1>3, <1>4, <2>1, Constants DEF Add, Goto, place, TypeInv
  <2>3. /\ ~Released(calls(c))
        /\ \A i \in Participants(calls(c)) \ {c} : place(i) = "wfi" /\ calls(i) = calls(c)
    BY <1>1, <2>1, <2>2, AddCounts
  <2>4. ~Reset(c)
    BY <2>1 DEF Reset, Goto, place
  <2>5. ~Released(calls(c))'
    <3>1. \A j \in Calls : Released(j)' <=> Released(j)
      BY <2>4, ReleasedStep
    <3>2. \A j \in Calls : j = calls(c) => (Released(calls(c))' <=> Released(j)')
      BY <1>1 DEF Released, Passed
    <3> QED
      BY <1>1, <2>3, <3>1, <3>2
  <2> QED
    BY <1>1, <1>4, <2>3, <2>5 DEF Participants
<1>5. CASE d # c
  <2>1. place(d) = "reset"
    BY <1>1, <1>3, <1>5
  <2>2. /\ ~Released(calls(d)) /\ calls(d) \in Calls
        /\ \A i \in Participants(calls(d)) \ {d} : place(i) = "wfi" /\ calls(i) = calls(d)
    BY <2>1, MoverFacts DEF InterInv, ResetInv
  <2>3. ~(calls(c) = calls(d) /\ ~Add(c))
    <3>1. SUFFICES ASSUME calls(c) = calls(d), ~Add(c) PROVE FALSE
      OBVIOUS
    <3>2. place(c) = "wfi"
      BY <1>1, <1>5, <2>2, <3>1
    <3>3. mcip[c]
      BY <3>1, <3>2, InterMoves
    <3> QED
      BY <2>2, <3>1, <3>2, <3>3 DEF InterInv, IntInv
  <2>4. ~Released(calls(d))'
    <3>1. Released(calls(d)) <=> Released(calls(d))'
      <4>1. \A j \in Calls : j # calls(c) \/ ~Reset(c) => (Released(j)' <=> Released(j))
        BY ReleasedStep, InterPassed
      <4>2. \A j \in Calls : j = calls(d) => (Released(calls(d))' <=> Released(j)')
        BY <1>1 DEF Released, Passed
      <4>3. Add(c) => ~Reset(c)
        BY DEF Add, Reset, Goto
      <4> QED
        BY <2>2, <2>3, <4>1, <4>2, <4>3
    <3> QED
      BY <2>2, <3>1
  <2>5. \A i \in Participants(calls(d)) \ {d} : i # c
    <3>1. SUFFICES ASSUME c \in Participants(calls(d)), c # d PROVE FALSE
      OBVIOUS
    <3>2. place(c) = "wfi" /\ calls(c) = calls(d)
      BY <2>2, <3>1
    <3>3. Add(c)
      BY <2>3, <3>2
    <3> QED
      BY <3>2, <3>3 DEF Add, place
  <2> QED
    BY <1>1, <2>2, <2>4, <2>5 DEF Participants
<1> QED
  BY <1>4, <1>5

\* What a waking data mover may still wake.
LEMMA RemainingStep ==
    ASSUME TypeInv, ShapeInv, InterInv, NEW c \in Clusters, InterCluster(c),
           place(c) = "wake"
    PROVE  /\ \A i \in Clusters \ Remaining(c) : mcip'[i] = mcip[i]
           /\ place(c)' = "wake" =>
               /\ Remaining(c)' \subseteq Remaining(c)
               /\ ~multicast => submask'[c] \in 0 .. mask(Program[calls(c)].via)
               /\ \A i \in Remaining(c)' \ {c} : mcip'[i] = mcip[i]
<1> DEFINE m == Program[calls(c)].via
           s == submask[c]
           t == NextSubmask(s, m)
<1>1. /\ calls(c)' = calls(c) /\ Via(c) = m /\ m \in Comms /\ multicast' = multicast
  BY InterFacts
<1>2. /\ Remaining(c) \subseteq Clusters
      /\ ~multicast => s \in 0 .. mask(m)
  BY DEF InterInv, WakeInv
<1>3. s \in Nat /\ mask(m) \in Nat
  BY <1>1, Constants DEF TypeInv
<1>4. t \in 0 .. mask(m) /\ (s > 0 => t < s)
  BY <1>1, <1>3, NextSubmaskBound
<1>5. CASE WakeOne(c)
  <2> HIDE DEF m, t
  <2>1. /\ ~multicast /\ submask' = [submask EXCEPT ![c] = t]
        /\ mcip' = [i \in Clusters |-> mcip[i] \/ (i = s /\ i # c)]
        /\ pc' = [pc EXCEPT ![<<c, DM>>] = IF t = 0 THEN "clr" ELSE "wake"]
    BY <1>1, <1>5 DEF WakeOne, Goto, t
  <2>2. submask'[c] = t /\ (place(c)' = "wake" => t # 0)
    BY <2>1, Constants DEF TypeInv, place
  <2>3. s \in Remaining(c)
    BY <1>2, <1>3, <2>1 DEF Remaining, m
  <2>4. t # 0 => Remaining(c)' = 1 .. t
    BY <1>1, <2>1, <2>2 DEF Remaining
  <2>5. Remaining(c) = IF s = 0 THEN 0 .. mask(m) ELSE 1 .. s
    BY <2>1 DEF Remaining, m
  <2>6. t # 0 => 1 .. t \subseteq Remaining(c) /\ s \notin 1 .. t
    BY <1>3, <1>4, <2>5
  <2>7. \A i \in Clusters : i # s => mcip'[i] = mcip[i]
    BY <2>1 DEF TypeInv
  <2> QED
    BY <1>2, <1>4, <2>2, <2>3, <2>4, <2>6, <2>7 DEF m
<1>6. ASSUME NEW i \in Clusters, WakeMulticast(c, i)
      PROVE  /\ \A k \in Clusters \ Remaining(c) : mcip'[k] = mcip[k]
             /\ multicast /\ Remaining(c)' \subseteq Remaining(c)
             /\ \A k \in Remaining(c)' \ {c} : mcip'[k] = mcip[k]
  <2>1. /\ multicast /\ i \in todo[c] /\ mcip' = [mcip EXCEPT ![i] = TRUE]
        /\ todo' = [todo EXCEPT ![c] = @ \ {i}]
    BY <1>6 DEF WakeMulticast
  <2>2. Remaining(c) = todo[c] /\ Remaining(c)' = todo[c] \ {i}
    BY <1>1, <2>1 DEF Remaining, TypeInv
  <2>3. \A k \in Clusters : k # i => mcip'[k] = mcip[k]
    BY <2>1 DEF TypeInv
  <2> QED
    BY <1>2, <2>1, <2>2, <2>3
<1> QED
  BY <1>5, <1>6, InterMoves

\* The wake-ups still to be sent go to clusters that sleep in the same call.
LEMMA WakeInvStep ==
    ASSUME TypeInv, ShapeInv, InterInv, NEW c \in Clusters, InterCluster(c)
    PROVE  WakeInv'
<1>1. /\ \A i \in Clusters : calls(i)' = calls(i)
      /\ \A i \in Clusters \ {c} : place(i)' = place(i)
      /\ calls(c) \in Calls /\ c \in Participants(calls(c)) /\ Via(c) = Program[calls(c)].via
      /\ Via(c) \in Comms /\ multicast' = multicast
  BY InterFacts
<1>2. SUFFICES ASSUME NEW d \in Clusters, place(d)' = "wake"
               PROVE  /\ Remaining(d)' \subseteq Clusters
                      /\ ~multicast => submask'[d] \in 0 .. mask(Program[calls(d)].via)
                      /\ \A i \in Remaining(d)' \ {d} :
                          place(i)' = "wfi" /\ calls(i)' = calls(d) /\ ~mcip'[i]
                      /\ \A i \in Clusters :
                          place(i)' = "wake" /\ calls(i)' = calls(d) => i = d
  <2>1. \A d \in Clusters : calls(d)' = calls(d)
    BY <1>1
  <2> QED
    BY <1>1, <1>2, <2>1 DEF WakeInv, mask
<1>3. CASE d = c /\ place(c) # "wake"
  <2>1. Reset(c) /\ place(c) = "reset"
    BY <1>2, <1>3, InterMoves
  <2>2. /\ ~Released(calls(c))
        /\ \A i \in Participants(calls(c)) \ {c} : place(i) = "wfi" /\ calls(i) = calls(c)
    BY <2>1 DEF InterInv, ResetInv
  <2>3. /\ mcip' = mcip /\ submask'[c] = 0
        /\ todo'[c] = IF multicast THEN McastTargets(Via(c)) ELSE {}
    BY <2>1 DEF Reset, TypeInv
  <2>4. 0 .. mask(Via(c)) = Participants(calls(c)) /\ mask(Via(c)) \in Nat
    BY <1>1, Constants DEF Participants
  <2>5. Remaining(c)' \subseteq Participants(calls(c))
    <3>1. multicast => Remaining(c)' = McastTargets(Via(c))
      BY <1>1, <2>3 DEF Remaining
    <3>2. ~multicast => Remaining(c)' = 0 .. mask(Via(c))
      BY <1>1, <2>3 DEF Remaining, mask
    <3> QED
      BY <1>1, <2>4, <3>1, <3>2, McastBound
  <2>6. \A i \in Participants(calls(c)) \ {c} : ~mcip[i]
    BY <2>2 DEF InterInv, IntInv, Participants
  <2>7. \A i \in Participants(calls(c)) \ {c} : i \in Clusters /\ place(i)' = "wfi"
    BY <1>1, <2>2 DEF Participants
  <2>8. ASSUME NEW i \in Clusters, place(i)' = "wake", calls(i)' = calls(c)
        PROVE  i = c
    <3>1. SUFFICES ASSUME i # c PROVE FALSE
      OBVIOUS
    <3>2. place(i) = "wake" /\ calls(i) = calls(c)
      BY <1>1, <2>8, <3>1
    <3>3. i \in Participants(calls(c))
      BY <3>2, MoverFacts DEF Inner
    <3> QED
      BY <2>2, <3>1, <3>2, <3>3
  <2> QED
    BY <1>1, <1>3, <2>2, <2>3, <2>4, <2>5, <2>6, <2>7, <2>8 DEF Participants
<1>4. CASE d = c /\ place(c) = "wake"
  <2>1. /\ Remaining(c) \subseteq Clusters
        /\ \A i \in Remaining(c) \ {c} :
            place(i) = "wfi" /\ calls(i) = calls(c) /\ ~mcip[i]
        /\ \A i \in Clusters : place(i) = "wake" /\ calls(i) = calls(c) => i = c
    BY <1>4 DEF InterInv, WakeInv
  <2>2. /\ Remaining(c)' \subseteq Remaining(c)
        /\ ~multicast => submask'[c] \in 0 .. mask(Program[calls(c)].via)
        /\ \A i \in Remaining(c)' \ {c} : mcip'[i] = mcip[i]
    BY <1>2, <1>4, RemainingStep
  <2> QED
    BY <1>1, <1>4, <2>1, <2>2
<1>5. CASE d # c
  <2>1. place(d) = "wake"
    BY <1>1, <1>2, <1>5
  <2>2. /\ Remaining(d) \subseteq Clusters
        /\ ~multicast => submask[d] \in 0 .. mask(Program[calls(d)].via)
        /\ \A i \in Remaining(d) \ {d} :
            place(i) = "wfi" /\ calls(i) = calls(d) /\ ~mcip[i]
        /\ \A i \in Clusters : place(i) = "wake" /\ calls(i) = calls(d) => i = d
    BY <2>1 DEF InterInv, WakeInv
  <2>3. submask'[d] = submask[d] /\ todo'[d] = todo[d]
    BY <1>5 DEF InterCluster, Add, Reset, WakeOne, WakeMulticast, Wfi, Clr, TypeInv
  <2>4. Remaining(d)' = Remaining(d)
    BY <1>1, <2>3 DEF Remaining, mask
  <2>5. c \notin Remaining(d)
    <3>1. SUFFICES ASSUME c \in Remaining(d) PROVE FALSE
      OBVIOUS
    <3>2. place(c) = "wfi" /\ ~mcip[c]
      BY <1>5, <2>2, <3>1
    <3> QED
      BY <3>2, InterMoves
  <2>6. ASSUME NEW i \in Remaining(d) \ {d} PROVE ~mcip'[i]
    <3>1. i \in Clusters /\ calls(i) = calls(d) /\ place(i) = "wfi" /\ ~mcip[i]
      BY <2>2, <2>6
    <3>2. CASE place(c) = "wake"
      <4>1. calls(c) # calls(d)
        BY <1>5, <2>2, <3>2
      <4>2. i \notin Remaining(c)
        BY <2>5, <2>6, <3>1, <3>2, <4>1 DEF InterInv, WakeInv
      <4> QED
        BY <3>1, <3>2, <4>2, RemainingStep
    <3>3. CASE place(c) # "wake"
      <4>1. Add(c) \/ Reset(c) \/ Wfi(c) \/ Clr(c)
        BY <3>3, InterMoves
      <4> QED
        BY <3>1, <4>1 DEF Add, Reset, Wfi, Clr, TypeInv
    <3> QED
      BY <3>2, <3>3
  <2>7. ASSUME NEW i \in Clusters, place(i)' = "wake", calls(i)' = calls(d)
        PROVE  i = d
    <3>1. CASE i # c
      BY <1>1, <2>2, <2>7, <3>1
    <3>2. CASE i = c /\ place(c) = "wake"
      BY <1>1, <2>2, <2>7, <3>2
    <3>3. CASE i = c /\ place(c) # "wake"
      <4>1. place(c) = "reset"
        BY <2>7, <3>3, InterMoves
      <4>2. d \in Participants(calls(c))
        BY <1>1, <2>1, <2>7, <3>3, MoverFacts DEF Inner
      <4> QED
        BY <1>5, <2>1, <4>1, <4>2 DEF InterInv, ResetInv
    <3> QED
      BY <3>1, <3>2, <3>3
  <2> QED
    BY <1>1, <2>2, <2>3, <2>4, <2>5, <2>6, <2>7
<1> QED
  BY <1>3, <1>4, <1>5

\* A pending interrupt is of the call its data mover is in.
LEMMA IntInvStep ==
    ASSUME TypeInv, ShapeInv, InterInv, NEW c \in Clusters, InterCluster(c)
    PROVE  IntInv'
<1>1. /\ \A i \in Clusters : calls(i)' = calls(i)
      /\ \A i \in Clusters \ {c} : place(i)' = place(i)
      /\ calls(c) \in Calls /\ c \in Participants(calls(c))
  BY InterFacts
<1>2. \A i \in Clusters : place(i) = "wfi" => calls(i) \in Calls
  BY MoverFacts
<1>3. \A i \in Clusters : \A j \in Calls :
        j = calls(i) => (Released(calls(i))' <=> Released(j)')
  BY <1>1 DEF Released, Passed
<1>4. \A j \in Calls : Released(j) => Released(j)'
  <2>1. \A j \in Calls : j # calls(c) => (Released(j)' <=> Released(j))
    BY InterPassed
  <2> QED
    BY <1>1, <1>3, <2>1, ReleasedStep
<1>5. SUFFICES ASSUME NEW i \in Clusters, mcip'[i]
               PROVE  /\ place(i)' \in {"wfi", "wake", "clr"}
                      /\ place(i)' = "wfi" => Released(calls(i))'
  BY DEF IntInv
<1>6. CASE mcip[i] /\ i # c
  <2>1. /\ place(i)' \in {"wfi", "wake", "clr"} /\ place(i)' = place(i)
        /\ place(i) = "wfi" => Released(calls(i))
    BY <1>1, <1>6 DEF InterInv, IntInv
  <2> QED
    BY <1>2, <1>3, <1>4, <2>1
<1>7. CASE place(c) = "wake"
  <2>1. place(c)' \in {"wake", "clr"}
    BY <1>7, InterMoves
  <2>2. i \in Remaining(c) \/ mcip[i]
    BY <1>5, <1>7, RemainingStep
  <2>3. ASSUME i \in Remaining(c), i # c
        PROVE  place(i)' = "wfi" /\ Released(calls(i))'
    <3>1. place(i) = "wfi" /\ calls(i) = calls(c)
      BY <1>7, <2>3 DEF InterInv, WakeInv
    <3>2. Released(calls(c))
      BY <1>1, <1>7 DEF Released, Passed
    <3> QED
      BY <1>1, <1>3, <1>4, <2>3, <3>1, <3>2
  <2> QED
    BY <1>6, <2>1, <2>2, <2>3
<1>8. CASE i = c /\ place(c) # "wake"
  <2>1. Add(c) \/ Reset(c) \/ Wfi(c) \/ Clr(c)
    BY <1>8, InterMoves
  <2>2. mcip[c] /\ ~Clr(c)
    BY <1>5, <1>8, <2>1 DEF Add, Reset, Wfi, Clr, TypeInv
  <2>3. place(c) \in {"wfi", "wake", "clr"}
    BY <2>2 DEF InterInv, IntInv
  <2> QED
    BY <1>8, <2>1, <2>2, <2>3, InterMoves
<1>9. CASE place(c) # "wake" /\ i # c
  <2>1. Add(c) \/ Reset(c) \/ Wfi(c) \/ Clr(c)
    BY <1>9, InterMoves
  <2>2. mcip[i]
    BY <1>5, <1>9, <2>1 DEF Add, Reset, Wfi, Clr, TypeInv
  <2> QED
    BY <1>6, <1>9, <2>2
<1> QED
  BY <1>7, <1>8, <1>9

\* The counters count.
LEMMA CountInvStep ==
    ASSUME TypeInv, ShapeInv, InterInv, NEW c \in Clusters, InterCluster(c)
    PROVE  CountInv'
<1> DEFINE j0 == calls(c)
           m0 == Program[j0].via
<1>1. /\ \A i \in Clusters : calls(i)' = calls(i)
      /\ \A i \in Clusters \ {c} : place(i)' = place(i)
      /\ j0 \in Calls /\ c \in Participants(j0) /\ Via(c) = m0 /\ m0 \in Comms
      /\ \A m \in Comms : Stored(m)' => Stored(m)
  BY InterFacts
<1>2. \A i \in Clusters : place(i) # "out" => calls(i) \in Calls
  BY MoverFacts
<1>3. \A i \in Clusters : \A j \in Calls :
        j = calls(i) => (Released(calls(i))' <=> Released(j)')
  BY <1>1 DEF Released, Passed
<1>4. \A j \in Calls : j # j0 \/ ~Reset(c) => (Released(j)' <=> Released(j))
  BY InterPassed, ReleasedStep
<1>5. SUFFICES ASSUME NEW m \in Comms, Stored(m)'
               PROVE  cnt'[m] = Cardinality(Counted(m)')
  BY DEF CountInv
<1>6. cnt[m] = Cardinality(Counted(m))
  BY <1>1, <1>5 DEF InterInv, CountInv
<1>7. ASSUME NEW i \in Clusters, place(i) # "out", calls(i) # j0 \/ ~Reset(c)
      PROVE  Released(calls(i))' <=> Released(calls(i))
  BY <1>2, <1>3, <1>4, <1>7
<1>8. ASSUME NEW i \in Clusters, i # c, calls(i) # j0 \/ ~Reset(c)
      PROVE  i \in Counted(m)' <=> i \in Counted(m)
  <2>1. CASE place(i) = "out"
    BY <1>1, <1>8, <2>1 DEF Counted
  <2>2. CASE place(i) # "out"
    BY <1>1, <1>7, <1>8, <2>2 DEF Counted
  <2> QED
    BY <2>1, <2>2
<1>9. c \in Counted(m)' <=> place(c)' \in {"wfi", "reset"} /\ m0 = m /\ ~Released(j0)'
  <2>1. Released(calls(c))' <=> Released(j0)'
    BY <1>1, <1>3
  <2> QED
    BY <1>1, <2>1 DEF Counted
<1>10. c \in Counted(m) <=> place(c) \in {"wfi", "reset"} /\ m0 = m /\ ~Released(j0)
  BY DEF Counted
<1>11. Counted(m) \subseteq Clusters /\ Counted(m)' \subseteq Clusters
  BY DEF Counted
<1>12. CASE Add(c)
  <2>1. /\ ~Released(j0) /\ IsFiniteSet(Counted(m0)) /\ c \notin Counted(m0)
        /\ cnt[m0] = Cardinality(Counted(m0))
    BY <1>12, AddCounts
  <2>2. /\ ~Reset(c) /\ place(c) = "add" /\ place(c)' \in {"reset", "wfi"}
        /\ cnt' = [cnt EXCEPT ![m0] = @ + 1]
    <3>1. place(c) = "add" /\ cnt' = [cnt EXCEPT ![m0] = @ + 1]
      BY <1>1, <1>12 DEF Add, place
    <3>2. ~Reset(c)
      BY <3>1 DEF Reset, Goto, place
    <3>3. place(c)' \in {"reset", "wfi"}
      BY <3>1, InterMoves
    <3> QED
      BY <3>1, <3>2, <3>3
  <2>3. CASE m = m0
    <3>1. Counted(m)' = Counted(m) \cup {c}
      BY <1>1, <1>4, <1>8, <1>9, <1>11, <2>1, <2>2, <2>3
    <3>2. Cardinality(Counted(m) \cup {c}) = Cardinality(Counted(m)) + 1
      BY <2>1, <2>3, FS_AddElement
    <3>3. cnt'[m] = cnt[m] + 1
      BY <2>2, <2>3 DEF TypeInv
    <3> QED
      BY <1>6, <3>1, <3>2, <3>3
  <2>4. CASE m # m0
    <3>1. Counted(m)' = Counted(m)
      BY <1>8, <1>9, <1>10, <1>11, <2>2, <2>4
    <3>2. cnt'[m] = cnt[m]
      BY <2>2, <2>4 DEF TypeInv
    <3> QED
      BY <1>6, <3>1, <3>2
  <2> QED
    BY <2>3, <2>4
<1>13. CASE Reset(c)
  <2>1. /\ place(c) = "reset" /\ place(c)' = "wake"
        /\ cnt' = [cnt EXCEPT ![m0] = 0]
    BY <1>1, <1>13, InterMoves DEF Reset, Add, WakeOne, WakeMulticast, Wfi, Clr, Goto, place
  <2>2. CASE m = m0
    <3>1. ASSUME NEW i \in Counted(m)' PROVE FALSE
      <4>1. /\ i \in Clusters /\ place(i)' \in {"wfi", "reset"}
            /\ Program[calls(i)'].via = m /\ ~Released(calls(i))'
        BY <3>1 DEF Counted
      <4>2. i # c /\ place(i) \in {"wfi", "reset"} /\ Program[calls(i)].via = m0
        BY <1>1, <2>1, <2>2, <4>1
      <4>3. calls(i) # j0
        BY <1>1, <1>3, <1>13, <4>1, ReleasedStep
      <4>4. ~Released(calls(i))
        BY <1>7, <4>1, <4>2, <4>3
      <4>5. ~Released(j0)
        BY <2>1 DEF InterInv, ResetInv
      <4> QED
        BY <2>1, <4>1, <4>2, <4>3, <4>4, <4>5, SameCall DEF Inner
    <3>2. cnt'[m] = 0
      BY <2>1, <2>2 DEF TypeInv
    <3>3. Counted(m)' = {}
      BY <3>1
    <3> QED
      BY <3>2, <3>3, FS_EmptySet
  <2>3. CASE m # m0
    <3>1. \A i \in Clusters : calls(i) = j0 => i \notin Counted(m) /\ i \notin Counted(m)'
      BY <1>1, <2>3 DEF Counted
    <3>2. Counted(m)' = Counted(m)
      BY <1>1, <1>8, <1>11, <3>1, <1>9, <1>10, <2>3
    <3>3. cnt'[m] = cnt[m]
      BY <2>1, <2>3 DEF TypeInv
    <3> QED
      BY <1>6, <3>2, <3>3
  <2> QED
    BY <2>2, <2>3
<1>14. CASE ~Add(c) /\ ~Reset(c)
  <2>1. cnt' = cnt
    BY <1>14 DEF InterCluster, WakeOne, WakeMulticast, Wfi, Clr
  <2>2. c \notin Counted(m)
    <3>1. CASE place(c) # "wfi"
      BY <1>14, <3>1, InterMoves DEF Counted
    <3>2. CASE place(c) = "wfi"
      <4>1. mcip[c]
        BY <3>2, InterMoves
      <4> QED
        BY <3>2, <4>1 DEF InterInv, IntInv, Counted
    <3> QED
      BY <3>1, <3>2
  <2>3. place(c)' \notin {"wfi", "reset"}
    BY <1>14, InterMoves
  <2>4. Counted(m)' = Counted(m)
    BY <1>8, <1>9, <1>11, <1>14, <2>2, <2>3
  <2> QED
    BY <1>6, <2>1, <2>4
<1> QED
  BY <1>12, <1>13, <1>14

----------------------------------------------------------------------------
(* The inductive invariant. *)

IInv == TypeInv /\ ShapeInv /\ InterInv

LEMMA InitInv == Init => IInv
<1> SUFFICES ASSUME Init PROVE IInv
  OBVIOUS
<1> USE Constants
<1>1. TypeInv
  <2>1. /\ pc \in [Clusters \X Cores -> Labels]
        /\ call \in [Clusters \X Cores -> 0 .. Len(Program)]
        /\ ret \in [Clusters \X Cores -> Nat]
    BY DEF Init, Labels
  <2>2. cnt \in [Comms -> Nat]
    <3>1. cnt \in [Comms -> 0 .. 1] /\ 0 .. 1 \subseteq Nat
      BY DEF Init
    <3> QED
      BY <3>1
  <2>3. /\ arrival \in [Clusters -> SUBSET Cores]
        /\ mcip \in [Clusters -> BOOLEAN] /\ submask \in [Clusters -> Nat]
        /\ todo \in [Clusters -> SUBSET Clusters] /\ multicast \in BOOLEAN
    BY CommsAssumption DEF Init
  <2> QED
    BY <2>1, <2>2, <2>3 DEF TypeInv
<1>2. ShapeInv
  BY DEF Init, ShapeInv, After, Inner
<1>3. \A c \in Clusters : place(c) = "out" /\ calls(c) = 0 /\ rets(c) = 0 /\ ~mcip[c]
  BY DEF Init, place, calls, rets
<1>4. SyncInv
  BY <1>3 DEF SyncInv, Passed, Calls, Participants
<1>5. ResetInv /\ WakeInv /\ IntInv
  BY <1>3 DEF ResetInv, WakeInv, IntInv
<1>6. ASSUME NEW m \in Comms, Stored(m) PROVE cnt[m] = Cardinality(Counted(m))
  <2>1. Counted(m) = {}
    BY <1>3 DEF Counted
  <2>2. m \notin Created
    BY <1>6 DEF Stored, Created, Init, Calls
  <2>3. cnt[m] = 0
    BY <2>2 DEF Init
  <2> QED
    BY <2>1, <2>3, FS_EmptySet
<1> QED
  BY <1>1, <1>2, <1>4, <1>5, <1>6 DEF IInv, InterInv, CountInv

LEMMA StepInv ==
    ASSUME IInv, [Next]_vars
    PROVE  IInv'
<1>1. TypeInv /\ ShapeInv /\ InterInv
  BY DEF IInv
<1>2. TypeInv' /\ ShapeInv'
  BY <1>1, ShapeStep
<1>3. ASSUME NEW c \in Clusters, InterCluster(c) PROVE InterInv'
  BY <1>1, <1>3, ReleasedStep, CountInvStep, ResetInvStep, WakeInvStep, IntInvStep
  DEF InterInv
<1>4. ASSUME \/ UNCHANGED vars \/ Store
             \/ \E x \in Clusters \X Cores : Begin(x) \/ Arrive(x)
             \/ \E c \in Clusters : Release(c)
      PROVE  InterInv'
  BY <1>1, <1>4, QuietSteps, QuietStep
<1>5. InterInv'
  BY <1>3, <1>4 DEF Next, InBarrier
<1> QED
  BY <1>2, <1>5 DEF IInv

THEOREM Invariance == Spec => []IInv
BY InitInv, StepInv, PTL DEF Spec

\* When a cluster is through with a call, every core of every member is in it.
LEMMA BegunWhenPassed ==
    ASSUME IInv, NEW j \in Calls, NEW c \in Participants(j), Passed(c, j),
           NEW d \in Participants(j), NEW l \in Cores
    PROVE  call[<<d, l>>] >= j
<1>1. d \in Clusters /\ DM \in Cores /\ j \in Nat
  BY Constants DEF Participants, Calls
<1>2. Passed(d, j) \/ (calls(d) = j /\ place(d) = "wfi")
  BY DEF IInv, InterInv, SyncInv
<1>3. /\ ret[<<d, l>>] = rets(d) /\ rets(d) \in Nat
      /\ call[<<d, l>>] = IF pc[<<d, l>>] = "out" THEN rets(d) ELSE rets(d) + 1
      /\ place(d) \in After => pc[<<d, l>>] \in After
      /\ calls(d) = IF place(d) = "out" THEN rets(d) ELSE rets(d) + 1
  BY <1>1, MoverFacts DEF IInv, ShapeInv, rets, place
<1>4. CASE rets(d) >= j
  BY <1>1, <1>3, <1>4
<1>5. CASE calls(d) = j /\ place(d) \in After
  BY <1>1, <1>3, <1>5 DEF After, Inner
<1> QED
  BY <1>2, <1>4, <1>5 DEF Passed, After, Inner

\* snrt_global_barrier synchronises: no core returns from a barrier of a
\* communicator before all cores of all its clusters have begun that call,
\* for any sizes, any program of calls and both ways of waking.
THEOREM GlobalBarrierSynchronizes == Spec => []Synchronized
<1>1. IInv => Synchronized
  <2>1. SUFFICES ASSUME IInv, NEW c \in Clusters, NEW k \in Cores,
                        NEW d \in Clusters, NEW l \in Cores,
                        NEW j \in 1 .. ret[<<c, k>>],
                        is_participant(c, Program[j].via),
                        is_participant(d, Program[j].via)
                 PROVE  call[<<d, l>>] >= j
    BY DEF Synchronized
  <2>2. /\ ret[<<c, k>>] = rets(c) /\ rets(c) \in Nat
        /\ call[<<c, k>>] \in 0 .. Len(Program)
        /\ call[<<c, k>>] = ret[<<c, k>>] \/ call[<<c, k>>] = ret[<<c, k>>] + 1
    BY <2>1, Constants DEF IInv, TypeInv, ShapeInv, rets
  <2>3. j \in Calls /\ rets(c) >= j
    BY <2>2, Constants DEF Calls
  <2>4. c \in Participants(j) /\ d \in Participants(j) /\ Passed(c, j)
    BY <2>1, <2>3 DEF Participants, Passed
  <2> QED
    BY <2>1, <2>3, <2>4, BegunWhenPassed
<1> QED
  BY <1>1, Invariance, PTL

\* snrt_wake_clusters and snrt_int_clr_mcip are matched: no interrupt
\* survives into a later barrier.
THEOREM InterruptsAreOwn == Spec => []InterruptIsOwn
<1>1. IInv => InterruptIsOwn
  BY DEF IInv, InterInv, IntInv, InterruptIsOwn, place
<1> QED
  BY <1>1, Invariance, PTL

----------------------------------------------------------------------------
(* For the cores of the clusters that take part in every call - all cores,  *)
(* when every communicator has all clusters - the whole is a barrier.       *)

Common == {x \in Clusters \X Cores :
              \A j \in Calls : is_participant(x[1], Program[j].via)}

entered == [x \in Common |-> call[x]]
left == [x \in Common |-> ret[x]]

B == INSTANCE Barrier WITH Members <- Common, entered <- entered, left <- left

LEMMA BeginEnters ==
    ASSUME IInv, NEW x \in Clusters \X Cores, Begin(x)
    PROVE  B!Next
<1>1. pc[x] = "out" /\ call' = [call EXCEPT ![x] = @ + 1] /\ ret' = ret
  BY DEF Begin, Goto
<1>2. call[x] = ret[x]
  BY <1>1 DEF IInv, ShapeInv
<1>3. \A y \in Clusters \X Cores : call'[y] = IF y = x THEN call[y] + 1 ELSE call[y]
  BY <1>1 DEF IInv, TypeInv
<1> DEFINE S == {x} \cap Common
<1>4. entered' = B!Plus(entered, S)
  BY <1>3 DEF B!Plus, entered, Common
<1>5. left' = left /\ \A y \in S : entered[y] = left[y]
  BY <1>1, <1>2 DEF entered, left, Common
<1>6. B!Enter(S) /\ S \in SUBSET Common
  BY <1>4, <1>5 DEF B!Enter
<1> QED
  BY <1>6 DEF B!Next

LEMMA ReleaseLeaves ==
    ASSUME IInv, NEW c \in Clusters, Release(c)
    PROVE  B!Next
<1> DEFINE S == {x \in Common : x[1] = c /\ pc[x] = "stall2"}
<1>1. entered' = entered /\ left' = B!Plus(left, S)
  BY DEF Release, B!Plus, entered, left, Common
<1>2. ASSUME NEW k \in Cores, pc[<<c, k>>] = "stall2", <<c, k>> \in Common,
             NEW d \in Clusters, NEW l \in Cores, <<d, l>> \in Common
      PROVE  ret[<<c, k>>] < call[<<d, l>>]
  <2> DEFINE j == call[<<c, k>>]
  <2>1. /\ j = ret[<<c, k>>] + 1 /\ ret[<<c, k>>] = rets(c) /\ rets(c) \in Nat
        /\ j \in 0 .. Len(Program) /\ Len(Program) \in Nat
        /\ call[<<d, l>>] \in Nat
    <3>1. /\ j \in 0 .. Len(Program) /\ Len(Program) \in Nat
          /\ call[<<d, l>>] \in Nat /\ ret[<<c, DM>>] \in Nat
      BY Constants DEF IInv, TypeInv
    <3>2. j = ret[<<c, k>>] + 1 /\ ret[<<c, k>>] = ret[<<c, DM>>]
      BY <1>2, Constants DEF IInv, ShapeInv
    <3> QED
      BY <3>1, <3>2 DEF rets
  <2>2. place(c) = "stall2"
    <3>1. place(c) \in {"stall1", "stall2"}
      BY Constants DEF Release, IInv, ShapeInv, place
    <3>2. place(c) \in After
      BY <1>2, Constants DEF IInv, ShapeInv, place, After
    <3> QED
      BY <3>1, <3>2 DEF After, Inner
  <2>3. j \in Calls /\ calls(c) = j
    BY <2>1, <2>2, MoverFacts DEF IInv, Calls
  <2>4. Passed(c, j)
    BY <2>2, <2>3 DEF Passed
  <2>5. c \in Participants(j) /\ d \in Participants(j)
    BY <1>2, <2>3 DEF Participants, Common
  <2>6. call[<<d, l>>] >= j
    BY <2>3, <2>4, <2>5, BegunWhenPassed
  <2> QED
    BY <2>1, <2>6
<1>3. \A x \in S : \A y \in Common : left[x] < entered[y]
  BY <1>2 DEF left, entered, Common
<1>4. B!Exit(S) /\ S \in SUBSET Common
  BY <1>1, <1>3 DEF B!Exit
<1> QED
  BY <1>4 DEF B!Next

\* The global barrier implements the barrier of the cores that take part in
\* every call: a step that begins a call enters, the second hardware barrier
\* of a cluster lets its cores leave together, and the other steps change
\* nothing there.
THEOREM GlobalBarrierRefines ==
    Spec => B!Init /\ [][B!Next]_<<entered, left>>
<1>1. Init => B!Init
  BY DEF Init, B!Init, entered, left, Common
<1>2. IInv /\ [Next]_vars => [B!Next]_<<entered, left>>
  <2> SUFFICES ASSUME IInv, [Next]_vars PROVE B!Next \/ UNCHANGED <<entered, left>>
    OBVIOUS
  <2>1. ASSUME NEW x \in Clusters \X Cores, Begin(x) PROVE B!Next
    BY <2>1, BeginEnters
  <2>2. ASSUME NEW c \in Clusters, Release(c) PROVE B!Next
    BY <2>2, ReleaseLeaves
  <2>3. ASSUME UNCHANGED <<call, ret>> PROVE UNCHANGED <<entered, left>>
    BY <2>3 DEF entered, left
  <2>4. CASE Store \/ (\E x \in Clusters \X Cores : Arrive(x)) \/ UNCHANGED vars
    BY <2>3, <2>4 DEF Store, Arrive, vars
  <2>5. ASSUME NEW c \in Clusters, InterCluster(c) PROVE UNCHANGED <<call, ret>>
    BY <2>5 DEF InterCluster, Add, Reset, WakeOne, WakeMulticast, Wfi, Clr
  <2> QED
    BY <2>1, <2>2, <2>3, <2>4, <2>5 DEF Next, InBarrier
<1> QED
  BY <1>1, <1>2, Invariance, PTL DEF Spec

----------------------------------------------------------------------------
(* Nobody is forgotten. *)

\* As long as a call is not released, a member is still to fall asleep in it.
LateInv ==
    \A j \in Calls : ~Released(j) =>
        \E d \in Participants(j) : ~(calls(d) = j /\ place(d) = "wfi")

\* A sleeper of a released call whose interrupt is not pending is among those
\* that the waking member will still reach.
WokenInv ==
    \A c \in Clusters : place(c) = "wfi" /\ ~mcip[c] /\ Released(calls(c)) =>
        \E w \in Clusters : /\ calls(w) = calls(c) /\ place(w) = "wake"
                            /\ c \in Remaining(w)

LEMMA SleepInit == Init => LateInv /\ WokenInv
<1> SUFFICES ASSUME Init PROVE LateInv /\ WokenInv
  OBVIOUS
<1>1. \A c \in Clusters : place(c) = "out"
  BY Constants DEF Init, place
<1>2. \A j \in Calls : 0 \in Participants(j)
  BY Constants DEF Participants, is_participant, Calls
<1> QED
  BY <1>1, <1>2, Constants DEF LateInv, WokenInv

\* If all the others sleep in its call, the one that counts itself in is last.
LEMMA LastIsCounted ==
    ASSUME TypeInv, ShapeInv, InterInv, NEW c \in Clusters, Add(c),
           \A i \in Participants(calls(c)) \ {c} : calls(i) = calls(c) /\ place(i) = "wfi"
    PROVE  cnt[Via(c)] + 1 = size[Via(c)]
<1> DEFINE j == calls(c)
           m == Program[j].via
           N == Counted(m)
<1>1. place(c) = "add"
  BY DEF Add, place
<1>2. j \in Calls /\ m \in Comms /\ c \in Participants(j) /\ Via(c) = m
  BY <1>1, MoverFacts DEF Inner, Via, calls
<1>3. /\ ~Released(j) /\ c \notin N /\ N \subseteq Participants(j)
      /\ IsFiniteSet(N) /\ cnt[m] = Cardinality(N)
  BY AddCounts
<1>4. N \cup {c} = Participants(j)
  <2>1. ASSUME NEW i \in Participants(j) \ {c} PROVE i \in N
    BY <1>3, <2>1 DEF Counted, Participants
  <2> QED
    BY <1>2, <1>3, <2>1
<1>5. Participants(j) = 0 .. mask(m) /\ mask(m) \in Nat /\ size[m] = mask(m) + 1
  BY <1>2, Constants DEF Participants, mask
<1>6. Cardinality(Participants(j)) = size[m]
  BY <1>5, IntervalSize
<1>7. Cardinality(N \cup {c}) = Cardinality(N) + 1
  BY <1>3, FS_AddElement
<1> HIDE DEF N, j, m
<1> QED
  BY <1>2, <1>3, <1>4, <1>6, <1>7

\* The last one does not fall asleep.
LEMMA LateStep ==
    ASSUME TypeInv, ShapeInv, InterInv, LateInv, NEW c \in Clusters, InterCluster(c)
    PROVE  LateInv'
<1>1. /\ \A i \in Clusters : calls(i)' = calls(i)
      /\ \A i \in Clusters \ {c} : place(i)' = place(i)
      /\ calls(c) \in Calls /\ c \in Participants(calls(c))
  BY InterFacts
<1>2. SUFFICES ASSUME NEW j \in Calls, ~Released(j)'
               PROVE  \E d \in Participants(j) : ~(calls(d)' = j /\ place(d)' = "wfi")
  BY DEF LateInv, Participants
<1>3. j # calls(c) \/ ~Reset(c)
  <2>1. SUFFICES ASSUME j = calls(c), Reset(c) PROVE FALSE
    OBVIOUS
  <2>2. Released(calls(c))'
    BY <2>1, ReleasedStep
  <2>3. \A k \in Calls : k = calls(c) => (Released(calls(c))' <=> Released(k)')
    BY <1>1 DEF Released, Passed
  <2> QED
    BY <1>2, <2>1, <2>2, <2>3
<1>4. ~Released(j)
  BY <1>2, <1>3, InterPassed, ReleasedStep
<1>5. PICK d \in Participants(j) : ~(calls(d) = j /\ place(d) = "wfi")
  BY <1>4 DEF LateInv
<1>6. d \in Clusters
  BY DEF Participants
<1>7. CASE d # c \/ calls(c) # j \/ place(c)' # "wfi"
  BY <1>1, <1>5, <1>6, <1>7
<1>8. CASE d = c /\ calls(c) = j /\ place(c)' = "wfi"
  <2>1. Add(c) /\ cnt[Via(c)] + 1 # size[Via(c)]
    <3>1. Add(c)
      BY <1>8, InterMoves
    <3> QED
      BY <1>8, <3>1, Constants DEF Add, Goto, place, TypeInv
  <2>2. PICK i \in Participants(j) \ {c} : ~(calls(i) = j /\ place(i) = "wfi")
    BY <1>8, <2>1, LastIsCounted
  <2> QED
    BY <1>1, <2>2 DEF Participants
<1> QED
  BY <1>7, <1>8

\* What a wake-up does not reach now remains to be reached.
LEMMA RemainingCovers ==
    ASSUME PowersOfTwo, TypeInv, ShapeInv, InterInv, NEW c \in Clusters,
           InterCluster(c), place(c) = "wake",
           NEW i \in Remaining(c), i # c, ~mcip'[i]
    PROVE  place(c)' = "wake" /\ i \in Remaining(c)'
<1> DEFINE m == Program[calls(c)].via
           s == submask[c]
           t == NextSubmask(s, m)
<1>1. /\ calls(c)' = calls(c) /\ Via(c) = m /\ m \in Comms /\ multicast' = multicast
  BY InterFacts
<1>2. i \in Clusters /\ (~multicast => s \in 0 .. mask(m)) /\ mask(m) \in Nat
  BY <1>1, Constants DEF InterInv, WakeInv
<1>3. CASE WakeOne(c)
  <2> HIDE DEF m, t
  <2>1. /\ ~multicast /\ submask' = [submask EXCEPT ![c] = t]
        /\ mcip' = [k \in Clusters |-> mcip[k] \/ (k = s /\ k # c)]
        /\ pc' = [pc EXCEPT ![<<c, DM>>] = IF t = 0 THEN "clr" ELSE "wake"]
    BY <1>1, <1>3 DEF WakeOne, Goto, t
  <2>2. submask'[c] = t /\ place(c)' = IF t = 0 THEN "clr" ELSE "wake"
    BY <2>1, Constants DEF TypeInv, place
  <2>3. i # s
    BY <1>2, <2>1
  <2>4. t = IF s = 0 THEN mask(m) ELSE s - 1
    BY <1>1, <1>2, <2>1, NextSubmaskIs DEF t
  <2>5. i \in IF s = 0 THEN 0 .. mask(m) ELSE 1 .. s
    BY <2>1 DEF Remaining, m
  <2>6. t # 0 /\ i \in 1 .. t
    <3> HIDE DEF s
    <3> QED
      BY <1>2, <2>1, <2>3, <2>4, <2>5
  <2>7. Remaining(c)' = 1 .. t
    BY <1>1, <2>1, <2>2, <2>6 DEF Remaining
  <2> QED
    BY <2>2, <2>6, <2>7
<1>4. ASSUME NEW k \in Clusters, WakeMulticast(c, k)
      PROVE  place(c)' = "wake" /\ i \in Remaining(c)'
  <2>1. /\ multicast /\ mcip' = [mcip EXCEPT ![k] = TRUE]
        /\ todo' = [todo EXCEPT ![c] = @ \ {k}]
        /\ pc' = [pc EXCEPT ![<<c, DM>>] = IF todo[c] = {k} THEN "clr" ELSE "wake"]
    BY <1>4 DEF WakeMulticast, Goto
  <2>2. i # k /\ i \in todo[c]
    BY <1>2, <2>1 DEF TypeInv, Remaining
  <2>3. place(c)' = "wake"
    BY <2>1, <2>2, Constants DEF TypeInv, place
  <2>4. Remaining(c)' = todo[c] \ {k}
    BY <1>1, <2>1 DEF Remaining, TypeInv
  <2> QED
    BY <2>2, <2>3, <2>4
<1> QED
  BY <1>3, <1>4, InterMoves

\* Who is released in his sleep is woken.
LEMMA WokenStep ==
    ASSUME PowersOfTwo, TypeInv, ShapeInv, InterInv, WokenInv,
           NEW b \in Clusters, InterCluster(b)
    PROVE  WokenInv'
<1>1. /\ \A i \in Clusters : calls(i)' = calls(i)
      /\ \A i \in Clusters \ {b} : place(i)' = place(i)
      /\ calls(b) \in Calls /\ Via(b) = Program[calls(b)].via
      /\ Via(b) \in Comms /\ multicast' = multicast
  BY InterFacts
<1>2. SUFFICES ASSUME NEW c \in Clusters, place(c)' = "wfi", ~mcip'[c], Released(calls(c))'
               PROVE  \E w \in Clusters : /\ calls(w)' = calls(c)' /\ place(w)' = "wake"
                                          /\ c \in Remaining(w)'
  BY DEF WokenInv
<1>3. \A i \in Clusters : \A j \in Calls :
        j = calls(i) => (Released(calls(i))' <=> Released(j)')
  BY <1>1 DEF Released, Passed
<1>4. c # b
  <2>1. SUFFICES ASSUME c = b PROVE FALSE
    OBVIOUS
  <2>2. Add(b) /\ ~Reset(b)
    <3>1. Add(b) /\ place(b) = "add"
      BY <1>2, <2>1, InterMoves
    <3> QED
      BY <3>1 DEF Reset, Goto, place
  <2>3. ~Released(calls(b))
    BY <2>2, AddCounts
  <2>4. ~Released(calls(b))'
    BY <1>1, <1>3, <2>2, <2>3, ReleasedStep
  <2> QED
    BY <1>2, <2>1, <2>4
<1>5. place(c) = "wfi" /\ calls(c)' = calls(c)
  BY <1>1, <1>2, <1>4
<1>6. calls(c) \in Calls /\ c \in Participants(calls(c))
  BY <1>5, MoverFacts DEF Inner
<1>7. ~mcip[c]
  BY <1>2, <1>4 DEF InterCluster, Add, Reset, WakeOne, WakeMulticast, Wfi, Clr, TypeInv
<1>8. CASE Released(calls(c))
  <2>1. PICK w \in Clusters : calls(w) = calls(c) /\ place(w) = "wake" /\ c \in Remaining(w)
    BY <1>5, <1>7, <1>8 DEF WokenInv
  <2>2. CASE w = b
    <3>1. place(b)' = "wake" /\ c \in Remaining(b)'
      BY <1>2, <1>4, <2>1, <2>2, RemainingCovers
    <3> QED
      BY <1>1, <2>1, <2>2, <3>1
  <2>3. CASE w # b
    <3>1. submask'[w] = submask[w] /\ todo'[w] = todo[w]
      BY <2>3 DEF InterCluster, Add, Reset, WakeOne, WakeMulticast, Wfi, Clr, TypeInv
    <3>2. Remaining(w)' = Remaining(w)
      BY <1>1, <3>1 DEF Remaining, mask
    <3> QED
      BY <1>1, <2>1, <2>3, <3>2
  <2> QED
    BY <2>2, <2>3
<1>9. CASE ~Released(calls(c))
  <2>1. Reset(b) /\ calls(b) = calls(c)
    <3>1. Released(calls(c))' <=> Released(calls(c)) \/ (Reset(b) /\ calls(b) = calls(c))
      <4>1. \A j \in Calls : j = calls(c) => (Released(calls(c))' <=> Released(j)')
        BY <1>3
      <4>2. \A j \in Calls : j # calls(b) \/ ~Reset(b) => (Released(j)' <=> Released(j))
        BY InterPassed, ReleasedStep
      <4> QED
        BY <1>2, <1>6, <4>1, <4>2
    <3> QED
      BY <1>2, <1>9, <3>1
  <2>2. /\ place(b)' = "wake" /\ submask'[b] = 0
        /\ todo'[b] = IF multicast THEN McastTargets(Via(b)) ELSE {}
    BY <2>1, Constants DEF Reset, Goto, place, TypeInv
  <2>3. Remaining(b)' = 0 .. mask(Via(b))
    <3>1. multicast => Remaining(b)' = McastTargets(Via(b))
      BY <1>1, <2>2 DEF Remaining
    <3>2. ~multicast => Remaining(b)' = 0 .. mask(Via(b))
      BY <1>1, <2>2 DEF Remaining, mask
    <3> QED
      BY <1>1, <3>1, <3>2, McastTargetsAre
  <2>4. 0 .. mask(Via(b)) = Participants(calls(b))
    BY <1>1, Constants DEF Participants
  <2> QED
    BY <1>1, <1>6, <2>1, <2>2, <2>3, <2>4
<1> QED
  BY <1>8, <1>9

\* Outside the inter-cluster part nothing changes.
LEMMA SleepQuiet ==
    ASSUME TypeInv, ShapeInv, LateInv, Quiet
    PROVE  LateInv' /\ (WokenInv => WokenInv')
<1>1. /\ \A c \in Clusters :
          /\ place(c)' \in Busy <=> place(c) \in Busy
          /\ place(c) \in Busy => place(c)' = place(c) /\ calls(c)' = calls(c)
      /\ UNCHANGED <<mcip, submask, todo, multicast>>
  BY DEF Quiet
<1>2. ASSUME NEW j \in Calls, ~Released(j)'
      PROVE  \E d \in Participants(j) : ~(calls(d)' = j /\ place(d)' = "wfi")
  <2>1. PICK d \in Participants(j) : ~(calls(d) = j /\ place(d) = "wfi")
    BY <1>2, QuietFrame DEF LateInv
  <2>2. d \in Clusters
    BY DEF Participants
  <2> QED
    BY <1>1, <2>1, <2>2 DEF Busy
<1>3. ASSUME WokenInv, NEW c \in Clusters,
             place(c)' = "wfi", ~mcip'[c], Released(calls(c))'
      PROVE  \E w \in Clusters : /\ calls(w)' = calls(c)' /\ place(w)' = "wake"
                                 /\ c \in Remaining(w)'
  <2>1. place(c) = "wfi" /\ ~mcip[c] /\ calls(c)' = calls(c)
    BY <1>1, <1>3 DEF Busy
  <2>2. Released(calls(c))
    BY <1>3, <2>1, MoverFacts, QuietFrame DEF Busy
  <2>3. PICK w \in Clusters : calls(w) = calls(c) /\ place(w) = "wake" /\ c \in Remaining(w)
    BY <1>3, <2>1, <2>2 DEF WokenInv
  <2>4. place(w)' = "wake" /\ calls(w)' = calls(w)
    BY <1>1, <2>3 DEF Busy
  <2>5. Remaining(w)' = Remaining(w)
    BY <1>1, <2>4 DEF Remaining, mask
  <2> QED
    BY <2>1, <2>3, <2>4, <2>5
<1> QED
  BY <1>2, <1>3 DEF LateInv, WokenInv, Participants

LEMMA SleepStep ==
    ASSUME PowersOfTwo, IInv, LateInv, WokenInv, [Next]_vars
    PROVE  LateInv' /\ WokenInv'
<1>1. TypeInv /\ ShapeInv /\ InterInv
  BY DEF IInv
<1>2. ASSUME NEW c \in Clusters, InterCluster(c) PROVE LateInv' /\ WokenInv'
  BY <1>1, <1>2, LateStep, WokenStep
<1>3. ASSUME \/ UNCHANGED vars \/ Store
             \/ \E x \in Clusters \X Cores : Begin(x) \/ Arrive(x)
             \/ \E c \in Clusters : Release(c)
      PROVE  LateInv' /\ WokenInv'
  BY <1>1, <1>3, QuietSteps, SleepQuiet
<1> QED
  BY <1>2, <1>3 DEF Next, InBarrier

\* With communicators whose sizes are powers of two, as snrt_wake_clusters
\* needs them, no data mover sleeps without a member that will wake it or is
\* still to come: no wake-up is lost and no barrier deadlocks, for any number
\* of clusters and cores, any program of calls and both ways of waking.
THEOREM NoSleeperIsLost == PowersOfTwo => (Spec => []NobodyIsForgotten)
<1>1. ASSUME IInv, LateInv, WokenInv, NEW c \in Clusters, place(c) = "wfi", ~mcip[c]
      PROVE  \E d \in Clusters :
                /\ is_participant(d, Via(c))
                /\ \/ calls(d) < calls(c)
                   \/ /\ calls(d) = calls(c)
                      /\ place(d) \in {"store", "hw1", "stall1", "add", "reset", "wake"}
  <2> DEFINE j == calls(c)
  <2>1. TypeInv /\ ShapeInv
    BY <1>1 DEF IInv
  <2>2. j \in Calls /\ j \in Nat /\ Via(c) = Program[j].via
    BY <1>1, <2>1, MoverFacts DEF Via, calls
  <2>3. CASE Released(j)
    <3>1. PICK w \in Clusters : calls(w) = j /\ place(w) = "wake"
      BY <1>1, <2>3 DEF WokenInv
    <3>2. w \in Participants(j)
      BY <2>1, <3>1, MoverFacts DEF Inner
    <3> QED
      BY <2>2, <3>1, <3>2 DEF Participants
  <2>4. CASE ~Released(j)
    <3>1. PICK d \in Participants(j) : ~(calls(d) = j /\ place(d) = "wfi")
      BY <1>1, <2>2, <2>4 DEF LateInv
    <3>2. d \in Clusters /\ is_participant(d, Via(c)) /\ ~Passed(d, j)
      BY <2>2, <2>4, <3>1 DEF Participants, Released
    <3>3. /\ place(d) \in Labels /\ calls(d) \in Nat /\ rets(d) \in Nat
          /\ calls(d) = IF place(d) = "out" THEN rets(d) ELSE rets(d) + 1
      BY <2>1, <3>2, MoverFacts
    <3>4. calls(d) < j \/ (calls(d) = j /\ place(d) # "out")
      BY <2>2, <3>2, <3>3 DEF Passed
    <3> QED
      BY <3>1, <3>2, <3>3, <3>4 DEF Passed, Labels, After, Inner
  <2> QED
    BY <2>3, <2>4
<1>2. IInv /\ LateInv /\ WokenInv => NobodyIsForgotten
  BY <1>1 DEF NobodyIsForgotten, place, calls
<1>3. Init => IInv /\ LateInv /\ WokenInv
  BY InitInv, SleepInit
<1>4. ASSUME PowersOfTwo
      PROVE  IInv /\ LateInv /\ WokenInv /\ [Next]_vars => (IInv /\ LateInv /\ WokenInv)'
  BY <1>4, StepInv, SleepStep
<1>5. ASSUME PowersOfTwo PROVE Spec => []NobodyIsForgotten
  BY <1>2, <1>3, <1>4, <1>5, PTL DEF Spec
<1> QED
  BY <1>5

=============================================================================
