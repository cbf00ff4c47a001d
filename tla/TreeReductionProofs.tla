------------------------- MODULE TreeReductionProofs -------------------------
(***************************************************************************)
(* What the tree reduction guarantees, for any number of levels and of     *)
(* compute cores: the sums of the first two levels are complete.           *)
(*                                                                         *)
(* There is no barrier between the additions of a level and the transfers  *)
(* of the next one, so only a buffer that a single transfer ever reaches   *)
(* is safe.  The receivers of that kind are steady: those that become      *)
(* senders at level 1, and cluster 0 when there are just two clusters.     *)
(* The inductive invariant says how far the clusters can be apart (one     *)
(* global barrier), and what the buffers of the odd clusters and of the    *)
(* steady receivers hold at each stage.                                    *)
(***************************************************************************)
EXTENDS TreeReduction, FiniteSetTheorems, TLAPS

----------------------------------------------------------------------------
(* Powers of two. *)

\* A set with one more element has twice as many subsets.
LEMMA Double ==
    ASSUME NEW n \in Nat
    PROVE  2^n \in Nat \ {0} /\ 2^(n + 1) = 2 * 2^n
<1> DEFINE S == 1 .. n
           T == 1 .. (n + 1)
           With == [X \in SUBSET S |-> X \cup {n + 1}]
           New == {X \cup {n + 1} : X \in SUBSET S}
<1>1. /\ IsFiniteSet(S) /\ Cardinality(S) = n
      /\ IsFiniteSet(T) /\ Cardinality(T) = n + 1
  BY FS_Interval
<1>2. /\ IsFiniteSet(SUBSET S) /\ Cardinality(SUBSET S) = 2^n
      /\ Cardinality(SUBSET T) = 2^(n + 1)
  BY <1>1, FS_SUBSET
<1>3. n + 1 \notin S /\ T = S \cup {n + 1}
  OBVIOUS
<1>4. IsFiniteSet(New) /\ Cardinality(New) = Cardinality(SUBSET S)
  <2>1. With \in Bijection(SUBSET S, New)
    <3> HIDE DEF S
    <3>1. With \in [SUBSET S -> New]
      OBVIOUS
    <3>2. ASSUME NEW X \in SUBSET S, NEW Y \in SUBSET S, With[X] = With[Y] PROVE X = Y
      BY <1>3, <3>2
    <3>3. \A Y \in New : \E X \in SUBSET S : With[X] = Y
      OBVIOUS
    <3> QED
      BY <3>1, <3>2, <3>3 DEF Bijection, Injection, Surjection, IsInjective
  <2> HIDE DEF S, New, With
  <2> QED
    BY <1>2, <2>1, FS_Bijection DEF ExistsBijection
<1>5. SUBSET T = (SUBSET S) \cup New /\ (SUBSET S) \cap New = {}
  <2> HIDE DEF S, T
  <2>1. ASSUME NEW X \in SUBSET T, n + 1 \in X PROVE X \in New
    <3>1. X \ {n + 1} \in SUBSET S /\ X = (X \ {n + 1}) \cup {n + 1}
      BY <1>3, <2>1
    <3> QED
      BY <3>1
  <2>2. ASSUME NEW X \in New PROVE X \in SUBSET T /\ n + 1 \in X
    BY <1>3
  <2>3. SUBSET S \subseteq SUBSET T /\ \A X \in SUBSET S : n + 1 \notin X
    BY <1>3
  <2>4. \A X \in SUBSET T : n + 1 \notin X => X \in SUBSET S
    BY <1>3
  <2> HIDE DEF New
  <2> QED
    BY <2>1, <2>2, <2>3, <2>4
<1>6. Cardinality(SUBSET T) = Cardinality(SUBSET S) + Cardinality(New) - Cardinality({})
  <2> HIDE DEF S, T, New
  <2> QED
    BY <1>2, <1>4, <1>5, FS_Union
<1>7. Cardinality(SUBSET S) \in Nat /\ Cardinality(SUBSET S) # 0
  <2>1. {} \in SUBSET S
    OBVIOUS
  <2> HIDE DEF S
  <2> QED
    BY <1>2, <2>1, FS_CardinalityType, FS_EmptySet
<1> HIDE DEF S, T, New
<1> QED
  BY <1>2, <1>4, <1>6, <1>7, FS_EmptySet

LEMMA SmallPowers == 2^0 = 1 /\ 2^1 = 2 /\ 2^2 = 4
<1>1. 2^0 = 1
  <2>1. Cardinality(SUBSET {}) = 2^0
    BY FS_SUBSET, FS_EmptySet
  <2>2. SUBSET {} = {{}}
    OBVIOUS
  <2> QED
    BY <2>1, <2>2, FS_Singleton
<1>2. 2^(0 + 1) = 2 * 2^0 /\ 2^(1 + 1) = 2 * 2^1
  BY Double
<1>3. 0 + 1 = 1 /\ 1 + 1 = 2
  OBVIOUS
<1> QED
  BY <1>1, <1>2, <1>3
----------------------------------------------------------------------------
(* Who takes part at which level. *)

\* A multiple of twice a number, and of four times one, as remainders say it.
LEMMA Multiple ==
    ASSUME NEW c \in Nat, NEW p \in Nat \ {0}
    PROVE  /\ c % (2 * p) = 0 => c % 2 = 0
           /\ c % (4 * p) = 0 => c % 4 = 0
<1>1. ASSUME NEW a \in {2, 4}, c % (a * p) = 0 PROVE c % a = 0
  <2> DEFINE m == a * p
             q == c \div m
             t == p * q
  <2>1. m \in Nat \ {0}
    OBVIOUS
  <2>2. q \in Nat /\ c = m * q + (c % m)
    <3> HIDE DEF m
    <3> QED
      BY <2>1
  <2>3. t \in Nat /\ m * q = a * t
    <3> HIDE DEF q
    <3> QED
      BY <2>2
  <2>4. c = a * t
    BY <1>1, <2>1, <2>2, <2>3
  <2> HIDE DEF t
  <2>5. (a * t) % a = 0
    BY <2>3
  <2> QED
    BY <2>4, <2>5
<1> QED
  BY <1>1

\* Subtracting p from an odd multiple of p gives a multiple of 2p.
LEMMA OddMultiple ==
    ASSUME NEW c \in Nat, NEW p \in Nat \ {0}, c % p = 0, c % (2 * p) # 0
    PROVE  c - p \in Nat /\ (c - p) % (2 * p) = 0
<1> DEFINE q == c \div p
           t == q \div 2
           m == 2 * p
<1>1. q \in Nat /\ c = p * q
  OBVIOUS
<1> HIDE DEF q
<1>2. t \in Nat /\ (q = 2 * t \/ q = 2 * t + 1)
  BY <1>1
<1> HIDE DEF t
<1>3. p * t \in Nat /\ p * (2 * t) = 2 * (p * t) /\ p * (2 * t + 1) = 2 * (p * t) + p
  BY <1>2
<1>4. m * t = 2 * (p * t)
  BY <1>2
<1>5. (m * t) % m = 0
  <2>1. m \in Nat \ {0}
    OBVIOUS
  <2> HIDE DEF m
  <2> QED
    BY <2>1, <1>2
<1>6. CASE q = 2 * t
  <2>1. c = m * t
    BY <1>1, <1>3, <1>4, <1>6
  <2> QED
    BY <2>1, <1>5
<1>7. CASE q = 2 * t + 1
  <2>1. c - p = m * t /\ c - p \in Nat
    BY <1>1, <1>3, <1>4, <1>7
  <2> QED
    BY <2>1, <1>5
<1> QED
  BY <1>2, <1>6, <1>7

\* Clusters active after level 0 are even, after level 1 multiples of four; the
\* receiver of a sender is its neighbour at level 0, a multiple of four later.
LEMMA Roles ==
    ASSUME NEW c \in Nat, NEW l \in Nat, c % 2^l = 0
    PROVE  /\ l # 0 => c % 2 = 0
           /\ l \notin {0, 1} => c % 4 = 0
           /\ c % 2^(l + 1) # 0 => /\ c - 2^l \in Nat
                                   /\ l # 0 => (c - 2^l) % 4 = 0
<1>1. 2^l \in Nat \ {0} /\ 2^(l + 1) = 2 * 2^l
  BY Double
<1>2. CASE l = 0
  <2>1. 2^l = 1
    BY <1>2, SmallPowers
  <2> QED
    BY <1>1, <1>2, <2>1, OddMultiple
<1>3. CASE l # 0
  <2> DEFINE m == l - 1
  <2>1. m \in Nat /\ m + 1 = l
    BY <1>3
  <2> HIDE DEF m
  <2>2. 2^m \in Nat \ {0} /\ 2^l = 2 * 2^m
    BY <2>1, Double
  <2>3. c % 2 = 0
    BY <2>2, Multiple
  <2>4. ASSUME l # 1 PROVE c % 4 = 0
    <3> DEFINE h == m - 1
    <3>1. h \in Nat /\ h + 1 = m
      BY <2>1, <2>4
    <3> HIDE DEF h
    <3>2. 2^h \in Nat \ {0} /\ 2^m = 2 * 2^h
      BY <3>1, Double
    <3>3. 2^l = 4 * 2^h
      BY <2>2, <3>2
    <3> QED
      BY <3>2, <3>3, Multiple
  <2>5. ASSUME c % 2^(l + 1) # 0 PROVE c - 2^l \in Nat /\ (c - 2^l) % 4 = 0
    <3>1. c - 2^l \in Nat /\ (c - 2^l) % (2 * 2^l) = 0
      BY <1>1, <2>5, OddMultiple
    <3>2. 2 * 2^l = 4 * 2^m
      BY <2>2
    <3> QED
      BY <2>2, <3>1, <3>2, Multiple
  <2> QED
    BY <1>3, <2>3, <2>4, <2>5
<1> QED
  BY <1>2, <1>3
----------------------------------------------------------------------------
(* The inductive invariant. *)

\* The code returns at once from a reduction within a single cluster, and the
\* DM core is no compute core.
Instance == Levels \subseteq Nat \ {0} /\ DM \notin Compute

Types ==
    /\ num_levels \in Nat \ {0}
    /\ src \in [Clusters -> [Compute -> [Clusters -> Nat]]]
    /\ dst \in [Clusters -> [Compute -> [Clusters -> Nat]]]
    /\ level \in [Clusters -> Nat]
    /\ pc \in [Clusters -> [AllCores -> {"begin", "send", "sync", "reduce", "end", "done"}]]
    /\ copied \in [Clusters -> SUBSET Compute]

\* Where cluster c may be after g global barriers.
ClusterAt(c, g) ==
    \/ level[c] = g /\ g < num_levels /\ \A x \in AllCores : pc[c][x] \in {"send", "sync"}
    \/ level[c] = g /\ g = 0 /\ \A x \in AllCores : pc[c][x] = "begin"
    \/ level[c] + 1 = g /\ g <= num_levels /\ \A x \in AllCores : pc[c][x] \in {"reduce", "end"}
    \/ level[c] = g /\ g = num_levels /\ \A x \in AllCores : pc[c][x] = "done"

Phase(g) == \A c \in Clusters : ClusterAt(c, g)

\* A transfer is under way only while a sender is sending.
Transferring(c) == copied[c] # {} => pc[c][DM] = "send" /\ Sends(c, DM)

\* The receivers whose destination buffer only one transfer ever reaches.
Steady(r) == r % 4 = 2 \/ (r = 0 /\ num_levels = 1)

\* Cluster c has copied element k to its neighbour, at level 0.
Copied(c, k) == level[c] # 0 \/ pc[c][DM] \notin {"begin", "send"} \/ k \in copied[c]

\* The core of element k of a receiver has done its addition of level 0.
Added(r, k) == level[r] # 0 \/ pc[r][k] = "end"

OddData(c) == c % 2 = 1 => \A k \in Compute : src[c][k] = Only(c)

SteadyData(r) ==
    Steady(r) => \A k \in Compute :
        /\ Copied(r + 1, k) => dst[r][k] = Only(r + 1)
        /\ src[r][k] = IF Added(r, k) THEN Plus(Only(r), Only(r + 1)) ELSE Only(r)

Data == \A c \in Clusters : Transferring(c) /\ OddData(c) /\ SteadyData(c)

IInv == Types /\ (\E g \in Nat : Phase(g)) /\ Data
----------------------------------------------------------------------------
(* Consequences of the invariant in a single state. *)

LEMMA ClusterFacts ==
    ASSUME num_levels \in Nat \ {0}
    PROVE  /\ Clusters \subseteq Nat /\ 0 \in Clusters /\ 1 \in Clusters
           /\ \A r \in Clusters : r % 2 = 0 => r + 1 \in Clusters
           /\ \A c, r \in Clusters : c - r \in Nat => c - r \in Clusters
<1> DEFINE m == num_levels - 1
           h == 2^m
<1>1. m \in Nat /\ m + 1 = num_levels
  OBVIOUS
<1> HIDE DEF m
<1>2. h \in Nat \ {0} /\ 2^num_levels = 2 * h
  BY <1>1, Double
<1> HIDE DEF h
<1>3. Clusters = 0 .. 2 * h - 1
  BY <1>2 DEF Clusters
<1>4. ASSUME NEW r \in Clusters, r % 2 = 0 PROVE r + 1 \in Clusters
  BY <1>2, <1>3, <1>4
<1> QED
  BY <1>2, <1>3, <1>4

LEMMA BagTypes ==
    /\ \A c \in Clusters : Only(c) \in [Clusters -> Nat]
    /\ \A a, b \in [Clusters -> Nat] : Plus(a, b) \in [Clusters -> Nat]
BY DEF Only, Plus

LEMMA CoreFacts == DM \in AllCores /\ Compute \subseteq AllCores
BY DEF AllCores

\* A steady receiver is even.
LEMMA SteadyIsEven ==
    ASSUME NEW r \in Nat, Steady(r)
    PROVE  r % 2 = 0 /\ (r + 1) % 2 = 1
BY DEF Steady

\* Where a sender sends to.
LEMMA SenderFacts ==
    ASSUME Types, NEW c \in Clusters, Sends(c, DM)
    PROVE  /\ Receiver(c) \in Clusters
           /\ level[c] = 0 => c % 2 = 1 /\ Receiver(c) = c - 1
           /\ level[c] # 0 => c % 2 = 0 /\ Receiver(c) % 4 = 0
           /\ level[c] = 1 => c % 4 = 2
<1> DEFINE l == level[c]
<1>1. c \in Nat /\ l \in Nat
  BY ClusterFacts DEF Types
<1>2. c % 2^l = 0 /\ c % 2^(l + 1) # 0 /\ Receiver(c) = c - 2^l
  BY DEF Sends, is_active, is_sender, Receiver
<1> HIDE DEF l
<1>3. /\ l # 0 => c % 2 = 0 /\ (c - 2^l) % 4 = 0
      /\ c - 2^l \in Nat
  BY <1>1, <1>2, Roles
<1>4. c - 2^l \in Clusters
  <2>1. 2^l \in Nat /\ c - 2^l <= c
    BY <1>1, Double
  <2> HIDE DEF l
  <2>2. num_levels \in Nat \ {0}
    BY DEF Types
  <2>3. 2^num_levels \in Nat
    BY <2>2, Double
  <2> QED
    BY <1>1, <1>3, <2>1, <2>3 DEF Clusters
<1>5. CASE l = 0
  <2>1. 2^l = 1 /\ 2^(l + 1) = 2
    BY <1>5, SmallPowers
  <2>2. c % 2 = 1
    BY <1>1, <1>2, <2>1
  <2> QED
    BY <1>2, <1>4, <1>5, <2>1, <2>2 DEF l
<1>6. CASE l # 0
  <2>1. ASSUME l = 1 PROVE c % 4 = 2
    <3>1. 2^(l + 1) = 4
      BY <2>1, SmallPowers
    <3> QED
      BY <1>1, <1>2, <1>3, <1>6, <3>1
  <2> QED
    BY <1>2, <1>3, <1>4, <1>6, <2>1 DEF l
<1> QED
  BY <1>5, <1>6

\* The only transfer that reaches a steady receiver is its neighbour's.
LEMMA SteadyReceiver ==
    ASSUME Types, NEW g \in Nat, Phase(g), NEW c \in Clusters, Sends(c, DM),
           pc[c][DM] = "send", Steady(Receiver(c))
    PROVE  level[c] = 0 /\ c = Receiver(c) + 1
<1>1. c \in Nat /\ level[c] \in Nat /\ Receiver(c) \in Nat /\ num_levels \in Nat
  BY ClusterFacts, SenderFacts DEF Types
<1>2. level[c] < num_levels
  BY <1>1, CoreFacts DEF Phase, ClusterAt
<1>3. level[c] = 0
  BY <1>1, <1>2, SenderFacts DEF Steady
<1> QED
  BY <1>1, <1>3, SenderFacts

\* Odd clusters never add, steady receivers add at level 0 and only there.
LEMMA AdderFacts ==
    ASSUME Types, NEW g \in Nat, Phase(g), NEW r \in Clusters, NEW k \in Compute,
           pc[r][k] = "reduce"
    PROVE  /\ r % 2 = 1 => ~Adds(r, k)
           /\ Steady(r) => (Adds(r, k) <=> level[r] = 0)
<1> DEFINE l == level[r]
<1>1. r \in Nat /\ l \in Nat /\ num_levels \in Nat
  BY ClusterFacts DEF Types
<1>2. l + 1 <= num_levels
  BY <1>1, CoreFacts DEF Phase, ClusterAt
<1>3. Adds(r, k) <=> r % 2^l = 0 /\ r % 2^(l + 1) = 0
  BY DEF Adds, is_active, is_sender
<1> HIDE DEF l
<1>4. ASSUME r % 2 = 1 PROVE ~Adds(r, k)
  <2>1. CASE l = 0
    <3>1. 2^(l + 1) = 2
      BY <2>1, SmallPowers
    <3> QED
      BY <1>3, <1>4, <3>1
  <2>2. CASE l # 0
    BY <1>1, <1>3, <1>4, <2>2, Roles
  <2> QED
    BY <2>1, <2>2
<1>5. ASSUME Steady(r), l = 0 PROVE Adds(r, k)
  <2>1. 2^l = 1 /\ 2^(l + 1) = 2
    BY <1>5, SmallPowers
  <2>2. r % 1 = 0 /\ r % 2 = 0
    BY <1>1, <1>5, SteadyIsEven
  <2> QED
    BY <1>3, <2>1, <2>2
<1>6. ASSUME Steady(r), l # 0 PROVE ~Adds(r, k)
  <2>1. r % 4 = 2
    BY <1>1, <1>2, <1>6 DEF Steady
  <2>2. CASE l = 1
    <3>1. 2^(l + 1) = 4
      BY <2>2, SmallPowers
    <3> QED
      BY <1>3, <2>1, <3>1
  <2>3. CASE l # 1
    BY <1>1, <1>3, <1>6, <2>1, <2>3, Roles
  <2> QED
    BY <2>2, <2>3
<1> QED
  BY <1>4, <1>5, <1>6 DEF l

\* The constants of a run.
LEMMA Unchanged ==
    ASSUME num_levels' = num_levels
    PROVE  /\ Clusters' = Clusters
           /\ \A c : Only(c)' = Only(c)
           /\ \A a, b : Plus(a, b)' = Plus(a, b)
           /\ \A r : Steady(r)' <=> Steady(r)
BY DEF Clusters, Only, Plus, Steady
----------------------------------------------------------------------------
(* Every step preserves the invariant. *)

LEMMA InitInd == Instance /\ Init => IInv
<1> SUFFICES ASSUME Instance, Init PROVE IInv
  OBVIOUS
<1>1. num_levels \in Nat \ {0}
  BY DEF Init, Instance
<1>2. Types
  BY <1>1, BagTypes DEF Init, Types
<1>3. Phase(0)
  BY <1>1 DEF Init, Phase, ClusterAt
<1>4. ASSUME NEW c \in Clusters PROVE Transferring(c) /\ OddData(c)
  BY DEF Init, Transferring, OddData
<1>5. ASSUME NEW r \in Clusters, Steady(r), NEW k \in Compute
      PROVE  ~Copied(r + 1, k) /\ ~Added(r, k) /\ src[r][k] = Only(r)
  <2>1. r + 1 \in Clusters
    BY <1>1, <1>5, ClusterFacts, SteadyIsEven
  <2> QED
    BY <2>1, CoreFacts DEF Init, Copied, Added
<1> QED
  BY <1>2, <1>3, <1>4, <1>5 DEF IInv, Data, SteadyData

\* A step that changes no buffer preserves the invariant on the data when it
\* neither makes a copy of an odd cluster count as done that did not before nor
\* passes an addition by.
LEMMA Frame ==
    ASSUME Types, Data, UNCHANGED <<num_levels, src, dst>>,
           \A c \in Clusters : Transferring(c)',
           \A c \in Clusters, k \in Compute : c % 2 = 1 /\ Copied(c, k)' => Copied(c, k),
           \A r \in Clusters, k \in Compute : Steady(r) => (Added(r, k)' <=> Added(r, k))
    PROVE  Data'
<1>1. ASSUME NEW c \in Clusters PROVE OddData(c)'
  BY Unchanged DEF Data, OddData
<1>2. ASSUME NEW r \in Clusters, Steady(r), NEW k \in Compute
      PROVE  /\ Copied(r + 1, k)' => dst'[r][k] = Only(r + 1)
             /\ src'[r][k] = IF Added(r, k)' THEN Plus(Only(r), Only(r + 1)) ELSE Only(r)
  <2>1. r + 1 \in Clusters /\ (r + 1) % 2 = 1
    BY <1>2, ClusterFacts, SteadyIsEven DEF Types
  <2>2. /\ Copied(r + 1, k) => dst[r][k] = Only(r + 1)
        /\ src[r][k] = IF Added(r, k) THEN Plus(Only(r), Only(r + 1)) ELSE Only(r)
    BY <1>2 DEF Data, SteadyData
  <2>3. (Copied(r + 1, k)' => Copied(r + 1, k)) /\ (Added(r, k)' <=> Added(r, k))
    BY <1>2, <2>1
  <2> QED
    BY <2>2, <2>3
<1>3. ASSUME NEW r \in Clusters PROVE SteadyData(r)'
  <2>1. SUFFICES ASSUME Steady(r), NEW k \in Compute
                 PROVE  /\ Copied(r + 1, k)' => dst'[r][k] = Only(r + 1)'
                        /\ src'[r][k] = IF Added(r, k)' THEN Plus(Only(r), Only(r + 1))'
                                        ELSE Only(r)'
    BY Unchanged DEF SteadyData
  <2> QED
    BY <1>2, <2>1, Unchanged
<1> QED
  BY <1>1, <1>3, Unchanged DEF Data

\* A step of cluster c that leaves the others where they are.
Elsewhere(c) ==
    \A d \in Clusters \ {c} : pc'[d] = pc[d] /\ level'[d] = level[d] /\ copied'[d] = copied[d]

LEMMA FrameElsewhere ==
    ASSUME Types, NEW g \in Nat, Phase(g), Data, NEW c \in Clusters,
           num_levels' = num_levels, Elsewhere(c)
    PROVE  /\ ClusterAt(c, g)' => Phase(g)'
           /\ Transferring(c)' => \A d \in Clusters : Transferring(d)'
           /\ \A d \in Clusters \ {c}, k \in Compute :
                  (Copied(d, k)' <=> Copied(d, k)) /\ (Added(d, k)' <=> Added(d, k))
<1>1. ASSUME NEW d \in Clusters \ {c}
      PROVE  pc'[d] = pc[d] /\ level'[d] = level[d] /\ copied'[d] = copied[d]
  BY DEF Elsewhere
<1>2. ASSUME NEW d \in Clusters \ {c} PROVE ClusterAt(d, g)'
  <2>1. ClusterAt(d, g)
    BY DEF Phase
  <2> QED
    BY <1>1, <2>1 DEF ClusterAt
<1>3. ASSUME NEW d \in Clusters \ {c} PROVE Transferring(d)'
  <2>1. Transferring(d)
    BY DEF Data
  <2> QED
    BY <1>1, <2>1 DEF Transferring, Sends, is_active, is_sender
<1>4. ASSUME NEW d \in Clusters \ {c}, NEW k \in Compute
      PROVE  (Copied(d, k)' <=> Copied(d, k)) /\ (Added(d, k)' <=> Added(d, k))
  BY <1>1 DEF Copied, Added
<1> QED
  BY <1>2, <1>3, <1>4, Unchanged DEF Phase
\* The cores of c that pass on are those of idle that are at from.
LEMMA PassOnEffect ==
    ASSUME Types, NEW c \in Clusters, NEW idle \in SUBSET AllCores, NEW from,
           NEW to \in {"sync", "end"}, PassOn(c, idle, from, to),
           UNCHANGED <<num_levels, src, dst, level, copied>>
    PROVE  /\ Types' /\ Elsewhere(c) /\ level'[c] = level[c] /\ copied'[c] = copied[c]
           /\ \A x \in AllCores : pc'[c][x] = IF x \in idle /\ pc[c][x] = from THEN to
                                              ELSE pc[c][x]
<1>1. pc' = [pc EXCEPT ![c] = [x \in AllCores |-> IF x \in idle /\ pc[c][x] = from THEN to
                                                  ELSE pc[c][x]]]
  BY DEF PassOn
<1>2. pc' \in [Clusters -> [AllCores -> {"begin", "send", "sync", "reduce", "end", "done"}]]
  BY <1>1 DEF Types
<1>3. /\ \A d \in Clusters \ {c} : pc'[d] = pc[d]
      /\ \A x \in AllCores : pc'[c][x] = IF x \in idle /\ pc[c][x] = from THEN to
                                         ELSE pc[c][x]
  BY <1>1 DEF Types
<1> QED
  BY <1>2, <1>3, Unchanged DEF Types, Elsewhere

\* The cores of c all go from one place to another.
LEMMA MeetEffect ==
    ASSUME Types, NEW c \in Clusters, NEW from, NEW to \in {"send", "done"},
           Meet({c}, from, to), UNCHANGED <<num_levels, src, dst, copied>>,
           level' = level \/ level' = [level EXCEPT ![c] = @ + 1]
    PROVE  /\ Types' /\ Elsewhere(c) /\ copied'[c] = copied[c]
           /\ \A x \in AllCores : pc[c][x] = from /\ pc'[c][x] = to
<1>1. pc' = [d \in Clusters |-> IF d \in {c} THEN [x \in AllCores |-> to] ELSE pc[d]]
  BY DEF Meet
<1>2. pc' \in [Clusters -> [AllCores -> {"begin", "send", "sync", "reduce", "end", "done"}]]
  BY <1>1 DEF Types
<1>3. /\ \A d \in Clusters \ {c} : pc'[d] = pc[d]
      /\ \A x \in AllCores : pc[c][x] = from /\ pc'[c][x] = to
  BY <1>1 DEF Meet
<1>4. level' \in [Clusters -> Nat] /\ \A d \in Clusters \ {c} : level'[d] = level[d]
  <2>1. level \in [Clusters -> Nat]
    BY DEF Types
  <2>2. CASE level' = level
    BY <2>1, <2>2
  <2>3. CASE level' = [level EXCEPT ![c] = @ + 1]
    BY <2>1, <2>3
  <2> QED
    BY <2>2, <2>3
<1> QED
  BY <1>2, <1>3, <1>4, Unchanged DEF Types, Elsewhere

LEMMA BeginBarrierInd ==
    ASSUME Types, NEW g \in Nat, Phase(g), Data, NEW c \in Clusters, BeginBarrier(c)
    PROVE  Types' /\ Phase(g)' /\ Data'
<1>1. /\ Types' /\ Elsewhere(c) /\ copied'[c] = copied[c]
      /\ \A x \in AllCores : pc[c][x] = "begin" /\ pc'[c][x] = "send"
      /\ UNCHANGED <<num_levels, src, dst, level>>
  BY MeetEffect DEF BeginBarrier
<1>2. level[c] = g /\ g = 0 /\ g < num_levels
  <2>1. pc[c][DM] = "begin" /\ ClusterAt(c, g) /\ num_levels \in Nat \ {0}
    BY <1>1, CoreFacts DEF Phase, Types
  <2> QED
    BY <2>1, CoreFacts DEF ClusterAt
<1>3. ClusterAt(c, g)'
  BY <1>1, <1>2 DEF ClusterAt
<1>4. Transferring(c)'
  BY <1>1, CoreFacts DEF Data, Transferring
<1>5. \A k \in Compute : (Copied(c, k)' => Copied(c, k)) /\ (Added(c, k)' <=> Added(c, k))
  BY <1>1, CoreFacts DEF Copied, Added
<1> QED
  BY <1>1, <1>3, <1>4, <1>5, FrameElsewhere, Frame

LEMMA SkipInd ==
    ASSUME Types, NEW g \in Nat, Phase(g), Data, NEW c \in Clusters, Skip(c)
    PROVE  Types' /\ Phase(g)' /\ Data'
<1> DEFINE idle == {x \in AllCores : ~Sends(c, x)}
<1>1. PassOn(c, idle, "send", "sync") /\ UNCHANGED <<num_levels, src, dst, level, copied>>
  BY DEF Skip
<1>2. /\ Types' /\ Elsewhere(c) /\ level'[c] = level[c] /\ copied'[c] = copied[c]
      /\ \A x \in AllCores : pc'[c][x] = IF x \in idle /\ pc[c][x] = "send" THEN "sync"
                                         ELSE pc[c][x]
  <2>1. idle \in SUBSET AllCores
    OBVIOUS
  <2> HIDE DEF idle
  <2> QED
    BY <1>1, <2>1, PassOnEffect
<1>3. \E x \in AllCores : pc[c][x] = "send"
  BY <1>1 DEF PassOn
<1>4. ClusterAt(c, g)'
  <2>1. level[c] = g /\ g < num_levels /\ \A x \in AllCores : pc[c][x] \in {"send", "sync"}
    BY <1>3 DEF Phase, ClusterAt
  <2> QED
    BY <1>1, <1>2, <2>1 DEF ClusterAt
<1>5. Transferring(c)'
  <2>1. Sends(c, DM)' <=> Sends(c, DM)
    BY <1>1 DEF Sends, is_active, is_sender
  <2> QED
    BY <1>1, <1>2, <2>1, CoreFacts DEF Data, Transferring
<1>6. ASSUME NEW k \in Compute
      PROVE  (c % 2 = 1 /\ Copied(c, k)' => Copied(c, k)) /\ (Added(c, k)' <=> Added(c, k))
  <2>1. ASSUME c % 2 = 1, level[c] = 0 PROVE Sends(c, DM)
    <3>1. 2^level[c] = 1 /\ 2^(level[c] + 1) = 2 /\ c \in Nat
      BY <2>1, SmallPowers, ClusterFacts DEF Types
    <3> QED
      BY <2>1, <3>1 DEF Sends, is_active, is_sender
  <2>2. c % 2 = 1 /\ Copied(c, k)' => Copied(c, k)
    BY <1>2, <2>1, CoreFacts DEF Copied
  <2> QED
    BY <1>2, <2>2, CoreFacts DEF Added
<1> QED
  BY <1>1, <1>2, <1>4, <1>5, <1>6, FrameElsewhere, Frame

LEMMA NothingToAddInd ==
    ASSUME Types, NEW g \in Nat, Phase(g), Data, NEW c \in Clusters, NothingToAdd(c)
    PROVE  Types' /\ Phase(g)' /\ Data'
<1> DEFINE idle == {x \in AllCores : ~Adds(c, x)}
<1>1. PassOn(c, idle, "reduce", "end") /\ UNCHANGED <<num_levels, src, dst, level, copied>>
  BY DEF NothingToAdd
<1>2. /\ Types' /\ Elsewhere(c) /\ level'[c] = level[c] /\ copied'[c] = copied[c]
      /\ \A x \in AllCores : pc'[c][x] = IF x \in idle /\ pc[c][x] = "reduce" THEN "end"
                                         ELSE pc[c][x]
  <2>1. idle \in SUBSET AllCores
    OBVIOUS
  <2> HIDE DEF idle
  <2> QED
    BY <1>1, <2>1, PassOnEffect
<1>3. \E x \in AllCores : pc[c][x] = "reduce"
  BY <1>1 DEF PassOn
<1>4. ClusterAt(c, g)'
  <2>1. /\ level[c] + 1 = g /\ g <= num_levels
        /\ \A x \in AllCores : pc[c][x] \in {"reduce", "end"}
    BY <1>3 DEF Phase, ClusterAt
  <2> QED
    BY <1>1, <1>2, <2>1 DEF ClusterAt
<1>5. Transferring(c)'
  <2>1. Sends(c, DM)' <=> Sends(c, DM)
    BY <1>1 DEF Sends, is_active, is_sender
  <2> QED
    BY <1>1, <1>2, <2>1, CoreFacts DEF Data, Transferring
<1>6. ASSUME NEW k \in Compute
      PROVE  (Copied(c, k)' => Copied(c, k)) /\ (Steady(c) => (Added(c, k)' <=> Added(c, k)))
  BY <1>2, AdderFacts, CoreFacts DEF Copied, Added
<1> QED
  BY <1>1, <1>2, <1>4, <1>5, <1>6, FrameElsewhere, Frame

LEMMA EndBarrierInd ==
    ASSUME Types, NEW g \in Nat, Phase(g), Data, NEW c \in Clusters, EndBarrier(c)
    PROVE  Types' /\ Phase(g)' /\ Data'
<1> DEFINE to == IF level[c] + 1 < num_levels THEN "send" ELSE "done"
<1>1. /\ Meet({c}, "end", to) /\ UNCHANGED <<num_levels, src, dst, copied>>
      /\ level' = [level EXCEPT ![c] = @ + 1]
      /\ to \in {"send", "done"}
  BY DEF EndBarrier
<1>2. /\ Types' /\ Elsewhere(c) /\ copied'[c] = copied[c]
      /\ \A x \in AllCores : pc[c][x] = "end" /\ pc'[c][x] = to
  <2>1. \A t \in {"send", "done"} : Meet({c}, "end", t) =>
          /\ Types' /\ Elsewhere(c) /\ copied'[c] = copied[c]
          /\ \A x \in AllCores : pc[c][x] = "end" /\ pc'[c][x] = t
    <3>1. SUFFICES ASSUME NEW t \in {"send", "done"}, Meet({c}, "end", t)
                   PROVE  /\ Types' /\ Elsewhere(c) /\ copied'[c] = copied[c]
                          /\ \A x \in AllCores : pc[c][x] = "end" /\ pc'[c][x] = t
      OBVIOUS
    <3>2. level' = level \/ level' = [level EXCEPT ![c] = @ + 1]
      BY <1>1
    <3>3. UNCHANGED <<num_levels, src, dst, copied>>
      BY <1>1
    <3> QED
      BY <3>1, <3>2, <3>3, MeetEffect
  <2> HIDE DEF to
  <2> QED
    BY <1>1, <2>1
<1>3. level'[c] = level[c] + 1 /\ level[c] \in Nat
  BY <1>1 DEF Types
<1>4. level[c] + 1 = g /\ g <= num_levels
  BY <1>2, CoreFacts DEF Phase, ClusterAt
<1>5. ClusterAt(c, g)'
  BY <1>1, <1>2, <1>3, <1>4 DEF ClusterAt, Types
<1>6. Transferring(c)'
  BY <1>2, CoreFacts DEF Data, Transferring
<1>7. \A k \in Compute : (Copied(c, k)' => Copied(c, k)) /\ (Added(c, k)' <=> Added(c, k))
  BY <1>2, <1>3, CoreFacts DEF Copied, Added
<1> QED
  BY <1>1, <1>2, <1>5, <1>6, <1>7, FrameElsewhere, Frame
LEMMA TransferDoneInd ==
    ASSUME Types, NEW g \in Nat, Phase(g), Data, NEW c \in Clusters, TransferDone(c)
    PROVE  Types' /\ Phase(g)' /\ Data'
<1>1. /\ Sends(c, DM) /\ copied[c] = Compute /\ pc[c][DM] = "send"
      /\ pc' = [pc EXCEPT ![c][DM] = "sync"] /\ copied' = [copied EXCEPT ![c] = {}]
      /\ UNCHANGED <<num_levels, src, dst, level>>
  BY DEF TransferDone, Goto
<1>2. /\ \A d \in Clusters \ {c} : pc'[d] = pc[d] /\ copied'[d] = copied[d]
      /\ \A x \in AllCores : pc'[c][x] = IF x = DM THEN "sync" ELSE pc[c][x]
      /\ copied'[c] = {}
  BY <1>1, CoreFacts DEF Types
<1>3. Types' /\ Elsewhere(c)
  <2>1. pc' \in [Clusters -> [AllCores -> {"begin", "send", "sync", "reduce", "end", "done"}]]
    BY <1>1, CoreFacts DEF Types
  <2>2. copied' \in [Clusters -> SUBSET Compute]
    BY <1>1 DEF Types
  <2> QED
    BY <1>1, <1>2, <2>1, <2>2, Unchanged DEF Types, Elsewhere
<1>4. ClusterAt(c, g)'
  <2>1. level[c] = g /\ g < num_levels /\ \A x \in AllCores : pc[c][x] \in {"send", "sync"}
    BY <1>1, CoreFacts DEF Phase, ClusterAt
  <2> QED
    BY <1>1, <1>2, <2>1 DEF ClusterAt
<1>5. Transferring(c)'
  BY <1>2 DEF Transferring
<1>6. \A k \in Compute : (Copied(c, k)' => Copied(c, k)) /\ (Added(c, k)' => Added(c, k))
  BY <1>1, <1>2, CoreFacts DEF Copied, Added
<1>7. \A k \in Compute : Added(c, k) => Added(c, k)'
  BY <1>1, <1>2, CoreFacts DEF Added
<1> QED
  BY <1>1, <1>3, <1>4, <1>5, <1>6, <1>7, FrameElsewhere, Frame

LEMMA SynchronizeInd ==
    ASSUME Types, NEW g \in Nat, Phase(g), Data, Synchronize
    PROVE  Types' /\ Phase(g + 1)' /\ Data'
<1>1. /\ \A c \in Clusters, x \in AllCores : pc[c][x] = "sync"
      /\ pc' = [c \in Clusters |-> IF c \in Clusters THEN [x \in AllCores |-> "reduce"] ELSE pc[c]]
      /\ UNCHANGED <<num_levels, src, dst, level, copied>>
  BY DEF Synchronize, Meet
<1>2. \A c \in Clusters, x \in AllCores : pc'[c][x] = "reduce"
  BY <1>1
<1>3. Types'
  <2>1. pc' \in [Clusters -> [AllCores -> {"begin", "send", "sync", "reduce", "end", "done"}]]
    BY <1>1
  <2> QED
    BY <1>1, <2>1, Unchanged DEF Types
<1>4. ASSUME NEW c \in Clusters PROVE ClusterAt(c, g + 1)'
  <2>1. pc[c][DM] = "sync" /\ ClusterAt(c, g) /\ num_levels \in Nat
    BY <1>1, CoreFacts DEF Phase, Types
  <2>2. level[c] = g /\ g < num_levels
    BY <2>1, CoreFacts DEF ClusterAt
  <2> QED
    BY <1>1, <1>2, <2>1, <2>2 DEF ClusterAt
<1>5. \A c \in Clusters : Transferring(c)'
  BY <1>1, CoreFacts DEF Data, Transferring
<1>6. \A c \in Clusters, k \in Compute :
          (Copied(c, k)' => Copied(c, k)) /\ (Added(c, k)' <=> Added(c, k))
  BY <1>1, <1>2, CoreFacts DEF Copied, Added
<1> QED
  BY <1>1, <1>3, <1>4, <1>5, <1>6, Frame, Unchanged DEF Phase

\* A transfer writes one element of the receiver's destination buffer; when the
\* receiver is steady, that is the sender's own contribution.
LEMMA TransferInd ==
    ASSUME Types, NEW g \in Nat, Phase(g), Data, NEW c \in Clusters, NEW k \in Compute,
           Transfer(c, k)
    PROVE  Types' /\ Phase(g)' /\ Data'
<1> DEFINE r == Receiver(c)
<1>1. /\ Sends(c, DM) /\ pc[c][DM] = "send" /\ r \in Clusters
      /\ dst' = [dst EXCEPT ![r][k] = src[c][k]]
      /\ copied' = [copied EXCEPT ![c] = @ \cup {k}]
      /\ UNCHANGED <<num_levels, src, level, pc>>
  BY SenderFacts DEF Transfer
<1>2. Steady(r) => level[c] = 0 /\ c = r + 1
  BY <1>1, SteadyReceiver
<1>3. r \in Nat /\ c \in Nat
  BY <1>1, ClusterFacts DEF Types
<1> HIDE DEF r
<1>4. /\ \A d \in Clusters \ {c} : copied'[d] = copied[d]
      /\ copied'[c] = copied[c] \cup {k}
  BY <1>1 DEF Types
<1>5. \A d \in Clusters, j \in Compute :
          dst'[d][j] = IF d = r /\ j = k THEN src[c][k] ELSE dst[d][j]
  BY <1>1 DEF Types
<1>6. Types'
  <2>1. dst' \in [Clusters -> [Compute -> [Clusters -> Nat]]]
    <3>1. src[c][k] \in [Clusters -> Nat]
      BY DEF Types
    <3> DEFINE B == [Clusters -> Nat]
    <3>2. dst \in [Clusters -> [Compute -> B]] /\ src[c][k] \in B
      BY <3>1 DEF Types
    <3> HIDE DEF B
    <3>3. dst' \in [Clusters -> [Compute -> B]]
      BY <1>1, <3>2
    <3> QED
      BY <3>3 DEF B
  <2>2. copied' \in [Clusters -> SUBSET Compute]
    BY <1>1 DEF Types
  <2> QED
    BY <1>1, <2>1, <2>2, Unchanged DEF Types
<1>7. Phase(g)'
  BY <1>1, Unchanged DEF Phase, ClusterAt
<1>8. ASSUME NEW d \in Clusters PROVE Transferring(d)'
  <2>1. Sends(d, DM)' <=> Sends(d, DM)
    BY <1>1 DEF Sends, is_active, is_sender
  <2> QED
    BY <1>1, <1>4, <2>1 DEF Data, Transferring
<1>9. ASSUME NEW d \in Clusters PROVE OddData(d)'
  BY <1>1, Unchanged DEF Data, OddData
<1>10. ASSUME NEW d \in Clusters, Steady(d), NEW j \in Compute
       PROVE  /\ Copied(d + 1, j)' => dst'[d][j] = Only(d + 1)
              /\ src'[d][j] = IF Added(d, j)' THEN Plus(Only(d), Only(d + 1)) ELSE Only(d)
  <2>1. d \in Nat /\ d + 1 \in Clusters
    BY <1>10, ClusterFacts, SteadyIsEven DEF Types
  <2>2. /\ Copied(d + 1, j) => dst[d][j] = Only(d + 1)
        /\ src[d][j] = IF Added(d, j) THEN Plus(Only(d), Only(d + 1)) ELSE Only(d)
    BY <1>10 DEF Data, SteadyData
  <2>3. Added(d, j)' <=> Added(d, j)
    BY <1>1 DEF Added
  <2>4. CASE d = r /\ j = k
    <3>1. c = d + 1 /\ c % 2 = 1
      BY <1>2, <1>3, <1>10, <2>4, SteadyIsEven
    <3>2. src[c][k] = Only(c)
      BY <3>1 DEF Data, OddData
    <3> QED
      BY <1>1, <1>5, <2>2, <2>3, <2>4, <3>1, <3>2
  <2>5. CASE ~(d = r /\ j = k)
    <3>1. Copied(d + 1, j)' => Copied(d + 1, j)
      <4>1. CASE d + 1 # c
        BY <1>1, <1>4, <2>1, <4>1 DEF Copied
      <4>2. CASE d + 1 = c /\ j # k
        BY <1>1, <1>4, <2>1, <4>2 DEF Copied
      <4>3. CASE d + 1 = c /\ d # r
        <5>1. c % 2 = 1
          BY <1>10, <2>1, <4>3, SteadyIsEven
        <5>2. level[c] # 0
          BY <1>1, <1>3, <2>1, <4>3, <5>1, SenderFacts DEF r
        <5> QED
          BY <4>3, <5>2 DEF Copied
      <4> QED
        BY <2>5, <4>1, <4>2, <4>3
    <3> QED
      BY <1>1, <1>5, <2>2, <2>3, <2>5, <3>1
  <2> QED
    BY <2>4, <2>5
<1>11. ASSUME NEW d \in Clusters PROVE SteadyData(d)'
  <2>1. SUFFICES ASSUME Steady(d), NEW j \in Compute
                 PROVE  /\ Copied(d + 1, j)' => dst'[d][j] = Only(d + 1)'
                        /\ src'[d][j] = IF Added(d, j)' THEN Plus(Only(d), Only(d + 1))'
                                        ELSE Only(d)'
    BY <1>1, Unchanged DEF SteadyData
  <2> QED
    BY <1>1, <1>10, <2>1, Unchanged
<1> QED
  BY <1>1, <1>6, <1>7, <1>8, <1>9, <1>11, Unchanged DEF Data

\* An addition changes one element of a receiver's source buffer; a steady
\* receiver's destination buffer holds its neighbour's contribution by then.
LEMMA ReduceInd ==
    ASSUME Types, NEW g \in Nat, Phase(g), Data, NEW c \in Clusters, NEW k \in Compute,
           Reduce(c, k), DM \notin Compute
    PROVE  Types' /\ Phase(g)' /\ Data'
<1>1. /\ Adds(c, k) /\ pc[c][k] = "reduce" /\ k \in AllCores /\ k # DM
      /\ pc' = [pc EXCEPT ![c][k] = "end"]
      /\ src' = [src EXCEPT ![c][k] = Plus(src[c][k], dst[c][k])]
      /\ UNCHANGED <<num_levels, dst, level, copied>>
  BY CoreFacts DEF Reduce, Goto
<1>2. /\ \A d \in Clusters \ {c} : pc'[d] = pc[d]
      /\ \A x \in AllCores : pc'[c][x] = IF x = k THEN "end" ELSE pc[c][x]
      /\ \A d \in Clusters : pc'[d][DM] = pc[d][DM]
  BY <1>1, CoreFacts DEF Types
<1>3. \A d \in Clusters, j \in Compute :
          src'[d][j] = IF d = c /\ j = k THEN Plus(src[c][k], dst[c][k]) ELSE src[d][j]
  BY <1>1 DEF Types
<1>4. Types'
  <2>1. src' \in [Clusters -> [Compute -> [Clusters -> Nat]]]
    <3> DEFINE B == [Clusters -> Nat]
               p == Plus(src[c][k], dst[c][k])
    <3>1. src \in [Clusters -> [Compute -> B]] /\ dst \in [Clusters -> [Compute -> B]]
      BY DEF Types
    <3>2. p \in B
      <4>1. src[c][k] \in B /\ dst[c][k] \in B
        <5> HIDE DEF B
        <5> QED
          BY <3>1
      <4> QED
        BY <4>1, BagTypes
    <3>3. src' = [src EXCEPT ![c][k] = p]
      BY <1>1
    <3> HIDE DEF B, p
    <3>4. src' \in [Clusters -> [Compute -> B]]
      BY <3>1, <3>2, <3>3
    <3> QED
      BY <3>4 DEF B
  <2>2. pc' \in [Clusters -> [AllCores -> {"begin", "send", "sync", "reduce", "end", "done"}]]
    BY <1>1 DEF Types
  <2> QED
    BY <1>1, <2>1, <2>2, Unchanged DEF Types
<1>5. Elsewhere(c)
  BY <1>1, <1>2 DEF Elsewhere
<1>6. /\ level[c] + 1 = g /\ g <= num_levels
      /\ \A x \in AllCores : pc[c][x] \in {"reduce", "end"}
  BY <1>1 DEF Phase, ClusterAt
<1>7. ClusterAt(c, g)'
  BY <1>1, <1>2, <1>6 DEF ClusterAt
<1>8. Transferring(c)'
  <2>1. Sends(c, DM)' <=> Sends(c, DM)
    BY <1>1 DEF Sends, is_active, is_sender
  <2> QED
    BY <1>1, <1>2, <2>1 DEF Data, Transferring
<1>9. Phase(g)' /\ \A d \in Clusters : Transferring(d)'
  BY <1>1, <1>5, <1>7, <1>8, FrameElsewhere
<1>10. ASSUME NEW d \in Clusters PROVE OddData(d)'
  <2>1. SUFFICES ASSUME d % 2 = 1, NEW j \in Compute PROVE src'[d][j] = Only(d)
    BY <1>1, Unchanged DEF OddData
  <2>2. ~(d = c /\ j = k)
    BY <1>1, <2>1, AdderFacts
  <2> QED
    BY <1>3, <2>1, <2>2 DEF Data, OddData
<1>11. ASSUME NEW d \in Clusters, Steady(d), NEW j \in Compute
       PROVE  /\ Copied(d + 1, j)' => dst'[d][j] = Only(d + 1)
              /\ src'[d][j] = IF Added(d, j)' THEN Plus(Only(d), Only(d + 1)) ELSE Only(d)
  <2>1. d \in Nat /\ d + 1 \in Clusters
    BY <1>11, ClusterFacts, SteadyIsEven DEF Types
  <2>2. /\ Copied(d + 1, j) => dst[d][j] = Only(d + 1)
        /\ src[d][j] = IF Added(d, j) THEN Plus(Only(d), Only(d + 1)) ELSE Only(d)
    BY <1>11 DEF Data, SteadyData
  <2>3. Copied(d + 1, j)' => Copied(d + 1, j)
    BY <1>1, <1>2, <2>1 DEF Copied
  <2>4. CASE d = c /\ j = k
    <3>1. level[c] = 0 /\ g = 1
      BY <1>1, <1>6, <1>11, <2>4, AdderFacts
    <3>2. Copied(d + 1, j)
      <4>1. ClusterAt(d + 1, 1)
        BY <2>1, <3>1 DEF Phase
      <4> QED
        BY <4>1, CoreFacts DEF ClusterAt, Copied
    <3>3. ~Added(d, j) /\ Added(d, j)'
      BY <1>1, <1>2, <2>4, <3>1 DEF Added
    <3> QED
      BY <1>1, <1>3, <2>2, <2>4, <3>2, <3>3
  <2>5. CASE ~(d = c /\ j = k)
    <3>1. Added(d, j)' <=> Added(d, j)
      BY <1>1, <1>2, <2>5, CoreFacts DEF Added
    <3> QED
      BY <1>1, <1>3, <2>2, <2>3, <2>5, <3>1
  <2> QED
    BY <2>4, <2>5
<1>12. ASSUME NEW d \in Clusters PROVE SteadyData(d)'
  <2>1. SUFFICES ASSUME Steady(d), NEW j \in Compute
                 PROVE  /\ Copied(d + 1, j)' => dst'[d][j] = Only(d + 1)'
                        /\ src'[d][j] = IF Added(d, j)' THEN Plus(Only(d), Only(d + 1))'
                                        ELSE Only(d)'
    BY <1>1, Unchanged DEF SteadyData
  <2> QED
    BY <1>1, <1>11, <2>1, Unchanged
<1> QED
  BY <1>1, <1>4, <1>9, <1>10, <1>12, Unchanged DEF Data
LEMMA NextInd == Instance /\ IInv /\ [Next]_vars => IInv'
<1> SUFFICES ASSUME Instance, IInv, [Next]_vars PROVE IInv'
  OBVIOUS
<1>1. Types /\ Data /\ DM \notin Compute
  BY DEF IInv, Instance
<1>2. PICK g \in Nat : Phase(g)
  BY DEF IInv
<1>3. ASSUME NEW h \in Nat, Types', Phase(h)', Data' PROVE IInv'
  BY <1>3 DEF IInv
<1>4. CASE Synchronize
  BY <1>1, <1>2, <1>3, <1>4, SynchronizeInd
<1>5. ASSUME NEW c \in Clusters, BeginBarrier(c) PROVE IInv'
  BY <1>1, <1>2, <1>3, <1>5, BeginBarrierInd
<1>6. ASSUME NEW c \in Clusters, Skip(c) PROVE IInv'
  BY <1>1, <1>2, <1>3, <1>6, SkipInd
<1>7. ASSUME NEW c \in Clusters, TransferDone(c) PROVE IInv'
  BY <1>1, <1>2, <1>3, <1>7, TransferDoneInd
<1>8. ASSUME NEW c \in Clusters, NothingToAdd(c) PROVE IInv'
  BY <1>1, <1>2, <1>3, <1>8, NothingToAddInd
<1>9. ASSUME NEW c \in Clusters, EndBarrier(c) PROVE IInv'
  BY <1>1, <1>2, <1>3, <1>9, EndBarrierInd
<1>10. ASSUME NEW c \in Clusters, NEW k \in Compute, Transfer(c, k) PROVE IInv'
  BY <1>1, <1>2, <1>3, <1>10, TransferInd
<1>11. ASSUME NEW c \in Clusters, NEW k \in Compute, Reduce(c, k) PROVE IInv'
  BY <1>1, <1>2, <1>3, <1>11, ReduceInd
<1>12. CASE UNCHANGED vars
  <2>1. UNCHANGED <<num_levels, src, dst, level, pc, copied>>
    BY <1>12 DEF vars
  <2>2. Types' /\ Phase(g)'
    BY <1>1, <1>2, <2>1, Unchanged DEF Types, Phase, ClusterAt
  <2>3. \A c \in Clusters : Transferring(c)'
    BY <1>1, <2>1 DEF Data, Transferring, Sends, is_active, is_sender
  <2>4. \A c \in Clusters, k \in Compute :
            (Copied(c, k)' <=> Copied(c, k)) /\ (Added(c, k)' <=> Added(c, k))
    BY <2>1 DEF Copied, Added
  <2>5. Data'
    BY <1>1, <2>1, <2>3, <2>4, Frame
  <2> QED
    BY <1>3, <2>2, <2>5
<1> QED
  BY <1>4, <1>5, <1>6, <1>7, <1>8, <1>9, <1>10, <1>11, <1>12 DEF Next

LEMMA Invariance == Instance => (Spec => []IInv)
<1>1. Instance /\ Init => IInv
  BY InitInd
<1>2. Instance /\ IInv /\ [Next]_vars => IInv'
  BY NextInd
<1> SUFFICES ASSUME Instance PROVE Spec => []IInv
  OBVIOUS
<1>3. Init => IInv
  BY <1>1
<1>4. IInv /\ [Next]_vars => IInv'
  BY <1>2
<1> QED
  BY <1>3, <1>4, PTL DEF Spec

----------------------------------------------------------------------------
(* What the invariant implies. *)

\* SendersAreComplete for the senders of the first two levels.
FirstSendersAreComplete ==
    \A c \in Clusters, k \in Compute :
        level[c] <= 1 /\ Sends(c, DM) /\ pc[c][DM] = "send" =>
            Counts(src[c][k], Subtree(c, level[c]))

LEMMA FirstSenders == IInv => FirstSendersAreComplete
<1> SUFFICES ASSUME IInv, NEW c \in Clusters, NEW k \in Compute, level[c] <= 1,
                    Sends(c, DM), pc[c][DM] = "send"
             PROVE  Counts(src[c][k], Subtree(c, level[c]))
  BY DEF FirstSendersAreComplete
<1>1. Types /\ Data /\ c \in Nat /\ Clusters \subseteq Nat
  BY ClusterFacts DEF IInv, Types
<1>2. CASE level[c] = 0
  <2>1. c % 2 = 1
    BY <1>1, <1>2, SenderFacts
  <2>2. src[c][k] = Only(c)
    BY <1>1, <2>1 DEF Data, OddData
  <2>3. \A d \in Clusters : d \in Subtree(c, 0) <=> d = c
    BY <1>1, SmallPowers DEF Subtree
  <2> QED
    BY <1>2, <2>2, <2>3 DEF Counts, Only
<1>3. CASE level[c] = 1
  <2>1. c % 4 = 2
    BY <1>1, <1>3, SenderFacts
  <2>2. src[c][k] = Plus(Only(c), Only(c + 1))
    BY <1>1, <1>3, <2>1 DEF Data, SteadyData, Steady, Added
  <2>3. \A d \in Clusters : d \in Subtree(c, 1) <=> d = c \/ d = c + 1
    <3>1. Subtree(c, 1) = {d \in Clusters : c <= d /\ d < c + 2}
      BY SmallPowers DEF Subtree
    <3>2. \A d \in Nat : c <= d /\ d < c + 2 <=> d = c \/ d = c + 1
      BY <1>1
    <3> QED
      BY <1>1, <3>1, <3>2
  <2>4. \A d \in Clusters : src[c][k][d] = IF d = c \/ d = c + 1 THEN 1 ELSE 0
    BY <1>1, <2>2 DEF Plus, Only
  <2> QED
    BY <1>3, <2>3, <2>4 DEF Counts
<1>4. level[c] \in Nat
  BY <1>1 DEF Types
<1> QED
  BY <1>2, <1>3, <1>4

LEMMA AllSenders ==
    ASSUME IInv, num_levels <= 2
    PROVE  SendersAreComplete
<1> SUFFICES ASSUME NEW c \in Clusters, NEW k \in Compute, Sends(c, DM), pc[c][DM] = "send"
             PROVE  Counts(src[c][k], Subtree(c, level[c]))
  BY DEF SendersAreComplete
<1>1. PICK g \in Nat : Phase(g)
  BY DEF IInv
<1>2. level[c] < num_levels /\ level[c] \in Nat /\ num_levels \in Nat
  BY <1>1, CoreFacts DEF Phase, ClusterAt, IInv, Types
<1>3. level[c] <= 1
  BY <1>2
<1> QED
  BY <1>3, FirstSenders DEF FirstSendersAreComplete

LEMMA PairResult ==
    ASSUME IInv, num_levels = 1
    PROVE  ResultIsComplete
<1> SUFFICES ASSUME NEW k \in Compute, \A x \in AllCores : pc[0][x] = "done"
             PROVE  Counts(src[0][k], Clusters)
  BY DEF ResultIsComplete
<1>1. Types /\ Data /\ 0 \in Clusters
  BY ClusterFacts DEF IInv, Types
<1>2. PICK g \in Nat : Phase(g)
  BY DEF IInv
<1>3. level[0] = 1
  BY <1>1, <1>2, CoreFacts DEF Phase, ClusterAt
<1>4. src[0][k] = Plus(Only(0), Only(1))
  <2>1. SteadyData(0) /\ Steady(0) /\ Added(0, k)
    BY <1>1, <1>3 DEF Data, Steady, Added
  <2>2. 0 + 1 = 1
    OBVIOUS
  <2> QED
    BY <2>1, <2>2 DEF SteadyData
<1>5. Clusters = 0 .. 1
  BY SmallPowers DEF Clusters
<1> QED
  BY <1>4, <1>5 DEF Counts, Plus, Only

\* The senders of the first two levels of the tree send complete sums that
\* nobody changes meanwhile, however many levels there are and however the
\* clusters, their cores and their DMA engines interleave.
THEOREM FirstSendersSafety == Instance => (Spec => []FirstSendersAreComplete)
<1> SUFFICES ASSUME Instance PROVE Spec => []FirstSendersAreComplete
  OBVIOUS
<1>1. Spec => []IInv
  BY Invariance
<1>2. IInv => FirstSendersAreComplete
  BY FirstSenders
<1> QED
  BY <1>1, <1>2, PTL

==============================================================================
