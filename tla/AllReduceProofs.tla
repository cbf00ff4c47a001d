--------------------------- MODULE AllReduceProofs ---------------------------
(***************************************************************************)
(* The all-to-all reduction returns the sum of the values given, to every  *)
(* core, for any clusters, cores and values, when it is called once (a     *)
(* second call starts from the first one's result).                        *)
(*                                                                         *)
(* ReturnsTheSum is not inductive: it is silent until the first core       *)
(* returns.  Until the clusters have met, what has been given is in        *)
(* _reduction_result or still in the word of a cluster that has not been   *)
(* combined; afterwards it is in _reduction_result alone, and in the word  *)
(* of every cluster that has copied it back.  A sum over clusters is the   *)
(* number of the units that their words hold (Units), so the theorems      *)
(* about finite sets do the arithmetic.                                    *)
(***************************************************************************)
EXTENDS AllReduce, FiniteSetTheorems, TLAPS

\* One call, of natural numbers, and DM cores that are not compute cores.
OneCall == MaxCalls = 1 /\ Values \subseteq Nat /\ DM \notin Compute

Places == {"out", "meet", "combine", "inter", "copy", "leave", "read"}

Types ==
    /\ reduction \in [Clusters -> Nat]
    /\ _reduction_result \in Nat
    /\ pc \in [Clusters -> [AllCores -> Places]]
    /\ calls \in [Clusters -> [AllCores -> 0 .. 1]]
    /\ sum \in [Calls -> Nat]
    /\ rsp \in [Clusters -> [AllCores -> Nat \cup {None}]]

\* Cluster c is short of the first hardware barrier.
Gathers(c) ==
    \A x \in AllCores :
        /\ \/ pc[c][x] = "out" /\ calls[c][x] = 0
           \/ pc[c][x] = "meet" /\ calls[c][x] = 1
        /\ rsp[c][x] = None

\* Cluster c is between its hardware barriers, its DM core at the given place.
Between(c, here) ==
    /\ pc[c][DM] = here
    /\ \A x \in Compute : pc[c][x] = "leave"
    /\ \A x \in AllCores : calls[c][x] = 1 /\ rsp[c][x] = None

\* Cluster c is past the second hardware barrier.
Reads(c) ==
    \A x \in AllCores :
        /\ pc[c][x] \in {"read", "out"} /\ calls[c][x] = 1
        /\ rsp[c][x] \in {None, _reduction_result}

\* What the words hold that have not been combined yet, in units.
Owes(c) == pc[c][DM] \in {"out", "meet", "combine"}
Units == {u \in Clusters \X Nat : Owes(u[1]) /\ u[2] >= 1 /\ u[2] <= reduction[u[1]]}

\* The DM cores have not met yet.
Before ==
    /\ \A c \in Clusters : Gathers(c) \/ Between(c, "combine") \/ Between(c, "inter")
    /\ IsFiniteSet(Units) /\ sum[1] = _reduction_result + Cardinality(Units)

\* They have.
After ==
    /\ \A c \in Clusters :
           \/ Between(c, "copy")
           \/ (Between(c, "leave") \/ Reads(c)) /\ reduction[c] = _reduction_result
    /\ sum[1] = _reduction_result

IInv == Types /\ (Before \/ After)

----------------------------------------------------------------------------
(* Units. *)

\* A column of v units.
LEMMA Column ==
    ASSUME NEW c, NEW a \in Nat, NEW v \in Nat
    PROVE  /\ IsFiniteSet({c} \X ((a + 1) .. (a + v)))
           /\ Cardinality({c} \X ((a + 1) .. (a + v))) = v
<1> DEFINE I == (a + 1) .. (a + v)
           f == [k \in I |-> <<c, k>>]
<1>1. IsFiniteSet(I) /\ Cardinality(I) = v
  <2>1. a + 1 \in Int /\ a + v \in Int
    OBVIOUS
  <2>2. IsFiniteSet(I) /\ Cardinality(I) = IF a + 1 > a + v THEN 0 ELSE (a + v) - (a + 1) + 1
    BY <2>1, FS_Interval
  <2> HIDE DEF I
  <2> QED
    BY <2>2
<1> HIDE DEF I
<1>2. f \in Bijection(I, {c} \X I)
  <2>1. f \in [I -> {c} \X I]
    OBVIOUS
  <2>2. \A i, j \in I : f[i] = f[j] => i = j
    OBVIOUS
  <2>3. \A u \in {c} \X I : \E i \in I : f[i] = u
    OBVIOUS
  <2> HIDE DEF f
  <2> QED
    BY <2>1, <2>2, <2>3 DEF Bijection, Injection, IsInjective, Surjection
<1>3. ExistsBijection(I, {c} \X I)
  BY <1>2 DEF ExistsBijection
<1> QED
  BY <1>1, <1>3, FS_Bijection DEF I

\* Disjoint sets of units add up.
LEMMA AddUp ==
    ASSUME NEW S, NEW T, IsFiniteSet(S), IsFiniteSet(T), S \cap T = {}
    PROVE  /\ IsFiniteSet(S \cup T)
           /\ Cardinality(S \cup T) = Cardinality(S) + Cardinality(T)
<1>1. /\ Cardinality(S) \in Nat /\ Cardinality(T) \in Nat
      /\ Cardinality(S \cap T) = 0
  BY FS_CardinalityType, FS_EmptySet
<1>2. /\ IsFiniteSet(S \cup T)
      /\ Cardinality(S \cup T) = Cardinality(S) + Cardinality(T) - Cardinality(S \cap T)
  BY FS_Union
<1> QED
  BY <1>1, <1>2

----------------------------------------------------------------------------
(* The invariant holds initially. *)

LEMMA InitInd == ASSUME OneCall, Init PROVE IInv
<1>1. Types
  BY DEF Init, Types, Places, None
<1>2. \A c \in Clusters : Gathers(c)
  BY DEF Init, Gathers, AllCores
<1>3. Units = {}
  BY DEF Init, Units
<1>4. sum[1] = 0 /\ _reduction_result = 0
  BY DEF Init, Calls, OneCall
<1> QED
  BY <1>1, <1>2, <1>3, <1>4, FS_EmptySet DEF IInv, Before

\* A core gives its value: its cluster's word, and the sum, grow by as much.
LEMMA ContributeStep ==
    ASSUME OneCall, IInv, NEW c \in Clusters, NEW x \in AllCores, NEW v \in Values,
           Contribute(c, x, v)
    PROVE  IInv'
<1> USE DEF Contribute, Goto
<1>1. /\ Types /\ v \in Nat /\ calls[c][x] = 0 /\ pc[c][x] = "out" /\ 1 \in Calls
      /\ DM \in AllCores
  <2>1. Types /\ v \in Nat /\ pc[c][x] = "out" /\ 1 \in Calls /\ DM \in AllCores
    BY DEF IInv, OneCall, Calls, AllCores
  <2>2. calls[c][x] \in 0 .. 1 /\ calls[c][x] < 1
    BY <2>1 DEF Types, OneCall
  <2> QED
    BY <2>1, <2>2
<1>2. Before /\ Gathers(c)
  BY <1>1 DEF IInv, Before, After, Between, Reads, OneCall, AllCores
<1>3. /\ pc' = [pc EXCEPT ![c][x] = "meet"] /\ calls' = [calls EXCEPT ![c][x] = 1]
      /\ reduction' = [reduction EXCEPT ![c] = reduction[c] + v]
      /\ sum' = [sum EXCEPT ![1] = sum[1] + v]
      /\ rsp' = [rsp EXCEPT ![c][x] = None] /\ _reduction_result' = _reduction_result
  BY <1>1 DEF Types
<1>4. Types'
  BY <1>1, <1>3 DEF Types, Places
<1>5. Gathers(c)'
  BY <1>1, <1>2, <1>3 DEF Gathers, Types
<1>6. ASSUME NEW d \in Clusters, d # c PROVE (pc[d] = pc'[d] /\ calls[d] = calls'[d] /\ rsp[d] = rsp'[d])
  BY <1>1, <1>3, <1>6 DEF Types
<1>7. ASSUME NEW d \in Clusters
      PROVE  (Gathers(d) \/ Between(d, "combine") \/ Between(d, "inter"))'
  BY <1>2, <1>5, <1>6 DEF Before, Gathers, Between
<1>8. \A d \in Clusters : Owes(d)' <=> Owes(d)
  <2>1. Owes(c) /\ Owes(c)'
    BY <1>1, <1>2, <1>5 DEF Owes, Gathers
  <2> QED
    BY <1>6, <2>1 DEF Owes
<1> DEFINE New == {c} \X ((reduction[c] + 1) .. (reduction[c] + v))
<1>9. Units' = Units \cup New /\ Units \cap New = {}
  <2>1. Owes(c) /\ reduction[c] \in Nat
    BY <1>1, <1>2 DEF Owes, Gathers, Types
  <2>2. \A d \in Clusters : reduction'[d] = IF d = c THEN reduction[c] + v ELSE reduction[d]
    BY <1>1, <1>3 DEF Types
  <2>3. ASSUME NEW d \in Clusters, NEW k \in Nat
        PROVE  <<d, k>> \in Units' <=> <<d, k>> \in Units \/ <<d, k>> \in New
    BY <1>1, <1>8, <2>1, <2>2 DEF Units, Types
  <2>4. Units' \subseteq Clusters \X Nat /\ Units \subseteq Clusters \X Nat /\ New \subseteq Clusters \X Nat
    BY <2>1, <1>1 DEF Units
  <2>5. ASSUME NEW d \in Clusters, NEW k \in Nat
        PROVE  ~(<<d, k>> \in Units /\ <<d, k>> \in New)
    BY <2>1 DEF Units
  <2> HIDE DEF New
  <2>6. Units' = Units \cup New
    BY <2>3, <2>4
  <2>7. Units \cap New = {}
    BY <2>4, <2>5
  <2> QED
    BY <2>6, <2>7
<1>10. IsFiniteSet(New) /\ Cardinality(New) = v
  <2>1. \A a, w \in Nat : /\ IsFiniteSet({c} \X ((a + 1) .. (a + w)))
                          /\ Cardinality({c} \X ((a + 1) .. (a + w))) = w
    BY Column
  <2>2. reduction[c] \in Nat
    BY <1>1 DEF Types
  <2> QED
    BY <1>1, <2>1, <2>2, Zenon
<1> HIDE DEF New
<1>11. /\ IsFiniteSet(Units') /\ Cardinality(Units') = Cardinality(Units) + v
       /\ IsFiniteSet(Units) /\ Cardinality(Units) \in Nat
  BY <1>2, <1>9, <1>10, AddUp, FS_CardinalityType DEF Before
<1>12. sum'[1] = _reduction_result' + Cardinality(Units')
  BY <1>1, <1>2, <1>3, <1>11 DEF Before, Types
<1> QED
  BY <1>4, <1>7, <1>11, <1>12 DEF IInv, Before

\* A core that is not in its DM core's place leaves the units alone.
LEMMA SameUnits ==
    ASSUME UNCHANGED reduction, \A d \in Clusters : Owes(d)' <=> Owes(d)
    PROVE  Units' = Units
BY DEF Units

\* The first hardware barrier.
LEMMA MeetStep ==
    ASSUME OneCall, IInv, NEW c \in Clusters, Meet(c)
    PROVE  IInv'
<1> USE DEF Meet
<1>1. Types /\ DM \in AllCores /\ \A x \in AllCores : pc[c][x] = "meet"
  BY DEF IInv, AllCores
<1>2. Before /\ Gathers(c)
  BY <1>1 DEF IInv, Before, After, Between, Reads
<1>3. pc' = [pc EXCEPT ![c] = [x \in AllCores |-> IF x = DM THEN "combine" ELSE "leave"]]
  OBVIOUS
<1>4. Types'
  BY <1>1, <1>3 DEF Types, Places
<1>5. Between(c, "combine")'
  BY <1>1, <1>2, <1>3 DEF Gathers, Between, Types, AllCores, OneCall
<1>6. ASSUME NEW d \in Clusters, d # c PROVE pc[d] = pc'[d]
  BY <1>1, <1>3, <1>6 DEF Types
<1>7. ASSUME NEW d \in Clusters
      PROVE  (Gathers(d) \/ Between(d, "combine") \/ Between(d, "inter"))'
  BY <1>2, <1>5, <1>6 DEF Before, Gathers, Between
<1>8. Units' = Units
  <2>1. Owes(c) /\ Owes(c)'
    BY <1>1, <1>5 DEF Owes, Between
  <2> QED
    BY <1>6, <2>1, SameUnits DEF Owes
<1> QED
  BY <1>2, <1>4, <1>7, <1>8 DEF IInv, Before

\* A DM core adds its cluster's word: its units are owed no more.
LEMMA CombineStep ==
    ASSUME OneCall, IInv, NEW c \in Clusters, Combine(c)
    PROVE  IInv'
<1> USE DEF Combine, Goto
<1>1. Types /\ DM \in AllCores /\ pc[c][DM] = "combine" /\ reduction[c] \in Nat
  BY DEF IInv, AllCores, Types
<1>2. Before /\ Between(c, "combine")
  BY <1>1 DEF IInv, Before, After, Between, Reads, Gathers
<1>3. pc' = [pc EXCEPT ![c][DM] = "inter"]
  OBVIOUS
<1>4. Types'
  BY <1>1, <1>3 DEF Types, Places
<1>5. Between(c, "inter")'
  BY <1>1, <1>2, <1>3 DEF Between, Types, AllCores, OneCall
<1>6. ASSUME NEW d \in Clusters, d # c PROVE pc[d] = pc'[d]
  BY <1>1, <1>3, <1>6 DEF Types
<1>7. ASSUME NEW d \in Clusters
      PROVE  (Gathers(d) \/ Between(d, "combine") \/ Between(d, "inter"))'
  BY <1>2, <1>5, <1>6 DEF Before, Gathers, Between
<1> DEFINE Old == {c} \X ((0 + 1) .. (0 + reduction[c]))
<1>8. Units = Units' \cup Old /\ Units' \cap Old = {}
  <2>1. Owes(c) /\ ~Owes(c)'
    BY <1>1, <1>5 DEF Owes, Between
  <2>2. \A d \in Clusters : d # c => (Owes(d)' <=> Owes(d))
    BY <1>6 DEF Owes
  <2>3. ASSUME NEW d \in Clusters, NEW k \in Nat
        PROVE  <<d, k>> \in Units <=> <<d, k>> \in Units' \/ <<d, k>> \in Old
    BY <1>1, <2>1, <2>2 DEF Units
  <2>4. Units' \subseteq Clusters \X Nat /\ Units \subseteq Clusters \X Nat /\ Old \subseteq Clusters \X Nat
    BY <1>1 DEF Units
  <2>5. ASSUME NEW d \in Clusters, NEW k \in Nat
        PROVE  ~(<<d, k>> \in Units' /\ <<d, k>> \in Old)
    BY <2>1 DEF Units
  <2> HIDE DEF Old
  <2>6. Units = Units' \cup Old
    BY <2>3, <2>4
  <2>7. Units' \cap Old = {}
    BY <2>4, <2>5
  <2> QED
    BY <2>6, <2>7
<1>9. IsFiniteSet(Old) /\ Cardinality(Old) = reduction[c]
  <2>1. \A a, w \in Nat : /\ IsFiniteSet({c} \X ((a + 1) .. (a + w)))
                          /\ Cardinality({c} \X ((a + 1) .. (a + w))) = w
    BY Column
  <2>2. 0 \in Nat
    OBVIOUS
  <2> QED
    BY <1>1, <2>1, <2>2, Zenon
<1> HIDE DEF Old
<1>10. IsFiniteSet(Units')
  <2>1. IsFiniteSet(Units) /\ Units' \in SUBSET Units
    BY <1>2, <1>8 DEF Before
  <2> QED
    BY <2>1, FS_Subset
<1>11. Cardinality(Units) = Cardinality(Units') + reduction[c] /\ Cardinality(Units') \in Nat
  BY <1>8, <1>9, <1>10, AddUp, FS_CardinalityType
<1>12. sum'[1] = _reduction_result' + Cardinality(Units')
  BY <1>1, <1>2, <1>11 DEF Before, Types
<1> QED
  BY <1>4, <1>7, <1>10, <1>12 DEF IInv, Before

\* The DM cores meet: nothing is owed, the sum is in _reduction_result.
LEMMA InterClusterStep ==
    ASSUME OneCall, IInv, InterCluster
    PROVE  IInv'
<1> USE DEF InterCluster
<1>1. Types /\ DM \in AllCores
  BY DEF IInv, AllCores
<1>2. CASE Clusters = {}
  <2>1. Units = {} /\ (Before \/ After)
    BY <1>2 DEF IInv, Units
  <2>2. sum[1] = _reduction_result
    BY <1>1, <2>1, FS_EmptySet DEF Before, After, Types
  <2>3. Types'
    BY <1>1, <1>2 DEF Types
  <2> QED
    BY <1>2, <2>2, <2>3 DEF IInv, After
<1>3. CASE Clusters # {}
  <2>1. Before /\ \A c \in Clusters : Between(c, "inter")
    BY <1>1, <1>3 DEF IInv, Before, After, Between, Reads, Gathers
  <2>2. \A c \in Clusters : pc'[c] = [pc[c] EXCEPT ![DM] = "copy"]
    OBVIOUS
  <2>3. \A c \in Clusters : Between(c, "copy")'
    BY <1>1, <2>1, <2>2 DEF Between, Types, AllCores, OneCall
  <2>4. Types'
    BY <1>1 DEF Types, Places
  <2>5. Units = {}
    BY <2>1 DEF Units, Owes, Between
  <2>6. sum[1] = _reduction_result
    BY <1>1, <2>1, <2>5, FS_EmptySet DEF Before, Types
  <2> QED
    BY <2>3, <2>4, <2>6 DEF IInv, After
<1> QED
  BY <1>2, <1>3

\* The result is copied back.
LEMMA CopyBackStep ==
    ASSUME OneCall, IInv, NEW c \in Clusters, CopyBack(c)
    PROVE  IInv'
<1> USE DEF CopyBack, Goto
<1>1. Types /\ DM \in AllCores /\ pc[c][DM] = "copy"
  BY DEF IInv, AllCores
<1>2. After /\ Between(c, "copy")
  BY <1>1 DEF IInv, Before, After, Between, Reads, Gathers
<1>3. Types'
  BY <1>1 DEF Types, Places
<1>4. Between(c, "leave")' /\ reduction'[c] = _reduction_result
  BY <1>1, <1>2 DEF Between, Types, AllCores, OneCall
<1>5. ASSUME NEW d \in Clusters, d # c PROVE pc[d] = pc'[d] /\ reduction[d] = reduction'[d]
  BY <1>1, <1>5 DEF Types
<1>6. ASSUME NEW d \in Clusters
      PROVE  (\/ Between(d, "copy")
              \/ (Between(d, "leave") \/ Reads(d)) /\ reduction[d] = _reduction_result)'
  BY <1>2, <1>4, <1>5 DEF After, Between, Reads
<1> QED
  BY <1>2, <1>3, <1>6 DEF IInv, After

\* The second hardware barrier.
LEMMA LeaveStep ==
    ASSUME OneCall, IInv, NEW c \in Clusters, Leave(c)
    PROVE  IInv'
<1> USE DEF Leave
<1>1. Types /\ DM \in AllCores /\ \A x \in AllCores : pc[c][x] = "leave"
  BY DEF IInv, AllCores
<1>2. After /\ Between(c, "leave") /\ reduction[c] = _reduction_result
  BY <1>1 DEF IInv, Before, After, Between, Reads, Gathers
<1>3. Types'
  BY <1>1 DEF Types, Places
<1>4. Reads(c)'
  BY <1>1, <1>2 DEF Between, Reads, Types
<1>5. ASSUME NEW d \in Clusters, d # c PROVE pc[d] = pc'[d]
  BY <1>1, <1>5 DEF Types
<1>6. ASSUME NEW d \in Clusters
      PROVE  (\/ Between(d, "copy")
              \/ (Between(d, "leave") \/ Reads(d)) /\ reduction[d] = _reduction_result)'
  BY <1>2, <1>4, <1>5 DEF After, Between, Reads
<1> QED
  BY <1>2, <1>3, <1>6 DEF IInv, After

\* A core reads the word of its cluster.
LEMMA ReturnStep ==
    ASSUME OneCall, IInv, NEW c \in Clusters, NEW x \in AllCores, Return(c, x)
    PROVE  IInv'
<1> USE DEF Return, Goto
<1>1. Types /\ DM \in AllCores /\ pc[c][x] = "read"
  BY DEF IInv, AllCores
<1>2. After /\ Reads(c) /\ reduction[c] = _reduction_result
  BY <1>1 DEF IInv, Before, After, Between, Reads, Gathers, AllCores
<1>3. Types'
  BY <1>1 DEF Types, Places
<1>4. Reads(c)'
  BY <1>1, <1>2 DEF Reads, Types
<1>5. ASSUME NEW d \in Clusters, d # c PROVE pc[d] = pc'[d] /\ rsp[d] = rsp'[d]
  BY <1>1, <1>5 DEF Types
<1>6. ASSUME NEW d \in Clusters
      PROVE  (\/ Between(d, "copy")
              \/ (Between(d, "leave") \/ Reads(d)) /\ reduction[d] = _reduction_result)'
  BY <1>2, <1>4, <1>5 DEF After, Between, Reads
<1> QED
  BY <1>2, <1>3, <1>6 DEF IInv, After

LEMMA NextInd == ASSUME OneCall, IInv, [Next]_vars PROVE IInv'
<1>1. CASE UNCHANGED vars
  BY <1>1 DEF vars, IInv, Types, Before, After, Gathers, Between, Reads, Units, Owes
<1>2. CASE Next
  BY <1>2, ContributeStep, MeetStep, CombineStep, InterClusterStep, CopyBackStep,
     LeaveStep, ReturnStep DEF Next
<1> QED
  BY <1>1, <1>2

LEMMA IndImplies == ASSUME IInv PROVE ReturnsTheSum
BY DEF IInv, Types, Before, After, Gathers, Between, Reads, ReturnsTheSum

----------------------------------------------------------------------------

\* Every core gets the sum of the values that all cores have given, for any
\* clusters, compute cores and values: snrt_global_all_to_all_reduction, called
\* once.  That a program may call it only once is said in section 4 of the README.
THEOREM SumIsReturned == ASSUME OneCall PROVE Spec => []ReturnsTheSum
<1>1. Init => IInv
  BY InitInd
<1>2. IInv /\ [Next]_vars => IInv'
  BY NextInd
<1>3. IInv => ReturnsTheSum
  BY IndImplies
<1> QED
  BY <1>1, <1>2, <1>3, PTL DEF Spec

=============================================================================
