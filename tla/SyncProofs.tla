------------------------------ MODULE SyncProofs -----------------------------
(***************************************************************************)
(* The synchronisation primitives are correct for every set of harts or    *)
(* cores: the software barrier, the spin lock, the hardware barrier and,   *)
(* beside them, the all-to-all reduction and the tree reduction as far as  *)
(* it is correct at all.                                                   *)
(***************************************************************************)
EXTENDS MCSync, FiniteSetTheorems, TLAPS

(***************************************************************************)
(* snrt_partial_barrier is a barrier, for every set of harts, every width  *)
(* of the iteration word and every number of reuses.                       *)
(*                                                                         *)
(* The safety properties are not inductive: they do not say how far a hart *)
(* may be from the others.  The inductive invariant names the number g of  *)
(* completed rounds and places every hart relative to it: a hart that has  *)
(* not arrived has begun exactly g calls, a hart that waits has begun      *)
(* either g + 1 (and remembers the current iteration) or g (and has been   *)
(* released, so it remembers an older one).                                *)
(***************************************************************************)

\* The harts that have arrived in the round after the g completed ones.
Arrived(g) == {h \in Harts : entered[h] = g + 1}

\* Where a hart stands relative to the g completed rounds.
HartAt(h, g) ==
    /\ pc[h] \in {"outside", "add"} => left[h] = g /\ entered[h] = g
    /\ pc[h] = "add" => prev_it[h] = iteration
    /\ pc[h] = "spin" =>
        /\ entered[h] = left[h] + 1
        /\ \/ entered[h] = g + 1 /\ prev_it[h] = iteration
           \/ entered[h] = g /\ prev_it[h] # iteration
    /\ pc[h] \in {"reset", "bump"} =>
        /\ entered[h] = g + 1 /\ left[h] = g
        /\ \A k \in Harts \ {h} : pc[k] = "spin" /\ entered[k] = g + 1

\* The counter holds the arrivals of the current round, or has been reset by
\* the last arriver.
CntAt(g) ==
    /\ (\E h \in Harts : pc[h] = "bump") => cnt = 0
    /\ (\A h \in Harts : pc[h] # "bump") => cnt = Cardinality(Arrived(g))

\* The hart that completed round g has returned from it.
RoundAt(g) == g > 0 => \E k \in Harts : left[k] >= g

Ind(g) ==
    /\ \A h \in Harts : HartAt(h, g)
    /\ CntAt(g)
    /\ RoundAt(g)

IInv == TypeOK /\ \E g \in Nat : Ind(g)

----------------------------------------------------------------------------

\* The number of harts is a positive natural number, and a set of harts with
\* that many members is the set of all harts.
LEMMA HartCount ==
    /\ n \in Nat \ {0}
    /\ \A S \in SUBSET Harts : /\ IsFiniteSet(S)
                               /\ Cardinality(S) \in Nat
                               /\ Cardinality(S) = n => S = Harts
<1>1. n \in Nat
  BY HartsAssumption, FS_CardinalityType DEF n
<1>2. n # 0
  BY HartsAssumption, FS_EmptySet DEF n
<1>3. ASSUME NEW S \in SUBSET Harts
      PROVE  /\ IsFiniteSet(S)
             /\ Cardinality(S) \in Nat
             /\ Cardinality(S) = n => S = Harts
  BY HartsAssumption, FS_Subset, FS_CardinalityType DEF n
<1> QED
  BY <1>1, <1>2, <1>3

\* Incrementing the iteration word changes it and keeps it in its range.
LEMMA BumpChanges ==
    ASSUME NEW it \in 0..IterMax
    PROVE  Bump(it) \in 0..IterMax /\ Bump(it) # it
BY IterMaxAssumption DEF Bump

\* Every step keeps the shape of the state.
LEMMA TypeStep == TypeOK /\ [Next]_vars => TypeOK'
<1> SUFFICES ASSUME TypeOK, [Next]_vars PROVE TypeOK'
  OBVIOUS
<1>1. CASE UNCHANGED vars
  BY <1>1 DEF TypeOK, vars
<1>2. ASSUME NEW h \in Harts, Remember(h) PROVE TypeOK'
  BY <1>2 DEF TypeOK, Remember
<1>3. ASSUME NEW h \in Harts, Arrive(h) PROVE TypeOK'
  BY <1>3 DEF TypeOK, Arrive
<1>4. ASSUME NEW h \in Harts, Reset(h) PROVE TypeOK'
  BY <1>4 DEF TypeOK, Reset
<1>5. ASSUME NEW h \in Harts, Release(h) PROVE TypeOK'
  BY <1>5, BumpChanges DEF TypeOK, Release
<1>6. ASSUME NEW h \in Harts, Leave(h) PROVE TypeOK'
  BY <1>6 DEF TypeOK, Leave
<1> QED
  BY <1>1, <1>2, <1>3, <1>4, <1>5, <1>6 DEF Next, Hart

\* No round is complete before the first call.
LEMMA InitInd == Init => IInv
<1> SUFFICES ASSUME Init PROVE IInv
  OBVIOUS
<1>1. TypeOK
  BY IterMaxAssumption DEF Init, TypeOK
<1>2. Arrived(0) = {}
  BY DEF Init, Arrived
<1>3. Ind(0)
  BY <1>2, FS_EmptySet DEF Init, Ind, HartAt, CntAt, RoundAt
<1> QED
  BY <1>1, <1>3 DEF IInv

----------------------------------------------------------------------------

\* Reading the iteration number: no hart moves between rounds.
LEMMA RememberStep ==
    ASSUME TypeOK, NEW g \in Nat, Ind(g), NEW h \in Harts, Remember(h)
    PROVE  Ind(g)'
<1> USE DEF Ind
<1>1. ASSUME NEW k \in Harts PROVE HartAt(k, g)'
  BY <1>1 DEF HartAt, Remember, TypeOK
<1>2. CntAt(g)'
  BY DEF CntAt, Arrived, Remember, TypeOK
<1>3. RoundAt(g)'
  BY DEF RoundAt, Remember
<1> QED
  BY <1>1, <1>2, <1>3

\* An arrival: the counter counts it, and it takes the releasing branch only
\* if every other hart already waits for this round.
LEMMA ArriveStep ==
    ASSUME TypeOK, NEW g \in Nat, Ind(g), NEW h \in Harts, Arrive(h)
    PROVE  Ind(g)'
<1> USE DEF Ind
<1>1. /\ pc[h] = "add" /\ entered[h] = g /\ left[h] = g
      /\ prev_it[h] = iteration
  BY DEF Arrive, HartAt
<1>2. \A k \in Harts : pc[k] \notin {"reset", "bump"}
  BY <1>1 DEF HartAt
<1>3. cnt = Cardinality(Arrived(g))
  BY <1>2 DEF CntAt
<1>4. h \notin Arrived(g) /\ Arrived(g) \in SUBSET Harts
  BY <1>1 DEF Arrived
<1>5. Arrived(g)' = Arrived(g) \cup {h}
  BY <1>1 DEF Arrived, Arrive, TypeOK
<1>6. cnt' = Cardinality(Arrived(g)')
  BY <1>3, <1>4, <1>5, HartCount, FS_AddElement DEF Arrive
<1>7. cnt' = n => \A k \in Harts : entered'[k] = g + 1
  <2>1. Arrived(g)' \in SUBSET Harts
    BY <1>4, <1>5
  <2> QED
    BY <1>6, <2>1, HartCount DEF Arrived
<1>8. \A k \in Harts \ {h} : pc'[k] = pc[k] /\ entered'[k] = entered[k]
  BY DEF Arrive, TypeOK
<1>9. pc'[h] = "reset" => \A k \in Harts \ {h} : pc'[k] = "spin"
  <2> SUFFICES ASSUME pc'[h] = "reset", NEW k \in Harts \ {h}
               PROVE  pc[k] = "spin"
    BY <1>8
  <2>1. cnt' = n
    BY DEF Arrive, TypeOK
  <2>2. entered[k] = g + 1
    BY <2>1, <1>7, <1>8
  <2> QED
    BY <2>2, <1>2 DEF HartAt, TypeOK
<1>10. HartAt(h, g)'
  <2>1. pc'[h] = IF cnt' = n THEN "reset" ELSE "spin"
    BY DEF Arrive, TypeOK
  <2>2. /\ entered'[h] = g + 1 /\ left'[h] = g
        /\ prev_it'[h] = iteration'
    BY <1>1 DEF Arrive, TypeOK
  <2> QED
    BY <2>1, <2>2, <1>7, <1>9 DEF HartAt
<1>11. ASSUME NEW k \in Harts \ {h} PROVE HartAt(k, g)'
  BY <1>2, <1>8 DEF HartAt, Arrive, TypeOK
<1>12. CntAt(g)'
  BY <1>2, <1>6, <1>8 DEF CntAt, Arrive, TypeOK
<1>13. RoundAt(g)'
  BY DEF RoundAt, Arrive
<1> QED
  BY <1>10, <1>11, <1>12, <1>13

\* Resetting the counter: all other harts wait, so nobody else counts.
LEMMA ResetStep ==
    ASSUME TypeOK, NEW g \in Nat, Ind(g), NEW h \in Harts, Reset(h)
    PROVE  Ind(g)'
<1> USE DEF Ind
<1>1. ASSUME NEW k \in Harts PROVE HartAt(k, g)'
  BY <1>1 DEF HartAt, Reset, TypeOK
<1>2. CntAt(g)'
  BY DEF CntAt, Reset, TypeOK
<1>3. RoundAt(g)'
  BY DEF RoundAt, Reset
<1> QED
  BY <1>1, <1>2, <1>3

\* The release completes the round: every other hart waits in it and now
\* remembers an old iteration.
LEMMA ReleaseStep ==
    ASSUME TypeOK, NEW g \in Nat, Ind(g), NEW h \in Harts, Release(h)
    PROVE  Ind(g + 1)'
<1> USE DEF Ind
<1>1. /\ pc[h] = "bump" /\ entered[h] = g + 1 /\ left[h] = g
      /\ \A k \in Harts \ {h} : pc[k] = "spin" /\ entered[k] = g + 1
  BY DEF Release, HartAt
<1>2. iteration' # iteration
  BY BumpChanges DEF Release, TypeOK
<1>3. cnt = 0
  BY <1>1 DEF CntAt
<1>4. left'[h] = g + 1
  BY <1>1 DEF Release, TypeOK
<1>5. HartAt(h, g + 1)'
  BY <1>1, <1>4 DEF HartAt, Release, TypeOK
<1>6. ASSUME NEW k \in Harts \ {h} PROVE HartAt(k, g + 1)'
  <2>1. /\ pc'[k] = "spin" /\ entered'[k] = g + 1
        /\ left'[k] = left[k] /\ prev_it'[k] = prev_it[k]
    BY <1>1, <1>6 DEF Release, TypeOK
  <2>2. entered[k] = left[k] + 1 /\ prev_it[k] = iteration
    BY <1>1, <1>6 DEF HartAt, TypeOK
  <2> QED
    BY <1>1, <1>2, <2>1, <2>2 DEF HartAt, Release
<1>7. CntAt(g + 1)'
  <2>1. \A k \in Harts : entered'[k] = g + 1 /\ pc'[k] # "bump"
    BY <1>1 DEF Release, TypeOK
  <2>2. Arrived(g + 1)' = {}
    BY <2>1 DEF Arrived
  <2>3. cnt' = 0
    BY <1>3 DEF Release
  <2> QED
    BY <2>1, <2>2, <2>3, FS_EmptySet DEF CntAt
<1>8. RoundAt(g + 1)'
  BY <1>4 DEF RoundAt
<1> QED
  BY <1>5, <1>6, <1>7, <1>8

\* A waiting hart returns only from a completed round.
LEMMA LeaveStep ==
    ASSUME TypeOK, NEW g \in Nat, Ind(g), NEW h \in Harts, Leave(h)
    PROVE  Ind(g)'
<1> USE DEF Ind
<1>1. entered[h] = g /\ left[h] + 1 = g
  BY DEF Leave, HartAt
<1>2. \A k \in Harts : pc[k] \notin {"reset", "bump"}
  BY <1>1 DEF HartAt, Leave
<1>3. ASSUME NEW k \in Harts PROVE HartAt(k, g)'
  BY <1>1, <1>2, <1>3 DEF HartAt, Leave, TypeOK
<1>4. CntAt(g)'
  BY <1>2 DEF CntAt, Arrived, Leave, TypeOK
<1>5. RoundAt(g)'
  BY <1>1 DEF RoundAt, Leave, TypeOK
<1> QED
  BY <1>3, <1>4, <1>5

\* The invariant is inductive.
LEMMA StepInd == IInv /\ [Next]_vars => IInv'
<1> SUFFICES ASSUME IInv, [Next]_vars PROVE IInv'
  OBVIOUS
<1>1. TypeOK /\ TypeOK'
  BY TypeStep DEF IInv
<1>2. PICK g \in Nat : Ind(g)
  BY DEF IInv
<1>3. CASE UNCHANGED vars
  <2>1. Ind(g)'
    BY <1>2, <1>3 DEF Ind, HartAt, CntAt, RoundAt, Arrived, vars
  <2> QED
    BY <1>1, <2>1 DEF IInv
<1>4. ASSUME NEW h \in Harts, Hart(h) PROVE \E gn \in Nat : Ind(gn)'
  <2>1. CASE Remember(h)
    BY <2>1, <1>1, <1>2, RememberStep
  <2>2. CASE Arrive(h)
    BY <2>2, <1>1, <1>2, ArriveStep
  <2>3. CASE Reset(h)
    BY <2>3, <1>1, <1>2, ResetStep
  <2>4. CASE Release(h)
    BY <2>4, <1>1, <1>2, ReleaseStep
  <2>5. CASE Leave(h)
    BY <2>5, <1>1, <1>2, LeaveStep
  <2> QED
    BY <1>4, <2>1, <2>2, <2>3, <2>4, <2>5 DEF Hart
<1> QED
  BY <1>1, <1>3, <1>4 DEF IInv, Next

----------------------------------------------------------------------------

\* What the invariant says about the barrier's promises.
LEMMA IndImplies ==
    IInv => NobodyLeavesEarly /\ SpinTestIsExact /\ OneReleaser
<1> SUFFICES ASSUME IInv
             PROVE  NobodyLeavesEarly /\ SpinTestIsExact /\ OneReleaser
  OBVIOUS
<1>1. TypeOK
  BY DEF IInv
<1>2. PICK g \in Nat : Ind(g)
  BY DEF IInv
<1>3. \A h \in Harts : left[h] <= g /\ g <= entered[h]
  BY <1>1, <1>2 DEF Ind, HartAt, TypeOK
<1>4. NobodyLeavesEarly
  BY <1>1, <1>3 DEF NobodyLeavesEarly, TypeOK
<1>5. SpinTestIsExact
  <2> SUFFICES ASSUME NEW h \in Harts, pc[h] = "spin"
               PROVE  prev_it[h] # iteration
                        <=> \E k \in Harts : left[k] >= entered[h]
    BY DEF SpinTestIsExact
  <2>1. CASE entered[h] = g + 1 /\ prev_it[h] = iteration
    BY <1>1, <1>3, <2>1 DEF TypeOK
  <2>2. CASE entered[h] = g /\ prev_it[h] # iteration
    <3>1. entered[h] > 0
      BY <1>1, <1>2 DEF Ind, HartAt, TypeOK
    <3> QED
      BY <1>1, <1>2, <2>2, <3>1 DEF Ind, RoundAt, TypeOK
  <2> QED
    BY <1>2, <2>1, <2>2 DEF Ind, HartAt
<1>6. OneReleaser
  BY <1>2 DEF OneReleaser, Ind, HartAt
<1> QED
  BY <1>4, <1>5, <1>6

\* The barrier word pair and the harts' local state keep their shape.
THEOREM TypeCorrect == Spec => []TypeOK
<1>1. Init => TypeOK
  BY IterMaxAssumption DEF Init, TypeOK
<1> QED
  BY <1>1, TypeStep, PTL DEF Spec

\* No hart returns from snrt_partial_barrier before every hart has entered
\* the same round, however often the word pair is reused.
THEOREM BarrierSafety == Spec => []NobodyLeavesEarly
BY InitInd, StepInd, IndImplies, PTL DEF Spec

\* The spin loop's test is true exactly for the harts whose round has been
\* completed, although the iteration word wraps.
THEOREM SpinExact == Spec => []SpinTestIsExact
BY InitInd, StepInd, IndImplies, PTL DEF Spec

\* The reset of the counter and the increment of the iteration, two separate
\* accesses, are never interleaved with another hart's arrival.
THEOREM SingleReleaser == Spec => []OneReleaser
BY InitInd, StepInd, IndImplies, PTL DEF Spec

----------------------------------------------------------------------------
(* Refinement: every step is a step of the abstract barrier or invisible. *)

\* The increment of the counter enters.
LEMMA ArriveEnters ==
    ASSUME IInv, NEW h \in Harts, Arrive(h)
    PROVE  Abstract!Next
<1>1. entered' = [entered EXCEPT ![h] = @ + 1] /\ left' = left
  BY DEF Arrive
<1>2. entered' = Abstract!Plus(entered, {h})
  BY <1>1 DEF Abstract!Plus, IInv, TypeOK
<1>3. entered[h] = left[h]
  BY DEF IInv, Ind, HartAt, Arrive
<1>4. Abstract!Enter({h})
  BY <1>1, <1>2, <1>3 DEF Abstract!Enter
<1> QED
  BY <1>4 DEF Abstract!Next

\* The last hart returns after everybody's increment, a waiting one after the
\* last hart's.
LEMMA ReturnExits ==
    ASSUME IInv, NEW h \in Harts, Release(h) \/ Leave(h)
    PROVE  Abstract!Next
<1>1. left' = [left EXCEPT ![h] = @ + 1] /\ entered' = entered
  BY DEF Release, Leave
<1>2. left' = Abstract!Plus(left, {h})
  BY <1>1 DEF Abstract!Plus, IInv, TypeOK
<1>3. PICK g \in Nat : \A k \in Harts : HartAt(k, g)
  BY DEF IInv, Ind
<1>4. TypeOK
  BY DEF IInv
<1>5. \A k \in Harts : left[h] < entered[k]
  <2>1. CASE Release(h)
    BY <1>3, <1>4, <2>1 DEF Release, HartAt, TypeOK
  <2>2. CASE Leave(h)
    <3>1. entered[h] = g /\ left[h] = g - 1
      BY <1>3, <1>4, <2>2 DEF Leave, HartAt, TypeOK
    <3>2. \A k \in Harts : g <= entered[k]
      BY <1>3, <1>4 DEF HartAt, TypeOK
    <3> QED
      BY <1>4, <3>1, <3>2 DEF TypeOK
  <2> QED
    BY <2>1, <2>2
<1>6. Abstract!Exit({h})
  BY <1>1, <1>2, <1>5 DEF Abstract!Exit
<1> QED
  BY <1>6 DEF Abstract!Next

\* snrt_partial_barrier implements the barrier, for every set of harts and
\* every width of the iteration word (the safety part: TLC checks that harts
\* whose round is complete also return).
THEOREM BarrierRefines ==
    Spec => Abstract!Init /\ [][Abstract!Next]_<<entered, left>>
<1>1. Init => Abstract!Init
  BY DEF Init, Abstract!Init
<1>2. IInv /\ [Next]_vars => [Abstract!Next]_<<entered, left>>
  <2> SUFFICES ASSUME IInv, [Next]_vars
               PROVE  Abstract!Next \/ UNCHANGED <<entered, left>>
    OBVIOUS
  <2>1. ASSUME NEW h \in Harts, Arrive(h) PROVE Abstract!Next
    BY <2>1, ArriveEnters
  <2>2. ASSUME NEW h \in Harts, Release(h) \/ Leave(h) PROVE Abstract!Next
    BY <2>2, ReturnExits
  <2>3. CASE UNCHANGED vars \/ \E h \in Harts : Remember(h) \/ Reset(h)
    BY <2>3 DEF vars, Remember, Reset
  <2> QED
    BY <2>1, <2>2, <2>3 DEF Next, Hart
<1> QED
  BY <1>1, <1>2, InitInd, StepInd, PTL DEF Spec

-----------------------------------------------------------------------------
(***************************************************************************)
(* The spin lock excludes, for every set of harts.  MutualExclusion is     *)
(* inductive together with FreeIffUnheld and the fact that the swap always *)
(* offers a 1: the register a retry reuses holds the old, taken lock word. *)
(***************************************************************************)

SwapsOne == \A h \in Lockers : lpc[h] = "swap" => t0[h] = 1

LockInv == LockTypeOK /\ MutualExclusion /\ FreeIffUnheld /\ SwapsOne

\* Initially the lock is free.
LEMMA LockInitInd == LockInit => LockInv
BY DEF LockInit, LockInv, LockTypeOK, MutualExclusion, FreeIffUnheld, SwapsOne

\* The invariant is inductive.
LEMMA LockStepInd == LockInv /\ [LockNext]_lockVars => LockInv'
<1> SUFFICES ASSUME LockInv, [LockNext]_lockVars PROVE LockInv'
  OBVIOUS
<1> USE DEF LockInv, LockTypeOK, MutualExclusion, FreeIffUnheld, SwapsOne
<1>1. CASE UNCHANGED lockVars
  BY <1>1 DEF lockVars
<1>2. ASSUME NEW h \in Lockers, Acquire(h) PROVE LockInv'
  BY <1>2 DEF Acquire
<1>3. ASSUME NEW h \in Lockers, TtasAcquire(h) PROVE LockInv'
  BY <1>3 DEF TtasAcquire
<1>4. ASSUME NEW h \in Lockers, Test(h) PROVE LockInv'
  BY <1>4 DEF Test
<1>5. ASSUME NEW h \in Lockers, Swap(h) PROVE LockInv'
  BY <1>5 DEF Swap
<1>6. ASSUME NEW h \in Lockers, MutexRelease(h) PROVE LockInv'
  BY <1>6 DEF MutexRelease
<1> QED
  BY <1>1, <1>2, <1>3, <1>4, <1>5, <1>6 DEF LockNext

\* Both acquire functions, used together on one lock, exclude, and a failed
\* swap never changes what the word says.
THEOREM Exclusion == LockSpec => []LockIsExact
<1>1. LockInv => LockIsExact
  BY DEF LockInv, LockIsExact
<1> QED
  BY LockInitInd, LockStepInd, <1>1, PTL DEF LockSpec

-----------------------------------------------------------------------------
(***************************************************************************)
(* The hardware barrier is a barrier, for every set of cores and for every *)
(* number of barriers.                                                     *)
(*                                                                         *)
(* NoCoreLeavesEarly needs a strengthening: all cores have left the same   *)
(* number of barriers, and the cores whose arrival bit is set, which are   *)
(* those that are stalled, have executed exactly one instruction more.     *)
(***************************************************************************)

HwInv ==
    /\ HwTypeOK
    /\ ArrivalIsStall
    /\ \A c, d \in Cores : departed[c] = departed[d]
    /\ \A c \in Cores : executed[c] = departed[c] + (IF c \in arrival_q THEN 1 ELSE 0)

\* Out of reset no core has executed the instruction.
LEMMA HwInitInd == HwInit => HwInv
BY DEF HwInit, HwInv, HwTypeOK, ArrivalIsStall

\* A cycle without a pulse: arrivals are recorded and nobody goes on.
LEMMA QuietCycle ==
    ASSUME HwInv, NEW S \in SUBSET Cores, Cycle(S), ~barrier_out
    PROVE  HwInv' /\ HwB!Enter(S)
<1> USE DEF HwInv, HwTypeOK, ArrivalIsStall
<1>1. arrival_q' = arrival_q \cup S /\ csr_stall_q' = csr_stall_q \cup S
  BY DEF Cycle, arrival_d, csr_stall_d
<1>2. S \cap csr_stall_q = {}
  BY DEF Cycle, MayIssue
<1>3. departed' = departed
  <2>1. csr_stall_q \ csr_stall_q' = {}
    BY <1>1
  <2>2. departed' = Plus(departed, {})
    BY <2>1 DEF Cycle
  <2> QED
    BY <2>2 DEF Plus
<1>4. executed' = [c \in Cores |-> IF c \in S THEN executed[c] + 1 ELSE executed[c]]
  BY DEF Cycle, Plus
<1>5. HwInv'
  BY <1>1, <1>2, <1>3, <1>4
<1>6. HwB!Enter(S)
  BY <1>2, <1>3, <1>4 DEF HwB!Enter, HwB!Plus
<1> QED
  BY <1>5, <1>6

\* The cycle of the pulse: all cores are stalled in it, so none can arrive,
\* and all of them go on together.
LEMMA PulseCycle ==
    ASSUME HwInv, NEW S \in SUBSET Cores, Cycle(S), barrier_out
    PROVE  HwInv' /\ HwB!Exit(Cores)
<1> USE DEF HwInv, HwTypeOK, ArrivalIsStall
<1>1. arrival_q = Cores /\ csr_stall_q = Cores
  BY DEF barrier_out
<1>2. S = {}
  BY <1>1 DEF Cycle, MayIssue
<1>3. arrival_q' = {} /\ csr_stall_q' = {}
  BY <1>2 DEF Cycle, arrival_d, csr_stall_d
<1>4. executed' = executed
  <2>1. executed' = Plus(executed, {})
    BY <1>2 DEF Cycle
  <2> QED
    BY <2>1 DEF Plus
<1>5. departed' = [c \in Cores |-> departed[c] + 1]
  <2>1. departed' = Plus(departed, Cores)
    BY <1>1, <1>3 DEF Cycle
  <2> QED
    BY <2>1 DEF Plus
<1>6. HwInv'
  BY <1>1, <1>3, <1>4, <1>5
<1>7. HwB!Exit(Cores)
  <2>1. ASSUME NEW c \in Cores, NEW d \in Cores PROVE departed[c] < executed[d]
    <3>1. departed[c] = departed[d] /\ executed[d] = departed[d] + 1 /\ departed[d] \in Nat
      BY <1>1
    <3> QED
      BY <3>1
  <2>2. departed' = HwB!Plus(departed, Cores)
    BY <1>5 DEF HwB!Plus
  <2> QED
    BY <1>4, <2>1, <2>2 DEF HwB!Exit
<1> QED
  BY <1>6, <1>7

\* The invariant is inductive, and every cycle is a step of the barrier.
LEMMA CycleStep ==
    ASSUME HwInv, [HwNext]_hwVars
    PROVE  HwInv' /\ [HwB!Next]_<<executed, departed>>
<1>1. CASE UNCHANGED hwVars
  BY <1>1 DEF hwVars, HwInv, HwTypeOK, ArrivalIsStall
<1>2. ASSUME NEW S \in SUBSET Cores, Cycle(S)
      PROVE  HwInv' /\ [HwB!Next]_<<executed, departed>>
  <2>1. CASE barrier_out
    BY <1>2, <2>1, PulseCycle DEF HwB!Next
  <2>2. CASE ~barrier_out
    BY <1>2, <2>2, QuietCycle DEF HwB!Next
  <2> QED
    BY <2>1, <2>2
<1> QED
  BY <1>1, <1>2 DEF HwNext

\* The invariant holds in every reachable state.
LEMMA HwInvariance == HwSpec => []HwInv
<1>1. HwInv /\ [HwNext]_hwVars => HwInv'
  BY CycleStep
<1> QED
  BY <1>1, HwInitInd, PTL DEF HwSpec

\* The arrival bits and the stalls agree in every cycle, so no arrival is
\* ever lost to the clear of the arrival register.
THEOREM NoLostArrival == HwSpec => []ArrivalIsStall
<1>1. HwInv => ArrivalIsStall
  BY DEF HwInv
<1> QED
  BY <1>1, HwInvariance, PTL

\* No core departs from a barrier that another core has not reached.
THEOREM HwBarrierSafety == HwSpec => []NoCoreLeavesEarly
<1>1. ASSUME HwInv, NEW c \in Cores, NEW d \in Cores PROVE departed[c] <= executed[d]
  BY <1>1 DEF HwInv, HwTypeOK
<1>2. HwInv => NoCoreLeavesEarly
  BY <1>1 DEF NoCoreLeavesEarly
<1> QED
  BY <1>2, HwInvariance, PTL

\* The hardware barrier implements the safety part of the abstract barrier.
THEOREM HwBarrierRefines == HwSpec => HwB!Init /\ [][HwB!Next]_<<executed, departed>>
<1>1. HwInit => HwB!Init
  BY DEF HwInit, HwB!Init
<1>2. HwInv /\ [HwNext]_hwVars => [HwB!Next]_<<executed, departed>>
  BY CycleStep
<1> QED
  BY <1>1, <1>2, HwInvariance, PTL DEF HwSpec

-----------------------------------------------------------------------------
(* The all-to-all reduction beside the other primitives. *)

AllP == INSTANCE AllReduceProofs WITH
        Clusters <- AllClusters, Compute <- AllCompute, MaxCalls <- 1,
        pc <- allPlace

\* The two instances are the same.
LEMMA SameInitially == All!Init <=> AllP!Init
BY DEF All!Init, AllP!Init, All!AllCores, AllP!AllCores, All!DM, AllP!DM,
   All!Calls, AllP!Calls, All!None, AllP!None

LEMMA SameSteps == All!Next <=> AllP!Next
<1> USE DEF All!AllCores, AllP!AllCores, All!DM, AllP!DM
<1>1. All!InterCluster <=> AllP!InterCluster
  BY DEF All!InterCluster, AllP!InterCluster
<1>2. ASSUME NEW c \in AllClusters
      PROVE  /\ All!Meet(c) <=> AllP!Meet(c)
             /\ All!Combine(c) <=> AllP!Combine(c)
             /\ All!CopyBack(c) <=> AllP!CopyBack(c)
             /\ All!Leave(c) <=> AllP!Leave(c)
  BY DEF All!Meet, AllP!Meet, All!Combine, AllP!Combine, All!CopyBack, AllP!CopyBack,
     All!Leave, AllP!Leave, All!Goto, AllP!Goto
<1>3. ASSUME NEW c \in AllClusters, NEW x \in All!AllCores
      PROVE  /\ All!Return(c, x) <=> AllP!Return(c, x)
             /\ \A v \in Values : All!Contribute(c, x, v) <=> AllP!Contribute(c, x, v)
  BY DEF All!Return, AllP!Return, All!Contribute, AllP!Contribute, All!Goto, AllP!Goto,
     All!None, AllP!None
<1> QED
  BY <1>1, <1>2, <1>3 DEF All!Next, AllP!Next

\* A step of the whole is a step of the reduction or none of its steps.
LEMMA StepOfReduction ==
    ASSUME [MCNext]_mcVars
    PROVE  [AllP!Next]_(AllP!vars)
<1>1. CASE AllToAllReduction
  BY <1>1, SameSteps DEF AllToAllReduction
<1>2. CASE ~AllToAllReduction
  BY <1>2 DEF MCNext, SoftwareBarrier, Lock, HardwareBarrier, Reductions, TreeReduction,
     ReductionDone, mcVars, allVars, AllP!vars
<1> QED
  BY <1>1, <1>2

\* Every core's all-to-all reduction returns the sum of all values given, in any
\* behaviour of the primitives, for any clusters, compute cores and values.
THEOREM ReductionReturnsTheSum ==
    ASSUME Values \subseteq Nat, All!DM \notin AllCompute
    PROVE  MCSpec => []ReturnsTheSum
<1>1. AllP!OneCall
  BY DEF AllP!OneCall, AllP!DM, All!DM
<1>2. MCInit => AllP!IInv
  BY <1>1, SameInitially, AllP!InitInd DEF MCInit
<1>3. AllP!IInv /\ [MCNext]_mcVars => AllP!IInv'
  BY <1>1, StepOfReduction, AllP!NextInd
<1>4. AllP!IInv => ReturnsTheSum
  BY AllP!IndImplies DEF ReturnsTheSum, All!ReturnsTheSum, AllP!ReturnsTheSum,
     All!AllCores, AllP!AllCores, All!DM, AllP!DM, All!None, AllP!None
<1> QED
  BY <1>2, <1>3, <1>4, PTL DEF MCSpec
-----------------------------------------------------------------------------
(* The tree reduction beside the other primitives. *)

TreeP == INSTANCE TreeReductionProofs WITH pc <- place

\* The two instances are the same.
LEMMA SameTreeInitially == Tree!Init <=> TreeP!Init
BY DEF Tree!Init, TreeP!Init, Tree!Clusters, TreeP!Clusters, Tree!AllCores, TreeP!AllCores,
   Tree!DM, TreeP!DM, Tree!Only, TreeP!Only, Tree!Plus, TreeP!Plus

LEMMA SameTreeSteps == Tree!Next <=> TreeP!Next
<1> USE DEF Tree!Clusters, TreeP!Clusters, Tree!AllCores, TreeP!AllCores, Tree!DM, TreeP!DM
<1>1. ASSUME NEW c \in Tree!Clusters
      PROVE  /\ Tree!is_active(c) <=> TreeP!is_active(c)
             /\ Tree!is_sender(c) <=> TreeP!is_sender(c)
             /\ Tree!Receiver(c) = TreeP!Receiver(c)
             /\ \A x : Tree!Sends(c, x) <=> TreeP!Sends(c, x)
             /\ \A x : Tree!Adds(c, x) <=> TreeP!Adds(c, x)
  BY DEF Tree!is_active, TreeP!is_active, Tree!is_sender, TreeP!is_sender,
     Tree!Receiver, TreeP!Receiver, Tree!Sends, TreeP!Sends, Tree!Adds, TreeP!Adds
<1>2. Tree!Synchronize <=> TreeP!Synchronize
  BY DEF Tree!Synchronize, TreeP!Synchronize, Tree!Meet, TreeP!Meet
<1>3. ASSUME NEW c \in Tree!Clusters
      PROVE  /\ Tree!BeginBarrier(c) <=> TreeP!BeginBarrier(c)
             /\ Tree!EndBarrier(c) <=> TreeP!EndBarrier(c)
  BY DEF Tree!BeginBarrier, TreeP!BeginBarrier, Tree!EndBarrier, TreeP!EndBarrier,
     Tree!Meet, TreeP!Meet
<1>4. ASSUME NEW c \in Tree!Clusters
      PROVE  /\ Tree!Skip(c) <=> TreeP!Skip(c)
             /\ Tree!NothingToAdd(c) <=> TreeP!NothingToAdd(c)
  BY <1>1 DEF Tree!Skip, TreeP!Skip, Tree!NothingToAdd, TreeP!NothingToAdd,
     Tree!PassOn, TreeP!PassOn
<1>5. ASSUME NEW c \in Tree!Clusters
      PROVE  Tree!TransferDone(c) <=> TreeP!TransferDone(c)
  BY <1>1 DEF Tree!TransferDone, TreeP!TransferDone, Tree!Goto, TreeP!Goto
<1>6. ASSUME NEW c \in Tree!Clusters, NEW k \in Compute
      PROVE  /\ Tree!Transfer(c, k) <=> TreeP!Transfer(c, k)
             /\ Tree!Reduce(c, k) <=> TreeP!Reduce(c, k)
  BY <1>1 DEF Tree!Transfer, TreeP!Transfer, Tree!Reduce, TreeP!Reduce, Tree!Goto, TreeP!Goto,
     Tree!Plus, TreeP!Plus
<1> QED
  BY <1>2, <1>3, <1>4, <1>5, <1>6 DEF Tree!Next, TreeP!Next

\* A step of the whole is a step of the tree reduction or none of its steps.
LEMMA StepOfTree ==
    ASSUME [MCNext]_mcVars
    PROVE  [TreeP!Next]_(TreeP!vars)
<1>1. CASE TreeReduction
  BY <1>1, SameTreeSteps DEF TreeReduction
<1>2. CASE ~TreeReduction
  BY <1>2 DEF MCNext, SoftwareBarrier, Lock, HardwareBarrier, Reductions, AllToAllReduction,
     ReductionDone, mcVars, treeVars, TreeP!vars
<1> QED
  BY <1>1, <1>2

\* The communicator does not change during a reduction.
LEMMA SameLevels ==
    ASSUME [TreeP!Next]_(TreeP!vars)
    PROVE  num_levels' = num_levels
BY DEF TreeP!Next, TreeP!vars, TreeP!Synchronize, TreeP!BeginBarrier, TreeP!Skip,
   TreeP!TransferDone, TreeP!NothingToAdd, TreeP!EndBarrier, TreeP!Transfer, TreeP!Reduce

LEMMA TreeInvariance ==
    ASSUME Levels \subseteq Nat \ {0}, Tree!DM \notin Compute
    PROVE  MCSpec => [](TreeP!IInv /\ num_levels \in Levels)
<1>1. TreeP!Instance
  BY DEF TreeP!Instance, TreeP!DM, Tree!DM
<1>2. MCInit => TreeP!IInv /\ num_levels \in Levels
  <2>1. MCInit => TreeP!Init
    BY SameTreeInitially DEF MCInit
  <2> QED
    BY <1>1, <2>1, TreeP!InitInd DEF TreeP!Init
<1>3. /\ TreeP!IInv /\ num_levels \in Levels
      /\ [MCNext]_mcVars
      => (TreeP!IInv /\ num_levels \in Levels)'
  BY <1>1, StepOfTree, SameLevels, TreeP!NextInd
<1> QED
  BY <1>2, <1>3, PTL DEF MCSpec

\* Between two clusters the tree reduction ends with the sum over both, in any
\* behaviour of the primitives, for every number of compute cores, and whatever
\* other communicators are considered.
THEOREM PairReductionSafety ==
    ASSUME Levels \subseteq Nat \ {0}, Tree!DM \notin Compute
    PROVE  MCSpec => []PairIsComplete
<1>1. TreeP!IInv => PairIsComplete
  BY TreeP!PairResult DEF PairIsComplete, Tree!ResultIsComplete, TreeP!ResultIsComplete,
     Tree!AllCores, TreeP!AllCores, Tree!DM, TreeP!DM, Tree!Counts, TreeP!Counts,
     Tree!Clusters, TreeP!Clusters
<1> QED
  BY <1>1, TreeInvariance, PTL

\* In a tree of at most two levels every sender copies the complete sum of its
\* subtree, and nobody changes it meanwhile.  (The sender of a third level has
\* received twice, and its second transfer may arrive before its first addition.)
THEOREM SendersSafety ==
    ASSUME Levels \subseteq {1, 2}, Tree!DM \notin Compute
    PROVE  MCSpec => []SendersAreComplete
<1>1. MCSpec => [](TreeP!IInv /\ num_levels \in Levels)
  BY TreeInvariance
<1>2. TreeP!IInv /\ num_levels \in Levels => SendersAreComplete
  <2>1. TreeP!IInv /\ num_levels \in Levels => TreeP!SendersAreComplete
    BY TreeP!AllSenders
  <2>2. TreeP!SendersAreComplete <=> Tree!SendersAreComplete
    BY DEF Tree!SendersAreComplete, TreeP!SendersAreComplete, Tree!Sends, TreeP!Sends,
       Tree!is_active, TreeP!is_active, Tree!is_sender, TreeP!is_sender, Tree!Counts,
       TreeP!Counts, Tree!Subtree, TreeP!Subtree, Tree!Clusters, TreeP!Clusters,
       Tree!DM, TreeP!DM
  <2> QED
    BY <2>1, <2>2 DEF SendersAreComplete
<1> QED
  BY <1>1, <1>2, PTL

==============================================================================
