------------------------------- MODULE MCSync -------------------------------
(***************************************************************************)
(* The synchronisation primitives and the reductions of sync.h for TLC: a  *)
(* behaviour exercises the software barrier, the spin lock, the hardware   *)
(* barrier, the tree reduction (on two or on four clusters) or one         *)
(* all-to-all reduction, whichever `primitive' names, and leaves the       *)
(* others in their initial state.                                          *)
(*                                                                         *)
(* A hart calls the software barrier at most MaxCalls times, which is more *)
(* often than the iteration word has values, so the word wraps; a core     *)
(* runs through at most MaxCalls - 1 hardware barriers.                    *)
(***************************************************************************)
EXTENDS PartialBarrier, Mutex, ClusterBarrier

CONSTANTS
    MaxCalls,
    Levels, Compute,                    \* of the tree reduction
    AllClusters, AllCompute, Values     \* of the all-to-all reduction

VARIABLES
    primitive,
    num_levels, src, dst, level, place, copied,
    reduction, _reduction_result, allPlace, calls, sum, rsp

treeVars == <<num_levels, src, dst, level, place, copied>>
allVars == <<reduction, _reduction_result, allPlace, calls, sum, rsp>>
mcVars == <<vars, lockVars, hwVars, treeVars, allVars, primitive>>

Tree == INSTANCE TreeReduction WITH pc <- place

All == INSTANCE AllReduce WITH
        Clusters <- AllClusters, Compute <- AllCompute, MaxCalls <- 1,
        pc <- allPlace

MCInit ==
    /\ Init /\ LockInit /\ HwInit /\ Tree!Init /\ All!Init
    /\ primitive \in {"software barrier", "lock", "hardware barrier",
                      "tree reduction", "all-to-all reduction"}

\* All calls are made and returned from.
Finished ==
    /\ \A h \in Harts : left[h] = MaxCalls
    /\ UNCHANGED vars

SoftwareBarrier ==
    /\ primitive = "software barrier"
    /\ \/ \E h \in Harts : entered[h] < MaxCalls /\ Remember(h)
       \/ \E h \in Harts : Inside(h)
       \/ Finished
    /\ UNCHANGED <<lockVars, hwVars, treeVars, allVars, primitive>>

Lock ==
    /\ primitive = "lock"
    /\ LockNext
    /\ UNCHANGED <<vars, hwVars, treeVars, allVars, primitive>>

HardwareBarrier ==
    /\ primitive = "hardware barrier"
    /\ \E barrier_in \in SUBSET {c \in Cores : executed[c] < MaxCalls - 1} :
            Cycle(barrier_in)
    /\ UNCHANGED <<vars, lockVars, treeVars, allVars, primitive>>

TreeReduction ==
    /\ primitive = "tree reduction"
    /\ Tree!Next
    /\ UNCHANGED <<vars, lockVars, hwVars, allVars, primitive>>

AllToAllReduction ==
    /\ primitive = "all-to-all reduction"
    /\ All!Next
    /\ UNCHANGED <<vars, lockVars, hwVars, treeVars, primitive>>

TreeDone == \A c \in Tree!Clusters, x \in Tree!AllCores : place[c][x] = "done"

\* All cores have returned from the reduction (that the tree gets there is what
\* TreeReturns says).
ReductionDone ==
    /\ \/ primitive = "tree reduction"
       \/ /\ primitive = "all-to-all reduction"
          /\ \A c \in AllClusters, x \in All!AllCores : rsp[c][x] # All!None
    /\ UNCHANGED mcVars

Reductions == TreeReduction \/ AllToAllReduction \/ ReductionDone

MCNext == SoftwareBarrier \/ Lock \/ HardwareBarrier \/ Reductions

\* The fairness of the specifications; a primitive that is not in use is in
\* its initial state, where none of these actions changes anything.
MCSpec ==
    /\ MCInit /\ [][MCNext]_mcVars
    /\ \A h \in Harts : WF_vars(Inside(h))
    /\ LockFairness
    /\ WF_hwVars(Cycle({}))
    /\ WF_mcVars(Reductions)

----------------------------------------------------------------------------

\* Between two clusters, the tree reduction ends with the sum over both.
PairIsComplete == num_levels = 1 => Tree!ResultIsComplete

\* What a sender of the tree copies to its receiver is the complete sum of its
\* subtree, and nobody changes it while it is being copied.
SendersAreComplete == Tree!SendersAreComplete

\* Every core returns from the tree reduction: no cluster misses a barrier.
TreeReturns == (primitive = "tree reduction") ~> TreeDone

\* Every core's all-to-all reduction returns the sum of all values given.
ReturnsTheSum == All!ReturnsTheSum

=============================================================================
