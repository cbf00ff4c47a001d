------------------------------ MODULE AllReduce ------------------------------
(***************************************************************************)
(* snrt_global_all_to_all_reduction (sync.h): every core contributes a     *)
(* value and every core gets the sum.  A cluster's cores add into the      *)
(* cluster-local word `reduction', the DM cores add the clusters' words    *)
(* into the global _reduction_result, meet, and copy the result back into  *)
(* their cluster's word.  snrt_exit_default combines the exit codes of all *)
(* cores this way.                                                         *)
(*                                                                         *)
(* The hardware barrier and the inter-cluster barrier are taken as the     *)
(* atomic meetings that ClusterBarrier and GlobalBarrier show them to be.  *)
(***************************************************************************)
EXTENDS Integers, FiniteSets

CONSTANTS
    Clusters,
    Compute,    \* the compute cores of a cluster
    Values,     \* the values contributed, natural numbers
    MaxCalls    \* bound on the calls of a core

DM == "dm"

AllCores == Compute \cup {DM}
Calls == 1 .. MaxCalls

VARIABLES
    reduction,          \* reduction[c]: the word in cluster-local storage
    _reduction_result,  \* the word in global memory
    pc,                 \* pc[c][x]: where core x of cluster c is
    calls,              \* calls[c][x]: the call it is in, or has returned from
    sum,                \* ghost: sum[n] of the values given in the nth calls
    rsp                 \* ghost: rsp[c][x], what its last call returned

vars == <<reduction, _reduction_result, pc, calls, sum, rsp>>

None == -1

Init ==
    /\ reduction = [c \in Clusters |-> 0]
    /\ _reduction_result = 0
    /\ pc = [c \in Clusters |-> [x \in AllCores |-> "out"]]
    /\ calls = [c \in Clusters |-> [x \in AllCores |-> 0]]
    /\ sum = [n \in Calls |-> 0]
    /\ rsp = [c \in Clusters |-> [x \in AllCores |-> None]]

Goto(c, x, from, to) ==
    /\ pc[c][x] = from
    /\ pc' = [pc EXCEPT ![c][x] = to]

\* The call, and __atomic_fetch_add on the cluster's word.
Contribute(c, x, v) ==
    /\ calls[c][x] < MaxCalls
    /\ Goto(c, x, "out", "meet")
    /\ calls' = [calls EXCEPT ![c][x] = @ + 1]
    /\ reduction' = [reduction EXCEPT ![c] = @ + v]
    /\ sum' = [sum EXCEPT ![calls[c][x] + 1] = @ + v]
    /\ rsp' = [rsp EXCEPT ![c][x] = None]
    /\ UNCHANGED _reduction_result

\* The first hardware barrier: the DM core goes on to the clusters' reduction,
\* the compute cores to the second hardware barrier.
Meet(c) ==
    /\ \A x \in AllCores : pc[c][x] = "meet"
    /\ pc' = [pc EXCEPT ![c] = [x \in AllCores |->
                                    IF x = DM THEN "combine" ELSE "leave"]]
    /\ UNCHANGED <<reduction, _reduction_result, calls, sum, rsp>>

\* Mutant of Combine: the DM cores do not wait for one another.
CombineNoBarrier(c) ==
    /\ Goto(c, DM, "combine", "copy")
    /\ _reduction_result' = _reduction_result + reduction[c]
    /\ UNCHANGED <<reduction, calls, sum, rsp>>

\* The DM core adds its cluster's word, which the others leave alone now.
Combine(c) ==
    /\ Goto(c, DM, "combine", "inter")
    /\ _reduction_result' = _reduction_result + reduction[c]
    /\ UNCHANGED <<reduction, calls, sum, rsp>>

\* snrt_inter_cluster_barrier.
InterCluster ==
    /\ \A c \in Clusters : pc[c][DM] = "inter"
    /\ pc' = [c \in Clusters |-> [pc[c] EXCEPT ![DM] = "copy"]]
    /\ UNCHANGED <<reduction, _reduction_result, calls, sum, rsp>>

CopyBack(c) ==
    /\ Goto(c, DM, "copy", "leave")
    /\ reduction' = [reduction EXCEPT ![c] = _reduction_result]
    /\ UNCHANGED <<_reduction_result, calls, sum, rsp>>

\* The second hardware barrier.
Leave(c) ==
    /\ \A x \in AllCores : pc[c][x] = "leave"
    /\ pc' = [pc EXCEPT ![c] = [x \in AllCores |-> "read"]]
    /\ UNCHANGED <<reduction, _reduction_result, calls, sum, rsp>>

\* The return value is read after the last barrier.
Return(c, x) ==
    /\ Goto(c, x, "read", "out")
    /\ rsp' = [rsp EXCEPT ![c][x] = reduction[c]]
    /\ UNCHANGED <<reduction, _reduction_result, calls, sum>>

Next ==
    \/ InterCluster
    \/ \E c \in Clusters :
        \/ Meet(c) \/ Combine(c) \/ CopyBack(c) \/ Leave(c)
        \/ \E x \in AllCores : Return(c, x) \/ \E v \in Values : Contribute(c, x, v)

Spec == Init /\ [][Next]_vars

----------------------------------------------------------------------------

\* Every call returns the sum of the values all cores gave in that call.
ReturnsTheSum ==
    \A c \in Clusters, x \in AllCores :
        rsp[c][x] # None => rsp[c][x] = sum[calls[c][x]]

=============================================================================
