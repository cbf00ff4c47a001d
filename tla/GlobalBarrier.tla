---------------------------- MODULE GlobalBarrier ----------------------------
(***************************************************************************)
(* Communicators and the global barrier of the runtime (sw/runtime/src/    *)
(* sync.h): snrt_comm_init, snrt_comm_create, snrt_global_barrier with     *)
(* snrt_inter_cluster_sw_barrier and snrt_wake_clusters below it.          *)
(*                                                                         *)
(* All cores of a cluster meet at the hardware barrier; the data-mover     *)
(* core of each participating cluster then counts itself in on a shared    *)
(* counter and sleeps, or, if it is the last, resets the counter and wakes *)
(* the others with the cluster interrupt; a second hardware barrier lets   *)
(* the compute cores go on.  The interrupt bit of a core serves every      *)
(* communicator, so a wake-up that is too many or too few shows in a later *)
(* barrier, perhaps of another communicator.                               *)
(*                                                                         *)
(* Every core runs the same Program, a sequence of calls.  Creating a      *)
(* communicator is a call too: core 0 stores 0 in the new counter and all  *)
(* cores pass a barrier of an older communicator before they use it.       *)
(* The interrupt writes of one core reach their clusters in order; the     *)
(* fences wait for them.  Not modelled: the variant with in-network        *)
(* reduction (SNRT_SUPPORTS_NARROW_REDUCTION), the L1 allocation of the    *)
(* communicator.                                                           *)
(***************************************************************************)
EXTENDS Integers, Sequences, FiniteSets

CONSTANTS
    C,          \* number of clusters
    K,          \* cores per cluster; the last one is the data mover
    Comms,      \* the communicators
    size,       \* number of clusters of each communicator (comm->size)
    Program,    \* the calls: [via |-> communicator, new |-> set of at most one]
    Builds,     \* with SNRT_SUPPORTS_NARROW_MULTICAST (TRUE), without (FALSE)
    Width       \* bits of the cluster masks

ASSUME ClustersAssumption == C \in Nat \ {0} /\ K \in Nat \ {0}
ASSUME WidthAssumption == Width \in Nat /\ C <= 2^Width
ASSUME CommsAssumption == size \in [Comms -> 1 .. C] /\ Builds \subseteq BOOLEAN
ASSUME ProgramAssumption ==
    Program \in Seq([via : Comms, new : {{}} \cup {{m} : m \in Comms}])

(***************************************************************************)
(* A communicator is created once, by a call that passes a barrier of all  *)
(* clusters, and is known to the cores when that call returns.             *)
(***************************************************************************)
ASSUME CreationAssumption ==
    \A i \in 1 .. Len(Program) : \A m \in Program[i].new :
        /\ size[Program[i].via] = C
        /\ \A j \in 1 .. i : Program[j].via # m
        /\ \A j \in 1 .. Len(Program) : m \in Program[j].new => j = i

Clusters == 0 .. (C - 1)
Cores == 0 .. (K - 1)
DM == K - 1

VARIABLES
    pc,         \* place of each core
    call, ret,  \* calls each core has begun, and returned from
    arrival,    \* hardware barrier of each cluster: the cores stalled in it
    cnt,        \* *(comm->barrier_ptr)
    mcip,       \* cluster interrupt of the data mover of each cluster
    submask,    \* snrt_wake_clusters: the local of the enumeration
    todo,       \* ... multicast: the clusters not reached yet
    multicast   \* the build, which never changes

vars == <<pc, call, ret, arrival, cnt, mcip, submask, todo, multicast>>

\* A counter in L1 holds anything before core 0 stores 0 in it; only the
\* default communicator's is initialised statically.
Created == {m \in Comms : \E i \in 1 .. Len(Program) : m \in Program[i].new}

Init ==
    /\ pc = [x \in Clusters \X Cores |-> "out"]
    /\ call = [x \in Clusters \X Cores |-> 0]
    /\ ret = [x \in Clusters \X Cores |-> 0]
    /\ arrival = [c \in Clusters |-> {}]
    /\ cnt \in [Comms -> 0 .. 1] /\ \A m \in Comms \ Created : cnt[m] = 0
    /\ mcip = [c \in Clusters |-> FALSE]
    /\ submask = [c \in Clusters |-> 0]
    /\ todo = [c \in Clusters |-> {}]
    /\ multicast \in Builds

-----------------------------------------------------------------------------
(* The (base, mask) encoding of a communicator; base is 0. *)

\* a & b.
And(a, b) ==
    LET and[p \in (0 .. a) \X (0 .. b)] ==
            IF p[1] = 0 \/ p[2] = 0 THEN 0
            ELSE (p[1] % 2) * (p[2] % 2) + 2 * and[<<p[1] \div 2, p[2] \div 2>>]
    IN  and[<<a, b>>]

\* Mutant of mask: the size itself.
maskOfSize(m) == size[m]

\* (*communicator)->mask = size - 1.
mask(m) == size[m] - 1

\* submask = (submask - 1) & mask, in unsigned arithmetic.
NextSubmask(s, m) == And((s - 1) % 2^Width, mask(m))

\* The addresses a multicast write reaches: those equal to the base in every
\* bit that is not in the mask.
McastTargets(m) == {i \in Clusters : And(i, mask(m)) = i}

\* snrt_cluster_idx() < size.
is_participant(c, m) == c < size[m]

-----------------------------------------------------------------------------
Goto(x, from, to) == pc[x] = from /\ pc' = [pc EXCEPT ![x] = to]

\* The communicator of the call that cluster c's data mover is in.
Via(c) == Program[call[<<c, DM>>]].via

\* A core begins its next call.  The caller of snrt_comm_create with global
\* index 0 first initialises the counter.
Begin(x) ==
    /\ call[x] < Len(Program)
    /\ call' = [call EXCEPT ![x] = @ + 1]
    /\ Goto(x, "out", IF x = <<0, 0>> /\ Program[call[x] + 1].new # {}
                      THEN "store" ELSE "hw1")
    /\ UNCHANGED <<ret, arrival, cnt, mcip, submask, todo, multicast>>

\* Mutant of Store: nobody initialises the counter.
StoreMissing ==
    /\ Goto(<<0, 0>>, "store", "hw1")
    /\ UNCHANGED <<call, ret, arrival, cnt, mcip, submask, todo, multicast>>

\* *(uint32_t *)barrier_ptr = 0.
Store ==
    /\ Goto(<<0, 0>>, "store", "hw1")
    /\ cnt' = [m \in Comms |-> IF m \in Program[call[<<0, 0>>]].new
                               THEN 0 ELSE cnt[m]]
    /\ UNCHANGED <<call, ret, arrival, mcip, submask, todo, multicast>>

\* snrt_cluster_hw_barrier: the core arrives and stalls.
Arrive(x) ==
    /\ \/ Goto(x, "hw1", "stall1")
       \/ Goto(x, "hw2", "stall2")
    /\ arrival' = [arrival EXCEPT ![x[1]] = @ \cup {x[2]}]
    /\ UNCHANGED <<call, ret, cnt, mcip, submask, todo, multicast>>

\* Where a core goes on after the hardware barrier it is stalled in: the data
\* mover into the inter-cluster barrier, unless its cluster does not take
\* part; everybody else to the second barrier; and from there the call returns.
Resume(x) ==
    CASE pc[x] = "stall2" -> "out"
      [] pc[x] = "stall1" /\ x[2] = DM /\ is_participant(x[1], Via(x[1])) -> "add"
      [] OTHER -> "hw2"

\* The hardware barrier of cluster c lets all its cores go.
Release(c) ==
    /\ arrival[c] = Cores
    /\ arrival' = [arrival EXCEPT ![c] = {}]
    /\ pc' = [x \in Clusters \X Cores |-> IF x[1] = c THEN Resume(x) ELSE pc[x]]
    /\ ret' = [x \in Clusters \X Cores |->
                  IF x[1] = c /\ pc[x] = "stall2" THEN ret[x] + 1 ELSE ret[x]]
    /\ UNCHANGED <<call, cnt, mcip, submask, todo, multicast>>

\* Mutant of Add: any arrival but the first releases.
AddEager(c) ==
    /\ pc[<<c, DM>>] = "add"
    /\ cnt' = [cnt EXCEPT ![Via(c)] = @ + 1]
    /\ Goto(<<c, DM>>, "add",
            IF cnt[Via(c)] + 1 >= size[Via(c)] - 1 THEN "reset" ELSE "wfi")
    /\ UNCHANGED <<call, ret, arrival, mcip, submask, todo, multicast>>

\* __atomic_add_fetch(comm->barrier_ptr, 1) and the comparison with size.
Add(c) ==
    /\ pc[<<c, DM>>] = "add"
    /\ cnt' = [cnt EXCEPT ![Via(c)] = @ + 1]
    /\ Goto(<<c, DM>>, "add",
            IF cnt[Via(c)] + 1 = size[Via(c)] THEN "reset" ELSE "wfi")
    /\ UNCHANGED <<call, ret, arrival, mcip, submask, todo, multicast>>

\* The last to arrive: *(comm->barrier_ptr) = 0 and a fence.
Reset(c) ==
    /\ Goto(<<c, DM>>, "reset", "wake")
    /\ cnt' = [cnt EXCEPT ![Via(c)] = 0]
    /\ submask' = [submask EXCEPT ![c] = 0]
    /\ todo' = [todo EXCEPT ![c] = IF multicast THEN McastTargets(Via(c)) ELSE {}]
    /\ UNCHANGED <<call, ret, arrival, mcip, multicast>>

\* snrt_wake_clusters: one turn of the loop over the submasks.
WakeOne(c) ==
    /\ ~multicast
    /\ pc[<<c, DM>>] = "wake"
    /\ Goto(<<c, DM>>, "wake",
            IF NextSubmask(submask[c], Via(c)) = 0 THEN "clr" ELSE "wake")
    /\ mcip' = [i \in Clusters |-> mcip[i] \/ (i = submask[c] /\ i # c)]
    /\ submask' = [submask EXCEPT ![c] = NextSubmask(@, Via(c))]
    /\ UNCHANGED <<call, ret, arrival, cnt, todo, multicast>>

\* snrt_wake_clusters with multicast: one copy of the write arrives; the
\* sender's own cluster is among the targets.
WakeMulticast(c, i) ==
    /\ multicast
    /\ i \in todo[c]
    /\ Goto(<<c, DM>>, "wake", IF todo[c] = {i} THEN "clr" ELSE "wake")
    /\ mcip' = [mcip EXCEPT ![i] = TRUE]
    /\ todo' = [todo EXCEPT ![c] = @ \ {i}]
    /\ UNCHANGED <<call, ret, arrival, cnt, submask, multicast>>

\* snrt_wfi: sleep until the interrupt is pending.
Wfi(c) ==
    /\ mcip[c]
    /\ Goto(<<c, DM>>, "wfi", "clr")
    /\ UNCHANGED <<call, ret, arrival, cnt, mcip, submask, todo, multicast>>

\* Mutant of Clr: only sleepers clear their interrupt.
ClrMissing(c) ==
    /\ Goto(<<c, DM>>, "clr", "hw2")
    /\ UNCHANGED <<call, ret, arrival, cnt, mcip, submask, todo, multicast>>

\* snrt_int_clr_mcip: clear the interrupt and wait for the write.
Clr(c) ==
    /\ Goto(<<c, DM>>, "clr", "hw2")
    /\ mcip' = [mcip EXCEPT ![c] = FALSE]
    /\ UNCHANGED <<call, ret, arrival, cnt, submask, todo, multicast>>

InterCluster(c) ==
    \/ Add(c) \/ Reset(c) \/ WakeOne(c) \/ Wfi(c) \/ Clr(c)
    \/ \E i \in Clusters : WakeMulticast(c, i)

InBarrier ==
    \/ Store
    \/ \E x \in Clusters \X Cores : Arrive(x)
    \/ \E c \in Clusters : Release(c) \/ InterCluster(c)

Next == InBarrier \/ \E x \in Clusters \X Cores : Begin(x)

(***************************************************************************)
(* Cores inside a call run on; a core need not make its next call.         *)
(***************************************************************************)
Spec ==
    /\ Init /\ [][Next]_vars
    /\ WF_vars(Store)
    /\ \A x \in Clusters \X Cores : WF_vars(Arrive(x))
    /\ \A c \in Clusters : WF_vars(Release(c)) /\ WF_vars(InterCluster(c))

-----------------------------------------------------------------------------
\* No core returns from a barrier of a communicator before every core of
\* every cluster of that communicator has begun the same call.
Synchronized ==
    \A x, y \in Clusters \X Cores :
        \A j \in 1 .. ret[x] :
            LET m == Program[j].via
            IN  is_participant(x[1], m) /\ is_participant(y[1], m)
                    => call[y] >= j

\* A pending interrupt belongs to the barrier its data mover is in: it never
\* survives into a later barrier, where it would end the sleep too early.
InterruptIsOwn ==
    \A c \in Clusters : mcip[c] => pc[<<c, DM>>] \in {"wfi", "wake", "clr"}

\* No data mover is forgotten in its sleep: as long as one sleeps and no
\* interrupt is on the way to it, some member of the communicator has not got
\* to the call yet, is on its way to the counter, or is in the loop that wakes
\* the others.  The safety half of CallsReturn.
NobodyIsForgotten ==
    \A c \in Clusters : pc[<<c, DM>>] = "wfi" /\ ~mcip[c] =>
        \E d \in Clusters :
            /\ is_participant(d, Via(c))
            /\ \/ call[<<d, DM>>] < call[<<c, DM>>]
               \/ /\ call[<<d, DM>>] = call[<<c, DM>>]
                  /\ pc[<<d, DM>>] \in {"store", "hw1", "stall1", "add",
                                        "reset", "wake"}

=============================================================================
