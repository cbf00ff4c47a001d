---------------------------- MODULE TreeReduction ----------------------------
(***************************************************************************)
(* snrt_global_reduction_dma (sync.h): a sum reduction among the clusters  *)
(* along a binary tree.  At every level the DM core of a sender copies its *)
(* source buffer into the receiver's destination buffer, a global barrier  *)
(* follows, and the receiver's compute cores add the destination buffer to *)
(* their source buffer.                                                    *)
(*                                                                         *)
(* All clusters of the communicator are modelled, every compute core owns  *)
(* one element of the buffers, and a buffer element is the bag of the      *)
(* clusters whose contribution it holds, so that the sum is right exactly  *)
(* when every cluster is counted once.  The two barriers are taken as the  *)
(* atomic meetings that ClusterBarrier and GlobalBarrier show them to be.  *)
(***************************************************************************)
EXTENDS Naturals, FiniteSets

CONSTANTS
    Levels,     \* the depths of the tree considered
    Compute     \* the compute cores of a cluster

DM == "dm"

AllCores == Compute \cup {DM}

VARIABLES
    num_levels, \* the communicator has 2^num_levels clusters
    src,        \* src[c][k]: element k of cluster c's source buffer
    dst,        \* dst[c][k]: element k of cluster c's destination buffer
    level,      \* level[c]: the loop variable, the same in all cores of c
    pc,         \* pc[c][x]: where core x of cluster c is
    copied      \* copied[c]: the elements c's DMA transfer has written

vars == <<num_levels, src, dst, level, pc, copied>>

Clusters == 0 .. 2^num_levels - 1

\* A bag holding only c, the empty bag, and the sum of two bags.
Only(c) == [d \in Clusters |-> IF d = c THEN 1 ELSE 0]
Plus(a, b) == [d \in Clusters |-> a[d] + b[d]]

\* The destination buffer holds whatever was there: here, nothing of any use.
Init ==
    /\ num_levels \in Levels
    /\ src = [c \in Clusters |-> [k \in Compute |-> Only(c)]]
    /\ dst = [c \in Clusters |-> [k \in Compute |-> Plus(Only(c), Only(c))]]
    /\ level = [c \in Clusters |-> 0]
    /\ pc = [c \in Clusters |-> [x \in AllCores |-> "begin"]]
    /\ copied = [c \in Clusters |-> {}]

is_active(c) == c % 2^level[c] = 0
is_sender(c) == c % 2^(level[c] + 1) # 0
Receiver(c) == c - 2^level[c]

Goto(c, x, from, to) ==
    /\ pc[c][x] = from
    /\ pc' = [pc EXCEPT ![c][x] = to]

\* Every core of S, a set of clusters, is at from, and they all go to to.
Meet(S, from, to) ==
    /\ \A c \in S, x \in AllCores : pc[c][x] = from
    /\ pc' = [c \in Clusters |-> IF c \in S THEN [x \in AllCores |-> to] ELSE pc[c]]

\* The cores of cluster c that have nothing to do between two barriers pass on
\* from one to the other, all at once: they touch nothing on the way.
PassOn(c, idle, from, to) ==
    /\ \E x \in idle : pc[c][x] = from
    /\ pc' = [pc EXCEPT ![c] =
                [x \in AllCores |-> IF x \in idle /\ @[x] = from THEN to ELSE @[x]]]

\* The hardware barrier that makes the DM core wait for the data.
BeginBarrier(c) ==
    /\ Meet({c}, "begin", "send")
    /\ UNCHANGED <<num_levels, src, dst, level, copied>>

Sends(c, x) == x = DM /\ is_active(c) /\ is_sender(c)

\* Mutant of Skip: clusters that are no longer active leave out the barrier.
SkipInactive(c) ==
    /\ PassOn(c, {x \in AllCores : ~Sends(c, x)}, "send",
              IF is_active(c) THEN "sync" ELSE "reduce")
    /\ UNCHANGED <<num_levels, src, dst, level, copied>>

\* Everybody but the DM core of a sender goes on to the barrier.
Skip(c) ==
    /\ PassOn(c, {x \in AllCores : ~Sends(c, x)}, "send", "sync")
    /\ UNCHANGED <<num_levels, src, dst, level, copied>>

\* snrt_dma_start_1d: the DMA writes the receiver's buffer element by element.
Transfer(c, k) ==
    /\ Sends(c, DM) /\ pc[c][DM] = "send" /\ k \notin copied[c]
    /\ dst' = [dst EXCEPT ![Receiver(c)][k] = src[c][k]]
    /\ copied' = [copied EXCEPT ![c] = @ \cup {k}]
    /\ UNCHANGED <<num_levels, src, level, pc>>

\* snrt_dma_wait_all.
TransferDone(c) ==
    /\ Sends(c, DM) /\ copied[c] = Compute
    /\ Goto(c, DM, "send", "sync")
    /\ copied' = [copied EXCEPT ![c] = {}]
    /\ UNCHANGED <<num_levels, src, dst, level>>

\* Mutant of Synchronize: only the cores of each cluster meet.
SynchronizeLocally ==
    /\ \E c \in Clusters : Meet({c}, "sync", "reduce")
    /\ UNCHANGED <<num_levels, src, dst, level, copied>>

\* snrt_global_barrier(comm).
Synchronize ==
    /\ Meet(Clusters, "sync", "reduce")
    /\ UNCHANGED <<num_levels, src, dst, level, copied>>

Adds(c, x) == x \in Compute /\ is_active(c) /\ ~is_sender(c)

\* A receiver's compute core reduces its element.
Reduce(c, x) ==
    /\ Adds(c, x)
    /\ Goto(c, x, "reduce", "end")
    /\ src' = [src EXCEPT ![c][x] = Plus(@, dst[c][x])]
    /\ UNCHANGED <<num_levels, dst, level, copied>>

\* The others have nothing to add.
NothingToAdd(c) ==
    /\ PassOn(c, {x \in AllCores : ~Adds(c, x)}, "reduce", "end")
    /\ UNCHANGED <<num_levels, src, dst, level, copied>>

\* The hardware barrier at the end of a level, and the loop test.
EndBarrier(c) ==
    /\ Meet({c}, "end", IF level[c] + 1 < num_levels THEN "send" ELSE "done")
    /\ level' = [level EXCEPT ![c] = @ + 1]
    /\ UNCHANGED <<num_levels, src, dst, copied>>

Next ==
    \/ Synchronize
    \/ \E c \in Clusters :
        \/ BeginBarrier(c) \/ Skip(c) \/ TransferDone(c)
        \/ NothingToAdd(c) \/ EndBarrier(c)
        \/ \E k \in Compute : Transfer(c, k) \/ Reduce(c, k)

\* Cores and DMA engines keep running: one weak fairness condition on all of
\* them is enough, since every behaviour is finite.
Spec == Init /\ [][Next]_vars /\ WF_vars(Next)

----------------------------------------------------------------------------

\* The clusters below c in the first n levels of the tree.
Subtree(c, n) == {d \in Clusters : c <= d /\ d < c + 2^n}

\* Element e counts every cluster of S once and no other.
Counts(e, S) == \A d \in Clusters : e[d] = IF d \in S THEN 1 ELSE 0

\* When the reduction has returned in cluster 0, its source buffer holds the
\* sum over all clusters.
ResultIsComplete ==
    \A k \in Compute :
        (\A x \in AllCores : pc[0][x] = "done") => Counts(src[0][k], Clusters)

\* What a sender's DMA engine copies is the complete sum of its subtree, and
\* nobody changes it while it is being copied.
SendersAreComplete ==
    \A c \in Clusters, k \in Compute :
        Sends(c, DM) /\ pc[c][DM] = "send" =>
            Counts(src[c][k], Subtree(c, level[c]))

=============================================================================
