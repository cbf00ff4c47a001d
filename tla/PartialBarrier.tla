--------------------------- MODULE PartialBarrier ---------------------------
(***************************************************************************)
(* snrt_partial_barrier (sw/runtime/src/sync.h): the generic software      *)
(* barrier built from an arrival counter and an iteration number, both     *)
(* volatile words that every hart reads and writes without a lock.         *)
(*                                                                         *)
(* One step of the model is one access to the shared words: the load of    *)
(* `iteration', the atomic increment of `cnt', the store that resets       *)
(* `cnt', the atomic increment of `iteration', and the load that ends the  *)
(* spin loop.  The barrier is reused for ever.                             *)
(***************************************************************************)
EXTENDS Integers, FiniteSets

CONSTANTS
    Harts,      \* the harts that synchronise (n = Cardinality(Harts))
    IterMax     \* the iteration word wraps to 0 after IterMax (2^32 - 1)

ASSUME HartsAssumption == IsFiniteSet(Harts) /\ Harts # {}
ASSUME IterMaxAssumption == IterMax \in Nat \ {0}

VARIABLES
    cnt,        \* barr->cnt
    iteration,  \* barr->iteration
    pc,         \* where each hart stands in the function
    prev_it,    \* the local prev_it of each hart
    entered,    \* ghost: calls hart h has begun
    left        \* ghost: calls hart h has returned from

vars == <<cnt, iteration, pc, prev_it, entered, left>>

n == Cardinality(Harts)

\* Mutant of Bump: a flag instead of a number.
BumpFlag(it) == 1

\* uint32_t increment of the iteration word.
Bump(it) == IF it = IterMax THEN 0 ELSE it + 1

Init ==
    /\ cnt = 0
    /\ iteration = 0
    /\ pc = [h \in Harts |-> "outside"]
    /\ prev_it = [h \in Harts |-> 0]
    /\ entered = [h \in Harts |-> 0]
    /\ left = [h \in Harts |-> 0]

\* uint32_t prev_it = barr->iteration.
Remember(h) ==
    /\ pc[h] = "outside"
    /\ prev_it' = [prev_it EXCEPT ![h] = iteration]
    /\ pc' = [pc EXCEPT ![h] = "add"]
    /\ UNCHANGED <<cnt, iteration, entered, left>>

\* Mutant of Arrive: off by one in the comparison with n.
ArriveOneShort(h) ==
    /\ pc[h] = "add"
    /\ cnt' = cnt + 1
    /\ pc' = [pc EXCEPT ![h] = IF cnt + 1 >= n - 1 THEN "reset" ELSE "spin"]
    /\ entered' = [entered EXCEPT ![h] = @ + 1]
    /\ UNCHANGED <<iteration, prev_it, left>>

\* __atomic_add_fetch(&barr->cnt, 1) and the comparison with n.  The call
\* counts as begun here: this is the hart's first effect on shared state.
Arrive(h) ==
    /\ pc[h] = "add"
    /\ cnt' = cnt + 1
    /\ pc' = [pc EXCEPT ![h] = IF cnt + 1 = n THEN "reset" ELSE "spin"]
    /\ entered' = [entered EXCEPT ![h] = @ + 1]
    /\ UNCHANGED <<iteration, prev_it, left>>

\* Mutant of Reset: the counter keeps its value.
ResetMissing(h) ==
    /\ pc[h] = "reset"
    /\ pc' = [pc EXCEPT ![h] = "bump"]
    /\ UNCHANGED <<cnt, iteration, prev_it, entered, left>>

\* The last hart to arrive: barr->cnt = 0.
Reset(h) ==
    /\ pc[h] = "reset"
    /\ cnt' = 0
    /\ pc' = [pc EXCEPT ![h] = "bump"]
    /\ UNCHANGED <<iteration, prev_it, entered, left>>

\* The last hart to arrive: __atomic_add_fetch(&barr->iteration, 1), return.
Release(h) ==
    /\ pc[h] = "bump"
    /\ iteration' = Bump(iteration)
    /\ pc' = [pc EXCEPT ![h] = "outside"]
    /\ left' = [left EXCEPT ![h] = @ + 1]
    /\ UNCHANGED <<cnt, prev_it, entered>>

\* The load that ends while (prev_it == barr->iteration), return.
Leave(h) ==
    /\ pc[h] = "spin"
    /\ prev_it[h] # iteration
    /\ pc' = [pc EXCEPT ![h] = "outside"]
    /\ left' = [left EXCEPT ![h] = @ + 1]
    /\ UNCHANGED <<cnt, iteration, prev_it, entered>>

Hart(h) == Remember(h) \/ Arrive(h) \/ Reset(h) \/ Release(h) \/ Leave(h)

Next == \E h \in Harts : Hart(h)

(***************************************************************************)
(* A hart that is inside the barrier runs on (the TCDM arbiter is fair);   *)
(* a hart outside need not call it again.                                  *)
(***************************************************************************)
Inside(h) == Arrive(h) \/ Reset(h) \/ Release(h) \/ Leave(h)

Spec == Init /\ [][Next]_vars /\ \A h \in Harts : WF_vars(Inside(h))

----------------------------------------------------------------------------

\* The shape of the barrier word pair and of every hart's local state.
TypeOK ==
    /\ cnt \in Nat
    /\ iteration \in 0..IterMax
    /\ pc \in [Harts -> {"outside", "add", "reset", "bump", "spin"}]
    /\ prev_it \in [Harts -> 0..IterMax]
    /\ entered \in [Harts -> Nat]
    /\ left \in [Harts -> Nat]

\* Nobody returns from its k-th call before everybody has begun its k-th:
\* the promise of a barrier, over any number of reuses of the same word pair,
\* although a fast hart may be in the next call while a slow one still spins.
NobodyLeavesEarly == \A h, k \in Harts : left[h] <= entered[k]

\* The test of the spin loop is exact: a waiting hart sees a changed iteration
\* number if and only if some hart has already returned from the same call.
\* In particular the remembered number never comes round again while a hart
\* waits, so the wrap of the 32-bit word is harmless.
SpinTestIsExact ==
    \A h \in Harts : pc[h] = "spin" =>
        (prev_it[h] # iteration <=> \E k \in Harts : left[k] >= entered[h])

\* At most one hart takes the last-arriver branch, and while it does the
\* counter belongs to it: no other hart is about to increment it.
OneReleaser ==
    \A h \in Harts : pc[h] \in {"reset", "bump"} =>
        \A k \in Harts \ {h} : pc[k] = "spin"

(***************************************************************************)
(* The barrier implements the abstract one, liveness included: no wake-up  *)
(* is missed when the releaser races the harts that still spin, and a hart *)
(* that re-enters at once does not hold back a slow one.                   *)
(***************************************************************************)
Abstract == INSTANCE Barrier WITH Members <- Harts

\* Every step of snrt_partial_barrier is a step of a barrier or invisible,
\* and every hart whose round is complete returns.
ImplementsBarrier == Abstract!Spec

=============================================================================
