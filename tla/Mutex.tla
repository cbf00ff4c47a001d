-------------------------------- MODULE Mutex --------------------------------
(***************************************************************************)
(* snrt_mutex_acquire, snrt_mutex_ttas_acquire and snrt_mutex_release      *)
(* (sw/runtime/src/sync.h): a spin lock in one word of memory.  One step   *)
(* is one access to the word; the atomic swap writes register t0 back into *)
(* the word, so a retry stores what the previous try has read.             *)
(***************************************************************************)
EXTENDS Integers

CONSTANT Lockers

VARIABLES
    mtx,    \* *pmtx
    t0,     \* register t0 of each hart
    lpc     \* where each hart stands

lockVars == <<mtx, t0, lpc>>

LockInit ==
    /\ mtx = 0
    /\ t0 = [h \in Lockers |-> 0]
    /\ lpc = [h \in Lockers |-> "outside"]

\* snrt_mutex_acquire: li t0,1.
Acquire(h) ==
    /\ lpc[h] = "outside"
    /\ t0' = [t0 EXCEPT ![h] = 1]
    /\ lpc' = [lpc EXCEPT ![h] = "swap"]
    /\ UNCHANGED mtx

\* snrt_mutex_ttas_acquire: enter the polling loop.
TtasAcquire(h) ==
    /\ lpc[h] = "outside"
    /\ lpc' = [lpc EXCEPT ![h] = "test"]
    /\ UNCHANGED <<mtx, t0>>

\* snrt_mutex_ttas_acquire: the load that finds the lock free, and li t0,1.
\* The lock may be taken again before the swap that follows.
Test(h) ==
    /\ lpc[h] = "test"
    /\ mtx = 0
    /\ t0' = [t0 EXCEPT ![h] = 1]
    /\ lpc' = [lpc EXCEPT ![h] = "swap"]
    /\ UNCHANGED mtx

\* Mutant of Swap: the branch takes the lock whatever the swap returned.
SwapNoRetry(h) ==
    /\ lpc[h] = "swap"
    /\ mtx' = t0[h]
    /\ t0' = [t0 EXCEPT ![h] = mtx]
    /\ lpc' = [lpc EXCEPT ![h] = "critical"]

\* amoswap.w.aq t0,t0,(pmtx); bnez t0: retry with the t0 just read.
Swap(h) ==
    /\ lpc[h] = "swap"
    /\ mtx' = t0[h]
    /\ t0' = [t0 EXCEPT ![h] = mtx]
    /\ lpc' = [lpc EXCEPT ![h] = IF mtx = 0 THEN "critical" ELSE "swap"]

\* Mutant of MutexRelease: the word is not cleared.
MutexReleaseMissing(h) ==
    /\ lpc[h] = "critical"
    /\ lpc' = [lpc EXCEPT ![h] = "outside"]
    /\ UNCHANGED <<mtx, t0>>

\* amoswap.w.rl x0,x0,(pmtx): only the holder releases.
MutexRelease(h) ==
    /\ lpc[h] = "critical"
    /\ mtx' = 0
    /\ lpc' = [lpc EXCEPT ![h] = "outside"]
    /\ UNCHANGED t0

LockNext == \E h \in Lockers :
    Acquire(h) \/ TtasAcquire(h) \/ Test(h) \/ Swap(h) \/ MutexRelease(h)

\* A hart that spins keeps issuing accesses, and the holder lets go.
LockFairness == \A h \in Lockers :
    WF_lockVars(Test(h)) /\ WF_lockVars(Swap(h)) /\ WF_lockVars(MutexRelease(h))

LockSpec == LockInit /\ [][LockNext]_lockVars /\ LockFairness

----------------------------------------------------------------------------

\* The shape of the lock word and of the harts.
LockTypeOK ==
    /\ mtx \in {0, 1}
    /\ t0 \in [Lockers -> {0, 1}]
    /\ lpc \in [Lockers -> {"outside", "test", "swap", "critical"}]

\* Two harts never hold the lock together.
MutualExclusion ==
    \A h, k \in Lockers : lpc[h] = "critical" /\ lpc[k] = "critical" => h = k

\* The word is 0 exactly when nobody holds the lock: a retry, which stores
\* back what it has read, neither frees a held lock nor locks a free one.
FreeIffUnheld == mtx = 0 <=> \A h \in Lockers : lpc[h] # "critical"

\* The lock excludes, and its word says whether it is held.
LockIsExact == MutualExclusion /\ FreeIffUnheld

Waiting(h) == lpc[h] \in {"test", "swap"}

\* While some hart waits the lock does not stay free: a waiting hart, spinning
\* on the load or on the swap, gets it (which one is not promised).
Granted ==
    (\E h \in Lockers : Waiting(h)) ~> (\E h \in Lockers : lpc[h] = "critical")

=============================================================================
