--------------------------- MODULE ClusterBarrier ---------------------------
(***************************************************************************)
(* The hardware barrier of a cluster: snitch_barrier.sv and the part of    *)
(* snitch.sv that it talks to.  A core that reads the CSR `barrier' raises *)
(* barrier_o for that cycle and stalls (csr_stall_q); the barrier unit     *)
(* collects the arrivals in one register bit per core and, in the cycle in *)
(* which all bits are set, pulses barrier_out, which clears the bits and   *)
(* the stalls.  One step is one clock cycle of all the cores together.     *)
(***************************************************************************)
EXTENDS Integers

CONSTANT Cores

ASSUME CoresAssumption == Cores # {}

VARIABLES
    arrival_q,      \* snitch_barrier: the cores that have arrived
    csr_stall_q,    \* snitch: the cores that are stalled
    executed,       \* ghost: barrier instructions each core has executed
    departed        \* ghost: ... and left behind

hwVars == <<arrival_q, csr_stall_q, executed, departed>>

HwInit ==
    /\ arrival_q = {}
    /\ csr_stall_q = {}
    /\ executed = [c \in Cores |-> 0]
    /\ departed = [c \in Cores |-> 0]

\* snitch_barrier: the reduction and over the arrival register.
barrier_out == arrival_q = Cores

\* A core that is not stalled may execute the barrier instruction.
MayIssue == Cores \ csr_stall_q

\* Mutant of arrival_d: the bits are not cleared by the pulse.
arrival_dSticky(barrier_in) == arrival_q \cup barrier_in

\* snitch_barrier: next value of the arrival register.
arrival_d(barrier_in) ==
    IF barrier_out THEN {} ELSE arrival_q \cup barrier_in

\* Mutant of csr_stall_d: the stall is dropped without waiting for the pulse.
csr_stall_dNoWait(barrier_in) == barrier_in

\* snitch: next value of the stall registers.  The CSR access comes after
\* the clear in the combinational block and wins over it.
csr_stall_d(barrier_in) ==
    (IF barrier_out THEN {} ELSE csr_stall_q) \cup barrier_in

Plus(calls, S) == [c \in Cores |-> IF c \in S THEN calls[c] + 1 ELSE calls[c]]

\* One clock cycle in which the cores in barrier_in execute the instruction.
Cycle(barrier_in) ==
    /\ barrier_in \subseteq MayIssue
    /\ arrival_q' = arrival_d(barrier_in)
    /\ csr_stall_q' = csr_stall_d(barrier_in)
    /\ executed' = Plus(executed, barrier_in)
    /\ departed' = Plus(departed, csr_stall_q \ csr_stall_q')

HwNext == \E barrier_in \in SUBSET Cores : Cycle(barrier_in)

\* The clock ticks, with or without an arrival; whether a core ever reaches
\* the barrier is up to its program.
HwSpec == HwInit /\ [][HwNext]_hwVars /\ WF_hwVars(Cycle({}))

-----------------------------------------------------------------------------
\* The registers hold sets of cores, the ghosts count.
HwTypeOK ==
    /\ arrival_q \subseteq Cores
    /\ csr_stall_q \subseteq Cores
    /\ executed \in [Cores -> Nat]
    /\ departed \in [Cores -> Nat]

\* The arrival bit of a core and its stall stand and fall together: no pulse
\* finds a core unstalled (which would lose its next arrival, because the
\* clear has priority over the set), and no core stalls without its bit.
ArrivalIsStall == arrival_q = csr_stall_q

\* Nobody departs from a barrier that somebody has not reached, and nobody is
\* more than one barrier ahead.
NoCoreLeavesEarly == \A c, d \in Cores : departed[c] <= executed[d]

HwB == INSTANCE Barrier WITH
        Members <- Cores, entered <- executed, left <- departed

\* The hardware barrier is a barrier.
HwImplementsBarrier == HwB!Spec

=============================================================================
