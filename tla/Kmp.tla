--------------------------------- MODULE Kmp ---------------------------------
(***************************************************************************)
(* The entry points of the OpenMP runtime that compute something           *)
(* (omp/kmp.c): the bounds of a statically scheduled loop, and the         *)
(* calls of the microtask a parallel region's argument count leads to.     *)
(*                                                                         *)
(* The compiler hands normalised loops to the runtime: the lower bound is  *)
(* 0 and the increment 1, so a loop is given by its upper bound.           *)
(***************************************************************************)
EXTENDS Integers, FiniteSets

\* The quotient and the remainder of C: the quotient is rounded to zero.
CMod(a, b) == IF a >= 0 THEN a % b ELSE -((-a) % b)

----------------------------------------------------------------------------
(* __kmpc_for_static_init_4 *)

\* Mutant of StaticChunked: the flag goes to whoever holds the upper bound's
\* distance from its lower bound as a multiple of the stride.
StaticChunkedLastOfUpper(globalUpper, incr, chunk, nbThreads, threadNum) ==
    LET span == incr * chunk
        stride == span * nbThreads
        lower == span * threadNum
    IN  [lower |-> lower, upper |-> lower + span - incr, stride |-> stride,
         last |-> CMod(globalUpper - lower, stride) = 0]

\* A chunk size is given: chunks are dealt out to the threads in turn.
StaticChunked(globalUpper, incr, chunk, nbThreads, threadNum) ==
    LET span == incr * chunk
        stride == span * nbThreads
        lower == span * threadNum
        beginLastChunk == globalUpper - CMod(globalUpper, span)
    IN  [lower |-> lower, upper |-> lower + span - incr, stride |-> stride,
         last |-> CMod(beginLastChunk - lower, stride) = 0]

\* Mutant of Static: the threads after the longer chunks start too early.
StaticNoLeftOver(globalUpper, incr, nbThreads, threadNum) ==
    LET loopSize == globalUpper \div incr + 1
        chunk == loopSize \div nbThreads
        leftOver == loopSize - chunk * nbThreads
        mine == IF threadNum < leftOver THEN chunk + 1 ELSE chunk
        lower == threadNum * mine * incr
        upper == lower + mine * incr - incr
    IN  [lower |-> lower, upper |-> upper, stride |-> loopSize,
         last |-> upper = globalUpper /\ lower <= globalUpper]

\* No chunk size: one chunk each, the first leftOver threads' one longer.
Static(globalUpper, incr, nbThreads, threadNum) ==
    LET loopSize == globalUpper \div incr + 1
        chunk == loopSize \div nbThreads
        leftOver == loopSize - chunk * nbThreads
        mine == IF threadNum < leftOver THEN chunk + 1 ELSE chunk
        lower == threadNum * mine * incr
                    + IF threadNum < leftOver THEN 0 ELSE leftOver
        upper == lower + mine * incr - incr
    IN  [lower |-> lower, upper |-> upper, stride |-> loopSize,
         last |-> upper = globalUpper /\ lower <= globalUpper]

----------------------------------------------------------------------------
(* __microtask_wrapper *)

\* The cases of the switch on argc that end in a break.
Breaks == 0 .. 7 \cup {12}

\* The cases the switch executes: from argc on, up to the next break.
CasesRun(argc) == {n \in argc .. 12 : \A b \in Breaks : b >= argc => n <= b}

=============================================================================
