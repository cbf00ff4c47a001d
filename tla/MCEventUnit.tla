----------------------------- MODULE MCEventUnit -----------------------------
(***************************************************************************)
(* Parallel loops on a small cluster: every region is the microtask of a   *)
(* statically scheduled loop, whose iterations the harts that run the      *)
(* region divide among themselves with __kmpc_for_static_init_4.           *)
(***************************************************************************)
EXTENDS EventUnit, Kmp

CONSTANTS
    MaxUpper,   \* bound on a loop's upper bound
    MaxChunk,   \* bound on the chunk size; 0 stands for no chunk size
    Argcs       \* numbers of arguments of a parallel region

Loops == [upper : 0 .. MaxUpper, chunk : 0 .. MaxChunk]

Bounds(loop, n, h) ==
    IF loop.chunk = 0 THEN Static(loop.upper, 1, n, h)
                      ELSE StaticChunked(loop.upper, 1, loop.chunk, n, h)

\* The iterations the compiled loop of hart h runs in a team of n: from lower
\* to upper, clamped to the loop's end; with a chunk size both bounds then
\* advance by the stride.
Iterations(loop, n, h) ==
    LET b == Bounds(loop, n, h)
        rounds == IF loop.chunk = 0 THEN {0} ELSE 0 .. loop.upper
    IN  {i \in 0 .. loop.upper : \E r \in rounds :
            b.lower + r * b.stride <= i /\ i <= b.upper + r * b.stride}

\* Share[n][loop][h]: what hart h of a team of n does for the loop.
Share ==
    [n \in 1 .. N |-> [loop \in Loops |-> [h \in Harts |->
        IF h < n THEN [runs |-> Iterations(loop, n, h),
                       last |-> Bounds(loop, n, h).last]
                 ELSE [runs |-> {}, last |-> FALSE]]]]

\* The microtask's calls in a call of __microtask_wrapper.
Calls == [argc \in Argcs |-> Cardinality(CasesRun(argc))]

\* The application is back from a region, and the harts that carried it out.
Joined == mpc = "ready" /\ joined > 0 /\ joined = region
Ran == {h \in Harts : ran[h][joined] > 0}

\* After a parallel loop every iteration has been executed exactly once, by
\* one hart, whatever the team, the loop, its chunk size and (among Argcs) the
\* number of the region's arguments: the dispatch, the static schedule and the
\* microtask's trampoline together.
EveryIterationOnce ==
    Joined =>
        /\ \A h \in Ran, argc \in Argcs : ran[h][joined] * Calls[argc] = 1
        /\ \A loop \in Loops :
              LET share == Share[size[joined]][loop]
              IN  \A i \in 0 .. loop.upper :
                      Cardinality({h \in Ran : i \in share[h].runs}) = 1

\* After a parallel loop exactly one hart has been told that it runs the last
\* iteration, and it does: lastprivate variables are taken from that hart.
OneLastIteration ==
    Joined => \A loop \in Loops :
        LET told == {h \in Ran : Share[size[joined]][loop][h].last}
        IN  \E h \in told : /\ told = {h}
                            /\ loop.upper \in Share[size[joined]][loop][h].runs

=============================================================================
