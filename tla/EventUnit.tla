----------------------------- MODULE EventUnit -----------------------------
(***************************************************************************)
(* The event unit of the OpenMP runtime (sw/runtime/src/omp/eu.h): hart 0  *)
(* publishes a task in the shared struct eu_t, wakes the worker harts with *)
(* the cluster interrupt and waits until all of them have counted          *)
(* themselves as finished.  No lock protects the struct; the two counters  *)
(* workers_wfi and e.fini_count are the whole synchronisation.             *)
(*                                                                         *)
(* One step is one access to a word of eu_t or to the interrupt register,  *)
(* or the waking of a hart.  The clear of a hart's own interrupt is a      *)
(* posted store, but the hart loads exit_flag before it can sleep again    *)
(* and the responses of one hart return in order, so it is one step here.  *)
(* Left out: argc and data of the task (they are written and read with     *)
(* fn), the unused nthds copy and the unused mutex of eu_t.                *)
(***************************************************************************)
EXTENDS Integers, FiniteSets

CONSTANTS
    N,          \* compute cores of the cluster; hart 0 is the master
    MaxRegions  \* bound: tasks the application pushes

ASSUME NAssumption == N \in Nat /\ N >= 1
ASSUME MaxRegionsAssumption == MaxRegions \in Nat

Harts == 0 .. (N - 1)
Workers == 1 .. (N - 1)
Regions == 1 .. MaxRegions

VARIABLES
    eu_p_global,        \* has the master published its pointer?
    workers_in_loop, workers_wfi, exit_flag,     \* eu_t
    fn, nthreads, fini_count,                    \* eu_t.e
    mcip,               \* cluster interrupt pending, for each worker
    wpc, wfn,           \* workers: place in eu_event_loop, function called
    mpc,                \* master: place in the API it has called
    scratch,            \* master: the local of eu_run_empty
    size,               \* argument nthreads of each push so far (0: none)
    region,             \* number of pushes so far; names the task function
    joined,             \* last region whose eu_run_empty returned
    ran                 \* ghost: calls of each region completed by each hart

eu == <<workers_in_loop, workers_wfi, exit_flag, fn, nthreads, fini_count>>
worker == <<wpc, wfn>>
app == <<size, region, joined>>
vars == <<eu_p_global, eu, mcip, worker, mpc, scratch, app, ran>>

\* The uninitialised TCDM words before memset hold anything.
Garbage == 0 .. 1

Init ==
    /\ eu_p_global = FALSE
    /\ workers_in_loop \in Garbage /\ workers_wfi \in Garbage
    /\ exit_flag \in Garbage
    /\ fn = 0 /\ nthreads \in Garbage /\ fini_count \in Garbage
    /\ mcip = [w \in Workers |-> FALSE]
    /\ wpc = [w \in Workers |-> "init"]
    /\ wfn = [w \in Workers |-> 0]
    /\ mpc = "memset"
    /\ scratch = 0
    /\ size = [k \in Regions |-> 0]
    /\ region = 0
    /\ joined = 0
    /\ ran = [h \in Harts |-> [k \in Regions |-> 0]]

-----------------------------------------------------------------------------
(* Worker harts: eu_init, eu_event_loop, worker_wfi. *)

WGoto(w, from, to) == wpc[w] = from /\ wpc' = [wpc EXCEPT ![w] = to]

\* eu_init of a worker: spin until the master's pointer is there.
Attach(w) ==
    /\ eu_p_global
    /\ WGoto(w, "init", "enter")
    /\ UNCHANGED <<eu_p_global, eu, mcip, wfn, mpc, scratch, app, ran>>

\* Count the worker in.
Enter(w) ==
    /\ WGoto(w, "enter", "head")
    /\ workers_in_loop' = workers_in_loop + 1
    /\ UNCHANGED <<eu_p_global, workers_wfi, exit_flag, fn, nthreads,
                   fini_count, mcip, wfn, mpc, scratch, app, ran>>

\* The head of the loop: return when the exit flag is set.
CheckExit(w) ==
    /\ WGoto(w, "head", IF exit_flag # 0 THEN "returned" ELSE "test")
    /\ UNCHANGED <<eu_p_global, eu, mcip, wfn, mpc, scratch, app, ran>>

\* Mutant of CheckTeam: <= for <.
CheckTeamInclusive(w) ==
    /\ WGoto(w, "test", IF w <= nthreads THEN "call" ELSE "fini")
    /\ UNCHANGED <<eu_p_global, eu, mcip, wfn, mpc, scratch, app, ran>>

\* Is this worker one of the first nthreads harts?
CheckTeam(w) ==
    /\ WGoto(w, "test", IF w < nthreads THEN "call" ELSE "fini")
    /\ UNCHANGED <<eu_p_global, eu, mcip, wfn, mpc, scratch, app, ran>>

\* Load the function pointer and jump; the task itself runs until Return.
Call(w) ==
    /\ WGoto(w, "call", "running")
    /\ wfn' = [wfn EXCEPT ![w] = fn]
    /\ UNCHANGED <<eu_p_global, eu, mcip, mpc, scratch, app, ran>>

Count(h, k) ==
    ran' = IF k \in Regions THEN [ran EXCEPT ![h][k] = @ + 1] ELSE ran

\* The task returns.
Return(w) ==
    /\ WGoto(w, "running", "fini")
    /\ Count(w, wfn[w])
    /\ UNCHANGED <<eu_p_global, eu, mcip, wfn, mpc, scratch, app>>

\* Members of the team and idle workers alike count themselves as finished.
Fini(w) ==
    /\ WGoto(w, "fini", "count")
    /\ fini_count' = fini_count + 1
    /\ UNCHANGED <<eu_p_global, workers_in_loop, workers_wfi, exit_flag, fn,
                   nthreads, mcip, wfn, mpc, scratch, app, ran>>

\* worker_wfi: announce the sleep before going to sleep.
WfiEnter(w) ==
    /\ WGoto(w, "count", "wfi")
    /\ workers_wfi' = workers_wfi + 1
    /\ UNCHANGED <<eu_p_global, workers_in_loop, exit_flag, fn, nthreads,
                   fini_count, mcip, wfn, mpc, scratch, app, ran>>

\* worker_wfi: the hart sleeps until its interrupt is pending.
Wfi(w) ==
    /\ mcip[w]
    /\ WGoto(w, "wfi", "clr")
    /\ UNCHANGED <<eu_p_global, eu, mcip, wfn, mpc, scratch, app, ran>>

\* Mutant of Clr: the interrupt stays pending.
ClrMissing(w) ==
    /\ WGoto(w, "clr", "dec")
    /\ UNCHANGED <<eu_p_global, eu, mcip, wfn, mpc, scratch, app, ran>>

\* worker_wfi: clear the hart's own interrupt.
Clr(w) ==
    /\ WGoto(w, "clr", "dec")
    /\ mcip' = [mcip EXCEPT ![w] = FALSE]
    /\ UNCHANGED <<eu_p_global, eu, wfn, mpc, scratch, app, ran>>

\* worker_wfi: no longer asleep; back to the head of the loop.
WfiLeave(w) ==
    /\ WGoto(w, "dec", "head")
    /\ workers_wfi' = workers_wfi - 1
    /\ UNCHANGED <<eu_p_global, workers_in_loop, exit_flag, fn, nthreads,
                   fini_count, mcip, wfn, mpc, scratch, app, ran>>

Worker(w) ==
    \/ Attach(w) \/ Enter(w) \/ CheckExit(w) \/ CheckTeam(w) \/ Call(w)
    \/ Return(w) \/ Fini(w) \/ WfiEnter(w) \/ Wfi(w) \/ Clr(w) \/ WfiLeave(w)

-----------------------------------------------------------------------------
(* The master: bootstrap, eu_dispatch_push, eu_run_empty, eu_exit. *)

MGoto(from, to) == mpc = from /\ mpc' = to

\* wait_worker_wfi.  workers_in_loop no longer changes once the bootstrap
\* is over, so the load of it and the last load of the spin are one step.
WorkersAsleep == workers_wfi = workers_in_loop

\* eu_init of the master: clear the struct.
Memset ==
    /\ MGoto("memset", "publish")
    /\ workers_in_loop' = 0 /\ workers_wfi' = 0 /\ exit_flag' = 0
    /\ fn' = 0 /\ nthreads' = 0 /\ fini_count' = 0
    /\ UNCHANGED <<eu_p_global, mcip, worker, scratch, app, ran>>

\* eu_init of the master: store the pointer in shared memory.
Publish ==
    /\ MGoto("publish", "boot")
    /\ eu_p_global' = TRUE
    /\ UNCHANGED <<eu, mcip, worker, scratch, app, ran>>

\* snrt_omp_bootstrap: wait until every other compute core sleeps.
Bootstrap ==
    /\ MGoto("boot", "ready")
    /\ workers_wfi = N - 1
    /\ UNCHANGED <<eu_p_global, eu, mcip, worker, scratch, app, ran>>

\* The application calls eu_dispatch_push with its next task and a team size.
Push(n) ==
    /\ region < MaxRegions
    /\ MGoto("ready", "push")
    /\ region' = region + 1
    /\ size' = [size EXCEPT ![region + 1] = n]
    /\ UNCHANGED <<eu_p_global, eu, mcip, worker, scratch, joined, ran>>

\* eu_dispatch_push: wait for the workers to sleep, then store fn.
PushFn ==
    /\ WorkersAsleep
    /\ MGoto("push", "pushn")
    /\ fn' = region
    /\ UNCHANGED <<eu_p_global, workers_in_loop, workers_wfi, exit_flag,
                   nthreads, fini_count, mcip, worker, scratch, app, ran>>

\* eu_dispatch_push: store nthreads.  The callers (parallelRegion in omp.h and
\* the tests) go on to eu_run_empty at once.
PushN ==
    /\ MGoto("pushn", "run")
    /\ nthreads' = size[region]
    /\ UNCHANGED <<eu_p_global, workers_in_loop, workers_wfi, exit_flag, fn,
                   fini_count, mcip, worker, scratch, app, ran>>

\* eu_run_empty: remember nthreads, return when there is nothing to run.
RunHead ==
    /\ MGoto("run", IF nthreads = 0 THEN "ready" ELSE "clear")
    /\ scratch' = nthreads
    /\ UNCHANGED <<eu_p_global, eu, mcip, worker, app, ran>>

\* eu_run_empty: clear fini_count; a team of one needs no wake-up.
RunClear ==
    /\ MGoto("clear", IF scratch > 1 THEN "wake" ELSE "self")
    /\ fini_count' = 0
    /\ UNCHANGED <<eu_p_global, workers_in_loop, workers_wfi, exit_flag, fn,
                   nthreads, mcip, worker, scratch, app, ran>>

\* Mutant of WakeWorkers: only the workers of the team are woken.
WakeWorkersOfTeam ==
    /\ WorkersAsleep
    /\ mcip' = [w \in Workers |-> w < nthreads]

\* wake_workers: once all sleep, set the interrupt of every worker.
WakeWorkers ==
    /\ WorkersAsleep
    /\ mcip' = [w \in Workers |-> TRUE]

Wake ==
    /\ MGoto("wake", "self")
    /\ WakeWorkers
    /\ UNCHANGED <<eu_p_global, eu, worker, scratch, app, ran>>

\* eu_run_empty: hart 0 is part of every team and calls the function itself.
Self ==
    /\ MGoto("self", IF scratch > 1 THEN "join" ELSE "reset")
    /\ Count(0, fn)
    /\ UNCHANGED <<eu_p_global, eu, mcip, worker, scratch, app>>

\* Mutant of Join: waits for the workers of the team, not for all workers.
JoinTeamOnly ==
    /\ MGoto("join", "reset")
    /\ fini_count >= scratch - 1
    /\ UNCHANGED <<eu_p_global, eu, mcip, worker, scratch, app, ran>>

\* eu_run_empty: wait until every worker in the loop has finished.
Join ==
    /\ MGoto("join", "reset")
    /\ fini_count = workers_in_loop
    /\ UNCHANGED <<eu_p_global, eu, mcip, worker, scratch, app, ran>>

\* eu_run_empty: no worker may run the task again; return.
ResetN ==
    /\ MGoto("reset", "ready")
    /\ nthreads' = 0
    /\ joined' = region
    /\ UNCHANGED <<eu_p_global, workers_in_loop, workers_wfi, exit_flag, fn,
                   fini_count, mcip, worker, scratch, size, region, ran>>

\* eu_exit: eu_run_empty is called only when nthreads is 0, and then it
\* returns at once, so the test has no effect on any state.
CallExit ==
    /\ MGoto("ready", "exit")
    /\ UNCHANGED <<eu_p_global, eu, mcip, worker, scratch, app, ran>>

\* eu_exit: wait for the workers to sleep and set the flag.
SetExit ==
    /\ WorkersAsleep
    /\ MGoto("exit", "exitwake")
    /\ exit_flag' = 1
    /\ UNCHANGED <<eu_p_global, workers_in_loop, workers_wfi, fn, nthreads,
                   fini_count, mcip, worker, scratch, app, ran>>

\* eu_exit: wake the workers, which see the flag and return.
ExitWake ==
    /\ MGoto("exitwake", "done")
    /\ WakeWorkers
    /\ UNCHANGED <<eu_p_global, eu, worker, scratch, app, ran>>

\* The steps of a call in progress, and the calls the application makes.
InCall ==
    \/ Memset \/ Publish \/ Bootstrap \/ PushFn \/ PushN \/ RunHead
    \/ RunClear \/ Wake \/ Self \/ Join \/ ResetN \/ SetExit \/ ExitWake

AppCall == CallExit \/ \E n \in 1 .. N : Push(n)

Next == InCall \/ AppCall \/ \E w \in Workers : Worker(w)

(***************************************************************************)
(* Every hart that is not asleep runs on, and the tasks terminate; the     *)
(* application need never push, and need never exit.                       *)
(***************************************************************************)
Spec ==
    /\ Init /\ [][Next]_vars
    /\ WF_vars(InCall)
    /\ \A w \in Workers : WF_vars(Worker(w))

-----------------------------------------------------------------------------
\* The words of eu_t stay in range: fini_count, which non-members of the team
\* bump too, never exceeds the number of harts.
TypeOK ==
    /\ eu_p_global \in BOOLEAN
    /\ workers_in_loop \in 0 .. N /\ workers_wfi \in 0 .. N
    /\ exit_flag \in 0 .. 1
    /\ fn \in 0 .. MaxRegions /\ nthreads \in 0 .. N
    /\ fini_count \in 0 .. N
    /\ mcip \in [Workers -> BOOLEAN]
    /\ wpc \in [Workers -> {"init", "enter", "head", "test", "call",
                            "running", "fini", "count", "wfi", "clr", "dec",
                            "returned"}]
    /\ wfn \in [Workers -> 0 .. MaxRegions]
    /\ mpc \in {"memset", "publish", "boot", "ready", "push", "pushn", "run",
                "clear", "wake", "self", "join", "reset", "exit", "exitwake",
                "done"}
    /\ scratch \in 0 .. N
    /\ size \in [Regions -> 0 .. N]
    /\ region \in 0 .. MaxRegions /\ joined \in 0 .. MaxRegions
    /\ ran \in [Harts -> [Regions -> Nat]]

\* When eu_run_empty has returned from a region, each hart of its team has
\* carried the task out exactly once and no other hart has touched it; no
\* hart ever repeats a task (eu.h: "stop workers from re-executing the task").
ExactlyOnce ==
    \A k \in Regions, h \in Harts :
        /\ ran[h][k] <= 1
        /\ k <= joined => ran[h][k] = (IF h < size[k] THEN 1 ELSE 0)

\* A worker that tests nthreads, loads fn or runs a task does so while the
\* master is inside eu_run_empty of that very task: the event struct is not
\* rewritten under a reader, and no task outlives its region.
EventIsStable ==
    \A w \in Workers :
        /\ wpc[w] = "call" => nthreads = size[region] /\ fn = region
        /\ wpc[w] \in {"call", "running"} =>
               mpc \in {"self", "join"} /\ joined < region
        /\ wpc[w] = "running" => wfn[w] = region

\* The interrupt of a sleeping worker is pending only because a wake-up for
\* this sleep was sent: a worker never wakes for a round that is over.
NoSpuriousWake ==
    \A w \in Workers :
        mcip[w] => /\ wpc[w] \in {"wfi", "clr"}
                   /\ mpc \in {"self", "join", "done"}

\* A worker that needs nobody's help to go on, and a master that spins on a
\* counter of the workers (the spins of snrt_omp_bootstrap, wait_worker_wfi and
\* eu_run_empty).
GoesOn(w) ==
    /\ wpc[w] = "init" => eu_p_global
    /\ wpc[w] = "wfi" => mcip[w]
    /\ wpc[w] # "returned"

Spins ==
    \/ mpc = "boot" /\ workers_wfi # N - 1
    \/ mpc \in {"push", "wake", "exit", "exitwake"} /\ ~WorkersAsleep
    \/ mpc = "join" /\ fini_count # workers_in_loop

\* No wake-up is lost: as long as the master spins on the workers, some worker
\* is awake or has its interrupt pending, and after eu_exit all those still in
\* the event loop are.  The safety half of CallsReturn.
NobodyIsForgotten ==
    /\ Spins => \E w \in Workers : GoesOn(w)
    /\ mpc = "done" => \A w \in Workers : wpc[w] = "returned" \/ GoesOn(w)

\* Whatever call the master is in ends: eu_dispatch_push, eu_run_empty and
\* eu_exit do not wait for a worker that waits for them.  After eu_exit all
\* workers leave the event loop.
CallsReturn ==
    /\ mpc \notin {"memset", "ready", "done"} ~> mpc \in {"ready", "done"}
    /\ mpc = "done" ~> \A w \in Workers : wpc[w] = "returned"

(***************************************************************************)
(* A region counts as forked when its event struct begins to be written;   *)
(* its team and the harts that are done with it are then:                  *)
(***************************************************************************)
Forked == IF mpc = "push" THEN region - 1 ELSE region
Team == IF Forked = 0 THEN {} ELSE {h \in Harts : h < size[Forked]}
Finished == IF Forked = 0 THEN {} ELSE {h \in Harts : ran[h][Forked] > 0}

FJ == INSTANCE ForkJoin WITH
        region <- Forked, open <- joined < Forked, team <- Team,
        done <- Finished

\* The event unit implements fork and join: a region is carried out by its
\* team and joined after the last member, and every region is joined.
ImplementsForkJoin == FJ!Spec

=============================================================================
