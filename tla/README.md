# TLA+ verification of the Snitch cluster runtime and its synchronisation hardware

The repository holds the RTL of the Snitch cluster (`hw/`), its bare-metal
runtime (`sw/runtime`), kernels, tests and simulation flow, and a neural
processing unit (NPU) built around a Snitch core. The modules in this directory
model the parts in which several cores, a DMA engine and clocked units meet:
barriers, locks, reductions, the data mover, the OpenMP event unit, the
atomic-memory unit, the numerical kernels as parallel programs, and the NPU from
its driver down to its mailbox. `PROJECT.json` lists, machine-readably, the components, the
runs, the code lines behind every definition, the known hazards and the theorems.

1. [The system](#1-the-system)
2. [Modules and the code they model](#2-modules-and-the-code-they-model)
3. [Runs](#3-runs)
4. [Where the code departs from its documentation](#4-where-the-code-departs-from-its-documentation)
5. [Fairness](#5-fairness)
6. [Proofs](#6-proofs)
7. [What is not modelled](#7-what-is-not-modelled)
8. [Plan](#8-plan)

## 1. The system

A *cluster* has a few in-order cores, one of which (the data mover, DM) drives a
DMA engine. They share a banked scratchpad (TCDM, L1); clusters reach each
other's TCDM and a global memory (L3) over AXI. There is no cache and no
operating system: all synchronisation is done with volatile words, RISC-V
atomics, a hardware barrier per cluster and software interrupts.

| Component | State | Operations | Interacts with | Hard because | Correct when |
|---|---|---|---|---|---|
| Software barrier, `sync.h` | counter, iteration word | `snrt_partial_barrier` | any subset of harts | reuse while slow harts still spin; wrap-around | nobody leaves before all entered; all leave |
| Mutex, `sync.h` | lock word | two acquire loops, release | data mover, heap | the swap register is overwritten by every failed try | exclusion; the word tells the truth |
| Cluster barrier, `snitch_barrier.sv`, `snitch.sv` | arrival bits, stall bits | CSR read, release pulse | all cores of a cluster | clear and set in one cycle | is a barrier |
| Communicators and global barrier, `sync.h` | counter in cluster 0, interrupt bits | create, barrier, wake-up | hardware barrier, interrupts | one interrupt bit for all communicators; uninitialised counter | is a barrier; no interrupt left over |
| Reductions, `sync.h` | accumulators, DMA buffers | all-to-all and tree reduction | barriers, DMA | buffers reused across levels and calls | complete sum, once |
| Data mover, `dm.h` | ring, request word, sleep flag | queue, start, wait, wait-ready, exit | DMA, mutex, interrupts | polling, sleeping and waking without a common lock | in order, complete, no lost wake-up |
| Event unit, `omp/eu.h` | event struct, counters | push, run, exit, worker loop | `kmp.c`, interrupts | struct read without synchronisation | each region once per team member |
| kmp interface, `omp/kmp.c` | argument block | static schedules, microtask trampoline | event unit | remainders; arity | each iteration once |
| AMO shim, `snitch_amo_shim.sv` | three-state machine, reservation | load, store, AMO, LR, SC | cores, DMA, AXI ports | DMA has priority in the middle of an AMO | atomic; SC only under its LR |
| AXI bridges | channel state | conversion | AMO shim | core identity and SC result are re-encoded | transparent |
| NPU stack (driver, mailbox, firmware, DMA engine) | command queue, mailbox registers | enqueue, ring, wait | host, DMA | polling across two address spaces; registers written from both sides in one cycle | every command executed, completion true and seen |
| Kernels (`sw/kernels`) | tiles and buffers in TCDM, matrices in L3 | one entry point each | barriers, DMA, FREP and SSR | double buffering, rotating buffers, overlap of transfers, FP loops and integer code | the result depends on the inputs only, as the reference says |
| SSRs | loop registers | configure, start, repeat | kernels | configuration outlives its use; strides are relative | the stream is the nest of loops |
| Integer core, FP subsystem, IPU, page-table walker, interconnect | pipelines, FIFOs | instructions, memory accesses | each other | handshakes, ids, FIFO limits | in order, nothing lost |

## 2. Modules and the code they model

Shared words are VARIABLES under their C or SystemVerilog names. A step of a
software module is one access to a word that another core may write; private
computation rides along. A step of a hardware module is one clock cycle. Places
in the code are values of `pc`. Variables marked *ghost* exist for the properties
only. Operators called "Mutant of X" are wrong variants of X; no specification
uses them, they record which bug each property is known to catch.

| Module | Code | Notes |
|---|---|---|
| `Barrier` | abstract | What every barrier promises: `Enter`, `Leave` once everybody entered, and eventual departure. |
| `ForkJoin` | abstract | What a parallel region promises: fork, each member works once, join after the last, eventual join. |
| `PartialBarrier` | `sync.h` 303-324 | Five steps per call; the iteration word wraps after `IterMax`. |
| `Mutex` | `sync.h` 104-153 | `Swap` stores the register `t0` and loads into it, as `amoswap t0, t0` does. |
| `ClusterBarrier` | `snitch_barrier.sv` 19-35, `snitch.sv` (CSR, stall) | The set of cores that execute the instruction in a cycle is arbitrary. |
| `GlobalBarrier` | `sync.h` 32-98, 160-301 | `Program` is the sequence of calls all cores make (`CreationAssumption`: a communicator is created once, by a call of all clusters, and used afterwards); `multicast` is the wake-up variant the runtime was built with; a new counter holds 0 or 1 (right, or off by one) until core 0 clears it; `And` is the bitwise and. |
| `AllReduce` | `sync.h` 340-358 | Barriers are atomic meetings. |
| `TreeReduction` | `sync.h` 379-437 | A buffer element is the bag of clusters it sums up; the DMA writes elements in any order; the cores of a cluster that have nothing to do between two barriers pass on together. Communicators of `2^num_levels` clusters only. |
| `DataMover` | `dm.h` | The DM core's loop, the five client functions, the DMA engine as a queue (external). |
| `EventUnit` | `omp/eu.h`, `omp/omp.c` bootstrap, `omp/omp.h` `parallelRegion` | The master runs each task right after pushing it, as every caller in the repository does. |
| `Kmp` | `omp/kmp.c` | Operators: the static schedules and the trampoline's switch. |
| `AmoAlu` | `snitch_amo_shim.sv` 260-309 | Width `W`; signed and unsigned through one subtraction, as in the code. |
| `AmoShim` | `snitch_amo_shim.sv`, `mem_wide_narrow_mux.sv`, the wiring in `snitch_cluster.sv`, LR/SC through `axi_to_reqrsp.sv` and `reqrsp_to_axi.sv` | One bank; `amem` is the memory that atomic execution would have left. A core stores one 32-bit lane and the DMA whole lines: 64-bit core stores and partial DMA strobes are left out. |
| `Ops` | `runtime/src/dma.h`, `sync.h` | The operations a kernel consists of: transfers, waits, barriers, integer computations, FP computations with and without `snrt_fpu_fence`; the DMA helpers as operators that yield them. |
| `Ssr` | `ssr.h`, `snitch_ssr_addr_gen.sv` | A lane is its registers; `Stream` is what the address generator makes of them, step by step. |
| `Blas`, `GemmTile`, `Gemm` | `kernels/blas` | axpy, dot, gemv, syrk; single-core GEMM in four precisions with their streams; the tiled multi-cluster GEMM. |
| `Polybench` | `kernels/misc` | covariance, correlation, atax, doitgen, k-means. |
| `Dnn`, `Attention` | `kernels/dnn` | layernorm, softmax, gelu, transpose, concat, batchnorm, maxpool; FlashAttention-2, fused concat-linear, multi-head attention. |
| `ExpLog`, `MonteCarlo` | `kernels/misc/exp`, `log`, `montecarlo`, `prng` | Two-thread kernels with rotating buffers; the linear congruential generator with its leapfrog. |
| `Jobs`, `Machine` | | The instances, and the machine that executes them: one program per hart, its DMA engine or FP subsystem lagging behind, everything between two barriers in any order. |
| `Npu` | `npu_driver.c`, `npu_runtime.c`, `npu_mailbox.sv`, `npu_dma_engine.sv`, `host_main.c` | One cluster and its host; mailbox and DMA engine step by clock cycle. The host's stores reach memory in program order, although `npu_driver.c:58` only asks for a memory barrier between the command and the tail: on a host that reorders stores the results do not hold. |
| `MCSync` | | The three primitives inside a cluster and the two reductions side by side: a behaviour uses one of them. |
| `MCGlobalBarrier` | | Two systems, of which a behaviour runs one: four clusters with barriers of a communicator and of the world in turn; two clusters of two cores with world barriers. |
| `MCDataMover` | | One hart alone with a ring that fills and wraps, or two that race. |
| `MCEventUnit` | | `EventUnit` composed with `Kmp`: every region is the microtask of a loop of any length and chunk. |
| `MCAmoShim` | | The shim on one-bit lanes, and the ALU on four-bit words against the architectural definition. |
| `MCNpu` | | Programs of the host. |
| `MCMachines` | | `Machine` and `MCNpu` side by side: a behaviour uses one of them. |
| `*Proofs` | | Theorems about the module named before `Proofs`; those of `SyncProofs` are about the primitives that `MCSync` composes, those of `EventUnitProofs` and `AmoShimProofs` also about the compositions `MCEventUnit` and `MCAmoShim`. |

Composition. `GlobalBarrier` contains the cluster barrier as the set of stalled
cores that `ClusterBarrier` justifies; `AllReduce` and `TreeReduction` treat both
barriers as meetings that the refinements to `Barrier` justify; `DataMover` uses
the lock as `SyncProofs` shows it to behave; `MCEventUnit` lets the harts that
ran a region divide a loop among themselves with the schedules of `Kmp`. The
kernels are programs over the barriers that `ClusterBarrier` and `GlobalBarrier`
model, over a DMA engine that completes transfers late and in order, and over FP
subsystems that do the same with what their cores offload. `Npu`
composes driver, mailbox, firmware, DMA engine and compute cores.

How kernels are modelled. An operator with the name of the C function yields the
sequence of operations that core `c` of cluster `cl` issues: the control of the
function (tiles, buffer indices, the tests that pick a role, barriers) is computed
as in the code, a computation is one operation that says from
which locations every location it writes is made. `Machine` executes the programs of
all harts. Memory maps locations to terms, so the final memory tells which inputs
went through which operations, and `expect` (`AxpyResult`, `GemmResult`, ...) is
what a sequential program would have left. An operation begins and ends in
separate steps; if another one in flight changes what it reads or writes, the
result is `Torn`, which equals nothing. Floating-point associativity, rounding and
the order inside one accumulation are not distinguished.

The FP subsystem. The integer core offloads FP arithmetic, FP loads and stores and
FREP loops and goes on (`snitch.sv:577-591`); no barrier waits for them
(`snitch.sv:3314-3318` stalls on the barrier unit alone). So an FP computation is
`Offload`ed: it joins the queue of its core and takes effect some time later, in
order, perhaps behind a barrier, where it disturbs whoever reads what it writes.
Three things make the core wait for all it has offloaded: `snrt_fpu_fence`
(`Fenced`), and an FP result that goes into an integer register, that is a
comparison or the argument of `expf` (`Awaited`). A loop of the second kind leaves
in flight what it stores behind its last comparison (`LastInFlight`). Integer
computations (`Work`) end before the core goes on. What this takes for granted:

- The fence waits for every FP instruction before it, their stores included. In the
  hardware it waits for one register move behind them; whether a store stream of an
  SSR has left its FIFO then is not modelled.
- Accesses of one core to one location stay in program order, between the FP
  subsystem and the integer core too (the consistency queue of `snitch.sv`).
- What the compiler may choose is read off the C code: assignments of `double`
  variables and FP constants go through the FP subsystem, integer ones do not.
- The main of exp and log initialises and later checks the arrays in a loop that
  calls `expf` or `logf` for each element, which waits for the one before.

Ten names of instances, listed as `Prompt` in `MCMachines.cfg`, stand for kernels
that lack a fence somewhere, and go wrong for it (section 4). So that they say
more than that, the run `machines` looks at those of their executions only
in which the FP subsystem has caught up whenever the core is at a barrier, an
assumption on timing the code does not establish; the other names are run with an
FP subsystem as slow as it likes, and the fence is what makes them pass.

Abstractions that matter to a reader of the code:

- An interrupt clear is one step. The store is posted, but the next access of the
  same hart is a load and `reqrsp_demux` returns responses in order, so the clear
  has happened when the load returns.
- `DataMover` starts after `dm_init`; no hart passes it before the pointer is set.
- Transfers, task functions and memory words are names; sizes and addresses of
  transfers do not influence control.
- A word in `Npu` is a header field, a command (four words), a row of activations,
  four columns of weights or the results of a tile; a transfer moves whole words.
- The LCG of `MonteCarlo` keeps its low eight bits, which depend on nothing above;
  xoshiro128p is the k-th draw of one generator per core (its jump function is not
  modelled).
- The AMO shim's request registers are records that exist while an operation is
  under way; nothing reads them otherwise. `Halves` are the 32-bit lanes, `W` the
  width of a lane in the model.
- clang passes loops to `__kmpc_for_static_init_4` with lower bound 0 and
  increment 1; the model does too. (The left-over adjustment in kmp.c:282 would
  need a factor `incr` otherwise.)

## 3. Runs

The longest takes about two and a half minutes. The runs marked *violation* record a
disagreement, see section 4.

| Run | Instance | Questions |
|---|---|---|
| `sync` | software barrier: 4 harts, an iteration word of 2 values that wraps; mutex: 5 harts, any mix of the acquire loops; cluster barrier: 6 cores enter in any cycle, three barriers; tree of 2 and of 4 clusters with 2 compute cores; one all-to-all reduction | Is the software barrier a reusable barrier (`NobodyLeavesEarly`, `SpinTestIsExact`, `OneReleaser`, `ImplementsBarrier`)? Does the lock exclude and its word tell the truth, does somebody always get in (`LockIsExact`, `Granted`)? Does the barrier unit lose an arrival, and is it a barrier (`ArrivalIsStall`, `HwImplementsBarrier`)? Is what the tree sends the sum of its subtree, is the result of a pair complete, does everybody return (`SendersAreComplete`, `PairIsComplete`, `TreeReturns`)? (`PairIsComplete` speaks of two clusters because of `tree_reduction_race`.) Does every core get the sum (`ReturnsTheSum`)? |
| `global_barrier` | 4 clusters, a communicator of 2, then all; or 2 clusters of 2 cores, boot and two barriers; both wake-ups | Do the members of every call synchronise (`Synchronized`), do communicators that share an interrupt bit stay apart (`InterruptIsOwn`), is every sleeper woken (`NobodyIsForgotten`), and does every call return (`CallsReturn`)? Is the two-level barrier a barrier of all cores (`ImplementsBarrier`)? `And` is compared with the bitwise operator of the library. |
| `global_barrier_three` | communicator of 3 | *Violation* of `CallsReturn`. |
| `tree_reduction_race` | tree of 4 clusters | *Violation* of `ResultIsComplete`. |
| `data_mover` | a ring of 2; 2 harts, all functions, a transfer each; or 1 hart, 4 transfers | Order, completion and wake-up while the harts race and while the ring fills and wraps (`InOrder`, `WaitMeansComplete`, `NoLostWakeup`); a lone hart's `dm_wait` returns (`LoneWaitReturns`). |
| `data_mover_lost_request` | 2 harts in `dm_wait` | *Violation* of `WaitReturns`. |
| `event_unit` | 4 harts, 3 regions of any team size; loops of up to 8 iterations, chunks up to 3 | Regions run exactly once, stable struct, no wake-up too many and none lost, termination, refinement of fork-join (`ExactlyOnce`, `EventIsStable`, `NoSpuriousWake`, `NobodyIsForgotten`, `CallsReturn`, `ImplementsForkJoin`); each iteration of a parallel loop is executed once and one hart is told it runs the last (`EveryIterationOnce`, `OneLastIteration`). |
| `amo_shim` | 2 cores, DMA and external port, 2 words of 2 lanes of 1 bit; ALU: all operations on all pairs of 4-bit words | Atomicity, atomic reads, LR/SC (`Coherent`, `ReadsAreAtomic`, `ScIsProtected`); agreement of the ALU with the architecture (`AluMatchesReference`). |
| `machines`, kernels | 23 kernels in about 70 instances (`Jobs`), 1 or 2 compute cores and a data mover per cluster, 1 to 3 clusters | In every order the barriers and fences leave (but see `Prompt` above): is the result made from the right inputs by the right operations (`ResultIsReference`), is nothing that a core or its FP subsystem works on disturbed (`ComputeIsUndisturbed`), do all cores return (`Returns`)? |
| `machines`, NPU | queue of 7, 2 compute cores, five programs of the host, doorbells at any time | Does the firmware execute only what was enqueued, although its copy of the queue races with the host (`OnlyEnqueued`)? Are the results in DDR when completion is signalled (`CompletionIsTrue`)? Is every command executed whatever happens to the doorbells (`EveryCommandRuns`)? Do the host's calls, other than `npu_wait_cluster`, return (`HostReturns`)? |
| `kernels_without_fence` | the ten instances without a fence, an FP subsystem of any speed | *Violation* of `ResultIsReference`. |
| `flash_attention_race` | FlashAttention-2, FP32, optimised GEMM, 2 cores, an FP subsystem that has caught up at each barrier | *Violation* of `ResultIsReference`. |
| `npu_driver_wait` | the main of `host_main.c` | *Violation* of `WaitReturns`. |

Why the bounds suffice: the iteration word and the ring wrap within the runs; a
third hart shows what two racing harts leave behind; teams smaller than the
worker pool occur; a communicator smaller than the machine occurs; a second
address makes the shim's address comparison matter, a second lane its byte
enables; loops shorter and longer than team times chunk, with every remainder,
occur. One bit per lane is enough for the shim because it only moves what the
ALU, checked separately, computes; four bits are enough for the ALU to see every
carry and sign case. The kernels' sizes let every buffer be used at least twice,
divide tiles unevenly where the kernel allows it, and take every branch of the
drivers; unroll factors are 2 instead of 4 or 8. The NPU's programs fill the queue,
ring while the firmware copies it, and use more tiles than cores. The safety of the
modules with a `Proofs` companion does not depend on the bounds at all.

`CHECK_DEADLOCK FALSE` is set where programs end (all cores returned, workers
exited, no calls left) or where harts may legitimately have nothing to do; there
the progress properties stand in for the deadlock check.

## 4. Where the code departs from its documentation

Six are violation runs; PROJECT.json quotes the lines they contradict.

- Communicators whose size is no power of two leave clusters asleep
  (`sync.h:95`, run `global_barrier_three`).
- `snrt_global_reduction_dma` over four clusters can overwrite the receive buffer
  of one level with the next (`sync.h:408`, run `tree_reduction_race`).
- The DM core's clear of `stat_q` can wipe out the next hart's request
  (`dm.h:214`, run `data_mover_lost_request`).
- FlashAttention-2 in FP32 multiplies with a transpose that other cores are still
  writing (`flashattention_2_fp32.h:251`, run `flash_attention_race`).
- Ten kernels, or variants of them, store their results through the FP subsystem
  and go to a barrier without `snrt_fpu_fence` (`gelu.h:88` and the places in the
  table below, run `kernels_without_fence`).
- `npu_wait_cluster` polls a mailbox word that nobody can set
  (`npu_driver.c:87`, run `npu_driver_wait`); the testbenches use the interrupt
  line, and so do the other host programs of run `machines`.

The others are kept out of the runs by the bounds given here; changing a bound as
described makes TLC print the trace.

| Code | What happens | How to see it |
|---|---|---|
| `sync.h:343` | `snrt_global_all_to_all_reduction` works once per program: its accumulators keep the first result. | `AllReduce`, two clusters of two cores, `MaxCalls = 2`: `ReturnsTheSum` |
| `dm.h:273` | `dm_memcpy_async` polls the fill level outside the lock; two harts can overrun the ring. | `DataMover`, two harts, `QueueSize = 2`, `MaxCopies = 2`, `Ops = {"memcpy", "start"}`: `InOrder` |
| `dm.h:250` | `dm_exit` does not return when the DM core is awake. | `DataMover`, one hart, `MaxCopies = 1`, `Ops = {"memcpy", "wait", "exit"}`: `ExitIsClean` |
| `kmp.c:79` | Cases 8 to 11 of the trampoline have no `break`: such microtasks run several times. | `MCEventUnit` with 8 in `Argcs`: `EveryIterationOnce` |
| `mem_wide_narrow_mux.sv:120` | A write from the external wide port during an AMO is acknowledged and lost. | `AmoShim`, `ExtOps = {"store"}`: `ExtIsServed` |
| `axi_to_reqrsp.sv:307` | LR/SC of remote harts are mistaken for core 0's. | `AmoShim`, `Remotes = {r}`, `CoreOps = {"lr", "sc"}`: `ScIsProtected` |
| `axi_to_reqrsp.sv:354` | Results of remote SCs arrive inverted. | The same: `ScAnswerIsTrue` |
| `kmp.c:189` | A fork call with 12 arguments writes 13 words (the microtask and its arguments) into the 12 that `omp_init` allocated. | Not modelled: straight-line data. |
| `eu.h:187` | `eu_exit` empties the queue only if it is empty; the test reads inverted. No caller leaves a task in the queue. | Not modelled: no caller reaches it. |

Kernels. The instances named in the second column are in `Jobs`, outside the job
set of the run `machines`; adding one to `JobSet` prints the trace.

| Code | Instance | What happens |
|---|---|---|
| `layernorm_fp8.h` | `layernorm_fp8_four` | The FREP repeats 12 of a body of 16 instructions: with more than one iteration the sums are wrong. |
| `softmax.h`, `maxpool.h` | `softmax_two`, `maxpool_two` | `compute_id` is `snrt_global_core_idx()`, which counts all cores of all clusters: from the second cluster on, tiles are skipped. |
| `fused_concat_linear.h` | `fused_baseline_two` | With `load_a = 0` the cluster's rows are not selected, so every cluster multiplies the first rows. |
| `gemm.h` | `gemm_uneven` | `parallelize_k` with a number of k tiles that the clusters do not divide misses tiles. |
| `gemv/src/main.c` | `gemv` | The main reads the operands without waiting for the transfer. |
| `kmeans.h` | `kmeans2` | With more than one iteration a core may still read the centroids that another one already replaces. |
| `correlation.h` | `correlation3` | Sizes the clusters do not divide. |

The kernels without a fence. Each instance fails `ResultIsReference` with
`Prompt = {}` (`KernelsWithoutFence.cfg` with that name alone in `JobSet`).

| Code | Instance | What may still be in flight | Who reads it behind the barrier |
|---|---|---|---|
| `gelu.h:54` | `gelu` | the last output of each core | the DMA engine (`:92`) |
| `softmax.h:66` | `softmax` | the divisions of the last row | the DMA engine |
| `maxpool.h:73` | `maxpool` | the last output of each core | the DMA engine |
| `transpose.h:46` | `transpose_baseline` | the copied elements | the DMA engine |
| `layernorm_fp8.h:200` | `layernorm_fp8` | the normalised last row | the DMA engine |
| `dot.h:89` | `dot` | the partial sum (the fence is before its store) | core 0, which adds the sums |
| `syrk.h:24`, `syrk_baseline` | `syrk_naive` | a tile of C | the DMA engine |
| `covariance.h`, naive and baseline | `covariance_naive` | the same, from `syrk` | the DMA engine |
| `kmeans.h:89`, `:174` | `kmeans` | the partial centroids; the division | core 0, which adds them; the DMA engine |
| `flashattention_2_fp32.h:214`, FP16 alike | `flashattention_blocks` | the last row's rescaling of O | the GEMM, when another core works on that row |

Found while translating, without an instance: `gemm_fp32_opt` never computes the
columns behind the last multiple of the unroll factor; several streams underflow
FREP counts when K < 3; `gemm_fp64_opt` preloads C without regard for partitioned
banks; transposed A is not supported by `sc_st_gemm` although the argument exists;
`layernorm_fp16_opt` accumulates into an uninitialised `var_reduce`; FlashAttention-2
rescales O by dividing by the shifted exponential; `reduction_array` of the Monte
Carlo kernel is indexed by core and sized `N_CORES`; `psum_v2` underflows its
iteration count for as many samples as one batch.

NPU. A doorbell in the cycle in which the core acknowledges the previous one is
lost, and the completion word 0xA5A5 clears a pending one; `EveryCommandRuns` shows
that neither loses a command, because the queue is pulled after the acknowledgement.
The head in DDR is "Written by NPU Firmware" (`npu_mmio.h:98`), but the firmware
advances its copy only: the queue takes `Capacity - 1` commands for ever, and every
wake-up starts again at command 0 and stops at the first `OP_FINISH`, so commands
behind it are never executed. `OP_FINISH` does not wait for compute cores. The
properties speak of one batch ended by one `OP_FINISH`, as in every test.

`amo_conflict_o`, which excuses a DMA access to a word under an atomic operation
in `Coherent`, is left unconnected in `snitch_cluster.sv`: software must keep DMA
transfers and atomics on the same word apart.

## 5. Fairness

- Weak fairness of each hart *inside* a function: an awake core fetches and
  retires, and the TCDM arbiters are round-robin. Nothing obliges a hart to call a
  function (`Remember`, `Call`, `Push`, `Begin` carry none).
- Weak fairness of the clock in `ClusterBarrier`, of the DM core and of the DMA
  engine.
- Strong fairness of taking the mutex in `DataMover`: the TCDM arbitration is fair
  between requesters, and a hart polls without pause. `Mutex` itself assumes weak
  fairness only, and promises only that somebody gets in.
- Tasks terminate in `EventUnit`.
- `MCGlobalBarrier` needs only one condition for all cores together: programs are
  finite and no step repeats. `Machine` likewise.
- In `Npu`, stores reach the mailbox, memories answer, compute cores finish.

A sleeping core has no fairness by itself: `wfi` is enabled only when the
interrupt is pending, so a lost wake-up is a liveness counterexample.

## 6. Proofs

TLAPS proves these for every value of the constants under the modules' named
assumptions (finite non-empty sets, positive sizes).

| Theorems | Argument |
|---|---|
| `SyncProofs`: `TypeCorrect`, `BarrierSafety`, `SpinExact`, `SingleReleaser`, `BarrierRefines` | There is a generation `g` such that every hart has entered `g` or `g + 1` times and left `g` or fewer by one; `cnt` is the cardinality of the harts that have entered generation `g + 1`; who still waits for `g` remembers an iteration number one behind the current one. Needed because the words alone do not tell who is late: `NobodyLeavesEarly` is not inductive. The counting step uses the finite-set theorems. The refinement maps the increment of the counter to `Enter` and the two returns to `Exit`. |
| `SyncProofs`: `Exclusion` | At the swap the register holds 1, so a swap can only keep or set the word. |
| `DataMoverProofs`: `DataMoverTypes`, `WakeupSafe` | `dm_wfi` is 1 exactly while the DM core is between announcing and leaving its sleep, so a hart that has written a request and still looks at `dm_wfi` will see the sleep. |
| `DataMoverProofs`: `OrderWithRoom`, `RoomInTheRing`, `TransfersInOrder`, `WaitIsTrue` | The fill level and the two indices are the numbers of the transfers queued and issued, corrected for the update a core is in the middle of (`RingInv`), so a slot holds the transfer its index says; from there on a `dm_wait` knows that its transfers were issued before its request is looked at (`RequestInv`). That holds as long as the ring is never overrun (`OrderWithRoom`), and it is not when one hart is alone or when all transfers fit (`RoomInTheRing`): the hypothesis `Roomy` excludes exactly the overrun of section 4 (`dm.h:273`), and the run `data_mover` satisfies it. |
| `SyncProofs`: `NoLostArrival`, `HwBarrierSafety`, `HwBarrierRefines` | Arrival bits equal stalls, and between two pulses every core is in the same generation; separate lemmas for quiet cycles and for the pulse. |
| `EventUnitProofs`: `EventUnitTypes`, `RegionsRunOnce`, `EventStable`, `WakesAreMeant`, `NoLostWakeup`, `ForkJoinSafety` | The counters equal the cardinalities of the sets of workers at the places they count, and a table ties the place of the master to the places the workers can be in; one lemma per action. `NoLostWakeup`: a counter the master still spins on misses a worker, which by the table is awake or has its interrupt pending. The refinement maps pushing, task ends and the reset of `nthreads` to fork, work and join. |
| `EventUnitProofs`: `LoopsRunOnce`, `LastIsToldOne` | `RegionsRunOnce` with division: without a chunk size one hart's upper bound is one below the next one's lower bound, with one the iteration `i` belongs to hart `(i / chunk) mod n` (`OneOwner`); C's remainder of negative numbers is covered. The hypothesis of `LoopsRunOnce`, `Argcs \subseteq Breaks`, excludes exactly the argument counts of `kmp.c:79` (section 4). |
| `GlobalBarrierProofs`: `GlobalBarrierSynchronizes`, `InterruptsAreOwn`, `GlobalBarrierRefines` | Two layers. `ShapeInv`: the hardware barriers keep a cluster's cores in one call and on one side of its first barrier, so the data movers stand for their clusters. `InterInv`: nobody is through with a call before all members sleep in it or are through; the counter counts the clusters that wait in an unreleased call, so the last one finds all others asleep; the wake-ups still to be sent go to members asleep in the same call with no interrupt pending; so no interrupt outlives its barrier. That a counter has been cleared before it counts follows from the synchronisation of the creating call, hence the communicators cannot be treated one by one. Holds for communicators of any size: with one that is no power of two members sleep for ever (section 4), but none leaves early. The refinement is for the cores of the clusters that take part in all calls. |
| `GlobalBarrierProofs`: `NoSleeperIsLost` | The safety half of `CallsReturn`. A call that is not released has a member that is not asleep yet, because the one that completes the count resets it instead of sleeping (`LateInv`); in a released call, who sleeps without an interrupt pending is among those that the wake-up loop, or the multicast write, still reaches (`WokenInv`). That needs `submask = (submask - 1) & mask` to visit every number below `size`, which it does when `mask` has ones only (`AndOnes`, by induction over the halves of a word). The hypothesis `PowersOfTwo` excludes exactly the sizes of `sync.h:95` (section 4). |
| `AllReduceProofs`: `SumIsReturned`; `SyncProofs`: `ReductionReturnsTheSum` | Until the DM cores meet, what has been given is in `_reduction_result` or in the word of a cluster not combined yet; then in `_reduction_result` alone. A sum over clusters is the cardinality of the set of units the words hold, so the finite-set theorems take the place of an induction. The hypothesis `OneCall` excludes the second call of `sync.h:343` (section 4). |
| `TreeReductionProofs`: `FirstSendersSafety`; `SyncProofs`: `PairReductionSafety`, `SendersSafety` | Two clusters are never further apart than one global barrier (`Phase`), so the state of all is known from a generation up to the two halves of a level. The invariant follows the buffers of the odd clusters, which only send, and of the *steady* receivers, those that a single transfer ever reaches: the clusters that send at level 1, and cluster 0 when there are just two. Any other receiver may have its destination overwritten before it has read it (`sync.h:408`, section 4), so no more holds: with three levels the senders of the last one may be incomplete. For every depth the senders of the first two levels send the complete sum of their subtree (`FirstSendersSafety`); for depths 1 and 2, which `MCSync` instantiates, these are all the senders (`SendersSafety`), and for two clusters the result is the sum of both (`PairReductionSafety`). Sender, receiver and idle are remainders modulo powers of two; `2^(n+1) = 2 * 2^n` comes from counting the subsets of a set with one more element (`Double`). Hypothesis `Instance`: at least one level (the function returns at once for a single cluster) and `DM` not a compute core. |
| `NpuProofs`: `EnqueuedOnly` | The tail is copied before the commands and the head in DDR stays 0, so what lies below a tail that has been seen is never written again: `Good` says which value may stand in a word of the copy, `Copied` that the words behind the engine's place hold such values. To know that nothing else writes the queues the invariant follows the copy (`Pulling`) and every transfer of a command (`Moving`) through the registers and states of the DMA engine, says that the engine is idle whenever the firmware has no access left to make (the status read is not answered in the cycle of a trigger), and keeps the results of the cores behind the queues. The hypothesis `WellFormed` says what the driver leaves to its caller: commands transfer and write to places behind the queues. The programs of `MCNpu` are of this kind. |
| `AmoShimProofs`: `ShimIsAtomic`, `ReadsAtomic`, `ScSafe` (no remote harts) | The bank plus the pending write-back equals the atomic memory; the reservation's core is linked to the reserved address. Accesses of the external port are those the shim serves. The hypothesis of `ScSafe` excludes exactly the case of section 4. |
| `AmoShimProofs`: `AluIsCorrect` | The ALU against the architectural definition, for operands of any width: sums and differences are compared modulo twice the word (`%` of the extended operands), signed and unsigned orders through the sign of one subtraction of extended operands as in the code; the bitwise operations combine sets of bit positions, the same in both. |

Two inductions are needed, over the halves of a word (`AndBound`: `a & b` is at
most `b`, which keeps the enumeration of submasks inside the communicator, and
`AndOnes`) and over the length of an interval. The provers cannot instantiate an induction theorem, so
`UpTo` proves induction for a set of numbers from the pigeonhole principle
of the finite-set theorems.

A proof attempt that failed found two errors of the model: the interrupt register of
`DataMover` had two answers in a state where its CASE had overlapping guards, and
`And`, formerly a sum over bits, could not be reasoned about.

Only model-checked: everything under fairness (liveness and the fairness part of
the refinements), since the prover has neither ENABLED nor fairness (the two
`NobodyIsForgotten` are the safety halves of `CallsReturn`);
`CompletionIsTrue` of `Npu`, whose meaning is a fold over the commands, and which
holds for disciplined programs only (each doorbell makes the firmware start again
with the first command of the queue, and nothing waits for the cores but
`wait_compute`); and the kernels, `ResultIsReference` and `ComputeIsUndisturbed`,
whose instances are finite programs with recursive references.

## 7. What is not modelled

- `conv2d.h` (in no build: `dnn.h:197` comments its include out), SARIS, the stencils
  `box3d1r` and `j3d27pt`, `kbpcpa`, `sort`: straight-line or generated code.
- The second versions of the optimised exp, log and pi kernels, which pass operands
  through COPIFT queues; `vexpf_optimized_v2` protects its scratch words by timing
  alone, which needs a cycle-accurate pipeline.
- `gemm_fp16_baseline`, the transposed-A kernels, the AXI-multicast and in-network
  reduction transfers.
- Allocators, the FREP sequencer, the SSR FIFOs and credits, serial divider,
  page-table walker, load/store unit, muxes and AXI bridges: in the plan below.
- Start-up, identity and performance-counter helpers: straight-line code.
- NPU: convolution and its tiling, the multi-cluster tops, MAC arrays.
- `printf`, the simulation target, trace and build utilities: I/O and generated
  code. Submodules (AXI, common cells, the DMA engine, FPU) are external.
- Variants nothing in the repository enables: `DM_USE_GLOBAL_CLINT`,
  `SNRT_SUPPORTS_NARROW_REDUCTION` (the in-network reduction lives in a submodule).

## 8. Plan

Done: the synchronisation core and its hardware, the kernels, the NPU stack. Next:

1. `Alloc`: `alloc.h`, `alloc_v2.h`: alignment, disjointness, agreement between
   the clusters' allocators that `snrt_comm_create` relies on.
2. `ReqRsp`: `reqrsp_mux.sv`, `reqrsp_demux.sv`, `axi_to_reqrsp.sv`,
   `reqrsp_to_axi.sv`, `snitch_lsu.sv`: responses in order, nothing lost, id FIFO
   limits; it discharges the ordering assumption of section 2.
3. `Frep` (`snitch_sequencer.sv`), the SSR credits, `Divider`
   (`snitch_serial_divider.sv` against integer division), `Ptw` (`snitch_ptw.sv` with
   `snitch_l0_tlb.sv`).
4. The rest of `kmp.c` (dynamic dispatch), start-up and exit composed with
   `GlobalBarrier` and `AllReduce`.
