------------------------------- MODULE ExpLog -------------------------------
(***************************************************************************)
(* The vector exponential and logarithm of sw/kernels/misc/exp and log.    *)
(* The optimised versions run on two threads of one core: an FREP loop     *)
(* that has been offloaded to the FP subsystem, and the integer            *)
(* instructions that follow it, with software-pipelined batches in between *)
(* (DMA in, FP, integer, FP, DMA out).                                     *)
(* `a': a.n batches of a.batch elements, unrolled by a.unroll (4).         *)
(***************************************************************************)
EXTENDS Attention

\* ALLOCATE_BUFFER: buffers of one batch, one behind the other.
Buffer(a, cl, i) == <<"l1", cl, 0, i * a.batch>>
Batch(a, p) == [i \in 1 .. a.batch |-> At(p, i - 1)]

\* What the first FP phase, the integer phase and the second FP phase of exp
\* make of an element; and the parts of log.
Exp(x) == <<"mul", <<"w", x>>, <<"t", <<"ki", x>>>>>>
LogOf(x) == <<"log", <<"z", x>>, <<"nan">>, <<"invc", x>>, <<"k", x>>, <<"logc", x>>>>

(***************************************************************************)
(* vexpf_baseline, vlogf_baseline: batches in two buffers.                 *)
(***************************************************************************)
\* Iteration it of the DM core: it loads batch it to `in' and stores batch
\* `done' from `out'.
DmaPhases(a, it, done, in, out) ==
  If(it < a.n, <<snrt_dma_load_1d_tile(in, X("A", 0), it, a.batch, 1)>>)
  \o If(done >= 0, <<snrt_dma_store_1d_tile(X("B", 0), out, done, a.batch, 1)>>)
  \o <<WaitAll>>

Baseline(a, cl, c, f) ==
  LET in(i) == Buffer(a, cl, i % 2)
      out(i) == Buffer(a, cl, 2 + (i % 2))
      n_it == a.n + 2
      step(it) ==
        If(IsDm(a, c), DmaPhases(a, it, it - 2, in(it), out(it - 2)))
        \o If(c = 0 /\ it > 0 /\ it < n_it - 1,
              Fenced({Put(Batch(a, out(it - 1))[i], f, <<Batch(a, in(it - 1))[i]>>) : i \in 1 .. a.batch}, {}))
        \o <<Barrier>>
  IN  For(n_it, step)

vexpf_baseline(a, cl, c) == Baseline(a, cl, c, "exp")
vlogf_baseline(a, cl, c) == Baseline(a, cl, c, "log")

\* The naive kernels are one loop over all elements; that of exp is run by
\* core 0, those of log by every core.  Only vlogf_naive has a fence.
Naive1(a, f) == LastInFlight(a.n * a.batch, LAMBDA i : {Put(X("B", i), f, <<X("A", i)>>)})
vexpf_naive(a, cl, c) == If(c = 0, Naive1(a, "exp"))
vlogf_naive(a, cl, c) == Naive1(a, "log") \o <<snrt_fpu_fence>>
vlogf_glibc(a, cl, c) == Naive1(a, "log")

(***************************************************************************)
(* vexpf_optimized.                                                        *)
(***************************************************************************)
FP0_ASM_BODY(s0, s1, s2) ==
  {Put(s1[i], "ki", <<s0[i]>>) : i \in DOMAIN s0} \cup {Put(s2[i], "w", <<s0[i]>>) : i \in DOMAIN s0}

INT_ASM_BODY(ki, t) == {Put(t[i], "t", <<ki[i]>>) : i \in DOMAIN ki}

FP1_ASM_BODY(s0, s1, s2) == {Put(s2[i], "mul", <<s0[i], s1[i]>>) : i \in DOMAIN s0}

\* Both at once, in blocks of u: lane 0 gives u inputs then u t's, lane 1 u w's,
\* and lane 2 takes u ki's, u w's and u results.
FP0_FP1_ASM_BODY(u, s0, s1, s2) ==
  UNION {LET g == (i - 1) \div u
             in == s0[g * 2 * u + ((i - 1) % u) + 1]
             t == s0[g * 2 * u + u + ((i - 1) % u) + 1]
             out(k) == s2[g * 3 * u + k * u + ((i - 1) % u) + 1]
         IN  {Put(out(0), "ki", <<in>>), Put(out(1), "w", <<in>>), Put(out(2), "mul", <<s1[i], t>>)} : i \in DOMAIN s1}

\* The order of the buffers: ki, w and b three times each, then a and t twice.
\* A phase that works on batch i at iteration i + d uses the buffers of batch i.
ExpKi(a, cl, i) == Buffer(a, cl, i % 3)
ExpW(a, cl, i) == Buffer(a, cl, 3 + (i % 3))
ExpB(a, cl, i) == Buffer(a, cl, 6 + ((i + 2) % 3))
ExpA(a, cl, i) == Buffer(a, cl, 9 + (i % 2))
ExpT(a, cl, i) == Buffer(a, cl, 11 + (i % 2))

\* What core 0 offloads in iteration it of n_it.
ExpFp(a, cl, it, n_it) ==
  LET B == a.batch
      u == a.unroll
      loop(k, n) == snrt_ssr_loop_3d(ResetLane, <<u, k, B \div u>>, <<1, n * B, u>>)
      line(p) == Stream(snrt_ssr_loop_1d(ResetLane, B, 1), 1, p)
  IN  If(it > 0 /\ it < 3 /\ it < n_it - 3,
         <<Offload(FP0_ASM_BODY(line(ExpA(a, cl, it - 1)), line(ExpKi(a, cl, it - 1)), line(ExpW(a, cl, it - 1))), {})>>)
      \o If(it > 2 /\ it < n_it - 3,
            <<Offload(FP0_FP1_ASM_BODY(u, Stream(loop(2, 2), 3, ExpA(a, cl, it - 1)), line(ExpW(a, cl, it - 3)),
                                       Stream(loop(3, 3), 3, ExpKi(a, cl, it - 1))), {})>>)
      \o If(it > 2 /\ it >= n_it - 3 /\ it < n_it - 1,
            <<Offload(FP1_ASM_BODY(line(ExpW(a, cl, it - 3)), line(ExpT(a, cl, it - 3)), line(ExpB(a, cl, it - 3))), {})>>)

vexpf_optimized(a, cl, c) ==
  LET n_it == a.n + 2 + 2
      step(it) ==
        If(IsDm(a, c), DmaPhases(a, it, it - 4, ExpA(a, cl, it), ExpB(a, cl, it - 4)))
        \o If(c = 0, ExpFp(a, cl, it, n_it)
                     \o If(it > 1 /\ it < n_it - 2,
                           <<Work(INT_ASM_BODY(Batch(a, ExpKi(a, cl, it - 2)), Batch(a, ExpT(a, cl, it - 2))), {})>>)
                     \o <<snrt_fpu_fence>>)
        \o <<Barrier>>
  IN  <<Barrier>> \o For(n_it, step)

(***************************************************************************)
(* vlogf_optimized.  The integer phase makes z and k, and either copies    *)
(* invc and logc out of the table T or leaves indices into it for an       *)
(* indirect stream (IMPL_ISSR).  It writes the lower words of z only: the  *)
(* upper ones, which make it a NaN-boxed float, have been written before   *)
(* the first iteration.                                                    *)
(***************************************************************************)
Upper(p) == <<"upper", p[2], p[3], p[4]>>

LogA(a, cl, i) == Buffer(a, cl, i % 2)
LogB(a, cl, i) == Buffer(a, cl, 2 + (i % 2))
LogZ(a, cl, i) == Buffer(a, cl, 4 + (i % 2))
LogK(a, cl, i) == Buffer(a, cl, 6 + (i % 2))
LogInvc(a, cl, i) == Buffer(a, cl, 8 + (i % 2))
LogLogc(a, cl, i) == Buffer(a, cl, 10 + (i % 2))
LogIdx(a, cl, i) == Buffer(a, cl, 8 + 2 * (i % 2))

NanBoxes(a, cl) ==
  <<Work({Put(Upper(Batch(a, LogZ(a, cl, b))[i]), "nan", <<>>) : b \in 0 .. 1, i \in 1 .. a.batch}, {})>>

\* In blocks of u: u z's and u k's, u invc's and u logc's.
FP_ASM_BODY(u, s0, s1, s2) ==
  {LET at == ((i - 1) \div u) * 2 * u + ((i - 1) % u) + 1
   IN  Put(s2[i], "log", <<s0[at], Upper(s0[at]), s1[at], s0[at + u], s1[at + u]>>) : i \in DOMAIN s2}

LogIntBody(a, cl, b) ==
  LET u == a.unroll
      in == Batch(a, LogA(a, cl, b))
      idx(i) == At(LogIdx(a, cl, b), 2 * (i - 1) - ((i - 1) % u))
  IN  {Put(Batch(a, LogK(a, cl, b))[i], "k", <<in[i]>>) : i \in DOMAIN in}
        \cup {Put(Batch(a, LogZ(a, cl, b))[i], "z", <<in[i]>>) : i \in DOMAIN in}
        \cup (IF a.issr
                THEN {Put(idx(i), "invc", <<in[i]>>) : i \in DOMAIN in}
                       \cup {Put(At(idx(i), u), "logc", <<in[i]>>) : i \in DOMAIN in}
                ELSE {Put(Batch(a, LogInvc(a, cl, b))[i], "invc", <<in[i]>>) : i \in DOMAIN in}
                       \cup {Put(Batch(a, LogLogc(a, cl, b))[i], "logc", <<in[i]>>) : i \in DOMAIN in})

LogFp(a, cl, b) ==
  LET B == a.batch
      u == a.unroll
      loop == snrt_ssr_loop_3d(ResetLane, <<u, 2, B \div u>>, <<1, 2 * B, u>>)
      issr == [i \in 1 .. 2 * B |-> At(LogIdx(a, cl, b), i - 1)]
  IN  <<Offload(FP_ASM_BODY(u, Stream(loop, 3, LogZ(a, cl, b)),
                            IF a.issr THEN issr ELSE Stream(loop, 3, LogInvc(a, cl, b)),
                            Stream(snrt_ssr_loop_1d(ResetLane, B, 1), 1, LogB(a, cl, b))), {})>>

vlogf_optimized(a, cl, c) ==
  LET n_it == 4 + a.n - 1
      step(it) ==
        If(IsDm(a, c), DmaPhases(a, it, it - 3, LogA(a, cl, it), LogB(a, cl, it - 3)))
        \o If(c = 0, If(it > 1 /\ it < n_it - 1, LogFp(a, cl, it - 2))
                     \o If(it > 0 /\ it < n_it - 2, <<Work(LogIntBody(a, cl, it - 1), {})>>)
                     \o <<snrt_fpu_fence>>)
        \o <<Barrier>>
  IN  If(c = 0, NanBoxes(a, cl)) \o <<Barrier>> \o For(n_it, step)

(***************************************************************************)
(* main (built with BIST): core 0 makes the inputs, which it waits for     *)
(* when it computes the golden outputs, and, when the kernel has returned, *)
(* compares every output.                                                  *)
(***************************************************************************)
ExpLogKernel(a, cl, c) ==
  CASE a.fn = "vexpf_naive"     -> vexpf_naive(a, cl, c)
    [] a.fn = "vexpf_baseline"  -> vexpf_baseline(a, cl, c)
    [] a.fn = "vexpf_optimized" -> vexpf_optimized(a, cl, c)
    [] a.fn = "vlogf_glibc"     -> vlogf_glibc(a, cl, c)
    [] a.fn = "vlogf_naive"     -> vlogf_naive(a, cl, c)
    [] a.fn = "vlogf_baseline"  -> vlogf_baseline(a, cl, c)
    [] a.fn = "vlogf_optimized" -> vlogf_optimized(a, cl, c)

ExpLogMain(a, cl, c) ==
  If(c = 0, Awaited({Put(X("A", i), "init", <<X("I", i)>>) : i \in 0 .. a.n * a.batch - 1}, {}))
  \o <<Barrier>> \o ExpLogKernel(a, cl, c)
  \o If(c = 0, Awaited({}, {X("B", i) : i \in 0 .. a.n * a.batch - 1}))

ExpLogResult(a) ==
  LET f(x) == CASE a.fn = "vexpf_optimized" -> Exp(x)
                [] a.fn = "vlogf_optimized" -> LogOf(x)
                [] a.fn \in {"vexpf_naive", "vexpf_baseline"} -> <<"exp", x>>
                [] OTHER -> <<"log", x>>
  IN  [l \in {X("B", i) : i \in 0 .. a.n * a.batch - 1} |-> f(<<"init", X("I", l[4])>>)]
=============================================================================
