----------------------------- MODULE MonteCarlo -----------------------------
(***************************************************************************)
(* The Monte Carlo kernel of sw/kernels/misc/montecarlo and its generators *)
(* of pseudo-random numbers (misc/prng).  Every core draws points from its *)
(* own subsequences of one sequence and counts those inside the area; core *)
(* 0 adds the counts.                                                      *)
(* `a': a.n samples per core, in batches of a.batch, unrolled by a.unroll; *)
(* a.fn is the kernel, a.prng the generator.  Addresses count words of 32  *)
(* bits here, and a.line of them make the 64 bytes of snrt_dma_memset.     *)
(***************************************************************************)
EXTENDS ExpLog

\* Arithmetic of the LCG, of which the model keeps the lowest 8 bits: they
\* depend on nothing above them.
Word == 256
lcg_default == [state |-> 42, A |-> 1664525 % Word, C |-> 1013904223 % Word]

lcg_next(lcg) == [lcg EXCEPT !.state = (@ * lcg.A + lcg.C) % Word]
After(lcg, k) == FoldLeft(LAMBDA l, i : lcg_next(l), lcg, [i \in 1 .. k |-> i])

\* n leapfrog generators: generator i gives every n-th number.
lcg_init_n(lcg0, n) ==
  LET p == FoldLeft(LAMBDA q, i : [A |-> (q.A * lcg0.A) % Word, C |-> (q.C + q.A) % Word],
                    [A |-> 1, C |-> 0], [i \in 1 .. n |-> i])
  IN  [i \in 0 .. n - 1 |-> [state |-> After(lcg0, i + 1).state, A |-> p.A, C |-> (p.C * lcg0.C) % Word]]

SeqPerCore(a) == IF a.prng = "lcg" /\ a.fn # "naive" THEN 2 * a.unroll ELSE 1
NumSeq(a) == SeqPerCore(a) * a.cores
Prng(i) == <<"prngs", 0, 0, i>>

\* The generator (of its core) and the draw that the coordinates of sample s
\* come from.
Coordinates(a, s) ==
  LET b == s \div a.unroll
      j == s % a.unroll
  IN  CASE a.fn = "naive"                  -> [x |-> <<0, 2 * s>>, y |-> <<0, 2 * s + 1>>]
        [] a.fn # "naive" /\ a.prng = "lcg" -> [x |-> <<j, b>>, y |-> <<a.unroll + j, b>>]
        [] OTHER -> [x |-> <<0, 2 * a.unroll * b + j>>, y |-> <<0, 2 * a.unroll * b + a.unroll + j>>]

\* Core c puts a drawn number at `to'.
Draw(a, c, to, d) ==
  LET i == c * SeqPerCore(a) + d[1]
      number == IF a.prng = "lcg" THEN After(lcg_init_n(lcg_default, NumSeq(a))[i], d[2] + 1).state ELSE d[2]
  IN  Put(to, ToString(number), <<Prng(i)>>)

\* calculate_psum_naive and calculate_psum_baseline: everything in registers.
InRegisters(a, c) ==
  LET r(x, s) == <<x, 0, c, s>>
      samples == 0 .. a.n - 1
  IN  <<Work({Draw(a, c, r("rx", s), Coordinates(a, s).x) : s \in samples}
             \cup {Draw(a, c, r("ry", s), Coordinates(a, s).y) : s \in samples}, {}),
        Work({Put(r("rz", s), "hit", <<r("rx", s), r("ry", s)>>) : s \in samples}, {}),
        Work({Put(r("result", 0), "sum", [s \in 1 .. a.n |-> r("rz", s - 1)])}, {})>>

calculate_psum_naive(a, c) == If(c < a.cores, InRegisters(a, c))
calculate_psum_baseline(a, c) ==
  If(c < a.cores, InRegisters([a EXCEPT !.n = a.unroll * (a.n \div a.unroll)], c) \o <<snrt_fpu_fence>>)

\* The first line is written by the core, which the DMA then replicates.
snrt_dma_memset(a, p, len) ==
  LET use_dma == len % a.line = 0 /\ len > a.line
  IN  <<Work({Put(At(p, i), "zero", <<>>) : i \in 0 .. (IF use_dma THEN a.line ELSE len) - 1}, {})>>
      \o If(use_dma, <<snrt_dma_start_2d(p, p, a.line, a.line, 0, len \div a.line), WaitAll>>)

\* rng_x_all, rng_y_all and rng_z_all: element e of the section of core c.
Rng(a, name, b, c, e) == <<name, 0, b % 2, 2 * (c * a.batch + e)>>

\* The three threads of core c on batch b.  The integer thread stores the lower
\* words of 64-bit integers.
PiGenerate(a, c, b) ==
  Work(UNION {LET d == Coordinates(a, b * a.batch + e)
              IN  {Draw(a, c, Rng(a, "rng_x", b + 1, c, e), d.x), Draw(a, c, Rng(a, "rng_y", b + 1, c, e), d.y)}
                : e \in 0 .. a.batch - 1}, {})

PiCompare(a, c, b) ==
  LET x(e) == Rng(a, "rng_x", b + 1, c, e)
      y(e) == Rng(a, "rng_y", b + 1, c, e)
  IN  Offload({Put(Rng(a, "rng_z", b + 1, c, e), "hit", <<x(e), At(x(e), 1), y(e), At(y(e), 1)>>)
                 : e \in 0 .. a.batch - 1}, {})

PiAccumulate(a, c, b) ==
  LET result == <<"result", 0, c, 0>>
  IN  Work({Put(result, "sum", <<result>> \o [e \in 1 .. a.batch |-> Rng(a, "rng_z", b + 1, c, e - 1)])}, {})

calculate_psum_optimized(a, c) ==
  LET n_batches == a.n \div a.batch
      n_iterations == n_batches + 2
      clear(i) == snrt_dma_memset(a, Rng(a, <<"rng_x", "rng_y", "rng_z">>[(i % 3) + 1], i \div 3, 0, 0), 2 * a.batch * a.cores)
      iteration(it) ==
        If(it > 0 /\ it < n_iterations - 1, <<PiCompare(a, c, it - 1)>>)
        \o If(it < n_iterations - 2, <<PiGenerate(a, c, it)>>)
        \o If(it > 1, <<PiAccumulate(a, c, it - 2)>>)
        \o <<snrt_fpu_fence>>
  IN  If(IsDm(a, c), For(6, clear)) \o <<Barrier>>
      \o If(c < a.cores, <<Work({Put(<<"result", 0, c, 0>>, "zero", <<>>)}, {})>> \o For(n_iterations, iteration))

pi_main(a, c) ==
  LET reduction_array(i) == <<"reduction_array", 0, 0, i>>
  IN  If(c = 0, <<Work({Put(Prng(i), "init", <<>>) : i \in 0 .. NumSeq(a) - 1}, {})>>)
      \o <<Barrier>>
      \o (CASE a.fn = "naive"     -> calculate_psum_naive(a, c)
            [] a.fn = "baseline"  -> calculate_psum_baseline(a, c)
            [] a.fn = "optimized" -> calculate_psum_optimized(a, c))
      \o If(~IsDm(a, c), <<Work({Put(reduction_array(c), "copy", <<<<"result", 0, c, 0>>>>)}, {})>>)
      \o <<Barrier>>
      \o If(c = 0, <<Work({Put(X("R", 0), "sum", [i \in 1 .. a.cores |-> reduction_array(i - 1)])}, {})>>)

\* What is expected: all samples, each made of two numbers of one sequence that
\* no other sample uses.
PiResult(a) ==
  LET number(c, d) == LET i == c * SeqPerCore(a) + d[1]
                      IN  <<ToString(IF a.prng = "lcg" THEN After(lcg_default, i + 1 + NumSeq(a) * (d[2] + 1)).state
                                     ELSE d[2]), <<"init">>>>
      hit(c, s) == LET x == number(c, Coordinates(a, s).x)
                       y == number(c, Coordinates(a, s).y)
                   IN  IF a.fn = "optimized" THEN <<"hit", x, <<"zero">>, y, <<"zero">>>> ELSE <<"hit", x, y>>
      hits(c, from, n) == [s \in 1 .. n |-> hit(c, from + s - 1)]
      batches(c) == FoldLeft(LAMBDA t, b : <<"sum", t>> \o hits(c, (b - 1) * a.batch, a.batch), <<"zero">>,
                             [b \in 1 .. a.n \div a.batch |-> b])
  IN  [l \in {X("R", 0)} |->
         <<"sum">> \o [i \in 1 .. a.cores |->
                         IF a.fn = "optimized" THEN batches(i - 1) ELSE <<"sum">> \o hits(i - 1, 0, a.n)]]
=============================================================================
