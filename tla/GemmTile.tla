------------------------------ MODULE GemmTile ------------------------------
(***************************************************************************)
(* The single-core matrix multiplications gemm_fp{64,32,16,8}_*: what one  *)
(* core stores in its rows of a tile of C.  g holds the arguments of       *)
(* sc_st_gemm; the unrolling factor (8 in the code) is a.unroll.           *)
(***************************************************************************)
EXTENDS Blas, Ssr

Old(beta, l) == If(beta # 0, <<l>>)

\* C[m][n] accumulates over k; element (m, k) of A and (k, n) of B, for the
\* four orders of storage.
AIdx(g, m, k) == IF g.transa THEN k * g.m * g.lda + m * g.lda ELSE m * g.lda + k
BIdx(g, k, n) == IF g.transb THEN n * g.ldb + k ELSE k * g.ldb + n

Naive(g, rows, cols) ==
  {Put(At(g.c, m * g.ldc + n), "mac",
       Old(g.beta, At(g.c, m * g.ldc + n)) \o [k \in 1 .. g.k |-> At(g.a, AIdx(g, m, k - 1))]
                                           \o [k \in 1 .. g.k |-> At(g.b, BIdx(g, k - 1, n))])
     : m \in rows, n \in cols}

All(g) == Naive(g, 0 .. g.m - 1, 0 .. g.n - 1)

\* Rows of A, B and C may be laid out in the banks of the cores only.
gemm_fp64_naive(a, g) ==
  LET split(i) == IF a.part THEN (i \div a.cores) * a.banks + (i % a.cores) ELSE i
      cell(m, n) == At(g.c, m * g.ldc + split(n))
  IN  IF g.transa \/ g.transb THEN All(g)
      ELSE {Put(cell(m, n), "mac",
                Old(g.beta, cell(m, n)) \o [k \in 1 .. g.k |-> At(g.a, m * g.lda + split(k - 1))]
                                        \o [k \in 1 .. g.k |-> At(g.b, (k - 1) * g.ldb + split(n))])
              : m \in 0 .. g.m - 1, n \in 0 .. g.n - 1}

\* The lanes of gemm_fp64_opt: A (each element `unroll' times), B and C.
gemm_fp64_lanes(a, g) ==
  LET u == a.unroll
      blocks == g.n \div u
      outer == IF a.part THEN a.banks ELSE u
      dm0 == IF g.transa THEN snrt_ssr_loop_3d(ResetLane, <<g.k, blocks, g.m>>, <<g.lda, 0, 8>>)
             ELSE IF a.part THEN snrt_ssr_loop_4d(ResetLane, <<a.cores, g.k \div a.cores, blocks, g.m>>,
                                                  <<1, a.banks, 0, g.lda>>)
             ELSE snrt_ssr_loop_3d(ResetLane, <<g.k, blocks, g.m>>, <<1, 0, g.lda>>)
  IN  <<snrt_ssr_repeat(dm0, u),
        snrt_ssr_loop_4d(ResetLane, <<u, g.k, blocks, g.m>>,
                         IF g.transb THEN <<g.ldb, 1, g.ldb * u, 0>> ELSE <<1, g.ldb, outer, 0>>),
        snrt_ssr_loop_3d(ResetLane, <<u, blocks, g.m>>, <<1, outer, g.ldc>>)>>

\* Results are computed in blocks of u; result i starts from C (its preload),
\* is given `macs' items of each of two streams and goes to location to[i + 1].
Cell(g, u, i) ==
  LET b == i \div u
      blocks == g.n \div u
  IN  At(g.c, (b \div blocks) * g.ldc + (b % blocks) * u + (i % u))

Results(g, u) == 0 .. g.m * (g.n \div u) * u - 1

Blocks(g, u, v, macs, sa, sb, to) ==
  {Put(to[i + 1], "mac", Old(g.beta, Cell(g, u, i)) \o Taken(sa, sb, u, macs, i \div u, i % u, v)) : i \in Results(g, u)}

\* One multiplication, K - 2 fused multiply-adds in the inner FREP loop, and
\* one that goes to the output stream; the columns that do not fill a block
\* are not computed.
gemm_fp64_opt(a, g) ==
  Blocks(g, a.unroll, 1, 1 + (g.k - 3 + 1) + 1, Stream(gemm_fp64_lanes(a, g)[1], 4, g.a),
         Stream(gemm_fp64_lanes(a, g)[2], 4, g.b), Stream(gemm_fp64_lanes(a, g)[3], 3, g.c))

gemm_fp32_naive(a, g) == All(g)

\* Four partial sums per element, over k = 0, 4, ...
gemm_fp32_naive_unrolled(a, g) ==
  All([g EXCEPT !.k = IF g.transa /\ g.transb THEN @ ELSE 4 * ((@ + 3) \div 4)])

\* Rows of A and of (transposed) B as words of v elements; the first word is
\* not accumulated, and the loop over the others is left at its end only.
Words(g, v, macs) == Naive([g EXCEPT !.k = v * macs, !.transa = FALSE, !.transb = TRUE], 0 .. g.m - 1, 0 .. g.n - 1)
AtLeast(n, x) == IF x < n THEN n ELSE x
gemm_fp32_baseline(a, g) == Words(g, 2, AtLeast(2, (g.k + 1) \div 2))
gemm_fp8_baseline(a, g) == Words(g, 8, AtLeast(1, (g.k + 7) \div 8))

\* The SIMD kernels that multiply by a transposed B: lanes for A (each word
\* `unroll' times) and B, a block of `unroll' results at a time.
SimdLaneA(g, v, u) ==
  snrt_ssr_repeat(snrt_ssr_loop_3d(ResetLane, <<g.k \div v, g.n \div u, g.m>>, <<v, 0, g.lda>>), u)
SimdLaneB(g, v, u) ==
  snrt_ssr_loop_4d(ResetLane, <<u, g.k \div v, g.n \div u, g.m>>, <<g.ldb, v, u * g.ldb, 0>>)

SimdBlocks(a, g, v, macs) ==
  Blocks(g, a.unroll, v, macs, Stream(SimdLaneA(g, v, a.unroll), 4, g.a), Stream(SimdLaneB(g, v, a.unroll), 4, g.b),
         [n \in {i + 1 : i \in Results(g, a.unroll)} |-> Cell(g, a.unroll, n - 1)])

\* The counter of columns advances by 2 * unroll per block, so columns are
\* left over for the scalar loop only when there is no block at all.
gemm_fp32_opt(a, g) ==
  SimdBlocks(a, g, 2, 1 + ((g.k \div 2) - 1 - 1 + 1))
    \cup Naive([g EXCEPT !.transa = FALSE, !.transb = TRUE], 0 .. g.m - 1,
               2 * a.unroll * (g.n \div a.unroll) .. g.n - 1)

gemm_fp16_naive(a, g) == All([g EXCEPT !.transa = FALSE])
gemm_fp16_opt(a, g) == SimdBlocks(a, g, 4, g.k \div 4)
gemm_fp16_opt_ex(a, g) == SimdBlocks(a, g, 4, g.k \div 4)
gemm_fp8_naive(a, g) == All([g EXCEPT !.transa = FALSE])
gemm_fp8_opt_ex(a, g) == SimdBlocks(a, g, 8, g.k \div 8)

\* The kernel that sc_st_gemm is given a pointer to.
SingleCoreGemm(a, g) ==
  CASE a.fn = "gemm_fp64_naive" -> gemm_fp64_naive(a, g)
    [] a.fn = "gemm_fp64_opt" -> gemm_fp64_opt(a, g)
    [] a.fn = "gemm_fp32_naive" -> gemm_fp32_naive(a, g)
    [] a.fn = "gemm_fp32_naive_unrolled" -> gemm_fp32_naive_unrolled(a, g)
    [] a.fn = "gemm_fp32_baseline" -> gemm_fp32_baseline(a, g)
    [] a.fn = "gemm_fp32_opt" -> gemm_fp32_opt(a, g)
    [] a.fn = "gemm_fp16_naive" -> gemm_fp16_naive(a, g)
    [] a.fn = "gemm_fp16_opt" -> gemm_fp16_opt(a, g)
    [] a.fn = "gemm_fp16_opt_ex" -> gemm_fp16_opt_ex(a, g)
    [] a.fn = "gemm_fp8_naive" -> gemm_fp8_naive(a, g)
    [] a.fn = "gemm_fp8_baseline" -> gemm_fp8_baseline(a, g)
    [] a.fn = "gemm_fp8_opt_ex" -> gemm_fp8_opt_ex(a, g)

\* One tile on the compute cores of one cluster: core c has rows c, c + cores,
\* ...
FracM(a, g, c) == (g.m \div a.cores) + (IF c < g.m % a.cores THEN 1 ELSE 0)
Share(a, g, c) ==
  [g EXCEPT !.m = FracM(a, g, c), !.a = At(g.a, c * g.lda), !.lda = a.cores * g.lda,
            !.c = At(g.c, c * g.ldc), !.ldc = a.cores * g.ldc]

sc_st_gemm(a, g, c) == If(FracM(a, g, c) > 0, Fenced(SingleCoreGemm(a, Share(a, g, c)), {}))
=============================================================================
