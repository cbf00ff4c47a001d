-------------------------------- MODULE Blas --------------------------------
(***************************************************************************)
(* The BLAS kernels: what every hart does in axpy_job, dot, gemv's main,   *)
(* syrk_job and gemm.  `a' holds the arguments of the job and the numbers  *)
(* of clusters and of compute cores; `cl' and `c' are snrt_cluster_idx()   *)
(* and snrt_cluster_core_idx().  Elements have size 1.                     *)
(***************************************************************************)
EXTENDS Ops

IsDm(a, c) == c = a.cores
X(name, i) == <<name, 0, 0, i>>            \* element of an array in main memory
Args(cl) == {<<"args", cl, 0, 0>>}

\* The elements i of a range that a core handles when the cores take turns.
Strided(n, c, cores) == {i \in 0 .. n - 1 : i % cores = c}

------------------------------------------------------------------------------
\* axpy_naive and axpy_fma, and axpy_opt, whose streams have n / cores elements.
AxpyElems(fn, n, c, cores) ==
  IF fn = "opt" THEN {c + k * cores : k \in 0 .. (n \div cores) - 1} ELSE Strided(n, c, cores)

axpy_job(a, cl, c) ==
  LET frac == a.n \div a.n_tiles
      x(b) == <<"x", cl, b, 0>>
      y(b) == <<"y", cl, b, 0>>
      z(b) == <<"z", cl, b, 0>>
      buf(i) == IF a.db THEN i % 2 ELSE 0
      load(i) == <<snrt_dma_start_1d(x(buf(i)), X("X", i * frac), frac),
                   snrt_dma_start_1d(y(buf(i)), X("Y", i * frac), frac), WaitAll>>
      store(i) == <<snrt_dma_start_1d(X("Z", i * frac), z(buf(i)), frac), WaitAll>>
      compute(i) == Fenced({Put(At(z(buf(i)), e), "axpy", <<At(x(buf(i)), e), At(y(buf(i)), e)>>)
                              : e \in AxpyElems(a.fn, frac, c, a.cores)}, Args(cl))
      sync == If(~a.db, <<Barrier>>)
      iteration(i) ==
        (IF IsDm(a, c)
           THEN If(~a.db \/ i < a.n_tiles, load(i)) \o sync \o sync
                \o If(~a.db \/ i > 1, store(IF a.db THEN i - 2 ELSE i))
           ELSE sync \o If(~a.db \/ (i > 0 /\ i < a.n_tiles + 1), compute(IF a.db THEN i - 1 ELSE i))
                \o sync)
        \o <<Barrier>>
  IN  LoadArgs(IsDm(a, c), cl) \o For(IF a.db THEN a.n_tiles + 2 ELSE a.n_tiles, iteration)

AxpyResult(a) ==
  [l \in {X("Z", i) : i \in 0 .. a.n - 1} |-> <<"axpy", X("X", l[4]), X("Y", l[4])>>]

------------------------------------------------------------------------------
\* dot_seq_4_acc: (n >> 2) rounds of four fused multiply-adds.  The fence is
\* before the store of the result, which is left in flight.
DotElems(n) == 4 * (n \div 4)

dot(a, cl, c) ==
  LET x == <<"x", cl, 0, 0>>
      y == <<"y", cl, 0, 0>>
      sums == <<"partial_sums", cl, 0, 0>>
      frac_core == a.n \div a.cores
      of(p) == [i \in 1 .. DotElems(frac_core) |-> At(p, c * frac_core + i - 1)]
      res_ssr == <<"res_ssr", cl, c, 0>>
      dot_seq_4_acc == Fenced({Put(res_ssr, "dot", of(x) \o of(y))}, {})
                         \o <<Offload({Put(At(sums, c), "copy", <<res_ssr>>)}, {})>>
      add(i) == <<Offload({Put(sums, "add", <<sums, At(sums, i + 1)>>)}, {})>>
      dm(ops) == If(IsDm(a, c), ops)
  IN  dm(<<snrt_dma_start_1d(x, X("X", 0), a.n), snrt_dma_start_1d(y, X("Y", 0), a.n), WaitAll>>)
      \o <<Barrier>>
      \o If(~IsDm(a, c), dot_seq_4_acc)
      \o <<Barrier>>
      \o If(c = 0, For(a.cores - 1, add) \o <<snrt_fpu_fence>>)
      \o <<Barrier>>
      \o dm(<<Offload({Put(X("R", 0), "copy", <<sums>>)}, {})>>)
      \o <<Barrier>>

DotResult(a) ==
  LET frac == a.n \div a.cores
      part(c) == <<"dot">> \o [i \in 1 .. frac |-> X("X", c * frac + i - 1)]
                           \o [i \in 1 .. frac |-> X("Y", c * frac + i - 1)]
  IN  [l \in {X("R", 0)} |->
        FoldLeft(LAMBDA s, c : <<"add", s, part(c)>>, part(0), [i \in 1 .. a.cores - 1 |-> i])]

------------------------------------------------------------------------------
\* gemv: the rows of a core, the last one takes the remainder; row r of the
\* matrix at `m' is contiguous, or strided when the matrix is transposed.
GemvRows(m, c, cores) ==
  LET frac_m == m \div cores
  IN  c * frac_m .. (c + 1) * frac_m - 1 + (IF c = cores - 1 THEN m % cores ELSE 0)

gemv(trans, m, n, mat, x, y, c, cores) ==
  LET row(r) == [j \in 1 .. n |-> At(mat, IF trans THEN r + (j - 1) * m ELSE r * n + j - 1)]
  IN  If(GemvRows(m, c, cores) # {},
         Fenced({Put(At(y, r), "gemv", row(r) \o [j \in 1 .. n |-> At(x, j - 1)])
                   : r \in GemvRows(m, c, cores)}, {}))

\* main() of gemv: the DM core does not wait for its transfers.
gemv_main(a, cl, c) ==
  LET la == <<"a", cl, 0, 0>>
      lx == <<"x", cl, 0, 0>>
      ly == <<"y", cl, 0, 0>>
  IN  If(IsDm(a, c), <<snrt_dma_start_1d(la, X("A", 0), a.m * a.n), snrt_dma_start_1d(lx, X("X", 0), a.n)>>)
      \o <<Barrier>>
      \o If(~IsDm(a, c), gemv(a.trans, a.m, a.n, la, lx, ly, c, a.cores))
      \o <<Barrier>>
      \o If(IsDm(a, c), <<snrt_dma_start_1d(X("Y", 0), ly, a.m)>>)

GemvResult(a) ==
  [l \in {X("Y", r) : r \in 0 .. a.m - 1} |->
     <<"gemv">> \o [j \in 1 .. a.n |-> X("A", IF a.trans THEN l[4] + (j - 1) * a.m ELSE l[4] * a.n + j - 1)]
                \o [j \in 1 .. a.n |-> X("X", j - 1)]]

------------------------------------------------------------------------------
\* syrk_naive, syrk_baseline and syrk_opt on one tile: core c computes rows
\* c, c + cores, ...; the last two take the columns four at a time.  With
\* beta = 0 the first two do not look at C (multiply_opt).  Only the last one
\* ends with a fence.
syrk_tile(a, m, n, la, lat, lc, c) ==
  LET unroll == IF a.fn = "naive" THEN 1 ELSE 4
      cols == {j + u : j \in {x \in 0 .. m - 1 : x % unroll = 0}, u \in 0 .. unroll - 1}
      old(l) == If(a.beta # 0 \/ a.fn = "opt", <<l>>)
  IN  {Put(At(lc, i * m + j), "syrk",
           old(At(lc, i * m + j)) \o [k \in 1 .. n |-> At(la, i * n + k - 1)]
                                  \o [k \in 1 .. n |-> At(lat, j * n + k - 1)])
         : i \in Strided(m, c, a.cores), j \in cols}

syrk(a, m, n, la, lat, lc, c, uses) ==
  LET puts == syrk_tile(a, m, n, la, lat, lc, c)
  IN  IF a.fn = "opt" THEN Fenced(puts, uses) ELSE <<Offload(puts, uses)>>

syrk_job(a, cl, c) ==
  LET m_frac == a.m \div a.m_tiles
      a_tile == a.n * m_frac
      n_tiles == a.m_tiles * a.m_tiles
      la(i) == <<"a", cl, i % 2, 0>>
      lat(i) == <<"at", cl, i % 2, 0>>
      lc(i) == <<"c", cl, i % 2, 0>>
      row(i) == i \div a.m_tiles
      col(i) == i % a.m_tiles
      load(i) == <<snrt_dma_load_1d_tile(la(i), X("A", 0), row(i), a_tile, 1),
                   snrt_dma_load_1d_tile(lat(i), X("A", 0), col(i), a_tile, 1)>>
                 \o If(a.fn = "opt" \/ a.beta # 0,
                       <<snrt_dma_load_2d_tile(lc(i), X("C", 0), row(i), col(i), m_frac, m_frac, a.m, 1)>>)
                 \o <<WaitAll>>
      store(i) == <<snrt_dma_store_2d_tile(X("C", 0), lc(i), row(i), col(i), m_frac, m_frac, a.m, 1), WaitAll>>
      iteration(i) ==
        If(IsDm(a, c), If(i > 1, store(i - 2)) \o If(i < n_tiles, load(i)))
        \o If(~IsDm(a, c) /\ i > 0 /\ i < n_tiles + 1,
              syrk(a, m_frac, a.n, la(i - 1), lat(i - 1), lc(i - 1), c, Args(cl)))
        \o <<Barrier>>
  IN  LoadArgs(IsDm(a, c), cl) \o For(n_tiles + 2, iteration)

SyrkResult(a) ==
  [l \in {X("C", e) : e \in 0 .. a.m * a.m - 1} |->
     LET i == l[4] \div a.m
         j == l[4] % a.m
     IN  <<"syrk">> \o If(a.beta # 0 \/ a.fn = "opt", <<l>>)
                    \o [k \in 1 .. a.n |-> X("A", i * a.n + k - 1)]
                    \o [k \in 1 .. a.n |-> X("A", j * a.n + k - 1)]]
=============================================================================
