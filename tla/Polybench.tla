----------------------------- MODULE Polybench -----------------------------
(***************************************************************************)
(* The data-analysis and linear-algebra kernels of sw/kernels/misc:        *)
(* covariance, correlation, atax, doitgen and kmeans (see Blas.tla for the *)
(* conventions).                                                           *)
(***************************************************************************)
EXTENDS Gemm

\* Elements of column i of a matrix with n rows of m elements at p.
Column(p, n, m, i) == [k \in 1 .. n |-> At(p, (k - 1) * m + i)]
Row(p, n, i) == [k \in 1 .. n |-> At(p, i * n + k - 1)]

------------------------------------------------------------------------------
\* The rows covariance_opt takes: two of its share at a time.
covariance_opt_rows(m, c, cores) ==
  {i + u * cores : i \in {x \in 0 .. m - 1 : x % (2 * cores) = c}, u \in {0, 1}}

\* covariance_naive, _baseline and _opt on one tile: centre the rows of both
\* operands, meet the other cores, multiply.  covariance_opt ends with a fence,
\* the others with the syrk kernels, which have none.
covariance(a, m, n, data, datat, cov, c, uses) ==
  LET rows == IF a.fn = "opt" THEN covariance_opt_rows(m, c, a.cores) ELSE Strided(m, c, a.cores)
      centre(p) == {Put(At(p, i * n + j), "centre", <<At(p, i * n + j)>> \o Row(p, n, i))
                      : i \in rows, j \in 0 .. n - 1}
      fn == IF a.fn = "naive" THEN "naive" ELSE "baseline"
      multiply == syrk([cores |-> a.cores, fn |-> fn, beta |-> 0], m, n, data, datat, cov, c, uses)
  IN  Fenced(centre(data) \cup centre(datat), uses) \o <<Barrier>>
      \o multiply \o If(a.fn = "opt", <<snrt_fpu_fence>>)

covariance_job(a, cl, c) ==
  LET m_frac == a.m \div a.m_tiles
      a_tile == a.n * m_frac
      tiles == a.m_tiles * a.m_tiles
      buf(i) == IF a.db THEN i % 2 ELSE 0
      la(i) == <<"a", cl, buf(i), 0>>
      lat(i) == <<"at", cl, buf(i), 0>>
      lb(i) == <<"b", cl, buf(i), 0>>
      row(i) == i \div a.m_tiles
      col(i) == i % a.m_tiles
      load(i) == <<snrt_dma_load_1d_tile(la(i), X("DATA", 0), row(i), a_tile, 1),
                   snrt_dma_load_1d_tile(lat(i), X("DATA", 0), col(i), a_tile, 1), WaitAll>>
      store(i) == <<snrt_dma_store_2d_tile(X("COV", 0), lb(i), row(i), col(i), m_frac, m_frac, a.m, 1), WaitAll>>
      computing(i) == ~a.db \/ (i > 0 /\ i < tiles + 1)
      sync == If(~a.db, <<Barrier>>)
      iteration(i) ==
        (IF IsDm(a, c)
           THEN If(~a.db \/ i < tiles, load(i)) \o sync \o If(computing(i), <<Barrier>>) \o sync
                \o If(~a.db \/ i > 1, store(IF a.db THEN i - 2 ELSE i))
           ELSE LET t == IF a.db THEN i - 1 ELSE i
                IN  sync \o If(computing(i), covariance(a, m_frac, a.n, la(t), lat(t), lb(t), c, Args(cl))) \o sync)
        \o <<Barrier>>
  IN  LoadArgs(IsDm(a, c), cl) \o For(IF a.db THEN tiles + 2 ELSE tiles, iteration)

CovarianceResult(a) ==
  LET centred(i) == [k \in 1 .. a.n |-> <<"centre", X("DATA", i * a.n + k - 1)>> \o Row(X("DATA", 0), a.n, i)]
  IN  [l \in {X("COV", e) : e \in 0 .. a.m * a.m - 1} |->
         <<"syrk">> \o centred(l[4] \div a.m) \o centred(l[4] % a.m)]

------------------------------------------------------------------------------
\* Step 1 on the columns a core owns: their deviations, and centred in place.
correlation_step1(a, n, m, data, stddev, c, uses) ==
  LET range == m \div a.cores
      mine == c * range .. (c + 1) * range - 1
  IN  If(~IsDm(a, c),
         Fenced({Put(At(stddev, i), "stddev", Column(data, n, m, i)) : i \in mine}
                \cup {Put(At(data, k * m + i), "centre", <<At(data, k * m + i)>> \o Column(data, n, m, i))
                        : k \in 0 .. n - 1, i \in mine}, uses))

\* Step 2: the lower triangle, mirrored.
correlation_step2(a, n, m, data, stddev, corr, c) ==
  LET range == m \div a.cores
      of(i, j) == Column(data, n, m, i) \o Column(data, n, m, j) \o <<At(stddev, i), At(stddev, j)>>
      cells == {ij \in (c * range .. (c + 1) * range - 1) \X (0 .. m - 1) : ij[2] <= ij[1]}
  IN  If(~IsDm(a, c),
         Fenced(UNION {{Put(At(corr, ij[1] * m + ij[2]), "corr", of(ij[1], ij[2])),
                        Put(At(corr, ij[2] * m + ij[1]), "corr", of(ij[1], ij[2]))} : ij \in cells}, {}))

correlation_job(a, cl, c) ==
  LET data(x) == <<"data", x, 0, 0>>
      stddev(x) == <<"stddev", x, 0, 0>>
      corr == <<"corr_", cl, 0, 0>>
      tile_M == a.m \div a.clusters
      dm(ops) == If(IsDm(a, c), ops)
  IN  LoadArgs(IsDm(a, c), cl)
      \o dm(<<snrt_dma_load_2d_tile(data(cl), X("DATA", 0), 0, cl, a.n, tile_M, a.m, 1), WaitAll>>)
      \o <<Barrier>>
      \o correlation_step1(a, a.n, tile_M, data(cl), stddev(cl), c, Args(cl))
      \o <<GlobalBarrier(a.clusters)>>
      \o If(cl = 0,
            dm(For(a.clusters, LAMBDA i :
                 <<snrt_dma_store_2d_tile(data(0), data(i), 0, i, a.n, tile_M, a.m, 1),
                   snrt_dma_store_1d_tile(stddev(0), stddev(i), i, tile_M, 1)>>) \o <<WaitAll>>)
            \o <<Barrier>>
            \o correlation_step2(a, a.n, a.m, data(0), stddev(0), corr, c)
            \o <<Barrier>>
            \o dm(<<snrt_dma_start_1d(X("CORR", 0), corr, a.m * a.m), WaitAll>>)
            \o <<Barrier>>)

CorrelationResult(a) ==
  LET col(i) == Column(X("DATA", 0), a.n, a.m, i)
      centred(i) == [k \in 1 .. a.n |-> <<"centre", col(i)[k]>> \o col(i)]
      dev(i) == <<"stddev">> \o col(i)
  IN  [l \in {X("CORR", e) : e \in 0 .. a.m * a.m - 1} |->
         LET p == l[4] \div a.m
             q == l[4] % a.m
             i == IF p >= q THEN p ELSE q
             j == IF p >= q THEN q ELSE p
         IN  <<"corr">> \o centred(i) \o centred(j) \o <<dev(i), dev(j)>>]

------------------------------------------------------------------------------
\* y = At * (A * x): every cluster computes A * x, and its share of y.
atax(a, cl, c, A, x, y, tmp, uses) ==
  LET range == a.n \div (a.clusters * a.cores)
      offset == (cl * a.cores + c) * range
  IN  If(~IsDm(a, c), gemv(FALSE, a.m, a.n, A, x, tmp, c, a.cores))
      \o <<Barrier>>
      \o If(~IsDm(a, c),
            Fenced({Put(At(y, c * range + j), "atax",
                        Column(A, a.m, a.n, offset + j) \o [i \in 1 .. a.m |-> At(tmp, i - 1)])
                      : j \in 0 .. range - 1}, uses))

atax_job(a, cl, c) ==
  LET A == <<"a", cl, 0, 0>>
      x == <<"x", cl, 0, 0>>
      y == <<"y", cl, 0, 0>>
      tmp == <<"tmp", cl, 0, 0>>
  IN  LoadArgs(IsDm(a, c), cl)
      \o If(IsDm(a, c), <<snrt_dma_start_1d(A, X("A", 0), a.m * a.n), snrt_dma_start_1d(x, X("X", 0), a.n), WaitAll>>)
      \o <<Barrier>>
      \o atax(a, cl, c, A, x, y, tmp, Args(cl))
      \o <<Barrier>>
      \o If(IsDm(a, c), <<snrt_dma_store_1d_tile(X("Y", 0), y, cl, a.n \div a.clusters, 1), WaitAll>>)
      \o <<Barrier>>

AtaxResult(a) ==
  LET tmp(i) == <<"gemv">> \o Row(X("A", 0), a.n, i) \o [j \in 1 .. a.n |-> X("X", j - 1)]
  IN  [l \in {X("Y", j) : j \in 0 .. a.n - 1} |->
         <<"atax">> \o Column(X("A", 0), a.m, a.n, l[4]) \o [i \in 1 .. a.m |-> tmp(i - 1)]]

------------------------------------------------------------------------------
\* doitgen_naive, _baseline and _opt on one tile of r x q rows: rows of the
\* first dimension by turns, or in one block per core; the last two compute
\* four columns at a time.
doitgen(a, r, q, A, x, out, c, uses) ==
  LET unroll == IF a.fn = "naive" THEN 1 ELSE 4
      bound == r \div a.cores
      rows == IF a.fn = "opt" THEN bound * c .. bound * (c + 1) - 1 ELSE Strided(r, c, a.cores)
      cols == {k + u : k \in {v \in 0 .. a.s - 1 : v % unroll = 0}, u \in 0 .. unroll - 1}
  IN  Fenced({Put(At(out, (i * q + j) * a.s + k), "doitgen", Row(A, a.s, i * q + j) \o Row(x, a.s, k))
                : i \in rows, j \in 0 .. q - 1, k \in cols}, uses)

doitgen_job(a, cl, c) ==
  LET r_frac == a.r \div a.r_tiles
      q_frac == a.q \div a.q_tiles
      tiles == a.r_tiles * a.q_tiles
      buf(i) == IF a.db THEN i % 2 ELSE 0
      la(i) == <<"a", cl, buf(i), 0>>
      lout(i) == <<"aout", cl, buf(i), 0>>
      lx == <<"x", cl, 0, 0>>
      ir(i) == i \div a.q_tiles
      iq(i) == i % a.q_tiles
      load(i) == <<snrt_dma_load_2d_tile(la(i), X("A", 0), ir(i), iq(i), r_frac, q_frac * a.s, a.q * a.s, 1)>>
                 \o If(i = 0, <<snrt_dma_start_1d(lx, X("X", 0), a.s * a.s)>>) \o <<WaitAll>>
      store(i) == <<snrt_dma_store_2d_tile(X("A", 0), lout(i), ir(i), iq(i), r_frac, q_frac * a.s, a.q * a.s, 1), WaitAll>>
      sync == If(~a.db, <<Barrier>>)
      iteration(i) ==
        LET t == IF a.db THEN i - 1 ELSE i
        IN  (IF IsDm(a, c)
               THEN If(~a.db \/ i < tiles, load(i)) \o sync \o sync
                    \o If(~a.db \/ i > 1, store(IF a.db THEN i - 2 ELSE i))
               ELSE sync \o If(~a.db \/ (i > 0 /\ i < tiles + 1),
                               doitgen(a, r_frac, q_frac, la(t), lx, lout(t), c, Args(cl))) \o sync)
            \o <<Barrier>>
  IN  LoadArgs(IsDm(a, c), cl) \o For(IF a.db THEN tiles + 2 ELSE tiles, iteration)

DoitgenResult(a) ==
  [l \in {X("A", e) : e \in 0 .. a.r * a.q * a.s - 1} |->
     <<"doitgen">> \o Row(X("A", 0), a.s, l[4] \div a.s) \o Row(X("X", 0), a.s, l[4] % a.s)]

------------------------------------------------------------------------------
\* One iteration of Lloyd's algorithm; `cents' are the centroids it starts
\* from.  Centroids, counters and sums are one location each per core.  The
\* comparisons of the distances end the assignment step; the sums of the update
\* step are left in flight.
kmeans_iteration(a, cl, c, cents) ==
  LET per == a.samples \div (a.clusters * a.cores)
      mine == [s \in 1 .. per |-> c * per + s - 1]
      sample(s) == <<"samples", cl, 0, s>>
      member(s) == <<"membership", cl, 0, s>>
      cnt(x, y) == <<"cnt", x, y, 0>>
      sum(x, y) == <<"centroids", x, y, 0>>
      members == [i \in 1 .. per |-> member(mine[i])]
      add(x, y) == <<Work({Put(cnt(cl, c), "add", <<cnt(cl, c), cnt(x, y)>>)}, {}),
                     Offload({Put(sum(cl, c), "add", <<sum(cl, c), sum(x, y)>>)}, {})>>
      divisor == <<"divisor", 0, 0, 0>>            \* an integer register
      normalize == <<Work({Put(divisor, "copy", <<cnt(0, 0)>>)}, {}),
                     Offload({Put(sum(0, 0), "div", <<sum(0, 0), divisor>>)}, {})>>
  IN  If(~IsDm(a, c),
         <<Work({Put(cnt(cl, c), "zero", <<>>)}, {}), snrt_fpu_fence,
           Work({Put(member(mine[i]), "nearest", <<sample(mine[i]), cents>>) : i \in 1 .. per}
                \cup {Put(cnt(cl, c), "count", [i \in 1 .. per |-> sample(mine[i])] \o <<cents>>)}, {})>>
         \o Fenced({Put(sum(cl, c), "zero", <<>>)}, {})
         \o <<Offload({Put(sum(cl, c), "sum", [i \in 1 .. per |-> sample(mine[i])] \o members)}, {})>>)
      \o <<Barrier>>
      \o If(c = 0,
            For(a.cores - 1, LAMBDA i : add(cl, i + 1)) \o <<InterBarrier(a.clusters)>>
            \o If(cl = 0, For(a.clusters - 1, LAMBDA i : add(i + 1, 0)) \o normalize))

\* The transfer of the centroids is too long (its size is in bytes already):
\* it runs over the membership array behind them.
kmeans_job(a, cl, c) ==
  LET per == a.samples \div a.clusters
      final == <<"centroids", 0, 0, 0>>
  IN  If(IsDm(a, c),
         <<snrt_dma_start_1d(<<"samples", cl, 0, 0>>, X("SAMPLES", cl * per), per),
           Transfer({Put(<<"initial", cl, 0, 0>>, "copy", <<X("CENTROIDS", 0)>>)}
                    \cup {Put(<<"membership", cl, 0, s>>, "copy", <<X("CENTROIDS", 1)>>) : s \in 0 .. per - 1}),
           WaitAll>>)
      \o <<Barrier>>
      \o For(a.n_iter, LAMBDA i :
             kmeans_iteration(a, cl, c, IF i = 0 THEN <<"initial", cl, 0, 0>> ELSE final)
             \o <<GlobalBarrier(a.clusters)>>)
      \o If(IsDm(a, c) /\ cl = 0, <<snrt_dma_start_1d(X("CENTROIDS", 0), final, 1), WaitAll>>)

KmeansResult(a) ==
  LET per == a.samples \div (a.clusters * a.cores)
      of(g) == [i \in 1 .. per |-> X("SAMPLES", g * per + i - 1)]
      near(g, old) == [i \in 1 .. per |-> <<"nearest", of(g)[i], old>>]
      total(f(_)) ==
        LET tree(cl) == FoldLeft(LAMBDA s, y : <<"add", s, f(cl * a.cores + y)>>, f(cl * a.cores),
                                 [y \in 1 .. a.cores - 1 |-> y])
        IN  FoldLeft(LAMBDA s, x : <<"add", s, tree(x)>>, tree(0), [x \in 1 .. a.clusters - 1 |-> x])
      step(old) == <<"div", total(LAMBDA g : <<"sum">> \o of(g) \o near(g, old)),
                            total(LAMBDA g : <<"count">> \o of(g) \o <<old>>)>>
  IN  [l \in {X("CENTROIDS", 0)} |->
         FoldLeft(LAMBDA s, i : step(s), l, [i \in 1 .. a.n_iter |-> i])]
=============================================================================
