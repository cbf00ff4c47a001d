-------------------------------- MODULE Gemm --------------------------------
(***************************************************************************)
(* The tiled, multi-cluster matrix multiplication of sw/kernels/blas/gemm: *)
(* C = beta * C + A * B, tiles spread over clusters along m or k, and the  *)
(* rows of a tile over the compute cores.  The local tiles are at the      *)
(* addresses allocate_buffers chooses in the TCDM of the cluster; sizes    *)
(* and addresses count elements (a bank holds one).                        *)
(***************************************************************************)
EXTENDS GemmTile

\* The arguments: size = <<m, n, k>> and tiles = <<m_tiles, n_tiles, k_tiles>>;
\* A, B and C name the matrices, pm and pk are parallelize_m and _k.
GemmArgs(size, tiles, clusters, cores, db, beta) ==
  [m |-> size[1], n |-> size[2], k |-> size[3], m_tiles |-> tiles[1], n_tiles |-> tiles[2],
   k_tiles |-> tiles[3], clusters |-> clusters, cores |-> cores, db |-> db, beta |-> beta,
   A |-> "A", B |-> "B", C |-> "C", near_a |-> FALSE, load_a |-> TRUE, load_b |-> TRUE, load_c |-> TRUE,
   pm |-> FALSE, pk |-> FALSE, transa |-> FALSE, transb |-> FALSE, fn |-> "gemm_fp64_naive", unroll |-> 2,
   part |-> FALSE, hyperbanks |-> 1, banks |-> 8, hsize |-> 64]

Tcdm(cl, addr) == <<"tcdm", cl, 0, addr>>

Lines(banks_per_buffer, size) == size \div banks_per_buffer

\* Base addresses of the two sets of tile buffers.
allocate_buffers(a, size_a, size_b, size_c) ==
  LET w == a.cores                       \* banks per buffer
      sets(a0, b0, c0, a1, b1, c1) == [a |-> <<a0, a1>>, b |-> <<b0, b1>>, c |-> <<c0, c1>>]
  IN  IF ~a.part
        THEN sets(0, size_a, size_a + size_b,
                  size_a + size_b + size_c, 2 * size_a + size_b + size_c, 2 * (size_a + size_b) + size_c)
      ELSE IF a.hyperbanks = 2
        THEN sets(0, w, 2 * w, a.hsize, w + a.hsize, 2 * w + a.hsize)
      ELSE IF a.banks >= 6 * w
        THEN sets(0, w, 2 * w, 3 * w, 4 * w, 5 * w)
      ELSE sets(0, w, 2 * w, a.banks * Lines(w, size_a), w + a.banks * Lines(w, size_b),
                2 * w + a.banks * Lines(w, size_c))

\* Distance between rows of row_size elements laid out in `w' banks.
calculate_partitioned_banks_stride(a, row_size) == (row_size \div a.cores) * a.banks

\* snrt_global_reduction_dma over the first n clusters (TreeReduction.tla):
\* the sum of the `src' of all of them ends in that of cluster 0.
snrt_global_reduction_dma(a, n, cl, c, dst, src, len) ==
  LET items == len \div a.cores
      levels == CHOOSE l \in 0 .. n : 2 ^ l >= n /\ (l = 0 \/ 2 ^ (l - 1) < n)
      level(l) ==
        LET active == cl % 2 ^ l = 0
            sender == cl % 2 ^ (l + 1) # 0
        IN  If(active /\ sender /\ IsDm(a, c), <<snrt_dma_start_1d(dst[cl - 2 ^ l], src, len), WaitAll>>)
            \o <<GlobalBarrier(n)>>
            \o If(active /\ ~sender /\ ~IsDm(a, c),
                  Fenced({Put(At(src, i), "add", <<At(src, i), At(dst[cl], i)>>)
                            : i \in c * items .. (c + 1) * items - 1}, {}))
            \o <<Barrier>>
  IN  If(n > 1, If(~IsDm(a, c), <<snrt_fpu_fence>>) \o <<Barrier>> \o For(levels, level))

\* The k tiles of a cluster, and how many clusters have any.
ClusterKTiles(a, cl) ==
  IF ~a.pk THEN a.k_tiles
  ELSE (a.k_tiles \div a.clusters) + (IF cl < a.k_tiles % a.clusters THEN 1 ELSE 0)
WorkingClusters(a) ==
  IF a.pk /\ a.k_tiles < a.clusters THEN a.k_tiles % a.clusters ELSE a.clusters

\* Load phase of iteration i: the tiles (m, n, k) goes by, k fastest.
gemm_dma_in(a, t, l, i) ==
  LET b == (IF a.db THEN i % 2 ELSE 0) + 1
      cb == (IF a.db THEN t.mn[i] % 2 ELSE 0) + 1
      banks(dst, src, size) == snrt_dma_1d_to_2d(dst, src, size, a.cores, a.banks)
  IN  If(a.load_a, <<IF a.part THEN banks(l.a[b], X(a.A, t.m[i] * (t.tm * t.tk)), t.tm * t.tk)
                     ELSE snrt_dma_load_2d_tile(l.a[b], X(a.A, 0), t.m[i], t.k[i], t.tm, t.tk, a.k, 1)>>)
      \o If(a.load_b, <<IF a.transb
                          THEN snrt_dma_load_2d_tile(l.b[b], X(a.B, 0), t.n[i], t.k[i], t.tn, t.tk, a.k, 1)
                        ELSE IF a.part THEN banks(l.b[b], X(a.B, t.k[i] * (t.tk * t.tn)), t.tk * t.tn)
                        ELSE snrt_dma_load_2d_tile(l.b[b], X(a.B, 0), t.k[i], t.n[i], t.tk, t.tn, a.n, 1)>>)
      \o If(a.load_c /\ t.k[i] = 0,
            <<IF a.part THEN banks(l.c[cb], X(a.C, t.m[i] * (t.tm * t.tn)), t.tm * t.tn)
              ELSE snrt_dma_load_2d_tile(l.c[cb], X(a.C, 0), t.m[i], t.n[i], t.tm, t.tn, a.n, 1)>>)
      \o If(a.load_c /\ t.k[i] # 0 /\ t.kLocal[i] = 0,
            <<IF a.part THEN banks(l.c[cb], X("zeromem", 0), t.tm * t.tn)
              ELSE snrt_dma_start_1d(l.c[cb], X("zeromem", 0), t.tm * t.tn)>>)
      \o <<WaitAll>>

\* Store phase of the tile of iteration i.
gemm_dma_out(a, t, l, i) ==
  LET b == (IF a.db THEN t.mn[i] % 2 ELSE 0) + 1
  IN  <<IF a.part THEN snrt_dma_2d_to_1d(X(a.C, t.m[i] * (t.tm * t.tn)), l.c[b], t.tm * t.tn, a.cores, a.banks)
        ELSE snrt_dma_store_2d_tile(X(a.C, 0), l.c[b], t.m[i], t.n[i], t.tm, t.tn, a.n, 1), WaitAll>>

\* Compute phase: leading dimensions are those of the local tiles, and C is
\* scaled by beta in the first k iteration only.
gemm_compute(a, t, l, c, i) ==
  LET b == (IF a.db THEN i % 2 ELSE 0) + 1
      cb == (IF a.db THEN t.mn[i] % 2 ELSE 0) + 1
      ld(row) == IF a.part THEN calculate_partitioned_banks_stride(a, row) ELSE row
  IN  sc_st_gemm(a, [m |-> t.tm, n |-> t.tn, k |-> t.tk, a |-> l.a[b], b |-> l.b[b], c |-> l.c[cb],
                     lda |-> IF a.transa THEN t.tm ELSE ld(t.tk),
                     ldb |-> IF a.transb THEN t.tk ELSE ld(t.tn), ldc |-> ld(t.tn),
                     beta |-> IF t.k[i] = 0 THEN a.beta ELSE 1,
                     transa |-> a.transa, transb |-> a.transb], c)

\* The tiles of cluster cl: their sizes, and the indices of that of iteration i.
GemmTiles(a, cl) ==
  LET kTiles == ClusterKTiles(a, cl)
      mTiles == IF a.pm THEN a.m_tiles \div a.clusters ELSE a.m_tiles
      num == mTiles * a.n_tiles * kTiles
      of(index) == [i \in 0 .. num - 1 |-> index[i \div kTiles, i % kTiles]]
      MN == 0 .. mTiles * a.n_tiles
      K == 0 .. kTiles
  IN  [num |-> num, kTiles |-> kTiles,
       tm |-> a.m \div a.m_tiles, tn |-> a.n \div a.n_tiles, tk |-> a.k \div a.k_tiles,
       mn     |-> of([mn \in MN, k \in K |-> mn]),
       n      |-> of([mn \in MN, k \in K |-> mn % a.n_tiles]),
       m      |-> of([mn \in MN, k \in K |-> (mn \div a.n_tiles) + (IF a.pm THEN cl * mTiles ELSE 0)]),
       kLocal |-> of([mn \in MN, k \in K |-> k]),
       k      |-> of([mn \in MN, k \in K |-> k + (IF a.pk THEN cl * kTiles ELSE 0)])]

\* The local tiles, two of each; an operand that is not loaded is used where
\* it is, and the pointer to its second tile is not initialised.
GemmBuffers(a, t, cl) ==
  LET at == allocate_buffers(a, t.tm * t.tk, t.tk * t.tn, t.tm * t.tn)
      local(load, base, addr) == IF load THEN <<Tcdm(cl, addr[1]), Tcdm(cl, addr[2])>> ELSE <<base, <<"uninitialised", cl, 0, 0>>>>
  IN  [a |-> local(a.load_a, IF a.near_a THEN <<a.A, cl, 0, 0>> ELSE X(a.A, 0), at.a),
       b |-> local(a.load_b, X(a.B, 0), at.b), c |-> local(a.load_c, X(a.C, 0), at.c),
       dst |-> [x \in 0 .. a.clusters - 1 |-> Tcdm(x, at.c[2])]]

\* Iteration i: the tile before the last is stored, tile i loaded, and the one
\* loaded before (with double buffering, in the last iteration) computed.
GemmIteration(a, t, l, cl, c, i) ==
  LET comp == i - (IF a.db THEN 1 ELSE 0)
      out == comp - 1
  IN  If(IsDm(a, c) /\ out >= 0 /\ (cl = 0 \/ ~a.pk), gemm_dma_out(a, t, l, out))
      \o If(IsDm(a, c) /\ i < t.num, gemm_dma_in(a, t, l, i))
      \o If(~a.db, <<Barrier>>)
      \o If(comp >= 0 /\ comp < t.num,
            If(~IsDm(a, c), gemm_compute(a, t, l, c, comp))
            \o If(a.pk /\ t.kLocal[comp] = t.kTiles - 1,
                  snrt_global_reduction_dma(a, WorkingClusters(a), cl, c, l.dst,
                                            l.c[(IF a.db THEN t.mn[comp] % 2 ELSE 0) + 1], t.tm * t.tn)))
      \o <<Barrier>>

GemmLoop(a, t, l, cl, c) ==
  LoadArgs(IsDm(a, c), cl) \o <<Barrier>>
  \o For(t.num + (IF a.db THEN 2 ELSE 1), LAMBDA i : GemmIteration(a, t, l, cl, c, i))

gemm(a, cl, c) == GemmLoop(a, GemmTiles(a, cl), GemmBuffers(a, GemmTiles(a, cl), cl), cl, c)

\* C = beta * C + A * B: every k tile once, in ascending order within a
\* cluster; with parallelize_k each cluster sums an interval of the k tiles
\* and the partial sums are added (two clusters).
GemmReference(a, AElem(_, _)) ==
  LET tk == a.k \div a.k_tiles
      aRow(m, t) == [k \in 1 .. tk |-> AElem(m, t * tk + k - 1)]
      bCol(n, t) == [k \in 1 .. tk |-> LET kk == t * tk + k - 1
                                       IN  X(a.B, IF a.transb THEN n * a.k + kk ELSE kk * a.n + n)]
      mac(s, m, n, t) == <<"mac">> \o s \o aRow(m, t) \o bCol(n, t)
      chain(init, m, n, ts) == FoldLeft(LAMBDA s, t : <<mac(s, m, n, t)>>, init, ts)[1]
      first(m, n) == If(a.beta # 0, <<X(a.C, m * a.n + n)>>)
      half == (a.k_tiles + 1) \div 2
      tiles(lo, hi) == [i \in 1 .. hi - lo |-> lo + i - 1]
  IN  [l \in {X(a.C, e) : e \in 0 .. a.m * a.n - 1} |->
        LET m == l[4] \div a.n
            n == l[4] % a.n
        IN  IF ~a.pk \/ a.k_tiles < 2 THEN chain(first(m, n), m, n, tiles(0, a.k_tiles))
            ELSE <<"add", chain(first(m, n), m, n, tiles(0, half)),
                          chain(<<X("zeromem", l[4])>>, m, n, tiles(half, a.k_tiles))>>]

GemmResult(a) == GemmReference(a, LAMBDA m, k : X(a.A, m * a.k + k))
=============================================================================
