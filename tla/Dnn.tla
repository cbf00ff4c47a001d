-------------------------------- MODULE Dnn --------------------------------
(***************************************************************************)
(* The layers of sw/kernels/dnn other than attention: layernorm, softmax,  *)
(* gelu, transpose, concat, batchnorm and maxpool.  Conventions are those  *)
(* of Blas.tla; `a' holds the layer struct.                                *)
(***************************************************************************)
EXTENDS Polybench

\* snrt_global_core_idx() counts the DM cores too.
GlobalIdx(a, cl, c) == cl * (a.cores + 1) + c

Dm(a, c, ops) == If(IsDm(a, c), ops)
Compute(a, c, ops) == If(~IsDm(a, c), ops)

------------------------------------------------------------------------------
\* layernorm.  A core takes every cores-th row of a tile; a location is a
\* 64-bit word.  An output word is made from the words the mean is of, the
\* words the variance is of and the input word.
Norm(to, mean, var, x) == Put(to, "norm", mean \o var \o <<x>>)

layernorm_naive(a, in, out, seq_len, c) ==
  LET E == a.embeddings
      at(b, s) == b * seq_len * E + (c + s * a.cores) * E
      row(b, s) == [i \in 1 .. E |-> At(in, at(b, s) + i - 1)]
  IN  {Norm(At(out, at(b, s) + i), row(b, s), row(b, s), At(in, at(b, s) + i))
         : b \in 0 .. a.batch - 1, s \in 0 .. (seq_len \div a.cores) - 1, i \in 0 .. E - 1}

\* The kernels with streams: lane 0 goes over each row twice, for the mean and
\* for the differences from it; lane 1 stores the differences, which lane 2
\* reads back, and then the normalised row.  The variance is of the words
\* `squared' of the row.
LayernormStreams(a, in, out, seq_len, c, squared) ==
  LET E == a.embeddings
      U == a.unroll
      rows == seq_len \div a.cores
      stride == a.cores * E
      twice == snrt_ssr_loop_4d(ResetLane, <<U, E \div U, 2, rows>>, <<1, U, 0, stride>>)
      once == snrt_ssr_loop_2d(ResetLane, <<U, E \div U>>, <<1, U>>)
      batch(b) ==
        LET base == c * E + b * seq_len * E
            dm0 == Stream(twice, 4, At(in, base))
            dm1 == Stream(twice, 4, At(out, base))
            row(s) ==
              LET mean == [i \in 1 .. E |-> dm0[2 * s * E + i]]
                  second == [i \in 1 .. E |-> dm0[(2 * s + 1) * E + i]]
                  dm2 == Stream(once, 2, At(out, base + s * stride))
                  difference(l) == second[CHOOSE i \in 1 .. E : dm1[2 * s * E + i] = l]
              IN  {Norm(dm1[(2 * s + 1) * E + i], mean, [k \in DOMAIN squared |-> second[squared[k]]],
                        difference(dm2[i])) : i \in 1 .. E}
        IN  UNION {row(s) : s \in 0 .. rows - 1}
  IN  UNION {batch(b) : b \in 0 .. a.batch - 1}

WholeRow(a) == [i \in 1 .. a.embeddings |-> i]
layernorm_fp32_opt(a, in, out, seq_len, c) == LayernormStreams(a, in, out, seq_len, c, WholeRow(a))
layernorm_fp16_opt(a, in, out, seq_len, c) == LayernormStreams(a, in, out, seq_len, c, WholeRow(a))

\* The FREP loop is 12 instructions long and does not reach the sums: only the
\* squares of its last round are added.
layernorm_fp8_opt(a, in, out, seq_len, c) ==
  LayernormStreams(a, in, out, seq_len, c, [i \in 1 .. a.unroll |-> a.embeddings - a.unroll + i])

LayernormTile(a, in, out, seq_len, c) ==
  CASE a.fn = "naive"    -> layernorm_naive(a, in, out, seq_len, c)
    [] a.fn = "fp32_opt" -> layernorm_fp32_opt(a, in, out, seq_len, c)
    [] a.fn = "fp16_opt" -> layernorm_fp16_opt(a, in, out, seq_len, c)
    [] a.fn = "fp8_opt"  -> layernorm_fp8_opt(a, in, out, seq_len, c)

\* The last fence of layernorm_fp8_opt is before the loop that normalises a
\* row, so that of the last row is left in flight.
LayernormCompute(a, in, out, seq_len, c) ==
  LET last == a.embeddings * ((a.batch - 1) * seq_len + (seq_len \div a.cores - 1) * a.cores + c)
      isLast(p) == a.fn = "fp8_opt" /\ p.to[4] >= out[4] + last
      part(k) == {p \in LayernormTile(a, in, out, seq_len, c) : isLast(p) <=> k = 1}
  IN  For(IF a.fn = "fp8_opt" THEN 2 ELSE 1,
          LAMBDA k : <<Offload(part(k), {})>> \o If(k = 0, <<snrt_fpu_fence>>))

\* Tile i of all: rows i * seq_len ... of every batch.
LayernormIteration(a, cl, c, i, seq_len) ==
  LET at == i * seq_len * a.embeddings
      tile == seq_len * a.embeddings
      full == a.seq_len * a.embeddings
      in == <<"itile", cl, 0, 0>>
      out == <<"otile", cl, 0, 0>>
  IN  Dm(a, c, <<snrt_dma_start_2d(in, X("I", at), tile, tile, full, a.batch), WaitAll>>)
      \o <<Barrier>> \o Compute(a, c, LayernormCompute(a, in, out, seq_len, c)) \o <<Barrier>>
      \o Dm(a, c, <<snrt_dma_start_2d(X("O", at), out, tile, full, tile, a.batch), WaitAll>>)

layernorm_layer(a, cl, c) ==
  LET per_cluster == a.n_tiles \div a.clusters
  IN  For(per_cluster, LAMBDA i : LayernormIteration(a, cl, c, cl * per_cluster + i, a.seq_len \div a.n_tiles))
      \o <<GlobalBarrier(a.clusters)>>

LayernormResult(a) ==
  LET E == a.embeddings
      row(r) == [i \in 1 .. E |-> X("I", r * E + i - 1)]
  IN  [l \in {X("O", e) : e \in 0 .. a.batch * a.seq_len * E - 1} |->
        <<"norm">> \o row(l[4] \div E) \o row(l[4] \div E) \o <<X("I", l[4])>>]

------------------------------------------------------------------------------
\* softmax of rows of n samples that are ld apart.  The maximum of a row is
\* found by comparisons, which wait for the divisions of the row before.
softmax_fp32(in, out, ld, batch_offset, batch, rows, n) ==
  LET at(k) == (k \div rows) * batch_offset + (k % rows) * ld
      row(k) == {Put(At(out, at(k) + i), "softmax",
                     <<At(in, at(k) + i)>> \o [j \in 1 .. n |-> At(in, at(k) + j - 1)]) : i \in 0 .. n - 1}
  IN  If(batch * rows > 0, LastInFlight(batch * rows, row)) \o <<Barrier>>

softmax_layer(a, cl, c) ==
  LET in == <<"ifmap", cl, 0, 0>>
      out == <<"ofmap", cl, 0, 0>>
      copy(dst, src) == <<snrt_dma_start_2d(dst, src, a.batch, a.batch, a.batch, a.seq_len * a.samples), WaitAll>>
      row_offset == GlobalIdx(a, cl, c) * a.samples
  IN  Dm(a, c, copy(in, X("I", 0))) \o <<Barrier>>
      \o (IF IsDm(a, c) THEN <<Barrier>>
          ELSE softmax_fp32(At(in, row_offset), At(out, row_offset), a.cores * a.samples,
                            a.seq_len * a.samples, a.batch, a.seq_len \div a.cores, a.samples))
      \o Dm(a, c, copy(X("O", 0), out)) \o <<GlobalBarrier(a.clusters)>>

SoftmaxResult(a) ==
  LET n == a.samples
  IN  [l \in {X("O", e) : e \in 0 .. a.batch * a.seq_len * n - 1} |->
        <<"softmax", X("I", l[4])>> \o [j \in 1 .. n |-> X("I", (l[4] \div n) * n + j - 1)]]

------------------------------------------------------------------------------
\* gelu: every core of a cluster computes all of its elements.  tanh takes its
\* argument apart in the integer core, which waits for the element before.
gelu_fp64(in, out, size) == If(size > 0, LastInFlight(size, LAMBDA i : {Put(At(out, i), "gelu", <<At(in, i)>>)}))

gelu_layer(a, cl, c) ==
  LET size == a.size \div a.clusters
      in == <<"ifmap", cl, 0, 0>>
      out == <<"ofmap", cl, 0, 0>>
  IN  Dm(a, c, <<snrt_dma_start_1d(in, X("I", cl * size), size), WaitAll>>) \o <<Barrier>>
      \o Compute(a, c, gelu_fp64(in, out, size)) \o <<Barrier>>
      \o Dm(a, c, <<snrt_dma_start_1d(X("O", cl * size), out, size), WaitAll>>) \o <<Barrier>>

GeluResult(a) == [l \in {X("O", e) : e \in 0 .. a.size - 1} |-> <<"gelu", X("I", l[4])>>]

------------------------------------------------------------------------------
\* transpose: a core has M / cores rows of the input, which are columns
\* M_stride apart in the output.  The baseline copies through FP registers and
\* has no fence (but that of FP8 copies characters).
transpose_baseline(in, out, M, N, M_stride) ==
  {Put(At(out, n * M_stride + m), "copy", <<At(in, m * N + n)>>) : m \in 0 .. M - 1, n \in 0 .. N - 1}

transpose_fp64_opt(in, out, M, N, M_stride) ==
  LET read == Stream(snrt_ssr_loop_2d(ResetLane, <<N, M>>, <<1, N>>), 2, in)
      write == Stream(snrt_ssr_loop_2d(ResetLane, <<N, M>>, <<M_stride, 1>>), 2, out)
  IN  {Put(write[i], "copy", <<read[i]>>) : i \in 1 .. M * N}

transpose_kernel(a, in, out, M, N, opt, c) ==
  LET frac_M == M \div a.cores
      i == At(in, c * frac_M * N)
      o == At(out, c * frac_M)
  IN  Compute(a, c, IF opt THEN Fenced(transpose_fp64_opt(i, o, frac_M, N, M), {})
                    ELSE <<Offload(transpose_baseline(i, o, frac_M, N, M), {})>>)

transpose_layer(a, cl, c) ==
  LET in == <<"input", cl, 0, 0>>
      out == <<"output", cl, 0, 0>>
  IN  Dm(a, c, <<snrt_dma_start_1d(in, X("I", 0), a.m * a.n), WaitAll>>) \o <<Barrier>>
      \o transpose_kernel(a, in, out, a.m, a.n, a.opt, c) \o <<Barrier>>
      \o Dm(a, c, <<snrt_dma_start_1d(X("O", 0), out, a.m * a.n), WaitAll>>) \o <<GlobalBarrier(a.clusters)>>

TransposeResult(a) ==
  [l \in {X("O", e) : e \in 0 .. a.m * a.n - 1} |-> X("I", (l[4] % a.m) * a.n + (l[4] \div a.m))]

------------------------------------------------------------------------------
\* Mutant: a cluster without an input returns at once.
concat_layerReturnsEarly(a, out, cl, c) ==
  If(a.num_inputs <= a.clusters /\ cl < a.num_inputs,
     Dm(a, c, <<snrt_dma_start_2d(X(out, cl * a.cols), <<a.in, cl, 0, 0>>, a.cols, a.cols * a.num_inputs,
                                  a.cols, a.rows), WaitAll>>)
     \o <<GlobalBarrier(a.clusters)>>)

\* concat: cluster i copies input i, <<a.in, i, 0, 0>>, into its columns of `out'.
concat_layer(a, out, cl, c) ==
  If(a.num_inputs <= a.clusters,
     Dm(a, c, If(cl < a.num_inputs,
                 <<snrt_dma_start_2d(X(out, cl * a.cols), <<a.in, cl, 0, 0>>, a.cols, a.cols * a.num_inputs,
                                     a.cols, a.rows), WaitAll>>))
     \o <<GlobalBarrier(a.clusters)>>)

ConcatResult(a) ==
  LET width == a.cols * a.num_inputs
  IN  [l \in {X("O", e) : e \in 0 .. a.rows * width - 1} |->
        LET r == l[4] \div width
            k == l[4] % width
        IN  <<a.in, k \div a.cols, 0, r * a.cols + (k % a.cols)>>]

------------------------------------------------------------------------------
\* The double-buffered pipeline of batchnorm and maxpool.  The tiles of a
\* cluster go through buffers 0, 1, 0, ...; the DM core loads a tile, meets
\* the others at the barrier and stores the tile before it while they compute.
\* load[i], store[i] and compute[i] are the operations for tile i.
Pipeline(a, c, first, load, store, compute) ==
  LET n == Len(load)
      step(i) == IF IsDm(a, c)
                   THEN If(i = 0, first) \o load[i + 1] \o <<WaitAll, Barrier>>
                        \o If(i # 0, store[i]) \o <<WaitAll>>
                   ELSE <<Barrier>> \o compute[i + 1]
  IN  For(n, step) \o <<Barrier>> \o Dm(a, c, store[n] \o <<WaitAll>>)

\* One row of a tile of CI channels, channel by channel; a core has every
\* compute_num-th channel.
batchnorm_fp64(ifmap, gamma, beta, ofmap, OW, CI, compute_num) ==
  LET lane == snrt_ssr_loop_2d(ResetLane, <<OW, CI \div compute_num>>, <<CI, compute_num>>)
      read == Stream(lane, 2, ifmap)
      write == Stream(lane, 2, ofmap)
  IN  Fenced({Put(write[q * OW + w], "bn",
                  <<read[q * OW + w], At(gamma, q * compute_num), At(beta, q * compute_num)>>)
                : q \in 0 .. (CI \div compute_num) - 1, w \in 1 .. OW}, {})

batchnorm_layer(a, cl, c) ==
  LET gamma == <<"gamma", cl, 0, 0>>
      beta == <<"beta", cl, 0, 0>>
      in(b) == <<"ifmap", cl, b, 0>>
      out(b) == <<"ofmap", cl, b, 0>>
      rows == (a.h - cl + a.clusters - 1) \div a.clusters
      per_row == a.ci \div a.tile_ci
      tiles == [i \in 1 .. rows * per_row |-> <<cl + ((i - 1) \div per_row) * a.clusters,
                                                ((i - 1) % per_row) * a.tile_ci>>]
      at(t) == t[1] * a.w * a.ci + t[2]
      load(t, b) ==
        <<IF a.tile_ci = a.ci THEN snrt_dma_start_1d(in(b), X("I", at(t)), a.w * a.tile_ci)
          ELSE snrt_dma_start_2d(in(b), X("I", at(t)), a.tile_ci, a.tile_ci, a.ci, a.w)>>
      store(t, b) ==
        <<IF a.tile_ci = a.ci THEN snrt_dma_start_1d(X("O", at(t)), out(b), a.w * a.ci)
          ELSE snrt_dma_start_2d(X("O", at(t)), out(b), a.tile_ci, a.ci, a.tile_ci, a.w)>>
      compute(t, b) ==
        batchnorm_fp64(At(in(b), c), At(gamma, t[2] + c), At(beta, t[2] + c), At(out(b), c), a.w, a.tile_ci, a.cores)
  IN  Pipeline(a, c,
        <<snrt_dma_start_1d(gamma, X("G", 0), a.ci), snrt_dma_start_1d(beta, X("B", 0), a.ci), WaitAll>>,
        [i \in DOMAIN tiles |-> load(tiles[i], (i - 1) % 2)],
        [i \in DOMAIN tiles |-> store(tiles[i], (i - 1) % 2)],
        [i \in DOMAIN tiles |-> compute(tiles[i], (i - 1) % 2)])

BatchnormResult(a) ==
  [l \in {X("O", e) : e \in 0 .. a.h * a.w * a.ci - 1} |->
     <<"bn", X("I", l[4]), X("G", l[4] % a.ci), X("B", l[4] % a.ci)>>]

------------------------------------------------------------------------------
\* One window: FH * FW pixels of every compute_num-th of CI channels.  The
\* comparisons of a channel wait for the store of the channel before.
maxpool_fp64(ifmap, ofmap, CI, FH, FW, compute_num) ==
  LET max(k) == {Put(At(ofmap, k * compute_num), "max",
                     [p \in 1 .. FH * FW |-> At(ifmap, (p - 1) * CI + k * compute_num)])}
  IN  If(CI > 0, LastInFlight((CI + compute_num - 1) \div compute_num, max))

\* The offset of a core into the channels is its global index.
maxpool_layer(a, cl, c) ==
  LET in(b) == <<"ifmap", cl, b, 0>>
      out(b) == <<"ofmap", cl, b, 0>>
      compute_id == GlobalIdx(a, cl, c)
      windows == (a.oh * a.ow - cl + a.clusters - 1) \div a.clusters
      per == a.ci \div a.tile_ci
      tiles == [i \in 1 .. windows * per |-> <<cl + ((i - 1) \div per) * a.clusters, ((i - 1) % per) * a.tile_ci>>]
      src(t, fh) == X("I", (((t[1] \div a.ow) * a.fh + fh) * a.iw + (t[1] % a.ow) * a.fw) * a.ci + t[2])
      dst(b, fh) == At(in(b), fh * a.fw * a.tile_ci)
      load(t, b) == For(a.fh, LAMBDA fh :
        <<IF a.tile_ci = a.ci THEN snrt_dma_start_1d(dst(b, fh), src(t, fh), a.tile_ci * a.fw)
          ELSE snrt_dma_start_2d(dst(b, fh), src(t, fh), a.tile_ci, a.tile_ci, a.ci, a.fw)>>)
      store(t, b) == <<snrt_dma_start_2d(X("O", t[1] * a.ci + t[2]), out(b), a.tile_ci, a.ci, a.tile_ci, 1)>>
      compute(t, b) == maxpool_fp64(At(in(b), compute_id), At(out(b), compute_id), a.tile_ci, a.fh, a.fw, a.cores)
  IN  Pipeline(a, c, <<>>,
        [i \in DOMAIN tiles |-> load(tiles[i], (i - 1) % 2)],
        [i \in DOMAIN tiles |-> store(tiles[i], (i - 1) % 2)],
        [i \in DOMAIN tiles |-> compute(tiles[i], (i - 1) % 2)])

MaxpoolResult(a) ==
  [l \in {X("O", e) : e \in 0 .. a.oh * a.ow * a.ci - 1} |->
     LET o == l[4] \div a.ci
         pixel(p) == ((o \div a.ow) * a.fh + ((p - 1) \div a.fw)) * a.iw + (o % a.ow) * a.fw + ((p - 1) % a.fw)
     IN  <<"max">> \o [p \in 1 .. a.fh * a.fw |-> X("I", pixel(p) * a.ci + (l[4] % a.ci))]]
=============================================================================
