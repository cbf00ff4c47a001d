-------------------------------- MODULE Jobs --------------------------------
(***************************************************************************)
(* The instances of the kernels that are run: small sizes, chosen so that  *)
(* every buffer is used more than once, tiles are spread unevenly where    *)
(* the kernel allows it, and every branch of its driver is taken.  Those   *)
(* that leave FP computations in flight at a barrier have names of their   *)
(* own.                                                                    *)
(***************************************************************************)
EXTENDS MonteCarlo

\* An instance: the name cfgs select it by, the kernel, the number of clusters
\* and the arguments of the kernel, which include the compute cores per cluster.
On(clusters, name, kernel, a) == [name |-> name, kernel |-> kernel, clusters |-> clusters, a |-> a]
One(name, a) == On(1, name, name, a)
\* The arguments of a layer include the number of clusters.
Layer(name, kernel, a) == On(a.clusters, name, kernel, a)

(***************************************************************************)
(* What core c of cluster cl executes, and what the result should be.      *)
(***************************************************************************)
Program(kernel, a, cl, c) ==
  CASE kernel = "axpy"         -> axpy_job(a, cl, c)
    [] kernel = "dot"          -> dot(a, cl, c)
    [] kernel = "gemv"         -> gemv_main(a, cl, c)
    [] kernel = "syrk"         -> syrk_job(a, cl, c)
    [] kernel = "gemm"         -> gemm(a, cl, c)
    [] kernel = "covariance"   -> covariance_job(a, cl, c)
    [] kernel = "correlation"  -> correlation_job(a, cl, c)
    [] kernel = "atax"         -> atax_job(a, cl, c)
    [] kernel = "doitgen"      -> doitgen_job(a, cl, c)
    [] kernel = "kmeans"       -> kmeans_job(a, cl, c)
    [] kernel = "layernorm"    -> layernorm_layer(a, cl, c)
    [] kernel = "softmax"      -> softmax_layer(a, cl, c)
    [] kernel = "gelu"         -> gelu_layer(a, cl, c)
    [] kernel = "transpose"    -> transpose_layer(a, cl, c)
    [] kernel = "concat"       -> concat_layer(a, "O", cl, c)
    [] kernel = "batchnorm"    -> batchnorm_layer(a, cl, c)
    [] kernel = "maxpool"      -> maxpool_layer(a, cl, c)
    [] kernel = "flash"        -> flashattention_2_layer(a, Operands, cl, c)
    [] kernel = "fused"        -> fused_concat_linear_layer(a, cl, c)
    [] kernel = "fused_base"   -> fused_concat_linear_baseline(a, cl, c)
    [] kernel = "mha"          -> mha_fp32(a, cl, c)
    [] kernel \in {"exp", "log"} -> ExpLogMain(a, cl, c)
    [] kernel = "pi"           -> pi_main(a, c)

Reference(kernel, a) ==
  CASE kernel = "axpy"         -> AxpyResult(a)
    [] kernel = "dot"          -> DotResult(a)
    [] kernel = "gemv"         -> GemvResult(a)
    [] kernel = "syrk"         -> SyrkResult(a)
    [] kernel = "gemm"         -> GemmResult(a)
    [] kernel = "covariance"   -> CovarianceResult(a)
    [] kernel = "correlation"  -> CorrelationResult(a)
    [] kernel = "atax"         -> AtaxResult(a)
    [] kernel = "doitgen"      -> DoitgenResult(a)
    [] kernel = "kmeans"       -> KmeansResult(a)
    [] kernel = "layernorm"    -> LayernormResult(a)
    [] kernel = "softmax"      -> SoftmaxResult(a)
    [] kernel = "gelu"         -> GeluResult(a)
    [] kernel = "transpose"    -> TransposeResult(a)
    [] kernel = "concat"       -> ConcatResult(a)
    [] kernel = "batchnorm"    -> BatchnormResult(a)
    [] kernel = "maxpool"      -> MaxpoolResult(a)
    [] kernel = "flash"        -> FlashResult(a)
    [] kernel \in {"fused", "fused_base"} -> FusedResult(a)
    [] kernel = "mha"          -> MhaResult(a)
    [] kernel \in {"exp", "log"} -> ExpLogResult(a)
    [] kernel = "pi"           -> PiResult(a)

\* Harts are numbered as snrt_global_core_idx() + 1 numbers them; the DM core
\* is the last of its cluster.
Job(i) == [name |-> i.name, per |-> i.a.cores + 1, expect |-> Reference(i.kernel, i.a)]
ProgramsOf(i) ==
  [h \in 1 .. i.clusters * (i.a.cores + 1) |->
     Program(i.kernel, i.a, (h - 1) \div (i.a.cores + 1), (h - 1) % (i.a.cores + 1))]

(***************************************************************************)
(* BLAS and Polybench.                                                     *)
(***************************************************************************)
Axpy(n, n_tiles, db, fn) == One("axpy", [n |-> n, n_tiles |-> n_tiles, cores |-> 2, db |-> db, fn |-> fn])

Syrk(name, m, n, m_tiles, fn, beta) ==
  On(1, name, "syrk", [m |-> m, n |-> n, m_tiles |-> m_tiles, cores |-> 2, fn |-> fn, beta |-> beta])

Matmul(name, a) == Layer(name, "gemm", a)

\* One tile computed by the single-core kernel fn, on rows of k elements; the
\* SIMD kernels want B transposed.
GemmKernel(fn, k, transb, beta) ==
  Matmul("gemm_kernels", [GemmArgs(<<3, 4, k>>, <<1, 1, 1>>, 1, 2, FALSE, beta) EXCEPT !.fn = fn, !.transb = transb])

Gemms ==
  << Matmul("gemm", GemmArgs(<<4, 2, 4>>, <<2, 2, 2>>, 1, 2, TRUE, 1)),
     Matmul("gemm", GemmArgs(<<3, 2, 2>>, <<1, 1, 2>>, 1, 2, FALSE, 0)),
     Matmul("gemm", [GemmArgs(<<4, 2, 2>>, <<2, 1, 1>>, 2, 1, TRUE, 1) EXCEPT !.pm = TRUE]),
     Matmul("gemm", [GemmArgs(<<2, 1, 2>>, <<1, 1, 2>>, 2, 1, FALSE, 1) EXCEPT !.pk = TRUE]),
     Matmul("gemm", [GemmArgs(<<4, 2, 2>>, <<2, 1, 1>>, 1, 2, TRUE, 1) EXCEPT !.part = TRUE]),
     Matmul("gemm", [GemmArgs(<<4, 2, 2>>, <<2, 1, 1>>, 1, 2, TRUE, 1) EXCEPT !.part = TRUE, !.banks = 12]),
     Matmul("gemm", [GemmArgs(<<4, 2, 2>>, <<2, 1, 1>>, 1, 2, TRUE, 0) EXCEPT !.part = TRUE, !.hyperbanks = 2]),
     Matmul("gemm", [GemmArgs(<<2, 2, 2>>, <<1, 2, 1>>, 1, 2, TRUE, 1) EXCEPT !.transb = TRUE]),
     Matmul("gemm_uneven", [GemmArgs(<<2, 1, 3>>, <<1, 1, 3>>, 2, 1, FALSE, 1) EXCEPT !.pk = TRUE]),
     GemmKernel("gemm_fp64_naive", 2, FALSE, 1), GemmKernel("gemm_fp64_opt", 3, FALSE, 0),
     GemmKernel("gemm_fp64_opt", 4, TRUE, 1), GemmKernel("gemm_fp32_naive", 2, FALSE, 0),
     GemmKernel("gemm_fp32_naive_unrolled", 4, TRUE, 1), GemmKernel("gemm_fp32_baseline", 4, TRUE, 1),
     GemmKernel("gemm_fp32_opt", 4, TRUE, 0), GemmKernel("gemm_fp16_naive", 2, FALSE, 1),
     GemmKernel("gemm_fp16_opt", 8, TRUE, 1), GemmKernel("gemm_fp16_opt_ex", 8, TRUE, 0),
     GemmKernel("gemm_fp8_naive", 2, TRUE, 1), GemmKernel("gemm_fp8_baseline", 8, TRUE, 1),
     GemmKernel("gemm_fp8_opt_ex", 16, TRUE, 1)
  >>

Covariance(name, m, n, m_tiles, db, fn) ==
  On(1, name, "covariance", [m |-> m, n |-> n, m_tiles |-> m_tiles, cores |-> 2, db |-> db, fn |-> fn])

Correlation(name, n, m, clusters, cores) ==
  On(clusters, name, "correlation", [n |-> n, m |-> m, clusters |-> clusters, cores |-> cores])

\* size = <<r, q, s>>, tiles = <<r_tiles, q_tiles>>
Doitgen(size, tiles, db, fn) ==
  One("doitgen", [r |-> size[1], q |-> size[2], s |-> size[3], r_tiles |-> tiles[1], q_tiles |-> tiles[2],
                  cores |-> 2, db |-> db, fn |-> fn])

Kmeans(name, samples, clusters, cores, n_iter) ==
  On(clusters, name, "kmeans", [samples |-> samples, clusters |-> clusters, cores |-> cores, n_iter |-> n_iter])

Polybenches ==
  << Axpy(6, 3, TRUE, "naive"), Axpy(6, 3, FALSE, "opt"), Axpy(3, 1, TRUE, "fma"),
     One("dot", [n |-> 8, cores |-> 2]),
     One("gemv", [m |-> 3, n |-> 2, cores |-> 2, trans |-> TRUE]),
     Syrk("syrk_naive", 4, 2, 2, "naive", 0), Syrk("syrk_naive", 4, 2, 2, "naive", 1), Syrk("syrk", 4, 1, 1, "opt", 0),
     Covariance("covariance_naive", 4, 2, 2, TRUE, "naive"), Covariance("covariance", 4, 1, 1, FALSE, "opt"),
     Correlation("correlation", 2, 4, 2, 2), Correlation("correlation", 3, 2, 1, 2), Correlation("correlation3", 3, 2, 2, 1),
     On(2, "atax", "atax", [m |-> 3, n |-> 4, clusters |-> 2, cores |-> 2]),
     Doitgen(<<4, 2, 2>>, <<2, 2>>, TRUE, "naive"), Doitgen(<<2, 1, 4>>, <<1, 1>>, FALSE, "opt"),
     Kmeans("kmeans", 4, 2, 2, 1), Kmeans("kmeans2", 2, 1, 2, 2)
  >>

(***************************************************************************)
(* DNN layers: a is the layer struct.                                      *)
(***************************************************************************)
Layernorm(name, fn, seq_len, embeddings, n_tiles, clusters) ==
  Layer(name, "layernorm", [batch |-> 2, seq_len |-> seq_len, embeddings |-> embeddings, n_tiles |-> n_tiles,
                            fn |-> fn, unroll |-> 2, clusters |-> clusters, cores |-> 2])
Softmax(name, batch, seq_len, clusters, cores) ==
  Layer(name, "softmax", [batch |-> batch, seq_len |-> seq_len, samples |-> 2, clusters |-> clusters, cores |-> cores])
Transpose(name, n, opt) == Layer(name, "transpose", [m |-> 4, n |-> n, opt |-> opt, clusters |-> 1, cores |-> 2])
Batchnorm(ci, clusters, cores) ==
  Layer("batchnorm", "batchnorm", [h |-> 3, w |-> 2, ci |-> ci, tile_ci |-> 2, clusters |-> clusters, cores |-> cores])
Maxpool(name, a) == Layer(name, "maxpool", a)
Flash(name, cores, L, S, d, Br, Bc, baseline, fn, bits) ==
  On(1, name, "flash", [L |-> L, S |-> S, d |-> d, Br |-> Br, Bc |-> Bc, baseline |-> baseline, fn |-> fn, bits |-> bits,
                unroll |-> 2, cores |-> cores, part |-> FALSE])
FusedArgs(num_inputs, clusters) ==
  [num_inputs |-> num_inputs, rows |-> 2, cols |-> 1, out |-> 1, in |-> "in", clusters |-> clusters, cores |-> 1,
   fn |-> "gemm_fp64_naive"]
Fused(num_inputs, clusters) == Layer("fused_concat_linear", "fused", FusedArgs(num_inputs, clusters))

Layers ==
  << Layernorm("layernorm", "naive", 4, 2, 2, 2), Layernorm("layernorm", "fp32_opt", 4, 4, 1, 1),
     Layernorm("layernorm", "fp16_opt", 4, 4, 2, 1), Layernorm("layernorm_fp8", "fp8_opt", 2, 2, 1, 1),
     Layernorm("layernorm_fp8_four", "fp8_opt", 2, 4, 1, 1),
     Softmax("softmax", 2, 4, 1, 2), Softmax("softmax_two", 1, 2, 2, 1),
     Layer("gelu", "gelu", [size |-> 4, clusters |-> 2, cores |-> 2]),
     Transpose("transpose_baseline", 2, FALSE), Transpose("transpose", 3, TRUE),
     Layer("concat", "concat", [num_inputs |-> 2, rows |-> 2, cols |-> 2, in |-> "in", clusters |-> 3, cores |-> 1]),
     Batchnorm(4, 2, 1), Batchnorm(4, 1, 2), Batchnorm(2, 1, 2),
     Maxpool("maxpool", [ci |-> 4, tile_ci |-> 2, oh |-> 2, ow |-> 1, fh |-> 2, fw |-> 1, iw |-> 1, clusters |-> 1, cores |-> 2]),
     Maxpool("maxpool", [ci |-> 2, tile_ci |-> 2, oh |-> 1, ow |-> 3, fh |-> 1, fw |-> 2, iw |-> 6, clusters |-> 1, cores |-> 2]),
     Maxpool("maxpool_two", [ci |-> 2, tile_ci |-> 2, oh |-> 1, ow |-> 2, fh |-> 1, fw |-> 2, iw |-> 4, clusters |-> 2, cores |-> 2]),
     Flash("flashattention", 2, 4, 2, 2, 2, 2, TRUE, "gemm_fp32_naive", 32),
     Flash("flashattention", 1, 2, 4, 1, 2, 2, TRUE, "gemm_fp16_naive", 16),
     Flash("flashattention", 2, 2, 4, 2, 2, 2, TRUE, "gemm_fp8_naive", 8),
     Flash("flashattention_blocks", 2, 6, 4, 2, 3, 2, TRUE, "gemm_fp32_naive", 32),
     Flash("flashattention_blocks", 2, 2, 2, 1, 1, 1, TRUE, "gemm_fp16_naive", 16),
     Flash("flashattention_opt", 2, 2, 4, 4, 2, 4, FALSE, "gemm_fp32_opt", 32),
     Fused(2, 2), Fused(1, 2),
     Layer("fused_concat_linear", "fused_base", FusedArgs(1, 1)), Layer("fused_baseline_two", "fused_base", FusedArgs(2, 2)),
     Layer("mha", "mha", [heads |-> 2, bits |-> 32, L |-> 2, S |-> 2, d |-> 2, Br |-> 2, Bc |-> 1, baseline |-> TRUE,
                          fn |-> "gemm_fp32_naive", unroll |-> 2, part |-> FALSE, clusters |-> 2, cores |-> 1])
  >>

(***************************************************************************)
(* exp, log and Monte Carlo.                                               *)
(***************************************************************************)
ExpOrLog(name, fn, n, batch, issr) ==
  One(name, [fn |-> fn, n |-> n, batch |-> batch, unroll |-> 2, issr |-> issr, cores |-> 1])
Pi(fn, prng, n, batch) ==
  One("pi", [fn |-> fn, prng |-> prng, n |-> n, batch |-> batch, unroll |-> 2, line |-> 4, cores |-> 2])

Scalars ==
  << Pi("naive", "lcg", 3, 1), Pi("baseline", "lcg", 4, 1), Pi("baseline", "xoshiro128p", 4, 1),
     Pi("optimized", "lcg", 6, 2), Pi("optimized", "xoshiro128p", 4, 2),
     ExpOrLog("exp", "vexpf_optimized", 5, 4, FALSE), ExpOrLog("exp", "vexpf_optimized", 2, 2, FALSE),
     ExpOrLog("exp", "vexpf_baseline", 3, 2, FALSE), ExpOrLog("exp", "vexpf_naive", 2, 2, FALSE),
     ExpOrLog("log", "vlogf_optimized", 4, 4, FALSE), ExpOrLog("log", "vlogf_optimized", 3, 4, TRUE),
     ExpOrLog("log", "vlogf_baseline", 3, 2, FALSE), ExpOrLog("log", "vlogf_naive", 2, 2, FALSE),
     ExpOrLog("log", "vlogf_glibc", 2, 2, FALSE)
  >>

Instances == Polybenches \o Gemms \o Layers \o Scalars
=============================================================================
