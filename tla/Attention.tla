------------------------------ MODULE Attention ------------------------------
(***************************************************************************)
(* Attention: FlashAttention-2 on one cluster, the fused concatenation and *)
(* linear layer, and multi-head attention, which runs the first on one     *)
(* cluster per head and the second on all of them.                         *)
(***************************************************************************)
EXTENDS Dnn

\* The buffers of FlashAttention-2 in the TCDM of cluster cl.
Fa(name, cl, i) == <<name, cl, 0, i>>

\* The operands of a layer on its own.
Operands == [x \in {"Q", "K", "V", "O"} |-> X(x, 0)]

\* Rows of a row block that a core initialises, exponentiates and rescales:
\* a contiguous share, and the remainder for the last core.
FlashRows(a, c) ==
  LET per_core == a.Br \div a.cores
  IN  per_core * c .. (IF c = a.cores - 1 THEN a.Br ELSE per_core * (c + 1)) - 1

FlashInit(a, cl, c) ==
  If(FlashRows(a, c) # {},
     <<Offload({Put(Fa(x, cl, r), "minus_inf", <<>>) : x \in {"m_i", "m_i_prev"}, r \in FlashRows(a, c)}
               \cup {Put(Fa("l_i", cl, r), "zero", <<>>) : r \in FlashRows(a, c)}, {})>>)

\* Local softmax of the rows of S: new maximum, P, and row sum and rescaling
\* factor, which stay in registers.  The last expf of a row waits for all that
\* comes before it.
FlashP(a, cl, r, exp) ==
  LET row == <<Fa("m_i", cl, r)>> \o [j \in 1 .. a.Bc |-> Fa("S_fa", cl, r * a.Bc + j - 1)]
  IN  {Put(Fa("m_i_prev", cl, r), "copy", <<Fa("m_i", cl, r)>>), Put(Fa("m_i", cl, r), "max", row),
       Put(Fa("row_sum", cl, r), "sum", row), Put(Fa("shifted_exp", cl, r), "shift", row)}
      \cup {Put(Fa("P_fa", cl, r * a.Bc + j), exp, <<Fa("S_fa", cl, r * a.Bc + j)>> \o row) : j \in 0 .. a.Bc - 1}

\* The rescaling of l and (after the first column block) of O.
FlashRescale(a, cl, r, t_c, div) ==
  {Put(Fa("l_i", cl, r), "l", If(t_c # 0, <<Fa("l_i", cl, r), Fa("shifted_exp", cl, r)>>) \o <<Fa("row_sum", cl, r)>>)}
  \cup {Put(Fa("O_fa", cl, r * a.d + j), div, <<Fa("O_fa", cl, r * a.d + j), Fa("shifted_exp", cl, r)>>)
          : j \in {x \in 0 .. a.d - 1 : t_c # 0}}

\* P and O are rounded to the precision of the kernel.  In the kernel for FP8
\* that is done, and O stored, by the integer core; in the others the rescaling
\* of the last row is left in flight.
FlashSoftmax(a, cl, c, t_c, exp, div) ==
  LET rows == FlashRows(a, c)
      last == CHOOSE r \in rows : \A x \in rows : x <= r
      of(some) == UNION {FlashRescale(a, cl, r, t_c, div) : r \in some}
  IN  If(rows # {},
         Awaited(UNION {FlashP(a, cl, r, exp) : r \in rows}, {})
         \o (IF a.bits = 8 THEN Awaited(of(rows), {})
             ELSE If(rows # {last}, Awaited(of(rows \ {last}), {})) \o <<Offload(of({last}), {})>>))

\* O = P * V, added to O after the first column block.  The optimised kernels
\* multiply by a transposed matrix, so V is transposed first.
FlashOutput(a, cl, c, t_c) ==
  LET g == [m |-> a.Br, n |-> a.d, k |-> a.Bc, a |-> Fa("P_fa", cl, 0), lda |-> a.Bc, c |-> Fa("O_fa", cl, 0),
            ldc |-> a.d, beta |-> IF t_c = 0 THEN 0 ELSE 1, transa |-> FALSE, transb |-> ~a.baseline,
            b |-> Fa(IF a.baseline THEN "V_fa" ELSE "V_t", cl, 0), ldb |-> IF a.baseline THEN a.d ELSE a.Bc]
  IN  If(~a.baseline, transpose_kernel(a, Fa("V_fa", cl, 0), Fa("V_t", cl, 0), a.Bc, a.d, FALSE, c))
      \o sc_st_gemm(a, g, c)

\* One column block of K and V.
FlashColumns(a, in, cl, c, t_c, exp, div) ==
  LET load(dst, src) == snrt_dma_load_2d_tile(Fa(dst, cl, 0), in[src], t_c, 0, a.Bc, a.d, a.d, 1)
      g == [m |-> a.Br, n |-> a.Bc, k |-> a.d, a |-> Fa("Q_fa", cl, 0), lda |-> a.d, b |-> Fa("K_fa", cl, 0),
            ldb |-> a.d, beta |-> 0, c |-> Fa("S_fa", cl, 0), ldc |-> a.Bc, transa |-> FALSE, transb |-> TRUE]
  IN  Dm(a, c, <<load("K_fa", "K"), load("V_fa", "V"), WaitAll>>) \o <<Barrier>>
      \o (IF IsDm(a, c) THEN <<Barrier, Barrier>>
          ELSE sc_st_gemm(a, g, c) \o <<Barrier>> \o FlashSoftmax(a, cl, c, t_c, exp, div) \o <<Barrier>>
               \o FlashOutput(a, cl, c, t_c))
      \o <<Barrier>>

\* The last rescaling of a row block, and the store.
FlashStore(a, in, cl, c, t_r, div) ==
  Compute(a, c, Fenced({Put(Fa("O_fa", cl, r * a.d + j), div, <<Fa("O_fa", cl, r * a.d + j), Fa("l_i", cl, r)>>)
                          : r \in FlashRows(a, c), j \in 0 .. a.d - 1}, {}))
  \o <<Barrier>>
  \o Dm(a, c, <<snrt_dma_store_2d_tile(in["O"], Fa("O_fa", cl, 0), t_r, 0, a.Br, a.d, a.d, 1), WaitAll>>)
  \o <<Barrier>>

\* One row block of Q, and all column blocks of K and V.
FlashRowBlock(a, in, cl, c, t_r, exp, div) ==
  Dm(a, c, <<snrt_dma_load_2d_tile(Fa("Q_fa", cl, 0), in["Q"], t_r, 0, a.Br, a.d, a.d, 1), WaitAll>>)
  \o <<Barrier>> \o Compute(a, c, FlashInit(a, cl, c)) \o <<Barrier>>
  \o For(a.S \div a.Bc, LAMBDA t_c : FlashColumns(a, in, cl, c, t_c, exp, div))
  \o FlashStore(a, in, cl, c, t_r, div)

\* The three precisions, which round in other places; in[x] is the address of
\* operand x of the layer.
FlashAttention(a, in, cl, c, exp, div) ==
  For(a.L \div a.Br, LAMBDA t_r : FlashRowBlock(a, in, cl, c, t_r, exp, div)) \o <<Barrier>>

flashattention_2_fp32(a, in, cl, c) == FlashAttention(a, in, cl, c, "exp32", "div32")
flashattention_2_fp16(a, in, cl, c) == FlashAttention(a, in, cl, c, "exp16", "div16")
flashattention_2_fp8(a, in, cl, c) == FlashAttention(a, in, cl, c, "exp8", "div8")

flashattention_2_layer(a, in, cl, c) ==
  CASE a.bits = 32 -> flashattention_2_fp32(a, in, cl, c)
    [] a.bits = 16 -> flashattention_2_fp16(a, in, cl, c)
    [] a.bits = 8  -> flashattention_2_fp8(a, in, cl, c)

\* Element (r, j) of the output: the recurrence over the column blocks, on
\* row r of Q, with operand x at in[x].
FlashElement(a, in, r, j, exp, div) ==
  LET s(k) == <<"mac">> \o [x \in 1 .. a.d |-> At(in["Q"], r * a.d + x - 1)]
                        \o [x \in 1 .. a.d |-> At(in["K"], k * a.d + x - 1)]
      step(st, t) ==
        LET row == <<st.m>> \o [k \in 1 .. a.Bc |-> s(t * a.Bc + k - 1)]
            shifted_exp == <<"shift">> \o row
        IN  [m |-> <<"max">> \o row,
             l |-> <<"l">> \o If(t # 0, <<st.l, shifted_exp>>) \o <<<<"sum">> \o row>>,
             o |-> <<"mac">> \o If(t # 0, <<<<div, st.o, shifted_exp>>>>)
                             \o [k \in 1 .. a.Bc |-> <<exp, s(t * a.Bc + k - 1)>> \o row]
                             \o [k \in 1 .. a.Bc |-> At(in["V"], (t * a.Bc + k - 1) * a.d + j)]]
      end == FoldLeft(step, [m |-> <<"minus_inf">>, l |-> <<>>, o |-> <<>>], [t \in 1 .. a.S \div a.Bc |-> t - 1])
  IN  <<div, end.o, end.l>>

FlashResult(a) ==
  [l \in {X("O", e) : e \in 0 .. a.L * a.d - 1} |->
     FlashElement(a, Operands, l[4] \div a.d, l[4] % a.d,
                  "exp" \o ToString(a.bits), "div" \o ToString(a.bits))]

------------------------------------------------------------------------------
\* Input i of the fused layer is <<a.in, i, 0, 0>>.
fused_concat_linear_baseline(a, cl, c) ==
  concat_layer(a, "concat", cl, c)
  \o gemm([GemmArgs(<<a.rows, a.out, a.cols * a.num_inputs>>, <<a.clusters, 1, 1>>, a.clusters, a.cores, FALSE, 0)
             EXCEPT !.pm = TRUE, !.load_a = FALSE, !.A = "concat", !.B = "W", !.fn = a.fn], cl, c)
  \o <<GlobalBarrier(a.clusters)>>

\* The inputs are not concatenated: each cluster multiplies its own by the
\* rows of the weights it meets, and the products are added.
FusedGemmArgs(a) ==
  [GemmArgs(<<a.rows, a.out, a.cols * a.num_inputs>>, <<1, 1, a.num_inputs>>, a.clusters, a.cores, FALSE, 0)
     EXCEPT !.pk = TRUE, !.load_a = FALSE, !.near_a = TRUE, !.A = "a", !.B = "W", !.fn = a.fn]

fused_concat_linear_optimized(a, cl, c) ==
  Dm(a, c, If(cl < a.num_inputs,
              <<snrt_dma_load_2d_tile(<<"a", cl, 0, 0>>, <<a.in, cl, 0, 0>>, 0, 0, a.rows, a.cols, a.cols, 1),
                WaitAll>>))
  \o <<Barrier>> \o gemm(FusedGemmArgs(a), cl, c) \o <<GlobalBarrier(a.clusters)>>

fused_concat_linear_layer(a, cl, c) == fused_concat_linear_optimized(a, cl, c)

\* Column k of the concatenation is column k % cols of input k / cols.
FusedResult(a) ==
  GemmReference(FusedGemmArgs(a), LAMBDA m, k : <<a.in, k \div a.cols, 0, m * a.cols + (k % a.cols)>>)

------------------------------------------------------------------------------
\* The operands of head h.
HeadOperands(h) == [x \in DOMAIN Operands |-> <<x, h, 0, 0>>]

MhaFused(a) == [num_inputs |-> a.heads, rows |-> a.L, cols |-> a.d, out |-> a.d, in |-> "O",
                clusters |-> a.clusters, cores |-> a.cores, fn |-> a.fn]

mha_fp32(a, cl, c) ==
  If(cl < a.heads, flashattention_2_fp32(a, HeadOperands(cl), cl, c))
  \o <<GlobalBarrier(a.clusters)>> \o fused_concat_linear_layer(MhaFused(a), cl, c)

MhaResult(a) ==
  GemmReference(FusedGemmArgs(MhaFused(a)),
                LAMBDA m, k : FlashElement(a, HeadOperands(k \div a.d), m, k % a.d, "exp32", "div32"))
=============================================================================
