-------------------------------- MODULE Ssr --------------------------------
(***************************************************************************)
(* Stream semantic registers: the configuration functions of ssr.h, the    *)
(* address generator they program, and the repetition of stream items.     *)
(* A lane is what its registers hold; they keep what the last writer left. *)
(***************************************************************************)
EXTENDS Ops

ResetLane == [bound |-> <<0, 0, 0, 0>>, stride |-> <<0, 0, 0, 0>>, rep |-> 0]

\* Loop i wraps before loop i + 1 steps, so its stride register holds the
\* distance from the last address of the loops inside it.
LoopRegisters(lane, b, s) ==
  LET inner(i) == FoldLeft(LAMBDA x, j : x + s[j] * (b[j] - 1), 0, [j \in 1 .. i - 1 |-> j])
  IN  [lane EXCEPT !.bound = [i \in 1 .. 4 |-> IF i <= Len(b) THEN b[i] - 1 ELSE @[i]],
                   !.stride = [i \in 1 .. 4 |-> IF i <= Len(b) THEN s[i] - inner(i) ELSE @[i]]]

snrt_ssr_loop_1d(lane, b0, s0) == LoopRegisters(lane, <<b0>>, <<s0>>)
snrt_ssr_loop_2d(lane, b, s) == LoopRegisters(lane, <<b[1], b[2]>>, <<s[1], s[2]>>)
snrt_ssr_loop_3d(lane, b, s) == LoopRegisters(lane, <<b[1], b[2], b[3]>>, <<s[1], s[2], s[3]>>)
snrt_ssr_loop_4d(lane, b, s) == LoopRegisters(lane, <<b[1], b[2], b[3], b[4]>>, <<s[1], s[2], s[3], s[4]>>)

snrt_ssr_repeat(lane, count) == [lane EXCEPT !.rep = count - 1]

\* One step of the address generator with loops 1 .. dims: every loop whose
\* inner loops are at their bounds counts, and the outermost of them moves
\* the pointer.
AguStep(lane, dims, st) ==
  LET last(i) == i > dims \/ st.idx[i] = lane.bound[i]
      enabled == {i \in 1 .. 4 : \A j \in 1 .. i - 1 : last(j)}
      outermost == CHOOSE i \in enabled : \A j \in enabled : j <= i
  IN  [ptr |-> st.ptr + lane.stride[outermost],
       idx |-> [i \in 1 .. 4 |-> IF i \notin enabled THEN st.idx[i] ELSE IF last(i) THEN 0 ELSE st.idx[i] + 1]]

\* snrt_ssr_read and snrt_ssr_write with SNRT_SSR_<dims>D: the locations the
\* lane goes by, each rep + 1 times.
Items(lane, dims) == FoldLeft(LAMBDA n, i : n * (lane.bound[i] + 1), 1, [i \in 1 .. dims |-> i])

Steps(lane, dims) ==
  FoldLeft(LAMBDA ss, k : Append(ss, AguStep(lane, dims, ss[Len(ss)])),
           <<[ptr |-> 0, idx |-> <<0, 0, 0, 0>>]>>, [k \in 1 .. Items(lane, dims) - 1 |-> k])

Repeated(lane, base, steps) ==
  [n \in 1 .. Len(steps) * (lane.rep + 1) |-> At(base, steps[(n - 1) \div (lane.rep + 1) + 1].ptr)]

Stream(lane, dims, base) == Repeated(lane, base, Steps(lane, dims))

\* `unroll' accumulators take turns at an item of each of two streams, `macs'
\* items each per block; what accumulator j has been given in block b.  An
\* item is a word of v elements.
Taken(sa, sb, unroll, macs, b, j, v) ==
  LET of(s) == FlattenSeq([k \in 1 .. macs |->
                 [e \in 1 .. v |-> At(s[b * unroll * macs + (k - 1) * unroll + j + 1], e - 1)]])
  IN  of(sa) \o of(sb)
=============================================================================
