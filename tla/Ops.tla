-------------------------------- MODULE Ops --------------------------------
(***************************************************************************)
(* The operations that the programs of the kernels are made of, and the    *)
(* functions of the runtime that issue them (sw/runtime/src/dma.h,         *)
(* sync.h).  A program is a sequence of operations; Machine.tla executes   *)
(* one program per hart.  A location (and a pointer) is                    *)
(* <<array, cluster, buffer, offset>>.                                     *)
(***************************************************************************)
EXTENDS Integers, Sequences, FiniteSets, SequencesExt

(***************************************************************************)
(* Operations, and the runtime functions that issue them.                  *)
(***************************************************************************)

NoOp == [op |-> "wait", does |-> {}, uses |-> {}, n |-> 0]

\* snrt_cluster_hw_barrier
Barrier == [NoOp EXCEPT !.op = "barrier"]

\* snrt_global_barrier of a communicator of the first n clusters
\* (GlobalBarrier.tla), and snrt_inter_cluster_barrier, which core 0 of each
\* of the first n clusters takes part in.
GlobalBarrier(n) == [NoOp EXCEPT !.op = "global", !.n = n]
InterBarrier(n) == [NoOp EXCEPT !.op = "inter", !.n = n]

\* Mutant: a wait, or a fence, that does not wait.
NoWait == [NoOp EXCEPT !.op = "work"]

\* snrt_dma_wait_all
WaitAll == NoOp

\* `to' becomes f of the contents of `of'.
Put(to, f, of) == [to |-> to, f |-> f, of |-> of]

\* A computation in the integer core, which is busy until it ends: it also reads
\* `uses', which its result does not depend on.
Work(puts, uses) == [NoOp EXCEPT !.op = "work", !.does = puts, !.uses = uses]

\* A computation of the FP subsystem.  The core only offloads its instructions,
\* loads and stores included, and goes on; no barrier waits for them.
Offload(puts, uses) == [NoOp EXCEPT !.op = "fp", !.does = puts, !.uses = uses]

\* snrt_fpu_fence moves an FP register to the integer core, which waits for it
\* and so for all that the core has offloaded before.
snrt_fpu_fence == NoOp

\* An FP computation that ends with the fence; and one whose result the core
\* takes into an integer register (a comparison, the argument of expf): that
\* too waits for all that was offloaded before.
Fenced(puts, uses) == <<Offload(puts, uses), snrt_fpu_fence>>
Awaited(puts, uses) == Fenced(puts, uses)

\* n rounds that wait in this way for the round before: what the last one stores
\* is left in flight.
LastInFlight(n, puts(_)) ==
  LET before == UNION {puts(i - 1) : i \in 1 .. n - 1}
  IN  (IF before # {} THEN Awaited(before, {}) ELSE <<>>) \o <<Offload(puts(n - 1), {})>>

\* Pointer arithmetic.
At(p, i) == <<p[1], p[2], p[3], p[4] + i>>

Transfer(puts) == [NoOp EXCEPT !.op = "dma", !.does = puts]

snrt_dma_start_1d(dst, src, size) ==
  Transfer({Put(At(dst, i), "copy", <<At(src, i)>>) : i \in 0 .. size - 1})

snrt_dma_start_2d(dst, src, size, dst_stride, src_stride, repeat) ==
  Transfer({Put(At(dst, r * dst_stride + i), "copy", <<At(src, r * src_stride + i)>>)
              : r \in 0 .. repeat - 1, i \in 0 .. size - 1})

snrt_dma_load_1d_tile(dst, src, tile_idx, tile_size, prec) ==
  snrt_dma_start_1d(dst, At(src, tile_idx * tile_size * prec), tile_size * prec)

snrt_dma_store_1d_tile(dst, src, tile_idx, tile_size, prec) ==
  snrt_dma_start_1d(At(dst, tile_idx * tile_size * prec), src, tile_size * prec)

\* `size' bytes laid out in rows of `row_size' that are `stride' apart.
snrt_dma_1d_to_2d(dst, src, size, row_size, stride) ==
  snrt_dma_start_2d(dst, src, row_size, stride, row_size, size \div row_size)

snrt_dma_2d_to_1d(dst, src, size, row_size, stride) ==
  snrt_dma_start_2d(dst, src, row_size, row_size, stride, size \div row_size)

TileOffset(x1_idx, x0_idx, x1_size, x0_size, full_x0_size, prec) ==
  (x0_idx * x0_size + x1_idx * x1_size * full_x0_size) * prec

\* Tile (x1_idx, x0_idx) of a matrix whose rows have full_x0_size elements,
\* into rows tile_ld bytes apart.
LoadTileLd(dst, src, x1_idx, x0_idx, x1_size, x0_size, full_x0_size, prec, tile_ld) ==
  snrt_dma_start_2d(dst, At(src, TileOffset(x1_idx, x0_idx, x1_size, x0_size, full_x0_size, prec)),
                    x0_size * prec, tile_ld, full_x0_size * prec, x1_size)

snrt_dma_load_2d_tile(dst, src, x1_idx, x0_idx, x1_size, x0_size, full_x0_size, prec) ==
  LoadTileLd(dst, src, x1_idx, x0_idx, x1_size, x0_size, full_x0_size, prec, x0_size * prec)

StoreTileLd(dst, src, x1_idx, x0_idx, x1_size, x0_size, full_x0_size, prec, tile_ld) ==
  snrt_dma_start_2d(At(dst, TileOffset(x1_idx, x0_idx, x1_size, x0_size, full_x0_size, prec)), src,
                    x0_size * prec, full_x0_size * prec, tile_ld, x1_size)

snrt_dma_store_2d_tile(dst, src, x1_idx, x0_idx, x1_size, x0_size, full_x0_size, prec) ==
  StoreTileLd(dst, src, x1_idx, x0_idx, x1_size, x0_size, full_x0_size, prec, x0_size * prec)

(***************************************************************************)
(* Programs.                                                               *)
(***************************************************************************)

If(c, ops) == IF c THEN ops ELSE <<>>

\* for (i = 0; i < n; i++) body(i)
For(n, body(_)) == FlattenSeq([i \in 1 .. n |-> body(i - 1)])

\* The arguments of a job, copied to the TCDM by the DM core before use.
LoadArgs(isDm, cl) ==
  If(isDm, <<snrt_dma_start_1d(<<"args", cl, 0, 0>>, <<"ARGS", 0, 0, 0>>, 1), WaitAll>>) \o <<Barrier>>
=============================================================================
