--------------------------------- MODULE Npu ---------------------------------
(***************************************************************************)
(* One cluster of the NPU and its host: the driver of sw/npu_driver, which *)
(* fills a command queue in DDR and rings a doorbell; the mailbox          *)
(* (npu_mailbox.sv); the firmware (npu_runtime.c), which pulls the queue   *)
(* into its TCDM with the DMA engine (npu_dma_engine.sv), executes the     *)
(* commands and signals completion; and the compute cores.                 *)
(*                                                                         *)
(* Mailbox and DMA engine step clock cycle by clock cycle, because their   *)
(* registers are raced for: a host store and a core store may meet in the  *)
(* same cycle, and a status read may follow the trigger at once.           *)
(*                                                                         *)
(* A word of memory stands for a header field, for one command (four words *)
(* in the code), for a row of activations, for four columns of weights or  *)
(* for the four results of a tile.  K is one tile (K <= 32), so k_pad is   *)
(* the same for every row.                                                 *)
(***************************************************************************)
EXTENDS Integers, Sequences

CONSTANTS
  Capacity,         \* of the command queue
  DataWords,        \* words of data behind the queue, in DDR and in TCDM
  NrCores,          \* compute cores (10 in npu_runtime.c)
  Programs          \* what the host may do: sequences of driver calls

ASSUME NpuAssumption ==
  /\ Capacity \in Nat \ {0, 1}
  /\ DataWords \in Nat
  /\ NrCores \in Nat \ {0}

VARIABLES
  mem,              \* DDR and TCDM
  host,             \* the driver calls the host has yet to make
  hostReq,          \* the host's store or load at the mailbox, or <<>>
  mbox,             \* task_pending_q, task_complete_q and registers[1]
  coreReq,          \* the firmware's store at the mailbox, or <<>>
  fw,               \* the firmware: where it is, its command, its loop indices
  port,             \* accesses to the DMA's registers the firmware has still to make
  dma,              \* registers and state of the DMA engine
  cores             \* cores[c]: the tile core c computes, or <<>>

vars == <<mem, host, hostReq, mbox, coreReq, fw, port, dma, cores>>

(***************************************************************************)
(* The queue: head, tail, then the commands.  The same layout in DDR and,  *)
(* once copied, in TCDM.                                                   *)
(***************************************************************************)
Word(n) == <<"word", n>>
First(where) == mem[<<where, 0>>][2]
Last(where) == mem[<<where, 1>>][2]
Slot(i) == 2 + i
Data(i) == Slot(Capacity) + i
Addresses == {"ddr", "tcdm"} \X (0 .. Data(DataWords) - 1)

(***************************************************************************)
(* The host.                                                               *)
(***************************************************************************)
Call == host[1]
Calling(f) == host # <<>> /\ hostReq = <<>> /\ Call[1] = f
Return == host' = Tail(host)

NextTail == (Last("ddr") + 1) % Capacity

\* npu_enqueue: nothing happens if the queue is full.
Full ==
  /\ Calling("enqueue") /\ NextTail = First("ddr")
  /\ Return
  /\ UNCHANGED <<mem, hostReq, mbox, coreReq, fw, port, dma, cores>>

CopyCommand ==
  /\ Calling("enqueue") /\ NextTail # First("ddr")
  /\ mem' = [mem EXCEPT ![<<"ddr", Slot(Last("ddr"))>>] = Call[2]]
  /\ host' = [host EXCEPT ![1] = <<"tail">>]
  /\ UNCHANGED <<hostReq, mbox, coreReq, fw, port, dma, cores>>

UpdateTail ==
  /\ Calling("tail")
  /\ mem' = [mem EXCEPT ![<<"ddr", 1>>] = Word(NextTail)]
  /\ Return
  /\ UNCHANGED <<hostReq, mbox, coreReq, fw, port, dma, cores>>

\* npu_ring_doorbell: the store is on its way.
Ring ==
  /\ Calling("doorbell")
  /\ hostReq' = <<"store", 1>>
  /\ Return
  /\ UNCHANGED <<mem, mbox, coreReq, fw, port, dma, cores>>

\* npu_wait_cluster: the load of TRIGGER (its answer is used in MailboxCycle).
Poll ==
  /\ Calling("wait_cluster")
  /\ hostReq' = <<"load">>
  /\ UNCHANGED <<mem, host, mbox, coreReq, fw, port, dma, cores>>

\* The testbenches wait for the interrupt line instead.
WaitForInterrupt ==
  /\ Calling("wait_for_interrupt") /\ mbox.complete
  /\ Return
  /\ UNCHANGED <<mem, hostReq, mbox, coreReq, fw, port, dma, cores>>

\* host_main.c: one operation, then OP_FINISH.
host_main ==
  << <<"enqueue", <<"matmul", Data(0), Data(2), Data(4)>>>>, <<"enqueue", <<"finish">>>>,
     <<"doorbell">>, <<"wait_cluster">> >>

Host == Full \/ CopyCommand \/ UpdateTail \/ Ring \/ Poll \/ WaitForInterrupt

(***************************************************************************)
(* A cycle of the mailbox.  h: the host's request is accepted; c: the      *)
(* core's request is absent, valid but not yet ready, or accepted.  The    *)
(* core's acknowledgement does not look at ready, and comes after, so wins *)
(* over, the host's trigger.                                               *)
(***************************************************************************)
Bit(req, b) == Len(req) = 2 /\ (req[2] \div 2 ^ b) % 2 = 1

Pending(h, c) ==
  IF c # "absent" /\ Bit(coreReq, 0) THEN FALSE
  ELSE mbox.pending \/ (h /\ Bit(hostReq, 0))

Complete(c) ==
  IF Bit(hostReq, 1) THEN FALSE
  ELSE mbox.complete \/ (c = "accepted" /\ Bit(coreReq, 1))

\* The status words the driver accepts as success.
Success == {2, 42405}

MailboxCycle(h, c) ==
  /\ h => hostReq # <<>>
  /\ c # "absent" => coreReq # <<>>
  /\ mbox' = [mbox EXCEPT !.pending = Pending(h, c), !.complete = Complete(c)]
  /\ hostReq' = IF ~h THEN hostReq
                ELSE IF hostReq = <<"load">> /\ mbox.control \in Success THEN <<"store", 0>>
                ELSE <<>>
  /\ host' = IF h /\ hostReq = <<"load">> /\ mbox.control \in Success THEN Tail(host) ELSE host
  /\ coreReq' = IF c = "accepted" THEN <<>> ELSE coreReq
  /\ UNCHANGED <<mem, fw, port, dma, cores>>

(***************************************************************************)
(* A cycle of the DMA engine.  access: the firmware's next access is       *)
(* accepted; go: the memory answers.  A word is read into the FIFO, then   *)
(* written.  Sizes are whole words: x_rem - 4 of another size would wrap   *)
(* around zero.                                                            *)
(***************************************************************************)
\* Mutant: a register file without the wait for the response.
CtrlAlwaysReady == TRUE

CtrlReady == ~dma.rsp

Plus(a, n) == <<a[1], a[2] + n>>

\* The memory's side of a transfer.
Read == mem[dma.from]
Write == [mem EXCEPT ![dma.to] = dma.fifo]

Engine(go) ==
  CASE dma.state = "IDLE" /\ dma.trigger ->
         [dma EXCEPT !.state = "READ", !.from = dma.src, !.to = dma.dst, !.x = dma.dim_x, !.y = dma.dim_y]
    [] dma.state = "READ" /\ dma.x = 0 -> [dma EXCEPT !.state = "NEXT_LINE"]
    [] dma.state = "READ" /\ dma.x > 0 /\ go ->
         [dma EXCEPT !.state = "WRITE", !.fifo = Read]
    [] dma.state = "WRITE" /\ go ->
         [dma EXCEPT !.state = "READ", !.from = Plus(@, 1), !.to = Plus(@, 1), !.x = @ - 1]
    [] dma.state = "NEXT_LINE" /\ dma.y > 1 ->
         [dma EXCEPT !.state = "READ", !.y = @ - 1, !.x = dma.dim_x,
                     !.from = Plus(@, dma.stride_s - dma.dim_x), !.to = Plus(@, dma.stride_d - dma.dim_x)]
    [] dma.state = "NEXT_LINE" /\ dma.y <= 1 -> [dma EXCEPT !.state = "DONE"]
    [] dma.state = "DONE" -> [dma EXCEPT !.state = "IDLE"]
    [] OTHER -> dma

Store(reg, val) == <<"store", reg, val>>
Status == <<"status">>

DmaCycle(access, go) ==
  LET a == port[1]
      e == [Engine(go) EXCEPT !.rsp = access, !.trigger = access /\ a = Store("trigger", TRUE)]
  IN  /\ access => port # <<>> /\ CtrlReady
      /\ dma' = IF ~access \/ a = Status THEN e
                ELSE CASE a[2] = "src"      -> [e EXCEPT !.src = a[3]]
                       [] a[2] = "dst"      -> [e EXCEPT !.dst = a[3]]
                       [] a[2] = "dim_x"    -> [e EXCEPT !.dim_x = a[3]]
                       [] a[2] = "dim_y"    -> [e EXCEPT !.dim_y = a[3]]
                       [] a[2] = "stride_s" -> [e EXCEPT !.stride_s = a[3]]
                       [] a[2] = "stride_d" -> [e EXCEPT !.stride_d = a[3]]
                       [] OTHER -> e
      /\ port' = IF access /\ ~(a = Status /\ dma.state # "IDLE") THEN Tail(port) ELSE port
      /\ mem' = IF dma.state = "WRITE" /\ go THEN Write ELSE mem
      /\ UNCHANGED <<host, hostReq, mbox, coreReq, fw, cores>>

(***************************************************************************)
(* The firmware.  It goes on when its accesses are done.                   *)
(***************************************************************************)
At(pc) == fw.pc = pc /\ port = <<>> /\ coreReq = <<>>
Quiet == UNCHANGED <<host, hostReq, mbox, dma>>

\* wfi falls through; the pending bit is cleared.
Wake ==
  /\ At("wfi") /\ mbox.pending
  /\ coreReq' = <<"store", 1>>
  /\ fw' = [fw EXCEPT !.pc = "woken"]
  /\ Quiet /\ UNCHANGED <<mem, port, cores>>

Transfer(src, dst, n, rest) ==
  <<Status, Store("src", src), Store("dst", dst), Store("dim_x", n)>> \o rest
    \o <<Store("trigger", TRUE), Status>>

\* Mutant: the pending bit is cleared again while the copy is under way.
PullAndAcknowledge ==
  /\ At("woken")
  /\ coreReq' = <<"store", 1>>
  /\ port' = Transfer(<<"ddr", 0>>, <<"tcdm", 0>>, Slot(Capacity),
                      <<Store("dim_y", 1), Store("stride_s", 0), Store("stride_d", 0)>>)
  /\ fw' = [fw EXCEPT !.pc = "fetch"]
  /\ Quiet /\ UNCHANGED <<mem, cores>>

Pull ==
  /\ At("woken")
  /\ port' = Transfer(<<"ddr", 0>>, <<"tcdm", 0>>, Slot(Capacity),
                      <<Store("dim_y", 1), Store("stride_s", 0), Store("stride_d", 0)>>)
  /\ fw' = [fw EXCEPT !.pc = "fetch"]
  /\ Quiet /\ UNCHANGED <<mem, coreReq, cores>>

\* Mutant: the tail is read from DDR rather than from the copy.
FetchLiveTail ==
  /\ At("fetch")
  /\ fw' = IF First("tcdm") = Last("ddr") THEN [fw EXCEPT !.pc = "wfi"]
           ELSE [fw EXCEPT !.pc = "execute", !.cmd = mem[<<"tcdm", Slot(First("tcdm"))>>]]
  /\ Quiet /\ UNCHANGED <<mem, port, coreReq, cores>>

Fetch ==
  /\ At("fetch")
  /\ fw' = IF First("tcdm") = Last("tcdm") THEN [fw EXCEPT !.pc = "wfi"]
           ELSE [fw EXCEPT !.pc = "execute", !.cmd = mem[<<"tcdm", Slot(First("tcdm"))>>]]
  /\ Quiet /\ UNCHANGED <<mem, port, coreReq, cores>>

Is(op) == At("execute") /\ fw.cmd[1] = op
Executed == fw' = [fw EXCEPT !.pc = "advance"]

\* execute_op: OP_DMA_READ, OP_DMA_WRITE, OP_WAIT_DMA.
TransferOp ==
  /\ At("execute") /\ fw.cmd[1] \in {"dma_read", "dma_write", "wait_dma"}
  /\ LET ext == <<"ddr", fw.cmd[2]>>  tcdm == <<"tcdm", fw.cmd[3]>>
     IN  port' = CASE fw.cmd[1] = "dma_read"  -> Transfer(ext, tcdm, fw.cmd[4], <<>>)
                   [] fw.cmd[1] = "dma_write" -> Transfer(tcdm, ext, fw.cmd[4], <<>>)
                   [] OTHER -> <<Status>>
  /\ Executed
  /\ Quiet /\ UNCHANGED <<mem, coreReq, cores>>

\* OP_WAIT_COMPUTE; OP_NOP, OP_FINISH and everything unknown.
WaitOp ==
  /\ Is("wait_compute") => \A c \in DOMAIN cores : cores[c] = <<>>
  /\ At("execute") /\ fw.cmd[1] \in {"wait_compute", "nop", "finish"}
  /\ Executed
  /\ Quiet /\ UNCHANGED <<mem, port, coreReq, cores>>

ConfigureOp ==
  /\ Is("cfg_matmul")
  /\ fw' = [fw EXCEPT !.pc = "advance", !.rows = fw.cmd[2], !.cols = fw.cmd[3]]
  /\ Quiet /\ UNCHANGED <<mem, port, coreReq, cores>>

MaxPoolOp ==
  /\ Is("maxpool") /\ cores[0] = <<>>
  /\ cores' = [cores EXCEPT ![0] = <<"pool", fw.cmd[2], 0, fw.cmd[3]>>]
  /\ Executed
  /\ Quiet /\ UNCHANGED <<mem, port, coreReq>>

\* The tiled operations: tile t is n = t \div rows, m = t % rows, on core t % NrCores.
Tiles == fw.rows * ((fw.cols + 3) \div 4)

StartTile ==
  /\ Is("matmul") /\ fw.tile < Tiles
  /\ LET c == fw.tile % NrCores
         n == fw.tile \div fw.rows
         m == fw.tile % fw.rows
     IN  /\ cores[c] = <<>>
         /\ cores' = [cores EXCEPT
              ![c] = <<"dot", fw.cmd[2] + m, fw.cmd[3] + n, fw.cmd[4] + n * fw.rows + m>>]
  /\ fw' = [fw EXCEPT !.tile = @ + 1]
  /\ Quiet /\ UNCHANGED <<mem, port, coreReq>>

TilesStarted ==
  /\ Is("matmul") /\ fw.tile = Tiles
  /\ fw' = [fw EXCEPT !.pc = "advance", !.tile = 0]
  /\ Quiet /\ UNCHANGED <<mem, port, coreReq, cores>>

AdvanceHead ==
  mem' = [mem EXCEPT ![<<"tcdm", 0>>] = Word(IF First("tcdm") + 1 >= Capacity THEN 0 ELSE First("tcdm") + 1)]

Advance ==
  /\ At("advance") /\ fw.cmd # <<"finish">>
  /\ AdvanceHead
  /\ fw' = [fw EXCEPT !.pc = "fetch"]
  /\ Quiet /\ UNCHANGED <<port, coreReq, cores>>

\* Mutant: 0xA5A5 alone, which the driver also takes for success.
SucceedOnly ==
  /\ At("advance") /\ fw.cmd = <<"finish">>
  /\ coreReq' = <<"store", 42405>>
  /\ fw' = [fw EXCEPT !.pc = "done"]
  /\ Quiet /\ UNCHANGED <<mem, port, cores>>

\* OP_FINISH: 0xA5A5, then 2, then back to wfi.
Succeed ==
  /\ At("advance") /\ fw.cmd = <<"finish">>
  /\ coreReq' = <<"store", 42405>>
  /\ fw' = [fw EXCEPT !.pc = "succeeded"]
  /\ Quiet /\ UNCHANGED <<mem, port, cores>>

Done ==
  /\ At("succeeded")
  /\ coreReq' = <<"store", 2>>
  /\ fw' = [fw EXCEPT !.pc = "done"]
  /\ Quiet /\ UNCHANGED <<mem, port, cores>>

Finish ==
  /\ At("done")
  /\ AdvanceHead
  /\ fw' = [fw EXCEPT !.pc = "wfi"]
  /\ Quiet /\ UNCHANGED <<port, coreReq, cores>>

Firmware ==
  \/ Wake \/ Pull \/ Fetch
  \/ TransferOp \/ WaitOp \/ ConfigureOp \/ MaxPoolOp \/ StartTile \/ TilesStarted
  \/ Advance \/ Succeed \/ Done \/ Finish

\* A core computes its tile and writes it out.
Result(tile, m) ==
  <<tile[1], m[<<"tcdm", tile[2]>>]>> \o (IF tile[1] = "dot" THEN <<m[<<"tcdm", tile[3]>>]>> ELSE <<>>)

CoreDone(c) ==
  /\ cores[c] # <<>>
  /\ mem' = [mem EXCEPT ![<<"tcdm", cores[c][4]>>] = Result(cores[c], mem)]
  /\ cores' = [cores EXCEPT ![c] = <<>>]
  /\ UNCHANGED <<host, hostReq, mbox, coreReq, fw, port, dma>>

(***************************************************************************)
(* The whole.  npu_init has cleared nothing (a store of 0 has no effect),  *)
(* npu_queue_create has written the header, the firmware sleeps.           *)
(***************************************************************************)
Init ==
  /\ mem = [a \in Addresses |-> IF a[2] < 2 THEN Word(0) ELSE a]
  /\ host \in Programs
  /\ hostReq = <<>> /\ coreReq = <<>>
  /\ mbox = [pending |-> FALSE, complete |-> FALSE, control |-> 0]
  /\ fw = [pc |-> "wfi", cmd |-> <<"nop">>, rows |-> 0, cols |-> 0, tile |-> 0]
  /\ port = <<>>
  /\ dma = [src |-> <<"ddr", 0>>, dst |-> <<"ddr", 0>>, dim_x |-> 0, dim_y |-> 0, stride_s |-> 0, stride_d |-> 0,
            trigger |-> FALSE, rsp |-> FALSE, state |-> "IDLE",
            from |-> <<"ddr", 0>>, to |-> <<"ddr", 0>>, x |-> 0, y |-> 0, fifo |-> Word(0)]
  /\ cores = [c \in 0 .. NrCores - 1 |-> <<>>]

Next ==
  \/ Host
  \/ \E h \in BOOLEAN, c \in {"absent", "stalled", "accepted"} : MailboxCycle(h, c)
  \/ \E access, go \in BOOLEAN : DmaCycle(access, go)
  \/ Firmware
  \/ \E c \in 0 .. NrCores - 1 : CoreDone(c)

\* Stores are accepted, memories answer, cores finish, and nobody stops.
Fairness ==
  /\ WF_vars(Host) /\ WF_vars(Firmware)
  /\ WF_vars(\E c \in {"absent", "stalled", "accepted"} : MailboxCycle(TRUE, c))
  /\ WF_vars(\E h \in BOOLEAN : MailboxCycle(h, "accepted"))
  /\ WF_vars(\E go \in BOOLEAN : DmaCycle(TRUE, go))
  /\ WF_vars(\E access \in BOOLEAN : DmaCycle(access, TRUE))
  /\ \A c \in 0 .. NrCores - 1 : WF_vars(CoreDone(c))

Spec == Init /\ [][Next]_vars /\ Fairness
(***************************************************************************)
(* Properties.                                                             *)
(***************************************************************************)

\* What the commands c mean: DDR and TCDM after they have run one by one, from
\* memory m, with a matmul of rows x cols configured.
Moved(m, from, to, n) ==
  [a \in DOMAIN m |-> IF a[1] = to[1] /\ a[2] - to[2] \in 0 .. n - 1 THEN m[Plus(from, a[2] - to[2])] ELSE m[a]]

Meaning(commands, start) ==
  LET run[i \in 0 .. Len(commands)] ==
        IF i = 0 THEN [m |-> start, rows |-> 0, cols |-> 0]
        ELSE LET s == run[i - 1]
                 c == commands[i]
             IN  CASE c[1] = "dma_read"   -> [s EXCEPT !.m = Moved(@, <<"ddr", c[2]>>, <<"tcdm", c[3]>>, c[4])]
                   [] c[1] = "dma_write"  -> [s EXCEPT !.m = Moved(@, <<"tcdm", c[3]>>, <<"ddr", c[2]>>, c[4])]
                   [] c[1] = "cfg_matmul" -> [s EXCEPT !.rows = c[2], !.cols = c[3]]
                   [] c[1] = "maxpool"    -> [s EXCEPT !.m[<<"tcdm", c[3]>>] = <<"pool", s.m[<<"tcdm", c[2]>>]>>]
                   [] c[1] = "matmul"     ->
                        [s EXCEPT !.m = [a \in DOMAIN @ |->
                           LET t == a[2] - c[4]
                           IN  IF a[1] = "tcdm" /\ t \in 0 .. s.rows * ((s.cols + 3) \div 4) - 1
                               THEN <<"dot", s.m[<<"tcdm", c[2] + (t % s.rows)>>], s.m[<<"tcdm", c[3] + (t \div s.rows)>>]>>
                               ELSE s.m[a]]]
                   [] OTHER -> s
  IN  run[Len(commands)].m

Queued == [i \in 1 .. Last("ddr") |-> mem[<<"ddr", Slot(i - 1)>>]]

\* The commands up to the first OP_FINISH.
Batch ==
  LET ends == {i \in 1 .. Len(Queued) : Queued[i] = <<"finish">>}
  IN  SubSeq(Queued, 1, IF ends = {} THEN Len(Queued) ELSE CHOOSE i \in ends : \A j \in ends : i <= j)

\* The copy of the queue races with npu_enqueue, which has no memory barrier:
\* the firmware executes nothing but commands that have been enqueued.
OnlyEnqueued ==
  fw.pc \in {"execute", "advance", "succeeded", "done"} =>
    First("tcdm") < Last("ddr") /\ fw.cmd = mem[<<"ddr", Slot(First("tcdm"))>>]

\* When the interrupt line to the host is up, the results of the commands up to
\* OP_FINISH are in DDR: no transfer is under way that a status read missed, no
\* tile was lost or computed twice from other operands.
CompletionIsTrue ==
  mbox.complete =>
    LET m == Meaning(Batch, [a \in Addresses |-> IF a[2] < 2 THEN Word(0) ELSE a])
    IN  \A i \in 0 .. DataWords - 1 : mem[<<"ddr", Data(i)>>] = m[<<"ddr", Data(i)>>]

\* A doorbell may be lost in the mailbox, or cleared by the status word of the
\* completion, but no command is: when the host enqueues its last command and
\* then rings, the last one that is not behind an OP_FINISH is executed, and
\* with it those before (the firmware takes them in order).
EveryCommandRuns ==
  (Calling("tail") /\ ~\E i \in DOMAIN host : host[i][1] = "enqueue")
    ~> (fw.pc = "execute" /\ First("tcdm") = Len(Batch) - 1)

\* Every call of the driver returns, but for npu_wait_cluster: a full queue and
\* a doorbell that is lost do not keep the host, and the interrupt comes.
HostReturns == <>(host = <<>> \/ Call[1] = "wait_cluster")

\* npu_wait_cluster, which polls until the firmware's status word is there,
\* returns.
WaitReturns == <>(host = <<>>)
=============================================================================
