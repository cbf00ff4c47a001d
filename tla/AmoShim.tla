------------------------------- MODULE AmoShim -------------------------------
(***************************************************************************)
(* snitch_amo_shim: the unit in front of every TCDM bank that makes atomic *)
(* memory operations out of a read, an ALU cycle and a write-back, and     *)
(* keeps the bank's one LR/SC reservation.  One step is one clock cycle of *)
(* the bank together with the request mem_wide_narrow_mux selects for it:  *)
(* the wide DMA port first, then the wide external port, then a narrow     *)
(* request of a core or of the SoC's AXI port.                             *)
(*                                                                         *)
(* AXI requests carry no core identity: axi_to_reqrsp sets the user field  *)
(* to zero, which reads as core 0 with is_core = 0.                        *)
(*                                                                         *)
(* The registers of the atomic operation and of the reservation are shown  *)
(* as records that exist only while the operation is under way and the     *)
(* reservation valid; nothing reads them otherwise.                        *)
(***************************************************************************)
EXTENDS AmoAlu

CONSTANTS
    Cores,      \* the cluster's cores
    CoreZero,   \* the core whose index is 0
    Remotes,    \* harts of other clusters, whose requests come over AXI
    Addrs,      \* the bank's words (64 bit each; the reservation granule)
    Halves,     \* the 32-bit halves of a word
    CoreOps,    \* what narrow requests do
    ShimAmos,   \* the atomic operations they use
    WideOps,    \* what the DMA port does: a subset of {"load", "store"}
    ExtOps      \* what the external wide port does

ASSUME CoreAssumption == CoreZero \in Cores /\ Cores \cap Remotes = {}
ASSUME OpAssumption ==
    /\ CoreOps \subseteq {"load", "store", "amo", "lr", "sc"}
    /\ ShimAmos \subseteq AmoOps
    /\ WideOps \subseteq {"load", "store"} /\ ExtOps \subseteq {"load", "store"}

Narrow == Cores \cup Remotes
Dma == "dma"
Ext == "ext"
None == "none"
Line == [Halves -> Word]

ASSUME NoneAssumption == None \notin Addrs /\ None \notin Cores

VARIABLES
    mem,            \* the SRAM: a line per address
    state_q,        \* Idle, DoAMO, WriteBackAMO
    amo_q,          \* addr_q, idx_q and, once it is computed, amo_result_q;
                    \* before that amo_op_q, operand_b_q and operand_a
    reservation_q,  \* the address and the core, or NoReservation
    amem,           \* ghost: the memory if every granted access were atomic
    conflict,       \* ghost: addresses for which amo_conflict_o was raised
    linked,         \* ghost: the address a hart's last LR still protects
    rsp             \* ghost: the access granted last and what it returned

vars == <<mem, state_q, amo_q, reservation_q, amem, conflict, linked, rsp>>

\* core_id_i of a narrow request.
CoreId(h) == IF h \in Cores THEN h ELSE CoreZero

NoAmo == [addr |-> None, idx |-> None]
NoReservation == [addr |-> None, core |-> None]
NoRsp == [op |-> None, addr |-> None, data |-> 0, want |-> 0,
          linked |-> FALSE, wrote |-> FALSE]

Init ==
    /\ mem = [x \in Addrs |-> [i \in Halves |-> 0]]
    /\ state_q = "Idle"
    /\ amo_q = NoAmo
    /\ reservation_q = NoReservation
    /\ amem = mem
    /\ conflict = {}
    /\ linked = [h \in Narrow |-> None]
    /\ rsp = NoRsp

----------------------------------------------------------------------------
(* The reservation and the ghost that says what it stands for. *)

\* Mutant of Killed: a core's write spares every reservation.
KilledByDevices(h, x) ==
    /\ reservation_q.addr = x
    /\ h \notin Cores

\* A write of h to x takes the reservation away: it is not the reserving core.
Killed(h, x) ==
    /\ reservation_q.addr = x
    /\ h \notin Cores \/ reservation_q.core # h

\* The harts other than h whose LR protects x lose that protection.
Unlink(h, x) ==
    [k \in Narrow |-> IF k # h /\ linked[k] = x THEN None ELSE linked[k]]

\* A write that is neither an LR nor an SC, seen by the reservation.
KillReservation(h, x) ==
    /\ reservation_q' = IF Killed(h, x) THEN NoReservation ELSE reservation_q
    /\ linked' = Unlink(h, x)

SetWord(m, x, i, v) == [m EXCEPT ![x][i] = v]

----------------------------------------------------------------------------
(* Narrow requests, granted in state Idle only. *)

Granted(o, x, i) ==
    rsp' = [NoRsp EXCEPT !.op = o, !.addr = x,
                         !.data = mem[x][i], !.want = amem[x][i]]

Load(h, x, i) ==
    /\ "load" \in CoreOps /\ state_q = "Idle"
    /\ Granted("load", x, i)
    /\ UNCHANGED <<mem, state_q, amo_q, reservation_q, amem, conflict, linked>>

Store(h, x, i, v) ==
    /\ "store" \in CoreOps /\ state_q = "Idle"
    /\ mem' = SetWord(mem, x, i, v)
    /\ amem' = SetWord(amem, x, i, v)
    /\ KillReservation(h, x)
    /\ rsp' = NoRsp
    /\ UNCHANGED <<state_q, amo_q, conflict>>

\* First cycle of an atomic operation: read operand a, latch the request.
StartAmo(h, o, x, i, v) ==
    /\ "amo" \in CoreOps /\ state_q = "Idle"
    /\ state_q' = "DoAMO"
    /\ amo_q' = [addr |-> x, idx |-> i, op |-> o, a |-> mem[x][i], b |-> v]
    /\ amem' = SetWord(amem, x, i, Alu(o, amem[x][i], v))
    /\ KillReservation(h, x)
    /\ Granted("amo", x, i)
    /\ UNCHANGED <<mem, conflict>>

\* Load-reserved: the reservation is placed if there is none, or moved if it
\* is this core's own.
LoadReserved(h, x, i) ==
    /\ "lr" \in CoreOps /\ state_q = "Idle"
    /\ reservation_q' =
        IF reservation_q = NoReservation \/ reservation_q.core = CoreId(h)
        THEN [addr |-> x, core |-> CoreId(h)]
        ELSE reservation_q
    /\ linked' = [linked EXCEPT ![h] = x]
    /\ Granted("lr", x, i)
    /\ UNCHANGED <<mem, state_q, amo_q, amem, conflict>>

\* The answer to a store-conditional: 0 is success.  The answer to a remote
\* hart passes axi_to_reqrsp, which puts the bit into the response's LSB, and
\* reqrsp_to_axi, which reports success for RESP_EXOKAY (LSB 1) only.
ScAnswer(h, success) ==
    LET data == IF success THEN 0 ELSE 1
        exokay == data = 1
    IN  IF h \in Cores THEN data ELSE IF exokay THEN 0 ELSE 1

\* Store-conditional: succeeds if this core holds the reservation and the
\* address matches; it ends this core's reservation either way.
StoreConditional(h, x, i, v) ==
    LET mine == reservation_q.core = CoreId(h)
        success == mine /\ reservation_q.addr = x
    IN  /\ "sc" \in CoreOps /\ state_q = "Idle"
        /\ reservation_q' = IF mine THEN NoReservation ELSE reservation_q
        /\ mem' = IF success THEN SetWord(mem, x, i, v) ELSE mem
        /\ amem' = IF success THEN SetWord(amem, x, i, v) ELSE amem
        /\ linked' = [(IF success THEN Unlink(h, x) ELSE linked)
                        EXCEPT ![h] = None]
        /\ rsp' = [op |-> "sc", addr |-> x, data |-> ScAnswer(h, success),
                   want |-> 0, linked |-> linked[h] = x, wrote |-> success]
        /\ UNCHANGED <<state_q, amo_q, conflict>>

----------------------------------------------------------------------------
(* The atomic operation's own cycles. *)

\* The result computed from the operand the bank returns in this cycle.
Computed == [addr |-> amo_q.addr, idx |-> amo_q.idx,
             result |-> Alu(amo_q.op, amo_q.a, amo_q.b)]

\* Second cycle: compute.  The port is free but grants nothing.
DoAmo ==
    /\ state_q = "DoAMO"
    /\ amo_q' = Computed
    /\ state_q' = "WriteBackAMO"
    /\ rsp' = NoRsp
    /\ UNCHANGED <<mem, reservation_q, amem, conflict, linked>>

\* Mutant of WriteBack: both halves of the word are written.
WriteBackWholeLine ==
    /\ state_q = "WriteBackAMO"
    /\ mem' = [mem EXCEPT ![amo_q.addr] = [i \in Halves |-> amo_q.result]]
    /\ state_q' = "Idle"
    /\ amo_q' = NoAmo
    /\ rsp' = NoRsp
    /\ UNCHANGED <<reservation_q, amem, conflict, linked>>

\* Third cycle: write the result back.
WriteBack ==
    /\ state_q = "WriteBackAMO"
    /\ mem' = SetWord(mem, amo_q.addr, amo_q.idx, amo_q.result)
    /\ state_q' = "Idle"
    /\ amo_q' = NoAmo
    /\ rsp' = NoRsp
    /\ UNCHANGED <<reservation_q, amem, conflict, linked>>

----------------------------------------------------------------------------
(* Wide requests. *)

\* Mutant of DmaCycle: a conflict on the write-back cycle is not reported.
DmaCycleLateConflict(o, x, line) ==
    /\ o \in WideOps
    /\ mem' = IF o = "store" THEN [mem EXCEPT ![x] = line] ELSE mem
    /\ amem' = IF o = "store" THEN [amem EXCEPT ![x] = line] ELSE amem
    /\ conflict' = IF state_q = "DoAMO" /\ amo_q.addr = x
                   THEN conflict \cup {x} ELSE conflict
    /\ IF o = "store" THEN KillReservation(Dma, x)
                      ELSE UNCHANGED <<reservation_q, linked>>
    /\ \E i \in Halves : Granted(o, x, i)
    /\ state_q' = IF state_q = "DoAMO" THEN "WriteBackAMO" ELSE state_q
    /\ amo_q' = IF state_q = "DoAMO" THEN Computed ELSE amo_q

\* The DMA port always gets the bank.  An atomic operation under way computes
\* but waits with its write-back; amo_conflict_o reports a DMA access to the
\* same address.
DmaCycle(o, x, line) ==
    /\ o \in WideOps
    /\ mem' = IF o = "store" THEN [mem EXCEPT ![x] = line] ELSE mem
    /\ amem' = IF o = "store" THEN [amem EXCEPT ![x] = line] ELSE amem
    /\ conflict' = IF amo_q.addr = x
                   THEN conflict \cup {x} ELSE conflict
    /\ IF o = "store" THEN KillReservation(Dma, x)
                      ELSE UNCHANGED <<reservation_q, linked>>
    /\ \E i \in Halves : Granted(o, x, i)
    /\ state_q' = IF state_q = "DoAMO" THEN "WriteBackAMO" ELSE state_q
    /\ amo_q' = IF state_q = "DoAMO" THEN Computed ELSE amo_q

\* The external port: mem_wide_narrow_mux grants it at once, whatever the
\* shim's ready says, and dma_access_i is not set for it.  In state Idle the
\* shim serves it as an ordinary narrow access; during an atomic operation
\* the bank port belongs to the operation and the access goes nowhere: it is
\* no granted access for amem, and rsp records that it was not served.
ExtAnswer(served) == rsp' = [NoRsp EXCEPT !.op = Ext, !.wrote = served]

ExtIdle(o, x, line) ==
    /\ o \in ExtOps /\ state_q = "Idle"
    /\ mem' = IF o = "store" THEN [mem EXCEPT ![x] = line] ELSE mem
    /\ amem' = IF o = "store" THEN [amem EXCEPT ![x] = line] ELSE amem
    /\ IF o = "store" THEN KillReservation(Ext, x)
                      ELSE UNCHANGED <<reservation_q, linked>>
    /\ ExtAnswer(TRUE)
    /\ UNCHANGED <<state_q, amo_q, conflict>>

ExtBusy(o) ==
    /\ o \in ExtOps /\ state_q # "Idle"
    /\ state_q' = IF state_q = "DoAMO" THEN "WriteBackAMO" ELSE "Idle"
    /\ amo_q' = IF state_q = "DoAMO" THEN Computed ELSE NoAmo
    /\ mem' = IF state_q = "DoAMO" THEN mem
              ELSE SetWord(mem, amo_q.addr, amo_q.idx, amo_q.result)
    /\ ExtAnswer(FALSE)
    /\ UNCHANGED <<reservation_q, amem, conflict, linked>>

NarrowCycle(h, x, i) ==
    \/ Load(h, x, i)
    \/ LoadReserved(h, x, i)
    \/ \E v \in Word : \/ Store(h, x, i, v)
                       \/ StoreConditional(h, x, i, v)
                       \/ \E o \in ShimAmos : StartAmo(h, o, x, i, v)

WideCycle(x, line) ==
    \/ \E o \in WideOps : DmaCycle(o, x, line)
    \/ \E o \in ExtOps : ExtIdle(o, x, line) \/ ExtBusy(o)

Next ==
    \/ \E h \in Narrow, x \in Addrs, i \in Halves : NarrowCycle(h, x, i)
    \/ DoAmo
    \/ WriteBack
    \/ \E x \in Addrs, line \in Line : WideCycle(x, line)

Spec == Init /\ [][Next]_vars

----------------------------------------------------------------------------

\* The shape of the shim's registers.
TypeOK ==
    /\ mem \in [Addrs -> Line] /\ amem \in [Addrs -> Line]
    /\ state_q \in {"Idle", "DoAMO", "WriteBackAMO"}
    /\ amo_q \in
        CASE state_q = "Idle"  -> {NoAmo}
          [] state_q = "DoAMO" ->
                [addr : Addrs, idx : Halves, op : ShimAmos, a : Word, b : Word]
          [] OTHER -> [addr : Addrs, idx : Halves, result : Word]
    /\ reservation_q \in {NoReservation} \cup [addr : Addrs, core : Cores]
    /\ conflict \subseteq Addrs
    /\ linked \in [Narrow -> Addrs \cup {None}]

\* Between atomic operations the bank holds what it would hold if every
\* granted access had been atomic, except where a DMA access clashed with an
\* atomic operation, which amo_conflict_o has then reported.
Coherent ==
    state_q = "Idle" =>
        \A x \in Addrs \ conflict, i \in Halves : mem[x][i] = amem[x][i]

\* Every granted load, load-reserved, atomic operation and DMA read returns
\* the atomic memory's value, also while a write-back is being delayed.
ReadsAreAtomic ==
    rsp.op \in {"load", "lr", "amo"} /\ rsp.addr \notin conflict =>
        rsp.data = rsp.want

\* Every access of the external port that is acknowledged is carried out.  The
\* code does not keep this promise of mem_wide_narrow_mux (README, section 4).
ExtIsServed == rsp.op = Ext => rsp.wrote

\* "An SC may succeed only if no store from another hart (or other device) to
\* the reservation set can be observed to have occurred between the LR and
\* the SC": an SC that writes is protected by its hart's own last LR.
ScIsProtected == rsp.op = "sc" /\ rsp.wrote => rsp.linked

\* A hart is told 0 exactly when its store-conditional has written.
ScAnswerIsTrue == rsp.op = "sc" => (rsp.data = 0 <=> rsp.wrote)

=============================================================================
