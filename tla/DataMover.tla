------------------------------ MODULE DataMover ------------------------------
(***************************************************************************)
(* The data mover (sw/runtime/src/dm.h): harts queue transfers in a ring   *)
(* in TCDM, the DM core moves them from the ring to the DMA engine, and    *)
(* harts talk to the DM core through a one-word request (stat_q), a valid  *)
(* flag (stat_pvalid) and the cluster-local interrupt.  DM_USE_GLOBAL_CLINT*)
(* is not defined, as in the repository.                                   *)
(*                                                                         *)
(* One step is one access to a word that another core also writes.         *)
(* queue_back is private to the DM core and queue_front is only touched    *)
(* under the mutex; their updates ride on the next shared access.  The     *)
(* mutex is the lock that module Mutex proves it to be: one step to take   *)
(* it, one to give it back.  A transfer is named <<hart, k>>: the k-th     *)
(* transfer of that hart, one- or two-dimensional alike.                   *)
(***************************************************************************)
EXTENDS Integers, Sequences, SequencesExt, FiniteSets

CONSTANTS
    Harts,      \* the harts that call the dm functions
    QueueSize,  \* DM_TASK_QUEUE_SIZE
    DmaDepth,   \* transfers the DMA engine holds before it would block
    Ops,        \* the dm functions the harts call
    MaxCopies   \* bound: transfers each hart queues

AllOps == {"memcpy", "start", "wait", "wait_ready", "exit"}

ASSUME SizesAssumption == QueueSize \in Nat \ {0} /\ DmaDepth \in Nat \ {0}
ASSUME OpsAssumption == Ops \subseteq AllOps /\ MaxCopies \in Nat

VARIABLES
    queue, queue_back, queue_front, queue_fill,     \* dm_t: the ring
    mutex, stat_q, stat_pvalid, dm_wfi,             \* dm_t: the mailbox
    irq,        \* the DM core's bit of the cluster-local interrupt register
    dma,        \* transfers in the DMA engine, oldest first
    dm_pc,      \* where the DM core stands in dm_main
    do_exit,    \* dm_main's local do_exit
    pc, op,     \* where each hart stands, and in which function
    pushed,     \* ghost: transfers in the order they were put in the ring
    issued,     \* ghost: transfers in the order they went to the DMA engine
    copies      \* ghost: transfers each hart has queued

ring == <<queue, queue_back, queue_front, queue_fill>>
mailbox == <<mutex, stat_q, stat_pvalid, dm_wfi, irq>>
dmvars == <<dm_pc, do_exit>>
hartvars == <<pc, op, copies>>
ghosts == <<pushed, issued>>
vars == <<ring, mailbox, dma, dmvars, hartvars, ghosts>>

NoTask == <<>>
Slots == 0..(QueueSize - 1)

NextSlot(i) == (i + 1) % QueueSize

\* dm_init: the struct is zeroed by the DM core; the harts wait for it.
Init ==
    /\ queue = [i \in Slots |-> NoTask]
    /\ queue_back = 0 /\ queue_front = 0 /\ queue_fill = 0
    /\ mutex = 0 /\ stat_q = "none" /\ stat_pvalid = 0 /\ dm_wfi = 0
    /\ irq = FALSE
    /\ dma = <<>>
    /\ dm_pc = "poll" /\ do_exit = FALSE
    /\ pc = [h \in Harts |-> "idle"]
    /\ op = [h \in Harts |-> "none"]
    /\ copies = [h \in Harts |-> 0]
    /\ pushed = <<>> /\ issued = <<>>

----------------------------------------------------------------------------
(* The DM core: dm_main and wfi_dm. *)

DMGoto(l) == dm_pc' = l /\ UNCHANGED do_exit

\* The bottom of the loop: while (!do_exit).
LoopHead == IF do_exit THEN "exited" ELSE "poll"

\* if (dm_p->queue_fill).
DMPoll ==
    /\ dm_pc = "poll"
    /\ DMGoto(IF queue_fill # 0 THEN "issue" ELSE "stat")
    /\ UNCHANGED <<ring, mailbox, dma, hartvars, ghosts>>

\* Wait until the DMA would not block, then start the transfer at queue_back.
DMIssue ==
    /\ dm_pc = "issue"
    /\ Len(dma) < DmaDepth
    /\ dma' = Append(dma, queue[queue_back])
    /\ issued' = Append(issued, queue[queue_back])
    /\ DMGoto("bump")
    /\ UNCHANGED <<ring, mailbox, hartvars, pushed>>

\* Mutant of DMBump: queue_back stays where it is.
DMBumpNoBack ==
    /\ dm_pc = "bump"
    /\ queue_fill' = queue_fill - 1
    /\ DMGoto("stat")
    /\ UNCHANGED <<queue, queue_back, queue_front, mailbox, dma, hartvars, ghosts>>

\* Bump queue_back, then decrement queue_fill.
DMBump ==
    /\ dm_pc = "bump"
    /\ queue_back' = NextSlot(queue_back)
    /\ queue_fill' = queue_fill - 1
    /\ DMGoto("stat")
    /\ UNCHANGED <<queue, queue_front, mailbox, dma, hartvars, ghosts>>

\* Mutant of DMStat: STAT_WAIT_IDLE is answered without asking the DMA.
DMStatNoBusyCheck ==
    /\ dm_pc = "stat"
    /\ do_exit' = (stat_q = "exit")
    /\ dm_pc' = IF stat_q \in {"wait_idle", "ready"} THEN "valid" ELSE "sleep"
    /\ UNCHANGED <<ring, mailbox, dma, hartvars, ghosts>>

\* The switch on stat_q.  A WAIT_IDLE request stays pending while the DMA is
\* busy.  (The load of the if and the load of the switch are one step: only
\* the DM core clears a request.)
DMStat ==
    /\ dm_pc = "stat"
    /\ do_exit' = (stat_q = "exit")
    /\ dm_pc' = IF \/ stat_q = "wait_idle" /\ dma = <<>>
                   \/ stat_q = "ready"
                THEN "valid" ELSE "sleep"
    /\ UNCHANGED <<ring, mailbox, dma, hartvars, ghosts>>

\* dm_p->stat_pvalid = 1.
DMValid ==
    /\ dm_pc = "valid"
    /\ stat_pvalid' = 1
    /\ DMGoto("clear")
    /\ UNCHANGED <<ring, mutex, stat_q, dm_wfi, irq, dma, hartvars, ghosts>>

\* dm_p->stat_q = 0.
DMClear ==
    /\ dm_pc = "clear"
    /\ stat_q' = "none"
    /\ DMGoto("sleep")
    /\ UNCHANGED <<ring, mutex, stat_pvalid, dm_wfi, irq, dma, hartvars, ghosts>>

\* if (!dm_p->queue_fill && ...: first operand.
DMSleepFill ==
    /\ dm_pc = "sleep"
    /\ DMGoto(IF queue_fill = 0 THEN "sleep_stat" ELSE LoopHead)
    /\ UNCHANGED <<ring, mailbox, dma, hartvars, ghosts>>

\* ... && !dm_p->stat_q): second operand.
DMSleepStat ==
    /\ dm_pc = "sleep_stat"
    /\ DMGoto(IF stat_q = "none" THEN "wfi_enter" ELSE LoopHead)
    /\ UNCHANGED <<ring, mailbox, dma, hartvars, ghosts>>

\* wfi_dm: announce the sleep.
DMWfiEnter ==
    /\ dm_pc = "wfi_enter"
    /\ dm_wfi' = dm_wfi + 1
    /\ DMGoto("wfi")
    /\ UNCHANGED <<ring, mutex, stat_q, stat_pvalid, irq, dma, hartvars, ghosts>>

\* wfi_dm: wfi returns when the interrupt is pending.
DMWfi ==
    /\ dm_pc = "wfi"
    /\ irq
    /\ DMGoto("wfi_clr")
    /\ UNCHANGED <<ring, mailbox, dma, hartvars, ghosts>>

\* wfi_dm: snrt_int_cluster_clr.
DMWfiClr ==
    /\ dm_pc = "wfi_clr"
    /\ irq' = FALSE
    /\ DMGoto("wfi_leave")
    /\ UNCHANGED <<ring, mutex, stat_q, stat_pvalid, dm_wfi, dma, hartvars, ghosts>>

\* wfi_dm: the sleep is over.
DMWfiLeave ==
    /\ dm_pc = "wfi_leave"
    /\ dm_wfi' = dm_wfi - 1
    /\ DMGoto(LoopHead)
    /\ UNCHANGED <<ring, mutex, stat_q, stat_pvalid, irq, dma, hartvars, ghosts>>

DM ==
    \/ DMPoll \/ DMIssue \/ DMBump \/ DMStat \/ DMValid \/ DMClear
    \/ DMSleepFill \/ DMSleepStat
    \/ DMWfiEnter \/ DMWfi \/ DMWfiClr \/ DMWfiLeave

\* The DMA engine (external) finishes its oldest transfer.
DMAComplete ==
    /\ dma # <<>>
    /\ dma' = Tail(dma)
    /\ UNCHANGED <<ring, mailbox, dmvars, hartvars, ghosts>>

----------------------------------------------------------------------------
(* The harts. *)

Goto(h, l) == pc' = [pc EXCEPT ![h] = l] /\ UNCHANGED <<op, copies>>
Return(h) ==
    /\ pc' = [pc EXCEPT ![h] = "idle"]
    /\ op' = [op EXCEPT ![h] = IF @ = "exit" THEN @ ELSE "none"]
    /\ UNCHANGED copies

\* The first step of each function: dm_start and dm_wait wake the DM core,
\* dm_memcpy*_async polls the fill level, dm_wait_ready takes the mutex and
\* dm_exit writes its request at once.
EntryPoint(o) ==
    CASE o = "memcpy"     -> "poll"
      [] o = "start"      -> "wake"
      [] o = "wait"       -> "wake"
      [] o = "wait_ready" -> "lock"
      [] o = "exit"       -> "exit"

\* A hart calls a dm function.  dm_exit is the last one, for all harts.
Call(h) ==
    /\ pc[h] = "idle"
    /\ \A k \in Harts : op[k] # "exit"
    /\ \E o \in Ops :
        /\ o = "memcpy" => copies[h] < MaxCopies
        /\ op' = [op EXCEPT ![h] = o]
        /\ pc' = [pc EXCEPT ![h] = EntryPoint(o)]
    /\ UNCHANGED <<ring, mailbox, dma, dmvars, copies, ghosts>>

\* Mutant of CopyPoll: the queue is never found full.
CopyNoPoll(h) ==
    /\ pc[h] = "poll"
    /\ Goto(h, "lock")
    /\ UNCHANGED <<ring, mailbox, dma, dmvars, ghosts>>

\* dm_memcpy*_async: the poll of queue_fill that ends the loop.
CopyPoll(h) ==
    /\ pc[h] = "poll"
    /\ queue_fill < QueueSize
    /\ Goto(h, "lock")
    /\ UNCHANGED <<ring, mailbox, dma, dmvars, ghosts>>

\* Mutant of Lock: the mutex is taken whatever it holds.
LockAlways(h) ==
    /\ pc[h] = "lock"
    /\ mutex' = 1
    /\ Goto(h, IF op[h] = "memcpy" THEN "insert" ELSE "unvalid")
    /\ UNCHANGED <<ring, stat_q, stat_pvalid, dm_wfi, irq, dma, dmvars, ghosts>>

\* _dm_mtx_lock().
Lock(h) ==
    /\ pc[h] = "lock"
    /\ mutex = 0
    /\ mutex' = 1
    /\ Goto(h, IF op[h] = "memcpy" THEN "insert" ELSE "unvalid")
    /\ UNCHANGED <<ring, stat_q, stat_pvalid, dm_wfi, irq, dma, dmvars, ghosts>>

\* dm_memcpy*_async: write the task at queue_front.
CopyInsert(h) ==
    /\ pc[h] = "insert"
    /\ LET task == <<h, copies[h] + 1>>
       IN  /\ queue' = [queue EXCEPT ![queue_front] = task]
           /\ pushed' = Append(pushed, task)
    /\ copies' = [copies EXCEPT ![h] = @ + 1]
    /\ pc' = [pc EXCEPT ![h] = "fill"]
    /\ UNCHANGED <<queue_back, queue_front, queue_fill, mailbox, dma, dmvars,
                   op, issued>>

\* dm_memcpy*_async: queue_fill + 1.
CopyFill(h) ==
    /\ pc[h] = "fill"
    /\ queue_fill' = queue_fill + 1
    /\ Goto(h, "front")
    /\ UNCHANGED <<queue, queue_back, queue_front, mailbox, dma, dmvars, ghosts>>

\* dm_memcpy*_async: bump queue_front, release the mutex, return.
CopyRelease(h) ==
    /\ pc[h] = "front"
    /\ queue_front' = NextSlot(queue_front)
    /\ mutex' = 0
    /\ Return(h)
    /\ UNCHANGED <<queue, queue_back, queue_fill, stat_q, stat_pvalid, dm_wfi,
                   irq, dma, dmvars, ghosts>>

\* wake_dm: the load that finds the DM core asleep.
Wake(h) ==
    /\ pc[h] \in {"wake", "rewake"}
    /\ dm_wfi # 0
    /\ Goto(h, IF pc[h] = "wake" THEN "set" ELSE "reset")
    /\ UNCHANGED <<ring, mailbox, dma, dmvars, ghosts>>

\* wake_dm: set the DM core's interrupt.  dm_start and dm_exit return, the
\* first wake-up of dm_wait goes on to the polls, the wake-up after a
\* request goes on to the answer.
SetInt(h) ==
    /\ pc[h] \in {"set", "reset"}
    /\ irq' = TRUE
    /\ IF pc[h] = "reset" THEN Goto(h, "answer")
       ELSE IF op[h] = "wait" THEN Goto(h, "empty") ELSE Return(h)
    /\ UNCHANGED <<ring, mutex, stat_q, stat_pvalid, dm_wfi, dma, dmvars, ghosts>>

\* dm_wait: the poll that finds the queue empty.
WaitEmpty(h) ==
    /\ pc[h] = "empty"
    /\ queue_fill = 0
    /\ Goto(h, "norequest")
    /\ UNCHANGED <<ring, mailbox, dma, dmvars, ghosts>>

\* dm_wait: the poll that finds no request pending.
WaitNoRequest(h) ==
    /\ pc[h] = "norequest"
    /\ stat_q = "none"
    /\ Goto(h, "lock")
    /\ UNCHANGED <<ring, mailbox, dma, dmvars, ghosts>>

\* dm_wait, dm_wait_ready: stat_pvalid = 0.
Unvalid(h) ==
    /\ pc[h] = "unvalid"
    /\ stat_pvalid' = 0
    /\ Goto(h, "request")
    /\ UNCHANGED <<ring, mutex, stat_q, dm_wfi, irq, dma, dmvars, ghosts>>

\* Mutant of Request: the wake-up is sent without looking at dm_wfi again.
RequestNoWake(h) ==
    /\ pc[h] = "request"
    /\ stat_q' = IF op[h] = "wait" THEN "wait_idle" ELSE "ready"
    /\ Goto(h, "answer")
    /\ UNCHANGED <<ring, mutex, stat_pvalid, dm_wfi, irq, dma, dmvars, ghosts>>

\* dm_wait, dm_wait_ready: write the request.
Request(h) ==
    /\ pc[h] = "request"
    /\ stat_q' = IF op[h] = "wait" THEN "wait_idle" ELSE "ready"
    /\ Goto(h, "rewake")
    /\ UNCHANGED <<ring, mutex, stat_pvalid, dm_wfi, irq, dma, dmvars, ghosts>>

\* dm_wait, dm_wait_ready: the load that finds the answer valid.
Answer(h) ==
    /\ pc[h] = "answer"
    /\ stat_pvalid # 0
    /\ Goto(h, "release")
    /\ UNCHANGED <<ring, mailbox, dma, dmvars, ghosts>>

\* dm_wait, dm_wait_ready: release the mutex, return.
WaitRelease(h) ==
    /\ pc[h] = "release"
    /\ mutex' = 0
    /\ Return(h)
    /\ UNCHANGED <<ring, stat_q, stat_pvalid, dm_wfi, irq, dma, dmvars, ghosts>>

\* dm_exit: write the request; no mutex is taken.
Exit(h) ==
    /\ pc[h] = "exit"
    /\ stat_q' = "exit"
    /\ Goto(h, "wake")
    /\ UNCHANGED <<ring, mutex, stat_pvalid, dm_wfi, irq, dma, dmvars, ghosts>>

\* The steps inside a function.
Inside(h) ==
    \/ CopyPoll(h) \/ Lock(h) \/ CopyInsert(h) \/ CopyFill(h) \/ CopyRelease(h)
    \/ Wake(h) \/ SetInt(h) \/ WaitEmpty(h) \/ WaitNoRequest(h)
    \/ Unvalid(h) \/ Request(h) \/ Answer(h) \/ WaitRelease(h) \/ Exit(h)

Next == DM \/ DMAComplete \/ \E h \in Harts : Call(h) \/ Inside(h)

\* The DM core and the DMA engine run on; a hart inside a function runs on,
\* and its spin on the mutex wins eventually (strong fairness of the lock).
Fairness ==
    /\ WF_vars(DM)
    /\ WF_vars(DMAComplete)
    /\ \A h \in Harts : WF_vars(Inside(h)) /\ SF_vars(Lock(h))

Spec == Init /\ [][Next]_vars /\ Fairness

----------------------------------------------------------------------------

DMLabels == {"poll", "issue", "bump", "stat", "valid", "clear", "sleep",
             "sleep_stat", "wfi_enter", "wfi", "wfi_clr", "wfi_leave", "exited"}
HartLabels == {"idle", "poll", "lock", "insert", "fill", "front", "wake",
               "rewake", "set", "reset", "empty", "norequest", "unvalid",
               "request", "answer", "release", "exit"}

\* The shape of the data mover struct, of the DM core and of the harts.
TypeOK ==
    /\ queue \in [Slots -> {NoTask} \cup (Harts \X (1..MaxCopies))]
    /\ queue_back \in Slots /\ queue_front \in Slots
    /\ queue_fill \in Nat
    /\ mutex \in {0, 1} /\ stat_pvalid \in {0, 1} /\ dm_wfi \in {0, 1}
    /\ stat_q \in {"none", "wait_idle", "ready", "exit"}
    /\ irq \in BOOLEAN /\ do_exit \in BOOLEAN /\ dm_pc \in DMLabels
    /\ pc \in [Harts -> HartLabels]
    /\ op \in [Harts -> AllOps \cup {"none"}]
    /\ copies \in [Harts -> 0..MaxCopies]

\* The DM core hands the transfers to the DMA engine exactly once and in the
\* order the harts queued them, whatever the interleaving of its ring index
\* and fill level with those of the harts.
InOrder == IsPrefix(issued, pushed)

Transfers(h) == {<<h, k>> : k \in 1..copies[h]}

\* When dm_wait returns, every transfer the calling hart had queued has been
\* issued and completed by the DMA engine.
WaitMeansComplete ==
    \A h \in Harts : pc[h] = "release" /\ op[h] = "wait" =>
        \A t \in Transfers(h) :
            t \in ToSet(issued) /\ t \notin ToSet(dma)

\* A sleeping DM core that has been asked something is about to be woken:
\* no request is left behind by a wake-up that came too early.
NoLostWakeup ==
    dm_pc = "wfi" /\ stat_q \in {"wait_idle", "ready"} /\ ~irq =>
        \E h \in Harts : pc[h] \in {"rewake", "reset"}

\* Every call of dm_wait returns.
WaitReturns ==
    \A h \in Harts : op[h] = "wait" ~> op[h] = "none"

\* dm_exit makes the DM core leave dm_main, and returns.
ExitIsClean ==
    \A h \in Harts : op[h] = "exit" ~> dm_pc = "exited" /\ pc[h] = "idle"

=============================================================================
