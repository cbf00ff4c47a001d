--------------------------- MODULE DataMoverProofs ---------------------------
(***************************************************************************)
(* What the data mover promises its harts, for any number of harts, any    *)
(* ring and any depth of the DMA engine.                                   *)
(*                                                                         *)
(* Sleep.  NoLostWakeup speaks of the DM core inside wfi; it becomes       *)
(* inductive once it also covers the core that has decided to sleep and    *)
(* has not yet announced it (WakeInv).  The type invariant needs two facts *)
(* of its own: dm_wfi counts exactly the DM core between its two atomic    *)
(* additions, and the DM core only removes a transfer it has seen in the   *)
(* ring.                                                                   *)
(*                                                                         *)
(* Order and completion.  The words of the ring are tied to the transfers  *)
(* queued and issued (RingInv): the fill level and the two indices are     *)
(* their numbers, corrected for the update a core is in the middle of.     *)
(* From there on, a dm_wait knows where its transfers are (RequestInv).    *)
(* Both need a ring that does not overrun; Roomy says when it does not.    *)
(***************************************************************************)
EXTENDS DataMover, FiniteSetTheorems, TLAPS

Asleep == {"wfi", "wfi_clr", "wfi_leave"}

Counts ==
    /\ dm_wfi = IF dm_pc \in Asleep THEN 1 ELSE 0
    /\ dm_pc \in {"issue", "bump"} => queue_fill > 0
    /\ \A h \in Harts : /\ pc[h] = "insert" => op[h] = "memcpy"
                        /\ pc[h] \in {"empty", "norequest"} => op[h] = "wait"
                        /\ /\ pc[h] \in {"poll", "lock", "insert"}
                           /\ op[h] = "memcpy"
                           => copies[h] < MaxCopies

WakeInv ==
    dm_pc \in {"wfi_enter", "wfi"} /\ stat_q \in {"wait_idle", "ready"} /\ ~irq
        => \E h \in Harts : pc[h] \in {"rewake", "reset"}

IInv == TypeOK /\ Counts /\ WakeInv

----------------------------------------------------------------------------

\* Initially the DM core is awake and nothing is requested.
LEMMA InitIInv == Init => IInv
<1> SUFFICES ASSUME Init PROVE IInv
  OBVIOUS
<1>1. TypeOK
  BY SizesAssumption, OpsAssumption
  DEF Init, TypeOK, Slots, DMLabels, HartLabels, AllOps
<1>2. Counts /\ WakeInv
  BY DEF Init, Counts, WakeInv, Asleep
<1> QED
  BY <1>1, <1>2 DEF IInv

\* A ring index stays a ring index.
LEMMA SlotStep == \A i \in Slots : NextSlot(i) \in Slots
BY SizesAssumption DEF Slots, NextSlot

\* The DM core's own steps.  It decides to sleep only when it has just seen
\* that no request is pending.
LEMMA DMStep == IInv /\ DM => IInv'
<1> SUFFICES ASSUME IInv, DM PROVE IInv'
  OBVIOUS
<1> USE DEF IInv, TypeOK, Counts, WakeInv, Asleep, DMLabels, DMGoto, LoopHead,
            ring, mailbox, hartvars, ghosts
<1>1. CASE DMPoll
  BY <1>1 DEF DMPoll
<1>2. CASE DMIssue
  BY <1>2 DEF DMIssue
<1>3. CASE DMBump
  BY <1>3, SlotStep DEF DMBump
<1>4. CASE DMStat
  BY <1>4 DEF DMStat
<1>5. CASE DMValid
  BY <1>5 DEF DMValid
<1>6. CASE DMClear
  BY <1>6 DEF DMClear
<1>7. CASE DMSleepFill
  BY <1>7 DEF DMSleepFill
<1>8. CASE DMSleepStat
  BY <1>8 DEF DMSleepStat
<1>9. CASE DMWfiEnter
  BY <1>9 DEF DMWfiEnter
<1>10. CASE DMWfi
  BY <1>10 DEF DMWfi
<1>11. CASE DMWfiClr
  BY <1>11 DEF DMWfiClr
<1>12. CASE DMWfiLeave
  BY <1>12 DEF DMWfiLeave
<1> QED
  BY <1>1, <1>2, <1>3, <1>4, <1>5, <1>6, <1>7, <1>8, <1>9, <1>10, <1>11, <1>12
  DEF DM

\* The steps of a hart.  A request comes with a wake-up that is still to be
\* sent, and sending it sets the interrupt.
LEMMA HartStep ==
    ASSUME IInv, NEW h \in Harts, Call(h) \/ Inside(h)
    PROVE  IInv'
<1> USE DEF IInv, TypeOK, Counts, WakeInv, Asleep, HartLabels, Goto, Return,
            ring, mailbox, dmvars, ghosts
<1>1. CASE Call(h)
  BY <1>1, OpsAssumption DEF Call, EntryPoint, AllOps
<1>2. CASE CopyPoll(h)
  BY <1>2 DEF CopyPoll
<1>3. CASE Lock(h)
  BY <1>3 DEF Lock
<1>4. CASE CopyInsert(h)
  BY <1>4, OpsAssumption DEF CopyInsert
<1>5. CASE CopyFill(h)
  BY <1>5 DEF CopyFill
<1>6. CASE CopyRelease(h)
  BY <1>6, SlotStep DEF CopyRelease
<1>7. CASE Wake(h)
  BY <1>7 DEF Wake
<1>8. CASE SetInt(h)
  BY <1>8 DEF SetInt
<1>9. CASE WaitEmpty(h)
  BY <1>9 DEF WaitEmpty
<1>10. CASE WaitNoRequest(h)
  BY <1>10 DEF WaitNoRequest
<1>11. CASE Unvalid(h)
  BY <1>11 DEF Unvalid
<1>12. CASE Request(h)
  BY <1>12 DEF Request
<1>13. CASE Answer(h)
  BY <1>13 DEF Answer
<1>14. CASE WaitRelease(h)
  BY <1>14 DEF WaitRelease
<1>15. CASE Exit(h)
  BY <1>15 DEF Exit
<1> QED
  BY <1>1, <1>2, <1>3, <1>4, <1>5, <1>6, <1>7, <1>8, <1>9, <1>10, <1>11,
     <1>12, <1>13, <1>14, <1>15 DEF Inside

\* The invariant is inductive.
LEMMA StepIInv == IInv /\ [Next]_vars => IInv'
<1> SUFFICES ASSUME IInv, [Next]_vars PROVE IInv'
  OBVIOUS
<1>1. CASE UNCHANGED vars
  BY <1>1 DEF IInv, TypeOK, Counts, WakeInv, vars, ring, mailbox, dmvars,
              hartvars, ghosts
<1>2. CASE DMAComplete
  BY <1>2 DEF DMAComplete, IInv, TypeOK, Counts, WakeInv, ring, mailbox,
              dmvars, hartvars, ghosts
<1> QED
  BY <1>1, <1>2, DMStep, HartStep DEF Next

\* The data mover struct keeps its shape: indices stay in the ring, the fill
\* level never drops below zero, and dm_wfi is 0 or 1.
THEOREM DataMoverTypes == Spec => []TypeOK
<1>1. IInv => TypeOK
  BY DEF IInv
<1> QED
  BY InitIInv, StepIInv, <1>1, PTL DEF Spec

\* A DM core asleep on an unanswered request is about to be woken, although
\* the request, the announcement of the sleep and the interrupt are three
\* separate words written by two cores.
THEOREM WakeupSafe == Spec => []NoLostWakeup
<1>1. IInv => NoLostWakeup
  BY DEF IInv, WakeInv, NoLostWakeup
<1> QED
  BY InitIInv, StepIInv, <1>1, PTL DEF Spec

----------------------------------------------------------------------------
(* Order and completion.  The ring is not protected against more harts than *)
(* slots: the fill level is polled outside the lock.  What follows holds    *)
(* while a hart that writes into the ring finds room there (NoOverrun).     *)

NoOverrun == \A h \in Harts : pc[h] = "insert" => queue_fill < QueueSize

Waiting == {"rewake", "reset", "answer"}
Locked == {"insert", "fill", "front", "unvalid", "request", "release"} \cup Waiting

\* At most one hart is between taking the mutex and giving it back, and it is
\* in a function that takes it.
MutexInv ==
    /\ \A h \in Harts : pc[h] \in Locked => mutex = 1
    /\ \A h, k \in Harts : pc[h] \in Locked /\ pc[k] \in Locked => h = k
    /\ \A h \in Harts :
        /\ pc[h] = "lock" => op[h] \in {"memcpy", "wait", "wait_ready"}
        /\ pc[h] \in {"poll", "insert", "fill", "front"} => op[h] = "memcpy"
        /\ pc[h] \in {"unvalid", "request", "release"} \cup Waiting
            => op[h] \in {"wait", "wait_ready"}

\* The queued transfers are the transfers of the harts, each once.
PushedInv ==
    /\ pushed \in Seq(Harts \X Nat) /\ issued \in Seq(Harts \X Nat)
    /\ dma \in Seq(Harts \X Nat)
    /\ \A i \in 1..Len(pushed) : pushed[i][2] \in 1..copies[pushed[i][1]]
    /\ \A i, j \in 1..Len(pushed) : pushed[i] = pushed[j] => i = j
    /\ \A h \in Harts : \A k \in 1..copies[h] :
        \E i \in 1..Len(pushed) : pushed[i] = <<h, k>>
    /\ \A h \in Harts : pc[h] \in {"fill", "front"} =>
        Len(pushed) > 0 /\ pushed[Len(pushed)][1] = h

\* What the words of the ring owe to the transfers queued and issued.
Unfilled == IF \E h \in Harts : pc[h] = "fill" THEN 1 ELSE 0
Unfronted == IF \E h \in Harts : pc[h] \in {"fill", "front"} THEN 1 ELSE 0
Unbumped == IF dm_pc = "bump" THEN 1 ELSE 0

\* The ring holds the transfers that have been queued and not been issued.
RingInv ==
    /\ queue_fill = (Len(pushed) - Unfilled) - (Len(issued) - Unbumped)
    /\ queue_front = (Len(pushed) - Unfronted) % QueueSize
    /\ queue_back = (Len(issued) - Unbumped) % QueueSize
    /\ dm_pc = "bump" => Len(issued) > 0
    /\ \A i \in 1..Len(issued) : issued[i] = pushed[i]
    /\ \A i \in (Len(issued) + 1)..Len(pushed) :
        queue[(i - 1) % QueueSize] = pushed[i]

\* A hart in dm_wait that has found the ring empty has none of its transfers
\* in it any more; one whose request is answered has none in the DMA engine.
Moved(h) ==
    \A k \in 1..copies[h] : \E i \in 1..Len(issued) : issued[i] = <<h, k>>
Settled(h) == \A i \in 1..Len(dma) : dma[i][1] # h

\* A request belongs to the hart that holds the mutex, until the DM core has
\* answered it; the answer to dm_wait is given after the DMA has run empty.
RequestInv ==
    /\ \A h \in Harts : pc[h] = "request" => stat_pvalid = 0
    /\ stat_q \in {"wait_idle", "ready"} /\ dm_pc # "clear" =>
        /\ stat_pvalid = 0
        /\ \E h \in Harts :
            /\ pc[h] \in Waiting
            /\ op[h] = IF stat_q = "ready" THEN "wait_ready" ELSE "wait"
    /\ dm_pc = "valid" =>
        /\ stat_pvalid = 0
        /\ \E h \in Harts :
            pc[h] \in Waiting /\ (op[h] = "wait" => Settled(h))
    /\ \A h \in Harts : op[h] = "wait" =>
        /\ pc[h] \in Locked \cup {"norequest", "lock"} => Moved(h)
        /\ pc[h] \in Waiting /\ stat_pvalid # 0 => Settled(h)
        /\ pc[h] = "release" => Settled(h)

OrderInv == MutexInv /\ PushedInv /\ RingInv /\ RequestInv

----------------------------------------------------------------------------
(* Ring arithmetic. *)

\* Division leaves a remainder.
LEMMA Divide ==
    \A n \in Nat, q \in Nat \ {0} :
        n = q * (n \div q) + (n % q) /\ n % q \in 0..(q - 1) /\ n \div q \in Nat
OBVIOUS

\* ... and only one.
LEMMA ModUnique ==
    ASSUME NEW n \in Nat, NEW q \in Nat \ {0}, NEW d \in Int,
           NEW r \in 0..(q - 1), n = q * d + r
    PROVE  n % q = r
<1> DEFINE e == n \div q
           t == n % q
<1>1. n = q * e + t /\ t \in 0..(q - 1) /\ e \in Int
  BY Divide
<1> HIDE DEF e, t
<1>2. ASSUME e < d PROVE q * e + q <= q * d
  <2>1. e + 1 <= d
    BY <1>1, <1>2
  <2>2. q * (e + 1) <= q * d
    BY <1>1, <2>1
  <2> QED
    BY <1>1, <2>2
<1>3. ASSUME d < e PROVE q * d + q <= q * e
  <2>1. d + 1 <= e
    BY <1>1, <1>3
  <2>2. q * (d + 1) <= q * e
    BY <1>1, <2>1
  <2> QED
    BY <1>1, <2>2
<1>4. d = e
  BY <1>1, <1>2, <1>3
<1>5. t = r
  BY <1>1, <1>4
<1> QED
  BY <1>5 DEF t

\* The slot after the n-th transfer's is the next transfer's.
LEMMA NextSlotMod ==
    ASSUME NEW n \in Nat
    PROVE  NextSlot(n % QueueSize) = (n + 1) % QueueSize
<1> DEFINE d == n \div QueueSize
           r == n % QueueSize
<1>1. n = QueueSize * d + r /\ r \in 0..(QueueSize - 1) /\ d \in Nat
  BY Divide, SizesAssumption
<1> HIDE DEF d, r
<1>2. CASE r + 1 < QueueSize
  <2>1. (n + 1) % QueueSize = r + 1
    <3>1. n + 1 = QueueSize * d + (r + 1) /\ r + 1 \in 0..(QueueSize - 1)
      BY <1>1, <1>2, SizesAssumption
    <3> QED
      BY <1>1, <3>1, ModUnique, SizesAssumption
  <2>2. (r + 1) % QueueSize = r + 1
    <3>1. r + 1 = QueueSize * 0 + (r + 1) /\ r + 1 \in 0..(QueueSize - 1)
      BY <1>1, <1>2, SizesAssumption
    <3> QED
      BY <1>1, <3>1, ModUnique, SizesAssumption
  <2> QED
    BY <2>1, <2>2 DEF NextSlot, r
<1>3. CASE r + 1 = QueueSize
  <2>1. (n + 1) % QueueSize = 0
    <3>1. n + 1 = QueueSize * (d + 1) + 0 /\ d + 1 \in Int /\ n + 1 \in Nat
      BY <1>1, <1>3, SizesAssumption
    <3> QED
      BY <3>1, ModUnique, SizesAssumption
  <2>2. (r + 1) % QueueSize = 0
    <3>1. r + 1 = QueueSize * 1 + 0 /\ r + 1 \in Nat
      BY <1>1, <1>3, SizesAssumption
    <3> QED
      BY <3>1, ModUnique, SizesAssumption
  <2> QED
    BY <2>1, <2>2 DEF NextSlot, r
<1> QED
  BY <1>1, <1>2, <1>3, SizesAssumption

\* Two of fewer transfers than there are slots have different slots.
LEMMA SlotsDiffer ==
    ASSUME NEW a \in Nat, NEW b \in Nat, a < b, b - a < QueueSize
    PROVE  a % QueueSize # b % QueueSize
<1> SUFFICES ASSUME a % QueueSize = b % QueueSize PROVE FALSE
  OBVIOUS
<1> DEFINE d == a \div QueueSize
           e == b \div QueueSize
           r == a % QueueSize
<1>1. a = QueueSize * d + r /\ r \in 0..(QueueSize - 1) /\ d \in Nat
  BY Divide, SizesAssumption, Zenon
<1>2. b = QueueSize * e + r /\ r \in 0..(QueueSize - 1) /\ e \in Nat
  BY Divide, SizesAssumption, Zenon
<1> HIDE DEF d, e, r
<1>3. d < e
  <2>1. e <= d => QueueSize * e <= QueueSize * d
    BY <1>1, <1>2, SizesAssumption
  <2> QED
    BY <1>1, <1>2, <2>1, SizesAssumption
<1>4. QueueSize * d + QueueSize <= QueueSize * e
  <2>1. d + 1 <= e
    BY <1>1, <1>2, <1>3
  <2>2. QueueSize * (d + 1) <= QueueSize * e
    BY <1>1, <1>2, <2>1, SizesAssumption
  <2> QED
    BY <1>1, <1>2, <2>2, SizesAssumption
<1> QED
  BY <1>1, <1>2, <1>4, SizesAssumption

----------------------------------------------------------------------------
(* The steps. *)

\* Neither the DM core nor the DMA engine touches what belongs to the harts.
LEMMA Frame ==
    DM \/ DMAComplete =>
        UNCHANGED <<pc, op, copies, mutex, pushed, queue, queue_front>>
BY DEF DM, DMPoll, DMIssue, DMBump, DMStat, DMValid, DMClear, DMSleepFill,
       DMSleepStat, DMWfiEnter, DMWfi, DMWfiClr, DMWfiLeave, DMAComplete,
       ring, mailbox, hartvars, ghosts

\* The mutex is taken when it is free, by a hart whose function gives it back.
LEMMA MutexStep ==
    ASSUME IInv, MutexInv, [Next]_vars
    PROVE  MutexInv'
<1>1. CASE UNCHANGED vars
  BY <1>1 DEF vars, mailbox, hartvars, MutexInv
<1>2. CASE DM \/ DMAComplete
  BY <1>2, Frame DEF MutexInv
<1>3. ASSUME NEW h \in Harts, Call(h) \/ Inside(h) PROVE MutexInv'
  <2> USE DEF IInv, TypeOK, MutexInv, Locked, Waiting, Goto, Return, mailbox
  <2>1. CASE Call(h)
    <3>1. PICK o \in Ops : /\ pc' = [pc EXCEPT ![h] = EntryPoint(o)]
                          /\ op' = [op EXCEPT ![h] = o]
      BY <2>1 DEF Call
    <3>2. \/ EntryPoint(o) = "poll" /\ o = "memcpy"
          \/ EntryPoint(o) \in {"wake", "exit"}
          \/ EntryPoint(o) = "lock" /\ o = "wait_ready"
      BY OpsAssumption DEF EntryPoint, AllOps
    <3> QED
      BY <2>1, <3>1, <3>2 DEF Call
  <2>2. CASE CopyPoll(h)
    BY <2>2 DEF CopyPoll
  <2>3. CASE Lock(h)
    BY <2>3 DEF Lock
  <2>4. CASE CopyInsert(h)
    BY <2>4 DEF CopyInsert
  <2>5. CASE CopyFill(h)
    BY <2>5 DEF CopyFill
  <2>6. CASE CopyRelease(h)
    BY <2>6 DEF CopyRelease
  <2>7. CASE Wake(h)
    BY <2>7 DEF Wake
  <2>8. CASE SetInt(h)
    BY <2>8 DEF SetInt
  <2>9. CASE WaitEmpty(h)
    BY <2>9 DEF WaitEmpty
  <2>10. CASE WaitNoRequest(h)
    BY <2>10 DEF WaitNoRequest, Counts
  <2>11. CASE Unvalid(h)
    BY <2>11 DEF Unvalid
  <2>12. CASE Request(h)
    BY <2>12 DEF Request
  <2>13. CASE Answer(h)
    BY <2>13 DEF Answer
  <2>14. CASE WaitRelease(h)
    BY <2>14 DEF WaitRelease
  <2>15. CASE Exit(h)
    BY <2>15 DEF Exit
  <2> QED
    BY <1>3, <2>1, <2>2, <2>3, <2>4, <2>5, <2>6, <2>7, <2>8, <2>9, <2>10, <2>11, <2>12, <2>13, <2>14, <2>15
    DEF Inside
<1> QED
  BY <1>1, <1>2, <1>3 DEF Next

\* The steps of a hart that do not write to the ring.
Outside(h) ==
    \/ Call(h) \/ CopyPoll(h) \/ Lock(h) \/ Wake(h) \/ SetInt(h)
    \/ WaitEmpty(h) \/ WaitNoRequest(h) \/ Unvalid(h) \/ Request(h)
    \/ Answer(h) \/ WaitRelease(h) \/ Exit(h)

\* They leave the ring alone.
LEMMA OutsideFrame ==
    ASSUME IInv, NEW h \in Harts, Outside(h)
    PROVE  /\ UNCHANGED <<queue, queue_back, queue_front, queue_fill, dma, dm_pc,
                         pushed, issued, copies>>
           /\ \A k \in Harts : (pc'[k] = "fill") <=> (pc[k] = "fill")
           /\ \A k \in Harts : (pc'[k] = "front") <=> (pc[k] = "front")
<1> USE DEF IInv, TypeOK, Goto, Return, ring, mailbox, dmvars, ghosts
<1>1. CASE Call(h)
  <2>1. PICK o \in Ops : pc' = [pc EXCEPT ![h] = EntryPoint(o)]
    BY <1>1 DEF Call
  <2>2. EntryPoint(o) \in {"poll", "wake", "lock", "exit"}
    BY OpsAssumption DEF EntryPoint, AllOps
  <2> QED
    BY <1>1, <2>1, <2>2 DEF Call
<1>2. CASE CopyPoll(h)
  BY <1>2 DEF CopyPoll
<1>3. CASE Lock(h)
  BY <1>3 DEF Lock
<1>4. CASE Wake(h)
  BY <1>4 DEF Wake
<1>5. CASE SetInt(h)
  BY <1>5 DEF SetInt
<1>6. CASE WaitEmpty(h)
  BY <1>6 DEF WaitEmpty
<1>7. CASE WaitNoRequest(h)
  BY <1>7 DEF WaitNoRequest
<1>8. CASE Unvalid(h)
  BY <1>8 DEF Unvalid
<1>9. CASE Request(h)
  BY <1>9 DEF Request
<1>10. CASE Answer(h)
  BY <1>10 DEF Answer
<1>11. CASE WaitRelease(h)
  BY <1>11 DEF WaitRelease
<1>12. CASE Exit(h)
  BY <1>12 DEF Exit
<1> QED
  BY <1>1, <1>2, <1>3, <1>4, <1>5, <1>6, <1>7, <1>8, <1>9, <1>10, <1>11, <1>12
  DEF Outside

\* Unless a hart writes into the ring nothing changes there.
LEMMA HartCases ==
    ASSUME NEW h \in Harts, Call(h) \/ Inside(h)
    PROVE  Outside(h) \/ CopyInsert(h) \/ CopyFill(h) \/ CopyRelease(h)
BY DEF Inside, Outside

\* The DM core issues the oldest transfer that has not been issued.
LEMMA OldestIsIssued ==
    ASSUME IInv, PushedInv, RingInv, dm_pc = "issue"
    PROVE  /\ Len(issued) + 1 \in 1..Len(pushed)
           /\ queue[queue_back] = pushed[Len(issued) + 1]
<1>1. Len(issued) \in Nat /\ Len(pushed) \in Nat
  BY DEF PushedInv
<1>2. queue_fill > 0 /\ Unfilled \in {0, 1} /\ Unbumped = 0
  BY DEF IInv, Counts, Unfilled, Unbumped
<1>3. Len(issued) + 1 \in 1..Len(pushed)
  BY <1>1, <1>2 DEF RingInv
<1>4. queue_back = ((Len(issued) + 1) - 1) % QueueSize
  BY <1>1, <1>2 DEF RingInv
<1> QED
  BY <1>3, <1>4 DEF RingInv

\* Each transfer is queued once.
LEMMA PushedStep ==
    ASSUME IInv, MutexInv, PushedInv, RingInv, [Next]_vars
    PROVE  PushedInv'
<1> USE DEF PushedInv
<1>1. CASE UNCHANGED vars
  BY <1>1 DEF vars, hartvars, ghosts
<1>2. CASE DMIssue
  <2>1. queue[queue_back] \in Harts \X Nat
    <3>1. \A i \in 1..Len(pushed) : pushed[i] \in Harts \X Nat
      OBVIOUS
    <3> QED
      BY <1>2, <3>1, OldestIsIssued DEF DMIssue
  <2>2. issued' \in Seq(Harts \X Nat) /\ dma' \in Seq(Harts \X Nat)
    BY <1>2, <2>1 DEF DMIssue
  <2> QED
    BY <1>2, <2>2 DEF DMIssue, hartvars
<1>3. CASE DM /\ ~DMIssue
  <2>1. UNCHANGED <<dma, issued, pushed, copies, pc>>
    BY <1>3 DEF DM, DMPoll, DMBump, DMStat, DMValid, DMClear, DMSleepFill,
                DMSleepStat, DMWfiEnter, DMWfi, DMWfiClr, DMWfiLeave,
                hartvars, ghosts
  <2> QED
    BY <2>1
<1>4. CASE DMAComplete
  <2>1. dma' \in Seq(Harts \X Nat)
    BY <1>4 DEF DMAComplete
  <2> QED
    BY <1>4, <2>1 DEF DMAComplete, hartvars, ghosts
<1>5. ASSUME NEW h \in Harts, Outside(h) PROVE PushedInv'
  <2>1. UNCHANGED <<dma, issued, pushed, copies>>
    BY <1>5, OutsideFrame
  <2>2. \A k \in Harts :
        pc'[k] \in {"fill", "front"} => pc[k] \in {"fill", "front"}
    <3> HIDE DEF PushedInv
    <3> QED
      BY <1>5, OutsideFrame
  <2> QED
    BY <2>1, <2>2
<1>6. ASSUME NEW h \in Harts, CopyFill(h) \/ CopyRelease(h) PROVE PushedInv'
  <2>1. UNCHANGED <<dma, issued, pushed, copies>>
    BY <1>6 DEF CopyFill, CopyRelease, Goto, Return, ghosts
  <2>2. \A k \in Harts :
        pc'[k] \in {"fill", "front"} => pc[k] \in {"fill", "front"}
    BY <1>6 DEF CopyFill, CopyRelease, Goto, Return, IInv, TypeOK
  <2> QED
    BY <2>1, <2>2
<1>7. ASSUME NEW h \in Harts, CopyInsert(h) PROVE PushedInv'
  <2> DEFINE task == <<h, copies[h] + 1>>
             n == Len(pushed)
  <2>1. /\ pc[h] = "insert" /\ pc' = [pc EXCEPT ![h] = "fill"]
        /\ copies' = [copies EXCEPT ![h] = @ + 1]
        /\ pushed' = Append(pushed, task)
        /\ issued' = issued /\ dma' = dma
    BY <1>7 DEF CopyInsert
  <2>2. copies \in [Harts -> Nat] /\ pc \in [Harts -> HartLabels]
    BY OpsAssumption DEF IInv, TypeOK
  <2>3. /\ pushed' \in Seq(Harts \X Nat) /\ n \in Nat /\ Len(pushed') = n + 1
        /\ \A i \in 1..n : pushed'[i] = pushed[i] /\ pushed[i] \in Harts \X Nat
        /\ pushed'[n + 1] = task
    BY <2>1, <2>2
  <2>4. /\ \A i \in 1..n : pushed[i][2] \in 1..copies[pushed[i][1]]
        /\ \A i, j \in 1..n : pushed[i] = pushed[j] => i = j
        /\ \A g \in Harts : \A k \in 1..copies[g] :
            \E i \in 1..n : pushed[i] = <<g, k>>
        /\ issued \in Seq(Harts \X Nat) /\ dma \in Seq(Harts \X Nat)
    OBVIOUS
  <2>5. task[1] = h /\ task[2] = copies[h] + 1 /\ task = <<h, copies[h] + 1>>
    OBVIOUS
  <2>6. \A i \in 1..n : pushed[i] # task
    BY <2>2, <2>4, <2>5
  <2> HIDE DEF n, task, PushedInv
  <2>7. \A g \in Harts : copies'[g] = IF g = h THEN copies[g] + 1 ELSE copies[g]
    BY <2>1, <2>2
  <2>8. \A i \in 1..(n + 1) : pushed'[i][2] \in 1..copies'[pushed'[i][1]]
    <3>1. ASSUME NEW i \in 1..n
          PROVE  pushed'[i][2] \in 1..copies'[pushed'[i][1]]
      <4>1. /\ pushed'[i] = pushed[i] /\ pushed[i][1] \in Harts
            /\ pushed[i][2] \in 1..copies[pushed[i][1]]
        BY <2>3, <2>4
      <4>2. copies'[pushed[i][1]] \in Nat /\ copies'[pushed[i][1]] >= copies[pushed[i][1]]
        BY <2>2, <2>7, <4>1
      <4> QED
        BY <2>2, <4>1, <4>2
    <3>2. pushed'[n + 1][2] \in 1..copies'[pushed'[n + 1][1]]
      BY <2>2, <2>3, <2>5, <2>7
    <3> QED
      BY <2>3, <3>1, <3>2
  <2>9. \A i, j \in 1..(n + 1) : pushed'[i] = pushed'[j] => i = j
    <3>1. SUFFICES ASSUME NEW i \in 1..(n + 1), NEW j \in 1..(n + 1),
                          pushed'[i] = pushed'[j]
                   PROVE  i = j
      OBVIOUS
    <3>2. (i \in 1..n \/ i = n + 1) /\ (j \in 1..n \/ j = n + 1)
      BY <2>3
    <3>3. CASE i \in 1..n /\ j \in 1..n
      BY <2>3, <2>4, <3>1, <3>3
    <3>4. ~(i \in 1..n /\ j = n + 1) /\ ~(i = n + 1 /\ j \in 1..n)
      BY <2>3, <2>6, <3>1
    <3> QED
      BY <3>2, <3>3, <3>4
  <2>10. ASSUME NEW g \in Harts, NEW k \in 1..copies'[g]
         PROVE  \E i \in 1..(n + 1) : pushed'[i] = <<g, k>>
    <3>1. CASE k \in 1..copies[g]
      <4>1. PICK i \in 1..n : pushed[i] = <<g, k>>
        BY <2>4, <3>1
      <4>2. i \in 1..(n + 1) /\ pushed'[i] = <<g, k>>
        BY <2>3, <4>1
      <4> QED
        BY <4>2
    <3>2. CASE k \notin 1..copies[g]
      <4>1. g = h /\ k = copies[h] + 1
        BY <2>2, <2>7, <3>2
      <4>2. n + 1 \in 1..(n + 1) /\ pushed'[n + 1] = <<g, k>>
        BY <2>3, <2>5, <4>1
      <4> QED
        BY <4>2
    <3> QED
      BY <3>1, <3>2
  <2>11. \A g \in Harts : pc'[g] \in {"fill", "front"} => pushed'[n + 1][1] = g
    <3>1. \A g \in Harts : pc'[g] \in {"fill", "front"} => g = h
      BY <2>1, <2>2 DEF MutexInv, Locked
    <3> QED
      BY <2>3, <2>5, <3>1
  <2>12. issued' \in Seq(Harts \X Nat) /\ dma' \in Seq(Harts \X Nat)
    BY <2>1, <2>4
  <2>13. /\ pushed' \in Seq(Harts \X Nat) /\ Len(pushed') = n + 1
         /\ Len(pushed') > 0
    BY <2>3
  <2> QED
    BY <2>8, <2>9, <2>10, <2>11, <2>12, <2>13 DEF PushedInv
<1> QED
  BY <1>1, <1>2, <1>3, <1>4, <1>5, <1>6, <1>7, HartCases DEF Next

\* Where neither a hart nor the DM core is in the middle of an update of the
\* ring before or after a step.
LEMMA RingFrame ==
    ASSUME RingInv,
           UNCHANGED <<queue, queue_back, queue_front, queue_fill, pushed, issued>>,
           Unfilled' = Unfilled, Unfronted' = Unfronted,
           dm_pc' = "bump" <=> dm_pc = "bump"
    PROVE  RingInv'
<1>1. Unbumped' = Unbumped
  BY DEF Unbumped
<1> QED
  BY <1>1 DEF RingInv

\* The words of the ring follow the transfers queued and issued.
LEMMA RingStep ==
    ASSUME IInv, MutexInv, PushedInv, RingInv, NoOverrun, [Next]_vars
    PROVE  RingInv'
<1> DEFINE P == Len(pushed)
           I == Len(issued)
<1>0. P \in Nat /\ I \in Nat
  BY DEF PushedInv
<1>1. CASE UNCHANGED vars
  BY <1>1, RingFrame DEF vars, ring, dmvars, hartvars, ghosts, Unfilled, Unfronted
<1>2. CASE DM \/ DMAComplete
  <2>1. Unfilled' = Unfilled /\ Unfronted' = Unfronted
    BY <1>2, Frame DEF Unfilled, Unfronted
  <2>2. CASE DMIssue
    <3>1. /\ dm_pc = "issue" /\ dm_pc' = "bump" /\ Unbumped = 0 /\ Unbumped' = 1
          /\ issued' = Append(issued, queue[queue_back])
          /\ UNCHANGED <<queue, queue_back, queue_front, queue_fill, pushed>>
      BY <2>2 DEF DMIssue, DMGoto, ring, Unbumped
    <3>2. I + 1 \in 1..P /\ queue[queue_back] = pushed[I + 1]
      BY <3>1, OldestIsIssued
    <3>3. /\ Len(issued') = I + 1
          /\ \A i \in 1..I : issued'[i] = issued[i]
          /\ issued'[I + 1] = pushed[I + 1]
      BY <3>1, <3>2 DEF PushedInv
    <3>4. \A i \in 1..(I + 1) : issued'[i] = pushed[i]
      <4>1. \A i \in 1..(I + 1) : i \in 1..I \/ i = I + 1
        BY <1>0
      <4> QED
        BY <3>3, <4>1 DEF RingInv
    <3>5. \A i \in ((I + 1) + 1)..P : queue[(i - 1) % QueueSize] = pushed[i]
      BY <1>0 DEF RingInv
    <3>6. /\ queue_fill = (P - Unfilled) - ((I + 1) - 1)
          /\ queue_back = ((I + 1) - 1) % QueueSize
          /\ queue_front = (P - Unfronted) % QueueSize
      BY <1>0, <3>1 DEF RingInv, Unfilled
    <3> HIDE DEF P, I
    <3>7. Len(pushed') = P /\ pushed' = pushed
      BY <3>1 DEF P
    <3> QED
      BY <1>0, <2>1, <3>1, <3>3, <3>4, <3>5, <3>6, <3>7 DEF RingInv
  <2>3. CASE DMBump
    <3>1. /\ dm_pc = "bump" /\ dm_pc' = "stat" /\ Unbumped = 1 /\ Unbumped' = 0
          /\ queue_back' = NextSlot(queue_back) /\ queue_fill' = queue_fill - 1
          /\ UNCHANGED <<queue, queue_front, pushed, issued>>
      BY <2>3 DEF DMBump, DMGoto, ghosts, Unbumped
    <3>2. queue_back' = I % QueueSize
      <4>1. I - 1 \in Nat /\ queue_back = (I - 1) % QueueSize
        BY <1>0, <3>1 DEF RingInv
      <4> QED
        BY <1>0, <3>1, <4>1, NextSlotMod
    <3>3. queue_fill' = (P - Unfilled) - (I - 0)
      BY <1>0, <3>1 DEF RingInv, Unfilled
    <3> QED
      BY <1>0, <2>1, <3>1, <3>2, <3>3 DEF RingInv
  <2>4. CASE ~DMIssue /\ ~DMBump
    <3>1. /\ UNCHANGED <<queue, queue_back, queue_front, queue_fill, pushed, issued>>
          /\ dm_pc' = "bump" <=> dm_pc = "bump"
      BY <1>2, <2>4 DEF DM, DMPoll, DMStat, DMValid, DMClear, DMSleepFill,
                DMSleepStat, DMWfiEnter, DMWfi, DMWfiClr, DMWfiLeave, DMGoto,
                LoopHead, DMAComplete, ring, dmvars, hartvars, ghosts
    <3> QED
      BY <2>1, <3>1, RingFrame
  <2> QED
    BY <2>2, <2>3, <2>4
<1>3. ASSUME NEW h \in Harts, Outside(h) PROVE RingInv'
  <2>1. /\ UNCHANGED <<queue, queue_back, queue_front, queue_fill, dm_pc,
                      pushed, issued>>
        /\ \A k \in Harts : (pc'[k] = "fill") <=> (pc[k] = "fill")
        /\ \A k \in Harts : (pc'[k] = "front") <=> (pc[k] = "front")
    BY <1>3, OutsideFrame
  <2>2. Unfilled' = Unfilled /\ Unfronted' = Unfronted
    BY <2>1 DEF Unfilled, Unfronted
  <2> QED
    BY <2>1, <2>2, RingFrame
<1>4. ASSUME NEW h \in Harts, CopyInsert(h) PROVE RingInv'
  <2> DEFINE task == <<h, copies[h] + 1>>
  <2>1. /\ pc[h] = "insert" /\ pc' = [pc EXCEPT ![h] = "fill"]
        /\ queue' = [queue EXCEPT ![queue_front] = task]
        /\ pushed' = Append(pushed, task)
        /\ UNCHANGED <<queue_back, queue_front, queue_fill, issued, dm_pc>>
    BY <1>4 DEF CopyInsert, dmvars
  <2>2. /\ Unfilled = 0 /\ Unfronted = 0
        /\ Unfilled' = 1 /\ Unfronted' = 1 /\ Unbumped' = Unbumped
        /\ Unbumped \in {0, 1}
    <3>1. \A k \in Harts : pc[k] \notin {"fill", "front"}
      BY <2>1 DEF MutexInv, Locked
    <3>2. pc'[h] = "fill"
      BY <2>1 DEF IInv, TypeOK
    <3> QED
      BY <2>1, <3>1, <3>2 DEF Unfilled, Unfronted, Unbumped
  <2>3. /\ Len(pushed') = P + 1 /\ pushed'[P + 1] = task
        /\ \A i \in 1..P : pushed'[i] = pushed[i]
    <3>1. copies[h] + 1 \in Nat
      BY OpsAssumption DEF IInv, TypeOK
    <3>2. task \in Harts \X Nat
      BY <3>1
    <3> HIDE DEF task
    <3> QED
      BY <2>1, <3>2 DEF PushedInv
  <2> HIDE DEF task
  <2>4. queue_front = P % QueueSize /\ queue \in [Slots -> {NoTask} \cup (Harts \X (1..MaxCopies))]
        /\ queue_front \in Slots /\ queue_fill = P - (I - Unbumped)
    BY <1>0, <2>2 DEF RingInv, IInv, TypeOK
  <2>5. P - I < QueueSize /\ I <= P
    <3>1. queue_fill \in Nat /\ queue_fill < QueueSize
      BY <2>1 DEF NoOverrun, IInv, TypeOK
    <3>2. Unbumped = 1 => queue_fill > 0
      BY DEF IInv, Counts, Unbumped
    <3> QED
      BY <1>0, <2>2, <2>4, <3>1, <3>2, SizesAssumption
  <2>6. \A i \in 1..I : issued'[i] = pushed'[i]
    BY <1>0, <2>1, <2>3, <2>5 DEF RingInv
  <2>7. ASSUME NEW i \in (I + 1)..(P + 1)
        PROVE  queue'[(i - 1) % QueueSize] = pushed'[i]
    <3>1. CASE i = P + 1
      <4>1. (i - 1) % QueueSize = queue_front
        BY <1>0, <2>4, <3>1
      <4> QED
        BY <2>1, <2>3, <2>4, <3>1, <4>1
    <3>2. CASE i # P + 1
      <4>1. i \in (I + 1)..P /\ i \in 1..P /\ i - 1 \in Nat
        BY <1>0, <3>2
      <4>2. (i - 1) % QueueSize # P % QueueSize
        <5>1. i - 1 < P /\ P - (i - 1) < QueueSize
          BY <1>0, <2>5, <4>1, SizesAssumption
        <5> QED
          BY <1>0, <4>1, <5>1, SlotsDiffer
      <4>3. queue[(i - 1) % QueueSize] = pushed[i]
        BY <4>1 DEF RingInv
      <4>4. queue'[(i - 1) % QueueSize] = queue[(i - 1) % QueueSize]
        <5>1. (i - 1) % QueueSize \in Slots
          BY <4>1, Divide, SizesAssumption DEF Slots
        <5> QED
          BY <2>1, <2>4, <4>2, <5>1
      <4> QED
        BY <2>3, <4>1, <4>3, <4>4
    <3> QED
      BY <3>1, <3>2
  <2>8. /\ queue_fill' = ((P + 1) - 1) - (I - Unbumped)
        /\ queue_front' = ((P + 1) - 1) % QueueSize
        /\ queue_back' = (I - Unbumped) % QueueSize
        /\ dm_pc' = "bump" => I > 0
    BY <1>0, <2>1, <2>2, <2>4 DEF RingInv
  <2> HIDE DEF P, I
  <2>9. Len(issued') = I
    BY <2>1 DEF I
  <2> QED
    BY <2>2, <2>3, <2>6, <2>7, <2>8, <2>9 DEF RingInv
<1>5. ASSUME NEW h \in Harts, CopyFill(h) PROVE RingInv'
  <2>1. /\ pc[h] = "fill" /\ pc' = [pc EXCEPT ![h] = "front"]
        /\ queue_fill' = queue_fill + 1
        /\ UNCHANGED <<queue, queue_back, queue_front, pushed, issued, dm_pc>>
    BY <1>5 DEF CopyFill, Goto, dmvars, ghosts
  <2>2. /\ Unfilled = 1 /\ Unfronted = 1
        /\ Unfilled' = 0 /\ Unfronted' = 1 /\ Unbumped' = Unbumped
        /\ Unbumped \in {0, 1}
    <3>1. \A k \in Harts : k # h => pc[k] # "fill"
      BY <2>1 DEF MutexInv, Locked
    <3>2. pc'[h] = "front" /\ \A k \in Harts : k # h => pc'[k] = pc[k]
      BY <2>1 DEF IInv, TypeOK
    <3> QED
      BY <2>1, <3>1, <3>2 DEF Unfilled, Unfronted, Unbumped
  <2>3. queue_fill' = (P - 0) - (I - Unbumped)
    <3>1. queue_fill = (P - 1) - (I - Unbumped)
      BY <2>2 DEF RingInv
    <3> QED
      BY <1>0, <2>1, <2>2, <3>1
  <2> QED
    BY <2>1, <2>2, <2>3 DEF RingInv
<1>6. ASSUME NEW h \in Harts, CopyRelease(h) PROVE RingInv'
  <2>1. /\ pc[h] = "front" /\ pc' = [pc EXCEPT ![h] = "idle"]
        /\ queue_front' = NextSlot(queue_front)
        /\ UNCHANGED <<queue, queue_back, queue_fill, pushed, issued, dm_pc>>
    BY <1>6 DEF CopyRelease, Return, dmvars, ghosts
  <2>2. /\ Unfilled = 0 /\ Unfronted = 1
        /\ Unfilled' = 0 /\ Unfronted' = 0 /\ Unbumped' = Unbumped
    <3>1. \A k \in Harts : k # h => pc[k] \notin {"fill", "front"}
      BY <2>1 DEF MutexInv, Locked
    <3>2. pc'[h] = "idle" /\ \A k \in Harts : k # h => pc'[k] = pc[k]
      BY <2>1 DEF IInv, TypeOK
    <3> QED
      BY <2>1, <3>1, <3>2 DEF Unfilled, Unfronted, Unbumped
  <2>3. queue_front' = (P - 0) % QueueSize
    <3>1. P - 1 \in Nat
      BY <1>0, <2>1 DEF PushedInv
    <3>2. queue_front = (P - 1) % QueueSize
      BY <2>2 DEF RingInv
    <3> QED
      BY <1>0, <2>1, <3>1, <3>2, NextSlotMod
  <2> QED
    BY <2>1, <2>2, <2>3 DEF RingInv
<1> QED
  BY <1>1, <1>2, <1>3, <1>4, <1>5, <1>6, HartCases DEF Next

\* What a hart in dm_wait has found done stays done: it queues nothing in the
\* meantime, and the DM core issues no transfer twice.
LEMMA DoneStays ==
    ASSUME IInv, MutexInv, PushedInv, RingInv, [Next]_vars,
           NEW h \in Harts, op[h] = "wait", Moved(h)
    PROVE  Moved(h)' /\ (Settled(h) => Settled(h)')
<1>1. CASE DMIssue
  <2> DEFINE I == Len(issued)
             n == Len(dma)
             t == pushed[I + 1]
  <2>1. /\ I \in Nat /\ n \in Nat /\ I + 1 \in 1..Len(pushed)
        /\ t \in Harts \X Nat /\ queue[queue_back] = t
    <3>1. \A i \in 1..Len(pushed) : pushed[i] \in Harts \X Nat
      BY DEF PushedInv
    <3>2. I \in Nat /\ n \in Nat
      BY DEF PushedInv
    <3>3. I + 1 \in 1..Len(pushed) /\ queue[queue_back] = t
      BY <1>1, OldestIsIssued DEF DMIssue
    <3> QED
      BY <3>1, <3>2, <3>3
  <2>2. /\ issued' = Append(issued, t) /\ dma' = Append(dma, t)
        /\ copies' = copies
    BY <1>1, <2>1 DEF DMIssue, hartvars
  <2>3. /\ Len(issued') = I + 1 /\ \A i \in 1..I : issued'[i] = issued[i]
        /\ Len(dma') = n + 1 /\ \A i \in 1..n : dma'[i] = dma[i]
        /\ dma'[n + 1] = t
    <3> HIDE DEF t
    <3> QED
      BY <2>1, <2>2 DEF PushedInv
  <2>4. t[1] # h
    <3>1. SUFFICES ASSUME t[1] = h PROVE FALSE
      OBVIOUS
    <3>2. t[2] \in 1..copies[h] /\ t = <<h, t[2]>>
      BY <2>1, <3>1 DEF PushedInv
    <3>3. PICK i \in 1..I : issued[i] = <<h, t[2]>>
      BY <3>2 DEF Moved
    <3>4. i \in 1..Len(pushed) /\ issued[i] = pushed[i]
      BY <2>1, <3>3 DEF RingInv
    <3>5. pushed[i] = pushed[I + 1]
      BY <3>2, <3>3, <3>4
    <3>6. i = I + 1
      BY <2>1, <3>4, <3>5 DEF PushedInv
    <3> QED
      BY <2>1, <3>3, <3>6
  <2> HIDE DEF I, n, t
  <2>5. Moved(h)'
    <3>1. ASSUME NEW k \in 1..copies[h]
          PROVE  \E i \in 1..(I + 1) : issued'[i] = <<h, k>>
      <4>1. PICK i \in 1..I : issued[i] = <<h, k>>
        BY <3>1 DEF Moved, I
      <4> QED
        BY <2>1, <2>3, <4>1
    <3> QED
      BY <2>2, <2>3, <3>1 DEF Moved
  <2>6. Settled(h) => Settled(h)'
    <3>1. SUFFICES ASSUME Settled(h), NEW i \in 1..(n + 1) PROVE dma'[i][1] # h
      BY <2>3 DEF Settled
    <3>2. i \in 1..n \/ i = n + 1
      BY <2>1
    <3> QED
      BY <2>3, <2>4, <3>1, <3>2 DEF Settled, n
  <2> QED
    BY <2>5, <2>6
<1>2. CASE DMAComplete
  <2>1. dma \in Seq(Harts \X Nat) /\ dma # <<>> /\ dma' = Tail(dma)
        /\ issued' = issued /\ copies' = copies
    BY <1>2 DEF DMAComplete, PushedInv, ghosts, hartvars
  <2>2. /\ Len(dma) \in Nat /\ Len(dma') = Len(dma) - 1
        /\ \A i \in 1..(Len(dma) - 1) : dma'[i] = dma[i + 1]
    BY <2>1
  <2>3. Moved(h)'
    BY <2>1 DEF Moved
  <2>4. ASSUME Settled(h), NEW i \in 1..Len(dma') PROVE dma'[i][1] # h
    <3>1. i \in 1..(Len(dma) - 1) /\ i + 1 \in 1..Len(dma)
      BY <2>2
    <3>2. dma'[i] = dma[i + 1]
      BY <2>2, <3>1
    <3> QED
      BY <2>4, <3>1, <3>2 DEF Settled
  <2> QED
    BY <2>3, <2>4 DEF Settled
<1>3. CASE ~DMIssue /\ ~DMAComplete
  <2>1. UNCHANGED <<issued, dma>> /\ copies'[h] = copies[h]
    <3>1. CASE UNCHANGED vars
      BY <3>1 DEF vars, hartvars, ghosts
    <3>2. CASE DM
      BY <1>3, <3>2 DEF DM, DMPoll, DMBump, DMStat, DMValid, DMClear,
                DMSleepFill, DMSleepStat, DMWfiEnter, DMWfi, DMWfiClr,
                DMWfiLeave, hartvars, ghosts
    <3>3. ASSUME NEW k \in Harts, Outside(k)
          PROVE  UNCHANGED <<issued, dma>> /\ copies'[h] = copies[h]
      BY <3>3, OutsideFrame
    <3>4. ASSUME NEW k \in Harts, CopyInsert(k)
          PROVE  UNCHANGED <<issued, dma>> /\ copies'[h] = copies[h]
      BY <3>4 DEF CopyInsert, MutexInv, IInv, TypeOK
    <3>5. ASSUME NEW k \in Harts, CopyFill(k) \/ CopyRelease(k)
          PROVE  UNCHANGED <<issued, dma>> /\ copies'[h] = copies[h]
      BY <3>5 DEF CopyFill, CopyRelease, Goto, Return, ghosts
    <3> QED
      BY <1>3, <3>1, <3>2, <3>3, <3>4, <3>5, HartCases DEF Next
  <2> QED
    BY <2>1 DEF Moved, Settled
<1> QED
  BY <1>1, <1>2, <1>3

\* A hart that sees fill level 0 has all its transfers behind it: what another
\* hart has written into the ring and not counted yet is not its own.
LEMMA EmptyMeansMoved ==
    ASSUME IInv, MutexInv, PushedInv, RingInv, NEW h \in Harts,
           pc[h] = "empty", queue_fill = 0
    PROVE  Moved(h)
<1> DEFINE P == Len(pushed)
           I == Len(issued)
<1>1. SUFFICES ASSUME NEW k \in 1..copies[h]
               PROVE  \E i \in 1..I : issued[i] = <<h, k>>
  BY DEF Moved
<1>2. PICK i \in 1..P : pushed[i] = <<h, k>>
  BY DEF PushedInv
<1>3. P \in Nat /\ I \in Nat /\ Unbumped = 0 /\ P - Unfilled = I
  <2>1. P \in Nat /\ I \in Nat
    BY DEF PushedInv
  <2>2. Unbumped = 0 /\ Unfilled \in {0, 1}
    BY DEF IInv, Counts, Unbumped, Unfilled
  <2> QED
    BY <2>1, <2>2 DEF RingInv
<1>4. i <= I
  <2>1. CASE Unfilled = 0
    BY <1>2, <1>3, <2>1
  <2>2. CASE Unfilled # 0
    <3>1. PICK g \in Harts : pc[g] = "fill"
      BY <2>2 DEF Unfilled
    <3>2. P = I + 1 /\ pushed[P][1] = g /\ g # h
      BY <1>3, <3>1 DEF PushedInv, Unfilled
    <3> QED
      BY <1>2, <1>3, <3>2
  <2> QED
    BY <2>1, <2>2
<1> QED
  BY <1>2, <1>3, <1>4 DEF RingInv

\* The request passes from the hart that holds the mutex to the DM core and
\* back, and the answer is still true when the hart reads it.
LEMMA RequestStep ==
    ASSUME IInv, OrderInv, [Next]_vars
    PROVE  RequestInv'
<1> USE DEF OrderInv
<1>1. \A h \in Harts : op[h] = "wait" /\ Moved(h) =>
        Moved(h)' /\ (Settled(h) => Settled(h)')
  BY DoneStays
<1>2. MutexInv'
  BY MutexStep
<1>3. CASE UNCHANGED vars
  <2>1. UNCHANGED <<pc, op, stat_q, stat_pvalid, dm_pc>>
    BY <1>3 DEF vars, mailbox, dmvars, hartvars
  <2> QED
    BY <1>1, <2>1 DEF RequestInv, Locked
<1>4. CASE DM \/ DMAComplete
  <2> USE DEF mailbox, dmvars, DMGoto, LoopHead
  <2>1. UNCHANGED <<pc, op>>
    BY <1>4, Frame
  <2>2. CASE DMValid
    <3>1. /\ dm_pc = "valid" /\ dm_pc' = "clear"
      BY <2>2 DEF DMValid
    <3>2. PICK g \in Harts : pc[g] \in Waiting /\ (op[g] = "wait" => Settled(g))
      BY <3>1 DEF RequestInv
    <3>3. \A h \in Harts : pc[h] \in Locked => h = g
      BY <3>2 DEF MutexInv, Locked
    <3> QED
      BY <1>1, <2>1, <3>1, <3>2, <3>3 DEF RequestInv, Locked, Waiting
  <2>3. CASE DMClear
    <3>1. stat_q' = "none" /\ dm_pc' = "sleep" /\ stat_pvalid' = stat_pvalid
      BY <2>3 DEF DMClear
    <3> QED
      BY <1>1, <2>1, <3>1 DEF RequestInv, Locked
  <2>4. CASE DMStat
    <3>1. /\ dm_pc = "stat" /\ dm_pc' \in {"valid", "sleep"}
          /\ dm_pc' = "valid" => \/ stat_q = "wait_idle" /\ dma = <<>>
                                 \/ stat_q = "ready"
          /\ UNCHANGED <<stat_q, stat_pvalid, dma, issued, copies>>
      BY <2>4 DEF DMStat, hartvars, ghosts
    <3>2. ASSUME dm_pc' = "valid"
          PROVE  /\ stat_pvalid = 0
                 /\ \E h \in Harts :
                     pc[h] \in Waiting /\ (op[h] = "wait" => Settled(h)')
      <4>1. PICK g \in Harts :
              pc[g] \in Waiting /\ op[g] = IF stat_q = "ready" THEN "wait_ready" ELSE "wait"
        BY <3>1, <3>2 DEF RequestInv
      <4>2. op[g] = "wait" => dma' = <<>>
        BY <3>1, <3>2, <4>1
      <4>3. op[g] = "wait" => Settled(g)'
        BY <4>2 DEF Settled
      <4> QED
        BY <3>1, <3>2, <4>1, <4>3 DEF RequestInv
    <3> QED
      BY <1>1, <2>1, <3>1, <3>2 DEF RequestInv, Locked
  <2>5. CASE ~DMValid /\ ~DMClear /\ ~DMStat
    <3>1. /\ UNCHANGED <<stat_q, stat_pvalid>>
          /\ dm_pc' = "valid" => dm_pc = "valid"
          /\ dm_pc = "clear" => dm_pc' = "clear"
      BY <1>4, <2>5 DEF DM, DMPoll, DMIssue, DMBump, DMSleepFill,
         DMSleepStat, DMWfiEnter, DMWfi, DMWfiClr, DMWfiLeave, DMAComplete
    <3> QED
      BY <1>1, <2>1, <3>1 DEF RequestInv, Locked
  <2> QED
    BY <2>2, <2>3, <2>4, <2>5
<1>5. ASSUME NEW h \in Harts, Call(h) \/ Inside(h) PROVE RequestInv'
  <2> USE DEF Goto, Return, mailbox, dmvars, ghosts
  <2>0. /\ \A g \in Harts : pc[g] \in Locked /\ pc[h] \in Locked => g = h
        /\ pc \in [Harts -> HartLabels] /\ op \in [Harts -> AllOps \cup {"none"}]
    BY DEF MutexInv, IInv, TypeOK
  <2>1. CASE Call(h)
    <3>1. PICK o \in Ops : /\ pc' = [pc EXCEPT ![h] = EntryPoint(o)]
                          /\ op' = [op EXCEPT ![h] = o]
      BY <2>1 DEF Call
    <3>2. \/ EntryPoint(o) = "poll" /\ o = "memcpy"
          \/ EntryPoint(o) \in {"wake", "exit"}
          \/ EntryPoint(o) = "lock" /\ o = "wait_ready"
      BY OpsAssumption DEF EntryPoint, AllOps
    <3>3. pc[h] = "idle" /\ UNCHANGED <<stat_q, stat_pvalid, dm_pc>>
      BY <2>1 DEF Call
    <3> QED
      BY <1>1, <2>0, <3>1, <3>2, <3>3 DEF RequestInv, Locked, Waiting
  <2>2. CASE CopyPoll(h) \/ CopyFill(h)
    BY <1>1, <2>0, <2>2 DEF CopyPoll, CopyFill, RequestInv, Locked, Waiting, MutexInv
  <2>11. CASE Lock(h)
    BY <1>1, <2>0, <2>11 DEF Lock, RequestInv, Locked, Waiting, MutexInv
  <2>12. CASE Wake(h)
    BY <1>1, <2>0, <2>12 DEF Wake, RequestInv, Locked, Waiting
  <2>13. CASE WaitNoRequest(h)
    BY <1>1, <2>0, <2>13 DEF WaitNoRequest, RequestInv, Locked, Waiting
  <2>3. CASE CopyInsert(h)
    BY <1>1, <2>0, <2>3 DEF CopyInsert, RequestInv, Locked, Waiting
  <2>4. CASE CopyRelease(h) \/ WaitRelease(h)
    BY <1>1, <2>0, <2>4 DEF CopyRelease, WaitRelease, RequestInv, Locked, Waiting
  <2>5. CASE SetInt(h)
    <3>1. UNCHANGED <<stat_q, stat_pvalid, dm_pc>>
      BY <2>5 DEF SetInt
    <3>2. CASE pc[h] = "reset"
      <4>1. pc' = [pc EXCEPT ![h] = "answer"] /\ op' = op
        BY <2>5, <3>2 DEF SetInt
      <4> QED
        BY <1>1, <2>0, <3>1, <3>2, <4>1 DEF RequestInv, Locked, Waiting
    <3>3. CASE pc[h] = "set" /\ op[h] = "wait"
      <4>1. pc' = [pc EXCEPT ![h] = "empty"] /\ op' = op
        BY <2>5, <3>3 DEF SetInt
      <4> QED
        BY <1>1, <2>0, <3>1, <3>3, <4>1 DEF RequestInv, Locked, Waiting
    <3>4. CASE pc[h] = "set" /\ op[h] # "wait"
      <4>1. /\ pc' = [pc EXCEPT ![h] = "idle"]
            /\ op' = [op EXCEPT ![h] = IF @ = "exit" THEN @ ELSE "none"]
        BY <2>5, <3>4 DEF SetInt
      <4> QED
        BY <1>1, <2>0, <3>1, <3>4, <4>1 DEF RequestInv, Locked, Waiting
    <3> QED
      BY <2>5, <3>2, <3>3, <3>4 DEF SetInt
  <2>6. CASE WaitEmpty(h)
    <3>1. Moved(h)
      BY <2>6, EmptyMeansMoved DEF WaitEmpty
    <3> QED
      BY <1>1, <2>0, <2>6, <3>1 DEF WaitEmpty, RequestInv, Locked, Waiting
  <2>7. CASE Unvalid(h)
    BY <1>1, <2>0, <2>7 DEF Unvalid, RequestInv, Locked, Waiting
  <2>8. CASE Request(h)
    BY <1>1, <2>0, <2>8 DEF Request, RequestInv, Locked, Waiting, MutexInv
  <2>9. CASE Answer(h)
    BY <1>1, <2>0, <2>9 DEF Answer, RequestInv, Locked, Waiting
  <2>10. CASE Exit(h)
    BY <1>1, <2>0, <2>10 DEF Exit, RequestInv, Locked, Waiting
  <2> QED
    BY <1>5, <2>1, <2>2, <2>3, <2>4, <2>5, <2>6, <2>7, <2>8, <2>9, <2>10,
       <2>11, <2>12, <2>13 DEF Inside
<1> QED
  BY <1>3, <1>4, <1>5 DEF Next

\* Initially nothing is queued, issued, locked or requested.
LEMMA OrderInit == Init => OrderInv
<1> SUFFICES ASSUME Init PROVE OrderInv
  OBVIOUS
<1> USE DEF Init
<1>1. pushed = <<>> /\ issued = <<>> /\ dma = <<>>
  OBVIOUS
<1>2. MutexInv /\ RequestInv
  BY DEF MutexInv, RequestInv, Locked, Waiting
<1>3. PushedInv
  BY <1>1 DEF PushedInv
<1>4. RingInv
  <2>1. 0 % QueueSize = 0
    BY ModUnique, SizesAssumption
  <2>2. Unfilled = 0 /\ Unfronted = 0 /\ Unbumped = 0
    BY DEF Unfilled, Unfronted, Unbumped
  <2> QED
    BY <1>1, <2>1, <2>2 DEF RingInv
<1> QED
  BY <1>2, <1>3, <1>4 DEF OrderInv

\* With room in the ring the invariant is inductive.
LEMMA OrderStep == IInv /\ OrderInv /\ NoOverrun /\ [Next]_vars => OrderInv'
<1> SUFFICES ASSUME IInv, OrderInv, NoOverrun, [Next]_vars PROVE OrderInv'
  OBVIOUS
<1>1. MutexInv /\ PushedInv /\ RingInv
  BY DEF OrderInv
<1> QED
  BY <1>1, MutexStep, PushedStep, RingStep, RequestStep DEF OrderInv

LEMMA OrderHolds == Spec /\ []NoOverrun => [](IInv /\ OrderInv)
<1> QED
  BY InitIInv, StepIInv, OrderInit, OrderStep, PTL DEF Spec

\* The transfers issued are the oldest ones queued.
LEMMA OrderInvInOrder == IInv /\ OrderInv => InOrder
<1> SUFFICES ASSUME IInv, OrderInv PROVE InOrder
  OBVIOUS
<1>1. /\ Len(issued) \in Nat /\ Len(pushed) \in Nat
      /\ issued \in Seq(Harts \X Nat) /\ pushed \in Seq(Harts \X Nat)
  BY DEF OrderInv, PushedInv
<1>2. Len(issued) <= Len(pushed)
  <2>1. queue_fill \in Nat /\ (dm_pc = "bump" => queue_fill > 0)
    BY DEF IInv, TypeOK, Counts
  <2>2. Unfilled \in {0, 1}
    BY DEF Unfilled
  <2> QED
    BY <1>1, <2>1, <2>2 DEF OrderInv, RingInv, Unbumped
<1>3. \A i \in 1..Len(issued) : issued[i] = pushed[i]
  BY DEF OrderInv, RingInv
<1>4. SubSeq(issued, 1, Len(issued)) = SubSeq(pushed, 1, Len(issued))
  BY <1>1, <1>2, <1>3
<1> QED
  BY <1>2, <1>4 DEF InOrder, IsPrefix

\* What dm_wait has seen still holds when it returns.
LEMMA OrderInvComplete == IInv /\ OrderInv => WaitMeansComplete
<1> SUFFICES ASSUME IInv, OrderInv,
                    NEW h \in Harts, pc[h] = "release", op[h] = "wait",
                    NEW k \in 1..copies[h]
             PROVE  <<h, k>> \in ToSet(issued) /\ <<h, k>> \notin ToSet(dma)
  BY DEF WaitMeansComplete, Transfers
<1>1. Moved(h) /\ Settled(h)
  BY DEF OrderInv, RequestInv, Locked
<1>2. <<h, k>> \in ToSet(issued)
  <2>1. PICK i \in 1..Len(issued) : issued[i] = <<h, k>>
    BY <1>1 DEF Moved
  <2>2. DOMAIN issued = 1..Len(issued)
    BY DEF OrderInv, PushedInv
  <2> QED
    BY <2>1, <2>2 DEF ToSet
<1>3. <<h, k>> \notin ToSet(dma)
  <2>1. DOMAIN dma = 1..Len(dma) 
    BY DEF OrderInv, PushedInv
  <2> QED
    BY <1>1, <2>1 DEF Settled, ToSet
<1> QED
  BY <1>2, <1>3

\* While the ring has room the transfers go to the DMA engine once and in the
\* order they were queued, and a dm_wait that returns has seen the caller's
\* transfers complete.
THEOREM OrderWithRoom == Spec /\ []NoOverrun => []InOrder /\ []WaitMeansComplete
BY OrderHolds, OrderInvInOrder, OrderInvComplete, PTL

----------------------------------------------------------------------------
(* The ring has room when one hart has the data mover for itself, however   *)
(* many transfers it queues, and when the harts together queue no more      *)
(* transfers than there are slots.  Otherwise two harts may pass the poll   *)
(* of the fill level one behind the other and write into the same slot.     *)

Roomy ==
    \/ \E h \in Harts : Harts = {h}
    \/ IsFiniteSet(Harts) /\ Cardinality(Harts) * MaxCopies <= QueueSize

\* Few transfers: the one that is written now is one of them, and not one of
\* those that have been.
LEMMA FewFit ==
    ASSUME IsFiniteSet(Harts), Cardinality(Harts) * MaxCopies <= QueueSize,
           IInv, OrderInv
    PROVE  NoOverrun
<1> SUFFICES ASSUME NEW h \in Harts, pc[h] = "insert"
             PROVE  queue_fill < QueueSize
  BY DEF NoOverrun
<1> DEFINE P == Len(pushed)
           S == Harts \X (1..MaxCopies)
           f == [i \in 1..(P + 1) |->
                    IF i = P + 1 THEN <<h, copies[h] + 1>> ELSE pushed[i]]
<1>1. /\ P \in Nat /\ Len(issued) \in Nat
      /\ \A i \in 1..P : pushed[i] \in Harts \X Nat
  BY DEF OrderInv, PushedInv
<1>2. /\ copies[h] \in 0..MaxCopies /\ copies[h] < MaxCopies
      /\ \A g \in Harts : copies[g] \in 0..MaxCopies
  BY DEF IInv, TypeOK, Counts
<1>3. \A i \in 1..P : pushed[i] \in S /\ pushed[i] # <<h, copies[h] + 1>>
  <2>1. SUFFICES ASSUME NEW i \in 1..P
                 PROVE  pushed[i] \in S /\ pushed[i] # <<h, copies[h] + 1>>
    OBVIOUS
  <2>2. pushed[i] \in Harts \X Nat /\ pushed[i][2] \in 1..copies[pushed[i][1]]
    BY <1>1, <2>1 DEF OrderInv, PushedInv
  <2> QED
    BY <1>2, <2>2, OpsAssumption
<1>4. /\ IsFiniteSet(S) /\ Cardinality(S) = Cardinality(Harts) * MaxCopies
      /\ Cardinality(S) \in Nat
  <2>1. IsFiniteSet(1..MaxCopies) /\ Cardinality(1..MaxCopies) = MaxCopies
    BY FS_Interval, OpsAssumption
  <2> QED
    BY <2>1, FS_Product, FS_CardinalityType
<1>5. f \in Injection(1..(P + 1), S)
  <2>1. <<h, copies[h] + 1>> \in S
    BY <1>2, OpsAssumption
  <2>2. \A i \in 1..(P + 1) : i = P + 1 \/ i \in 1..P
    BY <1>1
  <2>3. f \in [1..(P + 1) -> S]
    BY <1>3, <2>1, <2>2
  <2>4. ASSUME NEW i \in 1..(P + 1), NEW j \in 1..(P + 1), f[i] = f[j]
        PROVE  i = j
    <3>1. \A a, b \in 1..P : pushed[a] = pushed[b] => a = b
      BY DEF OrderInv, PushedInv
    <3>2. P + 1 \notin 1..P
      BY <1>1
    <3>3. CASE i \in 1..P /\ j \in 1..P
      BY <2>4, <3>1, <3>2, <3>3
    <3>4. CASE i = P + 1 \/ j = P + 1
      BY <1>3, <2>2, <2>4, <3>2, <3>4
    <3> QED
      BY <2>2, <3>3, <3>4
  <2> HIDE DEF f
  <2> QED
    BY <2>3, <2>4 DEF Injection, IsInjective
<1>6. P + 1 <= Cardinality(S)
  <2>1. Cardinality(1..(P + 1)) = P + 1
    BY <1>1, FS_Interval
  <2> HIDE DEF f, S
  <2> QED
    BY <1>4, <1>5, <2>1, FS_Injection
<1>7. queue_fill <= P
  <2>1. Unfilled = 0
    BY DEF OrderInv, MutexInv, Locked, Unfilled
  <2>2. Len(issued) - Unbumped >= 0
    BY <1>1 DEF OrderInv, RingInv, Unbumped
  <2>3. Unbumped \in {0, 1}
    BY DEF Unbumped
  <2> QED
    BY <1>1, <2>1, <2>2, <2>3 DEF OrderInv, RingInv
<1> QED
  BY <1>1, <1>4, <1>6, <1>7, SizesAssumption, OpsAssumption DEF IInv, TypeOK

\* One hart: nobody fills the slot it has seen free.
LoneInv == \A h \in Harts : pc[h] \in {"lock", "insert"} /\ op[h] = "memcpy"
            => queue_fill < QueueSize

LEMMA LoneFits ==
    ASSUME NEW h \in Harts, Harts = {h}, IInv, LoneInv, [Next]_vars
    PROVE  LoneInv'
<1> USE DEF IInv, TypeOK, LoneInv
<1>1. CASE UNCHANGED vars
  BY <1>1 DEF vars, ring, hartvars
<1>2. CASE DM \/ DMAComplete
  <2>1. UNCHANGED <<pc, op>>
    BY <1>2, Frame
  <2>2. queue_fill' <= queue_fill /\ queue_fill' \in Int
    BY <1>2 DEF DM, DMPoll, DMIssue, DMBump, DMStat, DMValid, DMClear,
       DMSleepFill, DMSleepStat, DMWfiEnter, DMWfi, DMWfiClr, DMWfiLeave,
       DMAComplete, ring
  <2> QED
    BY <2>1, <2>2, SizesAssumption
<1>3. CASE CopyInsert(h) \/ CopyFill(h) \/ CopyRelease(h)
  BY <1>3 DEF CopyInsert, CopyFill, CopyRelease, Goto, Return
<1>4. CASE Outside(h)
  <2>1. queue_fill' = queue_fill
    BY <1>4, OutsideFrame
  <2>2. ASSUME pc'[h] \in {"lock", "insert"}, op'[h] = "memcpy"
        PROVE  queue_fill < QueueSize
    <3>1. CASE Call(h)
      <4>1. PICK o \in Ops : /\ pc' = [pc EXCEPT ![h] = EntryPoint(o)]
                             /\ op' = [op EXCEPT ![h] = o]
        BY <3>1 DEF Call
      <4>2. EntryPoint(o) \in {"lock", "insert"} => o # "memcpy"
        BY DEF EntryPoint
      <4> QED
        BY <2>2, <4>1, <4>2
    <3>2. CASE CopyPoll(h)
      BY <3>2 DEF CopyPoll
    <3>3. CASE Lock(h)
      BY <2>2, <3>3 DEF Lock, Goto
    <3>4. CASE WaitNoRequest(h)
      BY <2>2, <3>4 DEF WaitNoRequest, Goto, Counts
    <3>5. CASE \/ Wake(h) \/ SetInt(h) \/ WaitEmpty(h) \/ Unvalid(h)
               \/ Request(h) \/ Answer(h) \/ WaitRelease(h) \/ Exit(h)
      BY <2>2, <3>5 DEF Wake, SetInt, WaitEmpty, Unvalid, Request, Answer,
                        WaitRelease, Exit, Goto, Return
    <3> QED
      BY <1>4, <3>1, <3>2, <3>3, <3>4, <3>5 DEF Outside
  <2> QED
    BY <2>1, <2>2
<1> QED
  BY <1>1, <1>2, <1>3, <1>4, HartCases DEF Next

\* A hart that writes into the ring finds a free slot.
THEOREM RoomInTheRing ==
    ASSUME Roomy
    PROVE  Spec => []NoOverrun
<1>1. CASE \E h \in Harts : Harts = {h}
  <2>1. Init => LoneInv
    BY DEF Init, LoneInv
  <2>2. IInv /\ LoneInv /\ [Next]_vars => LoneInv'
    BY <1>1, LoneFits
  <2>3. IInv /\ LoneInv => NoOverrun
    BY DEF IInv, Counts, LoneInv, NoOverrun
  <2> QED
    BY InitIInv, StepIInv, <2>1, <2>2, <2>3, PTL DEF Spec
<1>2. CASE IsFiniteSet(Harts) /\ Cardinality(Harts) * MaxCopies <= QueueSize
  <2>1. IInv /\ OrderInv => NoOverrun
    BY <1>2, FewFit
  <2>2. IInv /\ OrderInv /\ [Next]_vars => OrderInv'
    BY <2>1, OrderStep
  <2> QED
    BY InitIInv, StepIInv, OrderInit, <2>1, <2>2, PTL DEF Spec
<1> QED
  BY <1>1, <1>2 DEF Roomy

\* The DM core hands the queued transfers to the DMA engine once each and in
\* the order they were queued.
THEOREM TransfersInOrder ==
    ASSUME Roomy
    PROVE  Spec => []InOrder
BY RoomInTheRing, OrderWithRoom, PTL

\* When dm_wait returns, the transfers of its caller are complete.
THEOREM WaitIsTrue ==
    ASSUME Roomy
    PROVE  Spec => []WaitMeansComplete
BY RoomInTheRing, OrderWithRoom, PTL

=============================================================================
