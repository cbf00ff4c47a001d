--------------------------- MODULE AmoShimProofs ---------------------------
(***************************************************************************)
(* The AMO shim is atomic, for every bank, width, set of cores and mix of  *)
(* requests, those of the DMA and of the external port included; and an SC *)
(* succeeds only under its own LR, as long as no remote hart uses LR/SC.   *)
(*                                                                         *)
(* Coherent speaks of the idle shim.  Inductive is the relation between    *)
(* the bank and the atomic memory during an operation (Pending): they      *)
(* differ in the one half word that is still to be written back, and only  *)
(* by the value that will be written.                                      *)
(***************************************************************************)
EXTENDS MCAmoShim, FiniteSetTheorems, TLAPS

\* What half i of word x will hold once the operation under way is done.
Due(x, i) ==
    IF amo_q.addr = x /\ amo_q.idx = i
    THEN IF state_q = "DoAMO" THEN Alu(amo_q.op, amo_q.a, amo_q.b)
                              ELSE amo_q.result
    ELSE mem[x][i]

\* The bank and the atomic memory are memories; the registers of the
\* operation are there when it is under way.
Shape ==
    /\ state_q \in {"Idle", "DoAMO", "WriteBackAMO"}
    /\ DOMAIN mem = Addrs /\ DOMAIN amem = Addrs
    /\ \A x \in Addrs : DOMAIN mem[x] = Halves /\ DOMAIN amem[x] = Halves
    /\ state_q = "Idle" => amo_q = NoAmo
    /\ state_q # "Idle" => amo_q.addr \in Addrs /\ amo_q.idx \in Halves

Pending == \A x \in Addrs \ conflict, i \in Halves : amem[x][i] = Due(x, i)

AtomInv == Shape /\ Pending

----------------------------------------------------------------------------

\* An update of one half of one word changes nothing else.
LEMMA SetWordLemma ==
    ASSUME NEW m, DOMAIN m = Addrs, \A x \in Addrs : DOMAIN m[x] = Halves,
           NEW x \in Addrs, NEW i \in Halves, NEW v
    PROVE  /\ DOMAIN SetWord(m, x, i, v) = Addrs
           /\ \A y \in Addrs : DOMAIN SetWord(m, x, i, v)[y] = Halves
           /\ \A y \in Addrs, j \in Halves :
                SetWord(m, x, i, v)[y][j] =
                    IF y = x /\ j = i THEN v ELSE m[y][j]
BY DEF SetWord

\* Initially the bank is the atomic memory.
LEMMA AtomInit == Init => AtomInv
BY NoneAssumption DEF Init, AtomInv, Shape, Pending, Due, NoAmo

\* While the shim is idle nothing is due.
LEMMA IdleDue ==
    ASSUME AtomInv, state_q = "Idle"
    PROVE  \A x \in Addrs \ conflict, i \in Halves : amem[x][i] = mem[x][i]
BY NoneAssumption DEF AtomInv, Shape, Pending, Due, NoAmo

\* A write of one half word, to the bank and to the atomic memory alike.
LEMMA StoreKeeps ==
    ASSUME AtomInv, state_q = "Idle",
           NEW x \in Addrs, NEW i \in Halves, NEW v,
           mem' = SetWord(mem, x, i, v), amem' = SetWord(amem, x, i, v),
           UNCHANGED <<state_q, amo_q, conflict>>
    PROVE  AtomInv'
<1>1. /\ DOMAIN mem' = Addrs /\ DOMAIN amem' = Addrs
      /\ \A y \in Addrs : DOMAIN mem'[y] = Halves /\ DOMAIN amem'[y] = Halves
      /\ \A y \in Addrs, j \in Halves :
            /\ mem'[y][j] = IF y = x /\ j = i THEN v ELSE mem[y][j]
            /\ amem'[y][j] = IF y = x /\ j = i THEN v ELSE amem[y][j]
  BY SetWordLemma DEF AtomInv, Shape
<1>2. \A y \in Addrs \ conflict, j \in Halves : amem'[y][j] = mem'[y][j]
  BY <1>1, IdleDue
<1>3. Shape'
  BY <1>1 DEF AtomInv, Shape
<1>4. Pending'
  BY <1>2, NoneAssumption DEF AtomInv, Shape, Pending, Due, NoAmo
<1> QED
  BY <1>3, <1>4 DEF AtomInv

\* The grant of an atomic operation: from here on its result is due.
LEMMA StartKeeps ==
    ASSUME AtomInv, NEW h, NEW o, NEW x \in Addrs, NEW i \in Halves, NEW v,
           StartAmo(h, o, x, i, v)
    PROVE  AtomInv'
<1>1. /\ DOMAIN amem' = Addrs
      /\ \A y \in Addrs : DOMAIN amem'[y] = Halves
      /\ \A y \in Addrs, j \in Halves :
            amem'[y][j] = IF y = x /\ j = i THEN Alu(o, amem[x][i], v)
                          ELSE amem[y][j]
  BY SetWordLemma DEF AtomInv, Shape, StartAmo
<1>2. /\ state_q' = "DoAMO" /\ mem' = mem /\ conflict' = conflict
      /\ amo_q'.addr = x /\ amo_q'.idx = i /\ amo_q'.op = o
      /\ amo_q'.a = mem[x][i] /\ amo_q'.b = v
  BY DEF StartAmo
<1>3. \A y \in Addrs \ conflict, j \in Halves : amem[y][j] = mem[y][j]
  BY IdleDue DEF StartAmo
<1>4. Shape'
  BY <1>1, <1>2 DEF AtomInv, Shape
<1>5. Pending'
  BY <1>1, <1>2, <1>3 DEF Pending, Due
<1> QED
  BY <1>4, <1>5 DEF AtomInv

\* The ALU cycle moves the due value into the result register.
LEMMA ComputeKeepsDue ==
    ASSUME AtomInv, state_q = "DoAMO", state_q' = "WriteBackAMO",
           amo_q' = Computed,
           NEW x \in Addrs, NEW i \in Halves, mem'[x][i] = mem[x][i]
    PROVE  Due(x, i)' = Due(x, i)
BY DEF Due, Computed

\* The write-back delivers what was due.
LEMMA WriteBackKeeps ==
    ASSUME AtomInv, WriteBack
    PROVE  AtomInv'
<1>1. /\ amo_q.addr \in Addrs /\ amo_q.idx \in Halves
      /\ state_q = "WriteBackAMO"
  BY DEF AtomInv, Shape, WriteBack
<1>2. /\ DOMAIN mem' = Addrs
      /\ \A y \in Addrs : DOMAIN mem'[y] = Halves
      /\ \A y \in Addrs, j \in Halves :
            mem'[y][j] = IF y = amo_q.addr /\ j = amo_q.idx THEN amo_q.result
                         ELSE mem[y][j]
  BY <1>1, SetWordLemma DEF AtomInv, Shape, WriteBack
<1>3. Shape'
  BY <1>2 DEF AtomInv, Shape, WriteBack
<1>4. Pending'
  BY <1>1, <1>2, NoneAssumption
  DEF AtomInv, Pending, Due, WriteBack, NoAmo
<1> QED
  BY <1>3, <1>4 DEF AtomInv

\* A DMA access reaches the bank and the atomic memory alike; if it touches
\* the word of the operation under way the word is marked.
LEMMA DmaKeeps ==
    ASSUME AtomInv, NEW o, NEW x \in Addrs, NEW line \in Line,
           DmaCycle(o, x, line)
    PROVE  AtomInv'
<1>1. /\ DOMAIN mem' = Addrs /\ DOMAIN amem' = Addrs
      /\ \A y \in Addrs : DOMAIN mem'[y] = Halves /\ DOMAIN amem'[y] = Halves
      /\ \A y \in Addrs, j \in Halves :
            /\ mem'[y][j] = IF o = "store" /\ y = x THEN line[j] ELSE mem[y][j]
            /\ amem'[y][j] = IF o = "store" /\ y = x THEN line[j]
                             ELSE amem[y][j]
  BY DEF DmaCycle, AtomInv, Shape, Line
<1>2. Shape'
  BY <1>1 DEF AtomInv, Shape, DmaCycle, Computed
<1>3. ASSUME NEW y \in Addrs \ conflict', NEW j \in Halves
      PROVE  amem'[y][j] = Due(y, j)'
  <2>1. y \notin conflict /\ (y = x => amo_q.addr # y)
    BY <1>3 DEF DmaCycle
  <2>2. amem[y][j] = Due(y, j)
    BY <2>1 DEF AtomInv, Pending
  <2>3. /\ amo_q'.addr = amo_q.addr /\ amo_q'.idx = amo_q.idx
        /\ state_q = "DoAMO" => /\ state_q' = "WriteBackAMO"
                                /\ amo_q'.result = Alu(amo_q.op, amo_q.a, amo_q.b)
        /\ state_q # "DoAMO" => state_q' = state_q /\ amo_q' = amo_q
    BY DEF DmaCycle, Computed
  <2> QED
    BY <1>1, <2>1, <2>2, <2>3 DEF Due
<1>4. Pending'
  BY <1>3 DEF Pending
<1> QED
  BY <1>2, <1>4 DEF AtomInv

\* A served access of the external port reaches the idle bank and the atomic
\* memory alike.
LEMMA ExtIdleKeeps ==
    ASSUME AtomInv, NEW o, NEW x \in Addrs, NEW line \in Line,
           ExtIdle(o, x, line)
    PROVE  AtomInv'
<1>1. /\ DOMAIN mem' = Addrs /\ DOMAIN amem' = Addrs
      /\ \A y \in Addrs : DOMAIN mem'[y] = Halves /\ DOMAIN amem'[y] = Halves
      /\ \A y \in Addrs, j \in Halves :
            /\ mem'[y][j] = IF o = "store" /\ y = x THEN line[j] ELSE mem[y][j]
            /\ amem'[y][j] = IF o = "store" /\ y = x THEN line[j]
                             ELSE amem[y][j]
  BY DEF ExtIdle, AtomInv, Shape, Line
<1>2. state_q = "Idle" /\ UNCHANGED <<state_q, amo_q, conflict>>
  BY DEF ExtIdle
<1>3. Shape'
  BY <1>1, <1>2 DEF AtomInv, Shape
<1>4. \A y \in Addrs \ conflict, j \in Halves : amem'[y][j] = mem'[y][j]
  BY <1>1, <1>2, IdleDue
<1>5. Pending'
  BY <1>2, <1>4, NoneAssumption DEF AtomInv, Shape, Pending, Due, NoAmo
<1> QED
  BY <1>3, <1>5 DEF AtomInv

\* An access of the external port that finds the shim busy leaves the
\* operation to compute or to write back as if the port had been idle.
LEMMA ExtBusyKeeps ==
    ASSUME AtomInv, NEW o, ExtBusy(o)
    PROVE  AtomInv'
<1>1. CASE state_q = "DoAMO"
  <2>1. /\ state_q = "DoAMO" /\ state_q' = "WriteBackAMO" /\ amo_q' = Computed
        /\ UNCHANGED <<mem, amem, conflict>>
    BY <1>1 DEF ExtBusy
  <2>2. Shape'
    BY <2>1 DEF AtomInv, Shape, Computed
  <2>3. Pending'
    BY <2>1, ComputeKeepsDue DEF AtomInv, Pending
  <2> QED
    BY <2>2, <2>3 DEF AtomInv
<1>2. CASE state_q # "DoAMO"
  <2>1. /\ state_q = "WriteBackAMO" /\ state_q' = "Idle" /\ amo_q' = NoAmo
        /\ mem' = SetWord(mem, amo_q.addr, amo_q.idx, amo_q.result)
        /\ UNCHANGED <<amem, conflict>>
    BY <1>2 DEF ExtBusy, AtomInv, Shape
  <2>2. amo_q.addr \in Addrs /\ amo_q.idx \in Halves
    BY <2>1 DEF AtomInv, Shape
  <2>3. /\ DOMAIN mem' = Addrs
        /\ \A y \in Addrs : DOMAIN mem'[y] = Halves
        /\ \A y \in Addrs, j \in Halves :
              mem'[y][j] = IF y = amo_q.addr /\ j = amo_q.idx THEN amo_q.result
                           ELSE mem[y][j]
    BY <2>1, <2>2, SetWordLemma DEF AtomInv, Shape
  <2>4. Shape'
    BY <2>1, <2>3 DEF AtomInv, Shape
  <2>5. Pending'
    BY <2>1, <2>2, <2>3, NoneAssumption DEF AtomInv, Pending, Due, NoAmo
  <2> QED
    BY <2>4, <2>5 DEF AtomInv
<1> QED
  BY <1>1, <1>2

\* Every cycle keeps the relation.
LEMMA AtomStep ==
    ASSUME AtomInv, [Next]_vars
    PROVE  AtomInv'
<1> USE DEF AtomInv
<1>1. CASE UNCHANGED vars
  BY <1>1 DEF vars, Shape, Pending, Due
<1>2. ASSUME NEW h \in Narrow, NEW x \in Addrs, NEW i \in Halves,
             NarrowCycle(h, x, i)
      PROVE  AtomInv'
  <2>1. CASE Load(h, x, i)
    BY <2>1 DEF Load, Shape, Pending, Due
  <2>2. CASE LoadReserved(h, x, i)
    BY <2>2 DEF LoadReserved, Shape, Pending, Due
  <2>3. ASSUME NEW v \in Word, Store(h, x, i, v) PROVE AtomInv'
    BY <2>3, StoreKeeps DEF Store
  <2>4. ASSUME NEW v \in Word, StoreConditional(h, x, i, v) PROVE AtomInv'
    <3>1. \/ /\ mem' = SetWord(mem, x, i, v)
             /\ amem' = SetWord(amem, x, i, v)
          \/ mem' = mem /\ amem' = amem
      BY <2>4 DEF StoreConditional
    <3>2. state_q = "Idle" /\ UNCHANGED <<state_q, amo_q, conflict>>
      BY <2>4 DEF StoreConditional
    <3>3. CASE mem' = SetWord(mem, x, i, v) /\ amem' = SetWord(amem, x, i, v)
      BY <3>2, <3>3, StoreKeeps
    <3>4. CASE mem' = mem /\ amem' = amem
      BY <3>2, <3>4 DEF Shape, Pending, Due
    <3> QED
      BY <3>1, <3>3, <3>4
  <2>5. ASSUME NEW v \in Word, NEW o \in ShimAmos, StartAmo(h, o, x, i, v)
        PROVE  AtomInv'
    BY <2>5, StartKeeps
  <2> QED
    BY <1>2, <2>1, <2>2, <2>3, <2>4, <2>5 DEF NarrowCycle
<1>3. CASE DoAmo
  <2>1. /\ state_q = "DoAMO" /\ state_q' = "WriteBackAMO" /\ amo_q' = Computed
        /\ UNCHANGED <<mem, amem, conflict>>
    BY <1>3 DEF DoAmo
  <2>2. Shape'
    BY <2>1 DEF Shape, Computed
  <2>3. Pending'
    BY <2>1, ComputeKeepsDue DEF Pending
  <2> QED
    BY <2>2, <2>3
<1>4. CASE WriteBack
  BY <1>4, WriteBackKeeps
<1>5. ASSUME NEW x \in Addrs, NEW line \in Line, WideCycle(x, line)
      PROVE  AtomInv'
  BY <1>5, DmaKeeps, ExtIdleKeeps, ExtBusyKeeps DEF WideCycle
<1> QED
  BY <1>1, <1>2, <1>3, <1>4, <1>5 DEF Next

\* Every granted access is atomic, except for the words whose clash with a DMA
\* access amo_conflict_o has reported.
THEOREM ShimIsAtomic == Spec => []Coherent
<1>1. AtomInv /\ [Next]_vars => AtomInv'
  BY AtomStep
<1>2. AtomInv => Coherent
  BY IdleDue DEF Coherent
<1> QED
  BY AtomInit, <1>1, <1>2, PTL DEF Spec

\* What a granted read returns is what the atomic memory holds, unless the word
\* is one whose write-back is pending, and then the conflict is reported.
LEMMA GrantIsAtomic ==
    ASSUME AtomInv, NEW o, NEW x \in Addrs, NEW i \in Halves, Granted(o, x, i),
           conflict \subseteq conflict',
           x \in conflict' \/ amo_q.addr # x
    PROVE  ReadsAreAtomic'
<1>1. /\ rsp'.op = o /\ rsp'.addr = x
      /\ rsp'.data = mem[x][i] /\ rsp'.want = amem[x][i]
  BY DEF Granted, NoRsp
<1>2. x \notin conflict' => amem[x][i] = mem[x][i]
  BY DEF AtomInv, Pending, Due
<1> QED
  BY <1>1, <1>2 DEF ReadsAreAtomic

\* Every cycle that answers a read answers with the atomic memory's value.
LEMMA ReadStep ==
    ASSUME AtomInv, ReadsAreAtomic, [Next]_vars
    PROVE  ReadsAreAtomic'
<1>1. CASE UNCHANGED vars
  BY <1>1 DEF vars, ReadsAreAtomic
<1>2. ASSUME NEW h \in Narrow, NEW x \in Addrs, NEW i \in Halves,
             NarrowCycle(h, x, i)
      PROVE  ReadsAreAtomic'
  <2>1. state_q = "Idle" => amo_q.addr # x
    BY NoneAssumption DEF AtomInv, Shape, NoAmo
  <2>2. CASE Load(h, x, i)
    BY <2>1, <2>2, GrantIsAtomic DEF Load
  <2>3. CASE LoadReserved(h, x, i)
    BY <2>1, <2>3, GrantIsAtomic DEF LoadReserved
  <2>4. ASSUME NEW v \in Word, Store(h, x, i, v) PROVE ReadsAreAtomic'
    BY <2>4 DEF Store, ReadsAreAtomic, NoRsp, None
  <2>5. ASSUME NEW v \in Word, StoreConditional(h, x, i, v)
        PROVE  ReadsAreAtomic'
    BY <2>5 DEF StoreConditional, ReadsAreAtomic
  <2>6. ASSUME NEW v \in Word, NEW o \in ShimAmos, StartAmo(h, o, x, i, v)
        PROVE  ReadsAreAtomic'
    BY <2>1, <2>6, GrantIsAtomic DEF StartAmo
  <2> QED
    BY <1>2, <2>2, <2>3, <2>4, <2>5, <2>6 DEF NarrowCycle
<1>3. CASE DoAmo \/ WriteBack
  BY <1>3 DEF DoAmo, WriteBack, ReadsAreAtomic, NoRsp, None
<1>4. ASSUME NEW x \in Addrs, NEW line \in Line, WideCycle(x, line)
      PROVE  ReadsAreAtomic'
  <2>1. ASSUME NEW o \in WideOps, DmaCycle(o, x, line) PROVE ReadsAreAtomic'
    BY <2>1, GrantIsAtomic DEF DmaCycle
  <2>2. ASSUME NEW o \in ExtOps, ExtIdle(o, x, line) \/ ExtBusy(o)
        PROVE  ReadsAreAtomic'
    BY <2>2 DEF ExtIdle, ExtBusy, ExtAnswer, ReadsAreAtomic, NoRsp, Ext
  <2> QED
    BY <1>4, <2>1, <2>2 DEF WideCycle
<1> QED
  BY <1>1, <1>2, <1>3, <1>4 DEF Next

\* Every load, load-reserved, atomic operation and DMA read returns the value
\* it would have found if all accesses were atomic, also while a write-back is
\* being delayed by the DMA port.
THEOREM ReadsAtomic == Spec => []ReadsAreAtomic
<1>1. Init => ReadsAreAtomic
  BY DEF Init, ReadsAreAtomic, NoRsp, None
<1>2. AtomInv /\ [Next]_vars => AtomInv'
  BY AtomStep
<1>3. AtomInv /\ ReadsAreAtomic /\ [Next]_vars => ReadsAreAtomic'
  BY ReadStep
<1> QED
  BY AtomInit, <1>1, <1>2, <1>3, PTL DEF Spec

----------------------------------------------------------------------------

\* The reservation belongs to a core whose last LR still protects it, and the
\* last SC has been judged by it.
LinkInv ==
    /\ linked \in [Narrow -> Addrs \cup {None}]
    /\ reservation_q # NoReservation =>
        /\ reservation_q.core \in Cores /\ reservation_q.addr \in Addrs
        /\ linked[reservation_q.core] = reservation_q.addr
    /\ ScIsProtected

\* A write by anyone but the reserving core takes the reservation along with
\* the protection it stands for.
LEMMA KillKeeps ==
    ASSUME Remotes = {}, LinkInv, NEW h, NEW x \in Addrs,
           KillReservation(h, x), ScIsProtected'
    PROVE  LinkInv'
<1>1. linked' \in [Narrow -> Addrs \cup {None}]
  BY DEF KillReservation, Unlink, LinkInv
<1>2. ASSUME reservation_q' # NoReservation
      PROVE  /\ reservation_q' = reservation_q
             /\ reservation_q # NoReservation /\ ~Killed(h, x)
  BY <1>2 DEF KillReservation
<1>3. ASSUME reservation_q' # NoReservation
      PROVE  linked'[reservation_q.core] = linked[reservation_q.core]
  BY <1>2, <1>3 DEF KillReservation, Unlink, LinkInv, Killed, Narrow
<1> QED
  BY <1>1, <1>2, <1>3 DEF LinkInv

\* Without remote harts every cycle keeps the link.
LEMMA LinkStep ==
    ASSUME Remotes = {}, LinkInv, [Next]_vars
    PROVE  LinkInv'
<1>1. CASE UNCHANGED vars
  BY <1>1 DEF vars, LinkInv, ScIsProtected
<1>2. ASSUME NEW h \in Narrow, NEW x \in Addrs, NEW i \in Halves,
             NarrowCycle(h, x, i)
      PROVE  LinkInv'
  <2> USE DEF Granted, NoRsp, ScIsProtected
  <2>1. CASE Load(h, x, i)
    BY <2>1 DEF Load, LinkInv
  <2>2. CASE LoadReserved(h, x, i)
    BY <2>2 DEF LoadReserved, LinkInv, CoreId, Narrow
  <2>3. ASSUME NEW v \in Word, Store(h, x, i, v) PROVE LinkInv'
    BY <2>3, KillKeeps DEF Store
  <2>4. ASSUME NEW v \in Word, StoreConditional(h, x, i, v) PROVE LinkInv'
    <3>1. CoreId(h) = h /\ h \in Cores
      BY DEF CoreId, Narrow
    <3>2. CASE reservation_q.core = h
      BY <2>4, <3>1, <3>2, NoneAssumption
      DEF StoreConditional, LinkInv, Unlink, NoReservation
    <3>3. CASE reservation_q.core # h
      <4>1. /\ reservation_q' = reservation_q /\ ~rsp'.wrote
            /\ linked' = [linked EXCEPT ![h] = None]
        BY <2>4, <3>1, <3>3 DEF StoreConditional
      <4> QED
        BY <3>3, <4>1 DEF LinkInv, Narrow
    <3> QED
      BY <3>2, <3>3
  <2>5. ASSUME NEW v \in Word, NEW o \in ShimAmos, StartAmo(h, o, x, i, v)
        PROVE  LinkInv'
    BY <2>5, KillKeeps DEF StartAmo
  <2> QED
    BY <1>2, <2>1, <2>2, <2>3, <2>4, <2>5 DEF NarrowCycle
<1>3. CASE DoAmo \/ WriteBack
  BY <1>3 DEF DoAmo, WriteBack, LinkInv, ScIsProtected, NoRsp
<1>4. ASSUME NEW x \in Addrs, NEW line \in Line, WideCycle(x, line)
      PROVE  LinkInv'
  <2> USE DEF Granted, NoRsp, ScIsProtected
  <2>1. ASSUME NEW o \in WideOps, DmaCycle(o, x, line) PROVE LinkInv'
    <3>1. PICK i \in Halves : Granted(o, x, i)
      BY <2>1 DEF DmaCycle
    <3>2. ScIsProtected'
      BY <3>1, OpAssumption, <2>1
    <3> QED
      BY <2>1, <3>2, KillKeeps DEF DmaCycle, LinkInv
  <2>2. ASSUME NEW o \in ExtOps, ExtIdle(o, x, line) PROVE LinkInv'
    <3>1. ScIsProtected'
      BY <2>2 DEF ExtIdle, ExtAnswer, Ext
    <3> QED
      BY <2>2, <3>1, KillKeeps DEF ExtIdle, LinkInv
  <2>3. ASSUME NEW o \in ExtOps, ExtBusy(o) PROVE LinkInv'
    BY <2>3 DEF ExtBusy, ExtAnswer, Ext, LinkInv
  <2> QED
    BY <1>4, <2>1, <2>2, <2>3 DEF WideCycle
<1> QED
  BY <1>1, <1>2, <1>3, <1>4 DEF Next

\* Without remote harts a store-conditional succeeds only if the address is
\* still protected by the last load-reserved of the same core.
THEOREM ScSafe == ASSUME Remotes = {} PROVE Spec => []ScIsProtected
<1>1. Init => LinkInv
  BY DEF Init, LinkInv, ScIsProtected, NoRsp
<1>2. LinkInv /\ [Next]_vars => LinkInv'
  BY LinkStep
<1>3. LinkInv => ScIsProtected
  BY DEF LinkInv
<1> QED
  BY <1>1, <1>2, <1>3, PTL DEF Spec

----------------------------------------------------------------------------
(***************************************************************************)
(* The ALU, for words of every width.  The comparisons and the addition    *)
(* are arithmetic modulo 2M, where M is the number of words: all operands  *)
(* of the adder lie between -M and M, and there the remainder is a case    *)
(* distinction (Remainders), after which everything is linear.             *)
(***************************************************************************)

\* A set with one more element has twice as many subsets, so that powers of two
\* double.
LEMMA Double ==
    ASSUME NEW n \in Nat
    PROVE  2^n \in Nat \ {0} /\ 2^(n + 1) = 2 * 2^n
<1> DEFINE S == 1 .. n
           T == 1 .. (n + 1)
           With == [X \in SUBSET S |-> X \cup {n + 1}]
           New == {X \cup {n + 1} : X \in SUBSET S}
<1>1. /\ IsFiniteSet(S) /\ Cardinality(S) = n
      /\ IsFiniteSet(T) /\ Cardinality(T) = n + 1
  BY FS_Interval
<1>2. /\ IsFiniteSet(SUBSET S) /\ Cardinality(SUBSET S) = 2^n
      /\ Cardinality(SUBSET T) = 2^(n + 1)
  BY <1>1, FS_SUBSET
<1>3. n + 1 \notin S /\ T = S \cup {n + 1}
  OBVIOUS
<1>4. IsFiniteSet(New) /\ Cardinality(New) = Cardinality(SUBSET S)
  <2>1. With \in Bijection(SUBSET S, New)
    <3> HIDE DEF S
    <3>1. With \in [SUBSET S -> New]
      OBVIOUS
    <3>2. ASSUME NEW X \in SUBSET S, NEW Y \in SUBSET S, With[X] = With[Y] PROVE X = Y
      BY <1>3, <3>2
    <3>3. \A Y \in New : \E X \in SUBSET S : With[X] = Y
      OBVIOUS
    <3> QED
      BY <3>1, <3>2, <3>3 DEF Bijection, Injection, Surjection, IsInjective
  <2> HIDE DEF S, New, With
  <2> QED
    BY <1>2, <2>1, FS_Bijection DEF ExistsBijection
<1>5. SUBSET T = (SUBSET S) \cup New /\ (SUBSET S) \cap New = {}
  <2> HIDE DEF S, T
  <2>1. ASSUME NEW X \in SUBSET T, n + 1 \in X PROVE X \in New
    <3>1. X \ {n + 1} \in SUBSET S /\ X = (X \ {n + 1}) \cup {n + 1}
      BY <1>3, <2>1
    <3> QED
      BY <3>1
  <2>2. ASSUME NEW X \in New PROVE X \in SUBSET T /\ n + 1 \in X
    BY <1>3
  <2>3. SUBSET S \subseteq SUBSET T /\ \A X \in SUBSET S : n + 1 \notin X
    BY <1>3
  <2>4. \A X \in SUBSET T : n + 1 \notin X => X \in SUBSET S
    BY <1>3
  <2> HIDE DEF New
  <2> QED
    BY <2>1, <2>2, <2>3, <2>4
<1>6. Cardinality(SUBSET T) = Cardinality(SUBSET S) + Cardinality(New) - Cardinality({})
  <2> HIDE DEF S, T, New
  <2> QED
    BY <1>2, <1>4, <1>5, FS_Union
<1>7. Cardinality(SUBSET S) \in Nat /\ Cardinality(SUBSET S) # 0
  <2>1. {} \in SUBSET S
    OBVIOUS
  <2> HIDE DEF S
  <2> QED
    BY <1>2, <2>1, FS_CardinalityType, FS_EmptySet
<1> HIDE DEF S, T, New
<1> QED
  BY <1>2, <1>4, <1>6, <1>7, FS_EmptySet

\* The remainder of a number that is off by at most one divisor.
LEMMA Remainders ==
    ASSUME NEW n \in Nat \ {0}, NEW x \in Int
    PROVE  /\ x \in 0 .. n - 1 => x % n = x
           /\ x \in -n .. -1 => x % n = x + n
           /\ x \in n .. 2 * n - 1 => x % n = x - n
<1> DEFINE q == x \div n
           r == x % n
<1>1. q \in Int /\ r \in 0 .. n - 1 /\ x = n * q + r
  OBVIOUS
<1> HIDE DEF q, r
<1>2. ASSUME NEW p \in Int, NEW t \in 0 .. n - 1, x = n * p + t PROVE r = t
  <2>1. n * (q - p) = t - r
    BY <1>1, <1>2
  <2>2. \A y \in Int : y >= 1 => n * y >= n
    OBVIOUS
  <2>3. \A y \in Int : y <= -1 => n * y <= -n
    OBVIOUS
  <2>4. ~(q - p >= 1) /\ ~(q - p <= -1) /\ q - p \in Int
    BY <1>1, <2>1, <2>2, <2>3
  <2>5. q = p
    BY <1>1, <2>4
  <2> QED
    BY <1>1, <1>2, <2>5
<1>3. n * 0 = 0 /\ n * (-1) = -n /\ n * 1 = n
  OBVIOUS
<1>4. x \in 0 .. n - 1 => r = x
  BY <1>2, <1>3
<1>5. x \in -n .. -1 => r = x + n
  BY <1>2, <1>3
<1>6. ASSUME x \in n .. 2 * n - 1 PROVE r = x - n
  <2>1. x - n \in 0 .. n - 1 /\ x = n + (x - n)
    BY <1>6
  <2> QED
    BY <1>2, <1>3, <2>1
<1> QED
  BY <1>4, <1>5, <1>6 DEF r
\* Words are the numbers below M == 2 * 2^(AluWidth - 1), and the adder works
\* modulo 2 * M.
LEMMA Widths ==
    /\ 2^(AluWidth - 1) \in Nat \ {0}
    /\ 2^AluWidth = 2 * 2^(AluWidth - 1) /\ 2^AluWidth \in Nat \ {0}
    /\ 2^(AluWidth + 1) = 2 * 2^AluWidth
<1> DEFINE m == AluWidth - 1
<1>1. m \in Nat /\ m + 1 = AluWidth
  BY AluWidthAssumption
<1> HIDE DEF m
<1>2. 2^m \in Nat \ {0} /\ 2^AluWidth = 2 * 2^m
  BY <1>1, Double
<1>3. 2^AluWidth \in Nat \ {0} /\ 2^(AluWidth + 1) = 2 * 2^AluWidth
  BY AluWidthAssumption, Double
<1> QED
  BY <1>2, <1>3 DEF m

\* The two's complement value of a word.
LEMMA SignedRange ==
    ASSUME NEW M \in Nat, M = 2^AluWidth, NEW a \in Asked!Word
    PROVE  /\ a \in 0 .. M - 1
           /\ Asked!Signed(a) \in -M .. M - 1
           /\ Asked!Signed(a) = a \/ (Asked!Signed(a) = a - M /\ a > 0)
           /\ \A b \in Asked!Word : Asked!Signed(a) - Asked!Signed(b) \in -(M - 1) .. M - 1
<1> DEFINE h == 2^(AluWidth - 1)
<1>1. h \in Nat \ {0} /\ M = 2 * h /\ Asked!Word = 0 .. M - 1
  BY Widths DEF Asked!Word
<1>2. \A c \in Asked!Word : Asked!Signed(c) = IF c >= h THEN c - M ELSE c
  BY DEF Asked!Signed
<1> HIDE DEF h
<1>3. \A c \in Asked!Word : Asked!Signed(c) \in -h .. h - 1
  BY <1>1, <1>2
<1>4. \A c \in Asked!Word : c \in 0 .. M - 1
  BY <1>1
<1>5. \A x, y \in -h .. h - 1 : x - y \in -(M - 1) .. M - 1 /\ x \in -M .. M - 1
  BY <1>1
<1>6. Asked!Signed(a) = a \/ (Asked!Signed(a) = a - M /\ a > 0)
  BY <1>1, <1>2
<1> QED
  BY <1>3, <1>4, <1>5, <1>6

\* The carry of the adder is the sign of the difference.
LEMMA SumBitIsSign ==
    ASSUME NEW M \in Nat \ {0}, M = 2^AluWidth,
           NEW x \in -M .. M, NEW y \in -M .. M, x + y \in -(M - 1) .. M - 1
    PROVE  Asked!SumBit(x, y) <=> x + y < 0
<1> DEFINE n == 2 * M
           u == Asked!Wide(x)
           v == Asked!Wide(y)
<1>1. n \in Nat \ {0} /\ \A z : Asked!Wide(z) = z % n
  BY Widths DEF Asked!Wide
<1>2. \A z \in Int : /\ z \in 0 .. n - 1 => Asked!Wide(z) = z
                     /\ z \in -n .. -1 => Asked!Wide(z) = z + n
                     /\ z \in n .. 2 * n - 1 => Asked!Wide(z) = z - n
  <2> HIDE DEF n
  <2> QED
    BY <1>1, Remainders
<1>3. Asked!SumBit(x, y) <=> Asked!Wide(u + v) >= M
  BY DEF Asked!SumBit
<1>4. /\ u = IF x >= 0 THEN x ELSE x + n
      /\ v = IF y >= 0 THEN y ELSE y + n
  BY <1>2
<1> HIDE DEF u, v
<1>5. CASE x + y >= 0
  <2>1. Asked!Wide(u + v) = x + y
    <3>1. u + v \in {x + y, x + y + n} /\ u + v \in Int
      BY <1>4, <1>5
    <3> QED
      BY <1>2, <1>5, <3>1
  <2> QED
    BY <1>3, <1>5, <2>1
<1>6. CASE x + y < 0
  <2>1. Asked!Wide(u + v) = x + y + n
    <3>1. u + v \in {x + y + n, x + y + 2 * n} /\ u + v \in Int
      BY <1>4, <1>6
    <3> QED
      BY <1>2, <1>6, <3>1
  <2> QED
    BY <1>3, <1>6, <2>1
<1> QED
  BY <1>5, <1>6

\* The adder adds modulo M, whatever the signs.
LEMMA Addition ==
    ASSUME NEW a \in Asked!Word, NEW b \in Asked!Word
    PROVE  Asked!Wide(Asked!Signed(a) + Asked!Signed(b)) % 2^AluWidth = (a + b) % 2^AluWidth
<1> DEFINE M == 2^AluWidth
           n == 2 * M
           s == Asked!Signed(a) + Asked!Signed(b)
<1>1. M \in Nat \ {0} /\ \A z : Asked!Wide(z) = z % n
  BY Widths DEF Asked!Wide
<1>2. /\ a \in 0 .. M - 1 /\ b \in 0 .. M - 1 /\ s \in -n .. n - 2
      /\ s \in {a + b, a + b - M, a + b - 2 * M}
  <2>1. \A c \in Asked!Word : /\ c \in 0 .. M - 1
                              /\ Asked!Signed(c) \in -M .. M - 1
                              /\ Asked!Signed(c) = c \/ Asked!Signed(c) = c - M
    BY <1>1, SignedRange
  <2> HIDE DEF M
  <2> QED
    BY <1>1, <2>1
<1> HIDE DEF M, s
<1>3. /\ s >= 0 => Asked!Wide(s) = s
      /\ s < 0 => Asked!Wide(s) = s + n
  <2>1. n \in Nat \ {0} /\ s \in Int
    BY <1>1, <1>2
  <2>2. /\ s \in 0 .. n - 1 => s % n = s
        /\ s \in -n .. -1 => s % n = s + n
    <3> HIDE DEF n
    <3> QED
      BY <2>1, Remainders
  <2> QED
    BY <1>1, <1>2, <2>2
<1>4. \A z \in Int : /\ z \in 0 .. M - 1 => z % M = z
                     /\ z \in M .. 2 * M - 1 => z % M = z - M
  BY <1>1, Remainders
<1>5. Asked!Wide(s) \in {a + b, a + b - M, a + b + M} /\ Asked!Wide(s) \in 0 .. 2 * M - 1
  BY <1>1, <1>2, <1>3
<1>6. Asked!Wide(s) % M = (a + b) % M
  <2> DEFINE w == Asked!Wide(s)
  <2>1. w \in {a + b, a + b - M, a + b + M} /\ w \in 0 .. 2 * M - 1
    BY <1>5
  <2> HIDE DEF w
  <2>2. w % M = (a + b) % M
    BY <1>1, <1>2, <1>4, <2>1
  <2> QED
    BY <2>2 DEF w
<1> QED
  BY <1>6 DEF M, s

\* The bitwise operations are the operations on the sets of bits.
LEMMA Bitwise ==
    ASSUME NEW a \in Asked!Word, NEW b \in Asked!Word
    PROVE  /\ Asked!BitAnd(a, b) = Asked!OfBits(Bits(a) \cap Bits(b))
           /\ Asked!BitOr(a, b) = Asked!OfBits(Bits(a) \cup Bits(b))
           /\ Asked!BitXor(a, b)
                = Asked!OfBits((Bits(a) \cup Bits(b)) \ (Bits(a) \cap Bits(b)))
<1> DEFINE I == 0 .. (AluWidth - 1)
<1>1. \A i \in I : Asked!Bit(a, i) \in {0, 1} /\ Asked!Bit(b, i) \in {0, 1}
  <2>1. SUFFICES ASSUME NEW i \in I PROVE Asked!Bit(a, i) \in {0, 1} /\ Asked!Bit(b, i) \in {0, 1}
    OBVIOUS
  <2> DEFINE p == 2^i
  <2>2. p \in Nat \ {0}
    BY AluWidthAssumption, Double
  <2>3. a \in Int /\ b \in Int
    BY Widths DEF Asked!Word
  <2>4. Asked!Bit(a, i) = (a \div p) % 2 /\ Asked!Bit(b, i) = (b \div p) % 2
    BY DEF Asked!Bit
  <2> HIDE DEF p
  <2>5. a \div p \in Int /\ b \div p \in Int
    BY <2>2, <2>3
  <2> QED
    BY <2>4, <2>5
<1>2. {i \in I : Asked!Bit(a, i) = 1 /\ Asked!Bit(b, i) = 1} = Bits(a) \cap Bits(b)
  BY DEF Bits
<1>3. {i \in I : Asked!Bit(a, i) = 1 \/ Asked!Bit(b, i) = 1} = Bits(a) \cup Bits(b)
  BY DEF Bits
<1>4. {i \in I : Asked!Bit(a, i) # Asked!Bit(b, i)}
        = (Bits(a) \cup Bits(b)) \ (Bits(a) \cap Bits(b))
  BY <1>1 DEF Bits
<1> QED
  BY <1>2, <1>3, <1>4 DEF Asked!BitAnd, Asked!BitOr, Asked!BitXor

\* The comparisons, of the words as they are and of their signed values.
LEMMA Comparison ==
    ASSUME NEW a \in Asked!Word, NEW b \in Asked!Word
    PROVE  /\ Asked!SumBit(a, -b) <=> a < b
           /\ Asked!SumBit(Asked!Signed(a), -Asked!Signed(b)) <=> Asked!Signed(a) < Asked!Signed(b)
           /\ a \in Int /\ b \in Int /\ Asked!Signed(a) \in Int /\ Asked!Signed(b) \in Int
           /\ Asked!Signed(a) = Asked!Signed(b) => a = b
<1> DEFINE M == 2^AluWidth
           s == Asked!Signed(a)
           t == Asked!Signed(b)
<1>1. M \in Nat \ {0}
  BY Widths
<1>2. /\ a \in 0 .. M - 1 /\ b \in 0 .. M - 1
      /\ s \in -M .. M - 1 /\ t \in -M .. M - 1 /\ s - t \in -(M - 1) .. M - 1
      /\ s = a \/ (s = a - M /\ a > 0)
      /\ t = b \/ (t = b - M /\ b > 0)
  BY <1>1, SignedRange
<1>3. \A x, y \in -M .. M : x + y \in -(M - 1) .. M - 1 => (Asked!SumBit(x, y) <=> x + y < 0)
  BY <1>1, SumBitIsSign
<1> HIDE DEF M, s, t
<1>4. Asked!SumBit(a, -b) <=> a < b
  <2>1. a \in -M .. M /\ -b \in -M .. M /\ a + (-b) \in -(M - 1) .. M - 1
        /\ (a + (-b) < 0 <=> a < b)
    BY <1>1, <1>2
  <2> QED
    BY <1>3, <2>1
<1>5. Asked!SumBit(s, -t) <=> s < t
  <2>1. s \in -M .. M /\ -t \in -M .. M /\ s + (-t) \in -(M - 1) .. M - 1
        /\ (s + (-t) < 0 <=> s < t)
    BY <1>1, <1>2
  <2> QED
    BY <1>3, <2>1
<1>6. s = t => a = b
  BY <1>1, <1>2
<1> QED
  BY <1>2, <1>4, <1>5, <1>6 DEF s, t

\* Every operation on every pair of words.
LEMMA EveryOperation ==
    ASSUME NEW op \in AmoOps, NEW a \in Asked!Word, NEW b \in Asked!Word
    PROVE  Asked!Alu(op, a, b) = Reference(op, a, b)
<1> USE DEF Asked!Alu, Reference
<1>1. CASE op = "swap"
  BY <1>1
<1>2. CASE op = "add"
  BY <1>2, Addition
<1>3. CASE op = "and"
  BY <1>3, Bitwise
<1>4. CASE op = "or"
  BY <1>4, Bitwise
<1>5. CASE op = "xor"
  BY <1>5, Bitwise
<1>6. CASE op = "max"
  BY <1>6, Comparison DEF Larger
<1>7. CASE op = "min"
  BY <1>7, Comparison DEF Smaller
<1>8. CASE op = "maxu"
  BY <1>8, Comparison DEF Larger
<1>9. CASE op = "minu"
  BY <1>9, Comparison DEF Smaller
<1> QED
  BY <1>1, <1>2, <1>3, <1>4, <1>5, <1>6, <1>7, <1>8, <1>9 DEF AmoOps

\* The ALU computes what the architecture asks for, whatever the operation, the
\* width and the operands, the most negative word included.
THEOREM AluIsCorrect == MCSpec => []AluMatchesReference
<1> DEFINE Asks == request \in {NoRequest} \cup
                        [op : AmoOps, a : Asked!Word, b : Asked!Word]
<1>1. MCInit => Asks
  BY DEF MCInit
<1>2. Asks /\ [MCNext]_<<vars, request>> => Asks'
  BY DEF MCNext
<1>3. Asks => AluMatchesReference
  <2> SUFFICES ASSUME Asks, request # NoRequest
               PROVE  Asked!Alu(request.op, request.a, request.b)
                        = Reference(request.op, request.a, request.b)
    BY DEF AluMatchesReference
  <2>1. request.op \in AmoOps /\ request.a \in Asked!Word /\ request.b \in Asked!Word
    OBVIOUS
  <2> QED
    BY <2>1, EveryOperation
<1> HIDE DEF Asks
<1> QED
  BY <1>1, <1>2, <1>3, PTL DEF MCSpec

=============================================================================
