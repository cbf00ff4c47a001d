------------------------------ MODULE NpuProofs ------------------------------
(***************************************************************************)
(* The firmware executes nothing but commands that have been enqueued, for *)
(* every queue, every number of cores and every program whose commands     *)
(* write to the data behind the queue only (WellFormed).                   *)
(*                                                                         *)
(* The copy of the queue is made word by word while the host enqueues.  It *)
(* is right because the tail is copied before the commands: whatever is    *)
(* below a tail that has been seen is never written again (the head in DDR *)
(* stays 0, so the host never wraps).  The invariant follows the copy      *)
(* through the registers and the states of the DMA engine (Pulling), keeps *)
(* the transfers of the commands and the results of the cores out of the   *)
(* queues (Moving, Cores), and says that the engine is idle whenever the   *)
(* firmware has no access left to make: the status read after a trigger    *)
(* waits for the engine.                                                   *)
(***************************************************************************)
EXTENDS Npu, TLAPS

\* The words of the queue, and the places behind it.
QueueWords == Slot(Capacity)
Beyond == {n \in Nat : n >= Data(0)}
Places == {"ddr", "tcdm"} \X Beyond

Commands ==
  {<<"wait_dma">>, <<"wait_compute">>, <<"nop">>, <<"finish">>}
    \cup {<<"cfg_matmul", rows, cols>> : rows \in Nat, cols \in Nat}
    \cup {<<"maxpool", a, to>> : a \in Nat, to \in Beyond}
    \cup {<<"matmul", a, b, to>> : a \in Nat, b \in Nat, to \in Beyond}
    \cup {<<op, ext, tcdm, n>> : op \in {"dma_read", "dma_write"},
                                 ext \in Beyond, tcdm \in Beyond, n \in Nat}

DriverCalls ==
  {<<"enqueue", c>> : c \in Commands}
    \cup {<<"doorbell">>, <<"wait_cluster">>, <<"wait_for_interrupt">>}

WellFormed == Programs \subseteq Seq(DriverCalls)

-----------------------------------------------------------------------------
\* The shape of the state.
Shape ==
  /\ mem = [a \in Addresses |-> mem[a]]
  /\ DOMAIN dma = {"src", "dst", "dim_x", "dim_y", "stride_s", "stride_d", "trigger", "rsp",
                   "state", "from", "to", "x", "y", "fifo"}
  /\ dma.trigger \in BOOLEAN /\ dma.rsp \in BOOLEAN
  /\ dma.state \in {"IDLE", "READ", "WRITE", "NEXT_LINE", "DONE"}
  /\ fw \in [pc : {"wfi", "woken", "fetch", "execute", "advance", "succeeded", "done"},
             cmd : Commands, rows : Nat, cols : Nat, tile : Nat]

\* The queue in DDR.
Ddr ==
  /\ mem[<<"ddr", 0>>] = Word(0)
  /\ Last("ddr") \in 0 .. (Capacity - 1)
  /\ \A i \in 0 .. (Last("ddr") - 1) : mem[<<"ddr", Slot(i)>>] \in Commands

\* The host is between calls, or has copied a command and not yet moved the tail.
HostAt ==
  /\ \/ host \in Seq(DriverCalls)
     \/ /\ host # <<>> /\ host[1] = <<"tail">> /\ Tail(host) \in Seq(DriverCalls)
        /\ Last("ddr") + 1 < Capacity
        /\ mem[<<"ddr", Slot(Last("ddr"))>>] \in Commands
  /\ hostReq = <<"load">> => host # <<>>

\* The cores compute results that belong behind the queue.
Cores ==
  /\ cores = [c \in 0 .. (NrCores - 1) |-> cores[c]]
  /\ \A c \in 0 .. (NrCores - 1) : cores[c] # <<>> => cores[c][4] \in Beyond

\* v may stand in word n of the copy.
Good(n, v) ==
  /\ n = 0 => v = Word(0)
  /\ n = 1 => v[2] \in 0 .. Last("ddr")
  /\ n >= 2 /\ n - 2 < Last("tcdm") => v = mem[<<"ddr", n>>]

\* The first k words have been copied.
Copied(k) == \A n \in 0 .. (k - 1) : Good(n, mem[<<"tcdm", n>>])

\* The copy is complete, and the firmware has taken the commands below its head.
Loaded ==
  /\ First("tcdm") \in 0 .. Last("tcdm") /\ Last("tcdm") \in 0 .. Last("ddr")
  /\ \A i \in 0 .. (Last("tcdm") - 1) : mem[<<"tcdm", Slot(i)>>] = mem[<<"ddr", Slot(i)>>]

\* A command has been taken.
Taken ==
  /\ Loaded /\ First("tcdm") < Last("tcdm")
  /\ fw.cmd = mem[<<"ddr", Slot(First("tcdm"))>>]

-----------------------------------------------------------------------------
(* The DMA engine. *)

Idle == dma.state = "IDLE" /\ ~dma.trigger

\* What is left of a sequence of accesses when j of them are done.
Rest(p, j) == [i \in 1 .. (Len(p) - j) |-> p[i + j]]

PullPort ==
  Transfer(<<"ddr", 0>>, <<"tcdm", 0>>, QueueWords,
           <<Store("dim_y", 1), Store("stride_s", 0), Store("stride_d", 0)>>)

\* The engine copies the queue.
PullUnderWay ==
  /\ dma.dim_y = 1
  /\ \/ /\ dma.state = "IDLE" /\ dma.trigger
        /\ dma.src = <<"ddr", 0>> /\ dma.dst = <<"tcdm", 0>> /\ dma.dim_x = QueueWords
     \/ /\ dma.state \in {"READ", "WRITE"} /\ ~dma.trigger /\ dma.y = 1
        /\ \E n \in 0 .. QueueWords :
              /\ dma.from = <<"ddr", n>> /\ dma.to = <<"tcdm", n>> /\ dma.x = QueueWords - n
              /\ Copied(n)
              /\ dma.state = "WRITE" => n < QueueWords /\ Good(n, dma.fifo)
     \/ /\ dma.state \in {"NEXT_LINE", "DONE"} /\ ~dma.trigger /\ dma.y = 1
        /\ Copied(QueueWords)
     \/ Idle /\ Copied(QueueWords)

\* j of the accesses that start the copy and wait for it are done.
Pulling(j) ==
  /\ port = Rest(PullPort, j)
  /\ j >= 2 => dma.src = <<"ddr", 0>>
  /\ j >= 3 => dma.dst = <<"tcdm", 0>>
  /\ j >= 4 => dma.dim_x = QueueWords
  /\ j >= 5 => dma.dim_y = 1
  /\ IF j <= 7 THEN Idle ELSE PullUnderWay

\* The transfer of a command.
Moves == fw.cmd[1] \in {"dma_read", "dma_write"}
To == IF fw.cmd[1] = "dma_read" THEN <<"tcdm", fw.cmd[3]>> ELSE <<"ddr", fw.cmd[2]>>
MovePort ==
  IF fw.cmd[1] = "dma_read" THEN Transfer(<<"ddr", fw.cmd[2]>>, To, fw.cmd[4], <<>>)
                            ELSE Transfer(<<"tcdm", fw.cmd[3]>>, To, fw.cmd[4], <<>>)

MoveUnderWay ==
  \/ dma.state = "IDLE" /\ dma.trigger /\ dma.dst = To /\ dma.dim_x = fw.cmd[4]
  \/ /\ dma.state \in {"READ", "WRITE"} /\ ~dma.trigger /\ dma.y = 1
     /\ dma.to \in Places /\ dma.x \in Nat
     /\ dma.state = "WRITE" => dma.x > 0
  \/ dma.state \in {"NEXT_LINE", "DONE"} /\ ~dma.trigger /\ dma.y = 1
  \/ Idle

Moving(j) ==
  /\ port = Rest(MovePort, j)
  /\ j >= 3 => dma.dst = To
  /\ j >= 4 => dma.dim_x = fw.cmd[4]
  /\ IF j <= 4 THEN Idle ELSE MoveUnderWay

\* Where the firmware is, and what the engine does for it.
Asleep == fw.pc \in {"wfi", "woken"} /\ port = <<>> /\ Idle
Fetching ==
  /\ fw.pc = "fetch"
  /\ \/ \E j \in 0 .. 8 : Pulling(j)
     \/ port = <<>> /\ Idle /\ dma.dim_y = 1 /\ Loaded
Running ==
  /\ fw.pc \in {"execute", "advance", "succeeded", "done"}
  /\ Taken /\ dma.dim_y = 1
  /\ \/ port = <<>> /\ Idle
     \/ fw.pc = "advance" /\ port = <<Status>> /\ Idle
     \/ fw.pc = "advance" /\ Moves /\ \E j \in 0 .. 5 : Moving(j)

EngineAt == (dma.trigger => dma.rsp) /\ (Asleep \/ Fetching \/ Running)

IInv == Shape /\ Ddr /\ HostAt /\ Cores /\ EngineAt
-----------------------------------------------------------------------------
(* Addresses, accesses and copies. *)

\* The layout of a queue.
LEMMA QueueFacts ==
  /\ Capacity \in Nat /\ Capacity >= 2
  /\ QueueWords = Capacity + 2 /\ Data(0) = Capacity + 2
  /\ \A i : Slot(i) = 2 + i
  /\ \A w \in {"ddr", "tcdm"}, n \in 0 .. (QueueWords - 1) : <<w, n>> \in Addresses
<1>1. /\ Capacity \in Nat /\ Capacity >= 2 /\ DataWords \in Nat
      /\ QueueWords = Capacity + 2 /\ \A i : Slot(i) = 2 + i
      /\ \A i : Data(i) = (2 + Capacity) + i
  BY NpuAssumption DEF QueueWords, Data, Slot
<1>2. Addresses = {"ddr", "tcdm"} \X (0 .. (Data(DataWords) - 1))
  BY DEF Addresses
<1>3. Data(DataWords) = (2 + Capacity) + DataWords /\ Data(0) = Capacity + 2
  BY <1>1
<1>4. \A n \in 0 .. (QueueWords - 1) : n \in 0 .. (Data(DataWords) - 1)
  BY <1>1, <1>3
<1> QED
  BY <1>1, <1>2, <1>3, <1>4

\* What is left of a sequence of accesses, access by access.
LEMMA RestStep ==
  ASSUME NEW p, Len(p) \in Nat, NEW j \in Nat, j < Len(p)
  PROVE  /\ Rest(p, j) # <<>> /\ Rest(p, j)[1] = p[j + 1]
         /\ Tail(Rest(p, j)) = Rest(p, j + 1)
<1> DEFINE n == Len(p) - j
<1>1. n \in Nat /\ n >= 1 /\ Rest(p, j) = [i \in 1 .. n |-> p[i + j]]
  BY DEF Rest
<1> HIDE DEF n
<1>2. Len(Rest(p, j)) = n
  BY <1>1
<1>3. Rest(p, j) # <<>> /\ Rest(p, j)[1] = p[j + 1]
  BY <1>1, <1>2
<1>4. Tail(Rest(p, j)) = [i \in 1 .. (n - 1) |-> Rest(p, j)[i + 1]]
  BY <1>1, <1>2
<1>5. \A i \in 1 .. (n - 1) : Rest(p, j)[i + 1] = p[i + (j + 1)]
  BY <1>1
<1>6. Rest(p, j + 1) = [i \in 1 .. (n - 1) |-> p[i + (j + 1)]]
  BY DEF Rest, n
<1> QED
  BY <1>3, <1>4, <1>5, <1>6

\* Nothing is left when all accesses are done.
LEMMA RestEnds ==
  ASSUME NEW p, Len(p) \in Nat
  PROVE  Rest(p, Len(p)) = <<>>
BY DEF Rest

\* Sequences that are put together from few elements.
LEMMA SixAccesses ==
  ASSUME NEW a, NEW b, NEW c, NEW d, NEW e, NEW p, p = (<<a, b, c, d>> \o <<>>) \o <<e, a>>
  PROVE  /\ Len(p) = 6 /\ p[1] = a /\ p[2] = b /\ p[3] = c /\ p[4] = d /\ p[5] = e /\ p[6] = a
         /\ p \in Seq({a, b, c, d, e})
OBVIOUS

\* The same with the three registers of a copy of several lines.
LEMMA NineAccesses ==
  ASSUME NEW a, NEW b, NEW c, NEW d, NEW e, NEW f, NEW g, NEW h, NEW p,
         p = (<<a, b, c, d>> \o <<f, g, h>>) \o <<e, a>>
  PROVE  /\ Len(p) = 9 /\ p[1] = a /\ p[2] = b /\ p[3] = c /\ p[4] = d
         /\ p[5] = f /\ p[6] = g /\ p[7] = h /\ p[8] = e /\ p[9] = a
         /\ p \in Seq({a, b, c, d, e, f, g, h})
OBVIOUS

\* All is left when no access has been made.
LEMMA RestBegins ==
  ASSUME NEW S, NEW p \in Seq(S)
  PROVE  Rest(p, 0) = p
BY DEF Rest

\* The accesses of the pull of the queue.
LEMMA PullAccesses ==
  ASSUME NEW p, p = PullPort
  PROVE  /\ Len(p) = 9 /\ Rest(p, 0) = p
         /\ p[1] = Status /\ p[2] = Store("src", <<"ddr", 0>>) /\ p[3] = Store("dst", <<"tcdm", 0>>)
         /\ p[4] = Store("dim_x", QueueWords) /\ p[5] = Store("dim_y", 1)
         /\ p[6] = Store("stride_s", 0) /\ p[7] = Store("stride_d", 0)
         /\ p[8] = Store("trigger", TRUE) /\ p[9] = Status
<1> DEFINE b == Store("src", <<"ddr", 0>>)
           c == Store("dst", <<"tcdm", 0>>)
           d == Store("dim_x", QueueWords)
           e == Store("trigger", TRUE)
           f == Store("dim_y", 1)
           g == Store("stride_s", 0)
           h == Store("stride_d", 0)
<1>1. p = (<<Status, b, c, d>> \o <<f, g, h>>) \o <<e, Status>>
  BY DEF PullPort, Transfer
<1> HIDE DEF b, c, d, e, f, g, h
<1>2. /\ Len(p) = 9 /\ p[1] = Status /\ p[2] = b /\ p[3] = c /\ p[4] = d
      /\ p[5] = f /\ p[6] = g /\ p[7] = h /\ p[8] = e /\ p[9] = Status
      /\ p \in Seq({Status, b, c, d, e, f, g, h})
  BY <1>1, NineAccesses, Zenon
<1>3. Rest(p, 0) = p
  BY <1>2, RestBegins
<1> QED
  BY <1>2, <1>3, Zenon DEF b, c, d, e, f, g, h

\* The accesses of the transfer that is executed.
LEMMA MoveAccesses ==
  /\ Len(MovePort) = 6 /\ Rest(MovePort, 0) = MovePort
  /\ MovePort[1] = Status /\ MovePort[3] = Store("dst", To) /\ MovePort[4] = Store("dim_x", fw.cmd[4])
  /\ MovePort[5] = Store("trigger", TRUE) /\ MovePort[6] = Status
  /\ \E s : MovePort[2] = Store("src", s)
<1> DEFINE p == MovePort
           s == IF fw.cmd[1] = "dma_read" THEN <<"ddr", fw.cmd[2]>> ELSE <<"tcdm", fw.cmd[3]>>
           b == Store("src", s)
           c == Store("dst", To)
           e == Store("dim_x", fw.cmd[4])
           f == Store("trigger", TRUE)
<1>1. p = (<<Status, b, c, e>> \o <<>>) \o <<f, Status>>
  BY DEF MovePort, Transfer
<1> HIDE DEF p, b, c, e, f
<1>2. /\ Len(p) = 6 /\ p[1] = Status /\ p[2] = b /\ p[3] = c /\ p[4] = e /\ p[5] = f /\ p[6] = Status
      /\ p \in Seq({Status, b, c, e, f})
  BY <1>1
<1>3. Rest(p, 0) = p
  BY <1>2, RestBegins
<1>4. \E z : p[2] = Store("src", z)
  BY <1>2, Zenon DEF b
<1> QED
  BY <1>2, <1>3, <1>4, Zenon DEF p, c, e, f

\* The queue in DDR grows, the copy stays.
Grows ==
  /\ \A n \in 0 .. (QueueWords - 1) : mem'[<<"tcdm", n>>] = mem[<<"tcdm", n>>]
  /\ Last("ddr")' \in Last("ddr") .. (Capacity - 1)
  /\ \A i \in 0 .. (Last("ddr") - 1) : mem'[<<"ddr", Slot(i)>>] = mem[<<"ddr", Slot(i)>>]

GoodNext(n, v) ==
  /\ n = 0 => v = Word(0)
  /\ n = 1 => v[2] \in 0 .. Last("ddr")'
  /\ n >= 2 /\ n - 2 < Last("tcdm")' => v = mem'[<<"ddr", n>>]

\* What has been copied or taken stays right while the queue in DDR grows.
LEMMA GrowingKeeps ==
  ASSUME Ddr, Grows
  PROVE  /\ \A k \in 0 .. QueueWords : Copied(k) => Copied(k)'
         /\ \A n \in 0 .. (QueueWords - 1) : \A v : Copied(n) /\ Good(n, v) => GoodNext(n, v)
         /\ Loaded => Loaded'
         /\ Taken /\ UNCHANGED fw => Taken'
<1>1. /\ Last("ddr") \in 0 .. (Capacity - 1) /\ Last("ddr")' \in Int /\ Last("ddr")' >= Last("ddr")
      /\ First("tcdm")' = First("tcdm") /\ Last("tcdm")' = Last("tcdm")
      /\ \A n \in 0 .. (QueueWords - 1) : mem'[<<"tcdm", n>>] = mem[<<"tcdm", n>>]
  BY QueueFacts DEF Ddr, Grows, First, Last
<1>2. \A i \in 0 .. (Last("ddr") - 1) : mem'[<<"ddr", 2 + i>>] = mem[<<"ddr", 2 + i>>]
  BY QueueFacts DEF Grows
<1>3. ASSUME NEW n \in 0 .. (QueueWords - 1), NEW v, Good(n, v), n >= 2 => Last("tcdm") \in 0 .. Last("ddr")
      PROVE  GoodNext(n, v)
  <2>1. CASE n >= 2 /\ n - 2 < Last("tcdm")
    <3>1. n - 2 \in 0 .. (Last("ddr") - 1) /\ 2 + (n - 2) = n
      BY <1>1, <1>3, <2>1
    <3>2. mem'[<<"ddr", n>>] = mem[<<"ddr", n>>]
      BY <1>2, <3>1
    <3> QED
      BY <1>1, <1>3, <2>1, <3>2 DEF Good, GoodNext
  <2>2. CASE ~(n >= 2 /\ n - 2 < Last("tcdm"))
    BY <1>1, <1>3, <2>2 DEF Good, GoodNext
  <2> QED
    BY <2>1, <2>2
<1>4. ASSUME NEW k \in 0 .. QueueWords, Copied(k), k >= 2 PROVE Last("tcdm") \in 0 .. Last("ddr")
  <2>1. 1 \in 0 .. (k - 1)
    BY <1>4, QueueFacts
  <2> QED
    BY <1>4, <2>1 DEF Copied, Good, Last
<1>5. ASSUME NEW k \in 0 .. QueueWords, Copied(k) PROVE Copied(k)'
  <2>1. ASSUME NEW n \in 0 .. (k - 1) PROVE Good(n, mem[<<"tcdm", n>>])'
    <3>1. n \in 0 .. (QueueWords - 1) /\ (n >= 2 => k >= 2)
      BY QueueFacts
    <3>2. Good(n, mem[<<"tcdm", n>>]) /\ mem'[<<"tcdm", n>>] = mem[<<"tcdm", n>>]
      BY <1>1, <1>5, <3>1 DEF Copied
    <3>3. GoodNext(n, mem'[<<"tcdm", n>>])
      BY <1>3, <1>4, <1>5, <3>1, <3>2
    <3> QED
      BY <3>3 DEF Good, GoodNext
  <2> QED
    BY <2>1 DEF Copied
<1>6. ASSUME NEW n \in 0 .. (QueueWords - 1), NEW v, Copied(n), Good(n, v) PROVE GoodNext(n, v)
  <2>1. n \in 0 .. QueueWords
    BY QueueFacts
  <2> QED
    BY <1>3, <1>4, <1>6, <2>1
<1>7. ASSUME Loaded PROVE Loaded'
  <2>1. /\ First("tcdm") \in 0 .. Last("tcdm") /\ Last("tcdm") \in 0 .. Last("ddr")
        /\ \A i \in 0 .. (Last("tcdm") - 1) : mem[<<"tcdm", Slot(i)>>] = mem[<<"ddr", Slot(i)>>]
    BY <1>7 DEF Loaded
  <2>2. ASSUME NEW i \in 0 .. (Last("tcdm") - 1)
        PROVE  mem'[<<"tcdm", Slot(i)>>] = mem'[<<"ddr", Slot(i)>>]
    <3>1. i \in 0 .. (Last("ddr") - 1) /\ Slot(i) = 2 + i /\ 2 + i \in 0 .. (QueueWords - 1)
      BY <1>1, <2>1, QueueFacts
    <3> QED
      BY <1>1, <1>2, <2>1, <3>1
  <2> QED
    BY <1>1, <2>1, <2>2 DEF Loaded
<1>8. ASSUME Taken, UNCHANGED fw PROVE Taken'
  <2>1. /\ First("tcdm") \in 0 .. (Last("tcdm") - 1) /\ Last("tcdm") \in 0 .. Last("ddr")
        /\ fw.cmd = mem[<<"ddr", Slot(First("tcdm"))>>]
    BY <1>8 DEF Taken, Loaded
  <2>2. First("tcdm") \in 0 .. (Last("ddr") - 1)
    BY <1>1, <2>1
  <2>3. mem'[<<"ddr", Slot(First("tcdm"))>>] = mem[<<"ddr", Slot(First("tcdm"))>>]
    BY <2>2 DEF Grows
  <2> QED
    BY <1>1, <1>7, <1>8, <2>1, <2>3 DEF Taken
<1> QED
  BY <1>5, <1>6, <1>7, <1>8
\* The words of the queues stay.
QueuesKept ==
  \A w \in {"ddr", "tcdm"}, n \in 0 .. (QueueWords - 1) : mem'[<<w, n>>] = mem[<<w, n>>]

\* A queue in DDR whose words stay is one that grows by nothing.
LEMMA KeptGrows ==
  ASSUME Ddr, QueuesKept
  PROVE  Ddr' /\ Grows /\ (HostAt /\ UNCHANGED <<host, hostReq>> => HostAt')
<1>1. /\ Last("ddr") \in 0 .. (Capacity - 1) /\ mem[<<"ddr", 0>>] = Word(0)
      /\ \A i \in 0 .. (Last("ddr") - 1) : mem[<<"ddr", Slot(i)>>] \in Commands
  BY DEF Ddr
<1>2. mem'[<<"ddr", 0>>] = mem[<<"ddr", 0>>] /\ mem'[<<"ddr", 1>>] = mem[<<"ddr", 1>>]
  BY QueueFacts DEF QueuesKept
<1>3. Last("ddr")' = Last("ddr")
  BY <1>2 DEF Last
<1>4. \A i \in 0 .. (Capacity - 1) : mem'[<<"ddr", Slot(i)>>] = mem[<<"ddr", Slot(i)>>]
  <2>1. \A i \in 0 .. (Capacity - 1) : Slot(i) \in 0 .. (QueueWords - 1)
    BY QueueFacts
  <2> QED
    BY <2>1 DEF QueuesKept
<1>5. \A i \in 0 .. (Last("ddr") - 1) : i \in 0 .. (Capacity - 1)
  BY <1>1, QueueFacts
<1>6. Ddr'
  BY <1>1, <1>2, <1>3, <1>4, <1>5 DEF Ddr
<1>7. Grows
  BY <1>1, <1>3, <1>4, <1>5, QueueFacts DEF Grows, QueuesKept
<1>8. ASSUME HostAt, UNCHANGED <<host, hostReq>> PROVE HostAt'
  BY <1>1, <1>3, <1>4, <1>8 DEF HostAt
<1> QED
  BY <1>6, <1>7, <1>8

\* The queue in DDR stays, whatever is done in the TCDM.
LEMMA DdrStays ==
  ASSUME Ddr, HostAt, UNCHANGED <<host, hostReq>>,
         \A n \in 0 .. (QueueWords - 1) : mem'[<<"ddr", n>>] = mem[<<"ddr", n>>]
  PROVE  Ddr' /\ HostAt'
<1>1. Last("ddr")' = Last("ddr") /\ mem'[<<"ddr", 0>>] = mem[<<"ddr", 0>>]
  BY QueueFacts DEF Last
<1>2. \A i \in 0 .. (Capacity - 1) : mem'[<<"ddr", Slot(i)>>] = mem[<<"ddr", Slot(i)>>]
  BY QueueFacts
<1>3. Last("ddr") \in 0 .. (Capacity - 1) /\ \A i \in 0 .. (Last("ddr") - 1) : i \in 0 .. (Capacity - 1)
  BY QueueFacts DEF Ddr
<1> QED
  BY <1>1, <1>2, <1>3 DEF Ddr, HostAt

\* A write behind the queue leaves the queues alone.
LEMMA WriteBeyond ==
  ASSUME Shape, NEW x \in Places, NEW v, mem' = [mem EXCEPT ![x] = v]
  PROVE  mem' = [a \in Addresses |-> mem'[a]] /\ QueuesKept
<1>1. mem = [a \in Addresses |-> mem[a]]
  BY DEF Shape
<1>2. mem' = [a \in Addresses |-> mem'[a]] /\ \A a \in Addresses : a # x => mem'[a] = mem[a]
  BY <1>1
<1>3. ASSUME NEW w \in {"ddr", "tcdm"}, NEW n \in 0 .. (QueueWords - 1) PROVE mem'[<<w, n>>] = mem[<<w, n>>]
  <2>1. x[2] >= QueueWords
    BY QueueFacts DEF Places, Beyond
  <2>2. x # <<w, n>>
    BY <2>1, QueueFacts
  <2> QED
    BY <1>2, <2>2, QueueFacts
<1> QED
  BY <1>2, <1>3 DEF QueuesKept

\* The firmware and its engine are where they were when the queue in DDR grows.
LEMMA EngineGrows ==
  ASSUME Ddr, EngineAt, Grows, UNCHANGED <<fw, port, dma>>
  PROVE  EngineAt'
<1>1. UNCHANGED fw /\ UNCHANGED port /\ UNCHANGED dma
  OBVIOUS
<1>2. (dma.trigger => dma.rsp)'
  BY <1>1 DEF EngineAt
<1>3. CASE Asleep
  BY <1>1, <1>2, <1>3 DEF EngineAt, Asleep, Idle
<1>4. ASSUME NEW j \in 0 .. 8, Pulling(j), fw.pc = "fetch" PROVE Fetching'
  <2>1. PullUnderWay => PullUnderWay'
    <3>1. QueueWords \in 0 .. QueueWords
      BY QueueFacts
    <3>2. \A n \in 0 .. QueueWords : n < QueueWords => n \in 0 .. (QueueWords - 1)
      BY QueueFacts
    <3>3. \A k \in 0 .. QueueWords : Copied(k) => Copied(k)'
      BY GrowingKeeps
    <3>4. \A n \in 0 .. QueueWords : n < QueueWords /\ Copied(n) /\ Good(n, dma.fifo) => Good(n, dma.fifo)'
      <4>1. ASSUME NEW n \in 0 .. QueueWords, n < QueueWords, Copied(n), Good(n, dma.fifo) PROVE GoodNext(n, dma.fifo)
        BY <3>2, <4>1, GrowingKeeps
      <4> QED
        BY <1>1, <4>1 DEF Good, GoodNext
    <3> QED
      BY <1>1, <3>1, <3>3, <3>4 DEF PullUnderWay, Idle
  <2>2. Pulling(j)'
    BY <1>1, <1>4, <2>1 DEF Pulling, Idle
  <2> QED
    BY <1>1, <1>4, <2>2 DEF Fetching
<1>5. CASE Fetching
  <2>1. CASE port = <<>> /\ Idle /\ dma.dim_y = 1 /\ Loaded
    BY <1>1, <1>2, <1>5, <2>1, GrowingKeeps DEF EngineAt, Fetching, Idle
  <2>2. CASE \E j \in 0 .. 8 : Pulling(j)
    BY <1>2, <1>4, <1>5, <2>2 DEF EngineAt, Fetching
  <2> QED
    BY <1>5, <2>1, <2>2 DEF Fetching
<1>6. CASE Running
  <2>1. Taken' /\ fw'.pc \in {"execute", "advance", "succeeded", "done"} /\ dma'.dim_y = 1
    BY <1>1, <1>6, GrowingKeeps DEF Running
  <2>2. \A j \in 0 .. 5 : Moving(j) => Moving(j)'
    BY <1>1 DEF Moving, MovePort, MoveUnderWay, To, Idle
  <2> QED
    BY <1>1, <1>2, <1>6, <2>1, <2>2 DEF EngineAt, Running, Idle, Moves
<1> QED
  BY <1>3, <1>5, <1>6 DEF EngineAt
-----------------------------------------------------------------------------
(* The host, the mailbox and the cores. *)

\* The words of the queues are kept, and so is all that the engine does.
LEMMA KeptKeeps ==
  ASSUME Ddr, EngineAt, QueuesKept, UNCHANGED <<fw, port, dma>>
  PROVE  Ddr' /\ EngineAt'
BY KeptGrows, EngineGrows

\* Nothing written, nothing lost.
LEMMA MemoryKept ==
  ASSUME UNCHANGED mem
  PROVE  QueuesKept
BY DEF QueuesKept

\* A tail that does not wrap.
LEMMA SmallRemainder ==
  ASSUME NEW n \in Nat, NEW m \in Nat
  PROVE  n < m => (n % m) = n
OBVIOUS

\* The driver: npu_enqueue writes where nobody has seen a command, then moves the tail.
LEMMA HostStep ==
  ASSUME IInv, Host
  PROVE  IInv'
<1>1. Shape /\ Ddr /\ HostAt /\ Cores /\ EngineAt
  BY DEF IInv
<1>2. UNCHANGED fw /\ UNCHANGED port /\ UNCHANGED dma /\ UNCHANGED cores
  BY DEF Host, Full, CopyCommand, UpdateTail, Ring, Poll, WaitForInterrupt
<1>3. Cores'
  BY <1>1, <1>2 DEF Cores
<1>4. host # <<>> /\ hostReq = <<>>
  BY DEF Host, Full, CopyCommand, UpdateTail, Ring, Poll, WaitForInterrupt, Calling
<1>5. Last("ddr") \in 0 .. (Capacity - 1)
  BY <1>1 DEF Ddr
<1>6. ASSUME host[1] # <<"tail">>
      PROVE  host \in Seq(DriverCalls) /\ host[1] \in DriverCalls /\ Tail(host) \in Seq(DriverCalls)
  BY <1>1, <1>4, <1>6 DEF HostAt
<1>7. ASSUME UNCHANGED mem, hostReq' # <<"load">> \/ host' # <<>>,
             \/ host' = host
             \/ host' = Tail(host) /\ host[1] # <<"tail">>
      PROVE  IInv'
  <2>1. QueuesKept
    BY <1>7, MemoryKept
  <2>2. Ddr' /\ EngineAt'
    BY <1>1, <1>2, <2>1, KeptKeeps
  <2>3. Shape'
    BY <1>1, <1>2, <1>7 DEF Shape
  <2>4. HostAt'
    BY <1>1, <1>6, <1>7 DEF HostAt, Last
  <2> QED
    BY <1>3, <2>2, <2>3, <2>4 DEF IInv
<1>8. CASE Full
  <2>1. host[1][1] = "enqueue" /\ <<"tail">>[1] = "tail"
    BY <1>8 DEF Full, Calling, Call
  <2> QED
    BY <1>4, <1>7, <1>8, <2>1 DEF Full, Return
<1>9. CASE Ring
  <2>1. host[1][1] = "doorbell" /\ <<"tail">>[1] = "tail"
    BY <1>9 DEF Ring, Calling, Call
  <2>2. hostReq' # <<"load">>
    BY <1>9 DEF Ring
  <2> QED
    BY <1>7, <1>9, <2>1, <2>2 DEF Ring, Return
<1>10. CASE Poll
  BY <1>4, <1>7, <1>10 DEF Poll
<1>11. CASE WaitForInterrupt
  <2>1. host[1][1] = "wait_for_interrupt" /\ <<"tail">>[1] = "tail"
    BY <1>11 DEF WaitForInterrupt, Calling, Call
  <2> QED
    BY <1>4, <1>7, <1>11, <2>1 DEF WaitForInterrupt, Return
<1>12. CASE CopyCommand
  <2>1. /\ NextTail # First("ddr") /\ host[1][1] = "enqueue" /\ hostReq' = hostReq
        /\ mem' = [mem EXCEPT ![<<"ddr", Slot(Last("ddr"))>>] = host[1][2]]
        /\ host' = [host EXCEPT ![1] = <<"tail">>]
    BY <1>12 DEF CopyCommand, Calling, Call
  <2>2. host[1] # <<"tail">>
    BY <2>1
  <2>3. host \in Seq(DriverCalls) /\ host[1] \in DriverCalls /\ Tail(host) \in Seq(DriverCalls)
    BY <1>6, <2>2
  <2>4. host[1][2] \in Commands
    <3>1. CASE \E c \in Commands : host[1] = <<"enqueue", c>>
      BY <3>1
    <3>2. CASE host[1] \in {<<"doorbell">>, <<"wait_cluster">>, <<"wait_for_interrupt">>}
      BY <2>1, <3>2
    <3> QED
      BY <2>3, <3>1, <3>2 DEF DriverCalls
  <2>5. Last("ddr") + 1 < Capacity
    <3>1. First("ddr") = 0
      BY <1>1 DEF Ddr, First, Word
    <3>2. CASE Last("ddr") + 1 = Capacity
      BY <2>1, <3>1, <3>2, QueueFacts DEF NextTail
    <3> QED
      BY <1>5, <3>2, QueueFacts
  <2>6. <<"ddr", Slot(Last("ddr"))>> \in Addresses /\ Slot(Last("ddr")) = 2 + Last("ddr")
    BY <1>5, QueueFacts
  <2>7. mem = [a \in Addresses |-> mem[a]]
    BY <1>1 DEF Shape
  <2>8. mem'[<<"ddr", Slot(Last("ddr"))>>] = host[1][2]
    BY <2>1, <2>6, <2>7
  <2>9. \A a \in Addresses : a # <<"ddr", Slot(Last("ddr"))>> => mem'[a] = mem[a]
    BY <2>1, <2>6, <2>7
  <2>10. mem'[<<"ddr", 0>>] = mem[<<"ddr", 0>>] /\ mem'[<<"ddr", 1>>] = mem[<<"ddr", 1>>]
    <3>1. <<"ddr", 0>> \in Addresses /\ <<"ddr", 1>> \in Addresses
      BY QueueFacts
    <3> QED
      BY <1>5, <2>6, <2>9, <3>1
  <2>11. Last("ddr")' = Last("ddr")
    BY <2>10 DEF Last
  <2>12. \A i \in 0 .. (Last("ddr") - 1) : mem'[<<"ddr", Slot(i)>>] = mem[<<"ddr", Slot(i)>>]
    <3> TAKE i \in 0 .. (Last("ddr") - 1)
    <3>1. Slot(i) = 2 + i /\ Slot(i) \in 0 .. (QueueWords - 1) /\ Slot(i) # Slot(Last("ddr"))
      BY <1>5, <2>6, QueueFacts
    <3>2. <<"ddr", Slot(i)>> \in Addresses /\ <<"ddr", Slot(i)>> # <<"ddr", Slot(Last("ddr"))>>
      BY <3>1, QueueFacts
    <3> QED
      BY <2>9, <3>2
  <2>13. \A n \in 0 .. (QueueWords - 1) : mem'[<<"tcdm", n>>] = mem[<<"tcdm", n>>]
    BY <2>9, QueueFacts
  <2>14. Grows
    BY <1>5, <2>11, <2>12, <2>13 DEF Grows
  <2>15. Ddr'
    BY <1>1, <2>10, <2>11, <2>12 DEF Ddr
  <2>16. HostAt'
    <3>1. host' # <<>> /\ host'[1] = <<"tail">> /\ Tail(host') = Tail(host)
      BY <1>4, <2>1, <2>3
    <3>2. mem'[<<"ddr", Slot(Last("ddr"))>>] \in Commands
      BY <2>4, <2>8
    <3> QED
      BY <2>3, <2>5, <2>11, <3>1, <3>2 DEF HostAt
  <2>17. Shape'
    BY <1>1, <1>2, <2>1, <2>7 DEF Shape
  <2>18. EngineAt'
    BY <1>1, <1>2, <2>14, EngineGrows
  <2> QED
    BY <1>3, <2>15, <2>16, <2>17, <2>18 DEF IInv
<1>13. CASE UpdateTail
  <2>1. /\ host[1][1] = "tail" /\ hostReq' = hostReq /\ host' = Tail(host)
        /\ mem' = [mem EXCEPT ![<<"ddr", 1>>] = Word(NextTail)]
    BY <1>13 DEF UpdateTail, Calling, Call, Return
  <2>2. /\ Tail(host) \in Seq(DriverCalls) /\ Last("ddr") + 1 < Capacity
        /\ mem[<<"ddr", Slot(Last("ddr"))>>] \in Commands
    <3>1. CASE host \in Seq(DriverCalls)
      <4>1. host[1] \in DriverCalls
        BY <1>4, <3>1
      <4> QED
        BY <2>1, <4>1 DEF DriverCalls
    <3> QED
      BY <1>1, <3>1 DEF HostAt
  <2>3. NextTail = Last("ddr") + 1
    <3>1. Last("ddr") + 1 \in 0 .. (Capacity - 1)
      BY <1>5, <2>2, QueueFacts
    <3> QED
      BY <3>1, SmallRemainder, QueueFacts DEF NextTail
  <2>4. <<"ddr", 1>> \in Addresses /\ mem = [a \in Addresses |-> mem[a]]
    BY <1>1, QueueFacts DEF Shape
  <2>5. Last("ddr")' = Last("ddr") + 1
    BY <2>1, <2>3, <2>4 DEF Last, Word
  <2>6. \A a \in Addresses : a # <<"ddr", 1>> => mem'[a] = mem[a]
    BY <2>1, <2>4
  <2>7. \A i \in 0 .. (Capacity - 1) : mem'[<<"ddr", Slot(i)>>] = mem[<<"ddr", Slot(i)>>]
    <3> TAKE i \in 0 .. (Capacity - 1)
    <3>1. Slot(i) = 2 + i /\ Slot(i) \in 0 .. (QueueWords - 1) /\ Slot(i) # 1
      BY QueueFacts
    <3>2. <<"ddr", Slot(i)>> \in Addresses /\ <<"ddr", Slot(i)>> # <<"ddr", 1>>
      BY <3>1, QueueFacts
    <3> QED
      BY <2>6, <3>2
  <2>8. \A n \in 0 .. (QueueWords - 1) : mem'[<<"tcdm", n>>] = mem[<<"tcdm", n>>]
    BY <2>6, QueueFacts
  <2>9. mem'[<<"ddr", 0>>] = mem[<<"ddr", 0>>]
    BY <2>6, QueueFacts
  <2>10. Last("ddr") \in 0 .. (Capacity - 1) /\ \A i \in 0 .. (Last("ddr") - 1) : i \in 0 .. (Capacity - 1)
    BY <1>5, QueueFacts
  <2>11. Grows
    BY <1>5, <2>2, <2>5, <2>7, <2>8, <2>10, QueueFacts DEF Grows
  <2>12. Ddr'
    <3>1. \A i \in 0 .. ((Last("ddr") + 1) - 1) : i \in 0 .. (Last("ddr") - 1) \/ i = Last("ddr")
      BY <1>5
    <3>2. \A i \in 0 .. (Last("ddr") - 1) : mem[<<"ddr", Slot(i)>>] \in Commands
      BY <1>1 DEF Ddr
    <3>3. \A i \in 0 .. ((Last("ddr") + 1) - 1) : mem'[<<"ddr", Slot(i)>>] \in Commands
      BY <2>2, <2>7, <2>10, <3>1, <3>2
    <3>4. Last("ddr")' \in 0 .. (Capacity - 1)
      BY <1>5, <2>2, <2>5, QueueFacts
    <3> QED
      BY <1>1, <2>5, <2>9, <3>3, <3>4 DEF Ddr
  <2>13. HostAt'
    BY <1>4, <2>1, <2>2 DEF HostAt
  <2>14. Shape'
    BY <1>1, <1>2, <2>1, <2>4 DEF Shape
  <2>15. EngineAt'
    BY <1>1, <1>2, <2>11, EngineGrows
  <2> QED
    BY <1>3, <2>12, <2>13, <2>14, <2>15 DEF IInv
<1> QED
  BY <1>8, <1>9, <1>10, <1>11, <1>12, <1>13 DEF Host

\* The mailbox touches neither queue nor engine.
LEMMA MailboxStep ==
  ASSUME IInv, NEW h \in BOOLEAN, NEW c \in {"absent", "stalled", "accepted"}, MailboxCycle(h, c)
  PROVE  IInv'
<1>1. Shape /\ Ddr /\ HostAt /\ Cores /\ EngineAt
  BY DEF IInv
<1>2. UNCHANGED mem /\ UNCHANGED fw /\ UNCHANGED port /\ UNCHANGED dma /\ UNCHANGED cores
  BY DEF MailboxCycle
<1>3. Ddr' /\ EngineAt'
  BY <1>1, <1>2, MemoryKept, KeptKeeps
<1>4. \/ host' = host /\ (hostReq' = hostReq \/ hostReq' # <<"load">>)
      \/ host' = Tail(host) /\ hostReq = <<"load">> /\ hostReq' # <<"load">>
  BY DEF MailboxCycle
<1>5. HostAt'
  <2>1. CASE host' = host /\ (hostReq' = hostReq \/ hostReq' # <<"load">>)
    BY <1>1, <1>2, <2>1 DEF HostAt, Last
  <2>2. CASE host' = Tail(host) /\ hostReq = <<"load">> /\ hostReq' # <<"load">>
    <3>1. host # <<>>
      BY <1>1, <2>2 DEF HostAt
    <3>2. Tail(host) \in Seq(DriverCalls)
      BY <1>1, <3>1 DEF HostAt
    <3> QED
      BY <2>2, <3>2 DEF HostAt
  <2> QED
    BY <1>4, <2>1, <2>2
<1> QED
  BY <1>1, <1>2, <1>3, <1>5 DEF IInv, Shape, Cores

\* A compute core writes behind the queues.
LEMMA CoreStep ==
  ASSUME IInv, NEW c \in 0 .. (NrCores - 1), CoreDone(c)
  PROVE  IInv'
<1>1. Shape /\ Ddr /\ HostAt /\ Cores /\ EngineAt
  BY DEF IInv
<1>2. UNCHANGED host /\ UNCHANGED hostReq /\ UNCHANGED fw /\ UNCHANGED port /\ UNCHANGED dma
  BY DEF CoreDone
<1> DEFINE x == <<"tcdm", cores[c][4]>>
<1>3. x \in Places
  BY <1>1 DEF Cores, CoreDone, Places
<1>4. mem' = [mem EXCEPT ![x] = Result(cores[c], mem)]
  BY DEF CoreDone
<1> HIDE DEF x
<1>5. mem' = [a \in Addresses |-> mem'[a]] /\ QueuesKept
  BY <1>1, <1>3, <1>4, WriteBeyond
<1>6. Ddr' /\ EngineAt' /\ HostAt'
  BY <1>1, <1>2, <1>5, KeptKeeps, KeptGrows
<1>7. Shape'
  BY <1>1, <1>2, <1>5 DEF Shape
<1>8. Cores'
  BY <1>1 DEF Cores, CoreDone
<1> QED
  BY <1>6, <1>7, <1>8 DEF IInv
-----------------------------------------------------------------------------
(* The firmware. *)

\* When the firmware has no access left to make, its engine is idle.
LEMMA FirmwareGoesOn ==
  ASSUME EngineAt, port = <<>>
  PROVE  /\ Idle
         /\ fw.pc \in {"wfi", "woken"} => Asleep
         /\ fw.pc = "fetch" => dma.dim_y = 1 /\ Loaded
         /\ fw.pc \in {"execute", "advance", "succeeded", "done"} => Taken /\ dma.dim_y = 1
<1>1. ASSUME NEW j \in 0 .. 8 PROVE ~Pulling(j)
  <2>1. /\ j \in Nat /\ j < Len(PullPort) /\ Len(PullPort) \in Nat
    <3>1. Len(PullPort) = 9
      BY PullAccesses, Zenon
    <3> QED
      BY <3>1
  <2>2. Rest(PullPort, j) # <<>>
    BY <2>1, RestStep
  <2> QED
    BY <2>2 DEF Pulling
<1>2. ASSUME NEW j \in 0 .. 5 PROVE ~Moving(j)
  <2>1. Len(MovePort) = 6
    BY MoveAccesses
  <2>2. j \in Nat /\ j < Len(MovePort) /\ Len(MovePort) \in Nat
    BY <2>1
  <2>3. Rest(MovePort, j) # <<>>
    BY <2>2, RestStep
  <2> QED
    BY <2>3 DEF Moving
<1>3. port # <<Status>>
  OBVIOUS
<1>4. CASE Asleep
  BY <1>4 DEF Asleep
<1>5. CASE Fetching
  BY <1>1, <1>5 DEF Fetching
<1>6. CASE Running
  BY <1>2, <1>3, <1>6 DEF Running
<1> QED
  BY <1>4, <1>5, <1>6 DEF EngineAt

\* The commands, one by one.
LEMMA CommandFields ==
  ASSUME NEW c \in Commands
  PROVE  /\ c[1] = "cfg_matmul" => c[2] \in Nat /\ c[3] \in Nat
         /\ c[1] = "maxpool" => c[3] \in Beyond
         /\ c[1] = "matmul" => c[4] \in Beyond
         /\ c[1] \in {"dma_read", "dma_write"} => c[2] \in Beyond /\ c[3] \in Beyond /\ c[4] \in Nat
<1>1. CASE c \in {<<"wait_dma">>, <<"wait_compute">>, <<"nop">>, <<"finish">>}
  BY <1>1
<1>2. CASE \E rows, cols \in Nat : c = <<"cfg_matmul", rows, cols>>
  BY <1>2
<1>3. CASE \E a \in Nat, to \in Beyond : c = <<"maxpool", a, to>>
  BY <1>3
<1>4. CASE \E a \in Nat, b \in Nat, to \in Beyond : c = <<"matmul", a, b, to>>
  BY <1>4
<1>5. CASE \E op \in {"dma_read", "dma_write"}, ext \in Beyond, tcdm \in Beyond, n \in Nat : c = <<op, ext, tcdm, n>>
  BY <1>5
<1> QED
  BY <1>1, <1>2, <1>3, <1>4, <1>5 DEF Commands

\* A tile's place is not before the first result's.
LEMMA TilePlace ==
  ASSUME NEW to \in Beyond, NEW tile \in Nat, NEW rows \in Nat \ {0}
  PROVE  to + (tile \div rows) * rows + (tile % rows) \in Beyond
<1> DEFINE n == tile \div rows
           m == tile % rows
<1>1. n \in Nat /\ m \in Nat
  OBVIOUS
<1> HIDE DEF n, m
<1> DEFINE k == n * rows
<1>2. k \in Nat
  BY <1>1
<1> HIDE DEF k
<1>3. to + k + m \in Beyond
  BY <1>1, <1>2, QueueFacts DEF Beyond
<1> QED
  BY <1>3 DEF k, n, m

\* The firmware, operation by operation.
LEMMA FirmwareStep ==
  ASSUME IInv, Firmware
  PROVE  IInv'
<1>1. Shape /\ Ddr /\ HostAt /\ Cores /\ EngineAt
  BY DEF IInv
<1>2. UNCHANGED host /\ UNCHANGED hostReq /\ UNCHANGED mbox /\ UNCHANGED dma /\ port = <<>>
  BY DEF Firmware, Wake, Pull, Fetch, TransferOp, WaitOp, ConfigureOp, MaxPoolOp, StartTile,
         TilesStarted, Advance, Succeed, Done, Finish, At, Is, Quiet
<1>3. /\ Idle /\ (dma.trigger => dma.rsp)' /\ Idle'
      /\ fw.pc \in {"wfi", "woken"} => Asleep
      /\ fw.pc = "fetch" => dma.dim_y = 1 /\ Loaded
      /\ fw.pc \in {"execute", "advance", "succeeded", "done"} => Taken /\ dma.dim_y = 1
  BY <1>1, <1>2, FirmwareGoesOn DEF Idle, EngineAt
<1>4. fw.cmd \in Commands /\ fw.rows \in Nat /\ fw.cols \in Nat /\ fw.tile \in Nat
  BY <1>1 DEF Shape
<1>5. ASSUME UNCHANGED mem, UNCHANGED cores, EngineAt',
             fw' \in [pc : {"wfi", "woken", "fetch", "execute", "advance", "succeeded", "done"},
                      cmd : Commands, rows : Nat, cols : Nat, tile : Nat]
      PROVE  IInv'
  <2>1. Shape' /\ Cores'
    BY <1>1, <1>2, <1>5 DEF Shape, Cores
  <2>2. Ddr' /\ HostAt'
    BY <1>1, <1>2, <1>5 DEF Ddr, HostAt, Last
  <2> QED
    BY <1>5, <2>1, <2>2 DEF IInv
\* A command goes on: everything it has taken stays as it is.
<1>6. ASSUME UNCHANGED mem, Taken, dma.dim_y = 1, fw'.cmd = fw.cmd, port' = <<>>,
             fw'.pc \in {"execute", "advance", "succeeded", "done"}
      PROVE  EngineAt'
  <2>1. Taken'
    BY <1>6 DEF Taken, Loaded, First, Last
  <2> QED
    BY <1>2, <1>3, <1>6, <2>1 DEF EngineAt, Running
<1>7. CASE Wake
  <2>1. fw.pc = "wfi" /\ fw' = [fw EXCEPT !.pc = "woken"] /\ port' = <<>>
    BY <1>2, <1>7 DEF Wake, At
  <2>2. EngineAt'
    BY <1>1, <1>3, <2>1 DEF EngineAt, Asleep, Shape
  <2> QED
    BY <1>1, <1>5, <1>7, <2>1, <2>2 DEF Wake, Shape
<1>8. CASE Pull
  <2>1. fw' = [fw EXCEPT !.pc = "fetch"] /\ port' = PullPort
    BY <1>8 DEF Pull, PullPort, QueueWords
  <2>2. port' = Rest(PullPort, 0)
    BY <2>1, PullAccesses
  <2>3. Pulling(0)'
    BY <1>3, <2>2 DEF Pulling, PullPort, Transfer
  <2>4. EngineAt'
    BY <1>1, <1>3, <2>1, <2>3 DEF EngineAt, Fetching, Shape
  <2> QED
    BY <1>1, <1>5, <1>8, <2>1, <2>4 DEF Pull, Shape
<1>9. CASE Fetch
  <2>1. fw.pc = "fetch" /\ port' = <<>> /\ UNCHANGED mem /\ UNCHANGED cores
    BY <1>2, <1>9 DEF Fetch, At
  <2>2. dma.dim_y = 1 /\ Loaded
    BY <1>3, <2>1
  <2>3. CASE First("tcdm") = Last("tcdm")
    <3>1. fw' = [fw EXCEPT !.pc = "wfi"]
      BY <1>9, <2>3 DEF Fetch
    <3>2. EngineAt'
      BY <1>1, <1>3, <2>1, <3>1 DEF EngineAt, Asleep, Shape
    <3> QED
      BY <1>1, <1>5, <2>1, <3>1, <3>2 DEF Shape
  <2>4. CASE First("tcdm") # Last("tcdm")
    <3>1. fw' = [fw EXCEPT !.pc = "execute", !.cmd = mem[<<"tcdm", Slot(First("tcdm"))>>]]
      BY <1>9, <2>4 DEF Fetch
    <3>2. First("tcdm") \in 0 .. (Last("tcdm") - 1) /\ First("tcdm") \in 0 .. (Last("ddr") - 1)
      BY <2>2, <2>4, <1>1 DEF Loaded, Ddr
    <3>3. mem[<<"tcdm", Slot(First("tcdm"))>>] = mem[<<"ddr", Slot(First("tcdm"))>>]
      BY <2>2, <3>2 DEF Loaded
    <3>4. mem[<<"ddr", Slot(First("tcdm"))>>] \in Commands
      BY <1>1, <3>2 DEF Ddr
    <3>5. fw'.pc = "execute" /\ fw'.cmd = mem[<<"ddr", Slot(First("tcdm"))>>]
      BY <1>1, <3>1, <3>3 DEF Shape
    <3>6. Taken'
      BY <2>1, <2>2, <3>2, <3>5 DEF Taken, Loaded, First, Last
    <3>7. EngineAt'
      BY <1>2, <1>3, <2>1, <2>2, <3>5, <3>6 DEF EngineAt, Running
    <3> QED
      BY <1>1, <1>5, <2>1, <3>1, <3>3, <3>4, <3>7 DEF Shape
  <2> QED
    BY <2>3, <2>4
<1>10. CASE TransferOp
  <2>1. /\ fw.pc = "execute" /\ fw' = [fw EXCEPT !.pc = "advance"]
        /\ UNCHANGED mem /\ UNCHANGED cores
        /\ fw.cmd[1] \in {"dma_read", "dma_write", "wait_dma"}
    BY <1>10 DEF TransferOp, At, Executed
  <2>2. Taken /\ dma.dim_y = 1
    BY <1>3, <2>1
  <2>3. fw'.pc = "advance" /\ fw'.cmd = fw.cmd
    BY <1>1, <2>1 DEF Shape
  <2>4. Taken'
    BY <2>1, <2>2, <2>3 DEF Taken, Loaded, First, Last
  <2>5. CASE fw.cmd[1] = "wait_dma"
    <3>1. port' = <<Status>>
      BY <1>10, <2>5 DEF TransferOp
    <3> QED
      BY <1>1, <1>2, <1>3, <1>5, <2>1, <2>2, <2>3, <2>4, <3>1 DEF EngineAt, Running, Shape
  <2>6. CASE Moves
    <3>1. port' = MovePort
      <4>1. CASE fw.cmd[1] = "dma_read"
        BY <1>10, <4>1 DEF TransferOp, MovePort, To
      <4>2. CASE fw.cmd[1] = "dma_write"
        BY <1>10, <4>2 DEF TransferOp, MovePort, To
      <4> QED
        BY <2>6, <4>1, <4>2 DEF Moves
    <3>2. Rest(MovePort, 0) = MovePort
      BY MoveAccesses
    <3>3. MovePort' = MovePort /\ Moves'
      BY <2>3, <2>6 DEF MovePort, To, Moves
    <3>4. port' = Rest(MovePort, 0)'
      BY <3>1, <3>2, <3>3 DEF Rest
    <3>5. Moving(0)'
      BY <1>3, <3>4 DEF Moving
    <3>6. EngineAt'
      BY <1>2, <1>3, <2>2, <2>3, <2>4, <3>3, <3>5 DEF EngineAt, Running
    <3> QED
      BY <1>1, <1>5, <2>1, <3>6 DEF Shape
  <2> QED
    BY <2>1, <2>5, <2>6 DEF Moves
<1>11. CASE WaitOp
  <2>1. /\ fw.pc = "execute" /\ fw' = [fw EXCEPT !.pc = "advance"] /\ port' = <<>>
        /\ UNCHANGED mem /\ UNCHANGED cores
    BY <1>2, <1>11 DEF WaitOp, At, Executed
  <2>2. EngineAt'
    BY <1>1, <1>3, <1>6, <2>1 DEF Shape
  <2> QED
    BY <1>1, <1>5, <2>1, <2>2 DEF Shape
<1>12. CASE ConfigureOp
  <2>1. /\ fw.pc = "execute" /\ port' = <<>> /\ UNCHANGED mem /\ UNCHANGED cores
        /\ fw' = [fw EXCEPT !.pc = "advance", !.rows = fw.cmd[2], !.cols = fw.cmd[3]]
        /\ fw.cmd[1] = "cfg_matmul"
    BY <1>2, <1>12 DEF ConfigureOp, Is, At
  <2>2. fw.cmd[2] \in Nat /\ fw.cmd[3] \in Nat
    BY <1>4, <2>1, CommandFields
  <2>3. EngineAt'
    BY <1>1, <1>3, <1>6, <2>1 DEF Shape
  <2> QED
    BY <1>1, <1>5, <2>1, <2>2, <2>3 DEF Shape
<1>13. CASE MaxPoolOp
  <2>1. /\ fw.pc = "execute" /\ fw' = [fw EXCEPT !.pc = "advance"] /\ port' = <<>>
        /\ UNCHANGED mem /\ fw.cmd[1] = "maxpool"
        /\ cores' = [cores EXCEPT ![0] = <<"pool", fw.cmd[2], 0, fw.cmd[3]>>]
    BY <1>2, <1>13 DEF MaxPoolOp, Is, At, Executed
  <2>2. EngineAt'
    BY <1>1, <1>3, <1>6, <2>1 DEF Shape
  <2>3. fw.cmd[3] \in Beyond
    BY <1>4, <2>1, CommandFields
  <2>4. Cores'
    BY <1>1, <2>1, <2>3, NpuAssumption DEF Cores
  <2>5. Ddr' /\ HostAt'
    BY <1>1, <1>2, <2>1 DEF Ddr, HostAt, Last
  <2>6. Shape'
    BY <1>1, <1>2, <2>1 DEF Shape
  <2> QED
    BY <2>2, <2>4, <2>5, <2>6 DEF IInv
<1>14. CASE StartTile
  <2> DEFINE c == fw.tile % NrCores
             place == fw.cmd[4] + (fw.tile \div fw.rows) * fw.rows + (fw.tile % fw.rows)
             a == fw.cmd[2] + (fw.tile % fw.rows)
             b == fw.cmd[3] + (fw.tile \div fw.rows)
  <2>1. /\ fw.pc = "execute" /\ fw' = [fw EXCEPT !.tile = @ + 1] /\ port' = <<>>
        /\ UNCHANGED mem /\ fw.cmd[1] = "matmul" /\ fw.tile < Tiles
        /\ cores' = [cores EXCEPT ![c] = <<"dot", a, b, place>>]
    BY <1>2, <1>14 DEF StartTile, Is, At
  <2>2. fw.cmd[4] \in Beyond
    BY <1>4, <2>1, CommandFields
  <2>3. fw.rows \in Nat \ {0}
    <3>1. CASE fw.rows = 0
      <4> DEFINE q == (fw.cols + 3) \div 4
      <4>1. q \in Nat
        BY <1>4
      <4> HIDE DEF q
      <4>2. Tiles = 0 * q
        BY <3>1 DEF Tiles, q
      <4> QED
        BY <1>4, <2>1, <4>1, <4>2
    <3> QED
      BY <1>4, <3>1
  <2>4. place \in Beyond
    BY <1>4, <2>2, <2>3, TilePlace
  <2> HIDE DEF c, place, a, b
  <2>5. Cores'
    BY <1>1, <2>1, <2>4 DEF Cores
  <2>6. EngineAt'
    <3>1. fw'.pc = "execute" /\ fw'.cmd = fw.cmd
      BY <1>1, <2>1 DEF Shape
    <3> QED
      BY <1>3, <1>6, <2>1, <3>1
  <2>7. Ddr' /\ HostAt'
    BY <1>1, <1>2, <2>1 DEF Ddr, HostAt, Last
  <2>8. Shape'
    BY <1>1, <1>2, <2>1 DEF Shape
  <2> QED
    BY <2>5, <2>6, <2>7, <2>8 DEF IInv
<1>15. CASE TilesStarted
  <2>1. /\ fw.pc = "execute" /\ fw' = [fw EXCEPT !.pc = "advance", !.tile = 0] /\ port' = <<>>
        /\ UNCHANGED mem /\ UNCHANGED cores
    BY <1>2, <1>15 DEF TilesStarted, Is, At
  <2>2. EngineAt'
    BY <1>1, <1>3, <1>6, <2>1 DEF Shape
  <2> QED
    BY <1>1, <1>5, <2>1, <2>2 DEF Shape
\* The head of the copy moves on, no further than its tail.
<1>16. ASSUME AdvanceHead, Taken
       PROVE  /\ mem' = [a \in Addresses |-> mem'[a]] /\ Loaded'
              /\ \A n \in 0 .. (QueueWords - 1) : mem'[<<"ddr", n>>] = mem[<<"ddr", n>>]
  <2>1. /\ First("tcdm") \in 0 .. Last("tcdm") /\ Last("tcdm") \in 0 .. Last("ddr")
        /\ First("tcdm") < Last("tcdm")
        /\ \A i \in 0 .. (Last("tcdm") - 1) : mem[<<"tcdm", Slot(i)>>] = mem[<<"ddr", Slot(i)>>]
        /\ Last("ddr") \in 0 .. (Capacity - 1)
    BY <1>1, <1>16 DEF Taken, Loaded, Ddr
  <2>2. First("tcdm") + 1 < Capacity /\ First("tcdm") + 1 \in 0 .. Last("tcdm")
    BY <2>1, QueueFacts
  <2>3. mem' = [mem EXCEPT ![<<"tcdm", 0>>] = Word(First("tcdm") + 1)]
    <3>1. ~(First("tcdm") + 1 >= Capacity)
      BY <2>1, <2>2, QueueFacts
    <3> QED
      BY <1>16, <3>1, Zenon DEF AdvanceHead
  <2>4. mem = [a \in Addresses |-> mem[a]] /\ <<"tcdm", 0>> \in Addresses
    BY <1>1, QueueFacts DEF Shape
  <2>5. /\ mem' = [a \in Addresses |-> mem'[a]]
        /\ mem'[<<"tcdm", 0>>] = Word(First("tcdm") + 1)
        /\ \A a \in Addresses : a # <<"tcdm", 0>> => mem'[a] = mem[a]
    BY <2>3, <2>4
  <2>6. \A n \in 0 .. (QueueWords - 1) : mem'[<<"ddr", n>>] = mem[<<"ddr", n>>]
    BY <2>5, QueueFacts
  <2>7. \A n \in 1 .. (QueueWords - 1) : mem'[<<"tcdm", n>>] = mem[<<"tcdm", n>>]
    <3> TAKE n \in 1 .. (QueueWords - 1)
    <3>1. n \in 0 .. (QueueWords - 1) /\ <<"tcdm", n>> # <<"tcdm", 0>>
      BY QueueFacts
    <3>2. <<"tcdm", n>> \in Addresses
      BY <3>1, QueueFacts
    <3> QED
      BY <2>5, <3>1, <3>2
  <2>8. First("tcdm")' = First("tcdm") + 1 /\ Last("tcdm")' = Last("tcdm") /\ Last("ddr")' = Last("ddr")
    BY <2>5, <2>6, <2>7, QueueFacts DEF First, Last, Word
  <2>9. ASSUME NEW i \in 0 .. (Last("tcdm") - 1)
        PROVE  mem'[<<"tcdm", Slot(i)>>] = mem'[<<"ddr", Slot(i)>>]
    <3>1. Slot(i) \in 1 .. (QueueWords - 1) /\ Slot(i) \in 0 .. (QueueWords - 1)
      BY <2>1, QueueFacts
    <3> QED
      BY <2>1, <2>6, <2>7, <3>1
  <2>10. Loaded'
    BY <2>1, <2>2, <2>8, <2>9 DEF Loaded
  <2> QED
    BY <2>5, <2>6, <2>10
<1>17. ASSUME AdvanceHead, Taken, UNCHANGED cores, port' = <<>>,
              \/ fw' = [fw EXCEPT !.pc = "fetch"] /\ dma.dim_y = 1
              \/ fw' = [fw EXCEPT !.pc = "wfi"]
       PROVE  IInv'
  <2>1. /\ mem' = [a \in Addresses |-> mem'[a]] /\ Loaded'
        /\ \A n \in 0 .. (QueueWords - 1) : mem'[<<"ddr", n>>] = mem[<<"ddr", n>>]
    BY <1>16, <1>17
  <2>2. Last("ddr")' = Last("ddr") /\ mem'[<<"ddr", 0>>] = mem[<<"ddr", 0>>]
    BY <2>1, QueueFacts DEF Last
  <2>3. \A i \in 0 .. (Capacity - 1) : mem'[<<"ddr", Slot(i)>>] = mem[<<"ddr", Slot(i)>>]
    BY <2>1, QueueFacts
  <2>4. Last("ddr") \in 0 .. (Capacity - 1) /\ \A i \in 0 .. (Last("ddr") - 1) : i \in 0 .. (Capacity - 1)
    BY <1>1, QueueFacts DEF Ddr
  <2>5. Ddr' /\ HostAt'
    BY <1>1, <1>2, <2>2, <2>3, <2>4 DEF Ddr, HostAt
  <2>6. Shape' /\ Cores'
    BY <1>1, <1>2, <1>17, <2>1 DEF Shape, Cores
  <2>7. CASE fw' = [fw EXCEPT !.pc = "fetch"] /\ dma.dim_y = 1
    <3>1. fw'.pc = "fetch"
      BY <1>1, <2>7 DEF Shape
    <3> QED
      BY <1>2, <1>3, <1>17, <2>1, <2>5, <2>6, <2>7, <3>1 DEF IInv, EngineAt, Fetching
  <2>8. CASE fw' = [fw EXCEPT !.pc = "wfi"]
    <3>1. fw'.pc = "wfi"
      BY <1>1, <2>8 DEF Shape
    <3> QED
      BY <1>3, <1>17, <2>5, <2>6, <3>1 DEF IInv, EngineAt, Asleep
  <2> QED
    BY <1>17, <2>7, <2>8
<1>18. CASE Advance
  BY <1>2, <1>3, <1>17, <1>18 DEF Advance, At
<1>19. CASE Succeed
  <2>1. /\ fw.pc = "advance" /\ fw' = [fw EXCEPT !.pc = "succeeded"] /\ port' = <<>>
        /\ UNCHANGED mem /\ UNCHANGED cores
    BY <1>2, <1>19 DEF Succeed, At
  <2>2. EngineAt'
    BY <1>1, <1>3, <1>6, <2>1 DEF Shape
  <2> QED
    BY <1>1, <1>5, <2>1, <2>2 DEF Shape
<1>20. CASE Done
  <2>1. /\ fw.pc = "succeeded" /\ fw' = [fw EXCEPT !.pc = "done"] /\ port' = <<>>
        /\ UNCHANGED mem /\ UNCHANGED cores
    BY <1>2, <1>20 DEF Done, At
  <2>2. EngineAt'
    BY <1>1, <1>3, <1>6, <2>1 DEF Shape
  <2> QED
    BY <1>1, <1>5, <2>1, <2>2 DEF Shape
<1>21. CASE Finish
  BY <1>2, <1>3, <1>17, <1>21 DEF Finish, At
<1> QED
  BY <1>7, <1>8, <1>9, <1>10, <1>11, <1>12, <1>13, <1>14, <1>15, <1>18, <1>19, <1>20, <1>21 DEF Firmware
-----------------------------------------------------------------------------
(* A cycle of the DMA engine. *)

Registers == {"src", "dst", "dim_x", "dim_y", "stride_s", "stride_d", "trigger", "rsp",
              "state", "from", "to", "x", "y", "fifo"}

\* A load is no store.
LEMMA StatusIsNoStore ==
  ASSUME NEW reg, NEW val
  PROVE  Status # Store(reg, val)
<1>1. Status[1] = "status" /\ Store(reg, val)[1] = "store"
  BY DEF Status, Store
<1> QED
  BY <1>1

\* The engine is idle: what the access does, if there is one.
LEMMA IdleCycle ==
  ASSUME DOMAIN dma = Registers, Idle, NEW access \in BOOLEAN, NEW go \in BOOLEAN, DmaCycle(access, go)
  PROVE  /\ UNCHANGED mem /\ DOMAIN dma' = Registers
         /\ dma'.state = "IDLE" /\ dma'.rsp = access
         /\ ~access => /\ UNCHANGED port /\ dma'.trigger = FALSE /\ dma'.src = dma.src /\ dma'.dst = dma.dst
                       /\ dma'.dim_x = dma.dim_x /\ dma'.dim_y = dma.dim_y
         /\ access => port # <<>> /\ port' = Tail(port)
         /\ access /\ port[1] = Status => /\ dma'.trigger = FALSE /\ dma'.src = dma.src /\ dma'.dst = dma.dst
                                          /\ dma'.dim_x = dma.dim_x /\ dma'.dim_y = dma.dim_y
         /\ \A reg, val : access /\ port[1] = Store(reg, val) =>
              /\ reg # "trigger" => dma'.trigger = FALSE
              /\ reg = "trigger" /\ val = TRUE => dma'.trigger = TRUE
              /\ dma'.src = IF reg = "src" THEN val ELSE dma.src
              /\ dma'.dst = IF reg = "dst" THEN val ELSE dma.dst
              /\ dma'.dim_x = IF reg = "dim_x" THEN val ELSE dma.dim_x
              /\ dma'.dim_y = IF reg = "dim_y" THEN val ELSE dma.dim_y
<1> DEFINE e == [dma EXCEPT !.rsp = access, !.trigger = access /\ port[1] = Store("trigger", TRUE)]
<1>1. Engine(go) = dma /\ dma.state = "IDLE"
  BY DEF Engine, Idle
<1>2. /\ DOMAIN e = Registers /\ e.state = "IDLE" /\ e.rsp = access
      /\ e.trigger = (access /\ port[1] = Store("trigger", TRUE))
      /\ e.src = dma.src /\ e.dst = dma.dst /\ e.dim_x = dma.dim_x /\ e.dim_y = dma.dim_y
  BY <1>1 DEF Registers
<1>3. /\ dma' = IF ~access \/ port[1] = Status THEN e
                ELSE CASE port[1][2] = "src"      -> [e EXCEPT !.src = port[1][3]]
                       [] port[1][2] = "dst"      -> [e EXCEPT !.dst = port[1][3]]
                       [] port[1][2] = "dim_x"    -> [e EXCEPT !.dim_x = port[1][3]]
                       [] port[1][2] = "dim_y"    -> [e EXCEPT !.dim_y = port[1][3]]
                       [] port[1][2] = "stride_s" -> [e EXCEPT !.stride_s = port[1][3]]
                       [] port[1][2] = "stride_d" -> [e EXCEPT !.stride_d = port[1][3]]
                       [] OTHER -> e
      /\ port' = IF access THEN Tail(port) ELSE port
      /\ mem' = mem
      /\ access => port # <<>>
  BY <1>1 DEF DmaCycle
<1> HIDE DEF e
<1>4. DOMAIN dma' = Registers /\ dma'.state = "IDLE" /\ dma'.rsp = access
  BY <1>2, <1>3 DEF Registers
<1>5. ASSUME ~access \/ port[1] = Status
      PROVE  /\ dma'.trigger = FALSE /\ dma'.src = dma.src /\ dma'.dst = dma.dst
             /\ dma'.dim_x = dma.dim_x /\ dma'.dim_y = dma.dim_y
  <2>1. dma' = e
    BY <1>3, <1>5
  <2>2. access => port[1] # Store("trigger", TRUE)
    BY <1>5, StatusIsNoStore
  <2> QED
    BY <1>2, <2>1, <2>2
<1>6. ASSUME NEW reg, NEW val, access, port[1] = Store(reg, val)
      PROVE  /\ reg # "trigger" => dma'.trigger = FALSE
             /\ reg = "trigger" /\ val = TRUE => dma'.trigger = TRUE
             /\ dma'.src = IF reg = "src" THEN val ELSE dma.src
             /\ dma'.dst = IF reg = "dst" THEN val ELSE dma.dst
             /\ dma'.dim_x = IF reg = "dim_x" THEN val ELSE dma.dim_x
             /\ dma'.dim_y = IF reg = "dim_y" THEN val ELSE dma.dim_y
  <2>1. port[1] # Status /\ port[1][2] = reg /\ port[1][3] = val
    BY <1>6 DEF Status, Store
  <2>2. dma' = CASE reg = "src"      -> [e EXCEPT !.src = val]
                 [] reg = "dst"      -> [e EXCEPT !.dst = val]
                 [] reg = "dim_x"    -> [e EXCEPT !.dim_x = val]
                 [] reg = "dim_y"    -> [e EXCEPT !.dim_y = val]
                 [] reg = "stride_s" -> [e EXCEPT !.stride_s = val]
                 [] reg = "stride_d" -> [e EXCEPT !.stride_d = val]
                 [] OTHER -> e
    BY <1>3, <1>6, <2>1
  <2>3. /\ reg # "trigger" => e.trigger = FALSE
        /\ reg = "trigger" /\ val = TRUE => e.trigger = TRUE
    <3>1. Store(reg, val)[2] = reg /\ Store("trigger", TRUE)[2] = "trigger"
      BY DEF Store
    <3>2. reg # "trigger" => Store(reg, val) # Store("trigger", TRUE)
      BY <3>1
    <3> QED
      BY <1>2, <1>6, <3>2
  <2> QED
    BY <1>2, <2>2, <2>3 DEF Registers
<1>7. /\ ~access => /\ UNCHANGED port /\ dma'.trigger = FALSE /\ dma'.src = dma.src /\ dma'.dst = dma.dst
                     /\ dma'.dim_x = dma.dim_x /\ dma'.dim_y = dma.dim_y
      /\ access => port # <<>> /\ port' = Tail(port)
      /\ UNCHANGED mem
  BY <1>3, <1>5, Zenon
<1> QED
  BY <1>4, <1>5, <1>6, <1>7, Zenon

\* The engine is busy and the firmware asks for its status: the answer ends the
\* wait only when the engine is done.
LEMMA BusyCycle ==
  ASSUME DOMAIN dma = Registers, port[1] = Status, NEW access \in BOOLEAN, NEW go \in BOOLEAN, DmaCycle(access, go)
  PROVE  /\ dma' = [Engine(go) EXCEPT !.rsp = access, !.trigger = FALSE]
         /\ mem' = IF dma.state = "WRITE" /\ go THEN Write ELSE mem
         /\ port' = IF access /\ dma.state = "IDLE" THEN Tail(port) ELSE port
         /\ access => ~dma.rsp
<1>1. port[1] # Store("trigger", TRUE)
  BY StatusIsNoStore
<1> QED
  BY <1>1 DEF DmaCycle, CtrlReady
\* The engine's step, state by state.
LEMMA BusySteps ==
  ASSUME DOMAIN dma = Registers, dma.state \in {"IDLE", "READ", "WRITE", "NEXT_LINE", "DONE"}, dma.trigger \in BOOLEAN,
         port[1] = Status, NEW access \in BOOLEAN, NEW go \in BOOLEAN, DmaCycle(access, go)
  PROVE  /\ DOMAIN dma' = Registers /\ dma'.rsp = access /\ dma'.trigger = FALSE
         /\ dma'.dim_y = dma.dim_y
         /\ dma.state = "IDLE" /\ dma.trigger =>
              /\ dma'.state = "READ" /\ dma'.from = dma.src /\ dma'.to = dma.dst
              /\ dma'.x = dma.dim_x /\ dma'.y = dma.dim_y
         /\ Idle => dma'.state = "IDLE"
         /\ dma.state = "READ" /\ dma.x = 0 => dma'.state = "NEXT_LINE" /\ dma'.y = dma.y
         /\ dma.state = "READ" /\ dma.x > 0 /\ go =>
              /\ dma'.state = "WRITE" /\ dma'.fifo = Read /\ dma'.from = dma.from /\ dma'.to = dma.to
              /\ dma'.x = dma.x /\ dma'.y = dma.y
         /\ (dma.state = "READ" /\ ~(dma.x = 0) /\ ~(dma.x > 0 /\ go)) \/ (dma.state = "WRITE" /\ ~go) =>
              /\ dma'.state = dma.state /\ dma'.fifo = dma.fifo /\ dma'.from = dma.from /\ dma'.to = dma.to
              /\ dma'.x = dma.x /\ dma'.y = dma.y
         /\ dma.state = "WRITE" /\ go =>
              /\ dma'.state = "READ" /\ dma'.from = Plus(dma.from, 1) /\ dma'.to = Plus(dma.to, 1)
              /\ dma'.x = dma.x - 1 /\ dma'.y = dma.y
         /\ dma.state = "NEXT_LINE" /\ dma.y = 1 => dma'.state = "DONE" /\ dma'.y = dma.y
         /\ dma.state = "DONE" => dma'.state = "IDLE"
<1> DEFINE e == Engine(go)
<1>1. dma' = [e EXCEPT !.rsp = access, !.trigger = FALSE]
  BY BusyCycle
<1>2. e = CASE dma.state = "IDLE" /\ dma.trigger ->
                 [dma EXCEPT !.state = "READ", !.from = dma.src, !.to = dma.dst, !.x = dma.dim_x, !.y = dma.dim_y]
            [] dma.state = "READ" /\ dma.x = 0 -> [dma EXCEPT !.state = "NEXT_LINE"]
            [] dma.state = "READ" /\ dma.x > 0 /\ go -> [dma EXCEPT !.state = "WRITE", !.fifo = Read]
            [] dma.state = "WRITE" /\ go ->
                 [dma EXCEPT !.state = "READ", !.from = Plus(@, 1), !.to = Plus(@, 1), !.x = @ - 1]
            [] dma.state = "NEXT_LINE" /\ dma.y > 1 ->
                 [dma EXCEPT !.state = "READ", !.y = @ - 1, !.x = dma.dim_x,
                             !.from = Plus(@, dma.stride_s - dma.dim_x), !.to = Plus(@, dma.stride_d - dma.dim_x)]
            [] dma.state = "NEXT_LINE" /\ dma.y <= 1 -> [dma EXCEPT !.state = "DONE"]
            [] dma.state = "DONE" -> [dma EXCEPT !.state = "IDLE"]
            [] OTHER -> dma
  BY DEF Engine
<1> HIDE DEF e
<1>3. CASE dma.state = "IDLE" /\ dma.trigger
  <2>1. e = [dma EXCEPT !.state = "READ", !.from = dma.src, !.to = dma.dst, !.x = dma.dim_x, !.y = dma.dim_y]
    BY <1>2, <1>3
  <2> QED
    BY <1>1, <1>3, <2>1 DEF Registers, Idle
<1>4. CASE Idle
  <2>1. e = dma
    BY <1>2, <1>4 DEF Idle
  <2> QED
    BY <1>1, <1>4, <2>1 DEF Registers, Idle
<1>5. CASE dma.state = "READ" /\ dma.x = 0
  <2>1. e = [dma EXCEPT !.state = "NEXT_LINE"]
    BY <1>2, <1>5
  <2> QED
    BY <1>1, <1>5, <2>1 DEF Registers, Idle
<1>6. CASE dma.state = "READ" /\ ~(dma.x = 0) /\ dma.x > 0 /\ go
  <2>1. e = [dma EXCEPT !.state = "WRITE", !.fifo = Read]
    BY <1>2, <1>6
  <2> QED
    BY <1>1, <1>6, <2>1 DEF Registers, Idle
<1>7. CASE dma.state = "READ" /\ ~(dma.x = 0) /\ ~(dma.x > 0 /\ go)
  <2>1. e = dma
    BY <1>2, <1>7
  <2> QED
    BY <1>1, <1>7, <2>1 DEF Registers, Idle
<1>8. CASE dma.state = "WRITE" /\ ~go
  <2>1. e = dma
    BY <1>2, <1>8
  <2> QED
    BY <1>1, <1>8, <2>1 DEF Registers, Idle
<1>9. CASE dma.state = "WRITE" /\ go
  <2>1. e = [dma EXCEPT !.state = "READ", !.from = Plus(@, 1), !.to = Plus(@, 1), !.x = @ - 1]
    BY <1>2, <1>9
  <2> QED
    BY <1>1, <1>9, <2>1 DEF Registers, Idle
<1>10. CASE dma.state = "NEXT_LINE" /\ dma.y = 1
  <2>1. e = [dma EXCEPT !.state = "DONE"]
    BY <1>2, <1>10
  <2> QED
    BY <1>1, <1>10, <2>1 DEF Registers, Idle
<1>11. CASE dma.state = "NEXT_LINE" /\ dma.y # 1
  <2>1. /\ DOMAIN e = Registers /\ e.dim_y = dma.dim_y
    BY <1>2, <1>11 DEF Registers
  <2> QED
    BY <1>1, <1>11, <2>1 DEF Registers, Idle
<1>12. CASE dma.state = "DONE"
  <2>1. e = [dma EXCEPT !.state = "IDLE"]
    BY <1>2, <1>12
  <2> QED
    BY <1>1, <1>12, <2>1 DEF Registers, Idle
<1>13. CASE dma.state = "IDLE"
  <2>1. CASE dma.trigger
    BY <1>3, <1>13, <2>1
  <2>2. CASE ~dma.trigger
    BY <1>4, <1>13, <2>2, Zenon DEF Idle
  <2> QED
    BY <2>1, <2>2
<1>14. CASE dma.state = "READ"
  <2>1. CASE dma.x = 0
    BY <1>5, <1>14, <2>1
  <2>2. CASE ~(dma.x = 0) /\ dma.x > 0 /\ go
    BY <1>6, <1>14, <2>2
  <2>3. CASE ~(dma.x = 0) /\ ~(dma.x > 0 /\ go)
    BY <1>7, <1>14, <2>3
  <2> QED
    BY <2>1, <2>2, <2>3, Zenon
<1>15. CASE dma.state = "WRITE"
  <2>1. CASE go
    BY <1>9, <1>15, <2>1
  <2>2. CASE ~go
    BY <1>8, <1>15, <2>2
  <2> QED
    BY <2>1, <2>2
<1>16. CASE dma.state = "NEXT_LINE"
  <2>1. CASE dma.y = 1
    BY <1>10, <1>16, <2>1
  <2>2. CASE dma.y # 1
    BY <1>11, <1>16, <2>2
  <2> QED
    BY <2>1, <2>2
<1> QED
  BY <1>12, <1>13, <1>14, <1>15, <1>16

\* A status read leaves the programmed registers alone.
LEMMA BusyRegisters ==
  ASSUME DOMAIN dma = Registers, dma.state \in {"IDLE", "READ", "WRITE", "NEXT_LINE", "DONE"}, dma.trigger \in BOOLEAN,
         port[1] = Status, NEW access \in BOOLEAN, NEW go \in BOOLEAN, DmaCycle(access, go)
  PROVE  dma'.src = dma.src /\ dma'.dst = dma.dst /\ dma'.dim_x = dma.dim_x /\ dma'.dim_y = dma.dim_y
<1> DEFINE e == Engine(go)
<1>1. dma' = [e EXCEPT !.rsp = access, !.trigger = FALSE]
  BY BusyCycle
<1>2. DOMAIN e = Registers /\ e.src = dma.src /\ e.dst = dma.dst /\ e.dim_x = dma.dim_x /\ e.dim_y = dma.dim_y
  BY DEF Engine, Registers
<1> HIDE DEF e
<1> QED
  BY <1>1, <1>2 DEF Registers

\* A busy engine has a firmware that waits for its status.
LEMMA BusyMeansWaiting ==
  ASSUME EngineAt, ~Idle
  PROVE  port # <<>> /\ port[1] = Status
<1>1. ASSUME NEW j \in 0 .. 8, Pulling(j) PROVE port # <<>> /\ port[1] = Status
  <2>1. j = 8 /\ port = Rest(PullPort, 8)
    BY <1>1 DEF Pulling
  <2>2. Len(PullPort) = 9 /\ PullPort[9] = Status
    BY PullAccesses, Zenon
  <2>3. 8 \in Nat /\ Len(PullPort) \in Nat /\ 8 < Len(PullPort) /\ 8 + 1 = 9
    BY <2>2
  <2>4. Rest(PullPort, 8) # <<>> /\ Rest(PullPort, 8)[1] = PullPort[8 + 1]
    BY <2>3, RestStep
  <2> QED
    BY <2>1, <2>2, <2>3, <2>4
<1>2. ASSUME NEW j \in 0 .. 5, Moving(j) PROVE port # <<>> /\ port[1] = Status
  <2>1. j = 5 /\ port = Rest(MovePort, 5)
    BY <1>2 DEF Moving
  <2>2. Len(MovePort) = 6 /\ MovePort[6] = Status
    BY MoveAccesses, Zenon
  <2>3. 5 \in Nat /\ Len(MovePort) \in Nat /\ 5 < Len(MovePort) /\ 5 + 1 = 6
    BY <2>2
  <2>4. Rest(MovePort, 5) # <<>> /\ Rest(MovePort, 5)[1] = MovePort[5 + 1]
    BY <2>3, RestStep
  <2> QED
    BY <2>1, <2>2, <2>3, <2>4
<1> QED
  BY <1>1, <1>2 DEF EngineAt, Asleep, Fetching, Running

\* The copy takes the queue word by word.
LEMMA CopyWord ==
  ASSUME Shape, Ddr, NEW n \in 0 .. (QueueWords - 1), Copied(n), NEW v, Good(n, v),
         mem' = [mem EXCEPT ![<<"tcdm", n>>] = v]
  PROVE  /\ mem' = [a \in Addresses |-> mem'[a]]
         /\ \A i \in 0 .. (QueueWords - 1) : mem'[<<"ddr", i>>] = mem[<<"ddr", i>>]
         /\ Copied(n + 1)'
<1>1. mem = [a \in Addresses |-> mem[a]] /\ <<"tcdm", n>> \in Addresses
  BY QueueFacts DEF Shape
<1>2. /\ mem' = [a \in Addresses |-> mem'[a]] /\ mem'[<<"tcdm", n>>] = v
      /\ \A a \in Addresses : a # <<"tcdm", n>> => mem'[a] = mem[a]
  BY <1>1
<1>3. \A i \in 0 .. (QueueWords - 1) : mem'[<<"ddr", i>>] = mem[<<"ddr", i>>]
  BY <1>2, QueueFacts
<1>4. Last("ddr")' = Last("ddr")
  BY <1>3, QueueFacts DEF Last
<1>5. ASSUME NEW i \in 0 .. ((n + 1) - 1) PROVE Good(i, mem[<<"tcdm", i>>])'
  <2>1. i \in 0 .. (QueueWords - 1) /\ (i # n => i \in 0 .. (n - 1))
    BY QueueFacts
  <2>2. <<"tcdm", i>> \in Addresses
    BY <2>1, QueueFacts
  <2>3. Good(i, mem'[<<"tcdm", i>>])
    <3>1. CASE i = n
      BY <1>2, <3>1
    <3>2. CASE i # n
      <4>1. mem'[<<"tcdm", i>>] = mem[<<"tcdm", i>>]
        BY <1>2, <2>2, <3>2
      <4> QED
        BY <2>1, <3>2, <4>1 DEF Copied
    <3> QED
      BY <3>1, <3>2
  <2>4. i >= 2 => Last("tcdm")' = Last("tcdm")
    <3> SUFFICES ASSUME i >= 2 PROVE Last("tcdm")' = Last("tcdm")
      OBVIOUS
    <3>1. <<"tcdm", 1>> \in Addresses /\ <<"tcdm", 1>> # <<"tcdm", n>>
      BY <2>1, QueueFacts
    <3> QED
      BY <1>2, <3>1 DEF Last
  <2>5. mem'[<<"ddr", i>>] = mem[<<"ddr", i>>]
    BY <1>3, <2>1
  <2> QED
    BY <1>4, <2>3, <2>4, <2>5 DEF Good
<1> QED
  BY <1>2, <1>3, <1>5 DEF Copied

\* A complete copy is one the firmware may work on.
LEMMA CopiedIsLoaded ==
  ASSUME Ddr, Copied(QueueWords)
  PROVE  Loaded
<1>1. /\ mem[<<"tcdm", 0>>] = Word(0) /\ Last("tcdm") \in 0 .. Last("ddr")
  <2>1. 0 \in 0 .. (QueueWords - 1) /\ 1 \in 0 .. (QueueWords - 1)
    BY QueueFacts
  <2> QED
    BY <2>1 DEF Copied, Good, Last
<1>2. First("tcdm") = 0
  BY <1>1 DEF First, Word
<1>3. ASSUME NEW i \in 0 .. (Last("tcdm") - 1)
      PROVE  mem[<<"tcdm", Slot(i)>>] = mem[<<"ddr", Slot(i)>>]
  <2>1. Slot(i) \in 0 .. (QueueWords - 1) /\ Slot(i) >= 2 /\ Slot(i) - 2 = i
    BY <1>1, QueueFacts DEF Ddr
  <2>2. Good(Slot(i), mem[<<"tcdm", Slot(i)>>])
    BY <2>1 DEF Copied
  <2> QED
    BY <1>1, <2>1, <2>2 DEF Good, Ddr
<1> QED
  BY <1>1, <1>2, <1>3 DEF Loaded, Ddr

\* A cycle of the engine that copies the queue.
LEMMA PullCycle ==
  ASSUME Shape, Ddr, HostAt, dma.trigger => dma.rsp, port[1] = Status, Tail(port) = <<>>, PullUnderWay,
         NEW access \in BOOLEAN, NEW go \in BOOLEAN, DmaCycle(access, go)
  PROVE  /\ mem' = [a \in Addresses |-> mem'[a]] /\ Ddr' /\ HostAt'
         /\ dma'.trigger = FALSE /\ dma'.state \in {"IDLE", "READ", "WRITE", "NEXT_LINE", "DONE"}
         /\ \/ UNCHANGED port /\ PullUnderWay'
            \/ port' = <<>> /\ Idle' /\ dma'.dim_y = 1 /\ Loaded'
<1>1. /\ DOMAIN dma = Registers /\ dma.trigger \in BOOLEAN
      /\ dma.state \in {"IDLE", "READ", "WRITE", "NEXT_LINE", "DONE"}
      /\ mem = [a \in Addresses |-> mem[a]]
  BY DEF Shape, Registers
<1>2. /\ mem' = IF dma.state = "WRITE" /\ go THEN Write ELSE mem
      /\ port' = IF access /\ dma.state = "IDLE" THEN Tail(port) ELSE port
      /\ access => ~dma.rsp
      /\ UNCHANGED host /\ UNCHANGED hostReq
  BY <1>1, BusyCycle DEF DmaCycle
<1>3. dma'.trigger = FALSE /\ dma'.dim_y = 1 /\ dma.dim_y = 1
  BY <1>1, BusySteps DEF PullUnderWay
\* The memory stays.
<1>4. ASSUME mem' = mem
      PROVE  /\ mem' = [a \in Addresses |-> mem'[a]] /\ Ddr' /\ HostAt'
             /\ \A k \in 0 .. QueueWords : Copied(k) => Copied(k)'
             /\ \A n, v : Good(n, v) = Good(n, v)'
             /\ Loaded => Loaded'
  BY <1>1, <1>2, <1>4 DEF Ddr, HostAt, Copied, Good, Loaded, First, Last
<1>5. QueueWords \in Nat /\ QueueWords \in 0 .. QueueWords /\ 0 \in 0 .. QueueWords
  BY QueueFacts
<1>6. CASE dma.state = "IDLE" /\ dma.trigger
  <2>1. port' = port /\ mem' = mem
    BY <1>2, <1>6
  <2>2. /\ dma'.state = "READ" /\ dma'.from = <<"ddr", 0>> /\ dma'.to = <<"tcdm", 0>>
        /\ dma'.x = QueueWords - 0 /\ dma'.y = 1
    <3>1. dma.src = <<"ddr", 0>> /\ dma.dst = <<"tcdm", 0>> /\ dma.dim_x = QueueWords /\ dma.dim_y = 1
      BY <1>6 DEF PullUnderWay, Idle
    <3>2. /\ dma'.state = "READ" /\ dma'.from = dma.src /\ dma'.to = dma.dst
          /\ dma'.x = dma.dim_x /\ dma'.y = dma.dim_y
      BY <1>1, <1>6, BusySteps
    <3> QED
      BY <1>5, <3>1, <3>2
  <2>3. Copied(0)'
    BY DEF Copied
  <2>4. PullUnderWay'
    BY <1>3, <1>5, <2>2, <2>3 DEF PullUnderWay
  <2> QED
    BY <1>3, <1>4, <2>1, <2>2, <2>4
<1>7. CASE Idle
  <2>1. mem' = mem /\ dma'.state = "IDLE" /\ Copied(QueueWords)
    BY <1>1, <1>2, <1>7, BusySteps DEF PullUnderWay, Idle
  <2>2. Copied(QueueWords)' /\ Idle' /\ Loaded'
    BY <1>3, <1>4, <1>5, <2>1, CopiedIsLoaded DEF Idle
  <2>3. PullUnderWay'
    BY <1>3, <2>2 DEF PullUnderWay
  <2> QED
    BY <1>2, <1>3, <1>4, <2>1, <2>2, <2>3
<1>8. CASE dma.state \in {"NEXT_LINE", "DONE"}
  <2>1. mem' = mem /\ port' = port /\ Copied(QueueWords) /\ dma.y = 1 /\ ~dma.trigger
    BY <1>2, <1>8 DEF PullUnderWay, Idle
  <2>2. Copied(QueueWords)'
    BY <1>4, <1>5, <2>1
  <2>3. \/ dma'.state = "DONE" /\ dma'.y = 1
        \/ dma'.state = "IDLE"
    BY <1>1, <1>8, <2>1, BusySteps
  <2>4. PullUnderWay'
    BY <1>3, <2>2, <2>3 DEF PullUnderWay, Idle
  <2> QED
    BY <1>3, <1>4, <2>1, <2>3, <2>4
<1>9. CASE dma.state \in {"READ", "WRITE"}
  <2>1. PICK n \in 0 .. QueueWords :
          /\ dma.from = <<"ddr", n>> /\ dma.to = <<"tcdm", n>> /\ dma.x = QueueWords - n /\ Copied(n)
          /\ dma.state = "WRITE" => n < QueueWords /\ Good(n, dma.fifo)
    BY <1>9 DEF PullUnderWay, Idle
  <2>2. dma.y = 1 /\ ~dma.trigger /\ port' = port
    BY <1>2, <1>9 DEF PullUnderWay, Idle
  <2>3. CASE dma.state = "READ" /\ dma.x = 0
    <3>1. n = QueueWords /\ mem' = mem /\ Copied(QueueWords)
      BY <1>2, <1>5, <2>1, <2>3
    <3>2. dma'.state = "NEXT_LINE" /\ dma'.y = 1 /\ Copied(QueueWords)'
      BY <1>1, <1>4, <1>5, <2>2, <2>3, <3>1, BusySteps
    <3>3. PullUnderWay'
      BY <1>3, <3>2 DEF PullUnderWay
    <3> QED
      BY <1>3, <1>4, <2>2, <3>1, <3>2, <3>3
  <2>4. CASE dma.state = "READ" /\ dma.x > 0 /\ go
    <3>1. n < QueueWords /\ mem' = mem
      BY <1>2, <1>5, <2>1, <2>4
    <3>2. /\ dma'.state = "WRITE" /\ dma'.fifo = mem[<<"ddr", n>>] /\ dma'.from = <<"ddr", n>>
          /\ dma'.to = <<"tcdm", n>> /\ dma'.x = QueueWords - n /\ dma'.y = 1
      BY <1>1, <2>1, <2>2, <2>4, BusySteps DEF Read
    <3>3. Good(n, mem[<<"ddr", n>>])
      BY DEF Good, Ddr, Last
    <3>4. Copied(n)' /\ Good(n, dma.fifo)'
      BY <1>4, <2>1, <3>1, <3>2, <3>3 DEF Good
    <3>5. PullUnderWay'
      BY <1>3, <3>1, <3>2, <3>4 DEF PullUnderWay
    <3> QED
      BY <1>3, <1>4, <2>2, <3>1, <3>2, <3>5
  <2>5. CASE (dma.state = "READ" /\ ~(dma.x = 0) /\ ~(dma.x > 0 /\ go)) \/ (dma.state = "WRITE" /\ ~go)
    <3>1. mem' = mem
      BY <1>2, <2>5
    <3>2. /\ dma'.state = dma.state /\ dma'.fifo = dma.fifo /\ dma'.from = dma.from /\ dma'.to = dma.to
          /\ dma'.x = dma.x /\ dma'.y = dma.y
      BY <1>1, <2>5, BusySteps
    <3>3. Copied(n)' /\ (dma'.state = "WRITE" => n < QueueWords /\ Good(n, dma.fifo)')
      BY <1>4, <2>1, <3>1, <3>2
    <3>4. PullUnderWay'
      BY <1>3, <1>9, <2>1, <2>2, <3>2, <3>3 DEF PullUnderWay
    <3> QED
      BY <1>1, <1>3, <1>4, <2>2, <3>1, <3>2, <3>4
  <2>6. CASE dma.state = "WRITE" /\ go
    <3>1. n \in 0 .. (QueueWords - 1) /\ Good(n, dma.fifo) /\ n + 1 \in 0 .. QueueWords
      BY <1>5, <2>1, <2>6
    <3>2. mem' = [mem EXCEPT ![<<"tcdm", n>>] = dma.fifo]
      BY <1>2, <2>1, <2>6 DEF Write
    <3>3. /\ mem' = [a \in Addresses |-> mem'[a]]
          /\ \A i \in 0 .. (QueueWords - 1) : mem'[<<"ddr", i>>] = mem[<<"ddr", i>>]
          /\ Copied(n + 1)'
      BY <2>1, <3>1, <3>2, CopyWord
    <3>4. /\ dma'.state = "READ" /\ dma'.from = <<"ddr", n + 1>> /\ dma'.to = <<"tcdm", n + 1>>
          /\ dma'.x = QueueWords - (n + 1) /\ dma'.y = 1
      <4>1. /\ dma'.state = "READ" /\ dma'.from = Plus(dma.from, 1) /\ dma'.to = Plus(dma.to, 1)
            /\ dma'.x = dma.x - 1 /\ dma'.y = dma.y
        BY <1>1, <2>6, BusySteps
      <4>2. Plus(dma.from, 1) = <<"ddr", n + 1>> /\ Plus(dma.to, 1) = <<"tcdm", n + 1>>
        BY <2>1 DEF Plus
      <4> QED
        BY <1>5, <2>1, <2>2, <4>1, <4>2
    <3>5. PullUnderWay'
      BY <1>3, <3>1, <3>3, <3>4 DEF PullUnderWay
    <3>6. Ddr' /\ HostAt'
      BY <1>2, <3>3, DdrStays
    <3> QED
      BY <1>3, <2>2, <3>3, <3>4, <3>5, <3>6
  <2>7. dma.x = 0 \/ dma.x > 0
    BY <1>5, <2>1
  <2> QED
    BY <1>9, <2>3, <2>4, <2>5, <2>6, <2>7
<1> QED
  BY <1>1, <1>6, <1>7, <1>8, <1>9 DEF Idle

\* A cycle of the engine that executes a transfer.
LEMMA MoveCycle ==
  ASSUME Shape, Ddr, HostAt, dma.trigger => dma.rsp, port[1] = Status, Tail(port) = <<>>,
         Moves, MoveUnderWay, dma.dim_y = 1,
         NEW access \in BOOLEAN, NEW go \in BOOLEAN, DmaCycle(access, go)
  PROVE  /\ mem' = [a \in Addresses |-> mem'[a]] /\ QueuesKept
         /\ dma'.trigger = FALSE /\ dma'.state \in {"IDLE", "READ", "WRITE", "NEXT_LINE", "DONE"}
         /\ dma'.dim_y = 1
         /\ \/ UNCHANGED port /\ MoveUnderWay'
            \/ port' = <<>> /\ Idle'
<1>1. /\ DOMAIN dma = Registers /\ dma.trigger \in BOOLEAN
      /\ dma.state \in {"IDLE", "READ", "WRITE", "NEXT_LINE", "DONE"}
      /\ mem = [a \in Addresses |-> mem[a]]
  BY DEF Shape, Registers
<1>2. /\ mem' = IF dma.state = "WRITE" /\ go THEN Write ELSE mem
      /\ port' = IF access /\ dma.state = "IDLE" THEN Tail(port) ELSE port
      /\ access => ~dma.rsp
      /\ UNCHANGED fw
  BY <1>1, BusyCycle DEF DmaCycle
<1>3. dma'.trigger = FALSE /\ dma'.dim_y = 1
  BY <1>1, BusySteps
<1>4. fw.cmd[2] \in Beyond /\ fw.cmd[3] \in Beyond /\ fw.cmd[4] \in Nat
  BY CommandFields DEF Moves, Shape
<1>5. To \in Places
  BY <1>4 DEF To, Places
<1>6. mem' = mem => mem' = [a \in Addresses |-> mem'[a]] /\ QueuesKept
  BY <1>1, MemoryKept
<1>7. CASE dma.state = "IDLE" /\ dma.trigger
  <2>1. port' = port /\ mem' = mem
    BY <1>2, <1>7
  <2>2. dma.dst = To /\ dma.dim_x = fw.cmd[4]
    BY <1>7 DEF MoveUnderWay, Idle
  <2>3. /\ dma'.state = "READ" /\ dma'.to = To /\ dma'.x = fw.cmd[4] /\ dma'.y = 1
    BY <1>1, <1>7, <2>2, BusySteps
  <2>4. MoveUnderWay'
    BY <1>3, <1>4, <1>5, <2>3 DEF MoveUnderWay
  <2> QED
    BY <1>3, <1>6, <2>1, <2>3, <2>4
<1>8. CASE Idle
  <2>1. mem' = mem /\ dma'.state = "IDLE"
    BY <1>1, <1>2, <1>8, BusySteps DEF Idle
  <2>2. Idle' /\ MoveUnderWay'
    BY <1>3, <2>1 DEF Idle, MoveUnderWay
  <2> QED
    BY <1>2, <1>3, <1>6, <2>1, <2>2
<1>9. CASE dma.state \in {"NEXT_LINE", "DONE"}
  <2>1. mem' = mem /\ port' = port /\ dma.y = 1 /\ ~dma.trigger
    BY <1>2, <1>9 DEF MoveUnderWay, Idle
  <2>2. \/ dma'.state = "DONE" /\ dma'.y = 1
        \/ dma'.state = "IDLE"
    BY <1>1, <1>9, <2>1, BusySteps
  <2>3. MoveUnderWay'
    BY <1>3, <2>2 DEF MoveUnderWay, Idle
  <2> QED
    BY <1>3, <1>6, <2>1, <2>2, <2>3
<1>10. CASE dma.state \in {"READ", "WRITE"}
  <2>1. /\ dma.y = 1 /\ ~dma.trigger /\ port' = port /\ dma.to \in Places /\ dma.x \in Nat
        /\ dma.state = "WRITE" => dma.x > 0
    BY <1>2, <1>10 DEF MoveUnderWay, Idle
  <2>2. CASE dma.state = "READ" /\ dma.x = 0
    <3>1. mem' = mem /\ dma'.state = "NEXT_LINE" /\ dma'.y = 1
      BY <1>1, <1>2, <2>1, <2>2, BusySteps
    <3> QED
      BY <1>3, <1>6, <2>1, <3>1 DEF MoveUnderWay
  <2>3. CASE dma.state = "READ" /\ dma.x > 0 /\ go
    <3>1. mem' = mem /\ dma'.state = "WRITE" /\ dma'.to = dma.to /\ dma'.x = dma.x /\ dma'.y = 1
      BY <1>1, <1>2, <2>1, <2>3, BusySteps
    <3> QED
      BY <1>3, <1>6, <2>1, <2>3, <3>1 DEF MoveUnderWay
  <2>4. CASE (dma.state = "READ" /\ ~(dma.x = 0) /\ ~(dma.x > 0 /\ go)) \/ (dma.state = "WRITE" /\ ~go)
    <3>1. /\ mem' = mem /\ dma'.state = dma.state /\ dma'.to = dma.to /\ dma'.x = dma.x /\ dma'.y = 1
      BY <1>1, <1>2, <2>1, <2>4, BusySteps
    <3> QED
      BY <1>1, <1>3, <1>6, <1>10, <2>1, <3>1 DEF MoveUnderWay
  <2>5. CASE dma.state = "WRITE" /\ go
    <3>1. /\ mem' = [mem EXCEPT ![dma.to] = dma.fifo]
          /\ dma'.state = "READ" /\ dma'.to = Plus(dma.to, 1) /\ dma'.x = dma.x - 1 /\ dma'.y = 1
      BY <1>1, <1>2, <2>1, <2>5, BusySteps DEF Write
    <3>2. Plus(dma.to, 1) \in Places
      BY <2>1, QueueFacts DEF Places, Beyond, Plus
    <3>3. dma'.x \in Nat
      BY <2>1, <2>5, <3>1
    <3>4. mem' = [a \in Addresses |-> mem'[a]] /\ QueuesKept
      BY <2>1, <3>1, WriteBeyond
    <3> QED
      BY <1>3, <2>1, <3>1, <3>2, <3>3, <3>4 DEF MoveUnderWay
  <2>6. dma.x = 0 \/ dma.x > 0
    BY <2>1
  <2> QED
    BY <1>10, <2>2, <2>3, <2>4, <2>5, <2>6
<1> QED
  BY <1>1, <1>7, <1>8, <1>9, <1>10 DEF Idle

\* The firmware programs the engine: the engine is idle, and an access takes the
\* firmware to the next one.
LEMMA PullProgram ==
  ASSUME DOMAIN dma = Registers, NEW j \in 0 .. 7, Pulling(j),
         NEW access \in BOOLEAN, NEW go \in BOOLEAN, DmaCycle(access, go)
  PROVE  /\ UNCHANGED mem /\ DOMAIN dma' = Registers /\ dma'.state = "IDLE" /\ dma'.rsp = access
         /\ dma'.trigger \in BOOLEAN /\ (dma'.trigger => access)
         /\ Pulling(j)' \/ Pulling(j + 1)'
<1> DEFINE Programmed ==
             /\ j >= 1 => dma'.src = <<"ddr", 0>>
             /\ j >= 2 => dma'.dst = <<"tcdm", 0>>
             /\ j >= 3 => dma'.dim_x = QueueWords
             /\ j >= 4 => dma'.dim_y = 1
           Written(reg, val) ==
             /\ dma'.src = IF reg = "src" THEN val ELSE dma.src
             /\ dma'.dst = IF reg = "dst" THEN val ELSE dma.dst
             /\ dma'.dim_x = IF reg = "dim_x" THEN val ELSE dma.dim_x
             /\ dma'.dim_y = IF reg = "dim_y" THEN val ELSE dma.dim_y
<1>1. /\ Len(PullPort) = 9 /\ PullPort[1] = Status
      /\ PullPort[2] = Store("src", <<"ddr", 0>>) /\ PullPort[3] = Store("dst", <<"tcdm", 0>>)
      /\ PullPort[4] = Store("dim_x", QueueWords) /\ PullPort[5] = Store("dim_y", 1)
      /\ PullPort[6] = Store("stride_s", 0) /\ PullPort[7] = Store("stride_d", 0)
      /\ PullPort[8] = Store("trigger", TRUE)
  BY PullAccesses, Zenon
<1>2. port = Rest(PullPort, j) /\ Idle
  BY DEF Pulling
<1>3. port # <<>> /\ port[1] = PullPort[j + 1] /\ Tail(port) = Rest(PullPort, j + 1)
  <2>1. j \in Nat /\ Len(PullPort) \in Nat /\ j < Len(PullPort)
    BY <1>1
  <2> QED
    BY <1>2, <2>1, RestStep
<1>4. /\ UNCHANGED mem /\ DOMAIN dma' = Registers /\ dma'.state = "IDLE" /\ dma'.rsp = access
      /\ access => port' = Rest(PullPort, j + 1)
  BY <1>2, <1>3, IdleCycle
<1>5. /\ j >= 2 => dma.src = <<"ddr", 0>>
      /\ j >= 3 => dma.dst = <<"tcdm", 0>>
      /\ j >= 4 => dma.dim_x = QueueWords
      /\ j >= 5 => dma.dim_y = 1
  BY DEF Pulling
<1>6. CASE ~access
  <2>1. /\ UNCHANGED port /\ dma'.trigger = FALSE /\ dma'.src = dma.src /\ dma'.dst = dma.dst
        /\ dma'.dim_x = dma.dim_x /\ dma'.dim_y = dma.dim_y
    BY <1>2, <1>6, IdleCycle
  <2>2. Pulling(j)'
    BY <1>2, <1>4, <1>5, <2>1 DEF Pulling, Idle
  <2> QED
    BY <1>4, <1>6, <2>1, <2>2
<1>7. \A reg, val : access /\ port[1] = Store(reg, val) =>
        /\ Written(reg, val)
        /\ reg # "trigger" => dma'.trigger = FALSE
        /\ reg = "trigger" /\ val = TRUE => dma'.trigger = TRUE
  BY <1>2, IdleCycle, Zenon
\* What is left to show of an access.
<1>8. ASSUME access, dma'.trigger = FALSE, j # 7, Programmed
      PROVE  dma'.trigger \in BOOLEAN /\ Pulling(j + 1)'
  <2>1. j + 1 <= 7 /\ Idle'
    BY <1>4, <1>8 DEF Idle
  <2> DEFINE i == j + 1
  <2>2. /\ i <= 7 /\ i \in Nat /\ (i >= 2 => j >= 1) /\ (i >= 3 => j >= 2) /\ (i >= 4 => j >= 3) /\ (i >= 5 => j >= 4)
        /\ port' = Rest(PullPort, i)
    BY <1>4, <1>8, <2>1
  <2> HIDE DEF i
  <2>3. Pulling(i)'
    BY <1>8, <2>1, <2>2 DEF Pulling
  <2> QED
    BY <1>8, <2>3 DEF i
<1> HIDE DEF Written
<1>9. CASE access /\ j = 0
  <2>1. dma'.trigger = FALSE
    <3>1. port[1] = Status
      BY <1>1, <1>3, <1>9
    <3> QED
      BY <1>2, <1>9, <3>1, IdleCycle
  <2>2. Programmed /\ j # 7
    BY <1>9
  <2> HIDE DEF Programmed
  <2>3. dma'.trigger \in BOOLEAN /\ Pulling(j + 1)'
    BY <1>8, <1>9, <2>1, <2>2, Zenon
  <2> QED
    BY <1>4, <1>9, <2>3
<1>10. CASE access /\ j = 1
  <2>1. port[1] = Store("src", <<"ddr", 0>>) /\ "src" # "trigger"
    BY <1>1, <1>3, <1>10
  <2>2. Written("src", <<"ddr", 0>>) /\ dma'.trigger = FALSE
    BY <1>7, <1>10, <2>1, Zenon
  <2>3. Programmed /\ j # 7
    BY <1>5, <1>10, <2>2 DEF Written
  <2> HIDE DEF Programmed
  <2>4. dma'.trigger \in BOOLEAN /\ Pulling(j + 1)'
    BY <1>8, <1>10, <2>2, <2>3, Zenon
  <2> QED
    BY <1>4, <1>10, <2>4
<1>11. CASE access /\ j = 2
  <2>1. port[1] = Store("dst", <<"tcdm", 0>>) /\ "dst" # "trigger"
    BY <1>1, <1>3, <1>11
  <2>2. Written("dst", <<"tcdm", 0>>) /\ dma'.trigger = FALSE
    BY <1>7, <1>11, <2>1, Zenon
  <2>3. Programmed /\ j # 7
    BY <1>5, <1>11, <2>2 DEF Written
  <2> HIDE DEF Programmed
  <2>4. dma'.trigger \in BOOLEAN /\ Pulling(j + 1)'
    BY <1>8, <1>11, <2>2, <2>3, Zenon
  <2> QED
    BY <1>4, <1>11, <2>4
<1>12. CASE access /\ j = 3
  <2>1. port[1] = Store("dim_x", QueueWords) /\ "dim_x" # "trigger"
    BY <1>1, <1>3, <1>12
  <2>2. Written("dim_x", QueueWords) /\ dma'.trigger = FALSE
    BY <1>7, <1>12, <2>1, Zenon
  <2>3. Programmed /\ j # 7
    BY <1>5, <1>12, <2>2 DEF Written
  <2> HIDE DEF Programmed
  <2>4. dma'.trigger \in BOOLEAN /\ Pulling(j + 1)'
    BY <1>8, <1>12, <2>2, <2>3, Zenon
  <2> QED
    BY <1>4, <1>12, <2>4
<1>13. CASE access /\ j = 4
  <2>1. port[1] = Store("dim_y", 1) /\ "dim_y" # "trigger"
    BY <1>1, <1>3, <1>13
  <2>2. Written("dim_y", 1) /\ dma'.trigger = FALSE
    BY <1>7, <1>13, <2>1, Zenon
  <2>3. Programmed /\ j # 7
    BY <1>5, <1>13, <2>2 DEF Written
  <2> HIDE DEF Programmed
  <2>4. dma'.trigger \in BOOLEAN /\ Pulling(j + 1)'
    BY <1>8, <1>13, <2>2, <2>3, Zenon
  <2> QED
    BY <1>4, <1>13, <2>4
<1>14. CASE access /\ j = 5
  <2>1. port[1] = Store("stride_s", 0) /\ "stride_s" # "trigger"
    BY <1>1, <1>3, <1>14
  <2>2. Written("stride_s", 0) /\ dma'.trigger = FALSE
    BY <1>7, <1>14, <2>1, Zenon
  <2>3. Programmed /\ j # 7
    BY <1>5, <1>14, <2>2 DEF Written
  <2> HIDE DEF Programmed
  <2>4. dma'.trigger \in BOOLEAN /\ Pulling(j + 1)'
    BY <1>8, <1>14, <2>2, <2>3, Zenon
  <2> QED
    BY <1>4, <1>14, <2>4
<1>15. CASE access /\ j = 6
  <2>1. port[1] = Store("stride_d", 0) /\ "stride_d" # "trigger"
    BY <1>1, <1>3, <1>15
  <2>2. Written("stride_d", 0) /\ dma'.trigger = FALSE
    BY <1>7, <1>15, <2>1, Zenon
  <2>3. Programmed /\ j # 7
    BY <1>5, <1>15, <2>2 DEF Written
  <2> HIDE DEF Programmed
  <2>4. dma'.trigger \in BOOLEAN /\ Pulling(j + 1)'
    BY <1>8, <1>15, <2>2, <2>3, Zenon
  <2> QED
    BY <1>4, <1>15, <2>4
<1>16. CASE access /\ j = 7
  <2>1. port[1] = Store("trigger", TRUE)
    <3>1. j + 1 = 8
      BY <1>16
    <3> QED
      BY <1>1, <1>3, <3>1, Zenon
  <2>2. Written("trigger", TRUE) /\ dma'.trigger = TRUE
    BY <1>7, <1>16, <2>1, Zenon
  <2>3. Programmed
    BY <1>5, <1>16, <2>2 DEF Written
  <2>4. PullUnderWay'
    BY <1>4, <1>16, <2>2, <2>3 DEF PullUnderWay
  <2>5. Pulling(8)' /\ j + 1 = 8
    BY <1>4, <1>16, <2>3, <2>4 DEF Pulling
  <2>6. dma'.trigger \in BOOLEAN /\ Pulling(j + 1)'
    BY <2>2, <2>5, Zenon
  <2> QED
    BY <1>4, <1>16, <2>6
<1> QED
  BY <1>6, <1>9, <1>10, <1>11, <1>12, <1>13, <1>14, <1>15, <1>16

\* The same for the transfer of a command.
LEMMA MoveProgram ==
  ASSUME DOMAIN dma = Registers, dma.dim_y = 1, NEW j \in 0 .. 4, Moving(j),
         NEW access \in BOOLEAN, NEW go \in BOOLEAN, DmaCycle(access, go)
  PROVE  /\ UNCHANGED mem /\ DOMAIN dma' = Registers /\ dma'.state = "IDLE" /\ dma'.rsp = access
         /\ dma'.trigger \in BOOLEAN /\ (dma'.trigger => access) /\ dma'.dim_y = 1
         /\ Moving(j)' \/ Moving(j + 1)'
<1> DEFINE Programmed ==
             /\ dma'.dim_y = 1
             /\ j >= 2 => dma'.dst = To
             /\ j >= 3 => dma'.dim_x = fw.cmd[4]
           Written(reg, val) ==
             /\ dma'.dst = IF reg = "dst" THEN val ELSE dma.dst
             /\ dma'.dim_x = IF reg = "dim_x" THEN val ELSE dma.dim_x
             /\ dma'.dim_y = IF reg = "dim_y" THEN val ELSE dma.dim_y
<1>1. /\ Len(MovePort) = 6 /\ MovePort[1] = Status
      /\ MovePort[3] = Store("dst", To) /\ MovePort[4] = Store("dim_x", fw.cmd[4])
      /\ MovePort[5] = Store("trigger", TRUE)
  BY MoveAccesses, Zenon
<1>2. port = Rest(MovePort, j) /\ Idle
  BY DEF Moving
<1>3. port # <<>> /\ port[1] = MovePort[j + 1] /\ Tail(port) = Rest(MovePort, j + 1)
  <2>1. j \in Nat /\ Len(MovePort) \in Nat /\ j < Len(MovePort)
    BY <1>1
  <2> QED
    BY <1>2, <2>1, RestStep
<1>4. /\ UNCHANGED mem /\ DOMAIN dma' = Registers /\ dma'.state = "IDLE" /\ dma'.rsp = access
      /\ access => port' = Rest(MovePort, j + 1)
  BY <1>2, <1>3, IdleCycle
<1>5. /\ j >= 3 => dma.dst = To
      /\ j >= 4 => dma.dim_x = fw.cmd[4]
  BY DEF Moving
<1>6. UNCHANGED fw /\ MovePort' = MovePort /\ To' = To
  <2>1. UNCHANGED fw
    BY DEF DmaCycle
  <2> QED
    BY <2>1 DEF MovePort, To
<1>7. CASE ~access
  <2>1. /\ UNCHANGED port /\ dma'.trigger = FALSE /\ dma'.dst = dma.dst
        /\ dma'.dim_x = dma.dim_x /\ dma'.dim_y = dma.dim_y
    BY <1>2, <1>7, IdleCycle
  <2>2. Moving(j)'
    BY <1>2, <1>4, <1>5, <1>6, <2>1 DEF Moving, Idle, Rest
  <2> QED
    BY <1>4, <1>7, <2>1, <2>2
<1>8. \A reg, val : access /\ port[1] = Store(reg, val) =>
        /\ Written(reg, val)
        /\ reg # "trigger" => dma'.trigger = FALSE
        /\ reg = "trigger" /\ val = TRUE => dma'.trigger = TRUE
  BY <1>2, IdleCycle, Zenon
\* What is left to show of an access.
<1>9. ASSUME access, dma'.trigger = FALSE, j # 4, Programmed
      PROVE  dma'.trigger \in BOOLEAN /\ dma'.dim_y = 1 /\ Moving(j + 1)'
  <2>1. j + 1 <= 4 /\ Idle'
    BY <1>4, <1>9 DEF Idle
  <2> DEFINE i == j + 1
  <2>2. /\ i <= 4 /\ i \in Nat /\ (i >= 3 => j >= 2) /\ (i >= 4 => j >= 3)
        /\ port' = Rest(MovePort, i)
    BY <1>4, <1>9, <2>1
  <2> HIDE DEF i
  <2>3. port' = Rest(MovePort, i)'
    BY <1>6, <2>2 DEF Rest
  <2>4. Moving(i)'
    BY <1>6, <1>9, <2>1, <2>2, <2>3 DEF Moving
  <2> QED
    BY <1>9, <2>4 DEF i
<1> HIDE DEF Written
<1>10. CASE access /\ j = 0
  <2>1. dma'.trigger = FALSE /\ dma'.dim_y = 1
    <3>1. port[1] = Status
      BY <1>1, <1>3, <1>10
    <3> QED
      BY <1>2, <1>10, <3>1, IdleCycle
  <2>2. Programmed /\ j # 4
    BY <1>10, <2>1
  <2> HIDE DEF Programmed
  <2>3. dma'.trigger \in BOOLEAN /\ dma'.dim_y = 1 /\ Moving(j + 1)'
    BY <1>9, <1>10, <2>1, <2>2, Zenon
  <2> QED
    BY <1>4, <1>10, <2>3
<1>11. CASE access /\ j = 1
  <2>1. PICK s : port[1] = Store("src", s) /\ "src" # "trigger"
    BY <1>3, <1>11, MoveAccesses
  <2>2. Written("src", s) /\ dma'.trigger = FALSE
    BY <1>8, <1>11, <2>1, Zenon
  <2>3. Programmed /\ j # 4
    BY <1>5, <1>11, <2>2 DEF Written
  <2> HIDE DEF Programmed
  <2>4. dma'.trigger \in BOOLEAN /\ dma'.dim_y = 1 /\ Moving(j + 1)'
    BY <1>9, <1>11, <2>2, <2>3, Zenon
  <2> QED
    BY <1>4, <1>11, <2>4
<1>12. CASE access /\ j = 2
  <2>1. port[1] = Store("dst", To) /\ "dst" # "trigger"
    BY <1>1, <1>3, <1>12
  <2>2. Written("dst", To) /\ dma'.trigger = FALSE
    BY <1>8, <1>12, <2>1, Zenon
  <2>3. Programmed /\ j # 4
    BY <1>5, <1>12, <2>2 DEF Written
  <2> HIDE DEF Programmed
  <2>4. dma'.trigger \in BOOLEAN /\ dma'.dim_y = 1 /\ Moving(j + 1)'
    BY <1>9, <1>12, <2>2, <2>3, Zenon
  <2> QED
    BY <1>4, <1>12, <2>4
<1>13. CASE access /\ j = 3
  <2>1. port[1] = Store("dim_x", fw.cmd[4]) /\ "dim_x" # "trigger"
    BY <1>1, <1>3, <1>13
  <2>2. Written("dim_x", fw.cmd[4]) /\ dma'.trigger = FALSE
    BY <1>8, <1>13, <2>1, Zenon
  <2>3. Programmed /\ j # 4
    BY <1>5, <1>13, <2>2 DEF Written
  <2> HIDE DEF Programmed
  <2>4. dma'.trigger \in BOOLEAN /\ dma'.dim_y = 1 /\ Moving(j + 1)'
    BY <1>9, <1>13, <2>2, <2>3, Zenon
  <2> QED
    BY <1>4, <1>13, <2>4
<1>14. CASE access /\ j = 4
  <2>1. port[1] = Store("trigger", TRUE)
    <3>1. j + 1 = 5
      BY <1>14
    <3> QED
      BY <1>1, <1>3, <3>1, Zenon
  <2>2. Written("trigger", TRUE) /\ dma'.trigger = TRUE
    BY <1>8, <1>14, <2>1, Zenon
  <2>3. Programmed
    BY <1>5, <1>14, <2>2 DEF Written
  <2>4. MoveUnderWay'
    BY <1>4, <1>6, <1>14, <2>2, <2>3 DEF MoveUnderWay
  <2>5. port' = Rest(MovePort, 5)' /\ j + 1 = 5
    BY <1>4, <1>6, <1>14 DEF Rest
  <2>6. Moving(5)'
    BY <1>6, <1>14, <2>3, <2>4, <2>5 DEF Moving
  <2>7. dma'.trigger \in BOOLEAN /\ dma'.dim_y = 1 /\ Moving(j + 1)'
    BY <2>2, <2>3, <2>5, <2>6, Zenon
  <2> QED
    BY <1>4, <1>14, <2>7
<1> QED
  BY <1>7, <1>10, <1>11, <1>12, <1>13, <1>14

\* A cycle of the engine, by where the firmware is.
LEMMA DmaStep ==
  ASSUME IInv, NEW access \in BOOLEAN, NEW go \in BOOLEAN, DmaCycle(access, go)
  PROVE  IInv'
<1>1. Shape /\ Ddr /\ HostAt /\ Cores /\ EngineAt
  BY DEF IInv
<1>2. UNCHANGED host /\ UNCHANGED hostReq /\ UNCHANGED fw /\ UNCHANGED cores
  BY DEF DmaCycle
<1>3. /\ DOMAIN dma = Registers /\ dma.trigger \in BOOLEAN
      /\ dma.state \in {"IDLE", "READ", "WRITE", "NEXT_LINE", "DONE"} /\ (dma.trigger => dma.rsp)
  BY <1>1 DEF Shape, Registers, EngineAt
<1>4. Cores'
  BY <1>1, <1>2 DEF Cores
<1>5. DOMAIN dma' = Registers /\ dma'.rsp = access
  <2>1. CASE Idle
    BY <1>3, <2>1, IdleCycle
  <2>2. CASE ~Idle
    <3>1. port # <<>> /\ port[1] = Status
      BY <1>1, <2>2, BusyMeansWaiting
    <3> QED
      BY <1>3, <3>1, BusySteps
  <2> QED
    BY <2>1, <2>2
\* What is left to show of each case.
<1>6. ASSUME mem' = [a \in Addresses |-> mem'[a]], Ddr', HostAt',
             dma'.trigger \in BOOLEAN, dma'.trigger => access,
             dma'.state \in {"IDLE", "READ", "WRITE", "NEXT_LINE", "DONE"},
             (Asleep \/ Fetching \/ Running)'
      PROVE  IInv'
  <2>1. Shape'
    BY <1>1, <1>2, <1>5, <1>6 DEF Shape, Registers
  <2>2. EngineAt'
    BY <1>3, <1>5, <1>6 DEF EngineAt
  <2> QED
    BY <1>4, <1>6, <2>1, <2>2 DEF IInv
<1>7. ASSUME UNCHANGED mem
      PROVE  /\ mem' = [a \in Addresses |-> mem'[a]] /\ Ddr' /\ HostAt'
             /\ Loaded => Loaded'
             /\ Taken => Taken'
  BY <1>1, <1>2, <1>7 DEF Shape, Ddr, HostAt, Loaded, Taken, First, Last
<1>8. CASE Idle /\ port = <<>>
  <2>1. ~access
    BY <1>3, <1>8, IdleCycle
  <2>2. /\ UNCHANGED mem /\ UNCHANGED port /\ dma'.state = "IDLE" /\ dma'.trigger = FALSE
        /\ dma'.dim_y = dma.dim_y
    BY <1>3, <1>8, <2>1, IdleCycle
  <2>3. Idle'
    BY <2>2 DEF Idle
  <2>4. (Asleep \/ Fetching \/ Running)'
    BY <1>1, <1>2, <1>7, <1>8, <2>2, <2>3, FirmwareGoesOn DEF Asleep, Fetching, Running, Shape
  <2> QED
    BY <1>6, <1>7, <2>2, <2>4
<1>9. CASE fw.pc = "advance" /\ port = <<Status>> /\ Idle /\ Running
  <2>1. port[1] = Status /\ Tail(port) = <<>>
    BY <1>9
  <2>2. /\ UNCHANGED mem /\ dma'.state = "IDLE" /\ dma'.trigger = FALSE /\ dma'.dim_y = dma.dim_y
        /\ port' = port \/ port' = <<>>
    BY <1>3, <1>9, <2>1, IdleCycle
  <2>3. Idle' /\ Taken' /\ dma'.dim_y = 1
    BY <1>7, <1>9, <2>2 DEF Idle, Running
  <2>4. Running'
    BY <1>2, <1>9, <2>2, <2>3 DEF Running
  <2> QED
    BY <1>6, <1>7, <2>2, <2>4
<1>10. ASSUME NEW j \in 0 .. 8, Pulling(j), fw.pc = "fetch" PROVE IInv'
  <2>1. CASE j # 8
    <3>1. j \in 0 .. 7 /\ j + 1 \in 0 .. 8
      BY <2>1
    <3>2. /\ UNCHANGED mem /\ dma'.state = "IDLE" /\ dma'.trigger \in BOOLEAN /\ (dma'.trigger => access)
          /\ Pulling(j)' \/ Pulling(j + 1)'
      BY <1>3, <1>10, <3>1, PullProgram
    <3>3. Fetching'
      BY <1>2, <1>10, <3>1, <3>2 DEF Fetching
    <3> QED
      BY <1>6, <1>7, <3>2, <3>3
  <2>2. CASE j = 8
    <3>1. PullUnderWay /\ port = Rest(PullPort, 8)
      BY <1>10, <2>2 DEF Pulling
    <3>2. port[1] = Status /\ Tail(port) = <<>>
      <4>1. Len(PullPort) = 9 /\ PullPort[9] = Status
        BY PullAccesses, Zenon
      <4>2. 8 \in Nat /\ Len(PullPort) \in Nat /\ 8 < Len(PullPort) /\ 8 + 1 = 9
        BY <4>1
      <4>3. Rest(PullPort, 8)[1] = PullPort[8 + 1] /\ Tail(Rest(PullPort, 8)) = Rest(PullPort, 8 + 1)
        BY <4>2, RestStep
      <4>4. Rest(PullPort, Len(PullPort)) = <<>>
        BY <4>2, RestEnds
      <4> QED
        BY <3>1, <4>1, <4>2, <4>3, <4>4
    <3>3. /\ mem' = [a \in Addresses |-> mem'[a]] /\ Ddr' /\ HostAt'
          /\ dma'.trigger = FALSE /\ dma'.state \in {"IDLE", "READ", "WRITE", "NEXT_LINE", "DONE"}
          /\ \/ UNCHANGED port /\ PullUnderWay'
             \/ port' = <<>> /\ Idle' /\ dma'.dim_y = 1 /\ Loaded'
      BY <1>1, <1>3, <3>1, <3>2, PullCycle
    <3>4. CASE UNCHANGED port /\ PullUnderWay'
      <4>1. /\ dma.src = <<"ddr", 0>> /\ dma.dst = <<"tcdm", 0>> /\ dma.dim_x = QueueWords /\ dma.dim_y = 1
        BY <1>10, <2>2 DEF Pulling
      <4>2. dma'.src = dma.src /\ dma'.dst = dma.dst /\ dma'.dim_x = dma.dim_x /\ dma'.dim_y = dma.dim_y
        BY <1>3, <3>2, BusyRegisters
      <4>3. Pulling(8)'
        BY <3>1, <3>4, <4>1, <4>2 DEF Pulling
      <4>4. Fetching'
        BY <1>2, <1>10, <4>3 DEF Fetching
      <4> QED
        BY <1>6, <3>3, <4>4
    <3>5. CASE port' = <<>> /\ Idle' /\ dma'.dim_y = 1 /\ Loaded'
      <4>1. Fetching'
        BY <1>2, <1>10, <3>5 DEF Fetching
      <4> QED
        BY <1>6, <3>3, <4>1
    <3> QED
      BY <3>3, <3>4, <3>5
  <2> QED
    BY <2>1, <2>2
<1>11. ASSUME NEW j \in 0 .. 5, Moving(j), Moves, fw.pc = "advance", Running PROVE IInv'
  <2>1. Taken /\ dma.dim_y = 1
    BY <1>11 DEF Running
  <2>2. Moves' /\ MovePort' = MovePort /\ To' = To
    BY <1>2, <1>11 DEF Moves, MovePort, To
  <2>3. CASE j # 5
    <3>1. j \in 0 .. 4 /\ j + 1 \in 0 .. 5
      BY <2>3
    <3>2. /\ UNCHANGED mem /\ dma'.state = "IDLE" /\ dma'.trigger \in BOOLEAN /\ (dma'.trigger => access)
          /\ dma'.dim_y = 1 /\ (Moving(j)' \/ Moving(j + 1)')
      BY <1>3, <1>11, <2>1, <3>1, MoveProgram
    <3>3. Running'
      BY <1>2, <1>7, <1>11, <2>1, <2>2, <3>1, <3>2 DEF Running
    <3> QED
      BY <1>6, <1>7, <3>2, <3>3
  <2>4. CASE j = 5
    <3>1. MoveUnderWay /\ port = Rest(MovePort, 5)
      BY <1>11, <2>4 DEF Moving
    <3>2. port[1] = Status /\ Tail(port) = <<>>
      <4>1. Len(MovePort) = 6 /\ MovePort[6] = Status
        BY MoveAccesses, Zenon
      <4>2. 5 \in Nat /\ Len(MovePort) \in Nat /\ 5 < Len(MovePort) /\ 5 + 1 = 6
        BY <4>1
      <4>3. Rest(MovePort, 5)[1] = MovePort[5 + 1] /\ Tail(Rest(MovePort, 5)) = Rest(MovePort, 5 + 1)
        BY <4>2, RestStep
      <4>4. Rest(MovePort, Len(MovePort)) = <<>>
        BY <4>2, RestEnds
      <4> QED
        BY <3>1, <4>1, <4>2, <4>3, <4>4
    <3>3. /\ mem' = [a \in Addresses |-> mem'[a]] /\ QueuesKept
          /\ dma'.trigger = FALSE /\ dma'.state \in {"IDLE", "READ", "WRITE", "NEXT_LINE", "DONE"}
          /\ dma'.dim_y = 1
          /\ \/ UNCHANGED port /\ MoveUnderWay'
             \/ port' = <<>> /\ Idle'
      BY <1>1, <1>3, <1>11, <2>1, <3>1, <3>2, MoveCycle
    <3>4. Ddr' /\ HostAt' /\ Taken'
      <4>1. Grows
        BY <1>1, <3>3, KeptGrows
      <4> QED
        BY <1>1, <1>2, <2>1, <3>3, <4>1, KeptGrows, GrowingKeeps
    <3>5. CASE UNCHANGED port /\ MoveUnderWay'
      <4>1. /\ dma.dst = To /\ dma.dim_x = fw.cmd[4]
        BY <1>11, <2>4 DEF Moving
      <4>2. dma'.dst = dma.dst /\ dma'.dim_x = dma.dim_x
        BY <1>3, <3>2, BusyRegisters
      <4>3. port' = Rest(MovePort, 5)'
        BY <2>2, <3>1, <3>5 DEF Rest
      <4>4. Moving(5)'
        BY <1>2, <2>2, <3>5, <4>1, <4>2, <4>3 DEF Moving
      <4>5. Running'
        BY <1>2, <1>11, <2>2, <3>3, <3>4, <4>4 DEF Running
      <4> QED
        BY <1>6, <3>3, <3>4, <4>5
    <3>6. CASE port' = <<>> /\ Idle'
      <4>1. Running'
        BY <1>2, <1>11, <3>3, <3>4, <3>6 DEF Running
      <4> QED
        BY <1>6, <3>3, <3>4, <4>1
    <3> QED
      BY <3>3, <3>5, <3>6
  <2> QED
    BY <2>3, <2>4
<1>12. CASE Asleep
  BY <1>8, <1>12 DEF Asleep
<1>13. CASE Fetching
  BY <1>8, <1>10, <1>13 DEF Fetching
<1>14. CASE Running
  BY <1>8, <1>9, <1>11, <1>14 DEF Running
<1> QED
  BY <1>1, <1>12, <1>13, <1>14 DEF EngineAt
-----------------------------------------------------------------------------
\* The queue is empty and the firmware asleep.
LEMMA Initial ==
  ASSUME WellFormed, Init
  PROVE  IInv
<1>1. mem = [a \in Addresses |-> mem[a]]
  BY DEF Init
<1>2. \A w \in {"ddr", "tcdm"} : mem[<<w, 0>>] = Word(0) /\ mem[<<w, 1>>] = Word(0)
  BY QueueFacts DEF Init
<1>3. Last("ddr") = 0
  BY <1>2 DEF Last, Word
<1>4. Shape
  BY <1>1 DEF Init, Shape, Commands
<1>5. Ddr
  BY <1>2, <1>3, QueueFacts DEF Ddr
<1>6. HostAt
  BY DEF Init, HostAt, WellFormed
<1>7. Cores
  BY DEF Init, Cores
<1>8. EngineAt
  BY DEF Init, EngineAt, Asleep, Idle
<1> QED
  BY <1>4, <1>5, <1>6, <1>7, <1>8 DEF IInv

\* The invariant is inductive.
LEMMA NextKeeps ==
  ASSUME IInv, [Next]_vars
  PROVE  IInv'
<1>1. CASE Host
  BY <1>1, HostStep
<1>2. CASE \E h \in BOOLEAN, c \in {"absent", "stalled", "accepted"} : MailboxCycle(h, c)
  BY <1>2, MailboxStep
<1>3. CASE \E access, go \in BOOLEAN : DmaCycle(access, go)
  BY <1>3, DmaStep
<1>4. CASE Firmware
  BY <1>4, FirmwareStep
<1>5. CASE \E c \in 0 .. NrCores - 1 : CoreDone(c)
  BY <1>5, CoreStep
<1>6. CASE UNCHANGED vars
  <2>1. Shape /\ Ddr /\ HostAt /\ Cores /\ EngineAt
    BY DEF IInv
  <2>2. /\ UNCHANGED mem /\ UNCHANGED host /\ UNCHANGED hostReq /\ UNCHANGED cores
        /\ UNCHANGED fw /\ UNCHANGED port /\ UNCHANGED dma
    BY <1>6 DEF vars
  <2>3. Ddr' /\ EngineAt'
    BY <2>1, <2>2, MemoryKept, KeptKeeps
  <2>4. Shape' /\ HostAt' /\ Cores'
    BY <2>1, <2>2 DEF Shape, HostAt, Cores, Last
  <2> QED
    BY <2>3, <2>4 DEF IInv
<1> QED
  BY <1>1, <1>2, <1>3, <1>4, <1>5, <1>6 DEF Next

(***************************************************************************)
(* The firmware executes nothing but commands that have been enqueued:     *)
(* npu_runtime.c copies the queue while npu_enqueue writes it, and no      *)
(* barrier orders the two.  The programs may be any whose commands write   *)
(* behind the queues only.                                                 *)
(***************************************************************************)
THEOREM EnqueuedOnly ==
  ASSUME WellFormed
  PROVE  Spec => []OnlyEnqueued
<1>1. Init => IInv
  BY Initial
<1>2. IInv /\ [Next]_vars => IInv'
  BY NextKeeps
<1>3. IInv => OnlyEnqueued
  <2> SUFFICES ASSUME IInv, fw.pc \in {"execute", "advance", "succeeded", "done"}
               PROVE  First("tcdm") < Last("ddr") /\ fw.cmd = mem[<<"ddr", Slot(First("tcdm"))>>]
    BY DEF OnlyEnqueued
  <2>1. Ddr /\ Taken
    BY DEF IInv, EngineAt, Asleep, Fetching, Running
  <2> QED
    BY <2>1 DEF Taken, Loaded, Ddr
<1> QED
  BY <1>1, <1>2, <1>3, PTL DEF Spec

===============================================================================
