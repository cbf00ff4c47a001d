------------------------------ MODULE Machine ------------------------------
(***************************************************************************)
(* The machine the kernels of sw/kernels run on, at the level at which     *)
(* their drivers see it.  Every hart runs a program: a sequence of         *)
(*   - cluster and global hardware barriers,                               *)
(*   - DMA transfers, which are only started by the core that issues them  *)
(*     and move their data at some later time, in the order of issue,      *)
(*   - FP computations, which are only offloaded by the core: the FP       *)
(*     subsystem does them at some later time, in order,                   *)
(*   - waits for all that the hart has started in these ways,              *)
(*   - integer computations, which take time: they begin, and they end.    *)
(* No barrier waits for transfers or for the FP subsystem.                 *)
(* Memory is a function from locations to terms, so what a location holds  *)
(* at the end says from which inputs and by which operations it was made.  *)
(* An operation that reads what another one in flight writes, or that      *)
(* writes where another one writes something else, leaves Torn data: the   *)
(* outcome depends on timing.                                              *)
(***************************************************************************)
EXTENDS Jobs

CONSTANTS
  JobSet,           \* names of the jobs to run
  Prompt            \* those of which only the executions are looked at in which
                    \* the FP subsystem has caught up when the core is at a barrier

VARIABLES
  job,              \* the job being run: its name, harts per cluster and expected result
  prog,             \* prog[h]: operations hart h has yet to complete
  core,             \* core[h]: "idle", or the state of the computation it is in
  dma,              \* dma[h]: what hart h has started, oldest first: transfers of
                    \* the DM core, FP computations of a compute core
  mem               \* contents of the locations the job mentions

vars == <<job, prog, core, dma, mem>>

(***************************************************************************)
(* Execution.                                                              *)
(***************************************************************************)

Harts == DOMAIN prog
Cluster(h) == (h - 1) \div job.per
Ended(h) == prog[h] = <<>>
Op(h) == Head(prog[h])

Torn == <<"torn">>

Writes(o) == {p.to : p \in o.does}
Reads(o) == UNION {ToSet(p.of) : p \in o.does} \cup o.uses

\* What hart h has started that may be under way: all its transfers, but of the
\* FP computations the oldest only.
UnderWay(h) == {i \in DOMAIN dma[h] : i = 1 \/ dma[h][i].o.op = "dma"}

\* The operations in flight other than those of core or DMA engine `me'.
Flying(me) ==
  {Op(h) : h \in {x \in Harts : core[x] # "idle" /\ me # <<x, "core">>}}
    \cup UNION {{dma[h][i].o : i \in UnderWay(h)} : h \in {x \in Harts : me # <<x, "dma">>}}

Made(p) == IF p.f = "copy" THEN mem[p.of[1]] ELSE <<p.f>> \o [i \in DOMAIN p.of |-> mem[p.of[i]]]

\* What put p of operation o leaves behind.
Value(p, o, torn) ==
  IF torn \/ (o.op = "dma" /\ \E q \in o.does : q # p /\ q.to = p.of[1] /\ q.of # <<q.to>>)
    THEN Torn
  ELSE Made(p)

\* Operation q disturbs operation o, if both are in flight: it changes what o
\* reads, or writes another value where o writes.
Disturbs(q, o) ==
  \/ \E p \in q.does : p.to \in Reads(o) /\ mem[p.to] # Made(p)
  \/ \E p \in q.does \ o.does : p.to \in Writes(o)

\* Operation o of `me' takes effect, and spoils what it disturbs.
Effect(me, o, spoilt) ==
  LET torn == spoilt \/ \E q \in Flying(me) : Disturbs(q, o)
      hit(q) == Disturbs(o, q)
  IN  /\ mem' = [l \in DOMAIN mem |->
                   IF l \in Writes(o) THEN Value(CHOOSE p \in o.does : p.to = l, o, torn) ELSE mem[l]]
      /\ core' = [h \in Harts |->
                    IF me = <<h, "core">> THEN "idle"
                    ELSE IF core[h] = "busy" /\ hit(Op(h)) THEN "spoilt" ELSE core[h]]
      /\ dma' = [h \in Harts |->
                   IF me = <<h, "dma">> THEN Tail(dma[h])
                   ELSE [i \in DOMAIN dma[h] |->
                           [dma[h][i] EXCEPT !.spoilt = @ \/ (i \in UnderWay(h) /\ hit(dma[h][i].o))]]]

Init ==
  /\ \E i \in {x \in ToSet(Instances) : x.name \in JobSet} :
       /\ job = Job(i)
       /\ prog = ProgramsOf(i)
  /\ core = [h \in Harts |-> "idle"]
  /\ dma = [h \in Harts |-> <<>>]
  /\ mem = [l \in UNION {Reads(o) \cup Writes(o) : o \in UNION {ToSet(prog[h]) : h \in Harts}} |-> l]

\* dmcpyi, and FP instructions: the transfer or the computation is queued and
\* the core goes on.
StartDma(h) ==
  /\ ~Ended(h) /\ Op(h).op \in {"dma", "fp"}
  /\ dma' = [dma EXCEPT ![h] = Append(@, [o |-> Op(h), spoilt |-> FALSE])]
  /\ prog' = [prog EXCEPT ![h] = Tail(@)]
  /\ UNCHANGED <<job, core, mem>>

\* The oldest of them completes.
DmaDone(h) ==
  /\ dma[h] # <<>>
  /\ Effect(<<h, "dma">>, Head(dma[h]).o, Head(dma[h]).spoilt)
  /\ UNCHANGED <<job, prog>>

\* snrt_dma_wait_all polls dmstati until nothing is in flight; snrt_fpu_fence.
Wait(h) ==
  /\ ~Ended(h) /\ Op(h).op = "wait" /\ dma[h] = <<>>
  /\ prog' = [prog EXCEPT ![h] = Tail(@)]
  /\ UNCHANGED <<job, core, dma, mem>>

Begin(h) ==
  /\ ~Ended(h) /\ Op(h).op = "work" /\ core[h] = "idle"
  /\ core' = [core EXCEPT ![h] = "busy"]
  /\ UNCHANGED <<job, prog, dma, mem>>

End(h) ==
  /\ core[h] # "idle"
  /\ Effect(<<h, "core">>, Op(h), core[h] = "spoilt")
  /\ prog' = [prog EXCEPT ![h] = Tail(@)]
  /\ UNCHANGED job

\* The harts that the barrier operation o of hart h waits for.
Team(h, o) ==
  CASE o.op = "barrier" -> {x \in Harts : Cluster(x) = Cluster(h)}
    [] o.op = "global"  -> {x \in Harts : Cluster(x) < o.n}
    [] o.op = "inter"   -> {x \in Harts : Cluster(x) < o.n /\ (x - 1) % job.per = 0}

\* Nothing that hart h has offloaded to the FP subsystem is in flight.
CaughtUp(h) == \A i \in DOMAIN dma[h] : dma[h][i].o.op # "fp"

\* A barrier opens when all of its harts stand at it.
Pass(h) ==
  /\ ~Ended(h) /\ Op(h).op \in {"barrier", "global", "inter"}
  /\ LET team == Team(h, Op(h))
     IN  /\ \A x \in team : ~Ended(x) /\ Op(x) = Op(h)
         /\ job.name \in Prompt => \A x \in team : CaughtUp(x)
         /\ prog' = [x \in Harts |-> IF x \in team THEN Tail(prog[x]) ELSE prog[x]]
  /\ UNCHANGED <<job, core, dma, mem>>

AllDone == \A h \in Harts : Ended(h) /\ dma[h] = <<>>

Next ==
  \E h \in Harts : StartDma(h) \/ DmaDone(h) \/ Wait(h) \/ Begin(h) \/ End(h) \/ Pass(h)

Spec == Init /\ [][Next]_vars /\ WF_vars(Next)

(***************************************************************************)
(* Properties.                                                             *)
(***************************************************************************)

\* What main() of every kernel's test compares with its golden model: when
\* all harts have returned, every output was made from the inputs it should
\* have been made from, by the right operations, and none is torn.
ResultIsReference ==
  AllDone => \A l \in DOMAIN job.expect : mem[l] = job.expect[l]

\* Buffers change hands cleanly: nothing in flight disturbs a computation, be it
\* in the core or still in the FP subsystem.
\* (A transfer may read what a core is writing: a double-buffered gemm stores
\* partial sums of C that it goes on accumulating.  Whether anybody uses what
\* was read is left to ResultIsReference.)
ComputeIsUndisturbed ==
  \A h \in Harts :
    /\ core[h] # "idle" => \A q \in Flying(<<h, "core">>) : ~Disturbs(q, Op(h))
    /\ \A i \in UnderWay(h) :
         dma[h][i].o.op = "fp" => \A q \in Flying(<<h, "dma">>) : ~Disturbs(q, dma[h][i].o)

\* Every hart returns from the job: all of them execute matching sequences of
\* barriers, whatever tiles they have been given.
Returns == <>AllDone
=============================================================================
