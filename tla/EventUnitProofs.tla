-------------------------- MODULE EventUnitProofs --------------------------
(***************************************************************************)
(* The event unit forks and joins correctly for every number of harts and  *)
(* of parallel regions, in an application that runs every task it pushes   *)
(* (parallelRegion and the tests do).                                      *)
(*                                                                         *)
(* ExactlyOnce is not inductive: it says nothing about the counters that   *)
(* the master waits on.  The inductive invariant ties them to the places   *)
(* of the workers: workers_wfi counts the workers between the two updates  *)
(* of worker_wfi, and during a round fini_count counts the workers that    *)
(* have settled, that is finished their pass through the loop and not yet  *)
(* been woken again.  Outside a round every worker has settled.            *)
(***************************************************************************)
EXTENDS MCEventUnit, FiniteSetTheorems, TLAPS

Booting == mpc \in {"memset", "publish", "boot"}
\* The workers of a task have been woken and the master has not yet joined.
Round == mpc \in {"self", "join"} /\ scratch > 1
\* The master is between the push of a task and the end of eu_run_empty.
Busy == mpc \in {"push", "pushn", "run", "clear", "wake", "self", "join", "reset"}

InLoop == {w \in Workers : wpc[w] \notin {"init", "enter"}}
Asleep == {w \in Workers : wpc[w] \in {"wfi", "clr", "dec"}}
Settled == {w \in Workers : wpc[w] \in {"count", "wfi"} /\ ~mcip[w]}

\* TypeOK with the counters left unbounded.
Types ==
    /\ eu_p_global \in BOOLEAN
    /\ workers_in_loop \in Int /\ workers_wfi \in Int
    /\ exit_flag \in 0 .. 1
    /\ fn \in 0 .. MaxRegions /\ nthreads \in 0 .. N
    /\ fini_count \in Int
    /\ mcip \in [Workers -> BOOLEAN]
    /\ wpc \in [Workers -> {"init", "enter", "head", "test", "call",
                            "running", "fini", "count", "wfi", "clr", "dec",
                            "returned"}]
    /\ wfn \in [Workers -> 0 .. MaxRegions]
    /\ mpc \in {"memset", "publish", "boot", "ready", "push", "pushn", "run",
                "clear", "wake", "self", "join", "reset", "exit", "exitwake",
                "done"}
    /\ scratch \in 0 .. N
    /\ size \in [Regions -> 0 .. N]
    /\ region \in 0 .. MaxRegions /\ joined \in 0 .. MaxRegions
    /\ ran \in [Harts -> [Regions -> Nat]]

\* What the counters count.
CountersAt ==
    /\ mpc = "memset" => workers_in_loop \in 0 .. 1 /\ workers_wfi \in 0 .. 1
    /\ mpc # "memset" => /\ workers_in_loop = Cardinality(InLoop)
                         /\ workers_wfi = Cardinality(Asleep)
    /\ mpc = "wake" => fini_count = 0
    /\ mpc \in {"publish", "boot"} \/ Round => fini_count = Cardinality(Settled)
    /\ mpc \notin {"publish", "boot"} /\ ~Round => fini_count \in 0 .. N

\* The words of the event struct, as the place of the master determines them.
EventAt ==
    /\ eu_p_global <=> mpc \notin {"memset", "publish"}
    /\ mpc # "memset" => (exit_flag = 1 <=> mpc \in {"exitwake", "done"})
    /\ Busy => region \in Regions /\ joined = region - 1 /\ size[region] >= 1
    /\ ~Busy => joined = region
    /\ Busy /\ mpc # "push" => fn = region
    /\ mpc # "memset" =>
           nthreads = IF Busy /\ mpc \notin {"push", "pushn"}
                      THEN size[region] ELSE 0
    /\ mpc \in {"clear", "wake", "self", "join", "reset"} => scratch = nthreads
    /\ mpc \in {"wake", "join"} => scratch > 1

\* Where a worker may be, as the place of the master determines it.
WorkerAt(w) ==
    /\ mpc \in {"memset", "publish"} => wpc[w] = "init"
    /\ mpc = "boot" => wpc[w] \in {"init", "enter", "head", "test", "fini",
                                   "count", "wfi"}
    /\ Round => wpc[w] \notin {"init", "enter", "returned"}
    /\ mpc = "done" => wpc[w] \in {"wfi", "clr", "dec", "head", "returned"}
    /\ mpc = "done" /\ wpc[w] = "wfi" => mcip[w]
    /\ ~Booting /\ ~Round /\ mpc # "done" => w \in Settled
    /\ mcip[w] => (Round \/ mpc = "done") /\ wpc[w] \in {"wfi", "clr"}
    /\ wpc[w] = "clr" => mcip[w]
    /\ wpc[w] \in {"call", "running"} => w < nthreads
    /\ wpc[w] = "running" => wfn[w] = region

\* Who has carried out the task of the current region.
DoneIn(h) ==
    /\ mpc \notin {"push", "pushn", "run", "clear", "wake"}
    /\ h = 0 => mpc # "self"
    /\ Round /\ h # 0 => h \in Settled \/ wpc[h] = "fini"

RanAt(h) ==
    \A k \in Regions :
        ran[h][k] = IF k <= region /\ h < size[k] /\ (k = region => DoneIn(h))
                    THEN 1 ELSE 0

IInv ==
    /\ Types /\ CountersAt /\ EventAt
    /\ \A w \in Workers : WorkerAt(w)
    /\ \A h \in Harts : RanAt(h)

-----------------------------------------------------------------------------
\* There are N - 1 workers, and a set of that many workers is all of them.
LEMMA WorkerCount ==
    /\ IsFiniteSet(Workers) /\ Cardinality(Workers) = N - 1
    /\ \A S \in SUBSET Workers : /\ IsFiniteSet(S)
                                 /\ Cardinality(S) \in 0 .. (N - 1)
                                 /\ Cardinality(S) = N - 1 => S = Workers
<1>1. IsFiniteSet(Workers) /\ Cardinality(Workers) = N - 1
  BY NAssumption, FS_Interval DEF Workers
<1>2. ASSUME NEW S \in SUBSET Workers
      PROVE  /\ IsFiniteSet(S)
             /\ Cardinality(S) \in 0 .. (N - 1)
             /\ Cardinality(S) = N - 1 => S = Workers
  <2>1. IsFiniteSet(S) /\ Cardinality(S) <= N - 1 /\ (Cardinality(S) = N - 1 => S = Workers)
    BY <1>1, FS_Subset
  <2>2. Cardinality(S) \in Nat
    BY <2>1, FS_CardinalityType
  <2> QED
    BY <2>1, <2>2, NAssumption
<1> QED
  BY <1>1, <1>2

\* A worker joins or leaves a set of workers.
LEMMA CountOne ==
    ASSUME NEW S \in SUBSET Workers, NEW w \in Workers
    PROVE  /\ w \notin S => Cardinality(S \cup {w}) = Cardinality(S) + 1
           /\ w \in S => Cardinality(S \ {w}) = Cardinality(S) - 1
BY WorkerCount, FS_AddElement, FS_RemoveElement

\* Before memset no worker has started.
LEMMA InitInd == Init => IInv
<1> SUFFICES ASSUME Init PROVE IInv
  OBVIOUS
<1>1. Types
  <2>1. Garbage \subseteq Int /\ Garbage \subseteq 0 .. N
    BY NAssumption DEF Garbage
  <2>2. 0 \in 0 .. N /\ 0 \in 0 .. MaxRegions /\ exit_flag \in 0 .. 1
    BY NAssumption, MaxRegionsAssumption DEF Init, Garbage
  <2>3. ran \in [Harts -> [Regions -> Nat]]
    BY DEF Init
  <2> QED
    BY <2>1, <2>2, <2>3 DEF Init, Types
<1>2. CountersAt
  BY NAssumption DEF Init, CountersAt, Garbage, Round
<1>3. EventAt
  BY DEF Init, EventAt, Busy
<1>4. \A w \in Workers : WorkerAt(w)
  BY DEF Init, WorkerAt, Booting, Round
<1>5. \A h \in Harts : RanAt(h)
  BY DEF Init, RanAt, Regions
<1> QED
  BY <1>1, <1>2, <1>3, <1>4, <1>5 DEF IInv

\* Every step keeps the shape of the state.
LEMMA TypesStep == ASSUME IInv, [Next]_vars PROVE Types'
<1> USE DEF Types
<1>1. Types /\ EventAt
  BY DEF IInv
<1>2. CASE UNCHANGED vars
  BY <1>1, <1>2 DEF vars, eu, worker, app
<1>3. ASSUME NEW w \in Workers, Worker(w) PROVE Types'
  <2>1. CASE Return(w)
    BY <1>1, <2>1 DEF Return, Count, WGoto, eu, app, Harts, Workers
  <2>2. CASE Attach(w)
    BY <1>1, <2>2 DEF Attach, WGoto, eu, worker, app
  <2>3. CASE Enter(w)
    BY <1>1, <2>3 DEF Enter, WGoto, eu, worker, app
  <2>4. CASE CheckExit(w)
    BY <1>1, <2>4 DEF CheckExit, WGoto, eu, worker, app
  <2>5. CASE CheckTeam(w)
    BY <1>1, <2>5 DEF CheckTeam, WGoto, eu, worker, app
  <2>6. CASE Call(w)
    BY <1>1, <2>6 DEF Call, WGoto, eu, worker, app
  <2>7. CASE Fini(w)
    BY <1>1, <2>7 DEF Fini, WGoto, eu, worker, app
  <2>8. CASE WfiEnter(w)
    BY <1>1, <2>8 DEF WfiEnter, WGoto, eu, worker, app
  <2>9. CASE Wfi(w)
    BY <1>1, <2>9 DEF Wfi, WGoto, eu, worker, app
  <2>10. CASE Clr(w)
    BY <1>1, <2>10 DEF Clr, WGoto, eu, worker, app
  <2>11. CASE WfiLeave(w)
    BY <1>1, <2>11 DEF WfiLeave, WGoto, eu, worker, app
  <2> QED
    BY <1>3, <2>1, <2>2, <2>3, <2>4, <2>5, <2>6, <2>7, <2>8, <2>9, <2>10, <2>11 DEF Worker
<1>4. CASE Memset
  BY <1>1, <1>4, NAssumption, MaxRegionsAssumption DEF Memset, MGoto, eu, worker, app
<1>5. CASE Publish
  BY <1>1, <1>5, NAssumption, MaxRegionsAssumption DEF Publish, MGoto, eu, worker, app
<1>6. CASE Bootstrap
  BY <1>1, <1>6, NAssumption, MaxRegionsAssumption DEF Bootstrap, MGoto, eu, worker, app
<1>7. CASE PushFn
  BY <1>1, <1>7, NAssumption, MaxRegionsAssumption DEF PushFn, MGoto, eu, worker, app
<1>8. CASE RunHead
  BY <1>1, <1>8, NAssumption, MaxRegionsAssumption DEF RunHead, MGoto, eu, worker, app
<1>9. CASE RunClear
  BY <1>1, <1>9, NAssumption, MaxRegionsAssumption DEF RunClear, MGoto, eu, worker, app
<1>10. CASE Wake
  BY <1>1, <1>10, NAssumption, MaxRegionsAssumption DEF Wake, WakeWorkers, MGoto, eu, worker, app
<1>11. CASE Join
  BY <1>1, <1>11, NAssumption, MaxRegionsAssumption DEF Join, MGoto, eu, worker, app
<1>12. CASE ResetN
  BY <1>1, <1>12, NAssumption, MaxRegionsAssumption DEF ResetN, MGoto, eu, worker, app
<1>13. CASE SetExit
  BY <1>1, <1>13, NAssumption, MaxRegionsAssumption DEF SetExit, MGoto, eu, worker, app
<1>14. CASE ExitWake
  BY <1>1, <1>14, NAssumption, MaxRegionsAssumption DEF ExitWake, WakeWorkers, MGoto, eu, worker, app
<1>16. CASE CallExit
  BY <1>1, <1>16, NAssumption, MaxRegionsAssumption DEF CallExit, MGoto, eu, worker, app
<1>17. CASE PushN
  BY <1>1, <1>17 DEF PushN, MGoto, EventAt, Busy, worker, app
<1>18. CASE Self
  BY <1>1, <1>18, NAssumption DEF Self, Count, MGoto, eu, worker, app, Harts
<1>19. ASSUME NEW n \in 1 .. N, Push(n) PROVE Types'
  BY <1>1, <1>19, NAssumption, MaxRegionsAssumption DEF Push, MGoto, eu, worker, Regions
<1> QED
  BY <1>2, <1>3, <1>4, <1>5, <1>6, <1>7, <1>8, <1>9, <1>10, <1>11, <1>12, <1>13, <1>14, <1>16, <1>17, <1>18, <1>19 DEF Next, InCall, AppCall

\* A worker finds the struct: it is not in the loop yet.
LEMMA AttachStep ==
    ASSUME IInv, NEW w \in Workers, Attach(w)
    PROVE  /\ CountersAt' /\ EventAt'
           /\ \A v \in Workers : WorkerAt(v)'
           /\ \A h \in Harts : RanAt(h)'
<1> USE DEF Attach, WGoto, eu, worker, app
<1>1. Types /\ CountersAt /\ EventAt /\ WorkerAt(w)
  BY DEF IInv
<1>2. Booting' = Booting /\ Round' = Round /\ Busy' = Busy
  BY DEF Booting, Round, Busy
<1>3. InLoop' = InLoop
  BY <1>1 DEF Types, InLoop
<1>4. Asleep' = Asleep
  BY <1>1 DEF Types, Asleep
<1>5. Settled' = Settled
  BY <1>1 DEF Types, Settled, WorkerAt
<1>6. CountersAt'
  BY <1>1, <1>2, <1>3, <1>4, <1>5 DEF CountersAt
<1>7. EventAt'
  BY <1>1, <1>2 DEF EventAt
<1>8. ASSUME NEW v \in Workers PROVE WorkerAt(v)'
  <2>1. WorkerAt(v)
    BY DEF IInv
  <2> QED
    BY <1>1, <1>2, <1>5, <2>1 DEF Types, WorkerAt, EventAt, Busy, Round, Booting
<1>9. ASSUME NEW h \in Harts PROVE RanAt(h)'
  <2>1. RanAt(h) /\ (h # 0 => h \in Workers)
    BY DEF IInv, Harts, Workers
  <2> QED
    BY <1>1, <1>2, <1>5, <2>1 DEF Types, RanAt, DoneIn, WorkerAt, Round
<1> QED
  BY <1>6, <1>7, <1>8, <1>9

\* A worker is counted in, during the bootstrap.
LEMMA EnterStep ==
    ASSUME IInv, NEW w \in Workers, Enter(w)
    PROVE  /\ CountersAt' /\ EventAt'
           /\ \A v \in Workers : WorkerAt(v)'
           /\ \A h \in Harts : RanAt(h)'
<1> USE DEF Enter, WGoto, eu, worker, app
<1>1. Types /\ CountersAt /\ EventAt /\ WorkerAt(w)
  BY DEF IInv
<1>2. Booting' = Booting /\ Round' = Round /\ Busy' = Busy
  BY DEF Booting, Round, Busy
<1>3. w \notin InLoop /\ InLoop' = InLoop \cup {w}
  BY <1>1 DEF Types, InLoop
<1>4. Asleep' = Asleep
  BY <1>1 DEF Types, Asleep
<1>5. Settled' = Settled
  BY <1>1 DEF Types, Settled, WorkerAt
<1>a. /\ Cardinality(InLoop') = Cardinality(InLoop) + 1
      /\ mpc # "memset"
  <2>1. InLoop \in SUBSET Workers
    BY DEF InLoop
  <2>2. Cardinality(InLoop') = Cardinality(InLoop) + 1
    BY <1>3, <2>1, CountOne
  <2> QED
    BY <1>1, <2>2 DEF WorkerAt, Types, Settled, Booting
<1>6. CountersAt'
  BY <1>1, <1>2, <1>3, <1>4, <1>5, <1>a DEF CountersAt
<1>7. EventAt'
  BY <1>1, <1>2 DEF EventAt
<1>8. ASSUME NEW v \in Workers PROVE WorkerAt(v)'
  <2>1. WorkerAt(v)
    BY DEF IInv
  <2> QED
    BY <1>1, <1>2, <1>5, <2>1 DEF Types, WorkerAt, EventAt, Busy, Round, Booting
<1>9. ASSUME NEW h \in Harts PROVE RanAt(h)'
  <2>1. RanAt(h) /\ (h # 0 => h \in Workers)
    BY DEF IInv, Harts, Workers
  <2> QED
    BY <1>1, <1>2, <1>5, <2>1 DEF Types, RanAt, DoneIn, WorkerAt, Round
<1> QED
  BY <1>6, <1>7, <1>8, <1>9

\* The exit flag is set only after the last round.
LEMMA CheckExitStep ==
    ASSUME IInv, NEW w \in Workers, CheckExit(w)
    PROVE  /\ CountersAt' /\ EventAt'
           /\ \A v \in Workers : WorkerAt(v)'
           /\ \A h \in Harts : RanAt(h)'
<1> USE DEF CheckExit, WGoto, eu, worker, app
<1>1. Types /\ CountersAt /\ EventAt /\ WorkerAt(w)
  BY DEF IInv
<1>2. Booting' = Booting /\ Round' = Round /\ Busy' = Busy
  BY DEF Booting, Round, Busy
<1>3. InLoop' = InLoop
  BY <1>1 DEF Types, InLoop
<1>4. Asleep' = Asleep
  BY <1>1 DEF Types, Asleep
<1>5. Settled' = Settled
  BY <1>1 DEF Types, Settled, WorkerAt
<1>6. CountersAt'
  BY <1>1, <1>2, <1>3, <1>4, <1>5 DEF CountersAt
<1>7. EventAt'
  BY <1>1, <1>2 DEF EventAt
<1>8. ASSUME NEW v \in Workers PROVE WorkerAt(v)'
  <2>1. WorkerAt(v)
    BY DEF IInv
  <2> QED
    BY <1>1, <1>2, <1>5, <2>1 DEF Types, WorkerAt, EventAt, Busy, Round, Booting
<1>9. ASSUME NEW h \in Harts PROVE RanAt(h)'
  <2>1. RanAt(h) /\ (h # 0 => h \in Workers)
    BY DEF IInv, Harts, Workers
  <2> QED
    BY <1>1, <1>2, <1>5, <2>1 DEF Types, RanAt, DoneIn, WorkerAt, Round
<1> QED
  BY <1>6, <1>7, <1>8, <1>9

\* Only a member of the team goes on to the call.
LEMMA CheckTeamStep ==
    ASSUME IInv, NEW w \in Workers, CheckTeam(w)
    PROVE  /\ CountersAt' /\ EventAt'
           /\ \A v \in Workers : WorkerAt(v)'
           /\ \A h \in Harts : RanAt(h)'
<1> USE DEF CheckTeam, WGoto, eu, worker, app
<1>1. Types /\ CountersAt /\ EventAt /\ WorkerAt(w)
  BY DEF IInv
<1>2. Booting' = Booting /\ Round' = Round /\ Busy' = Busy
  BY DEF Booting, Round, Busy
<1>3. InLoop' = InLoop
  BY <1>1 DEF Types, InLoop
<1>4. Asleep' = Asleep
  BY <1>1 DEF Types, Asleep
<1>5. Settled' = Settled
  BY <1>1 DEF Types, Settled, WorkerAt
<1>6. CountersAt'
  BY <1>1, <1>2, <1>3, <1>4, <1>5 DEF CountersAt
<1>7. EventAt'
  BY <1>1, <1>2 DEF EventAt
<1>8. ASSUME NEW v \in Workers PROVE WorkerAt(v)'
  <2>1. WorkerAt(v)
    BY DEF IInv
  <2> QED
    BY <1>1, <1>2, <1>5, <2>1, NAssumption DEF Types, WorkerAt, EventAt, Busy, Round, Booting, Workers
<1>9. ASSUME NEW h \in Harts PROVE RanAt(h)'
  <2>1. RanAt(h) /\ (h # 0 => h \in Workers)
    BY DEF IInv, Harts, Workers
  <2> QED
    BY <1>1, <1>2, <1>5, <2>1, NAssumption
    DEF Types, RanAt, DoneIn, WorkerAt, Round, EventAt, Busy, Workers
<1> QED
  BY <1>6, <1>7, <1>8, <1>9

\* The function loaded is that of the current region.
LEMMA CallStep ==
    ASSUME IInv, NEW w \in Workers, Call(w)
    PROVE  /\ CountersAt' /\ EventAt'
           /\ \A v \in Workers : WorkerAt(v)'
           /\ \A h \in Harts : RanAt(h)'
<1> USE DEF Call, WGoto, eu, worker, app
<1>1. Types /\ CountersAt /\ EventAt /\ WorkerAt(w)
  BY DEF IInv
<1>2. Booting' = Booting /\ Round' = Round /\ Busy' = Busy
  BY DEF Booting, Round, Busy
<1>3. InLoop' = InLoop
  BY <1>1 DEF Types, InLoop
<1>4. Asleep' = Asleep
  BY <1>1 DEF Types, Asleep
<1>5. Settled' = Settled
  BY <1>1 DEF Types, Settled, WorkerAt
<1>6. CountersAt'
  BY <1>1, <1>2, <1>3, <1>4, <1>5 DEF CountersAt
<1>7. EventAt'
  BY <1>1, <1>2 DEF EventAt
<1>8. ASSUME NEW v \in Workers PROVE WorkerAt(v)'
  <2>1. WorkerAt(v)
    BY DEF IInv
  <2> QED
    BY <1>1, <1>2, <1>5, <2>1, NAssumption DEF Types, WorkerAt, EventAt, Busy, Round, Booting, Workers
<1>9. ASSUME NEW h \in Harts PROVE RanAt(h)'
  <2>1. RanAt(h) /\ (h # 0 => h \in Workers)
    BY DEF IInv, Harts, Workers
  <2> QED
    BY <1>1, <1>2, <1>5, <2>1 DEF Types, RanAt, DoneIn, WorkerAt, Round
<1> QED
  BY <1>6, <1>7, <1>8, <1>9

\* A member of the team completes its one call of the round.
LEMMA ReturnStep ==
    ASSUME IInv, NEW w \in Workers, Return(w)
    PROVE  /\ CountersAt' /\ EventAt'
           /\ \A v \in Workers : WorkerAt(v)'
           /\ \A h \in Harts : RanAt(h)'
<1> USE DEF Return, WGoto, eu, worker, app
<1>1. Types /\ CountersAt /\ EventAt /\ WorkerAt(w)
  BY DEF IInv
<1>2. Booting' = Booting /\ Round' = Round /\ Busy' = Busy
  BY DEF Booting, Round, Busy
<1>3. InLoop' = InLoop
  BY <1>1 DEF Types, InLoop
<1>4. Asleep' = Asleep
  BY <1>1 DEF Types, Asleep
<1>5. Settled' = Settled
  BY <1>1 DEF Types, Settled, WorkerAt
<1>6. CountersAt'
  BY <1>1, <1>2, <1>3, <1>4, <1>5 DEF CountersAt
<1>7. EventAt'
  BY <1>1, <1>2 DEF EventAt
<1>8. ASSUME NEW v \in Workers PROVE WorkerAt(v)'
  <2>1. WorkerAt(v)
    BY DEF IInv
  <2> QED
    BY <1>1, <1>2, <1>5, <2>1 DEF Types, WorkerAt, EventAt, Busy, Round, Booting
<1>b. region \in Regions /\ wfn[w] = region /\ w < size[region] /\ Round
  BY <1>1, NAssumption DEF Types, WorkerAt, EventAt, Settled, Booting, Workers
<1>9. ASSUME NEW h \in Harts PROVE RanAt(h)'
  <2>1. RanAt(h) /\ (h # 0 => h \in Workers)
    BY DEF IInv, Harts, Workers
  <2> QED
    <3>1. ran' = [ran EXCEPT ![w][region] = @ + 1]
      BY <1>b DEF Count
    <3>2. CASE h # w
      <4>1. DoneIn(h)' <=> DoneIn(h)
        BY <1>1, <1>2, <1>5, <2>1, <3>2 DEF Types, DoneIn
      <4> QED
        BY <1>1, <2>1, <3>1, <3>2, <4>1 DEF Types, RanAt
    <3>3. CASE h = w
      <4>1. ~DoneIn(w) /\ DoneIn(w)'
        BY <1>1, <1>2, <1>5, <1>b, NAssumption DEF Types, DoneIn, Settled, Round, Workers
      <4>2. w \in Harts /\ ran[w] \in [Regions -> Nat]
        BY <1>1, <3>3 DEF Types
      <4>3. ran'[w] = [ran[w] EXCEPT ![region] = @ + 1]
        BY <1>1, <3>1, <4>2 DEF Types
      <4> QED
        BY <1>1, <1>b, <2>1, <3>3, <4>1, <4>2, <4>3 DEF Types, RanAt, Regions
    <3> QED
      BY <3>2, <3>3
<1> QED
  BY <1>6, <1>7, <1>8, <1>9

\* The worker settles, and fini_count counts it.
LEMMA FiniStep ==
    ASSUME IInv, NEW w \in Workers, Fini(w)
    PROVE  /\ CountersAt' /\ EventAt'
           /\ \A v \in Workers : WorkerAt(v)'
           /\ \A h \in Harts : RanAt(h)'
<1> USE DEF Fini, WGoto, eu, worker, app
<1>1. Types /\ CountersAt /\ EventAt /\ WorkerAt(w)
  BY DEF IInv
<1>2. Booting' = Booting /\ Round' = Round /\ Busy' = Busy
  BY DEF Booting, Round, Busy
<1>3. InLoop' = InLoop
  BY <1>1 DEF Types, InLoop
<1>4. Asleep' = Asleep
  BY <1>1 DEF Types, Asleep
<1>5. w \notin Settled /\ Settled' = Settled \cup {w}
  BY <1>1 DEF Types, Settled, WorkerAt
<1>a. /\ Cardinality(Settled') = Cardinality(Settled) + 1
      /\ mpc = "boot" \/ Round
  <2>1. Settled \in SUBSET Workers
    BY DEF Settled
  <2>2. Cardinality(Settled') = Cardinality(Settled) + 1
    BY <1>5, <2>1, CountOne
  <2> QED
    BY <1>1, <2>2 DEF WorkerAt, Types, Settled, Booting
<1>6. CountersAt'
  BY <1>1, <1>2, <1>3, <1>4, <1>5, <1>a DEF CountersAt, Round
<1>7. EventAt'
  BY <1>1, <1>2 DEF EventAt
<1>8. ASSUME NEW v \in Workers PROVE WorkerAt(v)'
  <2>1. WorkerAt(v)
    BY DEF IInv
  <2> QED
    BY <1>1, <1>2, <1>5, <2>1 DEF Types, WorkerAt, EventAt, Busy, Round, Booting
<1>9. ASSUME NEW h \in Harts PROVE RanAt(h)'
  <2>1. RanAt(h) /\ (h # 0 => h \in Workers)
    BY DEF IInv, Harts, Workers
  <2> QED
    BY <1>1, <1>2, <1>5, <2>1 DEF Types, RanAt, DoneIn, WorkerAt, Round
<1> QED
  BY <1>6, <1>7, <1>8, <1>9

\* The worker goes to sleep, and workers_wfi counts it.
LEMMA WfiEnterStep ==
    ASSUME IInv, NEW w \in Workers, WfiEnter(w)
    PROVE  /\ CountersAt' /\ EventAt'
           /\ \A v \in Workers : WorkerAt(v)'
           /\ \A h \in Harts : RanAt(h)'
<1> USE DEF WfiEnter, WGoto, eu, worker, app
<1>1. Types /\ CountersAt /\ EventAt /\ WorkerAt(w)
  BY DEF IInv
<1>2. Booting' = Booting /\ Round' = Round /\ Busy' = Busy
  BY DEF Booting, Round, Busy
<1>3. InLoop' = InLoop
  BY <1>1 DEF Types, InLoop
<1>4. w \notin Asleep /\ Asleep' = Asleep \cup {w}
  BY <1>1 DEF Types, Asleep
<1>5. Settled' = Settled
  BY <1>1 DEF Types, Settled, WorkerAt
<1>a. /\ Cardinality(Asleep') = Cardinality(Asleep) + 1
      /\ mpc # "memset"
  <2>1. Asleep \in SUBSET Workers
    BY DEF Asleep
  <2>2. Cardinality(Asleep') = Cardinality(Asleep) + 1
    BY <1>4, <2>1, CountOne
  <2> QED
    BY <1>1, <2>2 DEF WorkerAt, Types, Settled, Booting
<1>6. CountersAt'
  BY <1>1, <1>2, <1>3, <1>4, <1>5, <1>a DEF CountersAt
<1>7. EventAt'
  BY <1>1, <1>2 DEF EventAt
<1>8. ASSUME NEW v \in Workers PROVE WorkerAt(v)'
  <2>1. WorkerAt(v)
    BY DEF IInv
  <2> QED
    BY <1>1, <1>2, <1>5, <2>1 DEF Types, WorkerAt, EventAt, Busy, Round, Booting
<1>9. ASSUME NEW h \in Harts PROVE RanAt(h)'
  <2>1. RanAt(h) /\ (h # 0 => h \in Workers)
    BY DEF IInv, Harts, Workers
  <2> QED
    BY <1>1, <1>2, <1>5, <2>1 DEF Types, RanAt, DoneIn, WorkerAt, Round
<1> QED
  BY <1>6, <1>7, <1>8, <1>9

\* Only a worker that was woken in this round wakes.
LEMMA WfiStep ==
    ASSUME IInv, NEW w \in Workers, Wfi(w)
    PROVE  /\ CountersAt' /\ EventAt'
           /\ \A v \in Workers : WorkerAt(v)'
           /\ \A h \in Harts : RanAt(h)'
<1> USE DEF Wfi, WGoto, eu, worker, app
<1>1. Types /\ CountersAt /\ EventAt /\ WorkerAt(w)
  BY DEF IInv
<1>2. Booting' = Booting /\ Round' = Round /\ Busy' = Busy
  BY DEF Booting, Round, Busy
<1>3. InLoop' = InLoop
  BY <1>1 DEF Types, InLoop
<1>4. Asleep' = Asleep
  BY <1>1 DEF Types, Asleep
<1>5. Settled' = Settled
  BY <1>1 DEF Types, Settled, WorkerAt
<1>6. CountersAt'
  BY <1>1, <1>2, <1>3, <1>4, <1>5 DEF CountersAt
<1>7. EventAt'
  BY <1>1, <1>2 DEF EventAt
<1>8. ASSUME NEW v \in Workers PROVE WorkerAt(v)'
  <2>1. WorkerAt(v)
    BY DEF IInv
  <2> QED
    BY <1>1, <1>2, <1>5, <2>1 DEF Types, WorkerAt, EventAt, Busy, Round, Booting
<1>9. ASSUME NEW h \in Harts PROVE RanAt(h)'
  <2>1. RanAt(h) /\ (h # 0 => h \in Workers)
    BY DEF IInv, Harts, Workers
  <2> QED
    BY <1>1, <1>2, <1>5, <2>1 DEF Types, RanAt, DoneIn, WorkerAt, Round
<1> QED
  BY <1>6, <1>7, <1>8, <1>9

\* The worker takes its interrupt back; it does not settle by it.
LEMMA ClrStep ==
    ASSUME IInv, NEW w \in Workers, Clr(w)
    PROVE  /\ CountersAt' /\ EventAt'
           /\ \A v \in Workers : WorkerAt(v)'
           /\ \A h \in Harts : RanAt(h)'
<1> USE DEF Clr, WGoto, eu, worker, app
<1>1. Types /\ CountersAt /\ EventAt /\ WorkerAt(w)
  BY DEF IInv
<1>2. Booting' = Booting /\ Round' = Round /\ Busy' = Busy
  BY DEF Booting, Round, Busy
<1>3. InLoop' = InLoop
  BY <1>1 DEF Types, InLoop
<1>4. Asleep' = Asleep
  BY <1>1 DEF Types, Asleep
<1>5. Settled' = Settled
  BY <1>1 DEF Types, Settled, WorkerAt
<1>6. CountersAt'
  BY <1>1, <1>2, <1>3, <1>4, <1>5 DEF CountersAt
<1>7. EventAt'
  BY <1>1, <1>2 DEF EventAt
<1>8. ASSUME NEW v \in Workers PROVE WorkerAt(v)'
  <2>1. WorkerAt(v)
    BY DEF IInv
  <2> QED
    BY <1>1, <1>2, <1>5, <2>1 DEF Types, WorkerAt, EventAt, Busy, Round, Booting
<1>9. ASSUME NEW h \in Harts PROVE RanAt(h)'
  <2>1. RanAt(h) /\ (h # 0 => h \in Workers)
    BY DEF IInv, Harts, Workers
  <2> QED
    BY <1>1, <1>2, <1>5, <2>1 DEF Types, RanAt, DoneIn, WorkerAt, Round
<1> QED
  BY <1>6, <1>7, <1>8, <1>9

\* The worker is awake, and workers_wfi no longer counts it.
LEMMA WfiLeaveStep ==
    ASSUME IInv, NEW w \in Workers, WfiLeave(w)
    PROVE  /\ CountersAt' /\ EventAt'
           /\ \A v \in Workers : WorkerAt(v)'
           /\ \A h \in Harts : RanAt(h)'
<1> USE DEF WfiLeave, WGoto, eu, worker, app
<1>1. Types /\ CountersAt /\ EventAt /\ WorkerAt(w)
  BY DEF IInv
<1>2. Booting' = Booting /\ Round' = Round /\ Busy' = Busy
  BY DEF Booting, Round, Busy
<1>3. InLoop' = InLoop
  BY <1>1 DEF Types, InLoop
<1>4. w \in Asleep /\ Asleep' = Asleep \ {w}
  BY <1>1 DEF Types, Asleep
<1>5. Settled' = Settled
  BY <1>1 DEF Types, Settled, WorkerAt
<1>a. /\ Cardinality(Asleep') = Cardinality(Asleep) - 1
      /\ mpc # "memset"
  <2>1. Asleep \in SUBSET Workers
    BY DEF Asleep
  <2>2. Cardinality(Asleep') = Cardinality(Asleep) - 1
    BY <1>4, <2>1, CountOne
  <2> QED
    BY <1>1, <2>2 DEF WorkerAt, Types, Settled, Booting
<1>6. CountersAt'
  BY <1>1, <1>2, <1>3, <1>4, <1>5, <1>a DEF CountersAt
<1>7. EventAt'
  BY <1>1, <1>2 DEF EventAt
<1>8. ASSUME NEW v \in Workers PROVE WorkerAt(v)'
  <2>1. WorkerAt(v)
    BY DEF IInv
  <2> QED
    BY <1>1, <1>2, <1>5, <2>1 DEF Types, WorkerAt, EventAt, Busy, Round, Booting
<1>9. ASSUME NEW h \in Harts PROVE RanAt(h)'
  <2>1. RanAt(h) /\ (h # 0 => h \in Workers)
    BY DEF IInv, Harts, Workers
  <2> QED
    BY <1>1, <1>2, <1>5, <2>1 DEF Types, RanAt, DoneIn, WorkerAt, Round
<1> QED
  BY <1>6, <1>7, <1>8, <1>9

-----------------------------------------------------------------------------
(* The steps of the master. *)

\* After the bootstrap every worker is in the loop; when the wait for the
\* workers ends outside a round, every one of them is about to sleep.
LEMMA AllAsleep ==
    ASSUME IInv, ~Booting, mpc # "done"
    PROVE  /\ workers_in_loop = N - 1
           /\ WorkersAsleep /\ ~Round => \A w \in Workers : wpc[w] = "wfi"
<1>1. \A w \in Workers : wpc[w] \notin {"init", "enter"}
  BY DEF IInv, WorkerAt, Settled, Round
<1>2. InLoop = Workers
  BY <1>1 DEF InLoop
<1>3. workers_in_loop = N - 1
  BY <1>2, WorkerCount DEF IInv, CountersAt, Booting
<1>4. ASSUME WorkersAsleep, ~Round PROVE \A w \in Workers : wpc[w] = "wfi"
  <2>1. Cardinality(Asleep) = N - 1
    BY <1>3, <1>4 DEF IInv, CountersAt, Booting, WorkersAsleep
  <2>2. Asleep = Workers
    BY <2>1, WorkerCount DEF Asleep
  <2> QED
    BY <1>4, <2>2 DEF IInv, WorkerAt, Asleep, Settled
<1> QED
  BY <1>3, <1>4

\* The struct is cleared before anybody can see it.
LEMMA MemsetStep ==
    ASSUME IInv, Memset
    PROVE  /\ CountersAt' /\ EventAt'
           /\ \A v \in Workers : WorkerAt(v)'
           /\ \A h \in Harts : RanAt(h)'
<1> USE DEF Memset, MGoto, eu, worker, app
<1>1. Types /\ CountersAt /\ EventAt
  BY DEF IInv
<1>2. InLoop' = InLoop /\ Asleep' = Asleep
  BY DEF InLoop, Asleep
<1>3. Settled' = Settled
  BY DEF Settled
<1>4. /\ InLoop = {} /\ Asleep = {} /\ Settled = {}
  BY DEF IInv, WorkerAt, InLoop, Asleep, Settled
<1>6. CountersAt'
  BY <1>1, <1>2, <1>3, <1>4, WorkerCount, FS_EmptySet, NAssumption DEF Types, CountersAt, Round, EventAt, Settled
<1>7. EventAt'
  BY <1>1, NAssumption, MaxRegionsAssumption DEF Types, EventAt, Busy
<1>8. ASSUME NEW v \in Workers PROVE WorkerAt(v)'
  <2>1. WorkerAt(v)
    BY DEF IInv
  <2> QED
    BY <1>1, <1>3, <1>4, <2>1 DEF Types, WorkerAt, EventAt, Busy, Round, Booting, Settled
<1>9. ASSUME NEW h \in Harts PROVE RanAt(h)'
  <2>1. RanAt(h) /\ (h # 0 => h \in Workers)
    BY DEF IInv, Harts, Workers
  <2> QED
    BY <1>1, <1>3, <1>4, <2>1 DEF Types, RanAt, DoneIn, EventAt, Busy, Round
<1> QED
  BY <1>6, <1>7, <1>8, <1>9

\* The struct is published in its cleared state.
LEMMA PublishStep ==
    ASSUME IInv, Publish
    PROVE  /\ CountersAt' /\ EventAt'
           /\ \A v \in Workers : WorkerAt(v)'
           /\ \A h \in Harts : RanAt(h)'
<1> USE DEF Publish, MGoto, eu, worker, app
<1>1. Types /\ CountersAt /\ EventAt
  BY DEF IInv
<1>2. InLoop' = InLoop /\ Asleep' = Asleep
  BY DEF InLoop, Asleep
<1>3. Settled' = Settled
  BY DEF Settled
<1>6. CountersAt'
  BY <1>1, <1>2, <1>3, WorkerCount, FS_EmptySet, NAssumption DEF Types, CountersAt, Round, EventAt, Settled
<1>7. EventAt'
  BY <1>1, NAssumption, MaxRegionsAssumption DEF Types, EventAt, Busy
<1>8. ASSUME NEW v \in Workers PROVE WorkerAt(v)'
  <2>1. WorkerAt(v)
    BY DEF IInv
  <2> QED
    BY <1>1, <1>3, <2>1 DEF Types, WorkerAt, EventAt, Busy, Round, Booting, Settled
<1>9. ASSUME NEW h \in Harts PROVE RanAt(h)'
  <2>1. RanAt(h) /\ (h # 0 => h \in Workers)
    BY DEF IInv, Harts, Workers
  <2> QED
    BY <1>1, <1>3, <2>1 DEF Types, RanAt, DoneIn, EventAt, Busy, Round
<1> QED
  BY <1>6, <1>7, <1>8, <1>9

\* The bootstrap ends when all workers sleep for the first time.
LEMMA BootstrapStep ==
    ASSUME IInv, Bootstrap
    PROVE  /\ CountersAt' /\ EventAt'
           /\ \A v \in Workers : WorkerAt(v)'
           /\ \A h \in Harts : RanAt(h)'
<1> USE DEF Bootstrap, MGoto, eu, worker, app
<1>1. Types /\ CountersAt /\ EventAt
  BY DEF IInv
<1>2. InLoop' = InLoop /\ Asleep' = Asleep
  BY DEF InLoop, Asleep
<1>3. Settled' = Settled
  BY DEF Settled
<1>4. \A v \in Workers : v \in Settled
  <2>1. Asleep = Workers
    BY <1>1, WorkerCount DEF CountersAt, Asleep
  <2> QED
    BY <1>1, <2>1 DEF IInv, WorkerAt, Asleep, Settled, Types, Round
<1>6. CountersAt'
  BY <1>1, <1>2, <1>3, <1>4, WorkerCount, FS_EmptySet, NAssumption DEF Types, CountersAt, Round, EventAt, Settled
<1>7. EventAt'
  BY <1>1, NAssumption, MaxRegionsAssumption DEF Types, EventAt, Busy
<1>8. ASSUME NEW v \in Workers PROVE WorkerAt(v)'
  <2>1. WorkerAt(v)
    BY DEF IInv
  <2> QED
    BY <1>1, <1>3, <1>4, <2>1 DEF Types, WorkerAt, EventAt, Busy, Round, Booting, Settled
<1>9. ASSUME NEW h \in Harts PROVE RanAt(h)'
  <2>1. RanAt(h) /\ (h # 0 => h \in Workers)
    BY DEF IInv, Harts, Workers
  <2> QED
    BY <1>1, <1>3, <1>4, <2>1 DEF Types, RanAt, DoneIn, EventAt, Busy, Round
<1> QED
  BY <1>6, <1>7, <1>8, <1>9

\* The event struct is written while the workers sleep.
LEMMA PushFnStep ==
    ASSUME IInv, PushFn
    PROVE  /\ CountersAt' /\ EventAt'
           /\ \A v \in Workers : WorkerAt(v)'
           /\ \A h \in Harts : RanAt(h)'
<1> USE DEF PushFn, MGoto, eu, worker, app
<1>1. Types /\ CountersAt /\ EventAt
  BY DEF IInv
<1>2. InLoop' = InLoop /\ Asleep' = Asleep
  BY DEF InLoop, Asleep
<1>3. Settled' = Settled
  BY DEF Settled
<1>6. CountersAt'
  BY <1>1, <1>2, <1>3, WorkerCount, FS_EmptySet, NAssumption DEF Types, CountersAt, Round, EventAt, Settled
<1>7. EventAt'
  BY <1>1, NAssumption, MaxRegionsAssumption DEF Types, EventAt, Busy
<1>8. ASSUME NEW v \in Workers PROVE WorkerAt(v)'
  <2>1. WorkerAt(v)
    BY DEF IInv
  <2> QED
    BY <1>1, <1>3, <2>1 DEF Types, WorkerAt, EventAt, Busy, Round, Booting, Settled
<1>9. ASSUME NEW h \in Harts PROVE RanAt(h)'
  <2>1. RanAt(h) /\ (h # 0 => h \in Workers)
    BY DEF IInv, Harts, Workers
  <2> QED
    BY <1>1, <1>3, <2>1 DEF Types, RanAt, DoneIn, EventAt, Busy, Round
<1> QED
  BY <1>6, <1>7, <1>8, <1>9

\* The team is stored after the function.
LEMMA PushNStep ==
    ASSUME IInv, PushN
    PROVE  /\ CountersAt' /\ EventAt'
           /\ \A v \in Workers : WorkerAt(v)'
           /\ \A h \in Harts : RanAt(h)'
<1> USE DEF PushN, MGoto, eu, worker, app
<1>1. Types /\ CountersAt /\ EventAt
  BY DEF IInv
<1>2. InLoop' = InLoop /\ Asleep' = Asleep
  BY DEF InLoop, Asleep
<1>3. Settled' = Settled
  BY DEF Settled
<1>6. CountersAt'
  BY <1>1, <1>2, <1>3, WorkerCount, FS_EmptySet, NAssumption DEF Types, CountersAt, Round, EventAt, Settled
<1>7. EventAt'
  BY <1>1, NAssumption, MaxRegionsAssumption DEF Types, EventAt, Busy
<1>8. ASSUME NEW v \in Workers PROVE WorkerAt(v)'
  <2>1. WorkerAt(v)
    BY DEF IInv
  <2> QED
    BY <1>1, <1>3, <2>1 DEF Types, WorkerAt, EventAt, Busy, Round, Booting, Settled
<1>9. ASSUME NEW h \in Harts PROVE RanAt(h)'
  <2>1. RanAt(h) /\ (h # 0 => h \in Workers)
    BY DEF IInv, Harts, Workers
  <2> QED
    BY <1>1, <1>3, <2>1 DEF Types, RanAt, DoneIn, EventAt, Busy, Round
<1> QED
  BY <1>6, <1>7, <1>8, <1>9

\* A pushed task is there to run.
LEMMA RunHeadStep ==
    ASSUME IInv, RunHead
    PROVE  /\ CountersAt' /\ EventAt'
           /\ \A v \in Workers : WorkerAt(v)'
           /\ \A h \in Harts : RanAt(h)'
<1> USE DEF RunHead, MGoto, eu, worker, app
<1>1. Types /\ CountersAt /\ EventAt
  BY DEF IInv
<1>2. InLoop' = InLoop /\ Asleep' = Asleep
  BY DEF InLoop, Asleep
<1>3. Settled' = Settled
  BY DEF Settled
<1>6. CountersAt'
  BY <1>1, <1>2, <1>3, WorkerCount, FS_EmptySet, NAssumption DEF Types, CountersAt, Round, EventAt, Settled
<1>7. EventAt'
  BY <1>1, NAssumption, MaxRegionsAssumption DEF Types, EventAt, Busy
<1>8. ASSUME NEW v \in Workers PROVE WorkerAt(v)'
  <2>1. WorkerAt(v)
    BY DEF IInv
  <2> QED
    BY <1>1, <1>3, <2>1 DEF Types, WorkerAt, EventAt, Busy, Round, Booting, Settled
<1>9. ASSUME NEW h \in Harts PROVE RanAt(h)'
  <2>1. RanAt(h) /\ (h # 0 => h \in Workers)
    BY DEF IInv, Harts, Workers
  <2> QED
    BY <1>1, <1>3, <2>1 DEF Types, RanAt, DoneIn, EventAt, Busy, Round
<1> QED
  BY <1>6, <1>7, <1>8, <1>9

\* The count restarts while every worker has settled.
LEMMA RunClearStep ==
    ASSUME IInv, RunClear
    PROVE  /\ CountersAt' /\ EventAt'
           /\ \A v \in Workers : WorkerAt(v)'
           /\ \A h \in Harts : RanAt(h)'
<1> USE DEF RunClear, MGoto, eu, worker, app
<1>1. Types /\ CountersAt /\ EventAt
  BY DEF IInv
<1>2. InLoop' = InLoop /\ Asleep' = Asleep
  BY DEF InLoop, Asleep
<1>3. Settled' = Settled
  BY DEF Settled
<1>6. CountersAt'
  BY <1>1, <1>2, <1>3, WorkerCount, FS_EmptySet, NAssumption DEF Types, CountersAt, Round, EventAt, Settled
<1>7. EventAt'
  BY <1>1, NAssumption, MaxRegionsAssumption DEF Types, EventAt, Busy
<1>8. ASSUME NEW v \in Workers PROVE WorkerAt(v)'
  <2>1. WorkerAt(v)
    BY DEF IInv
  <2> QED
    BY <1>1, <1>3, <2>1 DEF Types, WorkerAt, EventAt, Busy, Round, Booting, Settled
<1>9. ASSUME NEW h \in Harts PROVE RanAt(h)'
  <2>1. RanAt(h) /\ (h # 0 => h \in Workers)
    BY DEF IInv, Harts, Workers
  <2> QED
    BY <1>1, <1>3, <2>1, NAssumption DEF Types, RanAt, DoneIn, EventAt, Busy, Round, Harts
<1> QED
  BY <1>6, <1>7, <1>8, <1>9

\* A round begins: no worker is settled any more.
LEMMA WakeStep ==
    ASSUME IInv, Wake
    PROVE  /\ CountersAt' /\ EventAt'
           /\ \A v \in Workers : WorkerAt(v)'
           /\ \A h \in Harts : RanAt(h)'
<1> USE DEF Wake, MGoto, eu, worker, app, WakeWorkers
<1>1. Types /\ CountersAt /\ EventAt
  BY DEF IInv
<1>2. InLoop' = InLoop /\ Asleep' = Asleep
  BY DEF InLoop, Asleep
<1>3. Settled' = {}
  BY DEF Settled
<1>4. \A v \in Workers : wpc[v] = "wfi" /\ ~mcip[v]
  BY AllAsleep, <1>1 DEF IInv, WorkerAt, Settled, Booting, Round
<1>5. fini_count = 0
  BY <1>1 DEF CountersAt
<1>6. CountersAt'
  BY <1>1, <1>2, <1>3, <1>4, <1>5, WorkerCount, FS_EmptySet, NAssumption DEF Types, CountersAt, Round, EventAt, Settled
<1>7. EventAt'
  BY <1>1, NAssumption, MaxRegionsAssumption DEF Types, EventAt, Busy
<1>8. ASSUME NEW v \in Workers PROVE WorkerAt(v)'
  <2>1. WorkerAt(v)
    BY DEF IInv
  <2> QED
    BY <1>1, <1>3, <1>4, <2>1 DEF Types, WorkerAt, EventAt, Busy, Round, Booting, Settled
<1>9. ASSUME NEW h \in Harts PROVE RanAt(h)'
  <2>1. RanAt(h) /\ (h # 0 => h \in Workers)
    BY DEF IInv, Harts, Workers
  <2> QED
    BY <1>1, <1>3, <1>4, <2>1 DEF Types, RanAt, DoneIn, EventAt, Busy, Round
<1> QED
  BY <1>6, <1>7, <1>8, <1>9

\* The master completes its own call.
LEMMA SelfStep ==
    ASSUME IInv, Self
    PROVE  /\ CountersAt' /\ EventAt'
           /\ \A v \in Workers : WorkerAt(v)'
           /\ \A h \in Harts : RanAt(h)'
<1> USE DEF Self, MGoto, eu, worker, app
<1>1. Types /\ CountersAt /\ EventAt
  BY DEF IInv
<1>2. InLoop' = InLoop /\ Asleep' = Asleep
  BY DEF InLoop, Asleep
<1>3. Settled' = Settled
  BY DEF Settled
<1>6. CountersAt'
  BY <1>1, <1>2, <1>3, WorkerCount, FS_EmptySet, NAssumption DEF Types, CountersAt, Round, EventAt, Settled
<1>7. EventAt'
  BY <1>1, NAssumption, MaxRegionsAssumption DEF Types, EventAt, Busy
<1>8. ASSUME NEW v \in Workers PROVE WorkerAt(v)'
  <2>1. WorkerAt(v)
    BY DEF IInv
  <2> QED
    BY <1>1, <1>3, <2>1 DEF Types, WorkerAt, EventAt, Busy, Round, Booting, Settled
<1>9. ASSUME NEW h \in Harts PROVE RanAt(h)'
  <2>1. RanAt(h) /\ (h # 0 => h \in Workers)
    BY DEF IInv, Harts, Workers
  <2> QED
    <3>1. region \in Regions /\ ran' = [ran EXCEPT ![0][region] = @ + 1] /\ 0 < size[region]
      BY <1>1 DEF EventAt, Busy, Count, Types
    <3>2. CASE h # 0
      <4>1. DoneIn(h)' <=> DoneIn(h)
        BY <1>1, <1>3, <3>2 DEF DoneIn, Round, Types
      <4> QED
        BY <1>1, <2>1, <3>1, <3>2, <4>1 DEF Types, RanAt
    <3>3. CASE h = 0
      <4>1. ~DoneIn(0) /\ DoneIn(0)'
        BY DEF DoneIn
      <4>2. ran[0] \in [Regions -> Nat] /\ ran'[0] = [ran[0] EXCEPT ![region] = @ + 1]
        BY <1>1, <3>1, <3>3 DEF Types
      <4> QED
        <5>1. ASSUME NEW k \in Regions
              PROVE  ran'[0][k] = IF k <= region /\ 0 < size[k] /\ (k = region => DoneIn(0)')
                                  THEN 1 ELSE 0
          <6>1. ran[0][k] = IF k <= region /\ 0 < size[k] /\ (k = region => DoneIn(0))
                            THEN 1 ELSE 0
            BY <2>1, <3>3 DEF RanAt
          <6>2. ran'[0][k] = IF k = region THEN ran[0][k] + 1 ELSE ran[0][k]
            BY <3>1, <4>2
          <6> QED
            BY <1>1, <3>1, <4>1, <6>1, <6>2 DEF Types, Regions
        <5> QED
          BY <3>3, <5>1 DEF RanAt
    <3> QED
      BY <3>2, <3>3
<1> QED
  BY <1>6, <1>7, <1>8, <1>9

\* All workers have settled, so the round is over.
LEMMA JoinStep ==
    ASSUME IInv, Join
    PROVE  /\ CountersAt' /\ EventAt'
           /\ \A v \in Workers : WorkerAt(v)'
           /\ \A h \in Harts : RanAt(h)'
<1> USE DEF Join, MGoto, eu, worker, app
<1>1. Types /\ CountersAt /\ EventAt
  BY DEF IInv
<1>2. InLoop' = InLoop /\ Asleep' = Asleep
  BY DEF InLoop, Asleep
<1>3. Settled' = Settled
  BY DEF Settled
<1>4. \A v \in Workers : v \in Settled
  <2>1. Cardinality(Settled) = N - 1
    BY <1>1, AllAsleep DEF CountersAt, Round, Booting, EventAt
  <2> QED
    BY <2>1, WorkerCount DEF Settled
<1>6. CountersAt'
  BY <1>1, <1>2, <1>3, <1>4, WorkerCount, FS_EmptySet, NAssumption DEF Types, CountersAt, Round, EventAt, Settled
<1>7. EventAt'
  BY <1>1, NAssumption, MaxRegionsAssumption DEF Types, EventAt, Busy
<1>8. ASSUME NEW v \in Workers PROVE WorkerAt(v)'
  <2>1. WorkerAt(v)
    BY DEF IInv
  <2> QED
    BY <1>1, <1>3, <1>4, <2>1 DEF Types, WorkerAt, EventAt, Busy, Round, Booting, Settled
<1>9. ASSUME NEW h \in Harts PROVE RanAt(h)'
  <2>1. RanAt(h) /\ (h # 0 => h \in Workers)
    BY DEF IInv, Harts, Workers
  <2> QED
    BY <1>1, <1>3, <1>4, <2>1 DEF Types, RanAt, DoneIn, EventAt, Busy, Round
<1> QED
  BY <1>6, <1>7, <1>8, <1>9

\* The region is joined.
LEMMA ResetNStep ==
    ASSUME IInv, ResetN
    PROVE  /\ CountersAt' /\ EventAt'
           /\ \A v \in Workers : WorkerAt(v)'
           /\ \A h \in Harts : RanAt(h)'
<1> USE DEF ResetN, MGoto, eu, worker, app
<1>1. Types /\ CountersAt /\ EventAt
  BY DEF IInv
<1>2. InLoop' = InLoop /\ Asleep' = Asleep
  BY DEF InLoop, Asleep
<1>3. Settled' = Settled
  BY DEF Settled
<1>6. CountersAt'
  BY <1>1, <1>2, <1>3, WorkerCount, FS_EmptySet, NAssumption DEF Types, CountersAt, Round, EventAt, Settled
<1>7. EventAt'
  BY <1>1, NAssumption, MaxRegionsAssumption DEF Types, EventAt, Busy
<1>8. ASSUME NEW v \in Workers PROVE WorkerAt(v)'
  <2>1. WorkerAt(v)
    BY DEF IInv
  <2> QED
    BY <1>1, <1>3, <2>1 DEF Types, WorkerAt, EventAt, Busy, Round, Booting, Settled
<1>9. ASSUME NEW h \in Harts PROVE RanAt(h)'
  <2>1. RanAt(h) /\ (h # 0 => h \in Workers)
    BY DEF IInv, Harts, Workers
  <2> QED
    BY <1>1, <1>3, <2>1 DEF Types, RanAt, DoneIn, EventAt, Busy, Round
<1> QED
  BY <1>6, <1>7, <1>8, <1>9

\* The application is done.
LEMMA CallExitStep ==
    ASSUME IInv, CallExit
    PROVE  /\ CountersAt' /\ EventAt'
           /\ \A v \in Workers : WorkerAt(v)'
           /\ \A h \in Harts : RanAt(h)'
<1> USE DEF CallExit, MGoto, eu, worker, app
<1>1. Types /\ CountersAt /\ EventAt
  BY DEF IInv
<1>2. InLoop' = InLoop /\ Asleep' = Asleep
  BY DEF InLoop, Asleep
<1>3. Settled' = Settled
  BY DEF Settled
<1>6. CountersAt'
  BY <1>1, <1>2, <1>3, WorkerCount, FS_EmptySet, NAssumption DEF Types, CountersAt, Round, EventAt, Settled
<1>7. EventAt'
  BY <1>1, NAssumption, MaxRegionsAssumption DEF Types, EventAt, Busy
<1>8. ASSUME NEW v \in Workers PROVE WorkerAt(v)'
  <2>1. WorkerAt(v)
    BY DEF IInv
  <2> QED
    BY <1>1, <1>3, <2>1 DEF Types, WorkerAt, EventAt, Busy, Round, Booting, Settled
<1>9. ASSUME NEW h \in Harts PROVE RanAt(h)'
  <2>1. RanAt(h) /\ (h # 0 => h \in Workers)
    BY DEF IInv, Harts, Workers
  <2> QED
    BY <1>1, <1>3, <2>1 DEF Types, RanAt, DoneIn, EventAt, Busy, Round
<1> QED
  BY <1>6, <1>7, <1>8, <1>9

\* The flag is set while every worker has settled.
LEMMA SetExitStep ==
    ASSUME IInv, SetExit
    PROVE  /\ CountersAt' /\ EventAt'
           /\ \A v \in Workers : WorkerAt(v)'
           /\ \A h \in Harts : RanAt(h)'
<1> USE DEF SetExit, MGoto, eu, worker, app
<1>1. Types /\ CountersAt /\ EventAt
  BY DEF IInv
<1>2. InLoop' = InLoop /\ Asleep' = Asleep
  BY DEF InLoop, Asleep
<1>3. Settled' = Settled
  BY DEF Settled
<1>6. CountersAt'
  BY <1>1, <1>2, <1>3, WorkerCount, FS_EmptySet, NAssumption DEF Types, CountersAt, Round, EventAt, Settled
<1>7. EventAt'
  BY <1>1, NAssumption, MaxRegionsAssumption DEF Types, EventAt, Busy
<1>8. ASSUME NEW v \in Workers PROVE WorkerAt(v)'
  <2>1. WorkerAt(v)
    BY DEF IInv
  <2> QED
    BY <1>1, <1>3, <2>1 DEF Types, WorkerAt, EventAt, Busy, Round, Booting, Settled
<1>9. ASSUME NEW h \in Harts PROVE RanAt(h)'
  <2>1. RanAt(h) /\ (h # 0 => h \in Workers)
    BY DEF IInv, Harts, Workers
  <2> QED
    BY <1>1, <1>3, <2>1 DEF Types, RanAt, DoneIn, EventAt, Busy, Round
<1> QED
  BY <1>6, <1>7, <1>8, <1>9

\* The last wake-up.
LEMMA ExitWakeStep ==
    ASSUME IInv, ExitWake
    PROVE  /\ CountersAt' /\ EventAt'
           /\ \A v \in Workers : WorkerAt(v)'
           /\ \A h \in Harts : RanAt(h)'
<1> USE DEF ExitWake, MGoto, eu, worker, app, WakeWorkers
<1>1. Types /\ CountersAt /\ EventAt
  BY DEF IInv
<1>2. InLoop' = InLoop /\ Asleep' = Asleep
  BY DEF InLoop, Asleep
<1>3. Settled' = {}
  BY DEF Settled
<1>4. \A v \in Workers : wpc[v] = "wfi" /\ ~mcip[v]
  BY AllAsleep, <1>1 DEF IInv, WorkerAt, Settled, Booting, Round
<1>6. CountersAt'
  BY <1>1, <1>2, <1>3, <1>4, WorkerCount, FS_EmptySet, NAssumption DEF Types, CountersAt, Round, EventAt, Settled
<1>7. EventAt'
  BY <1>1, NAssumption, MaxRegionsAssumption DEF Types, EventAt, Busy
<1>8. ASSUME NEW v \in Workers PROVE WorkerAt(v)'
  <2>1. WorkerAt(v)
    BY DEF IInv
  <2> QED
    BY <1>1, <1>3, <1>4, <2>1 DEF Types, WorkerAt, EventAt, Busy, Round, Booting, Settled
<1>9. ASSUME NEW h \in Harts PROVE RanAt(h)'
  <2>1. RanAt(h) /\ (h # 0 => h \in Workers)
    BY DEF IInv, Harts, Workers
  <2> QED
    BY <1>1, <1>3, <1>4, <2>1 DEF Types, RanAt, DoneIn, EventAt, Busy, Round
<1> QED
  BY <1>6, <1>7, <1>8, <1>9

\* The application calls eu_dispatch_push.
LEMMA PushStep ==
    ASSUME IInv, NEW n \in 1 .. N, Push(n)
    PROVE  /\ CountersAt' /\ EventAt'
           /\ \A v \in Workers : WorkerAt(v)'
           /\ \A h \in Harts : RanAt(h)'
<1> USE DEF Push, MGoto, eu, worker
<1>1. Types /\ CountersAt /\ EventAt
  BY DEF IInv
<1>2. InLoop' = InLoop /\ Asleep' = Asleep /\ Settled' = Settled
  BY DEF InLoop, Asleep, Settled
<1>3. CountersAt'
  BY <1>1, <1>2 DEF CountersAt, Round
<1>4. EventAt'
  BY <1>1, NAssumption, MaxRegionsAssumption DEF Types, EventAt, Busy, Regions
<1>5. ASSUME NEW v \in Workers PROVE WorkerAt(v)'
  <2>1. WorkerAt(v)
    BY DEF IInv
  <2> QED
    BY <1>1, <1>2, <2>1 DEF Types, WorkerAt, Round, Booting, Settled
<1>6. ASSUME NEW h \in Harts PROVE RanAt(h)'
  <2>1. RanAt(h)
    BY DEF IInv
  <2>2. ~DoneIn(h)' /\ DoneIn(h)
    BY DEF DoneIn, Round
  <2> QED
    BY <1>1, <2>1, <2>2 DEF Types, RanAt, Regions
<1> QED
  BY <1>3, <1>4, <1>5, <1>6

-----------------------------------------------------------------------------
\* The invariant is inductive.
LEMMA NextInd == ASSUME IInv, [Next]_vars PROVE IInv'
<1>1. Types'
  BY TypesStep
<1> SUFFICES /\ CountersAt' /\ EventAt'
             /\ \A v \in Workers : WorkerAt(v)'
             /\ \A h \in Harts : RanAt(h)'
  BY <1>1 DEF IInv
<1>2. CASE UNCHANGED vars
  BY <1>2 DEF vars, eu, worker, app, IInv, CountersAt, EventAt, WorkerAt, RanAt,
             DoneIn, Booting, Round, Busy, InLoop, Asleep, Settled
<1>3. ASSUME NEW w \in Workers, Worker(w)
      PROVE  /\ CountersAt' /\ EventAt'
             /\ \A v \in Workers : WorkerAt(v)'
             /\ \A h \in Harts : RanAt(h)'
  BY <1>3, AttachStep, EnterStep, CheckExitStep, CheckTeamStep, CallStep,
     ReturnStep, FiniStep, WfiEnterStep, WfiStep, ClrStep, WfiLeaveStep DEF Worker
<1>4. CASE InCall
  BY <1>4, MemsetStep, PublishStep, BootstrapStep, PushFnStep, PushNStep,
     RunHeadStep, RunClearStep, WakeStep, SelfStep, JoinStep, ResetNStep,
     SetExitStep, ExitWakeStep DEF InCall
<1>5. CASE AppCall
  BY <1>5, CallExitStep, PushStep DEF AppCall
<1> QED
  BY <1>2, <1>3, <1>4, <1>5 DEF Next

\* It holds in every reachable state.
LEMMA Invariance == Spec => []IInv
<1>1. Init => IInv
  BY InitInd
<1>2. IInv /\ [Next]_vars => IInv'
  BY NextInd
<1> QED
  BY <1>1, <1>2, PTL DEF Spec

\* Every counter and word of eu_t stays within its range: workers_wfi and
\* workers_in_loop never exceed the number of workers and never go below 0.
THEOREM EventUnitTypes == Spec => []TypeOK
<1>1. ASSUME IInv PROVE TypeOK
  <2>1. Types /\ CountersAt
    BY <1>1 DEF IInv
  <2>2. /\ InLoop \in SUBSET Workers /\ Asleep \in SUBSET Workers
        /\ Settled \in SUBSET Workers
    BY DEF InLoop, Asleep, Settled
  <2>3. workers_in_loop \in 0 .. N /\ workers_wfi \in 0 .. N /\ fini_count \in 0 .. N
    BY <2>1, <2>2, WorkerCount, NAssumption DEF CountersAt
  <2> QED
    BY <2>1, <2>3 DEF Types, TypeOK
<1> QED
  BY <1>1, Invariance, PTL

\* When eu_run_empty returns, each hart of the team has run the task once and
\* no other hart has, for every number of harts, regions and team sizes.
THEOREM RegionsRunOnce == Spec => []ExactlyOnce
<1>1. ASSUME IInv PROVE ExactlyOnce
  <2> SUFFICES ASSUME NEW k \in Regions, NEW h \in Harts
               PROVE  /\ ran[h][k] <= 1
                      /\ k <= joined => ran[h][k] = (IF h < size[k] THEN 1 ELSE 0)
    BY DEF ExactlyOnce
  <2>1. Types /\ EventAt /\ RanAt(h)
    BY <1>1 DEF IInv
  <2>2. CASE Busy
    BY <2>1, <2>2 DEF Types, EventAt, RanAt, Regions
  <2>3. CASE ~Busy
    <3>1. DoneIn(h)
      BY <2>3 DEF DoneIn, Busy, Round
    <3> QED
      BY <2>1, <2>3, <3>1 DEF Types, EventAt, RanAt, Regions
  <2> QED
    BY <2>2, <2>3
<1> QED
  BY <1>1, Invariance, PTL

\* No worker reads the event struct or runs a task outside the round of that
\* task, so the master never rewrites the struct under a reader.
THEOREM EventStable == Spec => []EventIsStable
<1>1. ASSUME IInv PROVE EventIsStable
  <2> SUFFICES ASSUME NEW w \in Workers
               PROVE  /\ wpc[w] = "call" => nthreads = size[region] /\ fn = region
                      /\ wpc[w] \in {"call", "running"} =>
                             mpc \in {"self", "join"} /\ joined < region
                      /\ wpc[w] = "running" => wfn[w] = region
    BY DEF EventIsStable
  <2>1. Types /\ EventAt /\ WorkerAt(w)
    BY <1>1 DEF IInv
  <2> QED
    BY <2>1 DEF Types, EventAt, WorkerAt, Busy, Booting, Round, Settled, Regions
<1> QED
  BY <1>1, Invariance, PTL

\* A worker wakes only for a wake-up of the current round.
THEOREM WakesAreMeant == Spec => []NoSpuriousWake
<1>1. ASSUME IInv PROVE NoSpuriousWake
  BY <1>1 DEF IInv, WorkerAt, Round, NoSpuriousWake
<1> QED
  BY <1>1, Invariance, PTL

\* Whenever the master spins, a worker is under way that it waits for, and at
\* the exit no worker stays asleep: there is no lost wake-up and no deadlock,
\* for every number of workers and regions.
THEOREM NoLostWakeup == Spec => []NobodyIsForgotten
<1>1. ASSUME IInv, Spins PROVE \E w \in Workers : GoesOn(w)
  <2> DEFINE Waited == IF mpc = "join" THEN Settled ELSE Asleep
  <2>1. Types /\ CountersAt /\ EventAt /\ \A w \in Workers : WorkerAt(w)
    BY <1>1 DEF IInv
  <2>2. mpc \in {"boot", "push", "wake", "exit", "exitwake", "join"}
    BY <1>1 DEF Spins
  <2>3. mpc # "boot" => workers_in_loop = N - 1
    BY <1>1, <2>2, AllAsleep DEF Booting
  <2>4. Cardinality(Waited) # N - 1
    BY <1>1, <2>1, <2>2, <2>3 DEF Spins, CountersAt, EventAt, Round, WorkersAsleep
  <2>5. PICK w \in Workers : w \notin Waited
    <3>1. Waited \in SUBSET Workers
      BY DEF Settled, Asleep
    <3>2. Waited # Workers
      BY <2>4, WorkerCount
    <3> QED
      BY <3>1, <3>2
  <2>6. WorkerAt(w)
    BY <2>1
  <2>7. eu_p_global
    BY <2>1, <2>2 DEF EventAt
  <2> QED
    BY <2>1, <2>2, <2>5, <2>6, <2>7
       DEF GoesOn, EventAt, WorkerAt, Settled, Asleep, Round, Booting
<1>2. ASSUME IInv, mpc = "done", NEW w \in Workers
      PROVE  wpc[w] = "returned" \/ GoesOn(w)
  BY <1>2 DEF IInv, WorkerAt, GoesOn
<1>3. IInv => NobodyIsForgotten
  BY <1>1, <1>2 DEF NobodyIsForgotten
<1> QED
  BY <1>3, Invariance, PTL

-----------------------------------------------------------------------------
(* Refinement: every step of the event unit is a step of fork-join or none. *)

fjvars == <<Forked, joined < Forked, Team, Finished>>

\* A step that moves the master neither into nor out of "push" and touches
\* neither the regions nor the calls completed changes nothing abstractly.
LEMMA Invisible ==
    ASSUME UNCHANGED <<app, ran>>, mpc = "push" <=> mpc' = "push"
    PROVE  UNCHANGED fjvars
BY DEF app, fjvars, Forked, Team, Finished

\* The initial states are initial states of fork-join.
LEMMA ForkJoinInit == Init => FJ!Init
BY DEF Init, FJ!Init, Forked, Team, Finished

\* Storing fn forks the region.
LEMMA PushFnForks == ASSUME IInv, PushFn PROVE FJ!Fork
<1> USE DEF PushFn, MGoto, app
<1>1. Types /\ EventAt /\ mpc = "push" /\ mpc' = "pushn"
  BY DEF IInv
<1>2. /\ region \in Regions /\ joined = region - 1
      /\ Forked = region - 1 /\ Forked' = region
  BY <1>1 DEF EventAt, Busy, Forked
<1>3. (joined < Forked) = FALSE /\ (joined < Forked)' = TRUE /\ Forked' = Forked + 1
  BY <1>1, <1>2 DEF Types, Regions
<1>4. Team' \in SUBSET Harts
  BY DEF Team, Harts
<1>5. Finished' = {}
  <2>1. \A h \in Harts : ran[h][region] = 0
    BY <1>1, <1>2 DEF IInv, RanAt, DoneIn
  <2> QED
    BY <1>2, <2>1 DEF Finished, Harts
<1> QED
  BY <1>3, <1>4, <1>5 DEF FJ!Fork

\* A hart that completes its call of the task does its share of the region.
LEMMA CountWorks ==
    ASSUME IInv, NEW h \in Harts, h < size[region], ran[h][region] = 0,
           Busy, mpc # "push", mpc' # "push", UNCHANGED app,
           ran' = [ran EXCEPT ![h][region] = @ + 1]
    PROVE  FJ!Work(h)
<1> USE DEF app
<1>1. Types /\ EventAt
  BY DEF IInv
<1>2. /\ region \in Regions /\ joined = region - 1
      /\ Forked = region /\ Forked' = region /\ region # 0
  BY <1>1 DEF EventAt, Forked, Regions
<1>3. (joined < Forked) /\ (joined < Forked)' = (joined < Forked)
  BY <1>1, <1>2 DEF Types, Regions
<1>4. Team = {k \in Harts : k < size[region]} /\ Team' = Team
  BY <1>2 DEF Team, Harts
<1>5. Finished = {k \in Harts : ran[k][region] > 0}
  BY <1>2 DEF Finished
<1>6. Finished' = {k \in Harts : ran'[k][region] > 0}
  BY <1>2 DEF Finished, Harts
<1>7. \A k \in Harts : ran'[k][region] = IF k = h THEN 1 ELSE ran[k][region]
  BY <1>1, <1>2 DEF Types
<1>8. Finished' = Finished \cup {h} /\ h \in Team \ Finished
  BY <1>4, <1>5, <1>6, <1>7
<1> QED
  BY <1>2, <1>3, <1>4, <1>8 DEF FJ!Work

\* A worker's return from the task.
LEMMA ReturnWorks == ASSUME IInv, NEW w \in Workers, Return(w) PROVE FJ!Work(w)
<1> USE DEF Return, WGoto, app
<1>1. Types /\ EventAt /\ WorkerAt(w) /\ wpc[w] = "running"
  BY DEF IInv
<1>2. w \in Harts /\ w # 0
  BY NAssumption DEF Workers, Harts
<1>3. /\ wfn[w] = region /\ w < size[region] /\ Round
      /\ region \in Regions /\ Busy /\ mpc # "push"
  BY <1>1, NAssumption DEF Types, WorkerAt, EventAt, Settled, Booting, Workers, Busy
<1>4. ran[w][region] = 0
  BY <1>1, <1>2, <1>3 DEF IInv, RanAt, DoneIn, Settled
<1>5. ran' = [ran EXCEPT ![w][region] = @ + 1]
  BY <1>3 DEF Count
<1> QED
  BY <1>2, <1>3, <1>4, <1>5, CountWorks

\* The master's own call of the task.
LEMMA SelfWorks == ASSUME IInv, Self PROVE FJ!Work(0)
<1> USE DEF Self, MGoto, app
<1>1. Types /\ EventAt /\ mpc = "self" /\ 0 \in Harts
  BY NAssumption DEF IInv, Harts
<1>2. /\ 0 < size[region] /\ region \in Regions /\ Busy /\ fn = region
      /\ mpc # "push" /\ mpc' # "push"
  BY <1>1 DEF Types, EventAt, Busy
<1>3. ran[0][region] = 0
  BY <1>1, <1>2 DEF IInv, RanAt, DoneIn
<1>4. ran' = [ran EXCEPT ![0][region] = @ + 1]
  BY <1>2 DEF Count
<1> QED
  BY <1>1, <1>2, <1>3, <1>4, CountWorks

\* The end of eu_run_empty joins the region.
LEMMA ResetNJoins == ASSUME IInv, ResetN PROVE FJ!Join
<1> USE DEF ResetN, MGoto
<1>1. Types /\ EventAt /\ mpc = "reset" /\ mpc' = "ready"
  BY DEF IInv
<1>2. /\ region \in Regions /\ joined = region - 1 /\ region # 0
      /\ Forked = region /\ Forked' = region
  BY <1>1 DEF EventAt, Busy, Forked, Regions
<1>3. (joined < Forked) /\ (joined < Forked)' = FALSE
  BY <1>1, <1>2 DEF Types, Regions
<1>4. UNCHANGED <<Team, Finished>>
  BY <1>2 DEF Team, Finished, Harts
<1>5. Finished = Team
  <2>1. \A h \in Harts : ran[h][region] = IF h < size[region] THEN 1 ELSE 0
    BY <1>1, <1>2 DEF IInv, Types, RanAt, DoneIn, Round, Regions
  <2> QED
    BY <1>2, <2>1 DEF Finished, Team
<1> QED
  BY <1>2, <1>3, <1>4, <1>5 DEF FJ!Join

\* The application's call of eu_dispatch_push is not yet visible.
LEMMA PushInvisible ==
    ASSUME IInv, NEW n \in 1 .. N, Push(n) PROVE UNCHANGED fjvars
<1> USE DEF Push, MGoto
<1>1. Types /\ mpc = "ready" /\ mpc' = "push"
  BY DEF IInv
<1>2. Forked = region /\ Forked' = region
  BY <1>1 DEF Forked, Types
<1>3. region # 0 => size'[region] = size[region]
  BY <1>1, MaxRegionsAssumption DEF Types, Regions
<1>4. Team' = Team /\ Finished' = Finished
  BY <1>2, <1>3 DEF Team, Finished, Harts
<1> QED
  BY <1>2, <1>4 DEF fjvars

\* Every step is a step of fork-join or leaves its variables alone.
LEMMA StepRefines == ASSUME IInv, [Next]_vars PROVE [FJ!Next]_fjvars
<1>1. CASE UNCHANGED vars
  BY <1>1, Invisible DEF vars
<1>2. ASSUME NEW w \in Workers, Worker(w) PROVE [FJ!Next]_fjvars
  <2>1. CASE Return(w)
    <3>1. w \in Harts
      BY NAssumption DEF Harts, Workers
    <3> QED
      BY <2>1, <3>1, ReturnWorks DEF FJ!Next
  <2>2. CASE ~Return(w)
    <3>1. UNCHANGED <<app, ran, mpc>>
      BY <1>2, <2>2 DEF Worker, Attach, Enter, CheckExit, CheckTeam, Call, Fini,
                       WfiEnter, Wfi, Clr, WfiLeave
    <3> QED
      BY <3>1, Invisible
  <2> QED
    BY <2>1, <2>2
<1>3. CASE PushFn
  BY <1>3, PushFnForks DEF FJ!Next
<1>4. CASE Self
  BY <1>4, SelfWorks, NAssumption DEF FJ!Next, Harts
<1>5. CASE ResetN
  BY <1>5, ResetNJoins DEF FJ!Next
<1>6. ASSUME NEW n \in 1 .. N, Push(n) PROVE [FJ!Next]_fjvars
  BY <1>6, PushInvisible
<1>7. CASE \/ Memset \/ Publish \/ Bootstrap \/ PushN \/ RunHead \/ RunClear
           \/ Wake \/ Join \/ SetExit \/ ExitWake \/ CallExit
  <2>1. UNCHANGED <<app, ran>> /\ mpc # "push" /\ mpc' # "push"
    BY <1>7 DEF Memset, Publish, Bootstrap, PushN, RunHead, RunClear, Wake, Join,
               SetExit, ExitWake, CallExit, MGoto
  <2> QED
    BY <2>1, Invisible
<1> QED
  BY <1>1, <1>2, <1>3, <1>4, <1>5, <1>6, <1>7 DEF Next, InCall, AppCall

\* The event unit implements the safety part of fork-join, for every number of
\* harts and regions.
THEOREM ForkJoinSafety ==
    Spec => FJ!Init /\ [][FJ!Next]_fjvars
<1>1. IInv /\ [Next]_vars => [FJ!Next]_fjvars
  BY StepRefines
<1> QED
  BY <1>1, ForkJoinInit, Invariance, PTL DEF Spec

----------------------------------------------------------------------------
(***************************************************************************)
(* Statically scheduled loops: every iteration is executed exactly once,   *)
(* for every number of harts and regions, every team, every length of the  *)
(* loop and every chunk size, with and without one.                        *)
(*                                                                         *)
(* RegionsRunOnce says who carries out a region; what remains is           *)
(* arithmetic.  Without a chunk size the bounds of consecutive harts meet: *)
(* a hart's upper bound is one below the next one's lower bound (First).   *)
(* With a chunk size the iteration i is in chunk i \div chunk, which is    *)
(* dealt to hart (i \div chunk) % n.  The flag of the last iteration goes  *)
(* to the hart that the last iteration belongs to.                         *)
(***************************************************************************)

----------------------------------------------------------------------------
(* Division. *)

LEMMA Quotient ==
    ASSUME NEW a \in Nat, NEW b \in Nat \ {0}
    PROVE  /\ a \div b \in Nat /\ (a % b) \in 0 .. (b - 1)
           /\ a = b * (a \div b) + (a % b)
OBVIOUS

\* A number below the divisor is the remainder.
LEMMA UniqueQuotient ==
    ASSUME NEW b \in Nat \ {0}, NEW p \in Int, NEW q \in Int,
           NEW r \in 0 .. (b - 1), NEW t \in 0 .. (b - 1), b * p + r = b * q + t
    PROVE  p = q /\ r = t
<1>1. b * (p - q) = t - r
  OBVIOUS
<1>2. \A x \in Int : x >= 1 => b * x >= b
  OBVIOUS
<1>3. \A x \in Int : x <= -1 => b * x <= -b
  OBVIOUS
<1>4. p - q \in Int /\ ~(p - q >= 1) /\ ~(p - q <= -1)
  BY <1>1, <1>2, <1>3
<1>5. p = q
  BY <1>4
<1> QED
  BY <1>5

\* The remainder of C is 0 for the multiples, negative ones too.
LEMMA Multiple ==
    ASSUME NEW a \in Int, NEW b \in Nat \ {0}
    PROVE  CMod(a, b) = 0 <=> \E x \in Int : a = b * x
<1>1. ASSUME NEW c \in Nat PROVE (c % b) = 0 <=> \E x \in Int : c = b * x
  <2>1. /\ c \div b \in Nat /\ (c % b) \in 0 .. (b - 1)
        /\ c = b * (c \div b) + (c % b)
    BY <1>1, Quotient
  <2>2. ASSUME NEW x \in Int, c = b * x PROVE (c % b) = 0
    <3> DEFINE q == c \div b
               t == c % b
    <3>1. /\ q \in Int /\ t \in 0 .. (b - 1) /\ 0 \in 0 .. (b - 1)
          /\ b * x + 0 = b * q + t
      BY <2>1, <2>2
    <3> HIDE DEF q, t
    <3>2. 0 = t
      BY <3>1, UniqueQuotient
    <3> QED
      BY <3>2 DEF t
  <2>3. ASSUME (c % b) = 0 PROVE \E x \in Int : c = b * x
    BY <2>1, <2>3
  <2> QED
    BY <2>2, <2>3
<1>2. CASE a >= 0
  <2>1. a \in Nat /\ CMod(a, b) = (a % b)
    BY <1>2 DEF CMod
  <2> QED
    BY <1>1, <2>1
<1>3. CASE a < 0
  <2>1. -a \in Nat
    BY <1>3
  <2>2. CMod(a, b) = -((-a) % b) /\ ((-a) % b) \in Int
    BY <1>3, <2>1, Quotient DEF CMod
  <2>3. ((-a) % b) = 0 <=> \E x \in Int : -a = b * x
    BY <1>1, <2>1
  <2>4. ASSUME NEW x \in Int, -a = b * x PROVE \E y \in Int : a = b * y
    <3>1. -x \in Int /\ a = b * (-x)
      BY <2>4
    <3> QED
      BY <3>1
  <2>5. ASSUME NEW y \in Int, a = b * y PROVE \E x \in Int : -a = b * x
    <3>1. -y \in Int /\ -a = b * (-y)
      BY <2>5
    <3> QED
      BY <3>1
  <2>6. CMod(a, b) = 0 <=> ((-a) % b) = 0
    BY <2>2
  <2> QED
    BY <2>3, <2>4, <2>5, <2>6
<1> QED
  BY <1>2, <1>3

----------------------------------------------------------------------------
(* No chunk size. *)

\* The first iteration of hart h; the extra iterations go to the first harts.
Least(a, b) == IF a < b THEN a ELSE b
Extra(u, n) == (u + 1) - ((u + 1) \div n) * n
First(u, n, h) == h * ((u + 1) \div n) + Least(h, Extra(u, n))

LEMMA Parts ==
    ASSUME NEW u \in Nat, NEW n \in Nat \ {0}
    PROVE  /\ (u + 1) \div n \in Nat /\ Extra(u, n) \in 0 .. (n - 1)
           /\ u + 1 = n * ((u + 1) \div n) + Extra(u, n)
<1> DEFINE a == u + 1
           q == a \div n
           r == a % n
<1>1. a \in Nat
  OBVIOUS
<1> HIDE DEF a
<1>2. q \in Nat /\ r \in 0 .. (n - 1) /\ a = n * q + r
  BY <1>1, Quotient
<1> HIDE DEF q, r
<1>3. a - q * n = r
  BY <1>1, <1>2
<1> QED
  BY <1>2, <1>3 DEF Extra, a, q

\* A hart's bounds are its first iteration and the one before the next hart's.
LEMMA StaticBounds ==
    ASSUME NEW u \in Nat, NEW n \in Nat \ {0}, NEW h \in Nat, h < n
    PROVE  /\ Static(u, 1, n, h).lower = First(u, n, h)
           /\ Static(u, 1, n, h).upper = First(u, n, h + 1) - 1
           /\ Static(u, 1, n, h).last <=>
                  First(u, n, h + 1) = u + 1 /\ First(u, n, h) <= u
           /\ Static(u, 1, n, h).stride \in Int
<1> DEFINE q == (u + 1) \div n
           e == Extra(u, n)
<1>1. q \in Nat /\ e \in 0 .. (n - 1) /\ u \div 1 = u
  BY Parts
<1> DEFINE mine == IF h < e THEN q + 1 ELSE q
           low == h * mine * 1 + IF h < e THEN 0 ELSE e
<1>2. Static(u, 1, n, h) =
        [lower |-> low, upper |-> low + mine * 1 - 1, stride |-> u + 1,
         last |-> low + mine * 1 - 1 = u /\ low <= u]
  BY <1>1 DEF Static, Extra
<1>3. First(u, n, h) = h * q + Least(h, e) /\ First(u, n, h + 1) = (h + 1) * q + Least(h + 1, e)
  BY DEF First
<1> HIDE DEF q, e
<1>4. low = First(u, n, h) /\ low + mine * 1 = First(u, n, h + 1) /\ low \in Int /\ mine \in Int
  <2>1. h * (q + 1) = h * q + h /\ (h + 1) * q = h * q + q /\ h * q \in Nat
    BY <1>1
  <2>2. CASE h < e
    BY <1>1, <1>3, <2>1, <2>2 DEF Least
  <2>3. CASE ~(h < e)
    BY <1>1, <1>3, <2>1, <2>3 DEF Least
  <2> QED
    BY <2>2, <2>3
<1> HIDE DEF low, mine
<1> DEFINE up == low + mine * 1 - 1
<1>5. up = First(u, n, h + 1) - 1 /\ (up = u <=> First(u, n, h + 1) = u + 1)
  BY <1>4
<1>6. Static(u, 1, n, h) = [lower |-> low, upper |-> up, stride |-> u + 1,
                            last |-> up = u /\ low <= u]
  BY <1>2
<1> HIDE DEF up
<1>7. Static(u, 1, n, h).last = (up = u /\ low <= u)
  BY <1>6
<1>8. /\ Static(u, 1, n, h).lower = low /\ Static(u, 1, n, h).upper = up
      /\ Static(u, 1, n, h).stride = u + 1
  BY <1>6
<1>9. Static(u, 1, n, h).last <=> First(u, n, h + 1) = u + 1 /\ First(u, n, h) <= u
  BY <1>4, <1>5, <1>7
<1> QED
  BY <1>4, <1>5, <1>8, <1>9

\* The harts share the iterations out among them.
LEMMA StaticFacts ==
    ASSUME NEW u \in Nat, NEW n \in Nat \ {0}
    PROVE  /\ First(u, n, 0) = 0 /\ First(u, n, n) = u + 1
           /\ \A h \in Nat : First(u, n, h) \in Nat
           /\ \A g, h \in Nat : g <= h => First(u, n, g) <= First(u, n, h)
<1> DEFINE q == (u + 1) \div n
           e == Extra(u, n)
<1>1. q \in Nat /\ e \in 0 .. (n - 1) /\ u + 1 = n * q + e
  BY Parts
<1>2. \A h \in Nat : First(u, n, h) = h * q + Least(h, e)
  BY DEF First
<1> HIDE DEF q, e
<1>3. First(u, n, 0) = 0 /\ First(u, n, n) = u + 1
  <2>1. 0 * q = 0 /\ Least(0, e) = 0 /\ Least(n, e) = e
    BY <1>1 DEF Least
  <2> QED
    BY <1>1, <1>2, <2>1
<1>4. \A h \in Nat : h * q \in Nat /\ Least(h, e) \in Nat
  BY <1>1 DEF Least
<1>5. ASSUME NEW g \in Nat, NEW h \in Nat, g <= h
      PROVE  First(u, n, g) <= First(u, n, h)
  <2>1. h * q = g * q + (h - g) * q /\ (h - g) * q \in Nat
    BY <1>1, <1>5
  <2>2. Least(g, e) <= Least(h, e)
    BY <1>1, <1>5 DEF Least
  <2>3. g * q \in Nat /\ Least(g, e) \in Nat /\ Least(h, e) \in Nat
    BY <1>4
  <2> QED
    BY <1>2, <2>1, <2>2, <2>3
<1> QED
  BY <1>2, <1>3, <1>4, <1>5

\* Every iteration belongs to some hart.
LEMMA StaticOwner ==
    ASSUME NEW u \in Nat, NEW n \in Nat \ {0}, NEW i \in 0 .. u
    PROVE  \E h \in 0 .. (n - 1) : First(u, n, h) <= i /\ i < First(u, n, h + 1)
<1> DEFINE q == (u + 1) \div n
           e == Extra(u, n)
<1>1. q \in Nat /\ e \in 0 .. (n - 1) /\ u + 1 = n * q + e
  BY Parts
<1>2. \A h \in Nat : First(u, n, h) = h * q + Least(h, e)
  BY DEF First
<1> HIDE DEF q, e
<1>3. CASE i < e * (q + 1)
  <2> DEFINE b == q + 1
             h == i \div b
             r == i % b
  <2>1. b \in Nat \ {0} /\ h \in Nat /\ r \in 0 .. (b - 1) /\ i = b * h + r
    <3>1. b \in Nat \ {0} /\ i \in Nat
      BY <1>1
    <3> HIDE DEF b
    <3> QED
      BY <3>1, Quotient
  <2> HIDE DEF h, r
  <2>2. h < e
    <3>1. SUFFICES ASSUME h >= e PROVE FALSE
      BY <1>1, <2>1
    <3>2. b * (h - e) >= 0
      BY <1>1, <2>1, <3>1
    <3>3. b * h = b * (h - e) + e * b
      BY <1>1, <2>1
    <3> QED
      BY <1>1, <1>3, <2>1, <3>2, <3>3
  <2>3. First(u, n, h) = h * q + h /\ First(u, n, h + 1) = (h + 1) * q + (h + 1)
    <3>1. h \in Nat /\ h + 1 \in Nat /\ Least(h, e) = h /\ Least(h + 1, e) = h + 1
      BY <1>1, <2>1, <2>2 DEF Least
    <3> QED
      BY <1>2, <3>1
  <2>4. h * q + h = b * h /\ (h + 1) * q + (h + 1) = b * h + b
    BY <1>1, <2>1
  <2> QED
    BY <1>1, <2>1, <2>2, <2>3, <2>4
<1>4. CASE ~(i < e * (q + 1))
  <2> DEFINE j == i - e * (q + 1)
             d == j \div q
             r == j % q
  <2>1. j \in Nat /\ j < (n - e) * q /\ e * (q + 1) = e * q + e
    <3>1. e * (q + 1) = e * q + e /\ (n - e) * q = n * q - e * q /\ e * q \in Nat
      BY <1>1
    <3> QED
      BY <1>1, <1>4, <3>1
  <2>2. q \in Nat \ {0}
    BY <1>1, <2>1
  <2>3. d \in Nat /\ r \in 0 .. (q - 1) /\ j = q * d + r
    BY <2>1, <2>2, Quotient
  <2>4. j = i - (e * q + e)
    BY <2>1
  <2> HIDE DEF j, d, r
  <2>5. d < n - e
    <3>1. SUFFICES ASSUME d >= n - e PROVE FALSE
      BY <1>1, <2>3
    <3>2. q * (d - (n - e)) >= 0
      BY <1>1, <2>2, <2>3, <3>1
    <3>3. q * d = q * (d - (n - e)) + (n - e) * q
      BY <1>1, <2>3
    <3> QED
      BY <1>1, <2>1, <2>3, <3>2, <3>3
  <2> DEFINE h == e + d
  <2>6. h \in 0 .. (n - 1) /\ Least(h, e) = e /\ Least(h + 1, e) = e
    BY <1>1, <2>3, <2>5 DEF Least
  <2>7. h * q = e * q + q * d /\ (h + 1) * q = e * q + q * d + q /\ e * q \in Nat /\ q * d \in Nat
    BY <1>1, <2>3
  <2> HIDE DEF h
  <2>8. First(u, n, h) = h * q + e /\ First(u, n, h + 1) = (h + 1) * q + e
    BY <1>2, <2>6
  <2> QED
    BY <1>1, <2>3, <2>4, <2>6, <2>7, <2>8
<1> QED
  BY <1>3, <1>4

----------------------------------------------------------------------------
(* With a chunk size. *)

\* The iterations before chunk c of k iterations each; hart h of n has every
\* n-th chunk from its own on.
Start(k, c) == k * c
Dealt(c, n, h) == \E x \in Int : c - h = n * x

LEMMA ChunkedBounds ==
    ASSUME NEW u \in Nat, NEW k \in Nat \ {0}, NEW n \in Nat \ {0}, NEW h \in Nat
    PROVE  /\ StaticChunked(u, 1, k, n, h).lower = Start(k, h)
           /\ StaticChunked(u, 1, k, n, h).upper = Start(k, h) + k - 1
           /\ StaticChunked(u, 1, k, n, h).stride = Start(k, n)
           /\ StaticChunked(u, 1, k, n, h).last <=> Dealt(u \div k, n, h)
<1> DEFINE b == StaticChunked(u, 1, k, n, h)
           q == u \div k
           begin == u - CMod(u, 1 * k)
<1>1. q \in Nat /\ begin = k * q /\ 1 * k = k
  <2> DEFINE r == u % k
  <2>1. 1 * k = k /\ CMod(u, 1 * k) = r
    BY DEF CMod
  <2>2. q \in Nat /\ r \in 0 .. (k - 1) /\ u = k * q + r
    BY Quotient
  <2> HIDE DEF q, r
  <2> QED
    BY <2>1, <2>2
<1> HIDE DEF q
<1>2. /\ b.lower = k * h /\ b.upper = k * h + k - 1 /\ b.stride = k * n
      /\ b.last = (CMod(begin - k * h, k * n) = 0)
  BY <1>1 DEF StaticChunked
<1> HIDE DEF b, begin
<1>3. begin - k * h = k * (q - h) /\ k * n \in Nat \ {0} /\ k * (q - h) \in Int
  BY <1>1
<1>4. CMod(k * (q - h), k * n) = 0 <=> \E x \in Int : k * (q - h) = (k * n) * x
  BY <1>3, Multiple
<1>5. ASSUME NEW x \in Int PROVE k * (q - h) = (k * n) * x <=> q - h = n * x
  <2> DEFINE y == n * x
             z == q - h
  <2>1. y \in Int /\ z \in Int /\ (k * n) * x = k * y
    BY <1>1
  <2> HIDE DEF y, z
  <2>2. k * z = k * y <=> z = y
    BY <2>1, UniqueQuotient
  <2> QED
    BY <2>1, <2>2 DEF y, z
<1>6. b.last <=> \E x \in Int : q - h = n * x
  BY <1>2, <1>3, <1>4, <1>5
<1> QED
  BY <1>2, <1>6 DEF b, q, Start, Dealt

----------------------------------------------------------------------------
(* Who executes what. *)

LEMMA StaticRuns ==
    ASSUME NEW loop \in Loops, loop.upper \in Nat, loop.chunk = 0,
           NEW n \in Nat \ {0}, NEW h \in 0 .. (n - 1), NEW i \in 0 .. loop.upper
    PROVE  /\ i \in Iterations(loop, n, h) <=>
                  First(loop.upper, n, h) <= i /\ i < First(loop.upper, n, h + 1)
           /\ Bounds(loop, n, h).last <=> loop.upper \in Iterations(loop, n, h)
<1> DEFINE u == loop.upper
           b == Bounds(loop, n, h)
           f == First(u, n, h)
           g == First(u, n, h + 1)
<1>1. h \in Nat /\ h < n /\ h + 1 \in Nat /\ h + 1 <= n
  OBVIOUS
<1>2. b = Static(u, 1, n, h)
  BY DEF Bounds
<1>3. /\ b.lower = f /\ b.upper = g - 1 /\ b.stride \in Int
      /\ b.last <=> g = u + 1 /\ f <= u
  BY <1>1, <1>2, StaticBounds
<1>4. f \in Nat /\ g \in Nat /\ g <= u + 1
  <2>1. /\ First(u, n, n) = u + 1
        /\ \A a \in Nat : First(u, n, a) \in Nat
        /\ \A a, c \in Nat : a <= c => First(u, n, a) <= First(u, n, c)
    BY StaticFacts
  <2> QED
    BY <1>1, <2>1
<1>5. Iterations(loop, n, h) = {j \in 0 .. u : \E r \in {0} :
            b.lower + r * b.stride <= j /\ j <= b.upper + r * b.stride}
  BY DEF Iterations
<1> HIDE DEF b, f, g
<1>6. \A j \in 0 .. u : j \in Iterations(loop, n, h) <=> f <= j /\ j < g
  <2>1. 0 * b.stride = 0
    BY <1>3
  <2> QED
    BY <1>3, <1>4, <1>5, <2>1
<1>7. u \in 0 .. u /\ (u < g <=> g = u + 1)
  BY <1>4
<1>8. b.last <=> u \in Iterations(loop, n, h)
  BY <1>3, <1>6, <1>7
<1> QED
  BY <1>6, <1>8 DEF b, f, g

LEMMA ChunkedRuns ==
    ASSUME NEW loop \in Loops, loop.upper \in Nat, loop.chunk \in Nat \ {0},
           NEW n \in Nat \ {0}, NEW h \in 0 .. (n - 1), NEW i \in 0 .. loop.upper
    PROVE  i \in Iterations(loop, n, h) <=>
               \E x \in Int : (i \div loop.chunk) - h = n * x
<1> DEFINE u == loop.upper
           k == loop.chunk
           b == Bounds(loop, n, h)
           q == i \div k
           t == i % k
<1>1. b.lower = k * h /\ b.upper = k * h + k - 1 /\ b.stride = k * n
  <2>1. b = StaticChunked(u, 1, k, n, h)
    BY DEF Bounds
  <2>2. ASSUME NEW v \in Nat, NEW c \in Nat \ {0}
        PROVE  /\ StaticChunked(v, 1, c, n, h).lower = Start(c, h)
               /\ StaticChunked(v, 1, c, n, h).upper = Start(c, h) + c - 1
               /\ StaticChunked(v, 1, c, n, h).stride = Start(c, n)
    <3>1. h \in Nat
      OBVIOUS
    <3> QED
      BY <3>1, ChunkedBounds
  <2>3. b.lower = Start(k, h) /\ b.upper = Start(k, h) + k - 1 /\ b.stride = Start(k, n)
    BY <2>1, <2>2
  <2> QED
    BY <2>3 DEF Start
<1>2. i \in Iterations(loop, n, h) <=> \E r \in 0 .. u :
            b.lower + r * b.stride <= i /\ i <= b.upper + r * b.stride
  BY DEF Iterations
<1>3. q \in Nat /\ t \in 0 .. (k - 1) /\ i = k * q + t
  <2>1. i \in Nat /\ k \in Nat \ {0}
    OBVIOUS
  <2> HIDE DEF k
  <2> QED
    BY <2>1, Quotient
<1>0. k \in Nat \ {0} /\ u \in Nat /\ i \in 0 .. u /\ h \in Nat /\ h < n
  OBVIOUS
<1> HIDE DEF b, q, t, k, u
<1>4. ASSUME NEW r \in Int
      PROVE  k * h + r * (k * n) = k * (h + n * r) /\ h + n * r \in Int
  <2>1. k \in Int /\ h \in Int /\ n \in Int
    BY <1>0
  <2> QED
    BY <2>1
<1>5. ASSUME NEW r \in 0 .. u, b.lower + r * b.stride <= i, i <= b.upper + r * b.stride
      PROVE  q - h = n * r
  <2> DEFINE p == h + n * r
             s == i - k * p
  <2>1. p \in Int /\ k * p \in Int
    BY <1>0
  <2>2. k * p <= i /\ i <= k * p + k - 1
    BY <1>0, <1>1, <1>4, <1>5
  <2> HIDE DEF p
  <2>3. s \in 0 .. (k - 1) /\ i = k * p + s
    BY <1>0, <2>1, <2>2
  <2> HIDE DEF s
  <2>4. p = q
    BY <1>0, <1>3, <2>1, <2>3, UniqueQuotient
  <2> QED
    BY <1>0, <1>3, <2>4 DEF p
<1>6. ASSUME NEW x \in Int, q - h = n * x
      PROVE  /\ x \in 0 .. u
             /\ b.lower + x * b.stride <= i /\ i <= b.upper + x * b.stride
  <2>1. x >= 0
    <3>1. SUFFICES ASSUME x <= -1 PROVE FALSE
      OBVIOUS
    <3>2. n * x <= -n
      BY <3>1
    <3> QED
      BY <1>0, <1>3, <1>6, <3>2
  <2>2. x <= n * x
    BY <1>0, <2>1
  <2>3. q <= k * q
    BY <1>0, <1>3
  <2>4. x <= u
    BY <1>0, <1>3, <1>6, <2>2, <2>3
  <2>5. b.lower + x * b.stride = k * q /\ b.upper + x * b.stride = k * q + k - 1
    <3>1. q = h + n * x /\ k * h \in Int /\ x * (k * n) \in Int
      BY <1>0, <1>3, <1>6
    <3>2. k * h + x * (k * n) = k * q
      BY <1>4, <3>1
    <3> QED
      BY <1>0, <1>1, <3>1, <3>2
  <2> QED
    BY <1>0, <1>3, <2>1, <2>4, <2>5
<1>7. \A x \in 0 .. u : x \in Int
  BY <1>0
<1> QED
  BY <1>2, <1>5, <1>6, <1>7 DEF q, k

\* Every iteration has one owner in the team, and the hart with the flag is
\* the owner of the last one.
LEMMA OneOwner ==
    ASSUME NEW loop \in Loops, NEW n \in Nat \ {0}, NEW i \in 0 .. loop.upper
    PROVE  /\ \E o \in 0 .. (n - 1) : \A h \in 0 .. (n - 1) :
                  i \in Iterations(loop, n, h) <=> h = o
           /\ \A h \in 0 .. (n - 1) :
                  Bounds(loop, n, h).last <=> loop.upper \in Iterations(loop, n, h)
<1> DEFINE u == loop.upper
<1>1. u \in Nat /\ loop.chunk \in Nat
  BY DEF Loops
<1>2. CASE loop.chunk = 0
  <2>1. \A h \in 0 .. (n - 1) :
          i \in Iterations(loop, n, h) <=> First(u, n, h) <= i /\ i < First(u, n, h + 1)
    BY <1>1, <1>2, StaticRuns
  <2>2. PICK o \in 0 .. (n - 1) : First(u, n, o) <= i /\ i < First(u, n, o + 1)
    BY <1>1, StaticOwner
  <2>3. ASSUME NEW h \in 0 .. (n - 1), First(u, n, h) <= i, i < First(u, n, h + 1)
        PROVE  h = o
    <3>1. /\ h \in Nat /\ h + 1 \in Nat /\ o \in Nat /\ o + 1 \in Nat
          /\ h = o \/ h + 1 <= o \/ o + 1 <= h
      OBVIOUS
    <3>2. /\ \A a \in Nat : First(u, n, a) \in Nat
          /\ \A a, c \in Nat : a <= c => First(u, n, a) <= First(u, n, c)
      BY <1>1, StaticFacts
    <3>3. i \in Int
      BY <1>1
    <3> QED
      BY <2>2, <2>3, <3>1, <3>2, <3>3
  <2>4. \A h \in 0 .. (n - 1) : i \in Iterations(loop, n, h) <=> h = o
    BY <2>1, <2>2, <2>3
  <2>5. \A h \in 0 .. (n - 1) : Bounds(loop, n, h).last <=> u \in Iterations(loop, n, h)
    BY <1>1, <1>2, StaticRuns
  <2> QED
    BY <2>4, <2>5
<1>3. CASE loop.chunk # 0
  <2> DEFINE k == loop.chunk
             q == i \div k
             o == q % n
             y == q \div n
  <2>1. k \in Nat \ {0}
    BY <1>1, <1>3
  <2>2. \A h \in 0 .. (n - 1) :
          i \in Iterations(loop, n, h) <=> \E x \in Int : q - h = n * x
    BY <1>1, <2>1, ChunkedRuns
  <2>3. q \in Nat
    BY <1>1, <2>1, Quotient
  <2> HIDE DEF q
  <2>4. o \in 0 .. (n - 1) /\ y \in Int /\ q = n * y + o
    BY <2>3, Quotient
  <2> HIDE DEF o, y
  <2>5. ASSUME NEW h \in 0 .. (n - 1), NEW x \in Int, q - h = n * x PROVE h = o
    <3>1. n * x + h = n * y + o
      BY <2>3, <2>4, <2>5
    <3> QED
      BY <2>4, <3>1, UniqueQuotient
  <2>6. q - o = n * y
    BY <2>3, <2>4
  <2>7. \A h \in 0 .. (n - 1) : i \in Iterations(loop, n, h) <=> h = o
    BY <2>2, <2>4, <2>5, <2>6
  <2>8. ASSUME NEW h \in 0 .. (n - 1)
        PROVE  Bounds(loop, n, h).last <=> u \in Iterations(loop, n, h)
    <3>1. u \in 0 .. u /\ h \in Nat
      BY <1>1
    <3>2. u \in Iterations(loop, n, h) <=> \E x \in Int : (u \div k) - h = n * x
      BY <1>1, <2>1, <3>1, ChunkedRuns
    <3>3. Bounds(loop, n, h) = StaticChunked(u, 1, k, n, h)
      BY <1>3 DEF Bounds
    <3>4. ASSUME NEW v \in Nat, NEW c \in Nat \ {0}
          PROVE  StaticChunked(v, 1, c, n, h).last <=> Dealt(v \div c, n, h)
      BY <3>1, ChunkedBounds
    <3>5. StaticChunked(u, 1, k, n, h).last <=> Dealt(u \div k, n, h)
      BY <1>1, <2>1, <3>4
    <3> QED
      BY <3>2, <3>3, <3>5 DEF Dealt
  <2> QED
    BY <2>4, <2>7, <2>8
<1> QED
  BY <1>2, <1>3

----------------------------------------------------------------------------
(* The harts that carried out a region, and what each did. *)

\* Every region pushed so far has a team.
Pushed == \A k \in 1 .. region : size[k] \in 1 .. N

LEMMA PushedStep == ASSUME IInv, Pushed, [Next]_vars PROVE Pushed'
<1>1. Types /\ region \in 0 .. MaxRegions
  BY DEF IInv, Types
<1>2. CASE UNCHANGED <<size, region>>
  BY <1>2 DEF Pushed
<1>3. CASE ~UNCHANGED <<size, region>>
  <2>1. ASSUME NEW w \in Workers, Worker(w) PROVE FALSE
    BY <1>3, <2>1 DEF Worker, Attach, Enter, CheckExit, CheckTeam, Call, Return,
       Fini, WfiEnter, Wfi, Clr, WfiLeave, app
  <2>2. ASSUME InCall PROVE FALSE
    BY <1>3, <2>2 DEF InCall, Memset, Publish, Bootstrap, PushFn, PushN, RunHead,
       RunClear, Wake, Self, Join, ResetN, SetExit, ExitWake, app
  <2>3. ~CallExit /\ ~UNCHANGED vars
    BY <1>3 DEF CallExit, vars, app
  <2>4. PICK n \in 1 .. N : Push(n)
    BY <2>1, <2>2, <2>3 DEF Next, AppCall
  <2>5. /\ region' = region + 1 /\ region + 1 \in Regions
        /\ size' = [size EXCEPT ![region + 1] = n] /\ size \in [Regions -> 0 .. N]
    BY <1>1, <2>4, MaxRegionsAssumption DEF Push, Regions, Types
  <2>6. ASSUME NEW k \in 1 .. region' PROVE size'[k] \in 1 .. N
    <3>1. k \in Regions /\ (k = region + 1 \/ k \in 1 .. region)
      BY <1>1, <2>5, <2>6, MaxRegionsAssumption DEF Regions
    <3> QED
      BY <2>5, <3>1 DEF Pushed
  <2> QED
    BY <2>6 DEF Pushed
<1> QED
  BY <1>2, <1>3

LEMMA EveryRegionHasATeam == Spec => [](IInv /\ Pushed)
<1>1. Init => IInv /\ Pushed
  BY InitInd DEF Init, Pushed
<1>2. IInv /\ Pushed /\ [Next]_vars => IInv' /\ Pushed'
  BY NextInd, PushedStep
<1> QED
  BY <1>1, <1>2, PTL DEF Spec

\* The harts that ran the region just joined are its team, each once.
LEMMA TeamRan ==
    ASSUME IInv, Pushed, Joined
    PROVE  /\ size[joined] \in 1 .. N
           /\ Ran = 0 .. (size[joined] - 1)
           /\ \A h \in Ran : h \in Harts /\ h < size[joined] /\ ran[h][joined] = 1
<1>1. /\ joined \in Regions /\ joined \in 1 .. region /\ joined = region
      /\ mpc = "ready" /\ ran \in [Harts -> [Regions -> Nat]]
  BY DEF IInv, Types, Joined, Regions
<1>2. size[joined] \in 1 .. N
  BY <1>1 DEF Pushed
<1>3. ASSUME NEW h \in Harts
      PROVE  ran[h][joined] = IF h < size[joined] THEN 1 ELSE 0
  <2>1. RanAt(h) /\ DoneIn(h)
    BY <1>1, <1>3 DEF IInv, DoneIn, Round
  <2> QED
    BY <1>1, <2>1 DEF RanAt
<1>4. \A h \in Harts : h \in Ran <=> h < size[joined]
  BY <1>2, <1>3 DEF Ran
<1>5. Ran \subseteq Harts
  BY DEF Ran
<1>6. Ran = 0 .. (size[joined] - 1)
  <2> DEFINE n == size[joined]
  <2>1. n \in 1 .. N /\ \A h \in Harts : h \in Ran <=> h < n
    BY <1>2, <1>4
  <2> HIDE DEF n
  <2>2. \A h : h \in 0 .. (n - 1) <=> h \in Harts /\ h < n
    BY <2>1, NAssumption DEF Harts
  <2>3. \A h : h \in Ran <=> h \in 0 .. (n - 1)
    BY <1>5, <2>1, <2>2
  <2> QED
    BY <2>3, Zenon DEF n
<1> QED
  BY <1>2, <1>3, <1>4, <1>5, <1>6

\* What hart h of a team of n does for the loop.
LEMMA ShareIs ==
    ASSUME NEW n \in 1 .. N, NEW loop \in Loops, NEW h \in 0 .. (n - 1)
    PROVE  /\ Share[n][loop][h].runs = Iterations(loop, n, h)
           /\ Share[n][loop][h].last = Bounds(loop, n, h).last
<1>1. h \in Harts /\ h < n
  BY NAssumption DEF Harts
<1> QED
  BY <1>1 DEF Share

\* A microtask whose argument count has a case of its own is called once.
LEMMA OneCase ==
    ASSUME NEW argc \in Breaks
    PROVE  Cardinality(CasesRun(argc)) = 1
<1>1. argc \in argc .. 12 /\ argc \in Nat
  BY DEF Breaks
<1>2. CasesRun(argc) = {argc}
  BY <1>1 DEF CasesRun
<1> QED
  BY <1>2, FS_Singleton

----------------------------------------------------------------------------

\* After a parallel region every iteration of its loop has been executed
\* exactly once, for every number of harts and regions, every team, loop and
\* chunk size: eu_event_loop, the bounds of __kmpc_for_static_init_4 and
\* __microtask_wrapper together.  The argument counts are those with a break of
\* their own in the switch of __microtask_wrapper; the others run two cases or more.
THEOREM LoopsRunOnce ==
    ASSUME Argcs \subseteq Breaks
    PROVE  Spec => []EveryIterationOnce
<1>1. ASSUME IInv, Pushed PROVE EveryIterationOnce
  <2> SUFFICES ASSUME Joined
               PROVE  /\ \A h \in Ran, argc \in Argcs : ran[h][joined] * Calls[argc] = 1
                      /\ \A loop \in Loops : \A i \in 0 .. loop.upper :
                            Cardinality({h \in Ran :
                                i \in Share[size[joined]][loop][h].runs}) = 1
    BY Zenon DEF EveryIterationOnce
  <2> DEFINE n == size[joined]
  <2>1. /\ n \in 1 .. N /\ Ran = 0 .. (n - 1)
        /\ \A h \in Ran : ran[h][joined] = 1
    BY <1>1, TeamRan
  <2>2. ASSUME NEW h \in Ran, NEW argc \in Argcs
        PROVE  ran[h][joined] * Calls[argc] = 1
    <3>1. Calls[argc] = 1
      BY OneCase DEF Calls
    <3> QED
      BY <2>1, <3>1
  <2> HIDE DEF n
  <2>3. ASSUME NEW loop \in Loops, NEW i \in 0 .. loop.upper
        PROVE  Cardinality({h \in Ran : i \in Share[n][loop][h].runs}) = 1
    <3>1. n \in Nat \ {0}
      BY <2>1
    <3>2. PICK o \in 0 .. (n - 1) : \A h \in 0 .. (n - 1) :
                i \in Iterations(loop, n, h) <=> h = o
      BY <3>1, OneOwner
    <3>3. \A h \in 0 .. (n - 1) : Share[n][loop][h].runs = Iterations(loop, n, h)
      BY <2>1, ShareIs
    <3>4. {h \in Ran : i \in Share[n][loop][h].runs} = {o}
      BY <2>1, <3>2, <3>3
    <3> QED
      BY <3>4, FS_Singleton
  <2> QED
    BY <2>2, <2>3 DEF n
<1> QED
  BY <1>1, EveryRegionHasATeam, PTL

\* After a parallel region exactly one hart has been told that it runs the last
\* iteration, and it does, for the same parameters: the p_last flag of both
\* branches of __kmpc_for_static_init_4.
THEOREM LastIsToldOne == Spec => []OneLastIteration
<1>1. ASSUME IInv, Pushed PROVE OneLastIteration
  <2> SUFFICES ASSUME Joined, NEW loop \in Loops
               PROVE  \E o \in Ran :
                         /\ {h \in Ran : Share[size[joined]][loop][h].last} = {o}
                         /\ loop.upper \in Share[size[joined]][loop][o].runs
    BY DEF OneLastIteration
  <2> DEFINE n == size[joined]
             u == loop.upper
  <2>1. n \in 1 .. N /\ Ran = 0 .. (n - 1)
    BY <1>1, TeamRan
  <2>2. n \in Nat \ {0} /\ u \in 0 .. loop.upper
    BY <2>1 DEF Loops
  <2> HIDE DEF n, u
  <2>3. PICK o \in 0 .. (n - 1) : \A h \in 0 .. (n - 1) :
              u \in Iterations(loop, n, h) <=> h = o
    BY <2>2, OneOwner
  <2>4. \A h \in 0 .. (n - 1) :
              Bounds(loop, n, h).last <=> loop.upper \in Iterations(loop, n, h)
    BY <2>2, OneOwner
  <2>5. \A h \in 0 .. (n - 1) : /\ Share[n][loop][h].runs = Iterations(loop, n, h)
                                /\ Share[n][loop][h].last = Bounds(loop, n, h).last
    BY <2>1, ShareIs
  <2>6. \A h \in 0 .. (n - 1) : Share[n][loop][h].last <=> h = o
    BY <2>3, <2>4, <2>5 DEF u
  <2>7. {h \in Ran : Share[n][loop][h].last} = {o}
    BY <2>1, <2>6
  <2>8. loop.upper \in Share[n][loop][o].runs
    BY <2>3, <2>5 DEF u
  <2> QED
    BY <2>1, <2>7, <2>8 DEF n
<1> QED
  BY <1>1, EveryRegionHasATeam, PTL

=============================================================================
