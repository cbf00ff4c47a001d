--------------------------- MODULE MCGlobalBarrier ---------------------------
(***************************************************************************)
(* GlobalBarrier for TLC: the programs, and the barrier it implements.     *)
(***************************************************************************)
EXTENDS GlobalBarrier

Words == INSTANCE Bitwise

ASSUME AndIsBitwise ==
    \A a, b \in 0 .. (2^Width - 1) : And(a, b) = Words!&(a, b)

MCComms == {"boot", "world", "sub"}

Sizes(n) == [m \in MCComms |-> IF m = "sub" THEN n ELSE C]
SizeTwo == Sizes(2)
SizeThree == Sizes(3)

On(m) == [via |-> m, new |-> {}]
Create(m, via) == [via |-> via, new |-> {m}]

\* As in communicator.c: create a communicator, a barrier of the first
\* clusters, a barrier of all clusters.
SubProgram == <<Create("sub", "world"), On("sub"), On("world")>>

\* snrt_comm_init and then global barriers.
WorldProgram == <<Create("world", "boot"), On("world"), On("world")>>

(***************************************************************************)
(* Two systems, of which a behaviour runs one: the machine of the          *)
(* constants, and two clusters with compute cores beside the data mover    *)
(* that boot and pass barriers of all.                                     *)
(***************************************************************************)
VARIABLES
    system,
    wPc, wCall, wRet, wArrival, wCnt, wMcip, wSubmask, wTodo, wMulticast

worldVars ==
    <<wPc, wCall, wRet, wArrival, wCnt, wMcip, wSubmask, wTodo, wMulticast>>

World == INSTANCE GlobalBarrier WITH
    C <- 2, K <- 2, size <- [m \in MCComms |-> 2], Program <- WorldProgram,
    pc <- wPc, call <- wCall, ret <- wRet, arrival <- wArrival, cnt <- wCnt,
    mcip <- wMcip, submask <- wSubmask, todo <- wTodo, multicast <- wMulticast

\* The system that is not run waits in one of its initial states.
MCInit ==
    /\ Init /\ World!Init
    /\ \/ system = "machine" /\ ~wMulticast /\ wCnt = [m \in Comms |-> 0]
       \/ system = "world" /\ ~multicast /\ cnt = [m \in Comms |-> 0]

MCNext ==
    \/ system = "machine" /\ Next /\ UNCHANGED <<system, worldVars>>
    \/ system = "world" /\ World!Next /\ UNCHANGED <<system, vars>>

InCall ==
    \/ system = "machine" /\ InBarrier /\ UNCHANGED <<system, worldVars>>
    \/ system = "world" /\ World!InBarrier /\ UNCHANGED <<system, vars>>

(***************************************************************************)
(* Cores inside a call run on.  A behaviour is finite (Program is, and no  *)
(* step of a call is repeated), so one condition for all the cores is as   *)
(* strong as the one for each core of GlobalBarrier, and cheaper to check. *)
(***************************************************************************)
MCSpec ==
    /\ MCInit /\ [][MCNext]_<<vars, worldVars, system>>
    /\ WF_<<vars, worldVars, system>>(InCall)

----------------------------------------------------------------------------

B == INSTANCE Barrier WITH Members <- World!Clusters \X World!Cores,
                           entered <- wCall, left <- wRet

\* With communicators of all clusters the global barrier, with the hardware
\* barriers around it, is a barrier of all cores.
ImplementsBarrier == B!Spec

\* Whenever all cores of a communicator have begun a call, the call returns
\* (the calls of a communicator that includes "the first size clusters").
CallsReturn ==
    \A j \in 1 .. Len(Program) :
        LET here == {x \in Clusters \X Cores : is_participant(x[1], Program[j].via)}
        IN  (\A x \in here : call[x] >= j) ~> (\A x \in here : ret[x] >= j)

=============================================================================
