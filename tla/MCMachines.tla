----------------------------- MODULE MCMachines -----------------------------
(***************************************************************************)
(* The NPU cluster of Npu.tla and the Snitch clusters of Machine.tla for   *)
(* TLC, side by side: they have no state in common, and in a behaviour one *)
(* of them has nothing to do.                                              *)
(***************************************************************************)
EXTENDS MCNpu

CONSTANTS JobSet, Prompt        \* of Machine.tla

VARIABLES job, prog, core, engine, tcdm

machineVars == <<job, prog, core, engine, tcdm>>
mcVars == <<vars, machineVars>>

Kernels == INSTANCE Machine WITH dma <- engine, mem <- tcdm

\* The host's programs, and one that calls nothing: the firmware sleeps.
Nothing == <<>>
MachinePrograms == MCPrograms \cup {Nothing}

\* Clusters without harts.
KernelsAreOff ==
  /\ job = [name |-> "none", per |-> 1, expect |-> <<>>]
  /\ prog = <<>> /\ core = <<>> /\ engine = <<>> /\ tcdm = <<>>

MCInit ==
  /\ Init
  /\ IF host = Nothing THEN Kernels!Init ELSE KernelsAreOff

\* All harts have returned from the kernel.
KernelsDone == host = Nothing /\ Kernels!AllDone /\ UNCHANGED mcVars

MCNext ==
  \/ host # Nothing /\ Next /\ UNCHANGED machineVars
  \/ Kernels!Next /\ UNCHANGED vars
  \/ KernelsDone

MCSpec == MCInit /\ [][MCNext]_mcVars /\ Fairness /\ WF_machineVars(Kernels!Next)

-----------------------------------------------------------------------------
\* What main() of every kernel's test compares with its golden model: the
\* outputs are made from the inputs they should have been made from (Machine.tla).
ResultIsReference == Kernels!ResultIsReference

\* Nothing in flight disturbs a computation of a kernel: buffers change hands
\* between cores, FP subsystems and the DMA engine cleanly (Machine.tla).
ComputeIsUndisturbed == Kernels!ComputeIsUndisturbed

\* Every hart returns from every kernel: all execute matching sequences of
\* barriers (Machine.tla).
Returns == Kernels!Returns
=============================================================================
