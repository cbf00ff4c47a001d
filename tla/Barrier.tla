------------------------------- MODULE Barrier -------------------------------
(***************************************************************************)
(* What a reusable barrier promises its members: each member makes a       *)
(* sequence of calls, and nobody returns from its k-th call before every   *)
(* member has begun its k-th.  Members may enter, and may leave, together. *)
(* The software barrier, the hardware barrier of a cluster and the global  *)
(* barrier implement this module.                                          *)
(***************************************************************************)
EXTENDS Integers

CONSTANT Members

VARIABLES
    entered,    \* calls each member has begun
    left        \* calls each member has returned from

Init ==
    /\ entered = [m \in Members |-> 0]
    /\ left = [m \in Members |-> 0]

Plus(calls, S) == [m \in Members |-> IF m \in S THEN calls[m] + 1 ELSE calls[m]]

Enter(S) ==
    /\ \A m \in S : entered[m] = left[m]
    /\ entered' = Plus(entered, S)
    /\ UNCHANGED left

Exit(S) ==
    /\ \A m \in S : \A k \in Members : left[m] < entered[k]
    /\ left' = Plus(left, S)
    /\ UNCHANGED entered

Next == \E S \in SUBSET Members : Enter(S) \/ Exit(S)

\* Once everybody has begun a call, everybody who is in it returns.
Fairness ==
    \A m \in Members :
        WF_<<entered, left>>(\E S \in SUBSET Members : m \in S /\ Exit(S))

Spec == Init /\ [][Next]_<<entered, left>> /\ Fairness

=============================================================================
