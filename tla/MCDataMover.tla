----------------------------- MODULE MCDataMover -----------------------------
(***************************************************************************)
(* DataMover for TLC.  In a behaviour either one hart is alone with the    *)
(* data mover and queues more transfers than the ring has slots, or all    *)
(* harts race, with fewer transfers each and dm_exit among the calls.      *)
(***************************************************************************)
EXTENDS DataMover

CONSTANTS
    Lone,           \* the hart that may be alone
    RacingCopies    \* bound: transfers of each hart when they race

VARIABLE alone

MCInit == Init /\ alone \in BOOLEAN

\* The calls a hart may make: a lone one does not end the data mover.
MayCall(h) ==
    IF alone THEN h = Lone /\ op'[h] # "exit"
    ELSE op'[h] = "memcpy" => copies[h] < RacingCopies

Step ==
    \/ DM
    \/ DMAComplete
    \/ \E h \in Harts : Inside(h) \/ (Call(h) /\ MayCall(h))

MCSpec ==
    /\ MCInit /\ [][Step /\ UNCHANGED alone]_<<vars, alone>>
    /\ Fairness

----------------------------------------------------------------------------

\* Every dm_wait of a hart that has the data mover for itself returns, however
\* many transfers it has queued and whatever it called before, dm_wait_ready
\* included.  (Two harts can lose a request, see WaitReturns.)
LoneWaitReturns ==
    \A h \in Harts : (alone /\ op[h] = "wait") ~> op[h] = "none"

=============================================================================
