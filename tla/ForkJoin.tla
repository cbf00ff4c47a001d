------------------------------ MODULE ForkJoin ------------------------------
(***************************************************************************)
(* What a parallel region promises its caller: the harts of the team, and  *)
(* no others, each carry out the region once, and the caller continues     *)
(* only after the last of them.  The event unit implements this module.    *)
(***************************************************************************)
EXTENDS Integers

CONSTANT Harts

VARIABLES
    region,     \* number of the last region forked
    open,       \* is that region still running?
    team,       \* the harts that must carry it out
    done        \* the harts that have

Init == region = 0 /\ open = FALSE /\ team = {} /\ done = {}

Fork ==
    /\ ~open
    /\ open' = TRUE
    /\ region' = region + 1
    /\ team' \in SUBSET Harts
    /\ done' = {}

Work(h) ==
    /\ open
    /\ h \in team \ done
    /\ done' = done \cup {h}
    /\ UNCHANGED <<region, open, team>>

Join ==
    /\ open
    /\ done = team
    /\ open' = FALSE
    /\ UNCHANGED <<region, team, done>>

Next == Fork \/ Join \/ \E h \in Harts : Work(h)

\* A region that was forked is carried out and joined.
Fairness ==
    LET v == <<region, open, team, done>>
    IN  WF_v(Join) /\ \A h \in Harts : WF_v(Work(h))

Spec == Init /\ [][Next]_<<region, open, team, done>> /\ Fairness

=============================================================================
