---------------------------- MODULE MCWaitKeyClaim ----------------------------
(* WaitKeyClaim for TLC: steps are interchangeable, the executions of steps and the *)
(* removals share one bound, and so do deadlines and graces that pass.  Nothing is   *)
(* explored any more once all runs are over and no removal is left to begin: waits   *)
(* are then only settled and swept.                                                  *)
EXTENDS WaitKeyClaim, FiniteSets, TLC

CONSTANTS MaxWork, MaxLapsed

Symmetry == Permutations(Step)

Executions == {x \in Step \X (1..MaxTries) : x[2] <= tries[x[1]]}

Work == Cardinality(Executions) + removals

Busy ==
    \/ rm # "idle" \/ \E s \in Step : ~Over(s)
    \/ removals < MaxRemovals /\ Work < MaxWork

Lapsed == Cardinality(overdue) + Cardinality(aged)

WorkBound == Work <= MaxWork /\ Lapsed <= MaxLapsed /\ Busy

=============================================================================
