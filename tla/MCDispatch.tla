------------------------------ MODULE MCDispatch ------------------------------
(* Dispatch for TLC: a group with a step that its pin may not fit, where a method *)
(* writes twice, and two steps for one worker, one of which declares its writes.  *)
EXTENDS Dispatch

CONSTANTS s1, s2, w1, w2

Workloads ==
    {[group |-> {s1, s2}, declares |-> {},
      fits |-> [s \in Step |-> IF s = s1 THEN Worker ELSE {w2}],
      writes |-> [s \in Step |-> IF s = s1 THEN 2 ELSE 0]],
     [group |-> {}, declares |-> {s1},
      fits |-> [s \in Step |-> {w1}],
      writes |-> [s \in Step |-> 1]]}

=============================================================================
