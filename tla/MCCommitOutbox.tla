---------------------------- MODULE MCCommitOutbox ----------------------------
(* CommitOutbox for TLC: failed calls, the units of work after the first and  *)
(* the processes that run at once share one bound.                            *)
EXTENDS CommitOutbox, FiniteSets

CONSTANT MaxWork

LaterUnits == {p \in Writer \ {1} : \E t \in staged : t[1] = p}

AtOnce == {p \in Proc : pc[p] \notin {"idle", "exited"}}

WorkBound == faults + Cardinality(LaterUnits) + Cardinality(AtOnce) <= MaxWork

=============================================================================
