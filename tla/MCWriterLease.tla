---------------------------- MODULE MCWriterLease ----------------------------
(* WriterLease for TLC: fences and units of work share one bound, so that a *)
(* run reaches many of either and some of both.                             *)
EXTENDS WriterLease, FiniteSets

CONSTANT MaxWork

WorkBound ==
    Cardinality({f \in Fence : \E g \in Fence : g >= f /\ rec[g] # NoOne})
        + Len(log) + Cardinality({p \in Proc : unit[p] # 0}) <= MaxWork

=============================================================================
