--------------------------- MODULE MCKeyAndReplica ---------------------------
(* WaitKeyClaim and Replication for TLC.  They share no state: a behaviour is one of *)
(* the wait key's or one of the replicas', and the other stays as it began.  A failed *)
(* sync counts as a commit and as a lease, as a removal counts as an execution.       *)
EXTENDS MCWaitKeyClaim, Replication

CONSTANT MaxSyncWork

VARIABLE part

PartsInit == Init /\ ReplInit /\ part \in {"key", "replica"}

PartsNext ==
    /\ UNCHANGED part
    /\ \/ part = "key" /\ Next /\ UNCHANGED replVars
       \/ part = "replica" /\ ReplNext /\ UNCHANGED vars

PartsSpec == PartsInit /\ [][PartsNext]_<<vars, replVars, part>>

PartsBound ==
    /\ WorkBound
    /\ made + failures <= MaxSyncWork /\ failures + TopLease <= LastFence

\* Every variable of the two components has its type.
PartsTypeOK == TypeOK /\ ReplTypeOK

=============================================================================
