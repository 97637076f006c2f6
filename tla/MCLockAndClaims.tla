--------------------------- MODULE MCLockAndClaims ---------------------------
(* V3WriterLock and ContinuationClaim for TLC.  They share no state: a behaviour is one *)
(* of the writer lock's or one of the claims', and the other stays as it began.         *)
EXTENDS V3WriterLock, ContinuationClaim

VARIABLE part

PartsInit == Init /\ ClaimInit /\ part \in {"lock", "claims"}

PartsNext ==
    /\ UNCHANGED part
    /\ \/ part = "lock" /\ Next /\ UNCHANGED claimVars
       \/ part = "claims" /\ ClaimNext /\ UNCHANGED vars

PartsSpec == PartsInit /\ [][PartsNext]_<<vars, claimVars, part>>

\* Every variable of the two components has its type.
PartsTypeOK == TypeOK /\ ClaimTypeOK

=============================================================================
