----------------------------- MODULE MCLocksLive -----------------------------
(* V3WriterLock and FileLock for TLC, with their fairness.  They share no state: a *)
(* behaviour is one of the writer lock's or one of the file lock's, and the other  *)
(* stays as it began, where none of its fair actions is enabled.                   *)
EXTENDS V3WriterLock, FileLock

VARIABLE part

LocksInit == Init /\ FileInit /\ part \in {"writer", "file"}

LocksNext ==
    /\ UNCHANGED part
    /\ \/ part = "writer" /\ Next /\ UNCHANGED fileVars
       \/ part = "file" /\ FileNext /\ UNCHANGED vars

LocksSpec ==
    /\ LocksInit /\ [][LocksNext]_<<vars, fileVars, part>>
    /\ Fairness /\ FileFairness

=============================================================================
