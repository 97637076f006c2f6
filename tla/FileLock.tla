-------------------------------- MODULE FileLock --------------------------------
(***************************************************************************)
(* The lock file of a datastore (infrastructure/persistence/file_lock.ts). *)
(*                                                                         *)
(* A holder creates the file exclusively, writes its nonce into it and     *)
(* rewrites it by a heartbeat; a waiter removes a file that looks stale.   *)
(* Reading the file, and removing or replacing it, are separate calls, so  *)
(* a holder or a waiter may act on a file that is another's by then.  The  *)
(* nonce is what a holder finds that out by.  A step is one file-system    *)
(* call and the code up to the next one.                                   *)
(***************************************************************************)
EXTENDS Naturals

CONSTANTS
    User,     \* processes that use the lock
    MaxNonce  \* bound: nonces drawn, by acquires and re-keys

ASSUME NonceAssumption == MaxNonce \in Nat

VARIABLES
    file,       \* whose lock file it is, by nonce; 0 for none
    written,    \* whether its content is complete
    stale,      \* whether a reader finds it older than its ttl, or its pid gone
    issued,     \* nonces drawn so far
    stage,      \* acquire and release of each process
    nonce,      \* the nonce of each process
    holding,    \* FileLock.held
    releasing,  \* FileLock.releasing
    rw,         \* the rewrite under way
    force,      \* the nonce a forced release has checked, 0 for none
    left,       \* history: the file's process died or failed to remove or to read it
    lapsed      \* history: a holder died or was late, or was forced out

disk == <<file, written, stale, left>>
fileVars == <<disk, issued, stage, nonce, holding, releasing, rw, force, lapsed>>

-----------------------------------------------------------------------------
FileInit ==
    /\ file = 0 /\ written = FALSE /\ stale = FALSE /\ left = FALSE
    /\ issued = 0
    /\ stage = [p \in User |-> "out"]
    /\ nonce = [p \in User |-> 0]
    /\ holding = [p \in User |-> FALSE]
    /\ releasing = [p \in User |-> FALSE]
    /\ rw = [p \in User |-> "idle"]
    /\ force = 0 /\ lapsed = FALSE

GoesTo(p, l) == stage' = [stage EXCEPT ![p] = l]

\* a file at the path that its process has just put there
Puts(f, complete) == file' = f /\ written' = complete /\ stale' = FALSE /\ left' = FALSE

\* Deno.remove of the path, whoever's file is there; it may fail, which nobody retries:
\* a process that fails to remove its own file leaves it to the ttl.
RemoveFile(own) ==
    \/ Puts(0, FALSE)
    \/ left' = (left \/ own) /\ UNCHANGED <<file, written, stale>>

Own(p) == file = nonce[p]

-----------------------------------------------------------------------------
(* acquire and tryAcquire *)

Acquire(p) ==
    /\ stage[p] = "out" /\ issued < MaxNonce
    /\ issued' = issued + 1
    /\ nonce' = [nonce EXCEPT ![p] = issued + 1]
    /\ releasing' = [releasing EXCEPT ![p] = FALSE]
    /\ GoesTo(p, "create")
    /\ UNCHANGED <<disk, holding, rw, force, lapsed>>

MutTryCreate(p) ==
    /\ stage[p] = "create"
    /\ issued' = issued + 1
    /\ nonce' = [nonce EXCEPT ![p] = issued + 1]
    /\ IF file = 0
       THEN Puts(nonce'[p], FALSE) /\ GoesTo(p, "write")
       ELSE GoesTo(p, "look") /\ UNCHANGED disk
    /\ UNCHANGED <<holding, releasing, rw, force, lapsed>>

\* createLockFileExclusive
TryCreate(p) ==
    /\ stage[p] = "create"
    /\ IF file = 0
       THEN Puts(nonce[p], FALSE) /\ GoesTo(p, "write")
       ELSE GoesTo(p, "look") /\ UNCHANGED disk
    /\ UNCHANGED <<issued, nonce, holding, releasing, rw, force, lapsed>>

\* into the file that was created, even if it is gone from the path by now
WriteInfo(p) ==
    /\ stage[p] = "write"
    /\ written' = (written \/ Own(p))
    /\ holding' = [holding EXCEPT ![p] = TRUE]
    /\ GoesTo(p, "in")
    /\ UNCHANGED <<file, stale, left, issued, nonce, releasing, rw, force, lapsed>>

WriteFails(p) ==
    /\ stage[p] = "write"
    /\ RemoveFile(Own(p))
    /\ GoesTo(p, "out")
    /\ UNCHANGED <<issued, nonce, holding, releasing, rw, force, lapsed>>

MutRemovable == stale \/ ~written

\* A complete file past its ttl or of a dead pid, or an untouched incomplete one.
Removable == stale

\* readLockFileState in clearStaleHolder: a live holder is waited for, and a file that
\* could not be read is one that is gone, or an incomplete one that is still fresh.
ReadHolder(p) ==
    /\ stage[p] = "look"
    /\ \E read \in BOOLEAN :
          GoesTo(p, IF read /\ file # 0 /\ Removable THEN "clear" ELSE "create")
    /\ UNCHANGED <<disk, issued, nonce, holding, releasing, rw, force, lapsed>>

ClearStaleHolder(p) ==
    /\ stage[p] = "clear"
    /\ RemoveFile(FALSE)
    /\ GoesTo(p, "create")
    /\ UNCHANGED <<issued, nonce, holding, releasing, rw, force, lapsed>>

\* LockTimeoutError, an abort, or tryAcquire that found the lock taken
GiveUpLock(p) ==
    /\ stage[p] \in {"look", "create"}
    /\ GoesTo(p, "out")
    /\ UNCHANGED <<disk, issued, nonce, holding, releasing, rw, force, lapsed>>

-----------------------------------------------------------------------------
(* The heartbeat's extend, publishSkipping and rekey: one rewrite at a time. *)

\* The interval runs from the acquire until the lock is released or revoked.
Heartbeat(p) ==
    /\ stage[p] = "in" /\ holding[p] /\ rw[p] = "idle"
    /\ rw' = [rw EXCEPT ![p] = "extend"]
    /\ UNCHANGED <<disk, issued, stage, nonce, holding, releasing, force, lapsed>>

Rekey(p) ==
    /\ stage[p] = "in" /\ rw[p] = "idle"
    /\ rw' = [rw EXCEPT ![p] = "rekey"]
    /\ UNCHANGED <<disk, issued, stage, nonce, holding, releasing, force, lapsed>>

\* the write that follows the check of a rewrite
Write(kind) == IF kind = "rekey" THEN "writeNew" ELSE "write"

MutStillOwned(p) ==
    /\ rw[p] \in {"extend", "rekey"}
    /\ rw' = [rw EXCEPT ![p] = IF holding[p] /\ ~releasing[p] THEN Write(@) ELSE "idle"]
    /\ UNCHANGED <<disk, issued, stage, nonce, holding, releasing, force, lapsed>>

\* The file is read: another's nonce, no file, or one that cannot be read revokes this
\* hold.  A revoked hold removes nothing, its own file included.
StillOwned(p) ==
    /\ rw[p] \in {"extend", "rekey"}
    /\ \E read, early \in BOOLEAN :  \* early: the release was seen before the read
          LET owned == read /\ written /\ Own(p)
              writes == holding[p] /\ ~releasing[p] /\ owned
              revoked == holding[p] /\ ~owned /\ ~early
          IN  /\ early => releasing[p]
              /\ rw' = [rw EXCEPT ![p] = IF writes THEN Write(@) ELSE "idle"]
              /\ holding' = [holding EXCEPT ![p] = @ /\ ~revoked]
              /\ left' = (left \/ (revoked /\ Own(p)))
    /\ UNCHANGED <<file, written, stale, issued, stage, nonce, releasing, force, lapsed>>

Replacing(p) == rw[p] \in {"write", "writeNew"}

MutReplaceLockFile(p) ==
    LET draws == IF rw[p] = "writeNew" THEN 1 ELSE 0
    IN  /\ Replacing(p) /\ issued + draws <= MaxNonce
        /\ Puts(IF rw[p] = "writeNew" THEN issued + 1 ELSE nonce[p], TRUE)
        /\ issued' = issued + draws
        /\ rw' = [rw EXCEPT ![p] = "idle"]
        /\ UNCHANGED <<stage, nonce, holding, releasing, force, lapsed>>

\* The rename lands, and the file is removed again, or not, if the lock was let go.
ReplaceLockFile(p) ==
    LET draws == IF rw[p] = "writeNew" THEN 1 ELSE 0
        new == IF rw[p] = "writeNew" THEN issued + 1 ELSE nonce[p]
    IN  /\ Replacing(p) /\ issued + draws <= MaxNonce
        /\ issued' = issued + draws
        /\ IF holding[p]
           THEN Puts(new, TRUE) /\ nonce' = [nonce EXCEPT ![p] = new]
           ELSE /\ \/ Puts(0, FALSE)
                   \/ file' = new /\ written' = TRUE /\ stale' = FALSE /\ left' = TRUE
                /\ UNCHANGED nonce
        /\ rw' = [rw EXCEPT ![p] = "idle"]
        /\ UNCHANGED <<stage, holding, releasing, force, lapsed>>

RewriteFails(p) ==
    /\ Replacing(p)
    /\ rw' = [rw EXCEPT ![p] = "idle"]
    /\ UNCHANGED <<disk, issued, stage, nonce, holding, releasing, force, lapsed>>

-----------------------------------------------------------------------------
(* release *)

Release(p) ==
    /\ stage[p] = "in"
    /\ releasing' = [releasing EXCEPT ![p] = TRUE]
    /\ GoesTo(p, "finish")
    /\ UNCHANGED <<disk, issued, nonce, holding, rw, force, lapsed>>

\* After the rewrite under way; a revoked lock has nothing to remove.
ReleaseAfterRewrites(p) ==
    /\ stage[p] = "finish" /\ rw[p] = "idle"
    /\ holding' = [holding EXCEPT ![p] = FALSE]
    /\ GoesTo(p, IF holding[p] THEN "remove" ELSE "out")
    /\ UNCHANGED <<disk, issued, nonce, releasing, rw, force, lapsed>>

RemoveOnRelease(p) ==
    /\ stage[p] = "remove"
    /\ RemoveFile(Own(p))
    /\ GoesTo(p, "out")
    /\ UNCHANGED <<issued, nonce, holding, releasing, rw, force, lapsed>>

-----------------------------------------------------------------------------
(* Time, death and the operator. *)

\* No rewrite came within the ttl: the holder is late.
TtlPasses ==
    /\ file # 0 /\ ~stale
    /\ stale' = TRUE /\ lapsed' = TRUE
    /\ UNCHANGED <<file, written, left, issued, stage, nonce, holding, releasing, rw, force>>

\* A killed process; another one may come in its place.
KillProcess(p) ==
    /\ stage[p] # "out"
    /\ GoesTo(p, "out")
    /\ left' = (left \/ Own(p))
    /\ holding' = [holding EXCEPT ![p] = FALSE]
    /\ rw' = [rw EXCEPT ![p] = "idle"]
    /\ stale' = (stale \/ Own(p))
    /\ lapsed' = TRUE
    /\ UNCHANGED <<file, written, issued, nonce, releasing, force>>

\* forceRelease compares the nonce it was given ...
ForceChecked ==
    /\ force = 0 /\ file # 0 /\ written
    /\ force' = file
    /\ lapsed' = TRUE
    /\ UNCHANGED <<disk, issued, stage, nonce, holding, releasing, rw>>

\* ... and removes the file.
ForceRemoves ==
    /\ force # 0
    /\ force' = 0
    /\ RemoveFile(FALSE)
    /\ UNCHANGED <<issued, stage, nonce, holding, releasing, rw, lapsed>>

-----------------------------------------------------------------------------
Rewrites(p) == StillOwned(p) \/ ReplaceLockFile(p) \/ RewriteFails(p)

ProcNext(p) ==
    \/ Acquire(p) \/ TryCreate(p) \/ WriteInfo(p) \/ WriteFails(p) \/ ReadHolder(p)
    \/ ClearStaleHolder(p) \/ GiveUpLock(p) \/ Heartbeat(p) \/ Rekey(p) \/ Rewrites(p)
    \/ Release(p) \/ ReleaseAfterRewrites(p) \/ RemoveOnRelease(p) \/ KillProcess(p)

FileNext == (\E p \in User : ProcNext(p)) \/ TtlPasses \/ ForceChecked \/ ForceRemoves

FileSpec == FileInit /\ [][FileNext]_fileVars

(* The interval keeps firing, and file-system calls and awaits return.  *)
FileFairness ==
    \A p \in User :
       WF_fileVars(Heartbeat(p)) /\ WF_fileVars(Rewrites(p)) /\ WF_fileVars(ReleaseAfterRewrites(p))

FileLiveSpec == FileSpec /\ FileFairness

-----------------------------------------------------------------------------
\* Every variable has its type.
FileTypeOK ==
    /\ file \in 0..MaxNonce /\ written \in BOOLEAN
    /\ stale \in BOOLEAN /\ left \in BOOLEAN
    /\ issued \in 0..MaxNonce
    /\ stage \in [User -> {"out", "create", "write", "look", "clear", "in", "finish",
                        "remove"}]
    /\ nonce \in [User -> 0..MaxNonce]
    /\ holding \in [User -> BOOLEAN] /\ releasing \in [User -> BOOLEAN]
    /\ rw \in [User -> {"idle", "extend", "rekey", "write", "writeNew"}]
    /\ force \in 0..MaxNonce /\ lapsed \in BOOLEAN

(* As long as every holder lives and rewrites its file in time, one process holds
   the lock: waiters, re-keys, failed writes and releases that overlap never let a
   second one in (acquire, clearStaleHolder, release).                             *)
Exclusive == ~lapsed => \A p, q \in User : holding[p] /\ holding[q] => p = q

(* A released, revoked or given-up lock leaves no file behind that nobody removes,
   however releases, rewrites and removals by others interleave: the file is that of a
   process still in acquire or release, or its own process died or had a removal or a
   read of this very file fail (release, extend, rekey, tryCreate).                     *)
NoOrphanFile ==
    file # 0 => left \/ \E p \in User : nonce[p] = file /\ stage[p] # "out"

TwoHold == \E p, q \in User : p # q /\ holding[p] /\ holding[q]

(* Two holders do not last: after a stale lock was taken from a live holder, or a
   fresh one deleted by accident, all but one find another nonce in the file and
   revoke themselves (clearStaleHolder and extend), unless for ever the rewrites of
   the two overlap, each replacing what the other has just checked.  Rewrites are a
   third of the ttl apart and take one read and one rename.                          *)
TwoHoldersHeal ==
    []<>(\A p \in User : ~Replacing(p)) => (TwoHold ~> ~TwoHold)

=============================================================================
