----------------------------- MODULE FileLockProofs -----------------------------
(***************************************************************************)
(* Proofs about FileLock for any set of processes and any number of        *)
(* nonces, with kills, late holders and forced releases at any moment.     *)
(***************************************************************************)
EXTENDS FileLock, TLAPS

USE NonceAssumption

(* Every nonce was drawn, and no two processes have the same one. *)
Drawn ==
    /\ file <= issued
    /\ \A p \in User : nonce[p] <= issued /\ (stage[p] # "out" => nonce[p] # 0)
    /\ \A p, q \in User : p # q /\ nonce[p] = nonce[q] => nonce[p] = 0

(* Between acquire and release alone is a lock held and its file rewritten, by one that
   holds it; a process that waits has no file, one that was revoked has none either or
   has left it, and the file of one that got in is complete.                             *)
Whose(p) ==
    /\ rw[p] # "idle" => stage[p] \in {"in", "finish"}
    /\ holding[p] => stage[p] \in {"in", "finish"}
    /\ Replacing(p) => holding[p]
    /\ stage[p] \in {"create", "look", "clear"} => file # nonce[p]
    /\ stage[p] \in {"in", "finish"} /\ file = nonce[p] => left \/ (holding[p] /\ written)

(* While every holder is in time, whoever is past the creation of the file has it. *)
InTime ==
    /\ ~stale /\ force = 0
    /\ \A p \in User :
          /\ stage[p] # "clear"
          /\ stage[p] \in {"write", "in", "finish", "remove"} => file = nonce[p]

FileInv ==
    /\ FileTypeOK /\ Drawn /\ (\A p \in User : Whose(p))
    /\ NoOrphanFile
    /\ ~lapsed => InTime

-----------------------------------------------------------------------------
Removal(own) ==
    /\ \/ file' = 0 /\ ~written' /\ ~stale' /\ ~left'
       \/ /\ file' = file /\ written' = written /\ stale' = stale
          /\ left' = (left \/ own)
    /\ written' \in BOOLEAN /\ stale' \in BOOLEAN /\ left' \in BOOLEAN

(* A process's removal of its own file leaves nothing at the path, or it fails and the
   file is left.                                                                        *)
LEMMA OwnRemoval ==
    ASSUME FileTypeOK, NEW p \in User, WriteFails(p) \/ RemoveOnRelease(p)
    PROVE  Removal(file = nonce[p])
<1>1. RemoveFile(Own(p))
  BY DEF WriteFails, RemoveOnRelease
<1>2. CASE Puts(0, FALSE)
  BY <1>2 DEF Puts, Removal
<1>3. CASE left' = (left \/ Own(p)) /\ UNCHANGED <<file, written, stale>>
  BY <1>3 DEF Removal, Own, FileTypeOK
<1> QED
  BY <1>1, <1>2, <1>3 DEF RemoveFile

(* The removal of a file that its process may still hold leaves nothing at the path, or
   it fails and changes nothing.                                                        *)
LEMMA OthersRemoval ==
    ASSUME FileTypeOK, ForceRemoves \/ \E p \in User : ClearStaleHolder(p)
    PROVE  Removal(FALSE)
<1>1. RemoveFile(FALSE)
  BY DEF ForceRemoves, ClearStaleHolder
<1>2. CASE Puts(0, FALSE)
  BY <1>2 DEF Puts, Removal
<1>3. CASE left' = (left \/ FALSE) /\ UNCHANGED <<file, written, stale>>
  BY <1>3 DEF Removal, FileTypeOK
<1> QED
  BY <1>1, <1>2, <1>3 DEF RemoveFile

(* Every variable has its type to begin with. *)
LEMMA FileTypeInit == FileInit => FileTypeOK
<1>1. FileInit => /\ written \in BOOLEAN /\ stale \in BOOLEAN /\ left \in BOOLEAN /\ lapsed \in BOOLEAN
                  /\ holding \in [User -> BOOLEAN] /\ releasing \in [User -> BOOLEAN]
  BY DEF FileInit
<1>2. FileInit => /\ file \in 0..MaxNonce /\ issued \in 0..MaxNonce
                  /\ force \in 0..MaxNonce 
                  /\ nonce \in [User -> 0..MaxNonce]
  BY DEF FileInit
<1> QED
  BY <1>1, <1>2 DEF FileInit, FileTypeOK

(* Each action keeps every variable in its type. *)

LEMMA FileTypeStep == FileTypeOK /\ [FileNext]_fileVars => FileTypeOK'
<1> SUFFICES ASSUME FileTypeOK, [FileNext]_fileVars PROVE FileTypeOK'
  OBVIOUS
<1> USE DEF FileTypeOK, disk, fileVars, GoesTo, Puts, Own
<1>1. ASSUME NEW p \in User, ProcNext(p) PROVE FileTypeOK'
  <2>1. CASE Acquire(p)
    BY <2>1 DEF Acquire
  <2>2. CASE TryCreate(p)
    <3>1. CASE file = 0
      <4>1. written' \in BOOLEAN /\ stale' \in BOOLEAN /\ left' \in BOOLEAN
        BY <2>2, <3>1 DEF TryCreate
      <4>2. file' = nonce[p] /\ GoesTo(p, "write")
        BY <2>2, <3>1 DEF TryCreate
      <4> QED
        BY <2>2, <4>1, <4>2 DEF TryCreate
    <3>2. CASE file # 0
      BY <2>2, <3>2 DEF TryCreate
    <3> QED
      BY <3>1, <3>2
  <2>3. CASE WriteInfo(p)
    BY <2>3 DEF WriteInfo
  <2>4. CASE WriteFails(p)
    <3>1. Removal(file = nonce[p])
      BY <2>4, OwnRemoval
    <3>2. /\ file' \in 0..MaxNonce
         /\ written' \in BOOLEAN /\ stale' \in BOOLEAN /\ left' \in BOOLEAN
      BY <3>1 DEF Removal
    <3> QED
      BY <2>4, <3>2 DEF WriteFails
  <2>5. CASE ReadHolder(p)
    BY <2>5 DEF ReadHolder
  <2>6. CASE ClearStaleHolder(p)
    <3>1. Removal(FALSE)
      BY <2>6, OthersRemoval
    <3>2. /\ file' \in 0..MaxNonce
         /\ written' \in BOOLEAN /\ stale' \in BOOLEAN /\ left' \in BOOLEAN
      BY <3>1 DEF Removal
    <3> QED
      BY <2>6, <3>2 DEF ClearStaleHolder
  <2>7. CASE GiveUpLock(p)
    BY <2>7 DEF GiveUpLock
  <2>8. CASE Heartbeat(p) \/ Rekey(p)
    BY <2>8 DEF Heartbeat, Rekey
  <2>9. CASE StillOwned(p)
    BY <2>9 DEF StillOwned, Write
  <2>10. CASE ReplaceLockFile(p)
    <3>1. CASE holding[p]
      <4>1. written' \in BOOLEAN /\ stale' \in BOOLEAN /\ left' \in BOOLEAN
        BY <2>10, <3>1 DEF ReplaceLockFile
      <4> QED
        BY <2>10, <3>1, <4>1 DEF ReplaceLockFile, Replacing
    <3>2. CASE ~holding[p]
      <4>0. written' \in BOOLEAN /\ stale' \in BOOLEAN /\ left' \in BOOLEAN
        BY <2>10, <3>2, Zenon DEF ReplaceLockFile
      <4>1. file' \in 0..MaxNonce
        BY <2>10, <3>2, SMT DEF ReplaceLockFile, Replacing
      <4> QED
        BY <2>10, <3>2, <4>0, <4>1 DEF ReplaceLockFile, Replacing
    <3> QED
      BY <3>1, <3>2
  <2>11. CASE RewriteFails(p)
    BY <2>11 DEF RewriteFails, Replacing
  <2>12. CASE Release(p)
    BY <2>12 DEF Release
  <2>13. CASE ReleaseAfterRewrites(p)
    BY <2>13 DEF ReleaseAfterRewrites
  <2>14. CASE RemoveOnRelease(p)
    <3>1. Removal(file = nonce[p])
      BY <2>14, OwnRemoval
    <3>2. /\ file' \in 0..MaxNonce
         /\ written' \in BOOLEAN /\ stale' \in BOOLEAN /\ left' \in BOOLEAN
      BY <3>1 DEF Removal
    <3> QED
      BY <2>14, <3>2 DEF RemoveOnRelease
  <2>15. CASE KillProcess(p)
    BY <2>15 DEF KillProcess
  <2> QED
    BY <1>1, <2>1, <2>2, <2>3, <2>4, <2>5, <2>6, <2>7, <2>8, <2>9, <2>10, <2>11,
       <2>12, <2>13, <2>14, <2>15 DEF ProcNext, Rewrites
<1>2. CASE TtlPasses
  BY <1>2 DEF TtlPasses
<1>3. CASE ForceChecked
  BY <1>3 DEF ForceChecked
<1>4. CASE ForceRemoves
  <2>1. Removal(FALSE)
    BY <1>4, OthersRemoval
  <2>2. /\ file' \in 0..MaxNonce
       /\ written' \in BOOLEAN /\ stale' \in BOOLEAN /\ left' \in BOOLEAN
    BY <2>1 DEF Removal
  <2> QED
    BY <1>4, <2>2 DEF ForceRemoves
<1>5. CASE UNCHANGED fileVars
  BY <1>5
<1> QED
  BY <1>1, <1>2, <1>3, <1>4, <1>5 DEF FileNext

(* The lock file's variables keep their types, whatever the calls and their order. *)
THEOREM FileTypeCorrect == FileSpec => []FileTypeOK
BY FileTypeInit, FileTypeStep, PTL DEF FileSpec

-----------------------------------------------------------------------------
(* Nothing was drawn, and nobody is late, to begin with. *)
LEMMA FileInvInit == FileInit => FileInv
<1> SUFFICES ASSUME FileInit PROVE FileInv
  OBVIOUS
<1>1. Drawn /\ \A p \in User : Whose(p)
  BY DEF FileInit, Drawn, Whose, Replacing
<1>2. NoOrphanFile
  BY DEF FileInit, NoOrphanFile
<1>3. InTime
  BY DEF FileInit, InTime
<1> QED
  BY <1>1, <1>2, <1>3, FileTypeInit DEF FileInv

(* Every file-system call keeps the invariant, whichever file it finds at the path. *)
LEMMA FileInvStep == FileInv /\ [FileNext]_fileVars => FileInv'
<1> SUFFICES ASSUME FileInv, [FileNext]_fileVars PROVE FileInv'
  OBVIOUS
<1>0. FileTypeOK /\ Drawn /\ (\A p \in User : Whose(p)) /\ NoOrphanFile /\ (~lapsed => InTime)
  BY DEF FileInv
<1>t. FileTypeOK'
  BY FileTypeStep DEF FileInv
<1> SUFFICES /\ Drawn' /\ (\A p \in User : Whose(p)') /\ NoOrphanFile'
             /\ (~lapsed => InTime)'
  BY <1>t DEF FileInv
<1> USE <1>0, <1>t DEF FileTypeOK, disk, fileVars, GoesTo, Puts, Own
<1>1. ASSUME NEW p \in User, ProcNext(p)
      PROVE  Drawn' /\ (\A q \in User : Whose(q)') /\ NoOrphanFile' /\ (~lapsed => InTime)'
  <2>1. CASE Acquire(p)
    <3>1. Drawn'
      BY <2>1 DEF Acquire, Drawn
    <3>2. \A q \in User : Whose(q)'
      BY <2>1 DEF Acquire, Drawn, Whose, Replacing
    <3>3. NoOrphanFile'
      BY <2>1 DEF Acquire, Drawn, Whose, Replacing, NoOrphanFile
    <3>4. (~lapsed => InTime)'
      BY <2>1 DEF Acquire, Drawn, Whose, Replacing, InTime
    <3> QED
      BY <3>1, <3>2, <3>3, <3>4
  <2>2. CASE TryCreate(p)
    <3>1. Drawn'
      BY <2>2 DEF TryCreate, Drawn
    <3>2. \A q \in User : Whose(q)'
      BY <2>2 DEF TryCreate, Drawn, Whose, Replacing
    <3>3. NoOrphanFile'
      BY <2>2 DEF TryCreate, Drawn, Whose, Replacing, NoOrphanFile
    <3>4. (~lapsed => InTime)'
      BY <2>2 DEF TryCreate, Drawn, Whose, Replacing, InTime
    <3> QED
      BY <3>1, <3>2, <3>3, <3>4
  <2>3. CASE WriteInfo(p)
    <3>1. Drawn'
      BY <2>3 DEF WriteInfo, Drawn
    <3>2. \A q \in User : Whose(q)'
      BY <2>3 DEF WriteInfo, Drawn, Whose, Replacing
    <3>3. NoOrphanFile'
      BY <2>3 DEF WriteInfo, Drawn, Whose, Replacing, NoOrphanFile
    <3>4. (~lapsed => InTime)'
      BY <2>3 DEF WriteInfo, Drawn, Whose, Replacing, InTime
    <3> QED
      BY <3>1, <3>2, <3>3, <3>4
  <2>4. CASE WriteFails(p)
    <3>0. Removal(file = nonce[p])
      BY <2>4, OwnRemoval
    <3>1. Drawn'
      BY <2>4, <3>0 DEF WriteFails, Drawn, Removal
    <3>2. \A q \in User : Whose(q)'
      BY <2>4, <3>0 DEF WriteFails, Drawn, Whose, Replacing, Removal
    <3>3. NoOrphanFile'
      BY <2>4, <3>0 DEF WriteFails, Drawn, Whose, Replacing, NoOrphanFile, Removal
    <3>4. (~lapsed => InTime)'
      BY <2>4, <3>0 DEF WriteFails, Drawn, Whose, Replacing, InTime, Removal
    <3> QED
      BY <3>1, <3>2, <3>3, <3>4
  <2>5. CASE ReadHolder(p)
    <3>1. Drawn'
      BY <2>5 DEF ReadHolder, Removable, Drawn
    <3>2. \A q \in User : Whose(q)'
      BY <2>5 DEF ReadHolder, Removable, Drawn, Whose, Replacing
    <3>3. NoOrphanFile'
      BY <2>5 DEF ReadHolder, Removable, Drawn, Whose, Replacing, NoOrphanFile
    <3>4. (~lapsed => InTime)'
      BY <2>5 DEF ReadHolder, Removable, Drawn, Whose, Replacing, InTime
    <3> QED
      BY <3>1, <3>2, <3>3, <3>4
  <2>6. CASE ClearStaleHolder(p)
    <3>0. Removal(FALSE)
      BY <2>6, OthersRemoval
    <3>1. Drawn'
      BY <2>6, <3>0 DEF ClearStaleHolder, Drawn, Removal
    <3>2. \A q \in User : Whose(q)'
      BY <2>6, <3>0 DEF ClearStaleHolder, Drawn, Whose, Replacing, Removal
    <3>3. NoOrphanFile'
      BY <2>6, <3>0 DEF ClearStaleHolder, Drawn, Whose, Replacing, NoOrphanFile, Removal
    <3>4. (~lapsed => InTime)'
      BY <2>6, <3>0 DEF ClearStaleHolder, Drawn, Whose, Replacing, InTime, Removal
    <3> QED
      BY <3>1, <3>2, <3>3, <3>4
  <2>7. CASE GiveUpLock(p)
    <3>1. Drawn'
      BY <2>7 DEF GiveUpLock, Drawn
    <3>2. \A q \in User : Whose(q)'
      BY <2>7 DEF GiveUpLock, Drawn, Whose, Replacing
    <3>3. NoOrphanFile'
      BY <2>7 DEF GiveUpLock, Drawn, Whose, Replacing, NoOrphanFile
    <3>4. (~lapsed => InTime)'
      BY <2>7 DEF GiveUpLock, Drawn, Whose, Replacing, InTime
    <3> QED
      BY <3>1, <3>2, <3>3, <3>4
  <2>8. CASE Heartbeat(p)
    <3>1. Drawn'
      BY <2>8 DEF Heartbeat, Drawn
    <3>2. \A q \in User : Whose(q)'
      BY <2>8 DEF Heartbeat, Drawn, Whose, Replacing
    <3>3. NoOrphanFile'
      BY <2>8 DEF Heartbeat, Drawn, Whose, Replacing, NoOrphanFile
    <3>4. (~lapsed => InTime)'
      BY <2>8 DEF Heartbeat, Drawn, Whose, Replacing, InTime
    <3> QED
      BY <3>1, <3>2, <3>3, <3>4
  <2>9. CASE Rekey(p)
    <3>1. Drawn'
      BY <2>9 DEF Rekey, Drawn
    <3>2. \A q \in User : Whose(q)'
      BY <2>9 DEF Rekey, Drawn, Whose, Replacing
    <3>3. NoOrphanFile'
      BY <2>9 DEF Rekey, Drawn, Whose, Replacing, NoOrphanFile
    <3>4. (~lapsed => InTime)'
      BY <2>9 DEF Rekey, Drawn, Whose, Replacing, InTime
    <3> QED
      BY <3>1, <3>2, <3>3, <3>4
  <2>10. CASE StillOwned(p)
    <3>1. Drawn'
      BY <2>10 DEF StillOwned, Write, Drawn
    <3>2. \A q \in User : Whose(q)'
      BY <2>10 DEF StillOwned, Write, Drawn, Whose, Replacing
    <3>3. NoOrphanFile'
      BY <2>10 DEF StillOwned, Write, Drawn, Whose, Replacing, NoOrphanFile
    <3>4. (~lapsed => InTime)'
      BY <2>10 DEF StillOwned, Write, Drawn, Whose, Replacing, InTime
    <3> QED
      BY <3>1, <3>2, <3>3, <3>4
  <2>11. CASE ReplaceLockFile(p)
    <3>1. Drawn'
      BY <2>11 DEF ReplaceLockFile, Replacing, Drawn
    <3>2. \A q \in User : Whose(q)'
      BY <2>11 DEF ReplaceLockFile, Replacing, Drawn, Whose
    <3>3. NoOrphanFile'
      BY <2>11 DEF ReplaceLockFile, Replacing, Drawn, Whose, NoOrphanFile
    <3>4. (~lapsed => InTime)'
      BY <2>11 DEF ReplaceLockFile, Replacing, Drawn, Whose, InTime
    <3> QED
      BY <3>1, <3>2, <3>3, <3>4
  <2>12. CASE RewriteFails(p)
    <3>1. Drawn'
      BY <2>12 DEF RewriteFails, Replacing, Drawn
    <3>2. \A q \in User : Whose(q)'
      BY <2>12 DEF RewriteFails, Replacing, Drawn, Whose
    <3>3. NoOrphanFile'
      BY <2>12 DEF RewriteFails, Replacing, Drawn, Whose, NoOrphanFile
    <3>4. (~lapsed => InTime)'
      BY <2>12 DEF RewriteFails, Replacing, Drawn, Whose, InTime
    <3> QED
      BY <3>1, <3>2, <3>3, <3>4
  <2>13. CASE Release(p)
    <3>1. Drawn'
      BY <2>13 DEF Release, Drawn
    <3>2. \A q \in User : Whose(q)'
      BY <2>13 DEF Release, Drawn, Whose, Replacing
    <3>3. NoOrphanFile'
      BY <2>13 DEF Release, Drawn, Whose, Replacing, NoOrphanFile
    <3>4. (~lapsed => InTime)'
      BY <2>13 DEF Release, Drawn, Whose, Replacing, InTime
    <3> QED
      BY <3>1, <3>2, <3>3, <3>4
  <2>14. CASE ReleaseAfterRewrites(p)
    <3>1. Drawn'
      BY <2>14 DEF ReleaseAfterRewrites, Drawn
    <3>2. \A q \in User : Whose(q)'
      BY <2>14 DEF ReleaseAfterRewrites, Drawn, Whose, Replacing
    <3>3. NoOrphanFile'
      BY <2>14 DEF ReleaseAfterRewrites, Drawn, Whose, Replacing, NoOrphanFile
    <3>4. (~lapsed => InTime)'
      BY <2>14 DEF ReleaseAfterRewrites, Drawn, Whose, Replacing, InTime
    <3> QED
      BY <3>1, <3>2, <3>3, <3>4
  <2>15. CASE RemoveOnRelease(p)
    <3>0. Removal(file = nonce[p])
      BY <2>15, OwnRemoval
    <3>1. Drawn'
      BY <2>15, <3>0 DEF RemoveOnRelease, Drawn, Removal
    <3>2. \A q \in User : Whose(q)'
      BY <2>15, <3>0 DEF RemoveOnRelease, Drawn, Whose, Replacing, Removal
    <3>3. NoOrphanFile'
      BY <2>15, <3>0 DEF RemoveOnRelease, Drawn, Whose, Replacing, NoOrphanFile, Removal
    <3>4. (~lapsed => InTime)'
      BY <2>15, <3>0 DEF RemoveOnRelease, Drawn, Whose, Replacing, InTime, Removal
    <3> QED
      BY <3>1, <3>2, <3>3, <3>4
  <2>16. CASE KillProcess(p)
    <3>1. Drawn'
      BY <2>16 DEF KillProcess, Drawn
    <3>2. \A q \in User : Whose(q)'
      BY <2>16 DEF KillProcess, Drawn, Whose, Replacing
    <3>3. NoOrphanFile'
      BY <2>16 DEF KillProcess, Drawn, Whose, Replacing, NoOrphanFile
    <3>4. (~lapsed => InTime)'
      BY <2>16 DEF KillProcess, Drawn, Whose, Replacing, InTime
    <3> QED
      BY <3>1, <3>2, <3>3, <3>4
  <2> QED
    BY <1>1, <2>1, <2>2, <2>3, <2>4, <2>5, <2>6, <2>7, <2>8, <2>9, <2>10, <2>11, <2>12, <2>13, <2>14, <2>15, <2>16 DEF ProcNext, Rewrites
<1>2. CASE TtlPasses
  <2>1. Drawn'
    BY <1>2 DEF TtlPasses, Drawn
  <2>2. \A q \in User : Whose(q)'
    BY <1>2 DEF TtlPasses, Drawn, Whose, Replacing
  <2>3. NoOrphanFile'
    BY <1>2 DEF TtlPasses, Drawn, Whose, Replacing, NoOrphanFile
  <2>4. (~lapsed => InTime)'
    BY <1>2 DEF TtlPasses, Drawn, Whose, Replacing, InTime
  <2> QED
    BY <2>1, <2>2, <2>3, <2>4
<1>3. CASE ForceChecked
  <2>1. Drawn'
    BY <1>3 DEF ForceChecked, Drawn
  <2>2. \A q \in User : Whose(q)'
    BY <1>3 DEF ForceChecked, Drawn, Whose, Replacing
  <2>3. NoOrphanFile'
    BY <1>3 DEF ForceChecked, Drawn, Whose, Replacing, NoOrphanFile
  <2>4. (~lapsed => InTime)'
    BY <1>3 DEF ForceChecked, Drawn, Whose, Replacing, InTime
  <2> QED
    BY <2>1, <2>2, <2>3, <2>4
<1>4. CASE ForceRemoves
  <2>0. Removal(FALSE)
    BY <1>4, OthersRemoval
  <2>1. Drawn'
    BY <1>4, <2>0 DEF ForceRemoves, Drawn, Removal
  <2>2. \A q \in User : Whose(q)'
    BY <1>4, <2>0 DEF ForceRemoves, Drawn, Whose, Replacing, Removal
  <2>3. NoOrphanFile'
    BY <1>4, <2>0 DEF ForceRemoves, Drawn, Whose, Replacing, NoOrphanFile, Removal
  <2>4. (~lapsed => InTime)'
    BY <1>4, <2>0 DEF ForceRemoves, Drawn, Whose, Replacing, InTime, Removal
  <2> QED
    BY <2>1, <2>2, <2>3, <2>4
<1>5. CASE UNCHANGED fileVars
  <2>1. Drawn'
    BY <1>5 DEF Drawn
  <2>2. \A q \in User : Whose(q)'
    BY <1>5 DEF Drawn, Whose, Replacing
  <2>3. NoOrphanFile'
    BY <1>5 DEF Drawn, Whose, Replacing, NoOrphanFile
  <2>4. (~lapsed => InTime)'
    BY <1>5 DEF Drawn, Whose, Replacing, InTime
  <2> QED
    BY <2>1, <2>2, <2>3, <2>4
<1> QED
  BY <1>1, <1>2, <1>3, <1>4, <1>5 DEF FileNext

(* The lock file's invariant: whoever is past the creation of the file and not revoked
   finds its own nonce in it, or another's call replaced or removed the file.          *)
THEOREM FileInvariant == FileSpec => []FileInv
BY FileInvInit, FileInvStep, PTL DEF FileSpec

(* While no holder was late, killed or forced out, at most one process holds the lock,
   however many wait, re-key, fail and release (acquire, clearStaleHolder, release).   *)
THEOREM LockIsExclusive == FileSpec => []Exclusive
<1>1. FileInv => Exclusive
  <2> SUFFICES ASSUME FileInv, ~lapsed, NEW p \in User, NEW q \in User,
                      holding[p], holding[q]
               PROVE  p = q
    BY DEF Exclusive
  <2>1. file = nonce[p] /\ file = nonce[q] /\ nonce[p] # 0
    BY DEF FileInv, Whose, Replacing, InTime, Drawn
  <2> QED
    BY <2>1 DEF FileInv, Drawn
<1> QED
  BY <1>1, FileInvariant, PTL

(* No lock file is ever left that belongs to nobody, not even after kills, late holders
   and forced releases, but the file of a process that was killed or failed to remove or
   to read that very file (release, extend, rekey, tryCreate).                           *)
THEOREM FileHasOwner == FileSpec => []NoOrphanFile
<1>1. FileInv => NoOrphanFile
  BY DEF FileInv
<1> QED
  BY <1>1, FileInvariant, PTL

=============================================================================
