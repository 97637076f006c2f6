-------------------------- MODULE WriterLeaseProofs --------------------------
(***************************************************************************)
(* Proofs about WriterLease for any set of processes, any bound on fences  *)
(* and commits and any set of faults.                                      *)
(***************************************************************************)
EXTENDS WriterLease, TLAPS

USE FenceAssumption, CommitAssumption, ProcAssumption

TypeShape == TypeOK /\ \A p \in Proc : Shape(p)

(* Types and how a process's place in the code ties its variables together. *)
LEMMA TypeShapeInit == Init => TypeShape
BY DEF Init, TypeShape, TypeOK, Shape, Fence, Fence0, PCs, Modes, Taking, Commit

(* One case per action: each keeps every variable in its type and in shape. *)
LEMMA TypeShapeStep == TypeShape /\ [Next]_vars => TypeShape'
<1> SUFFICES ASSUME TypeShape, [Next]_vars PROVE TypeShape'
  OBVIOUS
<1> USE DEF TypeShape, TypeOK, Shape, Fence, Fence0, PCs, Modes, Taking, Goto,
            keys, store, units, take, held, vars
<1>1. ASSUME NEW p \in Proc, Lease(p) PROVE TypeShape'
  <2>1. CASE StartAcquire(p)
    BY <2>1 DEF StartAcquire, Start
  <2>2. CASE StartRetake(p)
    <3>1. TypeOK'
      BY <2>2 DEF StartRetake, Start
    <3>2. \A q \in Proc : Shape(q)'
      BY <2>2 DEF StartRetake, Start
    <3> QED
      BY <3>1, <3>2
  <2>3. CASE ReadList(p)
    <3>1. TypeOK'
      BY <2>3 DEF ReadList, NextFence, Max2
    <3>2. \A q \in Proc : Shape(q)'
      BY <2>3 DEF ReadList, NextFence, Max2
    <3> QED
      BY <3>1, <3>2
  <2>4. CASE JudgeExpired(p)
    BY <2>4 DEF JudgeExpired
  <2>5. CASE JudgeHeld(p)
    <3>1. TypeOK'
      BY <2>5 DEF JudgeHeld
    <3>2. \A q \in Proc : Shape(q)'
      BY <2>5 DEF JudgeHeld
    <3> QED
      BY <3>1, <3>2
  <2>6. CASE Retry(p)
    BY <2>6 DEF Retry
  <2>7. CASE Busy(p)
    <3>0. /\ pc' \in [Proc -> PCs]
          /\ mode' \in [Proc -> Modes]
          /\ want' \in [Proc -> Fence0] /\ floor' \in [Proc -> Fence0]
      BY <2>7 DEF Busy, TakeEnds, AfterFailure
    <3>1. TypeOK'
      BY <2>7, <3>0 DEF Busy, TakeEnds
    <3>2. \A q \in Proc : Shape(q)'
      BY <2>7 DEF Busy, TakeEnds, AfterFailure
    <3> QED
      BY <3>1, <3>2
  <2>8. CASE Create(p)
    <3>1. TypeOK'
      BY <2>8 DEF Create
    <3>2. \A q \in Proc : Shape(q)'
      BY <2>8 DEF Create
    <3> QED
      BY <3>1, <3>2
  <2>9. CASE CreateRefused(p)
    <3>1. pc' \in [Proc -> PCs] /\ want' \in [Proc -> Fence0]
      BY <2>9 DEF CreateRefused, TakeLost
    <3>2. TypeOK'
      BY <2>9, <3>1 DEF CreateRefused
    <3>3. \A q \in Proc : Shape(q)'
      BY <2>9 DEF CreateRefused, TakeLost
    <3> QED
      BY <3>2, <3>3
  <2>10. CASE TakeConfirmed(p)
    <3>0. pc' \in [Proc -> PCs] /\ won' \in [Proc -> SUBSET Fence]
      BY <2>10 DEF TakeConfirmed
    <3>1. TypeOK'
      BY <2>10, <3>0 DEF TakeConfirmed
    <3>2. \A q \in Proc : Shape(q)'
      BY <2>10 DEF TakeConfirmed
    <3> QED
      BY <3>1, <3>2
  <2>11. CASE TakeFenced(p)
    <3>0. pc' \in [Proc -> PCs] /\ want' \in [Proc -> Fence0]
      BY <2>11 DEF TakeFenced, TakeLost
    <3>1. TypeOK'
      BY <2>11, <3>0 DEF TakeFenced
    <3>2. \A q \in Proc : Shape(q)'
      BY <2>11 DEF TakeFenced, TakeLost
    <3> QED
      BY <3>1, <3>2
  <2>12. CASE TakeBeat(p)
    BY <2>12 DEF TakeBeat
  <2>13. CASE TakeRenewThrows(p)
    BY <2>13 DEF TakeRenewThrows
  <2>14. CASE PruneList(p)
    <3>1. TypeOK'
      BY <2>14 DEF PruneList
    <3>2. \A q \in Proc : Shape(q)'
      BY <2>14 DEF PruneList
    <3> QED
      BY <3>1, <3>2
  <2>15. CASE PruneKey(p)
    <3>1. PICK g \in doomed[p] :
             /\ doomed' = [doomed EXCEPT ![p] = @ \ {g}]
             /\ \/ rec' = [rec EXCEPT ![g] = NoOne] /\ rel' = rel \ {g}
                \/ UNCHANGED keys
      BY <2>15 DEF PruneKey
    <3>2. rec' \in [Fence -> Proc \cup {NoOne}] /\ rel' \subseteq Fence
      BY <3>1
    <3>3. doomed' \in [Proc -> SUBSET Fence]
      BY <3>1
    <3> QED
      BY <2>15, <3>2, <3>3 DEF PruneKey
  <2>16. CASE PruneDone(p)
    BY <2>16 DEF PruneDone
  <2>17. CASE PruneListThrows(p)
    BY <2>17 DEF PruneListThrows, TakeEnds, AfterFailure
  <2>18. CASE Raise(p)
    BY <2>18 DEF Raise, RaiseStore, TakeEnds, Max2
  <2>19. CASE RaiseRefused(p)
    BY <2>19 DEF RaiseRefused
  <2>20. CASE RaiseThrows(p)
    <3>1. want[p] \in Fence
      BY <2>20 DEF RaiseThrows
    <3>2. TypeOK'
      BY <2>20, <3>1 DEF RaiseThrows, RaiseStore, Max2
    <3>3. \A q \in Proc : Shape(q)'
      BY <2>20, <3>1 DEF RaiseThrows, RaiseStore, Max2
    <3> QED
      BY <3>2, <3>3
  <2>21. CASE GiveUp(p)
    <3>1. want[p] \in Fence
      BY <2>21 DEF GiveUp
    <3>5. rel' \subseteq rel \cup {want[p]}
      BY <2>21 DEF GiveUp
    <3>2. rel' \subseteq Fence
      BY <3>1, <3>5
    <3>3. TypeOK'
      BY <2>21, <3>2 DEF GiveUp, TakeEnds, AfterFailure
    <3>4. \A q \in Proc : Shape(q)'
      BY <2>21 DEF GiveUp, TakeEnds, AfterFailure
    <3> QED
      BY <3>3, <3>4
  <2>22. CASE StartAdvance(p)
    <3>1. TypeOK'
      BY <2>22 DEF StartAdvance
    <3>2. \A q \in Proc : Shape(q)'
      BY <2>22 DEF StartAdvance
    <3> QED
      BY <3>1, <3>2
  <2>23. CASE AdvanceTaken(p)
    <3>1. hold[p] \in Fence
      BY <2>23 DEF AdvanceTaken
    <3>2. rel' \subseteq rel \cup {hold[p]} /\ lost' \in [Proc -> BOOLEAN]
      BY <2>23 DEF AdvanceTaken, ReleaseOld, MarkOwn
    <3>3. TypeOK'
      BY <2>23, <3>1, <3>2 DEF AdvanceTaken
    <3>4. \A q \in Proc : Shape(q)'
      BY <2>23 DEF AdvanceTaken
    <3> QED
      BY <3>3, <3>4
  <2>27. CASE AdvanceLost(p)
    <3>1. hold[p] \in Fence
      BY <2>27 DEF AdvanceLost
    <3>2. rel' \subseteq rel \cup {hold[p]} /\ lost' \in [Proc -> BOOLEAN]
      BY <2>27 DEF AdvanceLost, ReleaseOld, MarkOwn
    <3>3. TypeOK'
      BY <2>27, <3>1, <3>2 DEF AdvanceLost, TakeEnds
    <3>4. \A q \in Proc : Shape(q)'
      BY <2>27 DEF AdvanceLost, TakeEnds
    <3> QED
      BY <3>3, <3>4
  <2>24. CASE FindLost(p)
    BY <2>24 DEF FindLost
  <2>25. CASE EndHold(p)
    BY <2>25 DEF EndHold
  <2>26. CASE EndMark(p)
    <3>1. hold[p] \in Fence
      BY <2>26 DEF EndMark
    <3>5. rel' \subseteq rel \cup {hold[p]}
      BY <2>26 DEF EndMark, MarkOwn
    <3>2. rel' \subseteq Fence
      BY <3>1, <3>5
    <3>3. TypeOK'
      BY <2>26, <3>2 DEF EndMark, Forget
    <3>4. \A q \in Proc : Shape(q)'
      BY <2>26 DEF EndMark, Forget
    <3> QED
      BY <3>3, <3>4
  <2> QED
    BY <1>1, <2>1, <2>2, <2>3, <2>4, <2>5, <2>6, <2>7, <2>8, <2>9, <2>10,
       <2>11, <2>12, <2>13, <2>14, <2>15, <2>16, <2>17, <2>18, <2>19, <2>20,
       <2>21, <2>22, <2>23, <2>24, <2>25, <2>26, <2>27 DEF Lease
<1>2. ASSUME NEW p \in Proc, Work(p) PROVE TypeShape'
  <2>1. CASE OpenUnit(p)
    BY <2>1 DEF OpenUnit
  <2>2. CASE SendCommit(p)
    BY <2>2 DEF SendCommit
  <2>3. CASE CloseUnit(p)
    BY <2>3 DEF CloseUnit
  <2>4. CASE StoreAppend(p)
    <3>1. unit[p] \in Fence
      BY <2>4 DEF StoreAppend
    <3>2. log' \in Seq(Commit)
      BY <2>4, <3>1 DEF StoreAppend, Commit
    <3> QED
      BY <2>4, <3>2 DEF StoreAppend
  <2>5. CASE StoreRefuse(p)
    BY <2>5 DEF StoreRefuse
  <2> QED
    BY <1>2, <2>1, <2>2, <2>3, <2>4, <2>5 DEF Work
<1>3. ASSUME NEW p \in Proc, Crash(p) PROVE TypeShape'
  BY <1>3 DEF Crash, Forget
<1>4. CASE ForceRelease
  BY <1>4 DEF ForceRelease
<1>5. CASE UNCHANGED vars
  BY <1>5
<1> QED
  BY <1>1, <1>2, <1>3, <1>4, <1>5 DEF Next

(* Type correctness of every variable, for every instance. *)
THEOREM TypeCorrect == Spec => []TypeOK
<1>1. TypeShape => TypeOK
  BY DEF TypeShape
<1> QED
  BY TypeShapeInit, TypeShapeStep, <1>1, PTL DEF Spec

-----------------------------------------------------------------------------
(* Which actions change the variables that processes share or that record what
   a process has achieved.                                                    *)
LEMMA Frames ==
  Next => /\ UNCHANGED rec \/ \E p \in Proc : Create(p) \/ PruneKey(p)
          /\ UNCHANGED won \/ \E p \in Proc : TakeConfirmed(p)
          /\ \/ UNCHANGED <<storeFence, raiser>>
             \/ \E p \in Proc : /\ Raise(p) \/ RaiseThrows(p)
                                /\ RaiseStore(p)
          /\ UNCHANGED log \/ \E p \in Proc : StoreAppend(p)
<1> USE DEF keys, store, units, take, held
<1>1. ASSUME NEW p \in Proc, Lease(p)
      PROVE  /\ UNCHANGED rec \/ Create(p) \/ PruneKey(p)
             /\ UNCHANGED won \/ TakeConfirmed(p)
             /\ \/ UNCHANGED <<storeFence, raiser>>
                \/ (Raise(p) \/ RaiseThrows(p)) /\ RaiseStore(p)
             /\ UNCHANGED log
  BY <1>1 DEF Lease, StartAcquire, StartRetake, Start, ReadList, JudgeExpired,
              JudgeHeld, Retry, Busy, Create, CreateRefused, TakeConfirmed,
              TakeFenced, TakeBeat, TakeRenewThrows, PruneList, PruneKey,
              PruneDone, PruneListThrows, Raise, RaiseRefused, RaiseThrows,
              GiveUp, StartAdvance, AdvanceTaken, AdvanceLost, FindLost, EndHold,
              EndMark
<1>2. ASSUME NEW p \in Proc, Work(p)
      PROVE  /\ UNCHANGED <<rec, won, storeFence, raiser>>
             /\ UNCHANGED log \/ StoreAppend(p)
  BY <1>2 DEF Work, OpenUnit, SendCommit, CloseUnit, StoreAppend, StoreRefuse
<1>3. ASSUME NEW p \in Proc, Crash(p)
      PROVE  UNCHANGED <<rec, won, storeFence, raiser, log>>
  BY <1>3 DEF Crash
<1>4. CASE ForceRelease
  BY <1>4 DEF ForceRelease
<1> QED
  BY <1>1, <1>2, <1>3, <1>4 DEF Next

(* A fence that has a higher one keeps having one, and what backs a process's
   claim to a fence survives every step: a prune removes records only below the
   record of the process that prunes or below a higher one.                    *)
LEMMA RecStep ==
  TypeShape /\ (\A p \in Proc : Owned(p)) /\ [Next]_vars =>
     /\ \A f \in Nat : HigherThan(f) => HigherThan(f)'
     /\ \A f \in Nat : AtLeast(f) => AtLeast(f)'
     /\ \A p \in Proc, f \in Fence : Backed(p, f) => Backed(p, f)'
<1> SUFFICES ASSUME TypeShape, \A p \in Proc : Owned(p), [Next]_vars
             PROVE  /\ \A f \in Nat : HigherThan(f) => HigherThan(f)'
                    /\ \A f \in Nat : AtLeast(f) => AtLeast(f)'
                    /\ \A p \in Proc, f \in Fence : Backed(p, f) => Backed(p, f)'
  OBVIOUS
<1> USE DEF TypeShape, TypeOK, HigherThan, AtLeast, Backed, Fence, Fence0
<1>1. CASE UNCHANGED rec
  BY <1>1
<1>2. ASSUME NEW q \in Proc, Create(q)
      PROVE  /\ \A f \in Nat : HigherThan(f) => HigherThan(f)'
             /\ \A f \in Nat : AtLeast(f) => AtLeast(f)'
             /\ \A p \in Proc, f \in Fence : Backed(p, f) => Backed(p, f)'
  <2>1. want[q] \in Fence /\ rec[want[q]] = NoOne
    BY <1>2 DEF Create, Shape
  <2>2. rec' = [rec EXCEPT ![want[q]] = q] /\ q # NoOne
    BY <1>2 DEF Create
  <2>3. \A g \in Fence : rec[g] # NoOne => rec'[g] = rec[g]
    BY <2>1, <2>2
  <2> QED
    BY <2>3
<1>3. ASSUME NEW q \in Proc, PruneKey(q)
      PROVE  /\ \A f \in Nat : HigherThan(f) => HigherThan(f)'
             /\ \A f \in Nat : AtLeast(f) => AtLeast(f)'
             /\ \A p \in Proc, f \in Fence : Backed(p, f) => Backed(p, f)'
  <2>1. PICK g \in doomed[q] : \/ rec' = [rec EXCEPT ![g] = NoOne]
                               \/ UNCHANGED rec
    BY <1>3 DEF PruneKey, keys
  <2>2. g \in Fence /\ want[q] \in Fence /\ g + 1 < want[q]
    BY <1>3 DEF PruneKey, Owned, Shape
  <2>3. PICK h \in Fence : h >= want[q] /\ rec[h] # NoOne
    <3>1. Backed(q, want[q])
      BY <1>3 DEF PruneKey, Owned, Created
    <3>2. q # NoOne
      BY ProcAssumption
    <3> QED
      BY <2>2, <3>1, <3>2
  <2>4. h > g /\ rec'[h] = rec[h]
    BY <2>1, <2>2, <2>3
  <2>5. \A x \in Fence : x # g => rec'[x] = rec[x]
    BY <2>1
  <2>6. ASSUME NEW f \in Nat, AtLeast(f) PROVE AtLeast(f)'
    <3>1. PICK x \in Fence : x >= f /\ rec[x] # NoOne
      BY <2>6
    <3>2. CASE x = g
      <4>1. h >= f /\ rec'[h] # NoOne
        BY <2>2, <2>3, <2>4, <3>1, <3>2
      <4> QED
        BY <4>1
    <3>3. CASE x # g
      BY <2>5, <3>1, <3>3
    <3> QED
      BY <3>2, <3>3
  <2>7. ASSUME NEW f \in Nat, HigherThan(f) PROVE HigherThan(f)'
    <3>1. PICK x \in Fence : x > f /\ rec[x] # NoOne
      BY <2>7
    <3>2. CASE x = g
      <4>1. h > f /\ rec'[h] # NoOne
        BY <2>2, <2>3, <2>4, <3>1, <3>2
      <4> QED
        BY <4>1
    <3>3. CASE x # g
      BY <2>5, <3>1, <3>3
    <3> QED
      BY <3>2, <3>3
  <2>8. ASSUME NEW p \in Proc, NEW f \in Fence, Backed(p, f) PROVE Backed(p, f)'
    <3>1. CASE HigherThan(f)
      <4>1. f \in Nat
        OBVIOUS
      <4>2. HigherThan(f)'
        BY <2>7, <3>1, <4>1
      <4> QED
        BY <4>2
    <3>2. CASE f = g
      BY <2>2, <2>3, <2>4, <3>2
    <3>3. CASE f # g /\ rec[f] = p
      BY <2>5, <3>3
    <3> QED
      BY <2>8, <3>1, <3>2, <3>3
  <2> QED
    BY <2>6, <2>7, <2>8
<1> QED
  BY <1>1, <1>2, <1>3, Frames DEF vars, keys

(* The store's fence and the confirmed fences only grow. *)
LEMMA Monotone ==
  TypeShape /\ [Next]_vars =>
     /\ storeFence <= storeFence'
     /\ \A q \in Proc : won[q] \subseteq won'[q]
<1> SUFFICES ASSUME TypeShape, [Next]_vars
             PROVE  /\ storeFence <= storeFence'
                    /\ \A q \in Proc : won[q] \subseteq won'[q]
  OBVIOUS
<1> USE DEF TypeShape, TypeOK, Fence, Fence0
<1>1. storeFence <= storeFence'
  <2>1. ASSUME NEW p \in Proc, RaiseStore(p) PROVE storeFence <= storeFence'
    BY <2>1 DEF RaiseStore, Max2
  <2> QED
    BY <2>1, Frames DEF vars, store
<1>2. \A q \in Proc : won[q] \subseteq won'[q]
  <2>1. ASSUME NEW p \in Proc, TakeConfirmed(p)
        PROVE  \A q \in Proc : won[q] \subseteq won'[q]
    BY <2>1 DEF TakeConfirmed
  <2> QED
    BY <2>1, Frames DEF vars
<1> QED
  BY <1>1, <1>2

\* A step that leaves the variables of process q alone.
Same(q) ==
    /\ pc'[q] = pc[q] /\ want'[q] = want[q] /\ floor'[q] = floor[q]
    /\ doomed'[q] = doomed[q] /\ hold'[q] = hold[q] /\ unit'[q] = unit[q]
    /\ won'[q] = won[q]

(* What a process owns, it still owns after a step of another. *)
LEMMA Untouched ==
  IInv /\ [Next]_vars => \A q \in Proc : Same(q) => Owned(q)' /\ Contiguous(q)'
<1> SUFFICES ASSUME IInv, [Next]_vars, NEW q \in Proc, Same(q)
             PROVE  Owned(q)' /\ Contiguous(q)'
  OBVIOUS
<1>1. TypeShape /\ TypeShape'
  BY TypeShapeStep DEF IInv, TypeShape
<1>2. /\ \A f \in Nat : AtLeast(f) => AtLeast(f)'
      /\ \A f \in Fence : Backed(q, f) => Backed(q, f)'
  BY <1>1, RecStep DEF IInv
<1>3. storeFence <= storeFence'
  BY <1>1, Monotone
<1>4. Owned(q) /\ Contiguous(q)
  BY DEF IInv
<1>5. /\ want[q] \in Fence0 /\ hold[q] \in Fence0 /\ unit[q] \in Fence0
      /\ floor[q] \in Fence0 /\ storeFence \in Nat /\ storeFence' \in Nat
      /\ won[q] \subseteq Fence
  BY <1>1 DEF TypeShape, TypeOK, Fence0
<1>6. (Created(q) => Backed(q, want[q]))'
  <2> SUFFICES ASSUME Created(q)' PROVE Backed(q, want[q])'
    OBVIOUS
  <2>1. Created(q) /\ want[q] \in Fence
    BY <1>1, <1>5 DEF Created, Same, TypeShape, Shape, Fence, Fence0
  <2>2. PICK w \in Fence : w = want[q]
    BY <2>1
  <2>3. Backed(q, w)'
    BY <1>2, <1>4, <2>1, <2>2 DEF Owned
  <2> QED
    BY <2>2, <2>3 DEF Same, Backed, HigherThan
<1>7. (\A f \in won[q] : Backed(q, f))'
  <2> SUFFICES ASSUME NEW f \in won'[q] PROVE Backed(q, f)'
    OBVIOUS
  <2>1. f \in won[q] /\ f \in Fence
    BY <1>5 DEF Same
  <2> QED
    BY <1>2, <1>4, <2>1 DEF Owned
<1>8. (pc[q] \in {"judge", "create"} => want[q] = 1 \/ AtLeast(want[q] - 1))'
  <2> SUFFICES ASSUME pc'[q] \in {"judge", "create"}, want'[q] # 1
               PROVE  AtLeast(want[q] - 1)'
    OBVIOUS
  <2>1. PICK w \in Nat : w = want[q] - 1
    BY <1>1, <1>5 DEF Same, TypeShape, Shape, Fence0
  <2>2. AtLeast(w)
    BY <1>4, <2>1 DEF Contiguous, Same
  <2>3. AtLeast(w)'
    BY <1>2, <2>2
  <2> QED
    BY <2>1, <2>3 DEF Same, AtLeast
<1>9. Owned(q)'
  BY <1>3, <1>4, <1>5, <1>6, <1>7 DEF Owned, Same, Created, Confirmed, Fence0
<1>10. Contiguous(q)'
  BY <1>3, <1>4, <1>5, <1>8 DEF Contiguous, Same, Fence0
<1> QED
  BY <1>9, <1>10

(* What the process that takes the step carries over, as far as the step leaves
   the variables concerned alone.                                             *)
LEMMA Carry ==
  IInv /\ [Next]_vars =>
    \A p \in Proc :
      /\ Created(p) /\ want'[p] = want[p] => Backed(p, want[p])'
      /\ \A f \in won[p] : Backed(p, f)'
      /\ hold[p] # 0 => hold[p] \in won'[p] /\ hold[p] <= storeFence'
      /\ unit[p] # 0 => unit[p] \in won'[p] /\ unit[p] <= storeFence'
      /\ pc[p] \in {"judge", "create"} /\ want'[p] = want[p]
           => want[p] = 1 \/ AtLeast(want[p] - 1)'
      /\ floor[p] <= storeFence'
<1> SUFFICES ASSUME IInv, [Next]_vars, NEW p \in Proc
             PROVE  /\ Created(p) /\ want'[p] = want[p] => Backed(p, want[p])'
                    /\ \A f \in won[p] : Backed(p, f)'
                    /\ hold[p] # 0 => hold[p] \in won'[p] /\ hold[p] <= storeFence'
                    /\ unit[p] # 0 => unit[p] \in won'[p] /\ unit[p] <= storeFence'
                    /\ pc[p] \in {"judge", "create"} /\ want'[p] = want[p]
                         => want[p] = 1 \/ AtLeast(want[p] - 1)'
                    /\ floor[p] <= storeFence'
  OBVIOUS
<1>1. TypeShape /\ TypeShape'
  BY TypeShapeStep DEF IInv, TypeShape
<1>2. /\ \A f \in Nat : AtLeast(f) => AtLeast(f)'
      /\ \A f \in Fence : Backed(p, f) => Backed(p, f)'
  BY <1>1, RecStep DEF IInv
<1>3. storeFence <= storeFence' /\ won[p] \subseteq won'[p]
  BY <1>1, Monotone
<1>4. Owned(p) /\ Contiguous(p) /\ Shape(p)
  BY DEF IInv
<1>5. /\ want[p] \in Fence0 /\ hold[p] \in Fence0 /\ unit[p] \in Fence0
      /\ floor[p] \in Fence0 /\ storeFence \in Nat /\ storeFence' \in Nat
      /\ won[p] \subseteq Fence
  BY <1>1 DEF TypeShape, TypeOK, Fence0
<1>6. ASSUME Created(p), want'[p] = want[p] PROVE Backed(p, want[p])'
  <2>1. PICK w \in Fence : w = want[p]
    BY <1>4, <1>5, <1>6 DEF Created, Shape, Fence, Fence0
  <2>2. Backed(p, w)'
    BY <1>2, <1>4, <1>6, <2>1 DEF Owned
  <2> QED
    BY <1>6, <2>1, <2>2 DEF Backed, HigherThan
<1>7. \A f \in won[p] : Backed(p, f)'
  BY <1>2, <1>4, <1>5 DEF Owned
<1>8. ASSUME pc[p] \in {"judge", "create"}, want'[p] = want[p], want[p] # 1
      PROVE  AtLeast(want[p] - 1)'
  <2>1. PICK w \in Nat : w = want[p] - 1
    BY <1>4, <1>5, <1>8 DEF Shape, Fence0
  <2>2. AtLeast(w)'
    BY <1>2, <1>4, <1>8, <2>1 DEF Contiguous
  <2> QED
    BY <1>8, <2>1, <2>2 DEF AtLeast
<1>9. /\ hold[p] # 0 => hold[p] \in won'[p] /\ hold[p] <= storeFence'
      /\ unit[p] # 0 => unit[p] \in won'[p] /\ unit[p] <= storeFence'
      /\ floor[p] <= storeFence'
  BY <1>3, <1>4, <1>5 DEF Owned, Contiguous, Fence0
<1> QED
  BY <1>6, <1>7, <1>8, <1>9

(* What a process owns, it still owns after a step of its own. *)
LEMMA OwnedStep ==
  IInv /\ [Next]_vars => \A p \in Proc : Owned(p)' /\ Contiguous(p)'
<1> SUFFICES ASSUME IInv, [Next]_vars
             PROVE  \A p \in Proc : Owned(p)' /\ Contiguous(p)'
  OBVIOUS
<1>1. TypeShape /\ TypeShape'
  BY TypeShapeStep DEF IInv, TypeShape
<1>2. ASSUME NEW p \in Proc,
             \A q \in Proc \ {p} : Same(q), Owned(p)', Contiguous(p)'
      PROVE  \A q \in Proc : Owned(q)' /\ Contiguous(q)'
  BY <1>2, Untouched
<1> DEFINE Others(p) == \A q \in Proc \ {p} : Same(q)
           Carried(p) ==
             /\ Created(p) /\ want'[p] = want[p] => Backed(p, want[p])'
             /\ \A f \in won[p] : Backed(p, f)'
             /\ hold[p] # 0 => hold[p] \in won'[p] /\ hold[p] <= storeFence'
             /\ unit[p] # 0 => unit[p] \in won'[p] /\ unit[p] <= storeFence'
             /\ pc[p] \in {"judge", "create"} /\ want'[p] = want[p]
                  => want[p] = 1 \/ AtLeast(want[p] - 1)'
             /\ floor[p] <= storeFence'
<1>3. ASSUME NEW p \in Proc PROVE Carried(p)
  BY <1>3, Carry
<1>4. ASSUME NEW p \in Proc PROVE Shape(p) /\ Owned(p) /\ Contiguous(p)
  BY DEF IInv
<1>5. ASSUME NEW p \in Proc, Lease(p) \/ Work(p) \/ Crash(p) PROVE Others(p)
  BY <1>1, <1>5 DEF Same, TypeShape, TypeOK, keys, store, units, take, held, Goto,
     TakeEnds, TakeLost, Start, Forget, ReleaseOld,
     Lease, StartAcquire, StartRetake, ReadList, JudgeExpired, JudgeHeld, Retry,
     Busy, Create, CreateRefused, TakeConfirmed, TakeFenced, TakeBeat,
     TakeRenewThrows, PruneList, PruneKey, PruneDone, PruneListThrows, Raise,
     RaiseRefused, RaiseThrows, GiveUp, StartAdvance, AdvanceTaken, AdvanceLost,
     FindLost, EndHold, EndMark,
     Work, OpenUnit, SendCommit, CloseUnit, StoreAppend, StoreRefuse, Crash
<1>6. ASSUME NEW p \in Proc, Lease(p) PROVE Owned(p)' /\ Contiguous(p)'
  <2> USE DEF Owned, Contiguous, Created, Confirmed, Goto, keys, store, units,
              take, held
  <2>101. /\ pc \in [Proc -> PCs] /\ want \in [Proc -> Fence0]
        /\ hold \in [Proc -> Fence0] /\ floor \in [Proc -> Fence0]
        /\ mode \in [Proc -> Modes]
        /\ won \in [Proc -> SUBSET Fence] /\ doomed \in [Proc -> SUBSET Fence]
        /\ storeFence \in Fence0 /\ storeFence' \in Fence0
    BY <1>1 DEF TypeShape, TypeOK
  <2>102. Carried(p) /\ Shape(p) /\ Owned(p) /\ Contiguous(p)
    BY <1>3, <1>4
  <2>1. CASE StartAcquire(p)
    BY <2>1, <2>101, <2>102 DEF StartAcquire, Start, Fence0
  <2>2. CASE StartRetake(p)
    BY <2>2, <2>101, <2>102 DEF StartRetake, Start, Fence0
  <2>3. CASE ReadList(p)
    <3>1. PICK h \in Fence0 : /\ IsHighest(h)
                              /\ want' = [want EXCEPT ![p] = NextFence(h, floor[p])]
      BY <2>3 DEF ReadList
    <3>2. storeFence <= h
      <4>1. SUFFICES ASSUME storeFence # 0 PROVE storeFence <= h
        BY <2>101 DEF Fence0
      <4>2. Backed(raiser, storeFence) /\ raiser # NoOne
        BY <1>4, <4>1, ProcAssumption DEF IInv, StoreOwned
      <4> QED
        BY <2>101, <3>1, <4>1, <4>2 DEF Backed, IsHighest, HigherThan, Fence, Fence0
    <3>3. NextFence(h, floor[p]) = h + 1
      BY <2>101, <2>102, <3>2 DEF NextFence, Max2, Fence0
    <3>4. want'[p] = h + 1
      BY <2>101, <3>1, <3>3
    <3>5. h # 0 => AtLeast(h)
      BY <3>1 DEF IsHighest, AtLeast, Fence, Fence0
    <3>6. h # 0 => AtLeast(want[p] - 1)'
      BY <2>3, <3>4, <3>5 DEF ReadList, AtLeast, Fence0
    <3>7. pc'[p] \in {"create", "judge"}
      BY <2>3, <2>101 DEF ReadList
    <3>8. want'[p] = 1 \/ AtLeast(want[p] - 1)'
      BY <3>4, <3>6 DEF Fence0
    <3> QED
      BY <2>3, <2>101, <2>102, <3>7, <3>8 DEF ReadList
  <2>4. CASE JudgeExpired(p)
    BY <2>4, <2>101, <2>102 DEF JudgeExpired
  <2>5. CASE JudgeHeld(p)
    BY <2>5, <2>101, <2>102 DEF JudgeHeld
  <2>6. CASE Retry(p)
    BY <2>6, <2>101, <2>102 DEF Retry
  <2>7. CASE Busy(p)
    BY <2>7, <2>101, <2>102 DEF Busy, TakeEnds, AfterFailure, Fence0
  <2>8. CASE Create(p)
    <3>1. want[p] \in Fence
      BY <2>8, <2>101, <2>102 DEF Create, Shape, Fence, Fence0
    <3>2. rec'[want'[p]] = p
      BY <1>1, <2>8, <3>1 DEF Create, TypeShape, TypeOK
    <3>3. Backed(p, want[p])'
      BY <3>2 DEF Backed
    <3> QED
      BY <2>8, <2>101, <2>102, <3>3 DEF Create
  <2>9. CASE CreateRefused(p)
    BY <2>9, <2>101, <2>102 DEF CreateRefused, TakeLost
  <2>10. CASE TakeConfirmed(p)
    BY <2>10, <2>101, <2>102 DEF TakeConfirmed
  <2>11. CASE TakeFenced(p)
    BY <2>11, <2>101, <2>102 DEF TakeFenced, TakeLost
  <2>12. CASE TakeBeat(p)
    BY <2>12, <2>101, <2>102 DEF TakeBeat
  <2>13. CASE TakeRenewThrows(p)
    BY <2>13, <2>101, <2>102 DEF TakeRenewThrows
  <2>14. CASE PruneList(p)
    BY <2>14, <2>101, <2>102 DEF PruneList, Outdated
  <2>15. CASE PruneKey(p)
    BY <2>15, <2>101, <2>102 DEF PruneKey
  <2>16. CASE PruneDone(p)
    BY <2>16, <2>101, <2>102 DEF PruneDone
  <2>17. CASE PruneListThrows(p)
    BY <2>17, <2>101, <2>102 DEF PruneListThrows, TakeEnds, AfterFailure, Fence0
  <2>18. CASE Raise(p)
    <3>1. want[p] \in won[p] /\ want[p] <= storeFence'
      BY <2>18, <2>101, <2>102 DEF Raise, RaiseStore, Max2, Fence0
    <3>2. hold'[p] = want[p] /\ floor'[p] = 0 /\ pc'[p] = "held"
      BY <2>18, <2>101 DEF Raise, TakeEnds
    <3> QED
      BY <2>18, <2>101, <2>102, <3>1, <3>2 DEF Raise, Fence0
  <2>19. CASE RaiseRefused(p)
    BY <2>19, <2>101, <2>102 DEF RaiseRefused
  <2>20. CASE RaiseThrows(p)
    BY <2>20, <2>101, <2>102 DEF RaiseThrows, RaiseStore, Max2
  <2>21. CASE GiveUp(p)
    BY <2>21, <2>101, <2>102 DEF GiveUp, TakeEnds, AfterFailure, Fence0
  <2>22. CASE StartAdvance(p)
    <3>1. hold[p] \in Fence /\ Backed(p, hold[p])
      BY <2>22, <2>101, <2>102 DEF StartAdvance, Shape, Fence, Fence0
    <3>2. AtLeast(hold[p])
      BY <3>1, ProcAssumption DEF Backed, HigherThan, AtLeast, Fence
    <3>3. want'[p] = hold[p] + 1 /\ rec' = rec /\ pc'[p] = "create"
      BY <2>22, <2>101 DEF StartAdvance
    <3>4. AtLeast(want[p] - 1)'
      BY <3>1, <3>2, <3>3 DEF AtLeast, Fence
    <3> QED
      BY <2>22, <2>101, <2>102, <3>3, <3>4 DEF StartAdvance
  <2>23. CASE AdvanceTaken(p)
    BY <2>23, <2>101, <2>102 DEF AdvanceTaken, ReleaseOld
  <2>24. CASE AdvanceLost(p)
    BY <2>24, <2>101, <2>102 DEF AdvanceLost, ReleaseOld, TakeEnds, Fence0
  <2>25. CASE FindLost(p)
    BY <2>25, <2>101, <2>102 DEF FindLost
  <2>26. CASE EndHold(p)
    BY <2>26, <2>101, <2>102 DEF EndHold
  <2>27. CASE EndMark(p)
    BY <2>27, <2>101, <2>102 DEF EndMark, Forget
  <2> QED
    BY <1>6, <2>1, <2>2, <2>3, <2>4, <2>5, <2>6, <2>7, <2>8, <2>9, <2>10,
       <2>11, <2>12, <2>13, <2>14, <2>15, <2>16, <2>17, <2>18, <2>19, <2>20,
       <2>21, <2>22, <2>23, <2>24, <2>25, <2>26, <2>27 DEF Lease
<1>7. ASSUME NEW p \in Proc, Work(p) \/ Crash(p) PROVE Owned(p)' /\ Contiguous(p)'
  <2>1. /\ pc \in [Proc -> PCs] /\ want \in [Proc -> Fence0]
        /\ hold \in [Proc -> Fence0] /\ floor \in [Proc -> Fence0]
        /\ unit \in [Proc -> Fence0] /\ doomed \in [Proc -> SUBSET Fence]
        /\ storeFence \in Fence0 /\ storeFence' \in Fence0
    BY <1>1 DEF TypeShape, TypeOK
  <2>2. Carried(p) /\ Shape(p) /\ Owned(p) /\ Contiguous(p)
    BY <1>3, <1>4
  <2>3. CASE Work(p)
    BY <2>1, <2>2, <2>3
    DEF Owned, Contiguous, Created, Confirmed, keys, store, units, take, held,
        Work, OpenUnit, SendCommit, CloseUnit, StoreAppend, StoreRefuse
  <2>4. CASE Crash(p)
    BY <2>1, <2>2, <2>4
    DEF Owned, Contiguous, Created, Confirmed, keys, store, Goto, Crash, Forget, Fence0
  <2> QED
    BY <1>7, <2>3, <2>4
<1>8. CASE ForceRelease \/ UNCHANGED vars
  <2>1. \A q \in Proc : Same(q)
    BY <1>8 DEF ForceRelease, Same, vars, units, take, held
  <2> QED
    BY <2>1, Untouched
<1> QED
  BY <1>2, <1>5, <1>6, <1>7, <1>8 DEF Next

(* The first renewal lets only the process through whose record the fence is:
   any earlier winner of the fence would still be backed by it.               *)
LEMMA OneWinnerStep == IInv /\ [Next]_vars => OneWinnerPerFence'
<1> SUFFICES ASSUME IInv, [Next]_vars PROVE OneWinnerPerFence'
  OBVIOUS
<1>1. CASE UNCHANGED won
  BY <1>1 DEF IInv, OneWinnerPerFence
<1>2. ASSUME NEW p \in Proc, TakeConfirmed(p) PROVE OneWinnerPerFence'
  <2>1. want[p] \in Fence /\ Backed(p, want[p]) /\ ~HigherThan(want[p])
    BY <1>2 DEF IInv, TypeOK, Shape, Owned, Created, TakeConfirmed, Fenced, Fence,
                Fence0
  <2>2. rec[want[p]] = p
    BY <2>1 DEF Backed
  <2>3. \A q \in Proc \ {p} : want[p] \notin won[q]
    BY <2>1, <2>2 DEF IInv, Owned, Backed
  <2>4. won' = [won EXCEPT ![p] = @ \cup {want[p]}]
    BY <1>2 DEF TakeConfirmed
  <2>5. \A q \in Proc \ {p} : won'[q] = won[q]
    BY <2>4 DEF IInv, TypeOK
  <2>6. won'[p] = won[p] \cup {want[p]}
    BY <2>4 DEF IInv, TypeOK
  <2> QED
    BY <2>3, <2>5, <2>6 DEF IInv, OneWinnerPerFence
<1> QED
  BY <1>1, <1>2, Frames DEF vars

(* A create lands next to an existing fence, and a prune leaves the fence below
   the pruner's own: no gap opens right under the highest fence.            *)
LEMMA PreviousStep == IInv /\ [Next]_vars => PreviousFenceKept'
<1> SUFFICES ASSUME IInv, [Next]_vars,
                    NEW f \in Fence, rec'[f] = NoOne, HigherThan(f)'
             PROVE  HigherThan(f + 1)'
  BY DEF PreviousFenceKept
<1> USE DEF Fence, Fence0
<1>1. PreviousFenceKept /\ TypeOK
  BY DEF IInv
<1>2. CASE UNCHANGED rec
  BY <1>1, <1>2 DEF PreviousFenceKept, HigherThan
<1>3. ASSUME NEW p \in Proc, Create(p) PROVE HigherThan(f + 1)'
  <2>1. want[p] \in Fence /\ (want[p] = 1 \/ AtLeast(want[p] - 1))
    BY <1>3 DEF IInv, TypeOK, Shape, Contiguous, Create
  <2>2. rec' = [rec EXCEPT ![want[p]] = p] /\ p # NoOne
    BY <1>3, ProcAssumption DEF Create
  <2>3. f # want[p] /\ rec[f] = NoOne
    BY <1>1, <2>1, <2>2 DEF TypeOK
  <2>4. \A x \in Fence : rec[x] # NoOne => rec'[x] # NoOne
    BY <1>1, <2>1, <2>2 DEF TypeOK
  <2>5. CASE HigherThan(f)
    <3>1. PICK x \in Fence : x > f + 1 /\ rec[x] # NoOne
      BY <1>1, <2>3, <2>5 DEF PreviousFenceKept, HigherThan
    <3> QED
      BY <2>4, <3>1 DEF HigherThan
  <2>6. CASE ~HigherThan(f)
    <3>1. want[p] > f
      BY <1>1, <2>1, <2>2, <2>6 DEF HigherThan, TypeOK
    <3>2. ~AtLeast(want[p] - 1)
      BY <2>1, <2>3, <2>6, <3>1 DEF HigherThan, AtLeast
    <3> QED
      BY <2>1, <3>1, <3>2
  <2> QED
    BY <2>5, <2>6
<1>4. ASSUME NEW p \in Proc, PruneKey(p) PROVE HigherThan(f + 1)'
  <2>1. PICK g \in doomed[p] : rec' = [rec EXCEPT ![g] = NoOne] \/ UNCHANGED rec
    BY <1>4 DEF PruneKey, keys
  <2>2. g \in Fence /\ want[p] \in Fence /\ g + 1 < want[p] /\ Backed(p, want[p])
    BY <1>4 DEF PruneKey, IInv, TypeOK, Owned, Shape, Created
  <2>3. PICK h \in Fence : h >= want[p] /\ rec[h] # NoOne
    BY <2>2, ProcAssumption DEF Backed, HigherThan
  <2>4. rec'[h] # NoOne /\ h > g + 1
    BY <1>1, <2>1, <2>2, <2>3 DEF TypeOK
  <2>5. CASE f = g
    BY <2>4, <2>5 DEF HigherThan
  <2>6. CASE f # g
    <3>1. rec[f] = NoOne /\ HigherThan(f)
      BY <1>1, <2>1, <2>2, <2>6 DEF TypeOK, HigherThan
    <3>2. PICK x \in Fence : x > f + 1 /\ rec[x] # NoOne
      BY <1>1, <3>1 DEF PreviousFenceKept, HigherThan
    <3>3. CASE x = g
      BY <2>4, <3>2, <3>3 DEF HigherThan
    <3>4. CASE x # g
      BY <1>1, <2>1, <2>2, <3>2, <3>4 DEF HigherThan, TypeOK
    <3> QED
      BY <3>3, <3>4
  <2> QED
    BY <2>5, <2>6
<1> QED
  BY <1>2, <1>3, <1>4, Frames DEF vars, keys

(* A commit the store takes names the fence its own process raised: it is not
   below the store's fence, and no unit is above it.                          *)
LEMMA AppendFact ==
  ASSUME IInv, NEW p \in Proc, StoreAppend(p)
  PROVE  unit[p] = storeFence /\ storeFence \in Fence /\ raiser = p
<1>1. unit[p] \in won[p] /\ unit[p] <= storeFence /\ unit[p] >= storeFence
  BY DEF StoreAppend, CheckWriterFence, IInv, Shape, Owned
<1>2. unit[p] \in Fence /\ storeFence \in Fence0
  BY <1>1 DEF IInv, TypeOK
<1>3. unit[p] = storeFence
  BY <1>1, <1>2 DEF Fence, Fence0
<1>4. raiser \in Proc /\ storeFence \in won[raiser]
  BY <1>2, <1>3 DEF IInv, StoreOwned, Fence
<1> QED
  BY <1>1, <1>2, <1>3, <1>4 DEF IInv, OneWinnerPerFence

(* The raise moves the store's fence to a confirmed one, and an append adds a
   commit of the process confirmed at it.                                   *)
LEMMA StoreStep == IInv /\ [Next]_vars => StoreOwned' /\ SingleWriterLog'
<1> SUFFICES ASSUME IInv, [Next]_vars PROVE StoreOwned' /\ SingleWriterLog'
  OBVIOUS
<1>1. TypeShape /\ TypeShape'
  BY TypeShapeStep DEF IInv, TypeShape
<1>2. storeFence <= storeFence' /\ \A q \in Proc : won[q] \subseteq won'[q]
  BY <1>1, Monotone
<1>3. /\ log \in Seq(Commit) /\ storeFence \in Nat /\ storeFence' \in Nat
      /\ \A i \in 1..Len(log) : log[i].fence \in Nat /\ log[i].by \in Proc
  <2>1. log \in Seq(Commit) /\ storeFence \in Nat /\ storeFence' \in Nat
    BY <1>1 DEF TypeShape, TypeOK, Fence0
  <2>2. \A i \in 1..Len(log) : log[i] \in Commit
    BY <2>1
  <2> QED
    BY <2>1, <2>2 DEF Commit, Fence
<1>4. (storeFence # 0 => raiser \in Proc /\ storeFence \in won[raiser])'
  <2>1. CASE UNCHANGED <<storeFence, raiser>>
    BY <1>2, <2>1 DEF IInv, StoreOwned
  <2>2. ASSUME NEW p \in Proc, Raise(p) \/ RaiseThrows(p), RaiseStore(p)
        PROVE  raiser' \in Proc /\ storeFence' \in won'[raiser']
    <3>1. want[p] \in won[p] /\ want[p] >= storeFence /\ want[p] \in Nat
      BY <1>1, <2>2 DEF Raise, RaiseThrows, CheckWriterFence, IInv, Owned,
                        Confirmed, TypeShape, TypeOK, Fence0
    <3>2. storeFence' = want[p] /\ raiser' = p
      BY <1>3, <2>2, <3>1 DEF RaiseStore, Max2
    <3> QED
      BY <1>2, <3>1, <3>2
  <2> QED
    BY <2>1, <2>2, Frames DEF vars, store
<1>5. CASE UNCHANGED log
  <2>1. \A i \in 1..Len(log) : /\ log[i].fence <= storeFence'
                               /\ log[i].fence \in won'[log[i].by]
    BY <1>2, <1>3 DEF IInv, StoreOwned
  <2> QED
    BY <1>4, <1>5, <2>1 DEF IInv, StoreOwned, SingleWriterLog
<1>6. ASSUME NEW p \in Proc, StoreAppend(p) PROVE StoreOwned' /\ SingleWriterLog'
  <2>1. /\ unit[p] = storeFence /\ raiser = p /\ storeFence \in won[p]
        /\ storeFence' = storeFence
    <3>1. storeFence \in won[raiser]
      BY <1>6, AppendFact DEF IInv, StoreOwned, Fence
    <3> QED
      BY <1>6, <3>1, AppendFact DEF StoreAppend
  <2>2. /\ Len(log') = Len(log) + 1
        /\ \A i \in 1..Len(log) : log'[i] = log[i]
        /\ log'[Len(log) + 1] = [fence |-> unit[p], by |-> p]
    BY <1>3, <1>6 DEF StoreAppend
  <2>3. \A i \in 1..Len(log) : /\ log[i].fence <= storeFence
                               /\ log[i].fence \in won[log[i].by]
                               /\ log[i].fence = storeFence => log[i].by = p
    BY <1>3, <2>1 DEF IInv, StoreOwned, OneWinnerPerFence
  <2>4. Len(log) \in Nat
    BY <1>3
  <2>5. StoreOwned'
    BY <1>2, <1>3, <1>4, <2>1, <2>2, <2>3, <2>4 DEF StoreOwned
  <2>6. SingleWriterLog'
    <3> SUFFICES ASSUME NEW i \in 1..Len(log'), NEW j \in 1..Len(log'), i < j
                 PROVE  \/ log'[i].fence < log'[j].fence
                        \/ log'[i].fence = log'[j].fence /\ log'[i].by = log'[j].by
      BY DEF SingleWriterLog
    <3>1. i \in 1..Len(log)
      BY <2>2, <2>4
    <3>2. CASE j \in 1..Len(log)
      BY <2>2, <3>1, <3>2 DEF IInv, SingleWriterLog
    <3>3. CASE j = Len(log) + 1
      BY <1>3, <2>1, <2>2, <2>3, <3>1, <3>3
    <3> QED
      BY <2>2, <2>4, <3>2, <3>3
  <2> QED
    BY <2>5, <2>6
<1> QED
  BY <1>5, <1>6, Frames DEF vars, store

(* IInv is an invariant for every set of processes, bound and set of faults. *)
THEOREM Invariant == Spec => []IInv
<1>1. Init => IInv
  <2> SUFFICES ASSUME Init PROVE IInv
    OBVIOUS
  <2>1. TypeShape
    BY TypeShapeInit
  <2>2. Len(log) = 0
    BY DEF Init
  <2>3. \A p \in Proc : Owned(p) /\ Contiguous(p)
    <3> SUFFICES ASSUME NEW p \in Proc PROVE Owned(p) /\ Contiguous(p)
      OBVIOUS
    <3>1. /\ pc[p] = "idle" /\ hold[p] = 0 /\ unit[p] = 0 /\ won[p] = {}
          /\ floor[p] = 0 /\ storeFence = 0
      BY DEF Init
    <3> QED
      BY <3>1 DEF Owned, Contiguous, Created, Confirmed
  <2>4. OneWinnerPerFence /\ PreviousFenceKept
    BY DEF Init, OneWinnerPerFence, PreviousFenceKept, HigherThan
  <2>5. StoreOwned /\ SingleWriterLog
    BY <2>2 DEF Init, StoreOwned, SingleWriterLog
  <2> QED
    BY <2>1, <2>3, <2>4, <2>5 DEF IInv, TypeShape
<1>2. IInv /\ [Next]_vars => IInv'
  <2> SUFFICES ASSUME IInv, [Next]_vars PROVE IInv'
    OBVIOUS
  <2>1. TypeShape'
    BY TypeShapeStep DEF IInv, TypeShape
  <2>2. \A p \in Proc : Owned(p)' /\ Contiguous(p)'
    BY OwnedStep
  <2>3. OneWinnerPerFence' /\ PreviousFenceKept' /\ StoreOwned' /\ SingleWriterLog'
    BY OneWinnerStep, PreviousStep, StoreStep
  <2> QED
    BY <2>1, <2>2, <2>3 DEF IInv, TypeShape
<1> QED
  BY <1>1, <1>2, PTL DEF Spec

(* No two processes are ever confirmed at one fence, a pruned and re-created one
   included, whatever the clocks of the judges say.                           *)
THEOREM WinnerIsUnique == Spec => []OneWinnerPerFence
<1>1. IInv => OneWinnerPerFence
  BY DEF IInv
<1> QED
  BY <1>1, Invariant, PTL

(* The commit store's log has one writer per fence and never goes back to a
   lower fence.                                                              *)
THEOREM LogHasOneWriter == Spec => []SingleWriterLog
<1>1. IInv => SingleWriterLog
  BY DEF IInv
<1> QED
  BY <1>1, Invariant, PTL

(* #prune's comment: the fence the last takeover replaced cannot be created
   again.                                                                    *)
THEOREM PruneKeepsPrevious == Spec => []PreviousFenceKept
<1>1. IInv => PreviousFenceKept
  BY DEF IInv
<1> QED
  BY <1>1, Invariant, PTL

(* The record of the highest fence is never deleted or rewritten. *)
THEOREM HighestStays == Spec => HighestFenceStays
<1>1. IInv /\ [Next]_vars =>
        [\A f \in Fence : rec[f] # NoOne /\ ~HigherThan(f) => rec'[f] = rec[f]]_vars
  <2> SUFFICES ASSUME IInv, Next,
                      NEW f \in Fence, rec[f] # NoOne, ~HigherThan(f)
               PROVE  rec'[f] = rec[f]
    BY DEF vars, keys
  <2>1. ASSUME NEW p \in Proc, Create(p) PROVE rec'[f] = rec[f]
    BY <2>1 DEF Create, IInv, TypeOK
  <2>2. ASSUME NEW p \in Proc, PruneKey(p) PROVE rec'[f] = rec[f]
    <3>1. PICK g \in doomed[p] : rec' = [rec EXCEPT ![g] = NoOne] \/ UNCHANGED rec
      BY <2>2 DEF PruneKey, keys
    <3>2. g \in Fence /\ want[p] \in Fence /\ g + 1 < want[p] /\ Backed(p, want[p])
      BY <2>2 DEF PruneKey, IInv, TypeOK, Owned, Shape, Created, Fence, Fence0
    <3>3. HigherThan(g)
      BY <3>2, ProcAssumption DEF Backed, HigherThan, Fence
    <3>4. f # g
      BY <3>3
    <3> QED
      BY <3>1, <3>4 DEF IInv, TypeOK
  <2> QED
    BY <2>1, <2>2, Frames
<1> QED
  BY <1>1, Invariant, PTL DEF Spec, HighestFenceStays

(* The lease and the store's fence together implement a log with one writer at
   a time: raising the store's fence is the takeover, and every commit the store
   takes is a write of the process that raised the fence last.                *)
THEOREM LeaseImplementsFencedLog == Spec => ImplementsFencedLog
<1>1. Init => FL!Init
  BY DEF Init, FL!Init
<1>2. IInv /\ [Next]_vars => [FL!Next]_(FL!vars)
  <2> SUFFICES ASSUME IInv, Next PROVE FL!Next \/ UNCHANGED FL!vars
    BY DEF vars, store, FL!vars
  <2>1. ASSUME NEW p \in Proc, StoreAppend(p) PROVE FL!Next
    <3>1. unit[p] = storeFence /\ raiser = p
      BY <2>1, AppendFact
    <3>2. FL!Write(p)
      BY <2>1, <3>1 DEF StoreAppend, FL!Write
    <3> QED
      BY <3>2 DEF FL!Next
  <2>2. ASSUME NEW p \in Proc, Raise(p) \/ RaiseThrows(p), RaiseStore(p)
        PROVE  FL!Next \/ UNCHANGED FL!vars
    <3>1. /\ want[p] \in won[p] /\ want[p] >= storeFence
          /\ want[p] \in Fence0 /\ storeFence \in Fence0 /\ want[p] # 0
      BY <2>2 DEF Raise, RaiseThrows, CheckWriterFence, IInv, Owned, Confirmed,
                  Shape, TypeOK
    <3>2. storeFence' = want[p] /\ raiser' = p /\ log' = log
      BY <2>2, <3>1 DEF Raise, RaiseThrows, RaiseStore, Max2, Fence0, store
    <3>3. CASE want[p] > storeFence
      <4>1. FL!TakeOver(p)
        BY <3>1, <3>2, <3>3 DEF FL!TakeOver, Fence0
      <4> QED
        BY <4>1 DEF FL!Next
    <3>4. CASE want[p] = storeFence
      <4>1. raiser = p
        BY <3>1, <3>4 DEF IInv, StoreOwned, OneWinnerPerFence
      <4> QED
        BY <3>2, <3>4, <4>1 DEF FL!vars
    <3> QED
      BY <3>1, <3>3, <3>4 DEF Fence0
  <2>3. CASE UNCHANGED <<storeFence, raiser, log>>
    BY <2>3 DEF FL!vars
  <2> QED
    BY <2>1, <2>2, <2>3, Frames
<1> QED
  BY <1>1, <1>2, Invariant, PTL DEF Spec, ImplementsFencedLog, FL!Spec

-----------------------------------------------------------------------------
(* No leaked fence: where the listing of #prune and the released markers do not
   fail, every fence a running process created is held, wanted or fenced.      *)

(* What a process has to keep of its fences: a place in the code that wants no
   fence names none, a fence about to be created is not yet its own, a hold
   that knows it is lost is fenced, and no fence of its own is forgotten.      *)
Settled(p) ==
    pc[p] \in {"idle", "list", "wait", "held", "endMark", "dead"} => want[p] = 0
Fresh(p) == pc[p] \in {"judge", "create"} => rec[want[p]] # p
LostIsFenced(p) == hold[p] # 0 /\ lost[p] => Fenced(hold[p])
Remembered(p) ==
    \A f \in Fence : rec[f] = p /\ ~Fenced(f) =>
       pc[p] = "dead" \/ hold[p] = f \/ want[p] = f
LeakFree(p) == Settled(p) /\ Fresh(p) /\ LostIsFenced(p) /\ Remembered(p)

LeakInv == IInv /\ \A p \in Proc : LeakFree(p)

(* A fenced hold stays fenced: a prune that removes its released marker removes
   its record too, below a higher fence that stays.                            *)
LEMMA FencedStep ==
  IInv /\ [Next]_vars => \A f \in Fence : Fenced(f) => Fenced(f)'
<1> SUFFICES ASSUME IInv, [Next]_vars, NEW f \in Fence, Fenced(f) PROVE Fenced(f)'
  OBVIOUS
<1>1. TypeShape /\ f \in Nat
  BY DEF IInv, TypeShape, Fence
<1>2. CASE HigherThan(f)
  BY <1>1, <1>2, RecStep DEF IInv, Fenced
<1>3. CASE f \in rel
  <2>1. CASE rel \subseteq rel'
    BY <1>3, <2>1 DEF Fenced
  <2>2. ASSUME NEW p \in Proc, PruneKey(p) PROVE Fenced(f)'
    <3>1. PICK g \in doomed[p] : rel' = rel \ {g} \/ UNCHANGED rel
      BY <2>2 DEF PruneKey, keys
    <3>2. g \in Fence /\ want[p] \in Fence /\ g + 1 < want[p] /\ Backed(p, want[p])
      BY <2>2 DEF PruneKey, IInv, TypeOK, Owned, Shape, Created, Fence, Fence0
    <3>3. HigherThan(g) /\ g \in Nat
      BY <3>2, ProcAssumption DEF Backed, HigherThan, Fence
    <3>4. CASE f = g
      BY <1>1, <3>3, <3>4, RecStep DEF IInv, Fenced
    <3>5. CASE f # g
      BY <1>3, <3>1, <3>5 DEF Fenced
    <3> QED
      BY <3>4, <3>5
  <2>3. ASSUME NEW p \in Proc, Lease(p) PROVE rel \subseteq rel' \/ PruneKey(p)
    BY <2>3 DEF Lease, StartAcquire, StartRetake, Start, ReadList, JudgeExpired,
                JudgeHeld, Retry, Busy, Create, CreateRefused, TakeConfirmed,
                TakeFenced, TakeBeat, TakeRenewThrows, PruneList,
                PruneDone, PruneListThrows, Raise, RaiseRefused, RaiseThrows,
                GiveUp, StartAdvance, AdvanceTaken, AdvanceLost, FindLost, EndHold,
                EndMark, ReleaseOld, MarkOwn, keys
  <2>4. ASSUME NEW p \in Proc, Work(p) \/ Crash(p) PROVE rel \subseteq rel'
    BY <2>4 DEF Work, OpenUnit, SendCommit, CloseUnit, StoreAppend, StoreRefuse,
                Crash, keys
  <2>5. CASE ForceRelease \/ UNCHANGED vars
    BY <2>1, <2>5 DEF ForceRelease, vars, keys
  <2> QED
    BY <2>1, <2>2, <2>3, <2>4, <2>5 DEF Next
<1> QED
  BY <1>2, <1>3 DEF Fenced

(* A record appears only where a process creates the fence it wants. *)
LEMMA RecordAppears ==
  TypeShape /\ [Next]_vars =>
     \A f \in Fence, q \in Proc :
        rec'[f] = q => rec[f] = q \/ (Create(q) /\ want[q] = f)
<1> SUFFICES ASSUME TypeShape, [Next]_vars, NEW f \in Fence, NEW q \in Proc,
                    rec'[f] = q, rec[f] # q
             PROVE  Create(q) /\ want[q] = f
  OBVIOUS
<1>1. ASSUME NEW p \in Proc, Create(p) PROVE Create(q) /\ want[q] = f
  BY <1>1 DEF Create, TypeShape, TypeOK
<1>2. ASSUME NEW p \in Proc, PruneKey(p) PROVE FALSE
  <2>1. PICK g \in doomed[p] : rec' = [rec EXCEPT ![g] = NoOne] \/ UNCHANGED rec
    BY <1>2 DEF PruneKey, keys
  <2> QED
    BY <2>1, ProcAssumption DEF TypeShape, TypeOK
<1> QED
  BY <1>1, <1>2, Frames DEF vars, keys

\* A step that also leaves alone whether q knows that its hold is lost.
AllSame(q) == Same(q) /\ lost'[q] = lost[q]

(* A process that does not move leaks nothing. *)
LEMMA LeakUntouched ==
  LeakInv /\ [Next]_vars => \A q \in Proc : AllSame(q) => LeakFree(q)'
<1> SUFFICES ASSUME LeakInv, [Next]_vars, NEW q \in Proc, AllSame(q)
             PROVE  LeakFree(q)'
  OBVIOUS
<1> USE DEF AllSame, Same
<1>1. TypeShape /\ LeakFree(q) /\ want[q] \in Fence0 /\ hold[q] \in Fence0 /\ Shape(q)
  BY DEF LeakInv, IInv, TypeShape, TypeOK
<1>2. \A f \in Fence : Fenced(f) => Fenced(f)'
  BY FencedStep DEF LeakInv
<1>3. \A f \in Fence : rec'[f] = q => rec[f] = q
  <2>1. ~Create(q)
    BY <1>1 DEF Create, Goto, TypeShape, TypeOK
  <2> QED
    BY <1>1, <2>1, RecordAppears
<1>4. Settled(q)'
  BY <1>1 DEF LeakFree, Settled
<1>5. Fresh(q)'
  BY <1>1, <1>3 DEF LeakFree, Fresh, Shape, Fence, Fence0
<1>6. LostIsFenced(q)'
  <2> SUFFICES ASSUME hold'[q] # 0, lost'[q] PROVE Fenced(hold[q])'
    BY DEF LostIsFenced
  <2>1. PICK f \in Fence : f = hold[q]
    BY <1>1 DEF Fence, Fence0
  <2>2. Fenced(f)'
    BY <1>1, <1>2, <2>1 DEF LeakFree, LostIsFenced
  <2> QED
    BY <2>1, <2>2 DEF Fenced, HigherThan
<1>7. Remembered(q)'
  <2> SUFFICES ASSUME NEW f \in Fence, rec'[f] = q, ~Fenced(f)'
               PROVE  pc'[q] = "dead" \/ hold'[q] = f \/ want'[q] = f
    BY DEF Remembered
  <2>1. rec[f] = q /\ ~Fenced(f)
    BY <1>2, <1>3
  <2> QED
    BY <1>1, <2>1 DEF LeakFree, Remembered
<1> QED
  BY <1>4, <1>5, <1>6, <1>7 DEF LeakFree

(* No step of a process leaks a fence of its own: per action, what it drops is
   marked released, already fenced, or was never created.                    *)
LEMMA LeakStep ==
  ASSUME Faults \cap {"prune", "mark"} = {}
  PROVE  LeakInv /\ [Next]_vars => \A p \in Proc : LeakFree(p)'
<1> SUFFICES ASSUME LeakInv, [Next]_vars PROVE \A p \in Proc : LeakFree(p)'
  OBVIOUS
<1>1. TypeShape /\ TypeShape' /\ IInv
  BY TypeShapeStep DEF LeakInv, IInv, TypeShape
<1>2. \A f \in Fence : Fenced(f) => Fenced(f)'
  BY FencedStep DEF LeakInv
<1>3. \A f \in Fence, q \in Proc :
        rec'[f] = q => rec[f] = q \/ (Create(q) /\ want[q] = f)
  BY <1>1, RecordAppears
<1>4. ASSUME NEW p \in Proc, Lease(p) \/ Work(p) \/ Crash(p)
      PROVE  \A q \in Proc \ {p} : AllSame(q)
  BY <1>1, <1>4 DEF AllSame, Same, TypeShape, TypeOK, keys, store, units, take, held,
     Goto, TakeEnds, TakeLost, Start, Forget, ReleaseOld,
     Lease, StartAcquire, StartRetake, ReadList, JudgeExpired, JudgeHeld, Retry,
     Busy, Create, CreateRefused, TakeConfirmed, TakeFenced, TakeBeat,
     TakeRenewThrows, PruneList, PruneKey, PruneDone, PruneListThrows, Raise,
     RaiseRefused, RaiseThrows, GiveUp, StartAdvance, AdvanceTaken, AdvanceLost,
     FindLost, EndHold, EndMark,
     Work, OpenUnit, SendCommit, CloseUnit, StoreAppend, StoreRefuse, Crash
<1>5. ASSUME NEW p \in Proc, Lease(p) PROVE LeakFree(p)'
  <2>101. /\ pc \in [Proc -> PCs] /\ want \in [Proc -> Fence0]
          /\ hold \in [Proc -> Fence0] /\ floor \in [Proc -> Fence0]
          /\ lost \in [Proc -> BOOLEAN] /\ rec \in [Fence -> Proc \cup {NoOne}]
          /\ mode \in [Proc -> Modes] /\ rel \subseteq Fence
          /\ storeFence \in Fence0 /\ p # NoOne
    BY <1>1, ProcAssumption DEF TypeShape, TypeOK
  <2>102. /\ Settled(p) /\ Fresh(p) /\ LostIsFenced(p) /\ Remembered(p)
          /\ Shape(p) /\ Owned(p)
    BY DEF LeakInv, LeakFree, IInv
  <2>103. /\ hold[p] # 0 => hold[p] \in Fence
          /\ want[p] # 0 => want[p] \in Fence
    BY <2>101 DEF Fence, Fence0
  <2>104. ASSUME ~Create(p) PROVE \A f \in Fence : rec'[f] = p => rec[f] = p
    BY <1>3, <2>104
  <2>105. ASSUME hold'[p] = hold[p], lost'[p] = lost[p] PROVE LostIsFenced(p)'
    <3> SUFFICES ASSUME hold'[p] # 0, lost'[p] PROVE Fenced(hold[p])'
      BY DEF LostIsFenced
    <3>1. PICK f \in Fence : f = hold[p]
      BY <2>103, <2>105
    <3>2. Fenced(f)'
      BY <1>2, <2>102, <2>105, <3>1 DEF LostIsFenced
    <3> QED
      BY <2>105, <3>1, <3>2 DEF Fenced, HigherThan
  <2>106. ASSUME ~Create(p),
                 \A f \in Fence : rec[f] = p /\ ~Fenced(f)' /\ (hold[p] = f \/ want[p] = f)
                                     => hold'[p] = f \/ want'[p] = f,
                 pc[p] # "dead"
          PROVE  Remembered(p)'
    <3> SUFFICES ASSUME NEW f \in Fence, rec'[f] = p, ~Fenced(f)'
                 PROVE  pc'[p] = "dead" \/ hold'[p] = f \/ want'[p] = f
      BY DEF Remembered
    <3>1. rec[f] = p /\ ~Fenced(f)
      BY <1>2, <2>104, <2>106
    <3> QED
      BY <2>102, <2>106, <3>1 DEF Remembered
  <2>1. CASE StartAcquire(p)
    <3>1. pc[p] # "dead" /\ ~Create(p)
      BY <2>1, <2>101, <2>102 DEF StartAcquire, Start, Create, Shape, Goto, keys, held, take
    <3>2. Settled(p)'
      BY <2>1, <2>101, <2>102 DEF StartAcquire, Start, Settled, Goto, keys, take, held
    <3>3. Fresh(p)'
      BY <2>1, <2>101, <2>102, <2>103, <3>1, <2>104 DEF StartAcquire, Start, Fresh, Shape, Goto, keys, take, held
    <3>4. LostIsFenced(p)'
      BY <2>1, <2>105 DEF StartAcquire, Start, Goto, keys, take, held
    <3>5. Remembered(p)'
      BY <2>1, <2>101, <2>106, <3>1 DEF StartAcquire, Start, Goto, keys, take, held
    <3> QED
      BY <3>2, <3>3, <3>4, <3>5 DEF LeakFree
  <2>2. CASE StartRetake(p)
    <3>1. pc[p] # "dead" /\ ~Create(p)
      BY <2>2, <2>101, <2>102 DEF StartRetake, Start, Create, Shape, Goto, keys, held, take
    <3>2. Settled(p)'
      BY <2>2, <2>101, <2>102 DEF StartRetake, Start, Settled, Goto, keys, take, held
    <3>3. Fresh(p)'
      BY <2>2, <2>101, <2>102, <2>103, <3>1, <2>104 DEF StartRetake, Start, Fresh, Shape, Goto, keys, take, held
    <3>4. LostIsFenced(p)'
      BY <2>2, <2>105 DEF StartRetake, Start, Goto, keys, take, held
    <3>5. Remembered(p)'
      BY <2>2, <2>101, <2>106, <3>1 DEF StartRetake, Start, Goto, keys, take, held
    <3> QED
      BY <3>2, <3>3, <3>4, <3>5 DEF LeakFree
  <2>3. CASE ReadList(p)
    <3>1. pc[p] # "dead" /\ ~Create(p)
      BY <2>3, <2>101, <2>102 DEF ReadList, Create, Shape, Goto, keys, held, take
    <3>2. Settled(p)'
      BY <2>3, <2>101, <2>102 DEF ReadList, Settled, Goto, keys, take, held
    <3>3. Fresh(p)'
      <4>1. PICK h \in Fence0 :
               /\ IsHighest(h) /\ NextFence(h, floor[p]) <= MaxFence
               /\ want' = [want EXCEPT ![p] = NextFence(h, floor[p])]
        BY <2>3 DEF ReadList
      <4>2. want'[p] \in Fence /\ want'[p] > h
        BY <2>101, <4>1 DEF NextFence, Max2, Fence, Fence0
      <4>3. rec[want'[p]] = NoOne
        BY <4>1, <4>2 DEF IsHighest, HigherThan
      <4> QED
        BY <2>3, <2>101, <4>3 DEF ReadList, Fresh, keys
    <3>4. LostIsFenced(p)'
      BY <2>3, <2>105 DEF ReadList, Goto, keys, take, held
    <3>5. Remembered(p)'
      BY <2>3, <2>101, <2>102, <2>106, <3>1 DEF ReadList, Settled, Fence, Goto, keys, take, held
    <3> QED
      BY <3>2, <3>3, <3>4, <3>5 DEF LeakFree
  <2>4. CASE JudgeExpired(p)
    <3>1. pc[p] # "dead" /\ ~Create(p)
      BY <2>4, <2>101, <2>102 DEF JudgeExpired, Create, Shape, Goto, keys, held, take
    <3>2. Settled(p)'
      BY <2>4, <2>101, <2>102 DEF JudgeExpired, Settled, Goto, keys, take, held
    <3>3. Fresh(p)'
      BY <2>4, <2>101, <2>102, <2>103, <3>1, <2>104 DEF JudgeExpired, Fresh, Shape, Goto, keys, take, held
    <3>4. LostIsFenced(p)'
      BY <2>4, <2>105 DEF JudgeExpired, Goto, keys, take, held
    <3>5. Remembered(p)'
      BY <2>4, <2>101, <2>106, <3>1 DEF JudgeExpired, Goto, keys, take, held
    <3> QED
      BY <3>2, <3>3, <3>4, <3>5 DEF LeakFree
  <2>5. CASE JudgeHeld(p)
    <3>1. pc[p] # "dead" /\ ~Create(p)
      BY <2>5, <2>101, <2>102 DEF JudgeHeld, Create, Shape, Goto, keys, held, take
    <3>2. Settled(p)'
      BY <2>5, <2>101, <2>102 DEF JudgeHeld, Settled, Goto, keys, take, held
    <3>3. Fresh(p)'
      BY <2>5, <2>101, <2>102, <2>103, <3>1, <2>104 DEF JudgeHeld, Fresh, Shape, Goto, keys, take, held
    <3>4. LostIsFenced(p)'
      BY <2>5, <2>105 DEF JudgeHeld, Goto, keys, take, held
    <3>5. Remembered(p)'
      BY <2>5, <2>101, <2>102, <2>106, <3>1 DEF JudgeHeld, Fresh, Goto, keys, take, held
    <3> QED
      BY <3>2, <3>3, <3>4, <3>5 DEF LeakFree
  <2>6. CASE Retry(p)
    <3>1. pc[p] # "dead" /\ ~Create(p)
      BY <2>6, <2>101, <2>102 DEF Retry, Create, Shape, Goto, keys, held, take
    <3>2. Settled(p)'
      BY <2>6, <2>101, <2>102 DEF Retry, Settled, Goto, keys, take, held
    <3>3. Fresh(p)'
      BY <2>6, <2>101, <2>102, <2>103, <3>1, <2>104 DEF Retry, Fresh, Shape, Goto, keys, take, held
    <3>4. LostIsFenced(p)'
      BY <2>6, <2>105 DEF Retry, Goto, keys, take, held
    <3>5. Remembered(p)'
      BY <2>6, <2>101, <2>106, <3>1 DEF Retry, Goto, keys, take, held
    <3> QED
      BY <3>2, <3>3, <3>4, <3>5 DEF LeakFree
  <2>7. CASE Busy(p)
    <3>1. pc[p] # "dead" /\ ~Create(p)
      BY <2>7, <2>101, <2>102 DEF Busy, TakeEnds, AfterFailure, Create, Shape, Goto, keys, held, take
    <3>2. Settled(p)'
      BY <2>7, <2>101, <2>102 DEF Busy, TakeEnds, AfterFailure, Settled, Goto, keys, take, held
    <3>3. Fresh(p)'
      BY <2>7, <2>101, <2>102, <2>103, <3>1, <2>104 DEF Busy, TakeEnds, AfterFailure, Fresh, Shape, Goto, keys, take, held
    <3>4. LostIsFenced(p)'
      BY <2>7, <2>105 DEF Busy, TakeEnds, AfterFailure, Goto, keys, take, held
    <3>5. Remembered(p)'
      BY <2>7, <2>101, <2>102, <2>106, <3>1 DEF Busy, TakeEnds, AfterFailure, Settled, Fence, Goto, keys, take, held
    <3> QED
      BY <3>2, <3>3, <3>4, <3>5 DEF LeakFree
  <2>8. CASE Create(p)
    <3>1. want[p] \in Fence /\ want'[p] = want[p] /\ pc'[p] = "takeCheck"
      BY <2>8, <2>101, <2>102, <2>103 DEF Create, Shape, Goto, take
    <3>2. Settled(p)' /\ Fresh(p)'
      BY <3>1 DEF Settled, Fresh
    <3>3. LostIsFenced(p)'
      BY <2>8, <2>105 DEF Create, held
    <3>4. Remembered(p)'
      <4> SUFFICES ASSUME NEW f \in Fence, rec'[f] = p, ~Fenced(f)'
                   PROVE  hold'[p] = f \/ want'[p] = f
        BY DEF Remembered
      <4>1. CASE f = want[p]
        BY <3>1, <4>1
      <4>2. CASE f # want[p]
        <5>1. rec[f] = p /\ ~Fenced(f)
          BY <1>2, <1>3, <4>2
        <5> QED
          BY <2>8, <2>102, <5>1 DEF Remembered, Create, take, held
      <4> QED
        BY <4>1, <4>2
    <3> QED
      BY <3>2, <3>3, <3>4 DEF LeakFree
  <2>9. CASE CreateRefused(p)
    <3>1. pc[p] # "dead" /\ ~Create(p)
      BY <2>9, <2>101, <2>102 DEF CreateRefused, TakeLost, Create, Shape, Goto, keys, held, take
    <3>2. Settled(p)'
      BY <2>9, <2>101, <2>102 DEF CreateRefused, TakeLost, Settled, Goto, keys, take, held
    <3>3. Fresh(p)'
      BY <2>9, <2>101, <2>102, <2>103, <3>1, <2>104 DEF CreateRefused, TakeLost, Fresh, Shape, Goto, keys, take, held
    <3>4. LostIsFenced(p)'
      BY <2>9, <2>105 DEF CreateRefused, TakeLost, Goto, keys, take, held
    <3>5. Remembered(p)'
      BY <2>9, <2>101, <2>102, <2>106, <3>1 DEF CreateRefused, TakeLost, Fresh, Goto, keys, take, held
    <3> QED
      BY <3>2, <3>3, <3>4, <3>5 DEF LeakFree
  <2>10. CASE TakeConfirmed(p)
    <3>1. pc[p] # "dead" /\ ~Create(p)
      BY <2>10, <2>101, <2>102 DEF TakeConfirmed, Create, Shape, Goto, keys, held, take
    <3>2. Settled(p)'
      BY <2>10, <2>101, <2>102 DEF TakeConfirmed, Settled, Goto, keys, take, held
    <3>3. Fresh(p)'
      BY <2>10, <2>101, <2>102, <2>103, <3>1, <2>104 DEF TakeConfirmed, Fresh, Shape, Goto, keys, take, held
    <3>4. LostIsFenced(p)'
      BY <2>10, <2>105 DEF TakeConfirmed, Goto, keys, take, held
    <3>5. Remembered(p)'
      BY <2>10, <2>101, <2>106, <3>1 DEF TakeConfirmed, Goto, keys, take, held
    <3> QED
      BY <3>2, <3>3, <3>4, <3>5 DEF LeakFree
  <2>11. CASE TakeFenced(p)
    <3>1. pc[p] # "dead" /\ ~Create(p)
      BY <2>11, <2>101, <2>102 DEF TakeFenced, TakeLost, Create, Shape, Goto, keys, held, take
    <3>2. Settled(p)'
      BY <2>11, <2>101, <2>102 DEF TakeFenced, TakeLost, Settled, Goto, keys, take, held
    <3>3. Fresh(p)'
      BY <2>11, <2>101, <2>102, <2>103, <3>1, <2>104 DEF TakeFenced, TakeLost, Fresh, Shape, Goto, keys, take, held
    <3>4. LostIsFenced(p)'
      BY <2>11, <2>105 DEF TakeFenced, TakeLost, Goto, keys, take, held
    <3>5. Remembered(p)'
      <4>1. want[p] \in Fence /\ Fenced(want[p])
        BY <2>11, <2>102, <2>103 DEF TakeFenced, Shape
      <4> QED
        BY <1>2, <2>11, <2>101, <2>106, <3>1, <4>1 DEF TakeFenced, TakeLost, Goto, keys, take, held
    <3> QED
      BY <3>2, <3>3, <3>4, <3>5 DEF LeakFree
  <2>12. CASE TakeBeat(p)
    <3>1. pc[p] # "dead" /\ ~Create(p)
      BY <2>12, <2>101, <2>102 DEF TakeBeat, Create, Shape, Goto, keys, held, take
    <3>2. Settled(p)'
      BY <2>12, <2>101, <2>102 DEF TakeBeat, Settled, Goto, keys, take, held
    <3>3. Fresh(p)'
      BY <2>12, <2>101, <2>102, <2>103, <3>1, <2>104 DEF TakeBeat, Fresh, Shape, Goto, keys, take, held
    <3>4. LostIsFenced(p)'
      BY <2>12, <2>105 DEF TakeBeat, Goto, keys, take, held
    <3>5. Remembered(p)'
      BY <2>12, <2>101, <2>106, <3>1 DEF TakeBeat, Goto, keys, take, held
    <3> QED
      BY <3>2, <3>3, <3>4, <3>5 DEF LeakFree
  <2>13. CASE TakeRenewThrows(p)
    <3>1. pc[p] # "dead" /\ ~Create(p)
      BY <2>13, <2>101, <2>102 DEF TakeRenewThrows, Create, Shape, Goto, keys, held, take
    <3>2. Settled(p)'
      BY <2>13, <2>101, <2>102 DEF TakeRenewThrows, Settled, Goto, keys, take, held
    <3>3. Fresh(p)'
      BY <2>13, <2>101, <2>102, <2>103, <3>1, <2>104 DEF TakeRenewThrows, Fresh, Shape, Goto, keys, take, held
    <3>4. LostIsFenced(p)'
      BY <2>13, <2>105 DEF TakeRenewThrows, Goto, keys, take, held
    <3>5. Remembered(p)'
      BY <2>13, <2>101, <2>106, <3>1 DEF TakeRenewThrows, Goto, keys, take, held
    <3> QED
      BY <3>2, <3>3, <3>4, <3>5 DEF LeakFree
  <2>14. CASE PruneList(p)
    <3>1. pc[p] # "dead" /\ ~Create(p)
      BY <2>14, <2>101, <2>102 DEF PruneList, Create, Shape, Goto, keys, held, take
    <3>2. Settled(p)'
      BY <2>14, <2>101, <2>102 DEF PruneList, Settled, Goto, keys, take, held
    <3>3. Fresh(p)'
      BY <2>14, <2>101, <2>102, <2>103, <3>1, <2>104 DEF PruneList, Fresh, Shape, Goto, keys, take, held
    <3>4. LostIsFenced(p)'
      BY <2>14, <2>105 DEF PruneList, Goto, keys, take, held
    <3>5. Remembered(p)'
      BY <2>14, <2>101, <2>106, <3>1 DEF PruneList, Goto, keys, take, held
    <3> QED
      BY <3>2, <3>3, <3>4, <3>5 DEF LeakFree
  <2>15. CASE PruneKey(p)
    <3>1. pc[p] # "dead" /\ ~Create(p)
      BY <2>15, <2>101, <2>102 DEF PruneKey, Create, Shape, Goto, keys, held, take
    <3>2. Settled(p)'
      BY <2>15, <2>101, <2>102 DEF PruneKey, Settled, Goto, keys, take, held
    <3>3. Fresh(p)'
      BY <2>15, <2>101, <2>102, <2>103, <3>1, <2>104 DEF PruneKey, Fresh, Shape, Goto, keys, take, held
    <3>4. LostIsFenced(p)'
      BY <2>15, <2>105 DEF PruneKey, Goto, keys, take, held
    <3>5. Remembered(p)'
      BY <2>15, <2>101, <2>106, <3>1 DEF PruneKey, Goto, keys, take, held
    <3> QED
      BY <3>2, <3>3, <3>4, <3>5 DEF LeakFree
  <2>16. CASE PruneDone(p)
    <3>1. pc[p] # "dead" /\ ~Create(p)
      BY <2>16, <2>101, <2>102 DEF PruneDone, Create, Shape, Goto, keys, held, take
    <3>2. Settled(p)'
      BY <2>16, <2>101, <2>102 DEF PruneDone, Settled, Goto, keys, take, held
    <3>3. Fresh(p)'
      BY <2>16, <2>101, <2>102, <2>103, <3>1, <2>104 DEF PruneDone, Fresh, Shape, Goto, keys, take, held
    <3>4. LostIsFenced(p)'
      BY <2>16, <2>105 DEF PruneDone, Goto, keys, take, held
    <3>5. Remembered(p)'
      BY <2>16, <2>101, <2>106, <3>1 DEF PruneDone, Goto, keys, take, held
    <3> QED
      BY <3>2, <3>3, <3>4, <3>5 DEF LeakFree
  <2>17. CASE PruneListThrows(p)
    BY <2>17 DEF PruneListThrows
  <2>18. CASE Raise(p)
    <3>1. pc[p] # "dead" /\ ~Create(p)
      BY <2>18, <2>101, <2>102 DEF Raise, Create, Shape, Goto, keys, held, take
    <3>2. Settled(p)'
      BY <2>18, <2>101, <2>102 DEF Raise, TakeEnds, Settled, Goto, keys, take, held
    <3>3. Fresh(p)'
      BY <2>18, <2>101, <2>102, <2>103, <3>1, <2>104 DEF Raise, TakeEnds, Fresh, Shape, Goto, keys, take, held
    <3>4. LostIsFenced(p)'
      BY <2>18, <2>101 DEF Raise, LostIsFenced
    <3>5. Remembered(p)'
      <4>1. want[p] \in Fence /\ want[p] >= storeFence /\ Backed(p, want[p])
        BY <2>18, <2>102, <2>103 DEF Raise, CheckWriterFence, Shape, Owned, Created
      <4>2. ASSUME hold[p] # 0, hold[p] # want[p] PROVE Fenced(hold[p])
        <5>1. hold[p] \in Fence /\ hold[p] < want[p]
          BY <2>101, <2>102, <2>103, <4>1, <4>2 DEF Owned, Fence, Fence0
        <5> QED
          BY <2>101, <4>1, <5>1 DEF Backed, Fenced, HigherThan, Fence
      <4>3. hold'[p] = want[p]
        BY <2>18, <2>101 DEF Raise
      <4>4. \A f \in Fence : rec[f] = p /\ ~Fenced(f)' /\ (hold[p] = f \/ want[p] = f)
                                 => hold'[p] = f
        BY <1>2, <4>2, <4>3 DEF Fence
      <4> QED
        BY <2>106, <3>1, <4>4
    <3> QED
      BY <3>2, <3>3, <3>4, <3>5 DEF LeakFree
  <2>19. CASE RaiseRefused(p)
    <3>1. pc[p] # "dead" /\ ~Create(p)
      BY <2>19, <2>101, <2>102 DEF RaiseRefused, Create, Shape, Goto, keys, held, take
    <3>2. Settled(p)'
      BY <2>19, <2>101, <2>102 DEF RaiseRefused, Settled, Goto, keys, take, held
    <3>3. Fresh(p)'
      BY <2>19, <2>101, <2>102, <2>103, <3>1, <2>104 DEF RaiseRefused, Fresh, Shape, Goto, keys, take, held
    <3>4. LostIsFenced(p)'
      BY <2>19, <2>105 DEF RaiseRefused, Goto, keys, take, held
    <3>5. Remembered(p)'
      BY <2>19, <2>101, <2>106, <3>1 DEF RaiseRefused, Goto, keys, take, held
    <3> QED
      BY <3>2, <3>3, <3>4, <3>5 DEF LeakFree
  <2>20. CASE RaiseThrows(p)
    <3>1. pc[p] # "dead" /\ ~Create(p)
      BY <2>20, <2>101, <2>102 DEF RaiseThrows, Create, Shape, Goto, keys, held, take
    <3>2. Settled(p)'
      BY <2>20, <2>101, <2>102 DEF RaiseThrows, Settled, Goto, keys, take, held
    <3>3. Fresh(p)'
      BY <2>20, <2>101, <2>102, <2>103, <3>1, <2>104 DEF RaiseThrows, Fresh, Shape, Goto, keys, take, held
    <3>4. LostIsFenced(p)'
      BY <2>20, <2>105 DEF RaiseThrows, Goto, keys, take, held
    <3>5. Remembered(p)'
      BY <2>20, <2>101, <2>106, <3>1 DEF RaiseThrows, Goto, keys, take, held
    <3> QED
      BY <3>2, <3>3, <3>4, <3>5 DEF LeakFree
  <2>21. CASE GiveUp(p)
    <3>1. pc[p] # "dead" /\ ~Create(p)
      BY <2>21, <2>101, <2>102 DEF GiveUp, Create, Shape, Goto, keys, held, take
    <3>2. Settled(p)'
      BY <2>21, <2>101, <2>102 DEF GiveUp, TakeEnds, AfterFailure, Settled, Goto, keys, take, held
    <3>3. Fresh(p)'
      BY <2>21, <2>101, <2>102, <2>103, <3>1, <2>104 DEF GiveUp, TakeEnds, AfterFailure, Fresh, Shape, Goto, keys, take, held
    <3>4. LostIsFenced(p)'
      BY <2>21, <2>105 DEF GiveUp, Goto, keys, take, held
    <3>5. Remembered(p)'
      <4>1. want[p] \in rel'
        BY <2>21 DEF GiveUp
      <4>2. \A f \in Fence : ~Fenced(f)' => f # want[p]
        BY <4>1 DEF Fenced
      <4> QED
        BY <2>21, <2>101, <2>106, <3>1, <4>2 DEF GiveUp, Goto, keys, take, held
    <3> QED
      BY <3>2, <3>3, <3>4, <3>5 DEF LeakFree
  <2>22. CASE StartAdvance(p)
    <3>1. pc[p] # "dead" /\ ~Create(p)
      BY <2>22, <2>101, <2>102 DEF StartAdvance, Create, Shape, Goto, keys, held, take
    <3>2. Settled(p)'
      BY <2>22, <2>101, <2>102 DEF StartAdvance, Settled, Goto, keys, take, held
    <3>3. Fresh(p)'
      <4>1. want'[p] = hold[p] + 1 /\ want'[p] \in Fence
        BY <2>22, <2>101 DEF StartAdvance, Fence, Fence0
      <4>2. rec[want'[p]] = NoOne
        BY <2>22, <2>101, <4>1 DEF StartAdvance, Fenced, HigherThan, Fence0
      <4> QED
        BY <2>22, <2>101, <4>2 DEF StartAdvance, Fresh, keys
    <3>4. LostIsFenced(p)'
      BY <2>22, <2>105 DEF StartAdvance, Goto, keys, take, held
    <3>5. Remembered(p)'
      BY <2>22, <2>101, <2>102, <2>106, <3>1 DEF StartAdvance, Settled, Fence, Goto, keys, take, held
    <3> QED
      BY <3>2, <3>3, <3>4, <3>5 DEF LeakFree
  <2>23. CASE AdvanceTaken(p)
    <3>1. pc[p] # "dead" /\ ~Create(p)
      BY <2>23, <2>101, <2>102 DEF AdvanceTaken, ReleaseOld, MarkOwn, Create, Shape, Goto, keys, held, take
    <3>2. Settled(p)'
      BY <2>23, <2>101, <2>102 DEF AdvanceTaken, ReleaseOld, MarkOwn, Settled, Goto, keys, take, held
    <3>3. Fresh(p)'
      BY <2>23, <2>101, <2>102, <2>103, <3>1, <2>104 DEF AdvanceTaken, ReleaseOld, MarkOwn, Fresh, Shape, Goto, keys, take, held
    <3>4. LostIsFenced(p)'
      <4> SUFFICES ASSUME hold'[p] # 0, lost'[p] PROVE Fenced(hold[p])'
        BY DEF LostIsFenced
      <4>1. PICK f \in Fence : f = hold[p] /\ hold'[p] = f
        BY <2>23, <2>101, <2>103 DEF AdvanceTaken
      <4>2. Fenced(f) \/ f \in rel'
        BY <2>23, <2>101, <2>102, <4>1 DEF AdvanceTaken, ReleaseOld, MarkOwn, LostIsFenced
      <4>3. Fenced(f)'
        BY <1>2, <4>2 DEF Fenced
      <4> QED
        BY <4>1, <4>3 DEF Fenced, HigherThan
    <3>5. Remembered(p)'
      BY <2>23, <2>101, <2>106, <3>1 DEF AdvanceTaken, ReleaseOld, MarkOwn, Goto, keys, take, held
    <3> QED
      BY <3>2, <3>3, <3>4, <3>5 DEF LeakFree
  <2>24. CASE AdvanceLost(p)
    <3>1. pc[p] # "dead" /\ ~Create(p)
      BY <2>24, <2>101, <2>102 DEF AdvanceLost, ReleaseOld, MarkOwn, TakeEnds, Create, Shape, Goto, keys, held, take
    <3>2. Settled(p)'
      BY <2>24, <2>101, <2>102 DEF AdvanceLost, ReleaseOld, MarkOwn, TakeEnds, Settled, Goto, keys, take, held
    <3>3. Fresh(p)'
      BY <2>24, <2>101, <2>102, <2>103, <3>1, <2>104 DEF AdvanceLost, ReleaseOld, MarkOwn, TakeEnds, Fresh, Shape, Goto, keys, take, held
    <3>4. LostIsFenced(p)'
      <4> SUFFICES ASSUME hold'[p] # 0, lost'[p] PROVE Fenced(hold[p])'
        BY DEF LostIsFenced
      <4>1. PICK f \in Fence : f = hold[p] /\ hold'[p] = f
        BY <2>24, <2>101, <2>103 DEF AdvanceLost
      <4>2. Fenced(f) \/ f \in rel'
        BY <2>24, <2>101, <2>102, <4>1 DEF AdvanceLost, ReleaseOld, MarkOwn, TakeEnds, LostIsFenced
      <4>3. Fenced(f)'
        BY <1>2, <4>2 DEF Fenced
      <4> QED
        BY <4>1, <4>3 DEF Fenced, HigherThan
    <3>5. Remembered(p)'
      BY <2>24, <2>101, <2>106, <3>1 DEF AdvanceLost, ReleaseOld, MarkOwn, TakeEnds, Fence, Goto, keys, take, held
    <3> QED
      BY <3>2, <3>3, <3>4, <3>5 DEF LeakFree
  <2>25. CASE FindLost(p)
    <3>1. ~Create(p)
      BY <2>25, <2>101 DEF FindLost, Create, Goto, keys
    <3>2. Settled(p)'
      BY <2>25, <2>101, <2>102 DEF FindLost, Settled, Goto, keys, take, held
    <3>3. Fresh(p)'
      BY <2>25, <2>101, <2>102, <2>103, <3>1, <2>104 DEF FindLost, Fresh, Shape, Goto, keys, take, held
    <3>4. LostIsFenced(p)'
      <4> SUFFICES ASSUME hold'[p] # 0, lost'[p] PROVE Fenced(hold[p])'
        BY DEF LostIsFenced
      <4>1. PICK f \in Fence : f = hold[p] /\ hold'[p] = f
        BY <2>25, <2>101, <2>103 DEF FindLost
      <4>2. Fenced(f) \/ f \in rel'
        BY <2>25, <2>101, <2>102, <4>1 DEF FindLost, LostIsFenced
      <4>3. Fenced(f)'
        BY <1>2, <4>2 DEF Fenced
      <4> QED
        BY <4>1, <4>3 DEF Fenced, HigherThan
    <3>5. Remembered(p)'
      <4> SUFFICES ASSUME NEW f \in Fence, rec'[f] = p, ~Fenced(f)'
                   PROVE  pc'[p] = "dead" \/ hold'[p] = f \/ want'[p] = f
        BY DEF Remembered
      <4>1. rec[f] = p /\ ~Fenced(f)
        BY <1>2, <2>104, <3>1
      <4> QED
        BY <2>25, <2>102, <4>1 DEF Remembered, FindLost, take
    <3> QED
      BY <3>2, <3>3, <3>4, <3>5 DEF LeakFree
  <2>26. CASE EndHold(p)
    <3>1. pc[p] # "dead" /\ ~Create(p)
      BY <2>26, <2>101, <2>102 DEF EndHold, Create, Shape, Goto, keys, held, take
    <3>2. Settled(p)'
      BY <2>26, <2>101, <2>102 DEF EndHold, Settled, Goto, keys, take, held
    <3>3. Fresh(p)'
      BY <2>26, <2>101, <2>102, <2>103, <3>1, <2>104 DEF EndHold, Fresh, Shape, Goto, keys, take, held
    <3>4. LostIsFenced(p)'
      BY <2>26, <2>105 DEF EndHold, Goto, keys, take, held
    <3>5. Remembered(p)'
      BY <2>26, <2>101, <2>106, <3>1 DEF EndHold, Goto, keys, take, held
    <3> QED
      BY <3>2, <3>3, <3>4, <3>5 DEF LeakFree
  <2>27. CASE EndMark(p)
    <3>1. pc[p] # "dead" /\ ~Create(p)
      BY <2>27, <2>101, <2>102 DEF EndMark, MarkOwn, Forget, Create, Shape, Goto, keys, held, take
    <3>2. Settled(p)'
      BY <2>27, <2>101, <2>102 DEF EndMark, MarkOwn, Forget, Settled, Goto, keys, take, held
    <3>3. Fresh(p)'
      BY <2>27, <2>101, <2>102, <2>103, <3>1, <2>104 DEF EndMark, MarkOwn, Forget, Fresh, Shape, Goto, keys, take, held
    <3>4. LostIsFenced(p)'
      BY <2>27, <2>101 DEF EndMark, Forget, LostIsFenced
    <3>5. Remembered(p)'
      <4>1. hold[p] \in Fence /\ want'[p] = want[p]
        BY <2>27, <2>102, <2>103 DEF EndMark, Shape, take
      <4>2. Fenced(hold[p]) \/ hold[p] \in rel'
        BY <2>27, <2>101, <2>102, <4>1 DEF EndMark, MarkOwn, LostIsFenced, Fence
      <4>3. \A f \in Fence : ~Fenced(f)' => f # hold[p]
        BY <1>2, <4>2 DEF Fenced
      <4> QED
        BY <2>106, <3>1, <4>1, <4>3
    <3> QED
      BY <3>2, <3>3, <3>4, <3>5 DEF LeakFree
  <2> QED
    BY <1>5, <2>1, <2>2, <2>3, <2>4, <2>5, <2>6, <2>7, <2>8, <2>9, <2>10,
       <2>11, <2>12, <2>13, <2>14, <2>15, <2>16, <2>17, <2>18, <2>19, <2>20,
       <2>21, <2>22, <2>23, <2>24, <2>25, <2>26, <2>27 DEF Lease
<1>6. ASSUME NEW p \in Proc, Work(p) PROVE LeakFree(p)'
  <2>1. LeakFree(p) /\ want[p] \in Fence0 /\ hold[p] \in Fence0 /\ Shape(p)
    BY <1>1 DEF LeakInv, TypeShape, TypeOK
  <2>2. UNCHANGED <<rec, rel, pc, want, hold, lost>>
    BY <1>6 DEF Work, OpenUnit, SendCommit, CloseUnit, StoreAppend, StoreRefuse, keys,
                take, held
  <2> QED
    BY <2>1, <2>2 DEF LeakFree, Settled, Fresh, LostIsFenced, Remembered, Fenced,
                      HigherThan
<1>7. ASSUME NEW p \in Proc, Crash(p) PROVE LeakFree(p)'
  BY <1>1, <1>7 DEF Crash, Forget, Goto, LeakFree, Settled, Fresh, LostIsFenced,
                    Remembered, TypeShape, TypeOK
<1>8. CASE ForceRelease \/ UNCHANGED vars
  <2>1. \A q \in Proc : AllSame(q)
    BY <1>8 DEF ForceRelease, AllSame, Same, vars, units, take, held
  <2> QED
    BY <2>1, LeakUntouched
<1>9. ASSUME NEW p \in Proc, LeakFree(p)', \A q \in Proc \ {p} : AllSame(q)
      PROVE  \A q \in Proc : LeakFree(q)'
  BY <1>9, LeakUntouched
<1> QED
  BY <1>4, <1>5, <1>6, <1>7, <1>8, <1>9 DEF Next

(* Where the listing of #prune and the released markers do not fail, an acquire,
   a retake or an advance that ends without a hold never leaves a fence behind
   that keeps other writers out until it expires.                              *)
THEOREM FencesAreGivenUp ==
  ASSUME Faults \cap {"prune", "mark"} = {}
  PROVE  Spec => []NoFenceLeaked
<1>1. Init => \A p \in Proc : LeakFree(p)
  <2> SUFFICES ASSUME Init, NEW p \in Proc PROVE LeakFree(p)
    OBVIOUS
  <2>1. /\ pc[p] = "idle" /\ hold[p] = 0 /\ want[p] = 0 /\ p # NoOne
        /\ \A f \in Fence : rec[f] = NoOne
    BY ProcAssumption DEF Init
  <2> QED
    BY <2>1 DEF LeakFree, Settled, Fresh, LostIsFenced, Remembered
<1>2. IInv /\ (\A p \in Proc : LeakFree(p)) /\ [Next]_vars => (\A p \in Proc : LeakFree(p))'
  BY LeakStep DEF LeakInv
<1>3. IInv /\ (\A p \in Proc : LeakFree(p)) => NoFenceLeaked
  BY DEF IInv, TypeOK, LeakFree, Remembered, NoFenceLeaked
<1> QED
  BY <1>1, <1>2, <1>3, Invariant, PTL DEF Spec

=============================================================================
