--------------------------- MODULE CommitOutboxProofs ---------------------------
(***************************************************************************)
(* Proofs about CommitOutbox for any processes, fences and faults.          *)
(***************************************************************************)
EXTENDS CommitOutbox, TLAPS

USE BoundsAssumption, ProcAssumption

\* The parts of TypeOK.
StoreType ==
    /\ lease \in 0..MaxFence /\ storeFence \in 0..MaxFence
    /\ log \in [Writer \cup {0} -> Seq(Txn)]
    /\ chain \in [last : 0..MaxFence, start : 0..MaxFence,
                  floor : 0..MaxFence, note : 0..MaxFence]
    /\ recovered \in 0..MaxFence /\ faults \in 0..MaxFaults
DiskType == outbox \subseteq EntryType /\ unsynced \subseteq EntryType
ProcType == pc \in [Proc -> PCs] /\ fence \in [Proc -> 0..MaxFence]
PlansType == plan \in [Proc -> SUBSET PlanType]
GroupsType ==
    /\ todo \in [Writer -> SUBSET {Data, Run}]
    /\ prepared \in [Writer -> SUBSET {Data, Run}]
    /\ keys \in [Writer -> SUBSET {Data, Run}]
    /\ giving \in [Writer -> SUBSET {Data, Run}]
    /\ owed \in [Writer -> SUBSET {Data, Run}]
UnitType ==
    /\ staged \subseteq Txn /\ names \subseteq Writer /\ final \subseteq Writer
    /\ refused \subseteq Writer /\ unsure \subseteq Writer /\ marked \subseteq Writer
    /\ base \in [Writer -> Nat]
    /\ told \subseteq Txn /\ late \subseteq Txn
    /\ report \in [Writer -> {"none", "ok", "failed", "maybe"}]

Types == StoreType /\ DiskType /\ ProcType /\ PlansType /\ GroupsType /\ UnitType

\* A process has a fence once it began.
Took(p) == pc[p] = "idle" <=> fence[p] = 0

TypeInv == Types /\ \A p \in Proc : Took(p)

-----------------------------------------------------------------------------
(* The chain. *)

Ours(f) == \E p \in Proc : fence[p] = f

\* Fences of the chain and the noted one are of this copy; without other copies all are.
ChainInv ==
    /\ TypeInv /\ ChainIsOurs
    /\ chain.note # 0 => Ours(chain.note)
    /\ ~Replicated => \A f \in 1..lease : Ours(f)
    /\ chain.last <= lease /\ chain.note <= lease
    /\ \A p \in Proc : fence[p] <= lease

-----------------------------------------------------------------------------
(* The unit of work. *)

Flush == {"rebuild", "prepare", "append", "unknown", "refusal", "settle"}

\* A flush is at a group of the unit, and not at the run while a refusal is
\* unacknowledged; groups are given up in two steps.
FlushShape(p) ==
    /\ pc[p] \in Flush => todo[p] # {} /\ (Data \notin todo[p] => p \notin refused)
    /\ pc[p] = "settle" => Landed(<<p, NextGroup(p)>>)
    /\ giving[p] # {} => pc[p] \in {"abandon", "discard"}
    /\ report[p] = "ok" => pc[p] = "close" /\ todo[p] = {} /\ p \notin unsure
    /\ \A g \in todo[p] \cup giving[p] : <<p, g>> \in staged

\* A commit with an entry, in a plan or in the log was staged by its unit.
WasStaged(t) == t \in staged \/ Gone(t[1])

KnownTxns ==
    /\ \A e \in outbox \cup unsynced : WasStaged(e.txn)
    /\ \A q \in Proc : \A x \in plan[q] : WasStaged(x.txn)
    /\ \A t \in Txn : Landed(t) \/ t \in told => WasStaged(t)

\* What is planned or was settled without an fsync has landed.
SettledHasLanded ==
    /\ \A e \in unsynced : Landed(e.txn)
    /\ \A q \in Proc : \A x \in plan[q] : x.do = "settle" => Landed(x.txn)

UnitInv ==
    /\ TypeInv /\ KnownTxns /\ SettledHasLanded
    /\ \A p \in Writer : FlushShape(p)

\* A group that was staged is still to land, has landed, is reported or about to be.
Accounted(p) ==
    \A g \in {Data, Run} : <<p, g>> \in staged =>
        \/ g \in todo[p] \/ g \in giving[p] \/ p \in unsure
        \/ Landed(<<p, g>>) \/ <<p, g>> \in told

CommitInv == UnitInv /\ \A p \in Writer : Accounted(p)

\* The run of a unit whose run names its data is prepared, and lands, after the data.
Follows(p) ==
    /\ ~Gone(p) => Data \in todo[p] \/ p \in refused \/ Landed(<<p, Data>>)
    /\ \A e \in outbox \cup unsynced : e.txn = <<p, Run>> => Landed(<<p, Data>>)
    /\ \A q \in Proc : \A x \in plan[q] : x.txn = <<p, Run>> => Landed(<<p, Data>>)
    /\ Landed(<<p, Run>>) => Landed(<<p, Data>>)

NamesInv == UnitInv /\ \A p \in names : Follows(p)

-----------------------------------------------------------------------------
(* What was reported failed. *)

\* A recovery sends for units of processes that are gone.
SentIsGone == \A q \in Proc : \A x \in plan[q] : x.do = "send" => Gone(x.txn[1])

\* A unit knows its entries, but for those that landed, are marked or are not sure.
Knows(p) ==
    ~Gone(p) => \A e \in outbox : e.txn[1] = p =>
        \/ e.txn[2] \in prepared[p] \cup keys[p] \/ p \in unsure
        \/ e.abandoned \/ Landed(e.txn)

\* Giving up: what is marked is abandoned, what is given up is not prepared again.
GivesUp(p) ==
    /\ keys[p] # {} => pc[p] \in {"abandon", "discard"}
    /\ p \in marked =>
          /\ pc[p] = "discard"
          /\ \A e \in outbox : e.txn[1] = p /\ e.txn[2] \in keys[p] => e.abandoned
    /\ giving[p] \cap prepared[p] = {}
    /\ p \notin final => giving[p] \cap todo[p] = {}

\* Nobody will land a commit that was reported failed.
IsOut(t) ==
    /\ t[2] \in todo[t[1]] => pc[t[1]] \in {"close", "exited"}
    /\ \A e \in outbox : e.txn = t => e.abandoned
    /\ \A q \in Proc : \A x \in plan[q] : x.txn = t => x.do # "send"

ToldInv ==
    /\ UnitInv /\ SentIsGone
    /\ \A p \in Writer : Knows(p) /\ GivesUp(p)
    /\ \A t \in told : Landed(t) \/ IsOut(t)

-----------------------------------------------------------------------------
(* What an overtaken writer prepares. *)

Past == PCs \ {"idle", "note", "raise", "exited"}

\* Fences are recorded in the order they are raised.
Recorded(p) ==
    /\ pc[p] \in Past => fence[p] <= storeFence
    /\ pc[p] = "record" => fence[p] = storeFence
    /\ pc[p] \in Past \ {"record"} => fence[p] <= chain.last

\* Below the highest fence a recovery was completed at, everything is overtaken.
Covered ==
    /\ recovered <= storeFence /\ recovered <= chain.last
    /\ recovered <= chain.start \/ recovered <= chain.floor

EntryFence == \A e \in outbox \cup unsynced : e.fence = fence[e.txn[1]]

LeavesAreMarked ==
    \A q \in Proc : \A x \in plan[q] : x.do = "leave" => pc[q] = "leave"

\* Nobody will land a commit that was prepared below a completed recovery.
IsOvertaken(t) ==
    /\ \A e \in outbox : e.txn = t => ~e.left
    /\ \A q \in Proc : \A x \in plan[q] : x.txn = t => x.do \notin {"send", "leave"}

LateInv ==
    /\ UnitInv /\ SentIsGone /\ EntryFence /\ Covered /\ LeavesAreMarked
    /\ \A p \in Proc : Recorded(p)
    /\ \A t \in late : /\ pc[t[1]] # "idle" /\ fence[t[1]] < recovered
                       /\ Landed(t) \/ IsOvertaken(t)

-----------------------------------------------------------------------------
(* What a step leaves alone. *)

\* A process does something.
Acts(p) == Lease(p) \/ Recovery(p) \/ Crash(p) \/ (p \in Writer /\ UnitOfWork(p))

\* Process q is where it was.
Kept(q) == pc'[q] = pc[q] /\ fence'[q] = fence[q] /\ plan'[q] = plan[q]

\* The unit of work of process q is as it was.
KeptUnit(q) ==
    /\ todo'[q] = todo[q] /\ prepared'[q] = prepared[q] /\ keys'[q] = keys[q]
    /\ giving'[q] = giving[q] /\ report'[q] = report[q]
    /\ (q \in final') = (q \in final) /\ (q \in refused') = (q \in refused)
    /\ (q \in unsure') = (q \in unsure) /\ (q \in marked') = (q \in marked)
    /\ (q \in names') = (q \in names)
    /\ \A g \in {Data, Run} : /\ <<q, g>> \in staged' <=> <<q, g>> \in staged
                              /\ <<q, g>> \in told' <=> <<q, g>> \in told

\* Entry e is entry d, with marks of its unit or of a recovery that leaves it.
SameEntry(e, d) ==
    /\ e.txn = d.txn /\ e.fence = d.fence
    /\ d.abandoned => e.abandoned
    /\ e.left => d.left \/ \E q \in Proc : \E x \in plan[q] :
                              pc[q] = "leave" /\ x.do = "leave" /\ x.txn = d.txn

-----------------------------------------------------------------------------
(* Types. *)

\* TypeOK is its parts.
LEMMA TypeParts == Types => TypeOK
  BY DEF Types, StoreType, DiskType, ProcType, PlansType, GroupsType, UnitType, TypeOK

\* A commit is known by its unit and its group.
LEMMA TxnShape ==
  /\ \A t \in Txn : /\ t[1] \in Writer /\ t[1] \in Proc /\ t[2] \in {Data, Run}
                    /\ t = <<t[1], t[2]>> /\ Partition(t) \in Writer \cup {0}
  /\ \A p \in Writer, g \in {Data, Run} :
        <<p, g>> \in Txn /\ <<p, g>>[1] = p /\ <<p, g>>[2] = g
  /\ \A p \in Writer : NextGroup(p) \in {Data, Run}
  /\ Data # Run
  BY DEF Txn, Partition, NextGroup, Data, Run

\* The fields of an entry and of a planned step.
LEMMA FieldShape ==
  /\ \A e \in EntryType : /\ e.txn \in Txn /\ e.fence \in 1..MaxFence /\ e.base \in Nat
                          /\ e.abandoned \in BOOLEAN /\ e.left \in BOOLEAN
  /\ \A x \in PlanType : /\ x.txn \in Txn /\ x.base \in Nat
                         /\ x.do \in {"leave", "settle", "drop", "send"}
  BY DEF EntryType, PlanType

\* Marks change nothing else of an entry.
LEMMA MarkShape ==
  ASSUME outbox \subseteq EntryType, NEW T
  PROVE  /\ \A e \in MarkedAbandoned(T) :
               /\ e \in EntryType
               /\ \E d \in outbox : /\ e.txn = d.txn /\ e.fence = d.fence /\ e.base = d.base
                                    /\ e.left = d.left
                                    /\ d.abandoned => e.abandoned
                                    /\ d.txn \in T => e.abandoned
         /\ \A e \in MarkedLeft(T) :
               /\ e \in EntryType
               /\ \E d \in outbox : /\ e.txn = d.txn /\ e.fence = d.fence /\ e.base = d.base
                                    /\ e.abandoned = d.abandoned
                                    /\ e.left => d.left \/ d.txn \in T
  <1>1. ASSUME NEW e \in MarkedAbandoned(T)
        PROVE  /\ e \in EntryType
               /\ \E d \in outbox : /\ e.txn = d.txn /\ e.fence = d.fence /\ e.base = d.base
                                    /\ e.left = d.left
                                    /\ d.abandoned => e.abandoned
                                    /\ d.txn \in T => e.abandoned
    <2>1. PICK d \in outbox : e = IF d.txn \in T THEN [d EXCEPT !.abandoned = TRUE] ELSE d
      BY <1>1 DEF MarkedAbandoned
    <2>2. d \in EntryType
      OBVIOUS
    <2>3. CASE d.txn \in T
      BY <2>1, <2>2, <2>3 DEF EntryType
    <2>4. CASE d.txn \notin T
      BY <2>1, <2>2, <2>4
    <2> QED
      BY <2>3, <2>4
  <1>2. ASSUME NEW e \in MarkedLeft(T)
        PROVE  /\ e \in EntryType
               /\ \E d \in outbox : /\ e.txn = d.txn /\ e.fence = d.fence /\ e.base = d.base
                                    /\ e.abandoned = d.abandoned
                                    /\ e.left => d.left \/ d.txn \in T
    <2>1. PICK d \in outbox : e = IF d.txn \in T THEN [d EXCEPT !.left = TRUE] ELSE d
      BY <1>2 DEF MarkedLeft
    <2>2. d \in EntryType
      OBVIOUS
    <2>3. CASE d.txn \in T
      BY <2>1, <2>2, <2>3 DEF EntryType
    <2>4. CASE d.txn \notin T
      BY <2>1, <2>2, <2>4
    <2> QED
      BY <2>3, <2>4
  <1> QED
    BY <1>1, <1>2

\* A commit that lands is added to the log of its partition.
LEMMA LandsShape ==
  ASSUME StoreType, NEW t \in Txn, Lands(t)
  PROVE  /\ log' \in [Writer \cup {0} -> Seq(Txn)]
         /\ \A i \in Writer \cup {0} :
               log'[i] = IF i = Partition(t) THEN Append(log[i], t) ELSE log[i]
  <1> DEFINE n == Partition(t)
  <1>1. n \in Writer \cup {0} /\ log \in [Writer \cup {0} -> Seq(Txn)]
    BY TxnShape DEF StoreType
  <1> HIDE DEF n
  <1>2. log' = [log EXCEPT ![n] = Append(log[n], t)]
    BY DEF Lands, n
  <1>3. log[n] \in Seq(Txn)
    BY <1>1
  <1>4. Append(log[n], t) \in Seq(Txn)
    BY <1>3
  <1>5. \A i \in Writer \cup {0} : log'[i] = IF i = n THEN Append(log[i], t) ELSE log[i]
    BY <1>1, <1>2
  <1>6. log' \in [Writer \cup {0} -> Seq(Txn)]
    BY <1>1, <1>2, <1>4
  <1> QED
    BY <1>5, <1>6 DEF n

\* The variables start with their types.
LEMMA TypeInvInit == Init => TypeInv
  <1> SUFFICES ASSUME Init PROVE TypeInv
    OBVIOUS
  <1>1. StoreType
    BY DEF Init, StoreType
  <1>2. DiskType /\ ProcType /\ PlansType /\ GroupsType
    BY DEF Init, DiskType, ProcType, PlansType, GroupsType, PCs
  <1>3. UnitType
    BY DEF Init, UnitType
  <1>4. \A p \in Proc : Took(p)
    BY DEF Init, Took
  <1> QED
    BY <1>1, <1>2, <1>3, <1>4 DEF TypeInv, Types

\* The lease, the store and the chain keep their types.
LEMMA StoreTypeStep ==
  ASSUME TypeInv, [Next]_vars
  PROVE  StoreType'
  <1>t. StoreType /\ ProcType /\ PlansType
    BY DEF TypeInv, Types
  <1>1. CASE UNCHANGED vars
    BY <1>1, <1>t DEF vars, disk, unit, callers, StoreType, ProcType
  <1>2. ASSUME NEW p \in Proc, Lease(p) PROVE StoreType'
    <2>1. CASE TakeLease(p)
      BY <2>1, <1>t DEF TakeLease, Goto, disk, unit, callers, StoreType, ProcType
    <2>2. CASE NotePendingFence(p)
      BY <2>2, <1>t DEF NotePendingFence, Joins, Write, Goto, disk, unit, callers, StoreType,
         ProcType
    <2>3. CASE RaiseFence(p)
      BY <2>3, <1>t DEF RaiseFence, Goto, disk, unit, callers, StoreType, ProcType
    <2>4. CASE RecordFence(p)
      BY <2>4, <1>t DEF RecordFence, DecideFenceChain, Write, Goto, disk, unit, callers,
         StoreType, ProcType
    <2> QED
      BY <1>2, <2>1, <2>2, <2>3, <2>4 DEF Lease
  <1>3. ASSUME NEW p \in Proc, Recovery(p) PROVE StoreType'
    <2>1. CASE List(p)
      BY <2>1, <1>t DEF List, Goto, disk, unit, callers, StoreType, ProcType
    <2>2. CASE MarkLeft(p)
      BY <2>2, <1>t DEF MarkLeft, Write, Goto, disk, unit, callers, StoreType, ProcType
    <2>3. CASE RecoverSettle(p)
      BY <2>3, <1>t DEF RecoverSettle, Planned, SettleEntry, Goto, disk, unit, callers,
         StoreType, ProcType
    <2>4. CASE RecoverDrop(p)
      BY <2>4, <1>t DEF RecoverDrop, Planned, Write, Goto, disk, unit, callers, StoreType,
         ProcType
    <2>5. CASE RecoverSend(p)
      <3>1. PICK x \in Planned(p, "send") :
              log' = log \/ Lands(x.txn)
        BY <2>5 DEF RecoverSend
      <3>2. x.txn \in Txn
        BY <1>t, <3>1, FieldShape DEF Planned, PlansType
      <3>3. log' \in [Writer \cup {0} -> Seq(Txn)]
        BY <1>t, <3>1, <3>2, LandsShape DEF StoreType
      <3> QED
        BY <2>5, <1>t, <3>3 DEF RecoverSend, StoreType, Fault, callers
    <2>6. CASE RaiseFloor(p)
      BY <2>6, <1>t DEF RaiseFloor, Raised, Write, Goto, disk, unit, callers, StoreType,
         ProcType
    <2> QED
      BY <1>3, <2>1, <2>2, <2>3, <2>4, <2>5, <2>6 DEF Recovery
  <1>4. ASSUME NEW p \in Proc, Crash(p) PROVE StoreType'
    BY <1>4, <1>t DEF Crash, Forget, Goto, disk, unit, callers, StoreType, ProcType
  <1>5. ASSUME NEW p \in Writer, UnitOfWork(p) PROVE StoreType'
    <2>1. ASSUME NEW g \in {Data, Run}, Stage(p, g) PROVE StoreType'
      BY <2>1, <1>t DEF Stage, Goto, disk, unit, callers, StoreType, ProcType
    <2>2. CASE Build(p)
      BY <2>2, <1>t DEF Build, Built, Goto, disk, unit, callers, StoreType, ProcType
    <2>3. CASE Prepare(p)
      BY <2>3, <1>t DEF Prepare, WriteEntry, Write, Throws, GiveUp, FaultUnlessLost, Fault,
         Built, WriteEntry, Throws, FaultUnlessLost, Fault, StoreType, ProcType, callers
    <2>4. CASE AppendCommit(p)
      <3>1. log' = log \/ Lands(<<p, NextGroup(p)>>)
        BY <2>4 DEF AppendCommit
      <3>2. log' \in [Writer \cup {0} -> Seq(Txn)]
        BY <1>t, <3>1, TxnShape, LandsShape DEF StoreType
      <3> QED
        BY <2>4, <1>t, <3>2 DEF AppendCommit, StoreType, Fault, FaultUnlessLost, callers
    <2>5. CASE LandedDespite(p)
      BY <2>5, <1>t DEF LandedDespite, Refused, Throws, GiveUp, Fault, Goto, disk, unit,
         callers, StoreType, ProcType
    <2>6. CASE Settle(p)
      BY <2>6, <1>t DEF Settle, SettleEntry, Fault, Goto, disk, unit, callers, StoreType,
         ProcType
    <2>7. CASE Abandon(p)
      BY <2>7, <1>t DEF Abandon, Write, Fault, Goto, disk, unit, callers, StoreType, ProcType
    <2>8. CASE Discard(p)
      BY <2>8, <1>t DEF Discard, Write, Fault, Fault, StoreType, callers
    <2>9. CASE AcknowledgeRefusals(p)
      BY <2>9, <1>t DEF AcknowledgeRefusals, Goto, disk, unit, callers, StoreType, ProcType
    <2>10. CASE Commit(p)
      BY <2>10, <1>t DEF Commit, Goto, disk, unit, callers, StoreType, ProcType
    <2>11. CASE Finish(p)
      BY <2>11, <1>t DEF Finish, GiveUp, Goto, disk, unit, callers, StoreType, ProcType
    <2>12. CASE AbandonUnit(p)
      BY <2>12, <1>t DEF AbandonUnit, GiveUp, Goto, disk, unit, callers, StoreType, ProcType
    <2>13. CASE Close(p)
      BY <2>13, <1>t DEF Close, Forget, Write, Fault, Goto, disk, unit, callers, StoreType,
         ProcType
    <2> QED
      BY <1>5, <2>1, <2>2, <2>3, <2>4, <2>5, <2>6, <2>7, <2>8, <2>9, <2>10, <2>11, <2>12,
         <2>13 DEF UnitOfWork
  <1>6. CASE PowerCut
    BY <1>6, <1>t DEF PowerCut, Forget, Goto, disk, unit, callers, StoreType, ProcType
  <1> QED
    BY <1>1, <1>2, <1>3, <1>4, <1>5, <1>6 DEF Next

\* Entries keep their type.
LEMMA DiskTypeStep ==
  ASSUME TypeInv, [Next]_vars
  PROVE  DiskType'
  <1>t. DiskType /\ ProcType /\ UnitType /\ \A p \in Proc : Took(p)
    BY DEF TypeInv, Types
  <1>1. CASE UNCHANGED vars
    BY <1>1, <1>t DEF vars, disk, unit, callers, DiskType
  <1>2. ASSUME NEW p \in Proc, Lease(p) PROVE DiskType'
    <2>1. CASE TakeLease(p)
      BY <2>1, <1>t DEF TakeLease, Goto, disk, unit, callers, DiskType
    <2>2. CASE NotePendingFence(p)
      BY <2>2, <1>t DEF NotePendingFence, Joins, Write, Goto, disk, unit, callers, DiskType
    <2>3. CASE RaiseFence(p)
      BY <2>3, <1>t DEF RaiseFence, Goto, disk, unit, callers, DiskType
    <2>4. CASE RecordFence(p)
      BY <2>4, <1>t DEF RecordFence, DecideFenceChain, Write, Goto, disk, unit, callers,
         DiskType
    <2> QED
      BY <1>2, <2>1, <2>2, <2>3, <2>4 DEF Lease
  <1>3. ASSUME NEW p \in Proc, Recovery(p) PROVE DiskType'
    <2>1. CASE List(p)
      BY <2>1, <1>t DEF List, Goto, disk, unit, callers, DiskType
    <2>2. CASE MarkLeft(p)
      <3> SUFFICES outbox' \subseteq EntryType /\ unsynced' \subseteq EntryType
        BY DEF DiskType
      <3>1. outbox' \subseteq outbox \/ \E T : outbox' = MarkedLeft(T)
        BY <2>2 DEF MarkLeft, Write, disk
      <3>2. unsynced' \subseteq unsynced
        BY <2>2 DEF MarkLeft, Write, disk
      <3> QED
        BY <1>t, <3>1, <3>2, MarkShape DEF DiskType
    <2>3. CASE RecoverSettle(p)
      <3> SUFFICES outbox' \subseteq EntryType /\ unsynced' \subseteq EntryType
        BY DEF DiskType
      <3>1. outbox' \subseteq outbox /\ unsynced' \subseteq outbox \cup unsynced
        BY <2>3 DEF RecoverSettle, SettleEntry, Without
      <3> QED
        BY <1>t, <3>1 DEF DiskType
    <2>4. CASE RecoverDrop(p)
      <3> SUFFICES outbox' \subseteq EntryType /\ unsynced' \subseteq EntryType
        BY DEF DiskType
      <3>1. outbox' \subseteq outbox /\ unsynced' \subseteq outbox \cup unsynced
        BY <2>4 DEF RecoverDrop, Write, Without
      <3> QED
        BY <1>t, <3>1 DEF DiskType
    <2>5. CASE RecoverSend(p)
      BY <2>5, <1>t DEF RecoverSend, Planned, Fault, DiskType, disk
    <2>6. CASE RaiseFloor(p)
      BY <2>6, <1>t DEF RaiseFloor, Raised, Write, Goto, disk, unit, callers, DiskType
    <2> QED
      BY <1>3, <2>1, <2>2, <2>3, <2>4, <2>5, <2>6 DEF Recovery
  <1>4. ASSUME NEW p \in Proc, Crash(p) PROVE DiskType'
    BY <1>4, <1>t DEF Crash, Forget, Goto, disk, unit, callers, DiskType
  <1>5. ASSUME NEW p \in Writer, UnitOfWork(p) PROVE DiskType'
    <2>1. ASSUME NEW g \in {Data, Run}, Stage(p, g) PROVE DiskType'
      BY <2>1, <1>t DEF Stage, Goto, disk, unit, callers, DiskType
    <2>2. CASE Build(p)
      BY <2>2, <1>t DEF Build, Built, Goto, disk, unit, callers, DiskType
    <2>3. CASE Prepare(p)
      <3> SUFFICES outbox' \subseteq EntryType /\ unsynced' \subseteq EntryType
        BY DEF DiskType
      <3> DEFINE n == [txn |-> <<p, NextGroup(p)>>, fence |-> fence[p], base |-> base[p],
                       abandoned |-> FALSE, left |-> FALSE]
      <3>1. n \in EntryType
        <4>1. pc[p] # "idle" /\ p \in Proc
          BY <2>3 DEF Prepare
        <4>2. fence[p] \in 1..MaxFence
          BY <1>t, <4>1 DEF Took, ProcType
        <4>3. base[p] \in Nat
          BY <1>t DEF UnitType
        <4> QED
          BY <4>2, <4>3, TxnShape DEF EntryType
      <3>2. \/ UNCHANGED disk
            \/ outbox' = Without(outbox, {<<p, NextGroup(p)>>}) \cup {n} /\ unsynced' = {}
        BY <2>3 DEF Prepare, WriteEntry, Write
      <3> HIDE DEF n
      <3> QED
        BY <1>t, <3>1, <3>2 DEF DiskType, disk, Without
    <2>4. CASE AppendCommit(p)
      BY <2>4, <1>t DEF AppendCommit, FaultUnlessLost, Fault, Built, Goto, disk, unit,
         callers, DiskType
    <2>5. CASE LandedDespite(p)
      BY <2>5, <1>t DEF LandedDespite, Refused, Throws, GiveUp, Fault, disk, DiskType
    <2>6. CASE Settle(p)
      <3> SUFFICES outbox' \subseteq EntryType /\ unsynced' \subseteq EntryType
        BY DEF DiskType
      <3>1. outbox' \subseteq outbox /\ unsynced' \subseteq outbox \cup unsynced
        BY <2>6 DEF Settle, SettleEntry, Without, disk
      <3> QED
        BY <1>t, <3>1 DEF DiskType
    <2>7. CASE Abandon(p)
      <3> SUFFICES outbox' \subseteq EntryType /\ unsynced' \subseteq EntryType
        BY DEF DiskType
      <3>1. outbox' \subseteq outbox \/ \E T : outbox' = MarkedAbandoned(T)
        BY <2>7 DEF Abandon, Write, disk
      <3>2. unsynced' \subseteq unsynced
        BY <2>7 DEF Abandon, Write, disk
      <3> QED
        BY <1>t, <3>1, <3>2, MarkShape DEF DiskType
    <2>8. CASE Discard(p)
      <3> SUFFICES outbox' \subseteq EntryType /\ unsynced' \subseteq EntryType
        BY DEF DiskType
      <3>1. outbox' \subseteq outbox /\ unsynced' \subseteq outbox \cup unsynced
        BY <2>8 DEF Discard, Write, Without, disk
      <3> QED
        BY <1>t, <3>1 DEF DiskType
    <2>9. CASE AcknowledgeRefusals(p)
      BY <2>9, <1>t DEF AcknowledgeRefusals, Goto, disk, unit, callers, DiskType
    <2>10. CASE Commit(p)
      BY <2>10, <1>t DEF Commit, Goto, disk, unit, callers, DiskType
    <2>11. CASE Finish(p)
      BY <2>11, <1>t DEF Finish, GiveUp, Goto, disk, unit, callers, DiskType
    <2>12. CASE AbandonUnit(p)
      BY <2>12, <1>t DEF AbandonUnit, GiveUp, Goto, disk, unit, callers, DiskType
    <2>13. CASE Close(p)
      <3> SUFFICES outbox' \subseteq EntryType /\ unsynced' \subseteq EntryType
        BY DEF DiskType
      <3>1. outbox' \subseteq outbox \/ \E T : outbox' = MarkedAbandoned(T)
        BY <2>13 DEF Close, Write, Without, disk
      <3>2. unsynced' \subseteq unsynced
        BY <2>13 DEF Close, Write, Without, disk
      <3> QED
        BY <1>t, <3>1, <3>2, MarkShape DEF DiskType
    <2> QED
      BY <1>5, <2>1, <2>2, <2>3, <2>4, <2>5, <2>6, <2>7, <2>8, <2>9, <2>10, <2>11, <2>12,
         <2>13 DEF UnitOfWork
  <1>6. CASE PowerCut
    BY <1>6, <1>t DEF PowerCut, Forget, DiskType
  <1> QED
    BY <1>1, <1>2, <1>3, <1>4, <1>5, <1>6 DEF Next

\* Processes keep their type, and take a fence before they do anything else.
LEMMA ProcTypeStep ==
  ASSUME TypeInv, [Next]_vars
  PROVE  ProcType' /\ \A q \in Proc : Took(q)'
  <1>t. StoreType /\ ProcType /\ \A q \in Proc : Took(q)
    BY DEF TypeInv, Types
  <1>1. CASE UNCHANGED vars
    BY <1>1, <1>t DEF vars, disk, unit, callers, ProcType, Took, PCs
  <1>2. ASSUME NEW p \in Proc, Lease(p) PROVE ProcType' /\ \A q \in Proc : Took(q)'
    <2>1. CASE TakeLease(p)
      <3>1. PICK f \in (lease + 1)..MaxFence : fence' = [fence EXCEPT ![p] = f]
        BY <2>1 DEF TakeLease
      <3>2. f \in 1..MaxFence
        BY <1>t DEF StoreType
      <3> QED
        BY <2>1, <1>t, <3>1, <3>2 DEF TakeLease, Goto, ProcType, Took, PCs
    <2>2. CASE NotePendingFence(p)
      BY <2>2, <1>t DEF NotePendingFence, Joins, Write, Goto, disk, unit, callers, ProcType,
         Took, PCs
    <2>3. CASE RaiseFence(p)
      BY <2>3, <1>t DEF RaiseFence, Goto, disk, unit, callers, ProcType, Took, PCs
    <2>4. CASE RecordFence(p)
      BY <2>4, <1>t DEF RecordFence, DecideFenceChain, Write, Goto, disk, unit, callers,
         ProcType, Took, PCs
    <2> QED
      BY <1>2, <2>1, <2>2, <2>3, <2>4 DEF Lease
  <1>3. ASSUME NEW p \in Proc, Recovery(p) PROVE ProcType' /\ \A q \in Proc : Took(q)'
    <2>1. CASE List(p)
      BY <2>1, <1>t DEF List, Goto, disk, unit, callers, ProcType, Took, PCs
    <2>2. CASE MarkLeft(p)
      BY <2>2, <1>t DEF MarkLeft, Write, Goto, disk, unit, callers, ProcType, Took, PCs
    <2>3. CASE RecoverSettle(p)
      BY <2>3, <1>t DEF RecoverSettle, Planned, SettleEntry, Goto, disk, unit, callers,
         ProcType, Took, PCs
    <2>4. CASE RecoverDrop(p)
      BY <2>4, <1>t DEF RecoverDrop, Planned, Write, Goto, disk, unit, callers, ProcType,
         Took, PCs
    <2>5. CASE RecoverSend(p)
      BY <2>5, <1>t DEF RecoverSend, Planned, Fault, Goto, disk, unit, callers, ProcType,
         Took, PCs
    <2>6. CASE RaiseFloor(p)
      BY <2>6, <1>t DEF RaiseFloor, Raised, Write, Goto, disk, unit, callers, ProcType, Took,
         PCs
    <2> QED
      BY <1>3, <2>1, <2>2, <2>3, <2>4, <2>5, <2>6 DEF Recovery
  <1>4. ASSUME NEW p \in Proc, Crash(p) PROVE ProcType' /\ \A q \in Proc : Took(q)'
    BY <1>4, <1>t DEF Crash, Forget, Goto, disk, unit, callers, ProcType, Took, PCs
  <1>5. ASSUME NEW p \in Writer, UnitOfWork(p) PROVE ProcType' /\ \A q \in Proc : Took(q)'
    <2>1. ASSUME NEW g \in {Data, Run}, Stage(p, g) PROVE ProcType' /\ \A q \in Proc : Took(q)'
      BY <2>1, <1>t DEF Stage, Goto, disk, unit, callers, ProcType, Took, PCs
    <2>2. CASE Build(p)
      BY <2>2, <1>t DEF Build, Built, Goto, disk, unit, callers, ProcType, Took, PCs
    <2>3. CASE Prepare(p)
      BY <2>3, <1>t DEF Prepare, WriteEntry, Write, Throws, GiveUp, FaultUnlessLost, Fault,
         Built, Goto, disk, unit, callers, ProcType, Took, PCs
    <2>4. CASE AppendCommit(p)
      BY <2>4, <1>t DEF AppendCommit, FaultUnlessLost, Fault, Built, Goto, disk, unit,
         callers, ProcType, Took, PCs
    <2>5. CASE LandedDespite(p)
      BY <2>5, <1>t DEF LandedDespite, Refused, Throws, GiveUp, Fault, Goto, disk, unit,
         callers, ProcType, Took, PCs
    <2>6. CASE Settle(p)
      BY <2>6, <1>t DEF Settle, SettleEntry, Fault, Goto, disk, unit, callers, ProcType,
         Took, PCs
    <2>7. CASE Abandon(p)
      BY <2>7, <1>t DEF Abandon, Write, Fault, Goto, disk, unit, callers, ProcType, Took, PCs
    <2>8. CASE Discard(p)
      BY <2>8, <1>t DEF Discard, Write, Fault, Goto, disk, unit, callers, ProcType, Took, PCs
    <2>9. CASE AcknowledgeRefusals(p)
      BY <2>9, <1>t DEF AcknowledgeRefusals, Goto, disk, unit, callers, ProcType, Took, PCs
    <2>10. CASE Commit(p)
      BY <2>10, <1>t DEF Commit, Goto, disk, unit, callers, ProcType, Took, PCs
    <2>11. CASE Finish(p)
      BY <2>11, <1>t DEF Finish, GiveUp, Goto, disk, unit, callers, ProcType, Took, PCs
    <2>12. CASE AbandonUnit(p)
      BY <2>12, <1>t DEF AbandonUnit, GiveUp, Goto, disk, unit, callers, ProcType, Took, PCs
    <2>13. CASE Close(p)
      BY <2>13, <1>t DEF Close, Forget, Write, Fault, Goto, disk, unit, callers, ProcType,
         Took, PCs
    <2> QED
      BY <1>5, <2>1, <2>2, <2>3, <2>4, <2>5, <2>6, <2>7, <2>8, <2>9, <2>10, <2>11, <2>12,
         <2>13 DEF UnitOfWork
  <1>6. CASE PowerCut
    BY <1>6, <1>t DEF PowerCut, Forget, Goto, disk, unit, callers, ProcType, Took, PCs
  <1> QED
    BY <1>1, <1>2, <1>3, <1>4, <1>5, <1>6 DEF Next

\* A plan has a step for each entry of the outbox.  An entry is sent if it is not marked, has
\* not landed, is not overtaken and its process is gone; it is left if it is not overtaken
\* either.
LEMMA PlanShape ==
  ASSUME outbox \subseteq EntryType, NEW p, NEW old
  PROVE  \A x \in PlanOutboxRecovery(p, old) :
            /\ x \in PlanType
            /\ \E e \in outbox :
                  /\ x.txn = e.txn
                  /\ x.do = "settle" => Landed(e.txn)
                  /\ x.do \in {"send", "leave"} =>
                        /\ ~e.abandoned /\ ~(e.fence < chain.start)
                        /\ ~(e.fence < chain.floor /\ ~e.left)
                  /\ x.do = "send" => ~WriterAlive(p, e.txn[1])
  <1> DEFINE Aged(e) == IF Fate(p, e) = "send" /\ e.txn \in old THEN "drop" ELSE Fate(p, e)
             Dropped(w) == \E e \in outbox : e.txn = <<w, Data>> /\ Aged(e) = "drop"
             Do(e) == IF Aged(e) = "send" /\ e.txn[2] = Run /\ Dropped(e.txn[1])
                      THEN "drop" ELSE Aged(e)
  <1>1. PlanOutboxRecovery(p, old)
           = {[txn |-> e.txn, base |-> e.base, do |-> Do(e)] : e \in outbox}
    BY DEF PlanOutboxRecovery
  <1>2. \A e \in outbox : Do(e) \in {Fate(p, e), "drop"}
    OBVIOUS
  <1> HIDE DEF Do
  <1> SUFFICES ASSUME NEW e \in outbox,
                      NEW x, x = [txn |-> e.txn, base |-> e.base, do |-> Do(e)]
               PROVE  /\ x \in PlanType /\ x.txn = e.txn
                      /\ x.do = "settle" => Landed(e.txn)
                      /\ x.do \in {"send", "leave"} =>
                            /\ ~e.abandoned /\ ~(e.fence < chain.start)
                            /\ ~(e.fence < chain.floor /\ ~e.left)
                      /\ x.do = "send" => ~WriterAlive(p, e.txn[1])
    BY <1>1
  <1>3. Fate(p, e) \in {"leave", "settle", "drop", "send"}
    BY DEF Fate
  <1>4. x.txn = e.txn /\ x.base = e.base /\ x.do \in {Fate(p, e), "drop"}
    BY <1>2
  <1>5. x \in PlanType
    BY <1>3, <1>4, FieldShape DEF PlanType
  <1>6. x.do = "settle" => Landed(e.txn)
    BY <1>4 DEF Fate
  <1>7. x.do \in {"send", "leave"} =>
           /\ ~e.abandoned /\ ~(e.fence < chain.start)
           /\ ~(e.fence < chain.floor /\ ~e.left)
    BY <1>4 DEF Fate
  <1>8. x.do = "send" => ~WriterAlive(p, e.txn[1])
    BY <1>4 DEF Fate
  <1> QED
    BY <1>4, <1>5, <1>6, <1>7, <1>8

\* Plans keep their type.
LEMMA PlansTypeStep ==
  ASSUME TypeInv, [Next]_vars
  PROVE  PlansType'
  <1>t. DiskType /\ PlansType
    BY DEF TypeInv, Types
  <1>1. CASE UNCHANGED vars
    BY <1>1, <1>t DEF vars, disk, unit, callers, PlansType
  <1>2. ASSUME NEW p \in Proc, Lease(p) PROVE PlansType'
    <2>1. CASE TakeLease(p)
      BY <2>1, <1>t DEF TakeLease, Goto, disk, unit, callers, PlansType
    <2>2. CASE NotePendingFence(p)
      BY <2>2, <1>t DEF NotePendingFence, Joins, Write, Goto, disk, unit, callers, PlansType
    <2>3. CASE RaiseFence(p)
      BY <2>3, <1>t DEF RaiseFence, Goto, disk, unit, callers, PlansType
    <2>4. CASE RecordFence(p)
      BY <2>4, <1>t DEF RecordFence, DecideFenceChain, Write, Goto, disk, unit, callers,
         PlansType
    <2> QED
      BY <1>2, <2>1, <2>2, <2>3, <2>4 DEF Lease
  <1>3. ASSUME NEW p \in Proc, Recovery(p) PROVE PlansType'
    <2>1. CASE List(p)
      <3>1. CASE outbox = {}
        BY <2>1, <1>t, <3>1 DEF List, PlansType
      <3>2. CASE outbox # {}
        <4>1. PICK old : plan' = [plan EXCEPT ![p] = PlanOutboxRecovery(p, old)]
          BY <2>1, <3>2 DEF List
        <4>2. PlanOutboxRecovery(p, old) \subseteq PlanType
          BY <1>t, PlanShape DEF DiskType
        <4> QED
          BY <1>t, <4>1, <4>2 DEF PlansType
      <3> QED
        BY <3>1, <3>2
    <2>2. CASE MarkLeft(p)
      BY <2>2, <1>t DEF MarkLeft, Write, Goto, disk, unit, callers, PlansType
    <2>3. CASE RecoverSettle(p)
      BY <2>3, <1>t DEF RecoverSettle, Planned, SettleEntry, Goto, disk, unit, callers,
         PlansType
    <2>4. CASE RecoverDrop(p)
      BY <2>4, <1>t DEF RecoverDrop, Planned, Write, Goto, disk, unit, callers, PlansType
    <2>5. CASE RecoverSend(p)
      <3>1. PICK x \in Planned(p, "send") :
              \/ plan' = plan
              \/ plan' = [plan EXCEPT ![p] = (plan[p] \ {x}) \cup {[x EXCEPT !.do = "settle"]}]
              \/ plan' = [plan EXCEPT ![p] = WithRunEntry(p, x)]
        BY <2>5 DEF RecoverSend
      <3>2. plan[p] \subseteq PlanType /\ x \in plan[p]
        BY <1>t, <3>1 DEF Planned, PlansType
      <3>3. WithRunEntry(p, x) \subseteq PlanType
        BY <3>2 DEF WithRunEntry, PlanType
      <3>4. [x EXCEPT !.do = "settle"] \in PlanType
        BY <3>2 DEF PlanType
      <3> QED
        BY <1>t, <3>1, <3>2, <3>3, <3>4 DEF PlansType
    <2>6. CASE RaiseFloor(p)
      BY <2>6, <1>t DEF RaiseFloor, Raised, Write, Goto, disk, unit, callers, PlansType
    <2> QED
      BY <1>3, <2>1, <2>2, <2>3, <2>4, <2>5, <2>6 DEF Recovery
  <1>4. ASSUME NEW p \in Proc, Crash(p) PROVE PlansType'
    BY <1>4, <1>t DEF Crash, Forget, Goto, disk, unit, callers, PlansType
  <1>5. ASSUME NEW p \in Writer, UnitOfWork(p) PROVE PlansType'
    <2>1. ASSUME NEW g \in {Data, Run}, Stage(p, g) PROVE PlansType'
      BY <2>1, <1>t DEF Stage, Goto, disk, unit, callers, PlansType
    <2>2. CASE Build(p)
      BY <2>2, <1>t DEF Build, Built, Goto, disk, unit, callers, PlansType
    <2>3. CASE Prepare(p)
      BY <2>3, <1>t DEF Prepare, WriteEntry, Write, Throws, GiveUp, FaultUnlessLost, Fault,
         Built, Goto, disk, unit, callers, PlansType
    <2>4. CASE AppendCommit(p)
      BY <2>4, <1>t DEF AppendCommit, FaultUnlessLost, Fault, Built, Goto, disk, unit,
         callers, PlansType
    <2>5. CASE LandedDespite(p)
      BY <2>5, <1>t DEF LandedDespite, Refused, Throws, GiveUp, Fault, Goto, disk, unit,
         callers, PlansType
    <2>6. CASE Settle(p)
      BY <2>6, <1>t DEF Settle, SettleEntry, Fault, Goto, disk, unit, callers, PlansType
    <2>7. CASE Abandon(p)
      BY <2>7, <1>t DEF Abandon, Write, Fault, Goto, disk, unit, callers, PlansType
    <2>8. CASE Discard(p)
      BY <2>8, <1>t DEF Discard, Write, Fault, Goto, disk, unit, callers, PlansType
    <2>9. CASE AcknowledgeRefusals(p)
      BY <2>9, <1>t DEF AcknowledgeRefusals, Goto, disk, unit, callers, PlansType
    <2>10. CASE Commit(p)
      BY <2>10, <1>t DEF Commit, Goto, disk, unit, callers, PlansType
    <2>11. CASE Finish(p)
      BY <2>11, <1>t DEF Finish, GiveUp, Goto, disk, unit, callers, PlansType
    <2>12. CASE AbandonUnit(p)
      BY <2>12, <1>t DEF AbandonUnit, GiveUp, Goto, disk, unit, callers, PlansType
    <2>13. CASE Close(p)
      BY <2>13, <1>t DEF Close, Forget, Write, Fault, Goto, disk, unit, callers, PlansType
    <2> QED
      BY <1>5, <2>1, <2>2, <2>3, <2>4, <2>5, <2>6, <2>7, <2>8, <2>9, <2>10, <2>11, <2>12,
         <2>13 DEF UnitOfWork
  <1>6. CASE PowerCut
    BY <1>6, <1>t DEF PowerCut, Forget, Goto, disk, unit, callers, PlansType
  <1> QED
    BY <1>1, <1>2, <1>3, <1>4, <1>5, <1>6 DEF Next

\* Groups keep their type.
LEMMA GroupsTypeStep ==
  ASSUME TypeInv, [Next]_vars
  PROVE  GroupsType'
  <1>t. GroupsType
    BY DEF TypeInv, Types
  <1>1. CASE UNCHANGED vars
    BY <1>1, <1>t DEF vars, disk, unit, callers, GroupsType
  <1>2. ASSUME NEW p \in Proc, Lease(p) PROVE GroupsType'
    <2>1. CASE TakeLease(p)
      BY <2>1, <1>t DEF TakeLease, Goto, disk, unit, callers, GroupsType
    <2>2. CASE NotePendingFence(p)
      BY <2>2, <1>t DEF NotePendingFence, Joins, Write, Goto, disk, unit, callers, GroupsType
    <2>3. CASE RaiseFence(p)
      BY <2>3, <1>t DEF RaiseFence, Goto, disk, unit, callers, GroupsType
    <2>4. CASE RecordFence(p)
      BY <2>4, <1>t DEF RecordFence, DecideFenceChain, Write, Goto, disk, unit, callers,
         GroupsType
    <2> QED
      BY <1>2, <2>1, <2>2, <2>3, <2>4 DEF Lease
  <1>3. ASSUME NEW p \in Proc, Recovery(p) PROVE GroupsType'
    <2>1. CASE List(p)
      BY <2>1, <1>t DEF List, Goto, disk, unit, callers, GroupsType
    <2>2. CASE MarkLeft(p)
      BY <2>2, <1>t DEF MarkLeft, Write, Goto, disk, unit, callers, GroupsType
    <2>3. CASE RecoverSettle(p)
      BY <2>3, <1>t DEF RecoverSettle, Planned, SettleEntry, Goto, disk, unit, callers,
         GroupsType
    <2>4. CASE RecoverDrop(p)
      BY <2>4, <1>t DEF RecoverDrop, Planned, Write, Goto, disk, unit, callers, GroupsType
    <2>5. CASE RecoverSend(p)
      BY <2>5, <1>t DEF RecoverSend, Planned, Fault, GroupsType, unit
    <2>6. CASE RaiseFloor(p)
      BY <2>6, <1>t DEF RaiseFloor, Raised, Write, Goto, disk, unit, callers, GroupsType
    <2> QED
      BY <1>3, <2>1, <2>2, <2>3, <2>4, <2>5, <2>6 DEF Recovery
  <1>4. ASSUME NEW p \in Proc, Crash(p) PROVE GroupsType'
    BY <1>4, <1>t DEF Crash, Forget, Goto, disk, unit, callers, GroupsType
  <1>5. ASSUME NEW p \in Writer, UnitOfWork(p) PROVE GroupsType'
    <2>1. ASSUME NEW g \in {Data, Run}, Stage(p, g) PROVE GroupsType'
      BY <2>1, <1>t DEF Stage, Goto, disk, unit, callers, GroupsType
    <2>2. CASE Build(p)
      BY <2>2, <1>t DEF Build, Built, Goto, disk, unit, callers, GroupsType
    <2>3. CASE Prepare(p)
      BY <2>3, <1>t DEF Prepare, WriteEntry, Write, Throws, GiveUp, FaultUnlessLost, Fault,
         Built, Throws, GiveUp, GroupsType, NextGroup
    <2>4. CASE AppendCommit(p)
      BY <2>4, <1>t DEF AppendCommit, FaultUnlessLost, Fault, Built, Goto, disk, unit,
         callers, GroupsType
    <2>5. CASE LandedDespite(p)
      <3>1. NextGroup(p) \in {Data, Run}
        BY TxnShape
      <3>2. todo' \in [Writer -> SUBSET {Data, Run}]
        BY <2>5, <1>t DEF LandedDespite, Refused, GroupsType
      <3>3. keys' \in [Writer -> SUBSET {Data, Run}] /\ prepared' \in [Writer -> SUBSET {Data, Run}]
        BY <2>5, <1>t DEF LandedDespite, Refused, Throws, GiveUp, GroupsType
      <3>4. giving' \in [Writer -> SUBSET {Data, Run}]
        BY <2>5, <1>t, <3>1 DEF LandedDespite, Refused, Throws, GiveUp, GroupsType
      <3> QED
        BY <2>5, <1>t, <3>2, <3>3, <3>4 DEF LandedDespite, GroupsType
    <2>6. CASE Settle(p)
      <3>1. NextGroup(p) \in {Data, Run}
        BY TxnShape
      <3>2. todo' \in [Writer -> SUBSET {Data, Run}] /\ prepared' \in [Writer -> SUBSET {Data, Run}]
        BY <2>6, <1>t DEF Settle, GroupsType
      <3>3. owed' \in [Writer -> SUBSET {Data, Run}]
        BY <2>6, <1>t, <3>1 DEF Settle, GroupsType
      <3> QED
        BY <2>6, <1>t, <3>2, <3>3 DEF Settle, GroupsType
    <2>7. CASE Abandon(p)
      BY <2>7, <1>t DEF Abandon, Write, Fault, Goto, disk, unit, callers, GroupsType
    <2>8. CASE Discard(p)
      BY <2>8, <1>t DEF Discard, Write, Fault, Goto, disk, unit, callers, GroupsType
    <2>9. CASE AcknowledgeRefusals(p)
      BY <2>9, <1>t DEF AcknowledgeRefusals, Goto, disk, unit, callers, GroupsType
    <2>10. CASE Commit(p)
      BY <2>10, <1>t DEF Commit, Goto, disk, unit, callers, GroupsType
    <2>11. CASE Finish(p)
      BY <2>11, <1>t DEF Finish, GiveUp, Goto, disk, unit, callers, GroupsType
    <2>12. CASE AbandonUnit(p)
      BY <2>12, <1>t DEF AbandonUnit, GiveUp, Goto, disk, unit, callers, GroupsType
    <2>13. CASE Close(p)
      BY <2>13, <1>t DEF Close, Forget, Write, Fault, Goto, disk, unit, callers, GroupsType
    <2> QED
      BY <1>5, <2>1, <2>2, <2>3, <2>4, <2>5, <2>6, <2>7, <2>8, <2>9, <2>10, <2>11, <2>12,
         <2>13 DEF UnitOfWork
  <1>6. CASE PowerCut
    BY <1>6, <1>t DEF PowerCut, Forget, Goto, disk, unit, callers, GroupsType
  <1> QED
    BY <1>1, <1>2, <1>3, <1>4, <1>5, <1>6 DEF Next

\* Units and callers keep their types.
LEMMA UnitTypeStep ==
  ASSUME TypeInv, [Next]_vars
  PROVE  UnitType'
  <1>t. UnitType /\ GroupsType /\ StoreType
    BY DEF TypeInv, Types
  <1>1. CASE UNCHANGED vars
    BY <1>1, <1>t DEF vars, disk, unit, callers, UnitType
  <1>2. ASSUME NEW p \in Proc, Lease(p) PROVE UnitType'
    <2>1. CASE TakeLease(p)
      BY <2>1, <1>t DEF TakeLease, Goto, disk, unit, callers, UnitType
    <2>2. CASE NotePendingFence(p)
      BY <2>2, <1>t DEF NotePendingFence, Joins, Write, Goto, disk, unit, callers, UnitType
    <2>3. CASE RaiseFence(p)
      BY <2>3, <1>t DEF RaiseFence, Goto, disk, unit, callers, UnitType
    <2>4. CASE RecordFence(p)
      BY <2>4, <1>t DEF RecordFence, DecideFenceChain, Write, Goto, disk, unit, callers,
         UnitType
    <2> QED
      BY <1>2, <2>1, <2>2, <2>3, <2>4 DEF Lease
  <1>3. ASSUME NEW p \in Proc, Recovery(p) PROVE UnitType'
    <2>1. CASE List(p)
      BY <2>1, <1>t DEF List, Goto, disk, unit, callers, UnitType
    <2>2. CASE MarkLeft(p)
      BY <2>2, <1>t DEF MarkLeft, Write, Goto, disk, unit, callers, UnitType
    <2>3. CASE RecoverSettle(p)
      BY <2>3, <1>t DEF RecoverSettle, Planned, SettleEntry, Goto, disk, unit, callers,
         UnitType
    <2>4. CASE RecoverDrop(p)
      BY <2>4, <1>t DEF RecoverDrop, Planned, Write, Goto, disk, unit, callers, UnitType
    <2>5. CASE RecoverSend(p)
      BY <2>5, <1>t DEF RecoverSend, Planned, Fault, UnitType, unit, callers
    <2>6. CASE RaiseFloor(p)
      BY <2>6, <1>t DEF RaiseFloor, Raised, Write, Goto, disk, unit, callers, UnitType
    <2> QED
      BY <1>3, <2>1, <2>2, <2>3, <2>4, <2>5, <2>6 DEF Recovery
  <1>4. ASSUME NEW p \in Proc, Crash(p) PROVE UnitType'
    BY <1>4, <1>t DEF Crash, Forget, Goto, disk, unit, callers, UnitType
  <1>5. ASSUME NEW p \in Writer, UnitOfWork(p) PROVE UnitType'
    <2>1. ASSUME NEW g \in {Data, Run}, Stage(p, g) PROVE UnitType'
      <3>1. <<p, g>> \in Txn
        BY <2>1, TxnShape
      <3> QED
        BY <2>1, <1>t, <3>1 DEF Stage, UnitType, callers
    <2>2. CASE Build(p)
      <3>1. HeadSeq(Partition(<<p, NextGroup(p)>>)) \in Nat
        BY <1>t, TxnShape DEF HeadSeq, StoreType
      <3> QED
        BY <2>2, <1>t, <3>1 DEF Build, Built, UnitType, unit, callers
    <2>3. CASE Prepare(p)
      <3>1. late' \subseteq Txn
        <4>1. late' \subseteq late \cup {<<p, NextGroup(p)>>}
          BY <2>3 DEF Prepare, WriteEntry
        <4>2. <<p, NextGroup(p)>> \in Txn
          BY TxnShape
        <4> QED
          BY <1>t, <4>1, <4>2 DEF UnitType
      <3> QED
        BY <2>3, <1>t, <3>1 DEF Prepare, UnitType, Built
    <2>4. CASE AppendCommit(p)
      BY <2>4, <1>t DEF AppendCommit, FaultUnlessLost, Fault, Built, Goto, disk, unit,
         callers, UnitType
    <2>5. CASE LandedDespite(p)
      BY <2>5, <1>t DEF LandedDespite, Refused, Throws, GiveUp, Fault, Refused, UnitType
    <2>6. CASE Settle(p)
      BY <2>6, <1>t DEF Settle, SettleEntry, Fault, Goto, disk, unit, callers, UnitType
    <2>7. CASE Abandon(p)
      BY <2>7, <1>t DEF Abandon, Write, Fault, Goto, disk, unit, callers, UnitType
    <2>8. CASE Discard(p)
      <3>1. told' \subseteq Txn
        <4>1. giving[p] \subseteq {Data, Run}
          BY <1>t DEF GroupsType
        <4>2. Txns(p, giving[p]) \subseteq Txn
          <5> SUFFICES ASSUME NEW t \in Txns(p, giving[p]) PROVE t \in Txn
            OBVIOUS
          <5>1. PICK g \in giving[p] : t = <<p, g>>
            BY DEF Txns
          <5> QED
            BY <4>1, <5>1, TxnShape
        <4> QED
          BY <2>8, <1>t, <4>2 DEF Discard, UnitType
      <3> QED
        BY <2>8, <1>t, <3>1 DEF Discard, UnitType
    <2>9. CASE AcknowledgeRefusals(p)
      BY <2>9, <1>t DEF AcknowledgeRefusals, Goto, disk, unit, callers, UnitType
    <2>10. CASE Commit(p)
      BY <2>10, <1>t DEF Commit, Goto, disk, unit, callers, UnitType
    <2>11. CASE Finish(p)
      BY <2>11, <1>t DEF Finish, GiveUp, UnitType
    <2>12. CASE AbandonUnit(p)
      BY <2>12, <1>t DEF AbandonUnit, GiveUp, Goto, disk, unit, callers, UnitType
    <2>13. CASE Close(p)
      BY <2>13, <1>t DEF Close, Forget, Write, Fault, Goto, disk, unit, callers, UnitType
    <2> QED
      BY <1>5, <2>1, <2>2, <2>3, <2>4, <2>5, <2>6, <2>7, <2>8, <2>9, <2>10, <2>11, <2>12,
         <2>13 DEF UnitOfWork
  <1>6. CASE PowerCut
    BY <1>6, <1>t DEF PowerCut, Forget, Goto, disk, unit, callers, UnitType
  <1> QED
    BY <1>1, <1>2, <1>3, <1>4, <1>5, <1>6 DEF Next

\* Types are kept.
LEMMA TypeInvStep == TypeInv /\ [Next]_vars => TypeInv'
  BY StoreTypeStep, DiskTypeStep, ProcTypeStep, PlansTypeStep, GroupsTypeStep, UnitTypeStep
     DEF TypeInv, Types

\* TypeOK of CommitOutbox holds for any processes, fences and faults: the chain, the entries
\* and the plans of recoveries name fences of the lease and commits of units that exist.
THEOREM OutboxTypeCorrect == Spec => []TypeOK
  <1>1. TypeInv => TypeOK
    BY TypeParts DEF TypeInv
  <1> QED
    BY <1>1, TypeInvInit, TypeInvStep, PTL DEF Spec

-----------------------------------------------------------------------------
(* The chain of fences. *)

\* The chain starts empty.
LEMMA ChainInvInit == Init => ChainInv
  <1> SUFFICES ASSUME Init PROVE ChainInv
    OBVIOUS
  <1>1. TypeInv
    BY TypeInvInit
  <1>2. chain.last = 0 /\ chain.start = 0 /\ chain.note = 0 /\ lease = 0
    BY DEF Init
  <1>3. ChainIsOurs
    BY <1>2 DEF ChainIsOurs
  <1>4. \A p \in Proc : fence[p] <= lease
    BY DEF Init
  <1> QED
    BY <1>1, <1>2, <1>3, <1>4 DEF ChainInv

\* What ChainInv says beyond types.
ChainRest ==
    /\ ChainIsOurs
    /\ chain.note # 0 => Ours(chain.note)
    /\ ~Replicated => \A f \in 1..lease : Ours(f)
    /\ chain.last <= lease /\ chain.note <= lease
    /\ \A p \in Proc : fence[p] <= lease

\* The chain is extended by fences of this copy, and restarts at one.
LEMMA ChainStep ==
  ASSUME ChainInv, [Next]_vars
  PROVE  ChainRest'
  <1>t. /\ StoreType /\ ProcType /\ ChainIsOurs /\ (chain.note # 0 => Ours(chain.note))
        /\ (~Replicated => \A f \in 1..lease : Ours(f))
        /\ chain.last <= lease /\ chain.note <= lease /\ \A q \in Proc : fence[q] <= lease
        /\ \A q \in Proc : Took(q)
    BY DEF ChainInv, TypeInv, Types
  <1>0. \A q \in Proc : pc[q] = "idle" => fence[q] = 0
    BY <1>t DEF Took
  <1>c. /\ lease \in Nat /\ chain.last \in Nat /\ chain.note \in Nat /\ chain.start \in Nat
        /\ chain.floor \in Nat /\ \A q \in Proc : fence[q] \in Nat
    BY <1>t DEF StoreType, ProcType
  <1>g. ASSUME UNCHANGED <<lease, fence>>,
               chain' = chain \/ chain' = [chain EXCEPT !.floor = chain'.floor]
        PROVE  ChainRest'
    <2>1. /\ chain'.last = chain.last /\ chain'.start = chain.start /\ chain'.note = chain.note
      BY <1>t, <1>g DEF StoreType
    <2> QED
      BY <1>t, <1>g, <2>1 DEF ChainRest, ChainIsOurs, Ours
  <1>1. CASE UNCHANGED vars
    BY <1>1, <1>g DEF vars
  <1>2. ASSUME NEW p \in Proc, Lease(p) PROVE ChainRest'
    <2>1. CASE TakeLease(p)
      <3>1. PICK f \in (lease + 1)..MaxFence :
              (Replicated \/ f = lease + 1) /\ lease' = f /\ fence' = [fence EXCEPT ![p] = f]
        BY <2>1 DEF TakeLease
      <3>2. fence[p] = 0 /\ chain' = chain
        BY <2>1, <1>0 DEF TakeLease
      <3>3. f \in Nat /\ f > lease
        BY <1>c
      <3>4. \A k \in Nat : k # 0 /\ Ours(k) => Ours(k)'
        <4> SUFFICES ASSUME NEW k \in Nat, k # 0, NEW q \in Proc, fence[q] = k PROVE fence'[q] = k
          BY DEF Ours
        <4>1. q # p
          BY <3>2
        <4> QED
          BY <1>t, <3>1, <4>1 DEF ProcType
      <3>5. Ours(f)'
        BY <1>t, <3>1 DEF ProcType, Ours
      <3>6. ChainIsOurs'
        BY <1>t, <1>c, <3>2, <3>4 DEF ChainIsOurs, Ours
      <3>7. (chain.note # 0 => Ours(chain.note))'
        BY <1>t, <1>c, <3>2, <3>4 DEF Ours
      <3>8. ASSUME ~Replicated, NEW k \in 1..lease' PROVE Ours(k)'
        <4>1. CASE k = f
          BY <3>5, <4>1
        <4>2. CASE k # f
          BY <1>t, <1>c, <3>1, <3>3, <3>4, <3>8, <4>2
        <4> QED
          BY <4>1, <4>2
      <3>9. /\ chain'.last <= lease' /\ chain'.note <= lease'
            /\ \A q \in Proc : fence'[q] <= lease'
        BY <1>t, <1>c, <3>1, <3>2, <3>3 DEF ProcType
      <3> QED
        BY <3>6, <3>7, <3>8, <3>9 DEF ChainRest, Ours
    <2>2. CASE NotePendingFence(p)
      <3>1. lease' = lease /\ fence' = fence
        BY <2>2 DEF NotePendingFence
      <3>2. /\ chain'.last = (IF Joins THEN chain.note ELSE chain.last)
            /\ chain'.start = (IF Joins /\ chain.last = 0 THEN chain.note ELSE chain.start)
            /\ chain'.note = (IF chain.note > fence[p] THEN chain.note ELSE fence[p])
        BY <2>2, <1>t DEF NotePendingFence, StoreType
      <3>3. Ours(fence[p])
        BY DEF Ours
      <3>4. ASSUME NEW f \in chain'.start..chain'.last, f # 0 PROVE Ours(f)
        BY <1>t, <1>c, <3>2, <3>4 DEF ChainIsOurs, Joins, Ours
      <3> QED
        BY <1>t, <1>c, <3>1, <3>2, <3>3, <3>4 DEF ChainRest, ChainIsOurs, Ours
    <2>3. CASE RaiseFence(p)
      BY <2>3, <1>g DEF RaiseFence
    <2>4. CASE RecordFence(p)
      <3>1. lease' = lease /\ fence' = fence
        BY <2>4 DEF RecordFence
      <3>2. chain' = DecideFenceChain(fence[p])
        BY <2>4 DEF RecordFence
      <3> DEFINE last == IF chain.note = chain.last + 1 THEN chain.note ELSE chain.last
      <3>3. /\ chain'.last = fence[p] /\ chain'.note = 0
            /\ \/ chain'.start = fence[p]
               \/ /\ chain'.start = chain.start /\ fence[p] >= chain.last
                  /\ fence[p] \in {last, last + 1} \/ ~Replicated
        BY <3>2 DEF DecideFenceChain
      <3>4. Ours(fence[p])
        BY DEF Ours
      <3>5. ASSUME NEW f \in chain'.start..chain'.last, f # 0 PROVE Ours(f)
        <4>1. f \in Nat /\ f <= fence[p]
          BY <1>c, <3>3
        <4>2. CASE f = fence[p]
          BY <3>4, <4>2
        <4>3. CASE ~Replicated
          BY <1>t, <1>c, <3>5, <4>1, <4>3
        <4>4. CASE f # fence[p] /\ Replicated
          <5>1. chain'.start = chain.start /\ fence[p] \in {last, last + 1}
            BY <1>c, <3>3, <3>5, <4>1, <4>4
          <5>2. f \in chain.start..chain.last \/ f = chain.note
            BY <1>c, <3>5, <4>1, <4>4, <5>1
          <5> QED
            BY <1>t, <3>5, <5>2 DEF ChainIsOurs, Ours
        <4> QED
          BY <4>2, <4>3, <4>4
      <3> QED
        BY <1>t, <1>c, <3>1, <3>3, <3>5 DEF ChainRest, ChainIsOurs, Ours
    <2> QED
      BY <1>2, <2>1, <2>2, <2>3, <2>4 DEF Lease
  <1>3. ASSUME NEW p \in Proc, Recovery(p) PROVE ChainRest'
    <2>1. CASE List(p)
      BY <2>1, <1>g DEF List
    <2>2. CASE MarkLeft(p)
      BY <2>2, <1>g DEF MarkLeft
    <2>3. CASE RecoverSettle(p)
      BY <2>3, <1>g DEF RecoverSettle
    <2>4. CASE RecoverDrop(p)
      BY <2>4, <1>g DEF RecoverDrop
    <2>5. CASE RecoverSend(p)
      BY <2>5, <1>g DEF RecoverSend
    <2>6. CASE RaiseFloor(p)
      BY <2>6, <1>g DEF RaiseFloor, Raised
    <2> QED
      BY <1>3, <2>1, <2>2, <2>3, <2>4, <2>5, <2>6 DEF Recovery
  <1>4. ASSUME NEW p \in Proc, Crash(p) PROVE ChainRest'
    BY <1>4, <1>g DEF Crash
  <1>5. ASSUME NEW p \in Writer, UnitOfWork(p) PROVE ChainRest'
    <2>1. ASSUME NEW g \in {Data, Run}, Stage(p, g) PROVE ChainRest'
      BY <2>1, <1>g DEF Stage
    <2>2. CASE Build(p)
      BY <2>2, <1>g DEF Build
    <2>3. CASE Prepare(p)
      BY <2>3, <1>g DEF Prepare
    <2>4. CASE AppendCommit(p)
      BY <2>4, <1>g DEF AppendCommit
    <2>5. CASE LandedDespite(p)
      BY <2>5, <1>g DEF LandedDespite
    <2>6. CASE Settle(p)
      BY <2>6, <1>g DEF Settle
    <2>7. CASE Abandon(p)
      BY <2>7, <1>g DEF Abandon
    <2>8. CASE Discard(p)
      BY <2>8, <1>g DEF Discard
    <2>9. CASE AcknowledgeRefusals(p)
      BY <2>9, <1>g DEF AcknowledgeRefusals
    <2>10. CASE Commit(p)
      BY <2>10, <1>g DEF Commit
    <2>11. CASE Finish(p)
      BY <2>11, <1>g DEF Finish
    <2>12. CASE AbandonUnit(p)
      BY <2>12, <1>g DEF AbandonUnit
    <2>13. CASE Close(p)
      BY <2>13, <1>g DEF Close
    <2> QED
      BY <1>5, <2>1, <2>2, <2>3, <2>4, <2>5, <2>6, <2>7, <2>8, <2>9, <2>10, <2>11, <2>12,
         <2>13 DEF UnitOfWork
  <1>6. CASE PowerCut
    BY <1>6, <1>g DEF PowerCut
  <1> QED
    BY <1>1, <1>2, <1>3, <1>4, <1>5, <1>6 DEF Next

\* The invariant of the chain is kept.
LEMMA ChainInvStep == ChainInv /\ [Next]_vars => ChainInv'
  <1>1. ChainInv /\ [Next]_vars => TypeInv'
    BY TypeInvStep DEF ChainInv
  <1> QED
    BY <1>1, ChainStep DEF ChainInv, ChainRest

\* ChainIsOurs: recordFence and notePendingFence never put a fence into the chain that another
\* copy took, whatever the order in which processes note, raise and record theirs.
THEOREM ChainHasOwnFences == Spec => []ChainIsOurs
  <1>1. ChainInv => ChainIsOurs
    BY DEF ChainInv
  <1> QED
    BY <1>1, ChainInvInit, ChainInvStep, PTL DEF Spec

-----------------------------------------------------------------------------
(* What a step leaves alone. *)

\* A process that does not act stays where it is.
LEMMA ProcFrame ==
  ASSUME TypeInv, NEW p \in Proc, Acts(p), NEW q \in Proc, q # p
  PROVE  Kept(q)
  <1>t. ProcType /\ PlansType
    BY DEF TypeInv, Types
  <1>1. CASE Lease(p)
    <2>1. CASE TakeLease(p)
      BY <1>1, <2>1, <1>t DEF TakeLease, Goto, disk, unit, callers, Kept, ProcType, PlansType
    <2>2. CASE NotePendingFence(p)
      BY <1>1, <2>2, <1>t DEF NotePendingFence, Joins, Write, Goto, disk, unit, callers,
         Kept, ProcType, PlansType
    <2>3. CASE RaiseFence(p)
      BY <1>1, <2>3, <1>t DEF RaiseFence, Goto, disk, unit, callers, Kept, ProcType,
         PlansType
    <2>4. CASE RecordFence(p)
      BY <1>1, <2>4, <1>t DEF RecordFence, DecideFenceChain, Write, Goto, disk, unit,
         callers, Kept, ProcType, PlansType
    <2> QED
      BY <1>1, <2>1, <2>2, <2>3, <2>4 DEF Lease
  <1>2. CASE Recovery(p)
    <2>1. CASE List(p)
      BY <1>2, <2>1, <1>t DEF List, Goto, disk, unit, callers, Kept, ProcType, PlansType
    <2>2. CASE MarkLeft(p)
      BY <1>2, <2>2, <1>t DEF MarkLeft, Write, Goto, disk, unit, callers, Kept, ProcType,
         PlansType
    <2>3. CASE RecoverSettle(p)
      BY <1>2, <2>3, <1>t DEF RecoverSettle, Planned, SettleEntry, Goto, disk, unit, callers,
         Kept, ProcType, PlansType
    <2>4. CASE RecoverDrop(p)
      BY <1>2, <2>4, <1>t DEF RecoverDrop, Planned, Write, Goto, disk, unit, callers, Kept,
         ProcType, PlansType
    <2>5. CASE RecoverSend(p)
      BY <1>2, <2>5, <1>t DEF RecoverSend, Goto, Kept, ProcType, PlansType
    <2>6. CASE RaiseFloor(p)
      BY <1>2, <2>6, <1>t DEF RaiseFloor, Raised, Write, Goto, disk, unit, callers, Kept,
         ProcType, PlansType
    <2> QED
      BY <1>2, <2>1, <2>2, <2>3, <2>4, <2>5, <2>6 DEF Recovery
  <1>3. CASE Crash(p)
    BY <1>3, <1>t DEF Crash, Forget, Goto, Kept, ProcType, PlansType
  <1>4. CASE UnitOfWork(p) /\ p \in Writer
    <2>1. ASSUME NEW g \in {Data, Run}, Stage(p, g) PROVE Kept(q)
      BY <1>4, <2>1, <1>t DEF Stage, Goto, disk, unit, callers, Kept, ProcType, PlansType
    <2>2. CASE Build(p)
      BY <1>4, <2>2, <1>t DEF Build, Built, Goto, disk, unit, callers, Kept, ProcType,
         PlansType
    <2>3. CASE Prepare(p)
      BY <1>4, <2>3, <1>t DEF Prepare, WriteEntry, Write, Throws, GiveUp, FaultUnlessLost,
         Fault, Built, Goto, disk, unit, callers, Kept, ProcType, PlansType
    <2>4. CASE AppendCommit(p)
      BY <1>4, <2>4, <1>t DEF AppendCommit, FaultUnlessLost, Fault, Built, Goto, disk, unit,
         callers, Kept, ProcType, PlansType
    <2>5. CASE LandedDespite(p)
      BY <1>4, <2>5, <1>t DEF LandedDespite, Refused, Throws, GiveUp, Goto, Kept, ProcType,
         PlansType
    <2>6. CASE Settle(p)
      BY <1>4, <2>6, <1>t DEF Settle, SettleEntry, Fault, Goto, disk, unit, callers, Kept,
         ProcType, PlansType
    <2>7. CASE Abandon(p)
      BY <1>4, <2>7, <1>t DEF Abandon, Write, Fault, Goto, disk, unit, callers, Kept,
         ProcType, PlansType
    <2>8. CASE Discard(p)
      BY <1>4, <2>8, <1>t DEF Discard, Write, Fault, Goto, disk, unit, callers, Kept,
         ProcType, PlansType
    <2>9. CASE AcknowledgeRefusals(p)
      BY <1>4, <2>9, <1>t DEF AcknowledgeRefusals, Goto, disk, unit, callers, Kept, ProcType,
         PlansType
    <2>10. CASE Commit(p)
      BY <1>4, <2>10, <1>t DEF Commit, Goto, disk, unit, callers, Kept, ProcType, PlansType
    <2>11. CASE Finish(p)
      BY <1>4, <2>11, <1>t DEF Finish, GiveUp, Goto, disk, unit, callers, Kept, ProcType,
         PlansType
    <2>12. CASE AbandonUnit(p)
      BY <1>4, <2>12, <1>t DEF AbandonUnit, GiveUp, Goto, disk, unit, callers, Kept,
         ProcType, PlansType
    <2>13. CASE Close(p)
      BY <1>4, <2>13, <1>t DEF Close, Forget, Write, Fault, Goto, disk, unit, callers, Kept,
         ProcType, PlansType
    <2> QED
      BY <1>4, <2>1, <2>2, <2>3, <2>4, <2>5, <2>6, <2>7, <2>8, <2>9, <2>10, <2>11, <2>12,
         <2>13 DEF UnitOfWork
  <1> QED
    BY <1>1, <1>2, <1>3, <1>4 DEF Acts

\* A process that acts changes no unit but its own.
LEMMA UnitFrame ==
  ASSUME TypeInv, NEW p \in Proc, Acts(p), NEW q \in Writer, q # p
  PROVE  KeptUnit(q)
  <1>t. GroupsType /\ UnitType
    BY DEF TypeInv, Types
  <1>s. \A g \in {Data, Run} : <<q, g>>[1] = q
    OBVIOUS
  <1>1. CASE Lease(p)
    <2>1. CASE TakeLease(p)
      BY <1>1, <2>1, <1>t, <1>s DEF TakeLease, Goto, disk, unit, callers, KeptUnit,
         GroupsType, UnitType
    <2>2. CASE NotePendingFence(p)
      BY <1>1, <2>2, <1>t, <1>s DEF NotePendingFence, Joins, Write, Goto, disk, unit,
         callers, KeptUnit, GroupsType, UnitType
    <2>3. CASE RaiseFence(p)
      BY <1>1, <2>3, <1>t, <1>s DEF RaiseFence, Goto, disk, unit, callers, KeptUnit,
         GroupsType, UnitType
    <2>4. CASE RecordFence(p)
      BY <1>1, <2>4, <1>t, <1>s DEF RecordFence, DecideFenceChain, Write, Goto, disk, unit,
         callers, KeptUnit, GroupsType, UnitType
    <2> QED
      BY <1>1, <2>1, <2>2, <2>3, <2>4 DEF Lease
  <1>2. CASE Recovery(p)
    <2>1. CASE List(p)
      BY <1>2, <2>1, <1>t, <1>s DEF List, Goto, disk, unit, callers, KeptUnit, GroupsType,
         UnitType
    <2>2. CASE MarkLeft(p)
      BY <1>2, <2>2, <1>t, <1>s DEF MarkLeft, Write, Goto, disk, unit, callers, KeptUnit,
         GroupsType, UnitType
    <2>3. CASE RecoverSettle(p)
      BY <1>2, <2>3, <1>t, <1>s DEF RecoverSettle, Planned, SettleEntry, Goto, disk, unit,
         callers, KeptUnit, GroupsType, UnitType
    <2>4. CASE RecoverDrop(p)
      BY <1>2, <2>4, <1>t, <1>s DEF RecoverDrop, Planned, Write, Goto, disk, unit, callers,
         KeptUnit, GroupsType, UnitType
    <2>5. CASE RecoverSend(p)
      BY <1>2, <2>5, <1>t, <1>s DEF RecoverSend, unit, callers, KeptUnit, GroupsType,
         UnitType
    <2>6. CASE RaiseFloor(p)
      BY <1>2, <2>6, <1>t, <1>s DEF RaiseFloor, Raised, Write, Goto, disk, unit, callers,
         KeptUnit, GroupsType, UnitType
    <2> QED
      BY <1>2, <2>1, <2>2, <2>3, <2>4, <2>5, <2>6 DEF Recovery
  <1>3. CASE Crash(p)
    BY <1>3, <1>t, <1>s DEF Crash, Forget, Goto, KeptUnit, GroupsType, UnitType
  <1>4. CASE UnitOfWork(p) /\ p \in Writer
    <2>1. ASSUME NEW g \in {Data, Run}, Stage(p, g) PROVE KeptUnit(q)
      <3>1. \A k \in {Data, Run} : <<q, k>> # <<p, g>>
        BY <1>s
      <3> QED
        BY <2>1, <1>t, <3>1 DEF Stage, unit, callers, KeptUnit, GroupsType, UnitType
    <2>2. CASE Build(p)
      BY <1>4, <2>2, <1>t, <1>s DEF Build, Built, Goto, disk, unit, callers, KeptUnit,
         GroupsType, UnitType
    <2>3. CASE Prepare(p)
      BY <1>4, <2>3, <1>t, <1>s DEF Prepare, WriteEntry, Write, Throws, GiveUp,
         FaultUnlessLost, Fault, Built, Goto, disk, unit, callers, KeptUnit, GroupsType,
         UnitType
    <2>4. CASE AppendCommit(p)
      BY <1>4, <2>4, <1>t, <1>s DEF AppendCommit, FaultUnlessLost, Fault, Built, Goto, disk,
         unit, callers, KeptUnit, GroupsType, UnitType
    <2>5. CASE LandedDespite(p)
      BY <1>4, <2>5, <1>t, <1>s DEF LandedDespite, Refused, Throws, GiveUp, Fault, Goto,
         disk, unit, callers, KeptUnit, GroupsType, UnitType
    <2>6. CASE Settle(p)
      BY <1>4, <2>6, <1>t, <1>s DEF Settle, SettleEntry, Fault, Goto, disk, unit, callers,
         KeptUnit, GroupsType, UnitType
    <2>7. CASE Abandon(p)
      BY <1>4, <2>7, <1>t, <1>s DEF Abandon, Write, Fault, Goto, disk, unit, callers,
         KeptUnit, GroupsType, UnitType
    <2>8. CASE Discard(p)
      <3>1. \A k \in {Data, Run} : <<q, k>> \notin Txns(p, giving[p])
        BY <1>s DEF Txns
      <3>2. (q \in unsure') = (q \in unsure) /\ (q \in marked') = (q \in marked)
        BY <2>8, <1>4 DEF Discard
      <3>3. \A k \in {Data, Run} : <<q, k>> \in told' <=> <<q, k>> \in told
        BY <2>8, <3>1 DEF Discard
      <3>4. keys'[q] = keys[q] /\ giving'[q] = giving[q] /\ report'[q] = report[q]
        BY <2>8, <1>t DEF Discard, GroupsType, UnitType
      <3> QED
        BY <2>8, <3>2, <3>3, <3>4 DEF Discard, KeptUnit
    <2>9. CASE AcknowledgeRefusals(p)
      BY <1>4, <2>9, <1>t, <1>s DEF AcknowledgeRefusals, Goto, disk, unit, callers, KeptUnit,
         GroupsType, UnitType
    <2>10. CASE Commit(p)
      BY <1>4, <2>10, <1>t, <1>s DEF Commit, Goto, disk, unit, callers, KeptUnit, GroupsType,
         UnitType
    <2>11. CASE Finish(p)
      BY <1>4, <2>11, <1>t, <1>s DEF Finish, GiveUp, Goto, disk, unit, callers, KeptUnit,
         GroupsType, UnitType
    <2>12. CASE AbandonUnit(p)
      BY <1>4, <2>12, <1>t, <1>s DEF AbandonUnit, GiveUp, Goto, disk, unit, callers,
         KeptUnit, GroupsType, UnitType
    <2>13. CASE Close(p)
      BY <1>4, <2>13, <1>t, <1>s DEF Close, Forget, Write, Fault, Goto, disk, unit, callers,
         KeptUnit, GroupsType, UnitType
    <2> QED
      BY <1>4, <2>1, <2>2, <2>3, <2>4, <2>5, <2>6, <2>7, <2>8, <2>9, <2>10, <2>11, <2>12,
         <2>13 DEF UnitOfWork
  <1> QED
    BY <1>1, <1>2, <1>3, <1>4 DEF Acts

\* The lease and the recovery change no unit.
LEMMA NoUnit ==
  ASSUME TypeInv, NEW p \in Proc, Lease(p) \/ Recovery(p)
  PROVE  UNCHANGED <<unit, told, report>>
  <1>1. CASE Lease(p)
    BY <1>1 DEF Lease, TakeLease, NotePendingFence, RaiseFence, RecordFence, callers
  <1>2. CASE Recovery(p)
    BY <1>2 DEF Recovery, List, MarkLeft, RecoverSettle, RecoverDrop, RecoverSend, RaiseFloor,
                callers
  <1> QED
    BY <1>1, <1>2

\* A power cut ends every process that began.
LEMMA CutShape ==
  ASSUME TypeInv, PowerCut
  PROVE  /\ \A q \in Proc : pc[q] # "idle" => pc'[q] = "exited" /\ plan'[q] = {}
         /\ \A q \in Proc : pc[q] = "idle" => Kept(q)
         /\ \A q \in Writer : pc[q] = "idle" => KeptUnit(q)
         /\ \A q \in Proc : fence'[q] = fence[q]
  <1>1. ProcType /\ PlansType /\ GroupsType /\ UnitType
    BY DEF TypeInv, Types
  <1>2. \A q \in Proc : pc[q] # "idle" => pc'[q] = "exited" /\ plan'[q] = {}
    BY <1>1 DEF PowerCut, Forget, ProcType, PlansType
  <1>3. \A q \in Proc : pc[q] = "idle" => Kept(q)
    BY <1>1 DEF PowerCut, Forget, ProcType, PlansType, Kept
  <1>4. ASSUME NEW q \in Writer, pc[q] = "idle" PROVE KeptUnit(q)
    <2>1. \A g \in {Data, Run} : <<q, g>>[1] = q
      OBVIOUS
    <2> QED
      BY <1>1, <1>4, <2>1 DEF PowerCut, Forget, GroupsType, UnitType, KeptUnit
  <1>5. \A q \in Proc : fence'[q] = fence[q]
    BY DEF PowerCut
  <1> QED
    BY <1>2, <1>3, <1>4, <1>5

\* A process that is gone stays gone.
LEMMA GoneStays ==
  ASSUME TypeInv, [Next]_vars, NEW q \in Proc, Gone(q)
  PROVE  Gone(q)'
  <1>1. CASE UNCHANGED vars
    BY <1>1 DEF vars, Gone
  <1>2. ASSUME NEW p \in Proc, Acts(p) PROVE Gone(q)'
    <2>1. CASE p # q
      BY <1>2, <2>1, ProcFrame DEF Kept, Gone
    <2>2. CASE p = q
      BY <1>2, <2>2 DEF Acts, Gone, Lease, TakeLease, NotePendingFence, RaiseFence, RecordFence,
         Recovery, List, MarkLeft, RecoverSettle, RecoverDrop, RecoverSend, Planned, RaiseFloor,
         Crash, UnitOfWork, Stage, Build, Prepare, AppendCommit, LandedDespite, Settle, Abandon,
         Discard, AcknowledgeRefusals, Commit, Finish, AbandonUnit, Close
    <2> QED
      BY <2>1, <2>2
  <1>3. CASE PowerCut
    BY <1>3, CutShape DEF Gone
  <1> QED
    BY <1>1, <1>2, <1>3 DEF Next, Acts

-----------------------------------------------------------------------------
(* What a step does to the log, the outbox and the plans. *)

\* Landing a commit lands that one.
LEMMA LandsOne ==
  ASSUME StoreType, NEW s \in Txn, Lands(s), NEW t \in Txn
  PROVE  Landed(t)' <=> Landed(t) \/ t = s
  <1> DEFINE n == Partition(t)
             a == log[n]
             b == log'[n]
  <1>1. n \in Writer \cup {0} /\ n' = n
    BY TxnShape DEF Partition
  <1>2. a \in Seq(Txn) /\ b = IF n = Partition(s) THEN Append(a, s) ELSE a
    BY <1>1, LandsShape DEF StoreType
  <1>3. (Landed(t) <=> \E i \in 1..Len(a) : a[i] = t) /\ (Landed(t)' <=> \E i \in 1..Len(b) : b[i] = t)
    <2>1. b \in Seq(Txn)
      BY <1>2
    <2>2. DOMAIN a = 1..Len(a) /\ DOMAIN b = 1..Len(b)
      BY <1>2, <2>1
    <2> QED
      BY <1>1, <2>2 DEF Landed, Partition
  <1> HIDE DEF a, b, n
  <1>4. CASE n # Partition(s)
    <2>1. t # s
      BY <1>4 DEF n
    <2> QED
      BY <1>2, <1>3, <1>4, <2>1
  <1>5. CASE n = Partition(s)
    <2>1. b = Append(a, s)
      BY <1>2, <1>5
    <2>2. /\ Len(a) \in Nat /\ Len(b) = Len(a) + 1 /\ b[Len(a) + 1] = s
          /\ \A i \in 1..Len(a) : b[i] = a[i]
      BY <1>2, <2>1
    <2>3. \A i \in 1..Len(b) : i \in 1..Len(a) \/ i = Len(a) + 1
      BY <2>2
    <2>4. ASSUME \E i \in 1..Len(b) : b[i] = t PROVE (\E i \in 1..Len(a) : a[i] = t) \/ t = s
      BY <2>2, <2>3, <2>4
    <2>5. ASSUME (\E i \in 1..Len(a) : a[i] = t) \/ t = s PROVE \E i \in 1..Len(b) : b[i] = t
      <3>1. CASE t = s
        BY <2>2, <3>1
      <3>2. CASE \E i \in 1..Len(a) : a[i] = t
        <4>1. PICK i \in 1..Len(a) : a[i] = t
          BY <3>2
        <4>2. i \in 1..Len(b) /\ b[i] = t
          BY <2>2, <4>1
        <4> QED
          BY <4>2
      <3> QED
        BY <2>5, <3>1, <3>2
    <2> QED
      BY <1>3, <2>4, <2>5
  <1> QED
    BY <1>4, <1>5

\* The log changes where a unit appends its commit, or a recovery one that it planned to send.
LEMMA LogStep ==
  ASSUME TypeInv, [Next]_vars
  PROVE  \/ UNCHANGED log
         \/ \E p \in Writer : /\ AppendCommit(p) /\ Lands(<<p, NextGroup(p)>>)
                              /\ ~(fence[p] < storeFence)
         \/ \E p \in Proc : \E x \in plan[p] :
               RecoverSend(p) /\ pc[p] = "recover" /\ x.do = "send" /\ Lands(x.txn)
  <1>1. CASE UNCHANGED vars
    BY <1>1 DEF vars
  <1>2. ASSUME NEW p \in Proc, Lease(p) PROVE UNCHANGED log
    BY <1>2 DEF Lease, TakeLease, NotePendingFence, RaiseFence, RecordFence
  <1>3. ASSUME NEW p \in Proc, Recovery(p), ~RecoverSend(p) PROVE UNCHANGED log
    BY <1>3 DEF Recovery, List, MarkLeft, RecoverSettle, RecoverDrop, RaiseFloor
  <1>4. ASSUME NEW p \in Proc, RecoverSend(p)
        PROVE  \/ UNCHANGED log
               \/ \E x \in plan[p] : pc[p] = "recover" /\ x.do = "send" /\ Lands(x.txn)
    BY <1>4 DEF RecoverSend, Planned
  <1>5. ASSUME NEW p \in Proc, Crash(p) PROVE UNCHANGED log
    BY <1>5 DEF Crash
  <1>6. ASSUME NEW p \in Writer, UnitOfWork(p), ~AppendCommit(p) PROVE UNCHANGED log
    BY <1>6 DEF UnitOfWork, Stage, Build, Prepare, LandedDespite, Settle, Abandon,
                Discard, AcknowledgeRefusals, Commit, Finish, AbandonUnit, Close
  <1>7. ASSUME NEW p \in Writer, AppendCommit(p)
        PROVE  UNCHANGED log \/ (Lands(<<p, NextGroup(p)>>) /\ ~(fence[p] < storeFence))
    BY <1>7 DEF AppendCommit, Answer
  <1>8. CASE PowerCut
    BY <1>8 DEF PowerCut
  <1> QED
    BY <1>1, <1>2, <1>3, <1>4, <1>5, <1>6, <1>7, <1>8 DEF Next

\* What landed stays.
LEMMA LandedStays ==
  ASSUME TypeInv, [Next]_vars, NEW t \in Txn, Landed(t)
  PROVE  Landed(t)'
  <1>1. StoreType /\ PlansType
    BY DEF TypeInv, Types
  <1>2. CASE UNCHANGED log
    BY <1>2 DEF Landed, Partition
  <1>3. CASE ~UNCHANGED log
    <2>1. \E s \in Txn : Lands(s)
      BY <1>1, <1>3, LogStep, TxnShape, FieldShape DEF PlansType
    <2> QED
      BY <1>1, <2>1, LandsOne
  <1> QED
    BY <1>2, <1>3

\* A commit that lands was at its unit's append, or planned to be sent.
LEMMA LandsNow ==
  ASSUME TypeInv, [Next]_vars, NEW t \in Txn, Landed(t)', ~Landed(t)
  PROVE  \/ \E p \in Writer : /\ AppendCommit(p) /\ t = <<p, NextGroup(p)>>
                              /\ ~(fence[p] < storeFence)
         \/ \E p \in Proc : \E x \in plan[p] : RecoverSend(p) /\ x.do = "send" /\ x.txn = t
  <1>1. StoreType /\ PlansType
    BY DEF TypeInv, Types
  <1>2. ~UNCHANGED log
    BY DEF Landed, Partition
  <1>3. ASSUME NEW p \in Writer, AppendCommit(p), Lands(<<p, NextGroup(p)>>),
               ~(fence[p] < storeFence)
        PROVE  t = <<p, NextGroup(p)>>
    BY <1>1, <1>3, LandsOne, TxnShape
  <1>4. ASSUME NEW p \in Proc, NEW x \in plan[p], Lands(x.txn) PROVE x.txn = t
    <2>1. x.txn \in Txn
      BY <1>1, FieldShape DEF PlansType
    <2> QED
      BY <1>1, <1>4, <2>1, LandsOne
  <1> QED
    BY <1>2, <1>3, <1>4, LogStep

\* Prepare writes the entry of the group it is at, in its own fence and without marks.
LEMMA PrepareShape ==
  ASSUME TypeInv, NEW p \in Writer, Prepare(p)
  PROVE  /\ \A e \in outbox' : \/ e \in outbox
                               \/ /\ e.txn = <<p, NextGroup(p)>> /\ e.fence = fence[p]
                                  /\ ~e.left /\ ~e.abandoned
         /\ unsynced' \subseteq unsynced
         /\ \/ UNCHANGED late
            \/ /\ \A e \in outbox' : e.txn = <<p, NextGroup(p)>> => ~e.left
               /\ recovered > fence[p] /\ late' = late \cup {<<p, NextGroup(p)>>}
  <1> DEFINE n == [txn |-> <<p, NextGroup(p)>>, fence |-> fence[p], base |-> base[p],
                   abandoned |-> FALSE, left |-> FALSE]
  <1>1. n.txn = <<p, NextGroup(p)>> /\ n.fence = fence[p] /\ ~n.left /\ ~n.abandoned
    OBVIOUS
  <1>2. \/ UNCHANGED <<disk, late>>
        \/ /\ outbox' = Without(outbox, {<<p, NextGroup(p)>>}) \cup {n} /\ unsynced' = {}
           /\ late' = IF recovered > fence[p] THEN late \cup {<<p, NextGroup(p)>>} ELSE late
    BY DEF Prepare, WriteEntry, Write
  <1> HIDE DEF n
  <1> QED
    BY <1>1, <1>2 DEF disk, Without

\* Where the entries after a step come from.
LEMMA EntryStep ==
  ASSUME UnitInv, [Next]_vars
  PROVE  /\ \A e \in outbox' :
               \/ \E d \in outbox : SameEntry(e, d)
               \/ e \in unsynced /\ PowerCut
               \/ \E p \in Writer : /\ Prepare(p) /\ e.txn = <<p, NextGroup(p)>>
                                    /\ e.fence = fence[p] /\ ~e.left /\ ~e.abandoned
         /\ \A e \in unsynced' : e \in unsynced \/ (e \in outbox /\ Landed(e.txn))
  <1>t. TypeInv /\ outbox \subseteq EntryType /\ SettledHasLanded /\ \A p \in Writer : FlushShape(p)
    BY DEF UnitInv, TypeInv, Types, DiskType
  <1> DEFINE New(e) == \E p \in Writer : /\ Prepare(p) /\ e.txn = <<p, NextGroup(p)>>
                                         /\ e.fence = fence[p] /\ ~e.left /\ ~e.abandoned
             Goal == /\ \A e \in outbox' :
                           \/ \E d \in outbox : SameEntry(e, d)
                           \/ (e \in unsynced /\ PowerCut) \/ New(e)
                     /\ \A e \in unsynced' : e \in unsynced \/ (e \in outbox /\ Landed(e.txn))
  <1>a. \A d \in outbox : SameEntry(d, d)
    BY DEF SameEntry
  <1>b. ASSUME outbox' \subseteq outbox, unsynced' \subseteq unsynced PROVE Goal
    BY <1>a, <1>b
  <1>c. ASSUME NEW T, outbox' = MarkedAbandoned(T), unsynced' \subseteq unsynced PROVE Goal
    <2>1. ASSUME NEW e \in outbox' PROVE \E d \in outbox : SameEntry(e, d)
      <3>1. PICK d \in outbox : /\ e.txn = d.txn /\ e.fence = d.fence /\ e.left = d.left
                                /\ d.abandoned => e.abandoned
        BY <1>t, <1>c, <2>1, MarkShape
      <3> QED
        BY <3>1 DEF SameEntry
    <2> QED
      BY <1>c, <2>1
  <1>d. ASSUME NEW t, Landed(t), SettleEntry(t) PROVE Goal
    <2>1. outbox' \subseteq outbox
      BY <1>d DEF SettleEntry, Without
    <2>2. \A e \in unsynced' : e \in unsynced \/ (e \in outbox /\ Landed(e.txn))
      BY <1>d DEF SettleEntry
    <2> QED
      BY <1>a, <2>1, <2>2
  <1> HIDE DEF Goal
  <1>1. CASE UNCHANGED vars
    <2>1. outbox' \subseteq outbox /\ unsynced' \subseteq unsynced
      BY <1>1 DEF vars, disk
    <2> QED
      BY <1>b, <2>1 DEF Goal
  <1>2. ASSUME NEW p \in Proc, Lease(p) PROVE Goal
    BY <1>2, <1>b DEF Lease, TakeLease, NotePendingFence, RaiseFence, RecordFence, Write, disk
  <1>3. ASSUME NEW p \in Proc, Recovery(p) PROVE Goal
    <2>1. CASE List(p) \/ RecoverSend(p) \/ RaiseFloor(p) \/ RecoverDrop(p)
      BY <1>b, <2>1 DEF List, RecoverSend, RaiseFloor, RecoverDrop, Write, Without, disk
    <2>2. CASE MarkLeft(p)
      <3> DEFINE left == {x.txn : x \in {y \in plan[p] : y.do = "leave"}}
      <3>1. CASE UNCHANGED disk
        BY <1>b, <3>1 DEF disk
      <3>2. CASE outbox' = MarkedLeft(left) /\ unsynced' = {}
        <4>1. \A t \in left : \E x \in plan[p] : pc[p] = "leave" /\ x.do = "leave" /\ x.txn = t
          BY <2>2 DEF MarkLeft
        <4> HIDE DEF left
        <4>2. \A e \in outbox' : \E d \in outbox : SameEntry(e, d)
          BY <1>t, <3>2, <4>1, MarkShape DEF SameEntry
        <4> QED
          BY <3>2, <4>2 DEF Goal
      <3> QED
        BY <2>2, <3>1, <3>2 DEF MarkLeft, Write
    <2>3. CASE RecoverSettle(p)
      <3>1. PICK x \in plan[p] : x.do = "settle" /\ SettleEntry(x.txn)
        BY <2>3 DEF RecoverSettle, Planned
      <3>2. Landed(x.txn)
        BY <1>t, <3>1 DEF SettledHasLanded
      <3> QED
        BY <1>d, <3>1, <3>2
    <2> QED
      BY <1>3, <2>1, <2>2, <2>3 DEF Recovery
  <1>4. ASSUME NEW p \in Proc, Crash(p) PROVE Goal
    BY <1>4, <1>b DEF Crash, disk
  <1>5. ASSUME NEW p \in Writer, UnitOfWork(p) PROVE Goal
    <2>1. CASE \/ \E g \in {Data, Run} : Stage(p, g)
               \/ Build(p) \/ AppendCommit(p) \/ LandedDespite(p) \/ AcknowledgeRefusals(p)
               \/ Commit(p) \/ Finish(p) \/ AbandonUnit(p)
      BY <1>b, <2>1 DEF Stage, Build, AppendCommit, LandedDespite, AcknowledgeRefusals, Commit,
                        Finish, AbandonUnit, disk
    <2>2. CASE Prepare(p)
      BY <1>t, <1>a, <2>2, PrepareShape DEF Goal
    <2>3. CASE Settle(p)
      <3>1. Landed(<<p, NextGroup(p)>>)
        BY <1>t, <2>3 DEF Settle, FlushShape
      <3>2. SettleEntry(<<p, NextGroup(p)>>) \/ UNCHANGED disk
        BY <2>3 DEF Settle
      <3> QED
        BY <1>b, <1>d, <3>1, <3>2 DEF disk
    <2>4. CASE Abandon(p)
      BY <1>b, <1>c, <2>4 DEF Abandon, Write, disk
    <2>5. CASE Discard(p)
      BY <1>b, <2>5 DEF Discard, Write, Without, disk
    <2>6. CASE Close(p)
      BY <1>b, <1>c, <2>6 DEF Close, Write, Without, disk
    <2> QED
      BY <1>5, <2>1, <2>2, <2>3, <2>4, <2>5, <2>6 DEF UnitOfWork
  <1>6. CASE PowerCut
    BY <1>6, <1>a DEF PowerCut, Goal
  <1> QED
    BY <1>1, <1>2, <1>3, <1>4, <1>5, <1>6 DEF Next, Goal

\* A recovery lists entry e.
Listed(q, x, e) ==
    /\ pc'[q] = "leave" /\ x.txn = e.txn
    /\ x.do = "settle" => Landed(e.txn)
    /\ x.do \in {"send", "leave"} =>
          /\ ~e.abandoned /\ ~(e.fence < chain.start)
          /\ ~(e.fence < chain.floor /\ ~e.left)
    /\ x.do = "send" => ~WriterAlive(q, e.txn[1])

\* Where a planned step comes from: it was planned before, a send was turned into a settle or
\* a drop, or the outbox was listed.
Comes(q, x) ==
    \/ x \in plan[q] /\ (x.do = "leave" => pc[q] # "leave" \/ pc'[q] = "leave")
    \/ \E y \in plan[q] : /\ y.txn = x.txn
                          /\ x.do = "drop" \/ (x.do = "settle" /\ Landed(x.txn)')
    \/ \E e \in outbox : Listed(q, x, e)

\* Where the plans after a step come from.
LEMMA PlanStep ==
  ASSUME TypeInv, [Next]_vars, NEW q \in Proc, NEW x \in plan'[q]
  PROVE  Comes(q, x)
  <1>t. TypeInv /\ ProcType /\ PlansType /\ DiskType /\ StoreType
    BY DEF TypeInv, Types
  <1>k. Kept(q) => Comes(q, x)
    BY DEF Kept, Comes
  <1>1. CASE UNCHANGED vars
    BY <1>1, <1>k DEF vars, Kept
  <1>2. ASSUME NEW p \in Proc, Acts(p), p # q PROVE Comes(q, x)
    BY <1>t, <1>2, <1>k, ProcFrame
  <1>3. CASE Lease(q)
    BY <1>3 DEF Lease, TakeLease, NotePendingFence, RaiseFence, RecordFence, Comes
  <1>4. CASE Recovery(q)
    <2>1. CASE List(q)
      <3>1. CASE outbox = {}
        BY <2>1, <3>1 DEF List, Comes
      <3>2. CASE outbox # {}
        <4>1. PICK old : plan' = [plan EXCEPT ![q] = PlanOutboxRecovery(q, old)]
          BY <2>1, <3>2 DEF List
        <4>2. x \in PlanOutboxRecovery(q, old) /\ pc'[q] = "leave"
          BY <1>t, <2>1, <3>2, <4>1 DEF List, Goto, PlansType, ProcType
        <4>3. \E e \in outbox : Listed(q, x, e)
          BY <1>t, <4>2, PlanShape DEF Listed, DiskType
        <4> QED
          BY <4>3 DEF Comes
      <3> QED
        BY <3>1, <3>2
    <2>2. CASE MarkLeft(q)
      <3>1. x \in plan[q] /\ x.do # "leave"
        BY <1>t, <2>2 DEF MarkLeft, PlansType
      <3> QED
        BY <3>1 DEF Comes
    <2>3. CASE RecoverSettle(q) \/ RecoverDrop(q)
      <3>1. x \in plan[q] /\ pc[q] = "recover"
        BY <1>t, <2>3 DEF RecoverSettle, RecoverDrop, PlansType, Planned
      <3> QED
        BY <3>1 DEF Comes
    <2>4. CASE RecoverSend(q)
      <3>1. PICK y \in plan[q] :
               /\ pc[q] = "recover"
               /\ \/ UNCHANGED plan
                  \/ /\ plan' = [plan EXCEPT ![q] = (plan[q] \ {y}) \cup {[y EXCEPT !.do = "settle"]}]
                     /\ Lands(y.txn) \/ (Landed(y.txn) /\ UNCHANGED log)
                  \/ plan' = [plan EXCEPT ![q] = WithRunEntry(q, y)]
        BY <2>4 DEF RecoverSend, Planned, Answer
      <3>2. y \in PlanType /\ y.txn \in Txn
        BY <1>t, FieldShape DEF PlansType
      <3>3. CASE UNCHANGED plan
        BY <3>1, <3>3 DEF Comes
      <3>4. CASE /\ plan' = [plan EXCEPT ![q] = (plan[q] \ {y}) \cup {[y EXCEPT !.do = "settle"]}]
                 /\ Lands(y.txn) \/ (Landed(y.txn) /\ UNCHANGED log)
        <4>1. x \in plan[q] \/ x = [y EXCEPT !.do = "settle"]
          BY <1>t, <3>4 DEF PlansType
        <4>2. Landed(y.txn)'
          <5>1. CASE Lands(y.txn)
            BY <1>t, <3>2, <5>1, LandsOne
          <5>2. CASE Landed(y.txn) /\ UNCHANGED log
            BY <5>2 DEF Landed, Partition
          <5> QED
            BY <3>4, <5>1, <5>2
        <4>3. x = [y EXCEPT !.do = "settle"] => x.txn = y.txn /\ x.do = "settle"
          BY <3>2 DEF PlanType
        <4> QED
          BY <3>1, <4>1, <4>2, <4>3 DEF Comes, Landed, Partition
      <3>5. CASE plan' = [plan EXCEPT ![q] = WithRunEntry(q, y)]
        <4>1. x \in WithRunEntry(q, y)
          BY <1>t, <3>5 DEF PlansType
        <4>2. PICK z \in plan[q] : x = z \/ x = [z EXCEPT !.do = "drop"]
          BY <4>1 DEF WithRunEntry
        <4>3. x = [z EXCEPT !.do = "drop"] => x.txn = z.txn /\ x.do = "drop"
          BY <1>t DEF PlansType, PlanType
        <4> QED
          BY <3>1, <4>2, <4>3 DEF Comes
      <3> QED
        BY <3>1, <3>3, <3>4, <3>5
    <2>5. CASE RaiseFloor(q)
      <3>1. plan' = plan /\ (pc[q] = "leave" => pc'[q] = "leave")
        BY <2>5 DEF RaiseFloor
      <3> QED
        BY <3>1 DEF Comes
    <2> QED
      BY <1>4, <2>1, <2>2, <2>3, <2>4, <2>5 DEF Recovery
  <1>5. CASE Crash(q)
    BY <1>t, <1>5 DEF Crash, Forget, PlansType
  <1>6. CASE q \in Writer /\ UnitOfWork(q)
    <2>1. CASE Close(q)
      BY <1>t, <1>6, <2>1 DEF Close, Forget, PlansType
    <2>2. CASE ~Close(q)
      <3>1. plan' = plan /\ pc[q] # "leave"
        BY <1>6, <2>2 DEF UnitOfWork, Stage, Build, Prepare, AppendCommit, LandedDespite, Settle,
                          Abandon, Discard, AcknowledgeRefusals, Commit, Finish, AbandonUnit
      <3> QED
        BY <3>1 DEF Comes
    <2> QED
      BY <2>1, <2>2
  <1>7. CASE PowerCut
    BY <1>t, <1>7, <1>k, CutShape
  <1> QED
    BY <1>1, <1>2, <1>3, <1>4, <1>5, <1>6, <1>7 DEF Next, Acts

-----------------------------------------------------------------------------
(* Units of work. *)

\* Nothing is staged, prepared or planned to begin with.
LEMMA UnitInvInit == Init => UnitInv
  <1> SUFFICES ASSUME Init PROVE UnitInv
    OBVIOUS
  <1>1. TypeInv
    BY TypeInvInit
  <1>2. \A t \in Txn : ~Landed(t)
    BY TxnShape DEF Init, Landed
  <1>3. KnownTxns /\ SettledHasLanded
    BY <1>2 DEF Init, KnownTxns, SettledHasLanded
  <1>4. \A p \in Writer : FlushShape(p)
    BY DEF Init, FlushShape, Flush
  <1> QED
    BY <1>1, <1>3, <1>4 DEF UnitInv

\* The group a flush is at is one of its unit's, and the data before the run.
LEMMA AtGroup ==
  ASSUME TypeInv, NEW p \in Writer, FlushShape(p), pc[p] \in Flush
  PROVE  /\ NextGroup(p) \in todo[p] /\ <<p, NextGroup(p)>> \in staged
         /\ NextGroup(p) = Run => Data \notin todo[p] /\ p \notin refused
  <1>1. todo[p] \subseteq {Data, Run} /\ todo[p] # {} /\ (Data \notin todo[p] => p \notin refused)
    BY DEF TypeInv, Types, GroupsType, FlushShape
  <1>2. NextGroup(p) \in todo[p]
    BY <1>1 DEF NextGroup
  <1>3. NextGroup(p) = Run => Data \notin todo[p]
    BY TxnShape DEF NextGroup
  <1> QED
    BY <1>1, <1>2, <1>3 DEF FlushShape

\* The shape of a flush is kept.
LEMMA FlushStep ==
  ASSUME UnitInv, [Next]_vars, NEW q \in Writer
  PROVE  FlushShape(q)'
  <1>t. /\ TypeInv /\ ProcType /\ GroupsType /\ UnitType /\ StoreType
        /\ FlushShape(q) /\ q \in Proc
    BY DEF UnitInv, TypeInv, Types
  <1>k. ASSUME KeptUnit(q),
               pc'[q] = pc[q] \/ ({pc[q], pc'[q]} \cap (Flush \cup {"abandon", "discard", "close"}) = {})
        PROVE  FlushShape(q)'
    <2>1. /\ todo'[q] = todo[q] /\ giving'[q] = giving[q] /\ report'[q] = report[q]
          /\ (q \in unsure') = (q \in unsure) /\ (q \in refused') = (q \in refused)
          /\ \A g \in {Data, Run} : <<q, g>> \in staged' <=> <<q, g>> \in staged
          /\ todo[q] \cup giving[q] \subseteq {Data, Run}
      BY <1>t, <1>k DEF KeptUnit, GroupsType
    <2>2. pc[q] = "settle" => Landed(<<q, NextGroup(q)>>)'
      <3> SUFFICES ASSUME pc[q] = "settle" PROVE Landed(<<q, NextGroup(q)>>)'
        OBVIOUS
      <3>1. PICK k \in {Data, Run} : k = NextGroup(q)
        BY TxnShape
      <3>2. NextGroup(q)' = k
        BY <2>1, <3>1 DEF NextGroup
      <3>3. Landed(<<q, k>>)'
        BY <1>t, <3>1, LandedStays, TxnShape DEF FlushShape
      <3> QED
        BY <3>2, <3>3 DEF Landed, Partition
    <2> QED
      BY <1>t, <1>k, <2>1, <2>2 DEF FlushShape, Flush
  <1>1. CASE UNCHANGED vars
    <2>1. KeptUnit(q) /\ pc'[q] = pc[q]
      BY <1>1 DEF vars, unit, callers, KeptUnit
    <2> QED
      BY <1>k, <2>1
  <1>2. ASSUME NEW p \in Proc, Acts(p), p # q PROVE FlushShape(q)'
    BY <1>t, <1>2, <1>k, ProcFrame, UnitFrame DEF Kept
  <1>3. CASE Lease(q)
    <2>1. KeptUnit(q)
      BY <1>t, <1>3, NoUnit DEF KeptUnit, unit
    <2>2. {pc[q], pc'[q]} \cap (Flush \cup {"abandon", "discard", "close"}) = {}
      BY <1>t, <1>3 DEF Lease, TakeLease, NotePendingFence, RaiseFence, RecordFence, Goto,
         ProcType, Flush
    <2> QED
      BY <1>k, <2>1, <2>2
  <1>4. CASE Recovery(q)
    <2>1. KeptUnit(q)
      BY <1>t, <1>4, NoUnit DEF KeptUnit, unit
    <2>2. {pc[q], pc'[q]} \cap (Flush \cup {"abandon", "discard", "close"}) = {}
      BY <1>t, <1>4 DEF Recovery, List, MarkLeft, RecoverSettle, RecoverDrop, RecoverSend,
         Planned, RaiseFloor, Goto, ProcType, Flush
    <2> QED
      BY <1>k, <2>1, <2>2
  <1>5. CASE Crash(q)
    <2>1. pc'[q] = "exited" /\ giving'[q] = {} /\ todo'[q] = {} /\ report'[q] = "none"
      BY <1>t, <1>5 DEF Crash, Forget, Goto, ProcType
    <2> QED
      BY <2>1 DEF FlushShape, Flush
  <1>6. CASE UnitOfWork(q)
    <2>1. ASSUME NEW g \in {Data, Run}, Stage(q, g) PROVE FlushShape(q)'
      <3>1. /\ pc[q] = "open" /\ pc'[q] = "open" /\ todo'[q] = todo[q] \cup {g}
            /\ staged' = staged \cup {<<q, g>>} /\ UNCHANGED <<giving, report>>
        BY <2>1, <1>t DEF Stage, GroupsType, callers
      <3> QED
        BY <1>t, <3>1 DEF FlushShape, Flush
    <2>2. CASE Build(q)
      <3>1. /\ (pc[q] = "open" /\ ~Held(q)) \/ pc[q] = "rebuild"
            /\ pc'[q] = "prepare" /\ UNCHANGED <<todo, staged, giving, report, refused, unsure>>
        BY <2>2, <1>t DEF Build, Built, Goto, ProcType, callers
      <3>2. todo[q] # {} /\ (Data \notin todo[q] => q \notin refused)
        BY <1>t, <3>1 DEF Held, NextGroup, FlushShape, Flush
      <3> QED
        BY <1>t, <3>1, <3>2 DEF FlushShape, Flush
    <2>3. CASE Prepare(q)
      <3>1. /\ pc[q] = "prepare" /\ giving[q] = {} /\ report[q] # "ok"
            /\ todo[q] # {} /\ (Data \notin todo[q] => q \notin refused)
            /\ \A g \in todo[q] : <<q, g>> \in staged
        BY <2>3, <1>t DEF Prepare, FlushShape, Flush
      <3>2. UNCHANGED <<todo, staged, refused, unsure, report>>
        BY <2>3 DEF Prepare
      <3>3. \/ Goto(q, "append") /\ UNCHANGED giving
            \/ \E prep : Throws(q, prep)
        BY <2>3 DEF Prepare
      <3> QED
        BY <1>t, <3>1, <3>2, <3>3 DEF Throws, GiveUp, Goto, ProcType, GroupsType, FlushShape,
           Flush
    <2>4. CASE AppendCommit(q)
      <3>1. pc[q] = "append" /\ UNCHANGED <<todo, giving, report, unsure, refused, staged>>
        BY <2>4 DEF AppendCommit, unit, callers
      <3>2. pc'[q] \in {"settle", "rebuild", "unknown", "refusal"}
        BY <2>4, <1>t DEF AppendCommit, Goto, ProcType
      <3>3. ASSUME pc'[q] = "settle" PROVE Landed(<<q, NextGroup(q)>>)'
        <4>1. Lands(<<q, NextGroup(q)>>) \/ (Landed(<<q, NextGroup(q)>>) /\ UNCHANGED log)
          BY <2>4, <1>t, <3>3 DEF AppendCommit, Goto, ProcType, Answer
        <4>2. Landed(<<q, NextGroup(q)>>)' <=> (\E k \in {NextGroup(q)} : Landed(<<q, k>>)')
          BY <3>1 DEF NextGroup
        <4>3. ASSUME NEW k \in {Data, Run}, k = NextGroup(q) PROVE Landed(<<q, k>>)'
          BY <1>t, <4>1, <4>3, LandsOne, LandedStays, TxnShape
        <4> QED
          BY <4>2, <4>3, TxnShape
      <3> QED
        BY <1>t, <3>1, <3>2, <3>3 DEF FlushShape, Flush
    <2>5. CASE LandedDespite(q)
      <3>1. /\ pc[q] \in Flush /\ giving[q] = {} /\ report[q] # "ok"
            /\ todo[q] # {} /\ (Data \notin todo[q] => q \notin refused)
            /\ \A g \in todo[q] : <<q, g>> \in staged
        BY <2>5, <1>t DEF LandedDespite, FlushShape, Flush
      <3>2. NextGroup(q) \in todo[q]
        BY <1>t, <3>1, AtGroup
      <3>3. UNCHANGED <<log, staged, unsure>>
        BY <2>5 DEF LandedDespite
      <3>4. CASE Landed(<<q, NextGroup(q)>>) /\ Goto(q, "settle") /\ UNCHANGED <<todo, refused, giving, report>>
        <4>1. Landed(<<q, NextGroup(q)>>)'
          BY <3>3, <3>4 DEF Landed, Partition, NextGroup
        <4> QED
          BY <1>t, <3>1, <3>3, <3>4, <4>1 DEF Goto, ProcType, FlushShape, Flush
      <3>5. CASE Refused(q) /\ UNCHANGED report
        BY <1>t, <3>1, <3>2, <3>3, <3>5 DEF Refused, Goto, ProcType, GroupsType, FlushShape, Flush
      <3>6. CASE Throws(q, prepared[q]) /\ UNCHANGED <<todo, refused, report>>
        BY <1>t, <3>1, <3>3, <3>6 DEF Throws, GiveUp, Goto, ProcType, GroupsType, FlushShape,
           Flush
      <3>7. CASE /\ Goto(q, IF q \in final THEN "close" ELSE "open")
                 /\ report' = IF q \in final THEN [report EXCEPT ![q] = "maybe"] ELSE report
                 /\ UNCHANGED <<todo, refused, giving>>
        BY <1>t, <3>1, <3>3, <3>7 DEF Goto, ProcType, UnitType, FlushShape, Flush
      <3> QED
        BY <2>5, <3>4, <3>5, <3>6, <3>7 DEF LandedDespite
    <2>6. CASE Settle(q)
      <3>1. /\ pc[q] = "settle" /\ pc'[q] = "open" /\ todo'[q] \subseteq todo[q]
            /\ UNCHANGED <<staged, giving, report>>
        BY <2>6, <1>t DEF Settle, Goto, ProcType, GroupsType, callers
      <3> QED
        BY <1>t, <3>1 DEF FlushShape, Flush
    <2>7. CASE Abandon(q)
      BY <2>7, <1>t DEF Abandon, Write, Fault, Goto, unit, callers, FlushShape, Flush,
         ProcType, GroupsType
    <2>8. CASE Discard(q)
      <3>1. /\ pc'[q] \in {"close", "open"} /\ giving'[q] = {} /\ UNCHANGED <<todo, staged>>
            /\ report'[q] \in {report[q], "maybe", "failed"} /\ pc[q] = "discard"
        BY <2>8, <1>t DEF Discard, Goto, ProcType, GroupsType, UnitType
      <3> QED
        BY <1>t, <3>1 DEF FlushShape, Flush
    <2>9. CASE AcknowledgeRefusals(q)
      BY <2>9, <1>t DEF AcknowledgeRefusals, Goto, unit, callers, FlushShape, Flush,
         ProcType, GroupsType
    <2>10. CASE Commit(q)
      BY <2>10, <1>t DEF Commit, Goto, unit, callers, FlushShape, Flush, ProcType, GroupsType
    <2>11. CASE Finish(q)
      <3>1. pc[q] = "open" /\ Held(q) /\ UNCHANGED <<todo, staged, refused, unsure>>
        BY <2>11 DEF Finish
      <3>2. CASE q \in refused
        BY <2>11, <1>t, <3>1, <3>2 DEF Finish, GiveUp, Goto, ProcType, GroupsType,
           FlushShape, Flush
      <3>3. CASE q \notin refused
        <4>1. todo[q] = {} /\ giving'[q] = giving[q] /\ pc'[q] = "close"
          BY <2>11, <1>t, <3>1, <3>3 DEF Finish, Held, Goto, ProcType
        <4>2. report'[q] = "ok" => q \notin unsure
          BY <2>11, <1>t, <3>3 DEF Finish, UnitType
        <4> QED
          BY <1>t, <3>1, <4>1, <4>2 DEF FlushShape, Flush
      <3> QED
        BY <3>2, <3>3
    <2>12. CASE AbandonUnit(q)
      <3>1. pc[q] = "open" /\ UNCHANGED <<todo, staged, report>>
        BY <2>12 DEF AbandonUnit, callers
      <3>2. pc'[q] = "abandon" /\ giving'[q] = todo[q]
        BY <2>12, <1>t DEF AbandonUnit, GiveUp, Goto, ProcType, GroupsType
      <3> QED
        BY <1>t, <3>1, <3>2 DEF FlushShape, Flush
    <2>13. CASE Close(q)
      <3>1. pc'[q] = "exited" /\ giving'[q] = {} /\ todo'[q] = {} /\ report'[q] = "none"
        BY <2>13, <1>t DEF Close, Forget, Goto, ProcType
      <3> QED
        BY <3>1 DEF FlushShape, Flush
    <2> QED
      BY <1>6, <2>1, <2>2, <2>3, <2>4, <2>5, <2>6, <2>7, <2>8, <2>9, <2>10, <2>11, <2>12,
         <2>13 DEF UnitOfWork
  <1>7. CASE PowerCut
    <2>1. CASE pc[q] = "idle"
      BY <1>t, <1>7, <1>k, <2>1, CutShape DEF Kept
    <2>2. CASE pc[q] # "idle"
      <3>1. pc'[q] = "exited" /\ giving'[q] = {} /\ todo'[q] = {} /\ report'[q] = "none"
        BY <1>t, <1>7, <2>2 DEF PowerCut, Forget, ProcType
      <3> QED
        BY <3>1 DEF FlushShape, Flush
    <2> QED
      BY <2>1, <2>2
  <1> QED
    BY <1>1, <1>2, <1>3, <1>4, <1>5, <1>6, <1>7 DEF Next, Acts

\* A commit that was staged was staged ever after, or its process is gone.
LEMMA StagedStays ==
  ASSUME TypeInv, [Next]_vars, NEW t \in Txn, WasStaged(t)
  PROVE  WasStaged(t)'
  <1>t. TypeInv /\ ProcType /\ UnitType /\ t[1] \in Proc
    BY TxnShape DEF TypeInv, Types
  <1>0. CASE Gone(t[1])
    BY <1>t, <1>0, GoneStays DEF WasStaged, Gone
  <1> SUFFICES ASSUME t \in staged PROVE WasStaged(t)'
    BY <1>0 DEF WasStaged
  <1>1. CASE UNCHANGED vars
    BY <1>1 DEF vars, unit, WasStaged
  <1>2. ASSUME NEW p \in Proc, Lease(p) \/ Recovery(p) PROVE WasStaged(t)'
    BY <1>2, NoUnit DEF unit, WasStaged
  <1>3. ASSUME NEW p \in Proc, Crash(p) PROVE WasStaged(t)'
    BY <1>t, <1>3 DEF Crash, Forget, Goto, ProcType, WasStaged, Gone
  <1>4. ASSUME NEW p \in Writer, UnitOfWork(p) PROVE WasStaged(t)'
    <2>1. CASE Close(p)
      BY <1>t, <2>1 DEF Close, Forget, Goto, ProcType, WasStaged, Gone
    <2>2. CASE ~Close(p)
      <3>1. staged \subseteq staged'
        BY <1>4, <2>2 DEF UnitOfWork, Stage, Build, Prepare, AppendCommit, LandedDespite, Settle,
           Abandon, Discard, AcknowledgeRefusals, Commit, Finish, AbandonUnit
      <3> QED
        BY <3>1 DEF WasStaged
    <2> QED
      BY <2>1, <2>2
  <1>5. CASE PowerCut
    <2>1. CASE pc[t[1]] = "idle"
      BY <1>t, <1>5, <2>1 DEF PowerCut, Forget, WasStaged
    <2>2. CASE pc[t[1]] # "idle"
      BY <1>t, <1>5, <2>2, CutShape DEF WasStaged, Gone
    <2> QED
      BY <2>1, <2>2
  <1> QED
    BY <1>1, <1>2, <1>3, <1>4, <1>5 DEF Next

\* A commit is reported failed where its unit gives its group up.
LEMMA ToldNow ==
  ASSUME TypeInv, [Next]_vars, NEW t \in told', t \notin told
  PROVE  \E p \in Writer : \E g \in giving[p] : /\ Discard(p) /\ t = <<p, g>>
                                                /\ p \notin unsure'
  <1>1. ~UNCHANGED told
    OBVIOUS
  <1>2. PICK p \in Writer : Discard(p)
    BY <1>1 DEF Next, vars, callers, Lease, TakeLease, NotePendingFence, RaiseFence, RecordFence,
       Recovery, List, MarkLeft, RecoverSettle, RecoverDrop, RecoverSend, RaiseFloor, Crash,
       UnitOfWork, Stage, Build, Prepare, AppendCommit, LandedDespite, Settle, Abandon,
       AcknowledgeRefusals, Commit, Finish, AbandonUnit, Close, PowerCut
  <1>3. t \in Txns(p, giving[p]) /\ p \notin unsure'
    BY <1>2 DEF Discard
  <1> QED
    BY <1>2, <1>3 DEF Txns

\* Commits of entries, plans and the log were staged.
LEMMA KnownStep ==
  ASSUME UnitInv, [Next]_vars
  PROVE  KnownTxns'
  <1>t. /\ TypeInv /\ DiskType /\ PlansType /\ UnitType /\ KnownTxns
        /\ \A p \in Writer : FlushShape(p)
    BY DEF UnitInv, TypeInv, Types
  <1>u. DiskType' /\ PlansType' /\ UnitType'
    BY <1>t, TypeInvStep DEF TypeInv, Types
  <1>w. \A t \in Txn : WasStaged(t) => WasStaged(t)'
    BY <1>t, StagedStays
  <1>1. ASSUME NEW e \in (outbox \cup unsynced)' PROVE WasStaged(e.txn)'
    <2>0. e.txn \in Txn
      BY <1>u, FieldShape DEF DiskType
    <2>1. CASE \E d \in outbox : SameEntry(e, d)
      BY <1>t, <1>w, <2>0, <2>1 DEF SameEntry, KnownTxns
    <2>2. CASE e \in outbox \cup unsynced
      BY <1>t, <1>w, <2>0, <2>2 DEF KnownTxns
    <2>3. ASSUME NEW p \in Writer, Prepare(p), e.txn = <<p, NextGroup(p)>> PROVE WasStaged(e.txn)'
      <3>1. pc[p] \in Flush
        BY <2>3 DEF Prepare, Flush
      <3> QED
        BY <1>t, <1>w, <2>0, <2>3, <3>1, AtGroup DEF WasStaged
    <2> QED
      BY <1>1, <2>1, <2>2, <2>3, EntryStep
  <1>2. ASSUME NEW q \in Proc, NEW x \in plan'[q] PROVE WasStaged(x.txn)'
    <2>0. x.txn \in Txn
      BY <1>u, FieldShape DEF PlansType
    <2>1. Comes(q, x)
      BY <1>t, PlanStep
    <2>2. CASE \E y \in plan[q] : y.txn = x.txn
      BY <1>t, <1>w, <2>0, <2>2 DEF KnownTxns
    <2>3. CASE \E e \in outbox : x.txn = e.txn
      BY <1>t, <1>w, <2>0, <2>3 DEF KnownTxns
    <2> QED
      BY <2>1, <2>2, <2>3 DEF Comes, Listed
  <1>3. ASSUME NEW t \in Txn, Landed(t)' PROVE WasStaged(t)'
    <2>1. CASE Landed(t)
      BY <1>t, <1>w, <2>1 DEF KnownTxns
    <2>2. ASSUME NEW p \in Writer, AppendCommit(p), t = <<p, NextGroup(p)>> PROVE WasStaged(t)'
      <3>1. pc[p] \in Flush
        BY <2>2 DEF AppendCommit, Flush
      <3> QED
        BY <1>t, <1>w, <2>2, <3>1, AtGroup DEF WasStaged
    <2>3. ASSUME NEW q \in Proc, NEW x \in plan[q], x.txn = t PROVE WasStaged(t)'
      BY <1>t, <1>w, <2>3 DEF KnownTxns
    <2> QED
      BY <1>t, <1>3, <2>1, <2>2, <2>3, LandsNow
  <1>4. ASSUME NEW t \in Txn, t \in told' PROVE WasStaged(t)'
    <2>1. CASE t \in told
      BY <1>t, <1>w, <2>1 DEF KnownTxns
    <2>2. CASE t \notin told
      <3>1. PICK p \in Writer : \E g \in giving[p] : t = <<p, g>>
        BY <1>t, <1>4, <2>2, ToldNow
      <3> QED
        BY <1>t, <1>w, <3>1 DEF FlushShape, WasStaged
    <2> QED
      BY <2>1, <2>2
  <1>5. KnownTxns' <=> /\ \A e \in (outbox \cup unsynced)' : WasStaged(e.txn)'
                       /\ \A q \in Proc : \A x \in plan'[q] : WasStaged(x.txn)'
                       /\ \A t \in Txn : Landed(t)' \/ t \in told' => WasStaged(t)'
    BY DEF KnownTxns
  <1> QED
    BY <1>1, <1>2, <1>3, <1>4, <1>5

\* What is settled, or was, has landed.
LEMMA SettledStep ==
  ASSUME UnitInv, [Next]_vars
  PROVE  SettledHasLanded'
  <1>t. TypeInv /\ DiskType /\ PlansType /\ SettledHasLanded
    BY DEF UnitInv, TypeInv, Types
  <1>u. DiskType' /\ PlansType'
    BY <1>t, TypeInvStep DEF TypeInv, Types
  <1>l. \A t \in Txn : Landed(t) => Landed(t)'
    BY <1>t, LandedStays
  <1>1. ASSUME NEW e \in unsynced' PROVE Landed(e.txn)'
    <2>0. e.txn \in Txn
      BY <1>u, FieldShape DEF DiskType
    <2>1. Landed(e.txn)
      BY <1>t, EntryStep DEF SettledHasLanded
    <2> QED
      BY <1>l, <2>0, <2>1
  <1>2. ASSUME NEW q \in Proc, NEW x \in plan'[q], x.do = "settle" PROVE Landed(x.txn)'
    <2>0. x.txn \in Txn
      BY <1>u, FieldShape DEF PlansType
    <2>1. Comes(q, x)
      BY <1>t, PlanStep
    <2>2. CASE x \in plan[q]
      BY <1>t, <1>l, <1>2, <2>0, <2>2 DEF SettledHasLanded
    <2>3. CASE \E e \in outbox : Listed(q, x, e)
      BY <1>l, <1>2, <2>0, <2>3 DEF Listed
    <2> QED
      BY <1>2, <2>1, <2>2, <2>3 DEF Comes
  <1>3. SettledHasLanded' <=> /\ \A e \in unsynced' : Landed(e.txn)'
                              /\ \A q \in Proc : \A x \in plan'[q] : x.do = "settle" => Landed(x.txn)'
    BY DEF SettledHasLanded
  <1> QED
    BY <1>1, <1>2, <1>3

\* The invariant of the units is kept.
LEMMA UnitInvStep == UnitInv /\ [Next]_vars => UnitInv'
  <1> SUFFICES ASSUME UnitInv, [Next]_vars PROVE UnitInv'
    OBVIOUS
  <1>1. TypeInv'
    BY TypeInvStep DEF UnitInv
  <1> QED
    BY <1>1, FlushStep, KnownStep, SettledStep DEF UnitInv

\* A group that was staged stays accounted for.
LEMMA AccountedStep ==
  ASSUME CommitInv, [Next]_vars, NEW q \in Writer
  PROVE  Accounted(q)'
  <1>t. /\ TypeInv /\ ProcType /\ GroupsType /\ UnitType /\ FlushShape(q) /\ Accounted(q)
        /\ q \in Proc /\ \A g \in {Data, Run} : <<q, g>> \in Txn
    BY TxnShape DEF CommitInv, UnitInv, TypeInv, Types
  <1>l. \A g \in {Data, Run} : Landed(<<q, g>>) => Landed(<<q, g>>)'
    BY <1>t, LandedStays
  <1>p. Accounted(q)' <=>
          \A g \in {Data, Run} : <<q, g>> \in staged' =>
              \/ g \in todo'[q] \/ g \in giving'[q] \/ q \in unsure'
              \/ Landed(<<q, g>>)' \/ <<q, g>> \in told'
    BY DEF Accounted
  <1>k. ASSUME KeptUnit(q) PROVE Accounted(q)'
    BY <1>t, <1>l, <1>p, <1>k DEF KeptUnit, Accounted
  <1>m. ASSUME UNCHANGED <<todo, staged, unsure, told>>, giving[q] \subseteq giving'[q]
        PROVE  Accounted(q)'
    BY <1>t, <1>l, <1>p, <1>m DEF Accounted
  <1>e. ASSUME \A t \in staged' : t[1] # q PROVE Accounted(q)'
    <2>1. \A g \in {Data, Run} : <<q, g>>[1] = q
      OBVIOUS
    <2> QED
      BY <1>e, <1>p, <2>1
  <1>1. CASE UNCHANGED vars
    BY <1>1, <1>m DEF vars, unit, callers
  <1>2. ASSUME NEW p \in Proc, Acts(p), p # q PROVE Accounted(q)'
    BY <1>t, <1>2, <1>k, UnitFrame
  <1>3. CASE Lease(q) \/ Recovery(q)
    BY <1>t, <1>3, <1>m, NoUnit DEF unit
  <1>4. CASE Crash(q) \/ Close(q)
    BY <1>4, <1>e DEF Crash, Close, Forget
  <1>5. CASE PowerCut
    <2>1. CASE pc[q] = "idle"
      BY <1>t, <1>5, <1>k, <2>1, CutShape
    <2>2. CASE pc[q] # "idle"
      BY <1>t, <1>5, <1>e, <2>2 DEF PowerCut, Forget
    <2> QED
      BY <2>1, <2>2
  <1>6. CASE UnitOfWork(q) /\ ~Close(q)
    <2>0. ASSUME pc[q] \notin {"abandon", "discard"}, UNCHANGED <<todo, staged, unsure, told>>
          PROVE  Accounted(q)'
      BY <1>t, <1>m, <2>0 DEF FlushShape
    <2>1. ASSUME NEW g \in {Data, Run}, Stage(q, g) PROVE Accounted(q)'
      <3>1. /\ todo'[q] = todo[q] \cup {g} /\ staged' = staged \cup {<<q, g>>}
            /\ UNCHANGED <<giving, unsure, told>>
        BY <1>t, <2>1 DEF Stage, callers, GroupsType
      <3>2. \A k \in {Data, Run} : <<q, k>> = <<q, g>> => k = g
        OBVIOUS
      <3> QED
        BY <1>t, <1>l, <1>p, <3>1, <3>2 DEF Accounted
    <2>2. CASE Build(q) \/ Prepare(q) \/ AppendCommit(q) \/ AcknowledgeRefusals(q) \/ Commit(q)
      BY <2>0, <2>2 DEF Build, Prepare, AppendCommit, AcknowledgeRefusals, Commit, callers
    <2>3. CASE Finish(q) \/ AbandonUnit(q)
      BY <2>0, <2>3 DEF Finish, AbandonUnit, callers
    <2>4. CASE LandedDespite(q)
      <3>1. pc[q] \in {"unknown", "refusal"} /\ UNCHANGED <<staged, unsure, told>>
        BY <2>4 DEF LandedDespite
      <3>2. CASE UNCHANGED todo
        BY <2>0, <3>1, <3>2
      <3>3. CASE Refused(q)
        <4>1. NextGroup(q) \in todo[q]
          BY <1>t, <3>1, AtGroup DEF Flush
        <4>2. todo'[q] = todo[q] \ {NextGroup(q)} /\ NextGroup(q) \in giving'[q] /\ giving[q] = {}
          BY <1>t, <3>1, <3>3, <4>1 DEF Refused, GroupsType, FlushShape
        <4> QED
          BY <1>t, <1>l, <1>p, <3>1, <4>2 DEF Accounted
      <3> QED
        BY <2>4, <3>2, <3>3 DEF LandedDespite
    <2>5. CASE Settle(q)
      <3>1. /\ todo'[q] = todo[q] \ {NextGroup(q)} /\ UNCHANGED <<staged, giving, unsure, told>>
            /\ Landed(<<q, NextGroup(q)>>)
        BY <1>t, <2>5 DEF Settle, GroupsType, FlushShape, callers
      <3> QED
        BY <1>t, <1>l, <1>p, <3>1 DEF Accounted
    <2>6. CASE Abandon(q)
      BY <1>m, <2>6 DEF Abandon, callers
    <2>7. CASE Discard(q)
      <3>1. UNCHANGED <<todo, staged>> /\ unsure \subseteq unsure'
        BY <2>7 DEF Discard
      <3>2. told' = IF q \in unsure' THEN told ELSE told \cup Txns(q, giving[q])
        BY <2>7 DEF Discard
      <3>3. \A g \in giving[q] : <<q, g>> \in Txns(q, giving[q])
        BY DEF Txns
      <3> QED
        BY <1>t, <1>l, <1>p, <3>1, <3>2, <3>3 DEF Accounted
    <2> QED
      BY <1>6, <2>1, <2>2, <2>3, <2>4, <2>5, <2>6, <2>7 DEF UnitOfWork
  <1> QED
    BY <1>1, <1>2, <1>3, <1>4, <1>5, <1>6 DEF Next, Acts

\* What a unit reports done has landed, but for what it reported failed.
LEMMA CommitInvHolds == Spec => []CommitInv
  <1>1. Init => CommitInv
    <2> SUFFICES ASSUME Init PROVE CommitInv
      OBVIOUS
    <2> QED
      BY UnitInvInit DEF CommitInv, Init, Accounted
  <1>2. CommitInv /\ [Next]_vars => CommitInv'
    <2> SUFFICES ASSUME CommitInv, [Next]_vars PROVE CommitInv'
      OBVIOUS
    <2>1. UnitInv'
      BY UnitInvStep DEF CommitInv
    <2> QED
      BY <2>1, AccountedStep DEF CommitInv
  <1> QED
    BY <1>1, <1>2, PTL DEF Spec

\* CommittedHasLanded, for any processes and faults: a unit of work that reports its commit
\* done has landed every group it staged, but for those it was told have failed.
THEOREM ReportedDoneHasLanded == Spec => []CommittedHasLanded
  <1>1. CommitInv => CommittedHasLanded
    <2> SUFFICES ASSUME CommitInv, NEW t \in staged, report[t[1]] = "ok"
                 PROVE  Landed(t) \/ t \in told
      BY DEF CommittedHasLanded
    <2>1. PICK p \in Writer, g \in {Data, Run} : t = <<p, g>>
      BY DEF CommitInv, UnitInv, TypeInv, Types, UnitType, Txn
    <2>2. FlushShape(p) /\ Accounted(p) /\ report[p] = "ok"
      BY <2>1 DEF CommitInv, UnitInv
    <2>3. todo[p] = {} /\ giving[p] = {} /\ p \notin unsure
      BY <2>2 DEF FlushShape
    <2> QED
      BY <2>1, <2>2, <2>3 DEF Accounted
  <1> QED
    BY <1>1, CommitInvHolds, PTL

-----------------------------------------------------------------------------
(* A run after the data it names. *)

\* A unit comes to name its data where its run is staged, before anything knows of the run.
LEMMA NamedNow ==
  ASSUME UnitInv, [Next]_vars, NEW q \in names', q \notin names
  PROVE  Follows(q)'
  <1>a. ASSUME NEW p \in Proc, Lease(p) \/ Recovery(p) \/ Crash(p) PROVE FALSE
    BY <1>a, NoUnit DEF UnitInv, unit, Crash, Forget
  <1>b. ASSUME NEW p \in Writer, UnitOfWork(p), ~\E g \in {Data, Run} : Stage(p, g) PROVE FALSE
    BY <1>b DEF UnitOfWork, Build, Prepare, AppendCommit, LandedDespite, Settle, Abandon,
       Discard, AcknowledgeRefusals, Commit, Finish, AbandonUnit, Close, Forget
  <1>1. PICK p \in Writer : \E g \in {Data, Run} : Stage(p, g)
    BY <1>a, <1>b DEF Next, vars, unit, PowerCut, Forget
  <1>2. /\ Stage(q, Run) /\ q \in Writer /\ q \in Proc
        /\ Data \in todo[q] \/ Landed(<<q, Data>>)
    BY <1>1 DEF Stage
  <1>3. ~WasStaged(<<q, Run>>) /\ <<q, Run>> \in Txn
    BY <1>2, TxnShape DEF Stage, WasStaged, Gone
  <1>4. UNCHANGED <<outbox, unsynced, plan, log>>
    BY <1>2 DEF Stage, disk
  <1>5. KnownTxns /\ GroupsType
    BY DEF UnitInv, TypeInv, Types
  <1>6. \A e \in outbox \cup unsynced : e.txn # <<q, Run>>
    BY <1>3, <1>5 DEF KnownTxns
  <1>7. \A r \in Proc : \A x \in plan[r] : x.txn # <<q, Run>>
    BY <1>3, <1>5 DEF KnownTxns
  <1>8. ~Landed(<<q, Run>>)' /\ (Landed(<<q, Data>>) => Landed(<<q, Data>>)')
    BY <1>3, <1>4, <1>5 DEF KnownTxns, Landed, Partition
  <1>9. Data \in todo[q] => Data \in todo'[q]
    BY <1>2, <1>5 DEF Stage, GroupsType
  <1> QED
    BY <1>2, <1>4, <1>6, <1>7, <1>8, <1>9 DEF Follows

\* The data of a unit that runs is to land, is refused or has landed.
LEMMA DataStep ==
  ASSUME UnitInv, [Next]_vars, NEW q \in names, q \in names', Follows(q), ~Gone(q)'
  PROVE  Data \in todo'[q] \/ q \in refused' \/ Landed(<<q, Data>>)'
  <1>t. /\ TypeInv /\ ProcType /\ GroupsType /\ UnitType /\ q \in Writer /\ q \in Proc
        /\ FlushShape(q) /\ <<q, Data>> \in Txn
    BY TxnShape DEF UnitInv, TypeInv, Types, UnitType
  <1>g. Data \in todo[q] \/ q \in refused \/ Landed(<<q, Data>>)
    BY <1>t, GoneStays DEF Follows
  <1>l. Landed(<<q, Data>>) => Landed(<<q, Data>>)'
    BY <1>t, LandedStays
  <1>k. ASSUME Data \in todo[q] => Data \in todo'[q], q \in refused => q \in refused'
        PROVE  Data \in todo'[q] \/ q \in refused' \/ Landed(<<q, Data>>)'
    BY <1>g, <1>l, <1>k
  <1>1. CASE UNCHANGED vars
    BY <1>1, <1>k DEF vars, unit
  <1>2. ASSUME NEW p \in Proc, Acts(p), p # q
        PROVE  Data \in todo'[q] \/ q \in refused' \/ Landed(<<q, Data>>)'
    BY <1>t, <1>2, <1>k, UnitFrame DEF KeptUnit
  <1>3. CASE Lease(q) \/ Recovery(q)
    BY <1>t, <1>3, <1>k, NoUnit DEF unit
  <1>4. CASE Crash(q) \/ Close(q)
    BY <1>t, <1>4 DEF Crash, Close, Goto, Gone, ProcType
  <1>5. CASE PowerCut
    BY <1>t, <1>5, <1>k, CutShape DEF KeptUnit, Gone
  <1>6. CASE UnitOfWork(q) /\ ~Close(q)
    <2>1. ASSUME NEW g \in {Data, Run}, Stage(q, g)
          PROVE  Data \in todo'[q] \/ q \in refused' \/ Landed(<<q, Data>>)'
      <3>1. todo[q] \subseteq todo'[q] /\ UNCHANGED refused
        BY <1>t, <2>1 DEF Stage, GroupsType
      <3> QED
        BY <1>k, <3>1
    <2>2. CASE Build(q) \/ Prepare(q) \/ AppendCommit(q) \/ Abandon(q) \/ Discard(q) \/ Commit(q)
      BY <1>k, <2>2 DEF Build, Prepare, AppendCommit, Abandon, Discard, Commit
    <2>3. CASE Finish(q) \/ AbandonUnit(q)
      BY <1>k, <2>3 DEF Finish, AbandonUnit
    <2>4. CASE LandedDespite(q)
      <3>1. CASE UNCHANGED <<todo, refused>>
        BY <1>k, <3>1
      <3>2. CASE Refused(q)
        <4>1. /\ todo'[q] = todo[q] \ {NextGroup(q)}
              /\ refused' = IF NextGroup(q) = Data THEN refused \cup {q} ELSE refused
          BY <1>t, <3>2 DEF Refused, GroupsType
        <4> QED
          BY <1>k, <4>1
      <3> QED
        BY <2>4, <3>1, <3>2 DEF LandedDespite
    <2>5. CASE Settle(q)
      <3>1. /\ todo'[q] = todo[q] \ {NextGroup(q)} /\ UNCHANGED refused
            /\ Landed(<<q, NextGroup(q)>>)
        BY <1>t, <2>5 DEF Settle, GroupsType, FlushShape
      <3> QED
        BY <1>k, <1>l, <3>1
    <2>6. CASE AcknowledgeRefusals(q)
      BY <2>6 DEF AcknowledgeRefusals
    <2> QED
      BY <1>6, <2>1, <2>2, <2>3, <2>4, <2>5, <2>6 DEF UnitOfWork
  <1> QED
    BY <1>1, <1>2, <1>3, <1>4, <1>5, <1>6 DEF Next, Acts

\* A flush that is at the run of a unit whose run names its data has landed the data.
LEMMA RunComesLast ==
  ASSUME UnitInv, NEW p \in Writer, Follows(p), pc[p] \in Flush, NextGroup(p) = Run
  PROVE  Landed(<<p, Data>>)
  <1>1. Data \notin todo[p] /\ p \notin refused
    BY AtGroup DEF UnitInv
  <1>2. ~Gone(p)
    BY DEF Gone, Flush
  <1> QED
    BY <1>1, <1>2 DEF Follows

\* The run of a unit whose run names its data still follows it.
LEMMA FollowsStep ==
  ASSUME NamesInv, [Next]_vars, NEW q \in names'
  PROVE  Follows(q)'
  <1>t. UnitInv /\ TypeInv /\ DiskType /\ PlansType /\ UnitType
    BY DEF NamesInv, UnitInv, TypeInv, Types
  <1>u. DiskType' /\ PlansType' /\ UnitType'
    BY <1>t, TypeInvStep DEF TypeInv, Types
  <1>n. CASE q \notin names
    BY <1>t, <1>n, NamedNow
  <1> SUFFICES ASSUME q \in names PROVE Follows(q)'
    BY <1>n
  <1>f. /\ Follows(q) /\ q \in Writer /\ q \in Proc
        /\ <<q, Data>> \in Txn /\ <<q, Run>> \in Txn
    BY <1>t, TxnShape DEF NamesInv, UnitType
  <1>l. Landed(<<q, Data>>) => Landed(<<q, Data>>)'
    BY <1>t, <1>f, LandedStays
  <1>1. ~Gone(q)' => Data \in todo'[q] \/ q \in refused' \/ Landed(<<q, Data>>)'
    BY <1>t, <1>f, DataStep
  <1>2. ASSUME NEW e \in (outbox \cup unsynced)', e.txn = <<q, Run>> PROVE Landed(<<q, Data>>)'
    <2>1. CASE \E d \in outbox : SameEntry(e, d)
      BY <1>f, <1>l, <1>2, <2>1 DEF SameEntry, Follows
    <2>2. CASE e \in outbox \cup unsynced
      BY <1>f, <1>l, <1>2, <2>2 DEF Follows
    <2>3. ASSUME NEW p \in Writer, Prepare(p), e.txn = <<p, NextGroup(p)>>
          PROVE  Landed(<<q, Data>>)'
      <3>1. p = q /\ NextGroup(p) = Run /\ pc[p] \in Flush
        BY <1>2, <2>3 DEF Prepare, Flush
      <3> QED
        BY <1>t, <1>f, <1>l, <3>1, RunComesLast
    <2> QED
      BY <1>t, <1>2, <2>1, <2>2, <2>3, EntryStep
  <1>3. ASSUME NEW p \in Proc, NEW x \in plan'[p], x.txn = <<q, Run>> PROVE Landed(<<q, Data>>)'
    <2>1. Comes(p, x)
      BY <1>t, PlanStep
    <2>2. CASE \E y \in plan[p] : y.txn = x.txn
      BY <1>f, <1>l, <1>3, <2>2 DEF Follows
    <2>3. CASE \E e \in outbox : x.txn = e.txn
      BY <1>f, <1>l, <1>3, <2>3 DEF Follows
    <2> QED
      BY <2>1, <2>2, <2>3 DEF Comes, Listed
  <1>4. ASSUME Landed(<<q, Run>>)' PROVE Landed(<<q, Data>>)'
    <2>1. CASE Landed(<<q, Run>>)
      BY <1>f, <1>l, <2>1 DEF Follows
    <2>2. ASSUME NEW p \in Writer, AppendCommit(p), <<q, Run>> = <<p, NextGroup(p)>>
          PROVE  Landed(<<q, Data>>)'
      <3>1. p = q /\ NextGroup(p) = Run /\ pc[p] \in Flush
        BY <2>2 DEF AppendCommit, Flush
      <3> QED
        BY <1>t, <1>f, <1>l, <3>1, RunComesLast
    <2>3. ASSUME NEW p \in Proc, NEW x \in plan[p], x.txn = <<q, Run>> PROVE Landed(<<q, Data>>)'
      BY <1>f, <1>l, <2>3 DEF Follows
    <2> QED
      BY <1>t, <1>f, <1>4, <2>1, <2>2, <2>3, LandsNow
  <1>5. Follows(q)' <=>
          /\ ~Gone(q)' => Data \in todo'[q] \/ q \in refused' \/ Landed(<<q, Data>>)'
          /\ \A e \in (outbox \cup unsynced)' : e.txn = <<q, Run>> => Landed(<<q, Data>>)'
          /\ \A p \in Proc : \A x \in plan'[p] : x.txn = <<q, Run>> => Landed(<<q, Data>>)'
          /\ Landed(<<q, Run>>)' => Landed(<<q, Data>>)'
    BY DEF Follows
  <1> QED
    BY <1>1, <1>2, <1>3, <1>4, <1>5

\* Runs follow the data they name.
LEMMA NamesInvHolds == Spec => []NamesInv
  <1>1. Init => NamesInv
    <2> SUFFICES ASSUME Init PROVE NamesInv
      OBVIOUS
    <2>1. names = {}
      BY DEF Init
    <2> QED
      BY <2>1, UnitInvInit DEF NamesInv
  <1>2. NamesInv /\ [Next]_vars => NamesInv'
    <2> SUFFICES ASSUME NamesInv, [Next]_vars PROVE NamesInv'
      OBVIOUS
    <2>1. UnitInv'
      BY UnitInvStep DEF NamesInv
    <2> QED
      BY <2>1, FollowsStep DEF NamesInv
  <1> QED
    BY <1>1, <1>2, PTL DEF Spec

\* RunNamesLandedData, for any processes and faults: whoever lands it, unit or recovery, the
\* record of a run lands after the data it names.
THEOREM RunLandsAfterItsData == Spec => []RunNamesLandedData
  <1>1. NamesInv => RunNamesLandedData
    BY DEF NamesInv, RunNamesLandedData, Follows
  <1> QED
    BY <1>1, NamesInvHolds, PTL

-----------------------------------------------------------------------------
(* A commit reported failed. *)

\* A recovery sends for processes that are gone, when it can judge all of them.
LEMMA SentStep ==
  ASSUME TypeInv, SentIsGone, Unjudged = {}, [Next]_vars
  PROVE  SentIsGone'
  <1>u. PlansType'
    BY TypeInvStep DEF TypeInv, Types
  <1>1. ASSUME NEW q \in Proc, NEW x \in plan'[q], x.do = "send" PROVE Gone(x.txn[1])'
    <2>0. x.txn \in Txn /\ x.txn[1] \in Proc
      BY <1>u, FieldShape, TxnShape DEF PlansType
    <2>1. Comes(q, x)
      BY PlanStep
    <2>2. Gone(x.txn[1])
      BY <1>1, <2>1 DEF Comes, Listed, WriterAlive, SentIsGone
    <2> QED
      BY <2>0, <2>2, GoneStays
  <1>2. SentIsGone' <=> \A q \in Proc : \A x \in plan'[q] : x.do = "send" => Gone(x.txn[1])'
    BY DEF SentIsGone
  <1> QED
    BY <1>1, <1>2

\* What is given up with a group, prepared or not.
LEMMA GiveUpShape ==
  ASSUME TypeInv, NEW p \in Writer, NEW gs, NEW prep, GiveUp(p, gs, prep)
  PROVE  /\ pc'[p] = "abandon" /\ keys'[p] = prep \cap gs /\ giving'[p] = gs
         /\ prepared'[p] = prep \ gs
  BY DEF TypeInv, Types, ProcType, GroupsType, GiveUp, Goto

\* A unit knows of its entries after a step, but for those that are out of its hands.
LEMMA KeepsKnown ==
  ASSUME ToldInv, [Next]_vars, NEW q \in Writer, ~Gone(q)',
         NEW g \in prepared[q] \cup keys[q], NEW e \in outbox', NEW d \in outbox,
         SameEntry(e, d), d.txn = <<q, g>>
  PROVE  \/ g \in prepared'[q] \cup keys'[q] \/ q \in unsure'
         \/ e.abandoned \/ Landed(e.txn)'
  <1> DEFINE Goal == \/ g \in prepared'[q] \cup keys'[q] \/ q \in unsure'
                     \/ e.abandoned \/ Landed(e.txn)'
  <1>a. /\ TypeInv /\ ProcType /\ GroupsType /\ UnitType /\ q \in Proc
        /\ FlushShape(q) /\ GivesUp(q) /\ UnitInv
    BY DEF ToldInv, UnitInv, TypeInv, Types
  <1>b. e.txn = <<q, g>> /\ g \in {Data, Run}
    BY <1>a DEF SameEntry, GroupsType
  <1>t. /\ TypeInv /\ ProcType /\ GroupsType /\ UnitType /\ q \in Proc
        /\ FlushShape(q) /\ GivesUp(q) /\ UnitInv /\ e.txn = <<q, g>> /\ e.txn \in Txn
    <2>1. <<q, g>> \in Txn
      BY <1>b, TxnShape
    <2> QED
      BY <1>a, <1>b, <2>1
  <1>k. keys[q] = {} \/ pc[q] \in {"abandon", "discard"}
    BY <1>t DEF GivesUp
  <1>s. ASSUME prepared[q] \cup keys[q] \subseteq prepared'[q] \cup keys'[q] PROVE Goal
    BY <1>s
  <1>m. ASSUME UNCHANGED <<prepared, keys>> PROVE Goal
    BY <1>m
  <1> HIDE DEF Goal
  <1>1. CASE UNCHANGED vars
    BY <1>1, <1>m DEF vars, unit
  <1>2. ASSUME NEW p \in Proc, Acts(p), p # q PROVE Goal
    BY <1>t, <1>2, <1>s, UnitFrame DEF KeptUnit
  <1>3. CASE Lease(q) \/ Recovery(q)
    BY <1>t, <1>3, <1>m, NoUnit DEF unit
  <1>4. CASE Crash(q) \/ Close(q)
    BY <1>t, <1>4 DEF Crash, Close, Goto, Gone, ProcType
  <1>5. CASE PowerCut
    BY <1>t, <1>5, <1>s, CutShape DEF KeptUnit, Gone
  <1>6. CASE UnitOfWork(q) /\ ~Close(q)
    <2>1. CASE \/ \E h \in {Data, Run} : Stage(q, h)
               \/ Build(q) \/ AppendCommit(q) \/ AcknowledgeRefusals(q) \/ Commit(q) \/ Abandon(q)
      BY <1>m, <2>1 DEF Stage, Build, AppendCommit, AcknowledgeRefusals, Commit, Abandon
    <2>2. CASE Prepare(q)
      <3>1. keys[q] = {}
        BY <1>k, <2>2 DEF Prepare
      <3>2. \/ prepared' = [prepared EXCEPT ![q] = prepared[q] \cup {NextGroup(q)}]
            \/ GiveUp(q, todo[q], prepared[q] \cup {NextGroup(q)})
        BY <2>2 DEF Prepare, Throws
      <3>3. CASE prepared' = [prepared EXCEPT ![q] = prepared[q] \cup {NextGroup(q)}]
        BY <1>t, <1>s, <3>1, <3>3 DEF GroupsType
      <3>4. CASE GiveUp(q, todo[q], prepared[q] \cup {NextGroup(q)})
        BY <1>t, <1>s, <3>1, <3>4, GiveUpShape
      <3> QED
        BY <3>2, <3>3, <3>4
    <2>3. CASE LandedDespite(q)
      <3>1. keys[q] = {}
        BY <1>k, <2>3 DEF LandedDespite
      <3>2. CASE Refused(q)
        <4>1. keys'[q] = prepared[q]
          BY <1>t, <3>2 DEF Refused, GroupsType
        <4> QED
          BY <1>s, <3>1, <4>1
      <3>3. CASE GiveUp(q, todo[q], prepared[q])
        BY <1>t, <1>s, <3>1, <3>3, GiveUpShape
      <3>4. CASE prepared' = [prepared EXCEPT ![q] = prepared[q]]
        BY <1>t, <1>s, <3>1, <3>4 DEF GroupsType
      <3>5. CASE UNCHANGED <<prepared, keys>>
        BY <1>m, <3>5
      <3> QED
        BY <2>3, <3>2, <3>3, <3>4, <3>5 DEF LandedDespite, Throws
    <2>4. CASE Settle(q)
      <3>1. /\ prepared'[q] = prepared[q] \ {NextGroup(q)} /\ UNCHANGED keys
            /\ Landed(<<q, NextGroup(q)>>)
        BY <1>t, <2>4 DEF Settle, GroupsType, FlushShape
      <3>2. CASE g = NextGroup(q)
        BY <1>t, <3>1, <3>2, LandedStays DEF Goal
      <3>3. CASE g # NextGroup(q)
        BY <3>1, <3>3 DEF Goal
      <3> QED
        BY <3>2, <3>3
    <2>5. CASE Discard(q)
      <3>1. UNCHANGED prepared
        BY <2>5 DEF Discard
      <3>2. CASE g \in prepared[q]
        BY <3>1, <3>2 DEF Goal
      <3>3. CASE g \in keys[q]
        <4>1. CASE outbox' = Without(outbox, Txns(q, keys[q]))
          BY <1>t, <3>3, <4>1 DEF Without, Txns
        <4>2. CASE unsure' = IF q \in marked THEN unsure ELSE unsure \cup {q}
          <5>1. CASE q \in marked
            <6>1. d.txn[1] = q /\ d.txn[2] = g
              OBVIOUS
            <6> QED
              BY <1>t, <3>3, <5>1, <6>1 DEF GivesUp, SameEntry, Goal
          <5>2. CASE q \notin marked
            BY <4>2, <5>2 DEF Goal
          <5> QED
            BY <5>1, <5>2
        <4> QED
          BY <2>5, <4>1, <4>2 DEF Discard, Write
      <3> QED
        BY <3>2, <3>3
    <2>6. CASE Finish(q)
      <3>1. keys[q] = {}
        BY <1>k, <2>6 DEF Finish
      <3> QED
        BY <1>t, <1>s, <1>m, <2>6, <3>1, GiveUpShape DEF Finish
    <2>7. CASE AbandonUnit(q)
      <3>1. keys[q] = {}
        BY <1>k, <2>7 DEF AbandonUnit
      <3> QED
        BY <1>t, <1>s, <2>7, <3>1, GiveUpShape DEF AbandonUnit
    <2> QED
      BY <1>6, <2>1, <2>2, <2>3, <2>4, <2>5, <2>6, <2>7 DEF UnitOfWork
  <1> QED
    BY <1>1, <1>2, <1>3, <1>4, <1>5, <1>6 DEF Next, Acts, Goal

\* A unit that could not be told of a failure stays so as long as it runs.
LEMMA UnsureStays ==
  ASSUME TypeInv, [Next]_vars, NEW q \in Writer, ~Gone(q)', q \in unsure
  PROVE  q \in unsure'
  <1>t. ProcType /\ q \in Proc
    BY DEF TypeInv, Types
  <1>1. CASE UNCHANGED vars
    BY <1>1 DEF vars, unit
  <1>2. ASSUME NEW p \in Proc, Acts(p), p # q PROVE q \in unsure'
    BY <1>2, UnitFrame DEF KeptUnit
  <1>3. CASE Lease(q) \/ Recovery(q)
    BY <1>t, <1>3, NoUnit DEF unit
  <1>4. CASE Crash(q) \/ Close(q)
    BY <1>t, <1>4 DEF Crash, Close, Goto, Gone, ProcType
  <1>5. CASE PowerCut
    BY <1>t, <1>5, CutShape DEF KeptUnit, Gone
  <1>6. CASE UnitOfWork(q) /\ ~Close(q)
    BY <1>6 DEF UnitOfWork, Stage, Build, Prepare, AppendCommit, LandedDespite, Settle, Abandon,
       Discard, AcknowledgeRefusals, Commit, Finish, AbandonUnit
  <1> QED
    BY <1>1, <1>2, <1>3, <1>4, <1>5, <1>6 DEF Next, Acts

\* What a unit knows of its entries is kept.
LEMMA KnowsStep ==
  ASSUME ToldInv, [Next]_vars, NEW q \in Writer
  PROVE  Knows(q)'
  <1>t. /\ TypeInv /\ UnitInv /\ GroupsType /\ ProcType /\ DiskType /\ q \in Proc /\ Knows(q)
        /\ SettledHasLanded
    BY DEF ToldInv, UnitInv, TypeInv, Types
  <1>u. DiskType'
    BY <1>t, TypeInvStep DEF TypeInv, Types
  <1> SUFFICES ASSUME ~Gone(q)', NEW e \in outbox', e.txn[1] = q
               PROVE  \/ e.txn[2] \in prepared'[q] \cup keys'[q] \/ q \in unsure'
                      \/ e.abandoned \/ Landed(e.txn)'
    BY DEF Knows
  <1>e. e.txn \in Txn /\ ~Gone(q)
    BY <1>t, <1>u, FieldShape, GoneStays DEF DiskType
  <1>1. ASSUME NEW d \in outbox, SameEntry(e, d)
        PROVE  \/ e.txn[2] \in prepared'[q] \cup keys'[q] \/ q \in unsure'
               \/ e.abandoned \/ Landed(e.txn)'
    <2>1. \/ d.txn[2] \in prepared[q] \cup keys[q] \/ q \in unsure
          \/ d.abandoned \/ Landed(d.txn)
      BY <1>t, <1>e, <1>1 DEF Knows, SameEntry
    <2>2. d.txn = e.txn /\ (d.abandoned => e.abandoned)
      BY <1>1 DEF SameEntry
    <2>3. CASE d.txn[2] \in prepared[q] \cup keys[q]
      <3>1. PICK g \in prepared[q] \cup keys[q] : g = d.txn[2]
        BY <2>3
      <3>2. d.txn = <<q, g>>
        BY <1>e, <2>2, <3>1, TxnShape
      <3> QED
        BY <1>1, <2>2, <3>1, <3>2, KeepsKnown
    <2>4. CASE Landed(d.txn)
      BY <1>t, <1>e, <2>2, <2>4, LandedStays
    <2> QED
      BY <1>t, <2>1, <2>2, <2>3, <2>4, UnsureStays
  <1>2. CASE e \in unsynced
    BY <1>t, <1>e, <1>2, LandedStays DEF SettledHasLanded
  <1>3. ASSUME NEW p \in Writer, Prepare(p), e.txn = <<p, NextGroup(p)>>
        PROVE  e.txn[2] \in prepared'[q] \cup keys'[q]
    <2>1. p = q /\ e.txn[2] = NextGroup(q)
      BY <1>3
    <2>2. CASE prepared' = [prepared EXCEPT ![q] = prepared[q] \cup {NextGroup(q)}]
      BY <1>t, <2>1, <2>2 DEF GroupsType
    <2>3. CASE GiveUp(q, todo[q], prepared[q] \cup {NextGroup(q)})
      BY <1>t, <2>1, <2>3, GiveUpShape
    <2> QED
      BY <1>3, <2>1, <2>2, <2>3 DEF Prepare, Throws
  <1> QED
    BY <1>t, <1>1, <1>2, <1>3, EntryStep

\* A unit gives up what it marked, and prepares none of it again.
LEMMA GivesUpStep ==
  ASSUME ToldInv, [Next]_vars, NEW q \in Writer
  PROVE  GivesUp(q)'
  <1>t. /\ TypeInv /\ UnitInv /\ GroupsType /\ ProcType /\ UnitType /\ DiskType /\ q \in Proc
        /\ FlushShape(q) /\ GivesUp(q)
    BY DEF ToldInv, UnitInv, TypeInv, Types
  <1>i. pc[q] \notin {"abandon", "discard"} => keys[q] = {} /\ giving[q] = {} /\ q \notin marked
    BY <1>t DEF GivesUp, FlushShape
  <1>c. ASSUME keys'[q] = {}, giving'[q] = {}, q \notin marked' PROVE GivesUp(q)'
    BY <1>c DEF GivesUp
  <1>n. ASSUME pc[q] \notin {"abandon", "discard"},
               keys'[q] = keys[q], giving'[q] = giving[q], (q \in marked') = (q \in marked)
        PROVE  GivesUp(q)'
    BY <1>i, <1>n, <1>c
  <1>m. ASSUME pc[q] \notin {"abandon", "discard"}, UNCHANGED <<keys, giving, marked>>
        PROVE  GivesUp(q)'
    BY <1>n, <1>m
  <1>g. ASSUME pc[q] \notin {"abandon", "discard"}, UNCHANGED marked, pc'[q] = "abandon",
               giving'[q] \cap prepared'[q] = {}, q \in final' \/ giving'[q] \cap todo'[q] = {}
        PROVE  GivesUp(q)'
    BY <1>i, <1>g DEF GivesUp
  <1>k. ASSUME KeptUnit(q), pc'[q] = pc[q], ~PowerCut PROVE GivesUp(q)'
    <2>1. ASSUME q \in marked, NEW e \in outbox', e.txn[1] = q, e.txn[2] \in keys[q]
          PROVE  e.abandoned
      <3>1. pc[q] = "discard"
        BY <1>t, <2>1 DEF GivesUp
      <3>2. ASSUME NEW p \in Writer, Prepare(p), e.txn = <<p, NextGroup(p)>> PROVE FALSE
        BY <2>1, <3>1, <3>2 DEF Prepare
      <3>3. PICK d \in outbox : SameEntry(e, d)
        BY <1>t, <1>k, <2>1, <3>2, EntryStep
      <3>4. d.abandoned
        BY <1>t, <2>1, <3>3 DEF GivesUp, SameEntry
      <3> QED
        BY <3>3, <3>4 DEF SameEntry
    <2> QED
      BY <1>t, <1>k, <2>1 DEF GivesUp, KeptUnit
  <1>1. CASE UNCHANGED vars
    <2>1. UNCHANGED <<keys, giving, marked, prepared, final, todo, pc, outbox>>
      BY <1>1 DEF vars, unit, disk
    <2> QED
      BY <1>t, <2>1 DEF GivesUp
  <1>2. ASSUME NEW p \in Proc, Acts(p), p # q PROVE GivesUp(q)'
    <2>1. KeptUnit(q) /\ Kept(q)
      BY <1>t, <1>2, UnitFrame, ProcFrame
    <2>2. CASE PowerCut
      <3>1. CASE pc[q] = "idle"
        BY <1>n, <2>1, <3>1 DEF KeptUnit
      <3>2. CASE pc[q] # "idle"
        BY <1>t, <1>c, <2>2, <3>2 DEF PowerCut, Forget
      <3> QED
        BY <3>1, <3>2
    <2> QED
      BY <1>k, <2>1, <2>2 DEF Kept
  <1>3. CASE Lease(q) \/ Recovery(q)
    <2>1. pc[q] \notin {"abandon", "discard"}
      BY <1>3 DEF Lease, TakeLease, NotePendingFence, RaiseFence, RecordFence,
         Recovery, List, MarkLeft, RecoverSettle, RecoverDrop, RecoverSend, Planned, RaiseFloor
    <2> QED
      BY <1>t, <1>3, <1>m, <2>1, NoUnit DEF unit
  <1>4. CASE Crash(q) \/ Close(q)
    BY <1>t, <1>4, <1>c DEF Crash, Close, Forget
  <1>5. CASE PowerCut
    <2>1. CASE pc[q] = "idle"
      BY <1>t, <1>5, <1>n, <2>1, CutShape DEF KeptUnit
    <2>2. CASE pc[q] # "idle"
      BY <1>t, <1>5, <1>c, <2>2 DEF PowerCut, Forget
    <2> QED
      BY <2>1, <2>2
  <1>6. CASE UnitOfWork(q) /\ ~Close(q)
    <2>0. ASSUME NEW gs, NEW prep, pc[q] \notin {"abandon", "discard"}, UNCHANGED marked,
                 pc'[q] = "abandon" /\ giving'[q] = gs /\ prepared'[q] = prep \ gs, q \in final'
          PROVE  GivesUp(q)'
      BY <1>g, <2>0
    <2>1. CASE \/ \E h \in {Data, Run} : Stage(q, h)
               \/ Build(q) \/ AppendCommit(q) \/ AcknowledgeRefusals(q) \/ Commit(q) \/ Settle(q)
      BY <1>m, <2>1 DEF Stage, Build, AppendCommit, AcknowledgeRefusals, Commit, Settle
    <2>2. CASE Prepare(q)
      <3>1. pc[q] = "prepare" /\ UNCHANGED <<marked, final>>
        BY <2>2 DEF Prepare
      <3>2. CASE UNCHANGED <<keys, giving>>
        BY <1>m, <3>1, <3>2
      <3>3. CASE q \in final /\ GiveUp(q, todo[q], prepared[q] \cup {NextGroup(q)})
        BY <1>t, <2>0, <3>1, <3>3, GiveUpShape
      <3> QED
        BY <2>2, <3>2, <3>3 DEF Prepare, Throws
    <2>3. CASE LandedDespite(q)
      <3>1. pc[q] \in {"unknown", "refusal"} /\ UNCHANGED <<marked, final>>
        BY <2>3 DEF LandedDespite
      <3>2. CASE UNCHANGED <<keys, giving>>
        BY <1>m, <3>1, <3>2
      <3>3. CASE q \in final /\ GiveUp(q, todo[q], prepared[q])
        BY <1>t, <2>0, <3>1, <3>3, GiveUpShape
      <3>4. CASE Refused(q)
        <4>1. /\ pc'[q] = "abandon" /\ prepared'[q] = {} /\ todo'[q] = todo[q] \ {NextGroup(q)}
              /\ giving'[q] = IF q \in final THEN todo[q] ELSE {NextGroup(q)}
          BY <1>t, <3>4 DEF Refused, Goto, ProcType, GroupsType
        <4> QED
          BY <1>g, <3>1, <4>1
      <3> QED
        BY <2>3, <3>2, <3>3, <3>4 DEF LandedDespite, Throws
    <2>4. CASE Abandon(q)
      <3>1. /\ pc[q] = "abandon" /\ pc'[q] = "discard" /\ q \notin marked
            /\ UNCHANGED <<keys, giving, prepared, final, todo>>
        BY <1>t, <2>4 DEF Abandon, Goto, ProcType, GivesUp
      <3>2. CASE UNCHANGED marked
        BY <1>t, <3>1, <3>2 DEF GivesUp
      <3>3. CASE outbox' = MarkedAbandoned(Txns(q, keys[q]))
        <4>1. ASSUME NEW e \in outbox', e.txn[1] = q, e.txn[2] \in keys[q] PROVE e.abandoned
          <5>1. PICK d \in outbox : e.txn = d.txn /\ (d.txn \in Txns(q, keys[q]) => e.abandoned)
            BY <1>t, <3>3, <4>1, MarkShape DEF DiskType
          <5>2. d.txn = <<q, e.txn[2]>>
            BY <1>t, <4>1, <5>1, TxnShape, FieldShape DEF DiskType
          <5> QED
            BY <4>1, <5>1, <5>2 DEF Txns
        <4> QED
          BY <1>t, <3>1, <4>1 DEF GivesUp
      <3> QED
        BY <2>4, <3>2, <3>3 DEF Abandon, Write
    <2>5. CASE Discard(q)
      BY <1>t, <1>c, <2>5 DEF Discard, GroupsType
    <2>6. CASE Finish(q)
      <3>1. pc[q] = "open" /\ q \in final /\ UNCHANGED <<marked, final>>
        BY <2>6 DEF Finish
      <3>2. CASE UNCHANGED <<keys, giving>>
        BY <1>m, <3>1, <3>2
      <3>3. CASE GiveUp(q, todo[q], prepared[q])
        BY <1>t, <2>0, <3>1, <3>3, GiveUpShape
      <3> QED
        BY <2>6, <3>2, <3>3 DEF Finish
    <2>7. CASE AbandonUnit(q)
      <3>1. /\ pc[q] = "open" /\ q \in final' /\ UNCHANGED marked
            /\ GiveUp(q, todo[q], prepared[q])
        BY <2>7 DEF AbandonUnit
      <3> QED
        BY <1>t, <2>0, <3>1, GiveUpShape
    <2> QED
      BY <1>6, <2>1, <2>2, <2>3, <2>4, <2>5, <2>6, <2>7 DEF UnitOfWork
  <1> QED
    BY <1>1, <1>2, <1>3, <1>4, <1>5, <1>6 DEF Next, Acts

\* A group of a unit that ended is not flushed again.
LEMMA EndedStays ==
  ASSUME UnitInv, [Next]_vars, NEW q \in Writer, NEW g \in {Data, Run}, WasStaged(<<q, g>>),
         g \in todo[q] => pc[q] \in {"close", "exited"}, g \in todo'[q]
  PROVE  pc'[q] \in {"close", "exited"}
  <1>t. TypeInv /\ GroupsType /\ ProcType /\ q \in Proc
    BY DEF UnitInv, TypeInv, Types
  <1>1. CASE UNCHANGED vars
    BY <1>1 DEF vars, unit
  <1>2. ASSUME NEW p \in Proc, Acts(p), p # q PROVE pc'[q] \in {"close", "exited"}
    BY <1>t, <1>2, UnitFrame, ProcFrame DEF KeptUnit, Kept
  <1>3. CASE Lease(q) \/ Recovery(q)
    <2>1. pc[q] \notin {"close", "exited"} /\ todo' = todo
      BY <1>t, <1>3, NoUnit DEF unit, Lease, TakeLease, NotePendingFence, RaiseFence, RecordFence,
         Recovery, List, MarkLeft, RecoverSettle, RecoverDrop, RecoverSend, Planned, RaiseFloor
    <2> QED
      BY <2>1
  <1>4. CASE Crash(q) \/ Close(q)
    BY <1>t, <1>4 DEF Crash, Close, Forget, GroupsType
  <1>5. CASE PowerCut
    BY <1>t, <1>5, CutShape DEF Kept, KeptUnit
  <1>6. CASE UnitOfWork(q) /\ ~Close(q)
    <2>0. pc[q] \notin {"close", "exited"}
      BY <1>6 DEF UnitOfWork, Stage, Build, Prepare, AppendCommit, LandedDespite, Settle, Abandon,
         Discard, AcknowledgeRefusals, Commit, Finish, AbandonUnit
    <2>1. ASSUME NEW h \in {Data, Run}, Stage(q, h) PROVE FALSE
      <3>1. h # g
        BY <2>0, <2>1 DEF Stage, WasStaged, Gone
      <3> QED
        BY <1>t, <2>0, <2>1, <3>1 DEF Stage, GroupsType
    <2>2. CASE UNCHANGED todo
      BY <2>0, <2>2
    <2>3. CASE Refused(q) \/ Settle(q)
      BY <1>t, <2>0, <2>3 DEF Refused, Settle, GroupsType
    <2> QED
      BY <1>6, <2>1, <2>2, <2>3 DEF UnitOfWork, Build, Prepare, AppendCommit, LandedDespite,
         Abandon, Discard, AcknowledgeRefusals, Commit, Finish, AbandonUnit
  <1> QED
    BY <1>1, <1>2, <1>3, <1>4, <1>5, <1>6 DEF Next, Acts

\* A commit is out when its failure is reported.
LEMMA OutNow ==
  ASSUME ToldInv, [Next]_vars, NEW q \in Writer, NEW g \in giving[q], Discard(q), q \notin unsure',
         ~Landed(<<q, g>>)
  PROVE  IsOut(<<q, g>>)'
  <1>t. /\ TypeInv /\ GroupsType /\ ProcType /\ DiskType /\ PlansType /\ q \in Proc
        /\ FlushShape(q) /\ GivesUp(q) /\ Knows(q) /\ SentIsGone
    BY DEF ToldInv, UnitInv, TypeInv, Types
  <1>g. g \in {Data, Run} /\ <<q, g>>[1] = q /\ <<q, g>>[2] = g
    BY <1>t DEF GroupsType
  <1>d. /\ pc[q] = "discard" /\ q \notin unsure /\ UNCHANGED <<todo, final, plan>>
        /\ q \in final => pc'[q] = "close"
    BY <1>t DEF Discard, Goto, ProcType
  <1>1. g \in todo'[q] => pc'[q] = "close"
    BY <1>t, <1>d DEF GivesUp
  <1>2. ASSUME NEW e \in outbox', e.txn = <<q, g>> PROVE e.abandoned
    <2>1. e \in outbox
      BY <1>2 DEF Discard, Write, Without, disk
    <2>2. g \in keys[q] \/ e.abandoned
      BY <1>t, <1>g, <1>d, <1>2, <2>1 DEF Knows, Gone, GivesUp
    <2>3. CASE g \in keys[q]
      <3>1. CASE outbox' = Without(outbox, Txns(q, keys[q]))
        BY <1>2, <2>3, <3>1 DEF Without, Txns
      <3>2. CASE q \in marked
        BY <1>t, <1>g, <1>2, <2>1, <2>3, <3>2 DEF GivesUp
      <3> QED
        BY <3>1, <3>2 DEF Discard, Write
    <2> QED
      BY <2>2, <2>3
  <1>3. ASSUME NEW p \in Proc, NEW x \in plan'[p], x.txn = <<q, g>> PROVE x.do # "send"
    BY <1>t, <1>g, <1>d, <1>3 DEF SentIsGone, Gone
  <1> QED
    BY <1>g, <1>1, <1>2, <1>3 DEF IsOut

\* A commit that is out stays out.
LEMMA OutStays ==
  ASSUME ToldInv, [Next]_vars, NEW t \in told, IsOut(t), ~Landed(t)
  PROVE  IsOut(t)'
  <1>t. /\ TypeInv /\ UnitInv /\ t \in Txn /\ KnownTxns /\ SettledHasLanded
        /\ \A p \in Writer : FlushShape(p)
    BY DEF ToldInv, UnitInv, TypeInv, Types, UnitType
  <1>q. PICK q \in Writer, g \in {Data, Run} : t = <<q, g>>
    BY <1>t DEF Txn
  <1>g. t[1] = q /\ t[2] = g /\ WasStaged(<<q, g>>)
    BY <1>t, <1>q DEF KnownTxns
  <1>1. g \in todo'[q] => pc'[q] \in {"close", "exited"}
    BY <1>t, <1>g, EndedStays DEF IsOut
  <1>2. ASSUME NEW e \in outbox', e.txn = t PROVE e.abandoned
    <2>1. ASSUME NEW p \in Writer, Prepare(p), e.txn = <<p, NextGroup(p)>> PROVE FALSE
      <3>1. p = q /\ NextGroup(q) = g /\ pc[q] = "prepare"
        BY <1>q, <1>2, <2>1 DEF Prepare
      <3>2. g \in todo[q]
        BY <1>t, <3>1, AtGroup DEF Flush
      <3> QED
        BY <1>g, <3>1, <3>2 DEF IsOut
    <2>2. e \notin unsynced
      BY <1>t, <1>2 DEF SettledHasLanded
    <2>3. PICK d \in outbox : SameEntry(e, d)
      BY <1>t, <1>2, <2>1, <2>2, EntryStep
    <2> QED
      BY <1>2, <2>3 DEF SameEntry, IsOut
  <1>3. ASSUME NEW p \in Proc, NEW x \in plan'[p], x.txn = t PROVE x.do # "send"
    <2>1. Comes(p, x)
      BY <1>t, PlanStep
    <2> QED
      BY <1>3, <2>1 DEF Comes, Listed, IsOut
  <1>4. IsOut(t)' <=> /\ t[2] \in todo'[t[1]] => pc'[t[1]] \in {"close", "exited"}
                      /\ \A e \in outbox' : e.txn = t => e.abandoned
                      /\ \A p \in Proc : \A x \in plan'[p] : x.txn = t => x.do # "send"
    BY DEF IsOut
  <1> QED
    BY <1>g, <1>1, <1>2, <1>3, <1>4

\* The invariant of reported failures holds when recoveries can judge every process.
LEMMA ToldInvHolds == ASSUME Unjudged = {} PROVE Spec => []ToldInv
  <1>1. Init => ToldInv
    <2> SUFFICES ASSUME Init PROVE ToldInv
      OBVIOUS
    <2>1. UnitInv
      BY UnitInvInit
    <2> QED
      BY <2>1 DEF Init, ToldInv, SentIsGone, Knows, GivesUp
  <1>2. ToldInv /\ [Next]_vars => ToldInv'
    <2> SUFFICES ASSUME ToldInv, [Next]_vars PROVE ToldInv'
      OBVIOUS
    <2>t. UnitInv /\ TypeInv /\ SentIsGone /\ told \subseteq Txn
      BY DEF ToldInv, UnitInv, TypeInv, Types, UnitType
    <2>1. UnitInv' /\ SentIsGone'
      BY <2>t, UnitInvStep, SentStep
    <2>2. \A p \in Writer : Knows(p)' /\ GivesUp(p)'
      BY KnowsStep, GivesUpStep
    <2>3. ASSUME NEW t \in told' PROVE Landed(t)' \/ IsOut(t)'
      <3>1. CASE t \in told
        BY <2>t, <3>1, LandedStays, OutStays DEF ToldInv
      <3>2. CASE t \notin told
        <4>1. PICK p \in Writer : \E g \in giving[p] : Discard(p) /\ t = <<p, g>> /\ p \notin unsure'
          BY <2>t, <3>2, ToldNow
        <4>2. PICK g \in giving[p] : Discard(p) /\ t = <<p, g>> /\ p \notin unsure'
          BY <4>1
        <4>3. t \in Txn
          BY <2>1 DEF UnitInv, TypeInv, Types, UnitType
        <4>4. CASE Landed(t)
          BY <2>t, <4>3, <4>4, LandedStays
        <4>5. CASE ~Landed(t)
          <5>1. IsOut(<<p, g>>)'
            BY <4>2, <4>5, OutNow
          <5> QED
            BY <4>2, <5>1 DEF IsOut
        <4> QED
          BY <4>4, <4>5
      <3> QED
        BY <3>1, <3>2
    <2> QED
      BY <2>1, <2>2, <2>3 DEF ToldInv
  <1> QED
    BY <1>1, <1>2, PTL DEF Spec

\* ReportedFailureIsFinal, for any processes and faults: when the liveness of every process can
\* be judged, no unit and no recovery lands a commit whose failure was reported.
THEOREM ReportedFailureStays == ASSUME Unjudged = {} PROVE Spec => ReportedFailureIsFinal
  <1>1. ToldInv /\ [Next]_vars => [\A t \in told : Landed(t)' => Landed(t)]_vars
    <2> SUFFICES ASSUME ToldInv, [Next]_vars, NEW t \in told, Landed(t)', ~Landed(t) PROVE FALSE
      OBVIOUS
    <2>t. /\ TypeInv /\ t \in Txn /\ IsOut(t)
          /\ \A p \in Writer : FlushShape(p)
      BY DEF ToldInv, UnitInv, TypeInv, Types, UnitType
    <2>1. ASSUME NEW p \in Writer, AppendCommit(p), t = <<p, NextGroup(p)>> PROVE FALSE
      <3>1. pc[p] = "append"
        BY <2>1 DEF AppendCommit
      <3>2. NextGroup(p) \in todo[p] /\ t[1] = p /\ t[2] = NextGroup(p)
        BY <2>t, <2>1, <3>1, AtGroup DEF Flush
      <3> QED
        BY <2>t, <3>1, <3>2 DEF IsOut
    <2>2. ASSUME NEW p \in Proc, NEW x \in plan[p], x.do = "send", x.txn = t PROVE FALSE
      BY <2>t, <2>2 DEF IsOut
    <2> QED
      BY <2>t, <2>1, <2>2, LandsNow
  <1> QED
    BY <1>1, ToldInvHolds, PTL DEF Spec, ReportedFailureIsFinal

-----------------------------------------------------------------------------
(* A commit of an overtaken writer. *)

\* Steps that leave the fences of store and outbox alone, and take nobody past them.
Level(q) == pc'[q] \in Past => /\ fence'[q] = fence[q] /\ pc[q] \in Past
                               /\ pc[q] = "record" <=> pc'[q] = "record"

\* Where fences move.
LEMMA FenceFrame ==
  ASSUME TypeInv, [Next]_vars
  PROVE  \/ UNCHANGED <<chain, storeFence, recovered>> /\ \A q \in Proc : Level(q)
         \/ \E p \in Proc : \/ NotePendingFence(p) \/ RaiseFence(p) \/ RecordFence(p)
                            \/ RaiseFloor(p)
  <1>t. ProcType
    BY DEF TypeInv, Types
  <1>k. \A q \in Proc : Kept(q) => Level(q)
    BY DEF Kept, Level
  <1>o. ASSUME NEW p \in Proc, Acts(p), Level(p) PROVE \A q \in Proc : Level(q)
    BY <1>k, <1>o, ProcFrame
  <1>1. CASE UNCHANGED vars
    BY <1>1 DEF vars, callers, Level
  <1>2. ASSUME NEW p \in Proc, TakeLease(p)
        PROVE  UNCHANGED <<chain, storeFence, recovered>> /\ \A q \in Proc : Level(q)
    <2>1. Level(p) /\ Acts(p)
      BY <1>t, <1>2 DEF TakeLease, Goto, ProcType, Level, Past, PCs, Acts, Lease
    <2> QED
      BY <1>2, <1>o, <2>1 DEF TakeLease, callers
  <1>3. ASSUME NEW p \in Proc, Recovery(p), ~RaiseFloor(p)
        PROVE  UNCHANGED <<chain, storeFence, recovered>> /\ \A q \in Proc : Level(q)
    <2>1. Level(p) /\ Acts(p)
      BY <1>t, <1>3 DEF Recovery, List, MarkLeft, RecoverSettle, RecoverDrop, RecoverSend,
         Planned,
         Goto, ProcType, Level, Past, PCs, Acts
    <2>2. UNCHANGED <<chain, storeFence, recovered>>
      BY <1>3 DEF Recovery, List, MarkLeft, RecoverSettle, RecoverDrop, RecoverSend, callers
    <2> QED
      BY <1>o, <2>1, <2>2
  <1>4. ASSUME NEW p \in Proc, Crash(p)
        PROVE  UNCHANGED <<chain, storeFence, recovered>> /\ \A q \in Proc : Level(q)
    <2>1. Level(p) /\ Acts(p)
      BY <1>t, <1>4 DEF Crash, Goto, ProcType, Level, Past, Acts
    <2> QED
      BY <1>4, <1>o, <2>1 DEF Crash
  <1>5. ASSUME NEW p \in Writer, UnitOfWork(p)
        PROVE  UNCHANGED <<chain, storeFence, recovered>> /\ \A q \in Proc : Level(q)
    <2>1. UNCHANGED <<chain, storeFence, recovered, fence>>
      BY <1>5 DEF UnitOfWork, Stage, Build, Prepare, AppendCommit, LandedDespite, Settle, Abandon,
         Discard, AcknowledgeRefusals, Commit, Finish, AbandonUnit, Close, callers
    <2>2. pc[p] \in Past \ {"record"}
      BY <1>5 DEF UnitOfWork, Stage, Build, Prepare, AppendCommit, LandedDespite, Settle, Abandon,
         Discard, AcknowledgeRefusals, Commit, Finish, AbandonUnit, Close, Past, PCs
    <2>3. pc'[p] # "record"
      BY <1>t, <1>5, <2>2 DEF UnitOfWork, Stage, Build, Prepare, AppendCommit, LandedDespite,
         Settle, Abandon, Discard, AcknowledgeRefusals, Commit, Finish, AbandonUnit, Close,
         Refused, Throws, GiveUp, Goto, ProcType
    <2>4. Level(p) /\ Acts(p)
      BY <1>5, <2>1, <2>2, <2>3 DEF Level, Acts
    <2> QED
      BY <1>o, <2>1, <2>4
  <1>6. CASE PowerCut
    <2>1. \A q \in Proc : Level(q)
      BY <1>6, <1>k, CutShape DEF Level, Past
    <2> QED
      BY <1>6, <2>1 DEF PowerCut
  <1> QED
    BY <1>1, <1>2, <1>3, <1>4, <1>5, <1>6 DEF Next, Lease

\* The fences of store and outbox follow the raises.
LEMMA FencesStep ==
  ASSUME TypeInv, PromptRecord, Covered, \A q \in Proc : Recorded(q), [Next]_vars
  PROVE  Covered' /\ \A q \in Proc : Recorded(q)'
  <1>t. /\ ProcType /\ StoreType /\ storeFence \in Nat /\ recovered \in Nat
        /\ chain.last \in Nat /\ chain.start \in Nat /\ chain.floor \in Nat /\ chain.note \in Nat
        /\ \A q \in Proc : fence[q] \in Nat
    BY DEF TypeInv, Types, ProcType, StoreType
  <1>p. "record" \in Past
    BY DEF Past, PCs
  <1>1. CASE UNCHANGED <<chain, storeFence, recovered>> /\ \A q \in Proc : Level(q)
    <2>1. Covered'
      BY <1>1 DEF Covered
    <2>2. ASSUME NEW q \in Proc PROVE Recorded(q)'
      BY <1>p, <1>1, <2>2 DEF Level, Recorded
    <2> QED
      BY <2>1, <2>2
  <1>2. ASSUME NEW p \in Proc, NotePendingFence(p)
        PROVE  Covered' /\ \A q \in Proc : Recorded(q)'
    <2>1. /\ UNCHANGED <<storeFence, recovered, fence>>
          /\ chain'.last = (IF Joins THEN chain.note ELSE chain.last)
          /\ chain'.start = (IF Joins /\ chain.last = 0 THEN chain.note ELSE chain.start)
          /\ chain'.floor = chain.floor
      BY <1>t, <1>2 DEF NotePendingFence, StoreType, callers
    <2>2. chain.last <= chain'.last /\ chain'.last \in Nat /\ chain'.start \in Nat
      BY <1>t, <2>1 DEF Joins
    <2>3. recovered = 0 \/ chain'.start = chain.start
      BY <1>t, <2>1 DEF Covered
    <2>4. Covered'
      BY <1>t, <2>1, <2>2, <2>3 DEF Covered
    <2>5. \A q \in Proc : pc'[q] \in Past => pc[q] = pc'[q]
      BY <1>t, <1>2 DEF NotePendingFence, Goto, ProcType, Past
    <2>6. ASSUME NEW q \in Proc PROVE Recorded(q)'
      BY <1>t, <1>p, <2>1, <2>2, <2>5 DEF Recorded
    <2> QED
      BY <2>4, <2>6
  <1>3. ASSUME NEW p \in Proc, RaiseFence(p)
        PROVE  Covered' /\ \A q \in Proc : Recorded(q)'
    <2>1. /\ UNCHANGED <<chain, recovered, fence>> /\ \A q \in Proc : pc[q] # "record"
          /\ storeFence <= storeFence' /\ storeFence' \in Nat
      BY <1>t, <1>3 DEF RaiseFence, callers
    <2>2. \A q \in Proc : q # p => pc'[q] = pc[q]
      BY <1>t, <1>3 DEF RaiseFence, Goto, ProcType
    <2>3. pc'[p] \notin Past \/ (pc'[p] = "record" /\ storeFence' = fence[p])
      BY <1>t, <1>3 DEF RaiseFence, Goto, ProcType, Past
    <2>4. Covered'
      BY <1>t, <2>1 DEF Covered
    <2>5. ASSUME NEW q \in Proc, q # p PROVE Recorded(q)'
      BY <1>t, <2>1, <2>2, <2>5 DEF Recorded, Past
    <2>6. Recorded(p)'
      BY <1>t, <1>p, <2>1, <2>3 DEF Recorded
    <2> QED
      BY <2>4, <2>5, <2>6
  <1>4. ASSUME NEW p \in Proc, RecordFence(p)
        PROVE  Covered' /\ \A q \in Proc : Recorded(q)'
    <2>1. /\ UNCHANGED <<storeFence, recovered, fence>> /\ fence[p] = storeFence
          /\ chain' = DecideFenceChain(fence[p]) /\ pc[p] = "record" /\ pc'[p] = "list"
      BY <1>t, <1>4 DEF RecordFence, Recorded, Goto, ProcType, callers
    <2>2. chain'.last = fence[p]
      BY <2>1 DEF DecideFenceChain
    <2>3. \/ chain'.start = fence[p]
          \/ chain'.start = chain.start /\ chain'.floor = chain.floor
      BY <1>t, <2>1 DEF DecideFenceChain
    <2>4. Covered'
      BY <1>t, <2>1, <2>2, <2>3 DEF Covered
    <2>5. \A q \in Proc : q # p => pc'[q] = pc[q]
      BY <1>t, <1>4 DEF RecordFence, Goto, ProcType
    <2>6. ASSUME NEW q \in Proc, q # p PROVE Recorded(q)'
      BY <1>t, <2>1, <2>2, <2>5, <2>6 DEF Recorded, Past
    <2>7. Recorded(p)'
      BY <1>t, <2>1, <2>2 DEF Recorded, Past
    <2> QED
      BY <2>4, <2>6, <2>7
  <1>5. ASSUME NEW p \in Proc, RaiseFloor(p)
        PROVE  Covered' /\ \A q \in Proc : Recorded(q)'
    <2>1. /\ UNCHANGED <<storeFence, fence>> /\ pc[p] \in Past \ {"record"}
          /\ recovered' = (IF recovered > fence[p] THEN recovered ELSE fence[p])
          /\ chain' = Raised(p)
      BY <1>5 DEF RaiseFloor, Past, PCs
    <2>2. fence[p] <= storeFence /\ fence[p] <= chain.last
      BY <2>1 DEF Recorded
    <2>3. /\ chain'.last = chain.last /\ chain'.start = chain.start
          /\ chain'.floor = (IF chain.floor < fence[p] THEN fence[p] ELSE chain.floor)
      BY <1>t, <2>1, <2>2 DEF Raised, StoreType
    <2>4. Covered'
      BY <1>t, <2>1, <2>2, <2>3 DEF Covered
    <2>5. \A q \in Proc : q # p => pc'[q] = pc[q]
      BY <1>t, <1>5 DEF RaiseFloor, Goto, ProcType
    <2>6. pc'[p] # "record"
      BY <1>t, <1>5 DEF RaiseFloor, Goto, ProcType
    <2>7. ASSUME NEW q \in Proc PROVE Recorded(q)'
      BY <1>t, <2>1, <2>2, <2>3, <2>5, <2>6 DEF Recorded, Past
    <2> QED
      BY <2>4, <2>7
  <1> QED
    BY <1>1, <1>2, <1>3, <1>4, <1>5, FenceFrame

\* A process that began keeps its fence.
LEMMA FenceStays ==
  ASSUME TypeInv, [Next]_vars, NEW q \in Proc, pc[q] # "idle"
  PROVE  fence'[q] = fence[q] /\ pc'[q] # "idle"
  <1>1. fence[q] # 0 /\ ProcType
    BY DEF TypeInv, Took, Types
  <1>2. fence'[q] = fence[q]
    <2>1. CASE \E p \in Proc : TakeLease(p)
      BY <1>1, <2>1 DEF TakeLease, ProcType
    <2>2. CASE ~\E p \in Proc : TakeLease(p)
      <3>1. ASSUME NEW p \in Proc, Lease(p) \/ Recovery(p) \/ Crash(p) PROVE UNCHANGED fence
        BY <2>2, <3>1 DEF Lease, NotePendingFence, RaiseFence, RecordFence, Recovery, List,
           MarkLeft, RecoverSettle, RecoverDrop, RecoverSend, RaiseFloor, Crash
      <3>2. ASSUME NEW p \in Writer, UnitOfWork(p) PROVE UNCHANGED fence
        BY <3>2 DEF UnitOfWork, Stage, Build, Prepare, AppendCommit, LandedDespite, Settle,
           Abandon, Discard, AcknowledgeRefusals, Commit, Finish, AbandonUnit, Close
      <3> QED
        BY <3>1, <3>2 DEF Next, PowerCut, vars
    <2> QED
      BY <2>1, <2>2
  <1>3. Took(q)'
    BY TypeInvStep DEF TypeInv
  <1> QED
    BY <1>1, <1>2, <1>3 DEF Took

\* Entries carry the fence of their process.
LEMMA EntryFenceStep ==
  ASSUME UnitInv, EntryFence, [Next]_vars
  PROVE  EntryFence'
  <1>t. TypeInv /\ DiskType /\ ProcType
    BY DEF UnitInv, TypeInv, Types
  <1>u. DiskType'
    BY <1>t, TypeInvStep DEF TypeInv, Types
  <1>1. ASSUME NEW e \in EntryType, e.fence = fence[e.txn[1]] PROVE e.fence = fence'[e.txn[1]]
    <2>1. e.txn[1] \in Proc /\ e.fence # 0
      BY FieldShape, TxnShape
    <2>2. pc[e.txn[1]] # "idle"
      BY <1>t, <1>1, <2>1 DEF TypeInv, Took
    <2> QED
      BY <1>t, <1>1, <2>1, <2>2, FenceStays
  <1>2. ASSUME NEW e \in (outbox \cup unsynced)' PROVE e.fence = fence'[e.txn[1]]
    <2>0. e \in EntryType
      BY <1>u DEF DiskType
    <2>1. CASE \E d \in outbox : SameEntry(e, d)
      BY <1>1, <2>0, <2>1 DEF SameEntry, EntryFence
    <2>2. CASE e \in outbox \cup unsynced
      BY <1>1, <2>0, <2>2 DEF EntryFence
    <2>3. ASSUME NEW p \in Writer, Prepare(p), e.txn = <<p, NextGroup(p)>>, e.fence = fence[p]
          PROVE  e.fence = fence'[e.txn[1]]
      BY <1>1, <2>0, <2>3
    <2> QED
      BY <1>2, <2>1, <2>2, <2>3, EntryStep
  <1> QED
    BY <1>2 DEF EntryFence

\* What a recovery leaves is marked in its next step.
LEMMA LeavesStep ==
  ASSUME TypeInv, LeavesAreMarked, [Next]_vars
  PROVE  LeavesAreMarked'
  <1>1. ASSUME NEW q \in Proc, NEW x \in plan'[q], x.do = "leave" PROVE pc'[q] = "leave"
    <2>1. Comes(q, x)
      BY PlanStep
    <2> QED
      BY <1>1, <2>1 DEF Comes, Listed, LeavesAreMarked
  <1> QED
    BY <1>1 DEF LeavesAreMarked

\* Completed recoveries are remembered, and commits are prepared late by Prepare.
LEMMA LateNow ==
  ASSUME TypeInv, [Next]_vars
  PROVE  /\ recovered <= recovered'
         /\ \/ late' \subseteq late
            \/ \E p \in Writer :
                  /\ Prepare(p) /\ recovered > fence[p]
                  /\ \A t \in late' : t \in late \/ t = <<p, NextGroup(p)>>
                  /\ \A e \in outbox' : e.txn = <<p, NextGroup(p)>> => ~e.left
  <1>t. ProcType /\ recovered \in Nat
    BY DEF TypeInv, Types, StoreType
  <1>1. CASE UNCHANGED vars
    BY <1>t, <1>1 DEF vars, callers
  <1>2. ASSUME NEW p \in Proc, Lease(p) \/ Recovery(p) \/ Crash(p)
        PROVE  recovered <= recovered' /\ late' = late
    <2>1. CASE RaiseFloor(p)
      BY <1>t, <2>1 DEF RaiseFloor, ProcType
    <2>2. CASE ~RaiseFloor(p)
      <3>1. UNCHANGED <<recovered, late>>
        BY <1>2, <2>2 DEF Lease, TakeLease, NotePendingFence, RaiseFence, RecordFence, Recovery,
           List, MarkLeft, RecoverSettle, RecoverDrop, RecoverSend, Crash, callers
      <3> QED
        BY <1>t, <3>1
    <2> QED
      BY <2>1, <2>2
  <1>3. ASSUME NEW p \in Writer, UnitOfWork(p), ~Prepare(p) PROVE UNCHANGED <<recovered, late>>
    BY <1>3 DEF UnitOfWork, Stage, Build, AppendCommit, LandedDespite, Settle, Abandon,
       Discard, AcknowledgeRefusals, Commit, Finish, AbandonUnit, Close, callers
  <1>4. ASSUME NEW p \in Writer, Prepare(p)
        PROVE  /\ UNCHANGED recovered
               /\ \/ UNCHANGED late
                  \/ /\ recovered > fence[p]
                     /\ \A t \in late' : t \in late \/ t = <<p, NextGroup(p)>>
                     /\ \A e \in outbox' : e.txn = <<p, NextGroup(p)>> => ~e.left
    BY <1>4, PrepareShape DEF Prepare
  <1>5. CASE PowerCut
    BY <1>t, <1>5 DEF PowerCut
  <1>6. recovered <= recovered'
    BY <1>t, <1>1, <1>2, <1>3, <1>4, <1>5 DEF Next
  <1>7. late' = late \/ \E p \in Writer : Prepare(p)
    BY <1>1, <1>2, <1>3, <1>5 DEF Next, PowerCut, vars, callers
  <1>8. CASE \E p \in Writer : Prepare(p)
    <2>1. PICK p \in Writer : Prepare(p)
      BY <1>8
    <2> QED
      BY <1>4, <1>6, <2>1
  <1> QED
    BY <1>6, <1>7, <1>8

\* A commit that was prepared late stays overtaken.
LEMMA OvertakenStays ==
  ASSUME LateInv, [Next]_vars, NEW t \in Txn, fence[t[1]] < recovered, IsOvertaken(t), ~Landed(t)
  PROVE  IsOvertaken(t)'
  <1>t. /\ UnitInv /\ TypeInv /\ DiskType /\ ProcType /\ SettledHasLanded /\ EntryFence /\ Covered
        /\ t[1] \in Proc /\ recovered \in Nat /\ chain.start \in Nat /\ chain.floor \in Nat
        /\ fence[t[1]] \in Nat
    BY TxnShape DEF LateInv, UnitInv, TypeInv, Types, StoreType, ProcType
  <1>1. ASSUME NEW e \in outbox', e.txn = t PROVE ~e.left
    <2>1. CASE \E d \in outbox : SameEntry(e, d)
      <3>1. PICK d \in outbox : SameEntry(e, d)
        BY <2>1
      <3>2. ~d.left /\ d.txn = t
        BY <1>1, <3>1 DEF SameEntry, IsOvertaken
      <3>3. \A q \in Proc : \A x \in plan[q] : ~(x.do = "leave" /\ x.txn = t)
        BY DEF IsOvertaken
      <3> QED
        BY <3>1, <3>2, <3>3 DEF SameEntry
    <2>2. e \notin unsynced
      BY <1>t, <1>1 DEF SettledHasLanded
    <2> QED
      BY <1>t, <1>1, <2>1, <2>2, EntryStep
  <1>2. ASSUME NEW q \in Proc, NEW x \in plan'[q], x.txn = t PROVE x.do \notin {"send", "leave"}
    <2>1. ASSUME NEW e \in outbox, Listed(q, x, e) PROVE x.do \notin {"send", "leave"}
      <3>1. e.txn = t /\ e.fence = fence[t[1]] /\ ~e.left
        BY <1>t, <1>2, <2>1 DEF Listed, EntryFence, IsOvertaken
      <3>2. e.fence < chain.start \/ e.fence < chain.floor
        BY <1>t, <3>1 DEF Covered
      <3> QED
        BY <2>1, <3>1, <3>2 DEF Listed
    <2>2. Comes(q, x)
      BY <1>t, PlanStep
    <2> QED
      BY <1>2, <2>1, <2>2 DEF Comes, IsOvertaken
  <1> QED
    BY <1>1, <1>2 DEF IsOvertaken

\* The invariant of overtaken writers holds when recoveries can judge every process, no fence is
\* raised before the last one is recorded, and nothing is prepared before a listing is marked.
LEMMA LateInvHolds ==
  ASSUME Unjudged = {}, PromptRecord, PromptMark
  PROVE  Spec => []LateInv
  <1>1. Init => LateInv
    <2> SUFFICES ASSUME Init PROVE LateInv
      OBVIOUS
    <2>1. UnitInv
      BY UnitInvInit
    <2>2. SentIsGone /\ EntryFence /\ LeavesAreMarked /\ late = {}
      BY DEF Init, SentIsGone, EntryFence, LeavesAreMarked
    <2>3. Covered /\ \A p \in Proc : Recorded(p)
      BY DEF Init, Covered, Recorded, Past
    <2> QED
      BY <2>1, <2>2, <2>3 DEF LateInv
  <1>2. LateInv /\ [Next]_vars => LateInv'
    <2> SUFFICES ASSUME LateInv, [Next]_vars PROVE LateInv'
      OBVIOUS
    <2>t. /\ UnitInv /\ TypeInv /\ SentIsGone /\ EntryFence /\ LeavesAreMarked /\ Covered
          /\ \A p \in Proc : Recorded(p)
          /\ late \subseteq Txn /\ ProcType /\ recovered \in Nat
      BY DEF LateInv, UnitInv, TypeInv, Types, UnitType, StoreType
    <2>1. UnitInv' /\ SentIsGone' /\ EntryFence' /\ LeavesAreMarked'
      BY <2>t, UnitInvStep, SentStep, EntryFenceStep, LeavesStep
    <2>2. Covered' /\ \A p \in Proc : Recorded(p)'
      BY <2>t, FencesStep
    <2>u. recovered' \in Nat /\ late' \subseteq Txn
      BY <2>1 DEF UnitInv, TypeInv, Types, UnitType, StoreType
    <2>3. ASSUME NEW t \in late'
          PROVE  /\ pc'[t[1]] # "idle" /\ fence'[t[1]] < recovered'
                 /\ Landed(t)' \/ IsOvertaken(t)'
      <3>0. t \in Txn /\ t[1] \in Proc /\ fence[t[1]] \in Nat
        BY <2>t, <2>u, TxnShape DEF ProcType
      <3>1. CASE t \in late
        <4>1. /\ pc[t[1]] # "idle" /\ fence[t[1]] < recovered
              /\ Landed(t) \/ IsOvertaken(t)
          BY <3>1 DEF LateInv
        <4>2. pc'[t[1]] # "idle" /\ fence'[t[1]] < recovered'
          BY <2>t, <2>u, <3>0, <4>1, FenceStays, LateNow
        <4>3. Landed(t)' \/ IsOvertaken(t)'
          BY <2>t, <3>0, <4>1, LandedStays, OvertakenStays
        <4> QED
          BY <4>2, <4>3
      <3>2. CASE t \notin late
        <4>1. PICK p \in Writer :
                 /\ Prepare(p) /\ recovered > fence[p] /\ t = <<p, NextGroup(p)>>
                 /\ \A e \in outbox' : e.txn = <<p, NextGroup(p)>> => ~e.left
          BY <2>t, <2>3, <3>2, LateNow
        <4>2. /\ t[1] = p /\ p \in Proc /\ pc[p] = "prepare" /\ UNCHANGED plan
              /\ \A q \in Proc : pc[q] # "leave"
          BY <4>1 DEF Prepare
        <4>3. pc'[t[1]] # "idle" /\ fence'[t[1]] < recovered'
          BY <2>t, <2>u, <3>0, <4>1, <4>2, FenceStays, LateNow
        <4>4. ASSUME NEW q \in Proc, NEW x \in plan'[q], x.txn = t
              PROVE  x.do \notin {"send", "leave"}
          BY <2>t, <4>2, <4>4 DEF SentIsGone, Gone, LeavesAreMarked
        <4>5. IsOvertaken(t)'
          BY <4>1, <4>4 DEF IsOvertaken
        <4> QED
          BY <4>3, <4>5
      <3> QED
        BY <3>1, <3>2
    <2> QED
      BY <2>1, <2>2, <2>3 DEF LateInv
  <1> QED
    BY <1>1, <1>2, PTL DEF Spec

\* OvertakenNeverLands, for any processes and faults: when the liveness of every process can be
\* judged, and raises and listings are not overtaken before they are recorded and marked, what a
\* writer prepares after a newer one completed its recovery is never landed, by whomever.
THEOREM OvertakenStaysOut ==
  ASSUME Unjudged = {}, PromptRecord, PromptMark
  PROVE  Spec => OvertakenNeverLands
  <1>1. LateInv /\ [Next]_vars => [\A t \in late : Landed(t)' => Landed(t)]_vars
    <2> SUFFICES ASSUME LateInv, [Next]_vars, NEW t \in late, Landed(t)', ~Landed(t) PROVE FALSE
      OBVIOUS
    <2>s. /\ TypeInv /\ t \in Txn /\ IsOvertaken(t) /\ Covered /\ ProcType
          /\ fence[t[1]] < recovered /\ recovered \in Nat /\ storeFence \in Nat
      BY DEF LateInv, UnitInv, TypeInv, Types, UnitType, StoreType
    <2>t. /\ TypeInv /\ t \in Txn /\ IsOvertaken(t) /\ Covered /\ fence[t[1]] \in Nat
          /\ fence[t[1]] < recovered /\ recovered \in Nat /\ storeFence \in Nat
      BY <2>s, TxnShape DEF ProcType
    <2>1. ASSUME NEW p \in Writer, t = <<p, NextGroup(p)>>, ~(fence[p] < storeFence) PROVE FALSE
      <3>1. t[1] = p
        BY <2>1
      <3> QED
        BY <2>t, <2>1, <3>1 DEF Covered
    <2>2. ASSUME NEW p \in Proc, NEW x \in plan[p], x.do = "send", x.txn = t PROVE FALSE
      BY <2>t, <2>2 DEF IsOvertaken
    <2> QED
      BY <2>t, <2>1, <2>2, LandsNow
  <1> QED
    BY <1>1, LateInvHolds, PTL DEF Spec, OvertakenNeverLands

=============================================================================
