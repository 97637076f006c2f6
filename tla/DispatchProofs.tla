----------------------------- MODULE DispatchProofs -----------------------------
(***************************************************************************)
(* Proofs about Dispatch for any steps, workers, workload and bounds.       *)
(***************************************************************************)
EXTENDS Dispatch, FiniteSetTheorems, TLAPS

USE WorkloadAssumption, NoOneAssumption, BoundsAssumption

-----------------------------------------------------------------------------
(* Types. *)

PoolType ==
    /\ pool \in [Worker -> {"out", "up", "down"}]
    /\ status \in [Worker -> {"free", "draining"}] /\ leaving \subseteq Worker
    /\ changes \in 0..MaxChanges

SlotType == active \in [Worker -> SUBSET Step] /\ reserved \in [Worker -> Int]

Place == {"start", "group", "queue", "frame", "declare", "dispatch", "busy", "sent", "runs", "fate", "settle",
          "ended"}

StepType ==
    /\ pc \in [Step -> Place] /\ at \in [Step -> Worker \cup {NoOne}]
    /\ tries \in [Step -> 0..(MaxChanges + 1)]
    /\ then \in [Step -> {"none", "ok", "error", "cancelled", "lost", "refused"}]

CallType == queued \subseteq Step /\ aborted \subseteq Step /\ had \subseteq Step

GroupType == pinned \subseteq Step /\ pin \in Worker \cup {NoOne} /\ first \in Step \cup {NoOne}

Transitions == {"mark", "completed", "failed", "expired"}

RecordType ==
    /\ lease \in [Id -> {"none", "active", "completed", "failed", "expired"}]
    /\ marked \subseteq Id /\ unmarked \subseteq Id /\ unended \subseteq Id
    /\ chain \in [Id -> Seq(Transitions)]

Requests == [1..MaxWrites -> {"none", "open", "mark", "persist", "done", "failed"}]

PlaneType ==
    /\ noted \subseteq Id /\ request \in [Id -> Requests] /\ wrote \subseteq Id
    /\ ran \in [Id -> Worker \cup {NoOne}]

\* TypeOK without the bound on the reservations, which needs SlotShape.
Types ==
    /\ asked \in Workload
    /\ PoolType /\ SlotType /\ StepType /\ CallType /\ GroupType /\ RecordType /\ PlaneType

(* Slots. *)

\* Steps that hold a reservation of w.
Placed(w) == {s \in Step : pc[s] \in {"frame", "declare", "dispatch"} /\ at[s] = w}

\* A reservation is of one step, and what a worker has been given is within its capacity.
SlotShape(w) ==
    /\ IsFiniteSet(active[w]) /\ IsFiniteSet(Placed(w))
    /\ reserved[w] = Cardinality(Placed(w))
    /\ reserved[w] + Cardinality(active[w]) <= Capacity

\* A step that was placed has a worker and one that declares its writes a lease; the pin is a
\* worker while steps are bound to it.
PlaceShape ==
    /\ \A s \in Step :
          pc[s] \in {"frame", "declare", "dispatch", "busy", "sent", "runs", "fate", "settle"} =>
              at[s] \in Worker
    /\ \A s \in Step : pc[s] = "declare" => tries[s] \in Attempt
    /\ pinned # {} => pin \in Worker

SlotInv == Types /\ PlaceShape /\ \A w \in Worker : SlotShape(w)

(* Leases. *)

OnlyMarks(c) == \A i \in DOMAIN c : c[i] = "mark"

Live == {"declare", "dispatch", "busy", "sent", "runs", "fate"}

\* The lease of the attempt under way is active until its end is on the chain, and has ended
\* before the step goes on, unless the ledger threw when it was to end it.
LeaseShape(s) ==
    /\ pc[s] \in {"start", "group"} => tries[s] = 0
    /\ pc[s] \in Live \cup {"settle"} => tries[s] >= 1
    /\ pc[s] \in Live => lease[Current(s)] = "active" /\ OnlyMarks(chain[Current(s)])
    /\ pc[s] = "settle" =>
          lease[Current(s)] # "active" \/ ~OnlyMarks(chain[Current(s)]) \/ Current(s) \in unended
    /\ pc[s] \in {"queue", "frame", "ended"} /\ tries[s] >= 1 =>
          lease[Current(s)] # "active" \/ Current(s) \in unended \/ (pc[s] = "ended" /\ s \in aborted)

\* Nothing is known of an attempt before it begins; one that another followed is over.
AttemptShape(d) ==
    /\ d[2] > tries[d[1]] =>
          /\ lease[d] = "none" /\ chain[d] = <<>> /\ ran[d] = NoOne
          /\ d \notin wrote /\ d \notin marked /\ d \notin noted
          /\ \A i \in 1..MaxWrites : request[d][i] = "none"
    /\ d[2] < tries[d[1]] => lease[d] # "active" \/ d \in unended

LeaseInv ==
    /\ SlotInv
    /\ \A s \in Step : LeaseShape(s)
    /\ \A d \in Id : AttemptShape(d)

(* The group. *)

\* A step of the group that is placed is bound to the pin or is the first, one of them; a step
\* that completes ran where it was placed.
MemberShape(s) ==
    /\ s \in Group /\ pc[s] \notin {"start", "group", "ended"} => s \in pinned \/ first = s
    /\ pc[s] \in {"start", "group"} => at[s] = NoOne
    /\ s \in pinned => at[s] \in {NoOne, pin}
    /\ pc[s] = "runs" \/ (pc[s] = "settle" /\ then[s] = "ok") => ran[Current(s)] = at[s]

Completes(d) == lease[d] = "completed" \/ \E i \in DOMAIN chain[d] : chain[d][i] = "completed"

\* A completed attempt of the group ran on the pin, unless its step has yet to go on.
CompletedShape(d) ==
    Completes(d) =>
        \/ d = Current(d[1]) /\ pc[d[1]] = "settle" /\ then[d[1]] = "ok"
        \/ d[1] \in Group => pin # NoOne /\ ran[d] = pin

\* While the group waits for its first step it has no pin.
GroupInv ==
    /\ LeaseInv
    /\ first # NoOne => pin = NoOne
    /\ \A s \in Step : MemberShape(s)
    /\ \A d \in Id : CompletedShape(d)

(* Writes. *)

Told(d) == d \in marked \/ d \in unmarked

\* The requests of an attempt come one after the other, and each waits for the mark.
WriteShape(d) ==
    /\ \A i, j \in 1..MaxWrites : i < j /\ request[d][j] # "none" => request[d][i] \in {"done", "failed"}
    /\ \A i \in 1..MaxWrites :
          /\ request[d][i] = "persist" => Told(d)
          /\ request[d][i] = "open" /\ d \in noted => Told(d)
    /\ d \in wrote => Told(d)
    /\ d[2] = tries[d[1]] /\ pc[d[1]] \in Live /\ d \in noted =>
          Told(d) \/ \E i \in 1..MaxWrites : request[d][i] = "mark"
    /\ d[2] = tries[d[1]] /\ pc[d[1]] = "declare" => \A i \in 1..MaxWrites : request[d][i] = "none"

WriteInv == LeaseInv /\ \A d \in Id : WriteShape(d)

\* Nothing of the attempt was written, and nothing can be.
Clean(d) ==
    d \notin wrote /\ \A i \in 1..MaxWrites : request[d][i] \in {"none", "failed"}

\* An attempt that another follows, or may follow, is clean.
CleanShape(d) ==
    /\ d[2] < tries[d[1]] => Clean(d)
    /\ d[2] = tries[d[1]] =>
          /\ pc[d[1]] \in {"queue", "frame", "declare", "dispatch", "busy", "sent"} => Clean(d)
          /\ pc[d[1]] = "fate" /\ d[1] \notin had => Clean(d)
          /\ pc[d[1]] = "settle" /\ then[d[1]] = "refused" => Clean(d)
          /\ pc[d[1]] = "settle" /\ then[d[1]] = "lost" /\ d[1] \notin had => Clean(d)
          /\ pc[d[1]] = "runs" /\ d \notin noted =>
                d \notin wrote /\ \A i \in 1..MaxWrites : request[d][i] \in {"none", "failed", "open"}

CleanInv == LeaseInv /\ \A d \in Id : CleanShape(d)


-----------------------------------------------------------------------------
(* Types. *)

\* The variables start with their types.
LEMMA TypesInit == Init => Types
  <1> SUFFICES ASSUME Init PROVE Types
    OBVIOUS
  <1>1. PoolType /\ SlotType /\ StepType /\ CallType /\ GroupType
    BY DEF Init, PoolType, SlotType, StepType, Place, CallType, GroupType
  <1>2. RecordType /\ PlaneType
    <2>1. <<>> \in Seq(Transitions) /\ [i \in 1..MaxWrites |-> "none"] \in Requests
      BY DEF Requests
    <2> QED
      BY <2>1 DEF Init, RecordType, PlaneType
  <1> QED
    BY <1>1, <1>2 DEF Init, Types

\* A transition joins the chain of a lease.
LEMMA ChainGrows ==
  ASSUME RecordType, NEW d, NEW t \in Transitions, chain' = [chain EXCEPT ![d] = Append(chain[d], t)]
  PROVE  chain' \in [Id -> Seq(Transitions)]
  <1>1. CASE d \in Id
    <2>1. chain[d] \in Seq(Transitions)
      BY <1>1 DEF RecordType
    <2>2. Append(chain[d], t) \in Seq(Transitions)
      BY <2>1
    <2> QED
      BY <1>1, <2>2 DEF RecordType
  <1>2. CASE d \notin Id
    BY <1>2 DEF RecordType
  <1> QED
    BY <1>1, <1>2

\* A reservation that is given back leaves an integer.
LEMMA Unreserved ==
  ASSUME SlotType, NEW s, Unreserve(s)
  PROVE  reserved' \in [Worker -> Int]
  <1>1. CASE at[s] \in Worker
    <2>1. reserved[at[s]] - 1 \in Int
      BY <1>1 DEF SlotType
    <2> QED
      BY <1>1, <2>1 DEF SlotType, Unreserve
  <1>2. CASE at[s] \notin Worker
    BY <1>2 DEF SlotType, Unreserve
  <1> QED
    BY <1>1, <1>2

\* The workload of a behaviour never changes.
LEMMA AskedKept == [Next]_vars => asked' = asked
  <1> SUFFICES ASSUME [Next]_vars PROVE asked' = asked
    OBVIOUS
  <1>1. ASSUME NEW s \in Step, Execute(s) \/ Cancel(s) \/ FrameFails(s) PROVE asked' = asked
    BY <1>1
    DEF Execute, Start, Reserve, Queue, GiveUp, TakeLease, MarkDeclared, WorkerGone, Register,
        Send, Accept, Fate, Resume, Result, Cancel, FrameFails
  <1>2. ASSUME NEW s \in Step, NEW i \in 1..MaxWrites, OpenWrite(s, i) PROVE asked' = asked
    BY <1>2 DEF OpenWrite
  <1>3. ASSUME NEW d \in Id, Writes(d) PROVE asked' = asked
    BY <1>3 DEF Writes, Transition, TransitionThrows, RecordWrite, Persist
  <1>4. ASSUME NEW w \in Worker, Changes(w) \/ GraceExpires(w) PROVE asked' = asked
    BY <1>4 DEF Changes, Disconnect, CutOff, Reconnect, Enroll, Drain, HandleDrain, GraceExpires
  <1>5. CASE UNCHANGED vars
    BY <1>5 DEF vars
  <1> QED
    BY <1>1, <1>2, <1>3, <1>4, <1>5 DEF Next

\* Every step of the specification keeps the types.
LEMMA TypesStep == Types /\ PlaceShape /\ [Next]_vars => Types'
  <1> SUFFICES ASSUME Types, PlaceShape, [Next]_vars PROVE Types'
    OBVIOUS
  <1>p. PoolType
    BY DEF Types
  <1>s. SlotType
    BY DEF Types
  <1>c. StepType
    BY DEF Types
  <1>q. CallType
    BY DEF Types
  <1>g. GroupType
    BY DEF Types
  <1>r. RecordType
    BY DEF Types
  <1>d. PlaneType
    BY DEF Types
  <1>a. asked \in Workload /\ asked' = asked
    BY AskedKept DEF Types
  <1> HIDE DEF Requests, Transitions
  <1>1. ASSUME NEW s \in Step, Execute(s) \/ Cancel(s) \/ FrameFails(s) PROVE Types'
  <2>1. CASE Start(s)
    <3>1. PoolType'
      BY <2>1, <1>p
      DEF Start, Goto, workers, group, step, records, plane, PoolType
    <3>2. SlotType'
      BY <2>1, <1>s
      DEF Start, Goto, workers, group, step, records, plane, SlotType
    <3>3. StepType'
      BY <2>1, <1>c
      DEF Start, Goto, workers, group, step, records, plane, StepType, Place
    <3>4. CallType'
      BY <2>1, <1>q
      DEF Start, Goto, workers, group, step, records, plane, CallType
    <3>5. GroupType'
      BY <2>1, <1>g, <1>c
      DEF Start, Goto, workers, group, step, records, plane, GroupType, StepType
    <3>6. RecordType'
      BY <2>1, <1>r, <1>c
      DEF Start, Goto, workers, group, step, records, plane, RecordType, Transitions
    <3>7. PlaneType'
      BY <2>1, <1>d, <1>c
      DEF Start, Goto, workers, group, step, records, plane, PlaneType
    <3> QED
      BY <1>a, <3>1, <3>2, <3>3, <3>4, <3>5, <3>6, <3>7 DEF Types
  <2>2. CASE Reserve(s)
    <3>1. PoolType'
      BY <2>2, <1>p
      DEF Reserve, Goto, workers, group, step, records, plane, PoolType
    <3>2. SlotType'
      <4>1. PICK w \in Worker : reserved' = [reserved EXCEPT ![w] = reserved[w] + 1]
        BY <2>2 DEF Reserve, Schedulable
      <4>2. reserved[w] + 1 \in Int /\ active' = active
        BY <2>2, <1>s DEF Reserve, SlotType
      <4> QED
        BY <4>1, <4>2, <1>s DEF SlotType
    <3>3. StepType'
      <4>1. PICK w \in Worker : at' = [at EXCEPT ![s] = w]
        BY <2>2 DEF Reserve, Schedulable
      <4> QED
        BY <2>2, <4>1, <1>c DEF Reserve, Goto, StepType, Place
    <3>4. CallType'
      BY <2>2, <1>q
      DEF Reserve, Goto, workers, group, step, records, plane, CallType
    <3>5. GroupType'
      BY <2>2, <1>g, <1>c
      DEF Reserve, Goto, workers, group, step, records, plane, GroupType, StepType
    <3>6. RecordType'
      BY <2>2, <1>r, <1>c
      DEF Reserve, Goto, workers, group, step, records, plane, RecordType, Transitions
    <3>7. PlaneType'
      BY <2>2, <1>d, <1>c
      DEF Reserve, Goto, workers, group, step, records, plane, PlaneType
    <3> QED
      BY <1>a, <3>1, <3>2, <3>3, <3>4, <3>5, <3>6, <3>7 DEF Types
  <2>3. CASE Queue(s)
    <3>1. PoolType'
      BY <2>3, <1>p
      DEF Queue, workers, group, step, records, plane, PoolType
    <3>2. SlotType'
      BY <2>3, <1>s
      DEF Queue, workers, group, step, records, plane, SlotType
    <3>3. StepType'
      BY <2>3, <1>c
      DEF Queue, workers, group, step, records, plane, StepType, Place
    <3>4. CallType'
      BY <2>3, <1>q
      DEF Queue, workers, group, step, records, plane, CallType
    <3>5. GroupType'
      BY <2>3, <1>g, <1>c
      DEF Queue, workers, group, step, records, plane, GroupType, StepType
    <3>6. RecordType'
      BY <2>3, <1>r, <1>c
      DEF Queue, workers, group, step, records, plane, RecordType, Transitions
    <3>7. PlaneType'
      BY <2>3, <1>d, <1>c
      DEF Queue, workers, group, step, records, plane, PlaneType
    <3> QED
      BY <1>a, <3>1, <3>2, <3>3, <3>4, <3>5, <3>6, <3>7 DEF Types
  <2>4. CASE GiveUp(s)
    <3>1. PoolType'
      BY <2>4, <1>p
      DEF GiveUp, Ends, SettleGroup, workers, group, step, records, plane, PoolType
    <3>2. SlotType'
      BY <2>4, <1>s
      DEF GiveUp, Ends, SettleGroup, workers, group, step, records, plane, SlotType
    <3>3. StepType'
      BY <2>4, <1>c
      DEF GiveUp, Ends, SettleGroup, workers, group, step, records, plane, StepType,
          Place
    <3>4. CallType'
      BY <2>4, <1>q
      DEF GiveUp, Ends, SettleGroup, workers, group, step, records, plane, CallType
    <3>5. GroupType'
      BY <2>4, <1>g, <1>c
      DEF GiveUp, Ends, SettleGroup, workers, group, step, records, plane, GroupType,
          StepType
    <3>6. RecordType'
      BY <2>4, <1>r, <1>c
      DEF GiveUp, Ends, SettleGroup, workers, group, step, records, plane, RecordType,
          Transitions
    <3>7. PlaneType'
      BY <2>4, <1>d, <1>c
      DEF GiveUp, Ends, SettleGroup, workers, group, step, records, plane, PlaneType
    <3> QED
      BY <1>a, <3>1, <3>2, <3>3, <3>4, <3>5, <3>6, <3>7 DEF Types
  <2>5. CASE TakeLease(s)
    <3>1. PoolType'
      BY <2>5, <1>p
      DEF TakeLease, Goto, workers, group, step, records, plane, PoolType
    <3>2. SlotType'
      BY <2>5, <1>s
      DEF TakeLease, Goto, workers, group, step, records, plane, SlotType
    <3>3. StepType'
      <4>1. tries[s] + 1 \in 0..(MaxChanges + 1)
        BY <2>5 DEF TakeLease, Attempt
      <4> QED
        BY <2>5, <4>1, <1>c DEF TakeLease, Goto, StepType, Place
    <3>4. CallType'
      BY <2>5, <1>q
      DEF TakeLease, Goto, workers, group, step, records, plane, CallType
    <3>5. GroupType'
      BY <2>5, <1>g, <1>c
      DEF TakeLease, Goto, workers, group, step, records, plane, GroupType, StepType
    <3>6. RecordType'
      BY <2>5, <1>r, <1>c DEF TakeLease, RecordType, Id
    <3>7. PlaneType'
      BY <2>5, <1>d DEF TakeLease, plane, PlaneType
    <3> QED
      BY <1>a, <3>1, <3>2, <3>3, <3>4, <3>5, <3>6, <3>7 DEF Types
  <2>6. CASE WorkerGone(s)
    <3>1. PoolType'
      BY <2>6, <1>p
      DEF WorkerGone, Unreserve, Ends, SettleGroup, Reschedules, Goto, workers, group,
          step, records, plane, PoolType
    <3>2. SlotType'
      BY <2>6, <1>s, Unreserved DEF WorkerGone, SlotType
    <3>3. StepType'
      BY <2>6, <1>c
      DEF WorkerGone, Unreserve, Ends, SettleGroup, Reschedules, Goto, workers, group,
          step, records, plane, StepType, Place
    <3>4. CallType'
      BY <2>6, <1>q
      DEF WorkerGone, Unreserve, Ends, SettleGroup, Reschedules, Goto, workers, group,
          step, records, plane, CallType
    <3>5. GroupType'
      BY <2>6, <1>g, <1>c
      DEF WorkerGone, Unreserve, Ends, SettleGroup, Reschedules, Goto, workers, group,
          step, records, plane, GroupType, StepType
    <3>6. RecordType'
      BY <2>6, <1>r, <1>c
      DEF WorkerGone, Unreserve, Ends, SettleGroup, Reschedules, Goto, workers, group,
          step, records, plane, RecordType, Transitions
    <3>7. PlaneType'
      BY <2>6, <1>d, <1>c
      DEF WorkerGone, Unreserve, Ends, SettleGroup, Reschedules, Goto, workers, group,
          step, records, plane, PlaneType
    <3> QED
      BY <1>a, <3>1, <3>2, <3>3, <3>4, <3>5, <3>6, <3>7 DEF Types
  <2>7. CASE Register(s)
    <3>1. PoolType'
      BY <2>7, <1>p
      DEF Register, Unreserve, Refusal, EndLease, Goto, workers, group, step, records,
          plane, PoolType
    <3>2. SlotType'
      BY <2>7, <1>s, Unreserved DEF Register, Refusal, SlotType
    <3>3. StepType'
      BY <2>7, <1>c
      DEF Register, Unreserve, Refusal, EndLease, Goto, workers, group, step, records,
          plane, StepType, Place
    <3>4. CallType'
      BY <2>7, <1>q
      DEF Register, Unreserve, Refusal, EndLease, Goto, workers, group, step, records,
          plane, CallType
    <3>5. GroupType'
      BY <2>7, <1>g, <1>c
      DEF Register, Unreserve, Refusal, EndLease, Goto, workers, group, step, records,
          plane, GroupType, StepType
    <3>6. RecordType'
      <4>1. \/ UNCHANGED chain
            \/ \E t \in Transitions : chain' = [chain EXCEPT ![Current(s)] = Append(chain[Current(s)], t)]
        BY <2>7 DEF Register, Refusal, EndLease, Transitions
      <4>2. chain' \in [Id -> Seq(Transitions)]
        BY <4>1, <1>r, ChainGrows DEF RecordType
      <4> QED
        BY <2>7, <4>2, <1>r DEF Register, RecordType
    <3>7. PlaneType'
      BY <2>7, <1>d, <1>c
      DEF Register, Unreserve, Refusal, EndLease, Goto, workers, group, step, records,
          plane, PlaneType
    <3> QED
      BY <1>a, <3>1, <3>2, <3>3, <3>4, <3>5, <3>6, <3>7 DEF Types
  <2>8. CASE Send(s)
    <3>1. PoolType'
      BY <2>8, <1>p
      DEF Send, CallsClose, Unregistered, EndLease, Goto, workers, group, step, records,
          plane, PoolType
    <3>2. SlotType'
      BY <2>8, <1>s
      DEF Send, CallsClose, Unregistered, EndLease, Goto, workers, group, step, records,
          plane, SlotType
    <3>3. StepType'
      <4>1. UNCHANGED <<at, tries>> /\ (UNCHANGED then \/ \E l \in {"cancelled", "error"} : then' = [then EXCEPT ![s] = l])
        BY <2>8 DEF Send, EndLease
      <4>2. \E l \in Place : pc' = [pc EXCEPT ![s] = l] \/ pc' = [q \in Step |-> IF q = s THEN l ELSE pc[q]]
        BY <2>8 DEF Send, EndLease, CallsClose, Goto, Place
      <4>3. pc' \in [Step -> Place]
        BY <4>2, <1>c DEF StepType
      <4> QED
        BY <4>1, <4>3, <1>c DEF StepType
    <3>4. CallType'
      BY <2>8, <1>q
      DEF Send, CallsClose, Unregistered, EndLease, Goto, workers, group, step, records,
          plane, CallType
    <3>5. GroupType'
      BY <2>8, <1>g, <1>c
      DEF Send, CallsClose, Unregistered, EndLease, Goto, workers, group, step, records,
          plane, GroupType, StepType
    <3>6. RecordType'
      <4>1. \/ UNCHANGED chain
            \/ \E t \in Transitions : chain' = [chain EXCEPT ![Current(s)] = Append(chain[Current(s)], t)]
        BY <2>8 DEF Send, Refusal, EndLease, Transitions
      <4>2. chain' \in [Id -> Seq(Transitions)]
        BY <4>1, <1>r, ChainGrows DEF RecordType
      <4> QED
        BY <2>8, <4>2, <1>r DEF Send, RecordType
    <3>7. PlaneType'
      BY <2>8, <1>d, <1>c
      DEF Send, CallsClose, Unregistered, EndLease, Goto, workers, group, step, records,
          plane, PlaneType
    <3> QED
      BY <1>a, <3>1, <3>2, <3>3, <3>4, <3>5, <3>6, <3>7 DEF Types
  <2>9. CASE Accept(s)
    <3>1. PoolType'
      BY <2>9, <1>p
      DEF Accept, Refusal, EndLease, Unregistered, Goto, workers, group, step, records,
          plane, PoolType
    <3>2. SlotType'
      BY <2>9, <1>s
      DEF Accept, Refusal, EndLease, Unregistered, Goto, workers, group, step, records,
          plane, SlotType
    <3>3. StepType'
      BY <2>9, <1>c
      DEF Accept, Refusal, EndLease, Unregistered, Goto, workers, group, step, records,
          plane, StepType, Place
    <3>4. CallType'
      BY <2>9, <1>q
      DEF Accept, Refusal, EndLease, Unregistered, Goto, workers, group, step, records,
          plane, CallType
    <3>5. GroupType'
      BY <2>9, <1>g, <1>c
      DEF Accept, Refusal, EndLease, Unregistered, Goto, workers, group, step, records,
          plane, GroupType, StepType
    <3>6. RecordType'
      <4>1. \/ UNCHANGED chain
            \/ \E t \in Transitions : chain' = [chain EXCEPT ![Current(s)] = Append(chain[Current(s)], t)]
        BY <2>9 DEF Accept, Refusal, EndLease, Transitions
      <4>2. chain' \in [Id -> Seq(Transitions)]
        BY <4>1, <1>r, ChainGrows DEF RecordType
      <4> QED
        BY <2>9, <4>2, <1>r DEF Accept, RecordType
    <3>7. PlaneType'
      <4>1. at[s] \in Worker \cup {NoOne}
        BY <1>c DEF StepType
      <4>2. ran' = ran \/ ran' = [ran EXCEPT ![Current(s)] = at[s]]
        BY <2>9 DEF Accept
      <4>3. ran' \in [Id -> Worker \cup {NoOne}]
        BY <4>1, <4>2, <1>d DEF PlaneType
      <4> QED
        BY <2>9, <4>3, <1>d DEF Accept, PlaneType
    <3> QED
      BY <1>a, <3>1, <3>2, <3>3, <3>4, <3>5, <3>6, <3>7 DEF Types
  <2>10. CASE Fate(s)
    <3>1. PoolType'
      BY <2>10, <1>p
      DEF Fate, EndLease, Ends, SettleGroup, Forgotten, Goto, workers, group, step,
          records, plane, PoolType
    <3>2. SlotType'
      BY <2>10, <1>s
      DEF Fate, EndLease, Ends, SettleGroup, Forgotten, Goto, workers, group, step,
          records, plane, SlotType
    <3>3. StepType'
      BY <2>10, <1>c
      DEF Fate, EndLease, Ends, SettleGroup, Forgotten, Goto, workers, group, step,
          records, plane, StepType, Place
    <3>4. CallType'
      BY <2>10, <1>q
      DEF Fate, EndLease, Ends, SettleGroup, Forgotten, Goto, workers, group, step,
          records, plane, CallType
    <3>5. GroupType'
      BY <2>10, <1>g, <1>c
      DEF Fate, EndLease, Ends, SettleGroup, Forgotten, Goto, workers, group, step,
          records, plane, GroupType, StepType
    <3>6. RecordType'
      <4>1. \/ UNCHANGED chain
            \/ \E t \in Transitions : chain' = [chain EXCEPT ![Current(s)] = Append(chain[Current(s)], t)]
        BY <2>10 DEF Fate, Refusal, EndLease, Transitions
      <4>2. chain' \in [Id -> Seq(Transitions)]
        BY <4>1, <1>r, ChainGrows DEF RecordType
      <4> QED
        BY <2>10, <4>2, <1>r DEF Fate, RecordType
    <3>7. PlaneType'
      BY <2>10, <1>d, <1>c
      DEF Fate, EndLease, Ends, SettleGroup, Forgotten, Goto, workers, group, step,
          records, plane, PlaneType
    <3> QED
      BY <1>a, <3>1, <3>2, <3>3, <3>4, <3>5, <3>6, <3>7 DEF Types
  <2>11. CASE Resume(s)
    <3>1. PoolType'
      BY <2>11, <1>p
      DEF Resume, Forgotten, Lost, Ends, SettleGroup, Reschedules, Goto, workers, group,
          step, records, plane, PoolType
    <3>2. SlotType'
      BY <2>11, <1>s
      DEF Resume, Forgotten, Lost, Ends, SettleGroup, Reschedules, Goto, workers, group,
          step, records, plane, SlotType
    <3>3. StepType'
      BY <2>11, <1>c
      DEF Resume, Forgotten, Lost, Ends, SettleGroup, Reschedules, Goto, workers, group,
          step, records, plane, StepType, Place
    <3>4. CallType'
      BY <2>11, <1>q
      DEF Resume, Forgotten, Lost, Ends, SettleGroup, Reschedules, Goto, workers, group,
          step, records, plane, CallType
    <3>5. GroupType'
      BY <2>11, <1>g, <1>c
      DEF Resume, Forgotten, Lost, Ends, SettleGroup, Reschedules, Goto, workers, group,
          step, records, plane, GroupType, StepType
    <3>6. RecordType'
      BY <2>11, <1>r, <1>c
      DEF Resume, Forgotten, Lost, Ends, SettleGroup, Reschedules, Goto, workers, group,
          step, records, plane, RecordType, Transitions
    <3>7. PlaneType'
      BY <2>11, <1>d, <1>c
      DEF Resume, Forgotten, Lost, Ends, SettleGroup, Reschedules, Goto, workers, group,
          step, records, plane, PlaneType
    <3> QED
      BY <1>a, <3>1, <3>2, <3>3, <3>4, <3>5, <3>6, <3>7 DEF Types
  <2>12. CASE Result(s)
    <3>1. PoolType'
      BY <2>12, <1>p
      DEF Result, EndLease, Unregistered, Goto, workers, group, step, records, plane,
          PoolType
    <3>2. SlotType'
      BY <2>12, <1>s
      DEF Result, EndLease, Unregistered, Goto, workers, group, step, records, plane,
          SlotType
    <3>3. StepType'
      <4>1. /\ pc' = [pc EXCEPT ![s] = "settle"]
            /\ \E t \in {"ok", "error", "cancelled"} : then' = [then EXCEPT ![s] = t]
        BY <2>12 DEF Result, EndLease, Goto
      <4> QED
        BY <2>12, <4>1, <1>c DEF Result, StepType, Place
    <3>4. CallType'
      BY <2>12, <1>q
      DEF Result, EndLease, Unregistered, Goto, workers, group, step, records, plane,
          CallType
    <3>5. GroupType'
      BY <2>12, <1>g, <1>c
      DEF Result, EndLease, Unregistered, Goto, workers, group, step, records, plane,
          GroupType, StepType
    <3>6. RecordType'
      <4>1. \/ UNCHANGED chain
            \/ \E t \in Transitions : chain' = [chain EXCEPT ![Current(s)] = Append(chain[Current(s)], t)]
        BY <2>12 DEF Result, Refusal, EndLease, Transitions
      <4>2. chain' \in [Id -> Seq(Transitions)]
        BY <4>1, <1>r, ChainGrows DEF RecordType
      <4> QED
        BY <2>12, <4>2, <1>r DEF Result, RecordType
    <3>7. PlaneType'
      BY <2>12, <1>d, <1>c
      DEF Result, EndLease, Unregistered, Goto, workers, group, step, records, plane,
          PlaneType
    <3> QED
      BY <1>a, <3>1, <3>2, <3>3, <3>4, <3>5, <3>6, <3>7 DEF Types
  <2>13. CASE Cancel(s)
    <3>1. PoolType'
      BY <2>13, <1>p
      DEF Cancel, workers, group, step, records, plane, PoolType
    <3>2. SlotType'
      BY <2>13, <1>s
      DEF Cancel, workers, group, step, records, plane, SlotType
    <3>3. StepType'
      BY <2>13, <1>c
      DEF Cancel, workers, group, step, records, plane, StepType, Place
    <3>4. CallType'
      BY <2>13, <1>q
      DEF Cancel, workers, group, step, records, plane, CallType
    <3>5. GroupType'
      BY <2>13, <1>g, <1>c
      DEF Cancel, workers, group, step, records, plane, GroupType, StepType
    <3>6. RecordType'
      BY <2>13, <1>r, <1>c
      DEF Cancel, workers, group, step, records, plane, RecordType, Transitions
    <3>7. PlaneType'
      BY <2>13, <1>d, <1>c
      DEF Cancel, workers, group, step, records, plane, PlaneType
    <3> QED
      BY <1>a, <3>1, <3>2, <3>3, <3>4, <3>5, <3>6, <3>7 DEF Types
  <2>14. CASE FrameFails(s)
    <3>1. PoolType'
      BY <2>14, <1>p
      DEF FrameFails, Unreserve, Ends, SettleGroup, workers, group, step, records,
          plane, PoolType
    <3>2. SlotType'
      BY <2>14, <1>s, Unreserved DEF FrameFails, SlotType
    <3>3. StepType'
      <4>1. tries' \in [Step -> 0..(MaxChanges + 1)]
        <5>1. CASE UNCHANGED tries
          BY <5>1, <1>c DEF StepType
        <5>2. CASE tries[s] + 1 \in Attempt /\ tries' = [tries EXCEPT ![s] = tries[s] + 1]
          <6>1. tries[s] + 1 \in 0..(MaxChanges + 1)
            BY <5>2 DEF Attempt
          <6> QED
            BY <5>2, <6>1, <1>c DEF StepType
        <5> QED
          BY <2>14, <5>1, <5>2 DEF FrameFails
      <4>2. pc' \in [Step -> Place] /\ UNCHANGED <<at, then>>
        BY <2>14, <1>c DEF FrameFails, Ends, StepType, Place
      <4> QED
        BY <4>1, <4>2, <1>c DEF StepType
    <3>4. CallType'
      BY <2>14, <1>q
      DEF FrameFails, Unreserve, Ends, SettleGroup, workers, group, step, records,
          plane, CallType
    <3>5. GroupType'
      BY <2>14, <1>g, <1>c
      DEF FrameFails, Unreserve, Ends, SettleGroup, workers, group, step, records,
          plane, GroupType, StepType
    <3>6. RecordType'
      <4>1. UNCHANGED <<marked, unmarked, chain>>
        BY <2>14 DEF FrameFails
      <4>2. lease' \in [Id -> {"none", "active", "completed", "failed", "expired"}] /\ unended' \subseteq Id
        <5>1. CASE UNCHANGED <<lease, unended>>
          BY <5>1, <1>r DEF RecordType
        <5>2. CASE /\ tries[s] + 1 \in Attempt /\ lease' = [lease EXCEPT ![<<s, tries[s] + 1>>] = "active"]
                   /\ unended' = unended \cup {<<s, tries[s] + 1>>}
          <6>1. PICK e \in Id : lease' = [lease EXCEPT ![e] = "active"] /\ unended' = unended \cup {e}
            BY <5>2 DEF Id
          <6> QED
            BY <6>1, <1>r DEF RecordType
        <5> QED
          BY <2>14, <5>1, <5>2 DEF FrameFails
      <4> QED
        BY <4>1, <4>2, <1>r DEF RecordType
    <3>7. PlaneType'
      BY <2>14, <1>d, <1>c
      DEF FrameFails, Unreserve, Ends, SettleGroup, workers, group, step, records,
          plane, PlaneType
    <3> QED
      BY <1>a, <3>1, <3>2, <3>3, <3>4, <3>5, <3>6, <3>7 DEF Types
  <2>15. CASE MarkDeclared(s)
    <3>1. PoolType'
      BY <2>15, <1>p DEF MarkDeclared, PoolType
    <3>2. SlotType'
      <4>1. reserved' \in [Worker -> Int]
        BY <2>15, <1>s, Unreserved DEF MarkDeclared, SlotType
      <4> QED
        BY <2>15, <4>1, <1>s DEF MarkDeclared, SlotType
    <3>3. StepType'
      BY <2>15, <1>c DEF MarkDeclared, Goto, Ends, StepType, Place
    <3>4. CallType'
      BY <2>15, <1>q DEF MarkDeclared, Ends, CallType
    <3>5. GroupType'
      BY <2>15, <1>g, <1>c DEF MarkDeclared, Ends, SettleGroup, group, GroupType, StepType
    <3>k. marked' \cup unended' \cup noted' \subseteq Id
      <4>2. Current(s) \in Id
        BY <2>15 DEF MarkDeclared, PlaceShape, Current, Id
      <4> QED
        BY <2>15, <4>2, <1>r, <1>d DEF MarkDeclared, RecordType, PlaneType
    <3>6. RecordType'
      BY <2>15, <3>k, <1>r DEF MarkDeclared, RecordType
    <3>7. PlaneType'
      BY <2>15, <3>k, <1>d DEF MarkDeclared, PlaneType
    <3> QED
      BY <1>a, <3>1, <3>2, <3>3, <3>4, <3>5, <3>6, <3>7 DEF Types
  <2> QED
    BY <1>1, <2>1, <2>2, <2>3, <2>4, <2>5, <2>6, <2>7, <2>8, <2>9, <2>10, <2>11, <2>12,
       <2>13, <2>14, <2>15 DEF Execute
  <1>2. ASSUME NEW s \in Step, NEW i \in 1..MaxWrites, OpenWrite(s, i) PROVE Types'
    <2>1. request' \in [Id -> Requests]
      <3>1. CASE Current(s) \in Id
        <4>1. request[Current(s)] \in Requests
          BY <3>1, <1>d DEF PlaneType
        <4>2. [request[Current(s)] EXCEPT ![i] = "open"] \in Requests
          BY <4>1 DEF Requests
        <4> QED
          BY <1>2, <3>1, <4>2, <1>d DEF OpenWrite, PlaneType
      <3>2. CASE Current(s) \notin Id
        BY <1>2, <3>2, <1>d DEF OpenWrite, PlaneType
      <3> QED
        BY <3>1, <3>2
    <2> QED
      BY <1>2, <1>p, <1>s, <1>c, <1>q, <1>g, <1>r, <1>d, <1>a, <2>1
      DEF OpenWrite, workers, group, step, records, Types, PoolType, SlotType, StepType,
          CallType, GroupType, RecordType, PlaneType
  <1>3. ASSUME NEW d \in Id, Writes(d) PROVE Types'
    <2>r. request[d] \in Requests /\ chain[d] \in Seq(Transitions)
      BY <1>d, <1>r DEF PlaneType, RecordType
    <2>m. "mark" \in Transitions
      BY DEF Transitions
    <2>1. PoolType' /\ SlotType' /\ StepType' /\ CallType' /\ GroupType'
      <3>1. UNCHANGED <<workers, group, pc, tries, at, queued, aborted, had>>
        BY <1>3 DEF Writes, Transition, TransitionThrows, RecordWrite, Persist, step
      <3>2. \/ UNCHANGED then
            \/ then' = [then EXCEPT ![d[1]] = IF then[d[1]] = "lost" THEN "error" ELSE then[d[1]]]
        BY <1>3 DEF Writes, Transition, TransitionThrows, RecordWrite, Persist, step
      <3>3. StepType'
        BY <3>1, <3>2, <1>c DEF StepType
      <3> QED
        BY <3>1, <3>3, <1>p, <1>s, <1>q, <1>g DEF workers, group, PoolType, SlotType,
                                                  CallType, GroupType
    <2>2. CASE Transition(d) \/ TransitionThrows(d)
      <3>1. Tail(chain[d]) \in Seq(Transitions) /\ Head(chain[d]) \in Transitions
        <4>1. chain[d] # <<>>
          BY <2>2 DEF Transition, TransitionThrows
        <4> QED
          BY <4>1, <2>r
      <3>2. chain' = [chain EXCEPT ![d] = Tail(chain[d])] /\ (Applied(d) \/ UNCHANGED <<lease, marked>>)
        BY <2>2 DEF Transition, TransitionThrows
      <3>3. lease' \in [Id -> {"none", "active", "completed", "failed", "expired"}] /\ marked' \subseteq Id
        <4>1. CASE UNCHANGED <<lease, marked>>
          BY <4>1, <1>r DEF RecordType
        <4>2. CASE Applied(d)
          <5>1. \/ UNCHANGED lease
                \/ \E l \in {"completed", "failed", "expired"} : lease' = [lease EXCEPT ![d] = l]
            BY <3>1, <4>2, <1>r DEF Applied, RecordType, Transitions
          <5>2. marked' \subseteq marked \cup {d}
            BY <4>2 DEF Applied
          <5> QED
            BY <5>1, <5>2, <1>r DEF RecordType
        <4> QED
          BY <3>2, <4>1, <4>2
      <3>4. unmarked' \subseteq Id /\ unended' \subseteq Id
        <4>1. CASE Transition(d)
          BY <4>1, <1>r DEF Transition, RecordType
        <4>2. CASE TransitionThrows(d)
          <5>1. unmarked' \in {unmarked, unmarked \cup {d}} /\ unended' \in {unended, unended \cup {d}}
            BY <4>2 DEF TransitionThrows
          <5> QED
            BY <5>1, <1>r DEF RecordType
        <4> QED
          BY <2>2, <4>1, <4>2
      <3>5. RecordType'
        BY <3>1, <3>2, <3>3, <3>4, <1>r DEF RecordType
      <3>6. ASSUME NEW ok, Answer(d, ok) PROVE request' \in [Id -> Requests]
        <4>1. [i \in 1..MaxWrites |-> IF request[d][i] = "mark"
                  THEN IF ok THEN "persist" ELSE "failed"
                  ELSE request[d][i]] \in Requests
          BY <2>r DEF Requests
        <4> QED
          BY <3>6, <4>1, <1>d DEF Answer, PlaneType
      <3>7. request' \in [Id -> Requests]
        BY <2>2, <3>6, <1>d DEF Transition, TransitionThrows, PlaneType
      <3>8. PlaneType'
        BY <2>2, <3>7, <1>d DEF Transition, TransitionThrows, PlaneType
      <3> QED
        BY <1>a, <2>1, <3>5, <3>8 DEF Types
    <2>3. ASSUME NEW i \in 1..MaxWrites, RecordWrite(d, i) PROVE Types'
      <3>1. [request[d] EXCEPT ![i] = "persist"] \in Requests /\ [request[d] EXCEPT ![i] = "mark"] \in Requests
        BY <2>r DEF Requests
      <3>2. PlaneType'
        BY <2>3, <3>1, <1>d DEF RecordWrite, PlaneType
      <3>3. RecordType'
        BY <2>3, <2>m, <1>r, ChainGrows DEF RecordWrite, RecordType
      <3> QED
        BY <1>a, <2>1, <3>2, <3>3 DEF Types
    <2>4. ASSUME NEW i \in 1..MaxWrites, Persist(d, i) PROVE Types'
      <3>1. [request[d] EXCEPT ![i] = "done"] \in Requests /\ [request[d] EXCEPT ![i] = "failed"] \in Requests
        BY <2>r DEF Requests
      <3>2. PlaneType'
        BY <2>4, <3>1, <1>d DEF Persist, PlaneType
      <3>3. RecordType'
        BY <2>4, <1>r DEF Persist, RecordType, records
      <3> QED
        BY <1>a, <2>1, <3>2, <3>3 DEF Types
    <2> QED
      BY <1>3, <2>2, <2>3, <2>4 DEF Writes
  <1>4. ASSUME NEW w \in Worker, Changes(w) \/ GraceExpires(w) PROVE Types'
  <2>1. CASE Disconnect(w)
    <3>1. PoolType'
      BY <2>1, <1>p
      DEF Disconnect, Change, CallsClose, workers, group, step, records, plane, PoolType
    <3>2. SlotType'
      BY <2>1, <1>s
      DEF Disconnect, Change, CallsClose, workers, group, step, records, plane, SlotType
    <3>3. StepType'
      BY <2>1, <1>c
      DEF Disconnect, Change, CallsClose, workers, group, step, records, plane,
          StepType, Place
    <3>4. CallType'
      <4>1. Calls(w) \subseteq Step
        BY DEF Calls
      <4> QED
        BY <2>1, <4>1, <1>q DEF Disconnect, CallsClose, CallType
    <3>5. GroupType'
      BY <2>1, <1>g, <1>c
      DEF Disconnect, Change, CallsClose, workers, group, step, records, plane,
          GroupType, StepType
    <3>6. RecordType'
      BY <2>1, <1>r, <1>c
      DEF Disconnect, Change, CallsClose, workers, group, step, records, plane,
          RecordType, Transitions
    <3>7. PlaneType'
      BY <2>1, <1>d, <1>c
      DEF Disconnect, Change, CallsClose, workers, group, step, records, plane,
          PlaneType
    <3> QED
      BY <1>a, <3>1, <3>2, <3>3, <3>4, <3>5, <3>6, <3>7 DEF Types
  <2>2. CASE CutOff(w)
    <3>1. PoolType'
      BY <2>2, <1>p
      DEF CutOff, Change, CallsClose, workers, group, step, records, plane, PoolType
    <3>2. SlotType'
      BY <2>2, <1>s
      DEF CutOff, Change, CallsClose, workers, group, step, records, plane, SlotType
    <3>3. StepType'
      BY <2>2, <1>c
      DEF CutOff, Change, CallsClose, workers, group, step, records, plane, StepType,
          Place
    <3>4. CallType'
      <4>1. Calls(w) \subseteq Step
        BY DEF Calls
      <4> QED
        BY <2>2, <4>1, <1>q DEF CutOff, CallsClose, CallType
    <3>5. GroupType'
      BY <2>2, <1>g, <1>c
      DEF CutOff, Change, CallsClose, workers, group, step, records, plane, GroupType,
          StepType
    <3>6. RecordType'
      BY <2>2, <1>r, <1>c
      DEF CutOff, Change, CallsClose, workers, group, step, records, plane, RecordType,
          Transitions
    <3>7. PlaneType'
      BY <2>2, <1>d, <1>c
      DEF CutOff, Change, CallsClose, workers, group, step, records, plane, PlaneType
    <3> QED
      BY <1>a, <3>1, <3>2, <3>3, <3>4, <3>5, <3>6, <3>7 DEF Types
  <2>3. CASE Reconnect(w)
    <3>1. PoolType'
      BY <2>3, <1>p
      DEF Reconnect, workers, group, step, records, plane, PoolType
    <3>2. SlotType'
      BY <2>3, <1>s
      DEF Reconnect, workers, group, step, records, plane, SlotType
    <3>3. StepType'
      BY <2>3, <1>c
      DEF Reconnect, workers, group, step, records, plane, StepType, Place
    <3>4. CallType'
      BY <2>3, <1>q
      DEF Reconnect, workers, group, step, records, plane, CallType
    <3>5. GroupType'
      BY <2>3, <1>g, <1>c
      DEF Reconnect, workers, group, step, records, plane, GroupType, StepType
    <3>6. RecordType'
      BY <2>3, <1>r, <1>c
      DEF Reconnect, workers, group, step, records, plane, RecordType, Transitions
    <3>7. PlaneType'
      BY <2>3, <1>d, <1>c
      DEF Reconnect, workers, group, step, records, plane, PlaneType
    <3> QED
      BY <1>a, <3>1, <3>2, <3>3, <3>4, <3>5, <3>6, <3>7 DEF Types
  <2>4. CASE Enroll(w)
    <3>1. PoolType'
      BY <2>4, <1>p
      DEF Enroll, workers, group, step, records, plane, PoolType
    <3>2. SlotType'
      BY <2>4, <1>s
      DEF Enroll, workers, group, step, records, plane, SlotType
    <3>3. StepType'
      BY <2>4, <1>c
      DEF Enroll, workers, group, step, records, plane, StepType, Place
    <3>4. CallType'
      BY <2>4, <1>q
      DEF Enroll, workers, group, step, records, plane, CallType
    <3>5. GroupType'
      BY <2>4, <1>g, <1>c
      DEF Enroll, workers, group, step, records, plane, GroupType, StepType
    <3>6. RecordType'
      BY <2>4, <1>r, <1>c
      DEF Enroll, workers, group, step, records, plane, RecordType, Transitions
    <3>7. PlaneType'
      BY <2>4, <1>d, <1>c
      DEF Enroll, workers, group, step, records, plane, PlaneType
    <3> QED
      BY <1>a, <3>1, <3>2, <3>3, <3>4, <3>5, <3>6, <3>7 DEF Types
  <2>5. CASE Drain(w)
    <3>1. PoolType'
      BY <2>5, <1>p
      DEF Drain, Change, workers, group, step, records, plane, PoolType
    <3>2. SlotType'
      BY <2>5, <1>s
      DEF Drain, Change, workers, group, step, records, plane, SlotType
    <3>3. StepType'
      BY <2>5, <1>c
      DEF Drain, Change, workers, group, step, records, plane, StepType, Place
    <3>4. CallType'
      BY <2>5, <1>q
      DEF Drain, Change, workers, group, step, records, plane, CallType
    <3>5. GroupType'
      BY <2>5, <1>g, <1>c
      DEF Drain, Change, workers, group, step, records, plane, GroupType, StepType
    <3>6. RecordType'
      BY <2>5, <1>r, <1>c
      DEF Drain, Change, workers, group, step, records, plane, RecordType, Transitions
    <3>7. PlaneType'
      BY <2>5, <1>d, <1>c
      DEF Drain, Change, workers, group, step, records, plane, PlaneType
    <3> QED
      BY <1>a, <3>1, <3>2, <3>3, <3>4, <3>5, <3>6, <3>7 DEF Types
  <2>6. CASE HandleDrain(w)
    <3>1. PoolType'
      BY <2>6, <1>p
      DEF HandleDrain, workers, group, step, records, plane, PoolType
    <3>2. SlotType'
      BY <2>6, <1>s
      DEF HandleDrain, workers, group, step, records, plane, SlotType
    <3>3. StepType'
      BY <2>6, <1>c
      DEF HandleDrain, workers, group, step, records, plane, StepType, Place
    <3>4. CallType'
      BY <2>6, <1>q
      DEF HandleDrain, workers, group, step, records, plane, CallType
    <3>5. GroupType'
      BY <2>6, <1>g, <1>c
      DEF HandleDrain, workers, group, step, records, plane, GroupType, StepType
    <3>6. RecordType'
      BY <2>6, <1>r, <1>c
      DEF HandleDrain, workers, group, step, records, plane, RecordType, Transitions
    <3>7. PlaneType'
      BY <2>6, <1>d, <1>c
      DEF HandleDrain, workers, group, step, records, plane, PlaneType
    <3> QED
      BY <1>a, <3>1, <3>2, <3>3, <3>4, <3>5, <3>6, <3>7 DEF Types
  <2>7. CASE GraceExpires(w)
    <3>1. PoolType'
      BY <2>7, <1>p
      DEF GraceExpires, workers, group, step, records, plane, PoolType
    <3>2. SlotType'
      BY <2>7, <1>s
      DEF GraceExpires, workers, group, step, records, plane, SlotType
    <3>3. StepType'
      BY <2>7, <1>c
      DEF GraceExpires, workers, group, step, records, plane, StepType, Place
    <3>4. CallType'
      BY <2>7, <1>q
      DEF GraceExpires, workers, group, step, records, plane, CallType
    <3>5. GroupType'
      BY <2>7, <1>g, <1>c
      DEF GraceExpires, workers, group, step, records, plane, GroupType, StepType
    <3>6. RecordType'
      BY <2>7, <1>r, <1>c
      DEF GraceExpires, workers, group, step, records, plane, RecordType, Transitions
    <3>7. PlaneType'
      BY <2>7, <1>d, <1>c
      DEF GraceExpires, workers, group, step, records, plane, PlaneType
    <3> QED
      BY <1>a, <3>1, <3>2, <3>3, <3>4, <3>5, <3>6, <3>7 DEF Types
  <2> QED
    BY <1>4, <2>1, <2>2, <2>3, <2>4, <2>5, <2>6, <2>7 DEF Changes
  <1>5. CASE UNCHANGED vars
    BY <1>p, <1>s, <1>c, <1>q, <1>g, <1>r, <1>d, <1>a, <1>5
    DEF vars, workers, group, step, records, plane, Types, PoolType, SlotType, StepType,
        CallType, GroupType, RecordType, PlaneType
  <1> QED
    BY <1>1, <1>2, <1>3, <1>4, <1>5 DEF Next

-----------------------------------------------------------------------------
(* What a step of one actor leaves alone. *)

\* A step that executes, is cancelled or opens a write.
Acts(s) ==
    Execute(s) \/ Cancel(s) \/ FrameFails(s) \/ \E i \in 1..MaxWrites : OpenWrite(s, i)

PoolActs(w) == Changes(w) \/ GraceExpires(w)

\* The acquire of a lease threw when the lease was there.
LeavesLease(s) ==
    /\ FrameFails(s) /\ tries[s] + 1 \in Attempt
    /\ tries' = [tries EXCEPT ![s] = tries[s] + 1]
    /\ lease' = [lease EXCEPT ![<<s, tries[s] + 1>>] = "active"]
    /\ unended' = unended \cup {<<s, tries[s] + 1>>}

\* A step begins its next attempt.
Takes(s) == TakeLease(s) \/ LeavesLease(s)

\* Another step only ends this one, when it waits for the group.
Kept(q) ==
    /\ pc'[q] = pc[q] \/ (pc[q] = "group" /\ pc'[q] = "ended")
    /\ at'[q] = at[q] /\ tries'[q] = tries[q] /\ then'[q] = then[q]
    /\ q \in had' <=> q \in had
    /\ q \in aborted' <=> q \in aborted
    /\ q \in pinned' <=> q \in pinned

\* The call of a step is closed with its socket, and nothing else happens to the step.
Closed(q) ==
    /\ pc'[q] = pc[q] \/ (pc[q] \in {"sent", "runs"} /\ pc'[q] = "fate")
    /\ at'[q] = at[q] /\ tries'[q] = tries[q] /\ then'[q] = then[q]

Untouched(d) ==
    /\ lease'[d] = lease[d] /\ chain'[d] = chain[d] /\ request'[d] = request[d] /\ ran'[d] = ran[d]
    /\ d \in marked' <=> d \in marked
    /\ d \in unmarked' <=> d \in unmarked
    /\ d \in unended' <=> d \in unended
    /\ d \in noted' <=> d \in noted
    /\ d \in wrote' <=> d \in wrote

\* An attempt is known by its step and its number.
LEMMA IdShape ==
  /\ \A s \in Step, k \in Attempt : <<s, k>> \in Id /\ <<s, k>>[1] = s /\ <<s, k>>[2] = k
  /\ \A d \in Id : d[1] \in Step /\ d[2] \in Attempt /\ d = <<d[1], d[2]>>
  BY DEF Id

\* What a step does changes no other step, but for those that wait for it.
LEMMA StepFrame ==
  ASSUME Types, NEW s \in Step, Acts(s), NEW q \in Step, q # s
  PROVE  Kept(q)
  <1>t. StepType /\ CallType
    BY DEF Types
  <1>0. Execute(s) \/ Cancel(s) \/ FrameFails(s) \/ \E i \in 1..MaxWrites : OpenWrite(s, i)
    BY DEF Acts
  <1>o. CASE \E i \in 1..MaxWrites : OpenWrite(s, i)
    BY <1>o, <1>t DEF OpenWrite, step, group, Kept
  <1>1. CASE Start(s)
    BY <1>1, <1>t
    DEF Start, Goto, workers, group, step, records, plane, StepType, Place, CallType, Kept
  <1>2. CASE Reserve(s)
    BY <1>2, <1>t
    DEF Reserve, Goto, workers, group, step, records, plane, StepType, Place, CallType,
        Kept
  <1>3. CASE Queue(s)
    BY <1>3, <1>t
    DEF Queue, workers, group, step, records, plane, StepType, Place, CallType, Kept
  <1>4. CASE GiveUp(s)
    BY <1>4, <1>t
    DEF GiveUp, Ends, SettleGroup, workers, group, step, records, plane, StepType, Place,
        CallType, Kept
  <1>5. CASE TakeLease(s)
    BY <1>5, <1>t
    DEF TakeLease, Goto, workers, group, step, records, plane, StepType, Place, CallType,
        Kept
  <1>6. CASE WorkerGone(s)
    BY <1>6, <1>t
    DEF WorkerGone, Unreserve, Ends, SettleGroup, Reschedules, Goto, workers, group, step,
        records, plane, StepType, Place, CallType, Kept
  <1>7. CASE Register(s)
    BY <1>7, <1>t
    DEF Register, Unreserve, Refusal, EndLease, Goto, workers, group, step, records,
        plane, StepType, Place, CallType, Kept
  <1>8. CASE Send(s)
    BY <1>8, <1>t
    DEF Send, CallsClose, Unregistered, EndLease, Goto, workers, group, step, records,
        plane, StepType, Place, CallType, Kept
  <1>9. CASE Accept(s)
    BY <1>9, <1>t
    DEF Accept, Refusal, EndLease, Unregistered, Goto, workers, group, step, records,
        plane, StepType, Place, CallType, Kept
  <1>10. CASE Fate(s)
    BY <1>10, <1>t
    DEF Fate, EndLease, Ends, SettleGroup, Forgotten, Goto, workers, group, step, records,
        plane, StepType, Place, CallType, Kept
  <1>11. CASE Resume(s)
    BY <1>11, <1>t
    DEF Resume, Forgotten, Lost, Ends, SettleGroup, Reschedules, Goto, workers, group,
        step, records, plane, StepType, Place, CallType, Kept
  <1>12. CASE Result(s)
    BY <1>12, <1>t
    DEF Result, EndLease, Unregistered, Goto, workers, group, step, records, plane,
        StepType, Place, CallType, Kept
  <1>13. CASE Cancel(s)
    BY <1>13, <1>t
    DEF Cancel, workers, group, step, records, plane, StepType, Place, CallType, Kept
  <1>14. CASE FrameFails(s)
    BY <1>14, <1>t
    DEF FrameFails, Unreserve, Ends, SettleGroup, workers, group, step, records, plane,
        StepType, Place, CallType, Kept
  <1>15. CASE MarkDeclared(s)
    BY <1>15, <1>t DEF MarkDeclared, Ends, Goto, group, StepType, CallType, Kept
  <1> QED
    BY <1>0, <1>o, <1>1, <1>2, <1>3, <1>4, <1>5, <1>6, <1>7, <1>8, <1>9, <1>10, <1>11,
       <1>12, <1>13, <1>14, <1>15 DEF Execute

\* What a step does changes the records of its own attempts only.
LEMMA RecordFrame ==
  ASSUME Types, NEW s \in Step, Acts(s), NEW d \in Id, d[1] # s
  PROVE  Untouched(d)
  <1>t. RecordType /\ PlaneType
    BY DEF Types
  <1>0. Execute(s) \/ Cancel(s) \/ FrameFails(s) \/ \E i \in 1..MaxWrites : OpenWrite(s, i)
    BY DEF Acts
  <1>n. \A k : d # <<s, k>>
    OBVIOUS
  <1>c. Current(s) # d
    BY <1>n DEF Current
  <1>o. CASE \E i \in 1..MaxWrites : OpenWrite(s, i)
    BY <1>o, <1>t, <1>c DEF OpenWrite, records, PlaneType, Untouched
  <1>1. CASE Start(s)
    BY <1>1, <1>t, <1>c, <1>n
    DEF Start, Goto, workers, group, step, records, plane, RecordType, PlaneType,
        Untouched
  <1>2. CASE Reserve(s)
    BY <1>2, <1>t, <1>c, <1>n
    DEF Reserve, Goto, workers, group, step, records, plane, RecordType, PlaneType,
        Untouched
  <1>3. CASE Queue(s)
    BY <1>3, <1>t, <1>c, <1>n
    DEF Queue, workers, group, step, records, plane, RecordType, PlaneType, Untouched
  <1>4. CASE GiveUp(s)
    BY <1>4, <1>t, <1>c, <1>n
    DEF GiveUp, Ends, SettleGroup, workers, group, step, records, plane, RecordType,
        PlaneType, Untouched
  <1>5. CASE TakeLease(s)
    BY <1>5, <1>t, <1>c, <1>n
    DEF TakeLease, Goto, workers, group, step, records, plane, RecordType, PlaneType,
        Untouched
  <1>6. CASE WorkerGone(s)
    BY <1>6, <1>t, <1>c, <1>n
    DEF WorkerGone, Unreserve, Ends, SettleGroup, Reschedules, Goto, workers, group, step,
        records, plane, RecordType, PlaneType, Untouched
  <1>7. CASE Register(s)
    BY <1>7, <1>t, <1>c, <1>n
    DEF Register, Unreserve, Refusal, EndLease, Goto, workers, group, step, records,
        plane, RecordType, PlaneType, Untouched
  <1>8. CASE Send(s)
    BY <1>8, <1>t, <1>c, <1>n
    DEF Send, CallsClose, Unregistered, EndLease, Goto, workers, group, step, records,
        plane, RecordType, PlaneType, Untouched
  <1>9. CASE Accept(s)
    BY <1>9, <1>t, <1>c, <1>n
    DEF Accept, Refusal, EndLease, Unregistered, Goto, workers, group, step, records,
        plane, RecordType, PlaneType, Untouched
  <1>10. CASE Fate(s)
    BY <1>10, <1>t, <1>c, <1>n
    DEF Fate, EndLease, Ends, SettleGroup, Forgotten, Goto, workers, group, step, records,
        plane, RecordType, PlaneType, Untouched
  <1>11. CASE Resume(s)
    BY <1>11, <1>t, <1>c, <1>n
    DEF Resume, Forgotten, Lost, Ends, SettleGroup, Reschedules, Goto, workers, group,
        step, records, plane, RecordType, PlaneType, Untouched
  <1>12. CASE Result(s)
    BY <1>12, <1>t, <1>c, <1>n
    DEF Result, EndLease, Unregistered, Goto, workers, group, step, records, plane,
        RecordType, PlaneType, Untouched
  <1>13. CASE Cancel(s)
    BY <1>13, <1>t, <1>c, <1>n
    DEF Cancel, workers, group, step, records, plane, RecordType, PlaneType, Untouched
  <1>14. CASE FrameFails(s)
    BY <1>14, <1>t, <1>c, <1>n
    DEF FrameFails, plane, RecordType, PlaneType, Untouched
  <1>15. CASE MarkDeclared(s)
    BY <1>15, <1>t, <1>c DEF MarkDeclared, RecordType, PlaneType, Untouched
  <1> QED
    BY <1>0, <1>o, <1>1, <1>2, <1>3, <1>4, <1>5, <1>6, <1>7, <1>8, <1>9, <1>10, <1>11,
       <1>12, <1>13, <1>14, <1>15 DEF Execute

\* What happens to the pool closes calls and leaves every record as it is.
LEMMA PoolFrame ==
  ASSUME Types, NEW w \in Worker, PoolActs(w)
  PROVE  /\ UNCHANGED <<reserved, group, records, plane, aborted, tries, at, then>>
         /\ \A q \in Step : Closed(q)
         /\ \A v \in Worker : active'[v] \subseteq active[v]
  <1>t. StepType /\ SlotType
    BY DEF Types
  <1>1. UNCHANGED <<reserved, group, records, plane, aborted, tries, at, then>>
    BY DEF PoolActs, Changes, Disconnect, CutOff, Reconnect, Enroll, Drain, HandleDrain,
           GraceExpires, step
  <1>2. \A q \in Step : Closed(q)
    BY <1>1, <1>t
    DEF PoolActs, Changes, Disconnect, CutOff, Reconnect, Enroll, Drain, HandleDrain,
        GraceExpires, step, CallsClose, Calls, Closed, StepType
  <1>3. \A v \in Worker : active'[v] \subseteq active[v]
    BY <1>t
    DEF PoolActs, Changes, Disconnect, CutOff, Reconnect, Enroll, Drain, HandleDrain,
        GraceExpires, step, SlotType
  <1> QED
    BY <1>1, <1>2, <1>3

\* A transition or a write of one attempt changes no other.
LEMMA WriteFrame ==
  ASSUME Types, NEW d \in Id, Writes(d)
  PROVE  /\ UNCHANGED <<workers, group, pc, tries, at, queued, aborted, had, asked, ran>>
         /\ \A q \in Step : then'[q] = then[q] \/ (then[q] = "lost" /\ then'[q] = "error")
         /\ \A e \in Id : e # d => Untouched(e)
  <1>t. RecordType /\ PlaneType /\ StepType
    BY DEF Types
  <1>1. UNCHANGED <<workers, group, pc, tries, at, queued, aborted, had, asked, ran>>
    BY DEF Writes, Transition, TransitionThrows, RecordWrite, Persist, step
  <1>2. \A q \in Step : then'[q] = then[q] \/ (then[q] = "lost" /\ then'[q] = "error")
    <2>1. \/ UNCHANGED then
          \/ then' = [then EXCEPT ![d[1]] = IF then[d[1]] = "lost" THEN "error" ELSE then[d[1]]]
      BY DEF Writes, Transition, TransitionThrows, RecordWrite, Persist, step
    <2> QED
      BY <2>1, <1>t DEF StepType
  <1>3. ASSUME NEW e \in Id, e # d PROVE Untouched(e)
    <2>1. CASE Transition(d)
      BY <1>3, <1>t, <2>1 DEF Transition, Applied, Answer, RecordType, PlaneType, Untouched
    <2>2. CASE TransitionThrows(d)
      <3>1. /\ chain'[e] = chain[e] /\ UNCHANGED <<ran, noted, wrote>>
            /\ (e \in unmarked' <=> e \in unmarked) /\ (e \in unended' <=> e \in unended)
        BY <1>3, <1>t, <2>2 DEF TransitionThrows, RecordType
      <3>2. request'[e] = request[e]
        BY <1>3, <1>t, <2>2 DEF TransitionThrows, Answer, PlaneType
      <3>3. lease'[e] = lease[e] /\ (e \in marked' <=> e \in marked)
        <4>1. Applied(d) \/ UNCHANGED <<lease, marked>>
          BY <2>2 DEF TransitionThrows
        <4> QED
          BY <1>3, <1>t, <4>1 DEF Applied, RecordType
      <3> QED
        BY <3>1, <3>2, <3>3 DEF Untouched
    <2>3. ASSUME NEW i \in 1..MaxWrites, RecordWrite(d, i) \/ Persist(d, i) PROVE Untouched(e)
      BY <1>3, <1>t, <2>3 DEF RecordWrite, Persist, records, RecordType, PlaneType, Untouched
    <2> QED
      BY <2>1, <2>2, <2>3 DEF Writes
  <1> QED
    BY <1>1, <1>2, <1>3

-----------------------------------------------------------------------------
(* Slots. *)

\* A worker whose reservations stand and that has no step more keeps its shape.
LEMMA SlotKept ==
  ASSUME NEW w, SlotShape(w), Placed(w)' = Placed(w), reserved'[w] = reserved[w],
         active'[w] \subseteq active[w]
  PROVE  SlotShape(w)'
  <1>1. /\ IsFiniteSet(active'[w]) /\ Cardinality(active'[w]) <= Cardinality(active[w])
        /\ Cardinality(active'[w]) \in Nat /\ Cardinality(active[w]) \in Nat
        /\ Cardinality(Placed(w)) \in Nat
    BY FS_Subset, FS_CardinalityType DEF SlotShape
  <1> QED
    BY <1>1 DEF SlotShape

\* A reservation is taken while a slot is free.
LEMMA SlotTaken ==
  ASSUME NEW w, NEW s, SlotShape(w), s \notin Placed(w), Placed(w)' = Placed(w) \cup {s},
         Free(w) > 0, reserved'[w] = reserved[w] + 1, active'[w] = active[w]
  PROVE  SlotShape(w)'
  <1>1. /\ Cardinality(active[w]) \in Nat /\ Cardinality(Placed(w)) \in Nat
        /\ IsFiniteSet(Placed(w) \cup {s}) /\ Cardinality(Placed(w) \cup {s}) = Cardinality(Placed(w)) + 1
    BY FS_AddElement, FS_CardinalityType DEF SlotShape
  <1>2. Cardinality(active[w]) + reserved[w] < Capacity
    BY <1>1 DEF SlotShape, Free
  <1> QED
    BY <1>1, <1>2 DEF SlotShape

\* A reservation is given back, or becomes the registered step.
LEMMA SlotGivenBack ==
  ASSUME NEW w, NEW s, SlotShape(w), s \in Placed(w), Placed(w)' = Placed(w) \ {s},
         reserved'[w] = reserved[w] - 1,
         active'[w] = active[w] \/ active'[w] = active[w] \cup {s}
  PROVE  SlotShape(w)' /\ reserved[w] > 0
  <1>1. /\ Cardinality(active[w]) \in Nat /\ Cardinality(Placed(w)) \in Nat
        /\ IsFiniteSet(Placed(w) \ {s}) /\ Cardinality(Placed(w) \ {s}) = Cardinality(Placed(w)) - 1
        /\ Cardinality(Placed(w) \ {s}) \in Nat
    BY FS_RemoveElement, FS_CardinalityType DEF SlotShape
  <1>2. IsFiniteSet(active'[w]) /\ Cardinality(active'[w]) \in Nat /\ Cardinality(active'[w]) <= Cardinality(active[w]) + 1
    <2>1. CASE active'[w] = active[w]
      BY <1>1, <2>1 DEF SlotShape
    <2>2. CASE active'[w] = active[w] \cup {s}
      <3>1. /\ IsFiniteSet(active[w] \cup {s})
            /\ Cardinality(active[w] \cup {s}) = IF s \in active[w] THEN Cardinality(active[w]) ELSE Cardinality(active[w]) + 1
        BY FS_AddElement DEF SlotShape
      <3> QED
        BY <1>1, <2>2, <3>1
    <2> QED
      BY <2>1, <2>2
  <1> QED
    BY <1>1, <1>2 DEF SlotShape

\* Of the reservations, a step changes its own.
LEMMA PlacedFrame ==
  ASSUME Types, NEW s \in Step, Acts(s), NEW w, NEW q, q # s
  PROVE  q \in Placed(w)' <=> q \in Placed(w)
  BY StepFrame DEF Placed, Kept

\* No worker, step or slot is taken to begin with.
LEMMA SlotInvInit == Init => SlotInv
  <1> SUFFICES ASSUME Init PROVE SlotInv
    OBVIOUS
  <1>1. Types
    BY TypesInit
  <1>2. PlaceShape
    BY DEF Init, PlaceShape
  <1>3. ASSUME NEW w \in Worker PROVE SlotShape(w)
    <2>1. Placed(w) = {} /\ active[w] = {} /\ reserved[w] = 0
      BY DEF Init, Placed
    <2> QED
      BY <2>1, FS_EmptySet DEF SlotShape
  <1> QED
    BY <1>1, <1>2, <1>3 DEF SlotInv

\* A step that was placed keeps a worker.
LEMMA PlaceStep == Types /\ PlaceShape /\ [Next]_vars => PlaceShape'
  <1> SUFFICES ASSUME Types, PlaceShape, [Next]_vars PROVE PlaceShape'
    OBVIOUS
  <1>t. StepType /\ GroupType
    BY DEF Types
  <1>1. ASSUME NEW s \in Step, Acts(s) PROVE PlaceShape'
    <2>1. ASSUME NEW q \in Step, q # s,
                 pc'[q] \in {"frame", "declare", "dispatch", "busy", "sent", "runs", "fate", "settle"}
          PROVE  at'[q] \in Worker
      BY <1>1, <2>1, StepFrame DEF Kept, PlaceShape
    <2>2. ASSUME pc'[s] \in {"frame", "declare", "dispatch", "busy", "sent", "runs", "fate", "settle"}
          PROVE  at'[s] \in Worker
      BY <1>1, <1>t, <2>2
      DEF Acts, Execute, Start, Reserve, Schedulable, Queue, GiveUp, TakeLease, MarkDeclared,
          WorkerGone, Register, Send, Accept, Fate, Resume, Result, Cancel, FrameFails,
          OpenWrite, Goto, Ends, Reschedules, EndLease, Refusal, Lost, CallsClose, StepType,
          PlaceShape, step
    <2>3. pinned' # {} => pin' \in Worker
      BY <1>1, <1>t
      DEF Acts, Execute, Start, Reserve, Queue, GiveUp, TakeLease, MarkDeclared, WorkerGone,
          Register, Send, Accept, Fate, Resume, Result, Cancel, FrameFails, OpenWrite, Ends,
          SettleGroup, Reschedules, Lost, StepType, GroupType, PlaceShape, group
    <2>4. ASSUME NEW q \in Step, pc'[q] = "declare" PROVE tries'[q] \in Attempt
      <3>1. CASE q # s
        BY <1>1, <2>4, <3>1, StepFrame DEF Kept, PlaceShape
      <3>2. CASE q = s /\ pc[s] = "declare"
        <4>1. tries' = tries
          BY <1>1, <2>4, <3>2, <1>t
          DEF Acts, Execute, Start, Reserve, Queue, GiveUp, TakeLease, MarkDeclared,
              WorkerGone, Register, Send, Accept, Fate, Resume, Result, Cancel, FrameFails,
              OpenWrite, step
        <4> QED
          BY <3>2, <4>1 DEF PlaceShape
      <3>3. CASE q = s /\ pc[s] # "declare"
        <4>1. TakeLease(s)
          BY <1>1, <2>4, <3>3, <1>t
          DEF Acts, Execute, Start, Reserve, Queue, GiveUp, MarkDeclared, WorkerGone,
              Register, Send, Accept, Fate, Resume, Result, Cancel, FrameFails, OpenWrite,
              Goto, Ends, Reschedules, EndLease, Refusal, Lost, CallsClose, StepType, step
        <4> QED
          BY <3>3, <4>1, <1>t DEF TakeLease, StepType
      <3> QED
        BY <3>1, <3>2, <3>3
    <2> QED
      BY <2>1, <2>2, <2>3, <2>4 DEF PlaceShape
  <1>2. ASSUME NEW d \in Id, Writes(d) PROVE PlaceShape'
    BY <1>2, WriteFrame DEF PlaceShape, group
  <1>3. ASSUME NEW w \in Worker, PoolActs(w) PROVE PlaceShape'
    <2>1. \A q \in Step : Closed(q)
      BY <1>3, PoolFrame
    <2>2. UNCHANGED <<pinned, pin, at, tries>>
      BY <1>3, PoolFrame DEF group
    <2> QED
      BY <2>1, <2>2 DEF Closed, PlaceShape
  <1>4. CASE UNCHANGED vars
    BY <1>4 DEF vars, step, group, PlaceShape
  <1> QED
    BY <1>1, <1>2, <1>3, <1>4 DEF Next, Acts, PoolActs

\* Every step of the specification keeps the count of the slots.
LEMMA SlotInvStep == SlotInv /\ [Next]_vars => SlotInv'
  <1> SUFFICES ASSUME SlotInv, [Next]_vars PROVE SlotInv'
    OBVIOUS
  <1>t. Types /\ PlaceShape /\ \A w \in Worker : SlotShape(w)
    BY DEF SlotInv
  <1>c. StepType /\ SlotType
    BY <1>t DEF Types
  <1>1. ASSUME NEW s \in Step, Acts(s), NEW w \in Worker PROVE SlotShape(w)'
    <2>f. \A q : q # s => (q \in Placed(w)' <=> q \in Placed(w))
      BY <1>1, <1>t, PlacedFrame
    <2>s. SlotShape(w)
      BY <1>t
    <2>1. CASE Reserve(s)
      <3>1. PICK v \in Worker : /\ reserved' = [reserved EXCEPT ![v] = reserved[v] + 1]
                                /\ at' = [at EXCEPT ![s] = v] /\ Free(v) > 0
        BY <2>1 DEF Reserve, Schedulable
      <3>2. pc[s] = "queue" /\ pc'[s] = "frame" /\ at'[s] = v /\ active' = active
        BY <2>1, <3>1, <1>c DEF Reserve, Goto, StepType
      <3>3. s \notin Placed(w) /\ (s \in Placed(w)' <=> w = v)
        BY <3>2 DEF Placed
      <3>4. CASE w = v
        <4>1. Placed(w)' = Placed(w) \cup {s}
          BY <2>f, <3>3, <3>4
        <4>2. reserved'[w] = reserved[w] + 1
          BY <3>1, <3>4, <1>c DEF SlotType
        <4> QED
          BY <2>s, <3>1, <3>2, <3>3, <3>4, <4>1, <4>2, SlotTaken
      <3>5. CASE w # v
        <4>0. \A q : q \in Placed(w)' <=> q \in Placed(w)
          BY <2>f, <3>3, <3>5
        <4>1. Placed(w)' = Placed(w)
          BY <4>0
        <4>2. reserved'[w] = reserved[w]
          BY <3>1, <3>5, <1>c DEF SlotType
        <4> QED
          BY <2>s, <3>2, <4>1, <4>2, SlotKept
      <3> QED
        BY <3>4, <3>5
    <2>2. CASE WorkerGone(s) \/ FrameFails(s) \/ Register(s) \/ (MarkDeclared(s) /\ Unreserve(s) /\ Ends(s, "error"))
      <3>1. /\ pc[s] \in {"frame", "declare", "dispatch"} /\ pc'[s] \notin {"frame", "declare", "dispatch"}
            /\ reserved' = [reserved EXCEPT ![at[s]] = reserved[at[s]] - 1]
        BY <2>2, <1>c
        DEF WorkerGone, FrameFails, Register, MarkDeclared, Unreserve, Ends, Reschedules,
            Refusal, EndLease, Goto, StepType
      <3>2. at[s] \in Worker
        BY <1>t, <3>1 DEF PlaceShape
      <3>3. /\ w # at[s] => active'[w] = active[w]
            /\ active'[w] = active[w] \/ active'[w] = active[w] \cup {s}
        BY <2>2, <1>c DEF WorkerGone, FrameFails, Register, MarkDeclared, SlotType
      <3>4. s \notin Placed(w)' /\ (s \in Placed(w) <=> w = at[s])
        BY <3>1, <3>2 DEF Placed
      <3>5. CASE w = at[s]
        <4>1. Placed(w)' = Placed(w) \ {s}
          BY <2>f, <3>4
        <4>2. reserved'[w] = reserved[w] - 1
          BY <3>1, <3>2, <3>5, <1>c DEF SlotType
        <4> QED
          BY <2>s, <3>3, <3>4, <3>5, <4>1, <4>2, SlotGivenBack
      <3>6. CASE w # at[s]
        <4>0. \A q : q \in Placed(w)' <=> q \in Placed(w)
          BY <2>f, <3>4, <3>6
        <4>1. Placed(w)' = Placed(w)
          BY <4>0
        <4>2. reserved'[w] = reserved[w]
          BY <3>1, <3>6, <1>c DEF SlotType
        <4> QED
          BY <2>s, <3>3, <3>6, <4>1, <4>2, SlotKept
      <3> QED
        BY <3>5, <3>6
    <2>3. CASE ~(\/ Reserve(s) \/ WorkerGone(s) \/ FrameFails(s) \/ Register(s)
                 \/ (MarkDeclared(s) /\ Unreserve(s) /\ Ends(s, "error")))
      <3>1. reserved' = reserved /\ active'[w] \subseteq active[w]
        BY <1>1, <2>3, <1>c
        DEF Acts, Execute, Start, Queue, GiveUp, TakeLease, MarkDeclared, Send, Accept, Fate,
            Resume, Result, Cancel, OpenWrite, workers, Unregistered, SlotType
      <3>2. s \in Placed(w)' <=> s \in Placed(w)
        BY <1>1, <2>3, <1>c
        DEF Acts, Execute, Start, Queue, GiveUp, TakeLease, MarkDeclared, Send, Accept, Fate,
            Resume, Result, Cancel, OpenWrite, step, Goto, Ends, Reschedules, EndLease,
            Refusal, Lost, CallsClose, StepType, Placed
      <3>a. \A q : q \in Placed(w)' <=> q \in Placed(w)
        BY <2>f, <3>2
      <3>3. Placed(w)' = Placed(w)
        BY <3>a
      <3> QED
        BY <2>s, <3>1, <3>3, SlotKept
    <2> QED
      BY <2>1, <2>2, <2>3
  <1>2. ASSUME NEW w \in Worker, UNCHANGED <<workers, pc, at>> PROVE SlotShape(w)'
    BY <1>2, <1>t DEF workers, SlotShape, Placed
  <1>3. ASSUME NEW v \in Worker, PoolActs(v), NEW w \in Worker PROVE SlotShape(w)'
    <2>1. UNCHANGED <<reserved, at>> /\ active'[w] \subseteq active[w] /\ \A q \in Step : Closed(q)
      BY <1>3, <1>t, PoolFrame
    <2>2. Placed(w)' = Placed(w)
      BY <2>1 DEF Placed, Closed
    <2> QED
      BY <1>t, <2>1, <2>2, SlotKept
  <1>4. ASSUME NEW w \in Worker PROVE SlotShape(w)'
    <2>1. CASE \E s \in Step : Acts(s)
      BY <2>1, <1>1
    <2>2. CASE \E d \in Id : Writes(d)
      BY <2>2, <1>2, <1>t, WriteFrame
    <2>3. CASE \E v \in Worker : PoolActs(v)
      BY <2>3, <1>3
    <2>4. CASE UNCHANGED vars
      BY <2>4, <1>2 DEF vars, step
    <2> QED
      BY <2>1, <2>2, <2>3, <2>4 DEF Next, Acts, PoolActs
  <1>5. Types'
    BY <1>t, TypesStep
  <1>6. PlaceShape'
    BY <1>t, PlaceStep
  <1> QED
    BY <1>4, <1>5, <1>6 DEF SlotInv

\* The count of the slots bounds the reservations, so that every variable has its type.
LEMMA SlotTypes == SlotInv => TypeOK /\ SlotsCountedOnce
  <1> SUFFICES ASSUME SlotInv PROVE TypeOK /\ SlotsCountedOnce
    OBVIOUS
  <1>1. ASSUME NEW w \in Worker
        PROVE  reserved[w] \in 0..Capacity /\ reserved[w] + Cardinality(active[w]) <= Capacity
    <2>1. SlotShape(w)
      BY DEF SlotInv
    <2>2. Cardinality(active[w]) \in Nat /\ Cardinality(Placed(w)) \in Nat
      BY <2>1, FS_CardinalityType DEF SlotShape
    <2> QED
      BY <2>1, <2>2 DEF SlotShape
  <1>2. PoolType /\ SlotType /\ StepType /\ CallType /\ GroupType /\ RecordType /\ PlaneType
    BY DEF SlotInv, Types
  <1>3. reserved \in [Worker -> 0..Capacity]
    BY <1>1, <1>2 DEF SlotType
  <1>4. asked \in Workload
    BY DEF SlotInv, Types
  <1>5. TypeOK
    BY <1>2, <1>3, <1>4
    DEF TypeOK, PoolType, SlotType, StepType, Place, CallType, GroupType, RecordType,
        Transitions, PlaneType, Requests
  <1> QED
    BY <1>1, <1>5 DEF SlotsCountedOnce

\* SlotInv is an invariant.
LEMMA SlotInvariant == Spec => []SlotInv
  BY SlotInvInit, SlotInvStep, PTL DEF Spec

\* Type correctness of the dispatcher: no worker has more reservations than slots, or fewer
\* than none, and what waits on the chain of a lease is a transition.
THEOREM DispatchTypeCorrect == Spec => []TypeOK
  BY SlotInvariant, SlotTypes, PTL

\* acquireWorker, unreserve and the registration of a dispatch count each slot once, in every
\* order of placements, refusals, lost sockets and drains: no worker is given more than it takes.
THEOREM SlotsAreCounted == Spec => []SlotsCountedOnce
  BY SlotInvariant, SlotTypes, PTL

-----------------------------------------------------------------------------
(* Leases. *)

\* A chain holds only marks when what was appended is one.
LEMMA MarksAppend ==
  ASSUME NEW c \in Seq(Transitions), NEW t \in Transitions
  PROVE  /\ OnlyMarks(<<>>)
         /\ OnlyMarks(Append(c, t)) <=> OnlyMarks(c) /\ t = "mark"
  <1>1. /\ Len(c) \in Nat /\ DOMAIN c = 1..Len(c) /\ DOMAIN Append(c, t) = 1..(Len(c) + 1)
        /\ \A i \in 1..Len(c) : Append(c, t)[i] = c[i]
        /\ Append(c, t)[Len(c) + 1] = t
    OBVIOUS
  <1>2. \A i \in 1..(Len(c) + 1) : i \in 1..Len(c) \/ i = Len(c) + 1
    BY <1>1
  <1>3. 1..Len(c) \subseteq 1..(Len(c) + 1) /\ Len(c) + 1 \in 1..(Len(c) + 1)
    BY <1>1
  <1>4. OnlyMarks(Append(c, t)) <=> OnlyMarks(c) /\ t = "mark"
    BY <1>1, <1>2, <1>3 DEF OnlyMarks
  <1> QED
    BY <1>4 DEF OnlyMarks

\* A chain holds only marks when its head is one and its tail holds only marks.
LEMMA MarksTail ==
  ASSUME NEW c \in Seq(Transitions), c # <<>>
  PROVE  OnlyMarks(c) <=> Head(c) = "mark" /\ OnlyMarks(Tail(c))
  <1>1. /\ Len(c) \in Nat \ {0} /\ DOMAIN c = 1..Len(c) /\ DOMAIN Tail(c) = 1..(Len(c) - 1)
        /\ Head(c) = c[1] /\ \A i \in 1..(Len(c) - 1) : Tail(c)[i] = c[i + 1]
    OBVIOUS
  <1>2. ASSUME OnlyMarks(c) PROVE Head(c) = "mark" /\ OnlyMarks(Tail(c))
    BY <1>1, <1>2 DEF OnlyMarks
  <1>3. ASSUME Head(c) = "mark", OnlyMarks(Tail(c)), NEW i \in 1..Len(c) PROVE c[i] = "mark"
    <2>1. CASE i = 1
      BY <1>1, <1>3, <2>1
    <2>2. CASE i # 1
      <3>1. i - 1 \in 1..(Len(c) - 1) /\ (i - 1) + 1 = i
        BY <1>1, <2>2
      <3>2. Tail(c)[i - 1] = c[i]
        BY <1>1, <3>1
      <3> QED
        BY <1>1, <1>3, <3>1, <3>2 DEF OnlyMarks
    <2> QED
      BY <2>1, <2>2
  <1> QED
    BY <1>1, <1>2, <1>3 DEF OnlyMarks

\* The attempt under way is one of the attempts.
LEMMA CurrentShape ==
  ASSUME StepType, NEW s \in Step
  PROVE  /\ tries[s] \in Nat /\ Current(s)[1] = s /\ Current(s)[2] = tries[s]
         /\ tries[s] >= 1 => Current(s) \in Id
         /\ \A d \in Id : d[1] = s /\ d[2] = tries[s] => d = Current(s)
  <1>1. tries[s] \in 0..(MaxChanges + 1)
    BY DEF StepType
  <1>2. tries[s] >= 1 => tries[s] \in Attempt
    BY <1>1 DEF Attempt
  <1>3. Current(s) = <<s, tries[s]>> /\ Current(s)[1] = s /\ Current(s)[2] = tries[s]
    BY DEF Current
  <1> QED
    BY <1>1, <1>2, <1>3, IdShape

\* No lease has been taken to begin with.
LEMMA LeaseInvInit == Init => LeaseInv
  <1> SUFFICES ASSUME Init PROVE LeaseInv
    OBVIOUS
  <1>1. SlotInv
    BY SlotInvInit
  <1>2. ASSUME NEW s \in Step PROVE LeaseShape(s)
    BY DEF Init, LeaseShape, Live
  <1>3. ASSUME NEW d \in Id PROVE AttemptShape(d)
    <2>1. d[2] \in Nat /\ tries[d[1]] = 0
      BY IdShape DEF Init, Attempt
    <2> QED
      BY <2>1 DEF Init, AttemptShape, Attempt, Id
  <1> QED
    BY <1>1, <1>2, <1>3 DEF LeaseInv

\* A step that keeps its attempt and its records.
LEMMA LeaseSame ==
  ASSUME NEW s \in Step, LeaseShape(s), UNCHANGED <<lease, chain, tries>>, unended \subseteq unended',
         s \in aborted => s \in aborted',
         \/ pc'[s] = pc[s]
         \/ pc[s] \in {"start", "group"} /\ pc'[s] \in {"start", "group", "queue", "ended"}
         \/ pc[s] \in {"queue", "frame"} /\ pc'[s] \in {"queue", "frame", "ended"}
         \/ pc[s] = "declare" /\ pc'[s] = "dispatch"
         \/ pc[s] = "declare" /\ pc'[s] = "ended" /\ Current(s) \in unended'
         \/ pc[s] \in Live \ {"dispatch"} /\ pc'[s] \in {"sent", "runs", "fate"}
         \/ pc[s] = "dispatch" /\ pc'[s] = "busy"
         \/ pc[s] = "fate" /\ pc'[s] = "ended" /\ s \in aborted'
         \/ /\ pc[s] = "settle" /\ pc'[s] \in {"queue", "ended"}
            /\ lease[Current(s)] # "active" \/ Current(s) \in unended
  PROVE  LeaseShape(s)'
  BY DEF LeaseShape, Live, Current

\* The end of its lease joins the chain of a step whose attempt was under way.
LEMMA LeaseEnds ==
  ASSUME Types, NEW s \in Step, LeaseShape(s), UNCHANGED <<lease, tries>>, pc[s] \in Live, pc'[s] = "settle",
         NEW t \in Transitions, t # "mark",
         chain' = [chain EXCEPT ![Current(s)] = Append(chain[Current(s)], t)]
  PROVE  LeaseShape(s)'
  <1>1. StepType /\ RecordType
    BY DEF Types
  <1>2. tries[s] >= 1 /\ Current(s) \in Id /\ chain[Current(s)] \in Seq(Transitions)
    BY <1>1, CurrentShape DEF LeaseShape, RecordType
  <1>3. chain'[Current(s)] = Append(chain[Current(s)], t)
    BY <1>1, <1>2 DEF RecordType
  <1>4. ~OnlyMarks(chain'[Current(s)])
    BY <1>2, <1>3, MarksAppend
  <1>5. Current(s)' = Current(s)
    BY DEF Current
  <1> QED
    BY <1>2, <1>4, <1>5 DEF LeaseShape, Live

\* An attempt keeps its shape when the step took no lease and nothing was added before its turn.
LEMMA AttemptSame ==
  ASSUME NEW d \in Id, AttemptShape(d), tries'[d[1]] = tries[d[1]], lease'[d] = lease[d],
         d \in unended => d \in unended',
         d[2] > tries[d[1]] => Untouched(d)
  PROVE  AttemptShape(d)'
  BY DEF AttemptShape, Untouched

\* What a step does keeps the shape of its lease.
LEMMA LeaseOwn ==
  ASSUME LeaseInv, NEW s \in Step, Acts(s)
  PROVE  LeaseShape(s)' /\ \A d \in Id : d[1] = s => AttemptShape(d)'
  <1>i. SlotInv /\ LeaseShape(s) /\ \A d \in Id : AttemptShape(d)
    BY DEF LeaseInv
  <1>t. Types
    BY <1>i DEF SlotInv
  <1>c. StepType /\ CallType /\ RecordType /\ PlaneType
    BY <1>t DEF Types
  <1>k. /\ tries[s] \in Nat /\ Current(s)[1] = s /\ Current(s)[2] = tries[s]
        /\ tries[s] >= 1 => Current(s) \in Id
        /\ \A d \in Id : d[1] = s /\ d[2] = tries[s] => d = Current(s)
    BY <1>c, CurrentShape
  <1>n. ASSUME NEW d \in Id, d[2] > tries[s] PROVE d # Current(s)
    BY <1>k, <1>n, IdShape DEF Attempt
  <1>1. CASE Takes(s)
    <2>1. PICK e \in {<<s, tries[s] + 1>>} : e = <<s, tries[s] + 1>> /\ e \in Id /\ e[1] = s /\ e[2] = tries[s] + 1
      BY <1>1, IdShape DEF Takes, TakeLease, LeavesLease
    <2>2. /\ lease' = [lease EXCEPT ![e] = "active"] /\ tries' = [tries EXCEPT ![s] = tries[s] + 1]
          /\ chain' = chain /\ pc[s] = "frame" /\ UNCHANGED <<request, wrote, ran, marked, noted>>
          /\ unended \subseteq unended'
      BY <1>1, <2>1 DEF Takes, TakeLease, LeavesLease, FrameFails, plane
    <2>p. pc'[s] \in {"declare", "dispatch"} \/ (pc'[s] = "ended" /\ e \in unended')
      BY <1>1, <2>1, <1>c DEF Takes, TakeLease, LeavesLease, FrameFails, Ends, Goto, StepType
    <2>3. tries'[s] = tries[s] + 1 /\ Current(s)' = e
      BY <2>1, <2>2, <1>c DEF StepType, Current
    <2>4. lease'[e] = "active" /\ \A d \in Id : d # e => lease'[d] = lease[d]
      BY <2>1, <2>2, <1>c DEF RecordType
    <2>5. chain[e] = <<>>
      BY <2>1, <1>i, <1>k DEF AttemptShape
    <2>6. OnlyMarks(chain'[e])
      BY <2>2, <2>5 DEF OnlyMarks
    <2>7. LeaseShape(s)'
      BY <2>3, <2>4, <2>6, <2>p, <1>k DEF LeaseShape, Live
    <2>8. ASSUME NEW d \in Id, d[1] = s PROVE AttemptShape(d)'
      <3>0. d[2] \in Nat /\ (d[2] = tries[s] + 1 => d = e)
        BY <2>1, <2>8, IdShape DEF Attempt
      <3>1. CASE d[2] > tries[s] + 1
        <4>1. d # e /\ AttemptShape(d) /\ d[2] > tries[d[1]] /\ ~(d[2] < tries'[d[1]])
          BY <1>i, <1>k, <2>1, <2>3, <2>8, <3>0, <3>1
        <4> QED
          BY <4>1, <2>2, <2>4 DEF AttemptShape
      <3>2. CASE d[2] = tries[s] + 1
        BY <1>k, <2>3, <2>8, <3>0, <3>2 DEF AttemptShape
      <3>3. CASE d[2] = tries[s]
        <4>1. d = Current(s) /\ d # e
          BY <1>k, <2>1, <2>8, <3>0, <3>3
        <4>2. tries[s] >= 1
          BY <3>3, IdShape DEF Attempt
        <4>3. lease[d] # "active" \/ d \in unended
          BY <1>i, <2>2, <4>1, <4>2 DEF LeaseShape
        <4> QED
          BY <1>k, <2>2, <2>3, <2>4, <2>8, <3>3, <4>1, <4>3 DEF AttemptShape
      <3>4. CASE d[2] < tries[s]
        <4>1. d # e /\ (lease[d] # "active" \/ d \in unended)
          BY <1>i, <1>k, <2>1, <2>8, <3>0, <3>4 DEF AttemptShape
        <4> QED
          BY <1>k, <2>2, <2>3, <2>4, <2>8, <3>0, <3>4, <4>1 DEF AttemptShape
      <3> QED
        BY <1>k, <3>0, <3>1, <3>2, <3>3, <3>4
    <2> QED
      BY <2>7, <2>8
  <1>2. CASE ~Takes(s)
    <2>0. UNCHANGED <<lease, tries, unmarked>>
      BY <1>2
      DEF Acts, Takes, LeavesLease, Execute, Start, Reserve, Queue, GiveUp, MarkDeclared,
          WorkerGone, Register, Send, Accept, Fate, Resume, Result, Cancel, FrameFails,
          OpenWrite, records, step
    <2>v. marked' \in {marked, marked \cup {Current(s)}} /\ unended' \in {unended, unended \cup {Current(s)}}
      BY <1>2
      DEF Acts, Takes, LeavesLease, Execute, Start, Reserve, Queue, GiveUp, MarkDeclared,
          WorkerGone, Register, Send, Accept, Fate, Resume, Result, Cancel, FrameFails,
          OpenWrite, records, step
    <2>a. ASSUME NEW d \in Id, d[1] = s PROVE AttemptShape(d)'
      <3>1. ASSUME d[2] > tries[s] PROVE Untouched(d)
        <4>1. d # Current(s)
          BY <1>n, <3>1
        <4>2. UNCHANGED wrote /\ (chain' = chain \/ \E t : chain' = [chain EXCEPT ![Current(s)] = t])
          BY <1>2
          DEF Acts, Takes, Execute, Start, Reserve, Queue, GiveUp, MarkDeclared, WorkerGone,
              Register, Send, Accept, Fate, Resume, Result, Cancel, FrameFails, OpenWrite,
              records, plane, EndLease, Refusal
        <4>3. request'[d] = request[d] /\ ran'[d] = ran[d] /\ (d \in noted' <=> d \in noted)
          BY <1>2, <1>c, <4>1
          DEF Acts, Takes, Execute, Start, Reserve, Queue, GiveUp, MarkDeclared, WorkerGone,
              Register, Send, Accept, Fate, Resume, Result, Cancel, FrameFails, OpenWrite,
              plane, Forgotten, PlaneType
        <4>4. chain'[d] = chain[d]
          BY <4>1, <4>2, <1>c DEF RecordType
        <4> QED
          BY <2>0, <2>v, <4>1, <4>2, <4>3, <4>4 DEF Untouched
      <3> QED
        BY <1>i, <2>0, <2>v, <2>a, <3>1, AttemptSame
    <2>z. SUFFICES LeaseShape(s)'
      BY <2>a
    <2>b. ASSUME NEW l, NEW t \in Transitions, t # "mark", EndLease(s, t, l), pc[s] \in Live PROVE LeaseShape(s)'
      <3>1. pc'[s] = "settle" /\ chain' = [chain EXCEPT ![Current(s)] = Append(chain[Current(s)], t)]
        BY <2>b, <1>c DEF EndLease, Goto, StepType
      <3> QED
        BY <1>i, <1>t, <2>0, <2>b, <3>1, LeaseEnds
    <2>e. "failed" \in Transitions /\ "expired" \in Transitions /\ "completed" \in Transitions
      BY DEF Transitions
    <2>1. CASE Start(s)
      <3>1. /\ UNCHANGED <<chain, aborted>> /\ pc[s] \in {"start", "group"}
            /\ pc'[s] \in {"start", "group", "queue", "ended"}
        BY <2>1, <1>c DEF Start, Goto, records, StepType
      <3> QED
        BY <1>i, <2>0, <2>v, <3>1, LeaseSame
    <2>2. CASE Reserve(s) \/ Queue(s) \/ GiveUp(s) \/ WorkerGone(s) \/ FrameFails(s)
      <3>1. /\ UNCHANGED <<chain, aborted>> /\ pc[s] \in {"queue", "frame"}
            /\ pc'[s] \in {"queue", "frame", "ended"}
        BY <2>2, <1>c
        DEF Reserve, Queue, GiveUp, WorkerGone, FrameFails, Ends, Reschedules, Goto, records,
            StepType
      <3> QED
        BY <1>i, <2>0, <2>v, <3>1, LeaseSame
    <2>3. CASE Cancel(s) \/ \E i \in 1..MaxWrites : OpenWrite(s, i)
      <3>1. UNCHANGED <<chain, pc>> /\ (s \in aborted => s \in aborted')
        BY <2>3 DEF Cancel, OpenWrite, records, step
      <3> QED
        BY <1>i, <2>0, <2>v, <3>1, LeaseSame
    <2>4. CASE Register(s)
      <3>1. CASE Refusal(s)
        BY <2>4, <3>1, <2>b, <2>e DEF Register, Refusal, Live
      <3>2. CASE ~Refusal(s)
        <4>1. UNCHANGED <<chain, aborted>> /\ pc[s] = "dispatch" /\ pc'[s] = "busy"
          BY <2>4, <3>2, <1>c DEF Register, Goto, StepType
        <4> QED
          BY <1>i, <2>0, <2>v, <4>1, LeaseSame
      <3> QED
        BY <3>1, <3>2
    <2>5. CASE Send(s)
      <3>1. CASE EndLease(s, "failed", "cancelled") \/ EndLease(s, "expired", "error")
        BY <2>5, <3>1, <2>b, <2>e DEF Send, Live
      <3>2. CASE ~(EndLease(s, "failed", "cancelled") \/ EndLease(s, "expired", "error"))
        <4>1. UNCHANGED <<chain, aborted>> /\ pc[s] = "busy" /\ pc'[s] \in {"sent", "runs", "fate"}
          BY <2>5, <3>2, <1>c DEF Send, Goto, CallsClose, StepType
        <4> QED
          BY <1>i, <2>0, <2>v, <4>1, LeaseSame DEF Live
      <3> QED
        BY <3>1, <3>2
    <2>6. CASE Accept(s)
      <3>1. CASE Refusal(s)
        BY <2>6, <3>1, <2>b, <2>e DEF Accept, Refusal, Live
      <3>2. CASE ~Refusal(s)
        <4>1. UNCHANGED <<chain, aborted>> /\ pc[s] = "sent" /\ pc'[s] = "runs"
          BY <2>6, <3>2, <1>c DEF Accept, Goto, StepType
        <4> QED
          BY <1>i, <2>0, <2>v, <4>1, LeaseSame DEF Live
      <3> QED
        BY <3>1, <3>2
    <2>7. CASE Result(s)
      BY <2>7, <2>b, <2>e DEF Result, Live
    <2>8. CASE Fate(s)
      <3>1. CASE EndLease(s, IF s \in had THEN "failed" ELSE "expired", "lost")
        BY <2>8, <3>1, <2>b, <2>e DEF Fate, Live
      <3>2. CASE ~EndLease(s, IF s \in had THEN "failed" ELSE "expired", "lost")
        <4>1. UNCHANGED <<chain, aborted>> /\ pc[s] = "fate" /\ pc'[s] = "ended" /\ s \in aborted
          BY <2>8, <3>2, <1>c DEF Fate, Ends, StepType
        <4> QED
          BY <1>i, <2>0, <2>v, <4>1, LeaseSame
      <3> QED
        BY <3>1, <3>2
    <2>9. CASE Resume(s)
      <3>1. /\ UNCHANGED <<chain, aborted>> /\ pc[s] = "settle" /\ pc'[s] \in {"queue", "ended"}
            /\ OnlyMarks(chain[Current(s)])
        BY <2>9, <1>c DEF Resume, Lost, Ends, Reschedules, Goto, records, StepType, OnlyMarks
      <3>2. lease[Current(s)] # "active" \/ Current(s) \in unended
        BY <1>i, <3>1 DEF LeaseShape
      <3> QED
        BY <1>i, <2>0, <2>v, <3>1, <3>2, LeaseSame
    <2>10. CASE MarkDeclared(s)
      <3>1. /\ UNCHANGED <<chain, aborted>> /\ pc[s] = "declare"
            /\ pc'[s] = "dispatch" \/ (pc'[s] = "ended" /\ Current(s) \in unended')
        BY <2>10, <1>c DEF MarkDeclared, Goto, Ends, StepType
      <3> QED
        BY <1>i, <2>0, <2>v, <3>1, LeaseSame
    <2> QED
      BY <1>2, <2>1, <2>2, <2>3, <2>4, <2>5, <2>6, <2>7, <2>8, <2>9, <2>10 DEF Acts, Takes,
                                                                               Execute
  <1> QED
    BY <1>1, <1>2

\* A lease keeps its shape when nothing of its step and its attempt changes.
LEMMA LeaseOther ==
  ASSUME Types, NEW q \in Step, LeaseShape(q), tries'[q] = tries[q], q \in aborted => q \in aborted',
         \/ pc'[q] = pc[q]
         \/ pc[q] = "group" /\ pc'[q] = "ended"
         \/ pc[q] \in {"sent", "runs"} /\ pc'[q] = "fate",
         tries[q] >= 1 => Untouched(Current(q))
  PROVE  LeaseShape(q)'
  <1>1. Current(q)' = Current(q) /\ tries[q] \in Nat
    BY CurrentShape DEF Current, Types
  <1> QED
    BY <1>1 DEF LeaseShape, Live, Untouched

\* What the next transition of a lease does to it, also when it throws.
LEMMA TransitionLease ==
  ASSUME Types, NEW d \in Id, Transition(d) \/ TransitionThrows(d)
  PROVE  \/ lease'[d] = IF Head(chain[d]) = "mark" \/ lease[d] # "active" THEN lease[d] ELSE Head(chain[d])
         \/ lease'[d] = lease[d] /\ (Head(chain[d]) # "mark" => d \in unended')
  <1>1. RecordType
    BY DEF Types
  <1>2. Applied(d) \/ (UNCHANGED lease /\ (Head(chain[d]) # "mark" => d \in unended'))
    BY DEF Transition, TransitionThrows
  <1>3. ASSUME Applied(d)
        PROVE  lease'[d] = IF Head(chain[d]) = "mark" \/ lease[d] # "active" THEN lease[d] ELSE Head(chain[d])
    BY <1>1, <1>3 DEF Applied, RecordType
  <1> QED
    BY <1>2, <1>3

\* A transition or a write of an attempt keeps the shape of its lease.
LEMMA LeaseWrite ==
  ASSUME LeaseInv, NEW d \in Id, Writes(d)
  PROVE  LeaseShape(d[1])' /\ AttemptShape(d)' /\ d[2] <= tries[d[1]]
  <1>i. SlotInv /\ LeaseShape(d[1]) /\ AttemptShape(d) /\ d[1] \in Step
    BY IdShape DEF LeaseInv
  <1>t. Types
    BY <1>i DEF SlotInv
  <1>c. StepType /\ RecordType /\ PlaneType
    BY <1>t DEF Types
  <1>k. /\ tries[d[1]] \in Nat /\ d[2] \in Nat /\ d[2] >= 1
        /\ d[2] = tries[d[1]] => d = Current(d[1])
        /\ Current(d[1])[2] = tries[d[1]]
        /\ tries[d[1]] >= 1 => Current(d[1]) \in Id
    BY <1>c, <1>i, CurrentShape, IdShape DEF Attempt
  <1>f. UNCHANGED <<pc, tries, aborted>> /\ \A e \in Id : e # d => Untouched(e)
    BY <1>t, WriteFrame
  <1>1. ~(d[2] > tries[d[1]])
    <2>1. chain[d] # <<>> \/ \E i \in 1..MaxWrites : request[d][i] # "none"
      BY DEF Writes, Transition, TransitionThrows, RecordWrite, Persist
    <2> QED
      BY <1>i, <2>1 DEF AttemptShape
  <1>2. d[2] <= tries[d[1]]
    BY <1>1, <1>k
  <1>s. chain[d] \in Seq(Transitions)
    BY <1>c DEF RecordType
  <1>m. "mark" \in Transitions
    BY DEF Transitions
  <1>3. /\ lease[d] # "active" => lease'[d] # "active"
        /\ lease[d] = "active" /\ OnlyMarks(chain[d]) => lease'[d] = "active" /\ OnlyMarks(chain'[d])
        /\ ~OnlyMarks(chain[d]) => lease'[d] # "active" \/ ~OnlyMarks(chain'[d]) \/ d \in unended'
        /\ d \in unended => d \in unended'
    <2>1. CASE Transition(d) \/ TransitionThrows(d)
      <3>t. chain[d] # <<>> /\ chain' = [chain EXCEPT ![d] = Tail(chain[d])]
        BY <2>1 DEF Transition, TransitionThrows
      <3>1. chain[d] # <<>> /\ chain'[d] = Tail(chain[d]) /\ Head(chain[d]) \in Transitions
        BY <3>t, <1>c, <1>s DEF RecordType
      <3>2. OnlyMarks(chain[d]) <=> Head(chain[d]) = "mark" /\ OnlyMarks(Tail(chain[d]))
        BY <1>s, <3>1, MarksTail
      <3>3. \/ lease'[d] = IF Head(chain[d]) = "mark" \/ lease[d] # "active" THEN lease[d] ELSE Head(chain[d])
            \/ lease'[d] = lease[d] /\ (Head(chain[d]) # "mark" => d \in unended')
        BY <1>t, <2>1, TransitionLease
      <3>4. d \in unended => d \in unended'
        BY <2>1 DEF Transition, TransitionThrows
      <3> QED
        BY <3>1, <3>2, <3>3, <3>4 DEF Transitions
    <2>2. ASSUME NEW i \in 1..MaxWrites, RecordWrite(d, i) \/ Persist(d, i)
          PROVE  UNCHANGED <<lease, unended>> /\ (chain'[d] = chain[d] \/ chain'[d] = Append(chain[d], "mark"))
      BY <2>2, <1>c DEF RecordWrite, Persist, records, RecordType
    <2>3. OnlyMarks(Append(chain[d], "mark")) <=> OnlyMarks(chain[d])
      BY <1>s, <1>m, MarksAppend
    <2> QED
      BY <2>1, <2>2, <2>3 DEF Writes
  <1>4. AttemptShape(d)'
    BY <1>1, <1>3, <1>i, <1>f DEF AttemptShape
  <1>5. LeaseShape(d[1])'
    <2>2. CASE d[2] = tries[d[1]]
      <3>1. Current(d[1])' = d /\ Current(d[1]) = d
        BY <1>k, <1>f, <2>2 DEF Current
      <3> QED
        BY <1>i, <1>3, <1>f, <3>1 DEF LeaseShape, Live
    <2>3. CASE d[2] # tries[d[1]]
      <3>1. tries[d[1]] >= 1 => Untouched(Current(d[1]))
        BY <1>f, <1>k, <2>3
      <3> QED
        BY <1>i, <1>t, <1>f, <3>1, LeaseOther
    <2> QED
      BY <2>2, <2>3
  <1> QED
    BY <1>2, <1>4, <1>5

\* Every step of the specification keeps the shape of the leases.
LEMMA LeaseInvStep == LeaseInv /\ [Next]_vars => LeaseInv'
  <1> SUFFICES ASSUME LeaseInv, [Next]_vars PROVE LeaseInv'
    OBVIOUS
  <1>i. SlotInv /\ (\A s \in Step : LeaseShape(s)) /\ \A d \in Id : AttemptShape(d)
    BY DEF LeaseInv
  <1>t. Types /\ StepType
    BY <1>i DEF SlotInv, Types
  <1>k. \A q \in Step : Current(q)[1] = q /\ (tries[q] >= 1 => Current(q) \in Id)
    BY <1>t, CurrentShape
  <1>n. SlotInv'
    BY <1>i, SlotInvStep
  <1>1. ASSUME NEW s \in Step, Acts(s) PROVE LeaseInv'
    <2>1. ASSUME NEW q \in Step PROVE LeaseShape(q)'
      <3>1. CASE q = s
        BY <1>1, <3>1, LeaseOwn
      <3>2. CASE q # s
        <4>1. Kept(q)
          BY <1>1, <1>t, <3>2, StepFrame
        <4>2. ASSUME tries[q] >= 1 PROVE Untouched(Current(q))
          <5>1. Current(q) \in Id /\ Current(q)[1] # s
            BY <1>k, <3>2, <4>2
          <5> QED
            BY <1>1, <1>t, <5>1, RecordFrame
        <4> QED
          BY <1>i, <1>t, <4>1, <4>2, LeaseOther DEF Kept
      <3> QED
        BY <3>1, <3>2
    <2>2. ASSUME NEW d \in Id PROVE AttemptShape(d)'
      <3>1. CASE d[1] = s
        BY <1>1, <3>1, LeaseOwn
      <3>2. CASE d[1] # s
        <4>1. Untouched(d)
          BY <1>1, <1>t, <3>2, RecordFrame
        <4>2. tries'[d[1]] = tries[d[1]]
          BY <1>1, <1>t, <3>2, StepFrame, IdShape DEF Kept
        <4>3. lease'[d] = lease[d] /\ (d \in unended => d \in unended')
          BY <4>1 DEF Untouched
        <4> QED
          BY <1>i, <4>1, <4>2, <4>3, AttemptSame
      <3> QED
        BY <3>1, <3>2
    <2> QED
      BY <1>n, <2>1, <2>2 DEF LeaseInv
  <1>2. ASSUME NEW d \in Id, Writes(d) PROVE LeaseInv'
    <2>f. UNCHANGED <<pc, tries, aborted>> /\ \A e \in Id : e # d => Untouched(e)
      BY <1>2, <1>t, WriteFrame
    <2>o. LeaseShape(d[1])' /\ AttemptShape(d)'
      BY <1>2, LeaseWrite
    <2>1. ASSUME NEW q \in Step PROVE LeaseShape(q)'
      <3>1. CASE q = d[1]
        BY <2>o, <3>1
      <3>2. CASE q # d[1]
        <4>1. ASSUME tries[q] >= 1 PROVE Untouched(Current(q))
          <5>1. Current(q) \in Id /\ Current(q) # d
            BY <1>k, <3>2, <4>1
          <5> QED
            BY <2>f, <5>1
        <4> QED
          BY <1>i, <1>t, <2>f, <4>1, LeaseOther
      <3> QED
        BY <3>1, <3>2
    <2>2. ASSUME NEW e \in Id PROVE AttemptShape(e)'
      <3>1. CASE e = d
        BY <2>o, <3>1
      <3>2. CASE e # d
        BY <1>i, <2>f, <3>2, AttemptSame DEF Untouched
      <3> QED
        BY <3>1, <3>2
    <2> QED
      BY <1>n, <2>1, <2>2 DEF LeaseInv
  <1>3. ASSUME UNCHANGED <<records, plane, aborted, tries>>, \A q \in Step : Closed(q) PROVE LeaseInv'
    <2>u. \A d \in Id : Untouched(d)
      BY <1>3 DEF records, plane, Untouched
    <2>1. ASSUME NEW q \in Step PROVE LeaseShape(q)'
      <3>1. Closed(q)
        BY <1>3
      <3>2. tries[q] >= 1 => Untouched(Current(q))
        BY <1>k, <2>u
      <3> QED
        BY <1>3, <1>i, <1>t, <3>1, <3>2, LeaseOther DEF Closed
    <2>2. ASSUME NEW d \in Id PROVE AttemptShape(d)'
      BY <1>3, <1>i, <2>u, AttemptSame DEF Untouched
    <2> QED
      BY <1>n, <2>1, <2>2 DEF LeaseInv
  <1>4. ASSUME NEW w \in Worker, PoolActs(w) PROVE LeaseInv'
    BY <1>3, <1>4, <1>t, PoolFrame
  <1>5. CASE UNCHANGED vars
    <2>1. UNCHANGED <<records, plane, aborted, tries>> /\ \A q \in Step : Closed(q)
      BY <1>5 DEF vars, step, Closed
    <2> QED
      BY <1>3, <2>1
  <1> QED
    BY <1>1, <1>2, <1>4, <1>5 DEF Next, Acts, PoolActs

\* LeaseInv is an invariant.
LEMMA LeaseInvariant == Spec => []LeaseInv
  BY LeaseInvInit, LeaseInvStep, PTL DEF Spec

\* executeRemote returns only when the transition that ends the lease of its attempt has had its
\* turn: the marks of late writes on the same chain do not let it pass, a refused or lost attempt
\* that is followed by another leaves none active either.  Only a ledger that throws leaves one: at
\* the acquire, at the mark of a step that declares its writes, or at the end of the lease.
THEOREM LeasesEnd == Spec => []LeaseEndsWithStep
  <1>1. LeaseInv => LeaseEndsWithStep
    <2> SUFFICES ASSUME LeaseInv, NEW s \in Step, pc[s] = "ended", s \notin aborted, NEW k \in Attempt
                 PROVE  lease[<<s, k>>] = "active" => <<s, k>> \in unended
      BY DEF LeaseEndsWithStep, Ended
    <2>1. StepType
      BY DEF LeaseInv, SlotInv, Types
    <2>2. PICK d \in {<<s, k>>} : d = <<s, k>> /\ d \in Id /\ d[1] = s /\ d[2] = k /\ k \in Nat /\ k >= 1
      BY IdShape DEF Attempt
    <2>3. tries[s] \in Nat /\ (d[2] = tries[s] => d = Current(s))
      BY <2>1, <2>2, CurrentShape
    <2>4. AttemptShape(d) /\ LeaseShape(s)
      BY <2>2 DEF LeaseInv
    <2>5. lease[d] = "active" => d \in unended
      BY <2>2, <2>3, <2>4 DEF AttemptShape, LeaseShape
    <2> QED
      BY <2>2, <2>5
  <1> QED
    BY <1>1, LeaseInvariant, PTL

-----------------------------------------------------------------------------
(* The group. *)

\* A step settles the group only as its first and when it ends, and becomes the first only of a
\* group without a pin.
LEMMA SettleFrame ==
  ASSUME Types, NEW s \in Step, Acts(s)
  PROVE  /\ \/ pin' = pin
            \/ first = s /\ first' = NoOne /\ pc'[s] = "ended" /\ pin' = at[s] /\ at[s] \in Worker
         /\ \/ first' = first
            \/ first = s /\ first' = NoOne /\ pc'[s] = "ended"
            \/ first = NoOne /\ pin = NoOne /\ first' = s /\ pin' = pin
  <1>t. StepType
    BY DEF Types
  <1>1. ASSUME NEW r, Ends(s, r)
        PROVE  /\ \/ pin' = pin
                  \/ first = s /\ first' = NoOne /\ pc'[s] = "ended" /\ pin' = at[s] /\ at[s] \in Worker
               /\ \/ first' = first
                  \/ first = s /\ first' = NoOne /\ pc'[s] = "ended"
    BY <1>1, <1>t DEF Ends, SettleGroup, StepType
  <1>2. CASE Start(s)
    BY <1>2 DEF Start
  <1>3. CASE ~Start(s)
    <2>1. (\E r : Ends(s, r)) \/ UNCHANGED <<pin, first>>
      BY <1>3
      DEF Acts, Execute, Reserve, Queue, GiveUp, TakeLease, MarkDeclared, WorkerGone,
          Register, Send, Accept, Fate, Resume, Result, Cancel, FrameFails, OpenWrite,
          Reschedules, Lost, group
    <2> QED
      BY <1>1, <2>1
  <1> QED
    BY <1>2, <1>3

\* The members of the group after a step of one of them.
LEMMA MemberOwn ==
  ASSUME GroupInv, NEW s \in Step, Acts(s), asked' = asked
  PROVE  MemberShape(s)'
  <1>i. LeaseInv /\ MemberShape(s) /\ LeaseShape(s) /\ (first # NoOne => pin = NoOne)
    BY DEF GroupInv, LeaseInv
  <1>t. Types /\ PlaceShape
    BY <1>i DEF LeaseInv, SlotInv
  <1>c. StepType /\ GroupType /\ RecordType /\ PlaneType
    BY <1>t DEF Types
  <1>g. Group' = Group
    BY DEF Group
  <1>f. /\ \/ pin' = pin
           \/ first = s /\ first' = NoOne /\ pc'[s] = "ended" /\ pin' = at[s] /\ at[s] \in Worker
        /\ \/ first' = first
           \/ first = s /\ first' = NoOne /\ pc'[s] = "ended"
           \/ first = NoOne /\ pin = NoOne /\ first' = s /\ pin' = pin
    BY <1>t, SettleFrame
  <1>p. s \in pinned => pin # NoOne
    BY <1>t DEF PlaceShape
  <1>1. s \in Group /\ pc'[s] \notin {"start", "group", "ended"} => s \in pinned' \/ first' = s
    <2>1. CASE Start(s)
      BY <2>1, <1>c DEF Start, Goto, StepType, Group
    <2>2. CASE ~Start(s)
      <3>1. pinned' = pinned
        BY <2>2
        DEF Acts, Execute, Reserve, Queue, GiveUp, TakeLease, MarkDeclared, WorkerGone,
            Register, Send, Accept, Fate, Resume, Result, Cancel, FrameFails, OpenWrite, group
      <3>2. pc[s] \in {"start", "group", "ended"} => pc'[s] = pc[s]
        BY <2>2
        DEF Acts, Execute, Reserve, Queue, GiveUp, TakeLease, MarkDeclared, WorkerGone,
            Register, Send, Accept, Fate, Resume, Result, Cancel, FrameFails, OpenWrite, step
      <3> QED
        BY <1>i, <1>f, <3>1, <3>2 DEF MemberShape
    <2> QED
      BY <2>1, <2>2
  <1>2. pc'[s] \in {"start", "group"} => at'[s] = NoOne
    <2>1. pc'[s] \in {"start", "group"} => pc[s] \in {"start", "group"} /\ at' = at
      BY <1>c
      DEF Acts, Execute, Start, Reserve, Queue, GiveUp, TakeLease, MarkDeclared, WorkerGone,
          Register, Send, Accept, Fate, Resume, Result, Cancel, FrameFails, OpenWrite, step,
          Goto, Ends, Reschedules, Lost, EndLease, Refusal, CallsClose, StepType
    <2> QED
      BY <1>i, <2>1 DEF MemberShape
  <1>3. s \in pinned' => at'[s] \in {NoOne, pin'}
    <2>1. CASE Start(s)
      BY <2>1, <1>i DEF Start, MemberShape
    <2>2. CASE ~Start(s)
      <3>1. pinned' = pinned
        BY <2>2
        DEF Acts, Execute, Reserve, Queue, GiveUp, TakeLease, MarkDeclared, WorkerGone,
            Register, Send, Accept, Fate, Resume, Result, Cancel, FrameFails, OpenWrite, group
      <3>2. at'[s] \in {at[s], NoOne} \/ (s \in pinned => at'[s] = pin)
        BY <2>2, <1>c
        DEF Acts, Execute, Reserve, Schedulable, Queue, GiveUp, TakeLease, MarkDeclared,
            WorkerGone, Register, Send, Accept, Fate, Resume, Result, Cancel, FrameFails,
            OpenWrite, step, Reschedules, Lost, StepType
      <3>3. s \in pinned => pin' = pin
        BY <1>f, <1>i, <1>p, <1>c DEF GroupType
      <3> QED
        BY <1>i, <3>1, <3>2, <3>3 DEF MemberShape
    <2> QED
      BY <2>1, <2>2
  <1>4. pc'[s] = "runs" \/ (pc'[s] = "settle" /\ then'[s] = "ok") => ran'[Current(s)'] = at'[s]
    <2>1. CASE Accept(s)
      <3>1. Current(s) \in Id /\ Current(s)' = Current(s) /\ at' = at
        BY <2>1, <1>i, <1>c, CurrentShape DEF Accept, LeaseShape, Live, Current
      <3>2. pc'[s] = "runs" => ran' = [ran EXCEPT ![Current(s)] = at[s]]
        BY <2>1, <1>c DEF Accept, Refusal, EndLease, Goto, StepType
      <3>3. ~(pc'[s] = "settle" /\ then'[s] = "ok")
        BY <2>1, <1>c DEF Accept, Refusal, EndLease, Goto, StepType
      <3> QED
        BY <1>c, <3>1, <3>2, <3>3 DEF PlaneType
    <2>2. CASE Result(s) \/ Cancel(s) \/ \E i \in 1..MaxWrites : OpenWrite(s, i)
      <3>1. UNCHANGED <<ran, at, tries>> /\ Current(s)' = Current(s)
        BY <2>2 DEF Result, Cancel, OpenWrite, plane, step, Current
      <3>2. pc'[s] = "runs" \/ (pc'[s] = "settle" /\ then'[s] = "ok") =>
              pc[s] = "runs" \/ (pc[s] = "settle" /\ then[s] = "ok")
        BY <2>2, <1>c DEF Result, Cancel, OpenWrite, step, EndLease, Goto, StepType
      <3> QED
        BY <1>i, <3>1, <3>2 DEF MemberShape
    <2>3. CASE ~(Accept(s) \/ Result(s) \/ Cancel(s) \/ \E i \in 1..MaxWrites : OpenWrite(s, i))
      <3>1. pc'[s] # "runs" /\ ~(pc'[s] = "settle" /\ then'[s] = "ok")
        BY <2>3, <1>c
        DEF Acts, Execute, Start, Reserve, Queue, GiveUp, TakeLease, MarkDeclared, WorkerGone,
            Register, Send, Fate, Resume, FrameFails, Goto, Ends, Reschedules, Lost, EndLease,
            Refusal, CallsClose, StepType
      <3> QED
        BY <3>1
    <2> QED
      BY <2>1, <2>2, <2>3
  <1> QED
    BY <1>g, <1>1, <1>2, <1>3, <1>4 DEF MemberShape

\* ... and those that another member leaves as they are.
LEMMA MemberOther ==
  ASSUME GroupInv, NEW s \in Step, Acts(s), asked' = asked, NEW q \in Step, q # s
  PROVE  MemberShape(q)'
  <1>i. LeaseInv /\ MemberShape(q) /\ LeaseShape(q) /\ (first # NoOne => pin = NoOne)
    BY DEF GroupInv, LeaseInv
  <1>t. Types /\ PlaceShape
    BY <1>i DEF LeaseInv, SlotInv
  <1>c. StepType /\ GroupType
    BY <1>t DEF Types
  <1>g. Group' = Group
    BY DEF Group
  <1>f. /\ \/ pin' = pin
           \/ first = s /\ first' = NoOne /\ pc'[s] = "ended" /\ pin' = at[s] /\ at[s] \in Worker
        /\ \/ first' = first
           \/ first = s /\ first' = NoOne /\ pc'[s] = "ended"
           \/ first = NoOne /\ pin = NoOne /\ first' = s /\ pin' = pin
    BY <1>t, SettleFrame
  <1>k. Kept(q)
    BY <1>t, StepFrame
  <1>p. pinned # {} => pin # NoOne
    BY <1>t DEF PlaceShape
  <1>n. s # NoOne /\ q # NoOne
    OBVIOUS
  <1>1. q \in Group /\ pc'[q] \notin {"start", "group", "ended"} => q \in pinned' \/ first' = q
    <2>1. ASSUME q \in Group, pc'[q] \notin {"start", "group", "ended"} PROVE q \in pinned \/ first = q
      BY <1>i, <1>k, <2>1 DEF MemberShape, Kept
    <2>2. q \in pinned => q \in pinned'
      BY <1>k DEF Kept
    <2>3. first = q => first' = q
      BY <1>f, <1>n
    <2> QED
      BY <2>1, <2>2, <2>3
  <1>2. pc'[q] \in {"start", "group"} => at'[q] = NoOne
    BY <1>i, <1>k DEF MemberShape, Kept
  <1>3. q \in pinned' => at'[q] \in {NoOne, pin'}
    <2>1. q \in pinned => pin' = pin
      BY <1>f, <1>i, <1>p, <1>n
    <2> QED
      BY <1>i, <1>k, <2>1 DEF MemberShape, Kept
  <1>4. pc'[q] = "runs" \/ (pc'[q] = "settle" /\ then'[q] = "ok") => ran'[Current(q)'] = at'[q]
    <2>1. ASSUME pc'[q] = "runs" \/ (pc'[q] = "settle" /\ then'[q] = "ok") PROVE ran'[Current(q)'] = at'[q]
      <3>1. pc[q] = "runs" \/ (pc[q] = "settle" /\ then[q] = "ok")
        BY <1>k, <2>1 DEF Kept
      <3>2. Current(q) \in Id /\ Current(q)[1] # s
        BY <1>i, <1>c, <3>1, CurrentShape DEF LeaseShape, Live
      <3>3. Untouched(Current(q))
        BY <1>t, <3>2, RecordFrame
      <3>4. Current(q)' = Current(q)
        BY <1>k DEF Kept, Current
      <3> QED
        BY <1>i, <1>k, <3>1, <3>3, <3>4 DEF Untouched, MemberShape, Kept
    <2> QED
      BY <2>1
  <1> QED
    BY <1>g, <1>1, <1>2, <1>3, <1>4 DEF MemberShape

\* An attempt that completes when a transition joins its chain did so before, or it joined.
LEMMA CompletesAppend ==
  ASSUME NEW c \in Seq(Transitions), NEW t \in Transitions,
         \E i \in DOMAIN Append(c, t) : Append(c, t)[i] = "completed"
  PROVE  t = "completed" \/ \E i \in DOMAIN c : c[i] = "completed"
  <1>1. /\ Len(c) \in Nat /\ DOMAIN c = 1..Len(c) /\ DOMAIN Append(c, t) = 1..(Len(c) + 1)
        /\ \A i \in 1..Len(c) : Append(c, t)[i] = c[i]
        /\ Append(c, t)[Len(c) + 1] = t
    OBVIOUS
  <1>2. \A i \in 1..(Len(c) + 1) : i \in 1..Len(c) \/ i = Len(c) + 1
    BY <1>1
  <1> QED
    BY <1>1, <1>2

\* The attempt that runs has not completed.
LEMMA NotCompleted ==
  ASSUME NEW s \in Step, LeaseShape(s), pc[s] \in Live
  PROVE  ~Completes(Current(s))
  BY DEF LeaseShape, Completes, OnlyMarks, Live

\* The completed attempts of a step after it went on.
LEMMA CompletedOwn ==
  ASSUME GroupInv, NEW s \in Step, Acts(s), asked' = asked, NEW d \in Id, d[1] = s
  PROVE  CompletedShape(d)'
  <1>i. LeaseInv /\ MemberShape(s) /\ LeaseShape(s) /\ CompletedShape(d) /\ AttemptShape(d) /\ (first # NoOne => pin = NoOne)
    BY DEF GroupInv, LeaseInv
  <1>t. Types /\ PlaceShape
    BY <1>i DEF LeaseInv, SlotInv
  <1>c. StepType /\ GroupType /\ RecordType /\ PlaneType
    BY <1>t DEF Types
  <1>k. /\ tries[s] \in Nat /\ Current(s)[1] = s /\ Current(s)[2] = tries[s]
        /\ tries[s] >= 1 => Current(s) \in Id
    BY <1>c, CurrentShape
  <1>f. \/ pin' = pin
        \/ first = s /\ first' = NoOne /\ pc'[s] = "ended" /\ pin' = at[s] /\ at[s] \in Worker
    BY <1>t, SettleFrame
  <1>1. CASE Takes(s)
    <2>1. PICK e \in {<<s, tries[s] + 1>>} : e = <<s, tries[s] + 1>> /\ e \in Id /\ e[1] = s /\ e[2] = tries[s] + 1
      BY <1>1, IdShape DEF Takes, TakeLease, LeavesLease
    <2>2. /\ lease' = [lease EXCEPT ![e] = "active"] /\ chain' = chain /\ pc[s] = "frame"
          /\ UNCHANGED ran
      BY <1>1, <2>1 DEF Takes, TakeLease, LeavesLease, FrameFails, plane
    <2>p. pin # NoOne => pin' = pin
      BY <1>f, <1>i
    <2>3. CASE d = e
      <3>1. chain[d] = <<>>
        BY <1>i, <1>k, <2>1, <2>3 DEF AttemptShape
      <3>2. lease'[d] = "active" /\ chain'[d] = <<>>
        BY <2>2, <2>3, <3>1, <1>c DEF RecordType
      <3> QED
        BY <3>2 DEF CompletedShape, Completes
    <2>4. CASE d # e
      <3>1. lease'[d] = lease[d] /\ chain'[d] = chain[d]
        BY <2>2, <2>4, <1>c DEF RecordType
      <3>2. Completes(d) => (d[1] \in Group => pin # NoOne /\ ran[d] = pin)
        BY <1>i, <2>2 DEF CompletedShape
      <3> QED
        BY <2>2, <2>p, <3>1, <3>2 DEF CompletedShape, Completes, Group
    <2> QED
      BY <2>3, <2>4
  <1>2. CASE ~Takes(s)
    <2>1. UNCHANGED <<lease, tries>>
      BY <1>2
      DEF Acts, Takes, LeavesLease, Execute, Start, Reserve, Queue, GiveUp, MarkDeclared,
          WorkerGone, Register, Send, Accept, Fate, Resume, Result, Cancel, FrameFails,
          OpenWrite, records, step
    <2>u. Current(s)' = Current(s)
      BY <2>1 DEF Current
    <2>2. CASE pc[s] \in Live
      <3>1. CASE d = Current(s)
        <4>1. ~Completes(d)
          BY <1>i, <2>2, <3>1, NotCompleted
        <4>2. \/ chain' = chain
              \/ \E t \in Transitions :
                    /\ chain' = [chain EXCEPT ![d] = Append(chain[d], t)]
                    /\ t = "completed" => pc'[s] = "settle" /\ then'[s] = "ok"
          BY <1>2, <1>c, <2>2, <3>1
          DEF Acts, Takes, LeavesLease, Execute, Start, Reserve, Queue, GiveUp, MarkDeclared,
              WorkerGone, Register, Send, Accept, Fate, Resume, Result, Cancel, FrameFails,
              OpenWrite, records, EndLease, Refusal, Goto, StepType, Transitions, Live
        <4>3. CASE chain' = chain
          BY <2>1, <4>1, <4>3 DEF CompletedShape, Completes
        <4>4. ASSUME NEW t \in Transitions, chain' = [chain EXCEPT ![d] = Append(chain[d], t)],
                     t = "completed" => pc'[s] = "settle" /\ then'[s] = "ok"
              PROVE  CompletedShape(d)'
          <5>1. chain[d] \in Seq(Transitions) /\ chain'[d] = Append(chain[d], t)
            BY <1>c, <4>4 DEF RecordType
          <5>2. Completes(d)' => t = "completed"
            BY <2>1, <4>1, <5>1, CompletesAppend DEF Completes
          <5> QED
            BY <2>u, <3>1, <4>4, <5>2 DEF CompletedShape
        <4> QED
          BY <4>2, <4>3, <4>4
      <3>2. CASE d # Current(s)
        <4>1. chain'[d] = chain[d] /\ ran'[d] = ran[d]
          BY <1>2, <1>c, <2>2, <3>2
          DEF Acts, Takes, LeavesLease, Execute, Start, Reserve, Queue, GiveUp, MarkDeclared,
              WorkerGone, Register, Send, Accept, Fate, Resume, Result, Cancel, FrameFails,
              OpenWrite, records, plane, EndLease, Refusal, RecordType, PlaneType, Live
        <4>2. Completes(d) => (d[1] \in Group => pin # NoOne /\ ran[d] = pin)
          BY <1>i, <3>2 DEF CompletedShape
        <4>3. pin # NoOne => pin' = pin
          BY <1>f, <1>i, <1>c
        <4> QED
          BY <2>1, <4>1, <4>2, <4>3 DEF CompletedShape, Completes, Group
      <3> QED
        BY <3>1, <3>2
    <2>3. CASE pc[s] \notin Live
      <3>1. UNCHANGED <<chain, ran>>
        BY <1>2, <2>3
        DEF Acts, Takes, LeavesLease, Execute, Start, Reserve, Queue, GiveUp, MarkDeclared,
            WorkerGone, Register, Send, Accept, Fate, Resume, Result, Cancel, FrameFails,
            OpenWrite, records, plane, Live
      <3>2. pin # NoOne => pin' = pin
        BY <1>f, <1>i
      <3>3. CASE d[1] \in Group => pin # NoOne /\ ran[d] = pin
        BY <2>1, <3>1, <3>2, <3>3 DEF CompletedShape, Completes, Group
      <3>4. CASE ~Completes(d)
        BY <2>1, <3>1, <3>4 DEF CompletedShape, Completes
      <3>5. CASE d = Current(s) /\ pc[s] = "settle" /\ then[s] = "ok"
        <4>1. CASE pc'[s] = pc[s] /\ then'[s] = then[s]
          BY <2>u, <3>5, <4>1 DEF CompletedShape
        <4>2. CASE ~(pc'[s] = pc[s] /\ then'[s] = then[s])
          <5>1. Resume(s)
            BY <1>2, <3>5, <4>2
            DEF Acts, Takes, LeavesLease, Execute, Start, Reserve, Queue, GiveUp,
                MarkDeclared, WorkerGone, Register, Send, Accept, Fate, Result, Cancel,
                FrameFails, OpenWrite, step
          <5>2. Ends(s, "ok")
            BY <3>5, <5>1 DEF Resume
          <5>3. ran[d] = at[s] /\ at[s] \in Worker /\ at[s] # NoOne
            BY <1>i, <1>t, <3>5 DEF MemberShape, PlaceShape
          <5>4. s \in Group => s \in pinned \/ first = s
            BY <1>i, <3>5 DEF MemberShape
          <5>5. ASSUME s \in pinned PROVE pin # NoOne /\ ran[d] = pin
            BY <1>i, <1>t, <5>3, <5>5 DEF MemberShape, PlaceShape
          <5>6. ASSUME first = s PROVE pin' # NoOne /\ ran[d] = pin'
            BY <5>2, <5>3, <5>6 DEF Ends, SettleGroup
          <5>7. s \in Group => pin' # NoOne /\ ran[d] = pin'
            BY <3>2, <5>4, <5>5, <5>6
          <5> QED
            BY <3>1, <5>7 DEF CompletedShape, Group
        <4> QED
          BY <4>1, <4>2
      <3> QED
        BY <1>i, <3>3, <3>4, <3>5 DEF CompletedShape
    <2> QED
      BY <2>2, <2>3
  <1> QED
    BY <1>1, <1>2

\* The completed attempts of another step, and those that a change of the pool leaves.
LEMMA CompletedOther ==
  ASSUME NEW d \in Id, CompletedShape(d), Untouched(d), asked' = asked, tries'[d[1]] = tries[d[1]],
         then[d[1]] = "ok" => then'[d[1]] = "ok", pc[d[1]] = "settle" => pc'[d[1]] = "settle",
         pin # NoOne => pin' = pin
  PROVE  CompletedShape(d)'
  BY DEF CompletedShape, Completes, Untouched, Group, Current

\* A transition completes an attempt only when its step asked for it.
LEMMA CompletedWrite ==
  ASSUME GroupInv, NEW d \in Id, Writes(d)
  PROVE  CompletedShape(d)'
  <1>i. LeaseInv /\ CompletedShape(d)
    BY DEF GroupInv
  <1>t. Types
    BY <1>i DEF LeaseInv, SlotInv
  <1>c. RecordType
    BY <1>t DEF Types
  <1>f. /\ UNCHANGED <<group, pc, tries, asked, ran>> /\ d[1] \in Step
        /\ then[d[1]] = "ok" => then'[d[1]] = "ok"
    BY <1>t, WriteFrame, IdShape
  <1>s. chain[d] \in Seq(Transitions) /\ "mark" \in Transitions
    BY <1>c DEF RecordType, Transitions
  <1>1. Completes(d)' => Completes(d)
    <2>1. CASE Transition(d) \/ TransitionThrows(d)
      <3>t. chain[d] # <<>> /\ chain' = [chain EXCEPT ![d] = Tail(chain[d])]
        BY <2>1 DEF Transition, TransitionThrows
      <3>1. chain[d] # <<>> /\ chain'[d] = Tail(chain[d])
        BY <3>t, <1>c DEF RecordType
      <3>2. lease'[d] \in {lease[d], Head(chain[d])}
        BY <1>t, <2>1, TransitionLease
      <3>3. /\ Len(chain[d]) \in Nat \ {0} /\ DOMAIN chain[d] = 1..Len(chain[d])
            /\ DOMAIN Tail(chain[d]) = 1..(Len(chain[d]) - 1)
            /\ Head(chain[d]) = chain[d][1] /\ \A i \in 1..(Len(chain[d]) - 1) : Tail(chain[d])[i] = chain[d][i + 1]
        BY <1>s, <3>1
      <3>4. 1 \in DOMAIN chain[d] /\ \A i \in 1..(Len(chain[d]) - 1) : i + 1 \in DOMAIN chain[d]
        BY <3>3
      <3>5. lease'[d] = "completed" => Completes(d)
        BY <3>2, <3>3, <3>4 DEF Completes
      <3>6. (\E i \in DOMAIN chain'[d] : chain'[d][i] = "completed") => Completes(d)
        BY <3>1, <3>3, <3>4 DEF Completes
      <3> QED
        BY <3>5, <3>6 DEF Completes
    <2>2. ASSUME NEW i \in 1..MaxWrites, RecordWrite(d, i) \/ Persist(d, i)
          PROVE  Completes(d)' => Completes(d)
      <3>1. lease' = lease /\ (chain'[d] = chain[d] \/ chain'[d] = Append(chain[d], "mark"))
        BY <2>2, <1>c DEF RecordWrite, Persist, records, RecordType
      <3> QED
        BY <1>s, <3>1, CompletesAppend DEF Completes
    <2> QED
      BY <2>1, <2>2 DEF Writes
  <1> QED
    BY <1>1, <1>f, <1>i DEF CompletedShape, Current, Group, group

\* The group has not begun.
LEMMA GroupInvInit == Init => GroupInv
  <1> SUFFICES ASSUME Init PROVE GroupInv
    OBVIOUS
  <1>1. ASSUME NEW s \in Step PROVE MemberShape(s)
    BY DEF Init, MemberShape
  <1>2. ASSUME NEW d \in Id PROVE CompletedShape(d)
    BY DEF Init, CompletedShape, Completes
  <1> QED
    BY <1>1, <1>2, LeaseInvInit DEF GroupInv, Init

\* Every step of the specification keeps the group together.
LEMMA GroupInvStep == GroupInv /\ [Next]_vars => GroupInv'
  <1> SUFFICES ASSUME GroupInv, [Next]_vars PROVE GroupInv'
    OBVIOUS
  <1>i. /\ LeaseInv /\ (first # NoOne => pin = NoOne)
        /\ (\A s \in Step : MemberShape(s)) /\ (\A d \in Id : CompletedShape(d))
    BY DEF GroupInv
  <1>t. Types
    BY <1>i DEF LeaseInv, SlotInv
  <1>n. LeaseInv' /\ asked' = asked
    BY <1>i, LeaseInvStep, AskedKept
  <1>1. ASSUME NEW s \in Step, Acts(s) PROVE GroupInv'
    <2>f. /\ \/ pin' = pin
             \/ first = s /\ first' = NoOne /\ pc'[s] = "ended" /\ pin' = at[s] /\ at[s] \in Worker
          /\ \/ first' = first
             \/ first = s /\ first' = NoOne /\ pc'[s] = "ended"
             \/ first = NoOne /\ pin = NoOne /\ first' = s /\ pin' = pin
      BY <1>1, <1>t, SettleFrame
    <2>1. first' # NoOne => pin' = NoOne
      BY <1>i, <2>f
    <2>2. ASSUME NEW q \in Step PROVE MemberShape(q)'
      BY <1>1, <1>n, MemberOwn, MemberOther
    <2>3. ASSUME NEW d \in Id PROVE CompletedShape(d)'
      <3>1. CASE d[1] = s
        BY <1>1, <1>n, <3>1, CompletedOwn
      <3>2. CASE d[1] # s
        <4>1. Untouched(d)
          BY <1>1, <1>t, <3>2, RecordFrame
        <4>2. Kept(d[1])
          BY <1>1, <1>t, <3>2, StepFrame, IdShape
        <4>3. pin # NoOne => pin' = pin
          BY <1>i, <2>f
        <4> QED
          BY <1>i, <1>n, <4>1, <4>2, <4>3, CompletedOther DEF Kept
      <3> QED
        BY <3>1, <3>2
    <2> QED
      BY <1>n, <2>1, <2>2, <2>3 DEF GroupInv
  <1>2. ASSUME NEW d \in Id, Writes(d) PROVE GroupInv'
    <2>f. UNCHANGED <<group, pc, tries, at, ran>> /\ \A e \in Id : e # d => Untouched(e)
      BY <1>2, <1>t, WriteFrame
    <2>o. \A q \in Step : then'[q] = "ok" <=> then[q] = "ok"
      BY <1>2, <1>t, WriteFrame
    <2>2. ASSUME NEW q \in Step PROVE MemberShape(q)'
      BY <1>i, <1>n, <2>f, <2>o DEF MemberShape, group, Current, Group
    <2>3. ASSUME NEW e \in Id PROVE CompletedShape(e)'
      <3>1. CASE e = d
        BY <1>2, <3>1, CompletedWrite
      <3>2. CASE e # d
        BY <1>i, <1>n, <2>f, <2>o, <3>2, IdShape, CompletedOther DEF group
      <3> QED
        BY <3>1, <3>2
    <2> QED
      BY <1>i, <1>n, <2>f, <2>2, <2>3 DEF GroupInv, group
  <1>3. ASSUME UNCHANGED <<group, records, plane, aborted, tries, at, then>>, \A q \in Step : Closed(q)
        PROVE  GroupInv'
    <2>u. \A d \in Id : Untouched(d)
      BY <1>3 DEF records, plane, Untouched
    <2>2. ASSUME NEW q \in Step PROVE MemberShape(q)'
      <3>1. Closed(q) /\ MemberShape(q)
        BY <1>3, <1>i
      <3> QED
        BY <1>3, <1>n, <3>1 DEF Closed, MemberShape, group, plane, Current, Group
    <2>3. ASSUME NEW d \in Id PROVE CompletedShape(d)'
      <3>1. Closed(d[1])
        BY <1>3, IdShape
      <3> QED
        BY <1>3, <1>i, <1>n, <2>u, <3>1, CompletedOther DEF Closed, group
    <2> QED
      BY <1>3, <1>i, <1>n, <2>2, <2>3 DEF GroupInv, group
  <1>4. ASSUME NEW w \in Worker, PoolActs(w) PROVE GroupInv'
    BY <1>3, <1>4, <1>t, PoolFrame
  <1>5. CASE UNCHANGED vars
    <2>1. UNCHANGED <<group, records, plane, aborted, tries, at, then>> /\ \A q \in Step : Closed(q)
      BY <1>5 DEF vars, step, Closed
    <2> QED
      BY <1>3, <2>1
  <1> QED
    BY <1>1, <1>2, <1>4, <1>5 DEF Next, Acts, PoolActs

\* GroupInv is an invariant.
LEMMA GroupInvariant == Spec => []GroupInv
  BY GroupInvInit, GroupInvStep, PTL DEF Spec

\* Whatever workers are lost, replaced or drained while the first step of an affinity group runs
\* and the others wait for it, the steps of the group that complete have run on one worker.
THEOREM GroupRunsTogether == Spec => []GroupRanOnOneWorker
  <1>1. GroupInv => GroupRanOnOneWorker
    <2> SUFFICES ASSUME GroupInv,
                        NEW d \in Id, d[1] \in Group, lease[d] = "completed",
                        NEW e \in Id, e[1] \in Group, lease[e] = "completed"
                 PROVE  ran[d] = ran[e]
      BY DEF GroupRanOnOneWorker
    <2>1. PlaceShape /\ (first # NoOne => pin = NoOne)
      BY DEF GroupInv, LeaseInv, SlotInv
    <2>2. ASSUME NEW f \in Id, f[1] \in Group, lease[f] = "completed"
          PROVE  (pin # NoOne /\ ran[f] = pin) \/ (first = f[1] /\ f = Current(f[1]))
      <3>1. CompletedShape(f) /\ MemberShape(f[1]) /\ f[1] \in Step
        BY IdShape DEF GroupInv
      <3>2. CASE f = Current(f[1]) /\ pc[f[1]] = "settle" /\ then[f[1]] = "ok"
        <4>1. ran[f] = at[f[1]] /\ at[f[1]] \in Worker /\ (f[1] \in pinned \/ first = f[1])
          BY <2>1, <2>2, <3>1, <3>2 DEF MemberShape, PlaceShape
        <4>2. f[1] \in pinned => pin \in Worker /\ at[f[1]] = pin
          BY <2>1, <3>1, <4>1 DEF MemberShape, PlaceShape
        <4> QED
          BY <3>2, <4>1, <4>2
      <3> QED
        BY <2>2, <3>1, <3>2 DEF CompletedShape, Completes
    <2>3. d[1] \in Step /\ e[1] \in Step
      BY IdShape
    <2> QED
      BY <2>1, <2>2, <2>3
  <1> QED
    BY <1>1, GroupInvariant, PTL

-----------------------------------------------------------------------------
(* Writes. *)

\* No write was requested to begin with.
LEMMA WriteInvInit == Init => WriteInv
  <1> SUFFICES ASSUME Init PROVE WriteInv
    OBVIOUS
  <1>1. ASSUME NEW d \in Id PROVE WriteShape(d)
    BY DEF Init, WriteShape
  <1> QED
    BY <1>1, LeaseInvInit DEF WriteInv

\* An attempt whose records stay keeps the shape of its writes.
LEMMA WriteOther ==
  ASSUME NEW d \in Id, WriteShape(d), Untouched(d), tries'[d[1]] = tries[d[1]],
         pc'[d[1]] \in Live => pc[d[1]] \in Live, pc'[d[1]] = "declare" => pc[d[1]] = "declare"
  PROVE  WriteShape(d)'
  BY DEF WriteShape, Told, Untouched

\* A step that takes no lease and opens no write keeps the shape of the writes of its attempts.
LEMMA WriteSame ==
  ASSUME NEW d \in Id, WriteShape(d), UNCHANGED <<request, wrote, marked, unmarked, tries>>, noted' \subseteq noted,
         pc'[d[1]] \in Live => pc[d[1]] \in Live, pc'[d[1]] = "declare" => pc[d[1]] = "declare"
  PROVE  WriteShape(d)'
  BY DEF WriteShape, Told

\* The writes of its attempts after a step went on.
LEMMA WriteOwn ==
  ASSUME ~Parallel, WriteInv, NEW s \in Step, Acts(s), NEW d \in Id, d[1] = s
  PROVE  WriteShape(d)'
  <1>i. LeaseInv /\ LeaseShape(s) /\ WriteShape(d) /\ AttemptShape(d)
    BY DEF WriteInv, LeaseInv
  <1>t. Types
    BY <1>i DEF LeaseInv, SlotInv
  <1>c. StepType /\ RecordType /\ PlaneType
    BY <1>t DEF Types
  <1>k. /\ tries[s] \in Nat /\ Current(s)[1] = s /\ Current(s)[2] = tries[s]
        /\ tries[s] >= 1 => Current(s) \in Id
        /\ \A e \in Id : e[1] = s /\ e[2] = tries[s] => e = Current(s)
    BY <1>c, CurrentShape
  <1>1. CASE Takes(s)
    <2>1. PICK e \in {<<s, tries[s] + 1>>} : e = <<s, tries[s] + 1>> /\ e \in Id /\ e[1] = s /\ e[2] = tries[s] + 1
      BY <1>1, IdShape DEF Takes, TakeLease, LeavesLease
    <2>2. UNCHANGED <<request, wrote, noted, marked, unmarked>> /\ tries'[s] = tries[s] + 1
      BY <1>1, <1>c, <2>1 DEF Takes, TakeLease, LeavesLease, FrameFails, plane, StepType
    <2>3. CASE d = e
      <3>1. /\ d \notin wrote /\ d \notin noted
            /\ \A i \in 1..MaxWrites : request[d][i] = "none"
        BY <1>i, <1>k, <2>1, <2>3 DEF AttemptShape
      <3> QED
        BY <2>2, <3>1 DEF WriteShape
    <2>4. CASE d # e
      <3>1. d[2] # tries'[d[1]]
        BY <2>1, <2>2, <2>4, IdShape
      <3> QED
        BY <1>i, <2>2, <3>1 DEF WriteShape, Told
    <2> QED
      BY <2>3, <2>4
  <1>m. CASE MarkDeclared(s)
    <2>1. /\ UNCHANGED <<request, wrote, unmarked, tries>> /\ noted' = noted \cup {Current(s)}
          /\ marked \subseteq marked' /\ pc[s] = "declare"
          /\ (pc'[s] = "dispatch" /\ Current(s) \in marked') \/ pc'[s] = "ended"
      BY <1>m, <1>c DEF MarkDeclared, Goto, Ends, StepType
    <2>2. CASE d # Current(s)
      <3>1. d[2] # tries[s]
        BY <1>k, <2>2
      <3> QED
        BY <1>i, <2>1, <2>2, <3>1 DEF WriteShape, Told
    <2>3. CASE d = Current(s)
      <3>1. \A i \in 1..MaxWrites : request[d][i] = "none"
        BY <1>i, <1>k, <2>1, <2>3 DEF WriteShape
      <3> QED
        BY <1>i, <2>1, <2>3, <3>1 DEF WriteShape, Told, Live
    <2> QED
      BY <2>2, <2>3
  <1>2. ASSUME NEW i \in 1..MaxWrites, OpenWrite(s, i) PROVE WriteShape(d)'
    <2>1. /\ UNCHANGED <<wrote, marked, unmarked, noted, tries, pc>> /\ pc[s] = "runs"
          /\ request[Current(s)][i] = "none"
          /\ \A j \in 1..(i - 1) : request[Current(s)][j] \in {"done", "failed"}
          /\ request' = [request EXCEPT ![Current(s)][i] = "open"]
      BY <1>2 DEF OpenWrite, records, step
    <2>2. CASE d # Current(s)
      <3>1. request'[d] = request[d]
        BY <2>1, <2>2, <1>c DEF PlaneType
      <3> QED
        BY <1>i, <2>1, <3>1 DEF WriteShape, Told
    <2>3. CASE d = Current(s)
      <3>1. request[d] \in Requests
        BY <1>c DEF PlaneType
      <3>2. request'[d][i] = "open" /\ \A j \in 1..MaxWrites : j # i => request'[d][j] = request[d][j]
        BY <2>1, <2>3, <3>1, <1>c DEF PlaneType, Requests
      <3>3. \A j \in 1..MaxWrites : i < j => request[d][j] = "none"
        BY <1>i, <2>1, <2>3 DEF WriteShape
      <3>4. \A j \in 1..MaxWrites : j < i => request[d][j] \in {"done", "failed"}
        BY <2>1, <2>3
      <3>5. \A j \in 1..MaxWrites : request[d][j] # "mark"
        <4>1. \A j \in 1..MaxWrites : j < i \/ j = i \/ i < j
          OBVIOUS
        <4> QED
          BY <2>1, <2>3, <3>3, <3>4, <4>1
      <3>6. d \in noted => Told(d)
        BY <1>i, <1>k, <2>1, <2>3, <3>5 DEF WriteShape, Live
      <3>7. \A j, l \in 1..MaxWrites : j < l /\ request'[d][l] # "none" => request'[d][j] \in {"done", "failed"}
        <4> SUFFICES ASSUME NEW j \in 1..MaxWrites, NEW l \in 1..MaxWrites, j < l, request'[d][l] # "none"
                     PROVE  request'[d][j] \in {"done", "failed"}
          OBVIOUS
        <4>1. CASE l = i
          BY <3>2, <3>4, <4>1
        <4>2. CASE l # i
          <5>1. request[d][l] # "none"
            BY <3>2, <4>2
          <5>2. request[d][j] \in {"done", "failed"}
            BY <1>i, <5>1 DEF WriteShape
          <5>3. j # i
            BY <2>1, <2>3, <5>2
          <5> QED
            BY <3>2, <5>2, <5>3
        <4> QED
          BY <4>1, <4>2
      <3>8. \A j \in 1..MaxWrites : /\ request'[d][j] = "persist" => Told(d)'
                                    /\ request'[d][j] = "open" /\ d \in noted' => Told(d)'
        BY <1>i, <2>1, <3>2, <3>6 DEF WriteShape, Told
      <3> QED
        BY <1>i, <2>1, <3>6, <3>7, <3>8 DEF WriteShape, Told
    <2> QED
      BY <2>2, <2>3
  <1>3. CASE ~Takes(s) /\ ~MarkDeclared(s) /\ ~\E i \in 1..MaxWrites : OpenWrite(s, i)
    <2>1. UNCHANGED <<request, wrote, marked, unmarked, tries>> /\ noted' \subseteq noted
      BY <1>3
      DEF Acts, Takes, LeavesLease, Execute, Start, Reserve, Queue, GiveUp, WorkerGone,
          Register, Send, Accept, Fate, Resume, Result, Cancel, FrameFails, records, plane,
          step, Forgotten
    <2>2. (pc'[s] \in Live => pc[s] \in Live) /\ (pc'[s] = "declare" => pc[s] = "declare")
      BY <1>3, <1>c
      DEF Acts, Takes, LeavesLease, Execute, Start, Reserve, Queue, GiveUp, WorkerGone,
          Register, Send, Accept, Fate, Resume, Result, Cancel, FrameFails, step, Goto, Ends,
          Reschedules, Lost, EndLease, Refusal, CallsClose, StepType, Live
    <2> QED
      BY <1>i, <2>1, <2>2, WriteSame
  <1> QED
    BY <1>1, <1>m, <1>2, <1>3

\* The writes of an attempt after its transition or one of its writes.
LEMMA WriteTurn ==
  ASSUME WriteInv, NEW d \in Id, Writes(d)
  PROVE  WriteShape(d)'
  <1>i. LeaseInv /\ WriteShape(d) /\ LeaseShape(d[1]) /\ d[1] \in Step
    BY IdShape DEF WriteInv, LeaseInv
  <1>t. Types
    BY <1>i DEF LeaseInv, SlotInv
  <1>c. StepType /\ RecordType /\ PlaneType
    BY <1>t DEF Types
  <1>r. request[d] \in Requests
    BY <1>c DEF PlaneType
  <1>f. UNCHANGED <<pc, tries>>
    BY <1>t, WriteFrame
  <1>l. d[2] = tries[d[1]] /\ pc[d[1]] \in Live => lease[d] = "active" /\ OnlyMarks(chain[d])
    BY <1>c, <1>i, CurrentShape DEF LeaseShape
  <1>1. CASE Transition(d) \/ TransitionThrows(d)
    <2>1. CASE Head(chain[d]) = "mark"
      <3>1. /\ UNCHANGED <<noted, wrote>> /\ marked \subseteq marked' /\ unmarked \subseteq unmarked'
            /\ lease[d] = "active" => Told(d)'
        BY <1>1, <2>1 DEF Transition, TransitionThrows, Applied, Told
      <3>2. \/ \A i \in 1..MaxWrites : request'[d][i] = IF request[d][i] = "mark" THEN "failed" ELSE request[d][i]
            \/ /\ lease[d] = "active"
               /\ \A i \in 1..MaxWrites : request'[d][i] = IF request[d][i] = "mark" THEN "persist" ELSE request[d][i]
        <4>1. Answer(d, FALSE) \/ (lease[d] = "active" /\ Answer(d, TRUE))
          BY <1>1, <2>1 DEF Transition, TransitionThrows, Answer
        <4> QED
          BY <4>1, <1>c DEF Answer, PlaneType
      <3>3. \A i, j \in 1..MaxWrites : i < j /\ request'[d][j] # "none" => request'[d][i] \in {"done", "failed"}
        BY <1>i, <3>2 DEF WriteShape
      <3>4. \A i \in 1..MaxWrites :
              /\ request'[d][i] = "persist" => Told(d)'
              /\ request'[d][i] = "open" /\ d \in noted' => Told(d)'
        BY <1>i, <3>1, <3>2 DEF WriteShape, Told
      <3>5. d[2] = tries'[d[1]] /\ pc'[d[1]] \in Live => Told(d)'
        BY <1>f, <1>l, <3>1
      <3>6. d \in wrote' => Told(d)'
        BY <1>i, <3>1 DEF WriteShape, Told
      <3>7. \A i \in 1..MaxWrites : request[d][i] = "none" => request'[d][i] = "none"
        BY <3>2
      <3> QED
        BY <1>i, <1>f, <3>3, <3>4, <3>5, <3>6, <3>7 DEF WriteShape
    <2>2. CASE Head(chain[d]) # "mark"
      <3>1. UNCHANGED <<request, noted, wrote, marked, unmarked>>
        BY <1>1, <2>2 DEF Transition, TransitionThrows, Applied
      <3> QED
        BY <1>f, <1>i, <3>1 DEF WriteShape, Told
    <2> QED
      BY <2>1, <2>2
  <1>2. ASSUME NEW i \in 1..MaxWrites, RecordWrite(d, i) PROVE WriteShape(d)'
    <2>1. /\ request[d][i] = "open" /\ noted' = noted \cup {d} /\ UNCHANGED <<marked, unmarked, wrote>>
          /\ request' = [request EXCEPT ![d][i] = IF d \in noted THEN "persist" ELSE "mark"]
      BY <1>2 DEF RecordWrite
    <2>2. /\ request'[d][i] = IF d \in noted THEN "persist" ELSE "mark"
          /\ \A j \in 1..MaxWrites : j # i => request'[d][j] = request[d][j]
      BY <1>r, <1>c, <2>1 DEF PlaneType, Requests
    <2>3. \A j, l \in 1..MaxWrites : j < l /\ request'[d][l] # "none" => request'[d][j] \in {"done", "failed"}
      BY <1>i, <2>1, <2>2 DEF WriteShape
    <2>4. \A j \in 1..MaxWrites : j # i => request[d][j] \in {"none", "done", "failed"}
      <3>1. \A j \in 1..MaxWrites : j < i => request[d][j] \in {"done", "failed"}
        BY <1>i, <2>1 DEF WriteShape
      <3>2. \A j \in 1..MaxWrites : i < j => request[d][j] = "none"
        BY <1>i, <2>1 DEF WriteShape
      <3>3. \A j \in 1..MaxWrites : j < i \/ j = i \/ i < j
        OBVIOUS
      <3> QED
        BY <3>1, <3>2, <3>3
    <2>5. d \in noted => Told(d)
      BY <1>i, <2>1 DEF WriteShape
    <2>6. \A j \in 1..MaxWrites :
            /\ request'[d][j] = "persist" => Told(d)'
            /\ request'[d][j] = "open" /\ d \in noted' => Told(d)'
      BY <2>1, <2>2, <2>4, <2>5 DEF Told
    <2>7. ~(d[2] = tries[d[1]] /\ pc[d[1]] = "declare")
      BY <1>i, <2>1 DEF WriteShape
    <2> QED
      BY <1>i, <1>f, <2>1, <2>2, <2>3, <2>5, <2>6, <2>7 DEF WriteShape, Told
  <1>3. ASSUME NEW i \in 1..MaxWrites, Persist(d, i) PROVE WriteShape(d)'
    <2>1. /\ request[d][i] = "persist" /\ UNCHANGED <<marked, unmarked, noted>> /\ wrote' \subseteq wrote \cup {d}
          /\ \E r \in {"done", "failed"} : request' = [request EXCEPT ![d][i] = r]
      BY <1>3 DEF Persist, records
    <2>2. /\ request'[d][i] \in {"done", "failed"}
          /\ \A j \in 1..MaxWrites : j # i => request'[d][j] = request[d][j]
      BY <1>r, <1>c, <2>1 DEF PlaneType, Requests
    <2>3. Told(d)
      BY <1>i, <2>1 DEF WriteShape
    <2>4. \A j, l \in 1..MaxWrites : j < l /\ request'[d][l] # "none" => request'[d][j] \in {"done", "failed"}
      BY <1>i, <2>1, <2>2 DEF WriteShape
    <2>5. ~(d[2] = tries[d[1]] /\ pc[d[1]] = "declare")
      BY <1>i, <2>1 DEF WriteShape
    <2> QED
      BY <1>f, <2>1, <2>3, <2>4, <2>5 DEF WriteShape, Told
  <1> QED
    BY <1>1, <1>2, <1>3 DEF Writes

\* Every step of the specification keeps the shape of the writes.
LEMMA WriteInvStep == ASSUME ~Parallel PROVE WriteInv /\ [Next]_vars => WriteInv'
  <1> SUFFICES ASSUME WriteInv, [Next]_vars PROVE WriteInv'
    OBVIOUS
  <1>i. LeaseInv /\ \A d \in Id : WriteShape(d)
    BY DEF WriteInv
  <1>t. Types
    BY <1>i DEF LeaseInv, SlotInv
  <1>n. LeaseInv'
    BY <1>i, LeaseInvStep
  <1>1. ASSUME NEW s \in Step, Acts(s), NEW d \in Id PROVE WriteShape(d)'
    <2>1. CASE d[1] = s
      BY <1>1, <2>1, WriteOwn
    <2>2. CASE d[1] # s
      <3>1. Untouched(d)
        BY <1>1, <1>t, <2>2, RecordFrame
      <3>2. Kept(d[1])
        BY <1>1, <1>t, <2>2, StepFrame, IdShape
      <3>3. /\ tries'[d[1]] = tries[d[1]] /\ (pc'[d[1]] \in Live => pc[d[1]] \in Live)
            /\ pc'[d[1]] = "declare" => pc[d[1]] = "declare"
        BY <3>2 DEF Kept, Live
      <3> QED
        BY <1>i, <3>1, <3>3, WriteOther
    <2> QED
      BY <2>1, <2>2
  <1>2. ASSUME NEW d \in Id, Writes(d), NEW e \in Id PROVE WriteShape(e)'
    <2>1. CASE e = d
      BY <1>2, <2>1, WriteTurn
    <2>2. CASE e # d
      <3>1. Untouched(e) /\ UNCHANGED <<pc, tries>>
        BY <1>2, <1>t, <2>2, WriteFrame
      <3> QED
        BY <1>i, <3>1, WriteOther
    <2> QED
      BY <2>1, <2>2
  <1>3. ASSUME UNCHANGED <<records, plane, tries>>, \A q \in Step : Closed(q), NEW d \in Id PROVE WriteShape(d)'
    <2>1. Untouched(d)
      BY <1>3 DEF records, plane, Untouched
    <2>2. (pc'[d[1]] \in Live => pc[d[1]] \in Live) /\ (pc'[d[1]] = "declare" => pc[d[1]] = "declare")
      BY <1>3, IdShape DEF Closed, Live
    <2> QED
      BY <1>3, <1>i, <2>1, <2>2, WriteOther
  <1>4. ASSUME NEW d \in Id PROVE WriteShape(d)'
    <2>1. CASE \E s \in Step : Acts(s)
      BY <1>1, <2>1
    <2>2. CASE \E e \in Id : Writes(e)
      BY <1>2, <2>2
    <2>3. CASE \E w \in Worker : PoolActs(w)
      BY <1>3, <1>t, <2>3, PoolFrame
    <2>4. CASE UNCHANGED vars
      <3>1. UNCHANGED <<records, plane, tries>> /\ \A q \in Step : Closed(q)
        BY <2>4 DEF vars, step, Closed
      <3> QED
        BY <1>3, <3>1
    <2> QED
      BY <2>1, <2>2, <2>3, <2>4 DEF Next, Acts, PoolActs
  <1> QED
    BY <1>4, <1>n DEF WriteInv

\* A write that was saved is known to the lease, if the writes of a method wait for one another: a
\* request that arrives late, when its lease has ended, is not saved, and one that finds the attempt
\* noted is saved only because the mark is already on the lease, or the ledger threw when it was to
\* write it.
THEOREM SavedWritesAreTold == ASSUME ~Parallel PROVE Spec => []LeaseTellsWrites
  <1>1. WriteInv => LeaseTellsWrites
    <2> SUFFICES ASSUME WriteInv, NEW d \in wrote PROVE d \in marked \cup unmarked
      BY DEF LeaseTellsWrites
    <2>1. d \in Id
      BY DEF WriteInv, LeaseInv, SlotInv, Types, PlaneType
    <2> QED
      BY <2>1 DEF WriteInv, WriteShape, Told
  <1> QED
    BY <1>1, WriteInvInit, WriteInvStep, PTL DEF Spec

\* No attempt was made to begin with.
LEMMA CleanInvInit == Init => CleanInv
  <1> SUFFICES ASSUME Init PROVE CleanInv
    OBVIOUS
  <1>1. ASSUME NEW d \in Id PROVE CleanShape(d)
    BY DEF Init, CleanShape, Clean
  <1> QED
    BY <1>1, LeaseInvInit DEF CleanInv

\* A clean attempt stays clean until its step opens a write.
LEMMA CleanStays ==
  ASSUME NEW d \in Id, Clean(d), wrote' = wrote, request'[d] = request[d]
  PROVE  Clean(d)'
  BY DEF Clean

\* An attempt of another step, or of one that the pool leaves alone.
LEMMA CleanOther ==
  ASSUME NEW d \in Id, CleanShape(d), Untouched(d), tries'[d[1]] = tries[d[1]],
         then'[d[1]] \in {"lost", "refused"} => then'[d[1]] = then[d[1]],
         d[1] \in had' <=> d[1] \in had,
         pc'[d[1]] = pc[d[1]] \/ pc'[d[1]] = "ended"
  PROVE  CleanShape(d)'
  <1>1. Clean(d)' <=> Clean(d)
    BY DEF Clean, Untouched
  <1>3. /\ d \in noted' <=> d \in noted
        /\ d \in wrote' <=> d \in wrote
        /\ request'[d] = request[d]
    BY DEF Untouched
  <1>4. CASE pc'[d[1]] = "ended"
    BY <1>1, <1>4 DEF CleanShape
  <1>5. CASE pc'[d[1]] = pc[d[1]]
    BY <1>1, <1>3, <1>5 DEF CleanShape
  <1> QED
    BY <1>4, <1>5

\* The attempts of a step after it went on.
LEMMA CleanOwn ==
  ASSUME CleanInv, NEW s \in Step, Acts(s), NEW d \in Id, d[1] = s
  PROVE  CleanShape(d)'
  <1>i. LeaseInv /\ LeaseShape(s) /\ CleanShape(d) /\ AttemptShape(d)
    BY DEF CleanInv, LeaseInv
  <1>t. Types
    BY <1>i DEF LeaseInv, SlotInv
  <1>c. StepType /\ RecordType /\ PlaneType /\ CallType
    BY <1>t DEF Types
  <1>k. /\ tries[s] \in Nat /\ Current(s)[1] = s /\ Current(s)[2] = tries[s]
        /\ tries[s] >= 1 => Current(s) \in Id
        /\ \A e \in Id : e[1] = s /\ e[2] = tries[s] => e = Current(s)
        /\ d[2] \in Nat /\ d[2] >= 1
    BY <1>c, CurrentShape, IdShape DEF Attempt
  <1>1. CASE Takes(s)
    <2>1. /\ UNCHANGED <<request, wrote>> /\ tries'[s] = tries[s] + 1 /\ pc[s] = "frame"
          /\ pc'[s] \in {"declare", "dispatch", "ended"}
      BY <1>1, <1>c DEF Takes, TakeLease, LeavesLease, FrameFails, Ends, plane, Goto, StepType
    <2>2. CASE d[2] > tries[s]
      <3>1. Clean(d)
        BY <1>i, <2>2 DEF AttemptShape, Clean
      <3>2. Clean(d)'
        BY <2>1, <3>1, CleanStays
      <3> QED
        BY <2>1, <3>2 DEF CleanShape
    <2>3. CASE d[2] <= tries[s]
      <3>1. Clean(d)
        BY <1>i, <1>k, <2>1, <2>3 DEF CleanShape
      <3>2. Clean(d)'
        BY <2>1, <3>1, CleanStays
      <3> QED
        BY <2>1, <3>2 DEF CleanShape
    <2> QED
      BY <1>k, <2>2, <2>3
  <1>2. ASSUME NEW i \in 1..MaxWrites, OpenWrite(s, i) PROVE CleanShape(d)'
    <2>1. /\ UNCHANGED <<wrote, noted, tries, pc, had, then>> /\ pc[s] = "runs"
          /\ request' = [request EXCEPT ![Current(s)][i] = "open"]
      BY <1>2 DEF OpenWrite, records, step
    <2>2. CASE d # Current(s)
      <3>1. request'[d] = request[d] /\ d[2] # tries[s]
        BY <1>k, <2>1, <2>2, <1>c DEF PlaneType
      <3> QED
        BY <1>i, <2>1, <3>1, CleanStays DEF CleanShape
    <2>3. CASE d = Current(s)
      <3>1. request[d] \in Requests
        BY <1>c DEF PlaneType
      <3>2. \A j \in 1..MaxWrites : request'[d][j] \in {request[d][j], "open"}
        BY <2>1, <2>3, <3>1, <1>c DEF PlaneType, Requests
      <3> QED
        BY <1>i, <1>k, <2>1, <2>3, <3>2 DEF CleanShape
    <2> QED
      BY <2>2, <2>3
  <1>3. CASE ~Takes(s) /\ ~\E i \in 1..MaxWrites : OpenWrite(s, i)
    <2>1. UNCHANGED <<request, wrote, tries>>
      BY <1>3
      DEF Acts, Takes, LeavesLease, Execute, Start, Reserve, Queue, GiveUp, MarkDeclared,
          WorkerGone, Register, Send, Accept, Fate, Resume, Result, Cancel, FrameFails,
          records, plane, step
    <2>2. Clean(d) => Clean(d)'
      BY <2>1, CleanStays
    <2>3. CASE d[2] # tries[s]
      BY <1>i, <2>1, <2>2, <2>3 DEF CleanShape
    <2>4. CASE Clean(d)
      BY <2>1, <2>2, <2>4 DEF CleanShape, Clean
    <2>5. CASE d[2] = tries[s] /\ ~Clean(d)
      <3>1. /\ tries[s] >= 1 /\ pc[s] \notin {"start", "group", "queue", "frame", "declare", "dispatch", "busy", "sent"}
            /\ pc[s] = "fate" => s \in had
            /\ pc[s] = "settle" => then[s] # "refused"
            /\ pc[s] = "settle" /\ then[s] = "lost" => s \in had
        BY <1>i, <1>k, <2>5 DEF CleanShape, LeaseShape
      <3>2. /\ pc'[s] \notin {"queue", "frame", "declare", "dispatch", "busy", "sent"}
            /\ pc'[s] = "fate" => s \in had'
            /\ pc'[s] = "settle" => then'[s] # "refused"
            /\ pc'[s] = "settle" /\ then'[s] = "lost" => s \in had'
            /\ pc'[s] = "runs" => pc[s] = "runs" /\ noted' = noted
        <4>1. CASE Fate(s)
          BY <3>1, <4>1, <1>c DEF Fate, EndLease, Ends, Goto, StepType
        <4>2. CASE Resume(s)
          BY <3>1, <4>2, <1>c DEF Resume, Lost, Ends, StepType
        <4>3. CASE Result(s)
          BY <3>1, <4>3, <1>c DEF Result, EndLease, Goto, StepType
        <4>4. CASE Cancel(s)
          BY <3>1, <4>4 DEF Cancel, plane
        <4> QED
          BY <1>3, <3>1, <4>1, <4>2, <4>3, <4>4
          DEF Acts, Takes, LeavesLease, Execute, Start, Reserve, Queue, GiveUp, MarkDeclared,
              WorkerGone, Register, Send, Accept, FrameFails
      <3> QED
        BY <1>i, <2>1, <2>5, <3>2 DEF CleanShape
    <2> QED
      BY <2>3, <2>4, <2>5
  <1> QED
    BY <1>1, <1>2, <1>3

\* A transition or a write leaves a clean attempt clean, and is noted.
LEMMA CleanTurn ==
  ASSUME CleanInv, NEW d \in Id, Writes(d)
  PROVE  CleanShape(d)'
  <1>i. LeaseInv /\ CleanShape(d)
    BY DEF CleanInv
  <1>t. Types
    BY <1>i DEF LeaseInv, SlotInv
  <1>c. PlaneType
    BY <1>t DEF Types
  <1>r. request[d] \in Requests
    BY <1>c DEF PlaneType
  <1>f. UNCHANGED <<pc, tries, had>> /\ (then'[d[1]] \in {"lost", "refused"} => then'[d[1]] = then[d[1]])
    BY <1>t, WriteFrame, IdShape
  <1>1. Clean(d) => Clean(d)'
    <2> SUFFICES ASSUME Clean(d) PROVE Clean(d)'
      OBVIOUS
    <2>1. CASE Transition(d) \/ TransitionThrows(d)
      <3>1. wrote' = wrote /\ \A i \in 1..MaxWrites : request[d][i] # "mark" => request'[d][i] = request[d][i]
        BY <2>1, <1>c DEF Transition, TransitionThrows, Answer, PlaneType
      <3> QED
        BY <3>1 DEF Clean
    <2> QED
      BY <2>1 DEF Writes, RecordWrite, Persist, Clean
  <1>2. ASSUME d \notin noted', d \notin wrote, \A i \in 1..MaxWrites : request[d][i] \in {"none", "failed", "open"}
        PROVE  d \notin wrote' /\ \A i \in 1..MaxWrites : request'[d][i] \in {"none", "failed", "open"}
    <2>1. CASE Transition(d) \/ TransitionThrows(d)
      <3>1. wrote' = wrote /\ \A i \in 1..MaxWrites : request'[d][i] = request[d][i]
        BY <1>2, <2>1, <1>c DEF Transition, TransitionThrows, Answer, PlaneType
      <3> QED
        BY <1>2, <3>1
    <2> QED
      BY <1>2, <2>1 DEF Writes, RecordWrite, Persist
  <1>3. noted \subseteq noted'
    BY DEF Writes, Transition, TransitionThrows, RecordWrite, Persist
  <1> QED
    BY <1>1, <1>2, <1>3, <1>f, <1>i DEF CleanShape

\* A socket closes when no write request is open on it: what it leaves is clean or is seen to have
\* written.
LEMMA CleanPool ==
  ASSUME ~LateWrites, CleanInv, NEW w \in Worker, PoolActs(w), NEW d \in Id
  PROVE  CleanShape(d)'
  <1>i. LeaseInv /\ CleanShape(d) /\ d[1] \in Step
    BY IdShape DEF CleanInv
  <1>t. Types
    BY <1>i DEF LeaseInv, SlotInv
  <1>c. StepType
    BY <1>t DEF Types
  <1>f. /\ UNCHANGED <<records, plane, tries, at, then>> /\ Closed(d[1])
    BY <1>i, <1>t, PoolFrame
  <1>k. d[2] = tries[d[1]] => d = Current(d[1])
    BY <1>c, <1>i, CurrentShape
  <1>1. Clean(d)' <=> Clean(d)
    BY <1>f DEF plane, Clean
  <1>2. CASE pc'[d[1]] = pc[d[1]] /\ (d[1] \in had' <=> d[1] \in had)
    BY <1>1, <1>2, <1>f, <1>i DEF CleanShape, plane
  <1>3. CASE ~(pc'[d[1]] = pc[d[1]] /\ (d[1] \in had' <=> d[1] \in had))
    <2>1. /\ NoneOpen(w) /\ d[1] \in Calls(w)
          /\ had' = (had \ Calls(w)) \cup {s \in Calls(w) : Current(s) \in noted}
          /\ pc' = [s \in Step |-> IF s \in Calls(w) THEN "fate" ELSE pc[s]]
      <3>1. Disconnect(w) \/ CutOff(w)
        BY <1>3 DEF PoolActs, Changes, Reconnect, Enroll, Drain, HandleDrain, GraceExpires, step
      <3>2. NoneOpen(w) /\ CallsClose(Calls(w))
        BY <3>1 DEF Disconnect, CutOff
      <3> QED
        BY <1>3, <1>i, <1>c, <3>2 DEF CallsClose, StepType
    <2>2. pc[d[1]] \in {"sent", "runs"} /\ pc'[d[1]] = "fate"
      BY <1>i, <2>1 DEF Calls
    <2>3. ASSUME d[2] = tries[d[1]], d[1] \notin had' PROVE Clean(d)
      <3>1. d \notin noted
        BY <1>k, <2>1, <2>3
      <3>2. \A i \in 1..MaxWrites : request[d][i] # "open"
        BY <1>k, <2>1, <2>3 DEF NoneOpen
      <3> QED
        BY <1>i, <2>2, <2>3, <3>1, <3>2 DEF CleanShape, Clean
    <2>4. d[2] < tries[d[1]] => Clean(d)
      BY <1>i DEF CleanShape
    <2> QED
      BY <1>1, <1>f, <2>2, <2>3, <2>4 DEF CleanShape
  <1> QED
    BY <1>2, <1>3

\* Every step of the specification keeps the lost attempts clean.
LEMMA CleanInvStep == ASSUME ~LateWrites PROVE CleanInv /\ [Next]_vars => CleanInv'
  <1> SUFFICES ASSUME CleanInv, [Next]_vars PROVE CleanInv'
    OBVIOUS
  <1>i. LeaseInv /\ \A d \in Id : CleanShape(d)
    BY DEF CleanInv
  <1>t. Types
    BY <1>i DEF LeaseInv, SlotInv
  <1>n. LeaseInv'
    BY <1>i, LeaseInvStep
  <1>1. ASSUME NEW s \in Step, Acts(s), NEW d \in Id PROVE CleanShape(d)'
    <2>1. CASE d[1] = s
      BY <1>1, <2>1, CleanOwn
    <2>2. CASE d[1] # s
      <3>1. Untouched(d)
        BY <1>1, <1>t, <2>2, RecordFrame
      <3>2. Kept(d[1])
        BY <1>1, <1>t, <2>2, StepFrame, IdShape
      <3> QED
        BY <1>i, <3>1, <3>2, CleanOther DEF Kept
    <2> QED
      BY <2>1, <2>2
  <1>2. ASSUME NEW d \in Id, Writes(d), NEW e \in Id PROVE CleanShape(e)'
    <2>1. CASE e = d
      BY <1>2, <2>1, CleanTurn
    <2>2. CASE e # d
      <3>1. Untouched(e) /\ UNCHANGED <<pc, tries, had>>
        BY <1>2, <1>t, <2>2, WriteFrame
      <3>2. then'[e[1]] \in {"lost", "refused"} => then'[e[1]] = then[e[1]]
        BY <1>2, <1>t, WriteFrame, IdShape
      <3> QED
        BY <1>i, <3>1, <3>2, CleanOther
    <2> QED
      BY <2>1, <2>2
  <1>3. ASSUME NEW d \in Id PROVE CleanShape(d)'
    <2>1. CASE \E s \in Step : Acts(s)
      BY <1>1, <2>1
    <2>2. CASE \E e \in Id : Writes(e)
      BY <1>2, <2>2
    <2>3. CASE \E w \in Worker : PoolActs(w)
      BY <2>3, CleanPool
    <2>4. CASE UNCHANGED vars
      <3>1. Untouched(d) /\ Kept(d[1])
        BY <2>4 DEF vars, step, group, records, plane, Untouched, Kept
      <3> QED
        BY <1>i, <3>1, CleanOther DEF Kept
    <2> QED
      BY <2>1, <2>2, <2>3, <2>4 DEF Next, Acts, PoolActs
  <1> QED
    BY <1>3, <1>n DEF CleanInv

\* A step that wrote does not run again, if no write request is open when the socket of its worker
\* closes: whether the attempt wrote is read when the calls fail, and what was not noted by then has
\* not been saved and will not be.
THEOREM WrittenIsNotRepeated == ASSUME ~LateWrites PROVE Spec => []WrittenNeverRunsAgain
  <1>1. CleanInv => WrittenNeverRunsAgain
    <2> SUFFICES ASSUME CleanInv, NEW d \in wrote, NEW k \in Attempt, k > d[2]
                 PROVE  ran[<<d[1], k>>] = NoOne
      BY DEF WrittenNeverRunsAgain
    <2>1. d \in Id /\ StepType
      BY DEF CleanInv, LeaseInv, SlotInv, Types, PlaneType
    <2>2. d[1] \in Step /\ d[2] \in Nat /\ k \in Nat /\ tries[d[1]] \in Nat
      BY <2>1, IdShape, CurrentShape DEF Attempt
    <2>3. PICK e \in {<<d[1], k>>} : e = <<d[1], k>> /\ e \in Id /\ e[1] = d[1] /\ e[2] = k
      BY <2>2, IdShape
    <2>4. CleanShape(d) /\ AttemptShape(e)
      BY <2>1, <2>3 DEF CleanInv, LeaseInv
    <2>5. ~(d[2] < tries[d[1]])
      BY <2>4 DEF CleanShape, Clean
    <2>6. e[2] > tries[e[1]]
      BY <2>2, <2>3, <2>5
    <2> QED
      BY <2>3, <2>4, <2>6 DEF AttemptShape
  <1> QED
    BY <1>1, CleanInvInit, CleanInvStep, PTL DEF Spec
=============================================================================
