--------------------------- MODULE WaitKeyClaimProofs ---------------------------
(***************************************************************************)
(* Proofs about WaitKeyClaim for any steps and any bounds, and at the end  *)
(* about the specification that TLC runs for it and the replicas.          *)
(***************************************************************************)
EXTENDS MCKeyAndReplica, ReplicationProofs, TLAPS

USE BoundsAssumption

\* There is a highest record, so that Top is one.
HasTop == \E t \in Present \cup {0} : \A h \in Present : h <= t

\* The removal never gets ahead of the key.
FloorIsReached == rm \in {"release", "remove"} => floor <= Top

KeyShape == TypeOK /\ HasTop /\ FloorIsReached

\* A step registers one wait of its own at a time, the one it stands at or failed to open or
\* to close, and none while it claims.
OwnWait(s) ==
    /\ wait[s][1] = s
    /\ \A w \in registered : w[1] = s =>
          /\ pc[s] \in {"open", "leaving", "crashed", "settle", "forget", "close"} \/ Over(s)
          /\ wait[s] = w

OneRegistration == \A v, w \in registered : v[1] = w[1] => v = w

\* What was removed is of runs that are over.
EndedAreOver == ended \subseteq dropped /\ \A s \in dropped : Over(s)

RegInv == KeyShape /\ OneRegistration /\ EndedAreOver /\ \A s \in Step : OwnWait(s)

\* A step gives a wait up only past its deadline or after it was closed.
GivenUp(s) ==
    /\ pc[s] = "settle" => wait[s] \in overdue
    /\ pc[s] = "forget" => wait[s] \in overdue \/ outcome[wait[s]] \in {"timed_out", "cancelled"}

\* A wait that was or is about to be signalled in time stays registered.
StaysRegistered(w) ==
    outcome[w] = "accepted" \/ (outcome[w] = "none" /\ w \in decided) =>
       w \in overdue \/ Over(w[1]) \/ w \in registered

SignalInv ==
    /\ RegInv
    /\ \A s \in Step : GivenUp(s)
    /\ \A w \in Wait : StaysRegistered(w)

\* A generation is one claim or a release.
OneRecord ==
    /\ \A r, q \in claims : r[1] = q[1] => r = q
    /\ \A r \in claims : r[1] \notin releases

\* A wait has no outcome: it may hold the key.
Unsettled(w) == outcome[w] = "none" /\ w[1] \notin dropped /\ w \notin late

\* Only a claim whose wait is settled, whose run is removed or that came late has a record
\* above it.
OnlySettledBelow ==
    \A r \in claims, h \in Present : Unsettled(r[2]) => h <= r[1]

\* The removal selected records of runs that are over, which are there until it removes
\* them, and it supersedes such a claim.
SelectedIsOver ==
    /\ \A r \in claims : r[1] \in selected => r[2][1] \in ended
    /\ selected \subseteq Present
    /\ rm = "release" =>
          /\ floor \in Present
          /\ \A r \in claims : r[1] = floor => floor \in selected
          /\ \A h \in Gen : floor < h /\ h <= Top => h \in Present

Seeing == Claiming \ {"read"}

\* What a step knows of the record it read, while it claims: all of it only as long as that
\* is the highest one.
Sees(s) ==
    /\ seen[s][1] <= Top
    /\ \A r \in claims : r[1] = seen[s][1] /\ r[1] = Top => r[2] \in seen[s][2]
    /\ \A v, w \in seen[s][2] : v = w
    /\ \A w \in seen[s][2] : w[1] \in dropped \/ <<seen[s][1], w>> \in claims

\* The wait that the record names does not hold the key any more.
Cleared(s) == \A w \in seen[s][2] : ~Unsettled(w)

\* A step registers, and has registered until its run is removed, only a wait with a claim.
HasClaim(w) == \E g \in Gen : <<g, w>> \in claims

KeyInv ==
    /\ RegInv /\ OneRecord /\ OnlySettledBelow /\ SelectedIsOver
    /\ \A s \in Step : /\ pc[s] \in Seeing => Sees(s)
                       /\ pc[s] = "create" => Cleared(s)
                       /\ pc[s] = "register" => HasClaim(wait[s])
    /\ \A w \in registered : w[1] \in dropped \/ HasClaim(w)

-----------------------------------------------------------------------------
(* Types, and the highest record. *)

Outcome == {"none", "accepted", "timed_out", "cancelled"}
Place == Claiming \cup {"idle", "settle", "forget", "register", "open", "close", "failed",
                        "leaving", "ended", "crashed"}

\* The parts of TypeOK.
RecordType == claims \subseteq Gen \X Wait /\ releases \subseteq Gen
WaitType ==
    /\ registered \subseteq Wait /\ outcome \in [Wait -> Outcome]
    /\ overdue \subseteq Wait /\ aged \subseteq Wait /\ decided \subseteq Wait
StepType ==
    /\ pc \in [Step -> Place] /\ tries \in [Step -> 0..MaxTries] /\ wait \in [Step -> Wait]
    /\ seen \in [Step -> (0..MaxGen) \X SUBSET Wait] /\ left \in [Step -> 0..Attempts]
    /\ late \subseteq Wait
RemovalType ==
    /\ rm \in {"idle", "highest", "release", "remove", "records"}
    /\ removals \in 0..MaxRemovals
    /\ ended \subseteq Step /\ selected \subseteq Gen /\ floor \in 0..MaxGen
    /\ dropped \subseteq Step

(* TypeOK is its four parts, before and after a step. *)
LEMMA TypeParts ==
  /\ TypeOK <=> RecordType /\ WaitType /\ StepType /\ RemovalType
  /\ TypeOK' <=> RecordType' /\ WaitType' /\ StepType' /\ RemovalType'
BY DEF TypeOK, RecordType, WaitType, StepType, RemovalType, Outcome, Place

(* Waits and claims are pairs. *)
LEMMA PairFacts ==
  /\ \A w \in Wait : w[1] \in Step
  /\ \A r \in Gen \X Wait : /\ r[1] \in Gen /\ r[2] \in Wait /\ r[2][1] \in Step
                            /\ r = <<r[1], r[2]>>
  /\ \A g \in Gen, w \in Wait : /\ <<g, w>> \in Gen \X Wait
                                /\ <<g, w>>[1] = g /\ <<g, w>>[2] = w
  /\ \A v, w \in Wait : v[1] = w[1] /\ v[2] = w[2] => v = w
<1>1. \A w \in Wait : w[1] \in Step
  BY DEF Wait
<1>2. \A v, w \in Wait : v[1] = w[1] /\ v[2] = w[2] => v = w
  BY DEF Wait
<1> QED
  BY <1>1, <1>2

(* A set of numbers has one highest member. *)
LEMMA HighestIsOne ==
  ASSUME NEW P, P \subseteq Nat, NEW t \in P \cup {0}, \A h \in P : h <= t
  PROVE  (CHOOSE g \in P \cup {0} : \A h \in P : h <= g) = t
<1> DEFINE c == CHOOSE g \in P \cup {0} : \A h \in P : h <= g
<1>1. c \in P \cup {0} /\ \A h \in P : h <= c
  OBVIOUS
<1> HIDE DEF c
<1>2. c \in Nat /\ t \in Nat
  BY <1>1
<1>3. c <= t /\ t <= c
  <2>1. c <= t
    BY <1>1, <1>2
  <2>2. t <= c
    BY <1>1, <1>2
  <2> QED
    BY <2>1, <2>2
<1>4. c = t
  BY <1>2, <1>3
<1> QED
  BY <1>4 DEF c

(* Top is the highest record: at or above all of them and one of them, or 0. *)
LEMMA TopFact ==
  ASSUME RecordType, HasTop
  PROVE  /\ Present \subseteq Gen /\ Top \in Present \cup {0} /\ Top \in 0..MaxGen
         /\ Top \in Nat /\ \A h \in Present : h <= Top
<1>1. Present \subseteq Gen
  BY PairFacts DEF RecordType, Present
<1>2. PICK t \in Present \cup {0} : \A h \in Present : h <= t
  BY DEF HasTop
<1>3. Present \subseteq Nat
  BY <1>1 DEF Gen
<1>4. Top = t
  BY <1>2, <1>3, HighestIsOne DEF Top
<1>5. t \in 0..MaxGen
  BY <1>1, <1>2 DEF Gen
<1> QED
  BY <1>1, <1>2, <1>4, <1>5

(* The same after a step. *)
LEMMA TopFactNext ==
  ASSUME RecordType', HasTop'
  PROVE  /\ Present' \subseteq Gen /\ Top' \in Present' \cup {0} /\ Top' \in Nat
         /\ \A h \in Present' : h <= Top'
<1>1. Present' \subseteq Gen
  BY PairFacts DEF RecordType, Present
<1>2. PICK t \in Present' \cup {0} : \A h \in Present' : h <= t
  BY DEF HasTop
<1>3. Present' \subseteq Nat
  BY <1>1 DEF Gen
<1>4. Top' = t
  BY <1>2, <1>3, HighestIsOne DEF Top
<1> QED
  BY <1>1, <1>2, <1>3, <1>4

(* A new record raises it or leaves it where it is. *)
LEMMA TopGrows ==
  ASSUME RecordType, HasTop, NEW x \in Gen, Present' = Present \cup {x}
  PROVE  /\ HasTop' /\ Top' >= Top /\ x <= Top'
         /\ x > Top => Top' = x
         /\ x <= Top => Top' = Top
<1>1. /\ Present \subseteq Gen /\ Top \in Present \cup {0} /\ Top \in Nat
      /\ \A h \in Present : h <= Top
  BY TopFact
<1>2. Present' \subseteq Nat /\ x \in Nat
  BY <1>1 DEF Gen
<1>3. CASE x > Top
  <2>1. x \in Present' \cup {0} /\ \A h \in Present' : h <= x
    BY <1>1, <1>2, <1>3
  <2>2. Top' = x
    BY <1>2, <2>1, HighestIsOne DEF Top
  <2>3. HasTop'
    BY <2>1 DEF HasTop
  <2> QED
    BY <1>1, <1>2, <1>3, <2>2, <2>3
<1>4. CASE x <= Top
  <2>1. Top \in Present' \cup {0} /\ \A h \in Present' : h <= Top
    BY <1>1, <1>4
  <2>2. Top' = Top
    BY <1>2, <2>1, HighestIsOne DEF Top
  <2>3. HasTop'
    BY <2>1 DEF HasTop
  <2> QED
    BY <1>1, <1>2, <1>4, <2>2, <2>3
<1> QED
  BY <1>1, <1>2, <1>3, <1>4

(* The removal of a lower one leaves it where it is. *)
LEMMA TopStays ==
  ASSUME RecordType, HasTop, NEW x \in Gen, x < Top, Present' = Present \ {x}
  PROVE  HasTop' /\ Top' = Top
<1>1. /\ Present \subseteq Gen /\ Top \in Present \cup {0} /\ Top \in Nat
      /\ \A h \in Present : h <= Top
  BY TopFact
<1>2. Present' \subseteq Nat /\ x \in Nat
  BY <1>1 DEF Gen
<1>3. Top \in Present' \cup {0} /\ \A h \in Present' : h <= Top
  BY <1>1, <1>2
<1>4. Top' = Top
  BY <1>2, <1>3, HighestIsOne DEF Top
<1> QED
  BY <1>3, <1>4 DEF HasTop

(* Three steps change the records of the key: how, and what becomes of the highest. *)
LEMMA RecordsStep ==
  ASSUME KeyShape, Next
  PROVE  /\ HasTop' /\ Top' >= Top /\ RecordType'
         /\ \/ UNCHANGED records /\ Present' = Present /\ Top' = Top
            \/ \E s \in Step : Create(s)
            \/ CreateRelease
            \/ \E g \in Gen : RemoveKeyRecord(g)
<1>t. RecordType /\ StepType /\ RemovalType /\ HasTop
  BY TypeParts DEF KeyShape
<1>0. Top \in Nat /\ Present \subseteq Gen /\ \A h \in Present : h <= Top
  BY <1>t, TopFact
<1>1. CASE UNCHANGED records
  <2>1. Present' = Present /\ Top' = Top
    BY <1>1 DEF records, Present, Top
  <2>2. HasTop'
    BY <1>t, <2>1 DEF HasTop
  <2>3. RecordType'
    BY <1>1, <1>t DEF records, RecordType
  <2> QED
    BY <1>0, <1>1, <2>1, <2>2, <2>3
<1>2. ASSUME NEW s \in Step, Create(s)
      PROVE  HasTop' /\ Top' >= Top /\ RecordType'
  <2>1. seen[s][1] \in 0..MaxGen /\ seen[s][1] < MaxGen
    BY <1>2, <1>t DEF Create, StepType
  <2>2. PICK x \in Gen : x = seen[s][1] + 1
    BY <2>1 DEF Gen
  <2>3. wait[s] \in Wait /\ releases' = releases
    BY <1>2, <1>t DEF Create, StepType
  <2>4. CASE x \in Present
    <3>1. UNCHANGED records
      BY <1>2, <2>2, <2>3, <2>4 DEF Create, records
    <3> QED
      BY <1>1, <3>1
  <2>5. CASE x \notin Present
    <3>1. claims' = claims \cup {<<x, wait[s]>>}
      BY <1>2, <2>2, <2>5 DEF Create
    <3>2. Present' = Present \cup {x}
      <4>1. <<x, wait[s]>>[1] = x
        OBVIOUS
      <4>2. {r[1] : r \in claims'} = {r[1] : r \in claims} \cup {x}
        BY <3>1, <4>1
      <4> QED
        BY <2>3, <4>2 DEF Present
    <3>3. RecordType'
      BY <1>t, <2>3, <3>1, PairFacts DEF RecordType
    <3> QED
      BY <1>t, <3>2, <3>3, TopGrows
  <2> QED
    BY <2>4, <2>5
<1>3. ASSUME CreateRelease
      PROVE  HasTop' /\ Top' >= Top /\ RecordType'
  <2>1. PICK x \in Gen : x = floor + 1
    BY <1>3, <1>t DEF CreateRelease, RemovalType, Gen
  <2>2. CASE x \in Present
    <3>1. UNCHANGED records
      BY <1>3, <2>1, <2>2 DEF CreateRelease, records
    <3> QED
      BY <1>1, <3>1
  <2>3. CASE x \notin Present
    <3>1. releases' = releases \cup {x} /\ claims' = claims
      BY <1>3, <2>1, <2>3 DEF CreateRelease
    <3>2. Present' = Present \cup {x}
      BY <3>1 DEF Present
    <3>3. RecordType'
      BY <1>t, <3>1 DEF RecordType
    <3> QED
      BY <1>t, <3>2, <3>3, TopGrows
  <2> QED
    BY <2>2, <2>3
<1>4. ASSUME NEW g \in Gen, RemoveKeyRecord(g)
      PROVE  HasTop' /\ Top' >= Top /\ RecordType'
  <2>1. floor \in Nat /\ g \in Nat /\ g < floor /\ floor <= Top
    BY <1>4, <1>t DEF RemoveKeyRecord, KeyShape, FloorIsReached, RemovalType, Gen
  <2>2. g < Top
    BY <1>0, <2>1
  <2>3. claims' = {r \in claims : r[1] # g} /\ releases' = releases \ {g}
    BY <1>4 DEF RemoveKeyRecord
  <2>4. Present' = Present \ {g}
    BY <2>3 DEF Present
  <2>5. RecordType'
    BY <1>t, <2>3 DEF RecordType
  <2> QED
    BY <1>0, <1>t, <2>2, <2>4, <2>5, TopStays
<1>5. \/ UNCHANGED records
      \/ \E s \in Step : Create(s)
      \/ CreateRelease
      \/ \E g \in Gen : RemoveKeyRecord(g)
  BY DEF Next, StepNext, WaitNext, records, Start, AdoptableWait, CloseOverdue, ForgetOverdue,
         RestartFresh, AdoptionFails, ReadHighest, OutcomeOfClaim, SettleTimedOut, ReadAgain,
         FindRegistration, SettleCancelled, Confirm, Register, StoreThrows, CloseUnopenedWait,
         Resume, CancelRun, RemoveRegistration, Crash, SignalDecided, SignalSettles, TimeOut,
         DeadlinePasses, GracePasses, SweepWaitRecords, RemoveWaitRecords, ListRecords,
         ReadFloor, KeyRecordsRemoved, RemovalDone, RemovalThrows, EndsRemoval
<1>6. UNCHANGED records => Present' = Present /\ Top' = Top
  BY DEF records, Present, Top
<1> QED
  BY <1>1, <1>2, <1>3, <1>4, <1>5, <1>6

(* Another attempt, or the end of the attempts, keeps the types. *)
LEMMA RetryType ==
  ASSUME StepType, NEW s \in Step, Retry(s), UNCHANGED <<tries, wait, late>>
  PROVE  StepType'
<1>1. left[s] \in 0..Attempts /\ <<0, {}>> \in (0..MaxGen) \X SUBSET Wait /\ 0 \in 0..Attempts
  BY DEF StepType
<1>2. CASE left[s] > 1
  <2>1. left[s] - 1 \in 0..Attempts
    BY <1>1, <1>2
  <2> QED
    BY <1>2, <2>1 DEF Retry, Goto, StepType, Place, Claiming
<1>3. CASE ~(left[s] > 1)
  BY <1>1, <1>3 DEF Retry, Leave, Goto, StepType, Place
<1> QED
  BY <1>2, <1>3

(* The type invariant is inductive with the highest record.  Steps of a waiting step, steps
   of a wait and of its signallers, and steps of the removal are taken in turn.              *)
LEMMA KeyShapeStep == KeyShape /\ [Next]_vars => KeyShape' /\ Top' >= Top
<1> SUFFICES ASSUME KeyShape, [Next]_vars PROVE KeyShape' /\ Top' >= Top
  OBVIOUS
<1> USE DEF records, waits, clock, step, removal
<1>t. RecordType /\ WaitType /\ StepType /\ RemovalType /\ HasTop
  BY TypeParts DEF KeyShape
<1>0. /\ Top \in 0..MaxGen /\ Top \in Nat
      /\ \A g \in 0..MaxGen : ClaimAt(g) \subseteq Wait /\ <<g, ClaimAt(g)>> \in (0..MaxGen) \X SUBSET Wait
  BY <1>t, TopFact DEF ClaimAt
<1>n. /\ <<0, {}>> \in (0..MaxGen) \X SUBSET Wait /\ 0 \in 0..Attempts /\ Attempts \in 0..Attempts
      /\ \A n \in 0..MaxTries : n < MaxTries =>
            n + 1 \in 0..MaxTries /\ \A s \in Step : <<s, n + 1>> \in Wait
      /\ \A n \in 0..Attempts : n > 1 => n - 1 \in 0..Attempts
  BY DEF Wait
<1>c. \A r \in claims : r[1] \in Gen
  BY <1>t, PairFacts DEF RecordType
<1>u. UNCHANGED step => (StepType <=> StepType')
  BY DEF StepType
<1>v. UNCHANGED removal => (RemovalType <=> RemovalType')
  BY DEF RemovalType
<1>1. ASSUME NEW s \in Step, StepNext(s) PROVE WaitType' /\ StepType' /\ RemovalType'
  <2>w. wait[s] \in Wait /\ seen[s][1] \in 0..MaxGen /\ seen[s][2] \subseteq Wait
    BY <1>t DEF StepType
  <2>1. CASE Start(s)
    <3>1. WaitType'
      BY <2>1, <1>t, <2>w
      DEF Start, OpensWait, Goto, WaitType, Outcome
    <3>2. StepType'
      BY <2>1, <1>t, <1>n, <2>w
      DEF Start, OpensWait, Goto, StepType, Place, Claiming
    <3>3. UNCHANGED removal
      BY <2>1
      DEF Start, OpensWait, Goto
    <3> QED
      BY <1>t, <1>v, <3>1, <3>2, <3>3
  <2>2. CASE AdoptableWait(s)
    <3>1. WaitType'
      BY <2>2, <1>t, <2>w
      DEF AdoptableWait, Goto, Adoptable, WaitType, Outcome
    <3>2. StepType'
      <4>1. PICK w \in Wait : wait' = [wait EXCEPT ![s] = w]
        BY <2>2, <1>t DEF AdoptableWait, WaitType
      <4>2. PICK l \in Place : pc' = [pc EXCEPT ![s] = l]
        BY <2>2 DEF AdoptableWait, Goto, Place
      <4> QED
        BY <2>2, <1>t, <4>1, <4>2 DEF AdoptableWait, StepType
    <3>3. UNCHANGED removal
      BY <2>2
      DEF AdoptableWait, Goto, Adoptable
    <3> QED
      BY <1>t, <1>v, <3>1, <3>2, <3>3
  <2>3. CASE CloseOverdue(s)
    <3>1. WaitType'
      BY <2>3, <1>t, <2>w
      DEF CloseOverdue, Settle, Goto, WaitType, Outcome
    <3>2. StepType'
      BY <2>3, <1>t, <1>n, <2>w
      DEF CloseOverdue, Settle, Goto, StepType, Place, Claiming
    <3>3. UNCHANGED removal
      BY <2>3
      DEF CloseOverdue, Settle, Goto
    <3> QED
      BY <1>t, <1>v, <3>1, <3>2, <3>3
  <2>4. CASE ForgetOverdue(s)
    <3>1. WaitType'
      BY <2>4, <1>t, <2>w
      DEF ForgetOverdue, OpensWait, Goto, WaitType, Outcome
    <3>2. StepType'
      BY <2>4, <1>t, <1>n, <2>w
      DEF ForgetOverdue, OpensWait, Goto, StepType, Place, Claiming
    <3>3. UNCHANGED removal
      BY <2>4
      DEF ForgetOverdue, OpensWait, Goto
    <3> QED
      BY <1>t, <1>v, <3>1, <3>2, <3>3
  <2>5. CASE RestartFresh(s)
    <3>1. WaitType'
      BY <2>5, <1>t, <2>w
      DEF RestartFresh, OpensWait, Goto, WaitType, Outcome
    <3>2. StepType'
      BY <2>5, <1>t, <1>n, <2>w
      DEF RestartFresh, OpensWait, Goto, StepType, Place, Claiming
    <3>3. UNCHANGED removal
      BY <2>5
      DEF RestartFresh, OpensWait, Goto
    <3> QED
      BY <1>t, <1>v, <3>1, <3>2, <3>3
  <2>6. CASE ReadHighest(s)
    <3>1. WaitType'
      BY <2>6, <1>t, <2>w
      DEF ReadHighest, Goto, WaitType, Outcome
    <3>2. StepType'
      BY <2>6, <1>t, <1>0 DEF ReadHighest, Goto, StepType, Place, Claiming
    <3>3. UNCHANGED removal
      BY <2>6
      DEF ReadHighest, Goto
    <3> QED
      BY <1>t, <1>v, <3>1, <3>2, <3>3
  <2>7. CASE OutcomeOfClaim(s)
    <3>1. WaitType'
      BY <2>7, <1>t, <2>w
      DEF OutcomeOfClaim, Goto, Holds, WaitType, Outcome
    <3>2. StepType'
      BY <2>7, <1>t, <1>n, <2>w
      DEF OutcomeOfClaim, Goto, Holds, StepType, Place, Claiming
    <3>3. UNCHANGED removal
      BY <2>7
      DEF OutcomeOfClaim, Goto, Holds
    <3> QED
      BY <1>t, <1>v, <3>1, <3>2, <3>3
  <2>8. CASE SettleTimedOut(s)
    <3>1. WaitType'
      BY <2>8, <1>t, <2>w
      DEF SettleTimedOut, Settle, Goto, WaitType, Outcome
    <3>2. StepType'
      BY <2>8, <1>t, <1>n, <2>w
      DEF SettleTimedOut, Settle, Goto, StepType, Place, Claiming
    <3>3. UNCHANGED removal
      BY <2>8
      DEF SettleTimedOut, Settle, Goto
    <3> QED
      BY <1>t, <1>v, <3>1, <3>2, <3>3
  <2>9. CASE ReadAgain(s)
    <3>1. WaitType'
      BY <2>9, <1>t, <2>w
      DEF ReadAgain, Retry, Leave, Goto, WaitType, Outcome
    <3>2. StepType'
      <4>1. CASE Retry(s) /\ UNCHANGED wait
        BY <2>9, <1>t, <4>1, RetryType DEF ReadAgain
      <4>2. CASE ~(Retry(s) /\ UNCHANGED wait)
        <5>1. PICK w \in Wait :
                 \/ Leave(s, "register") /\ wait' = [wait EXCEPT ![s] = w]
                 \/ Goto(s, "abandoned") /\ UNCHANGED <<wait, seen, left>>
                 \/ Leave(s, "failed") /\ UNCHANGED wait
          BY <2>9, <2>w, <4>2 DEF ReadAgain
        <5>2. CASE Leave(s, "register") /\ wait' = [wait EXCEPT ![s] = w]
          BY <2>9, <1>t, <1>n, <5>2 DEF ReadAgain, Leave, Goto, StepType, Place
        <5>3. CASE Goto(s, "abandoned") /\ UNCHANGED <<wait, seen, left>>
          BY <2>9, <1>t, <5>3 DEF ReadAgain, Goto, StepType, Place, Claiming
        <5>4. CASE Leave(s, "failed") /\ UNCHANGED wait
          BY <2>9, <1>t, <1>n, <5>4 DEF ReadAgain, Leave, Goto, StepType, Place
        <5> QED
          BY <5>1, <5>2, <5>3, <5>4
      <4> QED
        BY <4>1, <4>2
    <3>3. UNCHANGED removal
      BY <2>9
      DEF ReadAgain, Retry, Leave, Goto
    <3> QED
      BY <1>t, <1>v, <3>1, <3>2, <3>3
  <2>10. CASE FindRegistration(s)
    <3>1. WaitType'
      BY <2>10, <1>t, <2>w
      DEF FindRegistration, Leave, Goto, WaitType, Outcome
    <3>2. StepType'
      BY <2>10, <1>t, <1>n, <2>w
      DEF FindRegistration, Leave, Goto, StepType, Place, Claiming
    <3>3. UNCHANGED removal
      BY <2>10
      DEF FindRegistration, Leave, Goto
    <3> QED
      BY <1>t, <1>v, <3>1, <3>2, <3>3
  <2>11. CASE SettleCancelled(s)
    <3>1. WaitType'
      BY <2>11, <1>t, <2>w
      DEF SettleCancelled, Settle, Retry, Leave, Goto, WaitType, Outcome
    <3>2. StepType'
      BY <2>11, <1>t, RetryType DEF SettleCancelled
    <3>3. UNCHANGED removal
      BY <2>11
      DEF SettleCancelled, Settle, Retry, Leave, Goto
    <3> QED
      BY <1>t, <1>v, <3>1, <3>2, <3>3
  <2>12. CASE Create(s)
    <3>1. WaitType'
      BY <2>12, <1>t, <2>w
      DEF Create, Goto, WaitType, Outcome
    <3>2. StepType'
      BY <2>12, <1>t, <1>n, <2>w
      DEF Create, Goto, StepType, Place, Claiming
    <3>3. UNCHANGED removal
      BY <2>12
      DEF Create, Goto
    <3> QED
      BY <1>t, <1>v, <3>1, <3>2, <3>3
  <2>13. CASE Confirm(s)
    <3>1. WaitType'
      BY <2>13, <1>t, <2>w
      DEF Confirm, Retry, Leave, Goto, WaitType, Outcome
    <3>2. StepType'
      <4>1. CASE Retry(s)
        BY <2>13, <1>t, <4>1, RetryType DEF Confirm
      <4>2. CASE Leave(s, "register")
        BY <2>13, <1>t, <1>n, <4>2 DEF Confirm, Leave, Goto, StepType, Place
      <4> QED
        BY <2>13, <4>1, <4>2 DEF Confirm
    <3>3. UNCHANGED removal
      BY <2>13
      DEF Confirm, Retry, Leave, Goto
    <3> QED
      BY <1>t, <1>v, <3>1, <3>2, <3>3
  <2>14. CASE Register(s)
    <3>1. WaitType'
      BY <2>14, <1>t, <2>w
      DEF Register, Goto, WaitType, Outcome
    <3>2. StepType'
      BY <2>14, <1>t, <1>n, <2>w
      DEF Register, Goto, StepType, Place, Claiming
    <3>3. UNCHANGED removal
      BY <2>14
      DEF Register, Goto
    <3> QED
      BY <1>t, <1>v, <3>1, <3>2, <3>3
  <2>15. CASE StoreThrows(s)
    <3>1. WaitType'
      BY <2>15, <1>t, <2>w
      DEF StoreThrows, Leave, Goto, WaitType, Outcome
    <3>2. StepType'
      BY <2>15, <1>t, <1>n, <2>w
      DEF StoreThrows, Leave, Goto, StepType, Place, Claiming
    <3>3. UNCHANGED removal
      BY <2>15
      DEF StoreThrows, Leave, Goto
    <3> QED
      BY <1>t, <1>v, <3>1, <3>2, <3>3
  <2>16. CASE CloseUnopenedWait(s)
    <3>1. WaitType'
      BY <2>16, <1>t, <2>w
      DEF CloseUnopenedWait, Settle, Goto, WaitType, Outcome
    <3>2. StepType'
      BY <2>16, <1>t, <1>n, <2>w
      DEF CloseUnopenedWait, Settle, Goto, StepType, Place, Claiming
    <3>3. UNCHANGED removal
      BY <2>16
      DEF CloseUnopenedWait, Settle, Goto
    <3> QED
      BY <1>t, <1>v, <3>1, <3>2, <3>3
  <2>17. CASE Resume(s)
    <3>1. WaitType'
      BY <2>17, <1>t, <2>w
      DEF Resume, Goto, WaitType, Outcome
    <3>2. StepType'
      BY <2>17, <1>t, <1>n, <2>w
      DEF Resume, Goto, StepType, Place, Claiming
    <3>3. UNCHANGED removal
      BY <2>17
      DEF Resume, Goto
    <3> QED
      BY <1>t, <1>v, <3>1, <3>2, <3>3
  <2>18. CASE CancelRun(s)
    <3>1. WaitType'
      BY <2>18, <1>t, <2>w
      DEF CancelRun, Settle, Goto, WaitType, Outcome
    <3>2. StepType'
      BY <2>18, <1>t, <1>n, <2>w
      DEF CancelRun, Settle, Goto, StepType, Place, Claiming
    <3>3. UNCHANGED removal
      BY <2>18
      DEF CancelRun, Settle, Goto
    <3> QED
      BY <1>t, <1>v, <3>1, <3>2, <3>3
  <2>19. CASE RemoveRegistration(s)
    <3>1. WaitType'
      BY <2>19, <1>t, <2>w
      DEF RemoveRegistration, Goto, WaitType, Outcome
    <3>2. StepType'
      BY <2>19, <1>t, <1>n, <2>w
      DEF RemoveRegistration, Goto, StepType, Place, Claiming
    <3>3. UNCHANGED removal
      BY <2>19
      DEF RemoveRegistration, Goto
    <3> QED
      BY <1>t, <1>v, <3>1, <3>2, <3>3
  <2>21. CASE AdoptionFails(s)
    <3>1. WaitType'
      BY <2>21, <1>t DEF AdoptionFails, WaitType
    <3>2. StepType'
      BY <2>21, <1>t DEF AdoptionFails, Goto, StepType, Place
    <3>3. UNCHANGED removal
      BY <2>21 DEF AdoptionFails
    <3> QED
      BY <1>t, <1>v, <3>1, <3>2, <3>3
  <2>20. CASE Crash(s)
    <3>1. WaitType'
      BY <2>20, <1>t, <2>w
      DEF Crash, Leave, Goto, WaitType, Outcome
    <3>2. StepType'
      BY <2>20, <1>t, <1>n, <2>w
      DEF Crash, Leave, Goto, StepType, Place, Claiming
    <3>3. UNCHANGED removal
      BY <2>20
      DEF Crash, Leave, Goto
    <3> QED
      BY <1>t, <1>v, <3>1, <3>2, <3>3
  <2> QED
    BY <1>1, <1>t, <1>v, <2>1, <2>2, <2>3, <2>4, <2>5, <2>6, <2>7, <2>8, <2>9, <2>10,
       <2>11, <2>12, <2>13, <2>14, <2>15, <2>16, <2>17, <2>18, <2>19, <2>20, <2>21
    DEF StepNext
<1>2. ASSUME NEW w \in Wait, WaitNext(w) PROVE WaitType' /\ StepType' /\ RemovalType'
  <2>1. CASE SignalDecided(w)
    <3>1. WaitType'
      BY <2>1, <1>t
      DEF SignalDecided, WaitType, Outcome
    <3>2. UNCHANGED step /\ UNCHANGED removal
      BY <2>1
      DEF SignalDecided
    <3> QED
      BY <1>t, <1>u, <1>v, <3>1, <3>2
  <2>2. CASE SignalSettles(w)
    <3>1. WaitType'
      BY <2>2, <1>t
      DEF SignalSettles, Settle, WaitType, Outcome
    <3>2. UNCHANGED step /\ UNCHANGED removal
      BY <2>2
      DEF SignalSettles, Settle
    <3> QED
      BY <1>t, <1>u, <1>v, <3>1, <3>2
  <2>3. CASE TimeOut(w)
    <3>1. WaitType'
      BY <2>3, <1>t
      DEF TimeOut, Settle, WaitType, Outcome
    <3>2. UNCHANGED step /\ UNCHANGED removal
      BY <2>3
      DEF TimeOut, Settle
    <3> QED
      BY <1>t, <1>u, <1>v, <3>1, <3>2
  <2>4. CASE DeadlinePasses(w)
    <3>1. WaitType'
      BY <2>4, <1>t
      DEF DeadlinePasses, WaitType, Outcome
    <3>2. UNCHANGED step /\ UNCHANGED removal
      BY <2>4
      DEF DeadlinePasses
    <3> QED
      BY <1>t, <1>u, <1>v, <3>1, <3>2
  <2>5. CASE GracePasses(w)
    <3>1. WaitType'
      BY <2>5, <1>t
      DEF GracePasses, SweepWaitRecords, WaitType, Outcome
    <3>2. UNCHANGED step /\ UNCHANGED removal
      BY <2>5
      DEF GracePasses, SweepWaitRecords
    <3> QED
      BY <1>t, <1>u, <1>v, <3>1, <3>2
  <2>6. CASE RemoveWaitRecords(w)
    <3>1. WaitType'
      BY <2>6, <1>t
      DEF RemoveWaitRecords, WaitType, Outcome
    <3>2. UNCHANGED step /\ UNCHANGED removal
      BY <2>6
      DEF RemoveWaitRecords
    <3> QED
      BY <1>t, <1>u, <1>v, <3>1, <3>2
  <2>7. CASE SweepWaitRecords(w)
    <3>1. WaitType'
      BY <2>7, <1>t
      DEF SweepWaitRecords, Settle, WaitType, Outcome
    <3>2. UNCHANGED step /\ UNCHANGED removal
      BY <2>7
      DEF SweepWaitRecords
    <3> QED
      BY <1>t, <1>u, <1>v, <3>1, <3>2
  <2> QED
    BY <1>2, <2>1, <2>2, <2>3, <2>4, <2>5, <2>6, <2>7 DEF WaitNext
<1>3. ASSUME \/ ListRecords \/ ReadFloor \/ CreateRelease \/ KeyRecordsRemoved
             \/ RemovalDone \/ RemovalThrows
      PROVE  WaitType' /\ StepType' /\ RemovalType'
  <2>1. CASE ListRecords
    <3>1. WaitType'
      BY <2>1, <1>t
      DEF ListRecords, WaitType
    <3>2. UNCHANGED step
      BY <2>1
      DEF ListRecords
    <3>3. RemovalType'
      <4>1. selected' \subseteq Gen
        BY <2>1, <1>t, <1>c DEF ListRecords, RecordType
      <4>2. removals' \in 0..MaxRemovals
        BY <2>1, <1>t DEF ListRecords, RemovalType
      <4> QED
        BY <2>1, <1>t, <4>1, <4>2 DEF ListRecords, RemovalType
    <3> QED
      BY <1>t, <1>u, <3>1, <3>2, <3>3
  <2>2. CASE ReadFloor
    <3>1. WaitType'
      BY <2>2, <1>t
      DEF ReadFloor, WaitType
    <3>2. UNCHANGED step
      BY <2>2
      DEF ReadFloor
    <3>3. RemovalType'
      BY <2>2, <1>t, <1>0, <1>c
      DEF ReadFloor, RemovalType
    <3> QED
      BY <1>t, <1>u, <3>1, <3>2, <3>3
  <2>3. CASE CreateRelease
    <3>1. WaitType'
      BY <2>3, <1>t
      DEF CreateRelease, WaitType
    <3>2. UNCHANGED step
      BY <2>3
      DEF CreateRelease
    <3>3. RemovalType'
      BY <2>3, <1>t, <1>0, <1>c
      DEF CreateRelease, RemovalType
    <3> QED
      BY <1>t, <1>u, <3>1, <3>2, <3>3
  <2>4. CASE KeyRecordsRemoved
    <3>1. WaitType'
      BY <2>4, <1>t
      DEF KeyRecordsRemoved, WaitType
    <3>2. UNCHANGED step
      BY <2>4
      DEF KeyRecordsRemoved
    <3>3. RemovalType'
      BY <2>4, <1>t, <1>0, <1>c
      DEF KeyRecordsRemoved, RemovalType
    <3> QED
      BY <1>t, <1>u, <3>1, <3>2, <3>3
  <2>5. CASE RemovalDone \/ RemovalThrows
    <3>0. EndsRemoval
      BY <2>5 DEF RemovalDone, RemovalThrows
    <3>1. WaitType'
      BY <3>0, <1>t DEF EndsRemoval, WaitType
    <3>2. UNCHANGED step
      BY <3>0 DEF EndsRemoval
    <3>3. RemovalType'
      BY <3>0, <1>t DEF EndsRemoval, RemovalType
    <3> QED
      BY <1>t, <1>u, <3>1, <3>2, <3>3
  <2> QED
    BY <1>3, <2>1, <2>2, <2>3, <2>4, <2>5
<1>4. ASSUME NEW g \in Gen, RemoveKeyRecord(g) PROVE WaitType' /\ StepType' /\ RemovalType'
  <2>1. UNCHANGED step /\ UNCHANGED <<waits, clock, decided, rm, removals, ended, floor, dropped>>
    BY <1>4 DEF RemoveKeyRecord
  <2>2. selected' \subseteq Gen
    BY <1>4, <1>t DEF RemoveKeyRecord, RemovalType
  <2> QED
    BY <1>t, <1>u, <2>1, <2>2 DEF WaitType, RemovalType
<1>5. ASSUME Next PROVE FloorIsReached' /\ Top' >= Top /\ HasTop' /\ RecordType'
  <2>1. HasTop' /\ Top' >= Top /\ RecordType'
    BY <1>5, RecordsStep
  <2>2. Top' \in Nat
    BY <2>1, TopFactNext
  <2>3. CASE rm' = rm /\ floor' = floor
    <3>1. floor \in Nat
      BY <1>t DEF RemovalType
    <3> QED
      BY <1>0, <2>1, <2>2, <2>3, <3>1 DEF KeyShape, FloorIsReached
  <2>4. CASE ReadFloor
    <3>1. floor' = Top
      BY <2>4 DEF ReadFloor
    <3> QED
      BY <2>1, <3>1 DEF FloorIsReached
  <2>5. CASE CreateRelease
    <3>1. PICK x \in Gen : x = floor + 1 /\ x = floor'
      BY <1>t, <2>5 DEF CreateRelease, RemovalType, Gen
    <3>2. x \in Present'
      BY <2>5, <3>1 DEF CreateRelease, Present
    <3>3. \A h \in Present' : h <= Top'
      BY <2>1, TopFactNext
    <3> QED
      BY <2>1, <3>1, <3>2, <3>3 DEF FloorIsReached
  <2>6. CASE rm' \notin {"release", "remove"}
    BY <2>1, <2>6 DEF FloorIsReached
  <2>7. (rm' = rm /\ floor' = floor) \/ ReadFloor \/ CreateRelease \/ rm' \notin {"release", "remove"}
    BY <1>5 DEF Next, StepNext, WaitNext, Start, AdoptableWait, CloseOverdue,
                ForgetOverdue, RestartFresh, AdoptionFails, ReadHighest, OutcomeOfClaim,
                SettleTimedOut, ReadAgain, FindRegistration, SettleCancelled, Create,
                Confirm, Register, StoreThrows, CloseUnopenedWait, Resume, CancelRun,
                RemoveRegistration, Crash, SignalDecided, SignalSettles, TimeOut,
                DeadlinePasses, GracePasses, SweepWaitRecords, RemoveWaitRecords, ListRecords,
                KeyRecordsRemoved, RemovalDone, RemovalThrows, EndsRemoval, RemoveKeyRecord
  <2> QED
    BY <2>1, <2>3, <2>4, <2>5, <2>6, <2>7
<1>6. ASSUME Next PROVE KeyShape' /\ Top' >= Top
  BY <1>1, <1>2, <1>3, <1>4, <1>5, <1>6, TypeParts DEF Next, KeyShape
<1>7. CASE UNCHANGED vars
  <2>1. Present' = Present /\ Top' = Top
    BY <1>7 DEF vars, Top, Present
  <2>2. HasTop' /\ FloorIsReached'
    BY <1>7, <2>1 DEF vars, KeyShape, HasTop, FloorIsReached
  <2>3. TypeOK'
    BY <1>7 DEF vars, KeyShape, TypeOK
  <2> QED
    BY <1>0, <2>1, <2>2, <2>3 DEF KeyShape
<1> QED
  BY <1>6, <1>7

(* At the start the key has no record. *)
LEMMA KeyShapeInit == Init => KeyShape
<1> SUFFICES ASSUME Init PROVE KeyShape
  OBVIOUS
<1>1. TypeOK
  <2>1. RecordType /\ RemovalType
    BY DEF Init, RecordType, RemovalType
  <2>2. WaitType
    BY DEF Init, WaitType, Outcome
  <2>3. ASSUME NEW s \in Step PROVE <<s, 1>> \in Wait
    BY DEF Wait
  <2>4. StepType
    BY <2>3 DEF Init, StepType, Place
  <2> QED
    BY <2>1, <2>2, <2>4, TypeParts
<1>2. HasTop
  BY DEF Init, HasTop, Present
<1> QED
  BY <1>1, <1>2 DEF Init, KeyShape, FloorIsReached

(* Every variable keeps its type: generations stay within what the key's records can be. *)
THEOREM KeyTypeCorrect == Spec => []TypeOK
<1>1. KeyShape => TypeOK
  BY DEF KeyShape
<1> QED
  BY <1>1, KeyShapeInit, KeyShapeStep, PTL DEF Spec

(* The numbers of a key never come down, whatever the removal does meanwhile: it deletes
   only below a record that it made or found.                                            *)
THEOREM NumbersNeverComeDown == Spec => HighestStays
<1>1. KeyShape /\ [Next]_vars => [Top' >= Top]_vars
  BY KeyShapeStep
<1> QED
  BY <1>1, KeyShapeInit, KeyShapeStep, PTL DEF Spec, HighestStays

(* A settled wait stays as it is settled until its run is removed: every writer of an
   outcome, of any step, signaller or timeout, leaves one that is there.                *)
THEOREM OutcomesAreFinal == Spec => OutcomeIsFinal
<1>1. KeyShape /\ [Next]_vars =>
        [\A w \in Wait : outcome[w] # "none" => outcome'[w] \in {outcome[w], "none"}]_vars
  <2> SUFFICES ASSUME KeyShape, Next, NEW w \in Wait, outcome[w] # "none"
               PROVE  outcome'[w] \in {outcome[w], "none"}
    OBVIOUS
  <2>1. outcome \in [Wait -> Outcome]
    BY TypeParts DEF KeyShape, WaitType
  <2>2. ASSUME NEW v \in Wait, NEW k, Settle(v, k) PROVE outcome'[w] = outcome[w]
    BY <2>1, <2>2 DEF Settle
  <2>3. ASSUME NEW s \in Step, StepNext(s) PROVE outcome'[w] = outcome[w]
    <3>1. wait[s] \in Wait /\ seen[s][2] \subseteq Wait
      BY TypeParts DEF KeyShape, StepType
    <3> QED
      BY <2>2, <2>3, <3>1
      DEF StepNext, waits, Start, AdoptableWait, CloseOverdue, ForgetOverdue,
          RestartFresh, AdoptionFails, ReadHighest, OutcomeOfClaim, SettleTimedOut, ReadAgain,
          FindRegistration, SettleCancelled, Create, Confirm, Register, StoreThrows,
          CloseUnopenedWait, Resume, CancelRun, RemoveRegistration, Crash
  <2>4. ASSUME NEW v \in Wait, WaitNext(v) PROVE outcome'[w] \in {outcome[w], "none"}
    BY <2>1, <2>2, <2>4
    DEF WaitNext, waits, SignalDecided, SignalSettles, TimeOut, DeadlinePasses, GracePasses,
        SweepWaitRecords, RemoveWaitRecords
  <2>5. ASSUME \/ ListRecords \/ ReadFloor \/ CreateRelease \/ KeyRecordsRemoved
               \/ RemovalDone \/ RemovalThrows
               \/ \E g \in Gen : RemoveKeyRecord(g)
        PROVE  outcome'[w] = outcome[w]
    BY <2>5
    DEF waits, ListRecords, ReadFloor, CreateRelease, KeyRecordsRemoved, RemovalDone,
        RemovalThrows, EndsRemoval, RemoveKeyRecord
  <2> QED
    BY <2>3, <2>4, <2>5 DEF Next
<1> QED
  BY <1>1, KeyShapeInit, KeyShapeStep, PTL DEF Spec, OutcomeIsFinal

-----------------------------------------------------------------------------
(* What steps leave alone. *)

\* The variables of another step.
Same(x) == pc'[x] = pc[x] /\ wait'[x] = wait[x] /\ seen'[x] = seen[x]

(* A step of the workflow changes its own place, its registration, and the outcome of a
   wait that had none, which it never accepts.  It was not over.                          *)
LEMMA StepFrame ==
  ASSUME KeyShape, NEW s \in Step, StepNext(s)
  PROVE  /\ \A x \in Step \ {s} : Same(x)
         /\ UNCHANGED <<releases, overdue, aged, decided, removal>>
         /\ ~Over(s)
         /\ \A w \in Wait : \/ outcome'[w] = outcome[w]
                            \/ outcome[w] = "none" /\ outcome'[w] \in {"timed_out", "cancelled"}
         /\ UNCHANGED <<claims, late>> \/ Create(s)
         /\ late \subseteq late'
<1>t. WaitType /\ StepType
  BY TypeParts DEF KeyShape
<1>1. \A x \in Step \ {s} : Same(x)
  <2>1. \A x \in Step \ {s} : pc'[x] = pc[x]
    BY <1>t DEF StepNext, StepType, step, Start, AdoptableWait, CloseOverdue,
                ForgetOverdue, RestartFresh, AdoptionFails, ReadHighest, OutcomeOfClaim,
                SettleTimedOut, ReadAgain, FindRegistration, SettleCancelled, Create,
                Confirm, Register, StoreThrows, CloseUnopenedWait, Resume, CancelRun,
                RemoveRegistration, Crash, OpensWait, Goto, Leave, Retry
  <2>2. \A x \in Step \ {s} : wait'[x] = wait[x]
    BY <1>t DEF StepNext, StepType, step, Start, AdoptableWait, CloseOverdue,
                ForgetOverdue, RestartFresh, AdoptionFails, ReadHighest, OutcomeOfClaim,
                SettleTimedOut, ReadAgain, FindRegistration, SettleCancelled, Create,
                Confirm, Register, StoreThrows, CloseUnopenedWait, Resume, CancelRun,
                RemoveRegistration, Crash, OpensWait
  <2>3. \A x \in Step \ {s} : seen'[x] = seen[x]
    BY <1>t DEF StepNext, StepType, step, Start, AdoptableWait, CloseOverdue,
                ForgetOverdue, RestartFresh, AdoptionFails, ReadHighest, OutcomeOfClaim,
                SettleTimedOut, ReadAgain, FindRegistration, SettleCancelled, Create,
                Confirm, Register, StoreThrows, CloseUnopenedWait, Resume, CancelRun,
                RemoveRegistration, Crash, Leave, Retry
  <2> QED
    BY <2>1, <2>2, <2>3 DEF Same
<1>2. UNCHANGED <<releases, overdue, aged, decided, removal>>
  BY DEF StepNext, records, clock, removal, Start, AdoptableWait, CloseOverdue,
         ForgetOverdue, RestartFresh, AdoptionFails, ReadHighest, OutcomeOfClaim, SettleTimedOut,
         ReadAgain, FindRegistration, SettleCancelled, Create, Confirm, Register,
         StoreThrows, CloseUnopenedWait, Resume, CancelRun, RemoveRegistration, Crash
<1>3. ~Over(s)
  BY DEF StepNext, Over, Claiming, Start, AdoptableWait, CloseOverdue, ForgetOverdue,
         RestartFresh, AdoptionFails, ReadHighest, OutcomeOfClaim, SettleTimedOut, ReadAgain,
         FindRegistration, SettleCancelled, Create, Confirm, Register, StoreThrows,
         CloseUnopenedWait, Resume, CancelRun, RemoveRegistration, Crash
<1>4. ASSUME NEW w \in Wait
      PROVE  \/ outcome'[w] = outcome[w]
             \/ outcome[w] = "none" /\ outcome'[w] \in {"timed_out", "cancelled"}
  <2>1. ASSUME NEW v \in Wait, NEW k \in {"timed_out", "cancelled"}, Settle(v, k)
        PROVE  \/ outcome'[w] = outcome[w]
               \/ outcome[w] = "none" /\ outcome'[w] \in {"timed_out", "cancelled"}
    BY <1>t, <2>1 DEF Settle, WaitType
  <2>2. wait[s] \in Wait /\ seen[s][2] \subseteq Wait
    BY <1>t DEF StepType
  <2> QED
    BY <2>1, <2>2 DEF StepNext, waits, Start, AdoptableWait, CloseOverdue,
                      ForgetOverdue, RestartFresh, AdoptionFails, ReadHighest, OutcomeOfClaim,
                      SettleTimedOut, ReadAgain, FindRegistration, SettleCancelled,
                      Create, Confirm, Register, StoreThrows, CloseUnopenedWait, Resume,
                      CancelRun, RemoveRegistration, Crash
<1>5. UNCHANGED <<claims, late>> \/ Create(s)
  BY DEF StepNext, records, Start, AdoptableWait, CloseOverdue, ForgetOverdue,
         RestartFresh, AdoptionFails, ReadHighest, OutcomeOfClaim, SettleTimedOut, ReadAgain,
         FindRegistration, SettleCancelled, Confirm, Register, StoreThrows,
         CloseUnopenedWait, Resume, CancelRun, RemoveRegistration, Crash
<1>6. late \subseteq late'
  BY <1>5 DEF Create
<1> QED
  BY <1>1, <1>2, <1>3, <1>4, <1>5, <1>6

(* A signaller, a timeout or the clock changes no step and no record of the key. *)
LEMMA WaitFrame ==
  ASSUME NEW w \in Wait, WaitNext(w)
  PROVE  UNCHANGED <<claims, releases, step, removal>> /\ overdue \subseteq overdue'
BY DEF WaitNext, records, clock, SignalDecided, SignalSettles, TimeOut, DeadlinePasses,
       GracePasses, SweepWaitRecords, RemoveWaitRecords

(* The removal changes no wait, step or clock, but for the records of waits (above). *)
LEMMA RemovalFrame ==
  ASSUME \/ ListRecords \/ ReadFloor \/ CreateRelease \/ KeyRecordsRemoved
         \/ RemovalDone \/ RemovalThrows
         \/ \E g \in Gen : RemoveKeyRecord(g)
  PROVE  UNCHANGED <<registered, outcome, overdue, aged, decided, pc, tries, wait, seen, left,
                     late>>
BY DEF waits, clock, step, ListRecords, ReadFloor, CreateRelease, KeyRecordsRemoved,
       RemovalDone, RemovalThrows, EndsRemoval, RemoveKeyRecord

(* A run that is over stays over, and only of a run that is removed is an outcome removed. *)
LEMMA OverIsFinal ==
  ASSUME KeyShape, EndedAreOver, Next
  PROVE  /\ \A x \in Step : Over(x) => Over(x)'
         /\ dropped \subseteq dropped' /\ late \subseteq late'
         /\ \A w \in Wait : outcome[w] # "none" /\ outcome'[w] = "none" => w[1] \in dropped
         /\ \A w \in Wait : Unsettled(w)' => Unsettled(w)
<1>1. ASSUME NEW s \in Step, StepNext(s)
      PROVE  /\ \A x \in Step : Over(x) => Over(x)'
             /\ dropped' = dropped /\ late \subseteq late'
             /\ \A w \in Wait : outcome[w] # "none" => outcome'[w] # "none"
  BY <1>1, StepFrame DEF Over, Same, removal
<1>2. ASSUME NEW v \in Wait, WaitNext(v)
      PROVE  /\ \A x \in Step : Over(x) => Over(x)'
             /\ dropped' = dropped /\ late' = late
             /\ \A w \in Wait : outcome[w] # "none" /\ outcome'[w] = "none" => w[1] \in dropped
  <2>1. (\A x \in Step : Over(x) => Over(x)') /\ dropped' = dropped /\ late' = late
    BY <1>2, WaitFrame DEF Over, step, removal
  <2>2. outcome \in [Wait -> Outcome]
    BY TypeParts DEF KeyShape, WaitType
  <2>3. \A w \in Wait : outcome[w] # "none" /\ outcome'[w] = "none" => w[1] \in dropped
    BY <1>2, <2>2
    DEF WaitNext, waits, SignalDecided, SignalSettles, TimeOut, DeadlinePasses, GracePasses,
        SweepWaitRecords, RemoveWaitRecords, Settle, EndedAreOver
  <2> QED
    BY <2>1, <2>3
<1>3. ASSUME \/ ListRecords \/ ReadFloor \/ CreateRelease \/ KeyRecordsRemoved
             \/ RemovalDone \/ RemovalThrows
             \/ \E g \in Gen : RemoveKeyRecord(g)
      PROVE  /\ \A x \in Step : Over(x) => Over(x)'
             /\ dropped \subseteq dropped' /\ late' = late
             /\ \A w \in Wait : outcome[w] # "none" => outcome'[w] # "none"
  <2>1. dropped \subseteq dropped'
    BY <1>3 DEF ListRecords, ReadFloor, CreateRelease, KeyRecordsRemoved, RemovalDone,
                RemovalThrows, EndsRemoval, RemoveKeyRecord
  <2> QED
    BY <1>3, <2>1, RemovalFrame DEF Over
<1>4. /\ \A x \in Step : Over(x) => Over(x)'
      /\ dropped \subseteq dropped' /\ late \subseteq late'
      /\ \A w \in Wait : outcome[w] # "none" /\ outcome'[w] = "none" => w[1] \in dropped
  BY <1>1, <1>2, <1>3 DEF Next
<1> QED
  BY <1>4 DEF Unsettled

-----------------------------------------------------------------------------
(* Registrations, and signals that come in time. *)

(* A step has one registration, of the wait it stands at. *)
LEMMA RegInvStep == RegInv /\ [Next]_vars => RegInv'
<1> SUFFICES ASSUME RegInv, [Next]_vars PROVE RegInv'
  OBVIOUS
<1>k. KeyShape /\ KeyShape'
  BY KeyShapeStep DEF RegInv
<1>t. WaitType /\ StepType /\ RemovalType
  BY <1>k, TypeParts DEF KeyShape
<1>1. ASSUME NEW s \in Step, StepNext(s) PROVE RegInv'
  <2> USE DEF waits, step
  <2>o. OwnWait(s)
    BY DEF RegInv
  <2>f. \A x \in Step \ {s} : Same(x) /\ OwnWait(x)
    BY <1>1, <1>k, StepFrame DEF RegInv
  <2>r. /\ registered' \subseteq registered \cup {wait[s]}
        /\ pc[s] # "register" => registered' \subseteq registered
        /\ dropped' = dropped
    BY <1>1 DEF StepNext, Start, AdoptableWait, CloseOverdue, ForgetOverdue, RestartFresh,
                AdoptionFails, ReadHighest, OutcomeOfClaim, SettleTimedOut, ReadAgain,
                FindRegistration, SettleCancelled, Create, Confirm, Register, StoreThrows,
                CloseUnopenedWait, Resume, CancelRun, RemoveRegistration, Crash, removal
  <2>e. EndedAreOver'
    <3>1. ended' = ended /\ dropped' = dropped
      BY <1>1, <1>k, StepFrame DEF removal
    <3>2. \A x \in Step : Over(x) => Over(x)'
      BY <1>1, <1>k, OverIsFinal DEF RegInv, Next
    <3> QED
      BY <1>t, <3>1, <3>2 DEF RegInv, EndedAreOver, RemovalType
  <2>x. \A x \in Step \ {s} : OwnWait(x)'
    BY <2>f, <2>o, <2>r DEF Same, OwnWait, Over
  <2>y. OneRegistration'
    <3>1. pc[s] = "register" => \A w \in registered : w[1] # s
      BY <2>o DEF OwnWait, Over
    <3> QED
      BY <2>o, <2>r, <3>1 DEF RegInv, OneRegistration, OwnWait
  <2>s. OwnWait(s)'
    <3>1. CASE Start(s)
      BY <3>1, <1>t, <2>o
      DEF Start, OpensWait, Goto, OwnWait, Over, StepType, Claiming
    <3>2. CASE AdoptableWait(s)
      <4>1. PICK w \in registered : w[1] = s /\ wait' = [wait EXCEPT ![s] = w]
        BY <3>2 DEF AdoptableWait
      <4>2. wait'[s] = w /\ registered' = registered
        BY <3>2, <1>t, <4>1 DEF AdoptableWait, StepType
      <4>3. pc'[s] \in {"open", "settle", "forget"}
        BY <3>2, <1>t DEF AdoptableWait, Goto, StepType
      <4>4. \A v \in registered : v[1] = s => v = w
        BY <4>1 DEF RegInv, OneRegistration
      <4> QED
        BY <4>1, <4>2, <4>3, <4>4 DEF OwnWait, Over
    <3>3. CASE CloseOverdue(s)
      BY <3>3, <1>t, <2>o
      DEF CloseOverdue, Goto, OwnWait, Over, StepType, Claiming
    <3>4. CASE ForgetOverdue(s)
      BY <3>4, <1>t, <2>o
      DEF ForgetOverdue, OpensWait, Goto, OwnWait, Over, StepType, Claiming
    <3>5. CASE RestartFresh(s)
      BY <3>5, <1>t, <2>o
      DEF RestartFresh, OpensWait, Goto, OwnWait, Over, StepType, Claiming
    <3>6. CASE ReadHighest(s)
      BY <3>6, <1>t, <2>o
      DEF ReadHighest, Goto, OwnWait, Over, StepType, Claiming
    <3>7. CASE OutcomeOfClaim(s)
      BY <3>7, <1>t, <2>o
      DEF OutcomeOfClaim, Goto, OwnWait, Over, StepType, Claiming
    <3>8. CASE SettleTimedOut(s)
      BY <3>8, <1>t, <2>o
      DEF SettleTimedOut, Goto, OwnWait, Over, StepType, Claiming
    <3>9. CASE ReadAgain(s)
      BY <3>9, <1>t, <2>o
      DEF ReadAgain, Retry, Leave, Goto, OwnWait, Over, StepType, Claiming
    <3>10. CASE FindRegistration(s)
      BY <3>10, <1>t, <2>o
      DEF FindRegistration, Leave, Goto, OwnWait, Over, StepType, Claiming
    <3>11. CASE SettleCancelled(s)
      BY <3>11, <1>t, <2>o
      DEF SettleCancelled, Retry, Leave, Goto, OwnWait, Over, StepType, Claiming
    <3>12. CASE Create(s)
      BY <3>12, <1>t, <2>o
      DEF Create, Goto, OwnWait, Over, StepType, Claiming
    <3>13. CASE Confirm(s)
      BY <3>13, <1>t, <2>o
      DEF Confirm, Retry, Leave, Goto, OwnWait, Over, StepType, Claiming
    <3>14. CASE Register(s)
      BY <3>14, <1>t, <2>o
      DEF Register, Goto, OwnWait, Over, StepType, Claiming
    <3>15. CASE StoreThrows(s)
      BY <3>15, <1>t, <2>o
      DEF StoreThrows, Leave, Goto, OwnWait, Over, StepType, Claiming
    <3>16. CASE CloseUnopenedWait(s)
      BY <3>16, <1>t, <2>o
      DEF CloseUnopenedWait, Goto, OwnWait, Over, StepType, Claiming
    <3>17. CASE Resume(s)
      BY <3>17, <1>t, <2>o
      DEF Resume, Goto, OwnWait, Over, StepType, Claiming
    <3>18. CASE CancelRun(s)
      BY <3>18, <1>t, <2>o
      DEF CancelRun, Goto, OwnWait, Over, StepType, Claiming
    <3>19. CASE RemoveRegistration(s)
      BY <3>19, <1>t, <2>o
      DEF RemoveRegistration, Goto, OwnWait, Over, StepType, Claiming
    <3>20. CASE Crash(s)
      BY <3>20, <1>t, <2>o
      DEF Crash, Leave, Goto, OwnWait, Over, StepType, Claiming
    <3>21. CASE AdoptionFails(s)
      BY <3>21, <1>t, <2>o
      DEF AdoptionFails, Goto, OwnWait, Over, StepType, Claiming
    <3> QED
      BY <1>1, <3>1, <3>2, <3>3, <3>4, <3>5, <3>6, <3>7, <3>8, <3>9, <3>10, <3>11,
         <3>12, <3>13, <3>14, <3>15, <3>16, <3>17, <3>18, <3>19, <3>20, <3>21 DEF StepNext
  <2> QED
    BY <1>k, <2>e, <2>x, <2>y, <2>s DEF RegInv
<1>2. ASSUME NEW w \in Wait, WaitNext(w) PROVE RegInv'
  <2>1. registered' \subseteq registered
    BY <1>2 DEF WaitNext, waits, SignalDecided, SignalSettles, TimeOut, DeadlinePasses,
                GracePasses, SweepWaitRecords, RemoveWaitRecords
  <2>2. UNCHANGED <<step, removal>>
    BY <1>2, WaitFrame
  <2>3. OneRegistration' /\ EndedAreOver'
    BY <2>1, <2>2 DEF RegInv, OneRegistration, EndedAreOver, Over, step, removal
  <2>4. \A s \in Step : OwnWait(s)'
    BY <2>1, <2>2 DEF RegInv, OwnWait, Over, step
  <2> QED
    BY <1>k, <2>3, <2>4 DEF RegInv
<1>3. ASSUME \/ ListRecords \/ ReadFloor \/ CreateRelease \/ KeyRecordsRemoved
             \/ RemovalDone \/ RemovalThrows
             \/ \E g \in Gen : RemoveKeyRecord(g)
      PROVE  RegInv'
  <2>1. UNCHANGED <<registered, outcome, overdue, aged, decided, pc, tries, wait, seen, left>>
    BY <1>3, RemovalFrame
  <2>2. EndedAreOver'
    <3>1. ended' \subseteq dropped' /\ \A s \in dropped' : s \in dropped \/ Over(s)
      BY <1>3 DEF RegInv, EndedAreOver, ListRecords, ReadFloor, CreateRelease,
                  KeyRecordsRemoved, RemovalDone, RemovalThrows, EndsRemoval, RemoveKeyRecord
    <3> QED
      BY <2>1, <3>1 DEF RegInv, EndedAreOver, Over
  <2>3. OneRegistration' /\ \A s \in Step : OwnWait(s)'
    BY <2>1 DEF RegInv, OneRegistration, OwnWait, Over
  <2> QED
    BY <1>k, <2>2, <2>3 DEF RegInv
<1>4. CASE UNCHANGED vars
  BY <1>4, <1>k
  DEF RegInv, OneRegistration, EndedAreOver, Over, OwnWait, vars, waits, step, removal
<1> QED
  BY <1>1, <1>2, <1>3, <1>4 DEF Next

(* At the start nothing is registered. *)
LEMMA RegInvInit == Init => RegInv
BY KeyShapeInit DEF Init, RegInv, OneRegistration, EndedAreOver, OwnWait

(* A registration goes with its run, or with a wait that is overdue or was closed. *)
LEMMA SignalInvStep == SignalInv /\ [Next]_vars => SignalInv'
<1> SUFFICES ASSUME SignalInv, [Next]_vars PROVE SignalInv'
  OBVIOUS
<1>k. RegInv /\ RegInv' /\ KeyShape /\ EndedAreOver
  BY RegInvStep DEF SignalInv, RegInv
<1>t. WaitType /\ StepType /\ RemovalType
  BY <1>k, TypeParts DEF KeyShape
<1>1. ASSUME NEW s \in Step, StepNext(s) PROVE SignalInv'
  <2> USE DEF waits, step, clock
  <2>o. OwnWait(s) /\ GivenUp(s) /\ wait[s] \in Wait
    BY <1>k, <1>t DEF RegInv, SignalInv, StepType
  <2>f. /\ \A x \in Step \ {s} : Same(x) /\ GivenUp(x) /\ wait[x] \in Wait
        /\ UNCHANGED <<overdue, decided>> /\ ~Over(s)
        /\ \A w \in Wait : \/ outcome'[w] = outcome[w]
                           \/ outcome[w] = "none" /\ outcome'[w] \in {"timed_out", "cancelled"}
    BY <1>1, <1>k, <1>t, StepFrame DEF SignalInv, StepType
  <2>x. \A x \in Step \ {s} : GivenUp(x)'
    BY <2>f DEF Same, GivenUp
  <2>s. GivenUp(s)'
    <3>1. CASE Start(s)
      BY <3>1, <1>t, <2>o, <2>f
      DEF Start, OpensWait, Goto, GivenUp, StepType
    <3>2. CASE AdoptableWait(s)
      <4>1. PICK w \in registered :
               /\ wait' = [wait EXCEPT ![s] = w]
               /\ Goto(s, IF Adoptable(w) THEN "open"
                          ELSE IF outcome[w] = "none" THEN "settle" ELSE "forget")
        BY <3>2 DEF AdoptableWait
      <4>2. /\ wait'[s] = w /\ w \in Wait /\ UNCHANGED <<outcome, overdue>>
            /\ pc'[s] = IF Adoptable(w) THEN "open"
                        ELSE IF outcome[w] = "none" THEN "settle" ELSE "forget"
        BY <3>2, <1>t, <4>1 DEF AdoptableWait, StepType, WaitType, Goto
      <4>3. outcome[w] \in Outcome
        BY <1>t, <4>2 DEF WaitType
      <4> QED
        BY <4>2, <4>3 DEF GivenUp, Adoptable, Outcome
    <3>3. CASE CloseOverdue(s)
      BY <3>3, <1>t, <2>o, <2>f
      DEF CloseOverdue, Goto, GivenUp, StepType
    <3>4. CASE ForgetOverdue(s)
      BY <3>4, <1>t, <2>o, <2>f
      DEF ForgetOverdue, OpensWait, Goto, GivenUp, StepType
    <3>5. CASE RestartFresh(s)
      BY <3>5, <1>t, <2>o, <2>f
      DEF RestartFresh, OpensWait, Goto, GivenUp, StepType
    <3>6. CASE ReadHighest(s)
      BY <3>6, <1>t, <2>o, <2>f
      DEF ReadHighest, Goto, GivenUp, StepType
    <3>7. CASE OutcomeOfClaim(s)
      BY <3>7, <1>t, <2>o, <2>f
      DEF OutcomeOfClaim, Goto, GivenUp, StepType
    <3>8. CASE SettleTimedOut(s)
      BY <3>8, <1>t, <2>o, <2>f
      DEF SettleTimedOut, Goto, GivenUp, StepType
    <3>9. CASE ReadAgain(s)
      BY <3>9, <1>t, <2>o, <2>f
      DEF ReadAgain, Retry, Leave, Goto, GivenUp, StepType
    <3>10. CASE FindRegistration(s)
      BY <3>10, <1>t, <2>o, <2>f
      DEF FindRegistration, Leave, Goto, GivenUp, StepType
    <3>11. CASE SettleCancelled(s)
      BY <3>11, <1>t, <2>o, <2>f
      DEF SettleCancelled, Retry, Leave, Goto, GivenUp, StepType
    <3>12. CASE Create(s)
      BY <3>12, <1>t, <2>o, <2>f
      DEF Create, Goto, GivenUp, StepType
    <3>13. CASE Confirm(s)
      BY <3>13, <1>t, <2>o, <2>f
      DEF Confirm, Retry, Leave, Goto, GivenUp, StepType
    <3>14. CASE Register(s)
      BY <3>14, <1>t, <2>o, <2>f
      DEF Register, Goto, GivenUp, StepType
    <3>15. CASE StoreThrows(s)
      BY <3>15, <1>t, <2>o, <2>f
      DEF StoreThrows, Leave, Goto, GivenUp, StepType
    <3>16. CASE CloseUnopenedWait(s)
      BY <3>16, <1>t, <2>o, <2>f
      DEF CloseUnopenedWait, Goto, GivenUp, StepType
    <3>17. CASE Resume(s)
      BY <3>17, <1>t, <2>o, <2>f
      DEF Resume, Goto, GivenUp, StepType
    <3>18. CASE CancelRun(s)
      BY <3>18, <1>t, <2>o, <2>f
      DEF CancelRun, Goto, GivenUp, StepType
    <3>19. CASE RemoveRegistration(s)
      BY <3>19, <1>t, <2>o, <2>f
      DEF RemoveRegistration, Goto, GivenUp, StepType
    <3>20. CASE Crash(s)
      BY <3>20, <1>t, <2>o, <2>f
      DEF Crash, Leave, Goto, GivenUp, StepType
    <3>21. CASE AdoptionFails(s)
      BY <3>21, <1>t, <2>o, <2>f
      DEF AdoptionFails, Goto, GivenUp, StepType
    <3> QED
      BY <1>1, <3>1, <3>2, <3>3, <3>4, <3>5, <3>6, <3>7, <3>8, <3>9, <3>10, <3>11,
         <3>12, <3>13, <3>14, <3>15, <3>16, <3>17, <3>18, <3>19, <3>20, <3>21 DEF StepNext
  <2>w. ASSUME NEW w \in Wait PROVE StaysRegistered(w)'
    <3>1. StaysRegistered(w) /\ w[1] \in Step /\ (Over(w[1]) => Over(w[1])')
      BY <1>1, <1>k, OverIsFinal, PairFacts DEF SignalInv, Next
    <3>2. SUFFICES ASSUME outcome'[w] = "accepted" \/ (outcome'[w] = "none" /\ w \in decided),
                          w \notin overdue, ~Over(w[1])
                   PROVE  Over(w[1])' \/ w \in registered'
      BY <2>f, <3>1 DEF StaysRegistered
    <3>3. outcome'[w] = outcome[w] /\ w \in registered
      BY <2>f, <3>1, <3>2 DEF StaysRegistered
    <3>4. CASE RemoveRegistration(s)
      BY <1>t, <2>o, <3>3, <3>4 DEF RemoveRegistration, Goto, Over, OwnWait, StepType
    <3>5. CASE ForgetOverdue(s)
      BY <2>o, <3>2, <3>3, <3>5 DEF ForgetOverdue, GivenUp
    <3>6. CASE ~RemoveRegistration(s) /\ ~ForgetOverdue(s)
      <4>1. registered \subseteq registered'
        BY <1>1, <3>6 DEF StepNext, Start, AdoptableWait, CloseOverdue, RestartFresh,
                          AdoptionFails, ReadHighest, OutcomeOfClaim, SettleTimedOut,
                          ReadAgain, FindRegistration, SettleCancelled, Create, Confirm,
                          Register, StoreThrows, CloseUnopenedWait, Resume, CancelRun, Crash
      <4> QED
        BY <3>3, <4>1
    <3> QED
      BY <3>4, <3>5, <3>6
  <2> QED
    BY <1>k, <2>x, <2>s, <2>w DEF SignalInv
<1>2. ASSUME NEW v \in Wait, WaitNext(v) PROVE SignalInv'
  <2>f. UNCHANGED <<step, removal>> /\ overdue \subseteq overdue'
    BY <1>2, WaitFrame
  <2>1. ASSUME NEW s \in Step PROVE GivenUp(s)'
    <3>1. GivenUp(s) /\ OwnWait(s) /\ wait[s] \in Wait
      BY <1>k, <1>t DEF SignalInv, RegInv, StepType
    <3>2. pc[s] = "forget" /\ outcome[wait[s]] \in {"timed_out", "cancelled"} =>
             outcome'[wait[s]] \in {"timed_out", "cancelled"}
      <4>1. CASE RemoveWaitRecords(v)
        BY <1>k, <1>t, <3>1, <4>1
        DEF RemoveWaitRecords, EndedAreOver, Over, OwnWait, WaitType
      <4>2. CASE ~RemoveWaitRecords(v)
        BY <1>2, <1>t, <3>1, <4>2
        DEF WaitNext, waits, SignalDecided, SignalSettles, TimeOut, DeadlinePasses,
            GracePasses, SweepWaitRecords, Settle, WaitType
      <4> QED
        BY <4>1, <4>2
    <3> QED
      BY <2>f, <3>1, <3>2 DEF GivenUp, step
  <2>2. ASSUME NEW w \in Wait PROVE StaysRegistered(w)'
    <3>0. StaysRegistered(w) /\ (Over(w[1])' <=> Over(w[1]))
      BY <2>f DEF SignalInv, Over, step
    <3>1. CASE SignalDecided(v)
      BY <1>t, <2>f, <3>0, <3>1 DEF SignalDecided, StaysRegistered, waits, WaitType
    <3>2. CASE SignalSettles(v)
      BY <1>t, <2>f, <3>0, <3>2 DEF SignalSettles, Settle, StaysRegistered, WaitType
    <3>3. CASE TimeOut(v)
      BY <1>t, <2>f, <3>0, <3>3 DEF TimeOut, Settle, StaysRegistered, WaitType
    <3>4. CASE DeadlinePasses(v) \/ GracePasses(v)
      BY <2>f, <3>0, <3>4 DEF DeadlinePasses, GracePasses, SweepWaitRecords, StaysRegistered,
                              waits
    <3>6. CASE SweepWaitRecords(v)
      <4>1. CASE w = v
        BY <1>t, <3>0, <3>6, <4>1 DEF SweepWaitRecords, Settle, StaysRegistered, WaitType
      <4>2. CASE w # v
        BY <1>t, <2>f, <3>0, <3>6, <4>2 DEF SweepWaitRecords, Settle, StaysRegistered, WaitType
      <4> QED
        BY <4>1, <4>2
    <3>5. CASE RemoveWaitRecords(v)
      <4>1. CASE w = v
        BY <1>k, <3>0, <3>5, <4>1 DEF RemoveWaitRecords, EndedAreOver, StaysRegistered
      <4>2. CASE w # v
        BY <1>t, <2>f, <3>0, <3>5, <4>2 DEF RemoveWaitRecords, StaysRegistered, WaitType
      <4> QED
        BY <4>1, <4>2
    <3> QED
      BY <1>2, <3>1, <3>2, <3>3, <3>4, <3>5, <3>6 DEF WaitNext
  <2> QED
    BY <1>k, <2>1, <2>2 DEF SignalInv
<1>3. ASSUME \/ ListRecords \/ ReadFloor \/ CreateRelease \/ KeyRecordsRemoved
             \/ RemovalDone \/ RemovalThrows
             \/ \E g \in Gen : RemoveKeyRecord(g)
      PROVE  SignalInv'
  <2>1. UNCHANGED <<registered, outcome, overdue, aged, decided, pc, tries, wait, seen, left>>
    BY <1>3, RemovalFrame
  <2> QED
    BY <1>k, <2>1 DEF SignalInv, GivenUp, StaysRegistered, Over
<1>4. CASE UNCHANGED vars
  BY <1>4, <1>k
  DEF SignalInv, GivenUp, StaysRegistered, Over, vars, waits, step, clock
<1> QED
  BY <1>1, <1>2, <1>3, <1>4 DEF Next

(* A step that is executed again stands at the wait a signal was accepted for, if its
   deadline has not passed: the wait stays registered, and a step opens no second one.   *)
THEOREM SignalIsRead == Spec => []SignalBeforeDeadlineIsRead
<1>1. Init => SignalInv
  BY RegInvInit DEF Init, SignalInv, GivenUp, StaysRegistered
<1>2. SignalInv => SignalBeforeDeadlineIsRead
  BY DEF SignalInv, StaysRegistered, SignalBeforeDeadlineIsRead, RegInv, OwnWait, Over
<1> QED
  BY <1>1, <1>2, SignalInvStep, PTL DEF Spec

-----------------------------------------------------------------------------
(* One wait is open under the key. *)

\* The records do not change.
KeepsRecords == UNCHANGED records /\ Present' = Present /\ Top' = Top

\* A record, a claim of w or a release, is put above all others.
AddsClaim(w) ==
    /\ claims' = claims \cup {<<Top + 1, w>>} /\ releases' = releases
    /\ Present' = Present \cup {Top + 1} /\ Top' = Top + 1 /\ Top + 1 \in Gen
\* A claim is put where a record was removed.
AddsLateClaim(w) ==
    /\ \E x \in Gen : /\ x < Top /\ x \notin Present /\ Present' = Present \cup {x}
                      /\ claims' = claims \cup {<<x, w>>}
    /\ releases' = releases /\ Top' = Top /\ w \in late'
AddsRelease ==
    /\ releases' = releases \cup {Top + 1} /\ claims' = claims
    /\ Present' = Present \cup {Top + 1} /\ Top' = Top + 1 /\ Top + 1 \in Gen

\* A selected record below the highest one is removed.
Removes(g) ==
    /\ g \in selected /\ g < Top /\ Top' = Top
    /\ claims' = {r \in claims : r[1] # g} /\ releases' = releases \ {g}
    /\ Present' = Present \ {g}

(* A claim is created above all other records, if what the step read is the highest record
   still, or the next number is taken; or else the next number was taken and removed.        *)
LEMMA NewClaimIsHighest ==
  ASSUME KeyInv, NEW s \in Step, Create(s)
  PROVE  KeepsRecords \/ AddsClaim(wait[s]) \/ AddsLateClaim(wait[s])
<1>t. RecordType /\ StepType /\ HasTop
  BY TypeParts DEF KeyInv, RegInv, KeyShape
<1>0. Top \in Nat /\ Present \subseteq Gen /\ \A h \in Present : h <= Top
  BY <1>t, TopFact
<1>1. seen[s][1] \in 0..MaxGen /\ seen[s][1] < MaxGen /\ releases' = releases /\ Sees(s)
  BY <1>t DEF Create, StepType, KeyInv, Seeing, Claiming
<1>2. PICK x \in Gen : x = seen[s][1] + 1
  BY <1>1 DEF Gen
<1>3. CASE x \in Present
  <2>1. UNCHANGED records
    BY <1>1, <1>2, <1>3 DEF Create, records
  <2> QED
    BY <2>1 DEF KeepsRecords, records, Present, Top
<1>4. CASE x \notin Present
  <2>1. claims' = claims \cup {<<x, wait[s]>>}
    BY <1>2, <1>4 DEF Create
  <2>2. Present' = Present \cup {x}
    <3>1. <<x, wait[s]>>[1] = x
      OBVIOUS
    <3>2. {r[1] : r \in claims'} = {r[1] : r \in claims} \cup {x}
      BY <2>1, <3>1
    <3> QED
      BY <1>1, <3>2 DEF Present
  <2>3. CASE x > Top
    <3>1. x = Top + 1
      BY <1>0, <1>1, <1>2, <2>3 DEF Sees
    <3>2. Top' = x
      BY <1>t, <2>2, <2>3, TopGrows
    <3> QED
      BY <1>1, <2>1, <2>2, <3>1, <3>2 DEF AddsClaim
  <2>4. CASE x <= Top
    <3>1. Top' = Top
      BY <1>t, <2>2, <2>4, TopGrows
    <3>2. x < Top
      <4>1. Top \in Present \cup {0} /\ x \in Nat /\ x # 0
        BY <1>t, TopFact DEF Gen
      <4> QED
        BY <1>0, <1>4, <2>4, <4>1
    <3>3. claims' # claims
      <4>1. <<x, wait[s]>>[1] = x
        OBVIOUS
      <4> QED
        BY <1>4, <2>1, <4>1 DEF Present
    <3>4. wait[s] \in late'
      BY <1>2, <2>4, <3>3 DEF Create
    <3> QED
      BY <1>1, <1>4, <2>1, <2>2, <3>1, <3>2, <3>4 DEF AddsLateClaim
  <2> QED
    BY <1>0, <1>2, <2>3, <2>4 DEF Gen
<1> QED
  BY <1>3, <1>4

(* So is a release; the removal of a record takes only a lower one. *)
LEMMA NewRecordIsHighest ==
  ASSUME KeyInv, Next
  PROVE  \/ KeepsRecords
         \/ \E s \in Step : Create(s) /\ (AddsClaim(wait[s]) \/ AddsLateClaim(wait[s]))
         \/ CreateRelease /\ AddsRelease /\ floor = Top
         \/ \E g \in Gen : RemoveKeyRecord(g) /\ Removes(g)
<1>k. KeyShape /\ KeyShape'
  BY KeyShapeStep DEF KeyInv, RegInv
<1>t. RecordType /\ StepType /\ RemovalType /\ HasTop /\ FloorIsReached
  BY <1>k, TypeParts DEF KeyShape
<1>0. Top \in Nat /\ Present \subseteq Gen /\ \A h \in Present : h <= Top
  BY <1>t, TopFact
<1>2. ASSUME CreateRelease PROVE KeepsRecords \/ (AddsRelease /\ floor = Top)
  <2>1. PICK x \in Gen : x = floor + 1
    BY <1>2, <1>t DEF CreateRelease, RemovalType, Gen
  <2>2. CASE x \in Present
    <3>1. UNCHANGED records
      BY <1>2, <2>1, <2>2 DEF CreateRelease, records
    <3> QED
      BY <3>1 DEF KeepsRecords, records, Present, Top
  <2>3. CASE x \notin Present
    <3>1. releases' = releases \cup {x} /\ claims' = claims
      BY <1>2, <2>1, <2>3 DEF CreateRelease
    <3>2. Present' = Present \cup {x}
      BY <3>1 DEF Present
    <3>3. floor = Top
      <4>1. floor \in Nat /\ floor <= Top
        BY <1>2, <1>t DEF CreateRelease, FloorIsReached, RemovalType
      <4>2. ~(floor < x /\ x <= Top)
        BY <1>2, <2>3 DEF CreateRelease, KeyInv, SelectedIsOver
      <4> QED
        BY <1>0, <2>1, <4>1, <4>2
    <3>4. x = Top + 1 /\ x > Top
      BY <1>0, <2>1, <3>3
    <3>5. Top' = x
      BY <1>t, <3>2, <3>4, TopGrows
    <3> QED
      BY <3>1, <3>2, <3>3, <3>4, <3>5 DEF AddsRelease
  <2> QED
    BY <2>2, <2>3
<1>3. ASSUME NEW g \in Gen, RemoveKeyRecord(g) PROVE Removes(g)
  <2>1. floor \in Nat /\ g \in Nat /\ g < floor /\ floor <= Top /\ g \in selected
    BY <1>3, <1>t DEF RemoveKeyRecord, FloorIsReached, RemovalType, Gen
  <2>2. g < Top
    BY <1>0, <2>1
  <2>3. claims' = {r \in claims : r[1] # g} /\ releases' = releases \ {g}
    BY <1>3 DEF RemoveKeyRecord
  <2>4. Present' = Present \ {g}
    BY <2>3 DEF Present
  <2>5. Top' = Top
    BY <1>t, <2>2, <2>4, TopStays
  <2> QED
    BY <2>1, <2>2, <2>3, <2>4, <2>5 DEF Removes
<1> QED
  BY <1>2, <1>3, <1>k, NewClaimIsHighest, RecordsStep DEF KeepsRecords

(* Every generation stays one record, and a record that is superseded is of a wait that is
   settled or of a run that is over.                                                      *)
LEMMA RecordsKept ==
  ASSUME KeyInv, Next
  PROVE  OneRecord' /\ OnlySettledBelow'
<1>k. KeyShape /\ EndedAreOver
  BY DEF KeyInv, RegInv
<1>t. RecordType /\ StepType /\ HasTop
  BY <1>k, TypeParts DEF KeyShape
<1>0. /\ Top \in Nat /\ Present \subseteq Gen /\ \A h \in Present : h <= Top
      /\ Gen \subseteq Nat
  BY <1>t, TopFact DEF Gen
<1>r. /\ claims \subseteq Gen \X Wait
      /\ \A r \in claims : r[1] \in Present /\ r[1] \in Nat /\ r[2] \in Wait
      /\ \A g \in releases : g \in Present
  BY <1>t, <1>0, PairFacts DEF RecordType, Present
<1>u. \A w \in Wait : Unsettled(w)' => Unsettled(w)
  BY <1>k, OverIsFinal
<1>1. CASE KeepsRecords
  BY <1>1, <1>r, <1>u DEF KeepsRecords, records, KeyInv, OneRecord, OnlySettledBelow
<1>2. ASSUME NEW s \in Step, Create(s), AddsClaim(wait[s]) PROVE OneRecord' /\ OnlySettledBelow'
  <2>1. /\ Sees(s) /\ Cleared(s) /\ wait[s] \in Wait /\ Top + 1 \notin Present /\ Top + 1 > Top
        /\ seen[s][1] \in Nat
    BY <1>0, <1>2, <1>t DEF Create, KeyInv, Seeing, Claiming, StepType
  <2>2. PICK n \in {<<Top + 1, wait[s]>>} : n = <<Top + 1, wait[s]>> /\ n[1] = Top + 1 /\ n[2] = wait[s]
    OBVIOUS
  <2>3. claims' = claims \cup {n} /\ \A r \in claims : r[1] # n[1]
    BY <1>2, <1>r, <2>1, <2>2 DEF AddsClaim
  <2>4. OneRecord'
    BY <1>2, <1>r, <2>1, <2>2, <2>3 DEF AddsClaim, KeyInv, OneRecord
  <2>5. seen[s][1] = Top
    <3>1. n \in {<<seen[s][1] + 1, wait[s]>>}
      BY <1>2, <2>2, <2>3 DEF Create
    <3>2. n[1] = seen[s][1] + 1
      BY <3>1
    <3> QED
      BY <1>0, <2>1, <2>2, <3>2
  <2>6. ASSUME NEW r \in claims, Unsettled(r[2]) PROVE FALSE
    <3>1. \A h \in Present : h <= r[1]
      BY <2>6 DEF KeyInv, OnlySettledBelow
    <3>2. r[1] = Top
      <4>1. r[1] <= Top /\ r[1] \in Nat
        BY <1>0, <1>r
      <4>2. Top \in Present => Top <= r[1]
        BY <3>1
      <4>3. Top \in Present \cup {0}
        BY <1>t, TopFact
      <4> QED
        BY <1>0, <4>1, <4>2, <4>3
    <3>3. r[2] \in seen[s][2]
      BY <2>1, <2>5, <3>2 DEF Sees
    <3> QED
      BY <2>1, <2>6, <3>3 DEF Cleared
  <2>7. OnlySettledBelow'
    <3> SUFFICES ASSUME NEW r \in claims', NEW h \in Present', Unsettled(r[2])'
                 PROVE  h <= r[1]
      BY DEF OnlySettledBelow
    <3>1. r = n
      BY <1>r, <1>u, <2>3, <2>6
    <3> QED
      BY <1>0, <1>2, <2>2, <3>1 DEF AddsClaim
  <2> QED
    BY <2>4, <2>7
<1>3. CASE CreateRelease /\ AddsRelease /\ floor = Top
  <2>1. OneRecord'
    BY <1>0, <1>3, <1>r DEF AddsRelease, KeyInv, OneRecord
  <2>2. ASSUME NEW r \in claims, Unsettled(r[2]) PROVE FALSE
    <3>1. \A h \in Present : h <= r[1]
      BY <2>2 DEF KeyInv, OnlySettledBelow
    <3>2. r[1] = Top
      <4>1. r[1] <= Top /\ r[1] \in Nat
        BY <1>0, <1>r
      <4>2. Top \in Present => Top <= r[1]
        BY <3>1
      <4>3. Top \in Present \cup {0}
        BY <1>t, TopFact
      <4> QED
        BY <1>0, <4>1, <4>2, <4>3
    <3>3. r[2][1] \in ended
      BY <1>3, <3>2 DEF CreateRelease, KeyInv, SelectedIsOver
    <3> QED
      BY <1>k, <2>2, <3>3 DEF EndedAreOver, Unsettled
  <2>3. OnlySettledBelow'
    BY <1>3, <1>r, <1>u, <2>2 DEF AddsRelease, OnlySettledBelow
  <2> QED
    BY <2>1, <2>3
<1>5. ASSUME NEW s \in Step, AddsLateClaim(wait[s]) PROVE OneRecord' /\ OnlySettledBelow'
  <2>1. PICK x \in Gen : /\ x < Top /\ x \notin Present /\ Present' = Present \cup {x}
                         /\ claims' = claims \cup {<<x, wait[s]>>}
    BY <1>5 DEF AddsLateClaim
  <2>2. PICK n \in {<<x, wait[s]>>} : n = <<x, wait[s]>> /\ n[1] = x /\ n[2] = wait[s]
    OBVIOUS
  <2>3. /\ claims' = claims \cup {n} /\ releases' = releases
        /\ (\A r \in claims : r[1] # n[1]) /\ n[1] \notin releases
    BY <1>5, <1>r, <2>1, <2>2 DEF AddsLateClaim
  <2>4. OneRecord'
    BY <2>3 DEF KeyInv, OneRecord
  <2>5. OnlySettledBelow'
    <3> SUFFICES ASSUME NEW r \in claims', NEW h \in Present', Unsettled(r[2])'
                 PROVE  h <= r[1]
      BY DEF OnlySettledBelow
    <3>1. r # n
      BY <1>5, <2>2 DEF AddsLateClaim, Unsettled
    <3>2. r \in claims /\ Unsettled(r[2])
      BY <1>r, <1>u, <2>3, <3>1
    <3>3. \A g \in Present : g <= r[1]
      BY <3>2 DEF KeyInv, OnlySettledBelow
    <3>4. x <= r[1]
      <4>1. Top \in Present \cup {0} /\ x \in Nat /\ r[1] \in Nat
        BY <1>t, <1>0, <1>r, <3>2, TopFact
      <4> QED
        BY <1>0, <2>1, <3>3, <4>1
    <3> QED
      BY <2>1, <3>3, <3>4
  <2> QED
    BY <2>4, <2>5
<1>4. ASSUME NEW g \in Gen, Removes(g) PROVE OneRecord' /\ OnlySettledBelow'
  BY <1>4, <1>r, <1>u DEF Removes, KeyInv, OneRecord, OnlySettledBelow
<1> QED
  BY <1>1, <1>2, <1>3, <1>4, <1>5, NewRecordIsHighest

(* What a step read stays true of the records while it claims: the highest record is never
   removed, and a claim that is removed is of a run that is removed.                         *)
LEMMA SeesKept ==
  ASSUME KeyInv, Next, NEW s \in Step, pc[s] \in Seeing, seen'[s] = seen[s]
  PROVE  Sees(s)'
<1>k. KeyShape /\ EndedAreOver
  BY DEF KeyInv, RegInv
<1>t. RecordType /\ StepType /\ HasTop
  BY <1>k, TypeParts DEF KeyShape
<1>0. /\ Top \in Nat /\ Present \subseteq Gen /\ \A h \in Present : h <= Top
      /\ Gen \subseteq Nat
  BY <1>t, TopFact DEF Gen
<1>r. /\ claims \subseteq Gen \X Wait
      /\ \A r \in claims : r[1] \in Present /\ r[1] \in Nat /\ r[2] \in Wait
  BY <1>t, <1>0, PairFacts DEF RecordType, Present
<1>s. Sees(s)
  BY DEF KeyInv
<1>p. PICK m \in Nat, W \in SUBSET Wait : m = seen[s][1] /\ W = seen[s][2]
  BY <1>t DEF StepType
<1>o. dropped \subseteq dropped'
  BY <1>k, OverIsFinal
<1>2. ASSUME /\ m <= Top'
             /\ \A r \in claims' : r[1] = m /\ r[1] = Top' => r[2] \in W
             /\ \A w \in W : w[1] \in dropped' \/ <<m, w>> \in claims'
      PROVE  Sees(s)'
  BY <1>2, <1>p, <1>s DEF Sees
<1>3. /\ m <= Top
      /\ \A r \in claims : r[1] = m /\ r[1] = Top => r[2] \in W
      /\ \A w \in W : w[1] \in dropped \/ <<m, w>> \in claims
  BY <1>p, <1>s DEF Sees
<1>4. CASE KeepsRecords
  BY <1>2, <1>3, <1>4, <1>o DEF KeepsRecords, records
<1>5. ASSUME NEW x \in Step, AddsClaim(wait[x]) PROVE Sees(s)'
  <2>1. m <= Top' /\ m # Top'
    BY <1>0, <1>3, <1>5 DEF AddsClaim
  <2>2. \A w \in W : w[1] \in dropped' \/ <<m, w>> \in claims'
    BY <1>3, <1>5, <1>o DEF AddsClaim
  <2> QED
    BY <1>2, <2>1, <2>2
<1>6. CASE AddsRelease
  <2>1. /\ Top' = Top + 1 /\ claims' = claims /\ Top \in Nat
    BY <1>0, <1>6 DEF AddsRelease
  <2>2. m <= Top' /\ m # Top'
    BY <1>3, <2>1
  <2>4. \A w \in W : w[1] \in dropped' \/ <<m, w>> \in claims'
    BY <1>3, <1>o, <2>1
  <2> QED
    BY <1>2, <2>2, <2>4
<1>8. ASSUME NEW x \in Step, AddsLateClaim(wait[x]) PROVE Sees(s)'
  <2>1. PICK y \in Gen : y < Top /\ claims' = claims \cup {<<y, wait[x]>>}
    BY <1>8 DEF AddsLateClaim
  <2>2. PICK n \in {<<y, wait[x]>>} : n = <<y, wait[x]>> /\ n[1] = y
    OBVIOUS
  <2>3. claims' = claims \cup {n} /\ n[1] # Top /\ Top' = Top
    BY <1>0, <1>8, <2>1, <2>2 DEF AddsLateClaim
  <2>4. \A r \in claims' : r[1] = m /\ r[1] = Top => r[2] \in W
    BY <1>3, <2>3
  <2> QED
    BY <1>2, <1>3, <1>o, <2>3, <2>4
<1>7. ASSUME NEW g \in Gen, Removes(g) PROVE Sees(s)'
  <2>1. m <= Top'
    BY <1>3, <1>7 DEF Removes
  <2>2. \A r \in claims' : r[1] = m /\ r[1] = Top' => r[2] \in W
    BY <1>3, <1>7 DEF Removes
  <2>3. ASSUME NEW w \in W PROVE w[1] \in dropped' \/ <<m, w>> \in claims'
    <3>1. CASE <<m, w>> \in claims /\ m # g
      BY <1>7, <3>1 DEF Removes
    <3>2. CASE <<m, w>> \in claims /\ m = g
      <4>1. w[1] \in ended
        BY <1>7, <3>2 DEF Removes, KeyInv, SelectedIsOver
      <4> QED
        BY <1>k, <1>o, <4>1 DEF EndedAreOver
    <3> QED
      BY <1>3, <1>o, <3>1, <3>2
  <2> QED
    BY <1>2, <2>1, <2>2, <2>3
<1> QED
  BY <1>4, <1>5, <1>6, <1>7, <1>8, NewRecordIsHighest

(* The claim of a run that is not removed stays. *)
LEMMA ClaimKept ==
  ASSUME KeyInv, Next, NEW w \in Wait, HasClaim(w), w[1] \notin dropped
  PROVE  HasClaim(w)'
<1>1. PICK g \in Gen : <<g, w>> \in claims
  BY DEF HasClaim
<1>2. g \notin selected
  BY <1>1 DEF KeyInv, SelectedIsOver, RegInv, EndedAreOver
<1>3. <<g, w>> \in claims'
  BY <1>1, <1>2, NewRecordIsHighest
  DEF KeepsRecords, records, AddsClaim, AddsLateClaim, AddsRelease, Removes
<1> QED
  BY <1>3 DEF HasClaim

(* What the removal selects, and what it supersedes. *)
LEMMA SelectedKept ==
  ASSUME KeyInv, Next
  PROVE  SelectedIsOver'
<1>k. KeyShape /\ EndedAreOver /\ OneRecord
  BY DEF KeyInv, RegInv
<1>t. RecordType /\ RemovalType /\ HasTop /\ FloorIsReached
  BY <1>k, TypeParts DEF KeyShape
<1>0. /\ Top \in Nat /\ Present \subseteq Gen /\ \A h \in Present : h <= Top
      /\ Gen \subseteq Nat /\ floor \in Nat
  BY <1>t, TopFact DEF Gen, RemovalType
<1>r. /\ claims \subseteq Gen \X Wait
      /\ \A r \in claims : r[1] \in Present /\ r[1] \in Nat
      /\ releases \subseteq Present
  BY <1>t, <1>0, PairFacts DEF RecordType, Present
<1>s. SelectedIsOver
  BY DEF KeyInv
<1>h. Top' >= Top /\ Top' \in Nat
  <2>1. HasTop' /\ RecordType' /\ Top' >= Top
    BY <1>k, RecordsStep
  <2> QED
    BY <2>1, TopFactNext
<1>1. CASE ListRecords
  <2>1. KeepsRecords
    BY <1>1 DEF ListRecords, KeepsRecords, records, Present, Top
  <2>2. PICK runs \in SUBSET Step :
           /\ ended' = runs
           /\ selected' = releases \cup {r[1] : r \in {q \in claims : q[2][1] \in runs}}
    BY <1>1 DEF ListRecords
  <2>3. rm' = "highest"
    BY <1>1 DEF ListRecords
  <2>4. \A r \in claims : r[1] \in selected' => r[2][1] \in ended'
    BY <1>k, <2>2 DEF OneRecord
  <2>5. selected' \subseteq Present
    BY <1>0, <1>r, <2>2
  <2> QED
    BY <2>1, <2>3, <2>4, <2>5 DEF SelectedIsOver, KeepsRecords, records
<1>2. CASE ReadFloor
  <2>1. KeepsRecords
    BY <1>2 DEF ReadFloor, KeepsRecords, records, Present, Top
  <2>2. /\ UNCHANGED <<ended, selected>> /\ floor' = Top
        /\ rm' = "release" => Top \in selected
    BY <1>2 DEF ReadFloor
  <2> QED
    BY <1>0, <1>s, <2>1, <2>2 DEF SelectedIsOver, KeepsRecords, records
<1>3. CASE RemovalDone \/ RemovalThrows
  <2>1. selected' = {} /\ rm' = "idle"
    BY <1>3 DEF RemovalDone, RemovalThrows, EndsRemoval
  <2> QED
    BY <2>1 DEF SelectedIsOver
<1>4. CASE CreateRelease
  <2>1. UNCHANGED <<claims, ended, selected>> /\ rm' = "remove"
    BY <1>4 DEF CreateRelease
  <2>2. Present \subseteq Present'
    BY <1>4 DEF CreateRelease, Present
  <2> QED
    BY <1>s, <2>1, <2>2 DEF SelectedIsOver
<1>5. ASSUME NEW g \in Gen, RemoveKeyRecord(g) PROVE SelectedIsOver'
  <2>1. /\ UNCHANGED <<ended, rm, floor>> /\ rm = "remove" /\ selected' = selected \ {g}
        /\ claims' = {r \in claims : r[1] # g} /\ releases' = releases \ {g}
    BY <1>5 DEF RemoveKeyRecord
  <2>2. Present' = Present \ {g}
    BY <2>1 DEF Present
  <2> QED
    BY <1>s, <2>1, <2>2 DEF SelectedIsOver
<1>6. CASE KeyRecordsRemoved
  <2>1. KeepsRecords
    BY <1>6 DEF KeyRecordsRemoved, KeepsRecords, records, Present, Top
  <2>2. UNCHANGED <<ended, selected, floor>> /\ rm' = "records"
    BY <1>6 DEF KeyRecordsRemoved
  <2> QED
    BY <1>s, <2>1, <2>2 DEF SelectedIsOver, KeepsRecords, records
<1>7. ASSUME NEW s \in Step, StepNext(s) PROVE SelectedIsOver'
  <2>1. UNCHANGED <<rm, ended, selected, floor>> /\ UNCHANGED releases
    BY <1>7, <1>k, StepFrame DEF removal
  <2>2. CASE KeepsRecords
    BY <1>s, <2>1, <2>2 DEF SelectedIsOver, KeepsRecords, records
  <2>3. CASE AddsClaim(wait[s])
    <3>1. PICK n \in {<<Top + 1, wait[s]>>} : n = <<Top + 1, wait[s]>> /\ n[1] = Top + 1
      OBVIOUS
    <3>2. claims' = claims \cup {n} /\ Top' = Top + 1 /\ Present' = Present \cup {Top + 1}
      BY <2>3, <3>1 DEF AddsClaim
    <3>3. \A r \in claims' : r[1] \in selected => r[2][1] \in ended
      BY <1>0, <1>s, <3>1, <3>2 DEF SelectedIsOver
    <3>4. selected \subseteq Present'
      BY <1>s, <3>2 DEF SelectedIsOver
    <3>5. ASSUME rm = "release"
          PROVE  /\ floor \in Present'
                 /\ \A r \in claims' : r[1] = floor => floor \in selected
                 /\ \A h \in Gen : floor < h /\ h <= Top' => h \in Present'
      <4>1. floor <= Top
        BY <1>t, <3>5 DEF FloorIsReached
      <4> QED
        BY <1>0, <1>s, <3>1, <3>2, <3>5, <4>1 DEF SelectedIsOver
    <3> QED
      BY <2>1, <3>3, <3>4, <3>5 DEF SelectedIsOver
  <2>5. CASE AddsLateClaim(wait[s])
    <3>1. PICK x \in Gen : /\ x < Top /\ x \notin Present /\ Present' = Present \cup {x}
                           /\ claims' = claims \cup {<<x, wait[s]>>}
      BY <2>5 DEF AddsLateClaim
    <3>2. PICK n \in {<<x, wait[s]>>} : n = <<x, wait[s]>> /\ n[1] = x
      OBVIOUS
    <3>3. claims' = claims \cup {n} /\ Top' = Top /\ n[1] \notin selected
      BY <1>s, <2>5, <3>1, <3>2 DEF AddsLateClaim, SelectedIsOver
    <3>4. (\A r \in claims' : r[1] \in selected => r[2][1] \in ended) /\ selected \subseteq Present'
      BY <1>s, <3>1, <3>3 DEF SelectedIsOver
    <3>5. ASSUME rm = "release"
          PROVE  /\ floor \in Present'
                 /\ \A r \in claims' : r[1] = floor => floor \in selected
                 /\ \A h \in Gen : floor < h /\ h <= Top' => h \in Present'
      BY <1>s, <3>1, <3>2, <3>3, <3>5 DEF SelectedIsOver
    <3> QED
      BY <2>1, <3>4, <3>5 DEF SelectedIsOver
  <2>4. KeepsRecords \/ AddsClaim(wait[s]) \/ AddsLateClaim(wait[s])
    <3>1. UNCHANGED claims => KeepsRecords
      BY <2>1 DEF KeepsRecords, records, Present, Top
    <3>2. Create(s) => KeepsRecords \/ AddsClaim(wait[s]) \/ AddsLateClaim(wait[s])
      BY <1>7, NewClaimIsHighest
    <3> QED
      BY <1>7, <1>k, <3>1, <3>2, StepFrame
  <2> QED
    BY <2>2, <2>3, <2>4, <2>5
<1>8. ASSUME NEW w \in Wait, WaitNext(w) PROVE SelectedIsOver'
  <2>1. UNCHANGED <<claims, releases, step, removal>>
    BY <1>8, WaitFrame
  <2>2. KeepsRecords
    BY <2>1 DEF KeepsRecords, records, Present, Top
  <2> QED
    BY <1>s, <2>1, <2>2 DEF SelectedIsOver, KeepsRecords, removal
<1> QED
  BY <1>1, <1>2, <1>3, <1>4, <1>5, <1>6, <1>7, <1>8 DEF Next

(* The inductive step. *)
LEMMA KeyInvStep == KeyInv /\ [Next]_vars => KeyInv'
<1> SUFFICES ASSUME KeyInv, [Next]_vars PROVE KeyInv'
  OBVIOUS
<1>r. RegInv /\ RegInv' /\ KeyShape /\ EndedAreOver /\ \A s \in Step : OwnWait(s)
  BY RegInvStep DEF KeyInv, RegInv
<1>t. RecordType /\ WaitType /\ StepType /\ HasTop
  BY <1>r, TypeParts DEF KeyShape
<1>1. ASSUME Next PROVE KeyInv'
  <2>o. \A w \in Wait : Unsettled(w)' => Unsettled(w)
    BY <1>1, <1>r, OverIsFinal
  <2>1. OneRecord' /\ OnlySettledBelow' /\ SelectedIsOver'
    BY <1>1, RecordsKept, SelectedKept
  <2>s. ASSUME NEW s \in Step, Same(s)
        PROVE  /\ pc'[s] \in Seeing => Sees(s)'
               /\ pc'[s] = "create" => Cleared(s)'
               /\ pc'[s] = "register" => HasClaim(wait[s])'
    <3>1. seen[s][2] \subseteq Wait /\ wait[s] \in Wait /\ wait[s][1] = s
      BY <1>r, <1>t DEF StepType, OwnWait
    <3>2. pc'[s] \in Seeing => Sees(s)'
      BY <1>1, <2>s, SeesKept DEF Same
    <3>3. pc'[s] = "create" => Cleared(s)'
      BY <2>o, <2>s, <3>1 DEF Same, KeyInv, Cleared
    <3>4. pc'[s] = "register" => HasClaim(wait[s])'
      <4>1. SUFFICES ASSUME pc[s] = "register" PROVE HasClaim(wait[s])'
        BY <2>s DEF Same
      <4>2. PICK w \in Wait : w = wait[s] /\ HasClaim(w) /\ w[1] \notin dropped
        BY <1>r, <3>1, <4>1 DEF KeyInv, EndedAreOver, Over
      <4>3. HasClaim(w)'
        BY <1>1, <4>2, ClaimKept
      <4> QED
        BY <2>s, <4>2, <4>3 DEF Same, HasClaim
    <3> QED
      BY <3>2, <3>3, <3>4
  <2>w. ASSUME NEW w \in registered PROVE w[1] \in dropped' \/ HasClaim(w)'
    <3>1. w \in Wait /\ dropped \subseteq dropped'
      BY <1>1, <1>r, <1>t, OverIsFinal DEF WaitType
    <3>2. CASE w[1] \in dropped
      BY <3>1, <3>2
    <3>3. CASE w[1] \notin dropped
      BY <1>1, <3>1, <3>3, ClaimKept DEF KeyInv
    <3> QED
      BY <3>2, <3>3
  <2>2. ASSUME NEW s \in Step, StepNext(s) PROVE KeyInv'
    <3>f. (\A x \in Step \ {s} : Same(x)) /\ s \notin dropped
      BY <1>r, <2>2, StepFrame DEF EndedAreOver
    <3>c. OwnWait(s) /\ wait[s] \in Wait /\ seen[s][2] \subseteq Wait
      BY <1>r, <1>t DEF StepType
    <3>1. CASE ReadHighest(s)
      <4>1. /\ seen'[s] = <<Top, ClaimAt(Top)>>
            /\ pc'[s] = IF ClaimAt(Top) = {} THEN "create" ELSE "outcome"
            /\ UNCHANGED <<records, registered, pc, removal>> \/ UNCHANGED <<records, registered, removal>>
        BY <1>t, <3>1 DEF ReadHighest, StepType, Goto, waits
      <4>2. KeepsRecords
        BY <4>1 DEF KeepsRecords, records, Present, Top
      <4>3. Sees(s)'
        <5>1. seen'[s][1] = Top /\ seen'[s][2] = ClaimAt(Top) /\ selected' = selected
          BY <4>1 DEF removal
        <5>2. Top \in Nat
          BY <1>t, TopFact
        <5>3. /\ \A r \in claims : r[1] = Top => r[2] \in ClaimAt(Top)
              /\ \A w \in ClaimAt(Top) : <<Top, w>> \in claims
          <6>1. \A r \in claims : r = <<r[1], r[2]>> /\ r[2] \in Wait
            BY <1>t, PairFacts DEF RecordType
          <6> QED
            BY <6>1 DEF ClaimAt
        <5>4. \A v, w \in ClaimAt(Top) : v = w
          <6> SUFFICES ASSUME NEW v \in ClaimAt(Top), NEW w \in ClaimAt(Top) PROVE v = w
            OBVIOUS
          <6>1. <<Top, v>> = <<Top, w>>
            BY <5>3 DEF KeyInv, OneRecord
          <6> QED
            BY <6>1
        <5> QED
          BY <4>2, <5>1, <5>2, <5>3, <5>4 DEF Sees, KeepsRecords, records
      <4>4. pc'[s] = "create" => Cleared(s)'
        BY <4>1 DEF Cleared
      <4>5. pc'[s] # "register" /\ registered' = registered
        BY <4>1
      <4> QED
        BY <1>r, <2>1, <2>s, <2>w, <3>f, <4>3, <4>4, <4>5 DEF KeyInv
    <3>2. CASE ~ReadHighest(s)
      <4>1. pc'[s] \in Seeing => pc[s] \in Seeing /\ seen'[s] = seen[s]
        BY <1>t, <2>2, <3>2 DEF StepNext, step, StepType, Seeing, Claiming, Start,
                                AdoptableWait, CloseOverdue, ForgetOverdue, RestartFresh,
                                AdoptionFails, OutcomeOfClaim, SettleTimedOut, ReadAgain,
                                FindRegistration, SettleCancelled, Create, Confirm, Register,
                                StoreThrows, CloseUnopenedWait, Resume, CancelRun,
                                RemoveRegistration, Crash, OpensWait, Goto, Leave, Retry
      <4>2. pc'[s] \in Seeing => Sees(s)'
        BY <1>1, <4>1, SeesKept
      <4>3. pc'[s] = "create" => OutcomeOfClaim(s) \/ SettleTimedOut(s)
        BY <1>t, <2>2, <3>2 DEF StepNext, step, StepType, Start, AdoptableWait, CloseOverdue,
                                ForgetOverdue, RestartFresh, AdoptionFails, ReadAgain,
                                FindRegistration, SettleCancelled, Create, Confirm, Register,
                                StoreThrows, CloseUnopenedWait, Resume, CancelRun,
                                RemoveRegistration, Crash, OpensWait, Goto, Leave, Retry
      <4>4. pc'[s] = "create" => Cleared(s)'
        <5>1. SUFFICES ASSUME pc'[s] = "create" PROVE Cleared(s)'
          OBVIOUS
        <5>2. /\ pc[s] \in Seeing /\ Sees(s) /\ seen'[s] = seen[s]
              /\ \A v, w \in seen[s][2] : v = w
          BY <4>1, <5>1 DEF Seeing, Claiming, KeyInv, Sees
        <5>3. CASE OutcomeOfClaim(s)
          <6>1. \A w \in seen[s][2] : outcome'[w] # "none"
            BY <1>t, <5>1, <5>2, <5>3 DEF OutcomeOfClaim, Goto, Holds, StepType, waits
          <6> QED
            BY <5>2, <6>1 DEF Cleared, Unsettled
        <5>4. CASE SettleTimedOut(s)
          <6>1. \A w \in seen[s][2] : outcome'[w] # "none"
            BY <1>t, <3>c, <5>2, <5>4 DEF SettleTimedOut, Settle, WaitType
          <6> QED
            BY <5>2, <6>1 DEF Cleared, Unsettled
        <5> QED
          BY <4>3, <5>1, <5>3, <5>4
      <4>5. pc'[s] = "register" => HasClaim(wait[s])'
        <5>1. SUFFICES ASSUME pc'[s] = "register" PROVE HasClaim(wait[s])'
          OBVIOUS
        <5>2. Confirm(s) \/ ReadAgain(s)
          BY <1>t, <2>2, <3>2, <5>1 DEF StepNext, step, StepType, Start, AdoptableWait,
                                        CloseOverdue, ForgetOverdue, RestartFresh, AdoptionFails,
                                        OutcomeOfClaim, SettleTimedOut,
                                        FindRegistration, SettleCancelled, Create,
                                        Register, StoreThrows, CloseUnopenedWait,
                                        Resume, CancelRun, RemoveRegistration, Crash,
                                        OpensWait, Goto, Leave, Retry
        <5>3. CASE Confirm(s)
          <6>1. /\ <<seen[s][1] + 1, wait[s]>> \in claims /\ UNCHANGED <<claims, wait>>
            BY <1>t, <5>1, <5>3 DEF Confirm, records, Retry, Leave, Goto, StepType
          <6>2. PICK g \in Gen : <<g, wait[s]>> \in claims
            BY <1>t, <6>1, PairFacts DEF RecordType
          <6> QED
            BY <6>1, <6>2 DEF HasClaim
        <5>4. CASE ReadAgain(s)
          <6>1. PICK w \in seen[s][2] : w[1] = s /\ wait' = [wait EXCEPT ![s] = w]
            BY <1>t, <5>1, <5>4 DEF ReadAgain, Retry, Leave, Goto, StepType
          <6>2. Sees(s) /\ w \in Wait
            BY <3>c, <5>4 DEF ReadAgain, KeyInv, Seeing, Claiming
          <6>3. <<seen[s][1], w>> \in claims /\ claims' = claims /\ wait'[s] = w
            BY <1>t, <3>f, <5>4, <6>1, <6>2 DEF Sees, ReadAgain, records, StepType
          <6>4. PICK g \in Gen : <<g, w>> \in claims
            BY <1>t, <6>3, PairFacts DEF RecordType
          <6> QED
            BY <6>3, <6>4 DEF HasClaim
        <5> QED
          BY <5>2, <5>3, <5>4
      <4>6. ASSUME NEW w \in registered' PROVE w[1] \in dropped' \/ HasClaim(w)'
        <5>1. CASE w \in registered
          BY <2>w, <5>1
        <5>2. CASE w \notin registered
          <6>1. /\ Register(s) \/ StoreThrows(s)
                /\ pc[s] = "register" /\ w = wait[s]
            BY <2>2, <4>6, <5>2 DEF StepNext, waits, Start, AdoptableWait, CloseOverdue,
                                    ForgetOverdue, RestartFresh, AdoptionFails, ReadHighest,
                                    OutcomeOfClaim, SettleTimedOut, ReadAgain,
                                    FindRegistration, SettleCancelled, Create, Confirm,
                                    Register, StoreThrows, CloseUnopenedWait, Resume,
                                    CancelRun, RemoveRegistration, Crash
          <6>2. HasClaim(w) /\ claims' = claims
            BY <6>1 DEF Register, StoreThrows, KeyInv, records
          <6> QED
            BY <6>2 DEF HasClaim
        <5> QED
          BY <5>1, <5>2
      <4> QED
        BY <1>r, <2>1, <2>s, <3>f, <4>2, <4>4, <4>5, <4>6 DEF KeyInv
    <3> QED
      BY <3>1, <3>2
  <2>3. ASSUME NEW v \in Wait, WaitNext(v) PROVE KeyInv'
    <3>1. (\A s \in Step : Same(s)) /\ registered' \subseteq registered
      <4>1. UNCHANGED step
        BY <2>3, WaitFrame
      <4>2. registered' \subseteq registered
        BY <2>3 DEF WaitNext, waits, SignalDecided, SignalSettles, TimeOut,
                    DeadlinePasses, GracePasses, SweepWaitRecords, RemoveWaitRecords
      <4> QED
        BY <4>1, <4>2 DEF step, Same
    <3> QED
      BY <1>r, <2>1, <2>s, <2>w, <3>1 DEF KeyInv
  <2>4. ASSUME \/ ListRecords \/ ReadFloor \/ CreateRelease \/ KeyRecordsRemoved
               \/ RemovalDone \/ RemovalThrows
               \/ \E g \in Gen : RemoveKeyRecord(g)
        PROVE  KeyInv'
    <3>1. (\A s \in Step : Same(s)) /\ registered' = registered
      BY <2>4, RemovalFrame DEF Same
    <3> QED
      BY <1>r, <2>1, <2>s, <2>w, <3>1 DEF KeyInv
  <2> QED
    BY <1>1, <2>2, <2>3, <2>4 DEF Next
<1>2. CASE UNCHANGED vars
  <2> USE <1>2 DEF vars, records, waits, clock, step, removal
  <2>0. Present' = Present /\ Top' = Top
    BY DEF Present, Top
  <2>1. OneRecord' /\ OnlySettledBelow' /\ SelectedIsOver'
    BY <2>0 DEF KeyInv, OneRecord, OnlySettledBelow, Unsettled, SelectedIsOver
  <2>2. ASSUME NEW s \in Step
        PROVE  /\ pc'[s] \in Seeing => Sees(s)'
               /\ pc'[s] = "create" => Cleared(s)'
               /\ pc'[s] = "register" => HasClaim(wait[s])'
    BY <2>0 DEF KeyInv, Sees, Cleared, Unsettled, HasClaim
  <2>3. \A w \in registered' : w[1] \in dropped' \/ HasClaim(w)'
    BY DEF KeyInv, HasClaim
  <2> QED
    BY <1>r, <2>1, <2>2, <2>3 DEF KeyInv
<1> QED
  BY <1>1, <1>2

(* At the start nothing is claimed. *)
LEMMA KeyInvInit == Init => KeyInv
<1> SUFFICES ASSUME Init PROVE KeyInv
  OBVIOUS
<1>1. RegInv /\ OneRecord /\ OnlySettledBelow
  BY RegInvInit DEF Init, OneRecord, OnlySettledBelow
<1>2. SelectedIsOver
  BY DEF Init, SelectedIsOver
<1> QED
  BY <1>1, <1>2 DEF Init, KeyInv, Seeing, Claiming

(* An open wait has a claim, and it is the highest record. *)
LEMMA OpenIsHighest ==
  ASSUME KeyInv, NEW w \in Open
  PROVE  <<Top, w>> \in claims
<1>t. RecordType /\ WaitType /\ HasTop
  BY TypeParts DEF KeyInv, RegInv, KeyShape
<1>1. w \in Wait /\ Unsettled(w)
  BY <1>t DEF Open, Removed, WaitType, Unsettled
<1>2. PICK g \in Gen : <<g, w>> \in claims
  BY <1>1 DEF KeyInv, Open, HasClaim, Unsettled
<1>3. PICK r \in claims : r = <<g, w>> /\ r[1] = g /\ r[2] = w
  BY <1>2
<1>4. g \in Present /\ \A h \in Present : h <= g
  BY <1>1, <1>3 DEF Present, KeyInv, OnlySettledBelow
<1>5. /\ Top \in Present \cup {0} /\ Top \in Nat /\ \A h \in Present : h <= Top
      /\ Present \subseteq Nat
  BY <1>t, TopFact DEF Gen
<1>6. Top = g
  <2>1. g <= Top /\ g \in Nat
    BY <1>4, <1>5
  <2>2. Top <= g
    BY <1>4, <1>5, <2>1
  <2> QED
    BY <1>5, <2>1, <2>2
<1> QED
  BY <1>2, <1>6

(* Two waits are never open under one key, whatever crashes, fails to be closed with its run,
   is abandoned and registers late, times out or is removed meanwhile; a claim that stalled
   until its number was removed is the exception that Open names.                             *)
THEOREM OneWaitIsOpen == Spec => []OneOpenWait
<1>1. KeyInv => OneOpenWait
  <2> SUFFICES ASSUME KeyInv, NEW v \in Open, NEW w \in Open PROVE v = w
    BY DEF OneOpenWait
  <2>1. <<Top, v>> = <<Top, w>>
    BY OpenIsHighest DEF KeyInv, OneRecord
  <2> QED
    BY <2>1
<1>2. KeyInv /\ [Next]_vars => KeyInv'
  BY KeyInvStep
<1> QED
  BY <1>1, <1>2, KeyInvInit, PTL DEF Spec

(* A signal by key finds every open wait, with the same exception: the highest record is the
   claim of the wait.                                                                        *)
THEOREM OpenWaitIsFound == Spec => []OpenWaitHoldsKey
<1>1. KeyInv => OpenWaitHoldsKey
  <2> SUFFICES ASSUME KeyInv, NEW w \in Open PROVE ClaimAt(Top) = {w}
    BY DEF OpenWaitHoldsKey
  <2>1. <<Top, w>> \in claims
    BY OpenIsHighest
  <2>2. w \in Wait
    BY TypeParts DEF Open, KeyInv, RegInv, KeyShape, WaitType
  <2>3. ASSUME NEW v \in ClaimAt(Top) PROVE v = w
    <3>1. <<Top, v>> = <<Top, w>>
      BY <2>1 DEF ClaimAt, KeyInv, OneRecord
    <3> QED
      BY <3>1
  <2> QED
    BY <2>1, <2>2, <2>3 DEF ClaimAt
<1>2. KeyInv /\ [Next]_vars => KeyInv'
  BY KeyInvStep
<1> QED
  BY <1>1, <1>2, KeyInvInit, PTL DEF Spec

-----------------------------------------------------------------------------
(* The waits of a key, as its users see them. *)

\* A step that drops its registration has settled the wait, or has dropped it before.
SettledFirst(s) ==
    pc[s] \in {"forget", "leaving"} => outcome[wait[s]] # "none" \/ wait[s] \notin registered

(* A step drops its registration only of a wait that is settled: nobody takes the outcome
   of a run that is not over away.                                                        *)
LEMMA SettledFirstStep ==
  RegInv /\ (\A s \in Step : SettledFirst(s)) /\ [Next]_vars => \A s \in Step : SettledFirst(s)'
<1> SUFFICES ASSUME RegInv, \A s \in Step : SettledFirst(s), [Next]_vars, NEW s \in Step
             PROVE  SettledFirst(s)'
  OBVIOUS
<1>k. KeyShape /\ EndedAreOver /\ \A x \in Step : OwnWait(x)
  BY DEF RegInv
<1>t. WaitType /\ StepType
  BY <1>k, TypeParts DEF KeyShape
<1>w. wait[s] \in Wait /\ wait[s][1] = s
  BY <1>k, <1>t DEF StepType, OwnWait
<1>1. CASE UNCHANGED vars
  BY <1>1 DEF vars, waits, step, SettledFirst
<1>2. ASSUME Next, pc'[s] = pc[s], wait'[s] = wait[s],
             wait[s] \in registered' => wait[s] \in registered
      PROVE  SettledFirst(s)'
  <2>1. SUFFICES ASSUME pc[s] \in {"forget", "leaving"}
                 PROVE  outcome'[wait[s]] # "none" \/ wait[s] \notin registered'
    BY <1>2 DEF SettledFirst
  <2>2. s \notin dropped
    BY <1>k, <2>1 DEF EndedAreOver, Over
  <2>3. outcome[wait[s]] # "none" => outcome'[wait[s]] # "none"
    BY <1>2, <1>k, <1>w, <2>2, OverIsFinal
  <2> QED
    BY <1>2, <2>1, <2>3 DEF SettledFirst
<1>3. ASSUME NEW x \in Step \ {s}, StepNext(x) PROVE SettledFirst(s)'
  <2>1. pc'[s] = pc[s] /\ wait'[s] = wait[s]
    BY <1>3, <1>k, StepFrame DEF Same
  <2>2. registered' \subseteq registered \cup {wait[x]}
    BY <1>3 DEF StepNext, waits, Start, AdoptableWait, CloseOverdue, ForgetOverdue,
                RestartFresh, AdoptionFails, ReadHighest, OutcomeOfClaim, SettleTimedOut,
                ReadAgain, FindRegistration, SettleCancelled, Create, Confirm, Register,
                StoreThrows, CloseUnopenedWait, Resume, CancelRun, RemoveRegistration, Crash
  <2>3. wait[x] # wait[s]
    BY <1>3, <1>k, <1>w DEF OwnWait
  <2> QED
    BY <1>2, <1>3, <2>1, <2>2, <2>3 DEF Next
<1>4. ASSUME StepNext(s) PROVE SettledFirst(s)'
  <2>1. CASE pc'[s] \notin {"forget", "leaving"}
    BY <2>1 DEF SettledFirst
  <2>2. CASE AdoptableWait(s)
    BY <1>t, <2>2 DEF AdoptableWait, Goto, SettledFirst, StepType, waits
  <2>3. CASE CloseOverdue(s) \/ CancelRun(s)
    BY <1>t, <1>w, <2>3
    DEF CloseOverdue, CancelRun, Settle, Goto, SettledFirst, StepType, WaitType
  <2>4. CASE Resume(s)
    BY <1>t, <2>4 DEF Resume, Goto, SettledFirst, StepType, waits
  <2> QED
    BY <1>4, <1>t, <2>1, <2>2, <2>3, <2>4
    DEF StepNext, Start, ForgetOverdue, RestartFresh, AdoptionFails, ReadHighest, OutcomeOfClaim,
        SettleTimedOut, ReadAgain, FindRegistration, SettleCancelled, Create, Confirm,
        Register, StoreThrows, CloseUnopenedWait, RemoveRegistration, Crash, Goto, Leave,
        Retry, OpensWait, StepType
<1>5. ASSUME NEW w \in Wait, WaitNext(w) PROVE SettledFirst(s)'
  <2>1. pc'[s] = pc[s] /\ wait'[s] = wait[s]
    BY <1>5, WaitFrame DEF step
  <2>2. registered' \subseteq registered
    BY <1>5 DEF WaitNext, waits, SignalDecided, SignalSettles, TimeOut, DeadlinePasses,
                GracePasses, SweepWaitRecords, RemoveWaitRecords
  <2> QED
    BY <1>2, <1>5, <2>1, <2>2 DEF Next
<1>6. ASSUME \/ ListRecords \/ ReadFloor \/ CreateRelease \/ KeyRecordsRemoved
             \/ RemovalDone \/ RemovalThrows
             \/ \E g \in Gen : RemoveKeyRecord(g)
      PROVE  SettledFirst(s)'
  BY <1>6, RemovalFrame DEF SettledFirst
<1> QED
  BY <1>1, <1>3, <1>4, <1>5, <1>6 DEF Next

(* An outcome that is written settles the wait, or finds it settled. *)
LEMMA SettleStep ==
  ASSUME WaitType, NEW v \in Wait, NEW k \in {"accepted", "timed_out", "cancelled"},
         Settle(v, k), registered' = registered, dropped' = dropped, late' = late
  PROVE  KW!Next \/ UNCHANGED KW!vars
<1>1. outcome \in [Wait -> Outcome]
  BY DEF WaitType
<1>2. CASE outcome[v] = "none"
  <2>1. outcome' = [outcome EXCEPT ![v] = k]
    BY <1>2 DEF Settle
  <2>2. Open' = Open \ {v} /\ Removed' = Removed
    BY <1>1, <2>1 DEF Open, Removed, WaitType
  <2>3. KW!Settle(v)
    BY <1>2, <2>1, <2>2 DEF KW!Settle
  <2> QED
    BY <2>3 DEF KW!Next
<1>3. CASE outcome[v] # "none"
  <2>1. outcome' = outcome
    BY <1>1, <1>3 DEF Settle
  <2> QED
    BY <2>1 DEF KW!vars, Open, Removed
<1> QED
  BY <1>2, <1>3

(* A step opens its wait when no other is open, settles a wait or leaves both as they are. *)
LEMMA KeyedStep ==
  ASSUME KeyInv, OneOpenWait', NEW s \in Step, StepNext(s), SettledFirst(s)
  PROVE  KW!Next \/ UNCHANGED KW!vars
<1>t. WaitType /\ StepType /\ OwnWait(s)
  BY TypeParts DEF KeyInv, RegInv, KeyShape
<1>w. wait[s] \in Wait /\ seen[s][2] \subseteq Wait
  BY <1>t DEF StepType
<1>d. dropped' = dropped /\ Removed' = Removed /\ wait[s] \notin Removed
  <2>1. dropped' = dropped /\ ~Over(s)
    BY StepFrame DEF KeyInv, RegInv, removal
  <2> QED
    BY <1>t, <2>1 DEF KeyInv, RegInv, EndedAreOver, OwnWait, Removed
<1>l. CASE Create(s)
  <2>1. UNCHANGED <<registered, outcome>> /\ late \subseteq late' /\ late' \subseteq late \cup {wait[s]}
    BY <1>l DEF Create, waits
  <2>2. wait[s] \notin registered
    BY <1>t, <1>l DEF Create, OwnWait, Over
  <2>3. Open' = Open
    BY <1>d, <2>1, <2>2 DEF Open
  <2> QED
    BY <1>d, <2>1, <2>3 DEF KW!vars
<1>1. ASSUME UNCHANGED <<waits, late>> PROVE UNCHANGED KW!vars
  BY <1>d, <1>1 DEF waits, Open, KW!vars
<1>2. CASE CloseOverdue(s) \/ SettleTimedOut(s) \/ SettleCancelled(s)
  BY <1>t, <1>w, <1>d, <1>2, SettleStep DEF CloseOverdue, SettleTimedOut, SettleCancelled
<1>3. CASE CloseUnopenedWait(s) \/ CancelRun(s)
  BY <1>t, <1>w, <1>d, <1>1, <1>3, SettleStep DEF CloseUnopenedWait, CancelRun, waits
<1>4. CASE ForgetOverdue(s) \/ RemoveRegistration(s)
  <2>1. /\ registered' = registered \ {wait[s]} \/ registered' = registered
        /\ outcome' = outcome /\ late' = late /\ pc[s] \in {"forget", "leaving"}
    BY <1>4 DEF ForgetOverdue, RemoveRegistration
  <2>2. Open' = Open
    BY <1>d, <2>1 DEF SettledFirst, Open
  <2> QED
    BY <1>d, <2>1, <2>2 DEF KW!vars
<1>5. CASE Register(s) \/ StoreThrows(s)
  <2>1. CASE registered' = registered
    BY <1>1, <1>5, <2>1 DEF Register, StoreThrows, waits
  <2>2. CASE registered' # registered
    <3>1. /\ registered' = registered \cup {wait[s]} /\ wait[s] \notin registered
          /\ UNCHANGED <<outcome, late>>
      BY <1>5, <2>2 DEF Register, StoreThrows
    <3>2. CASE outcome[wait[s]] # "none" \/ wait[s] \in late
      <4>1. Open' = Open
        BY <1>d, <3>1, <3>2 DEF Open
      <4> QED
        BY <1>d, <3>1, <4>1 DEF KW!vars
    <3>3. CASE outcome[wait[s]] = "none" /\ wait[s] \notin late
      <4>1. Open' = Open \cup {wait[s]} /\ wait[s] \notin Open
        BY <1>d, <3>1, <3>3 DEF Open
      <4>2. \A v, w \in Open' : v = w
        BY DEF OneOpenWait
      <4>3. Open = {} /\ Open' = {wait[s]}
        BY <4>1, <4>2
      <4>4. KW!OpenWait(wait[s])
        BY <1>d, <3>1, <3>3, <4>3 DEF KW!OpenWait
      <4> QED
        BY <1>w, <4>4 DEF KW!Next
    <3> QED
      BY <3>2, <3>3
  <2> QED
    BY <2>1, <2>2
<1> QED
  BY <1>l, <1>1, <1>2, <1>3, <1>4, <1>5
  DEF StepNext, Start, AdoptableWait, RestartFresh, AdoptionFails, ReadHighest, OutcomeOfClaim,
      ReadAgain, FindRegistration, Confirm, Resume, Crash

(* A signaller, a timeout or the sweep settles a wait, and the removal forgets one that is
   not open: its run is removed.                                                          *)
LEMMA KeyedEvent ==
  ASSUME KeyInv, NEW w \in Wait, WaitNext(w)
  PROVE  KW!Next \/ UNCHANGED KW!vars
<1>t. WaitType /\ EndedAreOver
  BY TypeParts DEF KeyInv, RegInv, KeyShape
<1>d. dropped' = dropped /\ Removed' = Removed /\ late' = late
  BY WaitFrame DEF removal, Removed, step
<1>1. CASE UNCHANGED waits
  BY <1>d, <1>1 DEF waits, Open, KW!vars
<1>2. CASE SignalSettles(w) \/ TimeOut(w)
  BY <1>t, <1>d, <1>2, SettleStep DEF SignalSettles, TimeOut
<1>3. CASE SweepWaitRecords(w)
  <2>1. CASE outcome[w] = "none"
    BY <1>t, <1>d, <1>3, <2>1, SettleStep DEF SweepWaitRecords
  <2>2. CASE outcome[w] # "none"
    <3>1. registered' = registered \ {w} /\ outcome' = outcome
      BY <1>3, <2>2 DEF SweepWaitRecords
    <3>2. Open' = Open
      BY <1>d, <2>2, <3>1 DEF Open
    <3> QED
      BY <1>d, <3>1, <3>2 DEF KW!vars
  <2> QED
    BY <2>1, <2>2
<1>4. CASE RemoveWaitRecords(w)
  <2>1. w \in Removed
    BY <1>t, <1>4 DEF RemoveWaitRecords, EndedAreOver, Removed
  <2>2. /\ \A v \in Wait : v # w => (v \in registered' <=> v \in registered) /\ outcome'[v] = outcome[v]
        /\ registered' \subseteq Wait
    BY <1>t, <1>4 DEF RemoveWaitRecords, WaitType
  <2>3. Open' = Open
    BY <1>t, <1>d, <2>1, <2>2 DEF Open, WaitType
  <2>4. outcome' = outcome \/ outcome' = [outcome EXCEPT ![w] = "none"]
    BY <1>4 DEF RemoveWaitRecords
  <2>5. KW!Forget(w) \/ UNCHANGED KW!vars
    BY <1>d, <2>1, <2>3, <2>4 DEF KW!Forget, KW!vars
  <2> QED
    BY <2>5 DEF KW!Next
<1> QED
  BY <1>1, <1>2, <1>3, <1>4 DEF WaitNext, SignalDecided, DeadlinePasses, GracePasses

(* The removal of runs takes their waits with it when it begins. *)
LEMMA KeyedRemoval ==
  ASSUME KeyInv,
         \/ ListRecords \/ ReadFloor \/ CreateRelease \/ KeyRecordsRemoved \/ RemovalDone
         \/ RemovalThrows \/ \E g \in Gen : RemoveKeyRecord(g)
  PROVE  KW!Next \/ UNCHANGED KW!vars
<1>1. registered' = registered /\ outcome' = outcome /\ late' = late
  BY RemovalFrame
<1>2. CASE dropped' = dropped
  BY <1>1, <1>2 DEF Open, Removed, KW!vars
<1>3. CASE ListRecords
  <2>1. dropped \subseteq dropped'
    BY <1>3 DEF ListRecords
  <2>2. Removed' \in SUBSET Wait /\ Removed \subseteq Removed'
    BY <2>1 DEF Removed
  <2>3. Open' = Open \ Removed'
    BY <1>1, <2>2 DEF Open
  <2>4. KW!Remove
    BY <1>1, <2>2, <2>3 DEF KW!Remove
  <2> QED
    BY <2>4 DEF KW!Next
<1> QED
  BY <1>2, <1>3 DEF ReadFloor, CreateRelease, KeyRecordsRemoved, RemovalDone, RemovalThrows,
                    EndsRemoval, RemoveKeyRecord

(* The records of a key implement a keyed wait: a wait opens when no other is open, and an
   open one stays until it is settled, once, or its run is removed, whatever steps crash,
   fail, take over or close each other's claims, or are removed.                           *)
THEOREM KeyIsKeyedWait == Spec => ImplementsKeyedWait
<1> DEFINE Settled == \A s \in Step : SettledFirst(s)
<1>1. Init => KW!Init
  BY DEF Init, Open, Removed, KW!Init
<1>2. Init => KeyInv /\ Settled
  BY KeyInvInit DEF Init, SettledFirst
<1>3. KeyInv /\ [Next]_vars => KeyInv'
  BY KeyInvStep
<1>4. KeyInv /\ Settled /\ [Next]_vars => Settled'
  BY SettledFirstStep DEF KeyInv
<1>5. ASSUME KeyInv, Settled, [Next]_vars, OneOpenWait' PROVE [KW!Next]_(KW!vars)
  <2>1. CASE UNCHANGED vars
    BY <2>1 DEF vars, waits, step, removal, Open, Removed, KW!vars
  <2>2. ASSUME NEW s \in Step, StepNext(s) PROVE [KW!Next]_(KW!vars)
    BY <1>5, <2>2, KeyedStep
  <2>3. ASSUME NEW w \in Wait, WaitNext(w) PROVE [KW!Next]_(KW!vars)
    BY <1>5, <2>3, KeyedEvent
  <2>4. ASSUME \/ ListRecords \/ ReadFloor \/ CreateRelease \/ KeyRecordsRemoved
               \/ RemovalDone \/ RemovalThrows
               \/ \E g \in Gen : RemoveKeyRecord(g)
        PROVE  [KW!Next]_(KW!vars)
    BY <1>5, <2>4, KeyedRemoval
  <2> QED
    BY <1>5, <2>1, <2>2, <2>3, <2>4 DEF Next
<1>6. Spec => []OneOpenWait
  BY OneWaitIsOpen
<1> HIDE DEF Settled
<1>7. KeyInv /\ Settled /\ OneOpenWait' /\ [Next]_vars => [KW!Next]_(KW!vars)
  BY <1>5
<1> QED
  BY <1>1, <1>2, <1>3, <1>4, <1>6, <1>7, PTL DEF Spec, ImplementsKeyedWait, KW!Spec

-----------------------------------------------------------------------------
(* The wait key and the replicas, side by side *)

(* What TLC runs as one specification is the two components and nothing else: whatever
   holds of each of them holds of it.                                                   *)
THEOREM KeyAndReplicaAreParts == PartsSpec => Spec /\ ReplSpec
<1>1. PartsInit => Init /\ ReplInit
  BY DEF PartsInit
<1>2. [PartsNext]_<<vars, replVars, part>> => [Next]_vars /\ [ReplNext]_replVars
  BY DEF PartsNext
<1> QED
  BY <1>1, <1>2, PTL DEF PartsSpec, Spec, ReplSpec

(* The records, waits and claims of a key, and the processes, files and records of the
   replicas, keep their types in what TLC runs.                                        *)
THEOREM KeyAndReplicaTypes == Cases = {} /\ PartsSpec => []PartsTypeOK
<1>1. TypeOK /\ ReplTypeOK => PartsTypeOK
  BY DEF PartsTypeOK
<1> QED
  BY <1>1, KeyAndReplicaAreParts, KeyTypeCorrect, ReplTypesHold, PTL
=============================================================================
