------------------------ MODULE ContinuationClaimProofs ------------------------
(***************************************************************************)
(* Proofs about ContinuationClaim for any instances and any bounds.         *)
(***************************************************************************)
EXTENDS ContinuationClaim, TLAPS

USE InstanceAssumption, BoundAssumption, NoClaimAssumption

Stages == {"idle", "lock", "look", "find", "judge", "create", "save", "prepare", "run"}

\* The stages in which an instance holds the lock of the run, and those in which it has a
\* claim of its own.
Locked == {"look", "find", "judge", "create"}
Engaged == {"save", "prepare", "run"}

(* Generations of a suspension's claims, for what Current returns. *)

UniqueGeneration ==
    \A c, d \in claims : c.n = d.n /\ c.gen = d.gen => c = d

UpTo(n, g) == {c \in claims : c.n = n /\ c.gen <= g}

\* Some claim is the highest of those up to a generation; none is above all bounds.
HasTop(n, g) == UpTo(n, g) = {} \/ \E c \in UpTo(n, g) : \A d \in UpTo(n, g) : d.gen <= c.gen

Bounded == \E b \in Nat : \A c \in claims : c.gen <= b

Ordered == UniqueGeneration /\ Bounded /\ \A n \in Suspension, g \in Nat : HasTop(n, g)

\* How an instance's stage ties its variables together.
ResumeShape(i) ==
    /\ stage[i] # "idle" => life[i] = "up" /\ copy[i].n <= MaxSuspension
    /\ stage[i] \in {"idle", "lock", "look", "find"} => found[i] = NoOne
    /\ stage[i] = "judge" => found[i] # NoOne
    /\ stage[i] = "create" =>
          /\ own[i] # NoOne /\ own[i].n = copy[i].n /\ own[i].holder = i
          /\ own[i].gen = IF found[i] = NoOne THEN 1 ELSE found[i].gen + 1
    /\ stage[i] \in Engaged =>
          own[i] \in claims /\ own[i].n = copy[i].n /\ own[i].holder = i

ClaimShape ==
    /\ ClaimTypeOK /\ Ordered
    /\ \A i \in Instance : ResumeShape(i)

\* A claim on the suspension that the copy shows is the one of the resume under way.
Released(i) ==
    i \notin kept => \A c \in claims : c.holder = i /\ life[i] # "gone" =>
        /\ life[i] = "up" /\ c.n <= copy[i].n
        /\ c.n = copy[i].n => stage[i] \in Engaged /\ c = own[i]

AllReleased == \A i \in Instance : Released(i)

\* No claim of j on n was replaced by a person's resume, or judged dead while j ran.
Free(j, n) == \A c \in overridden : c = NoOne \/ c.n # n \/ c.holder # j

\* The claim of an instance that runs, if it was not overridden, is the highest.
RunningIsHighest ==
    \A c, d \in claims :
       life[c.holder] = "up" /\ Free(c.holder, c.n) /\ d.n = c.n => d.gen <= c.gen

\* What an instance that is to create a claim knows of the others.
Judged(i) ==
    /\ stage[i] \in {"judge", "create"} =>
          \A c \in claims : c.n = copy[i].n =>
             /\ found[i] # NoOne /\ c.gen <= found[i].gen
             /\ life[c.holder] = "up" /\ Free(c.holder, c.n) => c = found[i]
    /\ stage[i] = "create" /\ mode[i] # "manual" /\ found[i] # NoOne =>
          life[found[i].holder] = "gone" \/ found[i] \in overridden

\* A claim is of an instance that started, and so is the one a resume found.
Known(i) ==
    /\ \A c \in claims : c.holder = i => life[i] # "off"
    /\ found[i] # NoOne => found[i].n = copy[i].n /\ life[found[i].holder] # "off"

\* What an instance continued stays visible in its claims and in its copy.
RunTrace(i) ==
    /\ \A n \in Suspension : copy[i] = Running(i, n) => stage[i] \in {"prepare", "run"}
    /\ \A n \in Suspension : i \in ran[n] =>
          /\ life[i] # "off"
          /\ life[i] = "up" => /\ \E c \in claims : c.n = n /\ c.holder = i
                               /\ \/ copy[i].n > n
                                  \/ copy[i].n = n /\ stage[i] = "run"

\* A record that an instance wrote as running shows that the instance started.
Started(i) ==
    \A n \in Suspension :
       remote = Running(i, n) \/ (\E j \in Instance : copy[j] = Running(i, n)) => life[i] # "off"

\* One resume at a time is between the check of its record and its claim.
HasLock(i) == stage[i] \in Locked => lock = i

OneInv ==
    /\ ClaimShape /\ RunningIsHighest
    /\ \A i \in Instance : HasLock(i) /\ Judged(i) /\ Known(i) /\ RunTrace(i) /\ Started(i)

-----------------------------------------------------------------------------
(* Records and claims: their fields, and which of them are equal. *)
LEMMA RecordFacts ==
  /\ \A r \in Record : r.n \in Suspension
  /\ \A n \in Suspension : /\ Suspended(n) \in Record /\ Suspended(n).n = n
                           /\ Suspended(n).status = "suspended"
                           /\ Cancelled(n) \in Record /\ Cancelled(n).n = n
                           /\ Cancelled(n).status = "cancelled"
  /\ \A n \in Suspension, i \in Instance :
        /\ Running(i, n) \in Record /\ Running(i, n).n = n
        /\ Running(i, n).status = "running" /\ Running(i, n).by = i
<1>1. \A r \in Record : r.n \in Suspension
  BY DEF Record
<1>2. \A n \in Suspension : /\ Suspended(n) \in Record /\ Suspended(n).n = n
                            /\ Suspended(n).status = "suspended"
                            /\ Cancelled(n) \in Record /\ Cancelled(n).n = n
                            /\ Cancelled(n).status = "cancelled"
  BY DEF Record, Suspended, Cancelled
<1>3. \A n \in Suspension, i \in Instance :
        /\ Running(i, n) \in Record /\ Running(i, n).n = n
        /\ Running(i, n).status = "running" /\ Running(i, n).by = i
  BY DEF Record, Running
<1> QED
  BY <1>1, <1>2, <1>3

(* The same for claims. *)
LEMMA ClaimFacts ==
  /\ \A c \in ClaimRecord : c.n \in Suspension /\ c.gen \in Nat \ {0} /\ c.holder \in Instance
  /\ \A n \in Suspension, g \in Nat \ {0}, i \in Instance :
        /\ Claim(n, g, i) \in ClaimRecord /\ Claim(n, g, i).n = n
        /\ Claim(n, g, i).gen = g /\ Claim(n, g, i).holder = i
BY DEF ClaimRecord, Claim, Generation

(* A claim of a new generation keeps the claims of a suspension ordered ... *)
LEMMA OrderedGrows ==
  ASSUME claims \subseteq ClaimRecord, Ordered, NEW x \in ClaimRecord,
         claims' = claims \cup {x},
         \A c \in claims : c.n # x.n \/ c.gen # x.gen
  PROVE  Ordered'
<1>0. /\ x.gen \in Nat
      /\ \A c \in claims : c.gen \in Nat
  BY ClaimFacts
<1>1. UniqueGeneration'
  BY DEF Ordered, UniqueGeneration
<1>2. Bounded'
  <2>1. PICK b \in Nat : \A c \in claims : c.gen <= b
    BY DEF Ordered, Bounded
  <2>2. CASE x.gen <= b
    BY <2>1, <2>2 DEF Bounded
  <2>3. CASE ~(x.gen <= b)
    <3>1. \A c \in claims' : c.gen <= x.gen
      BY <1>0, <2>1, <2>3
    <3> QED
      BY <1>0, <3>1 DEF Bounded
  <2> QED
    BY <2>2, <2>3
<1>3. ASSUME NEW n \in Suspension, NEW g \in Nat PROVE HasTop(n, g)'
  <2>1. HasTop(n, g)
    BY DEF Ordered
  <2>2. CASE x.n = n /\ x.gen <= g
    <3>1. UpTo(n, g)' = UpTo(n, g) \cup {x}
      BY <2>2 DEF UpTo
    <3>2. CASE UpTo(n, g) = {}
      BY <1>0, <3>1, <3>2 DEF HasTop
    <3>3. CASE UpTo(n, g) # {}
      <4>1. PICK c \in UpTo(n, g) : \A d \in UpTo(n, g) : d.gen <= c.gen
        BY <2>1, <3>3 DEF HasTop
      <4>2. c.gen \in Nat /\ \A d \in UpTo(n, g) : d.gen \in Nat
        BY <1>0 DEF UpTo
      <4>3. CASE x.gen <= c.gen
        BY <3>1, <4>1, <4>3 DEF HasTop
      <4>4. CASE ~(x.gen <= c.gen)
        <5>1. \A d \in UpTo(n, g)' : d.gen <= x.gen
          BY <1>0, <3>1, <4>1, <4>2, <4>4
        <5> QED
          BY <3>1, <5>1 DEF HasTop
      <4> QED
        BY <4>3, <4>4
    <3> QED
      BY <3>2, <3>3
  <2>3. CASE ~(x.n = n /\ x.gen <= g)
    <3>1. UpTo(n, g)' = UpTo(n, g)
      BY <2>3 DEF UpTo
    <3> QED
      BY <2>1, <3>1 DEF HasTop
  <2> QED
    BY <2>2, <2>3
<1> QED
  BY <1>1, <1>2, <1>3 DEF Ordered

(* ... and so does the deletion of one: the next highest is the highest up to the
   generation below.                                                             *)
LEMMA OrderedShrinks ==
  ASSUME claims \subseteq ClaimRecord, Ordered, NEW x, claims' = claims \ {x}
  PROVE  Ordered'
<1>0. \A c \in claims : c.gen \in Nat \ {0} /\ c.n \in Suspension
  BY ClaimFacts
<1>1. UniqueGeneration' /\ Bounded'
  BY DEF Ordered, UniqueGeneration, Bounded
<1>3. ASSUME NEW n \in Suspension, NEW g \in Nat PROVE HasTop(n, g)'
  <2>1. HasTop(n, g) /\ UpTo(n, g)' = UpTo(n, g) \ {x}
    BY DEF Ordered, UpTo
  <2>2. CASE UpTo(n, g) = {}
    BY <2>1, <2>2 DEF HasTop
  <2>3. CASE UpTo(n, g) # {}
    <3>1. PICK c \in UpTo(n, g) : \A d \in UpTo(n, g) : d.gen <= c.gen
      BY <2>1, <2>3 DEF HasTop
    <3>2. CASE c # x
      BY <2>1, <3>1, <3>2 DEF HasTop
    <3>3. CASE c = x
      <4>1. c \in claims /\ c.n = n /\ c.gen <= g /\ c.gen \in Nat \ {0}
        BY <1>0 DEF UpTo
      <4>2. PICK h \in Nat : h = c.gen - 1
        BY <4>1
      <4>3. HasTop(n, h)
        BY DEF Ordered
      <4>4. UpTo(n, g)' = UpTo(n, h)
        <5>1. ASSUME NEW d \in claims, d.n = n, d.gen <= g, d # x PROVE d.gen <= h
          <6>1. d.gen <= c.gen /\ d.gen \in Nat
            BY <1>0, <3>1, <5>1 DEF UpTo
          <6>2. d.gen # c.gen
            BY <3>3, <4>1, <5>1 DEF Ordered, UniqueGeneration
          <6> QED
            BY <4>1, <4>2, <6>1, <6>2
        <5>2. ASSUME NEW d \in claims, d.n = n, d.gen <= h PROVE d.gen <= g /\ d # x
          BY <1>0, <3>3, <4>1, <4>2, <5>2
        <5> QED
          BY <2>1, <5>1, <5>2 DEF UpTo
      <4> QED
        BY <4>3, <4>4 DEF HasTop
    <3> QED
      BY <3>2, <3>3
  <2> QED
    BY <2>2, <2>3
<1> QED
  BY <1>1, <1>3 DEF Ordered

(* find returns the claim of the highest generation, and nothing only where there is
   no claim.                                                                          *)
LEMMA CurrentFact ==
  ASSUME claims \subseteq ClaimRecord, Ordered, NEW n \in Suspension
  PROVE  /\ Current(n) = NoOne => \A c \in claims : c.n # n
         /\ Current(n) # NoOne => /\ Current(n) \in claims /\ Current(n).n = n
                                  /\ \A d \in claims : d.n = n => d.gen <= Current(n).gen
<1> DEFINE here == {c \in claims : c.n = n}
<1>1. CASE here = {}
  BY <1>1 DEF Current
<1>2. CASE here # {}
  <2>1. PICK b \in Nat : \A c \in claims : c.gen <= b
    BY DEF Ordered, Bounded
  <2>2. UpTo(n, b) = here /\ HasTop(n, b)
    BY <2>1 DEF Ordered, UpTo
  <2>3. \E c \in here : \A d \in here : d.gen <= c.gen
    BY <1>2, <2>2 DEF HasTop
  <2>4. Current(n) = CHOOSE c \in here : \A d \in here : d.gen <= c.gen
    BY <1>2 DEF Current
  <2>5. Current(n) \in here /\ \A d \in here : d.gen <= Current(n).gen
    BY <2>3, <2>4
  <2> QED
    BY <2>5
<1> QED
  BY <1>1, <1>2

-----------------------------------------------------------------------------
(* Types, generations and the shape of a resume. *)

\* The parts of ClaimTypeOK.
RunType == remote \in Record /\ copy \in [Instance -> Record] /\ dirty \subseteq Instance
ClaimsType ==
    /\ claims \subseteq ClaimRecord
    /\ found \in [Instance -> ClaimRecord \cup {NoOne}]
    /\ own \in [Instance -> ClaimRecord \cup {NoOne}]
    /\ overridden \subseteq ClaimRecord \cup {NoOne}
PlaceType ==
    /\ lock \in Instance \cup {NoOne} /\ life \in [Instance -> {"off", "up", "gone"}]
    /\ beat \subseteq Serve /\ boot \subseteq Serve
    /\ stage \in [Instance -> Stages]
    /\ mode \in [Instance -> {"none", "boot", "other", "manual"}]
    /\ tries \in [Instance -> 0..MaxTries] /\ kept \subseteq Instance
    /\ ran \in [Suspension -> SUBSET Instance]

(* ClaimTypeOK is its three parts, before and after a step. *)
LEMMA ClaimTypeParts ==
  /\ ClaimTypeOK <=> RunType /\ ClaimsType /\ PlaceType
  /\ ClaimTypeOK' <=> RunType' /\ ClaimsType' /\ PlaceType'
BY DEF ClaimTypeOK, RunType, ClaimsType, PlaceType, Stages

(* The initial state: nothing is claimed and nobody resumes. *)
LEMMA ClaimShapeInit == ClaimInit => ClaimShape
<1> SUFFICES ASSUME ClaimInit PROVE ClaimShape
  OBVIOUS
<1>1. 1 \in Suspension /\ 0 \in 0..MaxTries /\ 0 \in Nat
  BY DEF Suspension
<1>2. RunType
  BY <1>1, RecordFacts DEF ClaimInit, RunType
<1>3. ClaimsType
  BY DEF ClaimInit, ClaimsType
<1>4. PlaceType
  BY <1>1 DEF ClaimInit, PlaceType, Stages
<1>5. Ordered
  BY <1>1 DEF ClaimInit, Ordered, UniqueGeneration, Bounded, HasTop, UpTo
<1>6. ASSUME NEW i \in Instance PROVE ResumeShape(i)
  BY DEF ClaimInit, ResumeShape, Engaged
<1> QED
  BY <1>2, <1>3, <1>4, <1>5, <1>6, ClaimTypeParts DEF ClaimShape

(* One case per step of an instance. *)
LEMMA ClaimShapeStep == ClaimShape /\ [ClaimNext]_claimVars => ClaimShape'
<1> SUFFICES ASSUME ClaimShape, [ClaimNext]_claimVars PROVE ClaimShape'
  OBVIOUS
<1> USE DEF run, alive, resume, history
<1>t. RunType /\ ClaimsType /\ PlaceType
  BY ClaimTypeParts DEF ClaimShape
<1>o. Ordered
  BY DEF ClaimShape
<1>s. \A i \in Instance : ResumeShape(i)
  BY DEF ClaimShape
<1>1. ASSUME NEW i \in Instance, ClaimStep(i) PROVE ClaimShape'
  <2>s. ResumeShape(i)
    BY <1>s
  <2>n. /\ copy[i].n \in Suspension /\ copy[i] \in Record /\ remote \in Record
        /\ Suspended(copy[i].n) \in Record /\ Running(i, copy[i].n) \in Record
        /\ Cancelled(copy[i].n) \in Record /\ Suspended(1) \in Record
        /\ Suspended(copy[i].n).n = copy[i].n /\ Running(i, copy[i].n).n = copy[i].n
        /\ Cancelled(copy[i].n).n = copy[i].n
        /\ own[i] \in ClaimRecord \cup {NoOne} /\ found[i] \in ClaimRecord \cup {NoOne}
    <3>1. copy[i].n \in Suspension /\ copy[i] \in Record /\ 1 \in Suspension
      BY <1>t, RecordFacts DEF RunType, Suspension
    <3> QED
      BY <1>t, <3>1, RecordFacts DEF RunType, ClaimsType
  <2>c. \A n \in Suspension : Current(n) # NoOne => Current(n) \in claims /\ Current(n).n = n
    BY <1>t, <1>o, CurrentFact DEF ClaimsType
  <2>1. CASE Start(i)
    <3>1. RunType'
      BY <2>1, <1>t, <2>n
      DEF Start, RunType
    <3>2. ClaimsType'
      BY <2>1, <1>t, <2>n
      DEF Start, ClaimsType
    <3>3. PlaceType'
      BY <2>1, <1>t, <2>n
      DEF Start, PlaceType, Stages, Instance
    <3>4. Ordered'
      BY <2>1, <1>o
      DEF Start, Ordered, UniqueGeneration, Bounded, HasTop, UpTo
    <3>5. \A x \in Instance \ {i} : ResumeShape(x)'
      BY <2>1, <1>t, <1>s, <2>s
      DEF Start, ResumeShape, RunType, ClaimsType, PlaceType
    <3>6. ResumeShape(i)'
      BY <2>1, <1>t, <2>n, <2>s
      DEF Start, ResumeShape, RunType, ClaimsType, PlaceType, Engaged
    <3> QED
      BY <3>1, <3>2, <3>3, <3>4, <3>5, <3>6, ClaimTypeParts DEF ClaimShape
  <2>2. CASE Push(i)
    <3>1. RunType'
      BY <2>2, <1>t, <2>n
      DEF Push, RunType
    <3>2. ClaimsType'
      BY <2>2, <1>t, <2>n
      DEF Push, ClaimsType
    <3>3. PlaceType'
      BY <2>2, <1>t, <2>n
      DEF Push, PlaceType, Stages, Instance
    <3>4. Ordered'
      BY <2>2, <1>o
      DEF Push, Ordered, UniqueGeneration, Bounded, HasTop, UpTo
    <3>5. \A x \in Instance \ {i} : ResumeShape(x)'
      BY <2>2, <1>t, <1>s, <2>s
      DEF Push, ResumeShape, RunType, ClaimsType, PlaceType
    <3>6. ResumeShape(i)'
      BY <2>2, <1>t, <2>n, <2>s
      DEF Push, ResumeShape, RunType, ClaimsType, PlaceType, Engaged
    <3> QED
      BY <3>1, <3>2, <3>3, <3>4, <3>5, <3>6, ClaimTypeParts DEF ClaimShape
  <2>3. CASE Die(i)
    <3>1. RunType'
      BY <2>3, <1>t, <2>n
      DEF Die, GiveUpResume, Goes, Unlock, RunType
    <3>2. ClaimsType'
      BY <2>3, <1>t, <2>n
      DEF Die, GiveUpResume, Goes, Unlock, ClaimsType
    <3>3. PlaceType'
      BY <2>3, <1>t, <2>n
      DEF Die, GiveUpResume, Goes, Unlock, PlaceType, Stages, Instance
    <3>4. Ordered'
      BY <2>3, <1>o
      DEF Die, GiveUpResume, Goes, Unlock, Ordered, UniqueGeneration, Bounded, HasTop,
          UpTo
    <3>5. \A x \in Instance \ {i} : ResumeShape(x)'
      BY <2>3, <1>t, <1>s, <2>s
      DEF Die, GiveUpResume, Goes, Unlock, ResumeShape, RunType, ClaimsType, PlaceType
    <3>6. ResumeShape(i)'
      BY <2>3, <1>t, <2>n, <2>s
      DEF Die, GiveUpResume, Goes, Unlock, ResumeShape, RunType, ClaimsType, PlaceType,
          Engaged
    <3> QED
      BY <3>1, <3>2, <3>3, <3>4, <3>5, <3>6, ClaimTypeParts DEF ClaimShape
  <2>4. CASE LoseLock(i)
    <3>1. RunType'
      BY <2>4, <1>t, <2>n
      DEF LoseLock, RunType
    <3>2. ClaimsType'
      BY <2>4, <1>t, <2>n
      DEF LoseLock, ClaimsType
    <3>3. PlaceType'
      BY <2>4, <1>t, <2>n
      DEF LoseLock, PlaceType, Stages, Instance
    <3>4. Ordered'
      BY <2>4, <1>o
      DEF LoseLock, Ordered, UniqueGeneration, Bounded, HasTop, UpTo
    <3>5. \A x \in Instance \ {i} : ResumeShape(x)'
      BY <2>4, <1>t, <1>s, <2>s
      DEF LoseLock, ResumeShape, RunType, ClaimsType, PlaceType
    <3>6. ResumeShape(i)'
      BY <2>4, <1>t, <2>n, <2>s
      DEF LoseLock, ResumeShape, RunType, ClaimsType, PlaceType, Engaged
    <3> QED
      BY <3>1, <3>2, <3>3, <3>4, <3>5, <3>6, ClaimTypeParts DEF ClaimShape
  <2>5. CASE HeartbeatEnds(i)
    <3>1. RunType'
      BY <2>5, <1>t, <2>n
      DEF HeartbeatEnds, RunType
    <3>2. ClaimsType'
      BY <2>5, <1>t, <2>n
      DEF HeartbeatEnds, ClaimsType
    <3>3. PlaceType'
      BY <2>5, <1>t, <2>n
      DEF HeartbeatEnds, PlaceType, Stages, Instance
    <3>4. Ordered'
      BY <2>5, <1>o
      DEF HeartbeatEnds, Ordered, UniqueGeneration, Bounded, HasTop, UpTo
    <3>5. \A x \in Instance \ {i} : ResumeShape(x)'
      BY <2>5, <1>t, <1>s, <2>s
      DEF HeartbeatEnds, ResumeShape, RunType, ClaimsType, PlaceType
    <3>6. ResumeShape(i)'
      BY <2>5, <1>t, <2>n, <2>s
      DEF HeartbeatEnds, ResumeShape, RunType, ClaimsType, PlaceType, Engaged
    <3> QED
      BY <3>1, <3>2, <3>3, <3>4, <3>5, <3>6, ClaimTypeParts DEF ClaimShape
  <2>5b. CASE HeartbeatReturns(i)
    <3>1. RunType'
      BY <2>5b, <1>t, <2>n
      DEF HeartbeatReturns, RunType
    <3>2. ClaimsType'
      BY <2>5b, <1>t, <2>n
      DEF HeartbeatReturns, ClaimsType
    <3>3. PlaceType'
      BY <2>5b, <1>t, <2>n
      DEF HeartbeatReturns, PlaceType, Stages, Instance
    <3>4. Ordered'
      BY <2>5b, <1>o
      DEF HeartbeatReturns, Ordered, UniqueGeneration, Bounded, HasTop, UpTo
    <3>5. \A x \in Instance \ {i} : ResumeShape(x)'
      BY <2>5b, <1>t, <1>s, <2>s
      DEF HeartbeatReturns, ResumeShape, RunType, ClaimsType, PlaceType
    <3>6. ResumeShape(i)'
      BY <2>5b, <1>t, <2>n, <2>s
      DEF HeartbeatReturns, ResumeShape, RunType, ClaimsType, PlaceType, Engaged
    <3> QED
      BY <3>1, <3>2, <3>3, <3>4, <3>5, <3>6, ClaimTypeParts DEF ClaimShape
  <2>6. CASE Cancel(i)
    <3>1. RunType'
      BY <2>6, <1>t, <2>n
      DEF Cancel, Save, RunType
    <3>2. ClaimsType'
      BY <2>6, <1>t, <2>n
      DEF Cancel, Save, ClaimsType
    <3>3. PlaceType'
      BY <2>6, <1>t, <2>n
      DEF Cancel, Save, PlaceType, Stages, Instance
    <3>4. Ordered'
      BY <2>6, <1>o
      DEF Cancel, Save, Ordered, UniqueGeneration, Bounded, HasTop, UpTo
    <3>5. \A x \in Instance \ {i} : ResumeShape(x)'
      BY <2>6, <1>t, <1>s, <2>s
      DEF Cancel, Save, ResumeShape, RunType, ClaimsType, PlaceType
    <3>6. ResumeShape(i)'
      BY <2>6, <1>t, <2>n, <2>s
      DEF Cancel, Save, ResumeShape, RunType, ClaimsType, PlaceType, Engaged
    <3> QED
      BY <3>1, <3>2, <3>3, <3>4, <3>5, <3>6, ClaimTypeParts DEF ClaimShape
  <2>7. CASE Launch(i)
    <3>1. RunType'
      BY <2>7, <1>t, <2>n
      DEF Launch, Goes, RunType
    <3>2. ClaimsType'
      BY <2>7, <1>t, <2>n
      DEF Launch, Goes, ClaimsType
    <3>3. PlaceType'
      BY <2>7, <1>t, <2>n
      DEF Launch, Goes, PlaceType, Stages, Instance
    <3>4. Ordered'
      BY <2>7, <1>o
      DEF Launch, Goes, Ordered, UniqueGeneration, Bounded, HasTop, UpTo
    <3>5. \A x \in Instance \ {i} : ResumeShape(x)'
      BY <2>7, <1>t, <1>s, <2>s
      DEF Launch, Goes, ResumeShape, RunType, ClaimsType, PlaceType
    <3>6. ResumeShape(i)'
      BY <2>7, <1>t, <2>n, <2>s
      DEF Launch, Goes, ResumeShape, RunType, ClaimsType, PlaceType, Engaged
    <3> QED
      BY <3>1, <3>2, <3>3, <3>4, <3>5, <3>6, ClaimTypeParts DEF ClaimShape
  <2>8. CASE TakeOver(i)
    <3>1. RunType'
      BY <2>8, <1>t, <2>n
      DEF TakeOver, GiveUpResume, Goes, RunType
    <3>2. ClaimsType'
      BY <2>8, <1>t, <2>n
      DEF TakeOver, GiveUpResume, Goes, ClaimsType
    <3>3. PlaceType'
      BY <2>8, <1>t, <2>n
      DEF TakeOver, GiveUpResume, Goes, PlaceType, Stages, Instance
    <3>4. Ordered'
      BY <2>8, <1>o
      DEF TakeOver, GiveUpResume, Goes, Ordered, UniqueGeneration, Bounded, HasTop, UpTo
    <3>5. \A x \in Instance \ {i} : ResumeShape(x)'
      BY <2>8, <1>t, <1>s, <2>s
      DEF TakeOver, GiveUpResume, Goes, ResumeShape, RunType, ClaimsType, PlaceType
    <3>6. ResumeShape(i)'
      BY <2>8, <1>t, <2>n, <2>s
      DEF TakeOver, GiveUpResume, Goes, ResumeShape, RunType, ClaimsType, PlaceType,
          Engaged
    <3> QED
      BY <3>1, <3>2, <3>3, <3>4, <3>5, <3>6, ClaimTypeParts DEF ClaimShape
  <2>9. CASE Look(i)
    <3>1. RunType'
      BY <2>9, <1>t, <2>n
      DEF Look, GiveUpResume, Goes, Unlock, RunType
    <3>2. ClaimsType'
      BY <2>9, <1>t, <2>n
      DEF Look, GiveUpResume, Goes, Unlock, ClaimsType
    <3>3. PlaceType'
      BY <2>9, <1>t, <2>n
      DEF Look, GiveUpResume, Goes, Unlock, PlaceType, Stages, Instance
    <3>4. Ordered'
      BY <2>9, <1>o
      DEF Look, GiveUpResume, Goes, Unlock, Ordered, UniqueGeneration, Bounded, HasTop,
          UpTo
    <3>5. \A x \in Instance \ {i} : ResumeShape(x)'
      BY <2>9, <1>t, <1>s, <2>s
      DEF Look, GiveUpResume, Goes, Unlock, ResumeShape, RunType, ClaimsType, PlaceType
    <3>6. ResumeShape(i)'
      BY <2>9, <1>t, <2>n, <2>s
      DEF Look, GiveUpResume, Goes, Unlock, ResumeShape, RunType, ClaimsType, PlaceType,
          Engaged
    <3> QED
      BY <3>1, <3>2, <3>3, <3>4, <3>5, <3>6, ClaimTypeParts DEF ClaimShape
  <2>10. CASE Find(i)
    <3>1. RunType'
      BY <2>10, <1>t, <2>n
      DEF Find, Goes, Read, RunType
    <3>2. ClaimsType'
      <4>1. PICK n \in Suspension : n = copy[i].n
        BY <2>n
      <4>2. Claim(n, 1, i) \in ClaimRecord /\ Claim(n, 1, i) # NoOne
              /\ Claim(n, 1, i).n = n /\ Claim(n, 1, i).gen = 1 /\ Claim(n, 1, i).holder = i
        BY ClaimFacts
      <4>3. Current(n) # NoOne => Current(n) \in ClaimRecord /\ Current(n) \in claims
                                    /\ Current(n).n = n
        BY <1>t, <2>c DEF ClaimsType
      <4> QED
        BY <2>10, <1>t, <4>1, <4>2, <4>3 DEF Find, Read, Goes, ClaimsType
    <3>3. PlaceType'
      BY <2>10, <1>t, <2>n
      DEF Find, Goes, Read, PlaceType, Stages, Instance
    <3>4. Ordered'
      BY <2>10, <1>o
      DEF Find, Goes, Read, Ordered, UniqueGeneration, Bounded, HasTop, UpTo
    <3>5. \A x \in Instance \ {i} : ResumeShape(x)'
      BY <2>10, <1>t, <1>s, <2>s
      DEF Find, Goes, Read, ResumeShape, RunType, ClaimsType, PlaceType
    <3>6. ResumeShape(i)'
      <4>1. PICK n \in Suspension : n = copy[i].n
        BY <2>n
      <4>2. Claim(n, 1, i) \in ClaimRecord /\ Claim(n, 1, i) # NoOne
              /\ Claim(n, 1, i).n = n /\ Claim(n, 1, i).gen = 1 /\ Claim(n, 1, i).holder = i
        BY ClaimFacts
      <4>3. Current(n) # NoOne => Current(n) \in ClaimRecord /\ Current(n) \in claims
                                    /\ Current(n).n = n
        BY <1>t, <2>c DEF ClaimsType
      <4>4. copy' = copy /\ claims' = claims /\ life' = life
        BY <2>10 DEF Find
      <4>5. CASE Current(n) = NoOne
        <5>1. /\ stage'[i] = "create" /\ own'[i] = Claim(n, 1, i) /\ found'[i] = found[i]
          BY <2>10, <1>t, <4>1, <4>5 DEF Find, Goes, ClaimsType, PlaceType
        <5> QED
          BY <2>10, <2>s, <4>1, <4>2, <4>4, <5>1 DEF Find, ResumeShape, Engaged
      <4>6. CASE Current(n) # NoOne /\ Current(n).holder = i
        <5>1. stage'[i] = "save" /\ own'[i] = Current(n)
          BY <2>10, <1>t, <4>1, <4>6 DEF Find, Read, Goes, ClaimsType, PlaceType
        <5> QED
          BY <2>10, <2>s, <4>1, <4>3, <4>4, <4>6, <5>1 DEF Find, ResumeShape
      <4>7. CASE Current(n) # NoOne /\ Current(n).holder # i
        <5>1. stage'[i] = "judge" /\ found'[i] = Current(n)
          BY <2>10, <1>t, <4>1, <4>7 DEF Find, Read, Goes, ClaimsType, PlaceType
        <5> QED
          BY <2>10, <2>s, <4>1, <4>4, <4>7, <5>1 DEF Find, ResumeShape, Engaged
      <4> QED
        BY <4>5, <4>6, <4>7
    <3> QED
      BY <3>1, <3>2, <3>3, <3>4, <3>5, <3>6, ClaimTypeParts DEF ClaimShape
  <2>11. CASE Judge(i)
    <3>1. RunType'
      BY <2>11, <1>t, <2>n
      DEF Judge, GiveUpResume, Goes, Unlock, RunType
    <3>2. ClaimsType'
      <4>1. PICK n \in Suspension : n = copy[i].n
        BY <2>n
      <4>2. found[i] \in ClaimRecord /\ found[i].gen + 1 \in Nat \ {0}
        BY <2>11, <2>n, <2>s, ClaimFacts DEF Judge, ResumeShape
      <4>3. PICK c \in ClaimRecord : c = Claim(n, found[i].gen + 1, i)
        BY <4>2, ClaimFacts
      <4>4. c # NoOne /\ c.n = n /\ c.gen = found[i].gen + 1 /\ c.holder = i
        BY <4>2, <4>3, ClaimFacts
      <4> QED
        BY <2>11, <1>t, <4>1, <4>3 DEF Judge, GiveUpResume, ClaimsType
    <3>3. PlaceType'
      BY <2>11, <1>t, <2>n
      DEF Judge, GiveUpResume, Goes, Unlock, PlaceType, Stages, Instance
    <3>4. Ordered'
      BY <2>11, <1>o
      DEF Judge, GiveUpResume, Goes, Unlock, Ordered, UniqueGeneration, Bounded, HasTop,
          UpTo
    <3>5. \A x \in Instance \ {i} : ResumeShape(x)'
      BY <2>11, <1>t, <1>s, <2>s
      DEF Judge, GiveUpResume, Goes, Unlock, ResumeShape, RunType, ClaimsType, PlaceType
    <3>6. ResumeShape(i)'
      <4>1. PICK n \in Suspension : n = copy[i].n
        BY <2>n
      <4>2. found[i] \in ClaimRecord /\ found[i].gen + 1 \in Nat \ {0}
        BY <2>11, <2>n, <2>s, ClaimFacts DEF Judge, ResumeShape
      <4>3. PICK c \in ClaimRecord : c = Claim(n, found[i].gen + 1, i)
        BY <4>2, ClaimFacts
      <4>4. c # NoOne /\ c.n = n /\ c.gen = found[i].gen + 1 /\ c.holder = i
        BY <4>2, <4>3, ClaimFacts
      <4>5. copy' = copy /\ claims' = claims /\ life' = life
        BY <2>11 DEF Judge
      <4>6. \/ stage'[i] = "create" /\ own'[i] = c /\ found'[i] = found[i]
            \/ stage'[i] = "idle" /\ found'[i] = NoOne
        BY <2>11, <1>t, <4>1, <4>3 DEF Judge, GiveUpResume, Goes, ClaimsType, PlaceType
      <4> QED
        BY <2>11, <2>s, <4>1, <4>2, <4>4, <4>5, <4>6 DEF Judge, ResumeShape, Engaged
    <3> QED
      BY <3>1, <3>2, <3>3, <3>4, <3>5, <3>6, ClaimTypeParts DEF ClaimShape
  <2>12. CASE Create(i)
    <3>1. RunType'
      BY <2>12, <1>t, <2>n
      DEF Create, GiveUpResume, Goes, Unlock, Read, RunType
    <3>2. ClaimsType'
      <4>1. own[i] \in ClaimRecord /\ own[i].n = copy[i].n /\ own[i].holder = i
        BY <2>12, <2>n, <2>s DEF Create, ResumeShape
      <4>2. PICK n \in Suspension : n = own[i].n
        BY <4>1, ClaimFacts
      <4>3. ASSUME NEW c \in claims, c.n = n
            PROVE  Current(n) \in ClaimRecord /\ Current(n) \in claims /\ Current(n).n = n
                     /\ Current(n) # NoOne
        BY <1>t, <1>o, <2>c, <4>3, CurrentFact DEF ClaimsType
      <4> QED
        BY <2>12, <1>t, <2>n, <4>1, <4>2, <4>3 DEF Create, Read, GiveUpResume, Goes, ClaimsType
    <3>3. PlaceType'
      BY <2>12, <1>t, <2>n
      DEF Create, GiveUpResume, Goes, Unlock, Read, PlaceType, Stages, Instance
    <3>4. Ordered'
      <4>1. own[i] \in ClaimRecord
        BY <2>12, <2>n, <2>s DEF Create, ResumeShape
      <4>2. CASE claims' = claims
        BY <1>o, <4>2 DEF Ordered, UniqueGeneration, Bounded, HasTop, UpTo
      <4>3. CASE claims' = claims \cup {own[i]}
                   /\ \A c \in claims : c.n # own[i].n \/ c.gen # own[i].gen
        <5>1. claims \subseteq ClaimRecord
          BY <1>t DEF ClaimsType
        <5>2. PICK x \in ClaimRecord : x = own[i]
          BY <4>1
        <5> QED
          BY <1>o, <4>3, <5>1, <5>2, OrderedGrows
      <4> QED
        BY <2>12, <4>2, <4>3 DEF Create
    <3>5. \A x \in Instance \ {i} : ResumeShape(x)'
      BY <2>12, <1>t, <1>s, <2>s
      DEF Create, GiveUpResume, Goes, Unlock, Read, ResumeShape, RunType, ClaimsType,
          PlaceType
    <3>6. ResumeShape(i)'
      <4>1. own[i] \in ClaimRecord /\ own[i].n = copy[i].n /\ own[i].holder = i
        BY <2>12, <2>n, <2>s DEF Create, ResumeShape
      <4>2. PICK n \in Suspension : n = own[i].n
        BY <4>1, ClaimFacts
      <4>3. ASSUME NEW c \in claims, c.n = n
            PROVE  Current(n) \in ClaimRecord /\ Current(n) \in claims /\ Current(n).n = n
                     /\ Current(n) # NoOne
        BY <1>t, <1>o, <2>c, <4>3, CurrentFact DEF ClaimsType
      <4>4. copy' = copy /\ life' = life /\ life[i] = "up" /\ copy[i].n <= MaxSuspension
        BY <2>12, <2>s DEF Create, ResumeShape
      <4>5. \/ stage'[i] = "save" /\ own'[i] = own[i] /\ claims' = claims \cup {own[i]}
            \/ stage'[i] = "idle" /\ found'[i] = NoOne
            \/ stage'[i] = "save" /\ own'[i] = Current(n) /\ claims' = claims
                 /\ Current(n).holder = i /\ Current(n) \in claims /\ Current(n).n = n
            \/ stage'[i] = "judge" /\ found'[i] = Current(n) /\ Current(n) # NoOne
        BY <2>12, <1>t, <4>2, <4>3
        DEF Create, Read, GiveUpResume, Goes, ClaimsType, PlaceType
      <4> QED
        BY <4>1, <4>2, <4>4, <4>5 DEF ResumeShape, Engaged
    <3> QED
      BY <3>1, <3>2, <3>3, <3>4, <3>5, <3>6, ClaimTypeParts DEF ClaimShape
  <2>13. CASE SaveRunning(i)
    <3>1. RunType'
      BY <2>13, <1>t, <2>n
      DEF SaveRunning, GiveUpResume, Goes, Unlock, Save, ReleaseSuspension, RunType
    <3>2. ClaimsType'
      BY <2>13, <1>t, <2>n
      DEF SaveRunning, GiveUpResume, Goes, Unlock, Save, ReleaseSuspension, ClaimsType
    <3>3. PlaceType'
      BY <2>13, <1>t, <2>n
      DEF SaveRunning, GiveUpResume, Goes, Unlock, Save, ReleaseSuspension, PlaceType,
          Stages, Instance
    <3>4. Ordered'
      <4>1. CASE claims' = claims
        BY <1>o, <4>1 DEF Ordered, UniqueGeneration, Bounded, HasTop, UpTo
      <4>2. CASE claims' = claims \ {own[i]}
        <5>1. claims \subseteq ClaimRecord
          BY <1>t DEF ClaimsType
        <5> QED
          BY <1>o, <4>2, <5>1, OrderedShrinks
      <4> QED
        BY <2>13, <4>1, <4>2 DEF SaveRunning, ReleaseSuspension
    <3>5. \A x \in Instance \ {i} : ResumeShape(x)'
      <4> SUFFICES ASSUME NEW x \in Instance, x # i PROVE ResumeShape(x)'
        OBVIOUS
      <4>1. /\ stage'[x] = stage[x] /\ copy'[x] = copy[x] /\ found'[x] = found[x]
            /\ own'[x] = own[x] /\ life'[x] = life[x]
        BY <2>13, <1>t DEF SaveRunning, GiveUpResume, Goes, Save, RunType, ClaimsType, PlaceType
      <4>2. own[i].holder = i /\ (claims' = claims \/ claims' = claims \ {own[i]})
        BY <2>13, <2>s DEF SaveRunning, ReleaseSuspension, ResumeShape, Engaged
      <4> QED
        BY <1>s, <4>1, <4>2 DEF ResumeShape
    <3>6. ResumeShape(i)'
      BY <2>13, <1>t, <2>n, <2>s
      DEF SaveRunning, GiveUpResume, Goes, Unlock, Save, ReleaseSuspension, ResumeShape,
          RunType, ClaimsType, PlaceType, Engaged
    <3> QED
      BY <3>1, <3>2, <3>3, <3>4, <3>5, <3>6, ClaimTypeParts DEF ClaimShape
  <2>14. CASE Begin(i)
    <3>1. RunType'
      BY <2>14, <1>t, <2>n
      DEF Begin, Goes, RunType
    <3>2. ClaimsType'
      BY <2>14, <1>t, <2>n
      DEF Begin, Goes, ClaimsType
    <3>3. PlaceType'
      BY <2>14, <1>t, <2>n
      DEF Begin, Goes, PlaceType, Stages, Instance
    <3>4. Ordered'
      BY <2>14, <1>o
      DEF Begin, Goes, Ordered, UniqueGeneration, Bounded, HasTop, UpTo
    <3>5. \A x \in Instance \ {i} : ResumeShape(x)'
      BY <2>14, <1>t, <1>s, <2>s
      DEF Begin, Goes, ResumeShape, RunType, ClaimsType, PlaceType
    <3>6. ResumeShape(i)'
      BY <2>14, <1>t, <2>n, <2>s
      DEF Begin, Goes, ResumeShape, RunType, ClaimsType, PlaceType, Engaged
    <3> QED
      BY <3>1, <3>2, <3>3, <3>4, <3>5, <3>6, ClaimTypeParts DEF ClaimShape
  <2>15. CASE Restore(i)
    <3>1. RunType'
      BY <2>15, <1>t, <2>n
      DEF Restore, GiveUpResume, Goes, Save, ReleaseSuspension, RunType
    <3>2. ClaimsType'
      BY <2>15, <1>t, <2>n
      DEF Restore, GiveUpResume, Goes, Save, ReleaseSuspension, ClaimsType
    <3>3. PlaceType'
      BY <2>15, <1>t, <2>n
      DEF Restore, GiveUpResume, Goes, Save, ReleaseSuspension, PlaceType, Stages,
          Instance
    <3>4. Ordered'
      <4>1. CASE claims' = claims
        BY <1>o, <4>1 DEF Ordered, UniqueGeneration, Bounded, HasTop, UpTo
      <4>2. CASE claims' = claims \ {own[i]}
        <5>1. claims \subseteq ClaimRecord
          BY <1>t DEF ClaimsType
        <5> QED
          BY <1>o, <4>2, <5>1, OrderedShrinks
      <4> QED
        BY <2>15, <4>1, <4>2 DEF Restore, ReleaseSuspension
    <3>5. \A x \in Instance \ {i} : ResumeShape(x)'
      <4> SUFFICES ASSUME NEW x \in Instance, x # i PROVE ResumeShape(x)'
        OBVIOUS
      <4>1. /\ stage'[x] = stage[x] /\ copy'[x] = copy[x] /\ found'[x] = found[x]
            /\ own'[x] = own[x] /\ life'[x] = life[x]
        BY <2>15, <1>t DEF Restore, GiveUpResume, Goes, Save, RunType, ClaimsType, PlaceType
      <4>2. own[i].holder = i /\ (claims' = claims \/ claims' = claims \ {own[i]})
        BY <2>15, <2>s DEF Restore, ReleaseSuspension, ResumeShape, Engaged
      <4> QED
        BY <1>s, <4>1, <4>2 DEF ResumeShape
    <3>6. ResumeShape(i)'
      BY <2>15, <1>t, <2>n, <2>s
      DEF Restore, GiveUpResume, Goes, Save, ReleaseSuspension, ResumeShape, RunType,
          ClaimsType, PlaceType, Engaged
    <3> QED
      BY <3>1, <3>2, <3>3, <3>4, <3>5, <3>6, ClaimTypeParts DEF ClaimShape
  <2>16. CASE SuspendAgain(i)
    <3>1. RunType'
      <4>1. copy[i].n + 1 \in Suspension
        BY <2>16, <2>n, <2>s DEF SuspendAgain, ResumeShape, Suspension
      <4>2. Suspended(copy[i].n + 1) \in Record
        BY <4>1, RecordFacts
      <4> QED
        BY <2>16, <1>t, <4>2 DEF SuspendAgain, Save, RunType
    <3>2. ClaimsType'
      BY <2>16, <1>t, <2>n
      DEF SuspendAgain, GiveUpResume, Goes, Save, ClaimsType
    <3>3. PlaceType'
      BY <2>16, <1>t, <2>n
      DEF SuspendAgain, GiveUpResume, Goes, Save, PlaceType, Stages, Instance
    <3>4. Ordered'
      BY <2>16, <1>o
      DEF SuspendAgain, GiveUpResume, Goes, Save, Ordered, UniqueGeneration, Bounded,
          HasTop, UpTo
    <3>5. \A x \in Instance \ {i} : ResumeShape(x)'
      BY <2>16, <1>t, <1>s, <2>s
      DEF SuspendAgain, GiveUpResume, Goes, Save, ResumeShape, RunType, ClaimsType,
          PlaceType
    <3>6. ResumeShape(i)'
      BY <2>16, <1>t, <2>n, <2>s
      DEF SuspendAgain, GiveUpResume, Goes, Save, ResumeShape, RunType, ClaimsType,
          PlaceType, Engaged
    <3> QED
      BY <3>1, <3>2, <3>3, <3>4, <3>5, <3>6, ClaimTypeParts DEF ClaimShape
  <2> QED
    BY <1>1, <2>1, <2>2, <2>3, <2>4, <2>5, <2>5b, <2>6, <2>7, <2>8, <2>9, <2>10, <2>11, <2>12,
       <2>13, <2>14, <2>15, <2>16 DEF ClaimStep
<1>2. CASE UNCHANGED claimVars
  BY <1>2 DEF claimVars, ClaimShape, ClaimTypeOK, Ordered, UniqueGeneration, Bounded, HasTop,
              UpTo, ResumeShape
<1> QED
  BY <1>1, <1>2 DEF ClaimNext

(* Every variable keeps its type: no instance gets to a stage the code has not, and every
   claim that is found, replaced or created is a claim with a generation.                 *)
THEOREM ClaimTypeCorrect == ClaimSpec => []ClaimTypeOK
<1>1. ClaimShape => ClaimTypeOK
  BY DEF ClaimShape
<1> QED
  BY ClaimShapeInit, ClaimShapeStep, <1>1, PTL DEF ClaimSpec

-----------------------------------------------------------------------------
(* What a step of instance i leaves alone. *)

\* The variables of instance x.
Same(x) ==
    /\ stage'[x] = stage[x] /\ copy'[x] = copy[x] /\ found'[x] = found[x]
    /\ own'[x] = own[x] /\ life'[x] = life[x] /\ mode'[x] = mode[x]
    /\ x \in kept' <=> x \in kept

(* A step of an instance changes no variable of another, and only claims of its own. *)
LEMMA ClaimFrame ==
  ASSUME ClaimShape, NEW i \in Instance, ClaimStep(i)
  PROVE  /\ \A x \in Instance \ {i} : Same(x)
         /\ claims' \subseteq claims \/ (Create(i) /\ claims' = claims \cup {own[i]})
         /\ \A c \in claims : c.holder # i => c \in claims'
         /\ claims' = claims \/ Create(i) \/ SaveRunning(i) \/ Restore(i)
         /\ overridden \subseteq overridden'
<1> USE DEF run, alive, resume, history
<1>t. RunType /\ ClaimsType /\ PlaceType
  BY ClaimTypeParts DEF ClaimShape
<1>1. \A x \in Instance \ {i} : Same(x)
  BY <1>t
  DEF Same, ClaimStep, RunType, ClaimsType, PlaceType, Start, Push, Die, LoseLock,
      HeartbeatEnds, HeartbeatReturns, Cancel, Launch, TakeOver, Look, Find, Judge, Create, SaveRunning,
      Begin, Restore, SuspendAgain, GiveUpResume, Goes, Unlock, Save, Read,
      ReleaseSuspension
<1>2. claims' = claims \/ Create(i) \/ SaveRunning(i) \/ Restore(i)
  BY DEF ClaimStep, Start, Push, Die, LoseLock, HeartbeatEnds, HeartbeatReturns, Cancel, Launch, TakeOver,
         Look, Find, Judge, Begin, SuspendAgain
<1>3. ASSUME SaveRunning(i) \/ Restore(i)
      PROVE  own[i].holder = i /\ (claims' = claims \/ claims' = claims \ {own[i]})
  <2>1. own[i].holder = i
    BY <1>3 DEF SaveRunning, Restore, ClaimShape, ResumeShape, Engaged
  <2> QED
    BY <1>3, <2>1 DEF SaveRunning, Restore, ReleaseSuspension
<1>4. ASSUME Create(i) PROVE claims' = claims \/ claims' = claims \cup {own[i]}
  BY <1>4 DEF Create
<1>5. overridden \subseteq overridden'
  BY DEF ClaimStep, Start, Push, Die, LoseLock, HeartbeatEnds, HeartbeatReturns, Cancel, Launch, TakeOver,
         Look, Find, Judge, Create, SaveRunning, Begin, Restore, SuspendAgain
<1> QED
  BY <1>1, <1>2, <1>3, <1>4, <1>5

(* Each way out of a resume leaves no claim behind on the suspension that the copy shows:
   the claim is deleted, or the run has moved on.                                         *)
LEMMA ReleasedStep ==
  ClaimShape /\ AllReleased /\ [ClaimNext]_claimVars => AllReleased'
<1> SUFFICES ASSUME ClaimShape, \A i \in Instance : Released(i), [ClaimNext]_claimVars
             PROVE  \A i \in Instance : Released(i)'
  BY DEF AllReleased
<1> USE DEF run, alive, resume, history
<1>t. RunType /\ ClaimsType /\ PlaceType
  BY ClaimTypeParts DEF ClaimShape
<1>1. ASSUME NEW i \in Instance, ClaimStep(i) PROVE \A x \in Instance : Released(x)'
  <2>s. ResumeShape(i) /\ Released(i)
    BY DEF ClaimShape
  <2>o. \A x \in Instance \ {i} : Released(x)'
    <3>1. \A x \in Instance \ {i} : Same(x)
      BY <1>1, ClaimFrame
    <3>2. ASSUME NEW c \in claims', c.holder # i PROVE c \in claims
      BY <1>1, <3>2, ClaimFrame DEF Create, ClaimShape, ResumeShape
    <3> QED
      BY <3>1, <3>2 DEF Same, Released
  <2>n. /\ copy[i].n \in Suspension /\ Suspended(copy[i].n).n = copy[i].n
        /\ Running(i, copy[i].n).n = copy[i].n /\ Cancelled(copy[i].n).n = copy[i].n
        /\ \A c \in claims : c.n \in Nat
        /\ copy[i].n \in Nat
    BY <1>t, RecordFacts, ClaimFacts DEF RunType, ClaimsType, Suspension
  <2>1. CASE Start(i)
    BY <2>1, <1>t, <2>s, <2>n
    DEF Start, Released, ResumeShape, Engaged, RunType, ClaimsType, PlaceType
  <2>2. CASE Push(i)
    BY <2>2, <1>t, <2>s, <2>n
    DEF Push, Released, ResumeShape, Engaged, RunType, ClaimsType, PlaceType
  <2>3. CASE Die(i)
    BY <2>3, <1>t, <2>s, <2>n
    DEF Die, GiveUpResume, Goes, Unlock, Released, ResumeShape, Engaged, RunType,
        ClaimsType, PlaceType
  <2>4. CASE LoseLock(i)
    BY <2>4, <1>t, <2>s, <2>n
    DEF LoseLock, Released, ResumeShape, Engaged, RunType, ClaimsType, PlaceType
  <2>5. CASE HeartbeatEnds(i)
    BY <2>5, <1>t, <2>s, <2>n
    DEF HeartbeatEnds, Released, ResumeShape, Engaged, RunType, ClaimsType, PlaceType
  <2>5b. CASE HeartbeatReturns(i)
    BY <2>5b, <1>t, <2>s, <2>n
    DEF HeartbeatReturns, Released, ResumeShape, Engaged, RunType, ClaimsType, PlaceType
  <2>6. CASE Cancel(i)
    BY <2>6, <1>t, <2>s, <2>n
    DEF Cancel, Save, Released, ResumeShape, Engaged, RunType, ClaimsType, PlaceType
  <2>7. CASE Launch(i)
    BY <2>7, <1>t, <2>s, <2>n
    DEF Launch, Goes, Released, ResumeShape, Engaged, RunType, ClaimsType, PlaceType
  <2>8. CASE TakeOver(i)
    BY <2>8, <1>t, <2>s, <2>n
    DEF TakeOver, GiveUpResume, Goes, Released, ResumeShape, Engaged, RunType,
        ClaimsType, PlaceType
  <2>9. CASE Look(i)
    BY <2>9, <1>t, <2>s, <2>n
    DEF Look, GiveUpResume, Goes, Unlock, Released, ResumeShape, Engaged, RunType,
        ClaimsType, PlaceType
  <2>10. CASE Find(i)
    BY <2>10, <1>t, <2>s, <2>n
    DEF Find, Goes, Read, Released, ResumeShape, Engaged, RunType, ClaimsType, PlaceType
  <2>11. CASE Judge(i)
    BY <2>11, <1>t, <2>s, <2>n
    DEF Judge, GiveUpResume, Goes, Unlock, Released, ResumeShape, Engaged, RunType,
        ClaimsType, PlaceType
  <2>12. CASE Create(i)
    BY <2>12, <1>t, <2>s, <2>n
    DEF Create, GiveUpResume, Goes, Unlock, Read, Released, ResumeShape, Engaged,
        RunType, ClaimsType, PlaceType
  <2>13. CASE SaveRunning(i)
    BY <2>13, <1>t, <2>s, <2>n
    DEF SaveRunning, GiveUpResume, Goes, Unlock, Save, ReleaseSuspension, Released,
        ResumeShape, Engaged, RunType, ClaimsType, PlaceType
  <2>14. CASE Begin(i)
    BY <2>14, <1>t, <2>s, <2>n
    DEF Begin, Goes, Released, ResumeShape, Engaged, RunType, ClaimsType, PlaceType
  <2>15. CASE Restore(i)
    BY <2>15, <1>t, <2>s, <2>n
    DEF Restore, GiveUpResume, Goes, Save, ReleaseSuspension, Released, ResumeShape,
        Engaged, RunType, ClaimsType, PlaceType
  <2>16. CASE SuspendAgain(i)
    <3>1. stage[i] = "run" /\ copy[i].n + 1 \in Suspension
      BY <2>16, <2>s, <2>n DEF SuspendAgain, ResumeShape, Suspension
    <3>2. PICK m \in Suspension : m = copy[i].n + 1
      BY <3>1
    <3>3. copy'[i] = Suspended(m) /\ copy'[i].n = m
      BY <2>16, <1>t, <3>2, RecordFacts DEF SuspendAgain, Save, RunType
    <3>4. /\ claims' = claims /\ kept' = kept /\ life' = life
      BY <2>16 DEF SuspendAgain
    <3>5. ASSUME NEW c \in claims, c.n <= copy[i].n PROVE c.n <= m /\ c.n # m
      BY <2>n, <3>2, <3>5
    <3>6. Released(i)'
      BY <2>s, <3>3, <3>4, <3>5 DEF Released
    <3> QED
      BY <2>o, <3>6
  <2> QED
    BY <1>1, <2>o, <2>1, <2>2, <2>3, <2>4, <2>5, <2>5b, <2>6, <2>7, <2>8, <2>9, <2>10, <2>11,
       <2>12, <2>13, <2>14, <2>15, <2>16 DEF ClaimStep
<1>2. CASE UNCHANGED claimVars
  BY <1>2 DEF claimVars, Released
<1> QED
  BY <1>1, <1>2 DEF ClaimNext

(* An instance that does not resume the run holds no claim on the suspension it sees, unless
   the claim could not be deleted or the store did not say that it was written: a resume that
   fails on the way gives its claim back.                                                     *)
THEOREM ClaimsAreReturned == ClaimSpec => []NoLeakedClaim
<1>1. ClaimInit => AllReleased
  BY DEF ClaimInit, AllReleased, Released
<1>2. ClaimShape /\ AllReleased => NoLeakedClaim
  <2> SUFFICES ASSUME ClaimShape, NEW i \in Instance, Released(i), life[i] = "up",
                      stage[i] = "idle", i \notin kept,
                      NEW c \in claims, c.holder = i, copy[i] = Suspended(c.n)
               PROVE  FALSE
    BY DEF AllReleased, NoLeakedClaim
  <2>1. c.n \in Suspension
    BY ClaimFacts DEF ClaimShape, ClaimTypeOK
  <2>2. copy[i].n = c.n
    BY <2>1, RecordFacts
  <2> QED
    BY <2>2 DEF Released, Engaged
<1> QED
  BY <1>1, <1>2, ClaimShapeInit, ClaimShapeStep, ReleasedStep, PTL DEF ClaimSpec

-----------------------------------------------------------------------------
(* One instance continues a suspension. *)

(* Lives only go forward, and a claim that was overridden stays so. *)
LEMMA LivesGoOn ==
  ASSUME ClaimShape, NEW i \in Instance, ClaimStep(i)
  PROVE  /\ \A x \in Instance : /\ life[x] = "gone" => life'[x] = "gone"
                                /\ life[x] = "up" => life'[x] \in {"up", "gone"}
                                /\ life[x] = "off" => life'[x] \in {"off", "up"}
         /\ \A j \in Instance, n \in Suspension : Free(j, n)' => Free(j, n)
<1> USE DEF run, alive, resume, history
<1>t. RunType /\ ClaimsType /\ PlaceType
  BY ClaimTypeParts DEF ClaimShape
<1>1. \A x \in Instance : /\ life[x] = "gone" => life'[x] = "gone"
                          /\ life[x] = "up" => life'[x] \in {"up", "gone"}
                          /\ life[x] = "off" => life'[x] \in {"off", "up"}
  BY <1>t
  DEF ClaimStep, PlaceType, Start, Push, Die, LoseLock, HeartbeatEnds, HeartbeatReturns, Cancel, Launch,
      TakeOver, Look, Find, Judge, Create, SaveRunning, Begin, Restore, SuspendAgain
<1>2. overridden \subseteq overridden'
  BY ClaimFrame
<1> QED
  BY <1>1, <1>2 DEF Free

(* A resume that is to create a claim finds the generation free: nobody else creates one
   while it has the lock.                                                               *)
LEMMA GenerationIsFree ==
  ASSUME ClaimShape, NEW i \in Instance, Judged(i), stage[i] = "create"
  PROVE  /\ \A c \in claims : c.n # own[i].n \/ c.gen # own[i].gen
         /\ \A c \in claims : c.n = own[i].n => c.gen < own[i].gen
         /\ own[i] \in ClaimRecord /\ own[i].n = copy[i].n /\ own[i].holder = i
<1>1. /\ own[i] \in ClaimRecord /\ own[i].n = copy[i].n /\ own[i].holder = i
      /\ own[i].gen = IF found[i] = NoOne THEN 1 ELSE found[i].gen + 1
  BY ClaimTypeParts DEF ClaimShape, ResumeShape, ClaimsType
<1>2. ASSUME NEW c \in claims, c.n = own[i].n PROVE c.gen < own[i].gen
  <2>1. found[i] # NoOne /\ c.gen <= found[i].gen
    BY <1>1, <1>2 DEF Judged
  <2>2. found[i].gen \in Nat /\ c.gen \in Nat
    BY <2>1, ClaimTypeParts, ClaimFacts DEF ClaimShape, ClaimsType
  <2> QED
    BY <1>1, <2>1, <2>2
<1>3. own[i].gen \in Nat /\ \A c \in claims : c.gen \in Nat
  BY <1>1, ClaimTypeParts, ClaimFacts DEF ClaimShape, ClaimsType
<1> QED
  BY <1>1, <1>2, <1>3

(* The lock is with one resume from the check of its record to its claim, if a process
   stalls only after it.                                                               *)
LEMMA HasLockStep ==
  ASSUME StallsAt \subseteq {"save"}, ClaimShape, NEW i \in Instance, ClaimStep(i),
         \A x \in Instance : HasLock(x)
  PROVE  \A x \in Instance : HasLock(x)'
<1> USE DEF run, alive, resume, history
<1>t. /\ lock \in Instance \cup {NoOne} /\ stage \in [Instance -> Stages]
      /\ NoOne \notin Instance
  BY ClaimTypeParts DEF ClaimShape, PlaceType, Instance
<1>1. CASE Start(i)
  BY <1>1, <1>t
  DEF Start, HasLock, Locked
<1>2. CASE Push(i)
  BY <1>2, <1>t
  DEF Push, HasLock, Locked
<1>3. CASE Die(i)
  BY <1>3, <1>t
  DEF Die, GiveUpResume, Goes, Unlock, HasLock, Locked
<1>4. CASE LoseLock(i)
  BY <1>4, <1>t
  DEF LoseLock, HasLock, Locked
<1>5. CASE HeartbeatEnds(i)
  BY <1>5, <1>t
  DEF HeartbeatEnds, HasLock, Locked
<1>5b. CASE HeartbeatReturns(i)
  BY <1>5b, <1>t
  DEF HeartbeatReturns, HasLock, Locked
<1>6. CASE Cancel(i)
  BY <1>6, <1>t
  DEF Cancel, Save, HasLock, Locked
<1>7. CASE Launch(i)
  BY <1>7, <1>t
  DEF Launch, Goes, HasLock, Locked
<1>8. CASE TakeOver(i)
  BY <1>8, <1>t
  DEF TakeOver, GiveUpResume, Goes, HasLock, Locked
<1>9. CASE Look(i)
  BY <1>9, <1>t
  DEF Look, GiveUpResume, Goes, Unlock, HasLock, Locked
<1>10. CASE Find(i)
  BY <1>10, <1>t
  DEF Find, Goes, Read, HasLock, Locked
<1>11. CASE Judge(i)
  BY <1>11, <1>t
  DEF Judge, GiveUpResume, Goes, Unlock, HasLock, Locked
<1>12. CASE Create(i)
  BY <1>12, <1>t
  DEF Create, GiveUpResume, Goes, Unlock, Read, HasLock, Locked
<1>13. CASE SaveRunning(i)
  BY <1>13, <1>t
  DEF SaveRunning, GiveUpResume, Goes, Unlock, Save, ReleaseSuspension, HasLock, Locked
<1>14. CASE Begin(i)
  BY <1>14, <1>t
  DEF Begin, Goes, HasLock, Locked
<1>15. CASE Restore(i)
  BY <1>15, <1>t
  DEF Restore, GiveUpResume, Goes, Save, ReleaseSuspension, HasLock, Locked
<1>16. CASE SuspendAgain(i)
  BY <1>16, <1>t
  DEF SuspendAgain, GiveUpResume, Goes, Save, HasLock, Locked
<1> QED
  BY <1>1, <1>2, <1>3, <1>4, <1>5, <1>5b, <1>6, <1>7, <1>8, <1>9, <1>10, <1>11, <1>12, <1>13,
     <1>14, <1>15, <1>16 DEF ClaimStep

(* A new claim is above those of the suspension, and no instance that runs keeps one
   below it: a resume of serve by itself replaces the claim of a dead holder.         *)
LEMMA HighestStep ==
  ASSUME ClaimShape, RunningIsHighest, NEW i \in Instance, ClaimStep(i),
         \A x \in Instance : Judged(x) /\ Known(x)
  PROVE  RunningIsHighest'
<1> USE DEF run, alive, resume, history
<1>t. claims \subseteq ClaimRecord /\ life \in [Instance -> {"off", "up", "gone"}]
  BY ClaimTypeParts DEF ClaimShape, ClaimsType, PlaceType
<1>f. \A c \in claims : c.n \in Suspension /\ c.gen \in Nat /\ c.holder \in Instance
  BY <1>t, ClaimFacts
<1>1. ASSUME NEW c \in claims, life'[c.holder] = "up", Free(c.holder, c.n)'
      PROVE  life[c.holder] = "up" /\ Free(c.holder, c.n)
  <2>1. life[c.holder] # "off"
    BY <1>f DEF Known
  <2> QED
    BY <1>1, <1>f, <1>t, <2>1, LivesGoOn
<1>2. CASE claims' \subseteq claims
  BY <1>1, <1>2 DEF RunningIsHighest
<1>3. CASE Create(i) /\ claims' = claims \cup {own[i]}
  <2>1. stage[i] = "create" /\ Judged(i) /\ Known(i)
    BY <1>3 DEF Create
  <2>2. /\ \A c \in claims : c.n # own[i].n \/ c.gen # own[i].gen
        /\ \A c \in claims : c.n = own[i].n => c.gen < own[i].gen
        /\ own[i] \in ClaimRecord /\ own[i].n = copy[i].n /\ own[i].holder = i
    BY <2>1, GenerationIsFree
  <2>3. own[i].gen \in Nat
    BY <2>2, ClaimFacts
  <2>4. ASSUME NEW c \in claims, c.n = own[i].n, life'[c.holder] = "up", Free(c.holder, c.n)'
        PROVE  FALSE
    <3>1. c = found[i] /\ found[i] # NoOne
      BY <1>1, <2>1, <2>2, <2>4 DEF Judged
    <3>2. CASE mode[i] = "manual"
      <4>1. c \in overridden'
        BY <1>3, <2>2, <3>1, <3>2 DEF Create
      <4> QED
        BY <2>4, <3>1, <4>1 DEF Free
    <3>3. CASE mode[i] # "manual"
      <4>1. life[c.holder] = "gone" \/ c \in overridden
        BY <2>1, <3>1, <3>3 DEF Judged
      <4>2. c \in overridden => ~Free(c.holder, c.n)
        BY <3>1 DEF Free
      <4> QED
        BY <1>1, <2>4, <4>1, <4>2
    <3> QED
      BY <3>2, <3>3
  <2>5. ASSUME NEW c \in claims', NEW d \in claims', life'[c.holder] = "up",
               Free(c.holder, c.n)', d.n = c.n
        PROVE  d.gen <= c.gen
    <3>1. CASE c \in claims /\ d \in claims
      BY <1>1, <2>5, <3>1 DEF RunningIsHighest
    <3>2. CASE c \in claims /\ d = own[i]
      BY <2>4, <2>5, <3>2
    <3>3. CASE c = own[i] /\ d \in claims
      BY <1>f, <2>2, <2>3, <2>5, <3>3
    <3>4. CASE c = own[i] /\ d = own[i]
      BY <2>3, <3>4
    <3> QED
      BY <1>3, <3>1, <3>2, <3>3, <3>4
  <2> QED
    BY <2>5 DEF RunningIsHighest
<1> QED
  BY <1>2, <1>3, ClaimFrame

(* What another resume knows of the claims stays true: with the lock, it is the only one
   that creates a claim.                                                                *)
LEMMA JudgedByOthers ==
  ASSUME ClaimShape, NEW i \in Instance, ClaimStep(i), NEW x \in Instance \ {i},
         HasLock(x), HasLock(i), Judged(x), \A y \in Instance : Known(y)
  PROVE  Judged(x)'
<1>t. claims \subseteq ClaimRecord /\ found \in [Instance -> ClaimRecord \cup {NoOne}]
  BY ClaimTypeParts DEF ClaimShape, ClaimsType
<1>p. life \in [Instance -> {"off", "up", "gone"}]
  BY ClaimTypeParts DEF ClaimShape, PlaceType
<1>f. \A c \in claims : c.n \in Suspension /\ c.holder \in Instance
  BY <1>t, ClaimFacts
<1>s. Same(x)
  BY ClaimFrame
<1>1. stage[x] \in {"judge", "create"} => claims' \subseteq claims
  BY ClaimFrame DEF HasLock, Locked, Create
<1>2. ASSUME NEW c \in claims, life'[c.holder] = "up", Free(c.holder, c.n)'
      PROVE  life[c.holder] = "up" /\ Free(c.holder, c.n)
  <2>1. life[c.holder] # "off"
    BY <1>f DEF Known
  <2> QED
    BY <1>2, <1>f, <1>p, <2>1, LivesGoOn
<1>3. found[x] # NoOne => found[x].holder \in Instance
  BY <1>t, ClaimFacts
<1>4. ASSUME stage'[x] \in {"judge", "create"}, NEW c \in claims', c.n = copy'[x].n
      PROVE  /\ found'[x] # NoOne /\ c.gen <= found'[x].gen
             /\ life'[c.holder] = "up" /\ Free(c.holder, c.n)' => c = found'[x]
  <2>1. stage[x] \in {"judge", "create"} /\ c \in claims /\ c.n = copy[x].n
    BY <1>1, <1>4, <1>s DEF Same
  <2>2. /\ found[x] # NoOne /\ c.gen <= found[x].gen
        /\ life[c.holder] = "up" /\ Free(c.holder, c.n) => c = found[x]
    BY <2>1 DEF Judged
  <2> QED
    BY <1>2, <1>s, <2>1, <2>2 DEF Same
<1>5. ASSUME stage'[x] = "create", mode'[x] # "manual", found'[x] # NoOne
      PROVE  life'[found'[x].holder] = "gone" \/ found'[x] \in overridden'
  BY <1>3, <1>5, <1>s, LivesGoOn, ClaimFrame DEF Same, Judged
<1> QED
  BY <1>4, <1>5 DEF Judged

(* What a resume finds: the highest claim, and the only one of an instance that runs.  It
   creates one in its turn, by itself, only for a holder that is dead.                    *)
LEMMA JudgedStep ==
  ASSUME ClaimShape, RunningIsHighest, NEW i \in Instance, ClaimStep(i), HasLock(i),
         Judged(i), \A y \in Instance : Known(y)
  PROVE  Judged(i)'
<1> USE DEF run, alive, resume, history
<1>t. claims \subseteq ClaimRecord /\ found \in [Instance -> ClaimRecord \cup {NoOne}]
  BY ClaimTypeParts DEF ClaimShape, ClaimsType
<1>p. /\ life \in [Instance -> {"off", "up", "gone"}] /\ stage \in [Instance -> Stages]
      /\ mode \in [Instance -> {"none", "boot", "other", "manual"}]
  BY ClaimTypeParts DEF ClaimShape, PlaceType
<1>r. copy \in [Instance -> Record] /\ copy[i].n \in Suspension
  BY ClaimTypeParts, RecordFacts DEF ClaimShape, RunType
<1>s. ResumeShape(i) /\ NoOne \notin Instance
  BY DEF ClaimShape, Instance
<1>c. /\ Current(copy[i].n) = NoOne => \A c \in claims : c.n # copy[i].n
      /\ Current(copy[i].n) # NoOne =>
            /\ Current(copy[i].n) \in claims /\ Current(copy[i].n).n = copy[i].n
            /\ \A d \in claims : d.n = copy[i].n => d.gen <= Current(copy[i].n).gen
  BY <1>t, <1>r, CurrentFact DEF ClaimShape
<1>1. CASE Start(i)
  BY <1>1, <1>p, <1>r, <1>s
  DEF Start, Judged, ResumeShape, HasLock, Locked, Free
<1>2. CASE Push(i)
  BY <1>2, <1>p, <1>r, <1>s
  DEF Push, Judged, ResumeShape, HasLock, Locked, Free
<1>3. CASE Die(i)
  BY <1>3, <1>p, <1>r, <1>s
  DEF Die, GiveUpResume, Goes, Unlock, Judged, ResumeShape, HasLock, Locked, Free
<1>4. CASE LoseLock(i)
  BY <1>4, <1>p, <1>r, <1>s
  DEF LoseLock, Judged, ResumeShape, HasLock, Locked, Free
<1>5. CASE HeartbeatEnds(i)
  BY <1>5, <1>p, <1>r, <1>s
  DEF HeartbeatEnds, Judged, ResumeShape, HasLock, Locked, Free
<1>5b. CASE HeartbeatReturns(i)
  BY <1>5b, <1>p, <1>r, <1>s
  DEF HeartbeatReturns, Judged, ResumeShape, HasLock, Locked, Free
<1>6. CASE Cancel(i)
  BY <1>6, <1>p, <1>r, <1>s
  DEF Cancel, Save, Judged, ResumeShape, HasLock, Locked, Free
<1>7. CASE Launch(i)
  BY <1>7, <1>p, <1>r, <1>s
  DEF Launch, Goes, Judged, ResumeShape, HasLock, Locked, Free
<1>8. CASE TakeOver(i)
  BY <1>8, <1>p, <1>r, <1>s
  DEF TakeOver, GiveUpResume, Goes, Judged, ResumeShape, HasLock, Locked, Free
<1>9. CASE Look(i)
  BY <1>9, <1>p, <1>r, <1>s
  DEF Look, GiveUpResume, Goes, Unlock, Judged, ResumeShape, HasLock, Locked, Free
<1>10. CASE Find(i)
  <2>1. PICK n \in Suspension : n = copy[i].n
    BY <1>r
  <2>2. copy' = copy /\ claims' = claims /\ overridden' = overridden /\ life' = life
    BY <1>10 DEF Find
  <2>3. CASE Current(n) = NoOne
    <3>1. stage'[i] = "create" /\ found'[i] = NoOne
      BY <1>10, <1>p, <1>s, <1>t, <2>1, <2>3 DEF Find, Goes, ResumeShape
    <3> QED
      BY <1>c, <2>1, <2>2, <2>3, <3>1 DEF Judged
  <2>4. CASE Current(n) # NoOne /\ Current(n).holder = i
    <3>1. stage'[i] = "save"
      BY <1>10, <1>p, <2>1, <2>4 DEF Find, Read, Goes
    <3> QED
      BY <3>1 DEF Judged
  <2>5. CASE Current(n) # NoOne /\ Current(n).holder # i
    <3>1. stage'[i] = "judge" /\ found'[i] = Current(n)
      BY <1>10, <1>p, <1>t, <2>1, <2>5 DEF Find, Read, Goes
    <3>2. PICK f \in claims : /\ f = Current(n) /\ f # NoOne /\ f.n = n
                              /\ \A d \in claims : d.n = n => d.gen <= f.gen
      BY <1>c, <2>1, <2>5
    <3>3. ASSUME NEW c \in claims, c.n = n, life[c.holder] = "up", Free(c.holder, c.n)
          PROVE  c = f
      <4>1. f.gen <= c.gen /\ c.gen <= f.gen
        BY <3>2, <3>3 DEF RunningIsHighest
      <4>2. f.gen \in Nat /\ c.gen \in Nat
        BY <1>t, ClaimFacts
      <4> QED
        BY <3>2, <3>3, <4>1, <4>2 DEF ClaimShape, Ordered, UniqueGeneration
    <3>4. \A j, m : Free(j, m)' <=> Free(j, m)
      BY <2>2 DEF Free
    <3> QED
      BY <2>1, <2>2, <3>1, <3>2, <3>3, <3>4 DEF Judged
  <2> QED
    BY <2>3, <2>4, <2>5
<1>11. CASE Judge(i)
  <2>1. /\ copy' = copy /\ claims' = claims /\ overridden \subseteq overridden' /\ life' = life
        /\ stage[i] = "judge" /\ found[i] # NoOne /\ found[i].holder \in Instance
    BY <1>11, <1>s, <1>t, ClaimFacts DEF Judge, ResumeShape
  <2>2. PICK v \in Verdicts(found[i].holder) :
           IF Replaces(i, v)
           THEN /\ Goes(i, "create") /\ UNCHANGED <<mode, found, lock>>
                /\ overridden' =
                      IF mode[i] # "manual" /\ v = "dead" /\ life[found[i].holder] = "up"
                      THEN overridden \cup {found[i]} ELSE overridden
           ELSE GiveUpResume(i) /\ Unlock(i)
    BY <1>11 DEF Judge
  <2>3. CASE ~Replaces(i, v)
    BY <1>p, <2>2, <2>3 DEF GiveUpResume, Goes, Judged
  <2>4. CASE Replaces(i, v)
    <3>1. stage'[i] = "create" /\ mode' = mode /\ found' = found
      BY <1>p, <2>2, <2>4 DEF Goes
    <3>2. mode[i] # "manual" => life[found[i].holder] = "gone" \/ found[i] \in overridden'
      <4>1. life[found[i].holder] # "off"
        BY <2>1 DEF Known
      <4>2. CASE life[found[i].holder] = "up"
        BY <2>2, <2>4, <4>2 DEF Replaces
      <4> QED
        BY <1>p, <2>1, <4>1, <4>2
    <3>3. \A j, m : Free(j, m)' => Free(j, m)
      BY <2>1 DEF Free
    <3> QED
      BY <2>1, <3>1, <3>2, <3>3 DEF Judged
  <2> QED
    BY <2>3, <2>4
<1>12. CASE Create(i)
  BY <1>12, <1>p, <1>r, <1>s
  DEF Create, GiveUpResume, Goes, Unlock, Read, Judged, ResumeShape, HasLock, Locked,
      Free
<1>13. CASE SaveRunning(i)
  BY <1>13, <1>p, <1>r, <1>s
  DEF SaveRunning, GiveUpResume, Goes, Unlock, Save, ReleaseSuspension, Judged,
      ResumeShape, HasLock, Locked, Free
<1>14. CASE Begin(i)
  BY <1>14, <1>p, <1>r, <1>s
  DEF Begin, Goes, Judged, ResumeShape, HasLock, Locked, Free
<1>15. CASE Restore(i)
  BY <1>15, <1>p, <1>r, <1>s
  DEF Restore, GiveUpResume, Goes, Save, ReleaseSuspension, Judged, ResumeShape,
      HasLock, Locked, Free
<1>16. CASE SuspendAgain(i)
  BY <1>16, <1>p, <1>r, <1>s
  DEF SuspendAgain, GiveUpResume, Goes, Save, Judged, ResumeShape, HasLock, Locked, Free
<1> QED
  BY <1>1, <1>2, <1>3, <1>4, <1>5, <1>5b, <1>6, <1>7, <1>8, <1>9, <1>10, <1>11, <1>12, <1>13,
     <1>14, <1>15, <1>16 DEF ClaimStep

(* A holder has started. *)
LEMMA KnownStep ==
  ASSUME ClaimShape, NEW i \in Instance, ClaimStep(i), \A y \in Instance : Known(y)
  PROVE  \A x \in Instance : Known(x)'
<1> USE DEF run, alive, resume, history
<1>t. claims \subseteq ClaimRecord /\ found \in [Instance -> ClaimRecord \cup {NoOne}]
  BY ClaimTypeParts DEF ClaimShape, ClaimsType
<1>p. /\ life \in [Instance -> {"off", "up", "gone"}] /\ stage \in [Instance -> Stages]
  BY ClaimTypeParts DEF ClaimShape, PlaceType
<1>r. copy \in [Instance -> Record] /\ copy[i].n \in Suspension
  BY ClaimTypeParts, RecordFacts DEF ClaimShape, RunType
<1>s. ResumeShape(i)
  BY DEF ClaimShape
<1>f. \A c \in claims : c.holder \in Instance
  BY <1>t, ClaimFacts
<1>1. \A x \in Instance, c \in claims' : c.holder = x => life'[x] # "off"
  <2>1. Create(i) => own[i].holder = i /\ life'[i] = "up"
    BY <1>s DEF Create, ResumeShape
  <2>2. \A x \in Instance, c \in claims : c.holder = x => life'[x] # "off"
    BY <1>p, LivesGoOn DEF Known
  <2> QED
    BY <2>1, <2>2, ClaimFrame
<1>3. ASSUME NEW x \in Instance \ {i}, found'[x] # NoOne
      PROVE  found'[x].n = copy'[x].n /\ life'[found'[x].holder] # "off"
  <2>1. Same(x)
    BY ClaimFrame
  <2>2. /\ found[x] # NoOne /\ found[x].n = copy[x].n /\ life[found[x].holder] # "off"
        /\ found[x].holder \in Instance
    BY <1>3, <1>t, <2>1, ClaimFacts DEF Same, Known
  <2> QED
    BY <1>p, <2>1, <2>2, LivesGoOn DEF Same
<1>4. ASSUME found'[i] # NoOne
      PROVE  found'[i].n = copy'[i].n /\ life'[found'[i].holder] # "off"
  <2>1. CASE found'[i] = found[i] /\ copy'[i].n = copy[i].n
    <3>1. found[i].n = copy[i].n /\ life[found[i].holder] # "off" /\ found[i].holder \in Instance
      BY <1>4, <1>t, <2>1, ClaimFacts DEF Known
    <3> QED
      BY <1>p, <2>1, <3>1, LivesGoOn
  <2>2. CASE found'[i] # found[i] \/ copy'[i].n # copy[i].n
    <3>1. /\ Suspended(copy[i].n).n = copy[i].n /\ Running(i, copy[i].n).n = copy[i].n
          /\ Cancelled(copy[i].n).n = copy[i].n
      BY <1>r, RecordFacts
    <3>2. CASE Find(i) \/ Create(i)
      <4>1. PICK n \in Suspension : n = copy[i].n /\ found'[i] = Current(n) /\ Current(n) # NoOne
                                    /\ copy' = copy
        <5>1. Find(i) => found'[i] = Current(copy[i].n) /\ copy' = copy
          BY <1>4, <1>t, <1>s, <2>2 DEF Find, Read, ResumeShape
        <5>2. Create(i) => found'[i] = Current(own[i].n) /\ copy' = copy /\ own[i].n = copy[i].n
          BY <1>4, <1>t, <1>s, <2>2 DEF Create, Read, ResumeShape, GiveUpResume
        <5> QED
          BY <1>4, <1>r, <3>2, <5>1, <5>2
      <4>2. Current(n) \in claims /\ Current(n).n = n
        BY <1>t, <4>1, CurrentFact DEF ClaimShape
      <4>3. life'[Current(n).holder] # "off"
        BY <1>f, <1>p, <4>2, LivesGoOn DEF Known
      <4> QED
        BY <4>1, <4>2, <4>3
    <3>3. CASE ~(Find(i) \/ Create(i))
      BY <1>4, <1>t, <1>r, <1>s, <2>2, <3>1, <3>3
      DEF ClaimStep, ResumeShape, Start, Push, Die, LoseLock, HeartbeatEnds, HeartbeatReturns, Cancel,
          Launch, TakeOver, Look, Judge, SaveRunning, Begin, Restore, SuspendAgain,
          GiveUpResume, Goes, Unlock, Save
    <3> QED
      BY <3>2, <3>3
  <2> QED
    BY <2>1, <2>2
<1> QED
  BY <1>1, <1>3, <1>4 DEF Known

(* What an instance continued stays visible in its claims and in its copy. *)
LEMMA RunTraceStep ==
  ASSUME ClaimShape, NEW i \in Instance, ClaimStep(i),
         \A y \in Instance : RunTrace(y) /\ Started(y)
  PROVE  \A x \in Instance : RunTrace(x)'
<1> USE DEF run, alive, resume, history
<1>t. claims \subseteq ClaimRecord /\ own \in [Instance -> ClaimRecord \cup {NoOne}]
  BY ClaimTypeParts DEF ClaimShape, ClaimsType
<1>p. /\ life \in [Instance -> {"off", "up", "gone"}] /\ stage \in [Instance -> Stages]
      /\ ran \in [Suspension -> SUBSET Instance]
  BY ClaimTypeParts DEF ClaimShape, PlaceType
<1>r. /\ copy \in [Instance -> Record] /\ remote \in Record
      /\ copy[i].n \in Suspension /\ copy[i].n \in Nat
  BY ClaimTypeParts, RecordFacts DEF ClaimShape, RunType, Suspension
<1>s. ResumeShape(i) /\ RunTrace(i) /\ Started(i)
  BY DEF ClaimShape
<1>o. \A x \in Instance \ {i} : RunTrace(x)'
  <2> SUFFICES ASSUME NEW x \in Instance \ {i} PROVE RunTrace(x)'
    OBVIOUS
  <2>1. Same(x) /\ RunTrace(x) /\ \A c \in claims : c.holder = x => c \in claims'
    BY ClaimFrame
  <2>2. \A n \in Suspension : x \in ran'[n] => x \in ran[n]
    BY <1>p
    DEF ClaimStep, Start, Push, Die, LoseLock, HeartbeatEnds, HeartbeatReturns, Cancel, Launch, TakeOver,
        Look, Find, Judge, Create, SaveRunning, Begin, Restore, SuspendAgain
  <2> QED
    BY <2>1, <2>2 DEF Same, RunTrace
<1>d. \A n, m \in Suspension : /\ Suspended(n) # Running(i, m) /\ Cancelled(n) # Running(i, m)
                               /\ Suspended(n).n = n /\ Cancelled(n).n = n
                               /\ Running(i, n).n = n
  <2>1. \A n, m \in Suspension : /\ Suspended(n).status # Running(i, m).status
                                 /\ Cancelled(n).status # Running(i, m).status
    BY RecordFacts
  <2> QED
    BY <2>1, RecordFacts
<1>k. 1 \in Suspension
  BY DEF Suspension
<1>a. \A n \in Suspension : copy'[i] = Running(i, n) => stage'[i] \in {"prepare", "run"}
  <2>1. CASE Start(i)
    BY <2>1, <1>p, <1>r, <1>s, <1>d, <1>k
    DEF Start, RunTrace, Started, ResumeShape
  <2>2. CASE Push(i)
    BY <2>2, <1>p, <1>r, <1>s, <1>d, <1>k
    DEF Push, RunTrace, Started, ResumeShape
  <2>3. CASE Die(i)
    BY <2>3, <1>p, <1>r, <1>s, <1>d, <1>k
    DEF Die, GiveUpResume, Goes, Unlock, RunTrace, Started, ResumeShape
  <2>4. CASE LoseLock(i)
    BY <2>4, <1>p, <1>r, <1>s, <1>d, <1>k
    DEF LoseLock, RunTrace, Started, ResumeShape
  <2>5. CASE HeartbeatEnds(i)
    BY <2>5, <1>p, <1>r, <1>s, <1>d, <1>k
    DEF HeartbeatEnds, RunTrace, Started, ResumeShape
  <2>5b. CASE HeartbeatReturns(i)
    BY <2>5b, <1>p, <1>r, <1>s, <1>d, <1>k
    DEF HeartbeatReturns, RunTrace, Started, ResumeShape
  <2>6. CASE Cancel(i)
    BY <2>6, <1>p, <1>r, <1>s, <1>d, <1>k
    DEF Cancel, Save, RunTrace, Started, ResumeShape
  <2>7. CASE Launch(i)
    BY <2>7, <1>p, <1>r, <1>s, <1>d, <1>k
    DEF Launch, Goes, RunTrace, Started, ResumeShape
  <2>8. CASE TakeOver(i)
    BY <2>8, <1>p, <1>r, <1>s, <1>d, <1>k
    DEF TakeOver, GiveUpResume, Goes, RunTrace, Started, ResumeShape
  <2>9. CASE Look(i)
    BY <2>9, <1>p, <1>r, <1>s, <1>d, <1>k
    DEF Look, GiveUpResume, Goes, Unlock, RunTrace, Started, ResumeShape
  <2>10. CASE Find(i)
    BY <2>10, <1>p, <1>r, <1>s, <1>d, <1>k
    DEF Find, Goes, Read, RunTrace, Started, ResumeShape
  <2>11. CASE Judge(i)
    BY <2>11, <1>p, <1>r, <1>s, <1>d, <1>k
    DEF Judge, GiveUpResume, Goes, Unlock, RunTrace, Started, ResumeShape
  <2>12. CASE Create(i)
    BY <2>12, <1>p, <1>r, <1>s, <1>d, <1>k
    DEF Create, GiveUpResume, Goes, Unlock, Read, RunTrace, Started, ResumeShape
  <2>13. CASE SaveRunning(i)
    BY <2>13, <1>p, <1>r, <1>s, <1>d, <1>k
    DEF SaveRunning, GiveUpResume, Goes, Unlock, Save, ReleaseSuspension, RunTrace,
        Started, ResumeShape
  <2>14. CASE Begin(i)
    BY <2>14, <1>p, <1>r, <1>s, <1>d, <1>k
    DEF Begin, Goes, RunTrace, Started, ResumeShape
  <2>15. CASE Restore(i)
    BY <2>15, <1>p, <1>r, <1>s, <1>d, <1>k
    DEF Restore, GiveUpResume, Goes, Save, ReleaseSuspension, RunTrace, Started,
        ResumeShape
  <2>16. CASE SuspendAgain(i)
    <3>1. copy[i].n + 1 \in Suspension
      BY <2>16, <1>r, <1>s DEF SuspendAgain, ResumeShape, Suspension
    <3> QED
      BY <2>16, <1>r, <1>d, <3>1 DEF SuspendAgain, Save
  <2> QED
    BY <2>1, <2>2, <2>3, <2>4, <2>5, <2>5b, <2>6, <2>7, <2>8, <2>9, <2>10, <2>11, <2>12, <2>13,
       <2>14, <2>15, <2>16 DEF ClaimStep
<1>b. ASSUME NEW n \in Suspension, i \in ran'[n]
      PROVE  /\ life'[i] # "off"
             /\ life'[i] = "up" => /\ \E c \in claims' : c.n = n /\ c.holder = i
                                   /\ \/ copy'[i].n > n
                                      \/ copy'[i].n = n /\ stage'[i] = "run"
  <2>n. n \in Nat
    BY DEF Suspension
  <2>1. CASE Start(i)
    BY <2>1, <1>b, <1>p, <1>r, <1>s, <1>d, <2>n
    DEF Start, RunTrace, ResumeShape
  <2>2. CASE Push(i)
    BY <2>2, <1>b, <1>p, <1>r, <1>s, <1>d, <2>n
    DEF Push, RunTrace, ResumeShape
  <2>3. CASE Die(i)
    BY <2>3, <1>b, <1>p, <1>r, <1>s, <1>d, <2>n
    DEF Die, GiveUpResume, Goes, Unlock, RunTrace, ResumeShape
  <2>4. CASE LoseLock(i)
    BY <2>4, <1>b, <1>p, <1>r, <1>s, <1>d, <2>n
    DEF LoseLock, RunTrace, ResumeShape
  <2>5. CASE HeartbeatEnds(i)
    BY <2>5, <1>b, <1>p, <1>r, <1>s, <1>d, <2>n
    DEF HeartbeatEnds, RunTrace, ResumeShape
  <2>5b. CASE HeartbeatReturns(i)
    BY <2>5b, <1>b, <1>p, <1>r, <1>s, <1>d, <2>n
    DEF HeartbeatReturns, RunTrace, ResumeShape
  <2>6. CASE Cancel(i)
    BY <2>6, <1>b, <1>p, <1>r, <1>s, <1>d, <2>n
    DEF Cancel, Save, RunTrace, ResumeShape
  <2>7. CASE Launch(i)
    BY <2>7, <1>b, <1>p, <1>r, <1>s, <1>d, <2>n
    DEF Launch, Goes, RunTrace, ResumeShape
  <2>8. CASE TakeOver(i)
    BY <2>8, <1>b, <1>p, <1>r, <1>s, <1>d, <2>n
    DEF TakeOver, GiveUpResume, Goes, RunTrace, ResumeShape
  <2>9. CASE Look(i)
    BY <2>9, <1>b, <1>p, <1>r, <1>s, <1>d, <2>n
    DEF Look, GiveUpResume, Goes, Unlock, RunTrace, ResumeShape
  <2>10. CASE Find(i)
    BY <2>10, <1>b, <1>p, <1>r, <1>s, <1>d, <2>n
    DEF Find, Goes, Read, RunTrace, ResumeShape
  <2>11. CASE Judge(i)
    BY <2>11, <1>b, <1>p, <1>r, <1>s, <1>d, <2>n
    DEF Judge, GiveUpResume, Goes, Unlock, RunTrace, ResumeShape
  <2>12. CASE Create(i)
    BY <2>12, <1>b, <1>p, <1>r, <1>s, <1>d, <2>n
    DEF Create, GiveUpResume, Goes, Unlock, Read, RunTrace, ResumeShape
  <2>13. CASE SaveRunning(i)
    <3>1. /\ i \in ran[n] /\ life[i] = "up" /\ life' = life /\ copy[i].n > n
      BY <2>13, <1>b, <1>s DEF SaveRunning, RunTrace
    <3>2. PICK c \in claims : c.n = n /\ c.holder = i
      BY <1>s, <3>1 DEF RunTrace
    <3>3. c # own[i]
      BY <2>13, <1>r, <1>s, <2>n, <3>1, <3>2 DEF SaveRunning, ResumeShape, Engaged
    <3>4. c \in claims'
      BY <2>13, <3>2, <3>3 DEF SaveRunning, ReleaseSuspension
    <3>5. copy'[i].n = copy[i].n
      BY <2>13, <1>r, <1>d DEF SaveRunning, Save
    <3> QED
      BY <3>1, <3>2, <3>4, <3>5
  <2>14. CASE Begin(i)
    <3>1. life[i] = "up" /\ life' = life /\ copy' = copy /\ claims' = claims /\ stage'[i] = "run"
      BY <2>14, <1>p DEF Begin, Goes
    <3>2. CASE n = copy[i].n
      <4>1. own[i] \in claims /\ own[i].n = n /\ own[i].holder = i
        BY <2>14, <1>s, <3>2 DEF Begin, ResumeShape, Engaged
      <4> QED
        BY <3>1, <3>2, <4>1
    <3>3. CASE n # copy[i].n
      <4>1. i \in ran[n]
        BY <2>14, <1>b, <1>p, <1>r, <3>3 DEF Begin
      <4> QED
        BY <1>s, <3>1, <3>3, <4>1 DEF RunTrace
    <3> QED
      BY <3>2, <3>3
  <2>15. CASE Restore(i)
    <3>1. /\ i \in ran[n] /\ life[i] = "up" /\ life' = life /\ copy[i].n > n
      BY <2>15, <1>b, <1>s DEF Restore, RunTrace
    <3>2. PICK c \in claims : c.n = n /\ c.holder = i
      BY <1>s, <3>1 DEF RunTrace
    <3>3. c # own[i]
      BY <2>15, <1>r, <1>s, <2>n, <3>1, <3>2 DEF Restore, ResumeShape, Engaged
    <3>4. c \in claims'
      BY <2>15, <3>2, <3>3 DEF Restore, ReleaseSuspension
    <3>5. copy'[i].n = copy[i].n
      BY <2>15, <1>r, <1>d DEF Restore, Save
    <3> QED
      BY <3>1, <3>2, <3>4, <3>5
  <2>16. CASE SuspendAgain(i)
    <3>1. copy[i].n + 1 \in Suspension
      BY <2>16, <1>r, <1>s DEF SuspendAgain, ResumeShape, Suspension
    <3>2. PICK m \in Suspension : m = copy[i].n + 1
      BY <3>1
    <3>3. copy'[i].n = m
      BY <2>16, <1>r, <1>d, <3>2 DEF SuspendAgain, Save
    <3>4. i \in ran[n] /\ life[i] = "up" /\ life' = life /\ claims' = claims
      BY <2>16, <1>b DEF SuspendAgain
    <3>5. /\ \E c \in claims : c.n = n /\ c.holder = i
          /\ copy[i].n >= n
      BY <1>r, <1>s, <2>n, <3>4 DEF RunTrace
    <3>6. m > n
      BY <1>r, <2>n, <3>2, <3>5
    <3> QED
      BY <3>3, <3>4, <3>5, <3>6
  <2> QED
    BY <2>1, <2>2, <2>3, <2>4, <2>5, <2>5b, <2>6, <2>7, <2>8, <2>9, <2>10, <2>11, <2>12, <2>13,
       <2>14, <2>15, <2>16 DEF ClaimStep
<1> QED
  BY <1>o, <1>a, <1>b DEF RunTrace

(* Nobody has a record that says an instance runs it before the instance started. *)
LEMMA StartedStep ==
  ASSUME ClaimShape, NEW i \in Instance, ClaimStep(i), \A y \in Instance : Started(y)
  PROVE  \A x \in Instance : Started(x)'
<1> USE DEF run, alive, resume, history
<1>p. life \in [Instance -> {"off", "up", "gone"}]
  BY ClaimTypeParts DEF ClaimShape, PlaceType
<1>r. /\ copy \in [Instance -> Record] /\ remote \in Record
      /\ copy[i].n \in Suspension
  BY ClaimTypeParts, RecordFacts DEF ClaimShape, RunType
<1>1. SUFFICES ASSUME NEW x \in Instance, NEW n \in Suspension,
                      remote' = Running(x, n) \/ \E j \in Instance : copy'[j] = Running(x, n)
               PROVE  life'[x] # "off"
  BY DEF Started
<1>2. ASSUME remote = Running(x, n) \/ \E j \in Instance : copy[j] = Running(x, n)
      PROVE  life'[x] # "off"
  BY <1>2, <1>p, LivesGoOn DEF Started
<1>3. \A m \in Suspension : /\ Suspended(m) # Running(x, n) /\ Cancelled(m) # Running(x, n)
                            /\ Running(i, m) = Running(x, n) => x = i
  <2>1. \A m \in Suspension : /\ Suspended(m).status # Running(x, n).status
                              /\ Cancelled(m).status # Running(x, n).status
                              /\ Running(i, m).by = i /\ Running(x, n).by = x
    BY RecordFacts
  <2> QED
    BY <2>1
<1>6. CASE Start(i)
  BY <1>1, <1>2, <1>6, <1>r DEF Start
<1>7. CASE Push(i)
  BY <1>1, <1>2, <1>7, <1>r DEF Push
<1>8. CASE SaveRunning(i)
  BY <1>1, <1>2, <1>3, <1>8, <1>r DEF SaveRunning, Save
<1>9. CASE Die(i)
  <2>1. 1 \in Suspension
    BY DEF Suspension
  <2> QED
    BY <1>1, <1>2, <1>3, <1>9, <1>r, <2>1 DEF Die
<1>10. CASE Cancel(i) \/ Restore(i)
  BY <1>1, <1>2, <1>3, <1>10, <1>r DEF Cancel, Restore, Save
<1>11. CASE SuspendAgain(i)
  <2>1. copy[i].n + 1 \in Suspension
    BY <1>11, <1>r DEF SuspendAgain, ClaimShape, ResumeShape, Suspension
  <2> QED
    BY <1>1, <1>2, <1>3, <1>11, <1>r, <2>1 DEF SuspendAgain, Save
<1>12. CASE remote' = remote /\ copy' = copy
  BY <1>1, <1>2, <1>12
<1>13. \/ Start(i) \/ Push(i) \/ SaveRunning(i) \/ Die(i) \/ Cancel(i) \/ Restore(i)
       \/ SuspendAgain(i) \/ (remote' = remote /\ copy' = copy)
  BY DEF ClaimStep, LoseLock, HeartbeatEnds, HeartbeatReturns, Launch, TakeOver, Look, Find, Judge,
         Create, Begin
<1> QED
  BY <1>6, <1>7, <1>8, <1>9, <1>10, <1>11, <1>12, <1>13

(* The inductive step, from its parts. *)
LEMMA OneInvStep ==
  ASSUME StallsAt \subseteq {"save"}
  PROVE  OneInv /\ [ClaimNext]_claimVars => OneInv'
<1> SUFFICES ASSUME OneInv, [ClaimNext]_claimVars PROVE OneInv'
  OBVIOUS
<1>1. ClaimShape /\ ClaimShape'
  BY ClaimShapeStep DEF OneInv
<1>2. ASSUME NEW i \in Instance, ClaimStep(i) PROVE OneInv'
  <2>1. \A x \in Instance : HasLock(x)'
    BY <1>1, <1>2, HasLockStep DEF OneInv
  <2>2. RunningIsHighest'
    BY <1>1, <1>2, HighestStep DEF OneInv
  <2>3. \A x \in Instance \ {i} : Judged(x)'
    BY <1>1, <1>2, JudgedByOthers DEF OneInv
  <2>4. Judged(i)'
    BY <1>1, <1>2, JudgedStep DEF OneInv
  <2>5. \A x \in Instance : Known(x)'
    BY <1>1, <1>2, KnownStep DEF OneInv
  <2>6. \A x \in Instance : RunTrace(x)'
    BY <1>1, <1>2, RunTraceStep DEF OneInv
  <2>7. \A x \in Instance : Started(x)'
    BY <1>1, <1>2, StartedStep DEF OneInv
  <2> QED
    BY <1>1, <2>1, <2>2, <2>3, <2>4, <2>5, <2>6, <2>7 DEF OneInv
<1>3. CASE UNCHANGED claimVars
  <2> USE <1>3 DEF claimVars, run, alive, resume, history
  <2>1. RunningIsHighest'
    BY DEF OneInv, RunningIsHighest, Free
  <2>2. ASSUME NEW i \in Instance
        PROVE  HasLock(i)' /\ Judged(i)' /\ Known(i)' /\ RunTrace(i)' /\ Started(i)'
    <3>1. HasLock(i) /\ Judged(i) /\ Known(i) /\ RunTrace(i) /\ Started(i)
      BY DEF OneInv
    <3>2. HasLock(i)' /\ Judged(i)' /\ Known(i)'
      BY <3>1 DEF HasLock, Judged, Known, Free
    <3>3. RunTrace(i)' /\ Started(i)'
      BY <3>1 DEF RunTrace, Started
    <3> QED
      BY <3>2, <3>3
  <2> QED
    BY <1>1, <2>1, <2>2 DEF OneInv
<1> QED
  BY <1>2, <1>3 DEF ClaimNext

(* Whoever took a suspension over and runs has a claim on it, and that one is the highest. *)
LEMMA TakerHasClaim ==
  ASSUME OneInv, NEW j \in Instance, NEW n \in Suspension, Took(j, n), life[j] # "gone"
  PROVE  /\ life[j] = "up" /\ Free(j, n)
         /\ \E c \in claims : c.n = n /\ c.holder = j
<1>s. ResumeShape(j) /\ RunTrace(j) /\ Started(j)
  BY DEF OneInv, ClaimShape
<1>p. life \in [Instance -> {"off", "up", "gone"}]
  BY ClaimTypeParts DEF OneInv, ClaimShape, PlaceType
<1>1. CASE copy[j] = Running(j, n)
  <2>1. stage[j] \in {"prepare", "run"} /\ copy[j].n = n
    BY <1>1, <1>s, RecordFacts DEF RunTrace
  <2>2. life[j] = "up" /\ own[j] \in claims /\ own[j].n = n /\ own[j].holder = j
    BY <1>s, <2>1 DEF ResumeShape, Engaged
  <2> QED
    BY <2>2 DEF Took, Free
<1>2. CASE j \in ran[n]
  BY <1>2, <1>p, <1>s DEF RunTrace, Took, Free
<1> QED
  BY <1>1, <1>2 DEF Took

(* Serve by itself is never given the claim of a suspension that a process which still runs
   took over, if a process stalls long enough to lose the lock of the run only once it has
   its claim.  Heartbeats may go stale at any moment, of instances that run too: a holder
   that was judged dead that way is not counted, and no other is ever replaced.            *)
THEOREM OneContinuesARun ==
  ASSUME StallsAt \subseteq {"save"}
  PROVE  ClaimSpec => ContinuedByOne
<1>1. ClaimInit => OneInv
  <2> SUFFICES ASSUME ClaimInit PROVE OneInv
    OBVIOUS
  <2>1. ClaimShape
    BY ClaimShapeInit
  <2>2. 1 \in Suspension
    BY DEF Suspension
  <2>3. RunningIsHighest
    BY DEF ClaimInit, RunningIsHighest
  <2>4. ASSUME NEW i \in Instance PROVE HasLock(i) /\ Judged(i) /\ Known(i)
    BY DEF ClaimInit, HasLock, Locked, Judged, Known
  <2>5. ASSUME NEW i \in Instance PROVE RunTrace(i) /\ Started(i)
    <3>1. \A n \in Suspension : Suspended(1).status # Running(i, n).status
      BY <2>2, RecordFacts
    <3> QED
      BY <3>1 DEF ClaimInit, RunTrace, Started
  <2> QED
    BY <2>1, <2>3, <2>4, <2>5 DEF OneInv
<1>2. OneInv /\ [ClaimNext]_claimVars => OneInv'
  BY OneInvStep
<1>3. OneInv /\ [ClaimNext]_claimVars =>
         [\A i \in Serve : stage[i] # "save" /\ stage'[i] = "save" /\ mode[i] # "manual" =>
             \A j \in Instance \ {i} : Took(j, copy[i].n) => life[j] = "gone"]_claimVars
  <2> SUFFICES ASSUME OneInv, [ClaimNext]_claimVars, NEW i \in Serve,
                      stage[i] # "save", stage'[i] = "save", mode[i] # "manual",
                      NEW j \in Instance \ {i}, Took(j, copy[i].n), life[j] # "gone"
               PROVE  UNCHANGED claimVars
    OBVIOUS
  <2> SUFFICES ASSUME ClaimNext PROVE FALSE
    OBVIOUS
  <2>i. i \in Instance /\ ClaimShape
    BY DEF Instance, OneInv
  <2>t. RunType /\ ClaimsType /\ PlaceType
    BY <2>i, ClaimTypeParts DEF ClaimShape
  <2>1. ClaimStep(i)
    <3>1. PICK x \in Instance : ClaimStep(x)
      BY DEF ClaimNext
    <3>2. x # i => stage'[i] = stage[i]
      BY <2>i, <3>1, ClaimFrame DEF Same
    <3> QED
      BY <3>1, <3>2
  <2>2. PICK n \in Suspension : n = copy[i].n
    BY <2>i, <2>t, RecordFacts DEF RunType
  <2>3. PICK c \in claims : c.n = n /\ c.holder = j /\ life[j] = "up" /\ Free(j, n)
    BY <2>2, TakerHasClaim
  <2>4. Find(i) \/ Create(i)
    BY <2>1, <2>i, <2>t
    DEF ClaimStep, PlaceType, run, alive, resume, history, Start, Push, Die, LoseLock,
        HeartbeatEnds, HeartbeatReturns, Cancel, Launch, TakeOver, Look, Judge, SaveRunning, Begin, Restore,
        SuspendAgain, GiveUpResume, Goes
  <2>5. CASE Find(i)
    <3>1. Current(n) # NoOne /\ Current(n).holder = i
      BY <2>2, <2>5, <2>i, <2>t DEF Find, Read, Goes, PlaceType
    <3>2. /\ Current(n) \in claims /\ Current(n).n = n
          /\ \A d \in claims : d.n = n => d.gen <= Current(n).gen
      BY <2>i, <2>t, <3>1, CurrentFact DEF ClaimShape, ClaimsType
    <3>3. c.gen <= Current(n).gen /\ Current(n).gen <= c.gen
      BY <2>3, <3>2 DEF OneInv, RunningIsHighest
    <3>4. c.gen \in Nat /\ Current(n).gen \in Nat
      BY <2>t, <3>2, ClaimFacts DEF ClaimsType
    <3>5. c = Current(n)
      BY <2>3, <2>i, <3>2, <3>3, <3>4 DEF ClaimShape, Ordered, UniqueGeneration
    <3> QED
      BY <2>3, <3>1, <3>5
  <2>6. CASE Create(i)
    <3>1. Judged(i) /\ stage[i] = "create"
      BY <2>6, <2>i DEF OneInv, Create
    <3>2. c = found[i] /\ found[i] # NoOne
      BY <2>2, <2>3, <3>1 DEF Judged
    <3>3. life[c.holder] = "gone" \/ c \in overridden
      BY <3>1, <3>2 DEF Judged
    <3>4. c \notin overridden
      BY <2>3, <3>2 DEF Free
    <3> QED
      BY <2>3, <3>3, <3>4
  <2> QED
    BY <2>4, <2>5, <2>6
<1> QED
  BY <1>1, <1>2, <1>3, PTL DEF ClaimSpec, ContinuedByOne

=============================================================================
