-------------------------- MODULE V3WriterLockProofs --------------------------
(***************************************************************************)
(* Proofs about V3WriterLock for any callers and any bounds, and at the    *)
(* end about the specification that TLC runs for it and the claims.        *)
(***************************************************************************)
EXTENDS MCLockAndClaims, ContinuationClaimProofs, TLAPS

USE BoundsAssumption, SwitchAssumption

Moving == {"check", "create", "mark", "raise", "raised"}

\* What an entry has not been given yet, and what a take under way has in hand.
TakeShape(e) ==
    /\ e > used => hold[e] = 0 /\ take[e] = "none" /\ renew[e] = "none" /\ ~timer[e]
    /\ timer[e] => hold[e] # 0
    /\ take[e] = "won" => got[e] # 0
    /\ take[e] # "none" /\ takeBy[e] # "first" => hold[e] # 0
    /\ take[e] = "notify" => takeBy[e] # "first"

\* What a renewal or an advance under way has in hand.
RenewShape(e) ==
    /\ renew[e] # "none" => hold[e] # 0 /\ renewed[e] # 0
    /\ renew[e] = "advance" <=> adv[e] \in Moving
    /\ adv[e] = "wait" => renew[e] \in {"check", "retake"}
    /\ adv[e] = "create" => renewed[e] < MaxFence
    /\ adv[e] \in {"raise", "raised"} => advNew[e] # 0

EntryShape(e) == TakeShape(e) /\ RenewShape(e)

\* A caller that counted itself in is at an entry, and looks at a hold only where there is one.
CallerShape(c) ==
    /\ at[c] <= used
    /\ pc[c] # "out" => at[c] # 0
    /\ pc[c] \in {"look", "check"} => hold[at[c]] # 0

LockShape ==
    /\ TypeOK
    /\ current <= used
    /\ \A e \in Entry : EntryShape(e)
    /\ \A c \in Caller : CallerShape(c)

\* Someone waits for the take of entry e.
Awaited(e) == \E c \in Caller : pc[c] = "taking" /\ at[c] = e

\* Who is behind a take under way: the first caller, before the entry has a hold; a caller
\* of serve; or the renewal that found the hold lost.
TakeBacked(e) ==
    /\ take[e] # "none" /\ takeBy[e] = "first" =>
          hold[e] = 0 /\ current = e /\ Awaited(e) /\ renew[e] = "none"
    /\ take[e] # "none" /\ takeBy[e] # "first" => retakes[e]
    /\ take[e] # "none" /\ takeBy[e] = "caller" => Awaited(e)
    /\ renew[e] = "retake" <=> take[e] # "none" /\ takeBy[e] = "timer"

\* An entry that ends has no timer and is not in the map, and one that is released has no
\* renewal either.
Ended(e) ==
    /\ ending[e] # "no" => ~timer[e] /\ e # current /\ e <= used
    /\ ending[e] \in {"release", "done"} => renew[e] = "none"
    /\ ending[e] = "no" /\ hold[e] # 0 => e = current

\* A take under way won a fence above the entry's hold.
Ahead(e) ==
    /\ hold[e] <= top
    /\ take[e] = "won" => got[e] > hold[e] /\ got[e] <= top

HoldInv ==
    /\ LockShape
    /\ \A e \in Entry : TakeBacked(e) /\ Ended(e) /\ Ahead(e) /\ adv[e] = "none"
    /\ \A c \in Caller : pc[c] # "out" => ending[at[c]] = "no"
    /\ \A f \in known : Fenced(f)
    /\ mine \subseteq 1..top
    /\ NoOrphanedHold

-----------------------------------------------------------------------------
(* Types, and the shape that the bodies of the functions give an entry. *)

\* The parts of TypeOK.
LeaseType ==
    /\ top \in 0..MaxFence /\ mine \subseteq Fence /\ marks \subseteq Fence
    /\ known \subseteq Fence
MapType ==
    current \in 0..MaxEntries /\ used \in 0..MaxEntries /\ current <= used
FenceType ==
    /\ hold \in [Entry -> 0..MaxFence] /\ got \in [Entry -> 0..MaxFence]
    /\ renewed \in [Entry -> 0..MaxFence] /\ advNew \in [Entry -> 0..MaxFence]
    /\ at \in [Caller -> 0..MaxEntries]
FlagType ==
    /\ retakes \in [Entry -> BOOLEAN] /\ timer \in [Entry -> BOOLEAN]
    /\ joined \in [Caller -> BOOLEAN]
StageType ==
    /\ take \in [Entry -> {"none", "trying", "won", "notify"}]
    /\ takeBy \in [Entry -> {"first", "caller", "timer"}]
    /\ renew \in [Entry -> {"none", "check", "retake", "advance"}]
    /\ adv \in [Entry -> {"none", "wait", "check", "create", "mark", "raise", "raised"}]
    /\ ending \in [Entry -> {"no", "wait", "release", "done"}]
    /\ pc \in [Caller -> {"out", "taking", "look", "check", "failed", "in"}]

(* LockShape is its parts, before and after a step. *)
LEMMA TypeParts ==
  /\ LockShape <=> /\ LeaseType /\ MapType /\ FenceType /\ FlagType /\ StageType
                   /\ \A e \in Entry : EntryShape(e)
                   /\ \A c \in Caller : CallerShape(c)
  /\ LockShape' <=> /\ LeaseType' /\ MapType' /\ FenceType' /\ FlagType' /\ StageType'
                    /\ \A e \in Entry : EntryShape(e)'
                    /\ \A c \in Caller : CallerShape(c)'
BY DEF LockShape, TypeOK, LeaseType, MapType, FenceType, FlagType, StageType

\* A step that leaves alone what EntryShape says of entry e.
EntrySame(e) ==
    /\ used' = used /\ hold'[e] = hold[e] /\ timer'[e] = timer[e]
    /\ take'[e] = take[e] /\ takeBy'[e] = takeBy[e] /\ got'[e] = got[e]
    /\ renew'[e] = renew[e] /\ renewed'[e] = renewed[e]
    /\ adv'[e] = adv[e] /\ advNew'[e] = advNew[e]

(* At the start nobody takes, renews or ends anything. *)
LEMMA LockShapeInit == Init => LockShape
<1> SUFFICES ASSUME Init PROVE LockShape
  OBVIOUS
<1> USE DEF Init, Entry, Fence
<1>1. LeaseType /\ MapType
  BY DEF LeaseType, MapType
<1>2. FenceType
  BY DEF FenceType
<1>3. FlagType
  BY Zenon DEF FlagType
<1>4. StageType
  BY DEF StageType
<1>5. ASSUME NEW e \in Entry PROVE EntryShape(e)
  BY DEF EntryShape, TakeShape, RenewShape, Moving
<1>6. ASSUME NEW c \in Caller PROVE CallerShape(c)
  BY DEF CallerShape
<1> QED
  BY <1>1, <1>2, <1>3, <1>4, <1>5, <1>6, TypeParts

(* One case per step between two awaits: each keeps types and shape. *)
LEMMA LockShapeStep == LockShape /\ [Next]_vars => LockShape'
<1> SUFFICES ASSUME LockShape, [Next]_vars PROVE LockShape'
  OBVIOUS
<1> USE DEF lease, taking, renewal, advance, callers
<1>t. LeaseType /\ MapType /\ FenceType /\ FlagType /\ StageType
  BY TypeParts
<1>e. \A e \in Entry : EntryShape(e)
  BY TypeParts
<1>c. \A c \in Caller : CallerShape(c)
  BY TypeParts
<1>n. /\ top < MaxFence => top + 1 \in Fence /\ top + 1 \in 0..MaxFence
      /\ 0 \in 0..MaxFence
  BY <1>t DEF LeaseType, Fence
<1>s. ASSUME NEW e \in Entry, EntrySame(e) PROVE EntryShape(e)'
  BY <1>e, <1>s DEF EntrySame, EntryShape, TakeShape, RenewShape
<1>1. ASSUME NEW e \in Entry, EntryStep(e) PROVE LockShape'
  <2>es. TakeShape(e) /\ RenewShape(e)
    BY <1>e DEF EntryShape
  <2>v. /\ {hold[e], got[e], renewed[e], advNew[e]} \subseteq 0..MaxFence
        /\ \A f \in {hold[e], got[e], renewed[e], advNew[e]} : f # 0 => f \in Fence
    BY <1>t DEF FenceType, Fence
  <2>1. CASE TakeWins(e)
    <3>1. LeaseType'
      BY <2>1, <1>t, <1>n, <2>es, <2>v
      DEF TakeWins, LeaseType, TakeShape, RenewShape, Moving
    <3>2. MapType'
      BY <2>1, <1>t
      DEF TakeWins, MapType, Entry
    <3>3. FenceType'
      BY <2>1, <1>t, <1>n, <2>es, <2>v
      DEF TakeWins, FenceType, TakeShape, RenewShape
    <3>4. FlagType'
      BY <2>1, <1>t
      DEF TakeWins, FlagType
    <3>5. StageType'
      BY <2>1, <1>t
      DEF TakeWins, StageType
    <3>6. \A x \in Entry \ {e} : EntrySame(x)
      BY <2>1, <1>t
      DEF TakeWins, EntrySame, FenceType, FlagType, StageType
    <3>7. TakeShape(e)'
      BY <2>1, <1>t, <2>es
      DEF TakeWins, TakeShape, RenewShape, Moving, FenceType, FlagType, StageType,
          MapType, LeaseType, Entry
    <3>8. RenewShape(e)'
      BY <2>1, <1>t, <2>es
      DEF TakeWins, TakeShape, RenewShape, Moving, FenceType, StageType
    <3>9. \A c \in Caller : CallerShape(c)'
      BY <2>1, <1>t, <2>es, <1>c
      DEF TakeWins, CallerShape, TakeShape, RenewShape, FenceType, StageType, MapType,
          Entry
    <3> QED
      BY <3>1, <3>2, <3>3, <3>4, <3>5, <3>6, <3>7, <3>8, <3>9, <1>s, TypeParts DEF EntryShape
  <2>2. CASE TakeBusy(e)
    <3>1. LeaseType'
      BY <2>2, <1>t, <1>n, <2>es, <2>v
      DEF TakeBusy, TakeSettles, RenewalSettles, EndingWakes, CallersWake, LeaseType,
          TakeShape, RenewShape, Moving
    <3>2. MapType'
      BY <2>2, <1>t
      DEF TakeBusy, TakeSettles, RenewalSettles, EndingWakes, CallersWake, MapType,
          Entry
    <3>3. FenceType'
      BY <2>2, <1>t, <1>n, <2>es, <2>v
      DEF TakeBusy, TakeSettles, RenewalSettles, EndingWakes, CallersWake, FenceType,
          TakeShape, RenewShape
    <3>4. FlagType'
      BY <2>2, <1>t
      DEF TakeBusy, TakeSettles, RenewalSettles, EndingWakes, CallersWake, FlagType
    <3>5. StageType'
      BY <2>2, <1>t
      DEF TakeBusy, TakeSettles, RenewalSettles, EndingWakes, CallersWake, StageType
    <3>6. \A x \in Entry \ {e} : EntrySame(x)
      BY <2>2, <1>t
      DEF TakeBusy, TakeSettles, RenewalSettles, EndingWakes, CallersWake, EntrySame,
          FenceType, FlagType, StageType
    <3>7. TakeShape(e)'
      BY <2>2, <1>t, <2>es
      DEF TakeBusy, TakeSettles, RenewalSettles, EndingWakes, CallersWake, TakeShape,
          RenewShape, Moving, FenceType, FlagType, StageType, MapType, LeaseType, Entry
    <3>8. RenewShape(e)'
      BY <2>2, <1>t, <2>es
      DEF TakeBusy, TakeSettles, RenewalSettles, EndingWakes, CallersWake, TakeShape,
          RenewShape, Moving, FenceType, StageType
    <3>9. \A c \in Caller : CallerShape(c)'
      BY <2>2, <1>t, <2>es, <1>c
      DEF TakeBusy, TakeSettles, RenewalSettles, EndingWakes, CallersWake, CallerShape,
          TakeShape, RenewShape, FenceType, StageType, MapType, Entry
    <3> QED
      BY <3>1, <3>2, <3>3, <3>4, <3>5, <3>6, <3>7, <3>8, <3>9, <1>s, TypeParts DEF EntryShape
  <2>3. CASE TakeThrows(e)
    <3>1. LeaseType'
      BY <2>3, <1>t, <1>n, <2>es, <2>v
      DEF TakeThrows, TakeSettles, RenewalSettles, EndingWakes, CallersWake, LeaseType,
          TakeShape, RenewShape, Moving
    <3>2. MapType'
      BY <2>3, <1>t
      DEF TakeThrows, TakeSettles, RenewalSettles, EndingWakes, CallersWake, MapType,
          Entry
    <3>3. FenceType'
      BY <2>3, <1>t, <1>n, <2>es, <2>v
      DEF TakeThrows, TakeSettles, RenewalSettles, EndingWakes, CallersWake, FenceType,
          TakeShape, RenewShape
    <3>4. FlagType'
      BY <2>3, <1>t
      DEF TakeThrows, TakeSettles, RenewalSettles, EndingWakes, CallersWake, FlagType
    <3>5. StageType'
      BY <2>3, <1>t
      DEF TakeThrows, TakeSettles, RenewalSettles, EndingWakes, CallersWake, StageType
    <3>6. \A x \in Entry \ {e} : EntrySame(x)
      BY <2>3, <1>t
      DEF TakeThrows, TakeSettles, RenewalSettles, EndingWakes, CallersWake, EntrySame,
          FenceType, FlagType, StageType
    <3>7. TakeShape(e)'
      BY <2>3, <1>t, <2>es
      DEF TakeThrows, TakeSettles, RenewalSettles, EndingWakes, CallersWake, TakeShape,
          RenewShape, Moving, FenceType, FlagType, StageType, MapType, LeaseType, Entry
    <3>8. RenewShape(e)'
      BY <2>3, <1>t, <2>es
      DEF TakeThrows, TakeSettles, RenewalSettles, EndingWakes, CallersWake, TakeShape,
          RenewShape, Moving, FenceType, StageType
    <3>9. \A c \in Caller : CallerShape(c)'
      BY <2>3, <1>t, <2>es, <1>c
      DEF TakeThrows, TakeSettles, RenewalSettles, EndingWakes, CallersWake,
          CallerShape, TakeShape, RenewShape, FenceType, StageType, MapType, Entry
    <3> QED
      BY <3>1, <3>2, <3>3, <3>4, <3>5, <3>6, <3>7, <3>8, <3>9, <1>s, TypeParts DEF EntryShape
  <2>4. CASE TakeInstalls(e)
    <3>1. LeaseType'
      BY <2>4, <1>t, <1>n, <2>es, <2>v
      DEF TakeInstalls, TakeSettles, RenewalSettles, EndingWakes, CallersWake,
          LeaseType, TakeShape, RenewShape, Moving
    <3>2. MapType'
      BY <2>4, <1>t
      DEF TakeInstalls, TakeSettles, RenewalSettles, EndingWakes, CallersWake, MapType,
          Entry
    <3>3. FenceType'
      BY <2>4, <1>t, <1>n, <2>es, <2>v
      DEF TakeInstalls, TakeSettles, RenewalSettles, EndingWakes, CallersWake,
          FenceType, TakeShape, RenewShape
    <3>4. FlagType'
      BY <2>4, <1>t
      DEF TakeInstalls, TakeSettles, RenewalSettles, EndingWakes, CallersWake, FlagType
    <3>5. StageType'
      BY <2>4, <1>t
      DEF TakeInstalls, TakeSettles, RenewalSettles, EndingWakes, CallersWake, StageType
    <3>6. \A x \in Entry \ {e} : EntrySame(x)
      BY <2>4, <1>t
      DEF TakeInstalls, TakeSettles, RenewalSettles, EndingWakes, CallersWake,
          EntrySame, FenceType, FlagType, StageType
    <3>7. TakeShape(e)'
      BY <2>4, <1>t, <2>es
      DEF TakeInstalls, TakeSettles, RenewalSettles, EndingWakes, CallersWake,
          TakeShape, RenewShape, Moving, FenceType, FlagType, StageType, MapType,
          LeaseType, Entry
    <3>8. RenewShape(e)'
      BY <2>4, <1>t, <2>es
      DEF TakeInstalls, TakeSettles, RenewalSettles, EndingWakes, CallersWake,
          TakeShape, RenewShape, Moving, FenceType, StageType
    <3>9. \A c \in Caller : CallerShape(c)'
      <4>1. hold'[e] # 0 /\ \A x \in Entry \ {e} : hold'[x] = hold[x]
        BY <2>4, <1>t, <2>es DEF TakeInstalls, TakeShape, FenceType, StageType
      <4>2. used' = used /\ at' = at
        BY <2>4 DEF TakeInstalls
      <4>3. ASSUME NEW c \in Caller, pc'[c] # pc[c]
            PROVE  pc'[c] \in {"look", "failed"} /\ at[c] = e
        <5>1. pc' = pc \/ CallersWake(e, "ok")
          BY <2>4 DEF TakeInstalls, TakeSettles
        <5> QED
          BY <4>3, <5>1 DEF CallersWake
      <4>4. ASSUME NEW c \in Caller PROVE CallerShape(c)'
        <5>1. CallerShape(c) /\ at[c] \in 0..MaxEntries
          BY <1>t, <1>c DEF FenceType
        <5>2. at[c] # 0 => at[c] \in Entry
          BY <5>1 DEF Entry
        <5>3. at[c] # 0 /\ hold[at[c]] # 0 => hold'[at[c]] # 0
          BY <4>1, <5>2
        <5>4. CASE pc'[c] = pc[c]
          BY <4>2, <5>1, <5>3, <5>4 DEF CallerShape
        <5>5. CASE pc'[c] # pc[c]
          <6>1. e # 0 /\ at[c] = e
            BY <4>3, <5>5 DEF Entry
          <6> QED
            BY <4>1, <4>2, <4>3, <5>1, <5>5, <6>1 DEF CallerShape
        <5> QED
          BY <5>4, <5>5
      <4> QED
        BY <4>4
    <3> QED
      BY <3>1, <3>2, <3>3, <3>4, <3>5, <3>6, <3>7, <3>8, <3>9, <1>s, TypeParts DEF EntryShape
  <2>5. CASE RetakeEnds(e)
    <3>1. LeaseType'
      BY <2>5, <1>t, <1>n, <2>es, <2>v
      DEF RetakeEnds, TakeSettles, RenewalSettles, EndingWakes, CallersWake, LeaseType,
          TakeShape, RenewShape, Moving
    <3>2. MapType'
      BY <2>5, <1>t
      DEF RetakeEnds, TakeSettles, RenewalSettles, EndingWakes, CallersWake, MapType,
          Entry
    <3>3. FenceType'
      BY <2>5, <1>t, <1>n, <2>es, <2>v
      DEF RetakeEnds, TakeSettles, RenewalSettles, EndingWakes, CallersWake, FenceType,
          TakeShape, RenewShape
    <3>4. FlagType'
      BY <2>5, <1>t
      DEF RetakeEnds, TakeSettles, RenewalSettles, EndingWakes, CallersWake, FlagType
    <3>5. StageType'
      BY <2>5, <1>t
      DEF RetakeEnds, TakeSettles, RenewalSettles, EndingWakes, CallersWake, StageType
    <3>6. \A x \in Entry \ {e} : EntrySame(x)
      BY <2>5, <1>t
      DEF RetakeEnds, TakeSettles, RenewalSettles, EndingWakes, CallersWake, EntrySame,
          FenceType, FlagType, StageType
    <3>7. TakeShape(e)'
      BY <2>5, <1>t, <2>es
      DEF RetakeEnds, TakeSettles, RenewalSettles, EndingWakes, CallersWake, TakeShape,
          RenewShape, Moving, FenceType, FlagType, StageType, MapType, LeaseType, Entry
    <3>8. RenewShape(e)'
      BY <2>5, <1>t, <2>es
      DEF RetakeEnds, TakeSettles, RenewalSettles, EndingWakes, CallersWake, TakeShape,
          RenewShape, Moving, FenceType, StageType
    <3>9. \A c \in Caller : CallerShape(c)'
      BY <2>5, <1>t, <2>es, <1>c
      DEF RetakeEnds, TakeSettles, RenewalSettles, EndingWakes, CallersWake,
          CallerShape, TakeShape, RenewShape, FenceType, StageType, MapType, Entry
    <3> QED
      BY <3>1, <3>2, <3>3, <3>4, <3>5, <3>6, <3>7, <3>8, <3>9, <1>s, TypeParts DEF EntryShape
  <2>6. CASE EndRelease(e)
    <3>1. LeaseType'
      BY <2>6, <1>t, <1>n, <2>es, <2>v
      DEF EndRelease, LeaseType, TakeShape, RenewShape, Moving
    <3>2. MapType'
      BY <2>6, <1>t
      DEF EndRelease, MapType, Entry
    <3>3. FenceType'
      BY <2>6, <1>t, <1>n, <2>es, <2>v
      DEF EndRelease, FenceType, TakeShape, RenewShape
    <3>4. FlagType'
      BY <2>6, <1>t
      DEF EndRelease, FlagType
    <3>5. StageType'
      BY <2>6, <1>t
      DEF EndRelease, StageType
    <3>6. \A x \in Entry \ {e} : EntrySame(x)
      BY <2>6, <1>t
      DEF EndRelease, EntrySame, FenceType, FlagType, StageType
    <3>7. TakeShape(e)'
      BY <2>6, <1>t, <2>es
      DEF EndRelease, TakeShape, RenewShape, Moving, FenceType, FlagType, StageType,
          MapType, LeaseType, Entry
    <3>8. RenewShape(e)'
      BY <2>6, <1>t, <2>es
      DEF EndRelease, TakeShape, RenewShape, Moving, FenceType, StageType
    <3>9. \A c \in Caller : CallerShape(c)'
      BY <2>6, <1>t, <2>es, <1>c
      DEF EndRelease, CallerShape, TakeShape, RenewShape, FenceType, StageType, MapType,
          Entry
    <3> QED
      BY <3>1, <3>2, <3>3, <3>4, <3>5, <3>6, <3>7, <3>8, <3>9, <1>s, TypeParts DEF EntryShape
  <2>7. CASE Tick(e)
    <3>1. LeaseType'
      BY <2>7, <1>t, <1>n, <2>es, <2>v
      DEF Tick, LeaseType, TakeShape, RenewShape, Moving
    <3>2. MapType'
      BY <2>7, <1>t
      DEF Tick, MapType, Entry
    <3>3. FenceType'
      BY <2>7, <1>t, <1>n, <2>es, <2>v
      DEF Tick, FenceType, TakeShape, RenewShape
    <3>4. FlagType'
      BY <2>7, <1>t
      DEF Tick, FlagType
    <3>5. StageType'
      BY <2>7, <1>t
      DEF Tick, StageType
    <3>6. \A x \in Entry \ {e} : EntrySame(x)
      BY <2>7, <1>t
      DEF Tick, EntrySame, FenceType, FlagType, StageType
    <3>7. TakeShape(e)'
      BY <2>7, <1>t, <2>es
      DEF Tick, TakeShape, RenewShape, Moving, FenceType, FlagType, StageType, MapType,
          LeaseType, Entry
    <3>8. RenewShape(e)'
      BY <2>7, <1>t, <2>es
      DEF Tick, TakeShape, RenewShape, Moving, FenceType, StageType
    <3>9. \A c \in Caller : CallerShape(c)'
      BY <2>7, <1>t, <2>es, <1>c
      DEF Tick, CallerShape, TakeShape, RenewShape, FenceType, StageType, MapType, Entry
    <3> QED
      BY <3>1, <3>2, <3>3, <3>4, <3>5, <3>6, <3>7, <3>8, <3>9, <1>s, TypeParts DEF EntryShape
  <2>8. CASE RenewHeld(e)
    <3>1. LeaseType'
      BY <2>8, <1>t, <1>n, <2>es, <2>v
      DEF RenewHeld, RenewalSettles, EndingWakes, LeaseType, TakeShape, RenewShape,
          Moving
    <3>2. MapType'
      BY <2>8, <1>t
      DEF RenewHeld, RenewalSettles, EndingWakes, MapType, Entry
    <3>3. FenceType'
      BY <2>8, <1>t, <1>n, <2>es, <2>v
      DEF RenewHeld, RenewalSettles, EndingWakes, FenceType, TakeShape, RenewShape
    <3>4. FlagType'
      BY <2>8, <1>t
      DEF RenewHeld, RenewalSettles, EndingWakes, FlagType
    <3>5. StageType'
      BY <2>8, <1>t
      DEF RenewHeld, RenewalSettles, EndingWakes, StageType
    <3>6. \A x \in Entry \ {e} : EntrySame(x)
      BY <2>8, <1>t
      DEF RenewHeld, RenewalSettles, EndingWakes, EntrySame, FenceType, FlagType,
          StageType
    <3>7. TakeShape(e)'
      BY <2>8, <1>t, <2>es
      DEF RenewHeld, RenewalSettles, EndingWakes, TakeShape, RenewShape, Moving,
          FenceType, FlagType, StageType, MapType, LeaseType, Entry
    <3>8. RenewShape(e)'
      BY <2>8, <1>t, <2>es
      DEF RenewHeld, RenewalSettles, EndingWakes, TakeShape, RenewShape, Moving,
          FenceType, StageType
    <3>9. \A c \in Caller : CallerShape(c)'
      BY <2>8, <1>t, <2>es, <1>c
      DEF RenewHeld, RenewalSettles, EndingWakes, CallerShape, TakeShape, RenewShape,
          FenceType, StageType, MapType, Entry
    <3> QED
      BY <3>1, <3>2, <3>3, <3>4, <3>5, <3>6, <3>7, <3>8, <3>9, <1>s, TypeParts DEF EntryShape
  <2>9. CASE RenewLost(e)
    <3>1. LeaseType'
      BY <2>9, <1>t, <1>n, <2>es, <2>v
      DEF RenewLost, RenewalSettles, EndingWakes, Retakes, StartTake, Fenced, LeaseType,
          TakeShape, RenewShape, Moving
    <3>2. MapType'
      BY <2>9, <1>t
      DEF RenewLost, RenewalSettles, EndingWakes, Retakes, StartTake, Fenced, MapType,
          Entry
    <3>3. FenceType'
      BY <2>9, <1>t, <1>n, <2>es, <2>v
      DEF RenewLost, RenewalSettles, EndingWakes, Retakes, StartTake, Fenced, FenceType,
          TakeShape, RenewShape
    <3>4. FlagType'
      BY <2>9, <1>t
      DEF RenewLost, RenewalSettles, EndingWakes, Retakes, StartTake, Fenced, FlagType
    <3>5. StageType'
      BY <2>9, <1>t
      DEF RenewLost, RenewalSettles, EndingWakes, Retakes, StartTake, Fenced, StageType
    <3>6. \A x \in Entry \ {e} : EntrySame(x)
      BY <2>9, <1>t
      DEF RenewLost, RenewalSettles, EndingWakes, Retakes, StartTake, Fenced, EntrySame,
          FenceType, FlagType, StageType
    <3>7. TakeShape(e)'
      BY <2>9, <1>t, <2>es
      DEF RenewLost, RenewalSettles, EndingWakes, Retakes, StartTake, Fenced, TakeShape,
          RenewShape, Moving, FenceType, FlagType, StageType, MapType, LeaseType, Entry
    <3>8. RenewShape(e)'
      BY <2>9, <1>t, <2>es
      DEF RenewLost, RenewalSettles, EndingWakes, Retakes, StartTake, Fenced, TakeShape,
          RenewShape, Moving, FenceType, StageType
    <3>9. \A c \in Caller : CallerShape(c)'
      BY <2>9, <1>t, <2>es, <1>c
      DEF RenewLost, RenewalSettles, EndingWakes, Retakes, StartTake, Fenced,
          CallerShape, TakeShape, RenewShape, FenceType, StageType, MapType, Entry
    <3> QED
      BY <3>1, <3>2, <3>3, <3>4, <3>5, <3>6, <3>7, <3>8, <3>9, <1>s, TypeParts DEF EntryShape
  <2>10. CASE AdvanceFenced(e)
    <3>1. LeaseType'
      BY <2>10, <1>t, <1>n, <2>es, <2>v
      DEF AdvanceFenced, AdvanceSettles, EndingWakes, LeaseType, TakeShape, RenewShape,
          Moving
    <3>2. MapType'
      BY <2>10, <1>t
      DEF AdvanceFenced, AdvanceSettles, EndingWakes, MapType, Entry
    <3>3. FenceType'
      BY <2>10, <1>t, <1>n, <2>es, <2>v
      DEF AdvanceFenced, AdvanceSettles, EndingWakes, FenceType, TakeShape, RenewShape
    <3>4. FlagType'
      BY <2>10, <1>t
      DEF AdvanceFenced, AdvanceSettles, EndingWakes, FlagType
    <3>5. StageType'
      BY <2>10, <1>t
      DEF AdvanceFenced, AdvanceSettles, EndingWakes, StageType
    <3>6. \A x \in Entry \ {e} : EntrySame(x)
      BY <2>10, <1>t
      DEF AdvanceFenced, AdvanceSettles, EndingWakes, EntrySame, FenceType, FlagType,
          StageType
    <3>7. TakeShape(e)'
      BY <2>10, <1>t, <2>es
      DEF AdvanceFenced, AdvanceSettles, EndingWakes, TakeShape, RenewShape, Moving,
          FenceType, FlagType, StageType, MapType, LeaseType, Entry
    <3>8. RenewShape(e)'
      BY <2>10, <1>t, <2>es
      DEF AdvanceFenced, AdvanceSettles, EndingWakes, TakeShape, RenewShape, Moving,
          FenceType, StageType
    <3>9. \A c \in Caller : CallerShape(c)'
      BY <2>10, <1>t, <2>es, <1>c
      DEF AdvanceFenced, AdvanceSettles, EndingWakes, CallerShape, TakeShape,
          RenewShape, FenceType, StageType, MapType, Entry
    <3> QED
      BY <3>1, <3>2, <3>3, <3>4, <3>5, <3>6, <3>7, <3>8, <3>9, <1>s, TypeParts DEF EntryShape
  <2>11. CASE AdvanceCurrent(e)
    <3>1. LeaseType'
      BY <2>11, <1>t, <1>n, <2>es, <2>v
      DEF AdvanceCurrent, LeaseType, TakeShape, RenewShape, Moving
    <3>2. MapType'
      BY <2>11, <1>t
      DEF AdvanceCurrent, MapType, Entry
    <3>3. FenceType'
      BY <2>11, <1>t, <1>n, <2>es, <2>v
      DEF AdvanceCurrent, FenceType, TakeShape, RenewShape
    <3>4. FlagType'
      BY <2>11, <1>t
      DEF AdvanceCurrent, FlagType
    <3>5. StageType'
      BY <2>11, <1>t
      DEF AdvanceCurrent, StageType
    <3>6. \A x \in Entry \ {e} : EntrySame(x)
      BY <2>11, <1>t
      DEF AdvanceCurrent, EntrySame, FenceType, FlagType, StageType
    <3>7. TakeShape(e)'
      BY <2>11, <1>t, <2>es
      DEF AdvanceCurrent, TakeShape, RenewShape, Moving, FenceType, FlagType, StageType,
          MapType, LeaseType, Entry
    <3>8. RenewShape(e)'
      BY <2>11, <1>t, <2>es
      DEF AdvanceCurrent, TakeShape, RenewShape, Moving, FenceType, StageType
    <3>9. \A c \in Caller : CallerShape(c)'
      BY <2>11, <1>t, <2>es, <1>c
      DEF AdvanceCurrent, CallerShape, TakeShape, RenewShape, FenceType, StageType,
          MapType, Entry
    <3> QED
      BY <3>1, <3>2, <3>3, <3>4, <3>5, <3>6, <3>7, <3>8, <3>9, <1>s, TypeParts DEF EntryShape
  <2>12. CASE AdvanceCreate(e)
    <3>1. LeaseType'
      BY <2>12, <1>t, <1>n, <2>es, <2>v
      DEF AdvanceCreate, LeaseType, TakeShape, RenewShape, Moving
    <3>2. MapType'
      BY <2>12, <1>t
      DEF AdvanceCreate, MapType, Entry
    <3>3. FenceType'
      BY <2>12, <1>t, <1>n, <2>es, <2>v
      DEF AdvanceCreate, FenceType, TakeShape, RenewShape
    <3>4. FlagType'
      BY <2>12, <1>t
      DEF AdvanceCreate, FlagType
    <3>5. StageType'
      BY <2>12, <1>t
      DEF AdvanceCreate, StageType
    <3>6. \A x \in Entry \ {e} : EntrySame(x)
      BY <2>12, <1>t
      DEF AdvanceCreate, EntrySame, FenceType, FlagType, StageType
    <3>7. TakeShape(e)'
      BY <2>12, <1>t, <2>es
      DEF AdvanceCreate, TakeShape, RenewShape, Moving, FenceType, FlagType, StageType,
          MapType, LeaseType, Entry
    <3>8. RenewShape(e)'
      BY <2>12, <1>t, <2>es
      DEF AdvanceCreate, TakeShape, RenewShape, Moving, FenceType, StageType
    <3>9. \A c \in Caller : CallerShape(c)'
      BY <2>12, <1>t, <2>es, <1>c
      DEF AdvanceCreate, CallerShape, TakeShape, RenewShape, FenceType, StageType,
          MapType, Entry
    <3> QED
      BY <3>1, <3>2, <3>3, <3>4, <3>5, <3>6, <3>7, <3>8, <3>9, <1>s, TypeParts DEF EntryShape
  <2>13. CASE AdvanceMark(e)
    <3>1. LeaseType'
      BY <2>13, <1>t, <1>n, <2>es, <2>v
      DEF AdvanceMark, AdvanceSettles, EndingWakes, LeaseType, TakeShape, RenewShape,
          Moving
    <3>2. MapType'
      BY <2>13, <1>t
      DEF AdvanceMark, AdvanceSettles, EndingWakes, MapType, Entry
    <3>3. FenceType'
      BY <2>13, <1>t, <1>n, <2>es, <2>v
      DEF AdvanceMark, AdvanceSettles, EndingWakes, FenceType, TakeShape, RenewShape
    <3>4. FlagType'
      BY <2>13, <1>t
      DEF AdvanceMark, AdvanceSettles, EndingWakes, FlagType
    <3>5. StageType'
      BY <2>13, <1>t
      DEF AdvanceMark, AdvanceSettles, EndingWakes, StageType
    <3>6. \A x \in Entry \ {e} : EntrySame(x)
      BY <2>13, <1>t
      DEF AdvanceMark, AdvanceSettles, EndingWakes, EntrySame, FenceType, FlagType,
          StageType
    <3>7. TakeShape(e)'
      BY <2>13, <1>t, <2>es
      DEF AdvanceMark, AdvanceSettles, EndingWakes, TakeShape, RenewShape, Moving,
          FenceType, FlagType, StageType, MapType, LeaseType, Entry
    <3>8. RenewShape(e)'
      BY <2>13, <1>t, <2>es
      DEF AdvanceMark, AdvanceSettles, EndingWakes, TakeShape, RenewShape, Moving,
          FenceType, StageType
    <3>9. \A c \in Caller : CallerShape(c)'
      BY <2>13, <1>t, <2>es, <1>c
      DEF AdvanceMark, AdvanceSettles, EndingWakes, CallerShape, TakeShape, RenewShape,
          FenceType, StageType, MapType, Entry
    <3> QED
      BY <3>1, <3>2, <3>3, <3>4, <3>5, <3>6, <3>7, <3>8, <3>9, <1>s, TypeParts DEF EntryShape
  <2>14. CASE AdvanceRaised(e)
    <3>1. LeaseType'
      BY <2>14, <1>t, <1>n, <2>es, <2>v
      DEF AdvanceRaised, LeaseType, TakeShape, RenewShape, Moving
    <3>2. MapType'
      BY <2>14, <1>t
      DEF AdvanceRaised, MapType, Entry
    <3>3. FenceType'
      BY <2>14, <1>t, <1>n, <2>es, <2>v
      DEF AdvanceRaised, FenceType, TakeShape, RenewShape
    <3>4. FlagType'
      BY <2>14, <1>t
      DEF AdvanceRaised, FlagType
    <3>5. StageType'
      BY <2>14, <1>t
      DEF AdvanceRaised, StageType
    <3>6. \A x \in Entry \ {e} : EntrySame(x)
      BY <2>14, <1>t
      DEF AdvanceRaised, EntrySame, FenceType, FlagType, StageType
    <3>7. TakeShape(e)'
      BY <2>14, <1>t, <2>es
      DEF AdvanceRaised, TakeShape, RenewShape, Moving, FenceType, FlagType, StageType,
          MapType, LeaseType, Entry
    <3>8. RenewShape(e)'
      BY <2>14, <1>t, <2>es
      DEF AdvanceRaised, TakeShape, RenewShape, Moving, FenceType, StageType
    <3>9. \A c \in Caller : CallerShape(c)'
      BY <2>14, <1>t, <2>es, <1>c
      DEF AdvanceRaised, CallerShape, TakeShape, RenewShape, FenceType, StageType,
          MapType, Entry
    <3> QED
      BY <3>1, <3>2, <3>3, <3>4, <3>5, <3>6, <3>7, <3>8, <3>9, <1>s, TypeParts DEF EntryShape
  <2>15. CASE AdvanceInstalls(e)
    <3>1. LeaseType'
      BY <2>15, <1>t, <1>n, <2>es, <2>v
      DEF AdvanceInstalls, AdvanceSettles, EndingWakes, LeaseType, TakeShape,
          RenewShape, Moving
    <3>2. MapType'
      BY <2>15, <1>t
      DEF AdvanceInstalls, AdvanceSettles, EndingWakes, MapType, Entry
    <3>3. FenceType'
      BY <2>15, <1>t, <1>n, <2>es, <2>v
      DEF AdvanceInstalls, AdvanceSettles, EndingWakes, FenceType, TakeShape, RenewShape
    <3>4. FlagType'
      BY <2>15, <1>t
      DEF AdvanceInstalls, AdvanceSettles, EndingWakes, FlagType
    <3>5. StageType'
      BY <2>15, <1>t
      DEF AdvanceInstalls, AdvanceSettles, EndingWakes, StageType
    <3>6. \A x \in Entry \ {e} : EntrySame(x)
      BY <2>15, <1>t
      DEF AdvanceInstalls, AdvanceSettles, EndingWakes, EntrySame, FenceType, FlagType,
          StageType
    <3>7. TakeShape(e)'
      BY <2>15, <1>t, <2>es
      DEF AdvanceInstalls, AdvanceSettles, EndingWakes, TakeShape, RenewShape, Moving,
          FenceType, FlagType, StageType, MapType, LeaseType, Entry
    <3>8. RenewShape(e)'
      BY <2>15, <1>t, <2>es
      DEF AdvanceInstalls, AdvanceSettles, EndingWakes, TakeShape, RenewShape, Moving,
          FenceType, StageType
    <3>9. \A c \in Caller : CallerShape(c)'
      BY <2>15, <1>t, <2>es, <1>c
      DEF AdvanceInstalls, AdvanceSettles, EndingWakes, CallerShape, TakeShape,
          RenewShape, FenceType, StageType, MapType, Entry
    <3> QED
      BY <3>1, <3>2, <3>3, <3>4, <3>5, <3>6, <3>7, <3>8, <3>9, <1>s, TypeParts DEF EntryShape
  <2>16. CASE AdvanceThrows(e)
    <3>1. LeaseType'
      BY <2>16, <1>t, <1>n, <2>es, <2>v
      DEF AdvanceThrows, AdvanceSettles, EndingWakes, LeaseType, TakeShape, RenewShape,
          Moving
    <3>2. MapType'
      BY <2>16, <1>t
      DEF AdvanceThrows, AdvanceSettles, EndingWakes, MapType, Entry
    <3>3. FenceType'
      BY <2>16, <1>t, <1>n, <2>es, <2>v
      DEF AdvanceThrows, AdvanceSettles, EndingWakes, FenceType, TakeShape, RenewShape
    <3>4. FlagType'
      BY <2>16, <1>t
      DEF AdvanceThrows, AdvanceSettles, EndingWakes, FlagType
    <3>5. StageType'
      BY <2>16, <1>t
      DEF AdvanceThrows, AdvanceSettles, EndingWakes, StageType
    <3>6. \A x \in Entry \ {e} : EntrySame(x)
      BY <2>16, <1>t
      DEF AdvanceThrows, AdvanceSettles, EndingWakes, EntrySame, FenceType, FlagType,
          StageType
    <3>7. TakeShape(e)'
      BY <2>16, <1>t, <2>es
      DEF AdvanceThrows, AdvanceSettles, EndingWakes, TakeShape, RenewShape, Moving,
          FenceType, FlagType, StageType, MapType, LeaseType, Entry
    <3>8. RenewShape(e)'
      BY <2>16, <1>t, <2>es
      DEF AdvanceThrows, AdvanceSettles, EndingWakes, TakeShape, RenewShape, Moving,
          FenceType, StageType
    <3>9. \A c \in Caller : CallerShape(c)'
      BY <2>16, <1>t, <2>es, <1>c
      DEF AdvanceThrows, AdvanceSettles, EndingWakes, CallerShape, TakeShape,
          RenewShape, FenceType, StageType, MapType, Entry
    <3> QED
      BY <3>1, <3>2, <3>3, <3>4, <3>5, <3>6, <3>7, <3>8, <3>9, <1>s, TypeParts DEF EntryShape
  <2> QED
    BY <1>1, <2>1, <2>2, <2>3, <2>4, <2>5, <2>6, <2>7, <2>8, <2>9, <2>10, <2>11, <2>12,
       <2>13, <2>14, <2>15, <2>16 DEF EntryStep
<1>2. ASSUME NEW c \in Caller, CallerStep(c) PROVE LockShape'
  <2>cs. CallerShape(c)
    BY <1>c
  <2>1. CASE AcquireFirst(c)
    <3>1. LeaseType'
      BY <2>1, <1>t, <1>n, <2>cs
      DEF AcquireFirst, StartTake, LeaseType, TakeShape, RenewShape, Moving
    <3>2. MapType'
      BY <2>1, <1>t
      DEF AcquireFirst, StartTake, MapType, Entry
    <3>3. FenceType'
      <4>1. used + 1 \in Entry /\ used + 1 \in 0..MaxEntries
        BY <2>1, <1>t DEF AcquireFirst, MapType, Entry
      <4> QED
        BY <2>1, <1>t, <1>n, <4>1 DEF AcquireFirst, StartTake, FenceType
    <3>4. FlagType'
      BY <2>1, <1>t
      DEF AcquireFirst, StartTake, FlagType
    <3>5. StageType'
      BY <2>1, <1>t
      DEF AcquireFirst, StartTake, StageType
    <3>6. \A x \in Entry : EntryShape(x)'
      <4> SUFFICES ASSUME NEW x \in Entry PROVE EntryShape(x)'
        OBVIOUS
      <4>1. x \in Nat /\ used \in Nat /\ EntryShape(x)
        BY <1>t, <1>e DEF Entry, MapType
      <4>2. CASE x = used + 1
        <5>1. /\ hold'[x] = 0 /\ renew'[x] = "none" /\ adv'[x] = adv[x] /\ timer'[x] = timer[x]
              /\ take'[x] = "trying" /\ takeBy'[x] = "first" /\ used' = x
              /\ renew[x] = "none" /\ ~timer[x] /\ hold[x] = 0
          BY <2>1, <1>t, <4>1, <4>2
          DEF AcquireFirst, StartTake, EntryShape, TakeShape, FenceType, StageType, FlagType
        <5> QED
          BY <2>1, <4>1, <4>2, <5>1
          DEF AcquireFirst, EntryShape, TakeShape, RenewShape, Moving
      <4>3. CASE x # used + 1
        <5>1. /\ hold'[x] = hold[x] /\ timer'[x] = timer[x]
              /\ take'[x] = take[x] /\ takeBy'[x] = takeBy[x] /\ got'[x] = got[x]
              /\ renew' = renew /\ renewed' = renewed /\ adv' = adv /\ advNew' = advNew
              /\ used' = used + 1
          BY <2>1, <1>t, <4>3 DEF AcquireFirst, StartTake, FenceType, StageType
        <5> QED
          BY <4>1, <4>3, <5>1 DEF EntryShape, TakeShape, RenewShape
      <4> QED
        BY <4>2, <4>3
    <3>7. \A x \in Caller \ {c} : CallerShape(x)'
      BY <2>1, <1>t, <1>c
      DEF AcquireFirst, StartTake, CallerShape, FenceType, StageType, MapType
    <3>8. CallerShape(c)'
      BY <2>1, <1>t, <1>c
      DEF AcquireFirst, StartTake, CallerShape, FenceType, StageType, MapType, Entry
    <3> QED
      BY <3>1, <3>2, <3>3, <3>4, <3>5, <3>6, <3>7, <3>8, <1>s, TypeParts DEF EntryShape
  <2>2. CASE AcquireJoin(c)
    <3>1. LeaseType'
      BY <2>2, <1>t, <1>n, <2>cs
      DEF AcquireJoin, LeaseType, TakeShape, RenewShape, Moving
    <3>2. MapType'
      BY <2>2, <1>t
      DEF AcquireJoin, MapType, Entry
    <3>3. FenceType'
      <4>1. current \in 0..MaxEntries
        BY <1>t DEF MapType
      <4> QED
        BY <2>2, <1>t, <4>1 DEF AcquireJoin, FenceType
    <3>4. FlagType'
      BY <2>2, <1>t
      DEF AcquireJoin, FlagType
    <3>5. StageType'
      BY <2>2, <1>t
      DEF AcquireJoin, StageType
    <3>6. \A x \in Entry : EntryShape(x)'
      BY <2>2, <1>t, <1>s
      DEF AcquireJoin, EntrySame
    <3>7. \A x \in Caller \ {c} : CallerShape(x)'
      BY <2>2, <1>t, <1>c
      DEF AcquireJoin, CallerShape, FenceType, StageType, MapType
    <3>8. CallerShape(c)'
      BY <2>2, <1>t, <1>c
      DEF AcquireJoin, CallerShape, FenceType, StageType, MapType, Entry
    <3> QED
      BY <3>1, <3>2, <3>3, <3>4, <3>5, <3>6, <3>7, <3>8, <1>s, TypeParts DEF EntryShape
  <2>3. CASE LookRetakes(c)
    <3>1. LeaseType'
      BY <2>3, <1>t, <1>n, <2>cs
      DEF LookRetakes, StartTake, Lost, LeaseType, TakeShape, RenewShape, Moving
    <3>2. MapType'
      BY <2>3, <1>t
      DEF LookRetakes, StartTake, Lost, MapType, Entry
    <3>3. FenceType'
      BY <2>3, <1>t, <1>n, <2>cs
      DEF LookRetakes, StartTake, Lost, FenceType, TakeShape, RenewShape
    <3>4. FlagType'
      BY <2>3, <1>t
      DEF LookRetakes, StartTake, Lost, FlagType
    <3>5. StageType'
      BY <2>3, <1>t
      DEF LookRetakes, StartTake, Lost, StageType
    <3>6. \A x \in Entry : EntryShape(x)'
      <4>1. at[c] \in Entry /\ hold[at[c]] # 0
        BY <2>3, <1>t, <2>cs DEF LookRetakes, Lost, CallerShape, FenceType, Entry
      <4>2. ASSUME NEW x \in Entry, x # at[c] PROVE EntrySame(x)
        BY <2>3, <1>t, <4>2 DEF LookRetakes, StartTake, EntrySame, FenceType, StageType
      <4>3. EntryShape(at[c])
        BY <1>e, <4>1
      <4>4. EntrySame(at[c]) \/ take'[at[c]] = "trying"
        BY <2>3, <1>t, <4>1 DEF LookRetakes, StartTake, EntrySame, FenceType, StageType
      <4>6. /\ used' = used /\ hold' = hold /\ timer' = timer /\ UNCHANGED <<renewal, advance>>
        BY <2>3 DEF LookRetakes
      <4>7. take'[at[c]] = "trying" => EntryShape(at[c])' \/ EntrySame(at[c])
        <5> SUFFICES ASSUME take[at[c]] = "none" PROVE EntryShape(at[c])' \/ EntrySame(at[c])
          BY <2>3 DEF LookRetakes, EntrySame
        <5>1. ~(at[c] > used)
          BY <1>t, <2>cs DEF CallerShape, MapType, FenceType
        <5>2. take'[at[c]] = "trying" /\ at' = at
          BY <2>3, <1>t, <4>1 DEF LookRetakes, StartTake, StageType
        <5> QED
          BY <4>1, <4>3, <4>6, <5>1, <5>2 DEF EntryShape, TakeShape, RenewShape
      <4>8. EntryShape(at[c])' \/ EntrySame(at[c])
        BY <4>4, <4>7
      <4>9. at' = at
        BY <2>3 DEF LookRetakes
      <4> QED
        BY <1>s, <4>1, <4>2, <4>8, <4>9
    <3>7. \A x \in Caller \ {c} : CallerShape(x)'
      BY <2>3, <1>t, <1>c
      DEF LookRetakes, StartTake, Lost, CallerShape, FenceType, StageType, MapType
    <3>8. CallerShape(c)'
      BY <2>3, <1>t, <1>c
      DEF LookRetakes, StartTake, Lost, CallerShape, FenceType, StageType, MapType,
          Entry
    <3> QED
      BY <3>1, <3>2, <3>3, <3>4, <3>5, <3>6, <3>7, <3>8, <1>s, TypeParts DEF EntryShape
  <2>4. CASE LookEnters(c)
    <3>1. LeaseType'
      BY <2>4, <1>t, <1>n, <2>cs
      DEF LookEnters, LeaseType, TakeShape, RenewShape, Moving
    <3>2. MapType'
      BY <2>4, <1>t
      DEF LookEnters, MapType, Entry
    <3>3. FenceType'
      BY <2>4, <1>t, <1>n, <2>cs
      DEF LookEnters, FenceType, TakeShape, RenewShape
    <3>4. FlagType'
      BY <2>4, <1>t
      DEF LookEnters, FlagType
    <3>5. StageType'
      BY <2>4, <1>t
      DEF LookEnters, StageType
    <3>6. \A x \in Entry : EntryShape(x)'
      BY <2>4, <1>t, <1>s
      DEF LookEnters, EntrySame
    <3>7. \A x \in Caller \ {c} : CallerShape(x)'
      BY <2>4, <1>t, <1>c
      DEF LookEnters, CallerShape, FenceType, StageType, MapType
    <3>8. CallerShape(c)'
      BY <2>4, <1>t, <1>c
      DEF LookEnters, CallerShape, FenceType, StageType, MapType, Entry
    <3> QED
      BY <3>1, <3>2, <3>3, <3>4, <3>5, <3>6, <3>7, <3>8, <1>s, TypeParts DEF EntryShape
  <2>5. CASE JoinCheck(c)
    <3>1. LeaseType'
      <4>1. at[c] \in Entry /\ hold[at[c]] # 0
        BY <2>5, <1>t, <2>cs DEF JoinCheck, CallerShape, FenceType, Entry
      <4>2. hold[at[c]] \in Fence
        BY <1>t, <4>1 DEF FenceType, Fence
      <4> QED
        BY <2>5, <1>t, <4>2 DEF JoinCheck, LeaseType
    <3>2. MapType'
      BY <2>5, <1>t
      DEF JoinCheck, MapType, Entry
    <3>3. FenceType'
      BY <2>5, <1>t, <1>n, <2>cs
      DEF JoinCheck, FenceType, TakeShape, RenewShape
    <3>4. FlagType'
      BY <2>5, <1>t
      DEF JoinCheck, FlagType
    <3>5. StageType'
      BY <2>5, <1>t
      DEF JoinCheck, StageType
    <3>6. \A x \in Entry : EntryShape(x)'
      BY <2>5, <1>t, <1>s
      DEF JoinCheck, EntrySame
    <3>7. \A x \in Caller \ {c} : CallerShape(x)'
      BY <2>5, <1>t, <1>c
      DEF JoinCheck, CallerShape, FenceType, StageType, MapType
    <3>8. CallerShape(c)'
      BY <2>5, <1>t, <1>c
      DEF JoinCheck, CallerShape, FenceType, StageType, MapType, Entry
    <3> QED
      BY <3>1, <3>2, <3>3, <3>4, <3>5, <3>6, <3>7, <3>8, <1>s, TypeParts DEF EntryShape
  <2>6. CASE Leave(c)
    <3>1. LeaseType'
      BY <2>6, <1>t, <1>n, <2>cs
      DEF Leave, BeginEnd, LeaseType, TakeShape, RenewShape, Moving
    <3>2. MapType'
      BY <2>6, <1>t
      DEF Leave, BeginEnd, MapType, Entry
    <3>3. FenceType'
      BY <2>6, <1>t, <1>n, <2>cs
      DEF Leave, BeginEnd, FenceType, TakeShape, RenewShape
    <3>4. FlagType'
      BY <2>6, <1>t
      DEF Leave, BeginEnd, FlagType
    <3>5. StageType'
      BY <2>6, <1>t
      DEF Leave, BeginEnd, StageType
    <3>6. \A x \in Entry : EntryShape(x)'
      <4> SUFFICES ASSUME NEW x \in Entry PROVE EntryShape(x)'
        OBVIOUS
      <4>1. /\ used' = used /\ hold' = hold
            /\ UNCHANGED <<taking, renewal, advance>>
        BY <2>6 DEF Leave
      <4>2. timer'[x] => timer[x]
        BY <2>6, <1>t DEF Leave, BeginEnd, FlagType
      <4> QED
        BY <1>e, <4>1, <4>2 DEF EntryShape, TakeShape, RenewShape
    <3>7. \A x \in Caller \ {c} : CallerShape(x)'
      BY <2>6, <1>t, <1>c
      DEF Leave, BeginEnd, CallerShape, FenceType, StageType, MapType
    <3>8. CallerShape(c)'
      BY <2>6, <1>t, <1>c
      DEF Leave, BeginEnd, CallerShape, FenceType, StageType, MapType, Entry
    <3> QED
      BY <3>1, <3>2, <3>3, <3>4, <3>5, <3>6, <3>7, <3>8, <1>s, TypeParts DEF EntryShape
  <2> QED
    BY <1>2, <2>1, <2>2, <2>3, <2>4, <2>5, <2>6 DEF CallerStep
<1>3. ASSUME AdvanceCall \/ OtherTakes \/ OtherMarks PROVE LockShape'
  <2>1. CASE AdvanceCall
    <3>1. LeaseType'
      BY <2>1, <1>t, <1>n
      DEF AdvanceCall, Lost, LeaseType, TakeShape, RenewShape, Moving
    <3>2. MapType'
      BY <2>1, <1>t
      DEF AdvanceCall, Lost, MapType, Entry
    <3>3. FenceType'
      BY <2>1, <1>t, <1>n
      DEF AdvanceCall, Lost, FenceType, TakeShape, RenewShape
    <3>4. FlagType'
      BY <2>1, <1>t
      DEF AdvanceCall, Lost, FlagType
    <3>5. StageType'
      BY <2>1, <1>t
      DEF AdvanceCall, Lost, StageType
    <3>6. \A x \in Entry : EntryShape(x)'
      <4>1. PICK x \in Entry : x = current
        BY <2>1, <1>t DEF AdvanceCall, MapType, Entry
      <4>2. ASSUME NEW y \in Entry, y # x PROVE EntrySame(y)
        BY <2>1, <1>t, <4>1, <4>2 DEF AdvanceCall, EntrySame, FenceType, StageType
      <4>3. TakeShape(x) /\ RenewShape(x)
        BY <1>e DEF EntryShape
      <4>4. /\ UNCHANGED <<used, hold, timer, taking>>
            /\ adv[x] = "none"
        BY <2>1, <4>1 DEF AdvanceCall
      <4>5. ~(x > used)
        BY <1>t, <4>1 DEF MapType
      <4>6. \/ renew[x] # "none" /\ adv'[x] = "wait" /\ UNCHANGED renewal
            \/ /\ adv'[x] = "check" /\ renew'[x] = "advance"
               /\ renewed'[x] = hold[x] /\ hold[x] # 0
        BY <2>1, <1>t, <4>1 DEF AdvanceCall, StageType, FenceType
      <4>7. TakeShape(x)'
        BY <4>3, <4>4, <4>5 DEF TakeShape
      <4>8. RenewShape(x)'
        BY <1>t, <4>3, <4>4, <4>6 DEF RenewShape, Moving, StageType
      <4> QED
        BY <1>s, <4>2, <4>7, <4>8 DEF EntryShape
    <3>7. \A x \in Caller : CallerShape(x)'
      BY <2>1, <1>t, <1>c
      DEF AdvanceCall, Lost, CallerShape
    <3> QED
      BY <3>1, <3>2, <3>3, <3>4, <3>5, <3>6, <3>7, <1>s, TypeParts DEF EntryShape
  <2>2. CASE OtherTakes
    <3>1. LeaseType'
      BY <2>2, <1>t, <1>n
      DEF OtherTakes, LeaseType, TakeShape, RenewShape, Moving
    <3>2. MapType'
      BY <2>2, <1>t
      DEF OtherTakes, MapType, Entry
    <3>3. FenceType'
      BY <2>2, <1>t, <1>n
      DEF OtherTakes, FenceType, TakeShape, RenewShape
    <3>4. FlagType'
      BY <2>2, <1>t
      DEF OtherTakes, FlagType
    <3>5. StageType'
      BY <2>2, <1>t
      DEF OtherTakes, StageType
    <3>6. \A x \in Entry : EntryShape(x)'
      BY <2>2, <1>t, <1>s
      DEF OtherTakes, EntrySame
    <3>7. \A x \in Caller : CallerShape(x)'
      BY <2>2, <1>t, <1>c
      DEF OtherTakes, CallerShape
    <3> QED
      BY <3>1, <3>2, <3>3, <3>4, <3>5, <3>6, <3>7, <1>s, TypeParts DEF EntryShape
  <2>3. CASE OtherMarks
    <3>1. LeaseType'
      <4>1. top \in Fence
        BY <2>3, <1>t DEF OtherMarks, Held, LeaseType, Fence
      <4> QED
        BY <2>3, <1>t, <4>1 DEF OtherMarks, LeaseType
    <3>2. MapType'
      BY <2>3, <1>t
      DEF OtherMarks, Held, MapType, Entry
    <3>3. FenceType'
      BY <2>3, <1>t, <1>n
      DEF OtherMarks, Held, FenceType, TakeShape, RenewShape
    <3>4. FlagType'
      BY <2>3, <1>t
      DEF OtherMarks, Held, FlagType
    <3>5. StageType'
      BY <2>3, <1>t
      DEF OtherMarks, Held, StageType
    <3>6. \A x \in Entry : EntryShape(x)'
      BY <2>3, <1>t, <1>s
      DEF OtherMarks, Held, EntrySame
    <3>7. \A x \in Caller : CallerShape(x)'
      BY <2>3, <1>t, <1>c
      DEF OtherMarks, Held, CallerShape
    <3> QED
      BY <3>1, <3>2, <3>3, <3>4, <3>5, <3>6, <3>7, <1>s, TypeParts DEF EntryShape
  <2> QED
    BY <1>3, <2>1, <2>2, <2>3
<1>4. CASE UNCHANGED vars
  BY <1>4 DEF vars, LockShape, TypeOK, EntryShape, TakeShape, RenewShape, CallerShape
<1> QED
  BY <1>1, <1>2, <1>3, <1>4 DEF Next

(* Every variable keeps its type, advances of serve included. *)
THEOREM LockTypeCorrect == Spec => []TypeOK
<1>1. LockShape => TypeOK
  BY DEF LockShape
<1> QED
  BY LockShapeInit, LockShapeStep, <1>1, PTL DEF Spec

-----------------------------------------------------------------------------
(* No orphaned hold, where serve does not advance its hold. *)

(* At the start there is no hold. *)
LEMMA HoldInvInit == Init => HoldInv
<1> SUFFICES ASSUME Init PROVE HoldInv
  OBVIOUS
<1>1. LockShape
  BY LockShapeInit
<1>2. ASSUME NEW e \in Entry
      PROVE  TakeBacked(e) /\ Ended(e) /\ Ahead(e) /\ adv[e] = "none"
  BY DEF Init, TakeBacked, Ended, Ahead, Awaited
<1>3. NoOrphanedHold /\ mine \subseteq 1..top
  BY DEF Init, NoOrphanedHold
<1> QED
  BY <1>1, <1>2, <1>3 DEF Init, HoldInv

(* One case per step: an entry that ends has no take but the one its own renewal
   waits for, and every other take has a caller waiting, so the entry stays in
   the map until the hold is installed.                                         *)
LEMMA HoldInvStep ==
  ASSUME Advances = FALSE
  PROVE  HoldInv /\ [Next]_vars => HoldInv'
<1> SUFFICES ASSUME HoldInv, [Next]_vars PROVE HoldInv'
  OBVIOUS
<1> USE DEF lease, taking, renewal, advance, callers
<1>l. LockShape /\ LockShape'
  BY LockShapeStep DEF HoldInv
<1>t. /\ LeaseType /\ MapType /\ FenceType /\ FlagType /\ StageType
      /\ LeaseType' /\ MapType' /\ FenceType' /\ FlagType' /\ StageType'
  BY <1>l, TypeParts
<1>e. \A e \in Entry : TakeShape(e) /\ RenewShape(e)
  BY <1>l, TypeParts DEF EntryShape
<1>i. \A e \in Entry : TakeBacked(e) /\ Ended(e) /\ Ahead(e) /\ adv[e] = "none"
  BY DEF HoldInv
<1>c. \A c \in Caller : /\ CallerShape(c)
                        /\ pc[c] # "out" => at[c] \in Entry /\ ending[at[c]] = "no"
  BY <1>l, <1>t, TypeParts DEF HoldInv, CallerShape, FenceType, Entry
<1>k. \A f \in known : Fenced(f)
  BY DEF HoldInv
<1>m. mine \subseteq 1..top
  BY DEF HoldInv
<1>o. NoOrphanedHold
  BY DEF HoldInv
<1>1. ASSUME NEW e \in Entry, EntryStep(e) PROVE HoldInv'
  <2>es. TakeShape(e)
    BY <1>e
  <2>1. CASE TakeWins(e)
    <3>1. \A x \in Entry \ {e} : TakeBacked(x)'
      BY <2>1, <1>t, <1>i
      DEF TakeWins, TakeBacked, Awaited, FenceType, StageType, FlagType, LeaseType,
          MapType
    <3>2. TakeBacked(e)'
      BY <2>1, <1>t, <1>i, <2>es
      DEF TakeWins, TakeBacked, Awaited, TakeShape, Ended, FenceType, StageType,
          FlagType, LeaseType, MapType
    <3>3. \A x \in Entry \ {e} : Ended(x)'
      BY <2>1, <1>t, <1>i
      DEF TakeWins, Ended, TakeBacked, FenceType, StageType, FlagType, LeaseType,
          MapType
    <3>4. Ended(e)'
      BY <2>1, <1>t, <1>i, <2>es
      DEF TakeWins, Ended, TakeBacked, TakeShape, FenceType, StageType, FlagType,
          LeaseType, MapType
    <3>5. \A x \in Entry : Ahead(x)'
      BY <2>1, <1>t, <1>i
      DEF TakeWins, Ahead, FenceType, StageType, FlagType, LeaseType, MapType
    <3>6. \A x \in Entry : adv'[x] = "none"
      BY <2>1, <1>t, <1>i
      DEF TakeWins, StageType
    <3>7. \A c \in Caller : pc'[c] # "out" => ending'[at'[c]] = "no"
      BY <2>1, <1>t, <1>i, <1>c
      DEF TakeWins, Ended, FenceType, StageType, FlagType, LeaseType, MapType
    <3>8. \A f \in known' : Fenced(f)'
      BY <2>1, <1>t, <1>i, <1>k
      DEF TakeWins, Fenced, LeaseType, Fence
    <3>9. mine' \subseteq 1..top'
      BY <2>1, <1>t, <1>m
      DEF TakeWins, LeaseType
    <3>10. NoOrphanedHold'
      BY <2>1, <1>t, <1>i, <1>o, <1>m
      DEF TakeWins, NoOrphanedHold, Held, Ended, TakeBacked, Ahead, FenceType,
          StageType, FlagType, LeaseType, MapType
    <3> QED
      BY <3>1, <3>2, <3>3, <3>4, <3>5, <3>6, <3>7, <3>8, <3>9, <3>10, <1>l DEF HoldInv
  <2>2. CASE TakeBusy(e)
    <3>1. \A x \in Entry \ {e} : TakeBacked(x)'
      BY <2>2, <1>t, <1>i
      DEF TakeBusy, TakeSettles, RenewalSettles, EndingWakes, CallersWake, TakeBacked,
          Awaited, FenceType, StageType, FlagType, LeaseType, MapType
    <3>2. TakeBacked(e)'
      BY <2>2, <1>t, <1>i, <2>es
      DEF TakeBusy, TakeSettles, RenewalSettles, EndingWakes, CallersWake, TakeBacked,
          Awaited, TakeShape, Ended, FenceType, StageType, FlagType, LeaseType, MapType
    <3>3. \A x \in Entry \ {e} : Ended(x)'
      <4> SUFFICES ASSUME NEW x \in Entry, x # e PROVE Ended(x)'
        OBVIOUS
      <4>1. current' = current \/ (current = e /\ current' = 0)
        BY <2>2 DEF TakeBusy, TakeSettles
      <4>2. /\ used' = used /\ timer'[x] = timer[x] /\ hold'[x] = hold[x]
            /\ ending'[x] = ending[x] /\ renew'[x] = renew[x]
        BY <2>2, <1>t DEF TakeBusy, TakeSettles, RenewalSettles, EndingWakes, StageType
      <4> QED
        BY <1>i, <4>1, <4>2 DEF Ended, Entry
    <3>4. Ended(e)'
      BY <2>2, <1>t, <1>i, <2>es
      DEF TakeBusy, TakeSettles, RenewalSettles, EndingWakes, CallersWake, Ended,
          TakeBacked, TakeShape, FenceType, StageType, FlagType, LeaseType, MapType
    <3>5. \A x \in Entry : Ahead(x)'
      BY <2>2, <1>t, <1>i
      DEF TakeBusy, TakeSettles, RenewalSettles, EndingWakes, CallersWake, Ahead,
          FenceType, StageType, FlagType, LeaseType, MapType
    <3>6. \A x \in Entry : adv'[x] = "none"
      BY <2>2, <1>t, <1>i
      DEF TakeBusy, TakeSettles, RenewalSettles, EndingWakes, CallersWake, StageType
    <3>7. \A c \in Caller : pc'[c] # "out" => ending'[at'[c]] = "no"
      BY <2>2, <1>t, <1>i, <1>c
      DEF TakeBusy, TakeSettles, RenewalSettles, EndingWakes, CallersWake, Ended,
          FenceType, StageType, FlagType, LeaseType, MapType
    <3>8. \A f \in known' : Fenced(f)'
      BY <2>2, <1>t, <1>i, <1>k
      DEF TakeBusy, TakeSettles, RenewalSettles, EndingWakes, CallersWake, Fenced,
          LeaseType, Fence
    <3>9. mine' \subseteq 1..top'
      BY <2>2, <1>t, <1>m
      DEF TakeBusy, TakeSettles, RenewalSettles, EndingWakes, CallersWake, LeaseType
    <3>10. NoOrphanedHold'
      BY <2>2, <1>t, <1>i, <1>o, <1>m
      DEF TakeBusy, TakeSettles, RenewalSettles, EndingWakes, CallersWake,
          NoOrphanedHold, Held, Ended, TakeBacked, Ahead, FenceType, StageType,
          FlagType, LeaseType, MapType
    <3> QED
      BY <3>1, <3>2, <3>3, <3>4, <3>5, <3>6, <3>7, <3>8, <3>9, <3>10, <1>l DEF HoldInv
  <2>3. CASE TakeThrows(e)
    <3>1. \A x \in Entry \ {e} : TakeBacked(x)'
      BY <2>3, <1>t, <1>i
      DEF TakeThrows, TakeSettles, RenewalSettles, EndingWakes, CallersWake, TakeBacked,
          Awaited, FenceType, StageType, FlagType, LeaseType, MapType
    <3>2. TakeBacked(e)'
      BY <2>3, <1>t, <1>i, <2>es
      DEF TakeThrows, TakeSettles, RenewalSettles, EndingWakes, CallersWake, TakeBacked,
          Awaited, TakeShape, Ended, FenceType, StageType, FlagType, LeaseType, MapType
    <3>3. \A x \in Entry \ {e} : Ended(x)'
      <4> SUFFICES ASSUME NEW x \in Entry, x # e PROVE Ended(x)'
        OBVIOUS
      <4>1. current' = current \/ (current = e /\ current' = 0)
        BY <2>3 DEF TakeThrows, TakeSettles
      <4>2. /\ used' = used /\ timer'[x] = timer[x] /\ hold'[x] = hold[x]
            /\ ending'[x] = ending[x] /\ renew'[x] = renew[x]
        BY <2>3, <1>t DEF TakeThrows, TakeSettles, RenewalSettles, EndingWakes, StageType
      <4> QED
        BY <1>i, <4>1, <4>2 DEF Ended, Entry
    <3>4. Ended(e)'
      BY <2>3, <1>t, <1>i, <2>es
      DEF TakeThrows, TakeSettles, RenewalSettles, EndingWakes, CallersWake, Ended,
          TakeBacked, TakeShape, FenceType, StageType, FlagType, LeaseType, MapType
    <3>5. \A x \in Entry : Ahead(x)'
      BY <2>3, <1>t, <1>i
      DEF TakeThrows, TakeSettles, RenewalSettles, EndingWakes, CallersWake, Ahead,
          FenceType, StageType, FlagType, LeaseType, MapType
    <3>6. \A x \in Entry : adv'[x] = "none"
      BY <2>3, <1>t, <1>i
      DEF TakeThrows, TakeSettles, RenewalSettles, EndingWakes, CallersWake, StageType
    <3>7. \A c \in Caller : pc'[c] # "out" => ending'[at'[c]] = "no"
      BY <2>3, <1>t, <1>i, <1>c
      DEF TakeThrows, TakeSettles, RenewalSettles, EndingWakes, CallersWake, Ended,
          FenceType, StageType, FlagType, LeaseType, MapType
    <3>8. \A f \in known' : Fenced(f)'
      BY <2>3, <1>t, <1>i, <1>k
      DEF TakeThrows, TakeSettles, RenewalSettles, EndingWakes, CallersWake, Fenced,
          LeaseType, Fence
    <3>9. mine' \subseteq 1..top'
      BY <2>3, <1>t, <1>m
      DEF TakeThrows, TakeSettles, RenewalSettles, EndingWakes, CallersWake, LeaseType
    <3>10. NoOrphanedHold'
      BY <2>3, <1>t, <1>i, <1>o, <1>m
      DEF TakeThrows, TakeSettles, RenewalSettles, EndingWakes, CallersWake,
          NoOrphanedHold, Held, Ended, TakeBacked, Ahead, FenceType, StageType,
          FlagType, LeaseType, MapType
    <3> QED
      BY <3>1, <3>2, <3>3, <3>4, <3>5, <3>6, <3>7, <3>8, <3>9, <3>10, <1>l DEF HoldInv
  <2>4. CASE TakeInstalls(e)
    <3>1. \A x \in Entry \ {e} : TakeBacked(x)'
      BY <2>4, <1>t, <1>i
      DEF TakeInstalls, TakeSettles, RenewalSettles, EndingWakes, CallersWake,
          TakeBacked, Awaited, FenceType, StageType, FlagType, LeaseType, MapType
    <3>2. TakeBacked(e)'
      BY <2>4, <1>t, <1>i, <2>es
      DEF TakeInstalls, TakeSettles, RenewalSettles, EndingWakes, CallersWake,
          TakeBacked, Awaited, TakeShape, Ended, FenceType, StageType, FlagType,
          LeaseType, MapType
    <3>3. \A x \in Entry \ {e} : Ended(x)'
      BY <2>4, <1>t, <1>i
      DEF TakeInstalls, TakeSettles, RenewalSettles, EndingWakes, CallersWake, Ended,
          TakeBacked, FenceType, StageType, FlagType, LeaseType, MapType
    <3>4. Ended(e)'
      BY <2>4, <1>t, <1>i, <2>es
      DEF TakeInstalls, TakeSettles, RenewalSettles, EndingWakes, CallersWake, Ended,
          TakeBacked, TakeShape, FenceType, StageType, FlagType, LeaseType, MapType
    <3>5. \A x \in Entry : Ahead(x)'
      BY <2>4, <1>t, <1>i
      DEF TakeInstalls, TakeSettles, RenewalSettles, EndingWakes, CallersWake, Ahead,
          FenceType, StageType, FlagType, LeaseType, MapType
    <3>6. \A x \in Entry : adv'[x] = "none"
      BY <2>4, <1>t, <1>i
      DEF TakeInstalls, TakeSettles, RenewalSettles, EndingWakes, CallersWake, StageType
    <3>7. \A c \in Caller : pc'[c] # "out" => ending'[at'[c]] = "no"
      BY <2>4, <1>t, <1>i, <1>c
      DEF TakeInstalls, TakeSettles, RenewalSettles, EndingWakes, CallersWake, Ended,
          FenceType, StageType, FlagType, LeaseType, MapType
    <3>8. \A f \in known' : Fenced(f)'
      BY <2>4, <1>t, <1>i, <1>k
      DEF TakeInstalls, TakeSettles, RenewalSettles, EndingWakes, CallersWake, Fenced,
          LeaseType, Fence
    <3>9. mine' \subseteq 1..top'
      BY <2>4, <1>t, <1>m
      DEF TakeInstalls, TakeSettles, RenewalSettles, EndingWakes, CallersWake, LeaseType
    <3>10. NoOrphanedHold'
      <4> SUFFICES ASSUME top \in mine, Held, NEW x \in Entry,
                          \/ hold[x] = top /\ (x = current \/ ending[x] \in {"wait", "release"})
                          \/ take[x] = "won" /\ got[x] = top
                   PROVE  \E y \in Entry :
                             \/ /\ hold'[y] = top
                                /\ y = current' \/ ending'[y] \in {"wait", "release"}
                             \/ take'[y] = "won" /\ got'[y] = top
        BY <2>4, <1>o, <1>i DEF TakeInstalls, NoOrphanedHold, Held
      <4>1. /\ hold'[e] = got[e] /\ take[e] = "won" /\ current' = current /\ got' = got
            /\ \A y \in Entry \ {e} : hold'[y] = hold[y] /\ take'[y] = take[y]
                                        /\ ending'[y] = ending[y]
            /\ takeBy[e] # "first" => ending'[e] = ending[e]
        BY <2>4, <1>t
        DEF TakeInstalls, TakeSettles, RenewalSettles, EndingWakes, FenceType, StageType
      <4>2. CASE x # e
        BY <4>1, <4>2
      <4>3. CASE x = e
        <5>1. got[e] = top
          BY <1>t, <1>i, <4>1, <4>3 DEF Ahead, FenceType, LeaseType
        <5>2. CASE takeBy[e] = "first"
          BY <1>i, <4>1, <5>1, <5>2 DEF TakeBacked
        <5>3. CASE takeBy[e] = "caller"
          <6>1. ending[e] = "no" /\ hold[e] # 0
            BY <1>c, <1>i, <2>es, <4>1, <5>3 DEF TakeBacked, Awaited, TakeShape
          <6> QED
            BY <1>i, <4>1, <5>1, <6>1 DEF Ended
        <5>4. CASE takeBy[e] = "timer"
          <6>1. renew[e] = "retake" /\ hold[e] # 0
            BY <1>i, <2>es, <4>1, <5>4 DEF TakeBacked, TakeShape
          <6>2. ending[e] = "wait" \/ e = current
            BY <1>t, <1>i, <6>1 DEF Ended, StageType
          <6> QED
            BY <4>1, <5>1, <5>4, <6>2
        <5> QED
          BY <1>t, <5>2, <5>3, <5>4 DEF StageType
      <4> QED
        BY <4>2, <4>3
    <3> QED
      BY <3>1, <3>2, <3>3, <3>4, <3>5, <3>6, <3>7, <3>8, <3>9, <3>10, <1>l DEF HoldInv
  <2>5. CASE RetakeEnds(e)
    <3>1. \A x \in Entry \ {e} : TakeBacked(x)'
      BY <2>5, <1>t, <1>i
      DEF RetakeEnds, TakeSettles, RenewalSettles, EndingWakes, CallersWake, TakeBacked,
          Awaited, FenceType, StageType, FlagType, LeaseType, MapType
    <3>2. TakeBacked(e)'
      BY <2>5, <1>t, <1>i, <2>es
      DEF RetakeEnds, TakeSettles, RenewalSettles, EndingWakes, CallersWake, TakeBacked,
          Awaited, TakeShape, Ended, FenceType, StageType, FlagType, LeaseType, MapType
    <3>3. \A x \in Entry \ {e} : Ended(x)'
      BY <2>5, <1>t, <1>i
      DEF RetakeEnds, TakeSettles, RenewalSettles, EndingWakes, CallersWake, Ended,
          TakeBacked, FenceType, StageType, FlagType, LeaseType, MapType
    <3>4. Ended(e)'
      BY <2>5, <1>t, <1>i, <2>es
      DEF RetakeEnds, TakeSettles, RenewalSettles, EndingWakes, CallersWake, Ended,
          TakeBacked, TakeShape, FenceType, StageType, FlagType, LeaseType, MapType
    <3>5. \A x \in Entry : Ahead(x)'
      BY <2>5, <1>t, <1>i
      DEF RetakeEnds, TakeSettles, RenewalSettles, EndingWakes, CallersWake, Ahead,
          FenceType, StageType, FlagType, LeaseType, MapType
    <3>6. \A x \in Entry : adv'[x] = "none"
      BY <2>5, <1>t, <1>i
      DEF RetakeEnds, TakeSettles, RenewalSettles, EndingWakes, CallersWake, StageType
    <3>7. \A c \in Caller : pc'[c] # "out" => ending'[at'[c]] = "no"
      BY <2>5, <1>t, <1>i, <1>c
      DEF RetakeEnds, TakeSettles, RenewalSettles, EndingWakes, CallersWake, Ended,
          FenceType, StageType, FlagType, LeaseType, MapType
    <3>8. \A f \in known' : Fenced(f)'
      BY <2>5, <1>t, <1>i, <1>k
      DEF RetakeEnds, TakeSettles, RenewalSettles, EndingWakes, CallersWake, Fenced,
          LeaseType, Fence
    <3>9. mine' \subseteq 1..top'
      BY <2>5, <1>t, <1>m
      DEF RetakeEnds, TakeSettles, RenewalSettles, EndingWakes, CallersWake, LeaseType
    <3>10. NoOrphanedHold'
      BY <2>5, <1>t, <1>i, <1>o, <1>m
      DEF RetakeEnds, TakeSettles, RenewalSettles, EndingWakes, CallersWake,
          NoOrphanedHold, Held, Ended, TakeBacked, Ahead, FenceType, StageType,
          FlagType, LeaseType, MapType
    <3> QED
      BY <3>1, <3>2, <3>3, <3>4, <3>5, <3>6, <3>7, <3>8, <3>9, <3>10, <1>l DEF HoldInv
  <2>6. CASE EndRelease(e)
    <3>1. \A x \in Entry \ {e} : TakeBacked(x)'
      BY <2>6, <1>t, <1>i
      DEF EndRelease, TakeBacked, Awaited, FenceType, StageType, FlagType, LeaseType,
          MapType
    <3>2. TakeBacked(e)'
      BY <2>6, <1>t, <1>i, <2>es
      DEF EndRelease, TakeBacked, Awaited, TakeShape, Ended, FenceType, StageType,
          FlagType, LeaseType, MapType
    <3>3. \A x \in Entry \ {e} : Ended(x)'
      BY <2>6, <1>t, <1>i
      DEF EndRelease, Ended, TakeBacked, FenceType, StageType, FlagType, LeaseType,
          MapType
    <3>4. Ended(e)'
      BY <2>6, <1>t, <1>i, <2>es
      DEF EndRelease, Ended, TakeBacked, TakeShape, FenceType, StageType, FlagType,
          LeaseType, MapType
    <3>5. \A x \in Entry : Ahead(x)'
      BY <2>6, <1>t, <1>i
      DEF EndRelease, Ahead, FenceType, StageType, FlagType, LeaseType, MapType
    <3>6. \A x \in Entry : adv'[x] = "none"
      BY <2>6, <1>t, <1>i
      DEF EndRelease, StageType
    <3>7. \A c \in Caller : pc'[c] # "out" => ending'[at'[c]] = "no"
      BY <2>6, <1>t, <1>i, <1>c
      DEF EndRelease, Ended, FenceType, StageType, FlagType, LeaseType, MapType
    <3>8. \A f \in known' : Fenced(f)'
      BY <2>6, <1>t, <1>i, <1>k
      DEF EndRelease, Fenced, LeaseType, Fence
    <3>9. mine' \subseteq 1..top'
      BY <2>6, <1>t, <1>m
      DEF EndRelease, LeaseType
    <3>10. NoOrphanedHold'
      <4> SUFFICES ASSUME top \in mine, Held'
                   PROVE  NoOrphanedHold'
        BY <2>6 DEF EndRelease, NoOrphanedHold
      <4>1. Held /\ top \notin marks' /\ top # 0 /\ top' = top
        BY <2>6 DEF EndRelease, Held
      <4>2. PICK x \in Entry :
               \/ hold[x] = top /\ (x = current \/ ending[x] \in {"wait", "release"})
               \/ take[x] = "won" /\ got[x] = top
        BY <1>i, <1>o, <4>1 DEF NoOrphanedHold
      <4>3. top \notin known
        BY <1>t, <1>k, <4>1 DEF Fenced, LeaseType, Held
      <4>4. hold[e] # top
        BY <2>6, <4>1, <4>3 DEF EndRelease
      <4>5. UNCHANGED <<hold, take, got, current>> /\ \A y \in Entry \ {e} : ending'[y] = ending[y]
        BY <2>6, <1>t DEF EndRelease, StageType
      <4> QED
        BY <4>1, <4>2, <4>4, <4>5 DEF NoOrphanedHold
    <3> QED
      BY <3>1, <3>2, <3>3, <3>4, <3>5, <3>6, <3>7, <3>8, <3>9, <3>10, <1>l DEF HoldInv
  <2>7. CASE Tick(e)
    <3>1. \A x \in Entry \ {e} : TakeBacked(x)'
      BY <2>7, <1>t, <1>i
      DEF Tick, TakeBacked, Awaited, FenceType, StageType, FlagType, LeaseType, MapType
    <3>2. TakeBacked(e)'
      BY <2>7, <1>t, <1>i, <2>es
      DEF Tick, TakeBacked, Awaited, TakeShape, Ended, FenceType, StageType, FlagType,
          LeaseType, MapType
    <3>3. \A x \in Entry \ {e} : Ended(x)'
      BY <2>7, <1>t, <1>i
      DEF Tick, Ended, TakeBacked, FenceType, StageType, FlagType, LeaseType, MapType
    <3>4. Ended(e)'
      BY <2>7, <1>t, <1>i, <2>es
      DEF Tick, Ended, TakeBacked, TakeShape, FenceType, StageType, FlagType, LeaseType,
          MapType
    <3>5. \A x \in Entry : Ahead(x)'
      BY <2>7, <1>t, <1>i
      DEF Tick, Ahead, FenceType, StageType, FlagType, LeaseType, MapType
    <3>6. \A x \in Entry : adv'[x] = "none"
      BY <2>7, <1>t, <1>i
      DEF Tick, StageType
    <3>7. \A c \in Caller : pc'[c] # "out" => ending'[at'[c]] = "no"
      BY <2>7, <1>t, <1>i, <1>c
      DEF Tick, Ended, FenceType, StageType, FlagType, LeaseType, MapType
    <3>8. \A f \in known' : Fenced(f)'
      BY <2>7, <1>t, <1>i, <1>k
      DEF Tick, Fenced, LeaseType, Fence
    <3>9. mine' \subseteq 1..top'
      BY <2>7, <1>t, <1>m
      DEF Tick, LeaseType
    <3>10. NoOrphanedHold'
      BY <2>7, <1>t, <1>i, <1>o, <1>m
      DEF Tick, NoOrphanedHold, Held, Ended, TakeBacked, Ahead, FenceType, StageType,
          FlagType, LeaseType, MapType
    <3> QED
      BY <3>1, <3>2, <3>3, <3>4, <3>5, <3>6, <3>7, <3>8, <3>9, <3>10, <1>l DEF HoldInv
  <2>8. CASE RenewHeld(e)
    <3>1. \A x \in Entry \ {e} : TakeBacked(x)'
      BY <2>8, <1>t, <1>i
      DEF RenewHeld, RenewalSettles, EndingWakes, TakeBacked, Awaited, FenceType,
          StageType, FlagType, LeaseType, MapType
    <3>2. TakeBacked(e)'
      BY <2>8, <1>t, <1>i, <2>es
      DEF RenewHeld, RenewalSettles, EndingWakes, TakeBacked, Awaited, TakeShape, Ended,
          FenceType, StageType, FlagType, LeaseType, MapType
    <3>3. \A x \in Entry \ {e} : Ended(x)'
      BY <2>8, <1>t, <1>i
      DEF RenewHeld, RenewalSettles, EndingWakes, Ended, TakeBacked, FenceType,
          StageType, FlagType, LeaseType, MapType
    <3>4. Ended(e)'
      BY <2>8, <1>t, <1>i, <2>es
      DEF RenewHeld, RenewalSettles, EndingWakes, Ended, TakeBacked, TakeShape,
          FenceType, StageType, FlagType, LeaseType, MapType
    <3>5. \A x \in Entry : Ahead(x)'
      BY <2>8, <1>t, <1>i
      DEF RenewHeld, RenewalSettles, EndingWakes, Ahead, FenceType, StageType, FlagType,
          LeaseType, MapType
    <3>6. \A x \in Entry : adv'[x] = "none"
      BY <2>8, <1>t, <1>i
      DEF RenewHeld, RenewalSettles, EndingWakes, StageType
    <3>7. \A c \in Caller : pc'[c] # "out" => ending'[at'[c]] = "no"
      BY <2>8, <1>t, <1>i, <1>c
      DEF RenewHeld, RenewalSettles, EndingWakes, Ended, FenceType, StageType, FlagType,
          LeaseType, MapType
    <3>8. \A f \in known' : Fenced(f)'
      BY <2>8, <1>t, <1>i, <1>k
      DEF RenewHeld, RenewalSettles, EndingWakes, Fenced, LeaseType, Fence
    <3>9. mine' \subseteq 1..top'
      BY <2>8, <1>t, <1>m
      DEF RenewHeld, RenewalSettles, EndingWakes, LeaseType
    <3>10. NoOrphanedHold'
      BY <2>8, <1>t, <1>i, <1>o, <1>m
      DEF RenewHeld, RenewalSettles, EndingWakes, NoOrphanedHold, Held, Ended,
          TakeBacked, Ahead, FenceType, StageType, FlagType, LeaseType, MapType
    <3> QED
      BY <3>1, <3>2, <3>3, <3>4, <3>5, <3>6, <3>7, <3>8, <3>9, <3>10, <1>l DEF HoldInv
  <2>9. CASE RenewLost(e)
    <3>1. \A x \in Entry \ {e} : TakeBacked(x)'
      BY <2>9, <1>t, <1>i
      DEF RenewLost, RenewalSettles, EndingWakes, Retakes, StartTake, Fenced,
          TakeBacked, Awaited, FenceType, StageType, FlagType, LeaseType, MapType
    <3>2. TakeBacked(e)'
      BY <2>9, <1>t, <1>i, <2>es
      DEF RenewLost, RenewalSettles, EndingWakes, Retakes, StartTake, Fenced,
          TakeBacked, Awaited, TakeShape, Ended, FenceType, StageType, FlagType,
          LeaseType, MapType
    <3>3. \A x \in Entry \ {e} : Ended(x)'
      BY <2>9, <1>t, <1>i
      DEF RenewLost, RenewalSettles, EndingWakes, Retakes, StartTake, Fenced, Ended,
          TakeBacked, FenceType, StageType, FlagType, LeaseType, MapType
    <3>4. Ended(e)'
      BY <2>9, <1>t, <1>i, <2>es
      DEF RenewLost, RenewalSettles, EndingWakes, Retakes, StartTake, Fenced, Ended,
          TakeBacked, TakeShape, FenceType, StageType, FlagType, LeaseType, MapType
    <3>5. \A x \in Entry : Ahead(x)'
      BY <2>9, <1>t, <1>i
      DEF RenewLost, RenewalSettles, EndingWakes, Retakes, StartTake, Fenced, Ahead,
          FenceType, StageType, FlagType, LeaseType, MapType
    <3>6. \A x \in Entry : adv'[x] = "none"
      BY <2>9, <1>t, <1>i
      DEF RenewLost, RenewalSettles, EndingWakes, Retakes, StartTake, Fenced, StageType
    <3>7. \A c \in Caller : pc'[c] # "out" => ending'[at'[c]] = "no"
      BY <2>9, <1>t, <1>i, <1>c
      DEF RenewLost, RenewalSettles, EndingWakes, Retakes, StartTake, Fenced, Ended,
          FenceType, StageType, FlagType, LeaseType, MapType
    <3>8. \A f \in known' : Fenced(f)'
      BY <2>9, <1>t, <1>i, <1>k
      DEF RenewLost, RenewalSettles, EndingWakes, Retakes, StartTake, Fenced, Fenced,
          LeaseType, Fence
    <3>9. mine' \subseteq 1..top'
      BY <2>9, <1>t, <1>m
      DEF RenewLost, RenewalSettles, EndingWakes, Retakes, StartTake, Fenced, LeaseType
    <3>10. NoOrphanedHold'
      BY <2>9, <1>t, <1>i, <1>o, <1>m
      DEF RenewLost, RenewalSettles, EndingWakes, Retakes, StartTake, Fenced,
          NoOrphanedHold, Held, Ended, TakeBacked, Ahead, FenceType, StageType,
          FlagType, LeaseType, MapType
    <3> QED
      BY <3>1, <3>2, <3>3, <3>4, <3>5, <3>6, <3>7, <3>8, <3>9, <3>10, <1>l DEF HoldInv
  <2> QED
    BY <1>1, <1>i, <2>1, <2>2, <2>3, <2>4, <2>5, <2>6, <2>7, <2>8, <2>9
    DEF EntryStep, AdvanceFenced, AdvanceCurrent, AdvanceCreate, AdvanceMark,
        AdvanceRaised, AdvanceInstalls, AdvanceThrows
<1>2. ASSUME NEW c \in Caller, CallerStep(c) PROVE HoldInv'
  <2>1. CASE AcquireFirst(c)
    <3>1. \A x \in Entry : TakeBacked(x)'
      <4>1. /\ current = 0 /\ used + 1 \in Entry /\ current' = used + 1 /\ used' = used + 1
            /\ pc[c] = "out" /\ used \in Nat
        BY <2>1, <1>t DEF AcquireFirst, MapType, Entry
      <4>2. /\ TakeShape(used + 1) /\ ending[used + 1] = "no" /\ renew[used + 1] = "none"
            /\ take[used + 1] = "none" /\ hold[used + 1] = 0
        BY <1>e, <1>i, <4>1 DEF Ended, TakeShape, Entry
      <4>3. ASSUME NEW x \in Entry, x = used + 1 PROVE TakeBacked(x)'
        <5>1. /\ take'[x] = "trying" /\ takeBy'[x] = "first"
              /\ pc'[c] = "taking" /\ at'[c] = x /\ UNCHANGED <<hold, renew>>
          BY <2>1, <1>t, <4>3 DEF AcquireFirst, StartTake, StageType, FenceType
        <5> QED
          BY <4>1, <4>2, <4>3, <5>1 DEF TakeBacked, Awaited
      <4>4. ASSUME NEW x \in Entry, x # used + 1 PROVE TakeBacked(x)'
        <5>1. /\ take'[x] = take[x] /\ takeBy'[x] = takeBy[x] /\ retakes'[x] = retakes[x]
              /\ UNCHANGED <<hold, renew>>
              /\ \A d \in Caller \ {c} : pc'[d] = pc[d] /\ at'[d] = at[d]
          BY <2>1, <1>t, <4>4 DEF AcquireFirst, StartTake, StageType, FenceType, FlagType
        <5>2. Awaited(x) => Awaited(x)'
          BY <4>1, <5>1 DEF Awaited
        <5> QED
          BY <1>i, <4>1, <5>1, <5>2 DEF TakeBacked, Entry
      <4> QED
        BY <4>3, <4>4
    <3>2. \A x \in Entry : Ended(x)'
      <4>1. /\ current = 0 /\ used + 1 \in Entry /\ current' = used + 1 /\ used' = used + 1
            /\ pc[c] = "out" /\ used \in Nat
        BY <2>1, <1>t DEF AcquireFirst, MapType, Entry
      <4>2. /\ TakeShape(used + 1) /\ ending[used + 1] = "no" /\ renew[used + 1] = "none"
            /\ take[used + 1] = "none" /\ hold[used + 1] = 0
        BY <1>e, <1>i, <4>1 DEF Ended, TakeShape, Entry
      <4>3. UNCHANGED <<hold, timer, renew, ending>>
        BY <2>1 DEF AcquireFirst
      <4>4. ASSUME NEW x \in Entry PROVE Ended(x)'
        BY <1>i, <4>1, <4>2, <4>3 DEF Ended, Entry
      <4> QED
        BY <4>4
    <3>3. \A x \in Entry : Ahead(x)'
      BY <2>1, <1>t, <1>i
      DEF AcquireFirst, StartTake, Ahead, FenceType, StageType, FlagType, LeaseType,
          MapType
    <3>4. \A x \in Entry : adv'[x] = "none"
      BY <2>1, <1>t, <1>i
      DEF AcquireFirst, StartTake, StageType
    <3>5. \A d \in Caller : pc'[d] # "out" => ending'[at'[d]] = "no"
      <4>1. /\ current = 0 /\ used + 1 \in Entry /\ current' = used + 1 /\ used' = used + 1
            /\ pc[c] = "out" /\ used \in Nat
        BY <2>1, <1>t DEF AcquireFirst, MapType, Entry
      <4>2. /\ TakeShape(used + 1) /\ ending[used + 1] = "no" /\ renew[used + 1] = "none"
            /\ take[used + 1] = "none" /\ hold[used + 1] = 0
        BY <1>e, <1>i, <4>1 DEF Ended, TakeShape, Entry
      <4>3. /\ at'[c] = used + 1 /\ UNCHANGED ending
            /\ \A d \in Caller \ {c} : pc'[d] = pc[d] /\ at'[d] = at[d]
        BY <2>1, <1>t DEF AcquireFirst, StageType, FenceType
      <4> QED
        BY <1>c, <4>2, <4>3
    <3>6. \A f \in known' : Fenced(f)'
      BY <2>1, <1>t, <1>i, <1>k
      DEF AcquireFirst, StartTake, Fenced, LeaseType, Fence
    <3>7. mine' \subseteq 1..top'
      BY <2>1, <1>t, <1>m
      DEF AcquireFirst, StartTake, LeaseType
    <3>8. NoOrphanedHold'
      <4>1. /\ current = 0 /\ used + 1 \in Entry /\ current' = used + 1 /\ used' = used + 1
            /\ pc[c] = "out" /\ used \in Nat
        BY <2>1, <1>t DEF AcquireFirst, MapType, Entry
      <4>2. /\ TakeShape(used + 1) /\ ending[used + 1] = "no" /\ renew[used + 1] = "none"
            /\ take[used + 1] = "none" /\ hold[used + 1] = 0
        BY <1>e, <1>i, <4>1 DEF Ended, TakeShape, Entry
      <4>3. /\ UNCHANGED <<lease, hold, ending>>
            /\ \A x \in Entry \ {used + 1} : take'[x] = take[x] /\ got'[x] = got[x]
        BY <2>1, <1>t DEF AcquireFirst, StartTake, StageType, FenceType
      <4> QED
        BY <1>i, <1>o, <4>1, <4>2, <4>3 DEF NoOrphanedHold, Held, Entry
    <3> QED
      BY <3>1, <3>2, <3>3, <3>4, <3>5, <3>6, <3>7, <3>8, <1>l DEF HoldInv
  <2>2. CASE AcquireJoin(c)
    <3>1. \A x \in Entry : TakeBacked(x)'
      BY <2>2, <1>t, <1>i
      DEF AcquireJoin, TakeBacked, Awaited, FenceType, StageType, FlagType, LeaseType,
          MapType
    <3>2. \A x \in Entry : Ended(x)'
      BY <2>2, <1>t, <1>i
      DEF AcquireJoin, Ended, FenceType, StageType, FlagType, LeaseType, MapType
    <3>3. \A x \in Entry : Ahead(x)'
      BY <2>2, <1>t, <1>i
      DEF AcquireJoin, Ahead, FenceType, StageType, FlagType, LeaseType, MapType
    <3>4. \A x \in Entry : adv'[x] = "none"
      BY <2>2, <1>t, <1>i
      DEF AcquireJoin, StageType
    <3>5. \A d \in Caller : pc'[d] # "out" => ending'[at'[d]] = "no"
      <4>1. current \in Entry
        BY <2>2, <1>t DEF AcquireJoin, MapType, Entry
      <4>2. ending[current] = "no"
        BY <1>i, <4>1 DEF Ended
      <4>3. /\ at'[c] = current /\ UNCHANGED ending
            /\ \A d \in Caller \ {c} : pc'[d] = pc[d] /\ at'[d] = at[d]
        BY <2>2, <1>t DEF AcquireJoin, StageType, FenceType
      <4> QED
        BY <1>c, <4>2, <4>3
    <3>6. \A f \in known' : Fenced(f)'
      BY <2>2, <1>t, <1>i, <1>k
      DEF AcquireJoin, Fenced, LeaseType, Fence
    <3>7. mine' \subseteq 1..top'
      BY <2>2, <1>t, <1>m
      DEF AcquireJoin, LeaseType
    <3>8. NoOrphanedHold'
      BY <2>2, <1>t, <1>i, <1>o, <1>m
      DEF AcquireJoin, NoOrphanedHold, Held, Ended, TakeBacked, Ahead, FenceType,
          StageType, FlagType, LeaseType, MapType
    <3> QED
      BY <3>1, <3>2, <3>3, <3>4, <3>5, <3>6, <3>7, <3>8, <1>l DEF HoldInv
  <2>3. CASE LookRetakes(c)
    <3>1. \A x \in Entry : TakeBacked(x)'
      BY <2>3, <1>t, <1>i
      DEF LookRetakes, StartTake, Lost, TakeBacked, Awaited, FenceType, StageType,
          FlagType, LeaseType, MapType
    <3>2. \A x \in Entry : Ended(x)'
      BY <2>3, <1>t, <1>i
      DEF LookRetakes, StartTake, Lost, Ended, FenceType, StageType, FlagType,
          LeaseType, MapType
    <3>3. \A x \in Entry : Ahead(x)'
      BY <2>3, <1>t, <1>i
      DEF LookRetakes, StartTake, Lost, Ahead, FenceType, StageType, FlagType,
          LeaseType, MapType
    <3>4. \A x \in Entry : adv'[x] = "none"
      BY <2>3, <1>t, <1>i
      DEF LookRetakes, StartTake, Lost, StageType
    <3>5. \A d \in Caller : pc'[d] # "out" => ending'[at'[d]] = "no"
      BY <2>3, <1>t, <1>i, <1>c
      DEF LookRetakes, StartTake, Lost, Ended, FenceType, StageType, FlagType,
          LeaseType, MapType
    <3>6. \A f \in known' : Fenced(f)'
      BY <2>3, <1>t, <1>i, <1>k
      DEF LookRetakes, StartTake, Lost, Fenced, LeaseType, Fence
    <3>7. mine' \subseteq 1..top'
      BY <2>3, <1>t, <1>m
      DEF LookRetakes, StartTake, Lost, LeaseType
    <3>8. NoOrphanedHold'
      BY <2>3, <1>t, <1>i, <1>o, <1>m
      DEF LookRetakes, StartTake, Lost, NoOrphanedHold, Held, Ended, TakeBacked, Ahead,
          FenceType, StageType, FlagType, LeaseType, MapType
    <3> QED
      BY <3>1, <3>2, <3>3, <3>4, <3>5, <3>6, <3>7, <3>8, <1>l DEF HoldInv
  <2>4. CASE LookEnters(c)
    <3>1. \A x \in Entry : TakeBacked(x)'
      BY <2>4, <1>t, <1>i
      DEF LookEnters, TakeBacked, Awaited, FenceType, StageType, FlagType, LeaseType,
          MapType
    <3>2. \A x \in Entry : Ended(x)'
      BY <2>4, <1>t, <1>i
      DEF LookEnters, Ended, FenceType, StageType, FlagType, LeaseType, MapType
    <3>3. \A x \in Entry : Ahead(x)'
      BY <2>4, <1>t, <1>i
      DEF LookEnters, Ahead, FenceType, StageType, FlagType, LeaseType, MapType
    <3>4. \A x \in Entry : adv'[x] = "none"
      BY <2>4, <1>t, <1>i
      DEF LookEnters, StageType
    <3>5. \A d \in Caller : pc'[d] # "out" => ending'[at'[d]] = "no"
      BY <2>4, <1>t, <1>i, <1>c
      DEF LookEnters, Ended, FenceType, StageType, FlagType, LeaseType, MapType
    <3>6. \A f \in known' : Fenced(f)'
      BY <2>4, <1>t, <1>i, <1>k
      DEF LookEnters, Fenced, LeaseType, Fence
    <3>7. mine' \subseteq 1..top'
      BY <2>4, <1>t, <1>m
      DEF LookEnters, LeaseType
    <3>8. NoOrphanedHold'
      BY <2>4, <1>t, <1>i, <1>o, <1>m
      DEF LookEnters, NoOrphanedHold, Held, Ended, TakeBacked, Ahead, FenceType,
          StageType, FlagType, LeaseType, MapType
    <3> QED
      BY <3>1, <3>2, <3>3, <3>4, <3>5, <3>6, <3>7, <3>8, <1>l DEF HoldInv
  <2>5. CASE JoinCheck(c)
    <3>1. \A x \in Entry : TakeBacked(x)'
      BY <2>5, <1>t, <1>i
      DEF JoinCheck, TakeBacked, Awaited, FenceType, StageType, FlagType, LeaseType,
          MapType
    <3>2. \A x \in Entry : Ended(x)'
      BY <2>5, <1>t, <1>i
      DEF JoinCheck, Ended, FenceType, StageType, FlagType, LeaseType, MapType
    <3>3. \A x \in Entry : Ahead(x)'
      BY <2>5, <1>t, <1>i
      DEF JoinCheck, Ahead, FenceType, StageType, FlagType, LeaseType, MapType
    <3>4. \A x \in Entry : adv'[x] = "none"
      BY <2>5, <1>t, <1>i
      DEF JoinCheck, StageType
    <3>5. \A d \in Caller : pc'[d] # "out" => ending'[at'[d]] = "no"
      BY <2>5, <1>t, <1>i, <1>c
      DEF JoinCheck, Ended, FenceType, StageType, FlagType, LeaseType, MapType
    <3>6. \A f \in known' : Fenced(f)'
      BY <2>5, <1>t, <1>i, <1>k
      DEF JoinCheck, Fenced, LeaseType, Fence
    <3>7. mine' \subseteq 1..top'
      BY <2>5, <1>t, <1>m
      DEF JoinCheck, LeaseType
    <3>8. NoOrphanedHold'
      BY <2>5, <1>t, <1>i, <1>o, <1>m
      DEF JoinCheck, NoOrphanedHold, Held, Ended, TakeBacked, Ahead, FenceType,
          StageType, FlagType, LeaseType, MapType
    <3> QED
      BY <3>1, <3>2, <3>3, <3>4, <3>5, <3>6, <3>7, <3>8, <1>l DEF HoldInv
  <2>6. CASE Leave(c)
    <3>1. \A x \in Entry : TakeBacked(x)'
      <4>1. /\ at[c] \in Entry /\ pc'[c] = "out" /\ pc[c] \in {"failed", "in"}
            /\ \A d \in Caller \ {c} : pc'[d] = pc[d]
            /\ UNCHANGED <<at, hold, take, takeBy, renew, retakes, used>>
        BY <2>6, <1>t, <1>c DEF Leave, StageType
      <4>2. \/ UNCHANGED <<current, timer, ending>>
            \/ Refs(at[c]) = {c} /\ BeginEnd(at[c])
        BY <2>6 DEF Leave
      <4>3. ASSUME NEW x \in Entry PROVE TakeBacked(x)'
        <5>1. Awaited(x) => Awaited(x)'
          BY <4>1 DEF Awaited
        <5>2. Awaited(x) => current' = current \/ current # x
          BY <4>1, <4>2 DEF Awaited, Refs, BeginEnd
        <5> QED
          BY <1>i, <4>1, <5>1, <5>2 DEF TakeBacked
      <4> QED
        BY <4>3
    <3>2. \A x \in Entry : Ended(x)'
      <4>1. /\ at[c] \in Entry /\ pc'[c] = "out" /\ pc[c] \in {"failed", "in"}
            /\ \A d \in Caller \ {c} : pc'[d] = pc[d]
            /\ UNCHANGED <<at, hold, take, takeBy, renew, retakes, used>>
        BY <2>6, <1>t, <1>c DEF Leave, StageType
      <4>2. \/ UNCHANGED <<current, timer, ending>>
            \/ Refs(at[c]) = {c} /\ BeginEnd(at[c])
        BY <2>6 DEF Leave
      <4>3. CASE UNCHANGED <<current, timer, ending>>
        BY <1>i, <4>1, <4>3 DEF Ended
      <4>4. CASE BeginEnd(at[c])
        <5>1. Ended(at[c])'
          <6>1. PICK x \in Entry : x = at[c]
            BY <4>1
          <6>2. /\ timer'[x] = FALSE /\ current' # x /\ x # 0
                /\ ending'[x] = IF renew[x] = "none" THEN "release" ELSE "wait"
            BY <1>t, <4>4, <6>1 DEF BeginEnd, FlagType, StageType, Entry
          <6>3. x <= used
            BY <1>c, <6>1 DEF CallerShape
          <6>4. Ended(x)'
            BY <4>1, <6>2, <6>3 DEF Ended
          <6> QED
            BY <4>1, <6>1, <6>4
        <5>2. ASSUME NEW x \in Entry, x # at[c] PROVE Ended(x)'
          <6>1. timer'[x] = timer[x] /\ ending'[x] = ending[x]
            BY <1>t, <4>4, <5>2 DEF BeginEnd, FlagType, StageType
          <6>2. current' = current \/ (current = at[c] /\ current' = 0)
            BY <4>4 DEF BeginEnd
          <6> QED
            BY <1>i, <4>1, <5>2, <6>1, <6>2 DEF Ended, Entry
        <5> QED
          BY <5>1, <5>2, <4>1
      <4> QED
        BY <4>2, <4>3, <4>4
    <3>3. \A x \in Entry : Ahead(x)'
      BY <2>6, <1>t, <1>i
      DEF Leave, BeginEnd, Ahead, FenceType, StageType, FlagType, LeaseType, MapType
    <3>4. \A x \in Entry : adv'[x] = "none"
      BY <2>6, <1>t, <1>i
      DEF Leave, BeginEnd, StageType
    <3>5. \A d \in Caller : pc'[d] # "out" => ending'[at'[d]] = "no"
      <4>1. /\ at[c] \in Entry /\ pc'[c] = "out" /\ pc[c] \in {"failed", "in"}
            /\ \A d \in Caller \ {c} : pc'[d] = pc[d]
            /\ UNCHANGED <<at, hold, take, takeBy, renew, retakes, used>>
        BY <2>6, <1>t, <1>c DEF Leave, StageType
      <4>2. \/ UNCHANGED <<current, timer, ending>>
            \/ Refs(at[c]) = {c} /\ BeginEnd(at[c])
        BY <2>6 DEF Leave
      <4>3. ASSUME NEW d \in Caller, pc'[d] # "out" PROVE ending'[at'[d]] = "no"
        <5>1. d # c /\ pc[d] # "out" /\ at[d] \in Entry /\ ending[at[d]] = "no"
          BY <1>c, <4>1, <4>3
        <5>2. ending'[at[d]] = ending[at[d]]
          BY <1>t, <4>1, <4>2, <5>1 DEF Refs, BeginEnd, StageType
        <5> QED
          BY <4>1, <5>1, <5>2
      <4> QED
        BY <4>3
    <3>6. \A f \in known' : Fenced(f)'
      BY <2>6, <1>t, <1>i, <1>k
      DEF Leave, BeginEnd, Fenced, LeaseType, Fence
    <3>7. mine' \subseteq 1..top'
      BY <2>6, <1>t, <1>m
      DEF Leave, BeginEnd, LeaseType
    <3>8. NoOrphanedHold'
      BY <2>6, <1>t, <1>i, <1>o, <1>m
      DEF Leave, BeginEnd, NoOrphanedHold, Held, Ended, TakeBacked, Ahead, FenceType,
          StageType, FlagType, LeaseType, MapType
    <3> QED
      BY <3>1, <3>2, <3>3, <3>4, <3>5, <3>6, <3>7, <3>8, <1>l DEF HoldInv
  <2> QED
    BY <1>2, <2>1, <2>2, <2>3, <2>4, <2>5, <2>6 DEF CallerStep
<1>3. ASSUME OtherTakes \/ OtherMarks PROVE HoldInv'
  <2>1. CASE OtherTakes
    <3>1. \A x \in Entry : TakeBacked(x)'
      BY <2>1, <1>t, <1>i
      DEF OtherTakes, TakeBacked, Awaited, FenceType, StageType, FlagType, LeaseType,
          MapType
    <3>2. \A x \in Entry : Ended(x)'
      BY <2>1, <1>t, <1>i
      DEF OtherTakes, Ended, FenceType, StageType, FlagType, LeaseType, MapType
    <3>3. \A x \in Entry : Ahead(x)'
      BY <2>1, <1>t, <1>i
      DEF OtherTakes, Ahead, FenceType, StageType, FlagType, LeaseType, MapType
    <3>4. \A x \in Entry : adv'[x] = "none"
      BY <2>1, <1>t, <1>i
      DEF OtherTakes, StageType
    <3>5. \A c \in Caller : pc'[c] # "out" => ending'[at'[c]] = "no"
      BY <2>1, <1>t, <1>i, <1>c
      DEF OtherTakes, Ended, FenceType, StageType, FlagType, LeaseType, MapType
    <3>6. \A f \in known' : Fenced(f)'
      BY <2>1, <1>t, <1>i, <1>k
      DEF OtherTakes, Fenced, LeaseType, Fence
    <3>7. mine' \subseteq 1..top'
      BY <2>1, <1>t, <1>m
      DEF OtherTakes, LeaseType
    <3>8. NoOrphanedHold'
      <4>1. top + 1 \notin 1..top /\ top' = top + 1 /\ mine' = mine
        BY <2>1, <1>t DEF OtherTakes, LeaseType
      <4> QED
        BY <1>m, <4>1 DEF NoOrphanedHold
    <3> QED
      BY <3>1, <3>2, <3>3, <3>4, <3>5, <3>6, <3>7, <3>8, <1>l DEF HoldInv
  <2>2. CASE OtherMarks
    <3>1. \A x \in Entry : TakeBacked(x)'
      BY <2>2, <1>t, <1>i
      DEF OtherMarks, Held, TakeBacked, Awaited, FenceType, StageType, FlagType,
          LeaseType, MapType
    <3>2. \A x \in Entry : Ended(x)'
      BY <2>2, <1>t, <1>i
      DEF OtherMarks, Held, Ended, FenceType, StageType, FlagType, LeaseType, MapType
    <3>3. \A x \in Entry : Ahead(x)'
      BY <2>2, <1>t, <1>i
      DEF OtherMarks, Held, Ahead, FenceType, StageType, FlagType, LeaseType, MapType
    <3>4. \A x \in Entry : adv'[x] = "none"
      BY <2>2, <1>t, <1>i
      DEF OtherMarks, Held, StageType
    <3>5. \A c \in Caller : pc'[c] # "out" => ending'[at'[c]] = "no"
      BY <2>2, <1>t, <1>i, <1>c
      DEF OtherMarks, Held, Ended, FenceType, StageType, FlagType, LeaseType, MapType
    <3>6. \A f \in known' : Fenced(f)'
      BY <2>2, <1>t, <1>i, <1>k
      DEF OtherMarks, Held, Fenced, LeaseType, Fence
    <3>7. mine' \subseteq 1..top'
      BY <2>2, <1>t, <1>m
      DEF OtherMarks, Held, LeaseType
    <3>8. NoOrphanedHold'
      BY <2>2, <1>t, <1>i, <1>o, <1>m
      DEF OtherMarks, Held, NoOrphanedHold, Held, Ended, TakeBacked, Ahead, FenceType,
          StageType, FlagType, LeaseType, MapType
    <3> QED
      BY <3>1, <3>2, <3>3, <3>4, <3>5, <3>6, <3>7, <3>8, <1>l DEF HoldInv
  <2> QED
    BY <1>3, <2>1, <2>2
<1>4. CASE UNCHANGED vars
  BY <1>l, <1>4 DEF vars, HoldInv, TakeBacked, Awaited, Ended, Ahead, Fenced, NoOrphanedHold, Held
<1>5. ~AdvanceCall
  BY DEF AdvanceCall
<1> QED
  BY <1>1, <1>2, <1>3, <1>4, <1>5 DEF Next

(* Where serve does not advance its hold, a lease that is this process's is always
   released by someone: the last caller out, a failed caller and a renewal that
   takes the lease back meanwhile leave no hold that nobody ends.                 *)
THEOREM HoldsAreEnded ==
  ASSUME Advances = FALSE
  PROVE  Spec => []NoOrphanedHold
<1>1. HoldInv => NoOrphanedHold
  BY DEF HoldInv
<1> QED
  BY HoldInvInit, HoldInvStep, <1>1, PTL DEF Spec

(* A process that is not serve writes under one fence per hold: only an entry that
   takes lost holds again gets a second one.                                       *)
THEOREM OneShotKeepsItsFence ==
  ASSUME Advances = FALSE
  PROVE  Spec => OneShotTakesOnce
<1>1. HoldInv /\ [Next]_vars =>
        [\A e \in Entry : ~retakes[e] /\ hold[e] # 0 => hold'[e] = hold[e]]_vars
  <2> SUFFICES ASSUME HoldInv, Next, NEW x \in Entry, ~retakes[x], hold[x] # 0
               PROVE  hold'[x] = hold[x]
    BY DEF vars
  <2>1. TakeBacked(x) /\ hold \in [Entry -> 0..MaxFence]
    BY DEF HoldInv, LockShape, TypeOK
  <2>2. ASSUME NEW e \in Entry, TakeInstalls(e) PROVE hold'[x] = hold[x]
    BY <2>1, <2>2 DEF TakeInstalls, TakeBacked
  <2>3. ASSUME NEW e \in Entry, AdvanceInstalls(e) PROVE FALSE
    BY <2>3 DEF AdvanceInstalls, HoldInv
  <2>4. ASSUME NEW e \in Entry, EntryStep(e), ~TakeInstalls(e), ~AdvanceInstalls(e)
        PROVE  hold' = hold
    BY <2>4 DEF EntryStep, TakeWins, TakeBusy, TakeThrows, RetakeEnds, EndRelease, Tick,
                RenewHeld, RenewLost, AdvanceFenced, AdvanceCurrent, AdvanceCreate,
                AdvanceMark, AdvanceRaised, AdvanceThrows
  <2>5. ASSUME NEW c \in Caller, CallerStep(c) PROVE hold' = hold
    BY <2>5 DEF CallerStep, AcquireFirst, AcquireJoin, LookRetakes, LookEnters, JoinCheck,
                Leave
  <2>6. CASE AdvanceCall \/ OtherTakes \/ OtherMarks
    BY <2>6 DEF AdvanceCall, OtherTakes, OtherMarks
  <2> QED
    BY <2>2, <2>3, <2>4, <2>5, <2>6 DEF Next
<1> QED
  BY <1>1, HoldInvInit, HoldInvStep, PTL DEF Spec, OneShotTakesOnce

-----------------------------------------------------------------------------
(* The writer lock and the claims, side by side *)

(* What TLC runs as one specification is the two components and nothing else: whatever
   holds of each of them holds of it.                                                   *)
THEOREM LockAndClaimsAreParts == PartsSpec => Spec /\ ClaimSpec
<1>1. PartsInit => Init /\ ClaimInit
  BY DEF PartsInit
<1>2. [PartsNext]_<<vars, claimVars, part>> => [Next]_vars /\ [ClaimNext]_claimVars
  BY DEF PartsNext
<1> QED
  BY <1>1, <1>2, PTL DEF PartsSpec, Spec, ClaimSpec

(* The entries, holds and callers of the writer lock, and the instances, copies and claims of
   suspended runs, keep their types in what TLC runs.                                        *)
THEOREM LockAndClaimsTypes == PartsSpec => []PartsTypeOK
<1>1. TypeOK /\ ClaimTypeOK => PartsTypeOK
  BY DEF PartsTypeOK
<1> QED
  BY <1>1, LockAndClaimsAreParts, LockTypeCorrect, ClaimTypeCorrect, PTL
=============================================================================
