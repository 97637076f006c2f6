------------------------------ MODULE V3WriterLock ------------------------------
(***************************************************************************)
(* One process's shared hold on the writer lease (v3_writer_lock.ts).      *)
(*                                                                         *)
(* Callers inside a process share one Held entry: the first creates it and *)
(* takes the lease, later ones join, the last one out ends it.  A timer    *)
(* renews the hold, a lost hold is taken again (serve), and serve may      *)
(* advance its hold to the next fence.  All of them run on one thread and  *)
(* interleave at every await; a step here runs from one await to the next. *)
(*                                                                         *)
(* The lease itself is abstracted to what WriterLease shows of it: the     *)
(* highest fence, whose it is, and whether it is marked released.  Markers *)
(* are always written here; WriterLease has the calls that fail.           *)
(***************************************************************************)
EXTENDS Naturals

CONSTANTS
    Caller,      \* calls of acquireV3WriterLock in this process
    MaxFence,    \* bound: no fence above it is created
    MaxEntries,  \* bound: Held entries the process ever creates
    Advances     \* whether serve advances its hold

ASSUME BoundsAssumption == MaxFence \in Nat /\ MaxEntries \in Nat
ASSUME SwitchAssumption == Advances \in BOOLEAN

Fence == 1..MaxFence
Entry == 1..MaxEntries

VARIABLES
    top,      \* the highest fence recorded, 0 for none
    mine,     \* fences this process created
    marks,    \* fences marked released
    known,    \* fences whose hold, in this process, knows it is lost
    current,  \* the entry in the map `held`, 0 for none
    used,     \* entries created so far
    retakes,  \* entry.retakeLost: whether a lost hold is taken again (serve)
    hold,     \* entry.hold: its fence, 0 for none
    timer,    \* whether entry.renewal is running
    take,     \* entry.acquiring or entry.retaking: how far the take is
    takeBy,   \* who began it: "first", "caller" (waits), "timer" (does not)
    got,      \* the fence the take created
    renew,    \* entry.renewing: what it is doing
    renewed,  \* the fence the renewal captured
    adv,      \* entry.advancing: how far the advance is
    advNew,   \* the fence the advance created, 0 for none
    ending,   \* endHold of the entry
    pc,       \* where each caller is
    at,       \* the entry each caller uses
    joined    \* whether the caller joined an entry, or a retake, of another

lease == <<top, mine, marks>>
taking == <<take, takeBy, got>>
renewal == <<renew, renewed>>
advance == <<adv, advNew>>
callers == <<pc, at, joined>>
vars == <<lease, known, current, used, retakes, hold, timer, taking, renewal, advance,
          ending, callers>>

-----------------------------------------------------------------------------
Init ==
    /\ top = 0 /\ mine = {} /\ marks = {} /\ known = {}
    /\ current = 0 /\ used = 0
    /\ retakes = [e \in Entry |-> FALSE]
    /\ hold = [e \in Entry |-> 0]
    /\ timer = [e \in Entry |-> FALSE]
    /\ take = [e \in Entry |-> "none"]
    /\ takeBy = [e \in Entry |-> "first"]
    /\ got = [e \in Entry |-> 0]
    /\ renew = [e \in Entry |-> "none"]
    /\ renewed = [e \in Entry |-> 0]
    /\ adv = [e \in Entry |-> "none"]
    /\ advNew = [e \in Entry |-> 0]
    /\ ending = [e \in Entry |-> "no"]
    /\ pc = [c \in Caller |-> "out"]
    /\ at = [c \in Caller |-> 0]
    /\ joined = [c \in Caller |-> FALSE]

\* What #check answers for the hold at fence f.
Fenced(f) == top > f \/ f \in marks

\* entry.refs: every caller that counted itself in and has not counted out.
Refs(e) == {c \in Caller : pc[c] # "out" /\ at[c] = e}

Lost(e) == hold[e] # 0 /\ hold[e] \in known

\* The lease keeps this process out of it until it is judged expired.
Held == top # 0 /\ top \notin marks

-----------------------------------------------------------------------------
(* Promises of an entry settling, and who wakes up. *)

MutEndingWakes(e) == UNCHANGED ending

\* entry.renewing settles: the endHold that awaits it goes on.
EndingWakes(e) ==
    ending' = [ending EXCEPT ![e] = IF @ = "wait" THEN "release" ELSE @]

(* A waiting advance goes on at once, as entry.renewing itself from then on: it
   has nothing to move when the hold is among the lost ones k.                  *)
RenewalSettles(e, k) ==
    LET moves == adv[e] = "wait" /\ hold[e] \notin k
    IN  /\ renew' = [renew EXCEPT ![e] = IF moves THEN "advance" ELSE "none"]
        /\ renewed' = [renewed EXCEPT ![e] = IF moves THEN hold[e] ELSE @]
        /\ adv' = [adv EXCEPT ![e] = IF moves THEN "check" ELSE "none"]
        /\ EndingWakes(e)

\* The callers that await the take of e, by how it ended.
CallersWake(e, outcome) ==
    pc' = [c \in Caller |->
             IF pc[c] # "taking" \/ at[c] # e THEN pc[c]
             ELSE IF outcome = "ok" \/ (outcome = "busy" /\ takeBy[e] # "first" /\ joined[c])
                  THEN "look" ELSE "failed"]

\* The take of e settles, and with it a renewal that made it.
TakeSettles(e, outcome) ==
    /\ take' = [take EXCEPT ![e] = "none"]
    /\ CallersWake(e, outcome)
    /\ IF renew[e] = "retake"
       THEN RenewalSettles(e, known) /\ UNCHANGED advNew
       ELSE UNCHANGED <<renewal, advance, ending>>
    /\ current' = IF takeBy[e] = "first" /\ outcome # "ok" /\ current = e
                  THEN 0 ELSE current

-----------------------------------------------------------------------------
(* takeLease, as acquire and retakeLease call it. *)

StartTake(e, by) ==
    /\ take' = [take EXCEPT ![e] = "trying"]
    /\ takeBy' = [takeBy EXCEPT ![e] = by]
    /\ got' = [got EXCEPT ![e] = 0]

\* The lease is free, released or, another process's, judged expired.
TakeWins(e) ==
    /\ take[e] = "trying" /\ top < MaxFence
    /\ Held => top \notin mine
    /\ top' = top + 1
    /\ mine' = mine \cup {top + 1}
    /\ got' = [got EXCEPT ![e] = top + 1]
    /\ take' = [take EXCEPT ![e] = "won"]
    /\ UNCHANGED <<marks, known, current, used, retakes, hold, timer, takeBy, renewal,
                   advance, ending, callers>>

\* V3WriterBusyError: at once for the timer's take, else when its wait is over
TakeBusy(e) ==
    /\ take[e] = "trying" /\ Held
    /\ TakeSettles(e, "busy")
    /\ UNCHANGED <<lease, known, used, retakes, hold, timer, takeBy, got, at, joined>>

\* Any other error of a take that created nothing or gave its fence up.
TakeThrows(e) ==
    /\ take[e] \in {"trying", "won"}
    /\ marks' = marks \cup {f \in {got[e]} : take[e] = "won"}
    /\ TakeSettles(e, "error")
    /\ UNCHANGED <<top, mine, known, used, retakes, hold, timer, takeBy, got, at, joined>>

\* The store's fence is raised: the hold becomes the entry's.
TakeInstalls(e) ==
    /\ take[e] = "won"
    /\ hold' = [hold EXCEPT ![e] = got[e]]
    /\ IF takeBy[e] = "first"
       THEN /\ timer' = [timer EXCEPT ![e] = TRUE]
            /\ TakeSettles(e, "ok")
       ELSE /\ take' = [take EXCEPT ![e] = "notify"]
            /\ UNCHANGED <<timer, current, renewal, advance, ending, pc>>
    /\ UNCHANGED <<lease, known, used, retakes, takeBy, got, at, joined>>

\* The old hold's heartbeat is gone and the listeners have run.
RetakeEnds(e) ==
    /\ take[e] = "notify"
    /\ TakeSettles(e, "ok")
    /\ UNCHANGED <<lease, known, used, retakes, hold, timer, takeBy, got, at, joined>>

-----------------------------------------------------------------------------
(* acquireV3WriterLock *)

\* No entry in the map: this caller creates it and begins the take.
AcquireFirst(c) ==
    /\ pc[c] = "out" /\ current = 0 /\ used < MaxEntries
    /\ used' = used + 1 /\ current' = used + 1
    /\ \E b \in BOOLEAN : retakes' = [retakes EXCEPT ![used + 1] = b]
    /\ StartTake(used + 1, "first")
    /\ pc' = [pc EXCEPT ![c] = "taking"]
    /\ at' = [at EXCEPT ![c] = used + 1]
    /\ joined' = [joined EXCEPT ![c] = FALSE]
    /\ UNCHANGED <<lease, known, hold, timer, renewal, advance, ending>>

AcquireJoin(c) ==
    /\ pc[c] = "out" /\ current # 0
    /\ pc' = [pc EXCEPT ![c] = IF hold[current] = 0 THEN "taking" ELSE "look"]
    /\ at' = [at EXCEPT ![c] = current]
    /\ joined' = [joined EXCEPT ![c] = TRUE]
    /\ UNCHANGED <<lease, known, current, used, retakes, hold, timer, taking, renewal,
                   advance, ending>>

\* The loop of acquire for serve: a lost hold is taken again, one take for all.
LookRetakes(c) ==
    /\ pc[c] = "look" /\ retakes[at[c]] /\ Lost(at[c])
    /\ IF take[at[c]] = "none" THEN StartTake(at[c], "caller") ELSE UNCHANGED taking
    /\ pc' = [pc EXCEPT ![c] = "taking"]
    /\ joined' = [joined EXCEPT ![c] = take[at[c]] # "none"]
    /\ UNCHANGED <<lease, known, current, used, retakes, hold, timer, renewal, advance,
                   ending, at>>

LookEnters(c) ==
    /\ pc[c] = "look" /\ ~(retakes[at[c]] /\ Lost(at[c]))
    /\ pc' = [pc EXCEPT ![c] = IF joined[c] /\ ~retakes[at[c]] THEN "check" ELSE "in"]
    /\ UNCHANGED <<lease, known, current, used, retakes, hold, timer, taking, renewal,
                   advance, ending, at, joined>>

\* assertJoinable of a one-shot process; a check that cannot read joins anyway
JoinCheck(c) ==
    /\ pc[c] = "check"
    /\ LET f == hold[at[c]]
       IN  IF f \in known \/ Fenced(f)
           THEN \/ /\ known' = known \cup {f}
                   /\ pc' = [pc EXCEPT ![c] = "failed"]
                \/ /\ f \notin known
                   /\ pc' = [pc EXCEPT ![c] = "in"]
                   /\ UNCHANGED known
           ELSE pc' = [pc EXCEPT ![c] = "in"] /\ UNCHANGED known
    /\ UNCHANGED <<lease, current, used, retakes, hold, timer, taking, renewal, advance,
                   ending, at, joined>>

MutBeginEnd(e) ==
    /\ current' = IF current = e THEN 0 ELSE current
    /\ timer' = [timer EXCEPT ![e] = FALSE]
    /\ ending' = [ending EXCEPT ![e] = "release"]

\* endHold up to its await of the renewal under way, if there is one.
BeginEnd(e) ==
    /\ current' = IF current = e THEN 0 ELSE current
    /\ timer' = [timer EXCEPT ![e] = FALSE]
    /\ ending' = [ending EXCEPT ![e] = IF renew[e] = "none" THEN "release" ELSE "wait"]

\* A caller counts itself out, after an error or by the returned release.
Leave(c) ==
    /\ pc[c] \in {"failed", "in"}
    /\ pc' = [pc EXCEPT ![c] = "out"]
    /\ IF Refs(at[c]) = {c} THEN BeginEnd(at[c]) ELSE UNCHANGED <<current, timer, ending>>
    /\ UNCHANGED <<lease, known, used, retakes, hold, taking, renewal, advance, at, joined>>

MutEndRelease(e) ==
    /\ ending[e] = "release"
    /\ ending' = [ending EXCEPT ![e] = "done"]
    /\ marks' = marks \cup ({hold[e]} \ known)
    /\ known' = known \cup ({hold[e]} \ {0})
    /\ UNCHANGED <<top, mine, current, used, retakes, hold, timer, taking, renewal, advance,
                   callers>>

\* hold?.release: a marker unless the hold knows it is lost
EndRelease(e) ==
    /\ ending[e] = "release"
    /\ ending' = [ending EXCEPT ![e] = "done"]
    /\ marks' = marks \cup ({hold[e]} \ (known \cup {0}))
    /\ known' = known \cup ({hold[e]} \ {0})
    /\ UNCHANGED <<top, mine, current, used, retakes, hold, timer, taking, renewal, advance,
                   callers>>

-----------------------------------------------------------------------------
(* startRenewal's timer *)

Tick(e) ==
    /\ timer[e] /\ renew[e] = "none"
    /\ renew' = [renew EXCEPT ![e] = "check"]
    /\ renewed' = [renewed EXCEPT ![e] = hold[e]]
    /\ UNCHANGED <<lease, known, current, used, retakes, hold, timer, taking, advance,
                   ending, callers>>

\* Renewed, or the store could not be reached: the next tick tries again.
RenewHeld(e) ==
    /\ renew[e] = "check" /\ renewed[e] \notin known
    /\ RenewalSettles(e, known)
    /\ UNCHANGED <<lease, known, current, used, retakes, hold, timer, taking, advNew, callers>>

MutRetakes(e) == take[e] = "none"
MutRetakesOnce(e) == retakes[e] /\ take[e] = "none" /\ renewed[e] \notin known

\* Whether a renewal that finds the hold lost tries to take a fresh lease.
Retakes(e) == retakes[e] /\ take[e] = "none"

RenewLost(e) ==
    /\ renew[e] = "check" /\ (renewed[e] \in known \/ Fenced(renewed[e]))
    /\ known' = known \cup {renewed[e]}
    /\ IF Retakes(e)
       THEN /\ StartTake(e, "timer")
            /\ renew' = [renew EXCEPT ![e] = "retake"]
            /\ UNCHANGED <<renewed, advance, ending>>
       ELSE RenewalSettles(e, known') /\ UNCHANGED <<taking, advNew>>
    /\ UNCHANGED <<lease, current, used, retakes, hold, timer, callers>>

-----------------------------------------------------------------------------
(* advanceV3WriterLease *)

\* The hold is moved at once, or after the renewal under way.
AdvanceCall ==
    /\ Advances /\ current # 0 /\ adv[current] = "none"
    /\ IF renew[current] # "none"
       THEN adv' = [adv EXCEPT ![current] = "wait"] /\ UNCHANGED renewal
       ELSE /\ hold[current] # 0 /\ ~Lost(current)
            /\ adv' = [adv EXCEPT ![current] = "check"]
            /\ renew' = [renew EXCEPT ![current] = "advance"]
            /\ renewed' = [renewed EXCEPT ![current] = hold[current]]
    /\ advNew' = [advNew EXCEPT ![current] = 0]
    /\ UNCHANGED <<lease, known, current, used, retakes, hold, timer, taking, ending, callers>>

AdvanceSettles(e) ==
    /\ adv' = [adv EXCEPT ![e] = "none"]
    /\ renew' = [renew EXCEPT ![e] = "none"]
    /\ EndingWakes(e)

\* assertCurrent finds the hold fenced, or cannot read the lease and throws
AdvanceFenced(e) ==
    /\ adv[e] = "check"
    /\ known' = known \cup {f \in {renewed[e]} : Fenced(f)} \/ UNCHANGED known
    /\ AdvanceSettles(e)
    /\ UNCHANGED <<lease, current, used, retakes, hold, timer, taking, renewed, advNew, callers>>

AdvanceCurrent(e) ==
    /\ adv[e] = "check" /\ ~(renewed[e] \in known \/ Fenced(renewed[e]))
    /\ renewed[e] < MaxFence
    /\ adv' = [adv EXCEPT ![e] = "create"]
    /\ UNCHANGED <<lease, known, current, used, retakes, hold, timer, taking, renewal,
                   advNew, ending, callers>>

\* the fence after the old hold's, unless another writer created it first
AdvanceCreate(e) ==
    /\ adv[e] = "create"
    /\ IF top = renewed[e]
       THEN /\ top' = top + 1 /\ mine' = mine \cup {top + 1}
            /\ advNew' = [advNew EXCEPT ![e] = top + 1]
       ELSE UNCHANGED <<top, mine, advNew>>
    /\ adv' = [adv EXCEPT ![e] = "mark"]
    /\ UNCHANGED <<marks, known, current, used, retakes, hold, timer, taking, renewal,
                   ending, callers>>

\* The old hold is released, and from here knows that it is lost.
AdvanceMark(e) ==
    /\ adv[e] = "mark"
    /\ marks' = marks \cup ({renewed[e]} \ known)
    /\ known' = known \cup {renewed[e]}
    /\ IF advNew[e] # 0
       THEN adv' = [adv EXCEPT ![e] = "raise"] /\ UNCHANGED <<renew, ending>>
       ELSE AdvanceSettles(e)
    /\ UNCHANGED <<top, mine, current, used, retakes, hold, timer, taking, renewed, advNew,
                   callers>>

\* The commit store takes the fence, unless a retake here raised a higher one.
AdvanceRaised(e) ==
    /\ adv[e] = "raise" /\ hold[e] < advNew[e]
    /\ adv' = [adv EXCEPT ![e] = "raised"]
    /\ UNCHANGED <<lease, known, current, used, retakes, hold, timer, taking, renewal,
                   advNew, ending, callers>>

\* raiseWriterFence returns, and only then the entry's hold is the new one
AdvanceInstalls(e) ==
    /\ adv[e] = "raised"
    /\ hold' = [hold EXCEPT ![e] = advNew[e]]
    /\ AdvanceSettles(e)
    /\ UNCHANGED <<lease, known, current, used, retakes, timer, taking, renewed, advNew, callers>>

AdvanceThrows(e) ==
    /\ adv[e] \in {"raise", "raised"}
    /\ marks' = marks \cup {advNew[e]}
    /\ AdvanceSettles(e)
    /\ UNCHANGED <<top, mine, known, current, used, retakes, hold, timer, taking, renewed,
                   advNew, callers>>

-----------------------------------------------------------------------------
(* Everyone else *)

OtherTakes ==
    /\ top < MaxFence
    /\ top' = top + 1
    /\ UNCHANGED <<mine, marks, known, current, used, retakes, hold, timer, taking, renewal,
                   advance, ending, callers>>

\* Another writer's release, or a forced release of whoever holds the lease.
OtherMarks ==
    /\ Held
    /\ marks' = marks \cup {top}
    /\ UNCHANGED <<top, mine, known, current, used, retakes, hold, timer, taking, renewal,
                   advance, ending, callers>>

-----------------------------------------------------------------------------
EntryStep(e) ==
    \/ TakeWins(e) \/ TakeBusy(e) \/ TakeThrows(e) \/ TakeInstalls(e) \/ RetakeEnds(e)
    \/ EndRelease(e) \/ Tick(e) \/ RenewHeld(e) \/ RenewLost(e)
    \/ AdvanceFenced(e) \/ AdvanceCurrent(e) \/ AdvanceCreate(e)
    \/ AdvanceMark(e) \/ AdvanceRaised(e) \/ AdvanceInstalls(e) \/ AdvanceThrows(e)

CallerStep(c) ==
    \/ AcquireFirst(c) \/ AcquireJoin(c) \/ LookRetakes(c) \/ LookEnters(c)
    \/ JoinCheck(c) \/ Leave(c)

Next ==
    \/ \E e \in Entry : EntryStep(e)
    \/ \E c \in Caller : CallerStep(c)
    \/ AdvanceCall \/ OtherTakes \/ OtherMarks

Spec == Init /\ [][Next]_vars

(* Awaits resolve and the interval fires, also between advances.  Calls to the
   stores may fail, but not for ever: a renewal that keeps being made reads the
   lease in the end, and a take that keeps being tried while the lease is free
   wins it in the end.                                                         *)
Fairness ==
    \A e \in Entry :
       /\ WF_vars(TakeWins(e) \/ TakeBusy(e) \/ TakeThrows(e))
       /\ WF_vars(TakeInstalls(e)) /\ WF_vars(RetakeEnds(e))
       /\ WF_vars(EndRelease(e)) /\ SF_vars(Tick(e))
       /\ WF_vars(RenewHeld(e) \/ RenewLost(e))
       /\ WF_vars(AdvanceFenced(e) \/ AdvanceCurrent(e)
                  \/ AdvanceCreate(e) \/ AdvanceMark(e) \/ AdvanceRaised(e)
                  \/ AdvanceInstalls(e) \/ AdvanceThrows(e))
       /\ SF_vars(RenewLost(e)) /\ SF_vars(TakeWins(e))

LiveSpec == Spec /\ Fairness

-----------------------------------------------------------------------------
\* Every variable has its type.
TypeOK ==
    /\ top \in 0..MaxFence /\ mine \subseteq Fence /\ marks \subseteq Fence
    /\ known \subseteq Fence
    /\ current \in 0..MaxEntries /\ used \in 0..MaxEntries
    /\ retakes \in [Entry -> BOOLEAN]
    /\ hold \in [Entry -> 0..MaxFence] /\ timer \in [Entry -> BOOLEAN]
    /\ take \in [Entry -> {"none", "trying", "won", "notify"}]
    /\ takeBy \in [Entry -> {"first", "caller", "timer"}]
    /\ got \in [Entry -> 0..MaxFence]
    /\ renew \in [Entry -> {"none", "check", "retake", "advance"}]
    /\ renewed \in [Entry -> 0..MaxFence]
    /\ adv \in [Entry -> {"none", "wait", "check", "create", "mark", "raise", "raised"}]
    /\ advNew \in [Entry -> 0..MaxFence]
    /\ ending \in [Entry -> {"no", "wait", "release", "done"}]
    /\ pc \in [Caller -> {"out", "taking", "look", "check", "failed", "in"}]
    /\ at \in [Caller -> 0..MaxEntries] /\ joined \in [Caller -> BOOLEAN]

(* While the lease is this process's, someone here will release it: it is the
   hold of the entry in the map or of one being ended, or work under way has it.
   The last caller out, a failed caller and a renewal that takes the lease back
   meanwhile never leave a hold nobody ends (acquireV3WriterLock, endHold).      *)
NoOrphanedHold ==
    top \in mine /\ Held =>
       \E e \in Entry :
          \/ hold[e] = top /\ (e = current \/ ending[e] \in {"wait", "release"})
          \/ take[e] = "won" /\ got[e] = top
          \/ adv[e] \in {"mark", "raise", "raised"} /\ advNew[e] = top

(* A one-shot process never writes under a second fence of one hold: after it
   loses the lease it fails as a whole (Held.retakeLost, startRenewal).         *)
OneShotTakesOnce ==
    [][\A e \in Entry : ~retakes[e] /\ hold[e] # 0 => hold'[e] = hold[e]]_vars

(* Ending a hold never hangs on the renewal it waits for (endHold).  *)
EndedHoldIsReleased == \A e \in Entry : ending[e] = "wait" ~> ending[e] = "done"

(* serve writes again once the other writer is done: while the entry is in use, a
   hold that was lost is replaced by a fresh one (startRenewal's retake).         *)
LostHoldIsTakenAgain ==
    \A e \in Entry :
       <>[](top \in mine \cup marks) =>
          (timer[e] /\ retakes[e] /\ Lost(e) ~> ~timer[e] \/ ~Lost(e) \/ top = MaxFence)

=============================================================================
