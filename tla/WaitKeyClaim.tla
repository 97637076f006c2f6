------------------------------ MODULE WaitKeyClaim ------------------------------
(***************************************************************************)
(* The claims on one key of one workflow (domain/workflows/                *)
(* wait_key_claim.ts) with the steps that wait for a signal under it.      *)
(*                                                                         *)
(* A step takes over the wait of an earlier execution or claims the key,   *)
(* registers its wait and is signalled.  Claims are records numbered by    *)
(* generation and created once; the highest one names the holder, for as   *)
(* long as its wait has no outcome.  Runs that ended are removed with      *)
(* their records while other steps claim.  The stores are shared by many   *)
(* processes: a step here is one call of a store, or two where no other    *)
(* call in between changes what the second returns.  Any call may throw,   *)
(* before or after what it writes is there.                                *)
(*                                                                         *)
(* Waits accept no early signals here.                                     *)
(***************************************************************************)
EXTENDS Naturals

CONSTANTS
    Step,         \* steps that wait under the key, each of a run of its own
    MaxTries,     \* bound: executions of one step, after crashes
    MaxGen,       \* bound: generations of the key
    MaxRemovals,  \* bound: passes of releaseKeyClaims
    Attempts      \* WAIT_KEY_CLAIM_ATTEMPTS

ASSUME BoundsAssumption ==
    /\ MaxTries \in Nat \ {0} /\ Attempts \in Nat
    /\ MaxGen \in Nat /\ MaxRemovals \in Nat

Wait == Step \X (1..MaxTries)
Gen == 1..MaxGen

VARIABLES
    claims,      \* claim records: <<generation, wait>>
    releases,    \* generations of release records
    registered,  \* waits with a registration
    outcome,     \* each wait's outcome record, "none" for none
    overdue,     \* waits whose deadline has passed
    aged,        \* waits whose claim is older than WAIT_KEY_UNREGISTERED_GRACE_MS
    decided,     \* waits a signaller is about to settle
    pc,          \* where each step is
    tries,       \* executions of each step
    wait,        \* the wait each step is on
    seen,        \* the record claimWaitKey read: <<generation, its wait, if a claim>>
    left,        \* attempts claimWaitKey has left
    late,        \* history: waits claimed under a number that had been removed
    rm,          \* where releaseKeyClaims is
    removals,    \* passes begun
    ended,       \* the runs it removes
    selected,    \* generations it selected
    floor,       \* generations below it are removed
    dropped      \* history: the runs whose removal has begun

records == <<claims, releases>>
waits == <<registered, outcome>>
clock == <<overdue, aged>>
step == <<pc, tries, wait, seen, left, late>>
removal == <<rm, removals, ended, selected, floor, dropped>>
vars == <<records, waits, clock, decided, step, removal>>

-----------------------------------------------------------------------------
Present == releases \cup {r[1] : r \in claims}

\* the generation highestKeyRecord reads from the key names, 0 for none
Top == CHOOSE g \in Present \cup {0} : \A h \in Present : h <= g

ClaimAt(g) == {w \in Wait : <<g, w>> \in claims}

Init ==
    /\ claims = {} /\ releases = {}
    /\ registered = {} /\ outcome = [w \in Wait |-> "none"]
    /\ overdue = {} /\ aged = {} /\ decided = {}
    /\ pc = [s \in Step |-> "idle"]
    /\ tries = [s \in Step |-> 0]
    /\ wait = [s \in Step |-> <<s, 1>>]
    /\ seen = [s \in Step |-> <<0, {}>>]
    /\ left = [s \in Step |-> 0] /\ late = {}
    /\ rm = "idle" /\ removals = 0
    /\ ended = {} /\ selected = {} /\ floor = 0 /\ dropped = {}

MutSettle(w, kind) == outcome' = [outcome EXCEPT ![w] = kind]

\* putIfAbsent of the outcome record
Settle(w, kind) ==
    outcome' = [outcome EXCEPT ![w] = IF @ = "none" THEN kind ELSE @]

Goto(s, l) == pc' = [pc EXCEPT ![s] = l]

\* claimWaitKey is left, with what it had read.
Leave(s, l) ==
    /\ Goto(s, l)
    /\ seen' = [seen EXCEPT ![s] = <<0, {}>>]
    /\ left' = [left EXCEPT ![s] = 0]

-----------------------------------------------------------------------------
(* The step opens its wait. *)

\* claimWaitKey with a fresh wait id
OpensWait(s) ==
    /\ Goto(s, "read")
    /\ tries' = [tries EXCEPT ![s] = @ + 1]
    /\ wait' = [wait EXCEPT ![s] = <<s, tries[s] + 1>>]
    /\ left' = [left EXCEPT ![s] = Attempts]

Start(s) ==
    /\ pc[s] = "idle" /\ tries[s] < MaxTries
    /\ OpensWait(s)
    /\ UNCHANGED <<records, waits, clock, decided, seen, late, removal>>

MutAdoptable(w) == outcome[w] = "none" /\ w \notin overdue

\* A wait still open, or one a signal was accepted for.
Adoptable(w) ==
    outcome[w] = "accepted" \/ (outcome[w] = "none" /\ w \notin overdue)

\* A run taken up again: the wait its step registered is taken over or closed.
AdoptableWait(s) ==
    /\ pc[s] = "crashed"
    /\ \E w \in registered :
          /\ w[1] = s
          /\ wait' = [wait EXCEPT ![s] = w]
          /\ Goto(s, IF Adoptable(w) THEN "open"
                     ELSE IF outcome[w] = "none" THEN "settle" ELSE "forget")
    /\ UNCHANGED <<records, waits, clock, decided, tries, seen, left, late, removal>>

\* A wait past its deadline and not signalled is closed.
CloseOverdue(s) ==
    /\ pc[s] = "settle"
    /\ Settle(wait[s], "cancelled")
    /\ Goto(s, "forget")
    /\ UNCHANGED <<records, registered, clock, decided, tries, wait, seen, left, late, removal>>

ForgetOverdue(s) ==
    /\ pc[s] = "forget" /\ tries[s] < MaxTries
    /\ registered' = registered \ {wait[s]}
    /\ OpensWait(s)
    /\ UNCHANGED <<records, outcome, clock, decided, seen, late, removal>>

RestartFresh(s) ==
    /\ pc[s] = "crashed" /\ tries[s] < MaxTries
    /\ \A w \in registered : w[1] # s
    /\ OpensWait(s)
    /\ UNCHANGED <<records, waits, clock, decided, seen, late, removal>>

\* adoptableWait throws, and the step fails: what is registered stays.
AdoptionFails(s) ==
    /\ pc[s] \in {"crashed", "settle", "forget"}
    /\ Goto(s, "failed")
    /\ UNCHANGED <<records, waits, clock, decided, tries, wait, seen, left, late, removal>>

-----------------------------------------------------------------------------
(* claimWaitKey *)

MutRetry(s) == Goto(s, "read") /\ left' = [left EXCEPT ![s] = @ - 1] /\ UNCHANGED seen

\* the next attempt, or "contended"
Retry(s) ==
    IF left[s] > 1
    THEN Goto(s, "read") /\ left' = [left EXCEPT ![s] = @ - 1] /\ UNCHANGED seen
    ELSE Leave(s, "failed")

ReadHighest(s) ==
    /\ pc[s] = "read"
    /\ seen' = [seen EXCEPT ![s] = <<Top, ClaimAt(Top)>>]
    /\ Goto(s, IF ClaimAt(Top) = {} THEN "create" ELSE "outcome")
    /\ UNCHANGED <<records, waits, clock, decided, tries, wait, left, late, removal>>

MutHolds(w) == outcome[w] = "none" /\ w \in registered

\* decideKeyHolder: a wait with an outcome of any kind does not hold the key
Holds(w) == outcome[w] = "none"

OutcomeOfClaim(s) ==
    /\ pc[s] = "outcome"
    /\ \E w \in seen[s][2] :
          Goto(s, IF ~Holds(w) THEN "create"
                  ELSE IF w \in overdue THEN "expire" ELSE "again")
    /\ UNCHANGED <<records, waits, clock, decided, tries, wait, seen, left, late, removal>>

SettleTimedOut(s) ==
    /\ pc[s] = "expire"
    /\ \E w \in seen[s][2] : Settle(w, "timed_out")
    /\ Goto(s, "create")
    /\ UNCHANGED <<records, registered, clock, decided, tries, wait, seen, left, late, removal>>

\* The holder is still the highest record: this step's own, abandoned or open.
ReadAgain(s) ==
    /\ pc[s] = "again"
    /\ IF Top # seen[s][1] THEN Retry(s) /\ UNCHANGED wait
       ELSE \E w \in seen[s][2] :
               \/ /\ w[1] = s
                  /\ Leave(s, "register")
                  /\ wait' = [wait EXCEPT ![s] = w]
               \/ /\ w[1] # s /\ w \in aged
                  /\ Goto(s, "abandoned") /\ UNCHANGED <<wait, seen, left>>
               \/ /\ w[1] # s /\ w \notin aged
                  /\ Leave(s, "failed") /\ UNCHANGED wait
    /\ UNCHANGED <<records, waits, clock, decided, tries, late, removal>>

\* settleAbandoned: an old claim without a registration is closed
FindRegistration(s) ==
    /\ pc[s] = "abandoned"
    /\ IF seen[s][2] \subseteq registered THEN Leave(s, "failed")
       ELSE Goto(s, "cancel") /\ UNCHANGED <<seen, left>>
    /\ UNCHANGED <<records, waits, clock, decided, tries, wait, late, removal>>

MutSettleCancelled(s) ==
    /\ pc[s] = "cancel"
    /\ Goto(s, "create")
    /\ UNCHANGED <<records, waits, clock, decided, tries, wait, seen, left, late, removal>>

SettleCancelled(s) ==
    /\ pc[s] = "cancel"
    /\ \E w \in seen[s][2] : Settle(w, "cancelled")
    /\ Retry(s)
    /\ UNCHANGED <<records, registered, clock, decided, tries, wait, late, removal>>

\* putIfAbsent of the next generation
Create(s) ==
    /\ pc[s] = "create" /\ seen[s][1] < MaxGen
    /\ claims' = IF seen[s][1] + 1 \in Present THEN claims
                 ELSE claims \cup {<<seen[s][1] + 1, wait[s]>>}
    /\ late' = IF claims' # claims /\ seen[s][1] + 1 <= Top THEN late \cup {wait[s]} ELSE late
    /\ Goto(s, "confirm")
    /\ UNCHANGED <<releases, waits, clock, decided, tries, wait, seen, left, removal>>

\* What holds the generation is read back: acquired when it is this wait.
Confirm(s) ==
    /\ pc[s] = "confirm"
    /\ IF <<seen[s][1] + 1, wait[s]>> \in claims
       THEN Leave(s, "register")
       ELSE Retry(s)
    /\ UNCHANGED <<records, waits, clock, decided, tries, wait, late, removal>>

Claiming ==
    {"read", "outcome", "expire", "again", "abandoned", "cancel", "create", "confirm"}

Register(s) ==
    /\ pc[s] = "register"
    /\ registered' = registered \cup {wait[s]}
    /\ Goto(s, "open")
    /\ UNCHANGED <<records, outcome, clock, decided, tries, wait, seen, left, late, removal>>

\* A call of the claim or of the registration throws; the registration may be there.
StoreThrows(s) ==
    /\ pc[s] \in Claiming \cup {"register"}
    /\ Leave(s, "close")
    /\ \/ UNCHANGED registered
       \/ pc[s] = "register" /\ registered' = registered \cup {wait[s]}
    /\ UNCHANGED <<records, outcome, clock, decided, tries, wait, late, removal>>

\* closeUnopenedWait, unless the store fails again; a registration stays
CloseUnopenedWait(s) ==
    /\ pc[s] = "close"
    /\ Settle(wait[s], "cancelled") \/ UNCHANGED outcome
    /\ Goto(s, "failed")
    /\ UNCHANGED <<records, registered, clock, decided, tries, wait, seen, left, late, removal>>

-----------------------------------------------------------------------------
(* The open wait, its end and the end of the run. *)

\* The run goes on with what its wait was settled as.
Resume(s) ==
    /\ pc[s] = "open" /\ outcome[wait[s]] # "none"
    /\ Goto(s, "leaving")
    /\ UNCHANGED <<records, waits, clock, decided, tries, wait, seen, left, late, removal>>

\* closeStepWait of a run that is cancelled; if it throws the run is saved as over all
\* the same, its wait open or settled.
CancelRun(s) ==
    /\ pc[s] = "open" /\ outcome[wait[s]] = "none"
    /\ \/ /\ IF wait[s] \in registered THEN Settle(wait[s], "cancelled") ELSE UNCHANGED outcome
          /\ Goto(s, "leaving")
       \/ /\ Settle(wait[s], "cancelled") \/ UNCHANGED outcome
          /\ Goto(s, "ended")
    /\ UNCHANGED <<records, registered, clock, decided, tries, wait, seen, left, late, removal>>

\* The run is saved as over, with its registration if that could not be removed.
RemoveRegistration(s) ==
    /\ pc[s] = "leaving"
    /\ registered' = registered \ {wait[s]} \/ UNCHANGED registered
    /\ Goto(s, "ended")
    /\ UNCHANGED <<records, outcome, clock, decided, tries, wait, seen, left, late, removal>>

\* The process dies before the run that holds the wait is saved.
Crash(s) ==
    /\ pc[s] \in Claiming \cup {"register", "close", "open", "settle", "forget"}
    /\ Leave(s, "crashed")
    /\ UNCHANGED <<records, waits, clock, decided, tries, wait, late, removal>>

\* A signaller finds the wait open and its payload valid: the run it reads may be behind ...
SignalDecided(w) ==
    /\ w \in registered /\ outcome[w] = "none" /\ w \notin overdue
    /\ w \notin decided
    /\ decided' = decided \cup {w}
    /\ UNCHANGED <<records, waits, clock, step, removal>>

\* ... and settles it, unless it was settled meanwhile.
SignalSettles(w) ==
    /\ w \in decided
    /\ decided' = decided \ {w}
    /\ Settle(w, "accepted")
    /\ UNCHANGED <<records, registered, clock, step, removal>>

\* outcomeAt: whoever looks at an overdue wait settles it
TimeOut(w) ==
    /\ w \in registered /\ w \in overdue /\ outcome[w] = "none"
    /\ Settle(w, "timed_out")
    /\ UNCHANGED <<records, registered, clock, decided, step, removal>>

\* Time is watched only while it can still settle the wait.
Watched(w) == outcome[w] = "none" /\ \E g \in Gen : <<g, w>> \in claims

DeadlinePasses(w) ==
    /\ Watched(w) /\ w \notin overdue
    /\ overdue' = overdue \cup {w}
    /\ UNCHANGED <<records, waits, aged, decided, step, removal>>

GracePasses(w) ==
    /\ Watched(w) /\ w \notin aged /\ w \notin registered
    /\ aged' = aged \cup {w}
    /\ UNCHANGED <<records, waits, overdue, decided, step, removal>>

-----------------------------------------------------------------------------
(* removeWaitRecordsOfRuns of runs that are over *)

Over(s) == pc[s] \in {"ended", "failed"}

\* sweepWaitRecords closes a wait that the end of its run left behind, then drops it.
SweepWaitRecords(w) ==
    /\ w \in registered /\ Over(w[1])
    /\ IF outcome[w] = "none"
       THEN Settle(w, "cancelled") /\ UNCHANGED registered
       ELSE registered' = registered \ {w} /\ UNCHANGED outcome
    /\ UNCHANGED <<records, clock, decided, step, removal>>

\* releaseKeyClaims lists the records and selects the releases and the runs' claims
ListRecords ==
    /\ rm = "idle" /\ removals < MaxRemovals
    /\ \E runs \in SUBSET {s \in Step : Over(s)} :
          /\ runs # {}
          /\ ended' = runs /\ dropped' = dropped \cup runs
          /\ selected' = releases \cup {r[1] : r \in {q \in claims : q[2][1] \in runs}}
    /\ removals' = removals + 1
    /\ rm' = "highest"
    /\ UNCHANGED <<records, waits, clock, decided, step, floor>>

ReadFloor ==
    /\ rm = "highest"
    /\ floor' = Top
    /\ rm' = IF selected = {} THEN "records"
             ELSE IF ClaimAt(Top) # {} /\ Top \in selected THEN "release" ELSE "remove"
    /\ UNCHANGED <<records, waits, clock, decided, step, removals, ended, selected, dropped>>

MutCreateRelease ==
    /\ rm = "release"
    /\ floor' = floor + 1
    /\ rm' = "remove"
    /\ UNCHANGED <<records, waits, clock, decided, step, removals, ended, selected, dropped>>

\* Whatever holds the next generation supersedes the highest claim.
CreateRelease ==
    /\ rm = "release" /\ floor < MaxGen
    /\ releases' = IF floor + 1 \in Present THEN releases ELSE releases \cup {floor + 1}
    /\ floor' = floor + 1
    /\ rm' = "remove"
    /\ UNCHANGED <<claims, waits, clock, decided, step, removals, ended, selected, dropped>>

RemoveKeyRecord(g) ==
    /\ rm = "remove" /\ g \in selected /\ g < floor
    /\ selected' = selected \ {g}
    /\ claims' = {r \in claims : r[1] # g}
    /\ releases' = releases \ {g}
    /\ UNCHANGED <<waits, clock, decided, step, rm, removals, ended, floor, dropped>>

KeyRecordsRemoved ==
    /\ rm = "remove" /\ \A g \in selected : g >= floor
    /\ rm' = "records"
    /\ UNCHANGED <<records, waits, clock, decided, step, removals, ended, selected, floor, dropped>>

\* The registration goes before the outcome, one wait after the other.
RemoveWaitRecords(w) ==
    /\ rm = "records" /\ w[1] \in ended
    /\ \/ /\ w \in registered
          /\ registered' = registered \ {w} /\ UNCHANGED outcome
       \/ /\ w \notin registered /\ outcome[w] # "none"
          /\ outcome' = [outcome EXCEPT ![w] = "none"] /\ UNCHANGED registered
    /\ UNCHANGED <<records, clock, decided, step, removal>>

EndsRemoval ==
    /\ rm' = "idle" /\ ended' = {} /\ selected' = {} /\ floor' = 0
    /\ UNCHANGED <<records, waits, clock, decided, step, removals, dropped>>

\* A call of the pass throws, and the rest of it is left undone.
RemovalThrows == rm # "idle" /\ EndsRemoval

RemovalDone ==
    /\ rm = "records"
    /\ \A w \in Wait : w[1] \in ended => w \notin registered /\ outcome[w] = "none"
    /\ EndsRemoval

-----------------------------------------------------------------------------
StepNext(s) ==
    \/ Start(s) \/ AdoptableWait(s) \/ CloseOverdue(s) \/ ForgetOverdue(s)
    \/ RestartFresh(s) \/ AdoptionFails(s) \/ ReadHighest(s) \/ OutcomeOfClaim(s)
    \/ SettleTimedOut(s) \/ ReadAgain(s) \/ FindRegistration(s) \/ SettleCancelled(s) \/ Create(s)
    \/ Confirm(s) \/ Register(s) \/ StoreThrows(s) \/ CloseUnopenedWait(s)
    \/ Resume(s) \/ CancelRun(s) \/ RemoveRegistration(s) \/ Crash(s)

WaitNext(w) ==
    \/ SignalDecided(w) \/ SignalSettles(w) \/ TimeOut(w)
    \/ DeadlinePasses(w) \/ GracePasses(w) \/ SweepWaitRecords(w) \/ RemoveWaitRecords(w)

Next ==
    \/ \E s \in Step : StepNext(s)
    \/ \E w \in Wait : WaitNext(w)
    \/ ListRecords \/ ReadFloor \/ CreateRelease \/ KeyRecordsRemoved \/ RemovalDone
    \/ RemovalThrows
    \/ \E g \in Gen : RemoveKeyRecord(g)

Spec == Init /\ [][Next]_vars

-----------------------------------------------------------------------------
\* Every variable has its type.
TypeOK ==
    /\ claims \subseteq Gen \X Wait /\ releases \subseteq Gen
    /\ registered \subseteq Wait
    /\ outcome \in [Wait -> {"none", "accepted", "timed_out", "cancelled"}]
    /\ overdue \subseteq Wait /\ aged \subseteq Wait /\ decided \subseteq Wait
    /\ pc \in [Step -> Claiming \cup {"idle", "settle", "forget", "register", "open",
                                      "close", "failed", "leaving", "ended", "crashed"}]
    /\ tries \in [Step -> 0..MaxTries]
    /\ wait \in [Step -> Wait]
    /\ seen \in [Step -> (0..MaxGen) \X SUBSET Wait]
    /\ left \in [Step -> 0..Attempts] /\ late \subseteq Wait
    /\ rm \in {"idle", "highest", "release", "remove", "records"}
    /\ removals \in 0..MaxRemovals
    /\ ended \subseteq Step /\ selected \subseteq Gen /\ floor \in 0..MaxGen
    /\ dropped \subseteq Step

Removed == {w \in Wait : w[1] \in dropped}

\* A wait is open, whatever has become of its run, until it is settled or removed with it;
\* but for one whose claim stalled while a pass of the removal took its number away.
Open == {w \in registered : outcome[w] = "none" /\ w \notin Removed \cup late}

(* Two waits are never open under one key: not after crashes, abandoned claims
   that register late, overdue holders or the removal of old runs (header and
   settleAbandoned of wait_key_claim.ts).                                        *)
OneOpenWait == \A v, w \in Open : v = w

(* A signal by key finds every open wait: the highest record is its claim, whatever
   was released or removed meanwhile (findKeyHolder reads only that record).       *)
OpenWaitHoldsKey == \A w \in Open : ClaimAt(Top) = {w}

(* The numbers of a key never come down, so a removed one is not the next one
   again (releaseKeyClaims supersedes the highest claim before it removes it).   *)
HighestStays == [][Top' >= Top]_vars

(* A settled wait stays as it is settled until its run is removed: a timeout, a
   cancel and a signal at the same moment have one winner (settle).               *)
OutcomeIsFinal ==
    [][\A w \in Wait : outcome[w] # "none" => outcome'[w] \in {outcome[w], "none"}]_vars

(* A step that is executed again stands at the wait a signal was accepted for, if
   its deadline has not passed: no second wait leaves that signal unread
   (adoptableWait, claimWaitKey's "own").                                         *)
SignalBeforeDeadlineIsRead ==
    \A s \in Step, w \in Wait :
       w[1] = s /\ outcome[w] = "accepted" /\ w \notin overdue /\ pc[s] = "open"
          => wait[s] = w

(* The same for every accepted signal, also one decided just before the deadline:
   "a signal accepted in between is applied, not lost" (findRegistrationOfStep).  *)
AcceptedSignalIsRead ==
    \A s \in Step, w \in Wait :
       w[1] = s /\ outcome[w] = "accepted" /\ pc[s] = "open" => wait[s] = w

KW == INSTANCE KeyedWait WITH open <- Open, gone <- Removed

(* The records of a key amount to a keyed wait: a wait opens only when no other is
   open and while it is unsettled, whatever was claimed, taken over, closed or removed
   meanwhile, and is settled once (claimWaitKey, settle, removeWaitRecordsOfRuns).  *)
ImplementsKeyedWait == KW!Spec

=============================================================================
