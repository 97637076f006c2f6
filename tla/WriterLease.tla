------------------------------ MODULE WriterLease ------------------------------
(***************************************************************************)
(* The writer lease of a v3 datastore and the commit store it fences.      *)
(*                                                                         *)
(* Processes share a control-plane store of small keys (fence-N,           *)
(* released-N) and one commit store.  Every call on either is a step of    *)
(* its own, so the steps of all processes interleave between any two       *)
(* awaits of the code.  A process is an incarnation: one that crashes      *)
(* never comes back under its name, so the nonce of a fence record is the  *)
(* process that wrote it.                                                  *)
(*                                                                         *)
(* Clocks are left out on purpose: whether an unreleased lease is judged   *)
(* held or expired is a choice, so nothing proved here depends on time     *)
(* (the code's claim: a too-early takeover is safe).  The heartbeat-N keys *)
(* only feed that verdict and are left out with it.                        *)
(***************************************************************************)
EXTENDS Naturals, Sequences

CONSTANTS
    Proc,        \* process incarnations that may take the lease
    Serve,       \* those of them that take a lost hold again (retakeLost)
    NoOne,       \* no process
    MaxFence,    \* bound: no fence above it is created
    MaxCommits,  \* bound: no commit is appended to a log of this length
    Faults       \* the calls that may throw: "renew", "prune", "mark", "raise"

ASSUME FenceAssumption == MaxFence \in Nat
ASSUME CommitAssumption == MaxCommits \in Nat
ASSUME ProcAssumption == NoOne \notin Proc /\ Serve \subseteq Proc

VARIABLES
    rec,        \* fence-N keys: the process that created each, or NoOne
    rel,        \* released-N keys, as the set of their fences
    storeFence, \* the commit store's writer fence, 0 while it has none
    log,        \* commits the store took
    pc,         \* next await of each process's lease work
    mode,       \* why the process takes a fence
    floor,      \* store fence read before acquiring, 0 for none
    want,       \* fence being taken, 0 for none
    doomed,     \* fences whose records a prune has listed and not yet deleted
    hold,       \* fence of the process's hold (entry.hold), 0 for none
    lost,       \* whether that hold knows it is lost
    unit,       \* fence the open unit of work captured, 0 for none
    sent,       \* whether the unit's commit waits in the store's queue
    won,        \* history: fences a process passed its first renewal at
    raiser      \* history: the process that raised storeFence

keys  == <<rec, rel>>
store == <<storeFence, log, raiser>>
units == <<unit, sent>>
take  == <<mode, floor, want, doomed>>
held  == <<hold, lost>>
vars  == <<keys, store, pc, take, held, units, won>>

Fence  == 1..MaxFence
Fence0 == 0..MaxFence

\* Each label is the call on a store that the process makes next.
PCs == {"idle", "list", "judge", "wait", "create", "takeCheck", "takeBeat",
        "pruneList", "pruning", "oldMark", "raise", "giveUp", "held", "endMark",
        "dead"}

Modes == {"none", "first", "retake", "advance"}

Max2(a, b) == IF a > b THEN a ELSE b

-----------------------------------------------------------------------------
(* Reading the records. *)

HigherThan(f) == \E g \in Fence : g > f /\ rec[g] # NoOne

MutFencedByRelease(f) == f \in rel

\* What #check answers for a hold at fence f: a higher fence, or its release.
Fenced(f) == HigherThan(f) \/ f \in rel

IsHighest(h) == (h # 0 => rec[h] # NoOne) /\ ~HigherThan(h)

\* The commit store's #checkWriterFence.
CheckWriterFence(f) == f >= storeFence

-----------------------------------------------------------------------------
Init ==
    /\ rec = [f \in Fence |-> NoOne]
    /\ rel = {}
    /\ storeFence = 0 /\ log = <<>> /\ raiser = NoOne
    /\ pc = [p \in Proc |-> "idle"]
    /\ mode = [p \in Proc |-> "none"]
    /\ floor = [p \in Proc |-> 0]
    /\ want = [p \in Proc |-> 0]
    /\ doomed = [p \in Proc |-> {}]
    /\ hold = [p \in Proc |-> 0]
    /\ lost = [p \in Proc |-> FALSE]
    /\ unit = [p \in Proc |-> 0]
    /\ sent = [p \in Proc |-> FALSE]
    /\ won = [p \in Proc |-> {}]

Goto(p, l) == pc' = [pc EXCEPT ![p] = l]

\* The take of p is over, with a hold or without one: its variables are reset.
TakeEnds(p) ==
    /\ mode' = [mode EXCEPT ![p] = "none"]
    /\ floor' = [floor EXCEPT ![p] = 0]
    /\ want' = [want EXCEPT ![p] = 0]
    /\ UNCHANGED doomed

\* Where a take that ends without a hold leaves the process.
AfterFailure(p) == IF mode[p] = "first" THEN "idle" ELSE "held"

-----------------------------------------------------------------------------
(* acquire *)

Start(p, m) ==
    /\ mode' = [mode EXCEPT ![p] = m]
    /\ floor' = [floor EXCEPT ![p] = storeFence]
    /\ Goto(p, "list")
    /\ UNCHANGED <<keys, store, want, doomed, held, units, won>>

StartAcquire(p) == pc[p] = "idle" /\ Start(p, "first")

\* serve: the hold was taken over or released, take a fresh lease
StartRetake(p) ==
    /\ p \in Serve /\ pc[p] = "held" /\ lost[p]
    /\ Start(p, "retake")

NextFence(h, fl) == Max2(h, fl) + 1

\* The listing: a released highest fence needs no verdict of the gets.
ReadList(p) ==
    /\ pc[p] = "list"
    /\ \E h \in Fence0 :
          /\ IsHighest(h)
          /\ NextFence(h, floor[p]) <= MaxFence
          /\ want' = [want EXCEPT ![p] = NextFence(h, floor[p])]
          /\ Goto(p, IF h = 0 \/ h \in rel THEN "create" ELSE "judge")
    /\ UNCHANGED <<keys, store, mode, floor, doomed, held, units, won>>

MutJudgeReleased(p) ==
    /\ pc[p] = "judge" /\ want[p] - 1 \in rel
    /\ Goto(p, "create")
    /\ UNCHANGED <<keys, store, take, held, units, won>>

JudgeExpired(p) ==
    /\ pc[p] = "judge"
    /\ Goto(p, "create")
    /\ UNCHANGED <<keys, store, take, held, units, won>>

JudgeHeld(p) ==
    /\ pc[p] = "judge"
    /\ want' = [want EXCEPT ![p] = 0]
    /\ Goto(p, "wait")
    /\ UNCHANGED <<keys, store, mode, floor, doomed, held, units, won>>

Retry(p) ==
    /\ pc[p] = "wait"
    /\ Goto(p, "list")
    /\ UNCHANGED <<keys, store, take, held, units, won>>

\* maxWaitMs is over: V3WriterBusyError
Busy(p) ==
    /\ pc[p] = "wait"
    /\ Goto(p, AfterFailure(p))
    /\ TakeEnds(p)
    /\ UNCHANGED <<keys, store, held, units, won>>

-----------------------------------------------------------------------------
(* #take *)

\* What a take without a hold goes on with: acquire waits for the writer that
\* won, advance still releases the old hold.
TakeLost(p) ==
    /\ want' = [want EXCEPT ![p] = 0]
    /\ Goto(p, IF mode[p] = "advance" THEN "oldMark" ELSE "wait")

Create(p) ==
    /\ pc[p] = "create" /\ rec[want[p]] = NoOne
    /\ rec' = [rec EXCEPT ![want[p]] = p]
    /\ Goto(p, "takeCheck")
    /\ UNCHANGED <<rel, store, take, held, units, won>>

\* putIfAbsent found the fence: another writer created it first
CreateRefused(p) ==
    /\ pc[p] = "create" /\ rec[want[p]] # NoOne
    /\ TakeLost(p)
    /\ UNCHANGED <<keys, store, mode, floor, doomed, held, units, won>>

\* renew's check in #take
TakeConfirmed(p) ==
    /\ pc[p] = "takeCheck" /\ ~Fenced(want[p])
    /\ won' = [won EXCEPT ![p] = @ \cup {want[p]}]
    /\ Goto(p, "takeBeat")
    /\ UNCHANGED <<keys, store, take, held, units>>

\* a fenced hold's release writes no marker
TakeFenced(p) ==
    /\ pc[p] = "takeCheck" /\ Fenced(want[p])
    /\ TakeLost(p)
    /\ UNCHANGED <<keys, store, mode, floor, doomed, held, units, won>>

TakeBeat(p) ==
    /\ pc[p] = "takeBeat"
    /\ Goto(p, "pruneList")
    /\ UNCHANGED <<keys, store, take, held, units, won>>

\* The first renewal throws: the fence is given up.
TakeRenewThrows(p) ==
    /\ "renew" \in Faults
    /\ pc[p] \in {"takeCheck", "takeBeat"}
    /\ Goto(p, "giveUp")
    /\ UNCHANGED <<keys, store, take, held, units, won>>

MutOutdatedPrevious(g, f) == g < f
MutOutdatedOwn(g, f) == g <= f

\* Records older than the fence before f are pruned by the holder of f.
Outdated(g, f) == g + 1 < f

PruneList(p) ==
    /\ pc[p] = "pruneList"
    /\ doomed' = [doomed EXCEPT ![p] =
                    {g \in Fence : Outdated(g, want[p]) /\ rec[g] # NoOne}]
    /\ Goto(p, "pruning")
    /\ UNCHANGED <<keys, store, mode, floor, want, held, units, won>>

(* One delete.  The released key of a fence goes with its record: it is only
   ever read for the highest fence, which is never pruned.  A record whose
   delete throws is left for the next takeover.                              *)
PruneKey(p) ==
    /\ pc[p] = "pruning"
    /\ \E g \in doomed[p] :
          /\ doomed' = [doomed EXCEPT ![p] = @ \ {g}]
          /\ \/ rec' = [rec EXCEPT ![g] = NoOne] /\ rel' = rel \ {g}
             \/ "prune" \in Faults /\ UNCHANGED keys
    /\ UNCHANGED <<store, pc, mode, floor, want, held, units, won>>

PruneDone(p) ==
    /\ pc[p] = "pruning" /\ doomed[p] = {}
    /\ Goto(p, IF mode[p] = "advance" THEN "oldMark" ELSE "raise")
    /\ UNCHANGED <<keys, store, take, held, units, won>>

(* The listing of #prune throws: nothing catches it, so take and acquire or
   advance throw with the fence created and never released.                *)
PruneListThrows(p) ==
    /\ "prune" \in Faults
    /\ pc[p] = "pruneList"
    /\ Goto(p, AfterFailure(p))
    /\ TakeEnds(p)
    /\ UNCHANGED <<keys, store, held, units, won>>

-----------------------------------------------------------------------------
(* What follows a take: the commit store's fence. *)

MutRaiseAbove(p) ==
    /\ storeFence' = Max2(storeFence, want[p]) + 1
    /\ raiser' = p

MutRaiseNothing(p) == UNCHANGED <<storeFence, raiser>>

RaiseStore(p) ==
    /\ storeFence' = Max2(storeFence, want[p])
    /\ raiser' = p

Raise(p) ==
    /\ pc[p] = "raise" /\ CheckWriterFence(want[p])
    /\ RaiseStore(p)
    /\ hold' = [hold EXCEPT ![p] = want[p]]
    /\ lost' = [lost EXCEPT ![p] = FALSE]
    /\ TakeEnds(p)
    /\ Goto(p, "held")
    /\ UNCHANGED <<keys, log, units, won>>

\* WriterFencedError: the store has seen a higher fence
RaiseRefused(p) ==
    /\ pc[p] = "raise" /\ ~CheckWriterFence(want[p])
    /\ Goto(p, "giveUp")
    /\ UNCHANGED <<keys, store, take, held, units, won>>

\* the outbox notes around the store's own transaction may throw on either side
RaiseThrows(p) ==
    /\ "raise" \in Faults
    /\ pc[p] = "raise" /\ CheckWriterFence(want[p])
    /\ RaiseStore(p) \/ UNCHANGED <<storeFence, raiser>>
    /\ Goto(p, "giveUp")
    /\ UNCHANGED <<keys, log, take, held, units, won>>

MutGiveUpSilently(p) ==
    /\ pc[p] = "giveUp"
    /\ TakeEnds(p)
    /\ Goto(p, AfterFailure(p))
    /\ UNCHANGED <<keys, store, held, units, won>>

\* release of the hold being taken, after an error; its own error is dropped
GiveUp(p) ==
    /\ pc[p] = "giveUp"
    /\ rel' = rel \cup {want[p]} \/ ("mark" \in Faults /\ UNCHANGED rel)
    /\ TakeEnds(p)
    /\ Goto(p, AfterFailure(p))
    /\ UNCHANGED <<rec, store, held, units, won>>

-----------------------------------------------------------------------------
(* advance: the holder takes over from itself. *)

\* assertCurrent found the hold current (FindLost is the other answer)
StartAdvance(p) ==
    /\ p \in Serve /\ pc[p] = "held" /\ ~lost[p] /\ ~Fenced(hold[p])
    /\ hold[p] < MaxFence
    /\ mode' = [mode EXCEPT ![p] = "advance"]
    /\ want' = [want EXCEPT ![p] = hold[p] + 1]
    /\ Goto(p, "create")
    /\ UNCHANGED <<keys, store, floor, doomed, held, units, won>>

\* The released marker of the process's own hold, unless it knows it is lost.
MarkOwn(p) == rel' = rel \cup {f \in {hold[p]} : ~lost[p]}

(* The old hold is released whether or not the next fence was taken; a marker
   that cannot be written leaves the old hold as it was.                     *)
ReleaseOld(p) ==
    \/ MarkOwn(p) /\ lost' = [lost EXCEPT ![p] = TRUE]
    \/ "mark" \in Faults /\ ~lost[p] /\ UNCHANGED <<rel, lost>>

AdvanceTaken(p) ==
    /\ pc[p] = "oldMark" /\ want[p] # 0
    /\ ReleaseOld(p)
    /\ Goto(p, "raise")
    /\ UNCHANGED <<rec, store, take, hold, units, won>>

AdvanceLost(p) ==
    /\ pc[p] = "oldMark" /\ want[p] = 0
    /\ ReleaseOld(p)
    /\ Goto(p, "held")
    /\ TakeEnds(p)
    /\ UNCHANGED <<rec, store, hold, units, won>>

-----------------------------------------------------------------------------
(* The hold's life. *)

(* renew by the timer, checkV3WriterLease before a replicated commit is
   reported, assertJoinable: each lists the keys and notes what it finds.   *)
FindLost(p) ==
    /\ hold[p] # 0 /\ ~lost[p] /\ Fenced(hold[p])
    /\ lost' = [lost EXCEPT ![p] = TRUE]
    /\ UNCHANGED <<keys, store, pc, take, hold, units, won>>

\* The last reference to the hold is dropped.
EndHold(p) ==
    /\ pc[p] = "held" /\ unit[p] = 0
    /\ Goto(p, "endMark")
    /\ UNCHANGED <<keys, store, take, held, units, won>>

Forget(p) ==
    /\ hold' = [hold EXCEPT ![p] = 0]
    /\ lost' = [lost EXCEPT ![p] = FALSE]

EndMark(p) ==
    /\ pc[p] = "endMark"
    /\ MarkOwn(p) \/ ("mark" \in Faults /\ UNCHANGED rel)
    /\ Forget(p)
    /\ Goto(p, "idle")
    /\ UNCHANGED <<rec, store, take, units, won>>

-----------------------------------------------------------------------------
(* Units of work: each names the fence the lease held when it opened. *)

OpenUnit(p) ==
    /\ MaxCommits > 0 \* bound: no units where no commit can land
    /\ hold[p] # 0 /\ unit[p] = 0 /\ pc[p] # "endMark"
    /\ unit' = [unit EXCEPT ![p] = hold[p]]
    /\ UNCHANGED <<keys, store, pc, take, held, sent, won>>

\* assertWriterCurrent, then the append joins the store's queue
SendCommit(p) ==
    /\ unit[p] # 0 /\ ~sent[p] /\ ~lost[p]
    /\ sent' = [sent EXCEPT ![p] = TRUE]
    /\ UNCHANGED <<keys, store, pc, take, held, unit, won>>

CloseUnit(p) ==
    /\ unit[p] # 0 /\ ~sent[p]
    /\ unit' = [unit EXCEPT ![p] = 0]
    /\ UNCHANGED <<keys, store, pc, take, held, sent, won>>

StoreAppend(p) ==
    /\ sent[p] /\ CheckWriterFence(unit[p]) /\ Len(log) < MaxCommits
    /\ log' = Append(log, [fence |-> unit[p], by |-> p])
    /\ sent' = [sent EXCEPT ![p] = FALSE]
    /\ UNCHANGED <<keys, storeFence, raiser, pc, take, held, unit, won>>

\* a refused commit ends its unit
StoreRefuse(p) ==
    /\ sent[p] /\ ~CheckWriterFence(unit[p])
    /\ sent' = [sent EXCEPT ![p] = FALSE]
    /\ unit' = [unit EXCEPT ![p] = 0]
    /\ UNCHANGED <<keys, store, pc, take, held, won>>

-----------------------------------------------------------------------------
(* The rest of the world. *)

\* A process dies between any two of its steps; what it stored stays.
Crash(p) ==
    /\ pc[p] # "dead"
    /\ Goto(p, "dead")
    /\ mode' = [mode EXCEPT ![p] = "none"]
    /\ floor' = [floor EXCEPT ![p] = 0]
    /\ want' = [want EXCEPT ![p] = 0]
    /\ doomed' = [doomed EXCEPT ![p] = {}]
    /\ unit' = [unit EXCEPT ![p] = 0]
    /\ sent' = [sent EXCEPT ![p] = FALSE]
    /\ Forget(p)
    /\ UNCHANGED <<keys, store, won>>

(* `swamp datastore lock release --force` on the highest fence.  The mark may
   land after a higher fence appeared, where no one reads it.                *)
ForceRelease ==
    /\ \E h \in Fence : IsHighest(h) /\ rel' = rel \cup {h}
    /\ UNCHANGED <<rec, store, pc, take, held, units, won>>

-----------------------------------------------------------------------------
Lease(p) ==
    \/ StartAcquire(p) \/ StartRetake(p) \/ ReadList(p)
    \/ JudgeExpired(p) \/ JudgeHeld(p) \/ Retry(p) \/ Busy(p)
    \/ Create(p) \/ CreateRefused(p) \/ TakeConfirmed(p) \/ TakeFenced(p)
    \/ TakeBeat(p) \/ TakeRenewThrows(p)
    \/ PruneList(p) \/ PruneKey(p) \/ PruneDone(p) \/ PruneListThrows(p)
    \/ Raise(p) \/ RaiseRefused(p) \/ RaiseThrows(p) \/ GiveUp(p)
    \/ StartAdvance(p) \/ AdvanceTaken(p) \/ AdvanceLost(p)
    \/ FindLost(p) \/ EndHold(p) \/ EndMark(p)

Work(p) ==
    \/ OpenUnit(p) \/ SendCommit(p) \/ CloseUnit(p)
    \/ StoreAppend(p) \/ StoreRefuse(p)

Next ==
    \/ \E p \in Proc : Lease(p) \/ Work(p) \/ Crash(p)
    \/ ForceRelease

Spec == Init /\ [][Next]_vars

(* The process's own code runs on: every await of a take resolves, unless the
   process dies.  What a process chooses to start, maxWaitMs running out and
   calls that throw are not assumed to happen.                              *)
Runs(p) ==
    \/ ReadList(p) \/ Retry(p) \/ Create(p) \/ CreateRefused(p)
    \/ TakeConfirmed(p) \/ TakeFenced(p) \/ TakeBeat(p)
    \/ JudgeExpired(p) \/ JudgeHeld(p)
    \/ PruneList(p) \/ PruneKey(p) \/ PruneDone(p)
    \/ Raise(p) \/ RaiseRefused(p) \/ GiveUp(p)
    \/ AdvanceTaken(p) \/ AdvanceLost(p) \/ EndMark(p)

\* Only p does anything with the lease.
Alone(p) == \A q \in Proc \ {p} : pc[q] \in {"idle", "dead"}

(* With no one left to renew the lease its TTL runs out, so a process that
   keeps judging it finds it expired.                                        *)
Fairness ==
    \A p \in Proc : WF_vars(Runs(p)) /\ SF_vars(Alone(p) /\ JudgeExpired(p))

LiveSpec == Spec /\ Fairness

-----------------------------------------------------------------------------
Commit == [fence : Fence, by : Proc]

\* Every variable has its type.
TypeOK ==
    /\ rec \in [Fence -> Proc \cup {NoOne}]
    /\ rel \subseteq Fence
    /\ storeFence \in Fence0
    /\ log \in Seq(Commit)
    /\ raiser \in Proc \cup {NoOne}
    /\ pc \in [Proc -> PCs]
    /\ mode \in [Proc -> Modes]
    /\ floor \in [Proc -> Fence0] /\ want \in [Proc -> Fence0]
    /\ doomed \in [Proc -> SUBSET Fence]
    /\ hold \in [Proc -> Fence0] /\ lost \in [Proc -> BOOLEAN]
    /\ unit \in [Proc -> Fence0] /\ sent \in [Proc -> BOOLEAN]
    /\ won \in [Proc -> SUBSET Fence]

(* No two processes ever get past the first renewal of one fence, so no two
   holds ever share a fence, even when a writer that read the lease long ago
   creates a fence that was pruned since (#take, #prune).                    *)
OneWinnerPerFence == \A p, q \in Proc : p # q => won[p] \cap won[q] = {}

(* The commits the store took under one fence are one process's, and fences
   never go back along the log: what the lease and the store's fence together
   promise (#checkWriterFence, the fence a unit captures when it opens).      *)
SingleWriterLog ==
    \A i, j \in 1..Len(log) :
       i < j => \/ log[i].fence < log[j].fence
                \/ log[i].fence = log[j].fence /\ log[i].by = log[j].by

(* A prune never lets a writer that read the lease before the last takeover
   create the fence that takeover replaced: a fence missing below an existing
   one is at least two below the highest (#prune's comment).                  *)
PreviousFenceKept ==
    \A f \in Fence : rec[f] = NoOne /\ HigherThan(f) => HigherThan(f + 1)

(* The abstract log this specification implements: a takeover is the raise of
   the commit store's fence, and its writer the process that raised it.      *)
FL == INSTANCE FencedLog WITH fence <- storeFence, writer <- raiser
ImplementsFencedLog == FL!Spec

(* The record of the highest fence is never deleted and never rewritten, so
   the highest fence never goes back (putIfAbsent, #prune).                  *)
HighestFenceStays ==
    [][\A f \in Fence : rec[f] # NoOne /\ ~HigherThan(f) => rec'[f] = rec[f]]_vars

(* A running process keeps no fence that it neither holds nor is taking: an
   acquire or an advance that fails gives its fence up rather than keep others
   out until it expires (the error paths of #take, takeLease, advanceHold).    *)
NoFenceLeaked ==
    \A f \in Fence :
       LET p == rec[f]
       IN  p # NoOne /\ ~Fenced(f) => pc[p] = "dead" \/ hold[p] = f \/ want[p] = f

\* The bound on fences is used up: the model, not the code, stops here.
Exhausted == rec[MaxFence] # NoOne

(* A crashed or failed holder never locks writers out: a process that waits for
   the lease while every other one is gone or idle stops waiting, and without
   timing out it stops because it holds the lease (acquire's loop).            *)
AbandonedLeaseIsTaken ==
    \A p \in Proc :
       <>[]Alone(p) => (pc[p] = "wait" ~> pc[p] \in {"held", "idle", "dead"}
                                         \/ Exhausted)

-----------------------------------------------------------------------------
(* The inductive invariant behind the safety properties. *)

Taking == {"list", "judge", "wait", "create", "takeCheck", "takeBeat",
           "pruneList", "pruning", "oldMark", "raise", "giveUp"}

\* How a process's place in the code ties its variables together.
Shape(p) ==
    /\ pc[p] \in Taking <=> mode[p] # "none"
    /\ mode[p] \in {"retake", "advance"} => hold[p] # 0
    /\ pc[p] \in {"held", "endMark"} => hold[p] # 0
    /\ pc[p] = "oldMark" => mode[p] = "advance"
    /\ pc[p] \in {"judge", "create", "takeCheck", "takeBeat", "pruneList",
                  "pruning", "raise", "giveUp"} => want[p] # 0
    /\ sent[p] => unit[p] # 0

AtLeast(f) == \E g \in Fence : g >= f /\ rec[g] # NoOne

\* The record of f is still p's, or f is history: a higher fence exists.
Backed(p, f) == rec[f] = p \/ HigherThan(f)

\* p created the fence it wants; it has also passed the first renewal there.
Created(p) ==
    \/ pc[p] \in {"takeCheck", "takeBeat", "pruneList", "pruning", "raise", "giveUp"}
    \/ pc[p] = "oldMark" /\ want[p] # 0

Confirmed(p) ==
    \/ pc[p] \in {"takeBeat", "pruneList", "pruning", "raise"}
    \/ pc[p] = "oldMark" /\ want[p] # 0

Owned(p) ==
    /\ Created(p) => Backed(p, want[p])
    /\ Confirmed(p) => want[p] \in won[p]
    /\ \A f \in won[p] : Backed(p, f)
    /\ hold[p] # 0 => hold[p] \in won[p] /\ hold[p] <= storeFence
    /\ unit[p] # 0 => unit[p] \in won[p] /\ unit[p] <= storeFence
    /\ pc[p] = "pruning" => \A g \in doomed[p] : g + 1 < want[p]

\* The listing a take starts from: the fence below the wanted one exists.
Contiguous(p) ==
    /\ floor[p] <= storeFence
    /\ pc[p] \in {"judge", "create"} => want[p] = 1 \/ AtLeast(want[p] - 1)

StoreOwned ==
    /\ storeFence # 0 => raiser \in Proc /\ storeFence \in won[raiser]
    /\ \A i \in 1..Len(log) : /\ log[i].fence <= storeFence
                              /\ log[i].fence \in won[log[i].by]

(* The inductive invariant: every fence a process was confirmed at is still its
   own in the records or below a higher one, holds, units and commits carry
   only confirmed fences, and none of them is above the store's.              *)
IInv ==
    /\ TypeOK
    /\ \A p \in Proc : Shape(p) /\ Owned(p) /\ Contiguous(p)
    /\ OneWinnerPerFence
    /\ PreviousFenceKept
    /\ StoreOwned
    /\ SingleWriterLog

=============================================================================
