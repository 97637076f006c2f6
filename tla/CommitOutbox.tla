----------------------------- MODULE CommitOutbox -----------------------------
(***************************************************************************)
(* The commit outbox of one copy of a v3 datastore, the units of work that *)
(* land their commits through it and the recovery of what a writer that    *)
(* died left in it.                                                        *)
(*                                                                         *)
(* A commit is prepared in the outbox, appended to the commit store and    *)
(* settled.  Processes of the copy take the writer lease one after the     *)
(* other; each raises the store's fence, extends the outbox's chain of     *)
(* fences, recovers the outbox and may open one unit of work: a data       *)
(* commit to a partition all units share and a commit to the partition of  *)
(* its run.  A process that lost the lease goes on until it notices.       *)
(* Every write of the outbox or the store is a step, and a process may die *)
(* before any of them.                                                     *)
(*                                                                         *)
(* The outbox is a table with one row per commit.  A recovery goes through *)
(* what it planned kind by kind; the order among rows of one kind, that of *)
(* their sequence numbers, is left open.                                   *)
(*                                                                         *)
(* Left out: entries queued offline or forwarded to serve, chunks.         *)
(***************************************************************************)
EXTENDS Naturals, Sequences

CONSTANTS
    MaxProc,   \* bound: processes of this copy, each takes the lease once at most
    Writer,    \* those of them that open a unit of work
    RunWriter, \* those of them whose unit may save a run
    Replicated, \* whether other copies of the datastore take the lease too
    PromptRecord, \* whether no fence is raised between another raise and its record
    PromptMark, \* whether nothing is prepared between a recovery's listing and its marks
    Unjudged,  \* those whose liveness the others cannot judge
    MaxFence,  \* bound: fences of the lease, another copy's included
    MaxFaults  \* bound: calls of the outbox or the store that fail, refusals included

ASSUME BoundsAssumption == MaxProc \in Nat /\ MaxFence \in Nat /\ MaxFaults \in Nat

\* processes, numbered in the order they take the lease
Proc == 1..MaxProc

ASSUME ProcAssumption ==
    /\ Writer \subseteq Proc /\ RunWriter \subseteq Writer /\ Unjudged \subseteq Proc
    /\ {Replicated, PromptRecord, PromptMark} \subseteq BOOLEAN

\* The partition all data commits go to is 0, the one of a process's run its number.
Data == "data"
Run == "run"
Txn == Writer \X {Data, Run}

Partition(t) == IF t[2] = Data THEN 0 ELSE t[1]

VARIABLES
    lease,      \* the highest fence taken, by this copy or another
    storeFence, \* the commit store's writer fence
    log,        \* txnIds landed in each partition, in order
    outbox,     \* the entries, one for each txnId
    unsynced,   \* entries a settle removed that a power cut brings back
    chain,      \* the outbox's fence chain, and its noted pending fence
    pc,         \* the next step of each process
    fence,      \* the fence each took, 0 for none
    plan,       \* what is left of each recovery: a set of [txn, base, do]
    todo,       \* groups of each unit that are staged and not landed
    staged,     \* txnIds of groups the units formed
    names,      \* units whose run record names their data
    prepared,   \* groups of the unit with an entry, as far as it knows
    base,       \* head the commit being appended was built on, 0 when none is
    final,      \* units whose flush is their last
    refused,    \* units with a refusal nobody acknowledged
    unsure,     \* units with an entry they could neither discard nor mark
    keys,       \* groups whose entries the unit is giving up
    giving,     \* groups it will report failed
    marked,     \* units that marked those abandoned
    owed,       \* groups whose entry could not be removed
    told,       \* txnIds a caller was told have failed
    report,     \* how the unit of each running process ended: "none", "ok", "failed", "maybe"
    recovered,  \* history: the highest fence a recovery was completed at
    late,       \* history: txnIds prepared when a newer writer had recovered
    faults      \* calls that failed

disk == <<outbox, unsynced>>
unit == <<todo, staged, names, prepared, base, final, refused, unsure, keys, giving, marked, owed>>
callers == <<told, report, late, recovered>>
vars == <<lease, storeFence, log, disk, chain, pc, fence, plan, unit, callers, faults>>

-----------------------------------------------------------------------------
HeadSeq(part) == Len(log[part])

\* landedSeq: the txnId is in its partition's log
Landed(t) == \E i \in DOMAIN log[Partition(t)] : log[Partition(t)][i] = t

\* What the commit store answers to an append of t built on head b under fence f.
Answer(t, b, f) ==
    IF Landed(t) THEN "duplicate"
    ELSE IF HeadSeq(Partition(t)) # b THEN "seq-gap"
    ELSE IF f < storeFence THEN "fenced"
    ELSE "appended"

Lands(t) == log' = [log EXCEPT ![Partition(t)] = Append(@, t)]

Gone(p) == pc[p] = "exited"

\* writerAliveFrom: its own units, and those of a process it can see running
WriterAlive(p, q) == q = p \/ (~Gone(q) /\ q \notin Unjudged)

Without(entries, txns) == {e \in entries : e.txn \notin txns}

Fault == faults < MaxFaults /\ faults' = faults + 1

Goto(p, l) == pc' = [pc EXCEPT ![p] = l]

\* A write that is fsynced makes the settles before it durable too.
Write(entries) == outbox' = entries /\ unsynced' = {}

MarkedAbandoned(txns) ==
    {IF e.txn \in txns THEN [e EXCEPT !.abandoned = TRUE] ELSE e : e \in outbox}

MarkedLeft(txns) ==
    {IF e.txn \in txns THEN [e EXCEPT !.left = TRUE] ELSE e : e \in outbox}

Init ==
    /\ lease = 0 /\ storeFence = 0
    /\ log = [x \in Writer \cup {0} |-> <<>>]
    /\ outbox = {} /\ unsynced = {}
    /\ chain = [last |-> 0, start |-> 0, floor |-> 0, note |-> 0]
    /\ pc = [p \in Proc |-> "idle"]
    /\ fence = [p \in Proc |-> 0]
    /\ plan = [p \in Proc |-> {}]
    /\ todo = [p \in Writer |-> {}]
    /\ names = {} /\ staged = {}
    /\ prepared = [p \in Writer |-> {}]
    /\ base = [p \in Writer |-> 0]
    /\ final = {} /\ refused = {} /\ unsure = {}
    /\ keys = [p \in Writer |-> {}]
    /\ giving = [p \in Writer |-> {}]
    /\ marked = {}
    /\ owed = [p \in Writer |-> {}]
    /\ told = {}
    /\ report = [p \in Writer |-> "none"]
    /\ late = {} /\ recovered = 0 /\ faults = 0

-----------------------------------------------------------------------------
(* The lease, and raiseWriterFence. *)

\* The fences between are those another copy of the datastore took.
TakeLease(p) ==
    /\ pc[p] = "idle" /\ \A q \in 1..(p - 1) : pc[q] # "idle"
    /\ \E f \in (lease + 1)..MaxFence :
          /\ Replicated \/ f = lease + 1
          /\ lease' = f /\ fence' = [fence EXCEPT ![p] = f]
    /\ Goto(p, "note")
    /\ UNCHANGED <<storeFence, log, disk, chain, plan, unit, callers, faults>>

\* A note one above the last fence is a fence this copy took: it joins the chain.
Joins == chain.note # 0 /\ (chain.note = chain.last + 1 \/ chain.last = 0)

NotePendingFence(p) ==
    /\ pc[p] = "note"
    /\ chain' =
          [chain EXCEPT
             !.last = IF Joins THEN chain.note ELSE @,
             !.start = IF Joins /\ chain.last = 0 THEN chain.note ELSE @,
             !.note = IF @ > fence[p] THEN @ ELSE fence[p]]
    /\ Write(outbox)
    /\ Goto(p, "raise")
    /\ UNCHANGED <<lease, storeFence, log, fence, plan, unit, callers, faults>>

\* The store refuses a fence below its own, and the take fails.
RaiseFence(p) ==
    /\ pc[p] = "raise"
    /\ PromptRecord => \A q \in Proc : pc[q] # "record"
    /\ IF fence[p] < storeFence
       THEN Goto(p, "exited") /\ UNCHANGED storeFence
       ELSE Goto(p, "record") /\ storeFence' = fence[p]
    /\ UNCHANGED <<lease, log, disk, chain, fence, plan, unit, callers, faults>>

MutDecideFenceChain(f) ==
    [last  |-> f,
     start |-> IF chain.last # 0 /\ f >= chain.last THEN chain.start ELSE f,
     floor |-> IF chain.last = 0 \/ f < chain.last THEN 0 ELSE chain.floor,
     note  |-> 0]

MutChainAhead(f) ==
    [last |-> f + 1, start |-> f, floor |-> chain.floor, note |-> 0]

\* decideFenceChain: a gap is another copy's fence, unless there are none.
DecideFenceChain(f) ==
    LET last == IF chain.note = chain.last + 1 THEN chain.note ELSE chain.last
    IN  [last  |-> f,
         start |-> IF chain.last # 0 /\ f >= chain.last
                         /\ (f \in {last, last + 1} \/ ~Replicated)
                   THEN chain.start ELSE f,
         floor |-> IF chain.last = 0 \/ f < chain.last THEN 0 ELSE chain.floor,
         note  |-> 0]

RecordFence(p) ==
    /\ pc[p] = "record"
    /\ chain' = DecideFenceChain(fence[p])
    /\ Write(outbox)
    /\ Goto(p, "list")
    /\ UNCHANGED <<lease, storeFence, log, fence, plan, unit, callers, faults>>

-----------------------------------------------------------------------------
(* recoverCommitOutbox *)

MutFate(p, e) ==
    IF Landed(e.txn) THEN "settle"
    ELSE IF e.fence < chain.start THEN "drop"
    ELSE IF e.fence < chain.floor /\ ~e.left THEN "drop"
    ELSE IF WriterAlive(p, e.txn[1]) THEN "leave"
    ELSE "send"

\* dropReason, but for age: what becomes of an entry
Fate(p, e) ==
    IF e.abandoned THEN "drop"
    ELSE IF Landed(e.txn) THEN "settle"
    ELSE IF e.fence < chain.start THEN "drop"
    ELSE IF e.fence < chain.floor /\ ~e.left THEN "drop"
    ELSE IF WriterAlive(p, e.txn[1]) THEN "leave"
    ELSE "send"

\* planOutboxRecovery, with the entries in old past OUTBOX_RETRY_BOUND_MS
PlanOutboxRecovery(p, old) ==
    LET Aged(e) == IF Fate(p, e) = "send" /\ e.txn \in old THEN "drop" ELSE Fate(p, e)
        Dropped(w) == \E e \in outbox : e.txn = <<w, Data>> /\ Aged(e) = "drop"
        Do(e) == IF Aged(e) = "send" /\ e.txn[2] = Run /\ Dropped(e.txn[1])
                 THEN "drop" ELSE Aged(e)
    IN  {[txn |-> e.txn, base |-> e.base, do |-> Do(e)] : e \in outbox}

List(p) ==
    /\ pc[p] = "list"
    /\ IF outbox = {}
       THEN Goto(p, "floor") /\ UNCHANGED plan
       ELSE /\ \E old \in SUBSET {e.txn : e \in outbox} :
                  plan' = [plan EXCEPT ![p] = PlanOutboxRecovery(p, old)]
            /\ Goto(p, "leave")
    /\ UNCHANGED <<lease, storeFence, log, disk, chain, fence, unit, callers, faults>>

\* The entries of live writers are marked before anything lands.
MarkLeft(p) ==
    /\ pc[p] = "leave"
    /\ LET left == {x.txn : x \in {y \in plan[p] : y.do = "leave"}}
       IN  IF left = {} THEN UNCHANGED disk ELSE Write(MarkedLeft(left))
    /\ plan' = [plan EXCEPT ![p] = {x \in @ : x.do # "leave"}]
    /\ Goto(p, "recover")
    /\ UNCHANGED <<lease, storeFence, log, chain, fence, unit, callers, faults>>

\* settle removes the entry without an fsync.
SettleEntry(t) ==
    /\ outbox' = Without(outbox, {t})
    /\ unsynced' = unsynced \cup {e \in outbox : e.txn = t}

\* What landed is settled, what is dropped removed, the rest sent, run entries last.
Rank(x) ==
    IF x.do = "settle" THEN 1
    ELSE IF x.do = "drop" THEN 2
    ELSE IF x.txn[2] = Data THEN 3 ELSE 4

Planned(p, do) ==
    {x \in plan[p] : pc[p] = "recover" /\ x.do = do /\ \A y \in plan[p] : Rank(x) <= Rank(y)}

RecoverSettle(p) ==
    \E x \in Planned(p, "settle") :
        /\ SettleEntry(x.txn)
        /\ plan' = [plan EXCEPT ![p] = @ \ {x}]
        /\ UNCHANGED <<lease, storeFence, log, chain, pc, fence, unit, callers, faults>>

RecoverDrop(p) ==
    \E x \in Planned(p, "drop") :
        /\ Write(Without(outbox, {x.txn}))
        /\ plan' = [plan EXCEPT ![p] = @ \ {x}]
        /\ UNCHANGED <<lease, storeFence, log, chain, pc, fence, unit, callers, faults>>

\* dropsAfterRefusal: with a data entry the unit's run entry goes
WithRunEntry(p, x) ==
    {IF y = x \/ (x.txn[2] = Data /\ y.txn = <<x.txn[1], Run>>)
     THEN [y EXCEPT !.do = "drop"] ELSE y : y \in plan[p]}

\* recoverEntry: it has landed, its head moved, or it is appended under this fence,
\* unless the store refuses its content or the fence.
RecoverSend(p) ==
    \E x \in Planned(p, "send") :
        LET answer == Answer(x.txn, x.base, fence[p])
            Settles == plan' = [plan EXCEPT ![p] = (@ \ {x}) \cup {[x EXCEPT !.do = "settle"]}]
            Drops == plan' = [plan EXCEPT ![p] = WithRunEntry(p, x)]
        IN  /\ \/ answer = "duplicate" /\ Settles /\ UNCHANGED <<log, pc, faults>>
               \/ answer = "seq-gap" /\ Drops /\ UNCHANGED <<log, pc, faults>>
               \/ answer = "appended" /\ Lands(x.txn) /\ Settles /\ UNCHANGED <<pc, faults>>
               \/ answer \in {"appended", "fenced"} /\ Fault /\ Drops /\ UNCHANGED <<log, pc>>
               \/ answer = "fenced" /\ Goto(p, "exited") /\ UNCHANGED <<log, plan, faults>>
            /\ UNCHANGED <<lease, storeFence, disk, chain, fence, unit, callers>>

MutRaised(p) ==
    IF pc[p] # "floor" /\ chain.floor < fence[p] /\ chain.last >= fence[p]
    THEN [chain EXCEPT !.floor = fence[p]] ELSE chain

Raised(p) ==
    IF chain.floor < fence[p] /\ chain.last >= fence[p]
    THEN [chain EXCEPT !.floor = fence[p]] ELSE chain

\* The floor rises with every completed recovery, an empty one too.
RaiseFloor(p) ==
    /\ pc[p] = "floor" \/ (pc[p] = "recover" /\ plan[p] = {})
    /\ chain' = Raised(p)
    /\ recovered' = IF recovered > fence[p] THEN recovered ELSE fence[p]
    /\ Write(outbox)
    /\ Goto(p, IF p \in Writer THEN "open" ELSE "exited")
    /\ UNCHANGED <<lease, storeFence, log, fence, plan, unit, told, report, late, faults>>

-----------------------------------------------------------------------------
(* The unit of work. *)

Stage(p, g) ==
    /\ pc[p] = "open" /\ p \notin final
    /\ <<p, g>> \notin staged /\ (g = Run => p \in RunWriter)
    /\ todo' = [todo EXCEPT ![p] = @ \cup {g}]
    /\ staged' = staged \cup {<<p, g>>}
    /\ names' = IF g = Run /\ (Data \in todo[p] \/ Landed(<<p, Data>>))
                THEN names \cup {p} ELSE names
    /\ UNCHANGED <<lease, storeFence, log, disk, chain, pc, fence, plan,
                   prepared, base, final, refused, unsure, keys, giving, marked, owed, callers, faults>>

MutNextGroup(p) == IF Run \in todo[p] THEN Run ELSE Data

\* The run group goes last, and waits while a refusal is unacknowledged.
NextGroup(p) == IF Data \in todo[p] THEN Data ELSE Run

MutHeld(p) == NextGroup(p) = Run

Held(p) == todo[p] = {} \/ (NextGroup(p) = Run /\ p \in refused)

Built(p, b) == base' = [base EXCEPT ![p] = b]

\* A flush reads the head of the next group's partition ...
Build(p) ==
    /\ (pc[p] = "open" /\ ~Held(p)) \/ pc[p] = "rebuild"
    /\ Built(p, HeadSeq(Partition(<<p, NextGroup(p)>>)))
    /\ Goto(p, "prepare")
    /\ UNCHANGED <<lease, storeFence, log, disk, chain, fence, plan, todo, staged, names,
                   prepared, final, refused, unsure, keys, giving, marked, owed, callers, faults>>

\* The entries of these groups are given up, and their failure is reported then.
GiveUp(p, gs, prep) ==
    /\ Goto(p, "abandon")
    /\ keys' = [keys EXCEPT ![p] = prep \cap gs]
    /\ giving' = [giving EXCEPT ![p] = gs]
    /\ prepared' = [prepared EXCEPT ![p] = prep \ gs]

\* A flush throws: the last one of its unit gives up what is pending.
Throws(p, prep) ==
    IF p \in final
    THEN GiveUp(p, todo[p], prep)
    ELSE /\ Goto(p, "open")
         /\ prepared' = [prepared EXCEPT ![p] = prep]
         /\ UNCHANGED <<keys, giving>>

\* assertWriterCurrent throws once the process noticed that its lease was taken.
FaultUnlessLost(p) == (lease > fence[p] /\ UNCHANGED faults) \/ Fault

\* prepare inserts the entry, or replaces it and clears its marks.
WriteEntry(p) ==
    LET e == [txn |-> <<p, NextGroup(p)>>, fence |-> fence[p], base |-> base[p],
              abandoned |-> FALSE, left |-> FALSE]
    IN  /\ Write(Without(outbox, {e.txn}) \cup {e})
        /\ late' = IF recovered > fence[p] THEN late \cup {e.txn} ELSE late

\* ... prepares the commit, which a lost lease or the write itself may prevent ...
Prepare(p) ==
    /\ pc[p] = "prepare"
    /\ PromptMark => \A q \in Proc : pc[q] # "leave"
    /\ LET prep == prepared[p] \cup {NextGroup(p)}
       IN  \/ /\ WriteEntry(p)
              /\ prepared' = [prepared EXCEPT ![p] = prep]
              /\ Goto(p, "append") /\ UNCHANGED <<base, keys, giving, faults>>
           \/ Fault /\ WriteEntry(p) /\ Throws(p, prep) /\ Built(p, 0)
           \/ FaultUnlessLost(p) /\ UNCHANGED <<disk, late>> /\ Throws(p, prep) /\ Built(p, 0)
    /\ UNCHANGED <<lease, storeFence, log, chain, fence, plan, todo, staged, names, final,
                   refused, unsure, marked, owed, told, report, recovered>>

\* ... and appends it.  The store may also refuse its content, or throw whatever it
\* did; a lost lease throws too.
AppendCommit(p) ==
    /\ pc[p] = "append"
    /\ LET t == <<p, NextGroup(p)>>
           answer == Answer(t, base[p], fence[p])
       IN  \/ answer = "duplicate" /\ Goto(p, "settle") /\ UNCHANGED <<log, faults>>
           \/ answer = "seq-gap" /\ Goto(p, "rebuild") /\ UNCHANGED <<log, faults>>
           \/ answer = "appended" /\ Lands(t) /\ Goto(p, "settle") /\ UNCHANGED faults
           \/ answer = "appended" /\ Lands(t) /\ Goto(p, "unknown") /\ Fault
           \/ answer \in {"appended", "fenced"} /\ Goto(p, "refusal") /\ Fault /\ UNCHANGED log
           \/ FaultUnlessLost(p) /\ Goto(p, "unknown") /\ UNCHANGED log
    /\ Built(p, 0)
    /\ UNCHANGED <<lease, storeFence, disk, chain, fence, plan, todo, staged, names, prepared,
                   final, refused, unsure, keys, giving, marked, owed, callers>>

\* A refused group is dropped and the run entry given up with it.
Refused(p) ==
    LET g == NextGroup(p)
    IN  /\ todo' = [todo EXCEPT ![p] = @ \ {g}]
        /\ refused' = IF g = Data THEN refused \cup {p} ELSE refused
        /\ Goto(p, "abandon")
        /\ keys' = [keys EXCEPT ![p] = prepared[p]]
        /\ prepared' = [prepared EXCEPT ![p] = {}]
        /\ giving' = [giving EXCEPT ![p] = IF p \in final THEN todo[p] ELSE {g}]

\* landedDespite: a failed append may have landed, or the answer cannot be read.
LandedDespite(p) ==
    /\ pc[p] \in {"unknown", "refusal"}
    /\ \/ /\ Landed(<<p, NextGroup(p)>>)
          /\ Goto(p, "settle")
          /\ UNCHANGED <<todo, refused, keys, giving, prepared, report, faults>>
       \/ /\ ~Landed(<<p, NextGroup(p)>>)
          /\ IF pc[p] = "refusal" THEN Refused(p)
             ELSE Throws(p, prepared[p]) /\ UNCHANGED <<todo, refused>>
          /\ UNCHANGED <<report, faults>>
       \/ /\ Fault
          /\ Goto(p, IF p \in final THEN "close" ELSE "open")
          /\ report' = IF p \in final THEN [report EXCEPT ![p] = "maybe"] ELSE report
          /\ UNCHANGED <<todo, refused, keys, giving, prepared>>
    /\ UNCHANGED <<lease, storeFence, log, disk, chain, fence, plan,
                   staged, names, base, final, unsure, marked, owed, told, late, recovered>>

Settle(p) ==
    /\ pc[p] = "settle"
    /\ LET g == NextGroup(p)
       IN  /\ todo' = [todo EXCEPT ![p] = @ \ {g}]
           /\ prepared' = [prepared EXCEPT ![p] = @ \ {g}]
           /\ \/ SettleEntry(<<p, g>>) /\ UNCHANGED <<owed, faults>>
              \/ Fault /\ UNCHANGED disk /\ owed' = [owed EXCEPT ![p] = @ \cup {g}]
    /\ Goto(p, "open")
    /\ UNCHANGED <<lease, storeFence, log, chain, fence, plan, staged, names, base,
                   final, refused, unsure, keys, giving, marked, callers>>

Txns(p, gs) == {<<p, g>> : g \in gs}

\* discardEntries: the entries are marked ...
Abandon(p) ==
    /\ pc[p] = "abandon"
    /\ \/ /\ Write(MarkedAbandoned(Txns(p, keys[p])))
          /\ marked' = marked \cup {p}
          /\ UNCHANGED faults
       \/ keys[p] # {} /\ Fault /\ UNCHANGED <<disk, marked>>
    /\ Goto(p, "discard")
    /\ UNCHANGED <<lease, storeFence, log, chain, fence, plan, todo, staged, names, base,
                   final, refused, unsure, keys, giving, prepared, owed, callers>>

\* ... and removed; what could be neither may land later, and the end says so.
Discard(p) ==
    /\ pc[p] = "discard"
    /\ \/ /\ Write(Without(outbox, Txns(p, keys[p])))
          /\ owed' = [owed EXCEPT ![p] = @ \ keys[p]]
          /\ UNCHANGED <<unsure, faults>>
       \/ /\ keys[p] # {} /\ Fault
          /\ UNCHANGED disk
          /\ owed' = [owed EXCEPT ![p] = @ \cup keys[p]]
          /\ unsure' = IF p \in marked THEN unsure ELSE unsure \cup {p}
    /\ told' = IF p \in unsure' THEN told ELSE told \cup Txns(p, giving[p])
    /\ IF p \in final
       THEN /\ report' = [report EXCEPT ![p] = IF p \in unsure' THEN "maybe" ELSE "failed"]
            /\ Goto(p, "close")
       ELSE Goto(p, "open") /\ UNCHANGED report
    /\ keys' = [keys EXCEPT ![p] = {}]
    /\ giving' = [giving EXCEPT ![p] = {}]
    /\ marked' = marked \ {p}
    /\ UNCHANGED <<lease, storeFence, log, chain, fence, plan, todo, staged, names, base,
                   final, refused, prepared, late, recovered>>

\* The caller goes on without what was refused.
AcknowledgeRefusals(p) ==
    /\ pc[p] = "open" /\ p \in refused /\ p \notin final
    /\ refused' = refused \ {p}
    /\ names' = names \ {p}
    /\ UNCHANGED <<lease, storeFence, log, disk, chain, pc, fence, plan, todo, staged,
                   prepared, base, final, unsure, keys, giving, marked, owed, callers, faults>>

\* commit: one last flush
Commit(p) ==
    /\ pc[p] = "open" /\ p \notin final
    /\ final' = final \cup {p}
    /\ UNCHANGED <<lease, storeFence, log, disk, chain, pc, fence, plan, todo, staged, names,
                   prepared, base, refused, unsure, keys, giving, marked, owed, callers, faults>>

\* The last flush ends with everything landed, or with the run held back.
Finish(p) ==
    /\ pc[p] = "open" /\ p \in final /\ Held(p)
    /\ IF p \in refused
       THEN GiveUp(p, todo[p], prepared[p]) /\ UNCHANGED report
       ELSE /\ report' = [report EXCEPT ![p] = IF p \in unsure THEN "maybe" ELSE "ok"]
            /\ Goto(p, "close")
            /\ UNCHANGED <<keys, giving, prepared>>
    /\ UNCHANGED <<lease, storeFence, log, disk, chain, fence, plan, todo, staged, names,
                   base, final, refused, unsure, marked, owed, told, late, recovered, faults>>

\* abandon: the unit ends without its changes
AbandonUnit(p) ==
    /\ pc[p] = "open" /\ p \notin final
    /\ final' = final \cup {p}
    /\ GiveUp(p, todo[p], prepared[p])
    /\ UNCHANGED <<lease, storeFence, log, disk, chain, fence, plan, todo, staged, names,
                   base, refused, unsure, marked, owed, callers, faults>>

\* What processes had in memory goes with them.
Forget(ps) ==
    LET Cleared(f) == [p \in Writer |-> IF p \in ps THEN {} ELSE f[p]]
    IN  /\ plan' = [p \in Proc |-> IF p \in ps THEN {} ELSE plan[p]]
        /\ todo' = Cleared(todo) /\ prepared' = Cleared(prepared) /\ keys' = Cleared(keys)
        /\ giving' = Cleared(giving) /\ owed' = Cleared(owed)
        /\ base' = [p \in Writer |-> IF p \in ps THEN 0 ELSE base[p]]
        /\ final' = final \ ps /\ refused' = refused \ ps
        /\ unsure' = unsure \ ps /\ marked' = marked \ ps
        /\ staged' = {t \in staged : t[1] \notin ps}
        /\ report' = [p \in Writer |-> IF p \in ps THEN "none" ELSE report[p]]
        /\ UNCHANGED names

\* retryOwedRemovals, and the process ends
Close(p) ==
    /\ pc[p] = "close"
    /\ \/ owed[p] = {} /\ UNCHANGED <<disk, faults>>
       \/ owed[p] # {} /\ Write(Without(outbox, Txns(p, owed[p]))) /\ UNCHANGED faults
       \/ owed[p] # {} /\ Write(MarkedAbandoned(Txns(p, owed[p]))) /\ Fault
       \/ owed[p] # {} /\ UNCHANGED disk /\ Fault
    /\ Goto(p, "exited")
    /\ Forget({p})
    /\ UNCHANGED <<lease, storeFence, log, chain, fence, told, late, recovered>>

-----------------------------------------------------------------------------
Crash(p) ==
    /\ ~Gone(p) /\ pc[p] # "idle"
    /\ Goto(p, "exited")
    /\ Forget({p})
    /\ UNCHANGED <<lease, storeFence, log, disk, chain, fence, told, late, recovered, faults>>

\* Every process dies, and the settles that were not fsynced are undone.
PowerCut ==
    /\ unsynced # {}
    /\ LET up == {p \in Proc : pc[p] # "idle"}
       IN  /\ pc' = [p \in Proc |-> IF p \in up THEN "exited" ELSE pc[p]]
           /\ Forget(up)
    /\ outbox' = outbox \cup unsynced
    /\ unsynced' = {}
    /\ UNCHANGED <<lease, storeFence, log, chain, fence, told, late, recovered, faults>>

Lease(p) ==
    TakeLease(p) \/ NotePendingFence(p) \/ RaiseFence(p) \/ RecordFence(p)

Recovery(p) ==
    \/ List(p) \/ MarkLeft(p) \/ RecoverSettle(p) \/ RecoverDrop(p) \/ RecoverSend(p)
    \/ RaiseFloor(p)

UnitOfWork(p) ==
    \/ \E g \in {Data, Run} : Stage(p, g)
    \/ Build(p) \/ Prepare(p) \/ AppendCommit(p) \/ LandedDespite(p) \/ Settle(p)
    \/ Abandon(p) \/ Discard(p) \/ AcknowledgeRefusals(p)
    \/ Commit(p) \/ Finish(p) \/ AbandonUnit(p) \/ Close(p)

Next ==
    \/ \E p \in Proc : Lease(p) \/ Recovery(p) \/ Crash(p)
    \/ \E p \in Writer : UnitOfWork(p)
    \/ PowerCut

Spec == Init /\ [][Next]_vars

-----------------------------------------------------------------------------
PCs == {"idle", "note", "raise", "record", "list", "leave", "recover", "floor", "open",
        "rebuild", "prepare", "append", "unknown", "refusal", "settle", "abandon",
        "discard", "close", "exited"}

EntryType ==
    [txn : Txn, fence : 1..MaxFence, base : Nat, abandoned : BOOLEAN, left : BOOLEAN]

PlanType == [txn : Txn, base : Nat, do : {"leave", "settle", "drop", "send"}]

\* Every variable has its type: the chain, entries and plans of recoveries name fences up
\* to the last of the lease and commits of units that exist.
TypeOK ==
    /\ lease \in 0..MaxFence /\ storeFence \in 0..MaxFence
    /\ log \in [Writer \cup {0} -> Seq(Txn)]
    /\ outbox \subseteq EntryType /\ unsynced \subseteq EntryType
    /\ chain \in [last : 0..MaxFence, start : 0..MaxFence,
                  floor : 0..MaxFence, note : 0..MaxFence]
    /\ pc \in [Proc -> PCs]
    /\ fence \in [Proc -> 0..MaxFence]
    /\ plan \in [Proc -> SUBSET PlanType]
    /\ staged \subseteq Txn /\ names \subseteq Writer /\ final \subseteq Writer
    /\ refused \subseteq Writer /\ unsure \subseteq Writer /\ marked \subseteq Writer
    /\ todo \in [Writer -> SUBSET {Data, Run}]
    /\ prepared \in [Writer -> SUBSET {Data, Run}]
    /\ keys \in [Writer -> SUBSET {Data, Run}]
    /\ giving \in [Writer -> SUBSET {Data, Run}]
    /\ owed \in [Writer -> SUBSET {Data, Run}]
    /\ base \in [Writer -> Nat]
    /\ told \subseteq Txn /\ late \subseteq Txn /\ recovered \in 0..MaxFence
    /\ faults \in 0..MaxFaults
    /\ report \in [Writer -> {"none", "ok", "failed", "maybe"}]

\* A commit whose failure was reported never lands afterwards.
ReportedFailureIsFinal ==
    [][\A t \in told : Landed(t)' => Landed(t)]_vars

\* A commit a fenced writer prepares after a newer writer's recovery never lands.
OvertakenNeverLands ==
    [][\A t \in late : Landed(t)' => Landed(t)]_vars

\* A unit that reports its commit done has landed all but what it was told failed.
CommittedHasLanded ==
    \A t \in staged : report[t[1]] = "ok" => Landed(t) \/ t \in told

\* A run record lands only after the data its unit staged before it, unless the
\* caller went on without that data.
RunNamesLandedData ==
    \A p \in names : Landed(<<p, Run>>) => Landed(<<p, Data>>)

\* No fence in the chain was another copy's.
ChainIsOurs ==
    \A f \in chain.start..chain.last : f # 0 => \E p \in Proc : fence[p] = f
=============================================================================
