------------------------------- MODULE Dispatch -------------------------------
(***************************************************************************)
(* Remote steps of one serve process: executeRemote places each on a worker *)
(* of the pool, the gateway sends it over the worker's control socket, and  *)
(* the worker's runner writes data through the data plane while it runs.    *)
(*                                                                         *)
(* A worker may drop its socket, reconnect, drain, be cut off or be         *)
(* replaced at any moment.  A step whose worker is lost runs again if it    *)
(* had written nothing, and fails otherwise.  The lease record of an        *)
(* attempt says whether it wrote; the transitions of one lease run in       *)
(* order, one after the other, and each may throw.  Steps of the affinity   *)
(* group run on one worker.                                                 *)
(*                                                                         *)
(* Left out: verification of workers on enrollment and its probes, protocol *)
(* versions, tokens, the hand-off of file locks and what a result contains. *)
(***************************************************************************)
EXTENDS Naturals, Sequences, FiniteSets

CONSTANTS
    Step,       \* remote steps of workflow runs
    Worker,     \* worker names
    Workload,   \* what the steps ask for: see WorkloadAssumption
    Capacity,   \* dispatches a worker takes at once
    NoOne,
    LateWrites, \* whether a write request may be open when the socket closes
    MaxWrites,  \* bound: write requests of one attempt
    Parallel,   \* whether a method sends write requests before others are answered
    Cancellable, \* bound: steps that may be cancelled
    Faulty,     \* bound: steps of which a write of the lease ledger may throw
    MaxChanges  \* bound: sockets that drop, drains and cut-offs

\* The steps that share an affinity key, those that declare writes, the workers that meet
\* the placement of each, and how many write requests each method sends at most.
ASSUME WorkloadAssumption ==
    Workload \subseteq [group : SUBSET Step, declares : SUBSET Step, fits : [Step -> SUBSET Worker],
                       writes : [Step -> 0..MaxWrites]]

ASSUME NoOneAssumption ==
    NoOne \notin Worker \cup Step /\ Cancellable \subseteq Step /\ Faulty \subseteq Step

ASSUME BoundsAssumption ==
    Capacity \in Nat /\ MaxWrites \in Nat /\ MaxChanges \in Nat

\* An attempt that a change of the pool ends is followed by another.
Attempt == 1..(MaxChanges + 1)
Id == Step \X Attempt

VARIABLES
    asked,    \* the workload of this behaviour, which never changes
    pool,     \* each worker: "out", "up", or "down" in its grace window
    status,   \* "free" (idle or busy) or "draining", as the gateway knows it
    leaving,  \* workers that drain and may not have said so yet
    active,   \* steps registered with each worker
    reserved, \* number of steps placed on each worker and not registered
    pc,       \* where each step stands in executeRemote
    tries,    \* attempts of each step that took a lease
    at,       \* the worker of the attempt, or NoOne
    pinned,   \* steps bound to the pin of the group
    pin,      \* the worker the group is pinned to, or NoOne
    first,    \* the step whose end the group waits for, or NoOne
    queued,   \* steps with an open queue record
    aborted,  \* steps that were cancelled
    had,      \* steps whose lost attempt had written, as executeRemote saw it
    then,     \* what the step goes on with once its lease has ended
    lease,    \* the state of each lease record
    marked,   \* leases recorded as having writes
    chain,    \* transitions of each lease that wait for their turn
    unmarked, \* history: attempts whose mark_writes threw and wrote nothing
    unended,  \* history: attempts that left their lease active because the ledger threw
    noted,    \* attempts in #writesByDispatch and #dispatchesWithWrites
    request,  \* write requests of each attempt
    wrote,    \* attempts with a persisted write
    ran,      \* the worker each attempt was sent to
    changes   \* changes of the pool

workers == <<pool, status, leaving, active, reserved, changes>>
group == <<pinned, pin, first>>
step == <<pc, tries, at, queued, aborted, had, then>>
records == <<lease, marked, chain, unmarked, unended>>
plane == <<noted, request, wrote, ran>>
vars == <<workers, group, step, records, plane, asked>>

Group == asked.group
Declares == asked.declares
Fits == asked.fits

-----------------------------------------------------------------------------
Current(s) == <<s, tries[s]>>

Ended(s) == pc[s] = "ended"

Change == changes < MaxChanges /\ changes' = changes + 1

Goto(s, l) == pc' = [pc EXCEPT ![s] = l]

Init ==
    /\ asked \in Workload
    /\ pool \in [Worker -> {"out", "up"}]
    /\ status = [w \in Worker |-> "free"] /\ leaving = {}
    /\ active = [w \in Worker |-> {}] /\ reserved = [w \in Worker |-> 0]
    /\ pc = [s \in Step |-> "start"] /\ tries = [s \in Step |-> 0]
    /\ at = [s \in Step |-> NoOne]
    /\ pinned = {} /\ pin = NoOne /\ first = NoOne
    /\ queued = {} /\ aborted = {} /\ had = {}
    /\ then = [s \in Step |-> "none"]
    /\ lease = [d \in Id |-> "none"] /\ marked = {}
    /\ chain = [d \in Id |-> <<>>] /\ unmarked = {} /\ unended = {}
    /\ noted = {} /\ request = [d \in Id |-> [i \in 1..MaxWrites |-> "none"]]
    /\ wrote = {} /\ ran = [d \in Id |-> NoOne]
    /\ changes = 0

-----------------------------------------------------------------------------
(* Placement. *)

\* workerLost or unmetPlacement: why a pinned step fails, or "none"
PinFault(s) ==
    IF s \notin pinned THEN "none"
    ELSE IF pool[pin] # "up" \/ status[pin] = "draining" THEN "affinity"
    ELSE IF pin \notin Fits[s] THEN "mismatch"
    ELSE "none"

MutFree(w) == Capacity - Cardinality(active[w])

Free(w) ==
    IF Cardinality(active[w]) + reserved[w] >= Capacity THEN 0
    ELSE Capacity - Cardinality(active[w]) - reserved[w]

\* eligibleWorkers with a free slot: a pin stands in for the placement
Schedulable(s) ==
    {w \in Worker :
        /\ pool[w] = "up" /\ status[w] # "draining" /\ Free(w) > 0
        /\ IF s \in pinned THEN w = pin ELSE w \in Fits[s]}

MutSettleGroup(s, r) == UNCHANGED <<pin, first>>

MutSettleUnbound(s, r) == UNCHANGED pin /\ first' = IF first = s THEN NoOne ELSE first

\* The first step of the group settles those that wait: a lost worker fails them,
\* otherwise the worker of its last attempt becomes the pin.
SettleGroup(s, r) ==
    IF first # s THEN UNCHANGED <<pin, first>>
    ELSE /\ pin' = IF r # "affinity" /\ at[s] # NoOne THEN at[s] ELSE pin
         /\ first' = NoOne

\* executeRemote returns or throws, and its queue record ends with it.
Ends(s, r) ==
    LET fails == IF first = s /\ r = "affinity"
                 THEN {q \in Step : pc[q] = "group"} ELSE {}
    IN  /\ pc' = [q \in Step |-> IF q = s \/ q \in fails THEN "ended" ELSE pc[q]]
        /\ queued' = queued \ {s}
        /\ SettleGroup(s, r)

\* The next round of the loop, with the queue record of the last attempt closed.
Reschedules(s) ==
    /\ Goto(s, "queue")
    /\ at' = [at EXCEPT ![s] = NoOne]
    /\ queued' = queued \ {s}
    /\ UNCHANGED <<pin, first>>

\* A step of the group takes the pin, becomes its first step, or waits for it.
Start(s) ==
    /\ pc[s] \in {"start", "group"}
    /\ \/ (s \notin Group \/ first = s) /\ Goto(s, "queue") /\ UNCHANGED <<pinned, first>>
       \/ /\ s \in Group /\ pin # NoOne
          /\ pinned' = pinned \cup {s} /\ Goto(s, "queue") /\ UNCHANGED first
       \/ /\ s \in Group /\ pin = NoOne /\ first = NoOne
          /\ first' = s /\ Goto(s, "queue") /\ UNCHANGED pinned
       \/ /\ pc[s] = "start" /\ s \in Group /\ pin = NoOne /\ first # NoOne
          /\ Goto(s, "group") /\ UNCHANGED <<pinned, first>>
    /\ UNCHANGED <<asked, workers, pin, tries, at, queued, aborted, had, then, records,
                   plane>>

\* acquireWorker reserves a slot of the worker with the most of them free.
Reserve(s) ==
    /\ pc[s] = "queue" /\ s \notin aborted /\ PinFault(s) = "none"
    /\ \E w \in Schedulable(s) :
          /\ \A v \in Schedulable(s) : Free(v) <= Free(w)
          /\ reserved' = [reserved EXCEPT ![w] = @ + 1]
          /\ at' = [at EXCEPT ![s] = w]
    /\ Goto(s, "frame")
    /\ UNCHANGED <<asked, pool, status, leaving, active, changes, group, tries, queued, aborted,
                   had, then, records, plane>>

Queue(s) ==
    /\ pc[s] = "queue" /\ s \notin aborted \cup queued
    /\ PinFault(s) = "none" /\ Schedulable(s) = {}
    /\ queued' = queued \cup {s}
    /\ UNCHANGED <<asked, workers, group, pc, tries, at, aborted, had, then, records,
                   plane>>

\* The wait for a worker ends with a cancel, a lost pin or the queue timeout.
GiveUp(s) ==
    /\ pc[s] = "queue"
    /\ \/ s \in aborted /\ Ends(s, "cancelled")
       \/ s \notin aborted /\ PinFault(s) # "none" /\ Ends(s, PinFault(s))
       \/ /\ s \in queued \ aborted /\ PinFault(s) = "none" /\ Schedulable(s) = {}
          /\ Ends(s, "timeout")
    /\ UNCHANGED <<asked, workers, pinned, tries, at, aborted, had, then, records, plane>>

MutUnreserve(s) == reserved' = [reserved EXCEPT ![at[s]] = @ - 2]

Unreserve(s) == reserved' = [reserved EXCEPT ![at[s]] = @ - 1]

-----------------------------------------------------------------------------
(* One attempt. *)

\* The frame is built for the worker, if it is still in the pool, and the lease acquired;
\* a step that declares its writes has it marked next.
TakeLease(s) ==
    /\ pc[s] = "frame" /\ pool[at[s]] # "out"
    /\ tries[s] + 1 \in Attempt
    /\ tries' = [tries EXCEPT ![s] = @ + 1]
    /\ lease' = [lease EXCEPT ![<<s, tries[s] + 1>>] = "active"]
    /\ Goto(s, IF s \in Declares THEN "declare" ELSE "dispatch")
    /\ UNCHANGED <<asked, workers, group, at, queued, aborted, had, then, marked, chain,
                   unmarked, unended, plane>>

\* If the mark throws, the step fails and the lease stays as it is.
MarkDeclared(s) ==
    /\ pc[s] = "declare"
    /\ noted' = noted \cup {Current(s)}
    /\ \/ /\ marked' = marked \cup {Current(s)}
          /\ Goto(s, "dispatch")
          /\ UNCHANGED <<reserved, group, queued, unended>>
       \/ /\ s \in Faulty
          /\ marked' = marked \cup {Current(s)} \/ UNCHANGED marked
          /\ unended' = unended \cup {Current(s)}
          /\ Unreserve(s) /\ Ends(s, "error") /\ UNCHANGED pinned
    /\ UNCHANGED <<asked, pool, status, leaving, active, changes, tries, at, aborted, had, then,
                   lease, chain, unmarked, request, wrote, ran>>

\* The worker left the pool before the frame was built for it: nothing has run.
WorkerGone(s) ==
    /\ pc[s] = "frame" /\ pool[at[s]] = "out"
    /\ Unreserve(s)
    /\ IF PinFault(s) # "none"
       THEN Ends(s, PinFault(s)) /\ at' = [at EXCEPT ![s] = NoOne]
       ELSE Reschedules(s)
    /\ UNCHANGED <<asked, pool, status, leaving, active, changes, pinned, tries, aborted, had, then,
                   records, plane>>

\* The frame cannot be built, or the acquire throws: the lease may be there and stay.
FrameFails(s) ==
    /\ pc[s] = "frame" /\ pool[at[s]] # "out"
    /\ Unreserve(s)
    /\ Ends(s, "error") /\ UNCHANGED at
    /\ \/ UNCHANGED <<tries, lease, unended>>
       \/ /\ s \in Faulty /\ tries[s] + 1 \in Attempt
          /\ tries' = [tries EXCEPT ![s] = @ + 1]
          /\ lease' = [lease EXCEPT ![<<s, tries[s] + 1>>] = "active"]
          /\ unended' = unended \cup {<<s, tries[s] + 1>>}
    /\ UNCHANGED <<asked, pool, status, leaving, active, changes, pinned, aborted, had, then,
                   marked, chain, unmarked, plane>>

\* The lease ends in this state; the step goes on with l when it has.
EndLease(s, state, l) ==
    /\ chain' = [chain EXCEPT ![Current(s)] = Append(@, state)]
    /\ then' = [then EXCEPT ![s] = l]
    /\ Goto(s, "settle")

MutRefusal(s) ==
    then' = [then EXCEPT ![s] = "refused"] /\ Goto(s, "settle") /\ UNCHANGED chain

\* An attempt that did not run is over: its lease must not stay active.
Refusal(s) == EndLease(s, "expired", "refused")

\* gateway.dispatch registers the step, or refuses a worker that left or drains.
Register(s) ==
    /\ pc[s] = "dispatch"
    /\ Unreserve(s)
    /\ IF /\ pool[at[s]] = "up" /\ status[at[s]] # "draining"
          /\ Cardinality(active[at[s]]) < Capacity
       THEN /\ active' = [active EXCEPT ![at[s]] = @ \cup {s}]
            /\ Goto(s, "busy") /\ UNCHANGED <<then, chain>>
       ELSE Refusal(s) /\ UNCHANGED active
    /\ UNCHANGED <<asked, pool, status, leaving, changes, group, tries, at, queued, aborted, had,
                   lease, marked, unmarked, unended, plane>>

\* The slot of steps is given back.
Unregistered(S) == active' = [w \in Worker |-> active[w] \ S]

MutCallsClose(S) == pc' = [s \in Step |-> IF s \in S THEN "fate" ELSE pc[s]] /\ UNCHANGED had

\* Calls on a closed socket fail; whether the attempt had written is read then.
CallsClose(S) ==
    /\ pc' = [s \in Step |-> IF s \in S THEN "fate" ELSE pc[s]]
    /\ had' = (had \ S) \cup {s \in S : Current(s) \in noted}

\* Once the worker is recorded as busy the call is sent, unless its socket closed, the
\* step was cancelled or the record failed.
Send(s) ==
    /\ pc[s] = "busy"
    /\ \/ /\ s \in active[at[s]] /\ pool[at[s]] = "up" /\ s \notin aborted
          /\ Goto(s, "sent") /\ UNCHANGED <<active, had, then, chain>>
       \/ /\ s \notin active[at[s]] \/ pool[at[s]] # "up"
          /\ CallsClose({s}) /\ Unregistered({s}) /\ UNCHANGED <<then, chain>>
       \/ /\ s \in active[at[s]] /\ pool[at[s]] = "up" /\ s \in aborted
          /\ EndLease(s, "failed", "cancelled") /\ Unregistered({s}) /\ UNCHANGED had
       \/ EndLease(s, "expired", "error") /\ Unregistered({s}) /\ UNCHANGED had
    /\ UNCHANGED <<asked, pool, status, leaving, reserved, changes, group, tries, at, queued,
                   aborted, lease, marked, unmarked, unended, plane>>

\* The worker starts a runner, unless it drains.  Its refusal follows its drain
\* message on the socket.
Accept(s) ==
    /\ pc[s] = "sent"
    /\ at[s] \in leaving => status[at[s]] = "draining"
    /\ IF at[s] \in leaving
       THEN Refusal(s) /\ Unregistered({s}) /\ UNCHANGED ran
       ELSE /\ Goto(s, "runs")
            /\ ran' = [ran EXCEPT ![Current(s)] = at[s]]
            /\ UNCHANGED <<active, chain, then>>
    /\ UNCHANGED <<asked, pool, status, leaving, reserved, changes, group, tries, at, queued,
                   aborted, had, lease, marked, unmarked, unended, noted, request, wrote>>

\* The runner's answer, or after a cancel that it has stopped or did not in time.
Result(s) ==
    /\ pc[s] = "runs" \/ (pc[s] = "sent" /\ s \in aborted)
    /\ \/ pc[s] = "runs" /\ EndLease(s, "completed", "ok")
       \/ pc[s] = "runs" /\ EndLease(s, "failed", "error")
       \/ s \in aborted /\ EndLease(s, "failed", "cancelled")
    /\ Unregistered({s})
    /\ UNCHANGED <<asked, pool, status, leaving, reserved, changes, group, tries, at, queued,
                   aborted, had, lease, marked, unmarked, unended, plane>>

\* finally: the attempt is forgotten
Forgotten(s) == noted' = noted \ {Current(s)}

\* awaitWorkerFate: the worker is back or its grace window is over.  A cancel throws
\* out of the wait and the lease is left as it is.
Fate(s) ==
    /\ pc[s] = "fate"
    /\ \/ /\ s \notin aborted /\ pool[at[s]] # "down"
          /\ EndLease(s, IF s \in had THEN "failed" ELSE "expired", "lost")
          /\ UNCHANGED <<queued, pin, first, noted>>
       \/ /\ s \in aborted
          /\ Ends(s, "cancelled") /\ Forgotten(s) /\ UNCHANGED <<chain, then>>
    /\ UNCHANGED <<asked, workers, pinned, tries, at, aborted, had, lease, marked,
                   unmarked, unended, request, wrote, ran>>

\* A lost worker fails a step of a pinned group or one that wrote; another runs again.
Lost(s) ==
    IF s \in Group /\ (s \in pinned \/ s \in had) THEN Ends(s, "affinity") /\ UNCHANGED at
    ELSE IF s \in had THEN Ends(s, "lost") /\ UNCHANGED at
    ELSE Reschedules(s)

\* The lease has ended, and executeRemote decides what the step does.
Resume(s) ==
    /\ pc[s] = "settle"
    /\ \A i \in DOMAIN chain[Current(s)] : chain[Current(s)][i] = "mark"
    /\ Forgotten(s)
    /\ CASE then[s] = "lost" -> Lost(s)
         [] then[s] = "refused" ->
              IF PinFault(s) # "none"
              THEN Ends(s, PinFault(s)) /\ at' = [at EXCEPT ![s] = NoOne]
              ELSE Reschedules(s)
         [] OTHER -> Ends(s, then[s]) /\ UNCHANGED at
    /\ then' = [then EXCEPT ![s] = "none"]
    /\ UNCHANGED <<asked, workers, pinned, tries, aborted, had, records, request, wrote, ran>>

Cancel(s) ==
    /\ s \in Cancellable /\ ~Ended(s) /\ s \notin aborted
    /\ aborted' = aborted \cup {s}
    /\ queued' = queued \ {s}
    /\ UNCHANGED <<asked, workers, group, pc, tries, at, had, then, records, plane>>

-----------------------------------------------------------------------------
(* Leases, and the data plane. *)

\* What the next transition of a lease writes: only an active lease takes one.
Applied(d) ==
    IF Head(chain[d]) = "mark"
    THEN marked' = (IF lease[d] = "active" THEN marked \cup {d} ELSE marked) /\ UNCHANGED lease
    ELSE /\ lease' = [lease EXCEPT ![d] = IF @ = "active" THEN Head(chain[d]) ELSE @]
         /\ UNCHANGED marked

\* The write requests that wait for the mark go on, or fail.
Answer(d, ok) ==
    request' = [request EXCEPT ![d] =
        [i \in 1..MaxWrites |->
            IF @[i] = "mark" THEN IF ok THEN "persist" ELSE "failed" ELSE @[i]]]

\* The next transition of a lease is written ...
Transition(d) ==
    /\ chain[d] # <<>>
    /\ chain' = [chain EXCEPT ![d] = Tail(@)]
    /\ Applied(d)
    /\ IF Head(chain[d]) = "mark" THEN Answer(d, lease[d] = "active") ELSE UNCHANGED request
    /\ UNCHANGED <<asked, workers, group, step, unmarked, unended, noted, wrote, ran>>

\* ... or it throws, with the lease written or not.  A step whose worker is lost then fails,
\* as does one that completed (how an end other than a lost worker is reported makes no
\* difference here); a refused one goes on.
TransitionThrows(d) ==
    /\ chain[d] # <<>> /\ d[1] \in Faulty
    /\ chain' = [chain EXCEPT ![d] = Tail(@)]
    /\ IF Head(chain[d]) = "mark"
       THEN Answer(d, FALSE) /\ UNCHANGED then
       ELSE /\ then' = [then EXCEPT ![d[1]] = IF @ = "lost" THEN "error" ELSE @]
            /\ UNCHANGED request
    /\ \/ Applied(d) /\ UNCHANGED <<unmarked, unended>>
       \/ /\ IF Head(chain[d]) = "mark"
             THEN unmarked' = unmarked \cup {d} /\ UNCHANGED unended
             ELSE unended' = unended \cup {d} /\ UNCHANGED unmarked
          /\ UNCHANGED <<lease, marked>>
    /\ UNCHANGED <<asked, workers, group, pc, tries, at, queued, aborted, had, noted, wrote, ran>>

\* The runner's next write request arrives while its dispatch is registered.
OpenWrite(s, i) ==
    /\ pc[s] = "runs" /\ request[Current(s)][i] = "none" /\ i <= asked.writes[s]
    /\ \A j \in 1..(i - 1) :
          request[Current(s)][j] \in {"done", "failed"} \/ (Parallel /\ request[Current(s)][j] # "none")
    /\ request' = [request EXCEPT ![Current(s)][i] = "open"]
    /\ UNCHANGED <<asked, workers, group, step, records, noted, wrote, ran>>

MutRecordWrite(d, i) ==
    /\ request[d][i] = "open"
    /\ noted' = noted \cup {d}
    /\ request' = [request EXCEPT ![d][i] = "persist"]
    /\ chain' = IF d \in noted THEN chain ELSE [chain EXCEPT ![d] = Append(@, "mark")]
    /\ UNCHANGED <<asked, workers, group, step, lease, marked, unmarked, unended,
                   wrote, ran>>

\* recordWrite: the first write of an attempt waits for its lease to be marked.
RecordWrite(d, i) ==
    /\ request[d][i] = "open"
    /\ noted' = noted \cup {d}
    /\ IF d \in noted
       THEN request' = [request EXCEPT ![d][i] = "persist"] /\ UNCHANGED chain
       ELSE /\ request' = [request EXCEPT ![d][i] = "mark"]
            /\ chain' = [chain EXCEPT ![d] = Append(@, "mark")]
    /\ UNCHANGED <<asked, workers, group, step, lease, marked, unmarked, unended,
                   wrote, ran>>

\* The write is saved, or it is refused.
Persist(d, i) ==
    /\ request[d][i] = "persist"
    /\ \/ wrote' = wrote \cup {d} /\ request' = [request EXCEPT ![d][i] = "done"]
       \/ UNCHANGED wrote /\ request' = [request EXCEPT ![d][i] = "failed"]
    /\ UNCHANGED <<asked, workers, group, step, records, noted, ran>>

-----------------------------------------------------------------------------
(* The pool. *)

\* Steps with a call on the socket of w.
Calls(w) == {s \in Step : at[s] = w /\ pc[s] \in {"sent", "runs"}}

NoneOpen(w) ==
    \A s \in Calls(w) : \A i \in 1..MaxWrites : request[Current(s)][i] # "open"

\* handleSocketClosed: the grace window begins, unless the worker was draining.
Disconnect(w) ==
    /\ pool[w] = "up"
    /\ IF status[w] = "draining" THEN UNCHANGED changes ELSE Change
    /\ LateWrites \/ NoneOpen(w)
    /\ CallsClose(Calls(w))
    /\ IF status[w] = "draining"
       THEN /\ pool' = [pool EXCEPT ![w] = "out"]
            /\ active' = [active EXCEPT ![w] = {}]
       ELSE /\ pool' = [pool EXCEPT ![w] = "down"]
            /\ active' = [active EXCEPT ![w] = @ \ Calls(w)]
    /\ UNCHANGED <<asked, status, leaving, reserved, group, tries, at, queued, aborted, then,
                   records, plane>>

\* removeWorker: its token was revoked or expired
CutOff(w) ==
    /\ pool[w] # "out" /\ Change
    /\ LateWrites \/ NoneOpen(w)
    /\ CallsClose(Calls(w))
    /\ pool' = [pool EXCEPT ![w] = "out"]
    /\ active' = [active EXCEPT ![w] = {}]
    /\ UNCHANGED <<asked, status, leaving, reserved, group, tries, at, queued, aborted, then,
                   records, plane>>

GraceExpires(w) ==
    /\ pool[w] = "down"
    /\ pool' = [pool EXCEPT ![w] = "out"]
    /\ active' = [active EXCEPT ![w] = {}]
    /\ UNCHANGED <<asked, status, leaving, reserved, changes, group, step, records, plane>>

\* The process reconnects, and keeps its entry and what is registered with it ...
Reconnect(w) ==
    /\ pool[w] = "down" /\ w \notin leaving
    /\ pool' = [pool EXCEPT ![w] = "up"]
    /\ UNCHANGED <<asked, status, leaving, active, reserved, changes, group, step, records, plane>>

\* ... or its name is enrolled by another.
Enroll(w) ==
    /\ pool[w] # "up"
    /\ pool' = [pool EXCEPT ![w] = "up"]
    /\ status' = [status EXCEPT ![w] = "free"]
    /\ leaving' = leaving \ {w}
    /\ active' = [active EXCEPT ![w] = {}]
    /\ UNCHANGED <<asked, reserved, changes, group, step, records, plane>>

\* A worker refuses dispatches from the moment it drains, and says so.
Drain(w) ==
    /\ pool[w] = "up" /\ w \notin leaving /\ Change
    /\ leaving' = leaving \cup {w}
    /\ UNCHANGED <<asked, pool, status, active, reserved, group, step, records, plane>>

HandleDrain(w) ==
    /\ pool[w] = "up" /\ w \in leaving /\ status[w] # "draining"
    /\ status' = [status EXCEPT ![w] = "draining"]
    /\ UNCHANGED <<asked, pool, leaving, active, reserved, changes, group, step, records, plane>>

-----------------------------------------------------------------------------
Execute(s) ==
    \/ Start(s) \/ Reserve(s) \/ Queue(s) \/ GiveUp(s) \/ TakeLease(s) \/ MarkDeclared(s)
    \/ WorkerGone(s)
    \/ Register(s) \/ Send(s) \/ Accept(s) \/ Fate(s) \/ Resume(s) \/ Result(s)

Writes(d) ==
    \/ Transition(d) \/ TransitionThrows(d)
    \/ \E i \in 1..MaxWrites : RecordWrite(d, i) \/ Persist(d, i)

Changes(w) ==
    \/ Disconnect(w) \/ CutOff(w) \/ Reconnect(w) \/ Enroll(w) \/ Drain(w) \/ HandleDrain(w)

Next ==
    \/ \E s \in Step :
          \/ Execute(s) \/ Cancel(s) \/ FrameFails(s)
          \/ \E i \in 1..MaxWrites : OpenWrite(s, i)
    \/ \E d \in Id : Writes(d)
    \/ \E w \in Worker : Changes(w) \/ GraceExpires(w)

Spec == Init /\ [][Next]_vars

\* Serve goes on with some step, runners end, a drain message arrives, a grace window
\* expires.
Progress ==
    \/ \E s \in Step : Execute(s)
    \/ \E d \in Id : Transition(d)
    \/ \E w \in Worker : GraceExpires(w) \/ HandleDrain(w)

Fairness == WF_vars(Progress)

LiveSpec == Spec /\ Fairness

-----------------------------------------------------------------------------
\* Every variable has its type: no more slots of a worker are reserved than it has, and a
\* lease is in a state of its model.
TypeOK ==
    /\ asked \in Workload
    /\ pool \in [Worker -> {"out", "up", "down"}]
    /\ status \in [Worker -> {"free", "draining"}] /\ leaving \subseteq Worker
    /\ active \in [Worker -> SUBSET Step] /\ reserved \in [Worker -> 0..Capacity]
    /\ pc \in [Step -> {"start", "group", "queue", "frame", "declare", "dispatch", "busy",
                        "sent", "runs", "fate", "settle", "ended"}]
    /\ tries \in [Step -> 0..(MaxChanges + 1)] /\ at \in [Step -> Worker \cup {NoOne}]
    /\ pinned \subseteq Step /\ pin \in Worker \cup {NoOne} /\ first \in Step \cup {NoOne}
    /\ queued \subseteq Step /\ aborted \subseteq Step /\ had \subseteq Step
    /\ then \in [Step -> {"none", "ok", "error", "cancelled", "lost", "refused"}]
    /\ lease \in [Id -> {"none", "active", "completed", "failed", "expired"}]
    /\ marked \subseteq Id /\ unmarked \subseteq Id /\ unended \subseteq Id
    /\ noted \subseteq Id /\ wrote \subseteq Id
    /\ chain \in [Id -> Seq({"mark", "completed", "failed", "expired"})]
    /\ request \in [Id -> [1..MaxWrites ->
                       {"none", "open", "mark", "persist", "done", "failed"}]]
    /\ ran \in [Id -> Worker \cup {NoOne}]
    /\ changes \in 0..MaxChanges

\* A step one of whose attempts wrote is never sent to a worker again.
WrittenNeverRunsAgain ==
    \A d \in wrote : \A k \in Attempt : k > d[2] => ran[<<d[1], k>>] = NoOne

\* A write is saved only when the lease says that its attempt wrote, unless the ledger threw
\* when it was to say so: the attempt is noted all the same, so its next write does not try.
LeaseTellsWrites == wrote \subseteq marked \cup unmarked

\* A slot is counted once, by its reservation or by the registered dispatch.
SlotsCountedOnce ==
    \A w \in Worker : reserved[w] + Cardinality(active[w]) <= Capacity

\* Attempts of steps of the group that were completed ran on one worker.
GroupRanOnOneWorker ==
    \A d, e \in {i \in Id : i[1] \in Group /\ lease[i] = "completed"} : ran[d] = ran[e]

\* A step that ended uncancelled leaves no lease active, unless the ledger threw when it was
\* to end the lease or just after it was acquired.
LeaseEndsWithStep ==
    \A s \in Step : Ended(s) /\ s \notin aborted =>
        \A k \in Attempt : lease[<<s, k>>] = "active" => <<s, k>> \in unended

\* Every step ends, also one that waits for the first of its group.
StepEnds == <>(\A s \in Step : Ended(s))
=============================================================================
