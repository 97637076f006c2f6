--------------------------- MODULE ContinuationClaim ---------------------------
(***************************************************************************)
(* The continuation of one suspended run on a synced datastore.             *)
(*                                                                         *)
(* Each serve instance, and each local command, has a copy of the run       *)
(* record that it never refreshes after it started, so a copy can say       *)
(* suspended after another instance has continued the run.  A resume takes  *)
(* the run's lock, compares its copy with the datastore's (if serve resumes *)
(* by itself) and creates a claim for the suspension, which it gives back   *)
(* if it did not continue the run after all.  Suspensions are numbered; the *)
(* number stands for the suspension key, the digest of the suspended        *)
(* record.                                                                  *)
(*                                                                         *)
(* Left out: approvals, which change the key on one copy, the settlement of *)
(* signal waits and nested runs that precedes a resume, failed runs, and    *)
(* what is done about a record that a dead instance pushed as running: its  *)
(* reconciliation, or a cancel.                                             *)
(***************************************************************************)
EXTENDS Naturals

CONSTANTS
    Serve,    \* serve instances; each start is an instance of its own
    Local,    \* runs of swamp workflow resume
    Asked,    \* bound: serve instances that a person may ask for a resume
    Silent,   \* bound: serve instances whose heartbeat may go stale while they run
    NoOne,
    StallsAt, \* stages at which an instance may stall for so long that its lock expires
    MaxSuspension, \* bound: times that the run suspends
    MaxTries  \* bound: resumes of one instance

ASSUME InstanceAssumption ==
    /\ Serve \cap Local = {} /\ NoOne \notin Serve \cup Local
    /\ Asked \subseteq Serve /\ Silent \subseteq Serve

ASSUME BoundAssumption == MaxSuspension \in Nat \ {0} /\ MaxTries \in Nat

Instance == Serve \cup Local
Suspension == 1..(MaxSuspension + 1)
Generation == Nat \ {0}

VARIABLES
    remote,  \* the record in the datastore
    copy,    \* the record as each instance has it
    dirty,   \* instances with a change that is not pushed
    claims,  \* [suspension, generation, holder] records of the control plane
    lock,    \* who holds the lock of the run, or NoOne
    life,    \* "off", "up" or "gone"
    beat,    \* serve instances with a recent heartbeat
    boot,    \* serve instances whose boot pass is to come
    stage,   \* where each instance stands in its resume
    mode,    \* "boot" or "other" (a signal, a later pass) for serve by itself, "manual"
             \* for a person
    found,   \* the claim the resume read, or NoOne
    own,    \* the claim the resume creates or has, or NoOne
    tries,   \* resumes of each instance
    kept,    \* instances that could not give a claim back, or do not know they have it
    ran,     \* who continued each suspension
    overridden \* history: claims that a person's resume replaced, or whose holder was judged
               \* dead by its heartbeat although it runs

run == <<remote, copy, dirty>>
alive == <<life, beat>>
resume == <<stage, mode, found, own, tries, boot>>
history == <<ran, overridden>>
claimVars == <<run, alive, resume, claims, lock, kept, history>>

-----------------------------------------------------------------------------
Suspended(n) == [status |-> "suspended", n |-> n]
Running(i, n) == [status |-> "running", n |-> n, by |-> i]
Cancelled(n) == [status |-> "cancelled", n |-> n]

Claim(n, g, i) == [n |-> n, gen |-> g, holder |-> i]

Goes(i, l) == stage' = [stage EXCEPT ![i] = l]

Save(i, r) == copy' = [copy EXCEPT ![i] = r] /\ dirty' = dirty \cup {i}

Unlock(i) == lock' = IF lock = i THEN NoOne ELSE lock

\* The resume is refused, or over.
GiveUpResume(i) ==
    /\ Goes(i, "idle")
    /\ mode' = [mode EXCEPT ![i] = "none"]
    /\ found' = [found EXCEPT ![i] = NoOne] /\ own' = [own EXCEPT ![i] = NoOne]

\* find: the claim of the highest generation, or NoOne
Current(n) ==
    LET here == {c \in claims : c.n = n}
    IN  IF here = {} THEN NoOne ELSE CHOOSE c \in here : \A d \in here : d.gen <= c.gen

\* heartbeatLiveness: nothing is known of a local command, or if it cannot be read
Verdicts(i) ==
    IF i \in Local THEN {"unknown"}
    ELSE {"unknown", IF i \in beat THEN "alive" ELSE "dead"}

ClaimInit ==
    /\ remote = Suspended(1) /\ copy = [i \in Instance |-> Suspended(1)] /\ dirty = {}
    /\ claims = {} /\ lock = NoOne /\ kept = {}
    /\ life = [i \in Instance |-> "off"] /\ beat = {} /\ boot = {}
    /\ stage = [i \in Instance |-> "idle"] /\ mode = [i \in Instance |-> "none"]
    /\ found = [i \in Instance |-> NoOne] /\ own = [i \in Instance |-> NoOne]
    /\ tries = [i \in Instance |-> 0]
    /\ ran = [n \in Suspension |-> {}] /\ overridden = {}

-----------------------------------------------------------------------------
(* Instances. *)

\* The boot hydration, or the pull of a local command, and the first heartbeat.
Start(i) ==
    /\ life[i] = "off"
    /\ life' = [life EXCEPT ![i] = "up"]
    /\ copy' = [copy EXCEPT ![i] = remote]
    /\ beat' = IF i \in Serve THEN beat \cup {i} ELSE beat
    /\ boot' = IF i \in Serve THEN boot \cup {i} ELSE boot
    /\ UNCHANGED <<remote, dirty, claims, lock, stage, mode, found, own, tries, kept, history>>

\* A change is pushed at some time after it was saved.
Push(i) ==
    /\ life[i] = "up" /\ i \in dirty
    /\ remote' = copy[i] /\ dirty' = dirty \ {i}
    /\ UNCHANGED <<copy, alive, resume, claims, lock, kept, history>>

\* It stops or crashes: its lock is released or expires, what it did not push is lost, and
\* nobody reads its copy again.
Die(i) ==
    /\ life[i] = "up"
    /\ life' = [life EXCEPT ![i] = "gone"]
    /\ Unlock(i) /\ GiveUpResume(i)
    /\ dirty' = dirty \ {i} /\ boot' = boot \ {i} /\ kept' = kept \ {i}
    /\ copy' = [copy EXCEPT ![i] = Suspended(1)] /\ tries' = [tries EXCEPT ![i] = 0]
    /\ UNCHANGED <<remote, beat, claims, history>>

\* A process that stalls loses the lock and does not know.
LoseLock(i) ==
    /\ stage[i] \in StallsAt /\ lock = i
    /\ lock' = NoOne
    /\ UNCHANGED <<run, alive, resume, claims, kept, history>>

\* Its heartbeat is deleted, or goes stale: it is gone, or it runs and its periodic writes
\* fail or stall ...
HeartbeatEnds(i) ==
    /\ i \in beat /\ (life[i] = "gone" \/ i \in Silent)
    /\ beat' = beat \ {i}
    /\ UNCHANGED <<run, life, resume, claims, lock, kept, history>>

\* ... until one is written again.
HeartbeatReturns(i) ==
    /\ i \in Serve /\ life[i] = "up" /\ i \notin beat
    /\ beat' = beat \cup {i}
    /\ UNCHANGED <<run, life, resume, claims, lock, kept, history>>

\* A cancel takes the run's lock and no claim.
Cancel(i) ==
    /\ life[i] = "up" /\ lock = NoOne /\ copy[i].status = "suspended"
    /\ Save(i, Cancelled(copy[i].n))
    /\ UNCHANGED <<remote, alive, resume, claims, lock, kept, history>>

-----------------------------------------------------------------------------
(* A resume. *)

\* continueSettledRun has an early look at the claim and at the datastore's record.
Launches(i, m) ==
    LET c == Current(copy[i].n)
    IN  m # "manual" =>
          /\ copy[i] = remote
          /\ c # NoOne /\ c.holder # i => m = "boot" /\ "dead" \in Verdicts(c.holder)

\* Serve by itself, in its boot pass, after a signal or in a later pass, or a person asks
\* for a resume.
Launch(i) ==
    /\ life[i] = "up" /\ stage[i] = "idle" /\ tries[i] < MaxTries
    /\ copy[i].status = "suspended" /\ copy[i].n <= MaxSuspension
    /\ \E m \in {"manual", "boot", "other"} :
          /\ m = "manual" => i \in Local \cup Asked
          /\ m = "boot" => i \in boot
          /\ m = "other" => i \in Serve
          /\ Launches(i, m)
          /\ mode' = [mode EXCEPT ![i] = m]
          /\ boot' = IF m = "boot" THEN boot \ {i} ELSE boot
    /\ tries' = [tries EXCEPT ![i] = @ + 1]
    /\ Goes(i, "lock")
    /\ UNCHANGED <<run, alive, claims, lock, found, own, kept, history>>

\* takeOverRun, under the lock: the record must still be suspended.
TakeOver(i) ==
    /\ life[i] = "up" /\ stage[i] = "lock" /\ lock = NoOne
    /\ IF copy[i].status = "suspended"
       THEN lock' = i /\ Goes(i, "look") /\ UNCHANGED <<mode, found, own>>
       ELSE GiveUpResume(i) /\ UNCHANGED lock
    /\ UNCHANGED <<run, alive, tries, boot, claims, kept, history>>

\* requireCurrentRecord, for serve by itself
Look(i) ==
    /\ life[i] = "up" /\ stage[i] = "look"
    /\ IF mode[i] = "manual" \/ copy[i] = remote
       THEN Goes(i, "find") /\ UNCHANGED <<mode, found, own, lock>>
       ELSE GiveUpResume(i) /\ Unlock(i)
    /\ UNCHANGED <<run, alive, tries, boot, claims, kept, history>>

MutReplaces(i, verdict) == verdict # "alive"

\* Whether a claim whose holder is judged so is replaced.
Replaces(i, verdict) ==
    IF mode[i] = "manual" THEN verdict # "alive"
    ELSE verdict = "dead" /\ mode[i] = "boot"

\* One's own claim is taken, another's is judged next.
Read(i, c) ==
    IF c.holder = i
    THEN own' = [own EXCEPT ![i] = c] /\ Goes(i, "save") /\ UNCHANGED found
    ELSE found' = [found EXCEPT ![i] = c] /\ Goes(i, "judge") /\ UNCHANGED own

Find(i) ==
    /\ life[i] = "up" /\ stage[i] = "find"
    /\ LET n == copy[i].n
       IN  IF Current(n) # NoOne THEN Read(i, Current(n))
           ELSE /\ own' = [own EXCEPT ![i] = Claim(n, 1, i)]
                /\ Goes(i, "create") /\ UNCHANGED found
    /\ UNCHANGED <<run, alive, mode, tries, boot, claims, lock, kept, history>>

Judge(i) ==
    /\ life[i] = "up" /\ stage[i] = "judge"
    /\ \E v \in Verdicts(found[i].holder) :
          IF Replaces(i, v)
          THEN /\ own' = [own EXCEPT ![i] = Claim(copy[i].n, found[i].gen + 1, i)]
               /\ Goes(i, "create") /\ UNCHANGED <<mode, found, lock>>
               /\ overridden' =
                     IF mode[i] # "manual" /\ v = "dead" /\ life[found[i].holder] = "up"
                     THEN overridden \cup {found[i]} ELSE overridden
          ELSE GiveUpResume(i) /\ Unlock(i) /\ UNCHANGED overridden
    /\ UNCHANGED <<run, alive, tries, boot, claims, kept, ran>>

\* create: the first to write the generation has it.  One that found no claim and is not
\* the first reads again, and is refused when the claim is gone by then.  A create that
\* throws may have written the claim.
Create(i) ==
    /\ life[i] = "up" /\ stage[i] = "create"
    /\ IF \A c \in claims : c.n # own[i].n \/ c.gen # own[i].gen
       THEN /\ claims' = claims \cup {own[i]}
            /\ overridden' = IF mode[i] = "manual" THEN overridden \cup {found[i]} ELSE overridden
            /\ \/ Goes(i, "save") /\ UNCHANGED <<mode, found, own, lock, kept>>
               \/ GiveUpResume(i) /\ Unlock(i) /\ kept' = kept \cup {i}
       ELSE /\ \E gone \in BOOLEAN :
                  IF found[i] = NoOne /\ ~gone
                  THEN Read(i, Current(own[i].n)) /\ UNCHANGED <<mode, lock>>
                  ELSE GiveUpResume(i) /\ Unlock(i)
            /\ UNCHANGED <<claims, overridden, kept>>
    /\ UNCHANGED <<run, alive, tries, boot, ran>>

MutReleaseSuspension(i) == UNCHANGED <<claims, kept>>

\* releaseSuspension: a claim that cannot be deleted stays.
ReleaseSuspension(i) ==
    \/ claims' = claims \ {own[i]} /\ UNCHANGED kept
    \/ UNCHANGED claims /\ kept' = kept \cup {i}

\* The run is saved as running and its lock released, or nothing is saved.
SaveRunning(i) ==
    /\ life[i] = "up" /\ stage[i] = "save"
    /\ Unlock(i)
    /\ \/ /\ Save(i, Running(i, copy[i].n)) /\ Goes(i, "prepare")
          /\ UNCHANGED <<mode, found, own, claims, kept>>
       \/ GiveUpResume(i) /\ ReleaseSuspension(i) /\ UNCHANGED <<copy, dirty>>
    /\ UNCHANGED <<remote, alive, tries, boot, history>>

\* The run executes ...
Begin(i) ==
    /\ life[i] = "up" /\ stage[i] = "prepare"
    /\ ran' = [ran EXCEPT ![copy[i].n] = @ \cup {i}]
    /\ Goes(i, "run")
    /\ UNCHANGED <<run, alive, mode, found, own, tries, boot, claims, lock, kept, overridden>>

\* ... or the resume fails before it does: the run is suspended again, under its lock.
Restore(i) ==
    /\ life[i] = "up" /\ stage[i] = "prepare" /\ lock = NoOne
    /\ Save(i, Suspended(copy[i].n))
    /\ ReleaseSuspension(i) /\ GiveUpResume(i)
    /\ UNCHANGED <<remote, alive, tries, boot, lock, history>>

\* The run suspends again.
SuspendAgain(i) ==
    /\ life[i] = "up" /\ stage[i] = "run"
    /\ Save(i, Suspended(copy[i].n + 1)) /\ GiveUpResume(i)
    /\ UNCHANGED <<remote, alive, tries, boot, claims, lock, kept, history>>

-----------------------------------------------------------------------------
ClaimStep(i) ==
    \/ Start(i) \/ Push(i) \/ Die(i) \/ LoseLock(i) \/ HeartbeatEnds(i)
    \/ HeartbeatReturns(i) \/ Cancel(i)
    \/ Launch(i) \/ TakeOver(i) \/ Look(i) \/ Find(i) \/ Judge(i)
    \/ Create(i) \/ SaveRunning(i) \/ Begin(i) \/ Restore(i) \/ SuspendAgain(i)

ClaimNext == \E i \in Instance : ClaimStep(i)

ClaimSpec == ClaimInit /\ [][ClaimNext]_claimVars

-----------------------------------------------------------------------------
Record ==
    [status : {"suspended", "cancelled"}, n : Suspension]
        \cup [status : {"running"}, n : Suspension, by : Instance]

ClaimRecord == [n : Suspension, gen : Generation, holder : Instance]

ASSUME NoClaimAssumption == NoOne \notin ClaimRecord

\* Every variable has its type: no instance is in a stage or mode the code has not, and no
\* claim has a generation below the first.
ClaimTypeOK ==
    /\ remote \in Record /\ copy \in [Instance -> Record] /\ dirty \subseteq Instance
    /\ claims \subseteq ClaimRecord /\ lock \in Instance \cup {NoOne}
    /\ life \in [Instance -> {"off", "up", "gone"}] /\ beat \subseteq Serve /\ boot \subseteq Serve
    /\ stage \in [Instance -> {"idle", "lock", "look", "find", "judge", "create", "save",
                            "prepare", "run"}]
    /\ mode \in [Instance -> {"none", "boot", "other", "manual"}]
    /\ found \in [Instance -> ClaimRecord \cup {NoOne}]
    /\ own \in [Instance -> ClaimRecord \cup {NoOne}]
    /\ tries \in [Instance -> 0..MaxTries] /\ kept \subseteq Instance
    /\ ran \in [Suspension -> SUBSET Instance]
    /\ overridden \subseteq ClaimRecord \cup {NoOne}

\* j has taken the suspension over or continued it, and its claim was not overridden.
Took(j, n) ==
    /\ copy[j] = Running(j, n) \/ j \in ran[n]
    /\ \A c \in overridden : c = NoOne \/ c.n # n \/ c.holder # j

\* Serve by itself is never given the claim of a suspension that a process which still
\* runs took over, however old its copy of the run is.  Two kinds of holders are not
\* counted: one whose claim a person's resume replaced, which asks only that it is not
\* known to live, and one that was judged dead by the age of its heartbeat while it ran.
ContinuedByOne ==
    [][\A i \in Serve : stage[i] # "save" /\ stage'[i] = "save" /\ mode[i] # "manual" =>
          \A j \in Instance \ {i} : Took(j, copy[i].n) => life[j] = "gone"]_claimVars

\* An instance that does not resume the run holds no claim on the suspension its copy
\* shows, unless the claim could not be deleted or the store did not say that it was
\* written.
NoLeakedClaim ==
    \A i \in Instance : life[i] = "up" /\ stage[i] = "idle" /\ i \notin kept =>
        \A c \in claims : c.holder = i => copy[i] # Suspended(c.n)
=============================================================================
