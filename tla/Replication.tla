----------------------------- MODULE Replication -----------------------------
(* The replicated commit log of a v3 datastore.  Every checkout has its own commits.db. *)
(* The process that holds the writer lease commits to its copy; a sync ships the copy   *)
(* to the replica path of a lineage, publishes the lineage's head in the control plane  *)
(* (a transaction id and the mark up to which a restore keeps commits), and only then   *)
(* checks the lease and acknowledges.  A new writer takes the lease, makes its copy     *)
(* current from the newest confirmed lineage and goes on with its own lineage or starts *)
(* one at its fence.                                                                    *)
(*                                                                                      *)
(* The lease is taken over at any time: WriterLease has its steps.  A checkout has one  *)
(* process at a time.  All checkouts name the same replica root, no lineage is found    *)
(* broken, and a read of the registry is one step.                                      *)
EXTENDS Integers, Sequences, FiniteSetsExt

CONSTANTS
    Checkout,   \* the checkouts, each with its own copy of the log
    Serving,    \* those whose process is serve: it takes a lost lease again
    LastFence,  \* bound: fences taken
    LastCommit, \* bound: commits made
    LastTxid,   \* bound: transaction ids of one lineage
    LastFailure,\* bound: syncs that fail while their process goes on
    Cases       \* the situations below that a run allows

(* "no_change": a sync may find nothing to ship and answer with the txid it had;        *)
(* "retake_in_sync": serve may take its lease again while a sync is under way;          *)
(* "retake_at_boot": and before its replication upkeep listens for that.                *)
ASSUME ReplAssumption ==
    /\ Serving \subseteq Checkout
    /\ {LastFence, LastCommit, LastTxid} \subseteq Nat \ {0}
    /\ LastFailure \in Nat
    /\ Cases \subseteq {"no_change", "retake_in_sync", "retake_at_boot"}

VARIABLES
    leases,     \* who took each fence, in order
    proc,       \* the process of each checkout: what it keeps in memory
    disk,       \* the files of each checkout: commits.db, lineage.json, copy.json
    started,    \* lineages with a started record
    confirmed,  \* lineages with a confirmed record
    heads,      \* the head records
    shipped,    \* what the replica path of each lineage holds
    acked,      \* history: the commits a writer acknowledged
    made,       \* commits made so far
    failures    \* syncs that failed so far

replVars == <<leases, proc, disk, started, confirmed, heads, shipped, acked, made, failures>>

-----------------------------------------------------------------------------
(* Values *)

Lineage == 1 .. LastFence

\* A log by cursor; 0 where a restore removed a commit, whose cursor is never reused.
IsCommitLog(l) == l \in Seq(0 .. LastCommit) /\ Len(l) <= LastCommit

Kept(l) == {l[i] : i \in DOMAIN l} \ {0}

\* highWaterMark: the last cursor with a commit.
Mark(l) == Max({0} \cup {i \in DOMAIN l : l[i] # 0})

NoSync == [at |-> "none", lineage |-> 0, writer |-> 0, log |-> <<>>, txid |-> 0,
           first |-> FALSE]

\* No hold, nothing published or restored by this process.
Ended == [lease |-> 0, lost |-> FALSE, phase |-> "none", upkeep |-> FALSE,
          restored |-> FALSE, mark |-> 0, sync |-> NoSync]

NewCopy == [log |-> <<>>, lineage |-> [fence |-> 0, last |-> 0],
            copy |-> [lineage |-> 0, txid |-> 0]]

TopLease == Len(leases)

-----------------------------------------------------------------------------
(* The published lineages *)

Complete == {l \in started \cap confirmed : \E h \in heads : h.lineage = l}

NewestStarted == Max(started \cup {0})

\* currentLineage, and the head a read of the registry takes: the highest writer's.
CurrentLineage == Max(Complete \cup {0})

MutCurrentHead ==
    CHOOSE h \in heads :
        /\ h.lineage = CurrentLineage
        /\ \A g \in heads : g.lineage = h.lineage => g.writer >= h.writer

CurrentHead ==
    CHOOSE h \in heads :
        /\ h.lineage = CurrentLineage
        /\ \A g \in heads : g.lineage = h.lineage => g.writer <= h.writer

\* decideLocalCopy: whether the files of a checkout are what the next reader or writer
\* there would restore.  Its own unconfirmed lineage stands while none started after it.
CopyIsCurrent(d) ==
    \/ Complete = {}
    \/ d.lineage.fence > CurrentLineage /\ d.lineage.fence = NewestStarted
    \/ d.copy.lineage = CurrentLineage /\ d.copy.txid >= CurrentHead.txid

\* What restoreV3Copy installs: the lineage at the head's txid, with every commit past
\* the mark removed.
Restored(h) == h.log \o [i \in 1 .. h.span - Len(h.log) |-> 0]

MadeCurrent(d) ==
    IF CopyIsCurrent(d)
    THEN d
    ELSE [d EXCEPT !.log = Restored(CurrentHead),
                   !.copy = [lineage |-> CurrentLineage, txid |-> CurrentHead.txid]]

\* mayContinueLineage, with the fence rule of decideLineage.
Continues(d, fence) ==
    /\ d.lineage.fence # 0 /\ d.lineage.fence \in started
    /\ d.lineage.fence = NewestStarted
    /\ fence \in {d.lineage.last, d.lineage.last + 1}

-----------------------------------------------------------------------------
(* Taking the lease *)

ReplInit ==
    /\ leases = <<>>
    /\ proc = [c \in Checkout |-> Ended]
    /\ disk = [c \in Checkout |-> NewCopy]
    /\ started = {} /\ confirmed = {} /\ heads = {}
    /\ shipped = [l \in Lineage |-> [txid |-> 0, log |-> <<>>]]
    /\ acked = {}
    /\ made = 0
    /\ failures = 0

registry == <<started, confirmed, heads, shipped>>

\* holdV3Writer: the lease first, then the restore.
TakeLease(c) ==
    /\ proc[c].lease = 0
    /\ TopLease < LastFence
    /\ leases' = Append(leases, c)
    /\ proc' = [proc EXCEPT ![c].lease = TopLease + 1, ![c].lost = FALSE,
                            ![c].phase = "restore"]
    /\ UNCHANGED <<disk, registry, acked, made, failures>>

\* A renewal finds a higher fence.
FindLost(c) ==
    /\ proc[c].lease \notin {0, TopLease}
    /\ ~proc[c].lost
    /\ proc' = [proc EXCEPT ![c].lost = TRUE]
    /\ UNCHANGED <<leases, disk, registry, acked, made, failures>>

\* The renewal timer of serve takes a lost lease again.  recordV3LeaseFence continues the
\* lineage when it may; the upkeep, once it listens, lets the sidecar go and makes the
\* copy not current until it is restored.
Retake(c) ==
    LET p == proc[c] IN
    /\ c \in Serving /\ p.lost /\ TopLease < LastFence
    /\ p.sync.at = "none" \/ "retake_in_sync" \in Cases
    /\ p.upkeep \/ "retake_at_boot" \in Cases
    /\ leases' = Append(leases, c)
    /\ proc' = [proc EXCEPT ![c].lease = TopLease + 1, ![c].lost = FALSE,
                            ![c].phase = IF p.upkeep THEN "restore" ELSE @]
    /\ disk' = IF Continues(disk[c], TopLease + 1)
               THEN [disk EXCEPT ![c].lineage.last = TopLease + 1]
               ELSE disk
    /\ UNCHANGED <<registry, acked, made, failures>>

\* ensureV3CopyCurrent under the lease.  The upkeep waits while its lease is lost.
RestoreForWrite(c) ==
    /\ proc[c].phase = "restore"
    /\ proc[c].upkeep => ~proc[c].lost
    /\ disk' = [disk EXCEPT ![c] = MadeCurrent(@)]
    /\ proc' = [proc EXCEPT ![c].phase = "lineage",
                            ![c].restored = @ \/ ~CopyIsCurrent(disk[c])]
    /\ UNCHANGED <<leases, registry, acked, made, failures>>

\* prepareV3WriterLineage: the lineage this hold began is kept, one nobody wrote past is
\* continued unless this process restored the copy, else one starts at the fence.  Below
\* a newer start nothing begins: a first hold ends, the upkeep restores again.
PrepareLineage(c) ==
    LET p == proc[c]
        d == disk[c]
        ready == [p EXCEPT !.phase = "write", !.restored = FALSE]
    IN
    /\ p.phase = "lineage"
    /\ \/ /\ d.lineage = [fence |-> p.lease, last |-> p.lease]
          /\ proc' = [proc EXCEPT ![c] = ready]
          /\ UNCHANGED <<disk, started>>
       \/ /\ d.lineage.fence # p.lease
          /\ ~p.restored /\ Continues(d, p.lease)
          /\ proc' = [proc EXCEPT ![c] = ready]
          /\ disk' = [disk EXCEPT ![c].lineage.last = p.lease]
          /\ UNCHANGED started
       \/ /\ d.lineage.fence # p.lease
          /\ p.restored \/ ~Continues(d, p.lease)
          /\ IF NewestStarted > p.lease
             THEN /\ proc' = [proc EXCEPT ![c] = IF p.upkeep
                                                 THEN [p EXCEPT !.phase = "restore"]
                                                 ELSE Ended]
                  /\ UNCHANGED <<disk, started>>
             ELSE /\ started' = started \cup {p.lease}
                  /\ disk' = [disk EXCEPT ![c].lineage = [fence |-> p.lease,
                                                          last |-> p.lease]]
                  /\ proc' = [proc EXCEPT ![c] = ready]
    /\ UNCHANGED <<leases, confirmed, heads, shipped, acked, made, failures>>

\* startV3ReplicationUpkeep, once serve has booted or been promoted.
StartUpkeep(c) ==
    /\ c \in Serving
    /\ proc[c].phase = "write" /\ ~proc[c].upkeep
    /\ proc' = [proc EXCEPT ![c].upkeep = TRUE]
    /\ UNCHANGED <<leases, disk, registry, acked, made, failures>>

\* The process ends: it releases the lease or dies.
End(c) ==
    /\ proc[c] # Ended
    /\ proc' = [proc EXCEPT ![c] = Ended]
    /\ UNCHANGED <<leases, disk, registry, acked, made, failures>>

\* A reading command, or a follower, makes its copy current without the lease.
Refresh(c) ==
    /\ proc[c].lease = 0
    /\ ~CopyIsCurrent(disk[c])
    /\ disk' = [disk EXCEPT ![c] = MadeCurrent(@)]
    /\ proc' = [proc EXCEPT ![c].restored = TRUE]
    /\ UNCHANGED <<leases, registry, acked, made, failures>>

-----------------------------------------------------------------------------
(* Commits and syncs *)

\* assertWriterCurrent: not on a hold known to be lost, nor on a copy not made current.
Commit(c) ==
    LET p == proc[c] IN
    /\ p.phase = "write" \/ (p.phase = "lineage" /\ p.upkeep)
    /\ ~p.lost
    /\ made < LastCommit /\ Len(disk[c].log) < LastCommit
    /\ made' = made + 1
    /\ disk' = [disk EXCEPT ![c].log = Append(@, made + 1)]
    /\ UNCHANGED <<leases, proc, registry, acked, failures>>

\* syncAndPublishNow reads the mark, and asks the sidecar to sync.
SyncStart(c) ==
    LET log == disk[c].log IN
    /\ proc[c].phase = "write" /\ proc[c].sync.at = "none"
    /\ Mark(log) # proc[c].mark
    /\ proc' = [proc EXCEPT ![c].sync =
                  [NoSync EXCEPT !.at = "ship", !.lineage = disk[c].lineage.fence,
                                 !.writer = proc[c].lease,
                                 !.log = SubSeq(log, 1, Mark(log))]]
    /\ UNCHANGED <<leases, disk, registry, acked, made, failures>>

\* Litestream ships what the copy holds now.  Its txid counts the files it wrote: a sync
\* with nothing to ship answers no_change, with the txid before.
Ship(c) ==
    LET s == proc[c].sync
        was == shipped[s.lineage]
        same == "no_change" \in Cases /\ was.txid # 0 /\ was.log = disk[c].log
        txid == IF same THEN was.txid ELSE was.txid + 1
    IN
    /\ s.at = "ship"
    /\ proc[c].phase = "write"
    /\ txid <= LastTxid
    /\ shipped' = [shipped EXCEPT ![s.lineage] = [txid |-> txid, log |-> disk[c].log]]
    /\ proc' = [proc EXCEPT ![c].sync.at = "head", ![c].sync.txid = txid]
    /\ UNCHANGED <<leases, disk, started, confirmed, heads, acked, made, failures>>

MutPublishHead(c) ==
    LET s == proc[c].sync IN
    /\ s.at = "head"
    /\ heads' = {h \in heads : <<h.lineage, h.writer>> # <<s.lineage, s.writer>>}
                  \cup {[lineage |-> s.lineage, writer |-> s.writer, txid |-> s.txid,
                         log |-> s.log, span |-> Len(shipped[s.lineage].log)]}
    /\ proc' = [proc EXCEPT ![c].sync.at = "confirm",
                            ![c].mark = Max({@, Len(s.log)})]
    /\ UNCHANGED <<leases, disk, started, confirmed, shipped, acked, made, failures>>

\* publishV3Head: the head first, under the key of its writer.
PublishHead(c) ==
    LET s == proc[c].sync IN
    /\ s.at = "head"
    /\ heads' = {h \in heads : <<h.lineage, h.writer>> # <<s.lineage, s.writer>>}
                  \cup {[lineage |-> s.lineage, writer |-> s.writer, txid |-> s.txid,
                         log |-> s.log, span |-> Len(shipped[s.lineage].log)]}
    /\ proc' = [proc EXCEPT ![c].sync.at = "confirm"]
    /\ UNCHANGED <<leases, disk, started, confirmed, shipped, acked, made, failures>>

\* Then the first confirmation of the lineage.
ConfirmLineage(c) ==
    LET s == proc[c].sync IN
    /\ s.at = "confirm"
    /\ confirmed' = confirmed \cup {s.lineage}
    /\ proc' = [proc EXCEPT ![c].sync.at = "copy",
                            ![c].sync.first = s.lineage \notin confirmed]
    /\ UNCHANGED <<leases, disk, started, heads, shipped, acked, made, failures>>

\* copyStateAdvances: never backwards.
CopyAdvances(held, next) ==
    \/ next.lineage > held.lineage
    \/ next.lineage = held.lineage /\ next.txid > held.txid

\* Then the copy's own record of what it holds.
RecordCopy(c) ==
    LET s == proc[c].sync
        next == [lineage |-> s.lineage, txid |-> s.txid]
    IN
    /\ s.at = "copy"
    /\ disk' = [disk EXCEPT ![c].copy = IF CopyAdvances(@, next) THEN next ELSE @]
    /\ proc' = [proc EXCEPT ![c].sync.at = "check"]
    /\ UNCHANGED <<leases, registry, acked, made, failures>>

MutCheckLease(c) ==
    LET p == proc[c] IN
    /\ p.sync.at = "check"
    /\ acked' = acked \cup Kept(p.sync.log)
    /\ proc' = [proc EXCEPT ![c].mark = Max({@, Len(p.sync.log)}),
                            ![c].sync = IF p.sync.first
                                        THEN [@ EXCEPT !.at = "collect"]
                                        ELSE NoSync]
    /\ UNCHANGED <<leases, disk, registry, made, failures>>

\* checkV3WriterLease asks the hold the process has now; then the sync reports its mark,
\* which group commit acknowledges to every request at or below it.
CheckLease(c) ==
    LET p == proc[c] IN
    /\ p.sync.at = "check"
    /\ IF p.lease = TopLease
       THEN /\ acked' = acked \cup Kept(p.sync.log)
            /\ proc' = [proc EXCEPT ![c].mark = Max({@, Len(p.sync.log)}),
                                    ![c].sync = IF p.sync.first
                                                THEN [@ EXCEPT !.at = "collect"]
                                                ELSE NoSync]
       ELSE /\ proc' = [proc EXCEPT ![c].lost = TRUE, ![c].sync = NoSync]
            /\ UNCHANGED acked
    /\ UNCHANGED <<leases, disk, registry, made, failures>>

\* collectV3Lineages: the lineages below one just confirmed, while it is the current one.
CollectLineages(c) ==
    LET l == proc[c].sync.lineage IN
    /\ proc[c].sync.at = "collect"
    /\ IF CurrentLineage = l
       THEN /\ started' = {k \in started : k >= l}
            /\ confirmed' = {k \in confirmed : k >= l}
            /\ heads' = {h \in heads : h.lineage >= l}
       ELSE UNCHANGED <<started, confirmed, heads>>
    /\ proc' = [proc EXCEPT ![c].sync = NoSync]
    /\ UNCHANGED <<leases, disk, shipped, acked, made, failures>>

\* A sync that runs out of time, or whose storage fails, acknowledges nothing.
SyncFails(c) ==
    /\ proc[c].sync.at # "none"
    /\ failures < LastFailure
    /\ failures' = failures + 1
    /\ proc' = [proc EXCEPT ![c].sync = NoSync]
    /\ UNCHANGED <<leases, disk, registry, acked, made>>

\* confirmV3Replicated answers a request whose commits a published head covers at once.
ConfirmAtOnce(c) ==
    /\ proc[c].lease # 0
    /\ Mark(disk[c].log) <= proc[c].mark
    /\ acked' = acked \cup Kept(disk[c].log)
    /\ UNCHANGED <<leases, proc, disk, registry, made, failures>>

ReplNext ==
    \E c \in Checkout :
        \/ TakeLease(c) \/ FindLost(c) \/ Retake(c) \/ RestoreForWrite(c)
        \/ PrepareLineage(c) \/ StartUpkeep(c) \/ End(c) \/ Refresh(c)
        \/ Commit(c) \/ SyncStart(c) \/ Ship(c) \/ PublishHead(c) \/ ConfirmLineage(c)
        \/ RecordCopy(c) \/ CheckLease(c) \/ CollectLineages(c) \/ SyncFails(c)
        \/ ConfirmAtOnce(c)

ReplSpec == ReplInit /\ [][ReplNext]_replVars

-----------------------------------------------------------------------------
(* Properties *)

\* The state of the processes, their files and the registry has its shape, and a process
\* with a sidecar has a lineage the registry knows or a newer one replaced.
ReplTypeOK ==
    /\ leases \in Seq(Checkout) /\ TopLease <= LastFence
    /\ started \subseteq Lineage /\ confirmed \subseteq Lineage
    /\ acked \subseteq 1 .. made /\ made \in 0 .. LastCommit
    /\ failures \in 0 .. LastFailure
    /\ \A h \in heads : /\ h.lineage \in Lineage /\ h.writer \in h.lineage .. LastFence
                        /\ h.txid \in 1 .. LastTxid
                        /\ IsCommitLog(h.log) /\ h.span \in Len(h.log) .. LastCommit
    /\ \A c \in Checkout :
        /\ IsCommitLog(disk[c].log)
        /\ disk[c].lineage.last >= disk[c].lineage.fence
        /\ proc[c].lease \in 0 .. TopLease /\ (proc[c].lease # 0 => leases[proc[c].lease] = c)
        /\ (proc[c].phase = "none") <=> (proc[c].lease = 0)
        /\ proc[c].sync.at # "none" => proc[c].lease # 0
        /\ proc[c].phase = "write" =>
              \/ disk[c].lineage.fence \in started
              \/ disk[c].lineage.fence < NewestStarted

\* Every acknowledged commit is in the copy of the process that holds the newest lease
\* once that copy was made current, and under the head every later restore reads: a
\* takeover, whenever it comes, loses none (publishV3Head before the lease check, the
\* lease before the restore, decideLocalCopy).
AckedSurvives ==
    /\ \A c \in Checkout :
         proc[c].lease = TopLease /\ proc[c].phase \in {"lineage", "write"}
            => acked \subseteq Kept(disk[c].log)
    /\ Complete # {} => acked \subseteq Kept(CurrentHead.log)

\* What a leader feeds its followers while it believes it holds the lease, the commits at
\* or below the mark it published, is acknowledged, even after it lost the lease, took it
\* again and replaced its copy in place: publishedMarks is never reset.
FeedBoundIsAcked ==
    \A c \in Checkout :
        proc[c].lease # 0 /\ ~proc[c].lost
            => Kept(SubSeq(disk[c].log, 1, Min({Len(disk[c].log), proc[c].mark}))) \subseteq acked

\* The log that a restore reads: nothing before a lineage is confirmed.
PublishedLog == IF Complete = {} THEN <<>> ELSE CurrentHead.log

DL == INSTANCE DurableLog WITH published <- PublishedLog

\* Whoever holds the lease, restores, publishes, confirms or collects, the checkouts keep
\* one durable log among them: what is acknowledged was published, and no log published
\* later differs from it at or below an acknowledged commit (publishV3Head,
\* currentLineage, checkV3WriterLease, restoreV3Copy).
ImplementsDurableLog == DL!Spec

=============================================================================
