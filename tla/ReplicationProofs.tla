-------------------------- MODULE ReplicationProofs --------------------------
(* Proofs about Replication, for any checkouts and any bounds, when Cases is empty: a    *)
(* sync ships something whenever it is asked to, and serve takes a lost lease again only *)
(* once its upkeep listens for that and between two syncs.  With any of the three cases  *)
(* of Replication AckedSurvives does not hold.                                           *)
(*                                                                                       *)
(* The argument.  A fence belongs to one checkout, so a lineage has one owner and only   *)
(* its owner writes heads of it, each an extension of the last.  Whoever acknowledges    *)
(* has the newest lease after its head was written and its lineage confirmed: its        *)
(* lineage is the current one and its head the one every later restore reads.  A copy    *)
(* that may lack what it acknowledged is of a lower lease, whose sync will fail its own  *)
(* check and whose lineage can no longer become current.                                 *)
EXTENDS Replication, TLAPS, WellFoundedInduction, SequenceTheorems

-----------------------------------------------------------------------------
(* The inductive invariant *)

\* The log x is the beginning of the log y.
Prefix(x, y) == Len(x) <= Len(y) /\ \A i \in 1 .. Len(x) : x[i] = y[i]

\* A log that ends with a commit, as what lies under a mark does.
EndsFull(x) == Len(x) # 0 => x[Len(x)] # 0

\* The parts of a checkout's lineage file that the process's lease bears on.
LeaseOK(c) ==
    LET p == proc[c]
        f == disk[c].lineage
    IN
    /\ p.lease <= TopLease
    /\ p.lease # 0 => leases[p.lease] = c /\ f.last <= p.lease
    /\ (p.phase = "none") <=> (p.lease = 0)
    /\ p.lease = 0 => p.mark = 0
    /\ f.fence <= f.last /\ f.last <= TopLease
    /\ \A k \in 1 .. LastFence : f.fence <= k /\ k <= f.last => leases[k] = c
    /\ p.phase \in {"restore", "lineage"} => f.fence < p.lease
    /\ p.phase = "write" => f.last = p.lease /\ f.fence # 0
    /\ p.sync.at # "none" =>
          p.phase = "write" /\ p.sync.lineage = f.fence /\ p.sync.writer = p.lease

\* The lineage file of the checkout that took the fence l.
Owner(l) == disk[leases[l]].lineage

\* The registry: a record names a fence that was taken, and a lineage its owner has not moved
\* behind; no head of the owner's present lineage is of a writer past the last fence noted
\* for it, and a lineage has one head per writer.
RegOK ==
    /\ \A l \in started \cup confirmed : l <= TopLease /\ l <= Owner(l).fence
    /\ \A h \in heads :
          /\ h.lineage <= h.writer /\ h.writer <= TopLease
          /\ h.lineage <= Owner(h.lineage).fence
          /\ h.lineage = Owner(h.lineage).fence => h.writer <= Owner(h.lineage).last
    /\ \A g, h \in heads : g.lineage = h.lineage /\ g.writer = h.writer => g = h

\* The head that a sync published.
SyncHead(s, h) == h.lineage = s.lineage /\ h.writer = s.writer /\ h.log = s.log

\* A lineage that was replaced is below the current one; until then its record, and the head
\* of the sync under way, are in the registry.
KnownOK(c) ==
    LET s == proc[c].sync
        f == disk[c].lineage.fence
    IN
    /\ f # 0 => f \in started \/ CurrentLineage > f
    /\ s.at \in {"copy", "check", "collect"} => CurrentLineage >= s.lineage
    /\ s.at \in {"confirm", "copy", "check"} =>
          (\E h \in heads : SyncHead(s, h)) \/ CurrentLineage > s.lineage

\* The heads of one lineage extend one another in the order of their writers, and none names
\* a transaction id that was not shipped.
HeadsOK ==
    /\ \A g, h \in heads :
          g.lineage = h.lineage /\ g.writer <= h.writer => Prefix(g.log, h.log)
    /\ \A h \in heads : /\ EndsFull(h.log) /\ Len(h.log) <= h.span
                        /\ h.txid <= shipped[h.lineage].txid

\* A copy has the heads of its recorded lineage up to its recorded transaction id, and while
\* it is written to, or its lineage is the newest, every head of its own lineage.
CopyOK(c) ==
    LET d == disk[c] IN
    /\ \A h \in heads : h.lineage = d.copy.lineage /\ h.txid <= d.copy.txid
                            => Prefix(h.log, d.log)
    /\ d.copy.lineage # 0 => d.copy.txid <= shipped[d.copy.lineage].txid
    /\ d.lineage.fence = NewestStarted \/ proc[c].phase = "write" =>
          \A h \in heads : h.lineage = d.lineage.fence => Prefix(h.log, d.log)

\* A sync publishes a part of its copy that has every head of its lineage; before the head is
\* written nothing names its transaction id.
SyncOK(c) ==
    LET s == proc[c].sync IN
    /\ s.at # "none" => /\ Prefix(s.log, disk[c].log) /\ EndsFull(s.log)
                        /\ \A h \in heads : h.lineage = s.lineage => Prefix(h.log, s.log)
                        /\ s.txid <= shipped[s.lineage].txid
    /\ s.at = "head" =>
          /\ s.txid = shipped[s.lineage].txid /\ s.txid # 0
          /\ Len(s.log) <= Len(shipped[s.lineage].log)
          /\ \A h \in heads : h.lineage = s.lineage => h.txid < s.txid
          /\ \A e \in Checkout : disk[e].copy.lineage = s.lineage
                                    => disk[e].copy.txid < s.txid

\* The mark m is the cursor of a commit of y, and what lies under it is in A or was removed.
MarkIn(m, y, A) ==
    /\ m <= Len(y) /\ (m # 0 => y[m] # 0)
    /\ \A i \in 1 .. m : y[i] \in A \cup {0}

\* The log y has every acknowledged commit, and every mark reported to a group commit.
HoldsAll(y) ==
    /\ acked \subseteq Kept(y)
    /\ \A e \in Checkout : MarkIn(proc[e].mark, y, acked)

\* The head that a restore reads holds them.
PublishedOK ==
    /\ Complete # {} => HoldsAll(CurrentHead.log)
    /\ Complete = {} => acked = {} /\ \A e \in Checkout : proc[e].mark = 0

\* So does a copy made current under its lease and what its sync publishes, unless a lineage
\* above the lease was confirmed since; and the copy of an unconfirmed lineage.  What lies
\* under the mark of a process is acknowledged.
AckOK(c) ==
    LET p == proc[c]
        d == disk[c]
    IN
    /\ p.phase \in {"lineage", "write"} => HoldsAll(d.log) \/ CurrentLineage > p.lease
    /\ p.sync.at # "none" => HoldsAll(p.sync.log) \/ CurrentLineage > p.lease
    /\ d.lineage.fence # 0 => HoldsAll(d.log) \/ CurrentLineage >= d.lineage.fence
    /\ p.mark <= Len(d.log) /\ \A i \in 1 .. p.mark : d.log[i] \in acked \cup {0}

\* The commits of a log were made.
UpTo(x) == \A i \in 1 .. Len(x) : x[i] <= made

\* So were those acknowledged, in a copy, in a sync and under a head.
ValuesOK ==
    /\ \A i \in acked : i <= made
    /\ \A c \in Checkout : UpTo(disk[c].log) /\ UpTo(proc[c].sync.log)
    /\ \A h \in heads : UpTo(h.log)

\* The inductive invariant, besides the types below.
IInv ==
    /\ RegOK /\ HeadsOK /\ PublishedOK /\ ValuesOK
    /\ \A c \in Checkout : LeaseOK(c) /\ KnownOK(c) /\ CopyOK(c) /\ SyncOK(c) /\ AckOK(c)

-----------------------------------------------------------------------------
(* Types *)

\* The commit logs, as IsCommitLog has them.
Logs == {l \in Seq(0 .. LastCommit) : Len(l) <= LastCommit}

\* Where a sync is.
At == {"none", "ship", "head", "confirm", "copy", "check", "collect"}

\* A sync, a process, the files of a checkout and a head record.
SyncType == [at : At, lineage : 0 .. LastFence, writer : 0 .. LastFence, log : Logs,
             txid : 0 .. LastTxid, first : BOOLEAN]

ProcType == [lease : 0 .. LastFence, lost : BOOLEAN,
             phase : {"none", "restore", "lineage", "write"}, upkeep : BOOLEAN,
             restored : BOOLEAN, mark : 0 .. LastCommit, sync : SyncType]

DiskType == [log : Logs, lineage : [fence : 0 .. LastFence, last : 0 .. LastFence],
             copy : [lineage : 0 .. LastFence, txid : 0 .. LastTxid]]

HeadType == [lineage : Lineage, writer : Lineage, txid : 1 .. LastTxid, log : Logs,
             span : 0 .. LastCommit]

\* The types of the variables, a part for each that a step may leave alone.
TLease == leases \in Seq(Checkout) /\ TopLease <= LastFence
TProc == proc \in [Checkout -> ProcType]
TDisk == disk \in [Checkout -> DiskType]
THeads == heads \subseteq HeadType
TReg == started \subseteq Lineage /\ confirmed \subseteq Lineage
TShip == shipped \in [Lineage -> [txid : 0 .. LastTxid, log : Logs]]
TCount == /\ acked \subseteq 1 .. LastCommit
          /\ made \in 0 .. LastCommit /\ failures \in 0 .. LastFailure

Types == TLease /\ TProc /\ TDisk /\ THeads /\ TReg /\ TShip /\ TCount

-----------------------------------------------------------------------------
(* Logs, marks and the published lineages *)

\* A bounded set of naturals that is not empty has a largest member, and Max is it.
LEMMA MaxIs ==
    ASSUME NEW N \in Nat, NEW S \in SUBSET (0 .. N), S # {}
    PROVE  Max(S) \in S /\ \A y \in S : y <= Max(S)
<1> DEFINE R == OpToRel(<, Nat)
           T == {n \in Nat : N - n \in S}
<1>1. PICK a \in S : TRUE
  OBVIOUS
<1>2. N - a \in T
  BY <1>1
<1>3. IsWellFoundedOn(R, Nat)
  BY NatLessThanWellFounded
<1>4. T \subseteq Nat /\ T # {}
  BY <1>2
<1>5. PICK x \in T : \A y \in T : ~ (<<y, x>> \in R)
  <2> HIDE DEF R, T
  <2> QED BY <1>3, <1>4, WFMin
<1>6. \A y \in T : ~ (y < x)
  BY <1>5, <1>4 DEF OpToRel
<1>7. N - x \in S /\ \A y \in S : N - x >= y
  <2>1. \A y \in S : N - y \in T
    OBVIOUS
  <2>2. \A y \in S : ~ (N - y < x)
    BY <2>1, <1>6
  <2> QED BY <2>2
<1> QED BY <1>7 DEF Max

\* The length, the cursors and the commits of a log.
LEMMA LogIs ==
    ASSUME NEW x \in Logs
    PROVE  /\ Len(x) \in 0 .. LastCommit /\ DOMAIN x = 1 .. Len(x)
           /\ \A i \in 1 .. Len(x) : x[i] \in 0 .. LastCommit
<1>1. x \in Seq(0 .. LastCommit) /\ Len(x) <= LastCommit
  BY DEF Logs
<1>2. Len(x) \in Nat /\ DOMAIN x = 1 .. Len(x)
  BY <1>1, LenProperties
<1>3. \A i \in 1 .. Len(x) : x[i] \in 0 .. LastCommit
  BY <1>1, ElementOfSeq
<1> QED BY <1>1, <1>2, <1>3, ReplAssumption

\* The mark of a log is 0 or the cursor of a commit, and no commit lies past it.
LEMMA MarkIs ==
    ASSUME NEW x \in Logs
    PROVE  /\ Mark(x) \in 0 .. Len(x)
           /\ Mark(x) # 0 => x[Mark(x)] # 0
           /\ \A i \in 1 .. Len(x) : x[i] # 0 => i <= Mark(x)
<1> DEFINE S == {0} \cup {i \in DOMAIN x : x[i] # 0}
<1>1. Len(x) \in Nat /\ DOMAIN x = 1 .. Len(x)
  BY ReplAssumption DEF Logs
<1>2. S \in SUBSET (0 .. Len(x)) /\ S # {}
  BY <1>1
<1>3. Max(S) \in S /\ \A y \in S : y <= Max(S)
  <2> HIDE DEF S
  <2> QED BY <1>1, <1>2, MaxIs
<1> QED BY <1>1, <1>3 DEF Mark

\* What a sync puts under its mark: a prefix of the log that ends with a commit and has
\* every commit of it.
LEMMA UnderMark ==
    ASSUME NEW x \in Logs, NEW y, y = SubSeq(x, 1, Mark(x))
    PROVE  /\ y \in Logs /\ Len(y) = Mark(x)
           /\ Prefix(y, x) /\ EndsFull(y)
           /\ Kept(y) = Kept(x)
<1>1. /\ Mark(x) \in 0 .. Len(x)
      /\ Mark(x) # 0 => x[Mark(x)] # 0
      /\ \A i \in 1 .. Len(x) : x[i] # 0 => i <= Mark(x)
  BY MarkIs
<1>2. x \in Seq(0 .. LastCommit) /\ Len(x) <= LastCommit /\ Len(x) \in Nat
      /\ DOMAIN x = 1 .. Len(x)
  BY ReplAssumption DEF Logs
<1>3. /\ y \in Seq(0 .. LastCommit) /\ Len(y) = Mark(x)
      /\ \A i \in 1 .. Mark(x) : y[i] = x[i]
  <2>1. Mark(x) \in Int /\ \A i \in 1 .. Mark(x) : x[i] \in 0 .. LastCommit
    <3>1. \A i \in 1 .. Len(x) : x[i] \in 0 .. LastCommit
      BY <1>2, ElementOfSeq
    <3> QED BY <1>1, <1>2, <3>1
  <2>2. /\ y \in Seq(0 .. LastCommit)
        /\ Len(y) = IF 1 <= Mark(x) THEN Mark(x) - 1 + 1 ELSE 0
        /\ \A i \in 1 .. Mark(x) - 1 + 1 : y[i] = x[1 + i - 1]
    BY <2>1, SubSeqProperties
  <2>3. \A i \in 1 .. Mark(x) : 1 + i - 1 = i
    BY <1>1
  <2> QED BY <1>1, <1>2, <2>2, <2>3
<1>4. DOMAIN y = 1 .. Mark(x)
  BY <1>3
<1>5. y \in Logs
  BY ReplAssumption, <1>1, <1>2, <1>3 DEF Logs
<1>6. Prefix(y, x) /\ EndsFull(y)
  BY <1>1, <1>2, <1>3 DEF Prefix, EndsFull
<1>7. \A v : v \in Kept(y) <=> v \in Kept(x)
  <2> TAKE v
  <2>1. v \in Kept(y) <=> v # 0 /\ \E i \in 1 .. Mark(x) : y[i] = v
    BY <1>4 DEF Kept
  <2>2. v \in Kept(x) <=> v # 0 /\ \E i \in 1 .. Len(x) : x[i] = v
    BY <1>2 DEF Kept
  <2> QED BY <1>1, <1>2, <1>3, <2>1, <2>2
<1>8. Kept(y) = Kept(x)
  BY <1>7
<1> QED BY <1>3, <1>5, <1>6, <1>8

\* A log is a prefix of itself, prefixes are transitive, and two prefixes of one log with
\* the shorter one first are nested.
LEMMA PrefixLaws ==
    ASSUME NEW x \in Logs, NEW y \in Logs, NEW z \in Logs
    PROVE  /\ Prefix(x, x)
           /\ Prefix(x, y) /\ Prefix(y, z) => Prefix(x, z)
           /\ Prefix(x, z) /\ Prefix(y, z) /\ Len(x) <= Len(y) => Prefix(x, y)
  BY DEF Prefix, Logs

\* A log with a commit appended has the log as a prefix.
LEMMA AppendIs ==
    ASSUME NEW x \in Logs, Len(x) < LastCommit, NEW n \in 1 .. LastCommit,
           NEW y, y = Append(x, n)
    PROVE  /\ y \in Logs /\ Len(y) = Len(x) + 1 /\ y[Len(x) + 1] = n
           /\ Prefix(x, y)
  BY ReplAssumption DEF Logs, Prefix

\* What a restore installs: the log of the head, followed by removed commits.
LEMMA RestoredIs ==
    ASSUME NEW h \in HeadType, Len(h.log) <= h.span
    PROVE  /\ Restored(h) \in Logs /\ Len(Restored(h)) = h.span
           /\ Prefix(h.log, Restored(h))
           /\ \A i \in 1 .. h.span : i > Len(h.log) => Restored(h)[i] = 0
<1>1. /\ h.log \in Seq(0 .. LastCommit) /\ Len(h.log) \in Nat
      /\ h.span \in Nat /\ h.span <= LastCommit
  BY ReplAssumption DEF HeadType, Logs
<1> DEFINE t == [i \in 1 .. h.span - Len(h.log) |-> 0]
<1>2. h.span - Len(h.log) \in Nat /\ 0 \in 0 .. LastCommit
  BY <1>1, ReplAssumption
<1>3. t \in Seq(0 .. LastCommit) /\ Len(t) = h.span - Len(h.log)
  <2>1. t \in [1 .. h.span - Len(h.log) -> 0 .. LastCommit]
    BY <1>2
  <2>2. t \in Seq(0 .. LastCommit)
    <3>1. \A n \in Nat : \A u \in [1 .. n -> 0 .. LastCommit] : u \in Seq(0 .. LastCommit)
      BY SeqDef
    <3> HIDE DEF t
    <3> QED BY <1>2, <2>1, <3>1
  <2>3. DOMAIN t = 1 .. h.span - Len(h.log) /\ DOMAIN t = 1 .. Len(t) /\ Len(t) \in Nat
    BY <2>1, <2>2, LenProperties
  <2> QED BY <1>2, <2>2, <2>3
<1>4. /\ h.log \o t \in Seq(0 .. LastCommit)
      /\ Len(h.log \o t) = Len(h.log) + Len(t)
      /\ \A i \in 1 .. Len(h.log) + Len(t) :
            (h.log \o t)[i] = IF i <= Len(h.log) THEN h.log[i] ELSE t[i - Len(h.log)]
  <2> HIDE DEF t
  <2> QED BY <1>1, <1>3, ConcatProperties
<1>5. \A i \in 1 .. h.span : i > Len(h.log) => t[i - Len(h.log)] = 0
  BY <1>1
<1>6. Restored(h) = h.log \o t
  BY DEF Restored
<1> HIDE DEF t
<1> QED BY <1>1, <1>3, <1>4, <1>5, <1>6 DEF Prefix, Logs

\* A prefix that ends with a commit lies under the mark.
LEMMA PrefixUnderMark ==
    ASSUME NEW x \in Logs, NEW g \in Logs, NEW y, y = SubSeq(x, 1, Mark(x)),
           Prefix(g, x), EndsFull(g)
    PROVE  Prefix(g, y)
<1>1. y \in Logs /\ Len(y) = Mark(x) /\ Prefix(y, x)
  BY UnderMark
<1>2. \A i \in 1 .. Len(x) : x[i] # 0 => i <= Mark(x)
  BY MarkIs
<1>3. Len(g) <= Mark(x)
  <2>1. CASE Len(g) = 0
    BY <2>1, <1>1, MarkIs
  <2>2. CASE Len(g) # 0
    <3>1. Len(g) \in 1 .. Len(x) /\ g[Len(g)] = x[Len(g)]
      BY <2>2 DEF Prefix, Logs
    <3> QED BY <2>2, <3>1, <1>2 DEF EndsFull
  <2> QED BY <2>1, <2>2
<1>4. Len(g) <= Len(y)
  BY <1>1, <1>3
<1> QED BY <1>1, <1>4, PrefixLaws

\* The newest started and the current lineage are 0 or the largest of the set they are
\* taken from.
LineageFacts ==
    /\ NewestStarted \in 0 .. LastFence
    /\ NewestStarted # 0 => NewestStarted \in started
    /\ \A l \in started : l <= NewestStarted
    /\ CurrentLineage \in 0 .. LastFence
    /\ CurrentLineage # 0 => CurrentLineage \in Complete
    /\ \A l \in Complete : l <= CurrentLineage
    /\ CurrentLineage <= NewestStarted
    /\ Complete = {} <=> CurrentLineage = 0

\* The head a read of the registry takes is one of the current lineage, and no head of
\* that lineage has a higher writer.
HeadFacts ==
    Complete # {} =>
        /\ CurrentHead \in heads /\ CurrentHead.lineage = CurrentLineage
        /\ \A g \in heads : g.lineage = CurrentLineage => g.writer <= CurrentHead.writer

\* The lineages read from the records are well defined.
LEMMA LineageIs == TReg => LineageFacts
<1> SUFFICES ASSUME TReg PROVE LineageFacts
  OBVIOUS
<1>1. LastFence \in Nat /\ started \subseteq 1 .. LastFence
  BY ReplAssumption DEF TReg, Lineage
<1>2. Complete \subseteq started
  BY DEF Complete
<1> DEFINE S == started \cup {0}
           C == Complete \cup {0}
<1>3. S \in SUBSET (0 .. LastFence) /\ S # {} /\ C \in SUBSET (0 .. LastFence) /\ C # {}
  BY <1>1, <1>2
<1>4. /\ Max(S) \in S /\ \A y \in S : y <= Max(S)
      /\ Max(C) \in C /\ \A y \in C : y <= Max(C)
  <2> HIDE DEF S, C
  <2> QED BY <1>1, <1>3, MaxIs
<1>5. NewestStarted = Max(S) /\ CurrentLineage = Max(C)
  BY DEF NewestStarted, CurrentLineage
<1>6. \A l \in Complete : l # 0
  BY <1>1, <1>2
<1> HIDE DEF S, C
<1>7. /\ NewestStarted \in S /\ \A y \in S : y <= NewestStarted
      /\ CurrentLineage \in C /\ \A y \in C : y <= CurrentLineage
  BY <1>4, <1>5
<1> USE DEF S, C
<1>8. /\ NewestStarted \in 0 .. LastFence /\ CurrentLineage \in 0 .. LastFence
      /\ NewestStarted # 0 => NewestStarted \in started
      /\ CurrentLineage # 0 => CurrentLineage \in Complete
  BY <1>3, <1>7
<1>9. (\A l \in started : l <= NewestStarted) /\ (\A l \in Complete : l <= CurrentLineage)
  BY <1>7
<1>10. CurrentLineage <= NewestStarted
  BY <1>2, <1>7
<1>11. Complete = {} <=> CurrentLineage = 0
  <2>1. Complete = {} => CurrentLineage = 0
    BY <1>7
  <2>2. CurrentLineage = 0 => Complete = {}
    BY <1>1, <1>2, <1>9
  <2> QED BY <2>1, <2>2
<1> HIDE DEF S, C
<1> QED BY <1>8, <1>9, <1>10, <1>11 DEF LineageFacts

\* The head read from them is well defined.
LEMMA HeadIs == TReg /\ THeads => HeadFacts
<1> SUFFICES ASSUME TReg, THeads, Complete # {}
             PROVE  /\ CurrentHead \in heads /\ CurrentHead.lineage = CurrentLineage
                    /\ \A g \in heads : g.lineage = CurrentLineage
                                          => g.writer <= CurrentHead.writer
  BY DEF HeadFacts
<1>1. CurrentLineage \in Complete
  BY LineageIs DEF LineageFacts
<1>2. PICK a \in heads : a.lineage = CurrentLineage
  BY <1>1 DEF Complete
<1> DEFINE W == {w \in 0 .. LastFence :
                   \E h \in heads : h.lineage = CurrentLineage /\ h.writer = w}
<1>3. \A h \in heads : h.writer \in 0 .. LastFence
  BY ReplAssumption DEF THeads, HeadType, Lineage
<1>4. LastFence \in Nat /\ W \in SUBSET (0 .. LastFence) /\ W # {}
  BY ReplAssumption, <1>2, <1>3
<1>5. Max(W) \in W /\ \A w \in W : w <= Max(W)
  <2> HIDE DEF W
  <2> QED BY <1>4, MaxIs
<1>6. PICK h \in heads : h.lineage = CurrentLineage /\ h.writer = Max(W)
  BY <1>5
<1>7. \A g \in heads : g.lineage = h.lineage => g.writer <= h.writer
  BY <1>3, <1>5, <1>6
<1> HIDE DEF W
<1>8. \E x \in heads : /\ x.lineage = CurrentLineage
                       /\ \A g \in heads : g.lineage = x.lineage => g.writer <= x.writer
  BY <1>6, <1>7
<1> QED BY <1>8 DEF CurrentHead

-----------------------------------------------------------------------------
(* What each action does, and that it keeps the types *)

\* The other checkouts keep their process and their files.
Others(c) == \A e \in Checkout : e # c => proc'[e] = proc[e] /\ disk'[e] = disk[e]

\* The process keeps its lease, its phase and its mark.
SameHold(c) ==
    /\ proc'[c].lease = proc[c].lease /\ proc'[c].phase = proc[c].phase
    /\ proc'[c].mark = proc[c].mark

\* It keeps its sync.
SameSync(c) == proc'[c].sync = proc[c].sync

\* Nothing that the lineages or the acknowledgements rest on changes; a sync may end.
DoesQuiet(c) ==
    /\ Others(c) /\ disk'[c] = disk[c] /\ SameHold(c)
    /\ SameSync(c) \/ proc'[c].sync = NoSync
    /\ UNCHANGED <<leases, started, confirmed, heads, shipped, acked, made>>

\* The process is over.
DoesEnd(c) ==
    /\ Others(c) /\ disk'[c] = disk[c] /\ proc'[c] = Ended
    /\ UNCHANGED <<leases, started, confirmed, heads, shipped, acked, made>>

\* The process takes a fence, its first or another one; the lineage file may follow.
DoesTake(c) ==
    /\ Others(c) /\ TopLease < LastFence /\ leases' = Append(leases, c)
    /\ proc'[c].lease = TopLease + 1 /\ proc'[c].phase = "restore"
    /\ proc'[c].mark = proc[c].mark
    /\ proc[c].lease = 0 \/ proc[c].sync.at = "none"
    /\ SameSync(c)
    /\ disk'[c].log = disk[c].log /\ disk'[c].copy = disk[c].copy
    /\ disk'[c].lineage.fence = disk[c].lineage.fence
    /\ \/ disk'[c].lineage.last = disk[c].lineage.last
       \/ /\ disk'[c].lineage.last = TopLease + 1 /\ disk[c].lineage.fence # 0
          /\ TopLease + 1 \in {disk[c].lineage.last, disk[c].lineage.last + 1}
    /\ UNCHANGED <<started, confirmed, heads, shipped, acked, made>>

\* A copy is found current under the lease.
DoesKeepCopy(c) ==
    /\ Others(c) /\ disk'[c] = disk[c]
    /\ CopyIsCurrent(disk[c]) /\ proc[c].phase = "restore" /\ proc'[c].phase = "lineage"
    /\ proc'[c].lease = proc[c].lease /\ proc'[c].mark = proc[c].mark /\ SameSync(c)
    /\ UNCHANGED <<leases, started, confirmed, heads, shipped, acked, made>>

\* A copy is restored, under the lease or by a reader.
DoesRestore(c) ==
    /\ Others(c) /\ Complete # {} /\ ~CopyIsCurrent(disk[c])
    /\ disk'[c].log = Restored(CurrentHead)
    /\ disk'[c].copy = [lineage |-> CurrentLineage, txid |-> CurrentHead.txid]
    /\ disk'[c].lineage = disk[c].lineage
    /\ \/ proc[c].phase = "restore" /\ proc'[c].phase = "lineage"
       \/ proc[c].lease = 0 /\ proc'[c].phase = proc[c].phase
    /\ proc'[c].lease = proc[c].lease /\ proc'[c].mark = proc[c].mark /\ SameSync(c)
    /\ UNCHANGED <<leases, started, confirmed, heads, shipped, acked, made>>

\* The lineage of the copy is continued.
DoesContinue(c) ==
    /\ Others(c) /\ proc[c].phase = "lineage" /\ proc'[c].phase = "write"
    /\ disk[c].lineage.fence # 0 /\ disk[c].lineage.fence = NewestStarted
    /\ proc[c].lease \in {disk[c].lineage.last, disk[c].lineage.last + 1}
    /\ disk'[c].log = disk[c].log /\ disk'[c].copy = disk[c].copy
    /\ disk'[c].lineage.fence = disk[c].lineage.fence
    /\ disk'[c].lineage.last = proc[c].lease
    /\ proc'[c].lease = proc[c].lease /\ proc'[c].mark = proc[c].mark /\ SameSync(c)
    /\ UNCHANGED <<leases, started, confirmed, heads, shipped, acked, made>>

\* A lineage starts at the fence.
DoesStart(c) ==
    /\ Others(c) /\ proc[c].phase = "lineage" /\ proc'[c].phase = "write"
    /\ NewestStarted <= proc[c].lease
    /\ started' = started \cup {proc[c].lease}
    /\ disk'[c].log = disk[c].log /\ disk'[c].copy = disk[c].copy
    /\ disk'[c].lineage.fence = proc[c].lease /\ disk'[c].lineage.last = proc[c].lease
    /\ proc'[c].lease = proc[c].lease /\ proc'[c].mark = proc[c].mark /\ SameSync(c)
    /\ UNCHANGED <<leases, confirmed, heads, shipped, acked, made>>

\* The upkeep goes back to restoring.
DoesGoBack(c) ==
    /\ Others(c) /\ disk'[c] = disk[c]
    /\ proc[c].phase = "lineage" /\ proc'[c].phase = "restore"
    /\ proc'[c].lease = proc[c].lease /\ proc'[c].mark = proc[c].mark /\ SameSync(c)
    /\ UNCHANGED <<leases, started, confirmed, heads, shipped, acked, made>>

\* A commit is appended to the copy.
DoesCommit(c) ==
    /\ Others(c) /\ SameHold(c) /\ SameSync(c)
    /\ proc[c].phase \in {"lineage", "write"}
    /\ made < LastCommit /\ Len(disk[c].log) < LastCommit
    /\ made' = made + 1
    /\ disk'[c].log = Append(disk[c].log, made + 1)
    /\ disk'[c].lineage = disk[c].lineage /\ disk'[c].copy = disk[c].copy
    /\ UNCHANGED <<leases, started, confirmed, heads, shipped, acked>>

\* A sync takes what lies under the mark.
DoesSyncStart(c) ==
    /\ Others(c) /\ disk'[c] = disk[c] /\ SameHold(c)
    /\ proc[c].phase = "write"
    /\ proc'[c].sync.at = "ship" /\ proc'[c].sync.lineage = disk[c].lineage.fence
    /\ proc'[c].sync.writer = proc[c].lease
    /\ proc'[c].sync.log = SubSeq(disk[c].log, 1, Mark(disk[c].log))
    /\ proc'[c].sync.txid = 0
    /\ UNCHANGED <<leases, started, confirmed, heads, shipped, acked, made>>

\* The sync goes on to its next step with the log and the names it has.
SyncGoesOn(c, at) ==
    /\ proc'[c].sync.at = at /\ proc'[c].sync.lineage = proc[c].sync.lineage
    /\ proc'[c].sync.writer = proc[c].sync.writer /\ proc'[c].sync.log = proc[c].sync.log

\* The copy is shipped under the next transaction id.
DoesShip(c) ==
    LET l == proc[c].sync.lineage IN
    /\ Others(c) /\ disk'[c] = disk[c] /\ SameHold(c)
    /\ proc[c].sync.at = "ship" /\ SyncGoesOn(c, "head")
    /\ proc'[c].sync.txid = shipped[l].txid + 1
    /\ shipped'[l].txid = shipped[l].txid + 1 /\ shipped'[l].log = disk[c].log
    /\ \A k \in Lineage : k # l => shipped'[k] = shipped[k]
    /\ UNCHANGED <<leases, started, confirmed, heads, acked, made>>

\* The head record that a sync publishes.
HeadOf(s) ==
    [lineage |-> s.lineage, writer |-> s.writer, txid |-> s.txid, log |-> s.log,
     span |-> Len(shipped[s.lineage].log)]

\* The head of the sync replaces its writer's.
DoesPublish(c) ==
    LET s == proc[c].sync IN
    /\ Others(c) /\ disk'[c] = disk[c] /\ SameHold(c)
    /\ s.at = "head" /\ SyncGoesOn(c, "confirm") /\ proc'[c].sync.txid = s.txid
    /\ HeadOf(s) \in heads'
    /\ \A h \in heads' : h = HeadOf(s) \/ h \in heads
    /\ \A h \in heads' : h.lineage = s.lineage /\ h.writer = s.writer => h = HeadOf(s)
    /\ \A h \in heads : h \in heads' \/ (h.lineage = s.lineage /\ h.writer = s.writer)
    /\ UNCHANGED <<leases, started, confirmed, shipped, acked, made>>

\* The lineage of the sync is confirmed.
DoesConfirm(c) ==
    LET s == proc[c].sync IN
    /\ Others(c) /\ disk'[c] = disk[c] /\ SameHold(c)
    /\ s.at = "confirm" /\ SyncGoesOn(c, "copy") /\ proc'[c].sync.txid = s.txid
    /\ confirmed' = confirmed \cup {s.lineage}
    /\ UNCHANGED <<leases, started, heads, shipped, acked, made>>

\* The copy's own record advances to what was shipped, or stays.
DoesRecord(c) ==
    LET s == proc[c].sync IN
    /\ Others(c) /\ SameHold(c)
    /\ s.at = "copy" /\ SyncGoesOn(c, "check") /\ proc'[c].sync.txid = s.txid
    /\ disk'[c].log = disk[c].log /\ disk'[c].lineage = disk[c].lineage
    /\ \/ disk'[c].copy = disk[c].copy
       \/ disk'[c].copy.lineage = s.lineage /\ disk'[c].copy.txid = s.txid
    /\ UNCHANGED <<leases, started, confirmed, heads, shipped, acked, made>>

\* The holder of the newest lease acknowledges what its sync published.
DoesAck(c) ==
    LET p == proc[c] IN
    /\ Others(c) /\ disk'[c] = disk[c]
    /\ p.sync.at = "check" /\ p.lease = TopLease
    /\ acked' = acked \cup Kept(p.sync.log)
    /\ proc'[c].lease = p.lease /\ proc'[c].phase = p.phase
    /\ proc'[c].mark = Max({p.mark, Len(p.sync.log)})
    /\ \/ SyncGoesOn(c, "collect") /\ proc'[c].sync.txid = p.sync.txid
       \/ proc'[c].sync = NoSync
    /\ UNCHANGED <<leases, started, confirmed, heads, shipped, made>>

\* The lineages below the current one go.
DoesCollect(c) ==
    LET l == proc[c].sync.lineage IN
    /\ Others(c) /\ disk'[c] = disk[c] /\ SameHold(c)
    /\ proc[c].sync.at = "collect" /\ proc'[c].sync = NoSync
    /\ CurrentLineage = l
    /\ started' = {k \in started : k >= l}
    /\ confirmed' = {k \in confirmed : k >= l}
    /\ heads' = {h \in heads : h.lineage >= l}
    /\ UNCHANGED <<leases, shipped, acked, made>>

\* The processes and files of every checkout are of their types when those of the one
\* that acts are.
LEMMA TypesByOwner ==
    ASSUME TProc, TDisk, NEW c \in Checkout, NEW p \in ProcType, NEW d \in DiskType,
           proc' = [proc EXCEPT ![c] = p], disk' = [disk EXCEPT ![c] = d]
    PROVE  /\ TProc' /\ TDisk' /\ Others(c)
           /\ proc'[c] = p /\ disk'[c] = d
<1>1. proc'[c] = p /\ disk'[c] = d /\ Others(c)
  BY DEF TProc, TDisk, Others
<1>2. proc' \in [Checkout -> ProcType]
  BY DEF TProc
<1>3. disk' \in [Checkout -> DiskType]
  BY DEF TDisk
<1> QED BY <1>1, <1>2, <1>3 DEF TProc, TDisk

\* A fence taken is the newest and its taker's; the others keep theirs.
LEMMA NewLease ==
    ASSUME TLease, NEW c \in Checkout, TopLease < LastFence, leases' = Append(leases, c)
    PROVE  /\ TLease' /\ TopLease \in Nat /\ TopLease' = TopLease + 1
           /\ leases'[TopLease + 1] = c
           /\ \A k \in 1 .. TopLease : leases'[k] = leases[k]
  BY ReplAssumption DEF TLease, TopLease

\* The newest fence is within its bound, and one more is when it is below it.
LEMMA TopIs ==
    ASSUME TLease
    PROVE  /\ TopLease \in 0 .. LastFence
           /\ TopLease < LastFence => TopLease + 1 \in 1 .. LastFence
  BY ReplAssumption DEF TLease, TopLease

\* A process that ended, and a sync that is over, have their types.
LEMMA EndedTyped == Ended \in ProcType /\ NoSync \in SyncType
<1>1. <<>> \in Logs
  BY ReplAssumption DEF Logs
<1>2. NoSync \in SyncType
  BY <1>1, ReplAssumption DEF NoSync, SyncType, At
<1>3. Ended \in ProcType
  BY <1>2, ReplAssumption DEF Ended, ProcType
<1> QED BY <1>2, <1>3

\* A process that finds its lease lost changes nothing else.
LEMMA FindLostDoes ==
    ASSUME Types, NEW c \in Checkout, FindLost(c)
    PROVE  Types' /\ DoesQuiet(c)
<1> DEFINE p == [proc[c] EXCEPT !.lost = TRUE]
           d == disk[c]
<1>1. proc[c] \in ProcType /\ disk[c] \in DiskType
  BY DEF Types, TProc, TDisk
<1>2. p \in ProcType
  BY <1>1 DEF ProcType, SyncType, At
<1>3. d \in DiskType
  BY <1>1
<1>4. proc' = [proc EXCEPT ![c] = p] /\ disk' = [disk EXCEPT ![c] = d]
  BY DEF FindLost, Types, TProc, TDisk
<1>5. TProc' /\ TDisk' /\ Others(c) /\ proc'[c] = p /\ disk'[c] = d
  <2> HIDE DEF p, d
  <2> QED BY <1>2, <1>3, <1>4, TypesByOwner DEF Types
<1>6. Types'
  BY <1>5 DEF Types, FindLost, registry, TLease, TopLease, THeads, TReg, TShip, TCount
<1>7. DoesQuiet(c)
  BY <1>1, <1>5 DEF DoesQuiet, ProcType, DiskType, SyncType, SameHold, SameSync, FindLost, registry
<1> HIDE DEF p, d
<1> QED BY <1>6, <1>7

\* The start of the upkeep changes nothing else.
LEMMA StartUpkeepDoes ==
    ASSUME Types, NEW c \in Checkout, StartUpkeep(c)
    PROVE  Types' /\ DoesQuiet(c)
<1> DEFINE p == [proc[c] EXCEPT !.upkeep = TRUE]
           d == disk[c]
<1>1. proc[c] \in ProcType /\ disk[c] \in DiskType
  BY DEF Types, TProc, TDisk
<1>2. p \in ProcType
  BY <1>1 DEF ProcType, SyncType, At
<1>3. d \in DiskType
  BY <1>1
<1>4. proc' = [proc EXCEPT ![c] = p] /\ disk' = [disk EXCEPT ![c] = d]
  BY DEF StartUpkeep, Types, TProc, TDisk
<1>5. TProc' /\ TDisk' /\ Others(c) /\ proc'[c] = p /\ disk'[c] = d
  <2> HIDE DEF p, d
  <2> QED BY <1>2, <1>3, <1>4, TypesByOwner DEF Types
<1>6. Types'
  BY <1>5 DEF Types, StartUpkeep, registry, TLease, TopLease, THeads, TReg, TShip, TCount
<1>7. DoesQuiet(c)
  BY <1>1, <1>5 DEF DoesQuiet, ProcType, DiskType, SyncType, SameHold, SameSync,
                     StartUpkeep, registry
<1> HIDE DEF p, d
<1> QED BY <1>6, <1>7

\* A sync that fails ends.
LEMMA SyncFailsDoes ==
    ASSUME Types, NEW c \in Checkout, SyncFails(c)
    PROVE  Types' /\ DoesQuiet(c)
<1> DEFINE p == [proc[c] EXCEPT !.sync = NoSync]
           d == disk[c]
<1>1. proc[c] \in ProcType /\ disk[c] \in DiskType
  BY DEF Types, TProc, TDisk
<1>2. p \in ProcType
  BY <1>1, EndedTyped DEF ProcType
<1>3. d \in DiskType
  BY <1>1
<1>4. proc' = [proc EXCEPT ![c] = p] /\ disk' = [disk EXCEPT ![c] = d]
  BY DEF SyncFails, Types, TProc, TDisk
<1>5. TProc' /\ TDisk' /\ Others(c) /\ proc'[c] = p /\ disk'[c] = d
  <2> HIDE DEF p, d
  <2> QED BY <1>2, <1>3, <1>4, TypesByOwner DEF Types
<1>6. Types'
  <2>1. failures' \in 0 .. LastFailure
    BY ReplAssumption DEF SyncFails, Types, TCount
  <2> QED BY <1>5, <2>1 DEF Types, SyncFails, registry, TLease, TopLease, THeads, TReg, TShip,
                              TCount
<1>7. DoesQuiet(c)
  BY <1>1, <1>5 DEF DoesQuiet, ProcType, DiskType, SyncType, SameHold, SameSync,
                     SyncFails, registry
<1> HIDE DEF p, d
<1> QED BY <1>6, <1>7

\* The end of a process leaves its files.
LEMMA EndDoes ==
    ASSUME Types, NEW c \in Checkout, End(c)
    PROVE  Types' /\ DoesEnd(c)
<1> DEFINE p == Ended
           d == disk[c]
<1>1. proc[c] \in ProcType /\ disk[c] \in DiskType
  BY DEF Types, TProc, TDisk
<1>2. p \in ProcType
  BY EndedTyped
<1>3. d \in DiskType
  BY <1>1
<1>4. proc' = [proc EXCEPT ![c] = p] /\ disk' = [disk EXCEPT ![c] = d]
  BY DEF End, Types, TProc, TDisk
<1>5. TProc' /\ TDisk' /\ Others(c) /\ proc'[c] = p /\ disk'[c] = d
  <2> HIDE DEF p, d
  <2> QED BY <1>2, <1>3, <1>4, TypesByOwner DEF Types
<1>6. Types'
  BY <1>5 DEF Types, End, registry, TLease, TopLease, THeads, TReg, TShip, TCount
<1>7. DoesEnd(c)
  BY <1>1, <1>5 DEF DoesEnd, ProcType, DiskType, SyncType, SameHold, SameSync, End, registry
<1> HIDE DEF p, d
<1> QED BY <1>6, <1>7

\* The first hold of a process.
LEMMA TakeLeaseDoes ==
    ASSUME Types, NEW c \in Checkout, TakeLease(c)
    PROVE  Types' /\ DoesTake(c)
<1> DEFINE p == [proc[c] EXCEPT !.lease = TopLease + 1, !.lost = FALSE, !.phase = "restore"]
           d == disk[c]
<1>1. proc[c] \in ProcType /\ disk[c] \in DiskType
  BY DEF Types, TProc, TDisk
<1>0. TopLease + 1 \in 0 .. LastFence
  BY TopIs, ReplAssumption DEF Types, TakeLease
<1>2. p \in ProcType
  BY <1>1, <1>0 DEF ProcType
<1>3. d \in DiskType
  BY <1>1
<1>4. proc' = [proc EXCEPT ![c] = p] /\ disk' = [disk EXCEPT ![c] = d]
  BY DEF TakeLease, Types, TProc, TDisk
<1>5. TProc' /\ TDisk' /\ Others(c) /\ proc'[c] = p /\ disk'[c] = d
  <2> HIDE DEF p, d
  <2> QED BY <1>2, <1>3, <1>4, TypesByOwner DEF Types
<1>6. Types'
  <2>1. TLease'
    BY NewLease DEF Types, TakeLease
  <2> QED BY <1>5, <2>1 DEF Types, TakeLease, registry, THeads, TReg, TShip, TCount
<1>7. /\ proc'[c].lease = TopLease + 1 /\ proc'[c].phase = "restore"
      /\ proc'[c].mark = proc[c].mark /\ proc'[c].sync = proc[c].sync
  BY <1>1, <1>5 DEF ProcType
<1>8. disk'[c] = disk[c]
  BY <1>5
<1>9. /\ proc[c].lease = 0 /\ TopLease < LastFence /\ leases' = Append(leases, c)
      /\ UNCHANGED <<started, confirmed, heads, shipped, acked, made>>
  BY DEF TakeLease, registry
<1> HIDE DEF p, d
<1> QED BY <1>5, <1>6, <1>7, <1>8, <1>9 DEF DoesTake, SameSync

\* Serve takes a lost lease again, once its upkeep listens and no sync is under way.
LEMMA RetakeDoes ==
    ASSUME Types, NEW c \in Checkout, Cases = {}, Retake(c)
    PROVE  Types' /\ DoesTake(c)
<1> DEFINE p == [proc[c] EXCEPT !.lease = TopLease + 1, !.lost = FALSE, !.phase = "restore"]
           d == IF Continues(disk[c], TopLease + 1)
                THEN [disk[c] EXCEPT !.lineage.last = TopLease + 1] ELSE disk[c]
<1>1. proc[c] \in ProcType /\ disk[c] \in DiskType
  BY DEF Types, TProc, TDisk
<1>0. TopLease + 1 \in 0 .. LastFence
  BY TopIs, ReplAssumption DEF Types, Retake
<1>2. p \in ProcType
  BY <1>1, <1>0 DEF ProcType
<1>3. d \in DiskType
  BY <1>0, <1>1 DEF DiskType
<1>4. proc' = [proc EXCEPT ![c] = p] /\ disk' = [disk EXCEPT ![c] = d]
  <2>1. proc[c].upkeep
    BY DEF Retake
  <2>2. proc' = [proc EXCEPT ![c] = p]
    BY <2>1 DEF Retake, Types, TProc
  <2>3. disk' = [disk EXCEPT ![c] = d]
    BY DEF Retake, Types, TDisk
  <2> QED BY <2>2, <2>3
<1>5. TProc' /\ TDisk' /\ Others(c) /\ proc'[c] = p /\ disk'[c] = d
  <2> HIDE DEF p, d
  <2> QED BY <1>2, <1>3, <1>4, TypesByOwner DEF Types
<1>6. Types'
  <2>1. TLease'
    BY NewLease DEF Types, Retake
  <2> QED BY <1>5, <2>1 DEF Types, Retake, registry, THeads, TReg, TShip, TCount
<1>7. disk'[c].log = disk[c].log /\ disk'[c].copy = disk[c].copy
      /\ disk'[c].lineage.fence = disk[c].lineage.fence
  BY <1>1, <1>5 DEF DiskType
<1>8. \/ disk'[c].lineage.last = disk[c].lineage.last
      \/ /\ disk'[c].lineage.last = TopLease + 1 /\ disk[c].lineage.fence # 0
         /\ TopLease + 1 \in {disk[c].lineage.last, disk[c].lineage.last + 1}
  BY <1>1, <1>5 DEF DiskType, Continues
<1>9. /\ proc'[c].lease = TopLease + 1 /\ proc'[c].phase = "restore"
      /\ proc'[c].mark = proc[c].mark /\ proc'[c].sync = proc[c].sync
  BY <1>1, <1>5 DEF ProcType
<1> HIDE DEF p, d
<1> QED BY <1>5, <1>6, <1>7, <1>8, <1>9 DEF DoesTake, SameSync, Retake, registry

\* A copy made current has the type of a copy.
LEMMA MadeCurrentTyped ==
    ASSUME Types, HeadsOK, NEW d \in DiskType
    PROVE  MadeCurrent(d) \in DiskType
<1>1. CASE CopyIsCurrent(d)
  BY <1>1 DEF MadeCurrent
<1>2. CASE ~CopyIsCurrent(d)
  <2>1. Complete # {}
    BY <1>2 DEF CopyIsCurrent
  <2>2. CurrentHead \in heads
    BY <2>1, HeadIs DEF HeadFacts, Types
  <2>3. CurrentHead \in HeadType /\ Len(CurrentHead.log) <= CurrentHead.span
    BY <2>2 DEF HeadsOK, Types, THeads
  <2>4. Restored(CurrentHead) \in Logs /\ CurrentHead.txid \in 0 .. LastTxid
    BY <2>3, RestoredIs, ReplAssumption DEF HeadType
  <2>5. CurrentLineage \in 0 .. LastFence
    BY LineageIs DEF LineageFacts, Types
  <2> HIDE DEF CurrentHead
  <2> QED BY <1>2, <2>4, <2>5 DEF MadeCurrent, DiskType
<1> QED BY <1>1, <1>2

\* Under the lease a copy is found current or restored.
LEMMA RestoreForWriteDoes ==
    ASSUME Types, NEW c \in Checkout, HeadsOK, RestoreForWrite(c)
    PROVE  Types' /\ (DoesKeepCopy(c) \/ DoesRestore(c))
<1> DEFINE p == [proc[c] EXCEPT !.phase = "lineage",
                               !.restored = @ \/ ~CopyIsCurrent(disk[c])]
           d == MadeCurrent(disk[c])
<1>1. proc[c] \in ProcType /\ disk[c] \in DiskType
  BY DEF Types, TProc, TDisk
<1>2. p \in ProcType
  BY <1>1 DEF ProcType
<1>3. d \in DiskType
  BY <1>1, MadeCurrentTyped
<1>4. proc' = [proc EXCEPT ![c] = p] /\ disk' = [disk EXCEPT ![c] = d]
  BY DEF RestoreForWrite, Types, TProc, TDisk
<1>5. TProc' /\ TDisk' /\ Others(c) /\ proc'[c] = p /\ disk'[c] = d
  <2> HIDE DEF p, d
  <2> QED BY <1>2, <1>3, <1>4, TypesByOwner DEF Types
<1>6. Types'
  BY <1>5 DEF Types, RestoreForWrite, registry, TLease, TopLease, THeads, TReg, TShip, TCount
<1>7. /\ proc'[c].lease = proc[c].lease /\ proc'[c].phase = "lineage"
      /\ proc'[c].mark = proc[c].mark /\ proc'[c].sync = proc[c].sync
  BY <1>1, <1>5 DEF ProcType
<1>8. CASE CopyIsCurrent(disk[c])
  <2>1. disk'[c] = disk[c]
    BY <1>5, <1>8 DEF MadeCurrent
  <2> HIDE DEF p, d
  <2> QED BY <1>5, <1>6, <1>7, <1>8, <2>1 DEF DoesKeepCopy, SameSync, RestoreForWrite, registry
<1>9. CASE ~CopyIsCurrent(disk[c])
  <2>1. /\ disk'[c].log = Restored(CurrentHead)
        /\ disk'[c].copy = [lineage |-> CurrentLineage, txid |-> CurrentHead.txid]
        /\ disk'[c].lineage = disk[c].lineage
    BY <1>1, <1>5, <1>9 DEF MadeCurrent, DiskType
  <2>2. Complete # {}
    BY <1>9 DEF CopyIsCurrent
  <2> HIDE DEF p, d
  <2> QED BY <1>5, <1>6, <1>7, <1>9, <2>1, <2>2 DEF DoesRestore, SameSync, RestoreForWrite, registry
<1> QED BY <1>8, <1>9

\* A reader restores its copy.
LEMMA RefreshDoes ==
    ASSUME Types, NEW c \in Checkout, HeadsOK, Refresh(c)
    PROVE  Types' /\ DoesRestore(c)
<1> DEFINE p == [proc[c] EXCEPT !.restored = TRUE]
           d == MadeCurrent(disk[c])
<1>1. proc[c] \in ProcType /\ disk[c] \in DiskType
  BY DEF Types, TProc, TDisk
<1>2. p \in ProcType
  BY <1>1 DEF ProcType
<1>3. d \in DiskType
  BY <1>1, MadeCurrentTyped
<1>4. proc' = [proc EXCEPT ![c] = p] /\ disk' = [disk EXCEPT ![c] = d]
  BY DEF Refresh, Types, TProc, TDisk
<1>5. TProc' /\ TDisk' /\ Others(c) /\ proc'[c] = p /\ disk'[c] = d
  <2> HIDE DEF p, d
  <2> QED BY <1>2, <1>3, <1>4, TypesByOwner DEF Types
<1>6. Types'
  BY <1>5 DEF Types, Refresh, registry, TLease, TopLease, THeads, TReg, TShip, TCount
<1>7. /\ proc'[c].lease = proc[c].lease /\ proc'[c].phase = proc[c].phase
      /\ proc'[c].mark = proc[c].mark /\ proc'[c].sync = proc[c].sync
  BY <1>1, <1>5 DEF ProcType
<1>8. ~CopyIsCurrent(disk[c])
  BY DEF Refresh
<1>9. /\ disk'[c].log = Restored(CurrentHead)
      /\ disk'[c].copy = [lineage |-> CurrentLineage, txid |-> CurrentHead.txid]
      /\ disk'[c].lineage = disk[c].lineage
  BY <1>1, <1>5, <1>8 DEF MadeCurrent, DiskType
<1>10. Complete # {}
  BY <1>8 DEF CopyIsCurrent
<1> HIDE DEF p, d
<1> QED BY <1>5, <1>6, <1>7, <1>8, <1>9, <1>10 DEF DoesRestore, SameSync, Refresh, registry

\* A lineage is continued or started, or the process goes back to restoring or ends: a
\* process before its lineage is prepared has none at its own fence.
LEMMA PrepareLineageDoes ==
    ASSUME Types, NEW c \in Checkout, LeaseOK(c), PrepareLineage(c)
    PROVE  /\ Types'
           /\ DoesContinue(c) \/ DoesStart(c) \/ DoesGoBack(c) \/ DoesEnd(c)
<1> DEFINE ready == [proc[c] EXCEPT !.phase = "write", !.restored = FALSE]
           back == [proc[c] EXCEPT !.phase = "restore"]
           on == [disk[c] EXCEPT !.lineage.last = proc[c].lease]
           new == [disk[c] EXCEPT !.lineage = [fence |-> proc[c].lease,
                                               last |-> proc[c].lease]]
<1>1. proc[c] \in ProcType /\ disk[c] \in DiskType
  BY DEF Types, TProc, TDisk
<1>2. /\ proc[c].phase = "lineage"
      /\ disk[c].lineage.fence < proc[c].lease
      /\ UNCHANGED <<leases, confirmed, heads, shipped, acked, made, failures>>
  BY DEF PrepareLineage, LeaseOK
<1>3. disk[c].lineage.fence # proc[c].lease
  BY <1>1, <1>2, ReplAssumption DEF ProcType, DiskType
<1>4. ready \in ProcType /\ back \in ProcType
  BY <1>1 DEF ProcType
<1>5. on \in DiskType
  BY <1>1 DEF ProcType, DiskType
<1>6. new \in DiskType
  BY <1>1 DEF ProcType, DiskType
<1>7. /\ ready.phase = "write" /\ ready.lease = proc[c].lease
      /\ ready.mark = proc[c].mark /\ ready.sync = proc[c].sync
  BY <1>1 DEF ProcType
<1>8. /\ back.phase = "restore" /\ back.lease = proc[c].lease
      /\ back.mark = proc[c].mark /\ back.sync = proc[c].sync
  BY <1>1 DEF ProcType
<1>9. /\ on.log = disk[c].log /\ on.copy = disk[c].copy
      /\ on.lineage.fence = disk[c].lineage.fence /\ on.lineage.last = proc[c].lease
  BY <1>1 DEF DiskType
<1>10. /\ new.log = disk[c].log /\ new.copy = disk[c].copy
       /\ new.lineage.fence = proc[c].lease /\ new.lineage.last = proc[c].lease
  BY <1>1 DEF DiskType
<1>11. proc[c].lease \in Lineage
  BY <1>1, <1>2, ReplAssumption DEF ProcType, DiskType, Lineage
<1>12. \/ /\ Continues(disk[c], proc[c].lease)
          /\ proc' = [proc EXCEPT ![c] = ready] /\ disk' = [disk EXCEPT ![c] = on]
          /\ started' = started
       \/ /\ NewestStarted > proc[c].lease
          /\ proc' = [proc EXCEPT ![c] = back] \/ proc' = [proc EXCEPT ![c] = Ended]
          /\ disk' = disk /\ started' = started
       \/ /\ ~(NewestStarted > proc[c].lease)
          /\ proc' = [proc EXCEPT ![c] = ready] /\ disk' = [disk EXCEPT ![c] = new]
          /\ started' = started \cup {proc[c].lease}
  <2>1. [disk EXCEPT ![c].lineage.last = proc[c].lease] = [disk EXCEPT ![c] = on]
    BY <1>1 DEF Types, TDisk
  <2>2. [disk EXCEPT ![c].lineage = [fence |-> proc[c].lease, last |-> proc[c].lease]]
          = [disk EXCEPT ![c] = new]
    BY <1>1 DEF Types, TDisk
  <2>3. disk[c].lineage # [fence |-> proc[c].lease, last |-> proc[c].lease]
    BY <1>3
  <2> HIDE DEF on, new
  <2> QED BY <1>3, <2>1, <2>2, <2>3 DEF PrepareLineage
<1> HIDE DEF ready, back, on, new
<1>13. ASSUME TProc', TDisk', started' \subseteq Lineage PROVE Types'
  BY <1>2, <1>13 DEF Types, TLease, TopLease, THeads, TReg, TShip, TCount
<1>14. disk = [disk EXCEPT ![c] = disk[c]] /\ started \subseteq Lineage
  BY DEF Types, TDisk, TReg
<1>15. CASE /\ Continues(disk[c], proc[c].lease)
            /\ proc' = [proc EXCEPT ![c] = ready] /\ disk' = [disk EXCEPT ![c] = on]
            /\ started' = started
  <2>1. TProc' /\ TDisk' /\ Others(c) /\ proc'[c] = ready /\ disk'[c] = on
    BY <1>4, <1>5, <1>15, TypesByOwner DEF Types
  <2>2. Types'
    BY <1>13, <1>14, <1>15, <2>1
  <2>3. DoesContinue(c)
    BY <1>2, <1>7, <1>9, <1>15, <2>1 DEF DoesContinue, Continues, SameSync
  <2> QED BY <2>2, <2>3
<1>16. CASE /\ proc' = [proc EXCEPT ![c] = back]
            /\ disk' = disk /\ started' = started
  <2>1. TProc' /\ TDisk' /\ Others(c) /\ proc'[c] = back /\ disk'[c] = disk[c]
    BY <1>1, <1>4, <1>14, <1>16, TypesByOwner DEF Types
  <2>2. Types'
    BY <1>13, <1>14, <1>16, <2>1
  <2>3. DoesGoBack(c)
    BY <1>2, <1>8, <1>16, <2>1 DEF DoesGoBack, SameSync
  <2> QED BY <2>2, <2>3
<1>17. CASE /\ proc' = [proc EXCEPT ![c] = Ended]
            /\ disk' = disk /\ started' = started
  <2>1. TProc' /\ TDisk' /\ Others(c) /\ proc'[c] = Ended /\ disk'[c] = disk[c]
    BY <1>1, EndedTyped, <1>14, <1>17, TypesByOwner DEF Types
  <2>2. Types'
    BY <1>13, <1>14, <1>17, <2>1
  <2>3. DoesEnd(c)
    BY <1>2, <1>17, <2>1 DEF DoesEnd
  <2> QED BY <2>2, <2>3
<1>18. CASE /\ ~(NewestStarted > proc[c].lease)
            /\ proc' = [proc EXCEPT ![c] = ready] /\ disk' = [disk EXCEPT ![c] = new]
            /\ started' = started \cup {proc[c].lease}
  <2>1. TProc' /\ TDisk' /\ Others(c) /\ proc'[c] = ready /\ disk'[c] = new
    BY <1>4, <1>6, <1>18, TypesByOwner DEF Types
  <2>2. Types'
    BY <1>11, <1>13, <1>14, <1>18, <2>1
  <2>3. NewestStarted <= proc[c].lease
    <3>1. NewestStarted \in 0 .. LastFence
      BY LineageIs DEF LineageFacts, Types
    <3> QED BY <1>1, <1>18, <3>1, ReplAssumption DEF ProcType
  <2>4. DoesStart(c)
    BY <1>2, <1>7, <1>10, <1>18, <2>1, <2>3 DEF DoesStart, SameSync
  <2> QED BY <2>2, <2>4
<1> QED BY <1>12, <1>15, <1>16, <1>17, <1>18

\* A commit is appended to the copy.
LEMMA CommitDoes ==
    ASSUME Types, NEW c \in Checkout, Commit(c)
    PROVE  Types' /\ DoesCommit(c)
<1> DEFINE p == proc[c]
           d == [disk[c] EXCEPT !.log = Append(@, made + 1)]
<1>1. proc[c] \in ProcType /\ disk[c] \in DiskType
  BY DEF Types, TProc, TDisk
<1>0. Append(disk[c].log, made + 1) \in Logs /\ made + 1 \in 0 .. LastCommit
  <2>a. made \in 0 .. LastCommit /\ made < LastCommit
    BY DEF Commit, Types, TCount
  <2>b. disk[c].log \in Logs /\ Len(disk[c].log) < LastCommit
    BY <1>1 DEF DiskType, Commit
  <2>1. /\ disk[c].log \in Logs /\ Len(disk[c].log) < LastCommit
        /\ made + 1 \in 1 .. LastCommit
    BY <2>a, <2>b, ReplAssumption
  <2>2. Append(disk[c].log, made + 1) \in Logs
    <3>1. PICK n \in 1 .. LastCommit : n = made + 1
      BY <2>1
    <3>2. Append(disk[c].log, n) \in Logs
      BY <2>1, AppendIs
    <3> QED BY <3>1, <3>2
  <2> QED BY <2>1, <2>2, ReplAssumption
<1>2. p \in ProcType
  BY <1>1
<1>3. d \in DiskType
  BY <1>1, <1>0 DEF DiskType
<1>4. proc' = [proc EXCEPT ![c] = p] /\ disk' = [disk EXCEPT ![c] = d]
  BY DEF Commit, Types, TProc, TDisk
<1>5. TProc' /\ TDisk' /\ Others(c) /\ proc'[c] = p /\ disk'[c] = d
  <2> HIDE DEF p, d
  <2> QED BY <1>2, <1>3, <1>4, TypesByOwner DEF Types
<1>6. Types'
  BY <1>0, <1>5 DEF Types, Commit, registry, TLease, TopLease, THeads, TReg, TShip, TCount
<1>7. /\ disk'[c].log = Append(disk[c].log, made + 1)
      /\ disk'[c].lineage = disk[c].lineage /\ disk'[c].copy = disk[c].copy
  BY <1>1, <1>5 DEF DiskType
<1>8. proc'[c] = proc[c]
  BY <1>5
<1> HIDE DEF p, d
<1> QED BY <1>5, <1>6, <1>7, <1>8 DEF DoesCommit, SameHold, SameSync, Commit, registry

\* A sync takes what lies under the mark.
LEMMA SyncStartDoes ==
    ASSUME Types, NEW c \in Checkout, SyncStart(c)
    PROVE  Types' /\ DoesSyncStart(c)
<1> DEFINE p == [proc[c] EXCEPT !.sync =
                    [NoSync EXCEPT !.at = "ship", !.lineage = disk[c].lineage.fence,
                                   !.writer = proc[c].lease,
                                   !.log = SubSeq(disk[c].log, 1, Mark(disk[c].log))]]
           d == disk[c]
<1>1. proc[c] \in ProcType /\ disk[c] \in DiskType
  BY DEF Types, TProc, TDisk
<1>2. p \in ProcType
  <2>1. SubSeq(disk[c].log, 1, Mark(disk[c].log)) \in Logs
    BY <1>1, UnderMark DEF DiskType
  <2>2. disk[c].lineage.fence \in 0 .. LastFence /\ proc[c].lease \in 0 .. LastFence
    BY <1>1 DEF DiskType, ProcType
  <2>3. [NoSync EXCEPT !.at = "ship", !.lineage = disk[c].lineage.fence,
                       !.writer = proc[c].lease,
                       !.log = SubSeq(disk[c].log, 1, Mark(disk[c].log))] \in SyncType
    BY <2>1, <2>2, EndedTyped DEF SyncType, At
  <2> QED BY <1>1, <2>3 DEF ProcType
<1>3. d \in DiskType
  BY <1>1
<1>4. proc' = [proc EXCEPT ![c] = p] /\ disk' = [disk EXCEPT ![c] = d]
  BY DEF SyncStart, Types, TProc, TDisk
<1>5. TProc' /\ TDisk' /\ Others(c) /\ proc'[c] = p /\ disk'[c] = d
  <2> HIDE DEF p, d
  <2> QED BY <1>2, <1>3, <1>4, TypesByOwner DEF Types
<1>6. Types'
  BY <1>5 DEF Types, SyncStart, registry, TLease, TopLease, THeads, TReg, TShip, TCount
<1>7. /\ proc'[c].lease = proc[c].lease /\ proc'[c].phase = proc[c].phase
      /\ proc'[c].mark = proc[c].mark
  BY <1>1, <1>5 DEF ProcType
<1>8. /\ proc'[c].sync.at = "ship" /\ proc'[c].sync.lineage = disk[c].lineage.fence
      /\ proc'[c].sync.writer = proc[c].lease
      /\ proc'[c].sync.log = SubSeq(disk[c].log, 1, Mark(disk[c].log))
      /\ proc'[c].sync.txid = 0
  <2>1. proc'[c].sync = [NoSync EXCEPT !.at = "ship", !.lineage = disk[c].lineage.fence,
                                       !.writer = proc[c].lease,
                                       !.log = SubSeq(disk[c].log, 1, Mark(disk[c].log))]
    BY <1>1, <1>5 DEF ProcType
  <2> HIDE DEF p, d
  <2> QED BY <2>1 DEF NoSync
<1>9. disk'[c] = disk[c]
  BY <1>5
<1> HIDE DEF p, d
<1> QED BY <1>5, <1>6, <1>7, <1>8, <1>9 DEF DoesSyncStart, SameHold, SyncStart, registry

\* A sync ships the copy under the next transaction id.
LEMMA ShipDoes ==
    ASSUME Types, NEW c \in Checkout, Cases = {}, LeaseOK(c), Ship(c)
    PROVE  Types' /\ DoesShip(c)
<1> DEFINE p == [proc[c] EXCEPT !.sync.at = "head",
                               !.sync.txid = shipped[proc[c].sync.lineage].txid + 1]
           d == disk[c]
<1>1. proc[c] \in ProcType /\ disk[c] \in DiskType
  BY DEF Types, TProc, TDisk
<1>0. /\ proc[c].sync.lineage \in Lineage
      /\ shipped[proc[c].sync.lineage].txid + 1 \in 0 .. LastTxid
      /\ shipped' = [shipped EXCEPT ![proc[c].sync.lineage] =
                       [txid |-> shipped[proc[c].sync.lineage].txid + 1,
                        log |-> disk[c].log]]
      /\ proc' = [proc EXCEPT ![c].sync.at = "head",
                              ![c].sync.txid = shipped[proc[c].sync.lineage].txid + 1]
  <2>1. proc[c].sync.lineage \in Lineage
    BY <1>1, ReplAssumption DEF Ship, LeaseOK, DiskType, Lineage
  <2>2. shipped[proc[c].sync.lineage].txid \in 0 .. LastTxid
    BY <2>1 DEF Types, TShip
  <2>3. shipped[proc[c].sync.lineage].txid + 1 \in 0 .. LastTxid
    BY <2>2, ReplAssumption DEF Ship
  <2> QED BY <2>1, <2>3 DEF Ship
<1>2. p \in ProcType
  BY <1>0, <1>1 DEF ProcType, SyncType, At
<1>3. d \in DiskType
  BY <1>1
<1>4. proc' = [proc EXCEPT ![c] = p] /\ disk' = [disk EXCEPT ![c] = d]
  BY <1>0 DEF Ship, Types, TProc, TDisk
<1>5. TProc' /\ TDisk' /\ Others(c) /\ proc'[c] = p /\ disk'[c] = d
  <2> HIDE DEF p, d
  <2> QED BY <1>2, <1>3, <1>4, TypesByOwner DEF Types
<1>6. Types'
  <2>1. [txid |-> shipped[proc[c].sync.lineage].txid + 1, log |-> disk[c].log]
           \in [txid : 0 .. LastTxid, log : Logs]
    BY <1>0, <1>1 DEF DiskType
  <2>2. TShip'
    BY <1>0, <2>1 DEF Types, TShip
  <2> QED BY <1>5, <2>2 DEF Types, Ship, TLease, TopLease, THeads, TReg, TCount
<1>7a. /\ proc'[c].sync = [proc[c].sync EXCEPT !.at = "head",
                                  !.txid = shipped[proc[c].sync.lineage].txid + 1]
       /\ proc[c].sync \in SyncType
  BY <1>1, <1>5 DEF ProcType
<1>7. /\ proc'[c].lease = proc[c].lease /\ proc'[c].phase = proc[c].phase
      /\ proc'[c].mark = proc[c].mark
  BY <1>1, <1>5 DEF ProcType
<1>8. SyncGoesOn(c, "head") /\ proc'[c].sync.txid = shipped[proc[c].sync.lineage].txid + 1
  <2> HIDE DEF p, d
  <2> QED BY <1>7a DEF SyncType, SyncGoesOn
<1>9. disk'[c] = disk[c]
  BY <1>5
<1>10. /\ shipped'[proc[c].sync.lineage].txid = shipped[proc[c].sync.lineage].txid + 1
       /\ shipped'[proc[c].sync.lineage].log = disk[c].log
       /\ \A k \in Lineage : k # proc[c].sync.lineage => shipped'[k] = shipped[k]
  BY <1>0 DEF Types, TShip
<1> HIDE DEF p, d
<1> QED BY <1>5, <1>6, <1>7, <1>8, <1>9, <1>10 DEF DoesShip, SameHold, Ship

\* The head is published under its writer's key.
LEMMA PublishHeadDoes ==
    ASSUME Types, NEW c \in Checkout, LeaseOK(c), SyncOK(c), PublishHead(c)
    PROVE  Types' /\ DoesPublish(c)
<1> DEFINE p == [proc[c] EXCEPT !.sync.at = "confirm"]
           d == disk[c]
<1>1. proc[c] \in ProcType /\ disk[c] \in DiskType
  BY DEF Types, TProc, TDisk
<1>0. /\ HeadOf(proc[c].sync) \in HeadType
      /\ heads' = {h \in heads : <<h.lineage, h.writer>>
                                   # <<proc[c].sync.lineage, proc[c].sync.writer>>}
                     \cup {HeadOf(proc[c].sync)}
  <2>1. /\ proc[c].sync \in SyncType /\ proc[c].sync.at = "head"
        /\ proc[c].sync.lineage = disk[c].lineage.fence
        /\ proc[c].sync.writer = proc[c].lease
        /\ disk[c].lineage.fence # 0
        /\ disk[c].lineage.fence <= disk[c].lineage.last
        /\ disk[c].lineage.last = proc[c].lease
    BY <1>1 DEF PublishHead, LeaseOK, ProcType
  <2>2. proc[c].sync.txid # 0
    BY <2>1 DEF SyncOK
  <2>3. proc[c].sync.lineage \in Lineage /\ proc[c].sync.writer \in Lineage
    BY <1>1, <2>1, ReplAssumption DEF DiskType, ProcType, Lineage
  <2>4. shipped[proc[c].sync.lineage].log \in Logs
    BY <2>3 DEF Types, TShip
  <2>5. Len(shipped[proc[c].sync.lineage].log) \in 0 .. LastCommit
    BY <2>4, LogIs
  <2>6. proc[c].sync.txid \in 1 .. LastTxid /\ proc[c].sync.log \in Logs
    BY <2>1, <2>2, ReplAssumption DEF SyncType
  <2>7. HeadOf(proc[c].sync) \in HeadType
    BY <2>3, <2>5, <2>6 DEF HeadOf, HeadType
  <2> QED BY <2>7 DEF PublishHead, HeadOf
<1>2. p \in ProcType
  BY <1>1 DEF ProcType, SyncType, At
<1>3. d \in DiskType
  BY <1>1
<1>4. proc' = [proc EXCEPT ![c] = p] /\ disk' = [disk EXCEPT ![c] = d]
  BY DEF PublishHead, Types, TProc, TDisk
<1>5. TProc' /\ TDisk' /\ Others(c) /\ proc'[c] = p /\ disk'[c] = d
  <2> HIDE DEF p, d
  <2> QED BY <1>2, <1>3, <1>4, TypesByOwner DEF Types
<1>6. Types'
  <2>1. THeads'
    BY <1>0 DEF Types, THeads
  <2> QED BY <1>5, <2>1 DEF Types, PublishHead, TLease, TopLease, TReg, TShip, TCount
<1>7a. proc'[c].sync = [proc[c].sync EXCEPT !.at = "confirm"] /\ proc[c].sync \in SyncType
  BY <1>1, <1>5 DEF ProcType
<1>7. /\ proc'[c].lease = proc[c].lease /\ proc'[c].phase = proc[c].phase
      /\ proc'[c].mark = proc[c].mark
  BY <1>1, <1>5 DEF ProcType
<1>8. SyncGoesOn(c, "confirm") /\ proc'[c].sync.txid = proc[c].sync.txid
  <2> HIDE DEF p, d
  <2> QED BY <1>7a DEF SyncType, SyncGoesOn
<1>9. disk'[c] = disk[c]
  BY <1>5
<1>10. /\ HeadOf(proc[c].sync) \in heads'
       /\ \A h \in heads' : h = HeadOf(proc[c].sync) \/ h \in heads
  BY <1>0
<1>11. /\ \A h \in heads' : h.lineage = proc[c].sync.lineage /\ h.writer = proc[c].sync.writer
                               => h = HeadOf(proc[c].sync)
       /\ \A h \in heads : \/ h \in heads'
                           \/ h.lineage = proc[c].sync.lineage
                              /\ h.writer = proc[c].sync.writer
  BY <1>0
<1>12. proc[c].sync.at = "head" /\ UNCHANGED <<leases, started, confirmed, shipped, acked, made>>
  BY DEF PublishHead
<1> HIDE DEF p, d
<1> QED BY <1>5, <1>6, <1>7, <1>8, <1>9, <1>10, <1>11, <1>12 DEF DoesPublish, SameHold

\* The lineage of a sync is confirmed.
LEMMA ConfirmLineageDoes ==
    ASSUME Types, NEW c \in Checkout, LeaseOK(c), ConfirmLineage(c)
    PROVE  Types' /\ DoesConfirm(c)
<1> DEFINE p == [proc[c] EXCEPT !.sync.at = "copy",
                               !.sync.first = proc[c].sync.lineage \notin confirmed]
           d == disk[c]
<1>1. proc[c] \in ProcType /\ disk[c] \in DiskType
  BY DEF Types, TProc, TDisk
<1>2. p \in ProcType
  BY <1>1 DEF ProcType, SyncType, At
<1>3. d \in DiskType
  BY <1>1
<1>4. proc' = [proc EXCEPT ![c] = p] /\ disk' = [disk EXCEPT ![c] = d]
  BY DEF ConfirmLineage, Types, TProc, TDisk
<1>5. TProc' /\ TDisk' /\ Others(c) /\ proc'[c] = p /\ disk'[c] = d
  <2> HIDE DEF p, d
  <2> QED BY <1>2, <1>3, <1>4, TypesByOwner DEF Types
<1>6. Types'
  <2>1. proc[c].sync.lineage \in Lineage
    BY <1>1, ReplAssumption DEF ConfirmLineage, LeaseOK, DiskType, Lineage
  <2>2. TReg'
    BY <2>1 DEF Types, TReg, ConfirmLineage
  <2> QED BY <1>5, <2>2 DEF Types, ConfirmLineage, TLease, TopLease, THeads, TShip, TCount
<1>7a. /\ proc'[c].sync = [proc[c].sync EXCEPT !.at = "copy",
                                  !.first = proc[c].sync.lineage \notin confirmed]
       /\ proc[c].sync \in SyncType
  BY <1>1, <1>5 DEF ProcType
<1>7. /\ proc'[c].lease = proc[c].lease /\ proc'[c].phase = proc[c].phase
      /\ proc'[c].mark = proc[c].mark
  BY <1>1, <1>5 DEF ProcType
<1>8. SyncGoesOn(c, "copy") /\ proc'[c].sync.txid = proc[c].sync.txid
  <2> HIDE DEF p, d
  <2> QED BY <1>7a DEF SyncType, SyncGoesOn
<1>9. disk'[c] = disk[c]
  BY <1>5
<1> HIDE DEF p, d
<1> QED BY <1>5, <1>6, <1>7, <1>8, <1>9 DEF DoesConfirm, SameHold, ConfirmLineage

\* The copy records what it holds.
LEMMA RecordCopyDoes ==
    ASSUME Types, NEW c \in Checkout, RecordCopy(c)
    PROVE  Types' /\ DoesRecord(c)
<1> DEFINE next == [lineage |-> proc[c].sync.lineage, txid |-> proc[c].sync.txid]
           p == [proc[c] EXCEPT !.sync.at = "check"]
           d == [disk[c] EXCEPT !.copy =
                    IF CopyAdvances(@, next) THEN next ELSE @]
<1>1. proc[c] \in ProcType /\ disk[c] \in DiskType
  BY DEF Types, TProc, TDisk
<1>0. next \in [lineage : 0 .. LastFence, txid : 0 .. LastTxid]
  BY <1>1 DEF ProcType, SyncType
<1>2. p \in ProcType
  BY <1>1 DEF ProcType, SyncType, At
<1>3. d \in DiskType
  BY <1>0, <1>1 DEF DiskType
<1>4. proc' = [proc EXCEPT ![c] = p] /\ disk' = [disk EXCEPT ![c] = d]
  BY DEF RecordCopy, Types, TProc, TDisk
<1>5. TProc' /\ TDisk' /\ Others(c) /\ proc'[c] = p /\ disk'[c] = d
  <2> HIDE DEF p, d
  <2> QED BY <1>2, <1>3, <1>4, TypesByOwner DEF Types
<1>6. Types'
  BY <1>5 DEF Types, RecordCopy, registry, TLease, TopLease, THeads, TReg, TShip, TCount
<1>7a. proc'[c].sync = [proc[c].sync EXCEPT !.at = "check"] /\ proc[c].sync \in SyncType
  BY <1>1, <1>5 DEF ProcType
<1>7. /\ proc'[c].lease = proc[c].lease /\ proc'[c].phase = proc[c].phase
      /\ proc'[c].mark = proc[c].mark
  BY <1>1, <1>5 DEF ProcType
<1>8. SyncGoesOn(c, "check") /\ proc'[c].sync.txid = proc[c].sync.txid
  <2> HIDE DEF p, d
  <2> QED BY <1>7a DEF SyncType, SyncGoesOn
<1>9. /\ disk'[c].log = disk[c].log /\ disk'[c].lineage = disk[c].lineage
      /\ disk'[c].copy = disk[c].copy \/ disk'[c].copy = next
  BY <1>1, <1>5 DEF DiskType
<1>10. next.lineage = proc[c].sync.lineage /\ next.txid = proc[c].sync.txid
  OBVIOUS
<1> HIDE DEF p, d, next
<1> QED BY <1>5, <1>6, <1>7, <1>8, <1>9, <1>10 DEF DoesRecord, SameHold, RecordCopy, registry

\* The check of the lease acknowledges what the sync shipped, or ends the sync.
LEMMA CheckLeaseDoes ==
    ASSUME Types, NEW c \in Checkout, CheckLease(c)
    PROVE  Types' /\ (DoesAck(c) \/ DoesQuiet(c))
<1> DEFINE m == Max({proc[c].mark, Len(proc[c].sync.log)})
           on == [proc[c].sync EXCEPT !.at = "collect"]
           p1 == [proc[c] EXCEPT !.mark = m, !.sync = on]
           p2 == [proc[c] EXCEPT !.mark = m, !.sync = NoSync]
           p3 == [proc[c] EXCEPT !.lost = TRUE, !.sync = NoSync]
<1>1. proc[c] \in ProcType /\ disk[c] \in DiskType
  BY DEF Types, TProc, TDisk
<1>2. proc[c].sync \in SyncType /\ proc[c].mark \in 0 .. LastCommit
  BY <1>1 DEF ProcType
<1>3. Kept(proc[c].sync.log) \subseteq 1 .. LastCommit
  <2>1. proc[c].sync.log \in Logs
    BY <1>2 DEF SyncType
  <2>2. \A i \in DOMAIN proc[c].sync.log : proc[c].sync.log[i] \in 0 .. LastCommit
    BY <2>1, LogIs
  <2> QED BY <2>2, ReplAssumption DEF Kept
<1>4. m \in 0 .. LastCommit
  <2>1. Len(proc[c].sync.log) \in 0 .. LastCommit
    BY <1>2, LogIs DEF SyncType
  <2>2. {proc[c].mark, Len(proc[c].sync.log)} \in SUBSET (0 .. LastCommit)
    BY <1>2, <2>1
  <2>3. m \in {proc[c].mark, Len(proc[c].sync.log)}
    BY <2>2, MaxIs, ReplAssumption
  <2> QED BY <2>2, <2>3
<1>5. /\ on \in SyncType /\ on.at = "collect" /\ on.lineage = proc[c].sync.lineage
      /\ on.writer = proc[c].sync.writer /\ on.log = proc[c].sync.log
      /\ on.txid = proc[c].sync.txid
  BY <1>2 DEF SyncType, At
<1> HIDE DEF m, on
<1>6. p1 \in ProcType /\ p2 \in ProcType
  BY <1>1, <1>4, <1>5, EndedTyped DEF ProcType
<1>7. p3 \in ProcType
  BY <1>1, EndedTyped DEF ProcType
<1>8. /\ p1.lease = proc[c].lease /\ p1.phase = proc[c].phase /\ p1.mark = m /\ p1.sync = on
      /\ p2.lease = proc[c].lease /\ p2.phase = proc[c].phase /\ p2.mark = m
      /\ p2.sync = NoSync
  BY <1>1 DEF ProcType
<1>9. /\ p3.lease = proc[c].lease /\ p3.phase = proc[c].phase /\ p3.mark = proc[c].mark
      /\ p3.sync = NoSync
  BY <1>1 DEF ProcType
<1>10. /\ proc[c].sync.at = "check"
       /\ UNCHANGED <<leases, disk, started, confirmed, heads, shipped, made, failures>>
       /\ \/ /\ proc[c].lease = TopLease /\ acked' = acked \cup Kept(proc[c].sync.log)
             /\ proc' = [proc EXCEPT ![c] = p1] \/ proc' = [proc EXCEPT ![c] = p2]
          \/ proc' = [proc EXCEPT ![c] = p3] /\ acked' = acked
  <2>1. [proc EXCEPT ![c].mark = Max({@, Len(proc[c].sync.log)}),
                     ![c].sync = IF proc[c].sync.first THEN [@ EXCEPT !.at = "collect"]
                                                       ELSE NoSync]
          = IF proc[c].sync.first THEN [proc EXCEPT ![c] = p1] ELSE [proc EXCEPT ![c] = p2]
    BY <1>1 DEF Types, TProc, ProcType, m, on
  <2>2. [proc EXCEPT ![c].lost = TRUE, ![c].sync = NoSync] = [proc EXCEPT ![c] = p3]
    BY <1>1 DEF Types, TProc, ProcType
  <2> HIDE DEF p1, p2, p3
  <2> QED BY <2>1, <2>2 DEF CheckLease, registry
<1> HIDE DEF p1, p2, p3
<1>11. disk' = [disk EXCEPT ![c] = disk[c]]
  BY <1>10 DEF Types, TDisk
<1>12. ASSUME TProc', TDisk', acked' \subseteq 1 .. LastCommit PROVE Types'
  BY <1>10, <1>12 DEF Types, TLease, TopLease, THeads, TReg, TShip, TCount
<1>13. acked \subseteq 1 .. LastCommit
  BY DEF Types, TCount
<1>14. CASE /\ proc[c].lease = TopLease /\ acked' = acked \cup Kept(proc[c].sync.log)
            /\ proc' = [proc EXCEPT ![c] = p1] \/ proc' = [proc EXCEPT ![c] = p2]
  <2>1. /\ TProc' /\ TDisk' /\ Others(c) /\ disk'[c] = disk[c]
        /\ proc'[c] = p1 \/ proc'[c] = p2
    BY <1>1, <1>6, <1>11, <1>14, TypesByOwner DEF Types
  <2>2. Types'
    BY <1>3, <1>12, <1>13, <1>14, <2>1
  <2>3. /\ proc'[c].lease = proc[c].lease /\ proc'[c].phase = proc[c].phase
        /\ proc'[c].mark = m
        /\ proc'[c].sync = on \/ proc'[c].sync = NoSync
    BY <1>8, <2>1
  <2>4. DoesAck(c)
    BY <1>5, <1>10, <1>14, <2>1, <2>3 DEF DoesAck, SyncGoesOn, m
  <2> QED BY <2>2, <2>4
<1>15. CASE proc' = [proc EXCEPT ![c] = p3] /\ acked' = acked
  <2>1. /\ TProc' /\ TDisk' /\ Others(c) /\ disk'[c] = disk[c] /\ proc'[c] = p3
    BY <1>1, <1>7, <1>11, <1>15, TypesByOwner DEF Types
  <2>2. Types'
    BY <1>12, <1>13, <1>15, <2>1
  <2>3. DoesQuiet(c)
    BY <1>9, <1>10, <1>15, <2>1 DEF DoesQuiet, SameHold
  <2> QED BY <2>2, <2>3
<1> QED BY <1>10, <1>14, <1>15

\* The lineages below a current one are collected, or the sync just ends.
LEMMA CollectLineagesDoes ==
    ASSUME Types, NEW c \in Checkout, CollectLineages(c)
    PROVE  Types' /\ (DoesCollect(c) \/ DoesQuiet(c))
<1> DEFINE p == [proc[c] EXCEPT !.sync = NoSync]
           d == disk[c]
<1>1. proc[c] \in ProcType /\ disk[c] \in DiskType
  BY DEF Types, TProc, TDisk
<1>2. p \in ProcType
  BY <1>1, EndedTyped DEF ProcType
<1>3. d \in DiskType
  BY <1>1
<1>4. proc' = [proc EXCEPT ![c] = p] /\ disk' = [disk EXCEPT ![c] = d]
  BY DEF CollectLineages, Types, TProc, TDisk
<1>5. TProc' /\ TDisk' /\ Others(c) /\ proc'[c] = p /\ disk'[c] = d
  <2> HIDE DEF p, d
  <2> QED BY <1>2, <1>3, <1>4, TypesByOwner DEF Types
<1>6. Types'
  <2>1. TReg' /\ THeads'
    BY DEF Types, TReg, THeads, CollectLineages
  <2> QED BY <1>5, <2>1 DEF Types, CollectLineages, TLease, TopLease, TShip, TCount
<1>7. /\ proc'[c].lease = proc[c].lease /\ proc'[c].phase = proc[c].phase
      /\ proc'[c].mark = proc[c].mark /\ proc'[c].sync = NoSync
  BY <1>1, <1>5 DEF ProcType
<1>8. disk'[c] = disk[c]
  BY <1>5
<1> HIDE DEF p, d
<1>9. CASE CurrentLineage = proc[c].sync.lineage
  BY <1>5, <1>6, <1>7, <1>8, <1>9 DEF DoesCollect, SameHold, CollectLineages
<1>10. CASE CurrentLineage # proc[c].sync.lineage
  BY <1>5, <1>6, <1>7, <1>8, <1>10 DEF DoesQuiet, SameHold, CollectLineages
<1> QED BY <1>9, <1>10

\* A request that is answered at once acknowledges nothing that was not: its commits lie
\* at or below a mark that was.
LEMMA ConfirmAtOnceDoes ==
    ASSUME Types, NEW c \in Checkout, AckOK(c), ConfirmAtOnce(c)
    PROVE  Types' /\ DoesQuiet(c)
<1>1. proc[c] \in ProcType /\ disk[c] \in DiskType
  BY DEF Types, TProc, TDisk
<1>2. disk[c].log \in Logs /\ proc[c].mark \in 0 .. LastCommit
  BY <1>1 DEF ProcType, DiskType
<1>3. /\ Mark(disk[c].log) \in 0 .. Len(disk[c].log)
      /\ \A i \in 1 .. Len(disk[c].log) : disk[c].log[i] # 0 => i <= Mark(disk[c].log)
  BY <1>2, MarkIs
<1>4. /\ Mark(disk[c].log) <= proc[c].mark
      /\ \A i \in 1 .. proc[c].mark : disk[c].log[i] \in acked \cup {0}
      /\ acked' = acked \cup Kept(disk[c].log)
      /\ UNCHANGED <<leases, proc, disk, started, confirmed, heads, shipped, made, failures>>
  BY DEF AckOK, ConfirmAtOnce, registry
<1>5. Len(disk[c].log) \in Nat /\ DOMAIN disk[c].log = 1 .. Len(disk[c].log)
  BY <1>2 DEF Logs
<1>6. \A i \in 1 .. Len(disk[c].log) : disk[c].log[i] # 0 => disk[c].log[i] \in acked
  <2> TAKE i \in 1 .. Len(disk[c].log)
  <2> HAVE disk[c].log[i] # 0
  <2>1. i <= Mark(disk[c].log)
    BY <1>3
  <2>2. i \in 1 .. proc[c].mark
    BY <1>2, <1>3, <1>4, <1>5, <2>1, ReplAssumption
  <2> QED BY <1>4, <2>2
<1>7. Kept(disk[c].log) \subseteq acked
  BY <1>5, <1>6 DEF Kept
<1>8. acked' = acked
  BY <1>4, <1>7
<1>9. Types'
  BY <1>4, <1>8 DEF Types, TLease, TopLease, TProc, TDisk, THeads, TReg, TShip, TCount
<1> QED BY <1>4, <1>8, <1>9 DEF DoesQuiet, Others, SameHold, SameSync

\* One of the things that the steps of a checkout do.
Does(c) ==
    \/ DoesQuiet(c) \/ DoesEnd(c) \/ DoesTake(c) \/ DoesKeepCopy(c) \/ DoesRestore(c)
    \/ DoesContinue(c) \/ DoesStart(c) \/ DoesGoBack(c) \/ DoesCommit(c)
    \/ DoesSyncStart(c) \/ DoesShip(c) \/ DoesPublish(c) \/ DoesConfirm(c)
    \/ DoesRecord(c) \/ DoesAck(c) \/ DoesCollect(c)

\* Every step does one of them, for one checkout, and keeps the types.
LEMMA StepDoes ==
    ASSUME Cases = {}, Types, IInv, ReplNext
    PROVE  Types' /\ \E c \in Checkout : Does(c)
<1>1. PICK c \in Checkout :
        \/ TakeLease(c) \/ FindLost(c) \/ Retake(c) \/ RestoreForWrite(c)
        \/ PrepareLineage(c) \/ StartUpkeep(c) \/ End(c) \/ Refresh(c)
        \/ Commit(c) \/ SyncStart(c) \/ Ship(c) \/ PublishHead(c) \/ ConfirmLineage(c)
        \/ RecordCopy(c) \/ CheckLease(c) \/ CollectLineages(c) \/ SyncFails(c)
        \/ ConfirmAtOnce(c)
  BY DEF ReplNext
<1>2. HeadsOK /\ LeaseOK(c) /\ SyncOK(c) /\ AckOK(c)
  BY DEF IInv
<1>3. CASE TakeLease(c) \/ FindLost(c) \/ Retake(c)
  BY <1>3, TakeLeaseDoes, FindLostDoes, RetakeDoes DEF Does
<1>4. CASE RestoreForWrite(c) \/ Refresh(c)
  BY <1>2, <1>4, RestoreForWriteDoes, RefreshDoes DEF Does
<1>5. CASE PrepareLineage(c) \/ ConfirmAtOnce(c)
  BY <1>2, <1>5, PrepareLineageDoes, ConfirmAtOnceDoes DEF Does
<1>6. CASE StartUpkeep(c) \/ End(c) \/ Commit(c) \/ SyncStart(c)
  BY <1>6, StartUpkeepDoes, EndDoes, CommitDoes, SyncStartDoes DEF Does
<1>7. CASE Ship(c) \/ PublishHead(c) \/ ConfirmLineage(c)
  BY <1>2, <1>7, ShipDoes, PublishHeadDoes, ConfirmLineageDoes DEF Does
<1>8. CASE RecordCopy(c) \/ CheckLease(c) \/ CollectLineages(c) \/ SyncFails(c)
  BY <1>8, RecordCopyDoes, CheckLeaseDoes, CollectLineagesDoes, SyncFailsDoes DEF Does
<1> QED BY <1>1, <1>3, <1>4, <1>5, <1>6, <1>7, <1>8

\* The numbers and the logs of the checkouts.
Numbers ==
    /\ TopLease \in Nat /\ TopLease <= LastFence
    /\ \A k \in 1 .. TopLease : leases[k] \in Checkout
    /\ \A e \in Checkout :
          /\ proc[e].lease \in Nat /\ proc[e].lease <= LastFence /\ proc[e].mark \in Nat
          /\ proc[e].sync.lineage \in Nat /\ proc[e].sync.writer \in Nat
          /\ proc[e].sync.txid \in Nat /\ proc[e].sync.log \in Logs
          /\ disk[e].log \in Logs /\ disk[e].lineage.fence \in Nat
          /\ disk[e].lineage.fence <= LastFence
          /\ disk[e].lineage.last \in Nat /\ disk[e].copy.lineage \in 0 .. LastFence
          /\ disk[e].copy.txid \in Nat

\* They are what their types say.
LEMMA NumbersOf == Types => Numbers
<1> SUFFICES ASSUME Types PROVE Numbers
  OBVIOUS
<1>1. /\ TopLease \in Nat /\ TopLease <= LastFence
      /\ \A k \in 1 .. TopLease : leases[k] \in Checkout
  BY DEF Types, TLease, TopLease
<1>2. ASSUME NEW e \in Checkout
      PROVE  /\ proc[e].lease \in Nat /\ proc[e].lease <= LastFence /\ proc[e].mark \in Nat
             /\ proc[e].sync.lineage \in Nat /\ proc[e].sync.writer \in Nat
             /\ proc[e].sync.txid \in Nat /\ proc[e].sync.log \in Logs
  <2>1. proc[e] \in ProcType
    BY DEF Types, TProc
  <2> QED BY <2>1, ReplAssumption DEF ProcType, SyncType
<1>3. ASSUME NEW e \in Checkout
      PROVE  /\ disk[e].log \in Logs /\ disk[e].lineage.fence \in Nat
             /\ disk[e].lineage.fence <= LastFence
             /\ disk[e].lineage.last \in Nat /\ disk[e].copy.lineage \in 0 .. LastFence
             /\ disk[e].copy.txid \in Nat
  <2>1. disk[e] \in DiskType
    BY DEF Types, TDisk
  <2> QED BY <2>1, ReplAssumption DEF DiskType
<1> QED BY <1>1, <1>2, <1>3 DEF Numbers

-----------------------------------------------------------------------------
(* The holds and the lineage files *)

\* Another checkout's step leaves a hold and its lineage file in order.
LEMMA LeaseOfOthers ==
    ASSUME Numbers, NEW c \in Checkout, NEW e \in Checkout, e # c,
           Others(c), LeaseOK(e),
           \/ leases' = leases
           \/ /\ TopLease' = TopLease + 1
              /\ \A k \in 1 .. TopLease : leases'[k] = leases[k]
    PROVE  LeaseOK(e)'
<1>1. proc'[e] = proc[e] /\ disk'[e] = disk[e]
  BY DEF Others
<1>2. CASE leases' = leases
  BY <1>1, <1>2 DEF LeaseOK, TopLease
<1>3. CASE TopLease' = TopLease + 1 /\ \A k \in 1 .. TopLease : leases'[k] = leases[k]
  BY <1>1, <1>3 DEF LeaseOK, Numbers
<1> QED BY <1>2, <1>3

\* A step that keeps the fences, the hold and the lineage file, and of a sync its names.
LEMMA LeaseKept ==
    ASSUME NEW c \in Checkout, LeaseOK(c), leases' = leases,
           proc'[c].lease = proc[c].lease, proc'[c].phase = proc[c].phase,
           disk'[c].lineage = disk[c].lineage,
           proc[c].lease = 0 => proc'[c].mark = 0,
           \/ proc'[c].sync.at = "none"
           \/ /\ proc[c].sync.at # "none"
              /\ proc'[c].sync.lineage = proc[c].sync.lineage
              /\ proc'[c].sync.writer = proc[c].sync.writer
    PROVE  LeaseOK(c)'
  BY DEF LeaseOK, TopLease

\* Every step keeps the holds and the lineage files in order.
LEMMA LeaseStep ==
    ASSUME Types, Types', NEW c \in Checkout, Does(c), \A e \in Checkout : LeaseOK(e)
    PROVE  \A e \in Checkout : LeaseOK(e)'
<1>1. Numbers
  BY NumbersOf
<1>2. LeaseOK(c)
  OBVIOUS
<1>3. NoSync.at = "none"
  BY DEF NoSync
<1>4. \/ leases' = leases
      \/ /\ TopLease' = TopLease + 1 /\ leases'[TopLease + 1] = c
         /\ \A k \in 1 .. TopLease : leases'[k] = leases[k]
  <2>1. CASE DoesTake(c)
    BY <2>1, NewLease DEF DoesTake, Types
  <2>2. CASE ~DoesTake(c)
    BY <2>2 DEF Does, DoesQuiet, DoesEnd, DoesKeepCopy, DoesRestore, DoesContinue, DoesStart,
                DoesGoBack, DoesCommit, DoesSyncStart, DoesShip, DoesPublish, DoesConfirm,
                DoesRecord, DoesAck, DoesCollect
  <2> QED BY <2>1, <2>2
<1>5. Others(c)
  BY DEF Does, DoesQuiet, DoesEnd, DoesTake, DoesKeepCopy, DoesRestore, DoesContinue, DoesStart,
         DoesGoBack, DoesCommit, DoesSyncStart, DoesShip, DoesPublish, DoesConfirm,
         DoesRecord, DoesAck, DoesCollect
<1>6. ASSUME NEW e \in Checkout, e # c PROVE LeaseOK(e)'
  BY <1>1, <1>4, <1>5, <1>6, LeaseOfOthers
<1>7. LeaseOK(c)'
  <2>a. proc[c].lease = 0 => proc[c].mark = 0
    BY <1>2 DEF LeaseOK
  <2>1. CASE DoesQuiet(c) \/ DoesCommit(c) \/ DoesCollect(c)
    <3>1. DoesQuiet(c) => LeaseOK(c)'
      BY <1>2, <1>3, <2>a, LeaseKept DEF DoesQuiet, SameHold, SameSync
    <3>2. DoesCommit(c) => LeaseOK(c)'
      BY <1>2, <2>a, LeaseKept DEF DoesCommit, SameHold, SameSync
    <3>3. DoesCollect(c) => LeaseOK(c)'
      BY <1>2, <1>3, <2>a, LeaseKept DEF DoesCollect, SameHold
    <3> QED BY <2>1, <3>1, <3>2, <3>3
  <2>2. CASE DoesShip(c) \/ DoesPublish(c) \/ DoesConfirm(c) \/ DoesRecord(c)
    <3>1. DoesShip(c) => LeaseOK(c)'
      BY <1>2, <2>a, LeaseKept DEF DoesShip, SameHold, SyncGoesOn
    <3>2. DoesPublish(c) => LeaseOK(c)'
      BY <1>2, <2>a, LeaseKept DEF DoesPublish, SameHold, SyncGoesOn
    <3>3. DoesConfirm(c) \/ DoesRecord(c) => LeaseOK(c)'
      BY <1>2, <2>a, LeaseKept DEF DoesConfirm, DoesRecord, SameHold, SyncGoesOn
    <3> QED BY <2>2, <3>1, <3>2, <3>3
  <2>3. CASE DoesAck(c)
    BY <1>2, <1>3, <2>3, LeaseKept DEF DoesAck, SyncGoesOn, LeaseOK
  <2>4. CASE DoesEnd(c)
    BY <1>1, <1>2, <2>4 DEF DoesEnd, Ended, NoSync, LeaseOK, TopLease, Numbers
  <2>5. CASE DoesKeepCopy(c) \/ DoesGoBack(c) \/ DoesRestore(c)
    <3>1. DoesKeepCopy(c) => LeaseOK(c)'
      BY <1>1, <1>2 DEF DoesKeepCopy, SameSync, LeaseOK, TopLease, Numbers
    <3>2. DoesGoBack(c) => LeaseOK(c)'
      BY <1>1, <1>2 DEF DoesGoBack, SameSync, LeaseOK, TopLease, Numbers
    <3>3. DoesRestore(c) => LeaseOK(c)'
      BY <1>1, <1>2 DEF DoesRestore, SameSync, LeaseOK, TopLease, Numbers
    <3> QED BY <2>5, <3>1, <3>2, <3>3
  <2>6. CASE DoesTake(c)
    <3>1. /\ TopLease' = TopLease + 1 /\ leases'[TopLease + 1] = c
          /\ \A k \in 1 .. TopLease : leases'[k] = leases[k]
      BY <2>6, NewLease DEF DoesTake, Types
    <3> DEFINE f == disk[c].lineage
               g == disk'[c].lineage
    <3>2. /\ f.fence \in Nat /\ f.last \in Nat /\ TopLease \in Nat
          /\ f.fence <= f.last /\ f.last <= TopLease
          /\ \A k \in 1 .. LastFence : f.fence <= k /\ k <= f.last => leases[k] = c
          /\ proc[c].lease = 0 => proc[c].mark = 0
      BY <1>1, <1>2 DEF LeaseOK, Numbers
    <3>3. /\ g.fence = f.fence
          /\ g.last = f.last \/ g.last = TopLease + 1
          /\ g.last = TopLease + 1 => TopLease + 1 \in {f.last, f.last + 1}
      BY <2>6, <3>2 DEF DoesTake
    <3>4. /\ proc'[c].lease = TopLease + 1 /\ proc'[c].phase = "restore"
          /\ proc'[c].sync.at = "none"
      BY <1>2, <2>6 DEF DoesTake, SameSync, LeaseOK
    <3> HIDE DEF f, g
    <3>5. \A k \in 1 .. LastFence : g.fence <= k /\ k <= g.last => leases'[k] = c
      BY <3>1, <3>2, <3>3
    <3>6. g.fence <= g.last /\ g.last <= TopLease + 1 /\ g.fence < TopLease + 1
      BY <3>2, <3>3
    <3> QED BY <3>1, <3>2, <3>4, <3>5, <3>6 DEF LeaseOK, g
  <2>7. CASE DoesContinue(c)
    <3> DEFINE f == disk[c].lineage
               g == disk'[c].lineage
               l == proc[c].lease
    <3>1. /\ f.fence \in Nat /\ f.last \in Nat /\ TopLease \in Nat /\ l \in Nat
          /\ f.fence <= f.last /\ f.last <= TopLease /\ f.last <= l /\ l <= TopLease
          /\ \A k \in 1 .. LastFence : f.fence <= k /\ k <= f.last => leases[k] = c
          /\ l # 0 /\ leases[l] = c
      BY <1>1, <1>2, <2>7 DEF LeaseOK, Numbers, DoesContinue
    <3>2. /\ g.fence = f.fence /\ g.fence # 0 /\ g.last = l /\ l \in {f.last, f.last + 1}
          /\ leases' = leases /\ TopLease' = TopLease
          /\ proc'[c].lease = l /\ proc'[c].phase = "write" /\ proc'[c].sync.at = "none"
      BY <1>2, <2>7 DEF DoesContinue, SameSync, LeaseOK, TopLease
    <3> HIDE DEF f, g, l
    <3>3. \A k \in 1 .. LastFence : g.fence <= k /\ k <= g.last => leases'[k] = c
      BY <3>1, <3>2
    <3>4. g.fence <= g.last /\ g.last <= TopLease
      BY <3>1, <3>2
    <3> QED BY <3>1, <3>2, <3>3, <3>4 DEF LeaseOK, g
  <2>8. CASE DoesStart(c)
    BY <1>1, <1>2, <2>8 DEF DoesStart, SameSync, LeaseOK, TopLease, Numbers
  <2>9. CASE DoesSyncStart(c)
    BY <1>1, <1>2, <2>9 DEF DoesSyncStart, SameHold, LeaseOK, TopLease, Numbers
  <2> QED BY <2>1, <2>2, <2>3, <2>4, <2>5, <2>6, <2>7, <2>8, <2>9 DEF Does
<1> QED BY <1>6, <1>7

-----------------------------------------------------------------------------
(* The registry of lineages *)

\* Fences are only added.
LeasesGrow == TopLease <= TopLease' /\ \A k \in 1 .. TopLease : leases'[k] = leases[k]

\* A lineage file moves on to a later lineage or a later fence of its own.
FencesGrow ==
    \A e \in Checkout :
        /\ disk[e].lineage.fence <= disk'[e].lineage.fence
        /\ disk[e].lineage.fence = disk'[e].lineage.fence
              => disk[e].lineage.last <= disk'[e].lineage.last

\* What every step leaves alone or lets grow.
LEMMA ReplStepFrame ==
    ASSUME Types, NEW c \in Checkout, Does(c), \A e \in Checkout : LeaseOK(e)
    PROVE  Others(c) /\ LeasesGrow /\ FencesGrow
<1>1. Numbers
  BY NumbersOf
<1>2. LeasesGrow
  <2>1. CASE DoesTake(c)
    <3>1. /\ TopLease \in Nat /\ TopLease' = TopLease + 1
          /\ \A k \in 1 .. TopLease : leases'[k] = leases[k]
      BY <2>1, NewLease DEF DoesTake, Types
    <3> QED BY <3>1 DEF LeasesGrow
  <2>2. CASE leases' = leases
    BY <1>1, <2>2 DEF LeasesGrow, TopLease, Numbers
  <2>3. leases' = leases \/ DoesTake(c)
    BY DEF Does, DoesQuiet, DoesEnd, DoesKeepCopy, DoesRestore, DoesContinue, DoesStart,
           DoesGoBack, DoesCommit, DoesSyncStart, DoesShip, DoesPublish, DoesConfirm,
           DoesRecord, DoesAck, DoesCollect
  <2> QED BY <2>1, <2>2, <2>3
<1>3. Others(c)
  BY DEF Does, DoesQuiet, DoesEnd, DoesTake, DoesKeepCopy, DoesRestore, DoesContinue, DoesStart,
         DoesGoBack, DoesCommit, DoesSyncStart, DoesShip, DoesPublish, DoesConfirm,
         DoesRecord, DoesAck, DoesCollect
<1>4. \/ disk'[c].lineage = disk[c].lineage
      \/ DoesTake(c) \/ DoesContinue(c) \/ DoesStart(c)
  BY DEF Does, DoesQuiet, DoesEnd, DoesKeepCopy, DoesRestore,
         DoesGoBack, DoesCommit, DoesSyncStart, DoesShip, DoesPublish, DoesConfirm,
         DoesRecord, DoesAck, DoesCollect
<1>5. LeaseOK(c)
  OBVIOUS
<1>6. /\ disk[c].lineage.fence <= disk'[c].lineage.fence
      /\ disk[c].lineage.fence = disk'[c].lineage.fence
            => disk[c].lineage.last <= disk'[c].lineage.last
  <2>1. CASE disk'[c].lineage = disk[c].lineage
    BY <1>1, <2>1 DEF Numbers
  <2>2. CASE DoesTake(c)
    BY <1>1, <1>5, <2>2 DEF Numbers, DoesTake, LeaseOK
  <2>3. CASE DoesContinue(c)
    BY <1>1, <1>5, <2>3 DEF Numbers, DoesContinue, LeaseOK
  <2>4. CASE DoesStart(c)
    BY <1>1, <1>5, <2>4 DEF Numbers, DoesStart, LeaseOK
  <2> QED BY <1>4, <2>1, <2>2, <2>3, <2>4
<1>7. FencesGrow
  BY <1>1, <1>3, <1>6 DEF FencesGrow, Others, Numbers
<1> QED BY <1>2, <1>3, <1>7

\* The fence of a lineage file was taken by its checkout, so that two files never name
\* one lineage.
LEMMA OwnFence ==
    ASSUME Numbers, NEW c \in Checkout, LeaseOK(c), disk[c].lineage.fence # 0
    PROVE  /\ disk[c].lineage.fence \in 1 .. TopLease
           /\ leases[disk[c].lineage.fence] = c
<1>1. disk[c].lineage.fence \in 1 .. LastFence
  BY ReplAssumption DEF Numbers
<1> QED BY <1>1 DEF LeaseOK, Numbers

\* The records of the registry name fences, of a lineage that its owner has not moved
\* behind, and a lineage's highest writer is at most its owner's last fence.
LEMMA RegStep ==
    ASSUME Types, Types', NEW c \in Checkout, Does(c), \A e \in Checkout : LeaseOK(e),
           RegOK
    PROVE  RegOK'
<1>1. Numbers /\ LeaseOK(c)
  BY NumbersOf
<1>2. LeasesGrow /\ FencesGrow
  BY ReplStepFrame
<1>3. /\ started \subseteq 1 .. LastFence /\ confirmed \subseteq 1 .. LastFence
      /\ \A h \in heads : h.lineage \in 1 .. LastFence /\ h.writer \in 1 .. LastFence
  BY DEF Types, TReg, THeads, HeadType, Lineage
<1>4. ASSUME NEW l \in 1 .. TopLease
      PROVE  /\ leases'[l] = leases[l] /\ leases[l] \in Checkout
             /\ Owner(l).fence <= Owner(l)'.fence
             /\ Owner(l).fence = Owner(l)'.fence => Owner(l).last <= Owner(l)'.last
  BY <1>1, <1>2 DEF LeasesGrow, FencesGrow, Owner, Numbers
<1>5. Numbers'
  BY NumbersOf, PTL
<1>6. ASSUME NEW l \in 1 .. TopLease
      PROVE  /\ Owner(l).fence \in Nat /\ Owner(l)'.fence \in Nat
             /\ Owner(l).last \in Nat /\ Owner(l)'.last \in Nat
  BY <1>1, <1>4, <1>5 DEF Owner, Numbers
<1>7. TopLease \in Nat /\ TopLease' \in Nat /\ TopLease <= TopLease'
  BY <1>1, <1>2, <1>5 DEF LeasesGrow, Numbers
<1>8. ASSUME NEW l \in started \cup confirmed
      PROVE  l <= TopLease' /\ l <= Owner(l)'.fence
  <2>1. l \in 1 .. TopLease /\ l <= Owner(l).fence
    BY <1>3, <1>7, <1>8 DEF RegOK
  <2> QED BY <1>4, <1>6, <1>7, <2>1
<1>9. ASSUME NEW h \in heads
      PROVE  /\ h.lineage <= h.writer /\ h.writer <= TopLease'
             /\ h.lineage <= Owner(h.lineage)'.fence
             /\ h.lineage = Owner(h.lineage)'.fence => h.writer <= Owner(h.lineage)'.last
  <2>1. /\ h.lineage \in 1 .. TopLease /\ h.writer \in 1 .. TopLease
        /\ h.lineage <= h.writer /\ h.lineage <= Owner(h.lineage).fence
        /\ h.lineage = Owner(h.lineage).fence => h.writer <= Owner(h.lineage).last
    BY <1>3, <1>7 DEF RegOK
  <2> QED BY <1>4, <1>6, <1>7, <2>1
<1>10. (\A l \in started' \cup confirmed' : l <= TopLease' /\ l <= Owner(l)'.fence)
  <2>1. CASE DoesStart(c)
    <3>1. \A l \in started' \cup confirmed' : l \in started \cup confirmed \/ l = proc[c].lease
      BY <2>1 DEF DoesStart
    <3>2. /\ proc[c].lease <= TopLease /\ leases[proc[c].lease] = c
          /\ proc[c].lease \in 1 .. TopLease
          /\ disk'[c].lineage.fence = proc[c].lease
      BY <1>1, <2>1 DEF DoesStart, LeaseOK, Numbers
    <3>3. \A l \in 1 .. TopLease : l = proc[c].lease => Owner(l)'.fence = l
      BY <1>4, <3>2 DEF Owner
    <3> QED BY <1>7, <1>8, <3>1, <3>2, <3>3
  <2>2. CASE DoesConfirm(c)
    <3>1. \A l \in started' \cup confirmed' : \/ l \in started \cup confirmed
                                             \/ l = disk[c].lineage.fence
      BY <1>1, <2>2 DEF DoesConfirm, LeaseOK
    <3>2. /\ disk[c].lineage.fence \in 1 .. TopLease
          /\ leases[disk[c].lineage.fence] = c
          /\ disk'[c] = disk[c]
      BY <1>1, <2>2, OwnFence DEF DoesConfirm, LeaseOK
    <3>3. \A l \in 1 .. TopLease : l = disk[c].lineage.fence => Owner(l)'.fence = l
      BY <1>4, <3>2 DEF Owner
    <3> QED BY <1>7, <1>8, <3>1, <3>2, <3>3
  <2>3. CASE ~DoesStart(c) /\ ~DoesConfirm(c)
    <3>1. started' \subseteq started /\ confirmed' \subseteq confirmed
      BY <2>3 DEF Does, DoesQuiet, DoesEnd, DoesTake, DoesKeepCopy, DoesRestore, DoesContinue,
                  DoesGoBack, DoesCommit, DoesSyncStart, DoesShip, DoesPublish, DoesRecord,
                  DoesAck, DoesCollect
    <3> QED BY <1>8, <3>1
  <2> QED BY <2>1, <2>2, <2>3
<1>11. /\ \A h \in heads' :
             /\ h.lineage <= h.writer /\ h.writer <= TopLease'
             /\ h.lineage <= Owner(h.lineage)'.fence
             /\ h.lineage = Owner(h.lineage)'.fence => h.writer <= Owner(h.lineage)'.last
       /\ \A g, h \in heads' : g.lineage = h.lineage /\ g.writer = h.writer => g = h
  <2>1. CASE DoesPublish(c)
    <3> DEFINE n == HeadOf(proc[c].sync)
    <3>1. /\ \A h \in heads' : h = n \/ h \in heads
          /\ \A h \in heads' : h.lineage = n.lineage /\ h.writer = n.writer => h = n
          /\ n.lineage = disk[c].lineage.fence /\ n.writer = proc[c].lease
          /\ disk'[c] = disk[c] /\ proc[c].phase = "write"
      BY <1>1, <2>1 DEF DoesPublish, HeadOf, LeaseOK
    <3> HIDE DEF n
    <3>2. /\ n.lineage \in 1 .. TopLease /\ leases[n.lineage] = c
          /\ disk[c].lineage.last = proc[c].lease /\ n.lineage <= n.writer
          /\ n.writer <= TopLease
      BY <1>1, <3>1, OwnFence DEF LeaseOK
    <3>3. \A h : h = n => /\ Owner(h.lineage)'.fence = h.lineage
                         /\ Owner(h.lineage)'.last = h.writer
      BY <1>4, <3>1, <3>2 DEF Owner
    <3>4. n.lineage \in Nat /\ n.writer \in Nat
      BY <1>1, <3>1 DEF Numbers
    <3>5. \A h : h = n =>
            /\ h.lineage <= h.writer /\ h.writer <= TopLease'
            /\ h.lineage <= Owner(h.lineage)'.fence
            /\ h.lineage = Owner(h.lineage)'.fence => h.writer <= Owner(h.lineage)'.last
      BY <1>7, <3>2, <3>3, <3>4
    <3>6. \A g, h \in heads' : g.lineage = h.lineage /\ g.writer = h.writer => g = h
      BY <3>1 DEF RegOK
    <3> QED BY <1>9, <3>1, <3>5, <3>6
  <2>2. CASE ~DoesPublish(c)
    <3>1. heads' \subseteq heads
      BY <2>2 DEF Does, DoesQuiet, DoesEnd, DoesTake, DoesKeepCopy, DoesRestore, DoesContinue,
                  DoesStart, DoesGoBack, DoesCommit, DoesSyncStart, DoesShip, DoesConfirm,
                  DoesRecord, DoesAck, DoesCollect
    <3> QED BY <1>9, <3>1 DEF RegOK
  <2> QED BY <2>1, <2>2
<1> QED BY <1>10, <1>11 DEF RegOK, Owner

\* While the records stay, so does what is read from them.
LEMMA SameRegistry ==
    ASSUME UNCHANGED <<started, confirmed, heads>>
    PROVE  /\ Complete' = Complete /\ CurrentLineage' = CurrentLineage
           /\ NewestStarted' = NewestStarted /\ CurrentHead' = CurrentHead
<1>1. Complete' = Complete
  BY DEF Complete
<1>2. CurrentLineage' = CurrentLineage /\ NewestStarted' = NewestStarted
  BY <1>1 DEF CurrentLineage, NewestStarted
<1> QED BY <1>1, <1>2 DEF CurrentHead

\* Only four kinds of steps write records.
LEMMA RegistrySteps ==
    ASSUME NEW c \in Checkout, Does(c)
    PROVE  \/ UNCHANGED <<started, confirmed, heads>>
           \/ DoesStart(c) \/ DoesPublish(c) \/ DoesConfirm(c) \/ DoesCollect(c)
  BY DEF Does, DoesQuiet, DoesEnd, DoesTake, DoesKeepCopy, DoesRestore, DoesContinue,
         DoesGoBack, DoesCommit, DoesSyncStart, DoesShip, DoesRecord, DoesAck

\* A sync stays as it is, ends, or goes on to its next step.
LEMMA SyncSteps ==
    ASSUME NEW c \in Checkout, Does(c)
    PROVE  \/ SameSync(c) \/ proc'[c].sync.at = "none"
           \/ DoesSyncStart(c) \/ DoesShip(c) \/ DoesPublish(c) \/ DoesConfirm(c)
           \/ DoesRecord(c) \/ DoesAck(c)
  BY DEF Does, DoesQuiet, DoesEnd, DoesTake, DoesKeepCopy, DoesRestore, DoesContinue,
         DoesStart, DoesGoBack, DoesCommit, DoesCollect, Ended, NoSync

\* The current and the newest started lineage never go back.
LEMMA LineagesGrow ==
    ASSUME Types, Types', NEW c \in Checkout, Does(c)
    PROVE  CurrentLineage <= CurrentLineage' /\ NewestStarted <= NewestStarted'
<1>1. TReg /\ TReg'
  BY DEF Types
<1>2. LineageFacts
  BY <1>1, LineageIs
<1>3. LineageFacts'
  BY <1>1, LineageIs, PTL
<1>4. SUFFICES /\ CurrentLineage # 0 => CurrentLineage \in Complete'
               /\ NewestStarted # 0 => NewestStarted \in started'
  BY <1>2, <1>3, ReplAssumption DEF LineageFacts
<1>5. CASE UNCHANGED <<started, confirmed, heads>>
  BY <1>2, <1>5, SameRegistry DEF LineageFacts
<1>6. CASE DoesStart(c) \/ DoesConfirm(c)
  BY <1>2, <1>6 DEF DoesStart, DoesConfirm, Complete, LineageFacts
<1>7. CASE DoesPublish(c)
  <2>1. HeadOf(proc[c].sync).lineage = proc[c].sync.lineage
    BY DEF HeadOf
  <2>2. Complete \subseteq Complete'
    BY <1>7, <2>1 DEF DoesPublish, Complete
  <2> QED BY <1>2, <1>7, <2>2 DEF DoesPublish, LineageFacts
<1>8. CASE DoesCollect(c)
  <2>1. \A h \in heads : h.lineage \in Nat
    BY ReplAssumption DEF Types, THeads, HeadType, Lineage
  <2>2. CurrentLineage = proc[c].sync.lineage /\ CurrentLineage \in Nat
    BY <1>2, <1>8 DEF DoesCollect, LineageFacts
  <2>3. CurrentLineage # 0 => CurrentLineage \in Complete'
    BY <1>2, <1>8, <2>1, <2>2 DEF DoesCollect, Complete, LineageFacts
  <2>4. NewestStarted # 0 => NewestStarted \in started'
    BY <1>2, <1>8, <2>2 DEF DoesCollect, LineageFacts
  <2> QED BY <2>3, <2>4
<1> QED BY <1>5, <1>6, <1>7, <1>8, RegistrySteps

\* A lineage file names a lineage that has a record or was replaced; a sync that published
\* finds its head, and once its lineage is confirmed that is current or was replaced.
LEMMA KnownStep ==
    ASSUME Types, Types', NEW c \in Checkout, Does(c), RegOK,
           \A e \in Checkout : LeaseOK(e) /\ KnownOK(e)
    PROVE  \A e \in Checkout : KnownOK(e)'
<1>1. Numbers /\ LineageFacts /\ LineageFacts'
  <2>1. TReg /\ TReg'
    BY DEF Types
  <2>2. LineageFacts'
    BY <2>1, LineageIs, PTL
  <2> QED BY <2>1, <2>2, NumbersOf, LineageIs
<1>2. CurrentLineage <= CurrentLineage' /\ Others(c)
  BY LineagesGrow, ReplStepFrame
<1>3. CurrentLineage \in Nat /\ CurrentLineage' \in Nat
  BY <1>1, ReplAssumption DEF LineageFacts
<1>4. \A h \in heads : h.lineage \in Nat
  BY ReplAssumption DEF Types, THeads, HeadType, Lineage
<1>5. ASSUME NEW f \in Nat, f \in started \/ CurrentLineage > f
      PROVE  f \in started' \/ CurrentLineage' > f
  <2>1. CASE CurrentLineage > f
    BY <1>2, <1>3, <2>1
  <2>2. CASE f \in started
    <3>1. CASE started \subseteq started'
      BY <2>2, <3>1
    <3>2. CASE DoesCollect(c)
      BY <1>2, <1>3, <2>2, <3>2 DEF DoesCollect
    <3>3. started \subseteq started' \/ DoesCollect(c)
      BY RegistrySteps DEF DoesStart, DoesPublish, DoesConfirm
    <3> QED BY <3>1, <3>2, <3>3
  <2> QED BY <1>5, <2>1, <2>2
<1>6. ASSUME NEW h \in heads, DoesPublish(c) => h.lineage # proc[c].sync.lineage
      PROVE  h \in heads' \/ CurrentLineage' > h.lineage
  <2>1. CASE DoesPublish(c)
    BY <1>6, <2>1 DEF DoesPublish
  <2>2. CASE DoesCollect(c)
    BY <1>2, <1>3, <1>4, <2>2 DEF DoesCollect
  <2>3. CASE heads' = heads
    BY <2>3
  <2> QED BY <2>1, <2>2, <2>3, RegistrySteps DEF DoesStart, DoesConfirm
<1>7. ASSUME NEW e \in Checkout, e # c
      PROVE  KnownOK(e)'
  <2>1. /\ proc'[e] = proc[e] /\ disk'[e] = disk[e] /\ LeaseOK(e) /\ KnownOK(e)
        /\ disk[e].lineage.fence \in Nat /\ proc[e].sync.lineage \in Nat
    BY <1>1, <1>2, <1>7 DEF Others, Numbers
  <2>2. disk[e].lineage.fence # 0 =>
          disk[e].lineage.fence \in started' \/ CurrentLineage' > disk[e].lineage.fence
    BY <1>5, <2>1 DEF KnownOK
  <2>3. proc[e].sync.at \in {"copy", "check", "collect"} =>
          CurrentLineage' >= proc[e].sync.lineage
    BY <1>2, <1>3, <2>1 DEF KnownOK
  <2>4. ASSUME proc[e].sync.at \in {"confirm", "copy", "check"}
        PROVE  \/ \E h \in heads' : SyncHead(proc[e].sync, h)
               \/ CurrentLineage' > proc[e].sync.lineage
    <3>1. CASE CurrentLineage > proc[e].sync.lineage
      BY <1>2, <1>3, <2>1, <3>1
    <3>2. ASSUME NEW h \in heads, SyncHead(proc[e].sync, h)
          PROVE  h \in heads' \/ CurrentLineage' > proc[e].sync.lineage
      <4>1. h.lineage = disk[e].lineage.fence /\ disk[e].lineage.fence # 0
            /\ h.lineage = proc[e].sync.lineage
        BY <2>1, <2>4, <3>2 DEF SyncHead, LeaseOK
      <4>2. leases[h.lineage] = e
        BY <1>1, <2>1, <4>1, OwnFence
      <4>3. DoesPublish(c) => h.lineage # proc[c].sync.lineage
        <5>1. SUFFICES ASSUME DoesPublish(c), h.lineage = proc[c].sync.lineage PROVE FALSE
          OBVIOUS
        <5>2. LeaseOK(c) /\ h.lineage = disk[c].lineage.fence /\ disk[c].lineage.fence # 0
          BY <5>1 DEF DoesPublish, LeaseOK
        <5>3. leases[h.lineage] = c
          BY <1>1, <5>2, OwnFence
        <5> QED BY <1>7, <4>2, <5>3
      <4> QED BY <1>6, <4>1, <4>3
    <3> QED BY <2>1, <2>4, <3>1, <3>2 DEF KnownOK
  <2> QED BY <2>1, <2>2, <2>3, <2>4 DEF KnownOK, SyncHead
<1>8. KnownOK(c)'
  <2> DEFINE s == proc[c].sync
             t == proc'[c].sync
             f == disk[c].lineage.fence
             g == disk'[c].lineage.fence
  <2>1. /\ LeaseOK(c) /\ KnownOK(c) /\ f \in Nat /\ s.lineage \in Nat
    BY <1>1 DEF Numbers
  <2>2. g # 0 => g \in started' \/ CurrentLineage' > g
    <3>1. CASE g = f
      BY <1>5, <2>1, <3>1 DEF KnownOK
    <3>2. CASE DoesStart(c)
      BY <3>2, SMTT(30) DEF DoesStart
    <3>3. g = f \/ DoesStart(c)
      BY DEF Does, DoesQuiet, DoesEnd, DoesTake, DoesKeepCopy, DoesRestore, DoesContinue,
             DoesGoBack, DoesCommit, DoesSyncStart, DoesShip, DoesPublish, DoesConfirm,
             DoesRecord, DoesAck, DoesCollect
    <3> QED BY <3>1, <3>2, <3>3
  <2>3. s.at \in {"confirm", "copy", "check"} /\ ~DoesPublish(c) =>
            (\E h \in heads' : SyncHead(s, h)) \/ CurrentLineage' > s.lineage
    <3>1. SUFFICES ASSUME s.at \in {"confirm", "copy", "check"}, ~DoesPublish(c)
                   PROVE  (\E h \in heads' : SyncHead(s, h)) \/ CurrentLineage' > s.lineage
      OBVIOUS
    <3>2. CASE CurrentLineage > s.lineage
      BY <1>2, <1>3, <2>1, <3>2
    <3>3. ASSUME NEW h \in heads, SyncHead(s, h)
          PROVE  h \in heads' \/ CurrentLineage' > s.lineage
      BY <1>6, <3>1, <3>3 DEF SyncHead
    <3> QED BY <2>1, <3>1, <3>2, <3>3 DEF KnownOK
  <2>4. s.at \in {"copy", "check", "collect"} => CurrentLineage' >= s.lineage
    BY <1>2, <1>3, <2>1 DEF KnownOK
  <2>5. /\ t.at \in {"copy", "check", "collect"} => CurrentLineage' >= t.lineage
        /\ t.at \in {"confirm", "copy", "check"} =>
              (\E h \in heads' : SyncHead(t, h)) \/ CurrentLineage' > t.lineage
    <3>1. CASE SameSync(c) /\ ~DoesPublish(c)
      BY <2>3, <2>4, <3>1 DEF SameSync
    <3>2. CASE t.at = "none" \/ DoesSyncStart(c) \/ DoesShip(c)
      BY <3>2 DEF DoesSyncStart, DoesShip, SyncGoesOn
    <3>3. CASE DoesPublish(c)
      <4>1. HeadOf(s) \in heads' /\ t.at = "confirm" /\ SyncHead(t, HeadOf(s))
        BY <3>3 DEF DoesPublish, SyncGoesOn, SyncHead, HeadOf
      <4> QED BY <4>1
    <3>4. CASE DoesConfirm(c)
      <4>1. /\ s.at = "confirm" /\ t.at = "copy" /\ t.lineage = s.lineage
            /\ t.writer = s.writer /\ t.log = s.log
            /\ confirmed' = confirmed \cup {s.lineage} /\ heads' = heads
            /\ started' = started
        BY <3>4 DEF DoesConfirm, SyncGoesOn
      <4>2. (\E h \in heads : SyncHead(s, h)) \/ CurrentLineage > s.lineage
        BY <2>1, <4>1 DEF KnownOK
      <4>3. s.lineage \in started \/ CurrentLineage > s.lineage
        BY <2>1, <4>1 DEF KnownOK, LeaseOK
      <4>4. CurrentLineage' >= s.lineage
        <5>1. CASE CurrentLineage > s.lineage
          BY <1>2, <1>3, <2>1, <5>1
        <5>2. CASE s.lineage \in started /\ \E h \in heads : SyncHead(s, h)
          <6>1. s.lineage \in Complete'
            BY <4>1, <5>2 DEF Complete, SyncHead
          <6> QED BY <1>1, <1>3, <2>1, <6>1 DEF LineageFacts
        <5> QED BY <4>2, <4>3, <5>1, <5>2
      <4>5. (\E h \in heads' : SyncHead(t, h)) \/ CurrentLineage' > t.lineage
        BY <1>2, <1>3, <2>1, <4>1, <4>2 DEF SyncHead
      <4> QED BY <4>1, <4>4, <4>5
    <3>5. CASE DoesRecord(c)
      <4>1. /\ s.at = "copy" /\ t.at = "check" /\ t.lineage = s.lineage
            /\ t.writer = s.writer /\ t.log = s.log /\ heads' = heads
        BY <3>5 DEF DoesRecord, SyncGoesOn
      <4>2. (\E h \in heads : SyncHead(s, h)) \/ CurrentLineage > s.lineage
        BY <2>1, <4>1 DEF KnownOK
      <4> QED BY <1>2, <1>3, <2>1, <2>4, <4>1, <4>2 DEF SyncHead
    <3>6. CASE DoesAck(c)
      BY <2>4, <3>6 DEF DoesAck, SyncGoesOn, NoSync
    <3> QED BY <3>1, <3>2, <3>3, <3>4, <3>5, <3>6, SyncSteps
  <2> QED BY <2>2, <2>5 DEF KnownOK, SyncHead
<1> QED BY <1>7, <1>8

-----------------------------------------------------------------------------
(* The logs of heads, copies and syncs *)

\* The heads are typed records of lineages that have a replica path.
LEMMA HeadNumbers ==
    ASSUME Types
    PROVE  /\ \A h \in heads : /\ h \in HeadType /\ h.lineage \in Lineage
                              /\ h.lineage \in Nat /\ h.lineage # 0 /\ h.writer \in Nat
                              /\ h.txid \in Nat /\ h.log \in Logs
           /\ \A k \in Lineage : shipped[k].txid \in Nat /\ shipped[k].log \in Logs
<1>1. \A h \in heads : h \in HeadType
  BY DEF Types, THeads
<1>2. \A h \in heads : /\ h.lineage \in Lineage
                       /\ h.lineage \in Nat /\ h.lineage # 0 /\ h.writer \in Nat
                       /\ h.txid \in Nat /\ h.log \in Logs
  BY <1>1, ReplAssumption DEF HeadType, Lineage
<1>3. \A k \in Lineage : shipped[k].txid \in Nat /\ shipped[k].log \in Logs
  BY ReplAssumption DEF Types, TShip
<1> QED BY <1>1, <1>2, <1>3

\* What the replica paths hold moves on.
LEMMA ShippedGrows ==
    ASSUME Types, NEW c \in Checkout, Does(c)
    PROVE  \A k \in Lineage : shipped[k].txid <= shipped'[k].txid
<1>1. \A k \in Lineage : shipped[k].txid \in Nat
  BY HeadNumbers
<1>2. CASE shipped' = shipped
  BY <1>1, <1>2
<1>3. CASE DoesShip(c)
  BY <1>1, <1>3 DEF DoesShip
<1> QED BY <1>2, <1>3
    DEF Does, DoesQuiet, DoesEnd, DoesTake, DoesKeepCopy, DoesRestore, DoesContinue, DoesStart,
        DoesGoBack, DoesCommit, DoesSyncStart, DoesPublish, DoesConfirm, DoesRecord, DoesAck,
        DoesCollect

\* What a step that publishes adds: the head of its own lineage and its own, highest
\* writer.
LEMMA PublishedHead ==
    ASSUME Types, NEW c \in Checkout, DoesPublish(c), LeaseOK(c), RegOK,
           NEW n, n = HeadOf(proc[c].sync)
    PROVE  /\ n \in heads' /\ \A h \in heads' : h = n \/ h \in heads
           /\ n.lineage = disk[c].lineage.fence /\ n.lineage = proc[c].sync.lineage
           /\ n.lineage \in Lineage /\ leases[n.lineage] = c
           /\ n.log = proc[c].sync.log /\ n.txid = proc[c].sync.txid
           /\ n.span = Len(shipped[n.lineage].log) /\ n.writer = proc[c].lease
           /\ \A h \in heads : h.lineage = n.lineage => h.writer <= n.writer
<1>1. Numbers
  BY NumbersOf
<1>2. /\ n \in heads' /\ \A h \in heads' : h = n \/ h \in heads
      /\ n.lineage = disk[c].lineage.fence /\ n.lineage = proc[c].sync.lineage
      /\ n.log = proc[c].sync.log /\ n.txid = proc[c].sync.txid
      /\ n.span = Len(shipped[n.lineage].log) /\ n.writer = proc[c].lease
      /\ n.lineage # 0 /\ disk[c].lineage.last = proc[c].lease
  BY DEF DoesPublish, HeadOf, LeaseOK
<1>3. n.lineage \in 1 .. TopLease /\ leases[n.lineage] = c
  BY <1>1, <1>2, OwnFence
<1>4. n.lineage \in Lineage
  BY <1>1, <1>3, ReplAssumption DEF Numbers, Lineage
<1>5. \A h \in heads : h.lineage = n.lineage => h.writer <= n.writer
  BY <1>2, <1>3 DEF RegOK, Owner
<1> QED BY <1>2, <1>3, <1>4, <1>5

\* The heads of a lineage are nested, end with a commit and name what was shipped.
LEMMA HeadsStep ==
    ASSUME Types, Types', NEW c \in Checkout, Does(c), LeaseOK(c), SyncOK(c), RegOK, HeadsOK
    PROVE  HeadsOK'
<1>1. /\ \A h \in heads : h.lineage \in Lineage /\ h.writer \in Nat /\ h.txid \in Nat
      /\ \A k \in Lineage : shipped[k].txid \in Nat /\ shipped[k].txid <= shipped'[k].txid
  BY HeadNumbers, ShippedGrows
<1>2. \A k \in Lineage : shipped'[k].txid \in Nat
  BY ReplAssumption DEF Types, TShip
<1>3. \A h \in heads : /\ EndsFull(h.log) /\ Len(h.log) <= h.span
                       /\ h.txid <= shipped'[h.lineage].txid
  BY <1>1, <1>2 DEF HeadsOK
<1>4. CASE heads' \subseteq heads
  BY <1>3, <1>4 DEF HeadsOK
<1>5. CASE DoesPublish(c)
  <2> DEFINE n == HeadOf(proc[c].sync)
  <2>1. /\ n \in heads' /\ \A h \in heads' : h = n \/ h \in heads
        /\ n.lineage = proc[c].sync.lineage
        /\ n.log = proc[c].sync.log /\ n.txid = proc[c].sync.txid
        /\ n.span = Len(shipped[n.lineage].log) /\ n.writer = proc[c].lease
        /\ \A h \in heads : h.lineage = n.lineage => h.writer <= n.writer
        /\ n.lineage \in Lineage
    BY <1>5, PublishedHead
  <2>2. /\ \A h \in heads' : h.lineage = n.lineage /\ h.writer = n.writer => h = n
        /\ proc[c].sync.at = "head" /\ shipped' = shipped
    BY <1>5 DEF DoesPublish, HeadOf
  <2> HIDE DEF n
  <2>3. /\ EndsFull(n.log) /\ Len(n.log) <= n.span
        /\ \A h \in heads : h.lineage = n.lineage => Prefix(h.log, n.log)
        /\ n.txid = shipped[n.lineage].txid
    BY <2>1, <2>2 DEF SyncOK
  <2>4. n.log \in Logs /\ n.writer \in Nat
    BY <2>1, NumbersOf DEF Numbers
  <2>5. Prefix(n.log, n.log)
    BY <2>4, PrefixLaws
  <2>6. n.txid <= shipped'[n.lineage].txid
    BY <1>1, <2>1, <2>2, <2>3
  <2>7. ASSUME NEW g \in heads', NEW h \in heads', g.lineage = h.lineage, g.writer <= h.writer
        PROVE  Prefix(g.log, h.log)
    <3>1. CASE g = n /\ h = n
      BY <2>5, <3>1
    <3>2. CASE g # n /\ h # n
      BY <2>1, <2>7, <3>2 DEF HeadsOK
    <3>3. CASE g # n /\ h = n
      BY <2>1, <2>3, <2>7, <3>3
    <3>4. CASE g = n /\ h # n
      BY <1>1, <2>1, <2>2, <2>4, <2>7, <3>4
    <3> QED BY <3>1, <3>2, <3>3, <3>4
  <2>8. \A h \in heads' : /\ EndsFull(h.log) /\ Len(h.log) <= h.span
                          /\ h.txid <= shipped'[h.lineage].txid
    BY <1>3, <2>1, <2>3, <2>6
  <2> QED BY <2>7, <2>8 DEF HeadsOK
<1>6. heads' \subseteq heads \/ DoesPublish(c)
  BY RegistrySteps DEF DoesStart, DoesConfirm, DoesCollect
<1> QED BY <1>4, <1>5, <1>6

\* The newest started lineage moves only when a lineage starts, to the one that starts.
LEMMA NewestIs ==
    ASSUME Types, Types', NEW c \in Checkout, Does(c)
    PROVE  \/ NewestStarted' = NewestStarted
           \/ DoesStart(c) /\ NewestStarted' = proc[c].lease
<1>1. TReg /\ TReg' /\ Numbers
  BY NumbersOf DEF Types
<1>2. LineageFacts /\ LineageFacts'
  <2>1. LineageFacts'
    BY <1>1, LineageIs, PTL
  <2> QED BY <1>1, <2>1, LineageIs
<1>3. NewestStarted \in Nat /\ NewestStarted' \in Nat /\ NewestStarted <= NewestStarted'
  BY <1>2, LineagesGrow, ReplAssumption DEF LineageFacts
<1>4. CASE started' \subseteq started
  BY <1>2, <1>3, <1>4 DEF LineageFacts
<1>5. CASE DoesStart(c)
  <2>1. /\ proc[c].lease \in started' /\ \A l \in started' : l \in started \/ l = proc[c].lease
        /\ NewestStarted <= proc[c].lease /\ proc[c].lease \in Nat
    BY <1>1, <1>5 DEF DoesStart, Numbers
  <2>2. proc[c].lease <= NewestStarted' /\ (NewestStarted' # 0 => NewestStarted' \in started')
    BY <1>2, <2>1 DEF LineageFacts
  <2>3. NewestStarted' <= proc[c].lease
    <3>1. CASE NewestStarted' = 0
      BY <1>3, <2>1, <3>1
    <3>2. CASE NewestStarted' \in started
      BY <1>2, <1>3, <2>1, <3>2 DEF LineageFacts
    <3>3. CASE NewestStarted' = proc[c].lease
      BY <2>1, <3>3
    <3> QED BY <2>1, <2>2, <3>1, <3>2, <3>3
  <2> QED BY <1>3, <1>5, <2>1, <2>2, <2>3
<1> QED BY <1>4, <1>5, RegistrySteps DEF DoesPublish, DoesConfirm, DoesCollect

\* A head that a step adds is not one that a copy record covers.
LEMMA AddedHead ==
    ASSUME Types, NEW c \in Checkout, Does(c), LeaseOK(c), SyncOK(c), RegOK,
           NEW e \in Checkout, NEW h \in heads', h \notin heads
    PROVE  /\ h.lineage = disk[c].lineage.fence /\ leases[h.lineage] = c
           /\ h.lineage \in Nat /\ h.lineage # 0
           /\ Prefix(h.log, disk[c].log) /\ DoesPublish(c)
           /\ disk[e].copy.lineage = h.lineage => disk[e].copy.txid < h.txid
<1>1. DoesPublish(c)
  BY RegistrySteps DEF DoesStart, DoesConfirm, DoesCollect
<1>2. /\ h.lineage = disk[c].lineage.fence /\ h.lineage = proc[c].sync.lineage
      /\ leases[h.lineage] = c /\ h.log = proc[c].sync.log /\ h.txid = proc[c].sync.txid
      /\ h.lineage \in Lineage
  BY <1>1, PublishedHead
<1>3. proc[c].sync.at = "head"
  BY <1>1 DEF DoesPublish
<1>4. h.lineage \in Nat /\ h.lineage # 0
  BY <1>2, ReplAssumption DEF Lineage
<1> QED BY <1>1, <1>2, <1>3, <1>4 DEF SyncOK

\* Other checkouts' copies.
LEMMA CopyOfOthers ==
    ASSUME Types, Types', NEW c \in Checkout, Does(c), \A x \in Checkout : LeaseOK(x),
           RegOK, SyncOK(c), NEW e \in Checkout, e # c, CopyOK(e)
    PROVE  CopyOK(e)'
<1>1. Numbers
  BY NumbersOf
<1>2. proc'[e] = proc[e] /\ disk'[e] = disk[e]
  BY ReplStepFrame DEF Others
<1>3. \A h \in heads' : h.lineage = disk[e].copy.lineage /\ h.txid <= disk[e].copy.txid
                          => Prefix(h.log, disk[e].log)
  <2> TAKE h \in heads'
  <2>1. CASE h \in heads
    BY <2>1 DEF CopyOK
  <2>2. CASE h \notin heads
    <3>1. disk[e].copy.lineage = h.lineage => disk[e].copy.txid < h.txid
      BY <2>2, AddedHead
    <3>2. h.txid \in Nat
      BY ReplAssumption DEF Types, THeads, HeadType
    <3> QED BY <1>1, <3>1, <3>2 DEF Numbers
  <2> QED BY <2>1, <2>2
<1>4. disk[e].copy.lineage # 0 => disk[e].copy.txid <= shipped'[disk[e].copy.lineage].txid
  <2>1. SUFFICES ASSUME disk[e].copy.lineage # 0
                 PROVE  disk[e].copy.txid <= shipped'[disk[e].copy.lineage].txid
    OBVIOUS
  <2>2. disk[e].copy.lineage \in Lineage /\ disk[e].copy.txid \in Nat
    BY <1>1, <2>1, ReplAssumption DEF Numbers, Lineage
  <2>3. \A k \in Lineage : /\ shipped[k].txid \in Nat /\ shipped[k].txid <= shipped'[k].txid
                           /\ shipped'[k].txid \in Nat
    <3>1. \A k \in Lineage : shipped'[k].txid \in Nat
      BY ReplAssumption DEF Types, TShip
    <3> QED BY <3>1, HeadNumbers, ShippedGrows
  <2> QED BY <2>1, <2>2, <2>3 DEF CopyOK
<1>5. disk[e].lineage.fence = NewestStarted' \/ proc[e].phase = "write" =>
          \A h \in heads' : h.lineage = disk[e].lineage.fence => Prefix(h.log, disk[e].log)
  <2>1. SUFFICES ASSUME disk[e].lineage.fence = NewestStarted' \/ proc[e].phase = "write",
                        NEW h \in heads', h.lineage = disk[e].lineage.fence
                 PROVE  Prefix(h.log, disk[e].log)
    OBVIOUS
  <2>2. h.lineage # 0
    BY ReplAssumption DEF Types, THeads, HeadType, Lineage
  <2>3. leases[h.lineage] = e
    BY <1>1, <2>1, <2>2, OwnFence
  <2>4. h \in heads
    BY <2>3, AddedHead
  <2>5. ~(DoesStart(c) /\ h.lineage = proc[c].lease)
    <3>1. DoesStart(c) => leases[proc[c].lease] = c
      BY DEF DoesStart, LeaseOK
    <3> QED BY <2>3, <3>1
  <2>6. disk[e].lineage.fence = NewestStarted \/ proc[e].phase = "write"
    BY <2>1, <2>5, NewestIs
  <2> QED BY <2>1, <2>4, <2>6 DEF CopyOK
<1> QED BY <1>2, <1>3, <1>4, <1>5 DEF CopyOK

\* The copy of the checkout that acts, when the files stay or only its log grows.
LEMMA CopyKept ==
    ASSUME Types, Types', NEW c \in Checkout, Does(c), \A x \in Checkout : LeaseOK(x),
           RegOK, SyncOK(c), CopyOK(c),
           Prefix(disk[c].log, disk'[c].log), disk'[c].copy = disk[c].copy,
           disk'[c].lineage.fence = disk[c].lineage.fence,
           proc'[c].phase = "write" =>
              proc[c].phase = "write" \/ disk[c].lineage.fence = NewestStarted
    PROVE  CopyOK(c)'
<1>1. Numbers /\ Numbers'
  <2>1. Numbers'
    BY NumbersOf, PTL
  <2> QED BY <2>1, NumbersOf
<1>2. /\ \A h \in heads' : h.txid \in Nat /\ h.log \in Logs
      /\ \A h \in heads : h.log \in Logs
  BY ReplAssumption DEF Types, THeads, HeadType
<1>3. disk[c].log \in Logs /\ disk'[c].log \in Logs
  BY <1>1 DEF Numbers
<1>4. ASSUME NEW h \in heads', Prefix(h.log, disk[c].log) PROVE Prefix(h.log, disk'[c].log)
  BY <1>2, <1>3, <1>4, PrefixLaws
<1>5. \A h \in heads' : h.lineage = disk[c].copy.lineage /\ h.txid <= disk[c].copy.txid
                          => Prefix(h.log, disk'[c].log)
  <2> TAKE h \in heads'
  <2>1. CASE h \in heads
    BY <1>4, <2>1 DEF CopyOK
  <2>2. CASE h \notin heads
    <3>1. disk[c].copy.lineage = h.lineage => disk[c].copy.txid < h.txid
      BY <2>2, AddedHead
    <3> QED BY <1>1, <1>2, <3>1 DEF Numbers
  <2> QED BY <2>1, <2>2
<1>6. disk[c].copy.lineage # 0 => disk[c].copy.txid <= shipped'[disk[c].copy.lineage].txid
  <2>1. SUFFICES ASSUME disk[c].copy.lineage # 0
                 PROVE  disk[c].copy.txid <= shipped'[disk[c].copy.lineage].txid
    OBVIOUS
  <2>2. disk[c].copy.lineage \in Lineage /\ disk[c].copy.txid \in Nat
    BY <1>1, <2>1, ReplAssumption DEF Numbers, Lineage
  <2>3. \A k \in Lineage : /\ shipped[k].txid \in Nat /\ shipped[k].txid <= shipped'[k].txid
                           /\ shipped'[k].txid \in Nat
    <3>1. \A k \in Lineage : shipped'[k].txid \in Nat
      BY ReplAssumption DEF Types, TShip
    <3> QED BY <3>1, HeadNumbers, ShippedGrows
  <2> QED BY <2>1, <2>2, <2>3 DEF CopyOK
<1>7. disk[c].lineage.fence = NewestStarted' \/ proc'[c].phase = "write" =>
          \A h \in heads' : h.lineage = disk[c].lineage.fence => Prefix(h.log, disk'[c].log)
  <2>1. SUFFICES ASSUME disk[c].lineage.fence = NewestStarted' \/ proc'[c].phase = "write",
                        NEW h \in heads', h.lineage = disk[c].lineage.fence
                 PROVE  Prefix(h.log, disk'[c].log)
    OBVIOUS
  <2>2. CASE h \notin heads
    BY <1>4, <2>2, AddedHead
  <2>3. CASE h \in heads
    <3>1. ~DoesStart(c)
      <4>1. DoesStart(c) => disk'[c].lineage.fence = proc[c].lease /\ proc[c].phase = "lineage"
        BY DEF DoesStart
      <4> QED BY <1>1, <4>1 DEF LeaseOK, Numbers
    <3>2. disk[c].lineage.fence = NewestStarted \/ proc[c].phase = "write"
      BY <2>1, <3>1, NewestIs
    <3> QED BY <1>4, <2>1, <2>3, <3>2 DEF CopyOK
  <2> QED BY <2>2, <2>3
<1> QED BY <1>5, <1>6, <1>7 DEF CopyOK

\* A copy that is restored holds every head of the current lineage.
LEMMA CopyRestored ==
    ASSUME Types, Types', NEW c \in Checkout, DoesRestore(c), HeadsOK, CopyOK(c), LeaseOK(c)
    PROVE  CopyOK(c)'
<1>1. LineageFacts /\ HeadFacts /\ Numbers
  BY NumbersOf, LineageIs, HeadIs DEF Types
<1>2. /\ Complete # {} /\ ~CopyIsCurrent(disk[c])
      /\ disk'[c].log = Restored(CurrentHead)
      /\ disk'[c].copy.lineage = CurrentLineage /\ disk'[c].copy.txid = CurrentHead.txid
      /\ disk'[c].lineage = disk[c].lineage /\ proc'[c].phase # "write"
      /\ UNCHANGED <<started, confirmed, heads, shipped>>
  BY DEF DoesRestore, LeaseOK
<1>3. /\ CurrentHead \in heads /\ CurrentHead.lineage = CurrentLineage
      /\ \A g \in heads : g.lineage = CurrentLineage => g.writer <= CurrentHead.writer
  BY <1>1, <1>2 DEF HeadFacts
<1>4. /\ CurrentHead \in HeadType /\ Len(CurrentHead.log) <= CurrentHead.span
      /\ CurrentHead.log \in Logs /\ \A h \in heads : h.log \in Logs
      /\ CurrentHead.txid <= shipped[CurrentLineage].txid
  BY <1>3, HeadNumbers DEF HeadsOK
<1>5. Restored(CurrentHead) \in Logs /\ Prefix(CurrentHead.log, Restored(CurrentHead))
  BY <1>4, RestoredIs
<1>6. \A h \in heads : h.lineage = CurrentLineage => Prefix(h.log, Restored(CurrentHead))
  <2> TAKE h \in heads
  <2> HAVE h.lineage = CurrentLineage
  <2>1. Prefix(h.log, CurrentHead.log)
    BY <1>3 DEF HeadsOK
  <2> QED BY <1>4, <1>5, <2>1, PrefixLaws
<1>7. disk[c].lineage.fence = NewestStarted => disk[c].lineage.fence = CurrentLineage
  BY <1>1, <1>2, ReplAssumption DEF CopyIsCurrent, LineageFacts, Numbers
<1>8. NewestStarted' = NewestStarted
  BY <1>2, SameRegistry
<1> HIDE DEF CurrentHead, CurrentLineage, NewestStarted
<1> QED BY <1>2, <1>4, <1>6, <1>7, <1>8 DEF CopyOK

\* The copy of the checkout that acts.
LEMMA CopyOfActor ==
    ASSUME Types, Types', NEW c \in Checkout, Does(c), \A x \in Checkout : LeaseOK(x),
           RegOK, HeadsOK, SyncOK(c), CopyOK(c)
    PROVE  CopyOK(c)'
<1>1. Numbers /\ Numbers'
  <2>1. Numbers'
    BY NumbersOf, PTL
  <2> QED BY <2>1, NumbersOf
<1>2. disk[c].log \in Logs /\ Prefix(disk[c].log, disk[c].log)
  <2>1. disk[c].log \in Logs
    BY <1>1 DEF Numbers
  <2> QED BY <2>1, PrefixLaws
<1>3. CASE DoesRestore(c)
  BY <1>3, CopyRestored
<1>4. CASE DoesStart(c)
  <2>1. /\ disk'[c].log = disk[c].log /\ disk'[c].copy = disk[c].copy
        /\ disk'[c].lineage.fence = proc[c].lease
        /\ heads' = heads /\ shipped' = shipped
        /\ proc[c].lease # 0 /\ leases[proc[c].lease] = c
        /\ disk[c].lineage.fence < proc[c].lease
    BY <1>1, <1>4 DEF DoesStart, LeaseOK, Numbers
  <2>2. \A h \in heads : h.lineage # proc[c].lease
    <3>1. \A h \in heads : h.lineage = proc[c].lease => proc[c].lease <= disk[c].lineage.fence
      BY <2>1 DEF RegOK, Owner
    <3> QED BY <1>1, <2>1, <3>1 DEF Numbers
  <2> QED BY <2>1, <2>2 DEF CopyOK
<1>5. CASE DoesCommit(c)
  <2>1. made + 1 \in 1 .. LastCommit /\ Len(disk[c].log) < LastCommit
    BY <1>5, ReplAssumption DEF DoesCommit, Types, TCount
  <2>2. Prefix(disk[c].log, disk'[c].log)
    BY <1>2, <1>5, <2>1, AppendIs DEF DoesCommit
  <2> QED BY <1>5, <2>2, CopyKept DEF DoesCommit, SameHold
<1>6. CASE DoesRecord(c)
  <2>1. CASE disk'[c].copy = disk[c].copy
    BY <1>2, <1>6, <2>1, CopyKept DEF DoesRecord, SameHold
  <2>2. CASE disk'[c].copy.lineage = proc[c].sync.lineage
               /\ disk'[c].copy.txid = proc[c].sync.txid
    <3>1. /\ disk'[c].log = disk[c].log /\ disk'[c].lineage = disk[c].lineage
          /\ heads' = heads /\ shipped' = shipped /\ proc[c].sync.at = "copy"
          /\ proc[c].sync.lineage = disk[c].lineage.fence /\ proc[c].phase = "write"
      BY <1>6 DEF DoesRecord, LeaseOK
    <3>2. /\ \A h \in heads : h.lineage = disk[c].lineage.fence => Prefix(h.log, disk[c].log)
          /\ proc[c].sync.txid <= shipped[proc[c].sync.lineage].txid
      <4>1. \A h \in heads : h.lineage = disk[c].lineage.fence => Prefix(h.log, disk[c].log)
        BY <3>1 DEF CopyOK
      <4>2. proc[c].sync.txid <= shipped[proc[c].sync.lineage].txid
        BY <3>1 DEF SyncOK
      <4> QED BY <4>1, <4>2
    <3> QED BY <2>2, <3>1, <3>2 DEF CopyOK
  <2> QED BY <1>6, <2>1, <2>2 DEF DoesRecord
<1>7. CASE DoesContinue(c)
  BY <1>2, <1>7, CopyKept DEF DoesContinue
<1>8. CASE DoesTake(c)
  BY <1>2, <1>8, CopyKept DEF DoesTake
<1>9. CASE /\ disk'[c] = disk[c]
           /\ proc'[c].phase = "write" => proc[c].phase = "write"
  BY <1>2, <1>9, CopyKept
<1>10. CASE DoesQuiet(c) \/ DoesEnd(c) \/ DoesKeepCopy(c) \/ DoesGoBack(c) \/ DoesSyncStart(c)
            \/ DoesShip(c) \/ DoesPublish(c) \/ DoesConfirm(c) \/ DoesAck(c) \/ DoesCollect(c)
  BY <1>9, <1>10 DEF DoesQuiet, DoesEnd, Ended, DoesKeepCopy, DoesGoBack, DoesSyncStart,
                     DoesShip, DoesPublish, DoesConfirm, DoesAck, DoesCollect, SameHold
<1> QED BY <1>3, <1>4, <1>5, <1>6, <1>7, <1>8, <1>10 DEF Does

\* Other checkouts' syncs: nobody else publishes, ships or records a copy of their lineage
\* ahead of them.
LEMMA SyncOfOthers ==
    ASSUME Types, Types', NEW c \in Checkout, Does(c), \A x \in Checkout : LeaseOK(x),
           RegOK, HeadsOK, SyncOK(c), NEW e \in Checkout, e # c, SyncOK(e)
    PROVE  SyncOK(e)'
<1> DEFINE s == proc[e].sync
<1>1. Numbers
  BY NumbersOf
<1>2. proc'[e] = proc[e] /\ disk'[e] = disk[e] /\ Others(c)
  BY ReplStepFrame DEF Others
<1>3. SUFFICES ASSUME s.at # "none" PROVE SyncOK(e)'
  BY <1>2 DEF SyncOK
<1>4. /\ s.lineage = disk[e].lineage.fence /\ s.lineage \in Lineage
      /\ leases[s.lineage] = e
  <2>1. s.lineage = disk[e].lineage.fence /\ disk[e].lineage.fence # 0 /\ LeaseOK(e)
    BY <1>3 DEF LeaseOK
  <2>2. leases[s.lineage] = e /\ s.lineage \in 1 .. TopLease
    BY <1>1, <2>1, OwnFence
  <2> QED BY <1>1, <2>1, <2>2, ReplAssumption DEF Lineage, Numbers
<1>5. \A h \in heads' : h.lineage = s.lineage => h \in heads
  BY <1>4, AddedHead
<1>6. shipped'[s.lineage] = shipped[s.lineage]
  <2>1. CASE shipped' = shipped
    BY <2>1
  <2>2. CASE DoesShip(c)
    <3>1. LeaseOK(c) /\ proc[c].sync.lineage = disk[c].lineage.fence
          /\ disk[c].lineage.fence # 0
      BY <2>2 DEF DoesShip, LeaseOK
    <3>2. leases[proc[c].sync.lineage] = c
      BY <1>1, <3>1, OwnFence
    <3>3. s.lineage # proc[c].sync.lineage
      BY <1>4, <3>2
    <3> QED BY <1>4, <2>2, <3>3 DEF DoesShip
  <2> QED BY <2>1, <2>2
      DEF Does, DoesQuiet, DoesEnd, DoesTake, DoesKeepCopy, DoesRestore, DoesContinue, DoesStart,
          DoesGoBack, DoesCommit, DoesSyncStart, DoesPublish, DoesConfirm, DoesRecord, DoesAck,
          DoesCollect
<1>7. ASSUME s.at = "head", NEW x \in Checkout, disk'[x].copy.lineage = s.lineage
      PROVE  disk'[x].copy.txid < s.txid
  <2>1. CASE disk'[x].copy = disk[x].copy
    BY <1>7, <2>1 DEF SyncOK
  <2>2. CASE x = c /\ DoesRestore(c)
    <3>1. /\ CurrentLineage = s.lineage /\ disk'[c].copy.txid = CurrentHead.txid
          /\ Complete # {}
      BY <1>7, <2>2 DEF DoesRestore
    <3>2. CurrentHead \in heads /\ CurrentHead.lineage = CurrentLineage
      BY <3>1, HeadIs DEF HeadFacts, Types
    <3> QED BY <1>7, <2>2, <3>1, <3>2 DEF SyncOK
  <2>3. CASE x = c /\ DoesRecord(c) /\ disk'[c].copy.lineage = proc[c].sync.lineage
    <3>1. LeaseOK(c) /\ proc[c].sync.lineage = disk[c].lineage.fence
          /\ disk[c].lineage.fence # 0
      BY <2>3 DEF DoesRecord, LeaseOK
    <3>2. leases[proc[c].sync.lineage] = c
      BY <1>1, <3>1, OwnFence
    <3> QED BY <1>4, <1>7, <2>3, <3>2
  <2>4. CASE x # c
    BY <1>2, <2>1, <2>4 DEF Others
  <2> QED BY <2>1, <2>2, <2>3, <2>4
      DEF Does, DoesQuiet, DoesEnd, DoesTake, DoesKeepCopy, DoesContinue, DoesStart,
          DoesGoBack, DoesCommit, DoesSyncStart, DoesShip, DoesPublish, DoesConfirm, DoesRecord,
          DoesAck, DoesCollect
<1> HIDE DEF s
<1>8. /\ Prefix(s.log, disk[e].log) /\ EndsFull(s.log)
      /\ \A h \in heads' : h.lineage = s.lineage => Prefix(h.log, s.log)
      /\ s.txid <= shipped'[s.lineage].txid
  BY <1>3, <1>5, <1>6 DEF SyncOK, s
<1>9. s.at = "head" =>
          /\ s.txid = shipped'[s.lineage].txid /\ s.txid # 0
          /\ Len(s.log) <= Len(shipped'[s.lineage].log)
          /\ \A h \in heads' : h.lineage = s.lineage => h.txid < s.txid
  BY <1>5, <1>6 DEF SyncOK, s
<1> QED BY <1>2, <1>7, <1>8, <1>9 DEF SyncOK, s

\* The sync of the checkout that acts.
LEMMA SyncOfActor ==
    ASSUME Types, Types', NEW c \in Checkout, Does(c), \A x \in Checkout : LeaseOK(x),
           RegOK, HeadsOK, SyncOK(c), \A x \in Checkout : CopyOK(x)
    PROVE  SyncOK(c)'
<1> DEFINE s == proc[c].sync
           t == proc'[c].sync
<1>1. Numbers /\ Numbers' /\ Others(c)
  <2>1. Numbers'
    BY NumbersOf, PTL
  <2> QED BY <2>1, NumbersOf, ReplStepFrame
<1>2. /\ s.log \in Logs /\ t.log \in Logs /\ disk[c].log \in Logs /\ disk'[c].log \in Logs
      /\ \A h \in heads : h.log \in Logs
  BY <1>1, HeadNumbers DEF Numbers
<1>3. CASE t.at = "none"
  BY <1>3 DEF SyncOK
<1>4. CASE SameSync(c) /\ s.at # "none" /\ ~DoesPublish(c)
  <2>1. t = s /\ s.at # "none"
    BY <1>4 DEF SameSync
  <2>2. proc[c].phase = "write" /\ s.lineage \in Lineage /\ s.lineage = disk[c].lineage.fence
    <3>1. proc[c].phase = "write" /\ s.lineage = disk[c].lineage.fence /\ s.lineage # 0
      BY <1>4 DEF LeaseOK
    <3> QED BY <1>1, <3>1, ReplAssumption DEF Numbers, Lineage
  <2>3. /\ \A h \in heads' : h \in heads
        /\ shipped' = shipped /\ \A x \in Checkout : disk'[x].copy = disk[x].copy
        /\ disk'[c].log = disk[c].log \/ DoesCommit(c)
    <3>1. ~DoesRestore(c) /\ ~DoesTake(c)
      BY <2>1, <2>2 DEF DoesRestore, DoesTake, LeaseOK
    <3>2. ~DoesShip(c) /\ ~DoesRecord(c)
      BY <2>1 DEF DoesShip, DoesRecord, SyncGoesOn
    <3>3. disk'[c].copy = disk[c].copy
      BY <3>1, <3>2, <1>4
         DEF Does, DoesQuiet, DoesEnd, DoesKeepCopy, DoesContinue, DoesStart, DoesGoBack,
             DoesCommit, DoesSyncStart, DoesConfirm, DoesAck, DoesCollect
    <3>4. \A x \in Checkout : disk'[x].copy = disk[x].copy
      BY <1>1, <3>3 DEF Others
    <3> QED BY <3>1, <3>2, <3>4, <1>4
         DEF Does, DoesQuiet, DoesEnd, DoesKeepCopy, DoesContinue, DoesStart, DoesGoBack,
             DoesCommit, DoesSyncStart, DoesConfirm, DoesAck, DoesCollect
  <2>4. Prefix(s.log, disk'[c].log)
    <3>1. Prefix(s.log, disk[c].log)
      BY <2>1 DEF SyncOK
    <3>2. Prefix(disk[c].log, disk'[c].log)
      <4>1. CASE disk'[c].log = disk[c].log
        BY <1>2, <4>1, PrefixLaws
      <4>2. CASE DoesCommit(c)
        <5>1. made + 1 \in 1 .. LastCommit /\ Len(disk[c].log) < LastCommit
          BY <4>2, ReplAssumption DEF DoesCommit, Types, TCount
        <5> QED BY <1>2, <4>2, <5>1, AppendIs DEF DoesCommit
      <4> QED BY <2>3, <4>1, <4>2
    <3> QED BY <1>2, <3>1, <3>2, PrefixLaws
  <2> QED BY <2>1, <2>3, <2>4 DEF SyncOK
<1>5. CASE DoesSyncStart(c)
  <2>1. /\ t.at = "ship" /\ t.lineage = disk[c].lineage.fence /\ t.txid = 0
        /\ t.log = SubSeq(disk[c].log, 1, Mark(disk[c].log)) /\ disk'[c] = disk[c]
        /\ heads' = heads /\ shipped' = shipped /\ proc[c].phase = "write"
    BY <1>5 DEF DoesSyncStart
  <2>2. Prefix(t.log, disk[c].log) /\ EndsFull(t.log)
    BY <1>2, <2>1, UnderMark
  <2>3. \A h \in heads : h.lineage = t.lineage => Prefix(h.log, t.log)
    <3> TAKE h \in heads
    <3> HAVE h.lineage = t.lineage
    <3>1. Prefix(h.log, disk[c].log)
      BY <2>1 DEF CopyOK
    <3>2. EndsFull(h.log)
      BY DEF HeadsOK
    <3> QED BY <1>2, <2>1, <3>1, <3>2, PrefixUnderMark
  <2>4. t.lineage \in Lineage
    BY <1>1, <2>1, ReplAssumption DEF LeaseOK, Numbers, Lineage
  <2>5. t.txid <= shipped'[t.lineage].txid
    BY <2>1, <2>4, HeadNumbers
  <2> HIDE DEF s, t
  <2> QED BY <2>1, <2>2, <2>3, <2>5 DEF SyncOK, t
<1>6. CASE DoesShip(c)
  <2>1. /\ s.at = "ship" /\ t.at = "head" /\ t.lineage = s.lineage /\ t.log = s.log
        /\ t.txid = shipped[s.lineage].txid + 1
        /\ shipped'[s.lineage].txid = shipped[s.lineage].txid + 1
        /\ shipped'[s.lineage].log = disk[c].log
        /\ disk'[c] = disk[c] /\ heads' = heads
    BY <1>6 DEF DoesShip, SyncGoesOn
  <2>2. /\ Prefix(s.log, disk[c].log) /\ EndsFull(s.log)
        /\ \A h \in heads : h.lineage = s.lineage => Prefix(h.log, s.log)
    BY <2>1 DEF SyncOK
  <2>3. s.lineage \in Lineage /\ s.lineage # 0
    BY <1>1, <2>1, ReplAssumption DEF LeaseOK, Numbers, Lineage
  <2>4. shipped[s.lineage].txid \in Nat
    BY <2>3, HeadNumbers
  <2>5. \A h \in heads : h.lineage = s.lineage => h.txid < t.txid
    BY <2>1, <2>4, HeadNumbers DEF HeadsOK
  <2>6. \A e \in Checkout : disk'[e].copy = disk[e].copy
    BY <1>1, <2>1 DEF Others
  <2>7. \A e \in Checkout : disk[e].copy.lineage = s.lineage => disk[e].copy.txid < t.txid
    BY <1>1, <2>1, <2>3, <2>4 DEF CopyOK, Numbers
  <2>8. Len(s.log) <= Len(disk[c].log)
    BY <2>2 DEF Prefix
  <2>9. t.txid # 0 /\ t.txid <= shipped'[t.lineage].txid /\ t.txid = shipped'[t.lineage].txid
    BY <2>1, <2>4
  <2> HIDE DEF s, t
  <2> QED BY <2>1, <2>2, <2>5, <2>6, <2>7, <2>8, <2>9 DEF SyncOK, t
<1>7. CASE DoesPublish(c)
  <2> DEFINE n == HeadOf(s)
  <2>1. /\ s.at = "head" /\ t.at = "confirm" /\ t.lineage = s.lineage /\ t.log = s.log
        /\ t.txid = s.txid /\ disk'[c] = disk[c] /\ shipped' = shipped
        /\ \A h \in heads' : h = n \/ h \in heads
        /\ n.log = s.log
    BY <1>7 DEF DoesPublish, SyncGoesOn, HeadOf
  <2>2. /\ Prefix(s.log, disk[c].log) /\ EndsFull(s.log)
        /\ \A h \in heads : h.lineage = s.lineage => Prefix(h.log, s.log)
        /\ s.txid <= shipped[s.lineage].txid
    BY <2>1 DEF SyncOK
  <2>3. Prefix(s.log, s.log)
    BY <1>2, PrefixLaws
  <2> HIDE DEF s, t, n
  <2> QED BY <2>1, <2>2, <2>3 DEF SyncOK, t
<1>8. CASE DoesConfirm(c) \/ DoesRecord(c) \/ DoesAck(c)
  <2>1. CASE t.at # "none"
    <3>1. /\ s.at # "none" /\ t.at \notin {"none", "head"} /\ t.lineage = s.lineage
          /\ t.log = s.log /\ t.txid = s.txid /\ disk'[c].log = disk[c].log
          /\ shipped' = shipped /\ heads' = heads
      BY <1>8, <2>1 DEF DoesConfirm, DoesRecord, DoesAck, SyncGoesOn, NoSync
    <3>2. /\ Prefix(s.log, disk[c].log) /\ EndsFull(s.log)
          /\ \A h \in heads : h.lineage = s.lineage => Prefix(h.log, s.log)
          /\ s.txid <= shipped[s.lineage].txid
      BY <3>1 DEF SyncOK
    <3> HIDE DEF s, t
    <3> QED BY <3>1, <3>2 DEF SyncOK, t
  <2> QED BY <1>3, <2>1
<1>9. SameSync(c) /\ s.at = "none" => t.at = "none"
  BY DEF SameSync
<1> QED BY <1>3, <1>4, <1>5, <1>6, <1>7, <1>8, <1>9, SyncSteps

-----------------------------------------------------------------------------
(* What is acknowledged *)

\* A log that extends another has its commits, and its marks.
LEMMA Extends ==
    ASSUME NEW y \in Logs, NEW z \in Logs, Prefix(y, z)
    PROVE  /\ Kept(y) \subseteq Kept(z)
           /\ \A A : \A m \in Nat : MarkIn(m, y, A) => MarkIn(m, z, A)
<1>1. /\ Len(y) \in Nat /\ Len(z) \in Nat /\ DOMAIN y = 1 .. Len(y) /\ DOMAIN z = 1 .. Len(z)
      /\ Len(y) <= Len(z) /\ \A i \in 1 .. Len(y) : y[i] = z[i]
  BY LogIs DEF Prefix, Logs
<1>2. Kept(y) \subseteq Kept(z)
  BY <1>1 DEF Kept
<1>3. ASSUME NEW A, NEW m \in Nat, MarkIn(m, y, A) PROVE MarkIn(m, z, A)
  BY <1>1, <1>3 DEF MarkIn
<1> QED BY <1>2, <1>3

\* So it has what is acknowledged when the other one has, and so does what lies under its
\* mark.
LEMMA HoldsOn ==
    ASSUME Numbers, NEW y \in Logs, NEW z \in Logs, HoldsAll(y),
           Prefix(y, z) \/ z = SubSeq(y, 1, Mark(y))
    PROVE  HoldsAll(z)
<1>1. \A e \in Checkout : proc[e].mark \in Nat
  BY DEF Numbers
<1>2. CASE Prefix(y, z)
  BY <1>1, <1>2, Extends DEF HoldsAll
<1>3. CASE z = SubSeq(y, 1, Mark(y))
  <2>1. Len(z) = Mark(y) /\ Prefix(z, y) /\ Kept(z) = Kept(y)
    BY <1>3, UnderMark
  <2>2. \A i \in 1 .. Len(y) : y[i] # 0 => i <= Mark(y)
    BY MarkIs
  <2>3. ASSUME NEW e \in Checkout PROVE MarkIn(proc[e].mark, z, acked)
    <3>1. MarkIn(proc[e].mark, y, acked) /\ proc[e].mark \in Nat
      BY <1>1 DEF HoldsAll
    <3>2. Len(y) \in Nat /\ Mark(y) \in Nat
      BY MarkIs, LogIs
    <3>3. proc[e].mark <= Mark(y)
      <4>1. proc[e].mark # 0 => proc[e].mark \in 1 .. Len(y) /\ y[proc[e].mark] # 0
        BY <3>1, <3>2, SMTT(30) DEF MarkIn
      <4> QED BY <2>2, <3>1, <3>2, <4>1
    <3> QED BY <2>1, <3>1, <3>2, <3>3 DEF MarkIn, Prefix
  <2> QED BY <2>1, <2>3 DEF HoldsAll
<1> QED BY <1>2, <1>3

\* Steps that acknowledge nothing and move no mark on.
Quiet == /\ acked' = acked
         /\ \A e \in Checkout : proc'[e].mark \in {proc[e].mark, 0}

\* They are all but one kind.
LEMMA QuietSteps ==
    ASSUME NEW c \in Checkout, Does(c), Others(c)
    PROVE  Quiet \/ DoesAck(c)
<1>1. CASE acked' = acked /\ proc'[c].mark \in {proc[c].mark, 0}
  BY <1>1 DEF Quiet, Others
<1> QED BY <1>1
    DEF Does, DoesQuiet, DoesEnd, Ended, DoesTake, DoesKeepCopy, DoesRestore, DoesContinue,
        DoesStart, DoesGoBack, DoesCommit, DoesSyncStart, DoesShip, DoesPublish, DoesConfirm,
        DoesRecord, DoesCollect, SameHold

\* After them a log holds what it held.
LEMMA StillHolds ==
    ASSUME Numbers, Quiet, NEW y \in Logs, HoldsAll(y)
    PROVE  HoldsAll(y)'
<1>1. Len(y) \in Nat
  BY LogIs
<1> QED BY <1>1 DEF Quiet, HoldsAll, MarkIn, Numbers

\* The head of the highest writer of the current lineage is the one a read takes.
HeadUnique ==
    \A h \in heads :
        (/\ h.lineage = CurrentLineage
         /\ \A g \in heads : g.lineage = h.lineage => g.writer <= h.writer)
            => CurrentHead = h

\* There is one such head.
LEMMA HeadIsIt == Types /\ RegOK => HeadUnique
<1> SUFFICES ASSUME Types, RegOK, NEW h \in heads, h.lineage = CurrentLineage,
                    \A g \in heads : g.lineage = h.lineage => g.writer <= h.writer
             PROVE  CurrentHead = h
  BY DEF HeadUnique
<1>1. h.lineage # 0
  BY HeadNumbers
<1>2. LineageFacts /\ HeadFacts
  BY LineageIs, HeadIs DEF Types
<1>3. /\ CurrentHead \in heads /\ CurrentHead.lineage = CurrentLineage
      /\ h.writer <= CurrentHead.writer
  BY <1>1, <1>2 DEF HeadFacts, LineageFacts
<1>4. CurrentHead.writer <= h.writer /\ CurrentHead.writer \in Nat /\ h.writer \in Nat
  BY <1>3, HeadNumbers
<1>5. CurrentHead.writer = h.writer
  BY <1>3, <1>4
<1> QED BY <1>3, <1>5 DEF RegOK

\* The head that a read takes stays while its lineage stays the current one and keeps its
\* heads.
LEMMA SameHead ==
    ASSUME Types, Types', RegOK, RegOK', CurrentLineage' = CurrentLineage, Complete # {},
           \A h : h.lineage = CurrentLineage => (h \in heads <=> h \in heads')
    PROVE  CurrentHead' = CurrentHead
<1>1. HeadFacts /\ HeadUnique'
  <2>1. HeadUnique'
    BY HeadIsIt, PTL
  <2> QED BY <2>1, HeadIs DEF Types
<1>2. /\ CurrentHead \in heads /\ CurrentHead.lineage = CurrentLineage
      /\ \A g \in heads : g.lineage = CurrentLineage => g.writer <= CurrentHead.writer
  BY <1>1 DEF HeadFacts
<1>3. PICK h : h = CurrentHead
  OBVIOUS
<1>4. /\ h \in heads' /\ h.lineage = CurrentLineage'
      /\ \A g \in heads' : g.lineage = h.lineage => g.writer <= h.writer
  BY <1>2, <1>3
<1> QED BY <1>1, <1>3, <1>4 DEF HeadUnique

\* A step moves the current lineage on only by completing the lineage of its own sync,
\* whose head then is what the sync shipped; else the head of the current lineage stays, or
\* is replaced by what the sync of its writer shipped.
LEMMA CurrentMoves ==
    ASSUME Types, Types', RegOK, RegOK', NEW c \in Checkout, Does(c),
           \A x \in Checkout : LeaseOK(x) /\ KnownOK(x), Complete' # {}
    PROVE  \/ Complete # {} /\ CurrentHead' = CurrentHead
           \/ /\ CurrentHead'.log = proc[c].sync.log
              /\ proc[c].sync.at # "none" /\ CurrentLineage <= proc[c].lease
<1>1. Numbers /\ LineageFacts /\ LineageFacts' /\ HeadFacts' /\ HeadUnique'
  <2>1. TReg /\ TReg' /\ THeads' /\ HeadUnique'
    BY HeadIsIt, PTL DEF Types
  <2>2. LineageFacts'
    BY <2>1, LineageIs, PTL
  <2>3. HeadFacts'
    BY <2>1, HeadIs, PTL
  <2> QED BY <2>1, <2>2, <2>3, NumbersOf, LineageIs
<1>2. CurrentLineage \in Nat /\ CurrentLineage' \in Nat /\ CurrentLineage <= CurrentLineage'
  BY <1>1, LineagesGrow, ReplAssumption DEF LineageFacts
<1>3. CurrentLineage' # 0 /\ CurrentLineage' \in Complete'
  BY <1>1 DEF LineageFacts
<1>4. ASSUME CurrentLineage' \in Complete,
             \A h : h.lineage = CurrentLineage' => (h \in heads <=> h \in heads')
      PROVE  Complete # {} /\ CurrentHead' = CurrentHead
  <2>1. CurrentLineage' = CurrentLineage /\ Complete # {}
    BY <1>1, <1>2, <1>4 DEF LineageFacts
  <2> QED BY <1>4, <2>1, SameHead
<1>5. CASE UNCHANGED <<started, confirmed, heads>>
  BY <1>3, <1>4, <1>5, SameRegistry
<1>6. CASE DoesStart(c)
  <2>1. /\ started' = started \cup {proc[c].lease} /\ confirmed' = confirmed /\ heads' = heads
        /\ proc[c].lease # 0 /\ leases[proc[c].lease] = c
        /\ disk[c].lineage.fence < proc[c].lease
    BY <1>1, <1>6 DEF DoesStart, LeaseOK, Numbers
  <2>2. proc[c].lease \notin confirmed
    <3>1. proc[c].lease \in confirmed => proc[c].lease <= disk[c].lineage.fence
      BY <2>1 DEF RegOK, Owner
    <3> QED BY <1>1, <2>1, <3>1 DEF Numbers
  <2>3. Complete' = Complete
    BY <2>1, <2>2 DEF Complete
  <2> QED BY <1>3, <1>4, <2>1, <2>3
<1>7. CASE DoesCollect(c)
  <2>1. CurrentLineage = proc[c].sync.lineage
        /\ heads' = {h \in heads : h.lineage >= proc[c].sync.lineage}
        /\ started' \subseteq started /\ confirmed' \subseteq confirmed
    BY <1>7 DEF DoesCollect
  <2>2. \A h : h.lineage = CurrentLineage' => (h \in heads <=> h \in heads')
    BY <1>2, <2>1
  <2>3. CurrentLineage' \in Complete
    BY <1>3, <2>1 DEF Complete
  <2> QED BY <1>4, <2>2, <2>3
<1>8. CASE DoesConfirm(c)
  <2> DEFINE s == proc[c].sync
             f == disk[c].lineage.fence
  <2>1. /\ confirmed' = confirmed \cup {s.lineage} /\ started' = started /\ heads' = heads
        /\ s.at = "confirm" /\ s.lineage = f /\ s.writer = proc[c].lease /\ f # 0
        /\ f <= disk[c].lineage.last /\ disk[c].lineage.last = proc[c].lease
        /\ LeaseOK(c) /\ KnownOK(c)
    BY <1>8 DEF DoesConfirm, LeaseOK
  <2>2. CASE CurrentLineage' \in Complete
    BY <1>4, <2>1, <2>2
  <2>3. CASE CurrentLineage' \notin Complete
    <3>1. CurrentLineage' = f
      BY <1>3, <2>1, <2>3 DEF Complete
    <3>2. PICK h \in heads : SyncHead(s, h)
      BY <1>2, <2>1, <3>1 DEF KnownOK
    <3>3. /\ h \in heads' /\ h.lineage = CurrentLineage' /\ h.log = s.log
          /\ h.lineage = f /\ h.writer = proc[c].lease
      BY <2>1, <3>1, <3>2 DEF SyncHead
    <3>4. leases[f] = c
      BY <1>1, <2>1, OwnFence
    <3>5. \A g \in heads' : g.lineage = h.lineage => g.writer <= h.writer
      BY <2>1, <3>3, <3>4 DEF RegOK, Owner
    <3>6. CurrentHead' = h
      BY <1>1, <3>3, <3>5 DEF HeadUnique
    <3>7. CurrentLineage <= proc[c].lease
      BY <1>1, <1>2, <2>1, <3>1 DEF Numbers
    <3> QED BY <2>1, <3>3, <3>6, <3>7
  <2> QED BY <2>2, <2>3
<1>9. CASE DoesPublish(c)
  <2> DEFINE n == HeadOf(proc[c].sync)
  <2>1. /\ n \in heads' /\ \A h \in heads' : h = n \/ h \in heads
        /\ n.lineage = disk[c].lineage.fence /\ n.log = proc[c].sync.log
        /\ n.writer = proc[c].lease /\ n.lineage = proc[c].sync.lineage
        /\ \A h \in heads : h.lineage = n.lineage => h.writer <= n.writer
    BY <1>9, PublishedHead
  <2>2. /\ \A h \in heads : h \in heads' \/ h.lineage = n.lineage
        /\ started' = started /\ confirmed' = confirmed
        /\ proc[c].sync.at # "none"
    BY <1>9, <2>1 DEF DoesPublish
  <2>3. /\ disk[c].lineage.fence <= disk[c].lineage.last
        /\ disk[c].lineage.last = proc[c].lease
    BY <1>9 DEF DoesPublish, LeaseOK
  <2> HIDE DEF n
  <2>4. CASE CurrentLineage' # n.lineage
    <3>1. \A h : h.lineage = CurrentLineage' => (h \in heads <=> h \in heads')
      BY <2>1, <2>2, <2>4
    <3>2. CurrentLineage' \in Complete
      BY <1>3, <2>2, <3>1 DEF Complete
    <3> QED BY <1>4, <3>1, <3>2
  <2>5. CASE CurrentLineage' = n.lineage
    <3>1. n.writer <= n.writer
      BY <1>1, <2>1 DEF Numbers
    <3>2. \A g \in heads' : g.lineage = n.lineage => g.writer <= n.writer
      BY <2>1, <3>1
    <3>3. PICK m : m = n
      OBVIOUS
    <3>4. CurrentHead' = m
      BY <1>1, <2>1, <2>5, <3>2, <3>3 DEF HeadUnique
    <3>5. CurrentLineage <= proc[c].lease
      BY <1>1, <1>2, <2>1, <2>3, <2>5 DEF Numbers
    <3> QED BY <2>1, <2>2, <3>3, <3>4, <3>5
  <2> QED BY <2>4, <2>5
<1> QED BY <1>5, <1>6, <1>7, <1>8, <1>9, RegistrySteps

\* A step that acknowledges nothing leaves what is acknowledged under the current head.
LEMMA PublishedQuiet ==
    ASSUME Types, Types', RegOK, RegOK', NEW c \in Checkout, Does(c), Quiet, PublishedOK,
           \A x \in Checkout : LeaseOK(x) /\ KnownOK(x) /\ AckOK(x)
    PROVE  PublishedOK'
<1>1. Numbers /\ LineageFacts /\ LineageFacts' /\ HeadFacts
  <2>1. TReg' /\ TReg /\ THeads
    BY DEF Types
  <2>2. LineageFacts'
    BY <2>1, LineageIs, PTL
  <2> QED BY <2>1, <2>2, NumbersOf, LineageIs, HeadIs
<1>2. CurrentLineage \in Nat /\ CurrentLineage' \in Nat /\ CurrentLineage <= CurrentLineage'
  BY <1>1, LineagesGrow, ReplAssumption DEF LineageFacts
<1>3. Complete' = {} => acked' = {} /\ \A e \in Checkout : proc'[e].mark = 0
  <2>1. Complete' = {} => Complete = {}
    BY <1>1, <1>2 DEF LineageFacts
  <2> QED BY <2>1 DEF Quiet, PublishedOK
<1>4. ASSUME Complete' # {} PROVE HoldsAll(CurrentHead.log)'
  <2>1. PICK y \in Logs : y = CurrentHead'.log /\ HoldsAll(y)
    <3>1. CASE Complete # {} /\ CurrentHead' = CurrentHead
      <4>1. CurrentHead \in heads
        BY <1>1, <3>1 DEF HeadFacts
      <4>2. CurrentHead.log \in Logs
        BY <4>1, HeadNumbers
      <4> QED BY <3>1, <4>2 DEF PublishedOK
    <3>2. CASE /\ CurrentHead'.log = proc[c].sync.log
               /\ proc[c].sync.at # "none" /\ CurrentLineage <= proc[c].lease
      <4>1. proc[c].sync.log \in Logs /\ proc[c].lease \in Nat
        BY <1>1 DEF Numbers
      <4>2. HoldsAll(proc[c].sync.log)
        BY <1>2, <3>2, <4>1 DEF AckOK
      <4> QED BY <3>2, <4>1, <4>2
    <3> QED BY <1>4, <3>1, <3>2, CurrentMoves
  <2>2. HoldsAll(y)'
    BY <1>1, <2>1, StillHolds
  <2> QED BY <2>1, <2>2 DEF HoldsAll
<1> QED BY <1>3, <1>4 DEF PublishedOK

\* A copy that is current, and one that is restored, has all that is acknowledged.
LEMMA CurrentHolds ==
    ASSUME Types, NEW c \in Checkout, PublishedOK, AckOK(c), CopyOK(c), HeadsOK
    PROVE  /\ CopyIsCurrent(disk[c]) => HoldsAll(disk[c].log)
           /\ Complete # {} => HoldsAll(Restored(CurrentHead)) /\ Restored(CurrentHead) \in Logs
<1>1. Numbers /\ LineageFacts /\ HeadFacts
  BY NumbersOf, LineageIs, HeadIs DEF Types
<1>2. CurrentLineage \in Nat /\ disk[c].log \in Logs /\ disk[c].lineage.fence \in Nat
      /\ disk[c].copy.txid \in Nat
  BY <1>1, ReplAssumption DEF LineageFacts, Numbers
<1>3. ASSUME Complete = {} PROVE HoldsAll(disk[c].log)
  <2>1. acked = {} /\ \A e \in Checkout : proc[e].mark = 0
    BY <1>3 DEF PublishedOK
  <2>2. Len(disk[c].log) \in Nat
    BY <1>2, LogIs
  <2> QED BY <2>1, <2>2 DEF HoldsAll, MarkIn
<1>4. ASSUME Complete # {}
      PROVE  /\ CurrentHead \in heads /\ CurrentHead \in HeadType /\ CurrentHead.log \in Logs
             /\ CurrentHead.lineage = CurrentLineage
             /\ CurrentHead.txid \in Nat /\ HoldsAll(CurrentHead.log)
             /\ Len(CurrentHead.log) <= CurrentHead.span
  <2>1. CurrentHead \in heads /\ CurrentHead.lineage = CurrentLineage
    BY <1>1, <1>4 DEF HeadFacts
  <2> QED BY <1>4, <2>1, HeadNumbers DEF PublishedOK, HeadsOK
<1>5. CopyIsCurrent(disk[c]) => HoldsAll(disk[c].log)
  <2>1. CASE disk[c].lineage.fence > CurrentLineage
    BY <1>2, <2>1 DEF AckOK
  <2>2. CASE /\ Complete # {} /\ disk[c].copy.lineage = CurrentLineage
             /\ disk[c].copy.txid >= CurrentHead.txid
    <3>1. Prefix(CurrentHead.log, disk[c].log)
      BY <1>2, <1>4, <2>2 DEF CopyOK
    <3> QED BY <1>1, <1>2, <1>4, <2>2, <3>1, HoldsOn
  <2> QED BY <1>3, <2>1, <2>2 DEF CopyIsCurrent
<1>6. ASSUME Complete # {} PROVE HoldsAll(Restored(CurrentHead)) /\ Restored(CurrentHead) \in Logs
  <2>1. Restored(CurrentHead) \in Logs /\ Prefix(CurrentHead.log, Restored(CurrentHead))
    BY <1>4, <1>6, RestoredIs
  <2> QED BY <1>1, <1>4, <1>6, <2>1, HoldsOn
<1> QED BY <1>5, <1>6

\* A step that acknowledges nothing leaves it in the copies of the other checkouts.
LEMMA AckQuietOthers ==
    ASSUME Types, Types', NEW c \in Checkout, Does(c), Quiet, Others(c),
           NEW e \in Checkout, e # c, AckOK(e)
    PROVE  AckOK(e)'
<1>1. Numbers /\ LineageFacts /\ LineageFacts'
  <2>1. TReg' /\ TReg
    BY DEF Types
  <2>2. LineageFacts'
    BY <2>1, LineageIs, PTL
  <2> QED BY <2>1, <2>2, NumbersOf, LineageIs
<1>2. CurrentLineage \in Nat /\ CurrentLineage' \in Nat /\ CurrentLineage <= CurrentLineage'
  BY <1>1, LineagesGrow, ReplAssumption DEF LineageFacts
<1>3. proc'[e] = proc[e] /\ disk'[e] = disk[e] /\ acked' = acked
  BY DEF Others, Quiet
<1>4. /\ disk[e].log \in Logs /\ proc[e].sync.log \in Logs
      /\ proc[e].lease \in Nat /\ disk[e].lineage.fence \in Nat
  BY <1>1 DEF Numbers
<1>5. /\ HoldsAll(disk[e].log) => HoldsAll(disk[e].log)'
      /\ HoldsAll(proc[e].sync.log) => HoldsAll(proc[e].sync.log)'
  <2>1. \A y \in Logs : HoldsAll(y) => HoldsAll(y)'
    BY <1>1, StillHolds
  <2> QED BY <1>3, <1>4, <2>1 DEF HoldsAll
<1>6. /\ CurrentLineage > proc[e].lease => CurrentLineage' > proc[e].lease
      /\ CurrentLineage >= disk[e].lineage.fence => CurrentLineage' >= disk[e].lineage.fence
  BY <1>2, <1>4, SMTT(30)
<1> QED BY <1>3, <1>5, <1>6 DEF AckOK

\* How the copy of the checkout that acts changes in a step that acknowledges nothing: its
\* log grows and its lineage stays, a lineage starts, or the copy is restored.
LEMMA CopySteps ==
    ASSUME Types, NEW c \in Checkout, Does(c)
    PROVE  \/ DoesRestore(c) \/ DoesStart(c)
           \/ /\ Prefix(disk[c].log, disk'[c].log)
              /\ disk'[c].lineage.fence = disk[c].lineage.fence
<1>1. disk[c].log \in Logs
  BY NumbersOf DEF Numbers
<1>2. Prefix(disk[c].log, disk[c].log)
  BY <1>1, PrefixLaws
<1>3. CASE DoesCommit(c)
  <2>1. made + 1 \in 1 .. LastCommit /\ Len(disk[c].log) < LastCommit
    BY <1>3, ReplAssumption DEF DoesCommit, Types, TCount
  <2> QED BY <1>1, <1>3, <2>1, AppendIs DEF DoesCommit
<1>4. CASE disk'[c].log = disk[c].log /\ disk'[c].lineage.fence = disk[c].lineage.fence
  BY <1>2, <1>4
<1> QED BY <1>3, <1>4
    DEF Does, DoesQuiet, DoesEnd, DoesTake, DoesKeepCopy, DoesContinue, DoesGoBack,
        DoesSyncStart, DoesShip, DoesPublish, DoesConfirm, DoesRecord, DoesAck, DoesCollect

\* How its hold changes: a process that has made its copy current had it so, finds it so
\* or restored it.
LEMMA PhaseSteps ==
    ASSUME NEW c \in Checkout, Does(c), LeaseOK(c)
    PROVE  \/ proc'[c].phase \notin {"lineage", "write"} /\ proc'[c].sync.at = "none"
           \/ DoesKeepCopy(c) \/ DoesRestore(c)
           \/ /\ proc'[c].lease = proc[c].lease /\ proc[c].phase \in {"lineage", "write"}
<1>1. /\ proc[c].phase \notin {"lineage", "write"} => proc[c].sync.at = "none"
      /\ proc[c].lease = 0 => proc[c].sync.at = "none"
  BY DEF LeaseOK
<1>2. NoSync.at = "none" /\ Ended.phase = "none" /\ Ended.sync.at = "none"
  BY DEF NoSync, Ended
<1>3. CASE DoesQuiet(c)
  BY <1>1, <1>2, <1>3 DEF DoesQuiet, SameHold, SameSync
<1>4. CASE DoesEnd(c)
  BY <1>2, <1>4 DEF DoesEnd
<1>5. CASE DoesTake(c)
  BY <1>1, <1>5 DEF DoesTake, SameSync
<1>6. CASE DoesContinue(c) \/ DoesStart(c) \/ DoesGoBack(c)
  BY <1>6 DEF DoesContinue, DoesStart, DoesGoBack
<1>7. CASE DoesCommit(c) \/ DoesSyncStart(c)
  BY <1>7 DEF DoesCommit, DoesSyncStart, SameHold
<1>8. CASE DoesShip(c) \/ DoesPublish(c) \/ DoesConfirm(c)
  BY <1>8 DEF DoesShip, DoesPublish, DoesConfirm, SameHold, LeaseOK
<1>9. CASE DoesRecord(c) \/ DoesAck(c) \/ DoesCollect(c)
  BY <1>9 DEF DoesRecord, DoesAck, DoesCollect, SameHold, LeaseOK
<1> QED BY <1>3, <1>4, <1>5, <1>6, <1>7, <1>8, <1>9 DEF Does

\* A step that acknowledges nothing leaves it in the copy of the checkout that acts.
LEMMA AckQuietActor ==
    ASSUME Types, Types', NEW c \in Checkout, Does(c), Quiet, Others(c), PublishedOK,
           HeadsOK, LeaseOK(c), LeaseOK(c)', CopyOK(c), SyncOK(c), AckOK(c)
    PROVE  AckOK(c)'
<1> DEFINE L == disk[c].log
           M == disk'[c].log
<1>1. Numbers /\ Numbers' /\ LineageFacts /\ LineageFacts'
  <2>1. TReg' /\ TReg
    BY DEF Types
  <2>2. LineageFacts' /\ Numbers'
    BY <2>1, LineageIs, NumbersOf, PTL
  <2> QED BY <2>1, <2>2, NumbersOf, LineageIs
<1>2. CurrentLineage \in Nat /\ CurrentLineage' \in Nat /\ CurrentLineage <= CurrentLineage'
  BY <1>1, LineagesGrow, ReplAssumption DEF LineageFacts
<1>3. /\ L \in Logs /\ M \in Logs /\ proc[c].sync.log \in Logs /\ proc'[c].sync.log \in Logs
      /\ proc[c].lease \in Nat /\ disk[c].lineage.fence \in Nat /\ proc[c].mark \in Nat
  BY <1>1 DEF Numbers
<1>4. \A y \in Logs : HoldsAll(y) => HoldsAll(y)'
  BY <1>1, StillHolds
<1>5. proc'[c].mark \in {proc[c].mark, 0} /\ acked' = acked
  BY DEF Quiet
<1>6. DoesRestore(c) => HoldsAll(M) /\ CurrentLineage' = CurrentLineage
  <2>1. DoesRestore(c) => M = Restored(CurrentHead) /\ Complete # {}
                          /\ UNCHANGED <<started, confirmed, heads>>
    BY DEF DoesRestore
  <2> QED BY <2>1, CurrentHolds, SameRegistry
<1>7. Prefix(L, M) /\ HoldsAll(L) => HoldsAll(M)
  BY <1>1, <1>3, HoldsOn
<1>8. DoesStart(c) => /\ M = L /\ disk'[c].lineage.fence = proc[c].lease
                      /\ proc[c].phase = "lineage"
  BY DEF DoesStart
<1>9. Prefix(L, L)
  BY <1>3, PrefixLaws
<1>10. disk'[c].lineage.fence # 0 => HoldsAll(M) \/ CurrentLineage' >= disk'[c].lineage.fence
  <2>1. CASE DoesRestore(c)
    BY <1>6, <2>1
  <2>2. CASE DoesStart(c)
    <3>1. HoldsAll(L) \/ CurrentLineage > proc[c].lease
      BY <1>8, <2>2 DEF AckOK
    <3> QED BY <1>2, <1>3, <1>8, <2>2, <3>1
  <2>3. CASE Prefix(L, M) /\ disk'[c].lineage.fence = disk[c].lineage.fence
    <3>1. disk[c].lineage.fence # 0 => HoldsAll(L) \/ CurrentLineage >= disk[c].lineage.fence
      BY DEF AckOK
    <3> QED BY <1>2, <1>3, <1>7, <2>3, <3>1
  <2> QED BY <2>1, <2>2, <2>3, CopySteps
<1>11. proc'[c].phase \in {"lineage", "write"} => HoldsAll(M) \/ CurrentLineage' > proc'[c].lease
  <2>1. CASE DoesRestore(c)
    BY <1>6, <2>1
  <2>2. CASE DoesKeepCopy(c)
    <3>1. HoldsAll(L) /\ M = L
      BY <2>2, CurrentHolds DEF DoesKeepCopy
    <3> QED BY <3>1
  <2>3. CASE /\ proc'[c].lease = proc[c].lease /\ proc[c].phase \in {"lineage", "write"}
             /\ ~DoesRestore(c)
    <3>1. Prefix(L, M)
      BY <1>8, <1>9, <2>3, CopySteps
    <3>2. HoldsAll(L) \/ CurrentLineage > proc[c].lease
      BY <2>3 DEF AckOK
    <3> QED BY <1>2, <1>3, <1>7, <2>3, <3>1, <3>2
  <2> QED BY <2>1, <2>2, <2>3, PhaseSteps
<1>12. proc'[c].sync.at # "none" =>
          HoldsAll(proc'[c].sync.log) \/ CurrentLineage' > proc'[c].lease
  <2>1. SUFFICES ASSUME proc'[c].sync.at # "none"
                 PROVE  HoldsAll(proc'[c].sync.log) \/ CurrentLineage' > proc'[c].lease
    OBVIOUS
  <2>2. CASE DoesSyncStart(c)
    <3>1. /\ proc[c].phase = "write" /\ proc'[c].lease = proc[c].lease
          /\ proc'[c].sync.log = SubSeq(L, 1, Mark(L))
      BY <2>2 DEF DoesSyncStart, SameHold
    <3>2. HoldsAll(L) \/ CurrentLineage > proc[c].lease
      BY <3>1 DEF AckOK
    <3>3. HoldsAll(L) => HoldsAll(proc'[c].sync.log)
      BY <1>1, <1>3, <3>1, HoldsOn
    <3> QED BY <1>2, <1>3, <3>1, <3>2, <3>3
  <2>3. CASE ~DoesSyncStart(c)
    <3>1. proc'[c].sync.log = proc[c].sync.log /\ proc[c].sync.at # "none"
      <4>1. CASE SameSync(c)
        BY <2>1, <4>1 DEF SameSync
      <4>2. CASE DoesShip(c) \/ DoesPublish(c)
        BY <4>2 DEF DoesShip, DoesPublish, SyncGoesOn
      <4>3. CASE DoesConfirm(c) \/ DoesRecord(c)
        BY <4>3 DEF DoesConfirm, DoesRecord, SyncGoesOn
      <4>4. CASE DoesAck(c)
        <5>1. NoSync.at = "none"
          BY DEF NoSync
        <5> QED BY <2>1, <4>4, <5>1 DEF DoesAck, SyncGoesOn
      <4> QED BY <2>1, <2>3, <4>1, <4>2, <4>3, <4>4, SyncSteps
    <3>2. proc[c].phase = "write"
      BY <3>1 DEF LeaseOK
    <3>3. proc'[c].lease = proc[c].lease
      BY <2>1, <3>2, PhaseSteps DEF DoesKeepCopy, DoesRestore
    <3>4. HoldsAll(proc[c].sync.log) \/ CurrentLineage > proc[c].lease
      BY <3>1 DEF AckOK
    <3> QED BY <1>2, <1>3, <3>1, <3>3, <3>4
  <2> QED BY <2>2, <2>3
<1>13. proc'[c].mark <= Len(M) /\ \A i \in 1 .. proc'[c].mark : M[i] \in acked \cup {0}
  <2>1. CASE proc'[c].mark = 0
    BY <1>3, <2>1, LogIs
  <2>2. CASE proc'[c].mark = proc[c].mark /\ DoesRestore(c)
    <3>1. MarkIn(proc[c].mark, M, acked)
      BY <1>6, <2>2 DEF HoldsAll
    <3> QED BY <2>2, <3>1 DEF MarkIn
  <2>3. CASE proc'[c].mark = proc[c].mark /\ ~DoesRestore(c)
    <3>1. Prefix(L, M)
      BY <1>8, <1>9, <2>3, CopySteps
    <3>2. proc[c].mark <= Len(L) /\ \A i \in 1 .. proc[c].mark : L[i] \in acked \cup {0}
      BY DEF AckOK
    <3>3. Len(L) \in Nat /\ Len(M) \in Nat
      BY <1>3, LogIs
    <3> HIDE DEF L, M
    <3> QED BY <1>3, <2>3, <3>1, <3>2, <3>3 DEF Prefix
  <2> QED BY <1>5, <2>1, <2>2, <2>3
<1>14. PICK y \in Logs : y = M
  BY <1>3
<1>15. PICK z \in Logs : z = proc'[c].sync.log
  BY <1>3
<1>16. (HoldsAll(M) => HoldsAll(y)') /\ (HoldsAll(proc'[c].sync.log) => HoldsAll(z)')
  BY <1>4, <1>14, <1>15
<1> QED BY <1>5, <1>10, <1>11, <1>12, <1>13, <1>14, <1>15, <1>16 DEF AckOK, HoldsAll

\* What an acknowledging step knows: its lease is the newest, so its lineage is the current
\* one and the head it published is the one a read takes.
LEMMA AckIsCurrent ==
    ASSUME Types, RegOK, PublishedOK, NEW c \in Checkout, DoesAck(c),
           LeaseOK(c), KnownOK(c), AckOK(c)
    PROVE  /\ disk[c].lineage.fence = CurrentLineage /\ CurrentLineage # 0
           /\ CurrentHead.log = proc[c].sync.log
           /\ HoldsAll(proc[c].sync.log)
<1> DEFINE s == proc[c].sync
           f == disk[c].lineage.fence
<1>1. Numbers /\ LineageFacts /\ HeadUnique
  BY NumbersOf, LineageIs, HeadIsIt DEF Types
<1>2. /\ s.at = "check" /\ s.lineage = f /\ s.writer = proc[c].lease /\ f # 0
      /\ disk[c].lineage.last = TopLease /\ proc[c].lease = TopLease
      /\ f <= TopLease /\ TopLease \in Nat /\ TopLease <= LastFence /\ f \in Nat
      /\ \A k \in 1 .. LastFence : f <= k /\ k <= TopLease => leases[k] = c
  BY <1>1 DEF DoesAck, LeaseOK, Numbers
<1>3. CurrentLineage \in Nat /\ CurrentLineage >= f
  BY <1>1, <1>2, ReplAssumption DEF KnownOK, LineageFacts
<1> HIDE DEF f
<1>4. CurrentLineage \in Complete /\ CurrentLineage \in started /\ CurrentLineage <= LastFence
  BY <1>1, <1>2, <1>3, ReplAssumption DEF LineageFacts, Complete
<1>5. CurrentLineage <= TopLease /\ CurrentLineage <= Owner(CurrentLineage).fence
  BY <1>4 DEF RegOK
<1>6. leases[CurrentLineage] = c
  BY <1>2, <1>3, <1>4, <1>5
<1>7. CurrentLineage = f
  BY <1>2, <1>3, <1>5, <1>6 DEF Owner, f
<1>8. PICK h \in heads : SyncHead(s, h)
  BY <1>2, <1>3, <1>7 DEF KnownOK
<1>9. h.lineage = CurrentLineage /\ h.writer = TopLease /\ h.log = s.log
  BY <1>2, <1>7, <1>8 DEF SyncHead
<1>10. \A g \in heads : g.lineage = h.lineage => g.writer <= h.writer
  BY <1>9 DEF RegOK
<1>11. CurrentHead = h
  BY <1>1, <1>9, <1>10 DEF HeadUnique
<1>12. HoldsAll(s.log)
  BY <1>4, <1>9, <1>11 DEF PublishedOK
<1> QED BY <1>2, <1>7, <1>9, <1>11, <1>12 DEF f

\* So the log that it acknowledges holds what is acknowledged and every mark, its own new
\* one too.
LEMMA AckHolds ==
    ASSUME Types, RegOK, PublishedOK, NEW c \in Checkout, DoesAck(c),
           LeaseOK(c), KnownOK(c), AckOK(c), SyncOK(c),
           NEW y \in Logs, y = proc[c].sync.log
    PROVE  /\ HoldsAll(y)' /\ acked \subseteq acked'
           /\ acked' = Kept(y) /\ proc'[c].mark = Len(y)
<1>1. Numbers
  BY NumbersOf
<1>2. /\ acked \subseteq Kept(y)
      /\ \A e \in Checkout : MarkIn(proc[e].mark, y, acked) /\ proc[e].mark \in Nat
  BY <1>1, AckIsCurrent DEF HoldsAll, Numbers
<1>3. acked' = Kept(y)
  BY <1>2 DEF DoesAck
<1>4. Len(y) \in Nat /\ DOMAIN y = 1 .. Len(y)
  BY LogIs, ReplAssumption
<1>5. proc'[c].mark = Len(y)
  <2>1. proc[c].mark \in Nat /\ proc[c].mark <= Len(y)
    BY <1>2 DEF MarkIn
  <2>2. {proc[c].mark, Len(y)} \in SUBSET (0 .. Len(y)) /\ {proc[c].mark, Len(y)} # {}
    BY <1>4, <2>1
  <2>3. /\ Max({proc[c].mark, Len(y)}) \in {proc[c].mark, Len(y)}
        /\ Len(y) <= Max({proc[c].mark, Len(y)})
    BY <1>4, <2>2, MaxIs
  <2>4. Max({proc[c].mark, Len(y)}) = Len(y)
    BY <1>4, <2>1, <2>3
  <2> QED BY <2>4 DEF DoesAck
<1>6. \A i \in 1 .. Len(y) : y[i] \in acked' \cup {0}
  BY <1>3, <1>4 DEF Kept
<1>7. EndsFull(y)
  BY DEF SyncOK, DoesAck
<1>8. MarkIn(proc'[c].mark, y, acked')
  BY <1>4, <1>5, <1>6, <1>7 DEF MarkIn, EndsFull
<1>9. ASSUME NEW e \in Checkout, e # c PROVE MarkIn(proc'[e].mark, y, acked')
  <2>1. proc'[e].mark = proc[e].mark
    BY <1>9 DEF DoesAck, Others
  <2> QED BY <1>2, <1>3, <2>1 DEF MarkIn
<1>10. HoldsAll(y)'
  BY <1>3, <1>8, <1>9 DEF HoldsAll, MarkIn
<1> QED BY <1>2, <1>3, <1>5, <1>10

\* An acknowledgement keeps what is acknowledged in the copies and under the head: every
\* other checkout that has a copy without it is behind the current lineage.
LEMMA AckStep ==
    ASSUME Types, Types', RegOK, PublishedOK, NEW c \in Checkout, DoesAck(c), SyncOK(c),
           \A e \in Checkout : LeaseOK(e) /\ KnownOK(e) /\ AckOK(e)
    PROVE  PublishedOK' /\ \A e \in Checkout : AckOK(e)'
<1> DEFINE f == disk[c].lineage.fence
<1>1. Numbers /\ LineageFacts /\ LeaseOK(c) /\ Others(c)
  BY NumbersOf, LineageIs DEF Types, DoesAck
<1>2. f = CurrentLineage /\ f # 0 /\ CurrentHead.log = proc[c].sync.log
  BY AckIsCurrent
<1>3. PICK y \in Logs : y = proc[c].sync.log
  BY <1>1 DEF Numbers
<1>4. HoldsAll(y)' /\ acked \subseteq acked' /\ acked' = Kept(y) /\ proc'[c].mark = Len(y)
  BY <1>3, AckHolds
<1>5. /\ Complete' = Complete /\ CurrentLineage' = CurrentLineage
      /\ CurrentHead' = CurrentHead /\ TopLease' = TopLease /\ disk'[c] = disk[c]
  BY SameRegistry DEF DoesAck, TopLease
<1>6. Complete # {}
  BY <1>1, <1>2 DEF LineageFacts
<1>7. PublishedOK'
  <2>1. CurrentHead'.log = y
    BY <1>2, <1>3, <1>5
  <2>2. HoldsAll(CurrentHead.log)'
    BY <1>4, <2>1 DEF HoldsAll
  <2> QED BY <1>5, <1>6, <2>2 DEF PublishedOK
<1>8. /\ TopLease \in Nat /\ f \in Nat /\ f <= TopLease /\ TopLease <= LastFence
      /\ \A k \in 1 .. LastFence : f <= k /\ k <= TopLease => leases[k] = c
  BY <1>1 DEF DoesAck, LeaseOK, Numbers
<1> HIDE DEF f
<1>9. ASSUME NEW e \in Checkout, e # c PROVE AckOK(e)'
  <2>1. /\ proc'[e] = proc[e] /\ disk'[e] = disk[e] /\ LeaseOK(e) /\ AckOK(e)
        /\ proc[e].lease \in Nat /\ disk[e].lineage.fence \in Nat
    BY <1>1, <1>9 DEF Others, Numbers
  <2>2. proc[e].phase \in {"lineage", "write"} \/ proc[e].sync.at # "none"
          => CurrentLineage' > proc[e].lease
    <3>1. proc[e].lease # 0 => leases[proc[e].lease] = e /\ proc[e].lease <= TopLease
      BY <2>1 DEF LeaseOK
    <3>2. proc[e].lease < f
      BY <1>2, <1>8, <1>9, <2>1, <3>1, ReplAssumption
    <3> QED BY <1>2, <1>5, <3>2
  <2>3. disk[e].lineage.fence # 0 => CurrentLineage' >= disk[e].lineage.fence
    <3>1. disk[e].lineage.fence # 0 =>
             /\ leases[disk[e].lineage.fence] = e /\ disk[e].lineage.fence \in 1 .. TopLease
      BY <1>1, <2>1, OwnFence
    <3>2. disk[e].lineage.fence # 0 => disk[e].lineage.fence < f
      BY <1>8, <1>9, <2>1, <3>1, ReplAssumption
    <3> QED BY <1>2, <1>5, <1>8, <2>1, <3>2
  <2>4. /\ proc[e].mark <= Len(disk[e].log)
        /\ \A i \in 1 .. proc[e].mark : disk[e].log[i] \in acked' \cup {0}
    BY <1>4, <2>1 DEF AckOK
  <2> QED BY <2>1, <2>2, <2>3, <2>4 DEF AckOK
<1>10. AckOK(c)'
  <2>1. PICK z \in Logs : z = disk'[c].log
    BY <1>1, <1>5 DEF Numbers
  <2>2. Prefix(y, z)
    BY <1>3, <1>5, <2>1 DEF SyncOK, DoesAck
  <2>3. \A e \in Checkout : proc'[e].mark \in Nat
    <3>1. Numbers'
      BY NumbersOf, PTL
    <3> QED BY <3>1 DEF Numbers
  <2>4. HoldsAll(z)'
    BY <1>4, <2>2, <2>3, Extends DEF HoldsAll
  <2>5. proc'[c].sync.at # "none" => proc'[c].sync.log = y
    BY <1>3 DEF DoesAck, SyncGoesOn, NoSync
  <2>6. MarkIn(proc'[c].mark, z, acked')
    BY <2>4 DEF HoldsAll
  <2>7. /\ proc'[c].phase \in {"lineage", "write"} => HoldsAll(disk[c].log)'
        /\ disk'[c].lineage.fence # 0 => HoldsAll(disk[c].log)'
    BY <2>1, <2>4 DEF HoldsAll
  <2>8. proc'[c].sync.at # "none" => HoldsAll(proc[c].sync.log)'
    BY <1>4, <2>5 DEF HoldsAll
  <2>9. /\ proc'[c].mark <= Len(disk'[c].log)
        /\ \A i \in 1 .. proc'[c].mark : disk'[c].log[i] \in acked' \cup {0}
    BY <2>1, <2>6 DEF MarkIn
  <2> QED BY <2>7, <2>8, <2>9 DEF AckOK
<1> QED BY <1>7, <1>9, <1>10

-----------------------------------------------------------------------------
(* The commits made *)

\* Every commit in a log, under a head or acknowledged was made.
LEMMA ValuesStep ==
    ASSUME Types, Types', NEW c \in Checkout, Does(c), Others(c), HeadsOK, ValuesOK
    PROVE  ValuesOK'
<1>1. Numbers /\ HeadFacts
  BY NumbersOf, HeadIs DEF Types
<1>2. made \in Nat /\ made' \in Nat /\ made' \in {made, made + 1}
  <2>1. made \in Nat /\ made' \in Nat
    BY DEF Types, TCount
  <2>2. DoesCommit(c) => made' = made + 1
    BY SMTT(30) DEF DoesCommit
  <2>3. DoesCommit(c) \/ made' = made
    BY DEF Does, DoesQuiet, DoesEnd, DoesTake, DoesKeepCopy, DoesRestore, DoesContinue,
           DoesStart, DoesGoBack, DoesSyncStart, DoesShip, DoesPublish, DoesConfirm,
           DoesRecord, DoesAck, DoesCollect
  <2> QED BY <2>1, <2>2, <2>3
<1>3. ASSUME NEW x \in Logs, UpTo(x)
      PROVE  \A i \in 1 .. Len(x) : x[i] <= made /\ x[i] <= made' /\ x[i] \in Nat
  BY <1>2, <1>3, LogIs DEF UpTo
<1>4. /\ \A e \in Checkout : /\ disk[e].log \in Logs /\ UpTo(disk[e].log)
                             /\ proc[e].sync.log \in Logs /\ UpTo(proc[e].sync.log)
      /\ \A h \in heads : h.log \in Logs /\ UpTo(h.log)
  BY <1>1, HeadNumbers DEF Numbers, ValuesOK
<1>5. \A e \in Checkout : e # c => UpTo(disk[e].log)' /\ UpTo(proc[e].sync.log)'
  <2>1. ASSUME NEW e \in Checkout, e # c PROVE UpTo(disk[e].log)' /\ UpTo(proc[e].sync.log)'
    <3>1. proc'[e] = proc[e] /\ disk'[e] = disk[e]
      BY <2>1 DEF Others
    <3> QED BY <1>3, <1>4, <3>1 DEF UpTo
  <2> QED BY <2>1
<1>6. UpTo(disk[c].log)'
  <2>1. CASE disk'[c].log = disk[c].log
    BY <1>3, <1>4, <2>1 DEF UpTo
  <2>2. CASE DoesCommit(c)
    <3>1. made + 1 \in 1 .. LastCommit /\ Len(disk[c].log) < LastCommit
      BY <2>2, ReplAssumption DEF DoesCommit, Types, TCount
    <3>2. PICK x \in Logs : x = disk[c].log
      BY <1>4
    <3>3. PICK y : y = disk'[c].log
      OBVIOUS
    <3>4. y = Append(x, made + 1)
      BY <2>2, <3>2, <3>3 DEF DoesCommit
    <3>5. y \in Logs /\ Len(y) = Len(x) + 1 /\ y[Len(x) + 1] = made + 1 /\ Prefix(x, y)
      <4>1. PICK n \in 1 .. LastCommit : n = made + 1
        BY <3>1
      <4>2. y = Append(x, n) /\ Len(x) < LastCommit
        BY <3>1, <3>2, <3>4, <4>1
      <4> QED BY <4>1, <4>2, AppendIs
    <3>6. Len(x) \in Nat /\ \A i \in 1 .. Len(x) : x[i] <= made'
      BY <1>3, <1>4, <3>2, LogIs
    <3>7. made' = made + 1
      BY <2>2 DEF DoesCommit
    <3>8. \A i \in 1 .. Len(y) : y[i] <= made'
      BY <1>2, <3>5, <3>6, <3>7 DEF Prefix
    <3> QED BY <3>3, <3>8 DEF UpTo
  <2>3. CASE DoesRestore(c)
    <3>1. /\ Complete # {} /\ disk'[c].log = Restored(CurrentHead) /\ CurrentHead \in heads
          /\ made' = made
      BY <1>1, <2>3 DEF DoesRestore, HeadFacts
    <3>2. PICK h \in heads : h = CurrentHead
      BY <3>1
    <3>3. h \in HeadType /\ Len(h.log) <= h.span /\ h.log \in Logs /\ UpTo(h.log)
      BY <1>4, HeadNumbers DEF HeadsOK
    <3>4. /\ Restored(h) \in Logs /\ Len(Restored(h)) = h.span
          /\ Prefix(h.log, Restored(h))
          /\ \A i \in 1 .. h.span : i > Len(h.log) => Restored(h)[i] = 0
      BY <3>3, RestoredIs
    <3>5. Len(h.log) \in Nat /\ h.span \in Nat
      BY <3>3, LogIs, ReplAssumption DEF HeadType
    <3>6. \A i \in 1 .. Len(h.log) : h.log[i] <= made
      BY <3>3 DEF UpTo
    <3>7. \A i \in 1 .. Len(Restored(h)) : Restored(h)[i] <= made
      <4>1. \A i \in 1 .. Len(h.log) : Restored(h)[i] = h.log[i]
        BY <3>4 DEF Prefix
      <4>2. ASSUME NEW i \in 1 .. h.span PROVE Restored(h)[i] <= made
        <5>1. CASE i <= Len(h.log)
          BY <3>5, <3>6, <4>1, <5>1
        <5>2. CASE i > Len(h.log)
          <6>1. Restored(h)[i] = 0
            BY <3>4, <5>2
          <6> QED BY <1>2, <6>1
        <5> QED BY <3>5, <5>1, <5>2
      <4> QED BY <3>4, <4>2
    <3> QED BY <3>1, <3>2, <3>7 DEF UpTo
  <2> QED BY <2>1, <2>2, <2>3
      DEF Does, DoesQuiet, DoesEnd, DoesTake, DoesKeepCopy, DoesContinue, DoesStart,
          DoesGoBack, DoesSyncStart, DoesShip, DoesPublish, DoesConfirm, DoesRecord,
          DoesAck, DoesCollect
<1>7. UpTo(proc[c].sync.log)'
  <2>1. CASE proc'[c].sync.log = proc[c].sync.log
    BY <1>3, <1>4, <2>1 DEF UpTo
  <2>2. CASE DoesSyncStart(c)
    <3>1. PICK x \in Logs : x = disk[c].log
      BY <1>4
    <3>2. PICK y : y = proc'[c].sync.log
      OBVIOUS
    <3>3. y = SubSeq(x, 1, Mark(x))
      BY <2>2, <3>1, <3>2 DEF DoesSyncStart
    <3>4. y \in Logs /\ Prefix(y, x)
      BY <3>1, <3>3, UnderMark
    <3>5. Len(y) \in Nat /\ Len(x) \in Nat
      BY <3>1, <3>4, LogIs
    <3>6. \A i \in 1 .. Len(x) : x[i] <= made'
      BY <1>3, <1>4, <3>1
    <3>7. \A i \in 1 .. Len(y) : y[i] <= made'
      BY <3>4, <3>5, <3>6 DEF Prefix
    <3> QED BY <3>2, <3>7 DEF UpTo
  <2>3. CASE proc'[c].sync = NoSync
    BY <2>3 DEF NoSync, UpTo
  <2> QED BY <2>1, <2>2, <2>3
      DEF Does, DoesQuiet, DoesEnd, Ended, DoesTake, DoesKeepCopy, DoesRestore, DoesContinue,
          DoesStart, DoesGoBack, DoesCommit, DoesShip, DoesPublish, DoesConfirm, DoesRecord,
          DoesAck, DoesCollect, SameSync, SyncGoesOn
<1>8. \A h \in heads' : UpTo(h.log)'
  <2>1. ASSUME NEW h \in heads' PROVE UpTo(h.log)'
    <3>1. \/ h \in heads
          \/ DoesPublish(c) /\ h = HeadOf(proc[c].sync)
      BY <2>1, RegistrySteps DEF DoesStart, DoesPublish, DoesConfirm, DoesCollect
    <3>2. h \in heads \/ h.log = proc[c].sync.log
      BY <3>1 DEF HeadOf
    <3> QED BY <1>3, <1>4, <3>2 DEF UpTo
  <2> QED BY <2>1
<1>9. \A i \in acked' : i <= made'
  <2>1. CASE acked' = acked
    <3>1. acked \subseteq 1 .. LastCommit /\ \A i \in acked : i <= made
      BY DEF ValuesOK, Types, TCount
    <3> QED BY <1>2, <2>1, <3>1, ReplAssumption
  <2>2. CASE DoesAck(c)
    <3>1. PICK x \in Logs : x = proc[c].sync.log
      BY <1>4
    <3>2. DOMAIN x = 1 .. Len(x)
      BY LogIs
    <3>3. \A i \in 1 .. Len(x) : x[i] <= made'
      BY <1>3, <1>4, <3>1
    <3>4. acked' = acked \cup Kept(x) /\ made' = made
      BY <2>2, <3>1 DEF DoesAck
    <3> QED BY <3>2, <3>3, <3>4 DEF Kept, ValuesOK
  <2> QED BY <2>1, <2>2, QuietSteps DEF Quiet
<1> QED BY <1>5, <1>6, <1>7, <1>8, <1>9 DEF ValuesOK, UpTo

-----------------------------------------------------------------------------
(* The invariant *)

\* It holds in the state in which nothing was published yet.
LEMMA InitInv == ReplInit => Types /\ IInv
<1> SUFFICES ASSUME ReplInit PROVE Types /\ IInv
  OBVIOUS
<1>1. /\ <<>> \in Logs /\ Len(<<>>) = 0 /\ <<>> \in Seq(Checkout)
      /\ LastFence \in Nat /\ LastCommit \in Nat /\ LastTxid \in Nat /\ LastFailure \in Nat
  BY ReplAssumption DEF Logs
<1>2. TopLease = 0 /\ leases = <<>>
  BY <1>1 DEF ReplInit, TopLease
<1>3. Types
  <2>1. NewCopy \in DiskType
    BY <1>1 DEF NewCopy, DiskType
  <2>2. TProc /\ TDisk
    BY <2>1, EndedTyped DEF ReplInit, TProc, TDisk
  <2>3. TShip
    BY <1>1 DEF ReplInit, TShip
  <2>4. TLease
    BY <1>1, <1>2 DEF TLease
  <2>5. THeads /\ TReg
    BY DEF ReplInit, THeads, TReg
  <2>6. TCount
    BY <1>1 DEF ReplInit, TCount
  <2> QED BY <2>2, <2>3, <2>4, <2>5, <2>6 DEF Types
<1>4. /\ started = {} /\ confirmed = {} /\ heads = {} /\ acked = {} /\ made = 0
      /\ Complete = {}
  BY DEF ReplInit, Complete
<1>5. RegOK /\ HeadsOK
  BY <1>4 DEF RegOK, HeadsOK
<1>6. ASSUME NEW c \in Checkout
      PROVE  /\ proc[c].lease = 0 /\ proc[c].phase = "none" /\ proc[c].mark = 0
             /\ proc[c].sync.at = "none" /\ proc[c].sync.log = <<>>
             /\ disk[c].log = <<>> /\ disk[c].lineage.fence = 0 /\ disk[c].lineage.last = 0
             /\ disk[c].copy.lineage = 0 /\ disk[c].copy.txid = 0
  BY DEF ReplInit, Ended, NoSync, NewCopy
<1>7. PublishedOK /\ ValuesOK
  BY <1>1, <1>4, <1>6 DEF PublishedOK, ValuesOK, UpTo
<1>8. ASSUME NEW c \in Checkout
      PROVE  LeaseOK(c) /\ KnownOK(c) /\ CopyOK(c) /\ SyncOK(c) /\ AckOK(c)
  <2>1. LeaseOK(c)
    BY <1>1, <1>2, <1>6 DEF LeaseOK
  <2>2. KnownOK(c) /\ SyncOK(c)
    BY <1>6 DEF KnownOK, SyncOK
  <2>3. CopyOK(c)
    BY <1>4, <1>6 DEF CopyOK
  <2>4. AckOK(c)
    BY <1>1, <1>6 DEF AckOK
  <2> QED BY <2>1, <2>2, <2>3, <2>4
<1> QED BY <1>3, <1>5, <1>7, <1>8 DEF IInv

\* Every step keeps it.
LEMMA StepInv ==
    ASSUME Cases = {}, Types, IInv, ReplNext
    PROVE  Types' /\ IInv'
<1>1. Types' /\ \E c \in Checkout : Does(c)
  BY StepDoes
<1>2. PICK c \in Checkout : Does(c)
  BY <1>1
<1>3. /\ RegOK /\ HeadsOK /\ PublishedOK /\ ValuesOK
      /\ \A e \in Checkout : LeaseOK(e)
      /\ \A e \in Checkout : LeaseOK(e) /\ KnownOK(e)
      /\ \A e \in Checkout : LeaseOK(e) /\ KnownOK(e) /\ AckOK(e)
      /\ \A e \in Checkout : CopyOK(e) /\ SyncOK(e)
  BY DEF IInv
<1>4. Others(c)
  BY <1>2, <1>3, ReplStepFrame
<1>5. \A e \in Checkout : LeaseOK(e)'
  BY <1>1, <1>2, <1>3, LeaseStep
<1>6. RegOK'
  BY <1>1, <1>2, <1>3, RegStep
<1>7. \A e \in Checkout : KnownOK(e)'
  BY <1>1, <1>2, <1>3, KnownStep
<1>8. HeadsOK'
  BY <1>1, <1>2, <1>3, HeadsStep
<1>9. \A e \in Checkout : CopyOK(e)'
  <2>1. ASSUME NEW e \in Checkout, e # c PROVE CopyOK(e)'
    BY <1>1, <1>2, <1>3, <2>1, CopyOfOthers
  <2>2. CopyOK(c)'
    BY <1>1, <1>2, <1>3, CopyOfActor
  <2> QED BY <2>1, <2>2
<1>10. \A e \in Checkout : SyncOK(e)'
  <2>1. ASSUME NEW e \in Checkout, e # c PROVE SyncOK(e)'
    BY <1>1, <1>2, <1>3, <2>1, SyncOfOthers
  <2>2. SyncOK(c)'
    BY <1>1, <1>2, <1>3, SyncOfActor
  <2> QED BY <2>1, <2>2
<1>11. PublishedOK' /\ \A e \in Checkout : AckOK(e)'
  <2>1. CASE DoesAck(c)
    BY <1>1, <1>2, <1>3, <2>1, AckStep
  <2>2. CASE Quiet
    <3>1. PublishedOK'
      BY <1>1, <1>2, <1>3, <1>6, <2>2, PublishedQuiet
    <3>2. ASSUME NEW e \in Checkout, e # c PROVE AckOK(e)'
      BY <1>1, <1>2, <1>3, <1>4, <2>2, <3>2, AckQuietOthers
    <3>3. AckOK(c)'
      BY <1>1, <1>2, <1>3, <1>4, <1>5, <2>2, AckQuietActor
    <3> QED BY <3>1, <3>2, <3>3
  <2> QED BY <1>2, <1>4, <2>1, <2>2, QuietSteps
<1>12. ValuesOK'
  BY <1>1, <1>2, <1>3, <1>4, ValuesStep
<1> QED BY <1>1, <1>5, <1>6, <1>7, <1>8, <1>9, <1>10, <1>11, <1>12 DEF IInv

\* So does a step that changes nothing.
LEMMA StutterInv ==
    ASSUME Types, IInv, UNCHANGED replVars
    PROVE  Types' /\ IInv'
<1>1. UNCHANGED <<leases, proc, disk, started, confirmed, heads, shipped, acked, made, failures>>
  BY DEF replVars
<1>2. Types'
  BY <1>1 DEF Types, TLease, TProc, TDisk, THeads, TReg, TShip, TCount, TopLease
<1>3. TopLease' = TopLease
  BY <1>1 DEF TopLease
<1>4. /\ Complete' = Complete /\ CurrentLineage' = CurrentLineage
      /\ NewestStarted' = NewestStarted /\ CurrentHead' = CurrentHead
  BY <1>1, SameRegistry
<1>5. RegOK' /\ HeadsOK' /\ ValuesOK'
  BY <1>1, <1>3 DEF IInv, RegOK, Owner, HeadsOK, ValuesOK, UpTo
<1>6. PublishedOK'
  BY <1>1, <1>4 DEF IInv, PublishedOK, HoldsAll
<1>7. ASSUME NEW c \in Checkout
      PROVE  (LeaseOK(c) /\ KnownOK(c) /\ CopyOK(c) /\ SyncOK(c) /\ AckOK(c))'
  <2>1. LeaseOK(c) /\ KnownOK(c) /\ CopyOK(c) /\ SyncOK(c) /\ AckOK(c)
    BY DEF IInv
  <2>2. LeaseOK(c)' /\ KnownOK(c)'
    BY <1>1, <1>3, <1>4, <2>1 DEF LeaseOK, KnownOK
  <2>3. CopyOK(c)' /\ SyncOK(c)'
    BY <1>1, <1>4, <2>1 DEF CopyOK, SyncOK
  <2>4. AckOK(c)'
    BY <1>1, <1>4, <2>1 DEF AckOK, HoldsAll
  <2> QED BY <2>2, <2>3, <2>4
<1> QED BY <1>2, <1>5, <1>6, <1>7 DEF IInv

\* The inductive invariant, for a store in which every sync ships something and a lease is
\* taken again only by an upkeep that listens, between syncs.
LEMMA Invariant == Cases = {} /\ ReplSpec => [](Types /\ IInv)
<1> SUFFICES ASSUME Cases = {} PROVE ReplSpec => [](Types /\ IInv)
  OBVIOUS
<1>1. ReplInit => Types /\ IInv
  BY InitInv
<1>2. Types /\ IInv /\ [ReplNext]_replVars => (Types /\ IInv)'
  BY StepInv, StutterInv
<1> QED BY <1>1, <1>2, PTL DEF ReplSpec

-----------------------------------------------------------------------------
(* The theorems *)

\* The state keeps its shape, and a process with a sidecar has a lineage that the registry
\* knows or that a newer one replaced (prepareV3WriterLineage, collectV3Lineages).
THEOREM ReplTypesHold == Cases = {} /\ ReplSpec => []ReplTypeOK
<1>1. ASSUME Types, IInv PROVE ReplTypeOK
  <2>1. Numbers /\ LineageFacts
    BY <1>1, NumbersOf, LineageIs DEF Types
  <2>2. leases \in Seq(Checkout) /\ TopLease <= LastFence
    BY <1>1 DEF Types, TLease
  <2>3. started \subseteq Lineage /\ confirmed \subseteq Lineage
    BY <1>1 DEF Types, TReg
  <2>4. /\ acked \subseteq 1 .. made /\ made \in 0 .. LastCommit
        /\ failures \in 0 .. LastFailure
    <3>1. /\ acked \subseteq 1 .. LastCommit /\ made \in 0 .. LastCommit
          /\ failures \in 0 .. LastFailure /\ \A i \in acked : i <= made
      BY <1>1 DEF Types, TCount, IInv, ValuesOK
    <3> QED BY <3>1, ReplAssumption
  <2>5. ASSUME NEW h \in heads
        PROVE  /\ h.lineage \in Lineage /\ h.writer \in h.lineage .. LastFence
               /\ h.txid \in 1 .. LastTxid
               /\ IsCommitLog(h.log) /\ h.span \in Len(h.log) .. LastCommit
    <3>1. h \in HeadType /\ h.lineage <= h.writer /\ Len(h.log) <= h.span
      BY <1>1 DEF Types, THeads, IInv, RegOK, HeadsOK
    <3>2. /\ h.lineage \in Lineage /\ h.writer \in Lineage /\ h.txid \in 1 .. LastTxid
          /\ h.log \in Logs /\ h.span \in 0 .. LastCommit
      BY <3>1 DEF HeadType
    <3>3. Len(h.log) \in Nat
      BY <3>2, LogIs
    <3> QED BY <3>1, <3>2, <3>3, ReplAssumption DEF Lineage, Logs, IsCommitLog
  <2>6. ASSUME NEW c \in Checkout
        PROVE  /\ IsCommitLog(disk[c].log)
               /\ disk[c].lineage.last >= disk[c].lineage.fence
               /\ proc[c].lease \in 0 .. TopLease
               /\ (proc[c].lease # 0 => leases[proc[c].lease] = c)
               /\ (proc[c].phase = "none") <=> (proc[c].lease = 0)
               /\ proc[c].sync.at # "none" => proc[c].lease # 0
               /\ proc[c].phase = "write" =>
                     \/ disk[c].lineage.fence \in started
                     \/ disk[c].lineage.fence < NewestStarted
    <3>1. LeaseOK(c) /\ KnownOK(c)
      BY <1>1 DEF IInv
    <3>2. IsCommitLog(disk[c].log)
      BY <2>1 DEF Numbers, Logs, IsCommitLog
    <3>3. /\ disk[c].lineage.last >= disk[c].lineage.fence
          /\ proc[c].lease \in 0 .. TopLease
          /\ (proc[c].lease # 0 => leases[proc[c].lease] = c)
          /\ (proc[c].phase = "none") <=> (proc[c].lease = 0)
          /\ proc[c].sync.at # "none" => proc[c].lease # 0
      BY <2>1, <3>1 DEF Numbers, LeaseOK
    <3>4. proc[c].phase = "write" => \/ disk[c].lineage.fence \in started
                                     \/ CurrentLineage > disk[c].lineage.fence
      BY <3>1 DEF LeaseOK, KnownOK
    <3>5. /\ CurrentLineage \in Nat /\ NewestStarted \in Nat
          /\ CurrentLineage <= NewestStarted /\ disk[c].lineage.fence \in Nat
      BY <2>1, ReplAssumption DEF LineageFacts, Numbers
    <3> QED BY <3>2, <3>3, <3>4, <3>5
  <2> QED BY <2>2, <2>3, <2>4, <2>5, <2>6 DEF ReplTypeOK
<1> QED BY <1>1, Invariant, PTL

\* No takeover loses an acknowledged commit: it is in the copy of the process that holds
\* the newest lease once that copy was made current, and under the head that every later
\* restore reads (publishV3Head before checkV3WriterLease, holdV3Writer before the restore).
THEOREM AckedSurvivesHolds == Cases = {} /\ ReplSpec => []AckedSurvives
<1>1. ASSUME Types, IInv PROVE AckedSurvives
  <2>1. Numbers /\ LineageFacts
    BY <1>1, NumbersOf, LineageIs DEF Types
  <2>2. CurrentLineage \in Nat /\ TopLease \in Nat /\ CurrentLineage <= TopLease
    <3>1. CurrentLineage \in Nat /\ TopLease \in Nat
      BY <2>1, ReplAssumption DEF LineageFacts, Numbers
    <3>2. CurrentLineage # 0 => CurrentLineage \in started
      BY <2>1 DEF LineageFacts, Complete
    <3>3. CurrentLineage # 0 => CurrentLineage <= TopLease
      BY <1>1, <3>2 DEF IInv, RegOK
    <3> QED BY <3>1, <3>3
  <2>3. ASSUME NEW c \in Checkout, proc[c].lease = TopLease,
               proc[c].phase \in {"lineage", "write"}
        PROVE  acked \subseteq Kept(disk[c].log)
    <3>1. HoldsAll(disk[c].log) \/ CurrentLineage > proc[c].lease
      BY <1>1, <2>3 DEF IInv, AckOK
    <3>2. HoldsAll(disk[c].log)
      BY <2>2, <2>3, <3>1
    <3> QED BY <3>2 DEF HoldsAll
  <2>4. Complete # {} => acked \subseteq Kept(CurrentHead.log)
    BY <1>1 DEF IInv, PublishedOK, HoldsAll
  <2> QED BY <2>3, <2>4 DEF AckedSurvives
<1> QED BY <1>1, Invariant, PTL

\* The smaller of two naturals.
LEMMA MinIs ==
    ASSUME NEW x \in Nat, NEW y \in Nat, y <= x
    PROVE  Min({x, y}) = y
  BY DEF Min

\* What a leader feeds its followers is acknowledged, whatever became of its lease and its
\* copy since it published its mark (publishedMarks).
THEOREM FeedBoundIsAckedHolds == Cases = {} /\ ReplSpec => []FeedBoundIsAcked
<1>1. ASSUME Types, IInv PROVE FeedBoundIsAcked
  <2> SUFFICES ASSUME NEW c \in Checkout
               PROVE  Kept(SubSeq(disk[c].log, 1, Min({Len(disk[c].log), proc[c].mark})))
                         \subseteq acked
    BY DEF FeedBoundIsAcked
  <2>1. PICK x \in Logs : x = disk[c].log
    BY <1>1, NumbersOf DEF Numbers
  <2>2. PICK m \in Nat : m = proc[c].mark
    BY <1>1, NumbersOf DEF Numbers
  <2>3. m <= Len(x) /\ \A i \in 1 .. m : x[i] \in acked \cup {0}
    BY <1>1, <2>1, <2>2 DEF IInv, AckOK
  <2>4. Len(x) \in Nat /\ \A i \in 1 .. Len(x) : x[i] \in 0 .. LastCommit
    BY LogIs
  <2>5. Min({Len(x), m}) = m
    BY <2>3, <2>4, MinIs
  <2>6. PICK y : y = SubSeq(x, 1, m)
    OBVIOUS
  <2>7. /\ y \in Seq(0 .. LastCommit)
        /\ Len(y) = IF 1 <= m THEN m - 1 + 1 ELSE 0
        /\ \A i \in 1 .. m - 1 + 1 : y[i] = x[1 + i - 1]
    <3>1. m \in Int /\ \A i \in 1 .. m : x[i] \in 0 .. LastCommit
      BY <2>3, <2>4
    <3> QED BY <2>6, <3>1, SubSeqProperties
  <2>8. DOMAIN y = 1 .. m /\ \A i \in 1 .. m : y[i] = x[i]
    <3>1. DOMAIN y = 1 .. Len(y)
      BY <2>7, LenProperties
    <3> QED BY <2>7, <3>1
  <2>9. Kept(y) \subseteq acked
    BY <2>3, <2>8 DEF Kept
  <2> QED BY <2>1, <2>2, <2>5, <2>6, <2>9
<1> QED BY <1>1, Invariant, PTL

\* The lineage that a restore reads never goes back, whoever confirms or collects lineages
\* or takes the lease (currentLineage, collectV3Lineages): a copy that is replaced is
\* replaced by one of a lineage at least as new.
THEOREM CurrentNeverGoesBack ==
    Cases = {} /\ ReplSpec => [][CurrentLineage <= CurrentLineage']_replVars
<1> SUFFICES ASSUME Cases = {}
             PROVE  ReplSpec => [][CurrentLineage <= CurrentLineage']_replVars
  OBVIOUS
<1>1. Types /\ IInv /\ ReplNext => CurrentLineage <= CurrentLineage'
  BY StepDoes, LineagesGrow
<1>2. Types /\ IInv /\ [ReplNext]_replVars => [CurrentLineage <= CurrentLineage']_replVars
  BY <1>1
<1>3. ReplSpec => [](Types /\ IInv)
  BY Invariant
<1> QED BY <1>2, <1>3, PTL DEF ReplSpec

-----------------------------------------------------------------------------
(* The published log *)

\* The logs of the copies, of the syncs and of the heads.
InUse == {disk[c].log : c \in Checkout} \cup {proc[c].sync.log : c \in Checkout}
            \cup {h.log : h \in heads}

\* The logs x and y are the same up to the cursor i.
SameUpTo(x, y, i) == \A k \in 1 .. i : x[k] = y[k]

\* Two logs that have a commit in common have it at one cursor, and the same commits before.
LogsMatch ==
    \A x, y \in InUse : \A i \in 1 .. Len(x), j \in 1 .. Len(y) :
        x[i] = y[j] /\ x[i] # 0 => i = j /\ SameUpTo(x, y, i)

\* The log y is, up to the cursor i, what a log in use is.
Placed(y, i) == \E x \in InUse : i \in 1 .. Len(x) /\ SameUpTo(x, y, i)

\* Up to a commit, a log is after a step what a log was before it, the same one or the one
\* it was taken from, unless the step made that commit.
LEMMA LogPlaces ==
    ASSUME Types, Types', NEW c \in Checkout, Does(c), Others(c), HeadsOK,
           NEW y \in InUse', NEW i \in 1 .. Len(y), y[i] # 0
    PROVE  \/ Placed(y, i)
           \/ y = disk'[c].log /\ y[i] = made + 1 /\ i = Len(disk[c].log) + 1
<1>1. Numbers /\ HeadFacts
  BY NumbersOf, HeadIs DEF Types
<1>2. /\ \A e \in Checkout : disk[e].log \in InUse /\ proc[e].sync.log \in InUse
      /\ \A h \in heads : h.log \in InUse
  BY DEF InUse
<1>3. ASSUME y \in InUse PROVE Placed(y, i)
  BY <1>3 DEF Placed, SameUpTo
<1>4. \/ \E e \in Checkout : e # c /\ (y = disk'[e].log \/ y = proc'[e].sync.log)
      \/ y = disk'[c].log \/ y = proc'[c].sync.log
      \/ \E h \in heads' : y = h.log
  BY DEF InUse
<1>5. CASE \E e \in Checkout : e # c /\ (y = disk'[e].log \/ y = proc'[e].sync.log)
  BY <1>2, <1>3, <1>5 DEF Others
<1>6. CASE y = disk'[c].log
  <2>1. CASE disk'[c].log = disk[c].log
    BY <1>2, <1>3, <1>6, <2>1
  <2>2. CASE DoesCommit(c)
    <3>1. made + 1 \in 1 .. LastCommit /\ Len(disk[c].log) < LastCommit
      BY <2>2, ReplAssumption DEF DoesCommit, Types, TCount
    <3>2. PICK x \in Logs : x = disk[c].log
      BY <1>1 DEF Numbers
    <3>3. PICK n \in 1 .. LastCommit : n = made + 1
      BY <3>1
    <3>4. y = Append(x, n)
      BY <1>6, <2>2, <3>2, <3>3 DEF DoesCommit
    <3>5. Len(y) = Len(x) + 1 /\ y[Len(x) + 1] = n /\ Prefix(x, y)
      <4>1. Len(x) < LastCommit
        BY <3>1, <3>2
      <4> QED BY <3>4, <4>1, AppendIs
    <3>6. Len(x) \in Nat
      BY LogIs
    <3>7. CASE i \in 1 .. Len(x)
      <4>1. SameUpTo(x, y, i) /\ x \in InUse
        BY <1>2, <3>2, <3>5, <3>6, <3>7 DEF Prefix, SameUpTo
      <4> QED BY <3>7, <4>1 DEF Placed
    <3>8. CASE i = Len(x) + 1
      BY <1>6, <3>2, <3>3, <3>5, <3>8
    <3> QED BY <3>5, <3>6, <3>7, <3>8
  <2>3. CASE DoesRestore(c)
    <3>1. PICK h \in heads : h = CurrentHead /\ disk'[c].log = Restored(CurrentHead)
      BY <1>1, <2>3 DEF DoesRestore, HeadFacts
    <3>2. h \in HeadType /\ Len(h.log) <= h.span /\ h.log \in Logs
      BY HeadNumbers DEF HeadsOK
    <3>3. /\ Len(y) = h.span /\ Prefix(h.log, y)
          /\ \A k \in 1 .. h.span : k > Len(h.log) => y[k] = 0
      BY <1>6, <3>1, <3>2, RestoredIs
    <3>4. Len(h.log) \in Nat /\ h.span \in Nat
      BY <3>2, LogIs, ReplAssumption DEF HeadType
    <3>5. i \in 1 .. Len(h.log)
      BY <3>3, <3>4
    <3>6. SameUpTo(h.log, y, i)
      BY <3>3, <3>4, <3>5 DEF Prefix, SameUpTo
    <3> QED BY <1>2, <3>5, <3>6 DEF Placed
  <2> QED BY <2>1, <2>2, <2>3
      DEF Does, DoesQuiet, DoesEnd, DoesTake, DoesKeepCopy, DoesContinue, DoesStart,
          DoesGoBack, DoesSyncStart, DoesShip, DoesPublish, DoesConfirm, DoesRecord,
          DoesAck, DoesCollect
<1>7. CASE y = proc'[c].sync.log
  <2>1. CASE proc'[c].sync.log = proc[c].sync.log
    BY <1>2, <1>3, <1>7, <2>1
  <2>2. CASE DoesSyncStart(c)
    <3>1. PICK x \in Logs : x = disk[c].log
      BY <1>1 DEF Numbers
    <3>2. y = SubSeq(x, 1, Mark(x))
      BY <1>7, <2>2, <3>1 DEF DoesSyncStart
    <3>3. y \in Logs /\ Prefix(y, x)
      BY <3>1, <3>2, UnderMark
    <3>4. Len(y) \in Nat /\ Len(x) \in Nat
      BY <3>1, <3>3, LogIs
    <3>5. i \in 1 .. Len(x) /\ SameUpTo(x, y, i)
      BY <3>3, <3>4 DEF Prefix, SameUpTo
    <3> QED BY <1>2, <3>1, <3>5 DEF Placed
  <2>3. CASE proc'[c].sync = NoSync
    BY <1>7, <2>3 DEF NoSync
  <2> QED BY <2>1, <2>2, <2>3
      DEF Does, DoesQuiet, DoesEnd, Ended, DoesTake, DoesKeepCopy, DoesRestore, DoesContinue,
          DoesStart, DoesGoBack, DoesCommit, DoesShip, DoesPublish, DoesConfirm, DoesRecord,
          DoesAck, DoesCollect, SameSync, SyncGoesOn
<1>8. CASE \E h \in heads' : y = h.log
  <2>1. PICK h \in heads' : y = h.log
    BY <1>8
  <2>2. \/ h \in heads
        \/ DoesPublish(c) /\ h = HeadOf(proc[c].sync)
    BY <2>1, RegistrySteps DEF DoesStart, DoesPublish, DoesConfirm, DoesCollect
  <2>3. h \in heads \/ h.log = proc[c].sync.log
    BY <2>2 DEF HeadOf
  <2> QED BY <1>2, <1>3, <2>1, <2>3
<1> QED BY <1>4, <1>5, <1>6, <1>7, <1>8

\* So the logs still match after a step.
LEMMA MatchStep ==
    ASSUME Types, Types', NEW c \in Checkout, Does(c), Others(c), HeadsOK, ValuesOK,
           LogsMatch
    PROVE  LogsMatch'
<1> SUFFICES ASSUME NEW x \in InUse', NEW y \in InUse',
                    NEW i \in 1 .. Len(x), NEW j \in 1 .. Len(y),
                    x[i] = y[j], x[i] # 0
             PROVE  i = j /\ SameUpTo(x, y, i)
  BY DEF LogsMatch
<1> DEFINE n == made + 1
           k == Len(disk[c].log) + 1
<1>1. Placed(x, i) \/ (x = disk'[c].log /\ x[i] = n /\ i = k)
  BY LogPlaces
<1>2. Placed(y, j) \/ (y = disk'[c].log /\ y[j] = n /\ j = k)
  BY LogPlaces
<1>3. ASSUME NEW z, NEW e \in 1 .. Len(z), Len(z) \in Nat, Placed(z, e) PROVE z[e] # n
  <2>1. PICK u \in InUse : e \in 1 .. Len(u) /\ SameUpTo(u, z, e)
    BY <1>3 DEF Placed
  <2>2. u \in Logs /\ UpTo(u)
    BY NumbersOf, HeadNumbers DEF InUse, Numbers, ValuesOK
  <2>3. u[e] \in Nat /\ u[e] <= made /\ made \in Nat
    BY <2>1, <2>2, LogIs, ReplAssumption DEF UpTo, Types, TCount
  <2>4. u[e] = z[e]
    BY <1>3, <2>1 DEF SameUpTo
  <2> QED BY <2>3, <2>4
<1>4. Len(x) \in Nat /\ Len(y) \in Nat
  <2>1. Numbers'
    BY NumbersOf, PTL
  <2>2. \A h \in heads' : h.log \in Logs
    BY ReplAssumption DEF Types, THeads, HeadType
  <2>3. x \in Logs /\ y \in Logs
    BY <2>1, <2>2 DEF InUse, Numbers
  <2> QED BY <2>3, LogIs
<1>5. CASE Placed(x, i) /\ Placed(y, j)
  <2>1. PICK u \in InUse : i \in 1 .. Len(u) /\ SameUpTo(u, x, i)
    BY <1>5 DEF Placed
  <2>2. PICK v \in InUse : j \in 1 .. Len(v) /\ SameUpTo(v, y, j)
    BY <1>5 DEF Placed
  <2>3. u[i] = x[i] /\ v[j] = y[j]
    BY <1>4, <2>1, <2>2 DEF SameUpTo
  <2>4. i = j /\ SameUpTo(u, v, i)
    BY <2>1, <2>2, <2>3 DEF LogsMatch
  <2> QED BY <2>1, <2>2, <2>4 DEF SameUpTo
<1>6. CASE x = y /\ i = j
  BY <1>6 DEF SameUpTo
<1> HIDE DEF n, k
<1> QED BY <1>1, <1>2, <1>3, <1>4, <1>5, <1>6

\* Whoever commits, restores, syncs or publishes, two logs that share a commit are the same
\* up to it: copies, syncs and heads never disagree below a commit they have in common
\* (restoreV3Copy keeps the cursors of what it removes, and removes only past the mark).
THEOREM LogsMatchHolds == Cases = {} /\ ReplSpec => []LogsMatch
<1> SUFFICES ASSUME Cases = {} PROVE ReplSpec => []LogsMatch
  OBVIOUS
<1>1. ReplInit => LogsMatch
  <2> SUFFICES ASSUME ReplInit PROVE \A x \in InUse : x = <<>>
    BY DEF LogsMatch
  <2> QED BY DEF ReplInit, InUse, NewCopy, Ended, NoSync
<1>2. Types /\ IInv /\ LogsMatch /\ [ReplNext]_replVars => LogsMatch'
  <2>1. ASSUME Types, IInv, LogsMatch, ReplNext PROVE LogsMatch'
    <3>1. Types' /\ \E c \in Checkout : Does(c)
      BY <2>1, StepDoes
    <3>2. PICK c \in Checkout : Does(c)
      BY <3>1
    <3>3. HeadsOK /\ ValuesOK /\ \A e \in Checkout : LeaseOK(e)
      BY <2>1 DEF IInv
    <3>4. Others(c)
      BY <2>1, <3>2, <3>3, ReplStepFrame
    <3> QED BY <2>1, <3>1, <3>2, <3>3, <3>4, MatchStep
  <2>2. ASSUME LogsMatch, UNCHANGED replVars PROVE LogsMatch'
    BY <2>2 DEF LogsMatch, InUse, replVars
  <2> QED BY <2>1, <2>2
<1>3. ReplSpec => [](Types /\ IInv)
  BY Invariant
<1> QED BY <1>1, <1>2, <1>3, PTL DEF ReplSpec

\* The published log is a log in use, or there is none yet.
PublishedFacts ==
    \/ Complete = {} /\ PublishedLog = <<>>
    \/ Complete # {} /\ PublishedLog \in InUse /\ PublishedLog \in Logs

\* It is one of the heads' while a lineage is confirmed.
LEMMA PublishedIs == Types => PublishedFacts
<1> SUFFICES ASSUME Types, Complete # {} PROVE CurrentHead.log \in InUse /\ CurrentHead.log \in Logs
  BY DEF PublishedFacts, PublishedLog
<1>1. CurrentHead \in heads
  BY HeadIs DEF Types, HeadFacts
<1> QED BY <1>1, HeadNumbers DEF InUse

\* A step that acknowledges nothing publishes a log that is the same up to every
\* acknowledged commit, or leaves the one there is.
LEMMA PublishStep ==
    ASSUME Types, Types', RegOK, RegOK', NEW c \in Checkout, Does(c), Quiet,
           PublishedOK, PublishedOK', LogsMatch, LogsMatch',
           \A x \in Checkout : LeaseOK(x) /\ KnownOK(x)
    PROVE  DL!Publish
<1>1. PublishedFacts /\ PublishedFacts'
  <2>1. PublishedFacts'
    BY PublishedIs, PTL
  <2> QED BY <2>1, PublishedIs
<1>2. PICK y : y = PublishedLog
  OBVIOUS
<1>3. PICK z : z = PublishedLog'
  OBVIOUS
<1>4. acked' = acked
  BY DEF Quiet
<1>5. DL!IsLog(z)
  <2>1. CASE z = <<>>
    BY <2>1 DEF DL!IsLog
  <2>2. CASE z \in InUse' /\ z \in Logs
    <3>1. DOMAIN z = 1 .. Len(z)
      BY <2>2, LogIs
    <3>2. z \in Seq(Nat)
      <4>1. z \in Seq(0 .. LastCommit) /\ 0 .. LastCommit \subseteq Nat
        BY <2>2, ReplAssumption DEF Logs
      <4>2. Len(z) \in Nat /\ z \in [1 .. Len(z) -> 0 .. LastCommit]
        BY <4>1, LenProperties
      <4>3. z \in [1 .. Len(z) -> Nat]
        BY <4>1, <4>2
      <4> QED BY <4>2, <4>3, SeqDef
    <3>3. \A i, j \in 1 .. Len(z) : z[i] = z[j] /\ z[i] # 0 => i = j
      BY <2>2 DEF LogsMatch
    <3> QED BY <3>1, <3>2, <3>3 DEF DL!IsLog
  <2> QED BY <1>1, <1>3, <2>1, <2>2 DEF PublishedFacts
<1>6. ASSUME NEW i \in DOMAIN y, y[i] \in acked
      PROVE  \A k \in 1 .. i : k \in DOMAIN z /\ z[k] = y[k]
  <2>1. Complete # {} /\ y \in InUse /\ y \in Logs
    BY <1>1, <1>2, <1>6 DEF PublishedFacts
  <2>2. Complete' # {}
    <3>1. LineageFacts /\ LineageFacts'
      <4>1. TReg /\ TReg'
        BY DEF Types
      <4>2. LineageFacts'
        BY <4>1, LineageIs, PTL
      <4> QED BY <4>1, <4>2, LineageIs
    <3>2. CurrentLineage <= CurrentLineage'
      BY LineagesGrow
    <3> QED BY <2>1, <3>1, <3>2, ReplAssumption DEF LineageFacts
  <2>3. z = CurrentHead'.log /\ acked \subseteq Kept(z)
    BY <1>3, <1>4, <2>2 DEF PublishedLog, PublishedOK, HoldsAll
  <2>4. z \in InUse /\ z \in Logs
    <3>1. CASE CurrentHead' = CurrentHead
      BY <1>1, <2>1, <2>3, <3>1 DEF PublishedFacts, PublishedLog
    <3>2. CASE CurrentHead'.log = proc[c].sync.log
      BY <2>3, <3>2, NumbersOf DEF InUse, Numbers
    <3> QED BY <2>2, <3>1, <3>2, CurrentMoves
  <2>5. y[i] # 0
    BY <1>6, ReplAssumption DEF Types, TCount
  <2>6. PICK j \in DOMAIN z : z[j] = y[i]
    BY <1>6, <2>3 DEF Kept
  <2>7. DOMAIN y = 1 .. Len(y) /\ DOMAIN z = 1 .. Len(z)
    BY <2>1, <2>4, LogIs
  <2>8. i = j /\ SameUpTo(y, z, i)
    BY <1>6, <2>1, <2>4, <2>5, <2>6, <2>7 DEF LogsMatch
  <2>9. Len(z) \in Nat
    BY <2>4, LogIs
  <2> QED BY <2>6, <2>7, <2>8, <2>9 DEF SameUpTo
<1>7. DL!IsLog(PublishedLog')
  BY <1>3, <1>5
<1> QED BY <1>2, <1>3, <1>4, <1>6, <1>7 DEF DL!Publish

\* A step that acknowledges leaves the published log, which has what it acknowledges.
LEMMA AcknowledgeStep ==
    ASSUME Types, NEW c \in Checkout, DoesAck(c), RegOK, PublishedOK,
           LeaseOK(c), KnownOK(c), AckOK(c), SyncOK(c)
    PROVE  DL!Acknowledge
<1>1. Complete' = Complete /\ CurrentHead' = CurrentHead
  BY SameRegistry DEF DoesAck
<1>2. CurrentLineage # 0 /\ CurrentHead.log = proc[c].sync.log
  BY AckIsCurrent
<1>3. PICK y \in Logs : y = proc[c].sync.log
  BY NumbersOf DEF Numbers
<1>4. acked \subseteq acked' /\ acked' = Kept(y)
  BY <1>3, AckHolds
<1>5. Complete # {}
  BY <1>2, LineageIs DEF Types, LineageFacts
<1>6. PublishedLog = y /\ PublishedLog' = y
  BY <1>1, <1>2, <1>3, <1>5 DEF PublishedLog
<1>7. Len(y) \in 0 .. Len(y) /\ DL!UpToCursor(y, Len(y)) = Kept(y)
  BY LogIs DEF Kept, DL!UpToCursor
<1>8. acked' = acked \cup DL!UpToCursor(y, Len(y))
  BY <1>4, <1>7
<1> QED BY <1>6, <1>7, <1>8 DEF DL!Acknowledge

\* Replication implements the durable log: what is acknowledged was published, and nothing
\* at or below it changes in a log that is published later, through takeovers, restores,
\* collected lineages and syncs that failed (publishV3Head, checkV3WriterLease).
THEOREM ReplicationIsDurable == Cases = {} /\ ReplSpec => ImplementsDurableLog
<1> SUFFICES ASSUME Cases = {} PROVE ReplSpec => ImplementsDurableLog
  OBVIOUS
<1>1. ReplInit => DL!Init
  BY DEF ReplInit, PublishedLog, Complete, DL!Init
<1>2. ASSUME Types, IInv, LogsMatch, Types', IInv', LogsMatch', ReplNext
      PROVE  DL!Next
  <2>1. PICK c \in Checkout : Does(c)
    BY <1>2, StepDoes
  <2>2. /\ RegOK /\ PublishedOK /\ RegOK' /\ PublishedOK'
        /\ \A e \in Checkout : LeaseOK(e)
        /\ \A e \in Checkout : LeaseOK(e) /\ KnownOK(e)
        /\ LeaseOK(c) /\ KnownOK(c) /\ AckOK(c) /\ SyncOK(c)
    BY <1>2 DEF IInv
  <2>3. Others(c)
    BY <1>2, <2>1, <2>2, ReplStepFrame
  <2>4. CASE Quiet
    <3>1. DL!Publish
      BY <1>2, <2>1, <2>2, <2>4, PublishStep
    <3> QED BY <3>1 DEF DL!Next
  <2>5. CASE DoesAck(c)
    <3>1. DL!Acknowledge
      BY <1>2, <2>2, <2>5, AcknowledgeStep
    <3> QED BY <3>1 DEF DL!Next
  <2> QED BY <2>1, <2>3, <2>4, <2>5, QuietSteps
<1>3. ASSUME UNCHANGED replVars PROVE UNCHANGED DL!vars
  <2>1. UNCHANGED <<started, confirmed, heads, acked>>
    BY <1>3 DEF replVars
  <2>2. Complete' = Complete /\ CurrentHead' = CurrentHead
    BY <2>1, SameRegistry
  <2> QED BY <2>1, <2>2 DEF DL!vars, PublishedLog
<1>4. Types /\ IInv /\ LogsMatch /\ (Types /\ IInv /\ LogsMatch)' /\ [ReplNext]_replVars
        => [DL!Next]_(DL!vars)
  BY <1>2, <1>3
<1>5. ReplSpec => [](Types /\ IInv /\ LogsMatch)
  BY Invariant, LogsMatchHolds, PTL
<1> QED BY <1>1, <1>4, <1>5, PTL DEF ReplSpec, ImplementsDurableLog, DL!Spec

=============================================================================
