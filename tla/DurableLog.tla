------------------------------ MODULE DurableLog ------------------------------
(***************************************************************************)
(* What replication promises those who wait for an acknowledgement and     *)
(* those who follow the log by cursor.  There is one published log, and it *)
(* is acknowledged up to a cursor.  Whoever publishes next may replace     *)
(* what nobody was promised, but nothing at or below an acknowledged entry *)
(* ever changes: the acknowledged part only grows, at its end.             *)
(***************************************************************************)
EXTENDS Naturals, Sequences

VARIABLES published, acked

vars == <<published, acked>>

Init == published = <<>> /\ acked = {}

\* 0 stands at a cursor whose entry was dropped; an entry has one cursor.
IsLog(l) ==
    /\ l \in Seq(Nat)
    /\ \A i, j \in DOMAIN l : l[i] = l[j] /\ l[i] # 0 => i = j

UpToCursor(l, n) == {l[i] : i \in 1..n} \ {0}

Acknowledge ==
    /\ UNCHANGED published
    /\ \E n \in 0..Len(published) : acked' = acked \cup UpToCursor(published, n)

Publish ==
    /\ UNCHANGED acked
    /\ IsLog(published')
    /\ \A i \in DOMAIN published : published[i] \in acked =>
          \A k \in 1..i : k \in DOMAIN published' /\ published'[k] = published[k]

Next == Acknowledge \/ Publish

Spec == Init /\ [][Next]_vars
=============================================================================
