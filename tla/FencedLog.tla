------------------------------- MODULE FencedLog -------------------------------
(***************************************************************************)
(* What the writer lease and the commit store promise together: a log with *)
(* one writer at a time.  Each takeover starts a higher fence, and only    *)
(* the process that started the current one appends, under that fence.     *)
(***************************************************************************)
EXTENDS Naturals, Sequences

CONSTANTS Proc, NoOne, MaxFence

VARIABLES fence, writer, log

vars == <<fence, writer, log>>

Init == fence = 0 /\ writer = NoOne /\ log = <<>>

TakeOver(p) ==
    /\ fence' \in (fence + 1)..MaxFence
    /\ writer' = p
    /\ UNCHANGED log

Write(p) ==
    /\ writer = p
    /\ log' = Append(log, [fence |-> fence, by |-> p])
    /\ UNCHANGED <<fence, writer>>

Next == \E p \in Proc : TakeOver(p) \/ Write(p)

Spec == Init /\ [][Next]_vars
=============================================================================
