------------------------------- MODULE KeyedWait -------------------------------
(***************************************************************************)
(* What the waits of one key promise: one is open at a time; an open wait  *)
(* stays open until it is settled, which happens once, or goes with its    *)
(* run; and its outcome stays until its run has gone.                      *)
(***************************************************************************)
CONSTANT Wait

VARIABLES open, outcome, gone

vars == <<open, outcome, gone>>

Init == open = {} /\ outcome = [w \in Wait |-> "none"] /\ gone = {}

OpenWait(w) ==
    /\ open = {} /\ outcome[w] = "none" /\ w \notin gone
    /\ open' = {w}
    /\ UNCHANGED <<outcome, gone>>

\* A wait may be settled before it is open; it then does not open.
Settle(w) ==
    /\ outcome[w] = "none"
    /\ \E o \in {"accepted", "timed_out", "cancelled"} :
          outcome' = [outcome EXCEPT ![w] = o]
    /\ open' = open \ {w}
    /\ UNCHANGED gone

\* The removal of some runs begins.
Remove ==
    /\ gone' \in SUBSET Wait /\ gone \subseteq gone'
    /\ open' = open \ gone'
    /\ UNCHANGED outcome

Forget(w) ==
    /\ w \in gone
    /\ outcome' = [outcome EXCEPT ![w] = "none"]
    /\ UNCHANGED <<open, gone>>

Next == Remove \/ \E w \in Wait : Forget(w) \/ OpenWait(w) \/ Settle(w)

Spec == Init /\ [][Next]_vars
=============================================================================
