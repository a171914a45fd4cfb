------------------------------ MODULE CdrLedger ------------------------------
(***************************************************************************)
(* What the daily call statistics promise (migration 000009, postcall):    *)
(* every call is folded into the summary of the day on which it started,   *)
(* at most once, whatever is delivered how often and to whom.              *)
(***************************************************************************)
EXTENDS Naturals

CONSTANTS Calls, Days, None

VARIABLES
    start,    \* the day on which a call started, or None
    counted,  \* the calls that are in the summary
    total     \* per day, the number of calls in daily_cdr_summary

vars == <<start, counted, total>>

Init ==
    /\ start = [c \in Calls |-> None]
    /\ counted = {}
    /\ total = [d \in Days |-> 0]

\* A call begins on some day.
Begin(c) ==
    /\ start[c] = None
    /\ \E d \in Days : start' = [start EXCEPT ![c] = d]
    /\ UNCHANGED <<counted, total>>

\* A call is folded into the day of its beginning.
Count(c) ==
    /\ start[c] \in Days
    /\ c \notin counted
    /\ counted' = counted \cup {c}
    /\ total' = [total EXCEPT ![start[c]] = @ + 1]
    /\ UNCHANGED start

Next == \E c \in Calls : Begin(c) \/ Count(c)

Spec == Init /\ [][Next]_vars
=============================================================================
