----------------------------- MODULE CaseVerdict -----------------------------
(* What the asynchronous runner promises the caller of run_many, with none of *)
(* its tasks: at most MaxConcurrency cases are in flight, every case gets one *)
(* verdict which nothing changes afterwards, and a case may stay in flight    *)
(* for ever only if its verdict is not "complete".                            *)
EXTENDS Integers, FiniteSets

CONSTANTS Cases, MaxConcurrency

VARIABLES verdict,   \* what the caller is told of each case
          inFlight   \* the cases that use one of the runner's permits

vars == <<verdict, inFlight>>

FinalVerdict == {"complete", "incomplete", "raised"}

Init == /\ verdict = [c \in Cases |-> "none"]
        /\ inFlight = {}

Admit(c) ==
    /\ verdict[c] = "none"
    /\ c \notin inFlight
    /\ Cardinality(inFlight) < MaxConcurrency
    /\ inFlight' = inFlight \cup {c}
    /\ UNCHANGED verdict

Settle(c, v) ==
    /\ verdict[c] = "none"
    /\ verdict' = [verdict EXCEPT ![c] = v]
    /\ \/ inFlight' = inFlight \ {c}
       \/ v # "complete" /\ inFlight' = inFlight

Next == \E c \in Cases : Admit(c) \/ \E v \in FinalVerdict : Settle(c, v)

Spec == Init /\ [][Next]_vars
==============================================================================
