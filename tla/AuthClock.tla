----------------------------- MODULE AuthClock -----------------------------
(* What the two halves of the authentication boundary have in common: the   *)
(* threads that handle requests, and the wall clock that expiries are       *)
(* written in.  The clock only moves forward, up to the bound MaxTime.      *)
EXTENDS Naturals

CONSTANTS Threads, MaxTime,
          Nothing    \* no row, no cookie, no request, None

ASSUME TimeAssumption == MaxTime \in Nat /\ Nothing \notin Nat

VARIABLE now

Tick == now < MaxTime /\ now' = now + 1
=============================================================================
