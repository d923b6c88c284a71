------------------------------- MODULE MCAuth -------------------------------
(* The two halves of the authentication boundary share the clock and the    *)
(* threads, and nothing else: a run explores one while the other is at rest.*)
EXTENDS BrowserLogin, KeyCache, TLC

CONSTANTS Halves,   \* the halves to explore
          Turns     \* whether the verifications of keys take turns

VARIABLE half

Init == LoginInit /\ KeyInit /\ half \in Halves /\ alone \in Turns

Next ==
  \/ half = "login" /\ LoginNext /\ UNCHANGED <<provider, cache, verifying, alone, half>>
  \/ half = "keys" /\ KeyNext /\ UNCHANGED <<idp, store, jar, work, half>>

Spec == Init /\ [][Next]_<<loginVars, keyVars, half>>

TypeOK == LoginTypeOK /\ KeyTypeOK

Symmetry ==
  Permutations(Threads) \cup Permutations(Browsers) \cup Permutations(States)
    \cup Permutations(Sessions) \cup Permutations(Keys)
=============================================================================
