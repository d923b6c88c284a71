------------------------------ MODULE KeyCache ------------------------------
(* The cache of the identity provider's signing keys: OidcVerifier._key_for *)
(* and _cached_jwks in qe_platform/auth/oidc.py.                            *)
(*                                                                          *)
(* One verifier serves every thread and takes no lock: a thread may be      *)
(* interrupted between its reads and writes of the two attributes of the    *)
(* cache, the key set and its expiry.  A verification looks its key up in   *)
(* the cache, which is fetched if it is empty or expired, and once more     *)
(* after a forced fetch.  A key stands for its kid: that two keys share one *)
(* is left out.                                                             *)
EXTENDS AuthClock

CONSTANTS Keys,   \* the keys the identity provider ever signs with
          TTL     \* jwks_cache_ttl

ASSUME KeyAssumption == TTL \in Nat \ {0} /\ \A set \in SUBSET Keys : set # Nothing

VARIABLES
  published,   \* the provider's key set
  withdrawn,   \* when the provider withdrew each key, or Nothing
  jwks,        \* self._jwks, or Nothing
  expiry,      \* self._jwks_expires_at, or Nothing
  verifying,   \* the verification on each thread, or Nothing
  alone        \* whether verifications take turns

cache == <<jwks, expiry>>
provider == <<published, withdrawn>>
keyVars == <<now, provider, cache, verifying, alone>>

Times == 0 .. MaxTime

\* key: the key that signed the token; start, known: when the verification began
\* and whether the key was published then; clock: the time read by _cached_jwks.
Verification ==
  [at : {"clock", "test", "fetch", "keys", "expiry", "return", "accepted", "refused", "failed"},
   key : Keys, start : Times, known : BOOLEAN, clock : Times, forced : BOOLEAN,
   got : SUBSET Keys]

ASSUME NoneAssumption == Nothing \notin Verification

KeyInit ==
  /\ now = 0
  /\ published \in SUBSET Keys
  /\ withdrawn = [k \in Keys |-> Nothing]
  /\ jwks = Nothing /\ expiry = Nothing
  /\ verifying = [t \in Threads |-> Nothing]
  /\ alone \in BOOLEAN

-----------------------------------------------------------------------------
(* The identity provider.  A withdrawn key does not come back.              *)

Publish(k) ==
  /\ k \notin published /\ withdrawn[k] = Nothing
  /\ published' = published \cup {k}
  /\ UNCHANGED <<now, withdrawn, cache, verifying, alone>>

Withdraw(k) ==
  /\ k \in published
  /\ published' = published \ {k}
  /\ withdrawn' = [withdrawn EXCEPT ![k] = now]
  /\ UNCHANGED <<now, cache, verifying, alone>>

-----------------------------------------------------------------------------
(* A verification.                                                          *)

Is(t, place) == verifying[t] # Nothing /\ verifying[t].at = place
Next1(t, place) == verifying' = [verifying EXCEPT ![t].at = place]

\* A token signed with a key the provider has, or has had.
Begin(t, k) ==
  /\ verifying[t] = Nothing
  /\ alone => \A u \in Threads : verifying[u] = Nothing
  /\ k \in published \/ withdrawn[k] # Nothing
  /\ verifying' = [verifying EXCEPT ![t] =
       [at |-> "clock", key |-> k, start |-> now, known |-> k \in published,
        clock |-> now, forced |-> FALSE, got |-> {}]]
  /\ UNCHANGED <<now, provider, cache, alone>>

ReadClock(t) ==
  /\ Is(t, "clock")
  /\ verifying' = [verifying EXCEPT ![t].at = "test", ![t].clock = now]
  /\ UNCHANGED <<now, provider, cache, alone>>

\* Mutant: the expiry is not looked at.
MustFetchUnlessFilled(v) == v.forced \/ jwks = Nothing

MustFetch(v) == v.forced \/ jwks = Nothing \/ expiry = Nothing \/ v.clock >= expiry

TestCache(t) ==
  /\ Is(t, "test")
  /\ Next1(t, IF MustFetch(verifying[t]) THEN "fetch" ELSE "return")
  /\ UNCHANGED <<now, provider, cache, alone>>

\* Mutant: the expiry is written before the keys are.
FetchKeysStamped(t) ==
  /\ Is(t, "fetch")
  /\ verifying' = [verifying EXCEPT ![t].at = "keys", ![t].got = published]
  /\ expiry' = verifying[t].clock + TTL
  /\ UNCHANGED <<now, provider, jwks, alone>>

FetchKeys(t) ==
  /\ Is(t, "fetch")
  /\ verifying' = [verifying EXCEPT ![t].at = "keys", ![t].got = published]
  /\ UNCHANGED <<now, provider, cache, alone>>

\* The provider cannot be reached, or answers something else.
FetchFails(t) ==
  /\ Is(t, "fetch")
  /\ Next1(t, "failed")
  /\ UNCHANGED <<now, provider, cache, alone>>

StoreKeys(t) ==
  /\ Is(t, "keys")
  /\ jwks' = verifying[t].got
  /\ Next1(t, "expiry")
  /\ UNCHANGED <<now, provider, expiry, alone>>

StoreExpiry(t) ==
  /\ Is(t, "expiry")
  /\ expiry' = verifying[t].clock + TTL
  /\ Next1(t, "return")
  /\ UNCHANGED <<now, provider, jwks, alone>>

\* Mutant: an unknown key is refused without another look at the provider.
VerdictAtOnce(v) == IF v.key \in jwks THEN "accepted" ELSE "refused"

\* What is found is looked for in the cache as it now is, not as it was fetched.
Verdict(v) == IF v.key \in jwks THEN "accepted" ELSE IF v.forced THEN "refused" ELSE "clock"

FindKey(t) ==
  /\ Is(t, "return")
  /\ verifying' = [verifying EXCEPT ![t].at = Verdict(verifying[t]), ![t].forced = TRUE]
  /\ UNCHANGED <<now, provider, cache, alone>>

End(t) ==
  /\ Is(t, "accepted") \/ Is(t, "refused") \/ Is(t, "failed")
  /\ verifying' = [verifying EXCEPT ![t] = Nothing]
  /\ UNCHANGED <<now, provider, cache, alone>>

Verify(t) ==
  \/ ReadClock(t) \/ TestCache(t) \/ FetchKeys(t) \/ FetchFails(t) \/ StoreKeys(t)
  \/ StoreExpiry(t) \/ FindKey(t) \/ End(t)

KeyTick == Tick /\ UNCHANGED <<provider, cache, verifying, alone>>

KeyNext ==
  \/ KeyTick
  \/ \E k \in Keys : Publish(k) \/ Withdraw(k)
  \/ \E t \in Threads, k \in Keys : Begin(t, k)
  \/ \E t \in Threads : Verify(t)

KeySpec == KeyInit /\ [][KeyNext]_keyVars

-----------------------------------------------------------------------------
\* The types of the cache and of the verifications; an expiry is written only
\* after a key set.
KeyTypeOK ==
  /\ now \in Times
  /\ published \in SUBSET Keys
  /\ withdrawn \in [Keys -> Times \cup {Nothing}]
  /\ jwks \in (SUBSET Keys) \cup {Nothing}
  /\ expiry \in 0 .. MaxTime + TTL \cup {Nothing}
  /\ expiry # Nothing => jwks # Nothing
  /\ verifying \in [Threads -> Verification \cup {Nothing}]
  /\ alone \in BOOLEAN

\* A key the provider has withdrawn is accepted by no verification that begins a
\* cache lifetime after that.
TrustEnds ==
  \A t \in Threads :
    Is(t, "accepted") /\ withdrawn[verifying[t].key] # Nothing
      => verifying[t].start < withdrawn[verifying[t].key] + TTL

\* When verifications take turns the cache outlives no key by more than its
\* lifetime, however long a fetch takes (oidc.py:102-111).
AloneTrustEnds == alone => TrustEnds

\* When verifications take turns a key published before its verification began
\* is refused only if it has been withdrawn since: an old cache costs a fetch,
\* never the token (oidc.py:94-99).
AloneRotationFollowed ==
  alone => \A t \in Threads :
    Is(t, "refused") /\ verifying[t].known => withdrawn[verifying[t].key] # Nothing
=============================================================================
