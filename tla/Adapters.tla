-------------------------------- MODULE Adapters --------------------------------
(* The application adapters: one exchange of a message for an answer over     *)
(* HTTP, by the blocking and the native (asynchronous) client of a Dify chat  *)
(* and of the reference agent.  A Dify adapter continues, for each user and   *)
(* session, the conversation the last answer named.  The blocking one takes   *)
(* its lock once to read the conversation and once to write it; the native    *)
(* one holds a lock per user and session over the whole exchange, in which    *)
(* its task may be cancelled.                                                 *)
(*                                                                            *)
(* The server is external.  It takes a message or refuses it, it may take one *)
(* whose caller has given up, and it opens a conversation for a message that  *)
(* names none: that conversation is known here by the exchange that opened it.*)
EXTENDS Integers, FiniteSets

CONSTANTS Exchanges,  \* bound: the calls of send, each with a user and a session
          KeyOf,      \* the user and the session of each
          Kinds,      \* the adapters looked at
          NoConversation

ASSUME AdaptersAssumption == IsFiniteSet(Exchanges) /\ NoConversation \notin Exchanges

VARIABLES adapter,      \* which adapter the exchanges share
          known,     \* _conversation_ids
          exchange,  \* exchange -> how far send has come
          names,     \* exchange -> payload['conversation_id']
          request,   \* exchange -> the request on its way to the server
          beside     \* pairs of exchanges that were under way together

adapterVars == <<adapter, known, exchange, names, request, beside>>

Keys    == {KeyOf[x] : x \in Exchanges}
Dify    == {"dify", "asyncDify"}
Native  == {"asyncDify", "asyncReference"}

\* What comes back in place of a connection error or a lost answer.
Responses == [status : {200, 429, 503}, valid : BOOLEAN]

Under == {x \in Exchanges : exchange[x] \in {"queued", "posting"}}

AdaptersInit ==
    /\ adapter \in Kinds
    /\ known = [k \in Keys |-> NoConversation]
    /\ exchange = [x \in Exchanges |-> "new"]
    /\ names = [x \in Exchanges |-> NoConversation]
    /\ request = [x \in Exchanges |-> "none"]
    /\ beside = {}

\* Mutant: the conversation is looked up by the session alone.
ConversationOfSession(key) ==
    LET found == {k \in Keys : k[2] = key[2] /\ known[k] # NoConversation}
    IN  IF found = {} THEN NoConversation ELSE known[CHOOSE k \in found : TRUE]

ConversationOf(key) == known[key]

Post(x) ==
    /\ exchange' = [exchange EXCEPT ![x] = "posting"]
    /\ names' = [names EXCEPT ![x] = IF adapter \in Dify THEN ConversationOf(KeyOf[x])
                                     ELSE NoConversation]
    /\ request' = [request EXCEPT ![x] = "sent"]

\* send up to its first await: the blocking client and the reference clients
\* post at once, the native Dify client asks for the lock of its key.
Send(x) ==
    /\ exchange[x] = "new"
    /\ beside' = beside \cup ({x} \X Under) \cup (Under \X {x})
    /\ IF adapter = "asyncDify"
       THEN exchange' = [exchange EXCEPT ![x] = "queued"] /\ UNCHANGED <<names, request>>
       ELSE Post(x)
    /\ UNCHANGED <<adapter, known>>

Locked(key) == \E x \in Exchanges : KeyOf[x] = key /\ exchange[x] = "posting"

Acquire(x) ==
    /\ exchange[x] = "queued"
    /\ ~Locked(KeyOf[x])
    /\ Post(x)
    /\ UNCHANGED <<adapter, known, beside>>

------------------------------------------------------------------------------
(* The server and the network.                                                *)

\* The server takes a message, also of a caller that no longer waits.
Take(x) ==
    /\ request[x] = "sent"
    /\ request' = [request EXCEPT ![x] = "taken"]
    /\ UNCHANGED <<adapter, known, exchange, names, beside>>

Opened(x) == request[x] = "taken" /\ names[x] = NoConversation

Conversation(x) == IF names[x] = NoConversation THEN x ELSE names[x]

------------------------------------------------------------------------------
(* How an exchange ends.                                                      *)

End(x, how) == /\ exchange' = [exchange EXCEPT ![x] = how]
               /\ UNCHANGED <<adapter, names, beside>>

\* An error of the blocking clients says nothing of the outcome; one of the
\* native clients says whether the message may have had an effect.
Failure(unknown) ==
    IF adapter \notin Native THEN "failed" ELSE IF unknown THEN "unknown" ELSE "refused"

\* No connection: nothing was sent.
ConnectFails(x) ==
    /\ exchange[x] = "posting" /\ request[x] = "sent"
    /\ request' = [request EXCEPT ![x] = "none"]
    /\ End(x, Failure(FALSE))
    /\ UNCHANGED known

\* Any other HTTPError: a timeout, a connection that breaks.
AnswerLost(x) ==
    /\ exchange[x] = "posting"
    /\ End(x, Failure(TRUE))
    /\ UNCHANGED <<known, request>>

\* Whether the error for a status other than 2xx leaves the outcome open; the
\* reference client takes every response it cannot use to leave it open.
EffectUnknown(status) == adapter = "asyncReference" \/ status # 429

\* A response that is not 2xx, whether the server took the message or not; one
\* that limits the rate (429) comes for a message that was not taken.
RespondsWithError(x, reply) ==
    /\ exchange[x] = "posting" /\ reply.status # 200
    /\ reply.status = 429 => request[x] = "sent"
    /\ request' = [request EXCEPT ![x] = IF @ = "taken" THEN "taken" ELSE "none"]
    /\ End(x, Failure(EffectUnknown(reply.status)))
    /\ UNCHANGED known

\* A 2xx response without an answer or a conversation.
RespondsWithout(x, reply) ==
    /\ exchange[x] = "posting" /\ request[x] = "taken"
    /\ reply.status = 200 /\ ~reply.valid
    /\ End(x, Failure(TRUE))
    /\ UNCHANGED <<known, request>>

Responds(x, reply) ==
    /\ exchange[x] = "posting" /\ request[x] = "taken"
    /\ reply.status = 200 /\ reply.valid
    /\ known' = IF adapter \in Dify THEN [known EXCEPT ![KeyOf[x]] = Conversation(x)] ELSE known
    /\ End(x, "answered")
    /\ UNCHANGED request

\* The task of a native client is cancelled while it waits for the lock, or for
\* the answer to a request that may yet arrive.
Cancel(x) ==
    /\ adapter \in Native
    /\ exchange[x] \in {"queued", "posting"}
    /\ End(x, "cancelled")
    /\ UNCHANGED <<known, request>>

AdaptersNext ==
    \E x \in Exchanges :
        \/ Send(x) \/ Acquire(x) \/ Take(x)
        \/ ConnectFails(x) \/ AnswerLost(x) \/ Cancel(x)
        \/ \E reply \in Responses :
               RespondsWithError(x, reply) \/ RespondsWithout(x, reply) \/ Responds(x, reply)

AdaptersSpec == AdaptersInit /\ [][AdaptersNext]_adapterVars

\* Every exchange has ended, and no request is left on its way.
AdaptersDone == \A x \in Exchanges : x \notin Under /\ exchange[x] # "new" /\ request[x] # "sent"

AdaptersTypeOK ==
    /\ adapter \in Kinds
    /\ known \in [Keys -> Exchanges \cup {NoConversation}]
    /\ exchange \in [Exchanges -> {"new", "queued", "posting", "answered", "failed", "unknown",
                                   "refused", "cancelled"}]
    /\ names \in [Exchanges -> Exchanges \cup {NoConversation}]
    /\ request \in [Exchanges -> {"none", "sent", "taken"}]
    /\ beside \subseteq Exchanges \X Exchanges

\* A message is only ever put into a conversation that the same user and session
\* opened (dify.py:57).  A user and session get a second conversation only when
\* the answer that named the first was lost, or when two threads used the
\* blocking client together.  And a native error that calls the outcome known
\* never hides a message the server takes, be it later.
ConversationKept ==
    /\ \A x \in Exchanges : request[x] = "taken" /\ names[x] # NoConversation =>
           Opened(names[x]) /\ KeyOf[names[x]] = KeyOf[x]
    /\ \A x, y \in Exchanges :
           x # y /\ KeyOf[x] = KeyOf[y] /\ adapter \in Dify
           /\ exchange[x] = "answered" /\ exchange[y] = "answered" /\ Opened(x) /\ Opened(y) =>
               adapter = "dify" /\ <<x, y>> \in beside
    /\ \A x \in Exchanges : exchange[x] = "refused" => request[x] # "taken"
===============================================================================
