------------------------------ MODULE LoadTest ------------------------------
(* The load generator, qe_platform/loadtest/runner.py: the workers of one run     *)
(* share a counter or a deadline, each request becomes a sample, and the samples  *)
(* become the summary the gates judge (metrics.py).                              *)
(*                                                                            *)
(* Workers are tasks of one event loop: the test of the counter and its increment *)
(* are one step.  A request carries a session of its own (a fresh uuid): here its *)
(* number within the run, warm-up included.  An optional value is a set of at     *)
(* most one element; a rate is a pair <<numerator, denominator>>.  Token counts,  *)
(* trace ids and the redaction of the written configuration are left out.         *)
EXTENDS Integers, Sequences, FiniteSets, FiniteSetsExt

CONSTANT MaxDurationRequests  \* bound on the requests of a run by duration

VARIABLES load,     \* the run under way
          service   \* what the target did with the run's measured requests

(* A reply as the client sees it: the status (0 if no headers arrived), whether    *)
(* its type is an event stream, the events of its body, how the body ends, when    *)
(* the first content and the end came, and what a complete payload says.  The body *)
(* of a plain answer is one event.                                                *)
EventKinds == {"chunk", "blankChunk", "badChunk", "malformed", "complete", "badComplete", "other"}
Event == [kind : EventKinds, simulated : BOOLEAN]
Endings == {"eof", "timeout", "broken", "crash"}
Conversations == {"own", "none", "first"}
Reply == [status : {0} \cup 100..599, stream : BOOLEAN, events : Seq(Event), end : Endings,
          first : Nat, total : Nat, conversation : Conversations,
          cost : SUBSET Nat, currency : STRING, tools : Nat, sources : Nat]

\* LoadTestConfig.__post_init__.
ValidLoad(config) ==
    /\ config.protocol \in {"http", "sse"}
    /\ \E n \in config.requests \cup config.duration :
           n \in Nat \ {0} /\ config.requests \cup config.duration = {n}
    /\ (config.requests = {}) # (config.duration = {})
    /\ config.concurrency \in Nat \ {0}
    /\ config.warmup \in Nat

Ok(status) == status \in 200..299

------------------------------------------------------------------------------
(* One request.                                                               *)

\* The events that end the reading of a stream.
Stops(event) == event.kind \in {"badChunk", "malformed", "complete", "badComplete"}

\* The events read: up to the first that stops, or all of them.
EventsRead(events) ==
    LET stops == {i \in DOMAIN events : Stops(events[i])}
    IN  IF stops = {} THEN events ELSE SubSeq(events, 1, Min(stops))

HasEvent(events, kinds) == \E i \in DOMAIN events : events[i].kind \in kinds

\* A mapping that says "simulated" is believed whatever else is wrong with it.
Simulated(events) ==
    \E i \in DOMAIN events : events[i].kind # "malformed" /\ events[i].simulated

ErrorOfEnd(end) ==
    CASE end = "timeout" -> "timeout" [] end = "broken" -> "transport_error" [] OTHER -> ""

\* The error type of a request over the plain endpoint, "" for success.  A body
\* that breaks off loses the status with it.
PlainError(reply) ==
    IF reply.end # "eof" THEN ErrorOfEnd(reply.end)
    ELSE IF ~Ok(reply.status) THEN "http_error"
    ELSE IF HasEvent(reply.events, {"complete"}) THEN "" ELSE "invalid_response"

Established(reply) == Ok(reply.status) /\ reply.stream

\* The same over the streaming endpoint.
StreamError(reply) ==
    LET read == EventsRead(reply.events) IN
    IF reply.status = 0 THEN ErrorOfEnd(reply.end)
    ELSE IF ~Ok(reply.status) THEN "http_error"
    ELSE IF ~reply.stream THEN "invalid_response"
    ELSE IF HasEvent(read, {"complete"}) THEN ""
    ELSE IF HasEvent(read, {"badChunk", "malformed", "badComplete"}) THEN "invalid_response"
    ELSE IF reply.end = "eof" THEN "stream_interrupted" ELSE ErrorOfEnd(reply.end)

\* An exception that _sample does not catch: it leaves the run.
EscapesSample(config, reply) ==
    /\ reply.end = "crash"
    /\ \/ config.protocol = "http" \/ reply.status = 0
       \/ Established(reply) /\ ~\E i \in DOMAIN reply.events : Stops(reply.events[i])

\* _sample, _sample_sse and _result.  Only a valid payload tells of the
\* conversation, the cost and what the service observed.
Sample(config, session, reply) ==
    LET sse     == config.protocol = "sse"
        error   == IF sse THEN StreamError(reply) ELSE PlainError(reply)
        read    == IF sse /\ Established(reply) THEN EventsRead(reply.events) ELSE <<>>
        success == error = ""
    IN  [session      |-> session,
         success      |-> success,
         status_code  |-> IF ~sse /\ reply.end # "eof" THEN 0 ELSE reply.status,
         error_type   |-> error,
         duration     |-> reply.total,
         established  |-> sse /\ Established(reply),
         content      |-> IF HasEvent(read, {"chunk"}) THEN {reply.first} ELSE {},
         simulated    |-> Simulated(read),
         conversation |-> IF ~success THEN {}
                          ELSE CASE reply.conversation = "own" -> {session}
                                 [] reply.conversation = "first" -> {1}
                                 [] OTHER -> {},
         cost         |-> IF success THEN reply.cost ELSE {},
         currency     |-> IF success THEN reply.currency ELSE "",
         observations |-> IF success
                          THEN [source_count |-> reply.sources, failed_tool_count |-> reply.tools]
                          ELSE <<>>]

\* A simulated stream tells nothing of a model's time to first token.
Ttft(sample) == IF sample.simulated THEN {} ELSE sample.content

\* The sample that stands for a phase whose run raised.
ExecutionErrorSample ==
    [session |-> 0, success |-> FALSE, status_code |-> 0, error_type |-> "execution_error",
     duration |-> 0, established |-> FALSE, content |-> {}, simulated |-> FALSE,
     conversation |-> {}, cost |-> {}, currency |-> "", observations |-> <<>>]

------------------------------------------------------------------------------
(* The summary of a run.                                                      *)

\* The k-th smallest, from 0, of the values of a function.
KthSmallest(values, k) ==
    CHOOSE v \in {values[x] : x \in DOMAIN values} :
        /\ Cardinality({x \in DOMAIN values : values[x] < v}) <= k
        /\ k < Cardinality({x \in DOMAIN values : values[x] <= v})

\* percentile(): linear between the two neighbours of the rank, in hundredths.
Percentile(values, quantile) ==
    IF DOMAIN values = {} THEN {}
    ELSE LET rank == (Cardinality(DOMAIN values) - 1) * quantile
             low  == KthSmallest(values, rank \div 100)
             high == KthSmallest(values, (rank + 99) \div 100)
         IN  {<<100 * low + (high - low) * (rank % 100), 100>>}

The(optional) == CHOOSE v \in optional : TRUE

Rate(part, whole) == IF whole = 0 THEN <<0, 1>> ELSE <<100 * part, whole>>
PerSecond(count, wall) == IF wall = 0 THEN <<0, 1>> ELSE <<count, wall>>

\* summarize(), over the samples of a run that lasted `wall` seconds.  Costs of
\* several currencies are not added up.
Summary(samples, wall) ==
    LET succeeded   == {s \in samples : s.success}
        established == {s \in samples : s.established}
        priced      == {s \in samples : s.cost # {}}
        timed       == {s \in samples : s.content # {}}
        count       == Cardinality(samples)
    IN  [completed |-> count,
         succeeded |-> Cardinality(succeeded),
         failed    |-> count - Cardinality(succeeded),
         error_rate |-> Rate(count - Cardinality(succeeded), count),
         rate_429   |-> Rate(Cardinality({s \in samples : s.status_code = 429}), count),
         stream_interruption_rate |->
             IF established = {} THEN {}
             ELSE {Rate(Cardinality({s \in established : ~s.success}), Cardinality(established))},
         throughput_rps |-> PerSecond(count, wall),
         goodput_rps    |-> PerSecond(Cardinality(succeeded), wall),
         latency_p95    |-> Percentile([s \in samples |-> s.duration], 95),
         ttft_p95       |-> Percentile([s \in {x \in samples : Ttft(x) # {}} |-> The(s.content)], 95),
         content_p95    |-> Percentile([s \in timed |-> The(s.content)], 95),
         stream_established_count |-> Cardinality(established),
         content_observed_count   |-> Cardinality({s \in established : s.content # {}}),
         ttft_observed_count      |-> Cardinality({s \in established : Ttft(s) # {}}),
         cost_total    |-> IF priced # {} /\ Cardinality({s.currency : s \in priced}) <= 1
                           THEN {MapThenSumSet(LAMBDA s : The(s.cost), priced)} ELSE {},
         cost_complete |-> samples # {} /\ priced = samples]

------------------------------------------------------------------------------
(* The run.                                                                   *)

Idle == [config |-> <<>>, stage |-> "idle", issued |-> 0, warm |-> 0, flying |-> {},
         over |-> FALSE, samples |-> {}]

\* What the target knows of the run: the sessions it keeps, the measured requests
\* it met and answered in full, and what it bills for them.
Untouched == [persisted |-> {}, served |-> 0, answered |-> 0, billed |-> 0, currencies |-> {}]

Runs == load.stage \in {"warmup", "measure"}

LoadBegins(config) ==
    /\ load' = [Idle EXCEPT !.config = config, !.stage = "warmup"]
    /\ service' = Untouched

\* The counter the workers share, next_index.
NextIndex == load.issued - load.warm

\* Whether a worker goes round once more.
MoreToDo ==
    IF load.config.requests # {}
    THEN NextIndex < The(load.config.requests)
    ELSE ~load.over /\ NextIndex < MaxDurationRequests

Workers == IF load.config.requests # {}
           THEN Min({load.config.concurrency, The(load.config.requests)})
           ELSE load.config.concurrency

\* Warm-up requests go one after the other; what becomes of them is not looked at.
IssueRequest ==
    /\ \/ /\ load.stage = "warmup" /\ load.flying = {} /\ load.warm < load.config.warmup
          /\ load' = [load EXCEPT !.issued = @ + 1, !.warm = @ + 1, !.flying = {load.issued + 1}]
       \/ /\ load.stage = "measure" /\ MoreToDo /\ Cardinality(load.flying) < Workers
          /\ load' = [load EXCEPT !.issued = @ + 1, !.flying = @ \cup {load.issued + 1}]
    /\ UNCHANGED service

WarmedUp ==
    /\ load.stage = "warmup" /\ load.flying = {} /\ load.warm = load.config.warmup
    /\ load' = [load EXCEPT !.stage = "measure"]
    /\ UNCHANGED service

DeadlinePasses ==
    /\ load.stage = "measure" /\ load.config.duration # {} /\ ~load.over
    /\ load' = [load EXCEPT !.over = TRUE]
    /\ UNCHANGED service

Complete(reply) == HasEvent(reply.events, {"complete"}) /\ Ok(reply.status)

\* The target deals with a request, and its client with what comes back; an
\* exception that escapes ends the run.
RequestEnds(session, reply, persists) ==
    /\ Runs /\ session \in load.flying
    /\ load' = IF EscapesSample(load.config, reply)
               THEN [load EXCEPT !.stage = "raised", !.flying = {}]
               ELSE [load EXCEPT !.flying = @ \ {session},
                                 !.samples = IF load.stage = "warmup" THEN @
                                             ELSE @ \cup {Sample(load.config, session, reply)}]
    /\ LET measured == IF load.stage = "warmup" THEN 0 ELSE 1 IN
       service' = [persisted  |-> IF persists THEN service.persisted \cup {session}
                                  ELSE service.persisted,
                   served     |-> service.served + measured,
                   answered   |-> service.answered + (IF Complete(reply) THEN measured ELSE 0),
                   billed     |-> service.billed +
                                      (IF reply.cost = {} THEN 0 ELSE measured * The(reply.cost)),
                   currencies |-> IF measured = 0 \/ reply.cost = {} THEN service.currencies
                                  ELSE service.currencies \cup {reply.currency}]

Drained == load.stage = "measure" /\ load.flying = {} /\ ~MoreToDo

\* gather() returns when every worker has.
LoadReturns ==
    /\ Drained
    /\ load' = [load EXCEPT !.stage = "returned"]
    /\ UNCHANGED service

LoadStep(replies, persistence) ==
    \/ IssueRequest \/ WarmedUp \/ DeadlinePasses \/ LoadReturns
    \/ \E session \in load.flying, reply \in replies, persists \in persistence :
           RequestEnds(session, reply, persists)
==============================================================================
