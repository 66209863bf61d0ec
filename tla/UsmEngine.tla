----------------------------- MODULE UsmEngine -----------------------------
(* What a run knows of one SNMPv3 authoritative engine (probes/usm_state.rs),  *)
(* the privacy salts it spends (probes/usm.rs, SaltSource) and the messages    *)
(* that may move it.  The agent (external) restarts and keeps time; the        *)
(* network (external) delays, reorders, repeats and loses what it sent.        *)
EXTENDS Integers, FiniteSets

CONSTANTS
    TIME_WINDOW_SECONDS,  \* 150
    BOOTS_CEILING,        \* 2^31 - 1: boots at it means re-key; time saturates there
    U64_MAX,              \* the largest privacy counter
    MaxClock,             \* bound on the clock
    MaxRequests,          \* bound on the requests
    NoEngine              \* before discovery

EngineStates ==
    [boots : Int, synchronised_time : Nat, recorded_at : Nat, highest_time : Nat,
     confirmed : BOOLEAN, counter : 0..U64_MAX, issued : 0..U64_MAX]

\* A run is shorter than the time an engine can count.
ASSUME UsmAssumption ==
    /\ TIME_WINDOW_SECONDS \in Nat /\ BOOTS_CEILING \in Nat /\ U64_MAX \in Nat /\ MaxClock \in Nat
    /\ MaxRequests \in Nat
    /\ MaxClock <= BOOTS_CEILING
    /\ NoEngine \notin EngineStates

VARIABLES
    clock,     \* the monotonic clock
    agent,     \* [boots, since]: the engine's boots and when it last started
    messages,  \* authenticated messages the agent has sent: [boots, time, request, report]
    asked,     \* the request in progress
    engine,    \* EngineState, or NoEngine
    budget,    \* ResyncBudget of the request in progress: spent or not
    salts      \* the salts issued, in a set, and how many

usmVars == <<clock, agent, messages, asked, engine, budget, salts>>

AgentTime == clock - agent.since

-----------------------------------------------------------------------------
\* EngineState.

from_discovery(boots, time, seed) ==
    [boots |-> boots, synchronised_time |-> time, recorded_at |-> clock, highest_time |-> time,
     confirmed |-> FALSE, counter |-> seed, issued |-> 0]

estimated_time(e) ==
    LET estimate == e.synchronised_time + (clock - e.recorded_at)
    IN  IF estimate > BOOTS_CEILING THEN BOOTS_CEILING ELSE estimate

timeliness(e, boots, time) ==
    IF boots = BOOTS_CEILING \/ e.boots = BOOTS_CEILING THEN "Unusable"
    ELSE IF boots # e.boots THEN "Outside"
    ELSE IF time < estimated_time(e) - TIME_WINDOW_SECONDS
            \/ time > estimated_time(e) + TIME_WINDOW_SECONDS THEN "Outside"
    ELSE "InWindow"

\* Fault: a restart moves the counters and not the moment they were recorded at.
absorb_authenticated_unstamped(e, boots, time) ==
    IF boots < e.boots THEN e
    ELSE IF boots > e.boots
    THEN [e EXCEPT !.boots = boots, !.synchronised_time = time, !.highest_time = time,
                   !.confirmed = TRUE]
    ELSE IF time > e.highest_time
    THEN [e EXCEPT !.synchronised_time = time, !.recorded_at = clock, !.highest_time = time,
                   !.confirmed = TRUE]
    ELSE [e EXCEPT !.confirmed = TRUE]

\* The only path that changes the counters.
absorb_authenticated(e, boots, time) ==
    IF boots < e.boots THEN e
    ELSE IF boots > e.boots \/ time > e.highest_time
    THEN [e EXCEPT !.boots = boots, !.synchronised_time = time, !.recorded_at = clock,
                   !.highest_time = time, !.confirmed = TRUE]
    ELSE [e EXCEPT !.confirmed = TRUE]

\* SaltSource::take_salt, the engine after it: the count of what was issued is what stops the
\* counter from coming round again.
take_salt(e) ==
    IF e.issued = U64_MAX THEN NoEngine
    ELSE [e EXCEPT !.issued = @ + 1, !.counter = (@ + 1) % (U64_MAX + 1)]

\* correlate and correlate_scoped: an answer to another request is refused before anything in
\* it is believed.  Every message here is from the one agent and about the one object asked for,
\* so of what the two compare only the message and request identifiers, one number, can differ.
correlate(message) == message.request = asked

-----------------------------------------------------------------------------
UsmInit ==
    /\ clock = 0
    /\ agent = [boots |-> BOOTS_CEILING - 2, since |-> 0]
    /\ messages = {}
    /\ asked = 0
    /\ engine = NoEngine
    /\ budget = FALSE
    /\ salts = {}

\* The discovery exchange: the agent's counters, from an unauthenticated Report, arriving at
\* once or late.
Discover(boots, time, seed) ==
    /\ engine = NoEngine
    /\ boots = agent.boots /\ time \in 0..AgentTime
    /\ engine' = from_discovery(boots, time, seed)
    /\ UNCHANGED <<clock, agent, messages, asked, budget, salts>>

Issued(e) == [counter |-> e.counter, issued |-> e.issued]

\* A request, encrypted under the next salt; the agent answers it or reports it untimely,
\* from the counters it carries.
Ask ==
    /\ engine # NoEngine /\ asked < MaxRequests
    /\ take_salt(engine) # NoEngine
    /\ engine' = take_salt(engine)
    /\ salts' = salts \cup {Issued(engine')}
    /\ asked' = asked + 1
    /\ budget' = FALSE
    /\ UNCHANGED <<clock, agent, messages>>

\* The agent answers what it was asked last; what it sends stays deliverable for ever.
Answer ==
    /\ asked > 0
    /\ LET gap == estimated_time(engine) - AgentTime
           timely == engine.boots = agent.boots /\ gap \in (-TIME_WINDOW_SECONDS)..TIME_WINDOW_SECONDS
       IN  messages' = messages \cup {[boots |-> agent.boots, time |-> AgentTime, request |-> asked,
                               report |-> ~timely]}
    /\ UNCHANGED <<clock, agent, asked, engine, budget, salts>>

\* A message delivered once more: correlated, then an answer must be timely to be absorbed,
\* and a notInTimeWindow Report is absorbed when it buys the one resynchronisation, whose
\* resend spends another salt.
Deliver(message) ==
    /\ engine # NoEngine /\ correlate(message)
    /\ LET moved == absorb_authenticated(engine, message.boots, message.time)
       IN  IF message.report
           THEN /\ ~budget /\ take_salt(moved) # NoEngine
                /\ budget' = TRUE
                /\ engine' = take_salt(moved)
                /\ salts' = salts \cup {Issued(engine')}
           ELSE /\ timeliness(engine, message.boots, message.time) = "InWindow"
                /\ engine' = moved
                /\ UNCHANGED <<budget, salts>>
    /\ UNCHANGED <<clock, agent, messages, asked>>

Tick == clock < MaxClock /\ clock' = clock + 1 /\ UNCHANGED <<agent, messages, asked, engine, budget, salts>>

Restart ==
    /\ agent.boots < BOOTS_CEILING
    /\ agent' = [boots |-> agent.boots + 1, since |-> clock]
    /\ UNCHANGED <<clock, messages, asked, engine, budget, salts>>

UsmNext ==
    \/ \E boots \in {agent.boots}, time \in 0..MaxClock, seed \in {0, U64_MAX} :
          Discover(boots, time, seed)
    \/ Ask \/ Answer \/ Tick \/ Restart
    \/ \E message \in messages : Deliver(message)

UsmSpec == UsmInit /\ [][UsmNext]_usmVars

-----------------------------------------------------------------------------
\* Properties.

\* The estimate of the engine's clock is never ahead of the engine: whatever is delayed,
\* repeated or reordered, and however often the engine restarts, what the run believes is a
\* time the engine has already reached in that boot (absorb_authenticated restamps
\* recorded_at whenever it takes new counters).
EstimateNeverAhead ==
    engine # NoEngine =>
        /\ engine.boots <= agent.boots
        /\ engine.boots = agent.boots => estimated_time(engine) <= AgentTime
        /\ engine.highest_time <= estimated_time(engine)

\* No privacy salt is issued twice for one engine, although the counter starts anywhere and
\* wraps (take_salt counts what it issued).
SaltsNeverRepeat ==
    \A a, b \in salts : a.counter = b.counter => a = b

\* What is sent to an engine is neither from its future nor a repetition: the time claimed is one
\* it has reached and no salt is used twice (absorb_authenticated, take_salt).
EngineTimeAndSalts == EstimateNeverAhead /\ SaltsNeverRepeat
=============================================================================
