------------------------------- MODULE Transport -------------------------------
(***************************************************************************)
(* The upstream request path: request.ts upstreamFetch chooses a route,    *)
(* transport.ts wispFetch and altWispFetch run one request over the        *)
(* shared primary (libcurl) and secondary (policy "wisp") clients, with    *)
(* one shared reset per client generation, one retry, a reset deferred to  *)
(* the moment nothing is in flight, and a relay-first cooldown after a     *)
(* stall storm.                                                            *)
(*                                                                         *)
(* Every await of the code is a step boundary; what runs between two       *)
(* awaits is one action, and the continuations of a settled promise        *)
(* (Resume) run before the next event does.  A client is known by its generation; which       *)
(* outcome a client gives is the environment's choice.  The relay is the   *)
(* contract of relayFetch (its detail is module Relay).                    *)
(***************************************************************************)
EXTENDS Naturals, Sequences, FiniteSets

CONSTANTS
  Reqs,             \* the requests of one behaviour; each runs once
  Kinds,            \* the requests the run draws from, a subset of AllKinds
  NoGen,            \* deferredCurlResetGen === null
  STALL_THRESHOLD,  \* stalls that start a cooldown (3 in the code)
  MaxSwitches       \* bound: endpoint and engine changes in one behaviour

AllKinds == [route : {"direct", "relay", "alt"}, idempotent : BOOLEAN,
             replayableBody : BOOLEAN, isolated : BOOLEAN]

ASSUME ReqsAssumption == IsFiniteSet(Reqs)
ASSUME KindsAssumption == Kinds \subseteq AllKinds
ASSUME NoGenAssumption == NoGen \notin Nat
ASSUME ThresholdAssumption == STALL_THRESHOLD \in Nat \ {0}
ASSUME SwitchesAssumption == MaxSwitches \in Nat

VARIABLES
  pc,                    \* where each request is
  kind,                  \* what it asks for
  aborted,               \* its caller's AbortSignal
  gen,                   \* curlGen / altGen: the generation remembered for it
  rides,                 \* the client its last primary dispatch used
  waitOn,                \* the init promise it awaits
  sent,                  \* adapter dispatches not disproved since
  load,                  \* loadInflight()
  curlGeneration,
  wispGeneration,        \* the client reset() leaves room for
  inits,                 \* every init promise started, with its outcome
  curlReady,             \* the memoised init promise, 0 for null
  curlResetInflight,     \* the init promise the shared reset awaits, 0 for null
  deferredCurlResetGen,
  altGeneration,
  deferredAltResetGen,
  stalls,                \* stallTimes still in the window, capped
  cooling,               \* Date.now() < cooldownUntil
  switches

reqVars    == <<pc, kind, aborted, gen, rides, waitOn, sent>>
clientVars == <<curlGeneration, wispGeneration, inits, curlReady, curlResetInflight>>
altVars    == <<altGeneration, deferredAltResetGen>>
stormVars  == <<stalls, cooling>>
vars == <<pc, kind, aborted, gen, rides, waitOn, sent, load, curlGeneration,
          wispGeneration, inits, curlReady, curlResetInflight, deferredCurlResetGen,
          altGeneration, deferredAltResetGen, stalls, cooling, switches>>

--------------------------------------------------------------------------------
(* Where a request can be. *)
Settled  == {"answered", "failed"}
Riding   == {"attempt", "retry"}                 \* on the primary client
OnAlt    == {"altAttempt", "altRetry"}           \* on the secondary client
Counted  == {"entered", "coolRelay", "prepare", "attempt", "resetting",
             "joining", "retry", "altAttempt"}   \* between loadEnter and loadLeave
Places   == {"idle", "start", "relay", "fallback", "altRetry"}
            \cup Counted \cup Settled

Init ==
  /\ pc = [r \in Reqs |-> "idle"]
  /\ kind \in [Reqs -> Kinds]
  /\ aborted = [r \in Reqs |-> FALSE]
  /\ gen = [r \in Reqs |-> 0]
  /\ rides = [r \in Reqs |-> 0]
  /\ waitOn = [r \in Reqs |-> 0]
  /\ sent = [r \in Reqs |-> 0]
  /\ load = 0
  /\ curlGeneration = 0 /\ wispGeneration = 0
  /\ inits = <<>> /\ curlReady = 0 /\ curlResetInflight = 0
  /\ deferredCurlResetGen = NoGen
  /\ altGeneration = 0 /\ deferredAltResetGen = NoGen
  /\ stalls = 0 /\ cooling = FALSE
  /\ switches = 0

--------------------------------------------------------------------------------
(* Shared operations. *)

Goto(r, place) == pc' = [pc EXCEPT ![r] = place]
Dispatched(r)  == sent' = [sent EXCEPT ![r] = @ + 1]

\* a request that may be sent twice without a second effect
Repeatable(r) == kind[r].idempotent /\ kind[r].replayableBody

\* Mutant: the replay gate forgets the method and the body.
RetryableAnyRequest(r) == ~aborted[r]

\* retryable() / canReplayAfterFailure(): no failure after an adapter call
\* carries definitely-not-delivered, so the method decides
Retryable(r) == ~aborted[r] /\ Repeatable(r)

\* the relay port carries strings and buffers only
RelayCarries(r) == kind[r].replayableBody

\* the promise r awaits, if any, has settled
AwaitOver(r) == waitOn[r] # 0 => inits[waitOn[r]] # "pending"

\* ensureCurl(): join the memoised init or start one
EnsureCurl ==
  IF curlReady # 0 THEN UNCHANGED <<inits, curlReady>>
  ELSE /\ inits' = Append(inits, "pending")
       /\ curlReady' = Len(inits) + 1

\* Mutant: the reset's promise is not retained for others to join.
FreshResetUnrecorded ==
  /\ wispGeneration' = wispGeneration + 1
  /\ curlGeneration' = curlGeneration + 1
  /\ inits' = Append(inits, "pending")
  /\ curlReady' = Len(inits) + 1
  /\ UNCHANGED curlResetInflight

\* the body of the one shared reset: drop the client, bump, re-initialise
FreshReset ==
  /\ wispGeneration' = wispGeneration + 1
  /\ curlGeneration' = curlGeneration + 1
  /\ inits' = Append(inits, "pending")
  /\ curlReady' = Len(inits) + 1
  /\ curlResetInflight' = Len(inits) + 1

\* Mutant: every failure resets, whichever client it rode.
SharedCurlResetAnyGen(g) ==
  IF curlResetInflight = 0 THEN FreshReset ELSE UNCHANGED clientVars

\* sharedCurlReset(g) as a caller that does not await it sees it
SharedCurlReset(g) ==
  IF g = curlGeneration /\ curlResetInflight = 0
    THEN FreshReset ELSE UNCHANGED clientVars

\* Mutant: an early return skips loadLeave when a reset was scheduled.
LeaveWispUncounted(n, d) ==
  /\ load' = IF d # NoGen THEN n ELSE n - 1
  /\ deferredCurlResetGen' = d /\ UNCHANGED clientVars

\* Mutant: the scheduled reset does not wait for the last request.
LeaveWispResetsNow(n, d) ==
  /\ load' = n - 1
  /\ IF d # NoGen
       THEN deferredCurlResetGen' = NoGen /\ SharedCurlReset(d)
       ELSE deferredCurlResetGen' = d /\ UNCHANGED clientVars

\* wispFetch's finally: leave n in flight, then run the deferred reset if that
\* was the last; d is the deferred generation the failing step left behind
LeaveWispOf(n, d) ==
  /\ load' = n - 1
  /\ IF d # NoGen /\ n = 1
       THEN deferredCurlResetGen' = NoGen /\ SharedCurlReset(d)
       ELSE deferredCurlResetGen' = d /\ UNCHANGED clientVars
LeaveWisp(d) == LeaveWispOf(load, d)

\* altWispFetch's finally: only the secondary client's deferred reset runs; g
\* is the secondary generation by then
LeaveAltOf(n, g, d) ==
  /\ load' = n - 1
  /\ IF d # NoGen /\ n = 1
       THEN deferredAltResetGen' = NoGen /\ altGeneration' = (IF d = g THEN g + 1 ELSE g)
       ELSE deferredAltResetGen' = d /\ altGeneration' = g
LeaveAlt(d) == LeaveAltOf(load, altGeneration, d)

RecordStall ==
  LET n == IF stalls < STALL_THRESHOLD THEN stalls + 1 ELSE stalls IN
  stalls' = n /\ cooling' = (cooling \/ n >= STALL_THRESHOLD)
RecordStallIf(stall) == IF stall THEN RecordStall ELSE UNCHANGED stormVars

--------------------------------------------------------------------------------
(* request.ts upstreamFetch: the route. *)

\* a request reaches the choke point with its signal not yet aborted
Accept(r) ==
  /\ pc[r] = "idle"
  /\ Goto(r, "start")
  /\ UNCHANGED <<kind, aborted, gen, rides, waitOn, sent, load, clientVars,
                 deferredCurlResetGen, altVars, stormVars, switches>>

\* the caller's AbortSignal fires
Abort(r) ==
  /\ pc[r] \notin Settled \cup {"idle"} /\ ~aborted[r]
  /\ aborted' = [aborted EXCEPT ![r] = TRUE]
  /\ UNCHANGED <<pc, kind, gen, rides, waitOn, sent, load, clientVars,
                 deferredCurlResetGen, altVars, stormVars, switches>>

\* route "relay": with no channel even after asking for one, or with a body
\* the port cannot carry, relayFetch answers null
RouteRelay(r) ==
  /\ pc[r] = "start" /\ kind[r].route = "relay"
  /\ \/ ~aborted[r] /\ RelayCarries(r) /\ Goto(r, "relay") /\ Dispatched(r)
     \/ ~aborted[r] /\ Goto(r, "fallback") /\ UNCHANGED sent
     \/ aborted[r] /\ Goto(r, "failed") /\ UNCHANGED sent
  /\ UNCHANGED <<kind, aborted, gen, rides, waitOn, load, clientVars,
                 deferredCurlResetGen, altVars, stormVars, switches>>

\* Mutant: the relay falls back for a write whose delivery is unknown.
RelayNullAnyMethod(r) == UNCHANGED sent

\* what relayFetch can answer after it posted the request, besides a response:
\* null for an idempotent method, or for any when the embedder proved that the
\* upstream never got it; an error on abort or when delivery is unknown
RelayNull(r) ==
  \/ kind[r].idempotent /\ UNCHANGED sent
  \/ sent' = [sent EXCEPT ![r] = @ - 1]
RelayThrows(r) == aborted[r] \/ ~kind[r].idempotent

RelayAnswers(r) ==
  /\ pc[r] = "relay"
  /\ \/ Goto(r, "answered") /\ UNCHANGED sent
     \/ RelayThrows(r) /\ Goto(r, "failed") /\ UNCHANGED sent
     \/ ~aborted[r] /\ Goto(r, "fallback") /\ RelayNull(r)
  /\ UNCHANGED <<kind, aborted, gen, rides, waitOn, load, clientVars,
                 deferredCurlResetGen, altVars, stormVars, switches>>

\* route "wisp": over the secondary client when an endpoint is announced;
\* fetchWithDeadline refuses to dispatch for an aborted caller
RouteAlt(r) ==
  /\ pc[r] = "start" /\ kind[r].route = "alt"
  /\ \/ /\ ~aborted[r] /\ Goto(r, "altAttempt") /\ Dispatched(r)
        /\ load' = load + 1
        /\ gen' = [gen EXCEPT ![r] = altGeneration]
        /\ UNCHANGED altVars
     \/ /\ aborted[r] /\ Goto(r, "failed") /\ UNCHANGED <<sent, gen>>
        /\ LeaveAltOf(load + 1, altGeneration, deferredAltResetGen)
     \/ Goto(r, "fallback") /\ UNCHANGED <<sent, load, gen, altVars>>
  /\ UNCHANGED <<kind, aborted, rides, waitOn, clientVars,
                 deferredCurlResetGen, stormVars, switches>>

RouteDirect(r) ==
  /\ pc[r] = "start" /\ kind[r].route = "direct"
  /\ Goto(r, "fallback")
  /\ UNCHANGED <<kind, aborted, gen, rides, waitOn, sent, load, clientVars,
                 deferredCurlResetGen, altVars, stormVars, switches>>

--------------------------------------------------------------------------------
(* altWispFetch. *)

AltAnswers(r) ==
  /\ pc[r] = "altAttempt"
  /\ Goto(r, "answered")
  /\ LeaveAlt(deferredAltResetGen)
  /\ UNCHANGED <<kind, aborted, gen, rides, waitOn, sent, clientVars,
                 deferredCurlResetGen, stormVars, switches>>

\* an error that is neither connect-class nor a stall; upstreamFetch then
\* falls back only if the replay gate allows it
AltErrs(r) ==
  /\ pc[r] = "altAttempt"
  /\ \/ Goto(r, "failed")
     \/ Retryable(r) /\ Goto(r, "fallback")
  /\ LeaveAlt(deferredAltResetGen)
  /\ UNCHANGED <<kind, aborted, gen, rides, waitOn, sent, clientVars,
                 deferredCurlResetGen, stormVars, switches>>

\* connect-class failure or stall, replay refused: defer the reset, fail
AltFailsTerminally(r) ==
  /\ pc[r] = "altAttempt" /\ ~Retryable(r)
  /\ Goto(r, "failed")
  /\ LeaveAlt(gen[r])
  /\ UNCHANGED <<kind, aborted, gen, rides, waitOn, sent, clientVars,
                 deferredCurlResetGen, stormVars, switches>>

\* connect-class failure or stall: sharedAltReset, then the retry is returned
\* without an await, so the finally block leaves as soon as it is dispatched
AltRetries(r) ==
  /\ pc[r] = "altAttempt" /\ Retryable(r)
  /\ Goto(r, "altRetry") /\ Dispatched(r)
  /\ LeaveAltOf(load, IF gen[r] = altGeneration THEN altGeneration + 1 ELSE altGeneration,
                deferredAltResetGen)
  /\ UNCHANGED <<kind, aborted, gen, rides, waitOn, clientVars,
                 deferredCurlResetGen, stormVars, switches>>

AltRetrySettles(r) ==
  /\ pc[r] = "altRetry"
  /\ \/ Goto(r, "answered")
     \/ Goto(r, "failed")
     \/ Retryable(r) /\ Goto(r, "fallback")
  /\ UNCHANGED <<kind, aborted, gen, rides, waitOn, sent, load, clientVars,
                 deferredCurlResetGen, altVars, stormVars, switches>>

--------------------------------------------------------------------------------
(* wispFetch. *)

\* loadEnter, then the cooldown's relay arm when a channel is registered
EnterWisp(r) ==
  /\ pc[r] = "fallback"
  /\ \/ /\ Goto(r, "entered") /\ load' = load + 1
        /\ UNCHANGED <<sent, clientVars, deferredCurlResetGen>>
     \/ /\ cooling /\ ~aborted[r] /\ RelayCarries(r)
        /\ Goto(r, "coolRelay") /\ Dispatched(r) /\ load' = load + 1
        /\ UNCHANGED <<clientVars, deferredCurlResetGen>>
     \/ /\ cooling /\ aborted[r]
        /\ Goto(r, "failed") /\ UNCHANGED sent
        /\ LeaveWispOf(load + 1, deferredCurlResetGen)
  /\ UNCHANGED <<kind, aborted, gen, rides, waitOn, altVars, stormVars, switches>>

CoolRelaySettles(r) ==
  /\ pc[r] = "coolRelay"
  /\ \/ Goto(r, "answered")
     \/ RelayThrows(r) /\ Goto(r, "failed")
  /\ LeaveWisp(deferredCurlResetGen)
  /\ UNCHANGED <<kind, aborted, gen, rides, waitOn, sent, altVars, stormVars, switches>>

\* the first-byte deadline of the relay arm counts as a stall
CoolRelayStalls(r) ==
  /\ pc[r] = "coolRelay" /\ ~aborted[r]
  /\ Goto(r, "failed")
  /\ RecordStall
  /\ LeaveWisp(deferredCurlResetGen)
  /\ UNCHANGED <<kind, aborted, gen, rides, waitOn, sent, altVars, switches>>

CoolRelayDeclines(r) ==
  /\ pc[r] = "coolRelay" /\ ~aborted[r]
  /\ Goto(r, "entered")
  /\ RelayNull(r)
  /\ UNCHANGED <<kind, aborted, gen, rides, waitOn, load, clientVars,
                 deferredCurlResetGen, altVars, stormVars, switches>>

\* after the bounded wait for a dead transport: prepareDelivery(ensureCurl)
Prepare(r) ==
  /\ pc[r] = "entered"
  /\ Goto(r, "prepare")
  /\ EnsureCurl
  /\ waitOn' = [waitOn EXCEPT ![r] = curlReady']
  /\ UNCHANGED <<kind, aborted, gen, rides, sent, load, curlGeneration, wispGeneration,
                 curlResetInflight, deferredCurlResetGen, altVars, stormVars, switches>>

\* initialisation failed: definitely not delivered, an honest failure; so is
\* an abort noticed by fetchWithDeadline before the dispatch
PrepareFails(r) ==
  /\ pc[r] = "prepare"
  /\ \/ inits[waitOn[r]] = "failed"
     \/ inits[waitOn[r]] = "ok" /\ aborted[r]
  /\ Goto(r, "failed")
  /\ LeaveWisp(deferredCurlResetGen)
  /\ UNCHANGED <<kind, aborted, gen, rides, waitOn, sent, altVars, stormVars, switches>>

\* the client is up: remember its generation and dispatch
Dispatch(r) ==
  /\ pc[r] = "prepare" /\ inits[waitOn[r]] = "ok" /\ ~aborted[r]
  /\ Goto(r, "attempt") /\ Dispatched(r)
  /\ gen' = [gen EXCEPT ![r] = curlGeneration]
  /\ rides' = [rides EXCEPT ![r] = wispGeneration]
  /\ UNCHANGED <<kind, aborted, waitOn, load, clientVars,
                 deferredCurlResetGen, altVars, stormVars, switches>>

\* a first byte: clear the storm window and the cooldown
AttemptAnswers(r) ==
  /\ pc[r] = "attempt"
  /\ Goto(r, "answered")
  /\ stalls' = 0 /\ cooling' = FALSE
  /\ LeaveWisp(deferredCurlResetGen)
  /\ UNCHANGED <<kind, aborted, gen, rides, waitOn, sent, altVars, switches>>

\* an error of another class, or the caller's abort
AttemptErrs(r) ==
  /\ pc[r] = "attempt"
  /\ Goto(r, "failed")
  /\ LeaveWisp(deferredCurlResetGen)
  /\ UNCHANGED <<kind, aborted, gen, rides, waitOn, sent, altVars, stormVars, switches>>

\* connect-class failure or stall that is not retried: schedule the deferred
\* reset for the generation that served it
AttemptFailsTerminally(r) ==
  /\ pc[r] = "attempt"
  /\ kind[r].isolated \/ ~Retryable(r)
  /\ Goto(r, "failed")
  /\ \E stall \in BOOLEAN : RecordStallIf(stall /\ ~kind[r].isolated)
  /\ LeaveWisp(gen[r])
  /\ UNCHANGED <<kind, aborted, gen, rides, waitOn, sent, altVars, switches>>

\* connect-class failure or stall that will be retried: sharedCurlReset(gen).
\* "resetting" fails with the reset, "joining" (an older generation) swallows
\* its error; with nothing to await the retry is next
AttemptFails(r) ==
  /\ pc[r] = "attempt"
  /\ ~kind[r].isolated /\ Retryable(r)
  /\ \E stall \in BOOLEAN : RecordStallIf(stall)
  /\ SharedCurlReset(gen[r])
  /\ waitOn' = [waitOn EXCEPT ![r] = curlResetInflight']
  /\ Goto(r, IF gen[r] = curlGeneration THEN "resetting" ELSE "joining")
  /\ UNCHANGED <<kind, aborted, gen, rides, sent, load,
                 deferredCurlResetGen, altVars, switches>>

\* Mutant: the retry does not look at the caller's signal.
RetryUnasked(r) ==
  /\ \/ pc[r] = "resetting" /\ inits[waitOn[r]] = "ok"
     \/ pc[r] = "joining" /\ AwaitOver(r)
  /\ Goto(r, "retry") /\ Dispatched(r)
  /\ rides' = [rides EXCEPT ![r] = wispGeneration]
  /\ UNCHANGED <<kind, aborted, gen, waitOn, load, clientVars,
                 deferredCurlResetGen, altVars, stormVars, switches>>

\* the reset is over (or there was none to await): the one retry, unless the
\* caller has gone
Retry(r) ==
  /\ \/ pc[r] = "resetting" /\ inits[waitOn[r]] = "ok"
     \/ pc[r] = "joining" /\ AwaitOver(r)
  /\ ~aborted[r]
  /\ Goto(r, "retry") /\ Dispatched(r)
  /\ rides' = [rides EXCEPT ![r] = wispGeneration]
  /\ UNCHANGED <<kind, aborted, gen, waitOn, load, clientVars,
                 deferredCurlResetGen, altVars, stormVars, switches>>

\* Mutant: a failed re-initialisation is never reported to its request.
RetryRefusedSilently(r) ==
  /\ pc[r] = "joining" /\ aborted[r] /\ AwaitOver(r)
  /\ Goto(r, "failed")
  /\ LeaveWisp(deferredCurlResetGen)
  /\ UNCHANGED <<kind, aborted, gen, rides, waitOn, sent, altVars, stormVars, switches>>

RetryRefused(r) ==
  /\ \/ pc[r] = "resetting" /\ inits[waitOn[r]] = "failed"
     \/ pc[r] = "resetting" /\ inits[waitOn[r]] = "ok" /\ aborted[r]
     \/ pc[r] = "joining" /\ aborted[r] /\ AwaitOver(r)
  /\ Goto(r, "failed")
  /\ LeaveWisp(deferredCurlResetGen)
  /\ UNCHANGED <<kind, aborted, gen, rides, waitOn, sent, altVars, stormVars, switches>>

\* the retry's answer leaves the storm state alone; its stall counts
RetrySettles(r) ==
  /\ pc[r] = "retry"
  /\ \/ Goto(r, "answered") /\ UNCHANGED stormVars
     \/ Goto(r, "failed") /\ \E stall \in BOOLEAN : RecordStallIf(stall)
  /\ LeaveWisp(deferredCurlResetGen)
  /\ UNCHANGED <<kind, aborted, gen, rides, waitOn, sent, altVars, switches>>

--------------------------------------------------------------------------------
(* Shared state that moves on its own. *)

\* an init promise settles; a failure forgets the memoised promise, whichever
\* it is by then; the reset that awaits it is over
InitSettles(i) ==
  /\ inits[i] = "pending"
  /\ \/ inits' = [inits EXCEPT ![i] = "ok"] /\ UNCHANGED curlReady
     \/ inits' = [inits EXCEPT ![i] = "failed"] /\ curlReady' = 0
  /\ curlResetInflight' = IF curlResetInflight = i THEN 0 ELSE curlResetInflight
  /\ UNCHANGED <<reqVars, load, curlGeneration, wispGeneration,
                 deferredCurlResetGen, altVars, stormVars, switches>>

\* the stall window slides; the cooldown expires
StallAges ==
  /\ stalls > 0 /\ stalls' = stalls - 1
  /\ UNCHANGED <<reqVars, load, clientVars, deferredCurlResetGen, altVars, cooling, switches>>

CooldownExpires ==
  /\ cooling /\ cooling' = FALSE
  /\ UNCHANGED <<reqVars, load, clientVars, deferredCurlResetGen, altVars, stalls, switches>>

\* the embedder changes the primary endpoint: the client is dropped, the
\* generation is not bumped
SetPrimaryWisp ==
  /\ switches < MaxSwitches /\ switches' = switches + 1
  /\ curlReady' = 0
  /\ wispGeneration' = wispGeneration + 1
  /\ UNCHANGED <<reqVars, load, curlGeneration, inits, curlResetInflight,
                 deferredCurlResetGen, altVars, stormVars>>

\* zl:transport: the next ensureCurl initialises the other engine
SwitchEngine ==
  /\ switches < MaxSwitches /\ switches' = switches + 1
  /\ curlReady' = 0
  /\ UNCHANGED <<reqVars, load, curlGeneration, wispGeneration, inits, curlResetInflight,
                 deferredCurlResetGen, altVars, stormVars>>

\* every request is settled and no init is pending: nothing left to do
Quiescent ==
  /\ \A r \in Reqs : pc[r] \in Settled
  /\ UNCHANGED vars

--------------------------------------------------------------------------------
\* continuations of a promise that has settled: the event loop runs them all
\* before the next event
Resumable(r) ==
  \/ pc[r] = "fallback"
  \/ pc[r] \in {"prepare", "resetting"} /\ inits[waitOn[r]] # "pending"
  \/ pc[r] = "joining" /\ AwaitOver(r)

Resume(r) == EnterWisp(r) \/ PrepareFails(r) \/ Dispatch(r) \/ Retry(r) \/ RetryRefused(r)

\* what an event (a response, an error, a timer, a message) makes a request do
Event(r) ==
  \/ RouteRelay(r) \/ RelayAnswers(r) \/ RouteAlt(r) \/ RouteDirect(r)
  \/ AltAnswers(r) \/ AltErrs(r) \/ AltFailsTerminally(r)
  \/ AltRetries(r) \/ AltRetrySettles(r)
  \/ CoolRelaySettles(r) \/ CoolRelayStalls(r) \/ CoolRelayDeclines(r)
  \/ Prepare(r)
  \/ AttemptAnswers(r) \/ AttemptErrs(r) \/ AttemptFailsTerminally(r) \/ AttemptFails(r)
  \/ RetrySettles(r)

Microtasks == \E r \in Reqs : Resumable(r)

Step(r) == Resume(r) \/ (~Microtasks /\ Event(r))
Settling == ~Microtasks /\ \E i \in 1..Len(inits) : InitSettles(i)

Next ==
  \/ \E r \in Reqs : Step(r)
  \/ ~Microtasks /\ \E r \in Reqs : Accept(r) \/ Abort(r)
  \/ Settling
  \/ ~Microtasks /\ (StallAges \/ CooldownExpires \/ SetPrimaryWisp \/ SwitchEngine)
  \/ Quiescent

Spec == Init /\ [][Next]_vars

\* the first-byte deadline bounds every attempt, 10 s the wait for a dead
\* transport; a client initialisation opens a socket or fails
Fairness ==
  /\ \A r \in Reqs : WF_vars(Step(r))
  /\ WF_vars(Settling)

FairSpec == Spec /\ Fairness

--------------------------------------------------------------------------------
(* Properties. *)

\* Every variable stays in its range, and a place that awaits an init promise
\* names one that was started (transport.ts module state, 137-200).
TypeOK ==
  /\ pc \in [Reqs -> Places] /\ kind \in [Reqs -> Kinds]
  /\ aborted \in [Reqs -> BOOLEAN]
  /\ gen \in [Reqs -> Nat] /\ rides \in [Reqs -> Nat]
  /\ waitOn \in [Reqs -> 0..Len(inits)] /\ sent \in [Reqs -> Nat]
  /\ load \in Nat
  /\ curlGeneration \in Nat /\ wispGeneration \in Nat
  /\ inits \in Seq({"pending", "ok", "failed"})
  /\ curlReady \in 0..Len(inits) /\ curlResetInflight \in 0..Len(inits)
  /\ deferredCurlResetGen \in Nat \cup {NoGen}
  /\ altGeneration \in Nat /\ deferredAltResetGen \in Nat \cup {NoGen}
  /\ stalls \in 0..STALL_THRESHOLD /\ cooling \in BOOLEAN
  /\ switches \in 0..MaxSwitches
  /\ \A r \in Reqs : pc[r] \in {"prepare", "resetting"} => waitOn[r] # 0

\* A request whose side effect or body cannot be repeated reaches an adapter
\* at most once over every route, retry, fallback and cooldown detour, save a
\* relay dispatch the embedder proved undelivered (#251, #442, #444, #501).
AtMostOnce ==
  \A r \in Reqs : sent[r] > 1 => Repeatable(r)

\* Nothing is handed to an adapter for a caller that has gone, wherever the
\* abort lands: in the relay arm, during a client init, between the failure
\* and the retry, or between the policy route and the fallback.
NoDispatchAfterAbort ==
  [][\A r \in Reqs : sent'[r] > sent[r] => ~aborted[r]]_vars

InFlight == {r \in Reqs : pc[r] \in Counted}

\* loadInflight() is exactly the number of requests inside wispFetch or
\* altWispFetch (loadstate.ts): each way out leaves once.
LoadCountsInFlight == load = Cardinality(InFlight)

\* The generation a retry rides is newer than the one that failed it: the
\* retry never returns to the client whose failure it repairs (#415).
RetryOnFreshClient ==
  \A r \in Reqs : pc[r] = "retry" => rides[r] > gen[r]

\* A failure resets only the client that served it: a late failure of an old
\* generation never drops the fresh client (#415).
LateFailureKeepsFreshClient ==
  [][\A r \in Reqs :
       pc[r] = "attempt" /\ pc'[r] \in {"resetting", "joining"}
         => wispGeneration' = wispGeneration \/ rides[r] = wispGeneration]_vars

\* A reset that no retry asked for waits for the last in-flight request: it
\* kills nothing that rides the primary client (#514, #577).
DeferredCurlResetWaits ==
  [][wispGeneration' > wispGeneration /\ switches' = switches
       => \/ \E r \in Reqs : pc[r] = "attempt" /\ pc'[r] = "resetting"
          \/ \A r \in Reqs : pc'[r] \notin Riding]_vars

\* The reset is deferred to the moment the last in-flight request leaves: with
\* nothing in flight none is still due.  It needs every request on the primary
\* client: the last to leave altWispFetch runs only the secondary client's.
DeferredCurlResetRuns == load = 0 => deferredCurlResetGen = NoGen

\* Resets and generations: a retry rides a newer client than the one that failed
\* it, and a late failure resets no newer client (#415).
ResetsKeepToTheirGeneration == [][RetryOnFreshClient']_vars /\ LateFailureKeepsFreshClient

\* The deferred reset is neither early nor forgotten once the network is idle: it
\* kills nothing in flight, and with nothing in flight none is due (#514, #577).
DeferredResetIsTimely == [][DeferredCurlResetRuns']_vars /\ DeferredCurlResetWaits

\* A deferred reset that is due for the current client goes away only by
\* resetting that client: nothing else forgets it (#514).
DueResetHappens ==
  [][deferredCurlResetGen = curlGeneration /\ deferredCurlResetGen' # deferredCurlResetGen
       => curlGeneration' > curlGeneration]_vars

\* Seen as the delivery of each request, the whole machinery keeps the promise
\* of module Delivery.  Five dispatches are the most a route allows: a policy
\* relay or two on the secondary client, the cooldown relay, two on the primary.
View(place) == IF place \in Settled \cup {"idle"} THEN place ELSE "active"
Promise == INSTANCE Delivery WITH
  MaxDispatches <- 5,
  phase      <- [r \in Reqs |-> View(pc[r])],
  repeatable <- [r \in Reqs |-> Repeatable(r)],
  gone       <- aborted,
  unproved   <- sent
KeepsDeliveryPromise == Promise!Spec

\* Every request that is accepted is answered or fails.
EveryRequestSettles ==
  \A r \in Reqs : pc[r] = "start" ~> pc[r] \in Settled
================================================================================
