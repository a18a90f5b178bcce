------------------------------- MODULE WispClient -------------------------------
(***************************************************************************)
(* The vendored client singletons of libcurl-transport-vendored.ts         *)
(* (getClient, getEpoxy, init, reset, the wisp socket watcher and its      *)
(* reconnect timer), the lifecycle machine of transport-lifecycle.ts they  *)
(* drive, and ensureCurl's memoised promise in front of them.              *)
(*                                                                         *)
(* An init run is one execution of the async body that builds a client; an *)
(* init call is one execution of init(), awaiting a run.  A run settles    *)
(* together with the continuations of the calls that await it.             *)
(***************************************************************************)
EXTENDS Naturals, Sequences, FiniteSets

CONSTANTS
  Reqs,         \* requests, each dispatched at most twice
  Sockets,      \* websockets the wasm may construct in one behaviour
  Endpoints,    \* primary wisp endpoints
  BuildEndpoint, \* the one in force without an override
  MaxCalls,     \* bound: init() calls in one behaviour
  MaxSwitches   \* bound: engine and endpoint changes in one behaviour

ASSUME CallsAssumption == MaxCalls \in Nat /\ MaxSwitches \in Nat
ASSUME EndpointsAssumption == BuildEndpoint \in Endpoints

Engines == {"libcurl", "epoxy"}

VARIABLES
  engine,
  endpoint,        \* primaryWispUrl()
  lastCfg,         \* endpoint of the last init() call; none before the first
  wispGeneration,
  runs,            \* init runs: engine, endpoint, generation, status
  client,          \* client / epoxyClient: the run that built it, 0 for null
  initPromise,     \* initPromise / epoxyInitPromise: the run, 0 for null
  calls,           \* init() calls: the run awaited, who called, status
  curlReady,       \* the memoised call, 0 for null
  state,           \* the lifecycle machine
  sock,            \* each websocket
  liveWisp,        \* the sockets the watcher counts
  reconnectTimer,
  curlGeneration,
  resetCall,       \* the init() call of the last shared reset
  pc,              \* each request
  gen,             \* the generation it remembered
  on,              \* the call it awaits, 0 for none
  retried,
  switches

singletons == <<wispGeneration, runs, client, initPromise, calls, curlReady, lastCfg, state>>
resetVars  == <<curlGeneration, resetCall>>
sockVars   == <<sock, liveWisp, reconnectTimer>>
reqVars    == <<pc, gen, on, retried>>
vars == <<engine, endpoint, lastCfg, wispGeneration, runs, client, initPromise, calls,
          curlReady, state, sock, liveWisp, reconnectTimer, curlGeneration, resetCall,
          pc, gen, on, retried, switches>>

NoCfg == "none"
Pending(i) == runs[i].status \in {"loading", "connecting"}

Init ==
  /\ engine = "libcurl"
  /\ endpoint = BuildEndpoint
  /\ lastCfg = NoCfg
  /\ wispGeneration = 0
  /\ runs = <<>> /\ calls = <<>>
  /\ client = [e \in Engines |-> 0]
  /\ initPromise = [e \in Engines |-> 0]
  /\ curlReady = 0
  /\ state = "idle"
  /\ sock = [s \in Sockets |-> "none"]
  /\ liveWisp = {}
  /\ reconnectTimer = FALSE
  /\ curlGeneration = 0 /\ resetCall = 0
  /\ pc = [r \in Reqs |-> "idle"]
  /\ gen = [r \in Reqs |-> 0]
  /\ on = [r \in Reqs |-> 0]
  /\ retried = [r \in Reqs |-> FALSE]
  /\ switches = 0

--------------------------------------------------------------------------------
(* reset() and init(), on given values so that a caller can run both. *)

AfterReset == IF state \in {"connecting", "connected"} THEN "dead" ELSE state

Dropped == [e \in Engines |-> 0]

\* init(cfg) over singletons c and p: a present client answers at once, a
\* pending run is joined, else a new run starts; the state ends connected or
\* connecting.  g is the call's caller.
InitCall(c, p, cfg, g) ==
  LET e   == engine
      new == c[e] = 0 /\ p[e] = 0
      run == IF c[e] # 0 THEN 0 ELSE IF new THEN Len(runs) + 1 ELSE p[e]
      rejected == run # 0 /\ ~new /\ runs[run].status = "failed"
  IN
  /\ Len(calls) < MaxCalls
  /\ lastCfg' = cfg
  /\ runs' = IF new THEN Append(runs, [engine |-> e, cfg |-> cfg, gen |-> 0, status |-> "loading"])
             ELSE runs
  /\ client' = c
  /\ initPromise' = [p EXCEPT ![e] = IF c[e] # 0 THEN @ ELSE run]
  /\ calls' = Append(calls, [run |-> run, by |-> g,
                             status |-> IF c[e] # 0 THEN "ok"
                                        ELSE IF rejected THEN "failed" ELSE "pending"])
  /\ state' = IF c[e] # 0 THEN "connected" ELSE IF rejected THEN "dead" ELSE "connecting"

\* ensureCurl(): the memo, or a new call; a call that fails forgets the memo
\* and leaves no call to await
EnsureCurl(c, p, memo) ==
  IF memo # 0
    THEN /\ curlReady' = memo /\ client' = c /\ initPromise' = p
         /\ UNCHANGED <<runs, calls, lastCfg>>
         /\ state' = state
    ELSE /\ InitCall(c, p, endpoint, "ensure")
         /\ curlReady' = IF calls'[Len(calls')].status = "failed" THEN 0 ELSE Len(calls')

--------------------------------------------------------------------------------
(* Requests: transport.ts wispFetch around the singletons. *)

\* a request that finds the transport dead waits for the reconnect, bounded
Begin(r) ==
  /\ pc[r] = "idle"
  /\ pc' = [pc EXCEPT ![r] = IF state = "dead" THEN "waiting" ELSE "ready"]
  /\ UNCHANGED <<engine, endpoint, singletons, sockVars, resetVars, gen, on, retried, switches>>

\* the wait ends with the reconnect or with its 10 s
WaitOver(r) ==
  /\ pc[r] = "waiting"
  /\ pc' = [pc EXCEPT ![r] = "ready"]
  /\ UNCHANGED <<engine, endpoint, singletons, sockVars, resetVars, gen, on, retried, switches>>

Ready(r) ==
  /\ pc[r] = "ready"
  /\ EnsureCurl(client, initPromise, curlReady)
  /\ on' = [on EXCEPT ![r] = IF curlReady # 0 THEN curlReady ELSE Len(calls')]
  /\ pc' = [pc EXCEPT ![r] = "ensuring"]
  /\ UNCHANGED <<engine, endpoint, wispGeneration, sockVars, resetVars, gen, retried, switches>>

\* what it awaited lets it dispatch: the init succeeded, or it only joined the
\* shared reset of a newer generation and swallows its outcome
Awaited(r, st) == on[r] # 0 => calls[on[r]].status \in st
Dispatchable(r) ==
  \/ pc[r] = "ensuring" /\ Awaited(r, {"ok"})
  \/ pc[r] = "joining" /\ Awaited(r, {"ok", "failed"})

\* the dispatch: without a client the vendored fetch throws "not initialized",
\* which is no connect-class error; a retry that swallowed a failed reset ends so
Fetch(r) ==
  /\ Dispatchable(r)
  /\ pc' = [pc EXCEPT ![r] = IF client[engine] # 0 THEN "riding"
                             ELSE IF pc[r] = "ensuring" THEN "refused" ELSE "failed"]
  /\ gen' = [gen EXCEPT ![r] = curlGeneration]
  /\ UNCHANGED <<engine, endpoint, singletons, sockVars, resetVars, on, retried, switches>>

NotReady(r) ==
  /\ pc[r] = "ensuring" /\ Awaited(r, {"failed"})
  /\ pc' = [pc EXCEPT ![r] = "failed"]
  /\ UNCHANGED <<engine, endpoint, singletons, sockVars, resetVars, gen, on, retried, switches>>

Settles(r) ==
  /\ pc[r] = "riding"
  /\ pc' = [pc EXCEPT ![r] = "done"]
  /\ UNCHANGED <<engine, endpoint, singletons, sockVars, resetVars, gen, on, retried, switches>>

\* a connect-class failure: the shared reset of its generation (reset, then
\* ensureCurl), or joining the one a newer generation has in flight
ResetInflight == resetCall # 0 /\ calls[resetCall].status = "pending"

ConnectFails(r) ==
  /\ pc[r] = "riding" /\ ~retried[r]
  /\ retried' = [retried EXCEPT ![r] = TRUE]
  /\ IF gen[r] = curlGeneration /\ ~ResetInflight
       THEN /\ wispGeneration' = wispGeneration + 1
            /\ curlGeneration' = curlGeneration + 1
            /\ liveWisp' = {}
            /\ EnsureCurl(Dropped, Dropped, 0)
            /\ resetCall' = Len(calls')
            /\ on' = [on EXCEPT ![r] = resetCall']
            /\ pc' = [pc EXCEPT ![r] = "ensuring"]
       ELSE /\ on' = [on EXCEPT ![r] = IF ResetInflight THEN resetCall ELSE 0]
            /\ pc' = [pc EXCEPT ![r] = IF gen[r] = curlGeneration THEN "ensuring" ELSE "joining"]
            /\ UNCHANGED <<singletons, liveWisp, resetVars>>
  /\ UNCHANGED <<engine, endpoint, sock, reconnectTimer, gen, switches>>

--------------------------------------------------------------------------------
(* Init runs. *)

Awaiting(i) == {c \in 1..Len(calls) : calls[c].run = i /\ calls[c].status = "pending"}
\* Mutant: only the first caller of a run learns how it ended.
WithStatusFirst(i, st) ==
  [c \in 1..Len(calls) |->
     IF c \in Awaiting(i) /\ \A d \in Awaiting(i) : c <= d
       THEN [calls[c] EXCEPT !.status = st] ELSE calls[c]]

WithStatus(i, st) ==
  [c \in 1..Len(calls) |-> IF c \in Awaiting(i) THEN [calls[c] EXCEPT !.status = st] ELSE calls[c]]

\* Mutant: the client is built on the plain URL, without the generation.
ConstructUnbusted(i) ==
  /\ runs[i].status = "loading"
  /\ runs' = [runs EXCEPT ![i].status = "connecting"]
  /\ UNCHANGED <<engine, endpoint, wispGeneration, client, initPromise, calls, curlReady,
                 lastCfg, state, sockVars, resetVars, reqVars, switches>>

\* the bundle is loaded: the client is constructed on the generation's URL
Construct(i) ==
  /\ runs[i].status = "loading"
  /\ runs' = [runs EXCEPT ![i].status = "connecting", ![i].gen = wispGeneration]
  /\ UNCHANGED <<engine, endpoint, wispGeneration, client, initPromise, calls, curlReady,
                 lastCfg, state, sockVars, resetVars, reqVars, switches>>

\* client = c, whatever happened since the run started
RunSucceeds(i) ==
  /\ runs[i].status = "connecting"
  /\ runs' = [runs EXCEPT ![i].status = "ok"]
  /\ client' = [client EXCEPT ![runs[i].engine] = i]
  /\ calls' = WithStatus(i, "ok")
  /\ state' = IF Awaiting(i) # {} THEN "connected" ELSE state
  /\ UNCHANGED <<engine, endpoint, wispGeneration, initPromise, curlReady, lastCfg,
                 sockVars, resetVars, reqVars, switches>>

\* a run fails; a bundle that does not load, a missing transport seam and every
\* epoxy failure forget the promise of the engine, whoever holds it by now; a
\* rejected c.init() leaves it memoised
RunFails(i) ==
  /\ Pending(i)
  /\ runs' = [runs EXCEPT ![i].status = "failed"]
  /\ \/ initPromise' = [initPromise EXCEPT ![runs[i].engine] = 0]
     \/ /\ runs[i].engine = "libcurl" /\ runs[i].status = "connecting"
        /\ UNCHANGED initPromise
  /\ calls' = WithStatus(i, "failed")
  /\ state' = IF Awaiting(i) # {} THEN "dead" ELSE state
  /\ curlReady' = IF \E c \in Awaiting(i) : calls[c].by = "ensure" THEN 0 ELSE curlReady
  /\ reconnectTimer' = (reconnectTimer \/ \E c \in Awaiting(i) : calls[c].by = "timer")
  /\ UNCHANGED <<engine, endpoint, wispGeneration, client, lastCfg,
                 sock, liveWisp, resetVars, reqVars, switches>>

--------------------------------------------------------------------------------
(* The watcher. *)

\* the wasm opens a websocket for a client being built or in use; the watcher
\* counts it if its endpoint is that of the last init()
SocketConstructed(s, i) ==
  /\ sock[s] = "none"
  /\ runs[i].status = "connecting" \/ client[runs[i].engine] = i
  /\ sock' = [sock EXCEPT ![s] = IF runs[i].cfg = lastCfg THEN "connecting" ELSE "unwatched"]
  /\ liveWisp' = IF runs[i].cfg = lastCfg THEN liveWisp \cup {s} ELSE liveWisp
  /\ UNCHANGED <<engine, endpoint, singletons, reconnectTimer, resetVars, reqVars, switches>>

SocketOpens(s) ==
  /\ sock[s] = "connecting"
  /\ sock' = [sock EXCEPT ![s] = "open"]
  /\ state' = "connected"
  /\ UNCHANGED <<engine, endpoint, lastCfg, wispGeneration, runs, client, initPromise, calls,
                 curlReady, liveWisp, reconnectTimer, resetVars, reqVars, switches>>

\* when the last live one closes: dead, and a reconnect is scheduled
SocketCloses(s) ==
  /\ sock[s] \in {"connecting", "open"}
  /\ sock' = [sock EXCEPT ![s] = "closed"]
  /\ liveWisp' = liveWisp \ {s}
  /\ IF liveWisp' = {} THEN state' = "dead" /\ reconnectTimer' = TRUE
                       ELSE UNCHANGED <<state, reconnectTimer>>
  /\ UNCHANGED <<engine, endpoint, lastCfg, wispGeneration, runs, client, initPromise, calls,
                 curlReady, resetVars, reqVars, switches>>

\* the reconnect timer: someone else re-initialised, or reset() and init()
TimerFires ==
  /\ reconnectTimer
  /\ \/ /\ liveWisp # {}
        /\ reconnectTimer' = FALSE
        /\ UNCHANGED <<singletons, liveWisp>>
     \/ /\ liveWisp = {}
        /\ wispGeneration' = wispGeneration + 1
        /\ InitCall(Dropped, Dropped, lastCfg, "timer")
        /\ reconnectTimer' = FALSE
        /\ UNCHANGED <<curlReady, liveWisp>>
  /\ UNCHANGED <<engine, endpoint, sock, resetVars, reqVars, switches>>

--------------------------------------------------------------------------------
(* Embedder messages. *)

\* setPrimaryWisp: a real change drops the live client
SetPrimaryWisp ==
  /\ switches < MaxSwitches /\ switches' = switches + 1
  /\ endpoint' \in Endpoints \ {endpoint}
  /\ curlReady' = 0
  /\ wispGeneration' = wispGeneration + 1
  /\ liveWisp' = {}
  /\ client' = Dropped /\ initPromise' = Dropped
  /\ state' = AfterReset
  /\ UNCHANGED <<engine, lastCfg, runs, calls, sock, reconnectTimer, resetVars, reqVars>>

\* wispTransport.switchEngine
SwitchEngine ==
  /\ switches < MaxSwitches /\ switches' = switches + 1
  /\ engine' \in Engines \ {engine}
  /\ curlReady' = 0
  /\ UNCHANGED <<endpoint, lastCfg, wispGeneration, runs, client, initPromise, calls, state,
                 sockVars, resetVars, reqVars>>

--------------------------------------------------------------------------------
\* continuations of settled promises run before the next event
Resumable(r) == Dispatchable(r) \/ (pc[r] = "ensuring" /\ Awaited(r, {"failed"}))
Microtasks == \E r \in Reqs : Resumable(r)

Event ==
  \/ \E r \in Reqs : Begin(r) \/ WaitOver(r) \/ Ready(r) \/ Settles(r) \/ ConnectFails(r)
  \/ \E i \in 1..Len(runs) : Construct(i) \/ RunSucceeds(i) \/ RunFails(i)
  \/ \E s \in Sockets : SocketOpens(s) \/ SocketCloses(s)
                        \/ \E i \in 1..Len(runs) : SocketConstructed(s, i)
  \/ TimerFires \/ SetPrimaryWisp \/ SwitchEngine

Next ==
  \/ \E r \in Reqs : Fetch(r) \/ NotReady(r)
  \/ ~Microtasks /\ Event

Spec == Init /\ [][Next]_vars

\* a bundle load and a client construction settle; a settled promise's
\* continuations run
Fairness ==
  /\ \A r \in Reqs : WF_vars(Fetch(r) \/ NotReady(r))
  /\ WF_vars(~Microtasks /\ \E i \in 1..Len(runs) : Construct(i) \/ RunSucceeds(i) \/ RunFails(i))

FairSpec == Spec /\ Fairness

--------------------------------------------------------------------------------
(* Properties. *)

\* Types, and that a counted socket is one that is connecting or open.
TypeOK ==
  /\ engine \in Engines /\ endpoint \in Endpoints /\ lastCfg \in Endpoints \cup {NoCfg}
  /\ wispGeneration \in Nat /\ curlGeneration \in Nat /\ switches \in 0..MaxSwitches
  /\ state \in {"idle", "connecting", "connected", "dead"}
  /\ reconnectTimer \in BOOLEAN
  /\ runs \in Seq([engine : Engines, cfg : Endpoints, gen : Nat,
                   status : {"loading", "connecting", "ok", "failed"}])
  /\ calls \in Seq([run : 0..Len(runs), by : {"ensure", "timer"},
                    status : {"pending", "ok", "failed"}])
  /\ client \in [Engines -> 0..Len(runs)] /\ initPromise \in [Engines -> 0..Len(runs)]
  /\ curlReady \in 0..Len(calls) /\ resetCall \in 0..Len(calls)
  /\ sock \in [Sockets -> {"none", "unwatched", "connecting", "open", "closed"}]
  /\ liveWisp \subseteq {s \in Sockets : sock[s] \in {"connecting", "open"}}
  /\ pc \in [Reqs -> {"idle", "waiting", "ready", "ensuring", "joining", "riding",
                     "done", "failed", "refused"}]
  /\ gen \in [Reqs -> Nat] /\ on \in [Reqs -> 0..Len(calls)]
  /\ retried \in [Reqs -> BOOLEAN]

\* ensureCurl (transport.ts) never keeps a failed init() as the memo, so a later
\* request can try again, even though the memo, the vendored promise and the
\* timer's own init() calls fail and are replaced in any order.
FailedInitNotMemoised == curlReady # 0 => calls[curlReady].status # "failed"

\* No switch and no reconnect so far: client generations change by resets alone.
\* A reconnect drops the client behind a memo that stays resolved, and an init run
\* that a switch overtook still installs its client.
OnlyResets == switches = 0 /\ \A c \in 1..Len(calls) : calls[c].by # "timer"

\* Once the init() that a request awaited succeeded, its dispatch finds a client,
\* however resets and joins of the shared reset interleave with runs (#415).
ReadyFindsClient == OnlyResets => \A r \in Reqs : pc[r] # "refused"

\* The libcurl client in use was built on the current generation's URL: after
\* reset() the bundle's connection cache cannot hand back the wedged transport.
FreshClient ==
  OnlyResets /\ client["libcurl"] # 0 => runs[client["libcurl"]].gen = wispGeneration

\* The memo of ensureCurl stands for a usable client on the current generation's URL;
\* the types count the live sockets of each client.
ClientIsSound == TypeOK /\ FailedInitNotMemoised /\ ReadyFindsClient /\ FreshClient

\* No request hangs on an init() whose run has settled: every await of ensureCurl
\* or of the shared reset comes to an end.
AwaitEnds == \A r \in Reqs : pc[r] \in {"ensuring", "joining"} ~>
                                pc[r] \notin {"ensuring", "joining"}

\* A real change of the primary endpoint drops the client, so that the next
\* request re-initialises on the new URL: with no init under way, the client in
\* use belongs to the current endpoint.
EndpointHonoured ==
  client[engine] # 0 /\ (\A i \in 1..Len(runs) : ~Pending(i)) =>
    runs[client[engine]].cfg = endpoint
================================================================================
