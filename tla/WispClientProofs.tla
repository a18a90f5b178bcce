---------------------------- MODULE WispClientProofs ----------------------------
(***************************************************************************)
(* Proofs about WispClient, for any requests, sockets, endpoints and       *)
(* bounds.                                                                 *)
(*                                                                         *)
(* Base holds of every behaviour.  Sure is what makes a resolved memo      *)
(* stand for a client of the current generation while generations change   *)
(* by resets alone: at most one run is pending, it is the promise, and it  *)
(* is pending only while there is no client; a request that rides the      *)
(* current generation has one.                                             *)
(***************************************************************************)
EXTENDS WispClient, TLAPS

RunRecords == [engine : Engines, cfg : Endpoints, gen : Nat,
               status : {"loading", "connecting", "ok", "failed"}]
CallRecords(n) == [run : 0..n, by : {"ensure", "timer"}, status : {"pending", "ok", "failed"}]

Base ==
  /\ TypeOK
  /\ curlReady # 0 => calls[curlReady].by = "ensure" /\ calls[curlReady].status # "failed"
  /\ \A r \in Reqs : gen[r] <= curlGeneration /\ (pc[r] = "ensuring" => on[r] # 0)
  /\ runs # <<>> => lastCfg \in Endpoints
  /\ reconnectTimer => runs # <<>>
  /\ \A s \in Sockets : sock[s] # "none" => runs # <<>>

\* the engine never changed, and the one run that may be pending is the promise
OneRun ==
  /\ engine = "libcurl"
  /\ \A i \in 1..Len(runs) :
       /\ runs[i].engine = "libcurl"
       /\ Pending(i) => i = initPromise["libcurl"] /\ client["libcurl"] = 0
       /\ runs[i].status = "connecting" => runs[i].gen = wispGeneration
  /\ client["libcurl"] # 0 => runs[client["libcurl"]].gen = wispGeneration

\* what a memo, an awaited call and a ride of the current generation vouch for
Vouched ==
  /\ curlReady # 0 /\ calls[curlReady].status = "ok" => client["libcurl"] # 0
  /\ \A r \in Reqs :
       /\ pc[r] = "riding" /\ gen[r] = curlGeneration => client["libcurl"] # 0
       /\ pc[r] = "ensuring" /\ calls[on[r]].status = "ok" => client["libcurl"] # 0
       /\ pc[r] # "refused"

Sure == OnlyResets => OneRun /\ Vouched

IInv == Base /\ Sure

--------------------------------------------------------------------------------
(* init(), and the end of a run, over the sequences of runs and calls. *)

LEMMA Assumed ==
  MaxCalls \in Nat /\ MaxSwitches \in Nat /\ BuildEndpoint \in Endpoints
  BY CallsAssumption, EndpointsAssumption

\* init() leaves earlier runs and calls alone; it starts a run only without a client
\* and without a promise, and answers at once exactly when there is a client
LEMMA InitCalled ==
  ASSUME TypeOK, NEW c \in [Engines -> 0..Len(runs)], NEW p \in [Engines -> 0..Len(runs)],
         NEW cfg \in Endpoints, NEW g \in {"ensure", "timer"}, InitCall(c, p, cfg, g)
  PROVE  /\ runs' \in Seq(RunRecords) /\ runs' # <<>>
         /\ Len(runs) \in Nat /\ Len(runs') \in Nat /\ Len(runs') >= Len(runs)
         /\ \A i \in 1..Len(runs) : runs'[i] = runs[i]
         /\ \/ /\ Len(runs') = Len(runs) /\ initPromise' = p
               /\ c[engine] = 0 => p[engine] # 0
            \/ /\ Len(runs') = Len(runs) + 1 /\ c[engine] = 0 /\ p[engine] = 0
               /\ initPromise' = [p EXCEPT ![engine] = Len(runs) + 1]
               /\ runs'[Len(runs) + 1] = [engine |-> engine, cfg |-> cfg, gen |-> 0, status |-> "loading"]
         /\ initPromise' \in [Engines -> 0..Len(runs')]
         /\ Len(calls) \in Nat /\ Len(calls') = Len(calls) + 1
         /\ calls' \in Seq(CallRecords(Len(runs')))
         /\ \A k \in 1..Len(calls) : calls'[k] = calls[k]
         /\ calls'[Len(calls) + 1].by = g
         /\ calls'[Len(calls) + 1].status = "ok" <=> c[engine] # 0
         /\ client' = c /\ lastCfg' = cfg
         /\ state' \in {"connecting", "connected", "dead"}
<1> DEFINE e == engine
           new == c[e] = 0 /\ p[e] = 0
           run == IF c[e] # 0 THEN 0 ELSE IF new THEN Len(runs) + 1 ELSE p[e]
           rejected == run # 0 /\ ~new /\ runs[run].status = "failed"
           st == IF c[e] # 0 THEN "ok" ELSE IF rejected THEN "failed" ELSE "pending"
           first == [engine |-> e, cfg |-> cfg, gen |-> 0, status |-> "loading"]
<1>1. /\ e \in Engines /\ runs \in Seq(RunRecords) /\ calls \in Seq(CallRecords(Len(runs)))
      /\ Len(runs) \in Nat /\ Len(calls) \in Nat
  BY DEF TypeOK, RunRecords, CallRecords
<1>2. c[e] \in 0..Len(runs) /\ p[e] \in 0..Len(runs)
  BY <1>1
<1>3. /\ lastCfg' = cfg /\ client' = c
      /\ runs' = (IF new THEN Append(runs, first) ELSE runs)
      /\ initPromise' = [p EXCEPT ![e] = IF c[e] # 0 THEN @ ELSE run]
      /\ calls' = Append(calls, [run |-> run, by |-> g, status |-> st])
      /\ state' = (IF c[e] # 0 THEN "connected" ELSE IF rejected THEN "dead" ELSE "connecting")
  BY DEF InitCall
<1>4. first \in RunRecords
  BY <1>1 DEF RunRecords
<1>5. /\ runs' \in Seq(RunRecords) /\ Len(runs') \in Nat /\ Len(runs') >= Len(runs)
      /\ \A i \in 1..Len(runs) : runs'[i] = runs[i]
      /\ new => Len(runs') = Len(runs) + 1 /\ runs'[Len(runs) + 1] = first
      /\ ~new => runs' = runs
  <2> HIDE DEF first
  <2>1. CASE new
    <3>1. runs' = Append(runs, first)
      BY <1>3, <2>1
    <3> QED BY <1>1, <1>4, <2>1, <3>1
  <2>2. CASE ~new
    BY <1>1, <1>3, <2>2
  <2> QED BY <2>1, <2>2
<1>6. new \/ Len(runs) > 0
  BY <1>1, <1>2
<1>7. runs' # <<>>
  BY <1>1, <1>5, <1>6
<1>8. run \in 0..Len(runs') /\ (new => run = Len(runs) + 1) /\ (~new /\ c[e] = 0 => run = p[e])
  BY <1>1, <1>2, <1>5
<1>9. /\ initPromise' \in [Engines -> 0..Len(runs')]
      /\ new => initPromise' = [p EXCEPT ![e] = Len(runs) + 1]
      /\ ~new => initPromise' = p
  <2> DEFINE value == IF c[e] # 0 THEN p[e] ELSE run
  <2>1. initPromise' = [p EXCEPT ![e] = value]
    BY <1>3
  <2>2. value \in 0..Len(runs')
    BY <1>1, <1>2, <1>5, <1>8
  <2>3. (new => value = Len(runs) + 1) /\ (~new => value = p[e])
    BY <1>8
  <2>4. p \in [Engines -> 0..Len(runs')]
    BY <1>1, <1>5
  <2> HIDE DEF value, run
  <2>5. initPromise' \in [Engines -> 0..Len(runs')]
    BY <1>1, <2>1, <2>2, <2>4
  <2>6. CASE new
    BY <2>1, <2>3, <2>5, <2>6
  <2>7. CASE ~new
    BY <1>1, <2>1, <2>3, <2>4, <2>5, <2>7
  <2> QED BY <2>6, <2>7
<1>10. [run |-> run, by |-> g, status |-> st] \in CallRecords(Len(runs'))
  <2>1. st \in {"pending", "ok", "failed"}
    OBVIOUS
  <2> HIDE DEF run, st
  <2> QED BY <1>8, <2>1 DEF CallRecords
<1>11. calls \in Seq(CallRecords(Len(runs')))
  <2>1. CallRecords(Len(runs)) \subseteq CallRecords(Len(runs'))
    BY <1>1, <1>5 DEF CallRecords
  <2>2. \A k \in 1..Len(calls) : calls[k] \in CallRecords(Len(runs'))
    BY <1>1, <2>1
  <2> QED BY SMTT(30), <1>1, <2>2
<1>12. /\ calls' \in Seq(CallRecords(Len(runs'))) /\ Len(calls') = Len(calls) + 1
       /\ \A k \in 1..Len(calls) : calls'[k] = calls[k]
       /\ calls'[Len(calls) + 1] = [run |-> run, by |-> g, status |-> st]
  <2> HIDE DEF run, st
  <2> QED BY <1>1, <1>3, <1>10, <1>11
<1>13. st = "ok" <=> c[e] # 0
  OBVIOUS
<1>14. \/ Len(runs') = Len(runs) /\ initPromise' = p /\ (c[engine] = 0 => p[engine] # 0)
       \/ /\ Len(runs') = Len(runs) + 1 /\ c[engine] = 0 /\ p[engine] = 0
          /\ initPromise' = [p EXCEPT ![engine] = Len(runs) + 1]
          /\ runs'[Len(runs) + 1] = [engine |-> engine, cfg |-> cfg, gen |-> 0, status |-> "loading"]
  BY <1>5, <1>9
<1>15. state' \in {"connecting", "connected", "dead"}
  BY <1>3
<1> HIDE DEF run, st, first
<1> QED BY <1>1, <1>3, <1>5, <1>7, <1>9, <1>12, <1>13, <1>14, <1>15

\* the calls that await a run settle with it, the others stay
LEMMA Settled ==
  ASSUME TypeOK, NEW i, NEW st \in {"ok", "failed"}, calls' = WithStatus(i, st)
  PROVE  /\ calls' \in Seq(CallRecords(Len(runs))) /\ Len(calls') = Len(calls)
         /\ \A k \in 1..Len(calls) :
              /\ calls'[k].by = calls[k].by
              /\ calls'[k].status = IF k \in Awaiting(i) THEN st ELSE calls[k].status
<1>1. calls \in Seq(CallRecords(Len(runs))) /\ Len(calls) \in Nat
  BY DEF TypeOK, CallRecords
<1>2. calls' = [k \in 1..Len(calls) |->
                  IF k \in Awaiting(i) THEN [calls[k] EXCEPT !.status = st] ELSE calls[k]]
  BY DEF WithStatus
<1>3. ASSUME NEW k \in 1..Len(calls)
      PROVE  /\ (IF k \in Awaiting(i) THEN [calls[k] EXCEPT !.status = st] ELSE calls[k])
                   \in CallRecords(Len(runs))
             /\ calls'[k].by = calls[k].by
             /\ calls'[k].status = IF k \in Awaiting(i) THEN st ELSE calls[k].status
  <2>1. calls[k] \in CallRecords(Len(runs))
    BY <1>1
  <2>2. /\ [calls[k] EXCEPT !.status = st] \in CallRecords(Len(runs))
        /\ [calls[k] EXCEPT !.status = st].by = calls[k].by
        /\ [calls[k] EXCEPT !.status = st].status = st
    BY <2>1 DEF CallRecords
  <2>3. calls'[k] = IF k \in Awaiting(i) THEN [calls[k] EXCEPT !.status = st] ELSE calls[k]
    BY <1>2
  <2> QED BY <2>1, <2>2, <2>3
<1>4. calls' \in Seq(CallRecords(Len(runs))) /\ Len(calls') = Len(calls)
  BY <1>1, <1>2, <1>3
<1> QED BY <1>3, <1>4

\* a run's record after a step of its own
LEMMA RunChanged ==
  ASSUME TypeOK, NEW i \in 1..Len(runs), NEW st \in {"loading", "connecting", "ok", "failed"},
         NEW g \in Nat, runs' = [runs EXCEPT ![i].status = st, ![i].gen = g]
  PROVE  /\ runs' \in Seq(RunRecords) /\ Len(runs') = Len(runs) /\ Len(runs) \in Nat
         /\ runs'[i].status = st /\ runs'[i].gen = g /\ runs'[i].engine = runs[i].engine
         /\ \A k \in 1..Len(runs) : k # i => runs'[k] = runs[k]
<1>0. runs \in Seq(RunRecords)
  BY DEF TypeOK, RunRecords
<1>1. runs \in Seq(RunRecords) /\ Len(runs) \in Nat /\ runs[i] \in RunRecords
  BY <1>0
<1>2. [[runs[i] EXCEPT !.status = st] EXCEPT !.gen = g] \in RunRecords
  BY <1>1 DEF RunRecords
<1>3. runs' = [runs EXCEPT ![i] = [[runs[i] EXCEPT !.status = st] EXCEPT !.gen = g]]
  BY <1>1
<1> QED BY <1>1, <1>2, <1>3 DEF RunRecords

LEMMA RunSettled ==
  ASSUME TypeOK, NEW i \in 1..Len(runs), NEW st \in {"ok", "failed"},
         runs' = [runs EXCEPT ![i].status = st]
  PROVE  /\ runs' \in Seq(RunRecords) /\ Len(runs') = Len(runs) /\ Len(runs) \in Nat
         /\ runs'[i].status = st /\ runs'[i].gen = runs[i].gen /\ runs'[i].engine = runs[i].engine
         /\ \A k \in 1..Len(runs) : k # i => runs'[k] = runs[k]
<1>0. runs \in Seq(RunRecords)
  BY DEF TypeOK, RunRecords
<1>1. runs \in Seq(RunRecords) /\ Len(runs) \in Nat /\ runs[i] \in RunRecords
  BY <1>0
<1>2. [runs[i] EXCEPT !.status = st] \in RunRecords
  BY <1>1 DEF RunRecords
<1>3. runs' = [runs EXCEPT ![i] = [runs[i] EXCEPT !.status = st]]
  BY <1>1
<1> QED BY <1>1, <1>2, <1>3 DEF RunRecords

--------------------------------------------------------------------------------
(* The steps. *)

LEMMA Lengths == TypeOK => Len(runs) \in Nat /\ Len(calls) \in Nat
  BY DEF TypeOK

\* a request moves on, and nothing else changes
LEMMA QuietKeeps ==
  ASSUME IInv, NEW r \in Reqs, NEW st \in {"waiting", "ready", "done", "failed"},
         pc' = [pc EXCEPT ![r] = st],
         UNCHANGED <<engine, endpoint, singletons, sockVars, resetVars, gen, on, retried, switches>>
  PROVE  IInv'
<1>0. TypeOK /\ Base /\ Sure
  BY DEF IInv, Base
<1>1. TypeOK'
  BY <1>0 DEF TypeOK, singletons, sockVars, resetVars
<1>2. pc \in [Reqs -> {"idle", "waiting", "ready", "ensuring", "joining", "riding",
                       "done", "failed", "refused"}]
  BY <1>0 DEF TypeOK
<1>3. \A q \in Reqs : /\ pc'[q] = "ensuring" => pc[q] = "ensuring"
                      /\ pc'[q] = "riding" => pc[q] = "riding"
                      /\ pc'[q] = "refused" => pc[q] = "refused"
  BY <1>2
<1>4. Base'
  BY <1>0, <1>1, <1>3 DEF Base, singletons, sockVars, resetVars
<1>5. Sure'
  <2>1. OnlyResets' => OnlyResets
    BY DEF OnlyResets, singletons
  <2>2. OneRun => OneRun'
    BY DEF OneRun, Pending, singletons
  <2>3. Vouched => Vouched'
    BY <1>3 DEF Vouched, singletons, resetVars
  <2> QED BY <1>0, <2>1, <2>2, <2>3 DEF Sure
<1> QED BY <1>4, <1>5 DEF IInv

LEMMA FetchKeeps == ASSUME IInv, NEW r \in Reqs, Fetch(r) PROVE IInv'
<1>0. TypeOK /\ Base /\ Sure
  BY DEF IInv, Base
<1>1. TypeOK'
  BY <1>0 DEF TypeOK, Fetch, singletons, sockVars, resetVars
<1>2. /\ pc \in [Reqs -> {"idle", "waiting", "ready", "ensuring", "joining", "riding",
                          "done", "failed", "refused"}]
      /\ gen \in [Reqs -> Nat] /\ curlGeneration \in Nat
  BY <1>0 DEF TypeOK
<1>3. /\ \A q \in Reqs : q # r => pc'[q] = pc[q] /\ gen'[q] = gen[q]
      /\ gen'[r] = curlGeneration
      /\ pc'[r] = IF client[engine] # 0 THEN "riding"
                  ELSE IF pc[r] = "ensuring" THEN "refused" ELSE "failed"
      /\ UNCHANGED <<engine, endpoint, singletons, sockVars, resetVars, on, retried, switches>>
  BY <1>2 DEF Fetch
<1>4. pc[r] = "ensuring" => on[r] # 0 /\ calls[on[r]].status = "ok"
  BY <1>0 DEF Base, Fetch, Dispatchable, Awaited
<1>5. Base'
  <2>1. \A q \in Reqs : gen'[q] <= curlGeneration /\ (pc'[q] = "ensuring" => pc[q] = "ensuring")
    BY <1>0, <1>2, <1>3 DEF Base
  <2> QED BY <1>0, <1>1, <1>3, <2>1 DEF Base, singletons, sockVars, resetVars
<1>6. Sure'
  <2>1. OnlyResets' => OnlyResets
    BY <1>3 DEF OnlyResets, singletons
  <2>2. OneRun => OneRun'
    BY <1>3 DEF OneRun, Pending, singletons
  <2>3. ASSUME OneRun, Vouched PROVE Vouched'
    <3>1. engine = "libcurl"
      BY <2>3 DEF OneRun
    <3>2. pc'[r] \notin {"ensuring", "refused"} /\ (pc'[r] = "riding" => client["libcurl"] # 0)
      BY <1>3, <1>4, <2>3, <3>1 DEF Vouched
    <3> QED BY <1>3, <2>3, <3>2 DEF Vouched, singletons, resetVars
  <2> QED BY <1>0, <2>1, <2>2, <2>3 DEF Sure
<1> QED BY <1>5, <1>6 DEF IInv

\* the sockets and the timer change, the singletons keep but for the state
LEMMA SocketKeeps ==
  ASSUME IInv, TypeOK', runs # <<>>,
         UNCHANGED <<engine, endpoint, lastCfg, wispGeneration, runs, client, initPromise, calls,
                     curlReady, resetVars, reqVars, switches>>
  PROVE  IInv'
<1>1. Base'
  BY DEF IInv, Base, resetVars, reqVars
<1>2. OnlyResets' => OnlyResets
  BY DEF OnlyResets
<1>3. OneRun => OneRun'
  BY DEF OneRun, Pending
<1>4. Vouched => Vouched'
  BY DEF Vouched, resetVars, reqVars
<1> QED BY <1>1, <1>2, <1>3, <1>4 DEF IInv, Sure

LEMMA SocketConstructedKeeps ==
  ASSUME IInv, NEW s \in Sockets, NEW i \in 1..Len(runs), SocketConstructed(s, i) PROVE IInv'
<1>0. TypeOK /\ Len(runs) \in Nat
  BY Lengths DEF IInv, Base
<1>1. TypeOK /\ runs # <<>>
  BY <1>0
<1>2. TypeOK'
  BY SMTT(30), <1>1 DEF TypeOK, SocketConstructed, singletons, resetVars, reqVars
<1> QED BY <1>1, <1>2, SocketKeeps DEF SocketConstructed, singletons

LEMMA SocketOpensKeeps == ASSUME IInv, NEW s \in Sockets, SocketOpens(s) PROVE IInv'
<1>1. TypeOK /\ runs # <<>>
  BY DEF IInv, Base, SocketOpens
<1>2. TypeOK'
  BY <1>1 DEF TypeOK, SocketOpens, resetVars, reqVars
<1> QED BY <1>1, <1>2, SocketKeeps DEF SocketOpens

LEMMA SocketClosesKeeps == ASSUME IInv, NEW s \in Sockets, SocketCloses(s) PROVE IInv'
<1>1. TypeOK /\ runs # <<>>
  BY DEF IInv, Base, SocketCloses
<1>2. TypeOK'
  BY <1>1 DEF TypeOK, SocketCloses, resetVars, reqVars
<1> QED BY <1>1, <1>2, SocketKeeps DEF SocketCloses

LEMMA ConstructKeeps == ASSUME IInv, NEW i \in 1..Len(runs), Construct(i) PROVE IInv'
<1>0. TypeOK /\ Base /\ Sure
  BY DEF IInv, Base
<1>1. wispGeneration \in Nat /\ Len(calls) \in Nat /\ calls \in Seq(CallRecords(Len(runs)))
  BY <1>0 DEF TypeOK, CallRecords
<1>2. /\ runs' \in Seq(RunRecords) /\ Len(runs') = Len(runs) /\ Len(runs) \in Nat
      /\ runs'[i].status = "connecting" /\ runs'[i].gen = wispGeneration
      /\ runs'[i].engine = runs[i].engine
      /\ \A k \in 1..Len(runs) : k # i => runs'[k] = runs[k]
  BY <1>0, <1>1, RunChanged DEF Construct
<1>3. /\ runs[i].status = "loading"
      /\ UNCHANGED <<engine, endpoint, wispGeneration, client, initPromise, calls, curlReady,
                     lastCfg, state, sockVars, resetVars, reqVars, switches>>
  BY DEF Construct
<1>4. TypeOK'
  BY <1>0, <1>2, <1>3 DEF TypeOK, RunRecords, sockVars, resetVars, reqVars
<1>5. runs' # <<>> /\ runs # <<>>
  BY <1>2
<1>6. Base'
  BY <1>0, <1>3, <1>4, <1>5 DEF Base, sockVars, resetVars, reqVars
<1>7. Sure'
  <2>1. OnlyResets' => OnlyResets
    BY <1>3 DEF OnlyResets
  <2>2. ASSUME OneRun PROVE OneRun'
    <3>1. i = initPromise["libcurl"] /\ client["libcurl"] = 0
      BY <1>3, <2>2 DEF OneRun, Pending
    <3> QED BY <1>2, <1>3, <2>2, <3>1 DEF OneRun, Pending
  <2>3. Vouched => Vouched'
    BY <1>3 DEF Vouched, resetVars, reqVars
  <2> QED BY <1>0, <2>1, <2>2, <2>3 DEF Sure
<1> QED BY <1>6, <1>7 DEF IInv

LEMMA RunSucceedsKeeps == ASSUME IInv, NEW i \in 1..Len(runs), RunSucceeds(i) PROVE IInv'
<1>0. TypeOK /\ Base /\ Sure
  BY DEF IInv, Base
<1>1. /\ Len(calls) \in Nat /\ client \in [Engines -> 0..Len(runs)] /\ curlReady \in 0..Len(calls)
      /\ on \in [Reqs -> 0..Len(calls)] /\ Len(runs) \in Nat
  BY <1>0 DEF TypeOK
<1>2. /\ runs' \in Seq(RunRecords) /\ Len(runs') = Len(runs) /\ Len(runs) \in Nat
      /\ runs'[i].status = "ok" /\ runs'[i].gen = runs[i].gen
      /\ runs'[i].engine = runs[i].engine
      /\ \A k \in 1..Len(runs) : k # i => runs'[k] = runs[k]
  BY <1>0, RunSettled DEF RunSucceeds
<1>3. /\ calls' \in Seq(CallRecords(Len(runs))) /\ Len(calls') = Len(calls)
      /\ \A k \in 1..Len(calls) :
           /\ calls'[k].by = calls[k].by
           /\ calls'[k].status = IF k \in Awaiting(i) THEN "ok" ELSE calls[k].status
  BY <1>0, Settled DEF RunSucceeds
<1>4. /\ runs[i].status = "connecting"
      /\ client' = [client EXCEPT ![runs[i].engine] = i]
      /\ UNCHANGED <<engine, endpoint, wispGeneration, initPromise, curlReady, lastCfg,
                     sockVars, resetVars, reqVars, switches>>
  BY DEF RunSucceeds
<1>5. /\ calls' \in Seq([run : 0..Len(runs'), by : {"ensure", "timer"},
                         status : {"pending", "ok", "failed"}])
      /\ runs' \in Seq([engine : Engines, cfg : Endpoints, gen : Nat,
                        status : {"loading", "connecting", "ok", "failed"}])
      /\ client' \in [Engines -> 0..Len(runs')]
      /\ state' \in {"idle", "connecting", "connected", "dead"}
  <2>1. state' \in {"idle", "connecting", "connected", "dead"}
    BY <1>0 DEF TypeOK, RunSucceeds
  <2>2. client' \in [Engines -> 0..Len(runs')]
    <3>1. client \in [Engines -> 0..Len(runs')] /\ i \in 0..Len(runs')
      BY <1>1, <1>2
    <3> QED BY <1>4, <3>1
  <2> QED BY <1>2, <1>3, <2>1, <2>2 DEF CallRecords, RunRecords
<1>6. TypeOK'
  BY <1>0, <1>2, <1>3, <1>4, <1>5 DEF TypeOK, sockVars, resetVars, reqVars
<1>7. runs' # <<>> /\ runs # <<>>
  BY <1>2
<1>8. Base'
  <2>1. curlReady # 0 => calls'[curlReady].by = "ensure" /\ calls'[curlReady].status # "failed"
    BY <1>0, <1>1, <1>3 DEF Base
  <2> QED BY <1>0, <1>4, <1>6, <1>7, <2>1 DEF Base, sockVars, resetVars, reqVars
<1>9. Sure'
  <2>1. OnlyResets' => OnlyResets
    BY <1>3, <1>4 DEF OnlyResets
  <2>2. ASSUME OneRun PROVE OneRun' /\ client'["libcurl"] = i
    <3>1. i = initPromise["libcurl"] /\ client["libcurl"] = 0 /\ runs[i].engine = "libcurl"
          /\ runs[i].gen = wispGeneration
      BY <1>4, <2>2 DEF OneRun, Pending
    <3>2. client'["libcurl"] = i
      BY <1>1, <1>4, <3>1 DEF Engines
    <3>3. ASSUME NEW k \in 1..Len(runs) PROVE ~Pending(k)'
      <4>1. CASE k = i
        BY <1>2, <4>1 DEF Pending
      <4>2. CASE k # i
        BY <1>2, <2>2, <3>1, <4>2 DEF OneRun, Pending
      <4> QED BY <4>1, <4>2
    <3>4. ASSUME NEW k \in 1..Len(runs)
          PROVE  runs'[k].engine = "libcurl" /\ runs'[k].status # "connecting"
      <4>1. CASE k = i
        BY <1>2, <3>1, <4>1
      <4>2. CASE k # i
        BY <1>2, <2>2, <3>3, <4>2 DEF OneRun, Pending
      <4> QED BY <4>1, <4>2
    <3> QED BY <1>2, <1>4, <2>2, <3>1, <3>2, <3>3, <3>4 DEF OneRun
  <2>3. ASSUME Vouched, client'["libcurl"] = i PROVE Vouched'
    BY <1>4, <2>3 DEF Vouched, resetVars, reqVars
  <2> QED BY <1>0, <2>1, <2>2, <2>3 DEF Sure
<1> QED BY <1>8, <1>9 DEF IInv

LEMMA RunFailsKeeps == ASSUME IInv, NEW i \in 1..Len(runs), RunFails(i) PROVE IInv'
<1>0. TypeOK /\ Base /\ Sure
  BY DEF IInv, Base
<1>1. /\ Len(calls) \in Nat /\ client \in [Engines -> 0..Len(runs)] /\ curlReady \in 0..Len(calls)
      /\ on \in [Reqs -> 0..Len(calls)] /\ Len(runs) \in Nat
      /\ initPromise \in [Engines -> 0..Len(runs)] /\ reconnectTimer \in BOOLEAN
  BY <1>0 DEF TypeOK
<1>2. /\ runs' \in Seq(RunRecords) /\ Len(runs') = Len(runs)
      /\ runs'[i].status = "failed" /\ runs'[i].gen = runs[i].gen
      /\ runs'[i].engine = runs[i].engine
      /\ \A k \in 1..Len(runs) : k # i => runs'[k] = runs[k]
  BY <1>0, RunSettled DEF RunFails
<1>3. /\ calls' \in Seq(CallRecords(Len(runs))) /\ Len(calls') = Len(calls)
      /\ \A k \in 1..Len(calls) :
           /\ calls'[k].by = calls[k].by
           /\ calls'[k].status = IF k \in Awaiting(i) THEN "failed" ELSE calls[k].status
  BY <1>0, Settled DEF RunFails
<1>4. /\ Pending(i)
      /\ initPromise' \in [Engines -> 0..Len(runs)]
      /\ curlReady' = IF \E c \in Awaiting(i) : calls[c].by = "ensure" THEN 0 ELSE curlReady
      /\ reconnectTimer' \in BOOLEAN
      /\ UNCHANGED <<engine, endpoint, wispGeneration, client, lastCfg,
                     sock, liveWisp, resetVars, reqVars, switches>>
  <2>1. initPromise' \in [Engines -> 0..Len(runs)]
    BY <1>1 DEF RunFails
  <2> QED BY <1>1, <2>1 DEF RunFails
<1>5. /\ calls' \in Seq([run : 0..Len(runs'), by : {"ensure", "timer"},
                         status : {"pending", "ok", "failed"}])
      /\ runs' \in Seq([engine : Engines, cfg : Endpoints, gen : Nat,
                        status : {"loading", "connecting", "ok", "failed"}])
      /\ initPromise' \in [Engines -> 0..Len(runs')]
      /\ curlReady' \in 0..Len(calls')
      /\ state' \in {"idle", "connecting", "connected", "dead"}
  <2>1. state' \in {"idle", "connecting", "connected", "dead"}
    BY <1>0 DEF TypeOK, RunFails
  <2>2. curlReady' \in 0..Len(calls')
    BY <1>1, <1>3, <1>4
  <2> QED BY <1>1, <1>2, <1>3, <1>4, <2>1, <2>2 DEF CallRecords, RunRecords
<1>6. TypeOK'
  BY <1>0, <1>2, <1>3, <1>4, <1>5 DEF TypeOK, resetVars, reqVars
<1>7. runs' # <<>> /\ runs # <<>>
  BY <1>1, <1>2
<1>8. curlReady' # 0 => /\ curlReady' = curlReady /\ curlReady \notin Awaiting(i)
                        /\ curlReady \in 1..Len(calls)
  BY <1>0, <1>1, <1>4 DEF Base
<1>9. Base'
  <2>1. curlReady' # 0 => calls'[curlReady'].by = "ensure" /\ calls'[curlReady'].status # "failed"
    BY <1>0, <1>3, <1>8 DEF Base
  <2> QED BY <1>0, <1>4, <1>6, <1>7, <2>1 DEF Base, resetVars, reqVars
<1>10. Sure'
  <2>1. OnlyResets' => OnlyResets
    BY <1>3, <1>4 DEF OnlyResets
  <2>2. ASSUME OneRun PROVE OneRun'
    <3>1. i = initPromise["libcurl"] /\ client["libcurl"] = 0
      BY <1>4, <2>2 DEF OneRun
    <3>2. ASSUME NEW k \in 1..Len(runs) PROVE ~Pending(k)'
      <4>1. CASE k = i
        BY <1>2, <4>1 DEF Pending
      <4>2. CASE k # i
        BY <1>2, <2>2, <3>1, <4>2 DEF OneRun, Pending
      <4> QED BY <4>1, <4>2
    <3>3. ASSUME NEW k \in 1..Len(runs)
          PROVE  runs'[k].engine = "libcurl" /\ runs'[k].status # "connecting"
      <4>1. CASE k = i
        BY <1>2, <2>2, <4>1 DEF OneRun
      <4>2. CASE k # i
        BY <1>2, <2>2, <3>2, <4>2 DEF OneRun, Pending
      <4> QED BY <4>1, <4>2
    <3> QED BY <1>2, <1>4, <2>2, <3>1, <3>2, <3>3 DEF OneRun
  <2>3. ASSUME Vouched PROVE Vouched'
    <3>1. curlReady' # 0 /\ calls'[curlReady'].status = "ok" => client["libcurl"] # 0
      BY <1>3, <1>8, <2>3 DEF Vouched
    <3>2. \A r \in Reqs : pc[r] = "ensuring" /\ calls'[on[r]].status = "ok" => client["libcurl"] # 0
      <4> TAKE r \in Reqs
      <4> SUFFICES ASSUME pc[r] = "ensuring", calls'[on[r]].status = "ok" PROVE client["libcurl"] # 0
        OBVIOUS
      <4>1. on[r] \in 1..Len(calls)
        BY <1>0, <1>1 DEF Base
      <4>2. calls[on[r]].status = "ok"
        BY <1>3, <4>1
      <4> QED BY <2>3, <4>2 DEF Vouched
    <3> QED BY <1>4, <2>3, <3>1, <3>2 DEF Vouched, resetVars, reqVars
  <2> QED BY <1>0, <2>1, <2>2, <2>3 DEF Sure
<1> QED BY <1>9, <1>10 DEF IInv

LEMMA SetPrimaryWispKeeps == ASSUME IInv, SetPrimaryWisp PROVE IInv'
<1>0. TypeOK /\ Base
  BY DEF IInv, Base
<1>1. TypeOK'
  BY <1>0, Lengths, Assumed DEF TypeOK, SetPrimaryWisp, Dropped, AfterReset, resetVars, reqVars
<1>2. Base'
  BY <1>0, <1>1 DEF Base, SetPrimaryWisp, resetVars, reqVars
<1>3. ~OnlyResets'
  BY <1>0, Assumed DEF TypeOK, OnlyResets, SetPrimaryWisp
<1> QED BY <1>2, <1>3 DEF IInv, Sure

LEMMA SwitchEngineKeeps == ASSUME IInv, SwitchEngine PROVE IInv'
<1>0. TypeOK /\ Base
  BY DEF IInv, Base
<1>1. TypeOK'
  BY SMTT(30), <1>0, Lengths, Assumed DEF TypeOK, SwitchEngine, sockVars, resetVars, reqVars
<1>2. Base'
  BY <1>0, <1>1 DEF Base, SwitchEngine, sockVars, resetVars, reqVars
<1>3. ~OnlyResets'
  BY <1>0, Assumed DEF TypeOK, OnlyResets, SwitchEngine
<1> QED BY <1>2, <1>3 DEF IInv, Sure

\* the types of what init() and ensureCurl() write
Written ==
  /\ lastCfg' \in Endpoints
  /\ runs' \in Seq(RunRecords) /\ runs' # <<>> /\ Len(runs') >= Len(runs) /\ Len(runs') \in Nat
  /\ calls' \in Seq(CallRecords(Len(runs'))) /\ Len(calls') >= Len(calls) /\ Len(calls') \in Nat
  /\ client' \in [Engines -> 0..Len(runs')] /\ initPromise' \in [Engines -> 0..Len(runs')]
  /\ state' \in {"idle", "connecting", "connected", "dead"}
  /\ curlReady' \in 0..Len(calls') /\ resetCall' \in 0..Len(calls')
  /\ on' \in [Reqs -> 0..Len(calls')]

LEMMA WrittenTypes ==
  ASSUME TypeOK, Written, wispGeneration' \in Nat, curlGeneration' \in Nat,
         reconnectTimer' \in BOOLEAN, liveWisp' \subseteq liveWisp, retried' \in [Reqs -> BOOLEAN],
         pc' \in [Reqs -> {"idle", "waiting", "ready", "ensuring", "joining", "riding",
                           "done", "failed", "refused"}],
         UNCHANGED <<engine, endpoint, sock, gen, switches>>
  PROVE  TypeOK'
<1>1. /\ runs' \in Seq([engine : Engines, cfg : Endpoints, gen : Nat,
                        status : {"loading", "connecting", "ok", "failed"}])
      /\ calls' \in Seq([run : 0..Len(runs'), by : {"ensure", "timer"},
                        status : {"pending", "ok", "failed"}])
  BY DEF Written, RunRecords, CallRecords
<1>2. /\ lastCfg' \in Endpoints \cup {NoCfg}
      /\ client' \in [Engines -> 0..Len(runs')] /\ initPromise' \in [Engines -> 0..Len(runs')]
      /\ state' \in {"idle", "connecting", "connected", "dead"}
      /\ curlReady' \in 0..Len(calls') /\ resetCall' \in 0..Len(calls')
      /\ on' \in [Reqs -> 0..Len(calls')]
  BY DEF Written
<1> QED BY <1>1, <1>2 DEF TypeOK

LEMMA TimerFiresKeeps == ASSUME IInv, TimerFires PROVE IInv'
<1>0. TypeOK /\ Base /\ Len(runs) \in Nat /\ Len(calls) \in Nat
  BY Lengths DEF IInv, Base
<1>1. CASE liveWisp # {}
  <2>1. runs # <<>> /\ TypeOK'
    BY <1>0, <1>1 DEF Base, TypeOK, TimerFires, singletons, resetVars, reqVars
  <2> QED BY <1>1, <2>1, SocketKeeps DEF TimerFires, singletons
<1>2. CASE liveWisp = {}
  <2>1. /\ lastCfg \in Endpoints /\ Dropped \in [Engines -> 0..Len(runs)]
        /\ InitCall(Dropped, Dropped, lastCfg, "timer")
        /\ wispGeneration' = wispGeneration + 1 /\ reconnectTimer' = FALSE
        /\ UNCHANGED <<curlReady, liveWisp, engine, endpoint, sock, resetVars, reqVars, switches>>
    BY <1>0, <1>2 DEF Base, TimerFires, Dropped
  <2>2. /\ runs' \in Seq(RunRecords) /\ runs' # <<>> /\ Len(runs') \in Nat /\ Len(runs') >= Len(runs)
        /\ initPromise' \in [Engines -> 0..Len(runs')]
        /\ Len(calls') = Len(calls) + 1
        /\ calls' \in Seq(CallRecords(Len(runs')))
        /\ \A k \in 1..Len(calls) : calls'[k] = calls[k]
        /\ calls'[Len(calls) + 1].by = "timer"
        /\ client' = Dropped /\ lastCfg' = lastCfg
        /\ state' \in {"connecting", "connected", "dead"}
    BY <1>0, <2>1, InitCalled
  <2>3. client' \in [Engines -> 0..Len(runs')]
    BY <2>2 DEF Dropped
  <2>4. curlReady \in 0..Len(calls) /\ resetCall \in 0..Len(calls) /\ on \in [Reqs -> 0..Len(calls)]
    BY <1>0 DEF TypeOK
  <2>5. curlReady \in 0..Len(calls') /\ resetCall \in 0..Len(calls') /\ on \in [Reqs -> 0..Len(calls')]
    BY <1>0, <2>2, <2>4
  <2>6. TypeOK'
    <3>1. Written
      BY <1>0, <2>1, <2>2, <2>3, <2>5 DEF Written, resetVars, reqVars
    <3>2. /\ wispGeneration' \in Nat /\ curlGeneration' \in Nat /\ reconnectTimer' \in BOOLEAN
          /\ liveWisp' \subseteq liveWisp /\ retried' \in [Reqs -> BOOLEAN]
          /\ pc' \in [Reqs -> {"idle", "waiting", "ready", "ensuring", "joining", "riding",
                               "done", "failed", "refused"}]
          /\ UNCHANGED <<engine, endpoint, sock, gen, switches>>
      <4>1. /\ wispGeneration \in Nat /\ curlGeneration \in Nat /\ retried \in [Reqs -> BOOLEAN]
            /\ pc \in [Reqs -> {"idle", "waiting", "ready", "ensuring", "joining", "riding",
                               "done", "failed", "refused"}]
        BY <1>0 DEF TypeOK
      <4>2. wispGeneration' \in Nat /\ curlGeneration' \in Nat
        BY <2>1, <4>1 DEF resetVars
      <4>3. reconnectTimer' \in BOOLEAN /\ liveWisp' \subseteq liveWisp
        BY <2>1
      <4>4. retried' = retried /\ pc' = pc /\ UNCHANGED <<engine, endpoint, sock, gen, switches>>
        BY <2>1 DEF reqVars
      <4> QED BY <4>1, <4>2, <4>3, <4>4
    <3> QED BY <1>0, <3>1, <3>2, WrittenTypes
  <2>7. curlReady # 0 => calls'[curlReady].by = "ensure" /\ calls'[curlReady].status # "failed"
    BY <1>0, <2>2, <2>4 DEF Base
  <2>8. Base'
    BY <1>0, <2>1, <2>2, <2>6, <2>7 DEF Base, resetVars, reqVars
  <2>9. ~OnlyResets'
    BY <1>0, <2>2 DEF OnlyResets
  <2> QED BY <2>8, <2>9 DEF IInv, Sure
<1> QED BY <1>1, <1>2

\* ensureCurl() with a new call: what is true of the call it leaves as the memo
LEMMA Ensured ==
  ASSUME TypeOK, NEW c \in [Engines -> 0..Len(runs)], NEW p \in [Engines -> 0..Len(runs)],
         EnsureCurl(c, p, 0)
  PROVE  /\ runs' \in Seq(RunRecords) /\ runs' # <<>>
         /\ Len(runs) \in Nat /\ Len(runs') \in Nat /\ Len(runs') >= Len(runs)
         /\ \A i \in 1..Len(runs) : runs'[i] = runs[i]
         /\ \/ /\ Len(runs') = Len(runs) /\ initPromise' = p
               /\ c[engine] = 0 => p[engine] # 0
            \/ /\ Len(runs') = Len(runs) + 1 /\ c[engine] = 0 /\ p[engine] = 0
               /\ initPromise' = [p EXCEPT ![engine] = Len(runs) + 1]
               /\ runs'[Len(runs) + 1] = [engine |-> engine, cfg |-> endpoint, gen |-> 0, status |-> "loading"]
         /\ initPromise' \in [Engines -> 0..Len(runs')]
         /\ Len(calls) \in Nat /\ Len(calls') = Len(calls) + 1
         /\ calls' \in Seq(CallRecords(Len(runs')))
         /\ \A k \in 1..Len(calls) : calls'[k] = calls[k]
         /\ calls'[Len(calls) + 1].by = "ensure"
         /\ calls'[Len(calls) + 1].status = "ok" <=> c[engine] # 0
         /\ client' = c /\ lastCfg' \in Endpoints
         /\ state' \in {"connecting", "connected", "dead"}
         /\ curlReady' \in {0, Len(calls) + 1}
         /\ curlReady' # 0 => calls'[Len(calls) + 1].status # "failed"
<1>1. endpoint \in Endpoints
  BY DEF TypeOK
<1>2. InitCall(c, p, endpoint, "ensure")
  BY DEF EnsureCurl
<1>3. curlReady' = IF calls'[Len(calls')].status = "failed" THEN 0 ELSE Len(calls')
  BY DEF EnsureCurl
<1>4. Len(calls) \in Nat /\ Len(calls') = Len(calls) + 1
  BY <1>1, <1>2, InitCalled
<1>5. /\ curlReady' \in {0, Len(calls) + 1}
      /\ curlReady' # 0 => calls'[Len(calls) + 1].status # "failed"
  BY <1>3, <1>4
<1> QED BY <1>1, <1>2, <1>5, InitCalled

\* the shared reset and a new call leave one run at most, and it is the promise
LEMMA OneRunStarts ==
  ASSUME TypeOK, OneRun, NEW c \in [Engines -> 0..Len(runs)], NEW p \in [Engines -> 0..Len(runs)],
         EnsureCurl(c, p, 0), wispGeneration' \in Nat,
         engine' = engine,
         \/ c = client /\ p = initPromise /\ wispGeneration' = wispGeneration
         \/ c["libcurl"] = 0 /\ p["libcurl"] = 0 /\ \A i \in 1..Len(runs) : ~Pending(i)
  PROVE  OneRun'
<1>1. engine = "libcurl" /\ "libcurl" \in Engines
  BY DEF OneRun, Engines
<1>2. /\ Len(runs) \in Nat /\ client' = c
      /\ \A i \in 1..Len(runs) : runs'[i] = runs[i]
      /\ \/ Len(runs') = Len(runs) /\ initPromise' = p
         \/ /\ Len(runs') = Len(runs) + 1 /\ c["libcurl"] = 0 /\ p["libcurl"] = 0
            /\ initPromise' = [p EXCEPT !["libcurl"] = Len(runs) + 1]
            /\ runs'[Len(runs) + 1] = [engine |-> "libcurl", cfg |-> endpoint, gen |-> 0, status |-> "loading"]
  BY <1>1, Ensured
<1>3. ASSUME NEW i \in 1..Len(runs)
      PROVE  /\ runs'[i].engine = "libcurl"
             /\ Pending(i)' => i = p["libcurl"] /\ c["libcurl"] = 0
             /\ runs'[i].status = "connecting" => runs'[i].gen = wispGeneration'
  <2>1. Pending(i)' <=> Pending(i)
    BY <1>2 DEF Pending
  <2> QED BY <1>2, <2>1 DEF OneRun, Pending
<1>4. CASE Len(runs') = Len(runs) /\ initPromise' = p
  BY <1>1, <1>2, <1>3, <1>4 DEF OneRun
<1>5. CASE /\ Len(runs') = Len(runs) + 1 /\ c["libcurl"] = 0 /\ p["libcurl"] = 0
           /\ initPromise' = [p EXCEPT !["libcurl"] = Len(runs) + 1]
           /\ runs'[Len(runs) + 1] = [engine |-> "libcurl", cfg |-> endpoint, gen |-> 0, status |-> "loading"]
  <2>1. initPromise'["libcurl"] = Len(runs) + 1 /\ client'["libcurl"] = 0
    BY <1>1, <1>2, <1>5
  <2>2. ASSUME NEW i \in 1..Len(runs) PROVE ~Pending(i)'
    BY <1>2, <1>3, <1>5
  <2>3. ASSUME NEW i \in 1..Len(runs')
        PROVE  /\ runs'[i].engine = "libcurl"
               /\ Pending(i)' => i = initPromise'["libcurl"] /\ client'["libcurl"] = 0
               /\ runs'[i].status = "connecting" => runs'[i].gen = wispGeneration'
    <3>1. CASE i = Len(runs) + 1
      BY <1>5, <2>1, <3>1
    <3>2. CASE i # Len(runs) + 1
      <4>1. i \in 1..Len(runs)
        BY <1>2, <1>5, <3>2
      <4> QED BY <1>3, <2>2, <4>1
    <3> QED BY <3>1, <3>2
  <2> QED BY <1>1, <2>1, <2>3 DEF OneRun
<1> QED BY <1>2, <1>4, <1>5

LEMMA ReadyKeeps == ASSUME IInv, NEW r \in Reqs, Ready(r) PROVE IInv'
<1>0. TypeOK /\ Base /\ Sure /\ Len(runs) \in Nat /\ Len(calls) \in Nat
  BY Lengths DEF IInv, Base
<1>1. /\ client \in [Engines -> 0..Len(runs)] /\ initPromise \in [Engines -> 0..Len(runs)]
      /\ curlReady \in 0..Len(calls) /\ resetCall \in 0..Len(calls)
      /\ on \in [Reqs -> 0..Len(calls)] /\ wispGeneration \in Nat
      /\ pc \in [Reqs -> {"idle", "waiting", "ready", "ensuring", "joining", "riding",
                          "done", "failed", "refused"}]
  BY <1>0 DEF TypeOK
<1>2. /\ pc' = [pc EXCEPT ![r] = "ensuring"]
      /\ on' = [on EXCEPT ![r] = IF curlReady # 0 THEN curlReady ELSE Len(calls')]
      /\ EnsureCurl(client, initPromise, curlReady)
      /\ UNCHANGED <<engine, endpoint, wispGeneration, sockVars, resetVars, gen, retried, switches>>
  BY DEF Ready
<1>3. /\ \A q \in Reqs : q # r => pc'[q] = pc[q] /\ on'[q] = on[q]
      /\ pc'[r] = "ensuring"
      /\ on'[r] = IF curlReady # 0 THEN curlReady ELSE Len(calls')
      /\ pc' \in [Reqs -> {"idle", "waiting", "ready", "ensuring", "joining", "riding",
                           "done", "failed", "refused"}]
  BY <1>1, <1>2
<1>4. CASE curlReady # 0
  <2>1. /\ curlReady' = curlReady /\ client' = client /\ initPromise' = initPromise
        /\ UNCHANGED <<runs, calls, lastCfg, state>>
        /\ on'[r] = curlReady /\ on' = [on EXCEPT ![r] = curlReady]
    BY <1>2, <1>3, <1>4 DEF EnsureCurl
  <2>2. TypeOK'
    BY <1>0, <1>1, <1>2, <1>3, <2>1 DEF TypeOK, sockVars, resetVars
  <2>3. Base'
    BY <1>0, <1>2, <1>3, <1>4, <2>1, <2>2 DEF Base, sockVars, resetVars
  <2>4. OnlyResets' => OnlyResets
    BY <1>2, <2>1 DEF OnlyResets
  <2>5. OneRun => OneRun'
    BY <1>2, <2>1 DEF OneRun, Pending
  <2>6. Vouched => Vouched'
    BY <1>2, <1>3, <1>4, <2>1 DEF Vouched, resetVars
  <2> QED BY <1>0, <2>3, <2>4, <2>5, <2>6 DEF IInv, Sure
<1>5. CASE curlReady = 0
  <2>1. EnsureCurl(client, initPromise, 0)
    BY <1>2, <1>5
  <2>2. /\ runs' \in Seq(RunRecords) /\ runs' # <<>> /\ Len(runs') \in Nat /\ Len(runs') >= Len(runs)
        /\ initPromise' \in [Engines -> 0..Len(runs')]
        /\ Len(calls') = Len(calls) + 1
        /\ calls' \in Seq(CallRecords(Len(runs')))
        /\ \A k \in 1..Len(calls) : calls'[k] = calls[k]
        /\ calls'[Len(calls) + 1].by = "ensure"
        /\ calls'[Len(calls) + 1].status = "ok" <=> client[engine] # 0
        /\ client' = client /\ lastCfg' \in Endpoints
        /\ state' \in {"connecting", "connected", "dead"}
        /\ curlReady' \in {0, Len(calls) + 1}
        /\ curlReady' # 0 => calls'[Len(calls) + 1].status # "failed"
    BY <1>0, <1>1, <2>1, Ensured
  <2>3. on'[r] = Len(calls) + 1 /\ on' = [on EXCEPT ![r] = Len(calls) + 1]
    BY <1>2, <1>3, <1>5, <2>2
  <2>4. Written
    <3>1. client' \in [Engines -> 0..Len(runs')] /\ on' \in [Reqs -> 0..Len(calls')]
      BY <1>0, <1>1, <2>2, <2>3
    <3>2. curlReady' \in 0..Len(calls') /\ resetCall' \in 0..Len(calls')
      BY <1>0, <1>1, <1>2, <2>2 DEF resetVars
    <3> QED BY <1>0, <2>2, <3>1, <3>2 DEF Written
  <2>5. TypeOK'
    BY <1>0, <1>2, <1>3, <2>4, WrittenTypes DEF TypeOK, sockVars, resetVars
  <2>6. Base'
    BY <1>0, <1>2, <1>3, <2>2, <2>3, <2>5 DEF Base, sockVars, resetVars
  <2>7. OnlyResets' => OnlyResets
    <3>1. /\ Len(calls') = Len(calls) + 1 /\ switches' = switches
          /\ \A k \in 1..Len(calls) : k \in 1..Len(calls') /\ calls'[k] = calls[k]
      BY <1>0, <1>2, <2>2
    <3> QED BY <3>1 DEF OnlyResets
  <2>8. OneRun => OneRun'
    BY <1>0, <1>1, <1>2, <2>1, OneRunStarts
  <2>9. ASSUME OneRun, Vouched PROVE Vouched'
    <3>1. engine = "libcurl"
      BY <2>9 DEF OneRun
    <3>2. \A q \in Reqs : q # r => calls'[on[q]] = calls[on[q]] \/ on[q] = 0
      BY <1>0, <1>1, <2>2
    <3>3. \A q \in Reqs : pc'[q] = "ensuring" /\ calls'[on'[q]].status = "ok" => client["libcurl"] # 0
      <4> TAKE q \in Reqs
      <4>1. CASE q = r
        BY <2>2, <2>3, <3>1, <4>1
      <4>2. CASE q # r
        BY <1>0, <1>3, <2>9, <3>2, <4>2 DEF Base, Vouched
      <4> QED BY <4>1, <4>2
    <3>4. \A q \in Reqs : /\ pc'[q] = "riding" => pc[q] = "riding"
                          /\ pc'[q] = "refused" => pc[q] = "refused"
      BY <1>3
    <3>5. curlReady' # 0 /\ calls'[curlReady'].status = "ok" => client["libcurl"] # 0
      BY <2>2, <3>1
    <3> QED BY <1>2, <2>2, <2>9, <3>3, <3>4, <3>5 DEF Vouched, resetVars
  <2> QED BY <1>0, <2>6, <2>7, <2>8, <2>9 DEF IInv, Sure
<1> QED BY <1>4, <1>5

LEMMA ConnectFailsKeeps == ASSUME IInv, ~Microtasks, NEW r \in Reqs, ConnectFails(r) PROVE IInv'
<1>0. TypeOK /\ Base /\ Sure /\ Len(runs) \in Nat /\ Len(calls) \in Nat
  BY Lengths DEF IInv, Base
<1>1. /\ curlReady \in 0..Len(calls) /\ resetCall \in 0..Len(calls)
      /\ on \in [Reqs -> 0..Len(calls)] /\ wispGeneration \in Nat /\ curlGeneration \in Nat
      /\ pc \in [Reqs -> {"idle", "waiting", "ready", "ensuring", "joining", "riding",
                          "done", "failed", "refused"}]
      /\ gen \in [Reqs -> Nat] /\ retried \in [Reqs -> BOOLEAN] /\ liveWisp \subseteq Sockets
      /\ retried' \in [Reqs -> BOOLEAN]
  BY <1>0 DEF TypeOK, ConnectFails
<1>2. /\ pc[r] = "riding" /\ UNCHANGED <<engine, endpoint, sock, reconnectTimer, gen, switches>>
  BY DEF ConnectFails
<1>3. CASE gen[r] = curlGeneration /\ ~ResetInflight
  <2>1. /\ wispGeneration' = wispGeneration + 1 /\ curlGeneration' = curlGeneration + 1
        /\ liveWisp' = {} /\ EnsureCurl(Dropped, Dropped, 0) /\ resetCall' = Len(calls')
        /\ on' = [on EXCEPT ![r] = resetCall'] /\ pc' = [pc EXCEPT ![r] = "ensuring"]
    BY <1>3 DEF ConnectFails
  <2>2. Dropped \in [Engines -> 0..Len(runs)] /\ Dropped["libcurl"] = 0
    BY <1>0 DEF Dropped, Engines
  <2>3. /\ runs' \in Seq(RunRecords) /\ runs' # <<>> /\ Len(runs') \in Nat /\ Len(runs') >= Len(runs)
        /\ initPromise' \in [Engines -> 0..Len(runs')]
        /\ Len(calls') = Len(calls) + 1
        /\ calls' \in Seq(CallRecords(Len(runs')))
        /\ \A k \in 1..Len(calls) : calls'[k] = calls[k]
        /\ calls'[Len(calls) + 1].by = "ensure"
        /\ calls'[Len(calls) + 1].status = "ok" <=> Dropped[engine] # 0
        /\ client' = Dropped /\ lastCfg' \in Endpoints
        /\ state' \in {"connecting", "connected", "dead"}
        /\ curlReady' \in {0, Len(calls) + 1}
        /\ curlReady' # 0 => calls'[Len(calls) + 1].status # "failed"
    BY <1>0, <2>1, <2>2, Ensured
  <2>4. /\ on'[r] = Len(calls) + 1 /\ pc'[r] = "ensuring"
        /\ \A q \in Reqs : q # r => pc'[q] = pc[q] /\ on'[q] = on[q]
        /\ pc' \in [Reqs -> {"idle", "waiting", "ready", "ensuring", "joining", "riding",
                             "done", "failed", "refused"}]
    BY <1>1, <2>1, <2>3
  <2>5. Written
    <3>1. client' \in [Engines -> 0..Len(runs')]
      BY <2>3 DEF Dropped
    <3>2. on' \in [Reqs -> 0..Len(calls')]
      BY <1>0, <1>1, <2>1, <2>3
    <3>3. curlReady' \in 0..Len(calls') /\ resetCall' \in 0..Len(calls')
      BY <1>0, <2>1, <2>3
    <3> QED BY <1>0, <2>3, <3>1, <3>2, <3>3 DEF Written
  <2>6. TypeOK'
    <3>1. wispGeneration' \in Nat /\ curlGeneration' \in Nat /\ liveWisp' \subseteq liveWisp
      BY <1>1, <2>1
    <3>2. reconnectTimer' \in BOOLEAN
      BY <1>0, <1>2 DEF TypeOK
    <3> QED BY <1>0, <1>1, <1>2, <2>4, <2>5, <3>1, <3>2, WrittenTypes
  <2>7. Base'
    <3>1. \A q \in Reqs : gen[q] <= curlGeneration'
      BY <1>0, <1>1, <2>1 DEF Base
    <3> QED BY <1>0, <1>2, <2>3, <2>4, <2>6, <3>1 DEF Base
  <2>8. OnlyResets' => OnlyResets
    BY <1>0, <1>2, <2>3 DEF OnlyResets
  <2>9. ASSUME OneRun, Vouched PROVE OneRun'
    <3>1. client["libcurl"] # 0
      BY <1>2, <1>3, <2>9 DEF Vouched
    <3>2. \A i \in 1..Len(runs) : ~Pending(i)
      BY <2>9, <3>1 DEF OneRun
    <3>3. wispGeneration' \in Nat /\ engine' = engine /\ EnsureCurl(Dropped, Dropped, 0)
      BY <1>1, <1>2, <2>1
    <3> HIDE DEF Dropped
    <3> QED BY <1>0, <2>2, <2>9, <3>2, <3>3, OneRunStarts
  <2>10. ASSUME OneRun, Vouched PROVE Vouched'
    <3>1. engine = "libcurl" /\ Dropped[engine] = 0
      BY <2>2, <2>10 DEF OneRun
    <3>2. calls'[Len(calls) + 1].status # "ok"
      BY <2>3, <3>1
    <3>3. \A q \in Reqs : ~(pc'[q] = "ensuring" /\ calls'[on'[q]].status = "ok")
      <4> SUFFICES ASSUME NEW q \in Reqs, pc'[q] = "ensuring", calls'[on'[q]].status = "ok" PROVE FALSE
        OBVIOUS
      <4>1. q # r
        BY <2>4, <3>2
      <4>2. pc[q] = "ensuring" /\ on'[q] = on[q] /\ on[q] \in 1..Len(calls)
        BY <1>0, <1>1, <2>4, <4>1 DEF Base
      <4>3. calls[on[q]].status = "ok"
        BY <2>3, <4>2
      <4> QED BY <4>2, <4>3 DEF Microtasks, Resumable, Dispatchable, Awaited
    <3>4. \A q \in Reqs : gen[q] # curlGeneration'
      BY <1>0, <1>1, <2>1 DEF Base
    <3>5. \A q \in Reqs : pc'[q] # "refused"
      BY <2>4, <2>10 DEF Vouched
    <3> QED BY <1>2, <2>3, <3>2, <3>3, <3>4, <3>5 DEF Vouched
  <2> QED BY <1>0, <2>7, <2>8, <2>9, <2>10 DEF IInv, Sure
<1>4. CASE ~(gen[r] = curlGeneration /\ ~ResetInflight)
  <2>1. /\ on' = [on EXCEPT ![r] = IF ResetInflight THEN resetCall ELSE 0]
        /\ pc' = [pc EXCEPT ![r] = IF gen[r] = curlGeneration THEN "ensuring" ELSE "joining"]
        /\ UNCHANGED <<singletons, liveWisp, resetVars>>
    BY <1>4 DEF ConnectFails
  <2>2. /\ \A q \in Reqs : q # r => pc'[q] = pc[q] /\ on'[q] = on[q]
        /\ pc'[r] = (IF gen[r] = curlGeneration THEN "ensuring" ELSE "joining")
        /\ on'[r] = (IF ResetInflight THEN resetCall ELSE 0)
        /\ pc' \in [Reqs -> {"idle", "waiting", "ready", "ensuring", "joining", "riding",
                             "done", "failed", "refused"}]
        /\ on' \in [Reqs -> 0..Len(calls)]
    BY <1>0, <1>1, <2>1
  <2>3. pc'[r] = "ensuring" => on'[r] # 0 /\ calls[on'[r]].status = "pending"
    BY <1>4, <2>2 DEF ResetInflight
  <2>4. TypeOK'
    BY <1>0, <1>1, <1>2, <2>1, <2>2 DEF TypeOK, singletons, resetVars
  <2>5. Base'
    BY <1>0, <1>2, <2>1, <2>2, <2>3, <2>4 DEF Base, singletons, resetVars
  <2>6. OnlyResets' => OnlyResets
    BY <1>2, <2>1 DEF OnlyResets, singletons
  <2>7. OneRun => OneRun'
    BY <1>2, <2>1 DEF OneRun, Pending, singletons
  <2>8. Vouched => Vouched'
    BY <1>2, <2>1, <2>2, <2>3 DEF Vouched, singletons, resetVars
  <2> QED BY <1>0, <2>5, <2>6, <2>7, <2>8 DEF IInv, Sure
<1> QED BY <1>3, <1>4

--------------------------------------------------------------------------------
LEMMA InitHolds == Init => IInv
<1> SUFFICES ASSUME Init PROVE IInv
  OBVIOUS
<1>1. TypeOK
  <2>1. Len(runs) = 0 /\ Len(calls) = 0 /\ 0 \in 0..MaxSwitches
    BY Assumed DEF Init
  <2>2. runs \in Seq([engine : Engines, cfg : Endpoints, gen : Nat,
                     status : {"loading", "connecting", "ok", "failed"}])
    BY DEF Init
  <2>3. calls \in Seq([run : 0..Len(runs), by : {"ensure", "timer"},
                      status : {"pending", "ok", "failed"}])
    BY DEF Init
  <2>4. /\ client \in [Engines -> 0..Len(runs)] /\ initPromise \in [Engines -> 0..Len(runs)]
        /\ curlReady \in 0..Len(calls) /\ resetCall \in 0..Len(calls) /\ on \in [Reqs -> 0..Len(calls)]
    BY <2>1 DEF Init
  <2> QED BY <2>1, <2>2, <2>3, <2>4, Assumed DEF Init, TypeOK, Engines
<1>2. Base
  BY <1>1 DEF Init, Base
<1>3. Sure
  BY DEF Init, Sure, OneRun, Vouched, Engines
<1> QED BY <1>2, <1>3 DEF IInv

LEMMA NextKeeps == IInv /\ [Next]_vars => IInv'
<1> SUFFICES ASSUME IInv, [Next]_vars PROVE IInv'
  OBVIOUS
<1>1. ASSUME NEW r \in Reqs, Begin(r) \/ WaitOver(r) \/ Settles(r) \/ NotReady(r) PROVE IInv'
  <2>1. \E st \in {"waiting", "ready", "done", "failed"} : pc' = [pc EXCEPT ![r] = st]
    BY <1>1 DEF Begin, WaitOver, Settles, NotReady
  <2>2. UNCHANGED <<engine, endpoint, singletons, sockVars, resetVars, gen, on, retried, switches>>
    BY <1>1 DEF Begin, WaitOver, Settles, NotReady
  <2> QED BY <2>1, <2>2, QuietKeeps
<1>2. ASSUME NEW r \in Reqs, Fetch(r) \/ Ready(r) PROVE IInv'
  BY <1>2, FetchKeeps, ReadyKeeps
<1>3. ASSUME ~Microtasks, NEW r \in Reqs, ConnectFails(r) PROVE IInv'
  BY <1>3, ConnectFailsKeeps
<1>4. ASSUME NEW i \in 1..Len(runs), Construct(i) \/ RunSucceeds(i) \/ RunFails(i) PROVE IInv'
  BY <1>4, ConstructKeeps, RunSucceedsKeeps, RunFailsKeeps
<1>5. ASSUME NEW s \in Sockets,
             SocketOpens(s) \/ SocketCloses(s) \/ \E i \in 1..Len(runs) : SocketConstructed(s, i)
      PROVE  IInv'
  BY <1>5, SocketOpensKeeps, SocketClosesKeeps, SocketConstructedKeeps
<1>6. CASE TimerFires \/ SetPrimaryWisp \/ SwitchEngine
  BY <1>6, TimerFiresKeeps, SetPrimaryWispKeeps, SwitchEngineKeeps
<1>7. CASE UNCHANGED vars
  <2>1. TypeOK /\ Base /\ Sure
    BY DEF IInv, Base
  <2>2. TypeOK'
    BY <1>7, <2>1 DEF vars, TypeOK
  <2>3. Base'
    BY <1>7, <2>1, <2>2 DEF vars, Base
  <2>4. Sure'
    <3>1. OnlyResets' => OnlyResets
      BY <1>7 DEF vars, OnlyResets
    <3>2. OneRun => OneRun'
      BY <1>7 DEF vars, OneRun, Pending
    <3>3. Vouched => Vouched'
      BY <1>7 DEF vars, Vouched
    <3> QED BY <2>1, <3>1, <3>2, <3>3 DEF Sure
  <2> QED BY <2>3, <2>4 DEF IInv
<1> QED BY <1>1, <1>2, <1>3, <1>4, <1>5, <1>6, <1>7 DEF Next, Event

LEMMA Inductive == Spec => []IInv
  BY InitHolds, NextKeeps, PTL DEF Spec

\* The types, and that the watcher counts connecting and open sockets only.
THEOREM TypeCorrect == Spec => []TypeOK
  BY Inductive, PTL DEF IInv, Base

\* The memo of ensureCurl never stands for a failed init(); and as long as client
\* generations change by resets alone, a request whose init() succeeded finds a
\* client at its dispatch, on the current generation's URL, however the shared
\* reset, its joins and the init runs interleave.
THEOREM ClientSound == Spec => []ClientIsSound
<1>1. IInv => ClientIsSound
  <2> SUFFICES ASSUME IInv PROVE ClientIsSound
    OBVIOUS
  <2>1. TypeOK /\ FailedInitNotMemoised
    BY DEF IInv, Base, FailedInitNotMemoised
  <2>2. ReadyFindsClient
    BY DEF IInv, Sure, Vouched, ReadyFindsClient
  <2>3. FreshClient
    BY DEF IInv, Sure, OneRun, FreshClient
  <2> QED BY <2>1, <2>2, <2>3 DEF ClientIsSound
<1> QED BY <1>1, Inductive, PTL
================================================================================
