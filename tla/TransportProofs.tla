---------------------------- MODULE TransportProofs ----------------------------
(***************************************************************************)
(* Proofs about Transport, for any finite set of requests of any kinds.    *)
(*                                                                         *)
(* The inductive invariant adds to the type invariant what the requests'   *)
(* places say about their dispatches (DispatchInv) and that loadInflight() *)
(* counts the requests inside the fetch functions: a leave is then always  *)
(* preceded by its enter, and a second dispatch by a replay check.         *)
(*                                                                         *)
(* The second half is about resets.  GenInv relates each request's         *)
(* remembered generation to that of the client: only the memoised init is  *)
(* pending, and a request rides the client of the generation it remembers. *)
(* DueInv says when the deferred reset is due.  Both hold under a premise  *)
(* on the run: no endpoint is switched, and no request takes the secondary *)
(* client.                                                                 *)
(***************************************************************************)
EXTENDS Transport, FiniteSetTheorems, TLAPS

\* the most dispatches a request can have had when it is at place p
Cap(p) ==
  CASE p \in {"idle", "start"} -> 0
    [] p \in {"relay", "altAttempt"} -> 1
    [] p \in {"altRetry", "fallback"} -> 2
    [] p \in {"entered", "coolRelay", "prepare"} -> 3
    [] p \in {"attempt", "resetting", "joining"} -> 4
    [] OTHER -> 5

\* places with a dispatch behind them, and places before the first certain one
Sending == {"relay", "coolRelay", "altAttempt", "altRetry",
            "attempt", "resetting", "joining", "retry"}
Unsent  == {"idle", "start", "fallback", "entered", "prepare"}

DispatchInv ==
  \A r \in Reqs :
    /\ sent[r] <= Cap(pc[r])
    /\ pc[r] \in Sending => sent[r] >= 1
    /\ ~Repeatable(r) => sent[r] <= 1 /\ (pc[r] \in Unsent => sent[r] = 0)
    /\ pc[r] \in {"relay", "coolRelay"} => kind[r].replayableBody
    /\ pc[r] \in {"altRetry", "resetting", "joining", "retry"} => Repeatable(r)

IInv == TypeOK /\ LoadCountsInFlight /\ DispatchInv

--------------------------------------------------------------------------------
(* The counter. *)

LEMMA CountedIsPositive ==
  ASSUME LoadCountsInFlight, NEW r \in Reqs, pc[r] \in Counted
  PROVE  load \in Nat /\ load >= 1
<1>1. InFlight \in SUBSET Reqs /\ IsFiniteSet(InFlight)
  BY ReqsAssumption, FS_Subset DEF InFlight
<1>2. r \in InFlight
  BY DEF InFlight
<1>3. Cardinality(InFlight) \in Nat /\ Cardinality(InFlight) # 0
  BY <1>1, <1>2, FS_CardinalityType, FS_EmptySet
<1> QED BY <1>3 DEF LoadCountsInFlight

\* moving one request changes the count by whether it was and is inside
LEMMA CountMoves ==
  ASSUME NEW r \in Reqs, NEW p, pc \in [Reqs -> Places], Goto(r, p)
  PROVE  /\ pc[r] \in Counted /\ p \in Counted => Cardinality(InFlight') = Cardinality(InFlight)
         /\ pc[r] \notin Counted /\ p \notin Counted
              => Cardinality(InFlight') = Cardinality(InFlight)
         /\ pc[r] \notin Counted /\ p \in Counted
              => Cardinality(InFlight') = Cardinality(InFlight) + 1
         /\ pc[r] \in Counted /\ p \notin Counted
              => Cardinality(InFlight') = Cardinality(InFlight) - 1
<1>0. IsFiniteSet(InFlight)
  BY ReqsAssumption, FS_Subset DEF InFlight
<1>1. p \in Counted => InFlight' = InFlight \cup {r}
  BY DEF Goto, InFlight
<1>2. p \notin Counted => InFlight' = InFlight \ {r}
  BY DEF Goto, InFlight
<1>3. r \in InFlight <=> pc[r] \in Counted
  BY DEF InFlight
<1>4. Cardinality(InFlight \cup {r}) =
        IF r \in InFlight THEN Cardinality(InFlight) ELSE Cardinality(InFlight) + 1
  BY <1>0, FS_AddElement
<1>5. Cardinality(InFlight \ {r}) =
        IF r \in InFlight THEN Cardinality(InFlight) - 1 ELSE Cardinality(InFlight)
  BY <1>0, FS_RemoveElement
<1> QED BY <1>1, <1>2, <1>3, <1>4, <1>5

--------------------------------------------------------------------------------
(* Type correctness. *)

ClientOK ==
  /\ curlGeneration \in Nat /\ wispGeneration \in Nat
  /\ inits \in Seq({"pending", "ok", "failed"})
  /\ curlReady \in 0..Len(inits) /\ curlResetInflight \in 0..Len(inits)

LEMMA SharedResetTypes ==
  ASSUME ClientOK, NEW g, SharedCurlReset(g)
  PROVE  ClientOK' /\ Len(inits') >= Len(inits) /\ Len(inits) \in Nat /\ Len(inits') \in Nat
<1>1. CASE FreshReset
  <2>1. inits' \in Seq({"pending", "ok", "failed"}) /\ Len(inits') = Len(inits) + 1
    BY <1>1 DEF ClientOK, FreshReset
  <2> QED BY <1>1, <2>1 DEF ClientOK, FreshReset
<1>2. CASE UNCHANGED clientVars
  BY <1>2 DEF ClientOK, clientVars
<1> QED BY <1>1, <1>2 DEF SharedCurlReset

LEMMA LeaveWispTypes ==
  ASSUME ClientOK, NEW n \in Nat, n >= 1, NEW d \in Nat \cup {NoGen}, LeaveWispOf(n, d)
  PROVE  /\ ClientOK' /\ Len(inits') >= Len(inits)
         /\ Len(inits) \in Nat /\ Len(inits') \in Nat
         /\ load' = n - 1 /\ load' \in Nat
         /\ deferredCurlResetGen' \in Nat \cup {NoGen}
<1>1. load' = n - 1 /\ load' \in Nat
  BY DEF LeaveWispOf
<1>2. deferredCurlResetGen' \in Nat \cup {NoGen}
  BY DEF LeaveWispOf
<1>3. CASE SharedCurlReset(d)
  BY <1>1, <1>2, <1>3, SharedResetTypes
<1>4. CASE UNCHANGED clientVars
  BY <1>1, <1>2, <1>4 DEF ClientOK, clientVars
<1> QED BY <1>3, <1>4 DEF LeaveWispOf

LEMMA LeaveAltTypes ==
  ASSUME NEW n \in Nat, n >= 1, NEW g \in Nat, NEW d \in Nat \cup {NoGen}, LeaveAltOf(n, g, d)
  PROVE  /\ load' = n - 1 /\ load' \in Nat
         /\ altGeneration' \in Nat /\ deferredAltResetGen' \in Nat \cup {NoGen}
  BY DEF LeaveAltOf

\* the part of TypeOK that talks about one request's places and promises
LEMMA StormTypes ==
  ASSUME TypeOK
  PROVE  /\ RecordStall => stalls' \in 0..STALL_THRESHOLD /\ cooling' \in BOOLEAN
         /\ \A b \in BOOLEAN : RecordStallIf(b) =>
              stalls' \in 0..STALL_THRESHOLD /\ cooling' \in BOOLEAN
         /\ UNCHANGED stormVars => stalls' \in 0..STALL_THRESHOLD /\ cooling' \in BOOLEAN
<1>1. UNCHANGED stormVars => stalls' \in 0..STALL_THRESHOLD /\ cooling' \in BOOLEAN
  BY DEF TypeOK, stormVars
<1>2. RecordStall => stalls' \in 0..STALL_THRESHOLD
  BY ThresholdAssumption DEF TypeOK, RecordStall
<1>3. RecordStall => cooling' \in BOOLEAN
  BY Zenon DEF RecordStall
<1> QED BY <1>1, <1>2, <1>3 DEF RecordStallIf

\* a step inside the fetch functions that leaves wispFetch keeps the types
LEMMA LeavingKeepsTypes ==
  ASSUME TypeOK, NEW r \in Reqs, NEW p \in Settled, NEW n \in Nat, n >= 1,
         NEW d \in Nat \cup {NoGen},
         Goto(r, p), LeaveWispOf(n, d),
         UNCHANGED <<kind, aborted, gen, rides, waitOn, sent, altVars, switches>>,
         stalls' \in 0..STALL_THRESHOLD, cooling' \in BOOLEAN
  PROVE  TypeOK'
<1>1. ClientOK
  BY DEF TypeOK, ClientOK
<1>2. /\ ClientOK' /\ Len(inits') >= Len(inits)
      /\ Len(inits) \in Nat /\ Len(inits') \in Nat
      /\ load' \in Nat /\ deferredCurlResetGen' \in Nat \cup {NoGen}
  BY <1>1, LeaveWispTypes
<1>3. pc' \in [Reqs -> Places]
  BY DEF TypeOK, Goto, Places
<1>4. waitOn' \in [Reqs -> 0..Len(inits')]
  BY SMTT(30), <1>2 DEF TypeOK
<1>5. \A q \in Reqs : pc'[q] \in {"prepare", "resetting"} => waitOn'[q] # 0
  BY DEF TypeOK, Goto, Settled
<1> QED BY <1>2, <1>3, <1>4, <1>5 DEF TypeOK, ClientOK, altVars

\* a step that changes neither client nor counter keeps the types
LEMMA QuietStepKeepsTypes ==
  ASSUME TypeOK, NEW r \in Reqs, NEW p \in Places \ {"prepare", "resetting"}, Goto(r, p),
         UNCHANGED <<kind, aborted, waitOn, clientVars, deferredCurlResetGen, stormVars, switches>>,
         gen' \in [Reqs -> Nat], rides' \in [Reqs -> Nat], sent' \in [Reqs -> Nat],
         load' \in Nat, altGeneration' \in Nat, deferredAltResetGen' \in Nat \cup {NoGen}
  PROVE  TypeOK'
<1>1. pc' \in [Reqs -> Places]
  BY DEF TypeOK, Goto
<1>2. \A q \in Reqs : pc'[q] \in {"prepare", "resetting"} => waitOn'[q] # 0
  BY DEF TypeOK, Goto
<1> QED BY <1>1, <1>2 DEF TypeOK, clientVars, stormVars

LEMMA TypeStep == IInv /\ [Next]_vars => TypeOK'
<1> SUFFICES ASSUME IInv, [Next]_vars PROVE TypeOK'
  OBVIOUS
<1> USE DEF IInv
<1>0. ClientOK
  BY DEF TypeOK, ClientOK
<1>1. ASSUME NEW r \in Reqs, Resume(r) PROVE TypeOK'
  <2>0. pc[r] \in Counted => load >= 1
    BY CountedIsPositive
  <2>1. CASE EnterWisp(r)
    <3>0. UNCHANGED <<kind, aborted, gen, rides, waitOn, altVars, stormVars, switches>>
      BY <2>1 DEF EnterWisp
    <3>1. ASSUME Goto(r, "failed"), UNCHANGED sent, LeaveWispOf(load + 1, deferredCurlResetGen)
          PROVE  TypeOK'
      <4>1. load + 1 \in Nat /\ load + 1 >= 1 /\ deferredCurlResetGen \in Nat \cup {NoGen}
        BY DEF TypeOK
      <4>2. stalls' \in 0..STALL_THRESHOLD /\ cooling' \in BOOLEAN
        BY <3>0 DEF TypeOK, stormVars
      <4> QED BY <3>0, <3>1, <4>1, <4>2, LeavingKeepsTypes DEF Settled
    <3>2. ASSUME NEW p \in {"entered", "coolRelay"}, Goto(r, p), load' = load + 1,
                 UNCHANGED sent \/ Dispatched(r), UNCHANGED <<clientVars, deferredCurlResetGen>>
          PROVE  TypeOK'
      <4>0. sent' \in [Reqs -> Nat]
        <5>1. CASE UNCHANGED sent
          BY <5>1 DEF TypeOK
        <5>2. CASE Dispatched(r)
          BY <5>2 DEF TypeOK, Dispatched
        <5> QED BY <3>2, <5>1, <5>2
      <4>1. load' \in Nat
        BY <3>2 DEF TypeOK
      <4>2. gen' \in [Reqs -> Nat] /\ rides' \in [Reqs -> Nat]
            /\ altGeneration' \in Nat /\ deferredAltResetGen' \in Nat \cup {NoGen}
        BY <3>0 DEF TypeOK, altVars
      <4>3. p \in Places \ {"prepare", "resetting"}
        BY <3>2 DEF Places, Counted
      <4> QED BY <3>0, <3>2, <4>0, <4>1, <4>2, <4>3, QuietStepKeepsTypes
    <3> QED BY <2>1, <3>1, <3>2 DEF EnterWisp
  <2>2. CASE PrepareFails(r)
    BY <2>0, <2>2, LeavingKeepsTypes DEF TypeOK, PrepareFails, LeaveWisp, Settled, Counted, stormVars
  <2>3. CASE RetryRefused(r)
    BY <2>0, <2>3, LeavingKeepsTypes DEF TypeOK, RetryRefused, LeaveWisp, Settled, Counted, stormVars
  <2>4. CASE Dispatch(r)
    <3>1. sent' \in [Reqs -> Nat] /\ gen' \in [Reqs -> Nat] /\ rides' \in [Reqs -> Nat]
      BY <2>4 DEF TypeOK, Dispatch, Dispatched
    <3> QED BY <2>4, <3>1, QuietStepKeepsTypes DEF TypeOK, Dispatch, Places, Counted, altVars
  <2>5. CASE Retry(r)
    <3>1. sent' \in [Reqs -> Nat] /\ rides' \in [Reqs -> Nat]
      BY <2>5 DEF TypeOK, Retry, Dispatched
    <3> QED BY <2>5, <3>1, QuietStepKeepsTypes DEF TypeOK, Retry, Places, Counted, altVars
  <2> QED BY <1>1, <2>1, <2>2, <2>3, <2>4, <2>5 DEF Resume
<1>2. ASSUME NEW r \in Reqs, Event(r) PROVE TypeOK'
  <2>0. pc[r] \in Counted => load >= 1
    BY CountedIsPositive
  <2>00. pc[r] \in Sending => sent[r] >= 1
    BY DEF DispatchInv
  <2>01. ASSUME RelayNull(r), pc[r] \in Sending PROVE sent' \in [Reqs -> Nat]
    BY SMTT(30), <2>00, <2>01 DEF TypeOK, RelayNull
  <2>1. CASE RouteRelay(r)
    <3>1. sent' \in [Reqs -> Nat]
      BY <2>1 DEF TypeOK, RouteRelay, Dispatched
    <3> QED BY <2>1, <3>1, QuietStepKeepsTypes DEF TypeOK, RouteRelay, Places, Counted, Settled, altVars
  <2>2. CASE RelayAnswers(r)
    <3>1. sent' \in [Reqs -> Nat]
      BY <2>2, <2>01 DEF TypeOK, RelayAnswers, Sending
    <3> QED BY <2>2, <3>1, QuietStepKeepsTypes DEF TypeOK, RelayAnswers, Places, Counted, Settled, altVars
  <2>3. CASE RouteAlt(r)
    <3>1. sent' \in [Reqs -> Nat]
      BY SMTT(30), <2>3 DEF TypeOK, RouteAlt, Dispatched
    <3>3. gen' \in [Reqs -> Nat]
      BY <2>3 DEF TypeOK, RouteAlt
    <3>2. load' \in Nat /\ altGeneration' \in Nat /\ deferredAltResetGen' \in Nat \cup {NoGen}
      BY <2>3 DEF TypeOK, RouteAlt, LeaveAltOf, altVars
    <3> QED BY <2>3, <3>1, <3>2, <3>3, QuietStepKeepsTypes DEF TypeOK, RouteAlt, Places, Counted, Settled, altVars
  <2>4. CASE RouteDirect(r)
    BY <2>4, QuietStepKeepsTypes DEF TypeOK, RouteDirect, Places, Counted, altVars
  <2>5. CASE AltAnswers(r)
    <3>1. load' \in Nat /\ altGeneration' \in Nat /\ deferredAltResetGen' \in Nat \cup {NoGen}
      BY <2>0, <2>5 DEF TypeOK, AltAnswers, LeaveAlt, LeaveAltOf, Counted, altVars
    <3>2. sent' \in [Reqs -> Nat]
      BY <2>5 DEF TypeOK, AltAnswers
    <3> QED BY <2>5, <3>1, <3>2, QuietStepKeepsTypes DEF TypeOK, AltAnswers, Places, Counted, Settled, altVars
  <2>6. CASE AltErrs(r)
    <3>1. load' \in Nat /\ altGeneration' \in Nat /\ deferredAltResetGen' \in Nat \cup {NoGen}
      BY <2>0, <2>6 DEF TypeOK, AltErrs, LeaveAlt, LeaveAltOf, Counted, altVars
    <3>2. sent' \in [Reqs -> Nat]
      BY <2>6 DEF TypeOK, AltErrs
    <3> QED BY <2>6, <3>1, <3>2, QuietStepKeepsTypes DEF TypeOK, AltErrs, Places, Counted, Settled, altVars
  <2>7. CASE AltFailsTerminally(r)
    <3>1. load' \in Nat /\ altGeneration' \in Nat /\ deferredAltResetGen' \in Nat \cup {NoGen}
      BY <2>0, <2>7 DEF TypeOK, AltFailsTerminally, LeaveAlt, LeaveAltOf, Counted, altVars
    <3>2. sent' \in [Reqs -> Nat]
      BY <2>7 DEF TypeOK, AltFailsTerminally
    <3> QED BY <2>7, <3>1, <3>2, QuietStepKeepsTypes DEF TypeOK, AltFailsTerminally, Places, Counted, Settled, altVars
  <2>8. CASE AltRetries(r)
    <3>1. load' \in Nat /\ altGeneration' \in Nat /\ deferredAltResetGen' \in Nat \cup {NoGen}
      BY <2>0, <2>8 DEF TypeOK, AltRetries, LeaveAlt, LeaveAltOf, Counted, altVars
    <3>2. sent' \in [Reqs -> Nat]
      BY <2>8 DEF TypeOK, AltRetries, Dispatched
    <3> QED BY <2>8, <3>1, <3>2, QuietStepKeepsTypes DEF TypeOK, AltRetries, Places, Counted, Settled, altVars
  <2>9. CASE AltRetrySettles(r)
    <3>1. load' \in Nat /\ altGeneration' \in Nat /\ deferredAltResetGen' \in Nat \cup {NoGen}
      BY <2>0, <2>9 DEF TypeOK, AltRetrySettles, LeaveAlt, LeaveAltOf, Counted, altVars
    <3>2. sent' \in [Reqs -> Nat]
      BY <2>9 DEF TypeOK, AltRetrySettles
    <3> QED BY <2>9, <3>1, <3>2, QuietStepKeepsTypes DEF TypeOK, AltRetrySettles, Places, Counted, Settled, altVars
  <2>10. CASE CoolRelaySettles(r)
    BY <2>0, <2>10, LeavingKeepsTypes DEF TypeOK, CoolRelaySettles, LeaveWisp, Settled, Counted, stormVars
  <2>11. CASE AttemptErrs(r)
    BY <2>0, <2>11, LeavingKeepsTypes DEF TypeOK, AttemptErrs, LeaveWisp, Settled, Counted, stormVars
  <2>12. CASE CoolRelayStalls(r)
    <3>1. stalls' \in 0..STALL_THRESHOLD /\ cooling' \in BOOLEAN
      BY <2>12, StormTypes DEF CoolRelayStalls
    <3> QED BY <2>0, <2>12, <3>1, LeavingKeepsTypes DEF TypeOK, CoolRelayStalls, LeaveWisp, Settled, Counted
  <2>13. CASE AttemptAnswers(r)
    <3>1. stalls' \in 0..STALL_THRESHOLD /\ cooling' \in BOOLEAN
      <4>1. stalls' \in 0..STALL_THRESHOLD
        BY <2>13, ThresholdAssumption DEF AttemptAnswers
      <4>2. cooling' \in BOOLEAN
        BY <2>13 DEF AttemptAnswers
      <4> QED BY <4>1, <4>2
    <3> QED BY <2>0, <2>13, <3>1, LeavingKeepsTypes DEF TypeOK, AttemptAnswers, LeaveWisp, Settled, Counted
  <2>14. CASE AttemptFailsTerminally(r)
    <3>1. stalls' \in 0..STALL_THRESHOLD /\ cooling' \in BOOLEAN
      BY <2>14, StormTypes DEF AttemptFailsTerminally
    <3> QED BY <2>0, <2>14, <3>1, LeavingKeepsTypes DEF TypeOK, AttemptFailsTerminally, LeaveWisp, Settled, Counted
  <2>15. CASE RetrySettles(r)
    <3>1. stalls' \in 0..STALL_THRESHOLD /\ cooling' \in BOOLEAN
      BY <2>15, StormTypes DEF RetrySettles
    <3> QED BY <2>0, <2>15, <3>1, LeavingKeepsTypes DEF TypeOK, RetrySettles, LeaveWisp, Settled, Counted
  <2>16. CASE CoolRelayDeclines(r)
    <3>1. sent' \in [Reqs -> Nat]
      BY <2>16, <2>01 DEF CoolRelayDeclines, Sending
    <3> QED BY <2>16, <3>1, QuietStepKeepsTypes DEF TypeOK, CoolRelayDeclines, Places, Counted, altVars
  <2>17. CASE Prepare(r)
    <3>0. inits' = Append(inits, "pending") =>
            inits' \in Seq({"pending", "ok", "failed"}) /\ Len(inits') = Len(inits) + 1
      BY DEF TypeOK
    <3>1. /\ inits' \in Seq({"pending", "ok", "failed"}) /\ Len(inits') \in Nat
          /\ Len(inits) \in Nat /\ Len(inits') >= Len(inits)
          /\ curlReady' \in 0..Len(inits') /\ curlReady' # 0
      BY <2>17, <3>0 DEF TypeOK, Prepare, EnsureCurl
    <3>2. waitOn' \in [Reqs -> 0..Len(inits')] /\ waitOn'[r] # 0
      BY <2>17, <3>1 DEF TypeOK, Prepare
    <3>3. pc' \in [Reqs -> Places]
      BY <2>17 DEF TypeOK, Prepare, Goto, Places, Counted
    <3>4. \A q \in Reqs : pc'[q] \in {"prepare", "resetting"} => waitOn'[q] # 0
      BY <2>17, <3>2 DEF TypeOK, Prepare, Goto
    <3> QED BY <2>17, <3>1, <3>2, <3>3, <3>4 DEF TypeOK, Prepare, altVars, stormVars
  <2>18. CASE AttemptFails(r)
    <3>0. SharedCurlReset(gen[r])
      BY <2>18 DEF AttemptFails
    <3>1. /\ ClientOK' /\ Len(inits') >= Len(inits)
          /\ Len(inits) \in Nat /\ Len(inits') \in Nat
      BY <1>0, <3>0, SharedResetTypes
    <3>2. waitOn' \in [Reqs -> 0..Len(inits')] /\ waitOn'[r] = curlResetInflight'
      BY SMTT(30), <2>18, <3>1 DEF TypeOK, AttemptFails, ClientOK
    <3>3. gen[r] = curlGeneration => curlResetInflight' # 0
      BY <3>0 DEF SharedCurlReset, FreshReset, clientVars, TypeOK
    <3>4. pc' \in [Reqs -> Places]
      BY <2>18 DEF TypeOK, AttemptFails, Goto, Places, Counted
    <3>5. \A q \in Reqs : pc'[q] \in {"prepare", "resetting"} => waitOn'[q] # 0
      BY <2>18, <3>2, <3>3 DEF TypeOK, AttemptFails, Goto
    <3>6. stalls' \in 0..STALL_THRESHOLD /\ cooling' \in BOOLEAN
      BY <2>18, StormTypes DEF AttemptFails
    <3> QED BY <2>18, <3>1, <3>2, <3>4, <3>5, <3>6 DEF TypeOK, ClientOK, AttemptFails, altVars
  <2> QED BY <1>2, <2>1, <2>2, <2>3, <2>4, <2>5, <2>6, <2>7, <2>8, <2>9, <2>10, <2>11, <2>12, <2>13, <2>14, <2>15, <2>16, <2>17, <2>18 DEF Event
<1>3. ASSUME NEW r \in Reqs, Accept(r) PROVE TypeOK'
  BY <1>3, QuietStepKeepsTypes DEF TypeOK, Accept, Places, Counted, altVars
<1>4. ASSUME NEW r \in Reqs, Abort(r) PROVE TypeOK'
  BY <1>4 DEF TypeOK, Abort, clientVars, altVars, stormVars
<1>5. ASSUME NEW i \in 1..Len(inits), InitSettles(i) PROVE TypeOK'
  <2>0. inits' = [inits EXCEPT ![i] = "ok"] \/ inits' = [inits EXCEPT ![i] = "failed"]
    BY <1>5 DEF InitSettles
  <2>1. inits' \in Seq({"pending", "ok", "failed"}) /\ Len(inits') = Len(inits)
    <3>1. inits \in [1..Len(inits) -> {"pending", "ok", "failed"}] /\ Len(inits) \in Nat
      BY DEF TypeOK
    <3>2. inits' \in [1..Len(inits) -> {"pending", "ok", "failed"}]
      BY <2>0, <3>1
    <3> QED BY <3>1, <3>2
  <2>2. curlReady' \in 0..Len(inits') /\ curlResetInflight' \in 0..Len(inits')
    BY <1>5, <2>1 DEF TypeOK, InitSettles
  <2> QED BY <1>5, <2>1, <2>2 DEF TypeOK, InitSettles, reqVars, altVars, stormVars
<1>6. CASE StallAges
  BY <1>6, ThresholdAssumption DEF TypeOK, StallAges, reqVars, clientVars, altVars
<1>7. CASE CooldownExpires
  BY <1>7 DEF TypeOK, CooldownExpires, reqVars, clientVars, altVars
<1>8. CASE SetPrimaryWisp
  BY <1>8, SwitchesAssumption DEF TypeOK, SetPrimaryWisp, reqVars, altVars, stormVars
<1>9. CASE SwitchEngine
  BY <1>9, SwitchesAssumption DEF TypeOK, SwitchEngine, reqVars, altVars, stormVars
<1>10. CASE UNCHANGED vars
  BY <1>10 DEF TypeOK, vars
<1> QED BY <1>1, <1>2, <1>3, <1>4, <1>5, <1>6, <1>7, <1>8, <1>9, <1>10
        DEF Next, Step, Settling, Quiescent

--------------------------------------------------------------------------------
(* The in-flight counter. *)

\* a request moves, and the counter follows where it was and where it is
LEMMA CounterFollows ==
  ASSUME TypeOK, LoadCountsInFlight, NEW r \in Reqs, NEW p, Goto(r, p),
         load' = load + (IF p \in Counted THEN 1 ELSE 0)
                      - (IF pc[r] \in Counted THEN 1 ELSE 0)
  PROVE  LoadCountsInFlight'
<1>1. Cardinality(InFlight) = load /\ load \in Nat
  BY DEF LoadCountsInFlight, TypeOK
<1> QED BY <1>1, CountMoves DEF LoadCountsInFlight, TypeOK

LEMMA CounterStays ==
  ASSUME LoadCountsInFlight, UNCHANGED <<pc, load>>
  PROVE  LoadCountsInFlight'
  BY DEF LoadCountsInFlight, InFlight

LEMMA LoadStep == IInv /\ [Next]_vars => LoadCountsInFlight'
<1> SUFFICES ASSUME IInv, [Next]_vars PROVE LoadCountsInFlight'
  OBVIOUS
<1> USE DEF IInv
<1>0. load \in Nat
  BY DEF TypeOK
<1>1. ASSUME NEW r \in Reqs, Resume(r) PROVE LoadCountsInFlight'
  <2>1. CASE EnterWisp(r)
    BY <1>0, <2>1, CounterFollows DEF EnterWisp, LeaveWispOf, Counted
  <2>2. CASE PrepareFails(r)
    BY <1>0, <2>2, CounterFollows DEF PrepareFails, LeaveWisp, LeaveWispOf, Counted
  <2>3. CASE RetryRefused(r)
    BY <1>0, <2>3, CounterFollows DEF RetryRefused, LeaveWisp, LeaveWispOf, Counted
  <2>4. CASE Dispatch(r)
    BY <1>0, <2>4, CounterFollows DEF Dispatch, Counted
  <2>5. CASE Retry(r)
    BY <1>0, <2>5, CounterFollows DEF Retry, Counted
  <2> QED BY <1>1, <2>1, <2>2, <2>3, <2>4, <2>5 DEF Resume
<1>2. ASSUME NEW r \in Reqs, Event(r) PROVE LoadCountsInFlight'
  <2>1. CASE RouteRelay(r)
    BY <1>0, <2>1, CounterFollows DEF RouteRelay, Counted
  <2>2. CASE RelayAnswers(r)
    BY <1>0, <2>2, CounterFollows DEF RelayAnswers, Counted
  <2>3. CASE RouteAlt(r)
    BY <1>0, <2>3, CounterFollows DEF RouteAlt, LeaveAltOf, Counted
  <2>4. CASE RouteDirect(r)
    BY <1>0, <2>4, CounterFollows DEF RouteDirect, Counted
  <2>5. CASE AltAnswers(r)
    BY <1>0, <2>5, CounterFollows DEF AltAnswers, LeaveAlt, LeaveAltOf, Counted
  <2>6. CASE AltErrs(r)
    BY <1>0, <2>6, CounterFollows DEF AltErrs, LeaveAlt, LeaveAltOf, Counted
  <2>7. CASE AltFailsTerminally(r)
    BY <1>0, <2>7, CounterFollows DEF AltFailsTerminally, LeaveAlt, LeaveAltOf, Counted
  <2>8. CASE AltRetries(r)
    BY <1>0, <2>8, CounterFollows DEF AltRetries, LeaveAlt, LeaveAltOf, Counted
  <2>9. CASE AltRetrySettles(r)
    BY <1>0, <2>9, CounterFollows DEF AltRetrySettles, Counted
  <2>10. CASE CoolRelaySettles(r)
    BY <1>0, <2>10, CounterFollows DEF CoolRelaySettles, LeaveWisp, LeaveWispOf, Counted
  <2>11. CASE CoolRelayStalls(r)
    BY <1>0, <2>11, CounterFollows DEF CoolRelayStalls, LeaveWisp, LeaveWispOf, Counted
  <2>12. CASE CoolRelayDeclines(r)
    BY <1>0, <2>12, CounterFollows DEF CoolRelayDeclines, Counted
  <2>13. CASE Prepare(r)
    BY <1>0, <2>13, CounterFollows DEF Prepare, Counted
  <2>14. CASE AttemptAnswers(r)
    BY <1>0, <2>14, CounterFollows DEF AttemptAnswers, LeaveWisp, LeaveWispOf, Counted
  <2>15. CASE AttemptErrs(r)
    BY <1>0, <2>15, CounterFollows DEF AttemptErrs, LeaveWisp, LeaveWispOf, Counted
  <2>16. CASE AttemptFailsTerminally(r)
    BY <1>0, <2>16, CounterFollows DEF AttemptFailsTerminally, LeaveWisp, LeaveWispOf, Counted
  <2>17. CASE AttemptFails(r)
    BY <1>0, <2>17, CounterFollows DEF AttemptFails, Counted
  <2>18. CASE RetrySettles(r)
    BY <1>0, <2>18, CounterFollows DEF RetrySettles, LeaveWisp, LeaveWispOf, Counted
  <2> QED BY <1>2, <2>1, <2>2, <2>3, <2>4, <2>5, <2>6, <2>7, <2>8, <2>9, <2>10, <2>11, <2>12, <2>13, <2>14, <2>15, <2>16, <2>17, <2>18 DEF Event
<1>3. ASSUME NEW r \in Reqs, Accept(r) PROVE LoadCountsInFlight'
  BY <1>0, <1>3, CounterFollows DEF Accept, Counted
<1>4. ASSUME UNCHANGED <<pc, load>> PROVE LoadCountsInFlight'
  BY <1>4, CounterStays
<1> QED BY <1>1, <1>2, <1>3, <1>4
        DEF Next, Step, Settling, Quiescent, Abort, InitSettles, StallAges, CooldownExpires,
            SetPrimaryWisp, SwitchEngine, reqVars, vars

--------------------------------------------------------------------------------
(* Dispatches. *)

\* only the moving request's part can change
LEMMA OthersKeepDispatch ==
  ASSUME TypeOK, DispatchInv, NEW r \in Reqs, NEW p, Goto(r, p), kind' = kind,
         NEW n \in Nat, sent' = [sent EXCEPT ![r] = n],
         n <= Cap(p), p \in Sending => n >= 1,
         ~Repeatable(r) => n <= 1 /\ (p \in Unsent => n = 0),
         p \in {"relay", "coolRelay"} => kind[r].replayableBody,
         p \in {"altRetry", "resetting", "joining", "retry"} => Repeatable(r)
  PROVE  DispatchInv'
<1>1. \A q \in Reqs \ {r} : pc'[q] = pc[q] /\ sent'[q] = sent[q]
  BY DEF TypeOK, Goto
<1>2. pc'[r] = p /\ sent'[r] = n
  BY DEF TypeOK, Goto
<1>3. \A q \in Reqs : Repeatable(q)' <=> Repeatable(q)
  BY DEF Repeatable
<1> QED BY <1>1, <1>2, <1>3 DEF DispatchInv

LEMMA DispatchKept ==
  ASSUME DispatchInv, UNCHANGED <<pc, kind, sent>>
  PROVE  DispatchInv'
  BY DEF DispatchInv, Repeatable

LEMMA DispatchStep == IInv /\ [Next]_vars => DispatchInv'
<1> SUFFICES ASSUME IInv, [Next]_vars PROVE DispatchInv'
  OBVIOUS
<1> USE DEF IInv
<1>0. ASSUME NEW r \in Reqs
      PROVE  /\ sent[r] \in Nat /\ sent = [sent EXCEPT ![r] = sent[r]]
             /\ sent[r] <= Cap(pc[r])
             /\ pc[r] \in Sending => sent[r] >= 1
             /\ ~Repeatable(r) => sent[r] <= 1 /\ (pc[r] \in Unsent => sent[r] = 0)
             /\ pc[r] \in {"relay", "coolRelay"} => kind[r].replayableBody
             /\ pc[r] \in {"altRetry", "resetting", "joining", "retry"} => Repeatable(r)
  <2>1. sent[r] \in Nat /\ sent = [sent EXCEPT ![r] = sent[r]]
    BY DEF TypeOK
  <2> QED BY <2>1 DEF DispatchInv
<1>1. ASSUME NEW r \in Reqs, Resume(r) PROVE DispatchInv'
  <2>1. CASE EnterWisp(r)
    BY <1>0, <2>1, OthersKeepDispatch DEF EnterWisp, Dispatched, Cap, Sending, Unsent, RelayCarries
  <2>2. CASE PrepareFails(r)
    BY <1>0, <2>2, OthersKeepDispatch DEF PrepareFails, Cap, Sending, Unsent
  <2>3. CASE RetryRefused(r)
    BY <1>0, <2>3, OthersKeepDispatch DEF RetryRefused, Cap, Sending, Unsent
  <2>4. CASE Dispatch(r)
    <3>1. /\ Goto(r, "attempt") /\ sent' = [sent EXCEPT ![r] = sent[r] + 1] /\ kind' = kind
      BY <2>4 DEF Dispatch, Dispatched
    <3>2. /\ sent[r] + 1 \in Nat /\ sent[r] + 1 <= Cap("attempt") /\ sent[r] + 1 >= 1
          /\ ~Repeatable(r) => sent[r] + 1 <= 1 /\ "attempt" \notin Unsent
          /\ "attempt" # "attempt" => Repeatable(r)
      BY <1>0, <2>4 DEF Dispatch, Cap, Sending, Unsent
    <3> QED BY <3>1, <3>2, OthersKeepDispatch
  <2>5. CASE Retry(r)
    <3>1. /\ Goto(r, "retry") /\ sent' = [sent EXCEPT ![r] = sent[r] + 1] /\ kind' = kind
      BY <2>5 DEF Retry, Dispatched
    <3>2. /\ sent[r] + 1 \in Nat /\ sent[r] + 1 <= Cap("retry") /\ sent[r] + 1 >= 1
          /\ ~Repeatable(r) => sent[r] + 1 <= 1 /\ "retry" \notin Unsent
          /\ "retry" # "attempt" => Repeatable(r)
      BY <1>0, <2>5 DEF Retry, Cap, Sending, Unsent
    <3> QED BY <3>1, <3>2, OthersKeepDispatch
  <2> QED BY <1>1, <2>1, <2>2, <2>3, <2>4, <2>5 DEF Resume
<1>2. ASSUME NEW r \in Reqs, Event(r) PROVE DispatchInv'
  <2>1. CASE RouteRelay(r)
    BY <1>0, <2>1, OthersKeepDispatch DEF RouteRelay, Dispatched, RelayCarries, Cap, Sending, Unsent
  <2>2. CASE RelayAnswers(r)
    BY <1>0, <2>2, OthersKeepDispatch DEF RelayAnswers, RelayNull, Repeatable, Cap, Sending, Unsent
  <2>3. CASE RouteAlt(r)
    BY <1>0, <2>3, OthersKeepDispatch DEF RouteAlt, Dispatched, Cap, Sending, Unsent
  <2>4. CASE RouteDirect(r)
    BY <1>0, <2>4, OthersKeepDispatch DEF RouteDirect, Cap, Sending, Unsent
  <2>5. CASE AltAnswers(r)
    BY <1>0, <2>5, OthersKeepDispatch DEF AltAnswers, Cap, Sending, Unsent
  <2>6. CASE AltErrs(r)
    BY <1>0, <2>6, OthersKeepDispatch DEF AltErrs, Retryable, Cap, Sending, Unsent
  <2>7. CASE AltFailsTerminally(r)
    BY <1>0, <2>7, OthersKeepDispatch DEF AltFailsTerminally, Cap, Sending, Unsent
  <2>8. CASE AltRetries(r)
    <3>1. /\ Goto(r, "altRetry") /\ sent' = [sent EXCEPT ![r] = sent[r] + 1] /\ kind' = kind
      BY <2>8 DEF AltRetries, Dispatched
    <3>2. /\ sent[r] + 1 \in Nat /\ sent[r] + 1 <= Cap("altRetry") /\ sent[r] + 1 >= 1
          /\ ~Repeatable(r) => sent[r] + 1 <= 1 /\ "altRetry" \notin Unsent
          /\ "altRetry" # "attempt" => Repeatable(r)
      BY <1>0, <2>8 DEF AltRetries, Retryable, Cap, Sending, Unsent
    <3> QED BY <3>1, <3>2, OthersKeepDispatch
  <2>9. CASE AltRetrySettles(r)
    BY <1>0, <2>9, OthersKeepDispatch DEF AltRetrySettles, Retryable, Cap, Sending, Unsent
  <2>10. CASE CoolRelaySettles(r)
    BY <1>0, <2>10, OthersKeepDispatch DEF CoolRelaySettles, Cap, Sending, Unsent
  <2>11. CASE CoolRelayStalls(r)
    BY <1>0, <2>11, OthersKeepDispatch DEF CoolRelayStalls, Cap, Sending, Unsent
  <2>12. CASE CoolRelayDeclines(r)
    BY <1>0, <2>12, OthersKeepDispatch DEF CoolRelayDeclines, RelayNull, Repeatable, Cap, Sending, Unsent
  <2>13. CASE Prepare(r)
    BY <1>0, <2>13, OthersKeepDispatch DEF Prepare, Cap, Sending, Unsent
  <2>14. CASE AttemptAnswers(r)
    BY <1>0, <2>14, OthersKeepDispatch DEF AttemptAnswers, Cap, Sending, Unsent
  <2>15. CASE AttemptErrs(r)
    BY <1>0, <2>15, OthersKeepDispatch DEF AttemptErrs, Cap, Sending, Unsent
  <2>16. CASE AttemptFailsTerminally(r)
    BY <1>0, <2>16, OthersKeepDispatch DEF AttemptFailsTerminally, Cap, Sending, Unsent
  <2>17. CASE AttemptFails(r)
    BY <1>0, <2>17, OthersKeepDispatch DEF AttemptFails, Retryable, Cap, Sending, Unsent
  <2>18. CASE RetrySettles(r)
    BY <1>0, <2>18, OthersKeepDispatch DEF RetrySettles, Cap, Sending, Unsent
  <2> QED BY <1>2, <2>1, <2>2, <2>3, <2>4, <2>5, <2>6, <2>7, <2>8, <2>9, <2>10, <2>11, <2>12, <2>13, <2>14, <2>15, <2>16, <2>17, <2>18 DEF Event
<1>3. ASSUME NEW r \in Reqs, Accept(r) PROVE DispatchInv'
  BY <1>0, <1>3, OthersKeepDispatch DEF Accept, Cap, Sending, Unsent
<1>4. ASSUME UNCHANGED <<pc, kind, sent>> PROVE DispatchInv'
  BY <1>4, DispatchKept
<1> QED BY <1>1, <1>2, <1>3, <1>4
        DEF Next, Step, Settling, Quiescent, Abort, InitSettles, StallAges, CooldownExpires,
            SetPrimaryWisp, SwitchEngine, reqVars, vars

--------------------------------------------------------------------------------
(* The invariant. *)

LEMMA InitIInv == Init => IInv
<1> SUFFICES ASSUME Init PROVE IInv
  OBVIOUS
<1>1. TypeOK
  <2>1. inits \in Seq({"pending", "ok", "failed"}) /\ Len(inits) = 0
    BY DEF Init
  <2>2. stalls \in 0..STALL_THRESHOLD
    BY ThresholdAssumption DEF Init
  <2>3. switches \in 0..MaxSwitches
    BY SwitchesAssumption DEF Init
  <2>4. cooling \in BOOLEAN /\ aborted \in [Reqs -> BOOLEAN]
    BY Zenon DEF Init
  <2>5. pc \in [Reqs -> Places] /\ (\A r \in Reqs : pc[r] \notin {"prepare", "resetting"})
    BY DEF Init, Places
  <2>6. /\ waitOn \in [Reqs -> 0..Len(inits)]
        /\ curlReady \in 0..Len(inits) /\ curlResetInflight \in 0..Len(inits)
    BY <2>1 DEF Init
  <2> QED BY <2>1, <2>2, <2>3, <2>4, <2>5, <2>6 DEF Init, TypeOK
<1>2. LoadCountsInFlight
  <2>1. InFlight = {}
    BY DEF Init, InFlight, Counted
  <2> QED BY <2>1, FS_EmptySet DEF Init, LoadCountsInFlight
<1>3. DispatchInv
  BY DEF Init, DispatchInv, Cap, Sending, Unsent
<1> QED BY <1>1, <1>2, <1>3 DEF IInv

\* The inductive invariant holds in every reachable state.
THEOREM Invariance == Spec => []IInv
<1>1. IInv /\ [Next]_vars => IInv'
  BY TypeStep, LoadStep, DispatchStep DEF IInv
<1> QED BY InitIInv, <1>1, PTL DEF Spec

\* Every variable stays in its range, for any requests and thresholds.
THEOREM TypeCorrectness == Spec => []TypeOK
<1>1. IInv => TypeOK
  BY DEF IInv
<1> QED BY Invariance, <1>1, PTL

\* loadInflight() counts exactly the requests inside the fetch functions.
THEOREM CounterIsExact == Spec => []LoadCountsInFlight
<1>1. IInv => LoadCountsInFlight
  BY DEF IInv
<1> QED BY Invariance, <1>1, PTL

\* A request that cannot be repeated has at most one dispatch not proved
\* undelivered, whatever route, retry or fallback it took.
THEOREM DeliveredAtMostOnce == Spec => []AtMostOnce
<1>1. IInv => AtMostOnce
  BY DEF IInv, DispatchInv, AtMostOnce, TypeOK
<1> QED BY Invariance, <1>1, PTL

--------------------------------------------------------------------------------
(* The step refinement: every step is a step of Delivery or none of it. *)

LEMMA ViewMoves ==
  ASSUME TypeOK, NEW r \in Reqs, NEW p, Goto(r, p)
  PROVE  /\ [q \in Reqs |-> View(pc[q])]' = [[q \in Reqs |-> View(pc[q])] EXCEPT ![r] = View(p)]
         /\ View(pc[r]) = View(p) => [q \in Reqs |-> View(pc[q])]' = [q \in Reqs |-> View(pc[q])]
  BY DEF TypeOK, Goto

\* what a step of request r does, in the words of Delivery
Quiet(r, p)     == View(pc[r]) = View(p) /\ sent' = sent
Sends(r, p)     == /\ View(pc[r]) = "active" /\ View(p) = "active" /\ ~aborted[r]
                   /\ sent[r] = 0 \/ Repeatable(r)
                   /\ sent[r] < 5 /\ Dispatched(r)
Disproves(r, p) == /\ View(pc[r]) = "active" /\ View(p) = "active"
                   /\ sent[r] > 0 /\ sent' = [sent EXCEPT ![r] = @ - 1]
Accepts(r, p)   == pc[r] = "idle" /\ View(p) = "active" /\ sent' = sent
Answers(r, p)   == View(pc[r]) = "active" /\ p = "answered" /\ sent[r] > 0 /\ sent' = sent
Fails(r, p)     == View(pc[r]) = "active" /\ p = "failed" /\ sent' = sent

LEMMA MovesRefine ==
  ASSUME TypeOK, NEW r \in Reqs, NEW p, Goto(r, p), UNCHANGED <<kind, aborted>>,
         \/ Quiet(r, p) \/ Sends(r, p) \/ Disproves(r, p)
         \/ Accepts(r, p) \/ Answers(r, p) \/ Fails(r, p)
  PROVE  [Promise!Next]_(Promise!vars)
<1> DEFINE phase == [q \in Reqs |-> View(pc[q])]
           rep   == [q \in Reqs |-> Repeatable(q)]
<1>1. phase' = [phase EXCEPT ![r] = View(p)] /\ (View(pc[r]) = View(p) => phase' = phase)
  BY ViewMoves
<1>2. rep' = rep /\ aborted' = aborted
  BY DEF Repeatable
<1>3. phase[r] = View(pc[r]) /\ rep[r] = Repeatable(r)
  OBVIOUS
<1>4. CASE Quiet(r, p)
  BY <1>1, <1>2, <1>4 DEF Quiet, Promise!vars
<1>5. CASE Sends(r, p)
  <2>1. Promise!Dispatch(r)
    BY <1>1, <1>2, <1>3, <1>5 DEF Sends, Promise!Dispatch, Dispatched, Promise!AllowsReplay
  <2> QED BY <2>1 DEF Promise!Next
<1>6. CASE Disproves(r, p)
  <2>1. Promise!Disprove(r)
    BY <1>1, <1>2, <1>3, <1>6 DEF Disproves, Promise!Disprove
  <2> QED BY <2>1 DEF Promise!Next
<1>7. CASE Accepts(r, p)
  <2>1. Promise!Accept(r)
    BY <1>1, <1>2, <1>3, <1>7 DEF Accepts, Promise!Accept, View
  <2> QED BY <2>1 DEF Promise!Next
<1>8. CASE Answers(r, p)
  <2>1. Promise!Answer(r)
    BY <1>1, <1>2, <1>3, <1>8 DEF Answers, Promise!Answer, View, Settled
  <2> QED BY <2>1 DEF Promise!Next
<1>9. CASE Fails(r, p)
  <2>1. Promise!Fail(r)
    BY <1>1, <1>2, <1>3, <1>9 DEF Fails, Promise!Fail, View, Settled
  <2> QED BY <2>1 DEF Promise!Next
<1> QED BY <1>4, <1>5, <1>6, <1>7, <1>8, <1>9

LEMMA RefinedStep == IInv /\ [Next]_vars => [Promise!Next]_(Promise!vars)
<1> SUFFICES ASSUME IInv, [Next]_vars PROVE [Promise!Next]_(Promise!vars)
  OBVIOUS
<1> USE DEF IInv
<1>0. ASSUME NEW r \in Reqs
      PROVE  /\ sent[r] \in Nat /\ sent[r] <= Cap(pc[r])
             /\ pc[r] \in Sending => sent[r] > 0
             /\ ~Repeatable(r) => (pc[r] \in Unsent => sent[r] = 0)
             /\ pc[r] \in {"altRetry", "resetting", "joining", "retry"} => Repeatable(r)
  BY DEF TypeOK, DispatchInv
<1>1. ASSUME NEW r \in Reqs, Resume(r) PROVE [Promise!Next]_(Promise!vars)
  <2>1. CASE EnterWisp(r)
    <3>1. \E p \in Places : Goto(r, p) /\ UNCHANGED <<kind, aborted>>
             /\ (Quiet(r, p) \/ Sends(r, p) \/ Disproves(r, p) \/ Answers(r, p) \/ Fails(r, p))
      BY <1>0, <2>1 DEF EnterWisp, Dispatched, View, Settled, Sending, Unsent, Cap, Places, Counted,
         Quiet, Sends, Disproves, Answers, Fails
    <3> QED BY <3>1, MovesRefine
  <2>2. CASE PrepareFails(r)
    <3>1. \E p \in Places : Goto(r, p) /\ UNCHANGED <<kind, aborted>>
             /\ (Quiet(r, p) \/ Sends(r, p) \/ Disproves(r, p) \/ Answers(r, p) \/ Fails(r, p))
      BY <1>0, <2>2 DEF PrepareFails, View, Settled, Sending, Unsent, Cap, Places, Counted,
         Quiet, Sends, Disproves, Answers, Fails
    <3> QED BY <3>1, MovesRefine
  <2>3. CASE RetryRefused(r)
    <3>1. \E p \in Places : Goto(r, p) /\ UNCHANGED <<kind, aborted>>
             /\ (Quiet(r, p) \/ Sends(r, p) \/ Disproves(r, p) \/ Answers(r, p) \/ Fails(r, p))
      BY <1>0, <2>3 DEF RetryRefused, View, Settled, Sending, Unsent, Cap, Places, Counted,
         Quiet, Sends, Disproves, Answers, Fails
    <3> QED BY <3>1, MovesRefine
  <2>4. CASE Dispatch(r)
    <3>1. \E p \in Places : Goto(r, p) /\ UNCHANGED <<kind, aborted>>
             /\ (Quiet(r, p) \/ Sends(r, p) \/ Disproves(r, p) \/ Answers(r, p) \/ Fails(r, p))
      BY <1>0, <2>4 DEF Dispatch, Dispatched, View, Settled, Sending, Unsent, Cap, Places, Counted,
         Quiet, Sends, Disproves, Answers, Fails
    <3> QED BY <3>1, MovesRefine
  <2>5. CASE Retry(r)
    <3>1. \E p \in Places : Goto(r, p) /\ UNCHANGED <<kind, aborted>>
             /\ (Quiet(r, p) \/ Sends(r, p) \/ Disproves(r, p) \/ Answers(r, p) \/ Fails(r, p))
      BY <1>0, <2>5 DEF Retry, Dispatched, View, Settled, Sending, Unsent, Cap, Places, Counted,
         Quiet, Sends, Disproves, Answers, Fails
    <3> QED BY <3>1, MovesRefine
  <2> QED BY <1>1, <2>1, <2>2, <2>3, <2>4, <2>5 DEF Resume
<1>2. ASSUME NEW r \in Reqs, Event(r) PROVE [Promise!Next]_(Promise!vars)
  <2>1. CASE RouteRelay(r)
    <3>1. \E p \in Places : Goto(r, p) /\ UNCHANGED <<kind, aborted>>
             /\ (Quiet(r, p) \/ Sends(r, p) \/ Disproves(r, p) \/ Answers(r, p) \/ Fails(r, p))
      BY <1>0, <2>1 DEF RouteRelay, Dispatched, View, Settled, Sending, Unsent, Cap, Places, Counted,
         Quiet, Sends, Disproves, Answers, Fails
    <3> QED BY <3>1, MovesRefine
  <2>2. CASE RelayAnswers(r)
    <3>1. \E p \in Places : Goto(r, p) /\ UNCHANGED <<kind, aborted>>
             /\ (Quiet(r, p) \/ Sends(r, p) \/ Disproves(r, p) \/ Answers(r, p) \/ Fails(r, p))
      BY <1>0, <2>2 DEF RelayAnswers, RelayNull, View, Settled, Sending, Unsent, Cap, Places, Counted,
         Quiet, Sends, Disproves, Answers, Fails
    <3> QED BY <3>1, MovesRefine
  <2>3. CASE RouteAlt(r)
    <3>1. \E p \in Places : Goto(r, p) /\ UNCHANGED <<kind, aborted>>
             /\ (Quiet(r, p) \/ Sends(r, p) \/ Disproves(r, p) \/ Answers(r, p) \/ Fails(r, p))
      BY <1>0, <2>3 DEF RouteAlt, Dispatched, View, Settled, Sending, Unsent, Cap, Places, Counted,
         Quiet, Sends, Disproves, Answers, Fails
    <3> QED BY <3>1, MovesRefine
  <2>4. CASE RouteDirect(r)
    <3>1. \E p \in Places : Goto(r, p) /\ UNCHANGED <<kind, aborted>>
             /\ (Quiet(r, p) \/ Sends(r, p) \/ Disproves(r, p) \/ Answers(r, p) \/ Fails(r, p))
      BY <1>0, <2>4 DEF RouteDirect, View, Settled, Sending, Unsent, Cap, Places, Counted,
         Quiet, Sends, Disproves, Answers, Fails
    <3> QED BY <3>1, MovesRefine
  <2>5. CASE AltAnswers(r)
    <3>1. \E p \in Places : Goto(r, p) /\ UNCHANGED <<kind, aborted>>
             /\ (Quiet(r, p) \/ Sends(r, p) \/ Disproves(r, p) \/ Answers(r, p) \/ Fails(r, p))
      BY <1>0, <2>5 DEF AltAnswers, View, Settled, Sending, Unsent, Cap, Places, Counted,
         Quiet, Sends, Disproves, Answers, Fails
    <3> QED BY <3>1, MovesRefine
  <2>6. CASE AltErrs(r)
    <3>1. \E p \in Places : Goto(r, p) /\ UNCHANGED <<kind, aborted>>
             /\ (Quiet(r, p) \/ Sends(r, p) \/ Disproves(r, p) \/ Answers(r, p) \/ Fails(r, p))
      BY <1>0, <2>6 DEF AltErrs, View, Settled, Sending, Unsent, Cap, Places, Counted,
         Quiet, Sends, Disproves, Answers, Fails
    <3> QED BY <3>1, MovesRefine
  <2>7. CASE AltFailsTerminally(r)
    <3>1. \E p \in Places : Goto(r, p) /\ UNCHANGED <<kind, aborted>>
             /\ (Quiet(r, p) \/ Sends(r, p) \/ Disproves(r, p) \/ Answers(r, p) \/ Fails(r, p))
      BY <1>0, <2>7 DEF AltFailsTerminally, View, Settled, Sending, Unsent, Cap, Places, Counted,
         Quiet, Sends, Disproves, Answers, Fails
    <3> QED BY <3>1, MovesRefine
  <2>8. CASE AltRetries(r)
    <3>1. \E p \in Places : Goto(r, p) /\ UNCHANGED <<kind, aborted>>
             /\ (Quiet(r, p) \/ Sends(r, p) \/ Disproves(r, p) \/ Answers(r, p) \/ Fails(r, p))
      BY <1>0, <2>8 DEF AltRetries, Dispatched, Retryable, View, Settled, Sending, Unsent, Cap, Places, Counted,
         Quiet, Sends, Disproves, Answers, Fails
    <3> QED BY <3>1, MovesRefine
  <2>9. CASE AltRetrySettles(r)
    <3>1. \E p \in Places : Goto(r, p) /\ UNCHANGED <<kind, aborted>>
             /\ (Quiet(r, p) \/ Sends(r, p) \/ Disproves(r, p) \/ Answers(r, p) \/ Fails(r, p))
      BY <1>0, <2>9 DEF AltRetrySettles, View, Settled, Sending, Unsent, Cap, Places, Counted,
         Quiet, Sends, Disproves, Answers, Fails
    <3> QED BY <3>1, MovesRefine
  <2>10. CASE CoolRelaySettles(r)
    <3>1. \E p \in Places : Goto(r, p) /\ UNCHANGED <<kind, aborted>>
             /\ (Quiet(r, p) \/ Sends(r, p) \/ Disproves(r, p) \/ Answers(r, p) \/ Fails(r, p))
      BY <1>0, <2>10 DEF CoolRelaySettles, View, Settled, Sending, Unsent, Cap, Places, Counted,
         Quiet, Sends, Disproves, Answers, Fails
    <3> QED BY <3>1, MovesRefine
  <2>11. CASE CoolRelayStalls(r)
    <3>1. \E p \in Places : Goto(r, p) /\ UNCHANGED <<kind, aborted>>
             /\ (Quiet(r, p) \/ Sends(r, p) \/ Disproves(r, p) \/ Answers(r, p) \/ Fails(r, p))
      BY <1>0, <2>11 DEF CoolRelayStalls, View, Settled, Sending, Unsent, Cap, Places, Counted,
         Quiet, Sends, Disproves, Answers, Fails
    <3> QED BY <3>1, MovesRefine
  <2>12. CASE CoolRelayDeclines(r)
    <3>1. \E p \in Places : Goto(r, p) /\ UNCHANGED <<kind, aborted>>
             /\ (Quiet(r, p) \/ Sends(r, p) \/ Disproves(r, p) \/ Answers(r, p) \/ Fails(r, p))
      BY <1>0, <2>12 DEF CoolRelayDeclines, RelayNull, View, Settled, Sending, Unsent, Cap, Places, Counted,
         Quiet, Sends, Disproves, Answers, Fails
    <3> QED BY <3>1, MovesRefine
  <2>13. CASE Prepare(r)
    <3>1. \E p \in Places : Goto(r, p) /\ UNCHANGED <<kind, aborted>>
             /\ (Quiet(r, p) \/ Sends(r, p) \/ Disproves(r, p) \/ Answers(r, p) \/ Fails(r, p))
      BY <1>0, <2>13 DEF Prepare, View, Settled, Sending, Unsent, Cap, Places, Counted,
         Quiet, Sends, Disproves, Answers, Fails
    <3> QED BY <3>1, MovesRefine
  <2>14. CASE AttemptAnswers(r)
    <3>1. \E p \in Places : Goto(r, p) /\ UNCHANGED <<kind, aborted>>
             /\ (Quiet(r, p) \/ Sends(r, p) \/ Disproves(r, p) \/ Answers(r, p) \/ Fails(r, p))
      BY <1>0, <2>14 DEF AttemptAnswers, View, Settled, Sending, Unsent, Cap, Places, Counted,
         Quiet, Sends, Disproves, Answers, Fails
    <3> QED BY <3>1, MovesRefine
  <2>15. CASE AttemptErrs(r)
    <3>1. \E p \in Places : Goto(r, p) /\ UNCHANGED <<kind, aborted>>
             /\ (Quiet(r, p) \/ Sends(r, p) \/ Disproves(r, p) \/ Answers(r, p) \/ Fails(r, p))
      BY <1>0, <2>15 DEF AttemptErrs, View, Settled, Sending, Unsent, Cap, Places, Counted,
         Quiet, Sends, Disproves, Answers, Fails
    <3> QED BY <3>1, MovesRefine
  <2>16. CASE AttemptFailsTerminally(r)
    <3>1. \E p \in Places : Goto(r, p) /\ UNCHANGED <<kind, aborted>>
             /\ (Quiet(r, p) \/ Sends(r, p) \/ Disproves(r, p) \/ Answers(r, p) \/ Fails(r, p))
      BY <1>0, <2>16 DEF AttemptFailsTerminally, View, Settled, Sending, Unsent, Cap, Places, Counted,
         Quiet, Sends, Disproves, Answers, Fails
    <3> QED BY <3>1, MovesRefine
  <2>17. CASE AttemptFails(r)
    <3>1. \E p \in Places : Goto(r, p) /\ UNCHANGED <<kind, aborted>>
             /\ (Quiet(r, p) \/ Sends(r, p) \/ Disproves(r, p) \/ Answers(r, p) \/ Fails(r, p))
      BY <1>0, <2>17 DEF AttemptFails, View, Settled, Sending, Unsent, Cap, Places, Counted,
         Quiet, Sends, Disproves, Answers, Fails
    <3> QED BY <3>1, MovesRefine
  <2>18. CASE RetrySettles(r)
    <3>1. \E p \in Places : Goto(r, p) /\ UNCHANGED <<kind, aborted>>
             /\ (Quiet(r, p) \/ Sends(r, p) \/ Disproves(r, p) \/ Answers(r, p) \/ Fails(r, p))
      BY <1>0, <2>18 DEF RetrySettles, View, Settled, Sending, Unsent, Cap, Places, Counted,
         Quiet, Sends, Disproves, Answers, Fails
    <3> QED BY <3>1, MovesRefine
  <2> QED BY <1>2, <2>1, <2>2, <2>3, <2>4, <2>5, <2>6, <2>7, <2>8, <2>9, <2>10, <2>11, <2>12, <2>13, <2>14, <2>15, <2>16, <2>17, <2>18 DEF Event
<1>3. ASSUME NEW r \in Reqs, Accept(r) PROVE [Promise!Next]_(Promise!vars)
  <2>1. Accepts(r, "start")
    BY <1>3 DEF Accept, Accepts, View, Settled
  <2> QED BY <1>3, <2>1, MovesRefine DEF Accept
<1>4. ASSUME NEW r \in Reqs, Abort(r) PROVE [Promise!Next]_(Promise!vars)
  <2>1. Promise!Abort(r)
    BY <1>4 DEF Abort, Promise!Abort, View, Repeatable
  <2> QED BY <2>1 DEF Promise!Next
<1>5. ASSUME UNCHANGED <<pc, kind, aborted, sent>> PROVE [Promise!Next]_(Promise!vars)
  BY <1>5 DEF Promise!vars, Repeatable
<1> QED BY <1>1, <1>2, <1>3, <1>4, <1>5
        DEF Next, Step, Settling, Quiescent, InitSettles, StallAges, CooldownExpires,
            SetPrimaryWisp, SwitchEngine, reqVars, vars

\* The request path implements the delivery promise.
THEOREM KeepsPromise == Spec => KeepsDeliveryPromise
<1>1. Init => Promise!Init
  <2> SUFFICES ASSUME Init PROVE Promise!Init
    OBVIOUS
  <2>1. [r \in Reqs |-> View(pc[r])] = [r \in Reqs |-> "idle"]
    BY DEF Init, View
  <2>2. [r \in Reqs |-> Repeatable(r)] \in [Reqs -> BOOLEAN]
    BY KindsAssumption DEF Init, Repeatable, AllKinds
  <2> QED BY <2>1, <2>2 DEF Init, Promise!Init
<1> QED BY Invariance, RefinedStep, <1>1, PTL DEF Spec, KeepsDeliveryPromise, Promise!Spec

\* No step hands a request to an adapter once its caller has aborted.
THEOREM NothingSentForTheGone == Spec => NoDispatchAfterAbort
<1>1. IInv /\ [Next]_vars => [\A r \in Reqs : sent'[r] > sent[r] => ~aborted[r]]_vars
  <2> SUFFICES ASSUME IInv, [Next]_vars, NEW r \in Reqs, sent'[r] > sent[r] PROVE ~aborted[r]
    OBVIOUS
  <2>1. sent \in [Reqs -> Nat]
    BY DEF IInv, TypeOK
  <2>2. [Promise!Next]_(Promise!vars)
    BY RefinedStep
  <2>3. ~(sent' = sent)
    BY <2>1
  <2>4. PICK q \in Reqs : \/ Promise!Accept(q) \/ Promise!Abort(q) \/ Promise!Dispatch(q)
                          \/ Promise!Disprove(q) \/ Promise!Answer(q) \/ Promise!Fail(q)
    BY <2>2, <2>3 DEF Promise!Next, Promise!vars
  <2>5. CASE Promise!Dispatch(q)
    BY <2>1, <2>5 DEF Promise!Dispatch
  <2>6. CASE Promise!Disprove(q)
    BY <2>1, <2>6 DEF Promise!Disprove
  <2> QED BY <2>3, <2>4, <2>5, <2>6
          DEF Promise!Accept, Promise!Abort, Promise!Answer, Promise!Fail
<1> QED BY Invariance, <1>1, PTL DEF Spec, NoDispatchAfterAbort

--------------------------------------------------------------------------------
(* Resets and generations.  Two things the model allows put these facts at
   risk, so their absence is a premise: a change of endpoint or engine drops
   the client without a new generation (SetPrimaryWisp, SwitchEngine), and
   the last request to leave altWispFetch runs only the secondary client's
   deferred reset. *)

\* the embedder leaves the endpoint and the engine as they are
NoSwitches == switches = 0

\* no request is routed over the secondary client
NoneOnAlt == \A r \in Reqs : kind[r].route # "alt"

\* the memoised init of this generation succeeded
Ready == curlReady # 0 /\ inits[curlReady] = "ok"

\* a reset owed to generation g is one the current client may be given
Owed(g) == g # NoGen => /\ g \in Nat /\ g <= curlGeneration
                        /\ g = curlGeneration => Ready

\* only the memoised init is pending, and the shared reset awaits a pending one
ClientsInv ==
  /\ wispGeneration = curlGeneration
  /\ \A i \in 1..Len(inits) : inits[i] = "pending" => i = curlReady
  /\ curlResetInflight # 0 => inits[curlResetInflight] = "pending"
  /\ Owed(deferredCurlResetGen)

\* a request rides the client of the generation it remembers; once it awaits
\* a reset, that generation is over
PlaceInv(r) ==
  /\ pc[r] = "prepare" /\ inits[waitOn[r]] # "failed" => waitOn[r] = curlReady
  /\ pc[r] = "attempt" => rides[r] = gen[r] /\ Owed(gen[r])
  /\ pc[r] \in {"resetting", "joining"} => gen[r] < curlGeneration
  /\ pc[r] = "retry" => rides[r] > gen[r]

Guarded == {"prepare", "attempt", "resetting", "joining", "retry"}

GenInv == ClientsInv /\ \A r \in Reqs : PlaceInv(r)

\* what a step can do to the primary client and to the request that takes it:
\* leave wispFetch with d for the reset it owes,
Leaves(r, n, d) ==
  /\ \E p \in Settled : Goto(r, p)
  /\ LeaveWispOf(n, d) /\ UNCHANGED <<gen, rides, waitOn, switches>>
  /\ \/ n = load /\ pc[r] \in Counted
     \/ n = load + 1 /\ pc[r] = "fallback"
  /\ d = deferredCurlResetGen \/ (pc[r] = "attempt" /\ d = gen[r])

\* move between places that hold nothing of the primary client,
Calm(r, p) ==
  /\ Goto(r, p) /\ p \notin Guarded
  /\ UNCHANGED <<rides, waitOn, clientVars, deferredCurlResetGen, switches>>
  /\ \A q \in Reqs \ {r} : gen'[q] = gen[q]
  /\ pc[r] \in OnAlt \/ load' >= load
  /\ p \in OnAlt => pc[r] \in OnAlt \/ kind[r].route = "alt"

\* or touch neither
Still == UNCHANGED <<pc, gen, rides, waitOn, load, clientVars, deferredCurlResetGen, switches>>

\* every step is one of these, or one of the actions that need their own argument
StepShape ==
  \/ \E r \in Reqs : \E p \in Places : Calm(r, p)
  \/ \E r \in Reqs : \E n \in Nat : \E d \in Nat \cup {NoGen} : n >= 1 /\ Leaves(r, n, d)
  \/ \E r \in Reqs : Prepare(r) \/ Dispatch(r) \/ Retry(r) \/ (AttemptFails(r) /\ ~Microtasks)
  \/ \E i \in 1..Len(inits) : InitSettles(i)
  \/ SetPrimaryWisp \/ SwitchEngine \/ Still

LEMMA LeavesShape ==
  ASSUME TypeOK, LoadCountsInFlight, NEW r \in Reqs, NEW n, NEW d, Leaves(r, n, d)
  PROVE  StepShape
<1>0. load \in Nat /\ (pc[r] \in Counted => load >= 1)
  BY CountedIsPositive DEF TypeOK
<1>1. n \in Nat /\ n >= 1
  BY <1>0 DEF Leaves
<1>2. d \in Nat \cup {NoGen}
  BY DEF Leaves, TypeOK
<1> QED BY <1>1, <1>2 DEF StepShape

LEMMA CalmShape ==
  ASSUME TypeOK, NEW r \in Reqs, NEW p, Calm(r, p), p \in Places
  PROVE  StepShape
  BY DEF StepShape

LEMMA Shapes == IInv /\ [Next]_vars => StepShape
<1> SUFFICES ASSUME IInv, [Next]_vars PROVE StepShape
  OBVIOUS
<1> USE DEF IInv
<1>0. load \in Nat
  BY DEF TypeOK
<1>1. ASSUME NEW r \in Reqs, Resume(r) PROVE StepShape
  <2>1. CASE EnterWisp(r)
    <3>1. \/ Calm(r, "entered") \/ Calm(r, "coolRelay")
          \/ Leaves(r, load + 1, deferredCurlResetGen)
      BY <1>0, <2>1 DEF EnterWisp, Calm, Leaves, Guarded, OnAlt, Settled
    <3> QED BY <3>1, CalmShape, LeavesShape DEF Places, Counted
  <2>2. CASE PrepareFails(r)
    <3>1. Leaves(r, load, deferredCurlResetGen)
      BY <2>2 DEF PrepareFails, LeaveWisp, Leaves, Settled, Counted
    <3> QED BY <3>1, LeavesShape
  <2>3. CASE RetryRefused(r)
    <3>1. Leaves(r, load, deferredCurlResetGen)
      BY <2>3 DEF RetryRefused, LeaveWisp, Leaves, Settled, Counted
    <3> QED BY <3>1, LeavesShape
  <2> QED BY <1>1, <2>1, <2>2, <2>3 DEF Resume, StepShape
<1>2. ASSUME NEW r \in Reqs, Event(r), ~Microtasks PROVE StepShape
  <2>1. CASE RouteRelay(r) \/ RelayAnswers(r) \/ RouteDirect(r)
    <3>1. Calm(r, "relay") \/ Calm(r, "fallback") \/ Calm(r, "failed") \/ Calm(r, "answered")
      BY <1>0, <2>1 DEF RouteRelay, RelayAnswers, RouteDirect, Calm, Guarded, OnAlt
    <3> QED BY <3>1, CalmShape DEF Places, Settled
  <2>2. CASE RouteAlt(r)
    <3>1. Calm(r, "altAttempt") \/ Calm(r, "failed") \/ Calm(r, "fallback")
      BY <1>0, <2>2 DEF RouteAlt, LeaveAltOf, TypeOK, Calm, Guarded, OnAlt
    <3> QED BY <3>1, CalmShape DEF Places, Settled, Counted
  <2>3. CASE AltAnswers(r) \/ AltErrs(r) \/ AltFailsTerminally(r)
    <3>1. Calm(r, "answered") \/ Calm(r, "failed") \/ Calm(r, "fallback")
      BY <2>3 DEF AltAnswers, AltErrs, AltFailsTerminally, Calm, Guarded, OnAlt
    <3> QED BY <3>1, CalmShape DEF Places, Settled
  <2>4. CASE AltRetries(r) \/ AltRetrySettles(r)
    <3>1. Calm(r, "altRetry") \/ Calm(r, "answered") \/ Calm(r, "failed") \/ Calm(r, "fallback")
      BY <2>4 DEF AltRetries, AltRetrySettles, Calm, Guarded, OnAlt
    <3> QED BY <3>1, CalmShape DEF Places, Settled
  <2>5. CASE CoolRelayDeclines(r)
    <3>1. Calm(r, "entered")
      BY <1>0, <2>5 DEF CoolRelayDeclines, Calm, Guarded, OnAlt
    <3> QED BY <3>1, CalmShape DEF Places, Counted
  <2>6. CASE CoolRelaySettles(r) \/ CoolRelayStalls(r)
    <3>1. Leaves(r, load, deferredCurlResetGen)
      BY <2>6 DEF CoolRelaySettles, CoolRelayStalls, LeaveWisp, Leaves, Settled, Counted
    <3> QED BY <3>1, LeavesShape
  <2>7. CASE AttemptAnswers(r) \/ AttemptErrs(r)
    <3>1. Leaves(r, load, deferredCurlResetGen)
      BY <2>7 DEF AttemptAnswers, AttemptErrs, LeaveWisp, Leaves, Settled, Counted
    <3> QED BY <3>1, LeavesShape
  <2>8. CASE AttemptFailsTerminally(r)
    <3>1. Leaves(r, load, gen[r])
      BY <2>8 DEF AttemptFailsTerminally, LeaveWisp, Leaves, Settled, Counted
    <3> QED BY <3>1, LeavesShape
  <2>9. CASE RetrySettles(r)
    <3>1. Leaves(r, load, deferredCurlResetGen)
      BY <2>9 DEF RetrySettles, LeaveWisp, Leaves, Settled, Counted
    <3> QED BY <3>1, LeavesShape
  <2> QED BY <1>2, <2>1, <2>2, <2>3, <2>4, <2>5, <2>6, <2>7, <2>8, <2>9 DEF Event, StepShape
<1>3. ASSUME NEW r \in Reqs, Accept(r) PROVE StepShape
  <2>1. Calm(r, "start")
    BY <1>0, <1>3 DEF Accept, Calm, Guarded, OnAlt
  <2> QED BY <2>1, CalmShape DEF Places, Counted
<1>4. ASSUME NEW r \in Reqs, Abort(r) PROVE Still
  BY <1>4 DEF Abort, Still
<1>5. StallAges \/ CooldownExpires \/ UNCHANGED vars => Still
  BY DEF StallAges, CooldownExpires, vars, Still, reqVars, clientVars
<1> QED BY <1>1, <1>2, <1>3, <1>4, <1>5 DEF Next, Step, Settling, Quiescent, StepShape

\* when the last one leaves, nobody else is inside
LEMMA LastLeaves ==
  ASSUME TypeOK, LoadCountsInFlight, NEW r \in Reqs, NEW n, NEW d, Leaves(r, n, d), n = 1
  PROVE  \A q \in Reqs \ {r} : pc[q] \notin Counted
<1> SUFFICES ASSUME NEW q \in Reqs \ {r}, pc[q] \in Counted PROVE FALSE
  OBVIOUS
<1>1. load \in Nat /\ load >= 1 /\ load = Cardinality(InFlight)
  BY CountedIsPositive DEF LoadCountsInFlight
<1>2. pc[r] \in Counted /\ load = 1
  BY <1>1 DEF Leaves
<1>3. {r, q} \subseteq InFlight /\ IsFiniteSet(InFlight)
  BY <1>2, ReqsAssumption, FS_Subset DEF InFlight
<1>4. Cardinality({r, q}) = 2
  <2>1. {r, q} = {r} \cup {q} /\ q \notin {r} /\ IsFiniteSet({r}) /\ Cardinality({r}) = 1
    BY FS_Singleton
  <2> QED BY <2>1, FS_AddElement
<1>5. Cardinality({r, q}) <= Cardinality(InFlight)
  BY <1>3, FS_Subset
<1> QED BY <1>1, <1>2, <1>4, <1>5

\* once the memoised init succeeded, nothing is pending and no reset is under way
LEMMA ReadyIsCalm ==
  ASSUME TypeOK, ClientsInv, Ready
  PROVE  /\ \A i \in 1..Len(inits) : inits[i] # "pending"
         /\ curlResetInflight = 0
  BY DEF TypeOK, ClientsInv, Ready

\* a fresh reset that leaves no deferred reset behind but an older one
LEMMA FreshResetKeepsClients ==
  ASSUME TypeOK, ClientsInv, Ready, FreshReset,
         deferredCurlResetGen' \in {deferredCurlResetGen, NoGen}
  PROVE  ClientsInv' /\ curlGeneration' = curlGeneration + 1
<1>1. curlGeneration \in Nat /\ Len(inits) \in Nat
  BY DEF TypeOK
<1>2. /\ Len(inits') = Len(inits) + 1 /\ inits'[Len(inits) + 1] = "pending"
      /\ \A i \in 1..Len(inits) : inits'[i] = inits[i]
  BY DEF TypeOK, FreshReset
<1>3. \A i \in 1..Len(inits') : inits'[i] = "pending" => i = curlReady'
  BY <1>1, <1>2, ReadyIsCalm DEF FreshReset
<1>4. curlResetInflight' # 0 => inits'[curlResetInflight'] = "pending"
  BY <1>2 DEF FreshReset
<1>5. Owed(deferredCurlResetGen)'
  BY <1>1, NoGenAssumption DEF ClientsInv, Owed, FreshReset
<1> QED BY <1>3, <1>4, <1>5 DEF ClientsInv, FreshReset

\* requests that do not move keep their part while the client stands still
LEMMA OthersKeepPlace ==
  ASSUME NEW q \in Reqs, PlaceInv(q), UNCHANGED clientVars,
         pc'[q] = pc[q], gen'[q] = gen[q], rides'[q] = rides[q], waitOn'[q] = waitOn[q]
  PROVE  PlaceInv(q)'
  BY DEF PlaceInv, clientVars, Owed, Ready

LEMMA CalmKeepsGen ==
  ASSUME TypeOK, GenInv, NEW r \in Reqs, NEW p, Calm(r, p)
  PROVE  GenInv'
<1>1. ClientsInv'
  BY DEF GenInv, ClientsInv, Calm, clientVars, Owed, Ready
<1>2. PlaceInv(r)'
  BY DEF TypeOK, Calm, Goto, PlaceInv, Guarded
<1>3. ASSUME NEW q \in Reqs \ {r} PROVE PlaceInv(q)'
  <2>1. pc'[q] = pc[q] /\ gen'[q] = gen[q] /\ rides'[q] = rides[q] /\ waitOn'[q] = waitOn[q]
    BY DEF TypeOK, Calm, Goto
  <2> QED BY <2>1, OthersKeepPlace DEF GenInv, Calm
<1> QED BY <1>1, <1>2, <1>3 DEF GenInv

LEMMA LeavingKeepsGen ==
  ASSUME TypeOK, LoadCountsInFlight, GenInv, NEW r \in Reqs, NEW n \in Nat,
         NEW d \in Nat \cup {NoGen}, Leaves(r, n, d)
  PROVE  GenInv'
<1>0. Owed(d)
  BY DEF Leaves, GenInv, ClientsInv, PlaceInv
<1>1. PICK p \in Settled : Goto(r, p)
  BY DEF Leaves
<1>2. pc'[r] = p /\ (\A q \in Reqs \ {r} : pc'[q] = pc[q])
  BY <1>1 DEF TypeOK, Goto
<1>3. PlaceInv(r)'
  BY <1>2 DEF PlaceInv, Settled
<1>4. CASE n = 1 /\ d # NoGen /\ FreshReset /\ Ready
  <2>1. deferredCurlResetGen' = NoGen
    BY <1>4 DEF Leaves, LeaveWispOf
  <2>2. \A q \in Reqs \ {r} : pc[q] \notin Counted
    BY <1>4, LastLeaves
  <2>3. \A q \in Reqs \ {r} : PlaceInv(q)'
    BY <1>2, <2>2 DEF PlaceInv, Counted
  <2>4. ClientsInv'
    BY <1>4, <2>1, FreshResetKeepsClients DEF GenInv
  <2> QED BY <1>3, <2>3, <2>4 DEF GenInv
<1>5. CASE UNCHANGED clientVars /\ deferredCurlResetGen' \in {d, NoGen}
  <2>1. ClientsInv'
    BY <1>0, <1>5 DEF GenInv, ClientsInv, clientVars, Owed, Ready
  <2>2. ASSUME NEW q \in Reqs \ {r} PROVE PlaceInv(q)'
    BY <1>2, <1>5, OthersKeepPlace DEF GenInv, Leaves
  <2> QED BY <1>3, <2>1, <2>2 DEF GenInv
<1>6. \/ n = 1 /\ d # NoGen /\ FreshReset /\ d = curlGeneration
      \/ UNCHANGED clientVars /\ deferredCurlResetGen' \in {d, NoGen}
  BY DEF Leaves, LeaveWispOf, SharedCurlReset
<1> QED BY <1>0, <1>4, <1>5, <1>6 DEF Owed

LEMMA PrepareKeepsGen ==
  ASSUME TypeOK, GenInv, NEW r \in Reqs, Prepare(r)
  PROVE  GenInv'
<1>1. /\ pc'[r] = "prepare" /\ waitOn'[r] = curlReady'
      /\ \A q \in Reqs \ {r} : pc'[q] = pc[q] /\ waitOn'[q] = waitOn[q]
  BY DEF TypeOK, Prepare, Goto
<1>2. PlaceInv(r)'
  BY <1>1 DEF PlaceInv
<1>3. CASE UNCHANGED <<inits, curlReady>>
  <2>1. UNCHANGED clientVars
    BY <1>3 DEF Prepare, clientVars
  <2>2. ClientsInv'
    BY <2>1 DEF GenInv, ClientsInv, Prepare, clientVars, Owed, Ready
  <2>3. \A q \in Reqs \ {r} : PlaceInv(q)'
    BY <1>1, <2>1, OthersKeepPlace DEF GenInv, Prepare
  <2> QED BY <1>2, <2>2, <2>3 DEF GenInv
<1>4. CASE curlReady = 0 /\ inits' = Append(inits, "pending") /\ curlReady' = Len(inits) + 1
  <2>0. Len(inits) \in Nat
    BY DEF TypeOK
  <2>1. /\ Len(inits') = Len(inits) + 1 /\ inits'[Len(inits) + 1] = "pending"
        /\ \A i \in 1..Len(inits) : inits'[i] = inits[i] /\ inits[i] # "pending"
    BY <1>4 DEF TypeOK, GenInv, ClientsInv
  <2>2. \A i \in 1..Len(inits') : inits'[i] = "pending" => i = curlReady'
    BY <1>4, <2>0, <2>1
  <2>3. curlResetInflight' = 0
    BY <2>0, <2>1 DEF TypeOK, GenInv, ClientsInv, Prepare
  <2>4. \A g : Owed(g) => Owed(g)'
    BY <1>4 DEF Owed, Ready, Prepare
  <2>5. ClientsInv'
    BY <2>2, <2>3, <2>4 DEF GenInv, ClientsInv, Prepare
  <2>6. ASSUME NEW q \in Reqs \ {r} PROVE PlaceInv(q)'
    <3>1. PlaceInv(q) /\ (pc[q] = "prepare" => waitOn[q] \in 1..Len(inits))
      BY DEF GenInv, TypeOK
    <3>2. pc[q] = "prepare" => inits'[waitOn[q]] = "failed"
      BY <1>4, <2>1, <3>1 DEF PlaceInv
    <3>3. pc'[q] = "attempt" => Owed(gen[q])'
      BY <1>1, <1>4, <3>1 DEF PlaceInv, Owed, Ready, Prepare
    <3> QED BY <1>1, <3>1, <3>2, <3>3 DEF PlaceInv, Prepare
  <2> QED BY <1>2, <2>5, <2>6 DEF GenInv
<1> QED BY <1>3, <1>4 DEF Prepare, EnsureCurl

LEMMA DispatchKeepsGen ==
  ASSUME TypeOK, GenInv, NEW r \in Reqs, Dispatch(r)
  PROVE  GenInv'
<1>1. /\ pc'[r] = "attempt" /\ gen'[r] = curlGeneration /\ rides'[r] = wispGeneration
      /\ \A q \in Reqs \ {r} : pc'[q] = pc[q] /\ gen'[q] = gen[q] /\ rides'[q] = rides[q]
  BY DEF TypeOK, Dispatch, Goto
<1>2. ClientsInv'
  BY DEF GenInv, ClientsInv, Dispatch, clientVars, Owed, Ready
<1>3. Ready /\ curlGeneration \in Nat
  BY DEF Dispatch, GenInv, PlaceInv, Ready, TypeOK
<1>4. PlaceInv(r)'
  BY <1>1, <1>3 DEF PlaceInv, GenInv, ClientsInv, Owed, Ready, Dispatch, clientVars
<1>5. \A q \in Reqs \ {r} : PlaceInv(q)'
  BY <1>1, OthersKeepPlace DEF GenInv, Dispatch
<1> QED BY <1>2, <1>4, <1>5 DEF GenInv

LEMMA RetryKeepsGen ==
  ASSUME TypeOK, GenInv, NEW r \in Reqs, Retry(r)
  PROVE  GenInv'
<1>1. /\ pc'[r] = "retry" /\ gen'[r] = gen[r] /\ rides'[r] = wispGeneration
      /\ \A q \in Reqs \ {r} : pc'[q] = pc[q] /\ gen'[q] = gen[q] /\ rides'[q] = rides[q]
  BY DEF TypeOK, Retry, Goto
<1>2. ClientsInv'
  BY DEF GenInv, ClientsInv, Retry, clientVars, Owed, Ready
<1>3. gen[r] \in Nat /\ curlGeneration \in Nat /\ gen[r] < curlGeneration /\ wispGeneration = curlGeneration
  BY DEF Retry, GenInv, ClientsInv, PlaceInv, TypeOK
<1>4. PlaceInv(r)'
  BY <1>1, <1>3 DEF PlaceInv
<1>5. \A q \in Reqs \ {r} : PlaceInv(q)'
  BY <1>1, OthersKeepPlace DEF GenInv, Retry
<1> QED BY <1>2, <1>4, <1>5 DEF GenInv

\* the failure that resets served the current client, so nobody waits for an init
LEMMA FailingKeepsGen ==
  ASSUME TypeOK, GenInv, NEW r \in Reqs, AttemptFails(r), ~Microtasks
  PROVE  GenInv'
<1>1. /\ pc'[r] \in {"resetting", "joining"} /\ gen'[r] = gen[r]
      /\ \A q \in Reqs \ {r} : pc'[q] = pc[q] /\ waitOn'[q] = waitOn[q]
                               /\ gen'[q] = gen[q] /\ rides'[q] = rides[q]
  BY DEF TypeOK, AttemptFails, Goto
<1>2. Owed(gen[r]) /\ gen[r] \in Nat /\ curlGeneration \in Nat /\ gen[r] # NoGen
  BY NoGenAssumption DEF AttemptFails, GenInv, PlaceInv, TypeOK
<1>3. CASE gen[r] = curlGeneration
  <2>1. Ready
    BY <1>2, <1>3 DEF Owed
  <2>2. FreshReset /\ curlGeneration' = curlGeneration + 1 /\ ClientsInv'
    BY <1>3, <2>1, ReadyIsCalm, FreshResetKeepsClients DEF GenInv, AttemptFails, SharedCurlReset
  <2>3. ASSUME NEW q \in Reqs \ {r} PROVE PlaceInv(q)'
    <3>1. PlaceInv(q) /\ gen[q] \in Nat /\ (pc[q] = "prepare" => waitOn[q] \in 1..Len(inits))
      BY DEF GenInv, TypeOK
    <3>2. pc[q] = "prepare" => inits[waitOn[q]] = "failed"
      <4>1. pc[q] = "prepare" => inits[waitOn[q]] = "pending"
                              \/ inits[waitOn[q]] = "failed"
        BY DEF Microtasks, Resumable
      <4> QED BY <2>1, <3>1, <4>1, ReadyIsCalm DEF GenInv
    <3>3. pc[q] = "prepare" => inits'[waitOn[q]] = inits[waitOn[q]]
      BY <2>2, <3>1 DEF FreshReset, TypeOK
    <3>4. pc'[q] = "attempt" => Owed(gen[q])'
      BY <1>1, <1>2, <2>2, <3>1 DEF PlaceInv, Owed
    <3>5. pc'[q] \in {"resetting", "joining"} => gen'[q] < curlGeneration'
      BY <1>1, <1>2, <2>2, <3>1 DEF PlaceInv
    <3> QED BY <1>1, <3>1, <3>2, <3>3, <3>4, <3>5 DEF PlaceInv
  <2>4. PlaceInv(r)'
    BY <1>1, <1>2, <1>3, <2>2 DEF PlaceInv
  <2> QED BY <2>2, <2>3, <2>4 DEF GenInv
<1>4. CASE gen[r] # curlGeneration
  <2>1. UNCHANGED clientVars /\ gen[r] < curlGeneration
    BY <1>2, <1>4 DEF AttemptFails, SharedCurlReset, Owed
  <2>2. ClientsInv'
    BY <2>1 DEF GenInv, ClientsInv, AttemptFails, clientVars, Owed, Ready
  <2>3. PlaceInv(r)'
    BY <1>1, <2>1 DEF PlaceInv, clientVars
  <2>4. \A q \in Reqs \ {r} : PlaceInv(q)'
    BY <1>1, <2>1, OthersKeepPlace DEF GenInv
  <2> QED BY <2>2, <2>3, <2>4 DEF GenInv
<1> QED BY <1>3, <1>4

\* the init that settles is the memoised one, so no reset is under way after it
LEMMA SettlingKeepsGen ==
  ASSUME TypeOK, GenInv, NEW i \in 1..Len(inits), InitSettles(i)
  PROVE  GenInv'
<1>1. i = curlReady /\ ~Ready
  BY DEF InitSettles, GenInv, ClientsInv, Ready
<1>2. /\ \A j \in 1..Len(inits) \ {i} : inits'[j] = inits[j] /\ inits[j] # "pending"
      /\ Len(inits') = Len(inits) /\ inits'[i] # "pending"
      /\ inits'[i] = "ok" => curlReady' = curlReady
  BY <1>1 DEF InitSettles, TypeOK, GenInv, ClientsInv
<1>3. curlResetInflight' = 0
  BY <1>2 DEF InitSettles, TypeOK, GenInv, ClientsInv
<1>4. \A g : Owed(g) => Owed(g)'
  BY <1>1 DEF Owed, InitSettles
<1>5. ClientsInv'
  BY <1>2, <1>3, <1>4 DEF ClientsInv, GenInv, InitSettles
<1>6. ASSUME NEW q \in Reqs PROVE PlaceInv(q)'
  <2>1. PlaceInv(q) /\ UNCHANGED <<pc, gen, rides, waitOn, curlGeneration>>
        /\ (pc[q] = "prepare" => waitOn[q] \in 1..Len(inits))
    BY DEF GenInv, InitSettles, reqVars, TypeOK
  <2>2. pc[q] = "prepare" /\ inits'[waitOn[q]] # "failed" => waitOn[q] = curlReady'
    <3>1. CASE waitOn[q] = i
      BY <1>1, <2>1, <3>1 DEF InitSettles, TypeOK
    <3>2. CASE waitOn[q] # i
      BY <1>1, <1>2, <2>1, <3>2 DEF PlaceInv
    <3> QED BY <3>1, <3>2
  <2>3. pc[q] = "attempt" => Owed(gen[q])'
    BY <1>4, <2>1 DEF PlaceInv
  <2> QED BY <2>1, <2>2, <2>3 DEF PlaceInv
<1> QED BY <1>5, <1>6 DEF GenInv

LEMMA StillKeepsGen ==
  ASSUME GenInv, Still
  PROVE  GenInv'
<1>1. ClientsInv'
  BY DEF GenInv, ClientsInv, Still, clientVars, Owed, Ready
<1>2. \A q \in Reqs : PlaceInv(q)'
  BY OthersKeepPlace DEF GenInv, Still
<1> QED BY <1>1, <1>2 DEF GenInv

LEMMA GenStep == IInv /\ GenInv /\ [Next]_vars /\ NoSwitches /\ NoSwitches' => GenInv'
<1> SUFFICES ASSUME IInv, GenInv, [Next]_vars, NoSwitches, NoSwitches' PROVE GenInv'
  OBVIOUS
<1>1. TypeOK /\ LoadCountsInFlight /\ StepShape
  BY Shapes DEF IInv
<1>2. ~SetPrimaryWisp /\ ~SwitchEngine
  BY DEF NoSwitches, SetPrimaryWisp, SwitchEngine
<1> QED BY <1>1, <1>2, CalmKeepsGen, LeavingKeepsGen, PrepareKeepsGen, DispatchKeepsGen,
           RetryKeepsGen, FailingKeepsGen, SettlingKeepsGen, StillKeepsGen DEF StepShape

LEMMA InitGen == Init => GenInv
  BY DEF Init, GenInv, ClientsInv, PlaceInv, Owed

\* a step that fails an attempt for a retry is AttemptFails of that request
LEMMA OnlyFailingResets ==
  ASSUME TypeOK, StepShape, NEW r \in Reqs, pc[r] = "attempt",
         pc'[r] \in {"resetting", "joining"}
  PROVE  AttemptFails(r)
<1>1. ASSUME NEW q \in Reqs, NEW p, Goto(q, p), p \notin {"resetting", "joining"}
      PROVE  FALSE
  BY <1>1 DEF Goto, TypeOK
<1>2. ASSUME NEW q \in Reqs, AttemptFails(q) PROVE q = r
  BY <1>2 DEF AttemptFails, Goto, TypeOK
<1>3. pc' # pc
  BY DEF TypeOK
<1>4. ASSUME NEW q \in Reqs, NEW p, Calm(q, p) PROVE FALSE
  BY <1>1, <1>4 DEF Calm, Guarded
<1>5. ASSUME NEW q \in Reqs, NEW n, NEW d, Leaves(q, n, d) PROVE FALSE
  BY <1>1, <1>5 DEF Leaves, Settled
<1>6. ASSUME NEW q \in Reqs, Prepare(q) \/ Dispatch(q) \/ Retry(q) PROVE FALSE
  BY <1>1, <1>6 DEF Prepare, Dispatch, Retry
<1>7. ASSUME (\E i \in 1..Len(inits) : InitSettles(i)) \/ SetPrimaryWisp \/ SwitchEngine \/ Still
      PROVE  FALSE
  BY <1>3, <1>7 DEF InitSettles, SetPrimaryWisp, SwitchEngine, Still, reqVars
<1> QED BY <1>2, <1>4, <1>5, <1>6, <1>7 DEF StepShape

\* While the endpoint and the engine stay as they are, a retry rides a newer
\* client than the one that failed it, and a late failure resets no newer client.
THEOREM ResetsByGeneration == Spec /\ []NoSwitches => ResetsKeepToTheirGeneration
<1>1. IInv /\ [Next]_vars => IInv'
  BY TypeStep, LoadStep, DispatchStep DEF IInv
<1>2. GenInv => RetryOnFreshClient
  BY DEF GenInv, PlaceInv, RetryOnFreshClient
<1>3. IInv /\ GenInv /\ [Next]_vars =>
        [\A r \in Reqs :
           pc[r] = "attempt" /\ pc'[r] \in {"resetting", "joining"}
             => wispGeneration' = wispGeneration \/ rides[r] = wispGeneration]_vars
  <2> SUFFICES ASSUME IInv, GenInv, [Next]_vars, NEW r \in Reqs, pc[r] = "attempt",
                      pc'[r] \in {"resetting", "joining"}
               PROVE  wispGeneration' = wispGeneration \/ rides[r] = wispGeneration
    OBVIOUS
  <2>1. AttemptFails(r)
    BY Shapes, OnlyFailingResets DEF IInv
  <2>2. rides[r] = gen[r] /\ wispGeneration = curlGeneration
    BY DEF GenInv, PlaceInv, ClientsInv
  <2> QED BY <2>1, <2>2 DEF AttemptFails, SharedCurlReset, clientVars
<1> QED BY InitIInv, InitGen, GenStep, <1>1, <1>2, <1>3, PTL
        DEF Spec, ResetsKeepToTheirGeneration, LateFailureKeepsFreshClient

--------------------------------------------------------------------------------
(* The deferred reset. *)

\* with nothing in flight no reset is due, and nobody is on the secondary client
DueInv == DeferredCurlResetRuns /\ \A r \in Reqs : pc[r] \notin OnAlt

LEMMA DueStep == IInv /\ DueInv /\ [Next]_vars /\ NoneOnAlt => DueInv'
<1> SUFFICES ASSUME IInv, DueInv, [Next]_vars, NoneOnAlt PROVE DueInv'
  OBVIOUS
<1>1. TypeOK /\ LoadCountsInFlight /\ StepShape /\ load \in Nat
  BY Shapes DEF IInv, TypeOK
<1>2. ASSUME NEW r \in Reqs, NEW p, Goto(r, p), p \notin OnAlt
      PROVE  \A q \in Reqs : pc'[q] \notin OnAlt
  BY <1>1, <1>2 DEF TypeOK, Goto, DueInv
<1>3. ASSUME NEW r \in Reqs, NEW p, Calm(r, p) PROVE DueInv'
  <2>1. p \notin OnAlt /\ load' >= load
    BY <1>3 DEF Calm, DueInv, NoneOnAlt
  <2>2. load' = 0 => load = 0
    BY <1>1, <2>1
  <2> QED BY <1>2, <1>3, <2>1, <2>2 DEF Calm, DueInv, DeferredCurlResetRuns
<1>4. ASSUME NEW r \in Reqs, NEW n \in Nat, NEW d, Leaves(r, n, d) PROVE DueInv'
  <2>1. DeferredCurlResetRuns'
    BY <1>4 DEF Leaves, LeaveWispOf, DeferredCurlResetRuns
  <2>2. \E p \in Settled : Goto(r, p)
    BY <1>4 DEF Leaves
  <2> QED BY <1>2, <2>1, <2>2 DEF DueInv, Settled, OnAlt
<1>5. ASSUME NEW r \in Reqs, Prepare(r) \/ Dispatch(r) \/ Retry(r) \/ AttemptFails(r)
      PROVE  DueInv'
  <2>1. \E p \in {"prepare", "attempt", "retry", "resetting", "joining"} : Goto(r, p)
    BY <1>5 DEF Prepare, Dispatch, Retry, AttemptFails
  <2>2. UNCHANGED <<load, deferredCurlResetGen>>
    BY <1>5 DEF Prepare, Dispatch, Retry, AttemptFails
  <2> QED BY <1>2, <2>1, <2>2 DEF DueInv, DeferredCurlResetRuns, OnAlt
<1>6. ASSUME UNCHANGED <<pc, load, deferredCurlResetGen>> PROVE DueInv'
  BY <1>6 DEF DueInv, DeferredCurlResetRuns
<1> QED BY <1>1, <1>3, <1>4, <1>5, <1>6
        DEF StepShape, InitSettles, SetPrimaryWisp, SwitchEngine, Still, reqVars

\* a reset drops the client only for a failing request or when nobody rides it
LEMMA WaitsStep ==
  ASSUME IInv, [Next]_vars, wispGeneration' > wispGeneration, switches' = switches
  PROVE  \/ \E r \in Reqs : pc[r] = "attempt" /\ pc'[r] = "resetting"
         \/ \A r \in Reqs : pc'[r] \notin Riding
<1>1. TypeOK /\ LoadCountsInFlight /\ StepShape /\ wispGeneration \in Nat /\ switches \in Nat
  BY Shapes DEF IInv, TypeOK
<1>2. wispGeneration' # wispGeneration
  BY <1>1
<1>3. ASSUME NEW r \in Reqs, NEW n \in Nat, NEW d, Leaves(r, n, d)
      PROVE  \A q \in Reqs : pc'[q] \notin Riding
  <2>1. n = 1
    BY <1>2, <1>3 DEF Leaves, LeaveWispOf, clientVars
  <2>2. \A q \in Reqs \ {r} : pc[q] \notin Counted
    BY <1>1, <1>3, <2>1, LastLeaves
  <2>3. PICK p \in Settled : Goto(r, p)
    BY <1>3 DEF Leaves
  <2> QED BY <1>1, <2>2, <2>3 DEF TypeOK, Goto, Counted, Riding, Settled
<1>4. ASSUME NEW r \in Reqs, AttemptFails(r)
      PROVE  pc[r] = "attempt" /\ pc'[r] = "resetting"
  <2>1. gen[r] = curlGeneration
    BY <1>2, <1>4 DEF AttemptFails, SharedCurlReset, clientVars
  <2> QED BY <1>1, <1>4, <2>1 DEF AttemptFails, Goto, TypeOK
<1>5. ~SetPrimaryWisp
  BY <1>1 DEF SetPrimaryWisp
<1>6. ASSUME UNCHANGED wispGeneration PROVE FALSE
  BY <1>2, <1>6
<1> QED BY <1>1, <1>3, <1>4, <1>5, <1>6
        DEF StepShape, Calm, Prepare, Dispatch, Retry, InitSettles, SwitchEngine, Still, clientVars

\* While no request takes the secondary client, a reset that no retry asked for
\* kills nothing in flight and is not forgotten once nothing is.
THEOREM DeferredResetTimely == Spec /\ []NoneOnAlt => DeferredResetIsTimely
<1>1. IInv /\ [Next]_vars => IInv'
  BY TypeStep, LoadStep, DispatchStep DEF IInv
<1>2. Init => DueInv
  BY DEF Init, DueInv, DeferredCurlResetRuns, OnAlt
<1>3. DueInv => DeferredCurlResetRuns
  BY DEF DueInv
<1>4. IInv /\ [Next]_vars =>
        [wispGeneration' > wispGeneration /\ switches' = switches
           => \/ \E r \in Reqs : pc[r] = "attempt" /\ pc'[r] = "resetting"
              \/ \A r \in Reqs : pc'[r] \notin Riding]_vars
  BY WaitsStep
<1> QED BY InitIInv, <1>1, <1>2, DueStep, <1>3, <1>4, PTL
        DEF Spec, DeferredResetIsTimely, DeferredCurlResetWaits

================================================================================
