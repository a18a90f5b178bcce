-------------------------------- MODULE Delivery --------------------------------
(***************************************************************************)
(* What the request path promises for one request, whatever routes,        *)
(* retries, resets and fallbacks it goes through (delivery.ts, #454): a    *)
(* request that cannot be repeated is handed to an adapter again only if   *)
(* every earlier dispatch is proved undelivered; nobody dispatches for a   *)
(* caller that has gone; only a dispatched request is answered, and what   *)
(* was settled stays settled.                                              *)
(***************************************************************************)
EXTENDS Naturals

CONSTANTS Reqs,
          MaxDispatches  \* most dispatches any route allows one request

VARIABLES phase,       \* "idle", "active", "answered", "failed"
          repeatable,  \* idempotent method and replayable body
          gone,        \* the caller aborted
          unproved     \* dispatches not proved undelivered
vars == <<phase, repeatable, gone, unproved>>

Init ==
  /\ phase = [r \in Reqs |-> "idle"]
  /\ repeatable \in [Reqs -> BOOLEAN]
  /\ gone = [r \in Reqs |-> FALSE]
  /\ unproved = [r \in Reqs |-> 0]

Accept(r) ==
  /\ phase[r] = "idle"
  /\ phase' = [phase EXCEPT ![r] = "active"]
  /\ UNCHANGED <<repeatable, gone, unproved>>

Abort(r) ==
  /\ phase[r] = "active"
  /\ gone' = [gone EXCEPT ![r] = TRUE]
  /\ UNCHANGED <<phase, repeatable, unproved>>

\* deliveryAllowsReplay: nothing undisproved so far, or a repeatable request
AllowsReplay(r) == unproved[r] = 0 \/ repeatable[r]

Dispatch(r) ==
  /\ phase[r] = "active" /\ ~gone[r]
  /\ AllowsReplay(r)
  /\ unproved[r] < MaxDispatches
  /\ unproved' = [unproved EXCEPT ![r] = @ + 1]
  /\ UNCHANGED <<phase, repeatable, gone>>

\* the relay endpoint proves that the upstream never received the request
Disprove(r) ==
  /\ phase[r] = "active" /\ unproved[r] > 0
  /\ unproved' = [unproved EXCEPT ![r] = @ - 1]
  /\ UNCHANGED <<phase, repeatable, gone>>

Answer(r) ==
  /\ phase[r] = "active" /\ unproved[r] > 0
  /\ phase' = [phase EXCEPT ![r] = "answered"]
  /\ UNCHANGED <<repeatable, gone, unproved>>

Fail(r) ==
  /\ phase[r] = "active"
  /\ phase' = [phase EXCEPT ![r] = "failed"]
  /\ UNCHANGED <<repeatable, gone, unproved>>

Next == \E r \in Reqs : Accept(r) \/ Abort(r) \/ Dispatch(r) \/ Disprove(r) \/ Answer(r) \/ Fail(r)

Spec == Init /\ [][Next]_vars
================================================================================
