------------------------------- MODULE RouteKeys -------------------------------
(***************************************************************************)
(* The keys of the opaque routes (routekey.ts) and the half of routeRestore *)
(* that loads or mints them when a worker boots.  A route handed out under  *)
(* a key must stay decodable after every restart whose restore succeeds;    *)
(* reads and writes of the store fail, and a worker is killed at any step.  *)
(* One worker lives at a time: two that boot first together strand the key  *)
(* of one of them, which the README notes.                                  *)
(***************************************************************************)
EXTENDS Naturals, Sequences, SequencesExt

CONSTANTS Keys,
          NoKey,
          Limit,    \* KEY_HISTORY_LIMIT
          MaxLives  \* bound: boots

ASSUME RouteKeysAssumption == NoKey \notin Keys /\ Limit \in Nat \ {0} /\ MaxLives \in Nat

VARIABLES route,    \* the "route" record
          history,  \* the "history" record; NoKey when there is none
          stage,     \* where routeRestore is
          fresh,    \* the key it mints
          list,     \* the history it writes
          keys,     \* the decode set of the worker, newest first
          minted,   \* the keys routes were handed out under
          lives

keyVars == <<route, history, stage, fresh, list, keys, minted, lives>>
store == <<route, history>>

Steps == {"off", "loading", "retrying", "minting", "routing", "listing",
          "reading", "keyed", "legacy"}

KeysTypeOK ==
  /\ route \in Keys \cup {NoKey}
  /\ history = <<NoKey>> \/ (history \in Seq(Keys) /\ Len(history) <= Limit)
  /\ stage \in Steps /\ fresh \in Keys \cup {NoKey}
  /\ list \in Seq(Keys) /\ keys \in Seq(Keys)
  /\ minted \subseteq Keys /\ lives \in 0..MaxLives

\* A store of nothing, or the lone record of an engine without a history.
KeysInit ==
  /\ \E k \in Keys \cup {NoKey} :
       route = k /\ minted = (IF k = NoKey THEN {} ELSE {k})
  /\ history = <<NoKey>> /\ stage = "off" /\ fresh = NoKey
  /\ list = <<>> /\ keys = <<>> /\ lives = 0

Has == history # <<NoKey>>
\* What loadRouteHistory makes of the records: a lone one is a history of one.
Loaded == IF Has THEN history ELSE IF route # NoKey THEN <<route>> ELSE <<>>

\* setRouteKey and setRouteKeys: the first entry mints, all of them decode.
Keyed(ks) == stage' = "keyed" /\ keys' = ks

Boot ==
  /\ stage = "off" /\ lives < MaxLives /\ lives' = lives + 1
  /\ stage' = "loading"
  /\ UNCHANGED <<store, fresh, list, keys, minted>>

Restores(ks) ==
  /\ IF ks = <<>> THEN stage' = "minting" /\ keys' = keys ELSE Keyed(ks)
  /\ UNCHANGED <<store, fresh, list, minted, lives>>

Loads == stage \in {"loading", "retrying"} /\ Restores(Loaded)

\* A failed read is null: it is retried once, and then the codec stays off.
LoadFails ==
  /\ stage \in {"loading", "retrying"}
  /\ stage' = IF stage = "loading" THEN "retrying" ELSE "legacy"
  /\ UNCHANGED <<store, fresh, list, keys, minted, lives>>

\* saveRouteKey reads the stored list, and puts the key before it.
Mints ==
  /\ stage = "minting" /\ stage' = "routing"
  /\ \E k \in Keys \ (minted \cup {route} \cup (IF Has THEN ToSet(history) ELSE {})) :
       /\ fresh' = k
       /\ LET all == <<k>> \o (IF Has THEN history ELSE <<>>)
          IN list' = SubSeq(all, 1, IF Len(all) < Limit THEN Len(all) ELSE Limit)
  /\ UNCHANGED <<store, keys, minted, lives>>
\* Its two records are written by two transactions.
PutsRoute ==
  /\ stage = "routing" /\ stage' = "listing" /\ route' = fresh
  /\ UNCHANGED <<history, fresh, list, keys, minted, lives>>
PutsHistory ==
  /\ stage = "listing" /\ stage' = "reading" /\ history' = list /\ list' = <<>>
  /\ UNCHANGED <<route, fresh, keys, minted, lives>>
SaveFails ==
  /\ stage \in {"minting", "routing", "listing"} /\ stage' = "legacy"
  /\ fresh' = NoKey /\ list' = <<>>
  /\ UNCHANGED <<store, keys, minted, lives>>
\* The stored history is read again; when that fails the fresh key stands alone.
ReadsBack ==
  /\ stage = "reading"
  /\ Keyed(Loaded) \/ Keyed(<<fresh>>)
  /\ fresh' = NoKey
  /\ UNCHANGED <<store, list, minted, lives>>

\* encodePath: a route of the newest key reaches a page or the address bar.
HandsOut ==
  /\ stage = "keyed" /\ Head(keys) \notin minted
  /\ minted' = minted \cup {Head(keys)}
  /\ UNCHANGED <<store, stage, fresh, list, keys, lives>>

\* A write under way when the worker is killed lands or does not.
Killed ==
  /\ stage # "off" /\ stage' = "off"
  /\ \/ UNCHANGED store
     \/ stage = "routing" /\ route' = fresh /\ UNCHANGED history
     \/ stage = "listing" /\ history' = list /\ UNCHANGED route
  /\ fresh' = NoKey /\ list' = <<>> /\ keys' = <<>>
  /\ UNCHANGED <<minted, lives>>

KeysNext ==
  \/ Boot \/ Loads \/ LoadFails \/ Mints \/ PutsRoute \/ PutsHistory
  \/ SaveFails \/ ReadsBack \/ HandsOut \/ Killed

KeysSpec == KeysInit /\ [][KeysNext]_keyVars

-----------------------------------------------------------------------------
(* decodePath tries every key of the list: a worker whose restore succeeded *)
(* decodes each route handed out by it or by an earlier worker.             *)
RoutesStayDecodable == stage = "keyed" => minted \subseteq ToSet(keys)
================================================================================
