-------------------------------- MODULE Settings --------------------------------
(***************************************************************************)
(* The settings an embedder sends to the worker and the two Cache Storage  *)
(* entries that carry them over a worker restart: the route shape with the *)
(* wisp endpoints (request.ts routeRestore and persistRoute, control.ts    *)
(* zl:config, zl:wispPrimary, zl:wispRegister) and the engine choice       *)
(* (transport.ts engineReady, persistEngine and switchEngine).             *)
(*                                                                         *)
(* Both stores are read and written asynchronously while messages go on    *)
(* arriving; the worker may be killed at any step.                         *)
(***************************************************************************)
EXTENDS Naturals, Sequences

CONSTANTS
  Prefixes,        \* route prefixes an embedder may configure
  Primaries,       \* primary wisp endpoints
  Alts,            \* public wisp endpoints of the policy route "wisp"
  MaxMessages,     \* bound: messages that change a setting
  MaxKills         \* bound: worker restarts

ASSUME BoundsAssumption == MaxMessages \in Nat /\ MaxKills \in Nat

None == "none"              \* no override, no announced endpoint
Default == "/j/"            \* the build's prefix
Engines == {"libcurl", "epoxy"}

Shape == [prefix : Prefixes \cup {Default}, upgrade : BOOLEAN,
          primary : Primaries \cup {None}, alt : Alts \cup {None}]

\* the worker's memory when its modules are evaluated
Boot == [prefix |-> Default, upgrade |-> FALSE, primary |-> None, alt |-> None]
BootEngine == "libcurl"

NoEntry == [absent |-> TRUE]
NoEngine == "no entry"

VARIABLES
  live,          \* the settings in worker memory
  engine,
  route,         \* the entry of zeolite-route-v1
  engineEntry,   \* the entry of zeolite-engine-v1
  restore,       \* routeRestore: reading, read or done
  held,          \* what it read
  gate,          \* routeReady has resolved: messages are dispatched
  engineRestore, \* engineReadyPromise: none, reading, read or done
  engineHeld,
  writes,        \* persistRoute and persistEngine calls under way, in order
  acked,         \* ghost: what the embedder was last told of each setting
  ackedEngine,
  clean,         \* ghost: no write failed or died with its worker
  late,          \* ghost: a boot deadline passed before the restore was done
  messages, kills

memory  == <<live, engine, restore, held, gate, engineRestore, engineHeld, writes>>
ghosts  == <<acked, ackedEngine, clean, late>>
vars == <<live, engine, route, engineEntry, restore, held, gate, engineRestore, engineHeld,
          writes, acked, ackedEngine, clean, late, messages, kills>>

Init ==
  /\ live = Boot /\ engine = BootEngine
  /\ route = NoEntry /\ engineEntry = NoEngine
  /\ restore = "reading" /\ held = NoEntry /\ gate = FALSE
  /\ engineRestore = "none" /\ engineHeld = NoEngine
  /\ writes = <<>>
  /\ acked = Boot /\ ackedEngine = BootEngine
  /\ clean = TRUE /\ late = FALSE
  /\ messages = 0 /\ kills = 0

--------------------------------------------------------------------------------
(* Boot. *)

\* a storage error reads as no entry: the defaults stay
RestoreReads ==
  /\ restore = "reading"
  /\ restore' = "read"
  /\ \/ held' = route /\ UNCHANGED clean
     \/ held' = NoEntry /\ clean' = FALSE
  /\ UNCHANGED <<live, engine, route, engineEntry, gate, engineRestore, engineHeld, writes,
                 acked, ackedEngine, late, messages, kills>>

\* Mutant: the restore forgets the announced endpoint.
RestoredWithoutAlt(shape) ==
  [prefix |-> shape.prefix, upgrade |-> shape.upgrade, alt |-> live.alt,
   primary |-> IF shape.primary # None THEN shape.primary ELSE live.primary]

\* Prefix and knobs are set as stored, an endpoint only where the entry names one.
Restored(shape) ==
  [prefix  |-> shape.prefix,
   upgrade |-> shape.upgrade,
   primary |-> IF shape.primary # None THEN shape.primary ELSE live.primary,
   alt     |-> IF shape.alt # None THEN shape.alt ELSE live.alt]

\* routeRestore ends: the entry is applied over memory
RestoreApplies ==
  /\ restore = "read"
  /\ live' = IF held = NoEntry THEN live ELSE Restored(held)
  /\ restore' = "done" /\ held' = NoEntry /\ gate' = TRUE
  /\ UNCHANGED <<engine, route, engineEntry, engineRestore, engineHeld, writes, ghosts,
                 messages, kills>>

\* raceBoot: past its deadline the gate opens on the default settings
BootDeadline ==
  /\ ~gate
  /\ gate' = TRUE /\ late' = TRUE
  /\ UNCHANGED <<live, engine, route, engineEntry, restore, held, engineRestore, engineHeld,
                 writes, acked, ackedEngine, clean, messages, kills>>

\* engineReady(), called by the first ensureCurl or by a poll of zl:transport
EngineReadyStarts ==
  /\ gate /\ engineRestore = "none"
  /\ engineRestore' = "reading"
  /\ UNCHANGED <<live, engine, route, engineEntry, restore, held, gate, engineHeld, writes,
                 ghosts, messages, kills>>

EngineReads ==
  /\ engineRestore = "reading"
  /\ engineRestore' = "read"
  /\ \/ engineHeld' = engineEntry /\ UNCHANGED clean
     \/ engineHeld' = NoEngine /\ clean' = FALSE
  /\ UNCHANGED <<live, engine, route, engineEntry, restore, held, gate, writes,
                 acked, ackedEngine, late, messages, kills>>

EngineApplies ==
  /\ engineRestore = "read"
  /\ engine' = IF engineHeld = NoEngine THEN engine ELSE engineHeld
  /\ engineRestore' = "done" /\ engineHeld' = NoEngine
  /\ UNCHANGED <<live, route, engineEntry, restore, held, gate, writes, ghosts,
                 messages, kills>>

--------------------------------------------------------------------------------
(* Messages: the setting changes, the write starts, the embedder is answered. *)

Message == gate /\ messages < MaxMessages /\ messages' = messages + 1

\* persistRoute(currentPrefix()): the prefix is an argument, the rest is read
\* when the cache is open
PersistRoute(prefix) == writes' = Append(writes, [kind |-> "route", opened |-> FALSE,
                                                  body |-> [live' EXCEPT !.prefix = prefix]])

\* zl:config: a knob or prefix the message leaves out keeps its live value
Config ==
  /\ Message
  /\ \E p \in Prefixes \cup {live.prefix}, u \in BOOLEAN :
       /\ live' = [live EXCEPT !.prefix = p, !.upgrade = u]
       /\ acked' = [acked EXCEPT !.prefix = p, !.upgrade = u]
       /\ PersistRoute(p)
  /\ UNCHANGED <<engine, route, engineEntry, restore, held, gate, engineRestore, engineHeld,
                 ackedEngine, clean, late, kills>>

\* zl:wispPrimary: an unchanged endpoint is acknowledged and persisted all the same
WispPrimary ==
  /\ Message
  /\ \E e \in Primaries \cup {None} :
       /\ live' = [live EXCEPT !.primary = e]
       /\ acked' = [acked EXCEPT !.primary = e]
       /\ PersistRoute(live.prefix)
  /\ UNCHANGED <<engine, route, engineEntry, restore, held, gate, engineRestore, engineHeld,
                 ackedEngine, clean, late, kills>>

WispRegister ==
  /\ Message
  /\ \E a \in Alts \cup {None} :
       /\ live' = [live EXCEPT !.alt = a]
       /\ acked' = [acked EXCEPT !.alt = a]
       /\ PersistRoute(live.prefix)
  /\ UNCHANGED <<engine, route, engineEntry, restore, held, gate, engineRestore, engineHeld,
                 ackedEngine, clean, late, kills>>

\* zl:transport with an engine: it does not wait for engineReady
SwitchEngine ==
  /\ Message
  /\ \E e \in Engines :
       /\ engine' = e /\ ackedEngine' = e
       /\ writes' = Append(writes, [kind |-> "engine", opened |-> FALSE, body |-> e])
  /\ UNCHANGED <<live, route, engineEntry, restore, held, gate, engineRestore, engineHeld,
                 acked, clean, late, kills>>

--------------------------------------------------------------------------------
(* Writes: caches.open, then put; both keep their order of call. *)

\* the entry's text is composed from memory as it is when the cache is open
Opened(w) == [w EXCEPT !.opened = TRUE,
                       !.body = IF w.kind = "route" THEN [live EXCEPT !.prefix = w.body.prefix]
                                ELSE @]

WriteOpens ==
  /\ \E i \in 1..Len(writes) :
       /\ ~writes[i].opened
       /\ \A j \in 1..(i - 1) : writes[j].opened
       /\ writes' = [writes EXCEPT ![i] = Opened(writes[i])]
  /\ UNCHANGED <<live, engine, route, engineEntry, restore, held, gate, engineRestore,
                 engineHeld, ghosts, messages, kills>>

WriteLands ==
  /\ writes # <<>> /\ Head(writes).opened
  /\ writes' = Tail(writes)
  /\ IF Head(writes).kind = "route"
       THEN route' = Head(writes).body /\ UNCHANGED engineEntry
       ELSE engineEntry' = Head(writes).body /\ UNCHANGED route
  /\ UNCHANGED <<live, engine, restore, held, gate, engineRestore, engineHeld, ghosts,
                 messages, kills>>

\* storage unavailable: the choice lives for this worker lifetime
WriteFails ==
  /\ writes # <<>>
  /\ writes' = Tail(writes) /\ clean' = FALSE
  /\ UNCHANGED <<live, engine, route, engineEntry, restore, held, gate, engineRestore,
                 engineHeld, acked, ackedEngine, late, messages, kills>>

--------------------------------------------------------------------------------
\* The worker is killed and a new instance evaluates its modules.
Kill ==
  /\ kills < MaxKills /\ kills' = kills + 1
  /\ live' = Boot /\ engine' = BootEngine
  /\ restore' = "reading" /\ held' = NoEntry /\ gate' = FALSE
  /\ engineRestore' = "none" /\ engineHeld' = NoEngine
  /\ writes' = <<>>
  /\ clean' = (clean /\ writes = <<>>)
  /\ UNCHANGED <<route, engineEntry, acked, ackedEngine, late, messages>>

Next ==
  \/ RestoreReads \/ RestoreApplies \/ BootDeadline
  \/ EngineReadyStarts \/ EngineReads \/ EngineApplies
  \/ Config \/ WispPrimary \/ WispRegister \/ SwitchEngine
  \/ WriteOpens \/ WriteLands \/ WriteFails \/ Kill

Spec == Init /\ [][Next]_vars

--------------------------------------------------------------------------------
(* Properties. *)

\* Memory, both store entries and the bodies under way hold values the handlers
\* accept: a restored entry is never applied unchecked (transport.ts 101-105).
TypeOK ==
  /\ live \in Shape /\ acked \in Shape /\ engine \in Engines /\ ackedEngine \in Engines
  /\ route \in Shape \cup {NoEntry} /\ held \in Shape \cup {NoEntry}
  /\ engineEntry \in Engines \cup {NoEngine} /\ engineHeld \in Engines \cup {NoEngine}
  /\ restore \in {"reading", "read", "done"} /\ gate \in BOOLEAN
  /\ engineRestore \in {"none", "reading", "read", "done"}
  /\ \A i \in 1..Len(writes) :
       \/ writes[i].kind = "route" /\ writes[i].body \in Shape
       \/ writes[i].kind = "engine" /\ writes[i].body \in Engines

\* A restarted worker keeps the route shape and the endpoints: once its restore is
\* done, memory holds what the embedder was last told, unless a storage operation
\* failed, a worker died before its write landed, or the boot deadline passed.
RouteSurvives == restore = "done" /\ clean /\ ~late => live = acked

\* With no write under way the entries hold the settings in force: no write of an
\* earlier choice lands over a later one and no handler forgets to persist.
StoreCurrent ==
  writes = <<>> /\ clean /\ ~late =>
    /\ route = IF acked = Boot /\ route = NoEntry THEN NoEntry ELSE acked
    /\ engineEntry = IF ackedEngine = BootEngine /\ engineEntry = NoEngine THEN NoEngine
                     ELSE ackedEngine

\* The settings in memory and in the store are those last acknowledged, across
\* restarts, and only values the handlers accept.
SettingsAreKept == TypeOK /\ RouteSurvives /\ StoreCurrent

\* #390: the engine choice survives; the embedder never shows one engine while the
\* other runs: once restored, the engine in force is the last one acknowledged.
EngineSurvives == engineRestore = "done" /\ clean => engine = ackedEngine
===============================================================================
