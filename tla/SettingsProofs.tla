--------------------------- MODULE SettingsProofs ---------------------------
(***************************************************************************)
(* Proofs about what a worker keeps, for any number of messages, requests  *)
(* and restarts.                                                           *)
(*                                                                         *)
(* The settings, for any prefixes and endpoints: the store lags behind     *)
(* memory by the writes under way, so what must be known is what the last  *)
(* write of each kind will leave there: it was made by the last            *)
(* acknowledged change, and a later write is never overtaken by an earlier *)
(* one.                                                                    *)
(*                                                                         *)
(* The jar profiles, for any windows and frames: what a worker does not    *)
(* know of a window is either still stored or marked as unknown, in the    *)
(* store, in the snapshot being written and in memory at once.             *)
(*                                                                         *)
(* The cookie jar, for any cookies and caps: the write with which the      *)
(* chain ends writes the jar as it is; and a sweep that follows an         *)
(* admission takes from the new cookie's domain first, after which the     *)
(* total leaves the others their place.                                    *)
(***************************************************************************)
EXTENDS Settings, CookieJar, JarProfiles, FiniteSetTheorems, TLAPS

Write == [kind : {"route", "engine"}, opened : BOOLEAN, body : Shape \cup Engines]

NoneIn(w, k)    == \A i \in 1..Len(w) : w[i].kind # k
LastIn(w, k, i) == /\ i \in 1..Len(w) /\ w[i].kind = k
                   /\ \A j \in 1..Len(w) : j > i => w[j].kind # k

\* nothing failed, and no deadline passed, that would lose a setting
Sure == clean /\ ~late

\* before the restore is done nothing was dispatched; it applies what is stored
BootInv ==
  /\ ~late /\ restore # "done" => ~gate /\ live = Boot /\ writes = <<>>
  /\ Sure /\ restore = "read" => held = route
  /\ Sure /\ restore = "done" => live = acked

\* the entry holds the last word, or the last write under way will leave it there:
\* the prefix is in its argument, the rest is read from memory when it opens
RouteWritten ==
  /\ NoneIn(writes, "route") => route = acked \/ (route = NoEntry /\ acked = Boot)
  /\ \A i \in 1..Len(writes) : LastIn(writes, "route", i) =>
       /\ writes[i].body.prefix = acked.prefix
       /\ writes[i].opened => writes[i].body = acked

EngineWritten ==
  /\ NoneIn(writes, "engine") =>
       engineEntry = ackedEngine \/ (engineEntry = NoEngine /\ ackedEngine = BootEngine)
  /\ \A i \in 1..Len(writes) : LastIn(writes, "engine", i) => writes[i].body = ackedEngine

SettingsInv ==
  /\ TypeOK /\ writes \in Seq(Write) /\ clean \in BOOLEAN /\ late \in BOOLEAN
  /\ BootInv
  /\ Sure => RouteWritten /\ EngineWritten

\* The values of memory and of an entry.
LEMMA BootIsShape == Boot \in Shape
  BY DEF Boot, Shape

LEMMA EntryIsNoShape == NoEntry \notin Shape
<1>1. \A s \in Shape : DOMAIN s # {"absent"}
  BY DEF Shape
<1>2. DOMAIN NoEntry = {"absent"}
  BY DEF NoEntry
<1> QED BY <1>1, <1>2

\* an entry is applied whole over the defaults
LEMMA RestoredIsEntry ==
  ASSUME live = Boot, NEW s \in Shape
  PROVE  Restored(s) = s
  BY DEF Restored, Boot, Shape

\* the queue of writes at its two ends
LEMMA AppendedLast ==
  ASSUME NEW w \in Seq(Write), NEW x \in Write, NEW k, x.kind = k
  PROVE  /\ Append(w, x) \in Seq(Write) /\ ~NoneIn(Append(w, x), k)
         /\ \A i \in 1..Len(Append(w, x)) : LastIn(Append(w, x), k, i) => Append(w, x)[i] = x
<1> DEFINE v == Append(w, x)
<1>1. /\ v \in Seq(Write) /\ Len(w) \in Nat /\ Len(v) = Len(w) + 1 /\ v[Len(w) + 1] = x
      /\ \A i \in 1..Len(w) : v[i] = w[i]
  OBVIOUS
<1> HIDE DEF v
<1>2. v \in Seq(Write) /\ ~NoneIn(v, k) /\ (\A i \in 1..Len(v) : LastIn(v, k, i) => v[i] = x)
  BY <1>1 DEF NoneIn, LastIn
<1> QED BY <1>2 DEF v

LEMMA AppendedOther ==
  ASSUME NEW w \in Seq(Write), NEW x \in Write, NEW k, x.kind # k
  PROVE  /\ NoneIn(Append(w, x), k) => NoneIn(w, k)
         /\ \A i \in 1..Len(Append(w, x)) :
              LastIn(Append(w, x), k, i) => LastIn(w, k, i) /\ Append(w, x)[i] = w[i]
<1> DEFINE v == Append(w, x)
<1>1. /\ Len(w) \in Nat /\ Len(v) = Len(w) + 1 /\ v[Len(w) + 1] = x
      /\ \A i \in 1..Len(w) : v[i] = w[i]
  OBVIOUS
<1> HIDE DEF v
<1>2. /\ NoneIn(v, k) => NoneIn(w, k)
      /\ \A i \in 1..Len(v) : LastIn(v, k, i) => LastIn(w, k, i) /\ v[i] = w[i]
  BY <1>1 DEF NoneIn, LastIn
<1> QED BY <1>2 DEF v

LEMMA TailLast ==
  ASSUME NEW w \in Seq(Write), w # <<>>, NEW k
  PROVE  LET v == Tail(w) IN
         /\ v \in Seq(Write)
         /\ NoneIn(v, k) => NoneIn(w, k) \/ LastIn(w, k, 1)
         /\ \A i \in 1..Len(v) : LastIn(v, k, i) =>
              i + 1 \in 1..Len(w) /\ LastIn(w, k, i + 1) /\ v[i] = w[i + 1]
<1> DEFINE v == Tail(w)
<1>1. /\ v \in Seq(Write) /\ Len(w) \in Nat /\ Len(w) >= 1 /\ Len(v) = Len(w) - 1
      /\ \A i \in 1..Len(v) : v[i] = w[i + 1]
  OBVIOUS
<1>2. \A j \in 1..Len(w) : j = 1 \/ (j - 1 \in 1..Len(v) /\ w[j] = v[j - 1])
  BY <1>1
<1> HIDE DEF v
<1>3. NoneIn(v, k) => NoneIn(w, k) \/ LastIn(w, k, 1)
  <2> SUFFICES ASSUME NoneIn(v, k), NEW m \in 1..Len(w), w[m].kind = k PROVE LastIn(w, k, 1)
    BY DEF NoneIn
  <2>1. \A j \in 1..Len(w) : w[j].kind = k => j = 1
    BY <1>2 DEF NoneIn
  <2>2. m = 1 /\ (\A j \in 1..Len(w) : j > 1 => w[j].kind # k)
    BY <2>1
  <2> QED BY <2>2 DEF LastIn
<1>4. ASSUME NEW i \in 1..Len(v), LastIn(v, k, i)
      PROVE  i + 1 \in 1..Len(w) /\ LastIn(w, k, i + 1) /\ v[i] = w[i + 1]
  <2>1. i + 1 \in 1..Len(w) /\ v[i] = w[i + 1] /\ w[i + 1].kind = k
    BY <1>1, <1>4 DEF LastIn
  <2>2. ASSUME NEW j \in 1..Len(w), j > i + 1 PROVE w[j].kind # k
    <3>1. j - 1 \in 1..Len(v) /\ w[j] = v[j - 1] /\ j - 1 > i
      BY <1>1, <1>2, <2>2
    <3> QED BY <1>4, <3>1 DEF LastIn
  <2> QED BY <2>1, <2>2 DEF LastIn
<1> QED BY <1>1, <1>3, <1>4 DEF v

\* a step that only loses certainty, or touches no setting, write or entry
LEMMA WrittenStays ==
  ASSUME Sure' => Sure, Sure => RouteWritten /\ EngineWritten,
         UNCHANGED <<writes, route, engineEntry, acked, ackedEngine>>
  PROVE  Sure' => RouteWritten' /\ EngineWritten'
  BY DEF RouteWritten, EngineWritten

\* zl:config, zl:wispPrimary, zl:wispRegister
LEMMA RouteMessage ==
  ASSUME SettingsInv, gate,
         UNCHANGED <<route, engineEntry, restore, held, gate, ackedEngine, clean, late>>,
         live' \in Shape, acked' \in Shape, live = acked => live' = acked',
         NEW p, p = live'.prefix, PersistRoute(p)
  PROVE  writes' \in Seq(Write) /\ BootInv' /\ (Sure' => RouteWritten' /\ EngineWritten')
<1>1. live' = [live' EXCEPT !.prefix = p]
  BY DEF Shape
<1> DEFINE x == [kind |-> "route", opened |-> FALSE, body |-> live']
<1>2. x \in Write /\ writes' = Append(writes, x)
  BY <1>1 DEF PersistRoute, Write
<1>3. x.kind = "route" /\ x.kind # "engine" /\ ~x.opened /\ x.body = live'
  OBVIOUS
<1> HIDE DEF x
<1>4. writes \in Seq(Write)
  BY DEF SettingsInv
<1>5. /\ writes' \in Seq(Write) /\ ~NoneIn(writes', "route")
      /\ \A i \in 1..Len(writes') : LastIn(writes', "route", i) => writes'[i] = x
  BY <1>2, <1>3, <1>4, AppendedLast
<1>6. /\ NoneIn(writes', "engine") => NoneIn(writes, "engine")
      /\ \A i \in 1..Len(writes') : LastIn(writes', "engine", i) =>
           LastIn(writes, "engine", i) /\ writes'[i] = writes[i]
  BY <1>2, <1>3, <1>4, AppendedOther
<1>7. Sure' => Sure /\ restore = "done" /\ live' = acked'
  BY DEF SettingsInv, BootInv, Sure
<1>8. BootInv'
  BY <1>7 DEF SettingsInv, BootInv, Sure
<1>9. Sure' => RouteWritten'
  BY <1>3, <1>5, <1>7 DEF RouteWritten
<1>10. Sure' => EngineWritten'
  <2>1. \A i \in 1..Len(writes') : LastIn(writes', "engine", i) => i \in 1..Len(writes)
    BY <1>6 DEF LastIn
  <2> QED BY <1>6, <1>7, <2>1 DEF SettingsInv, EngineWritten
<1> QED BY <1>5, <1>8, <1>9, <1>10

\* the entries and bodies under way are settings, whatever is appended to them
LEMMA AppendedTyped ==
  ASSUME TypeOK, writes \in Seq(Write), NEW x \in Write, writes' = Append(writes, x),
         x.kind = "route" => x.body \in Shape, x.kind = "engine" => x.body \in Engines
  PROVE  \A i \in 1..Len(writes') :
           \/ writes'[i].kind = "route" /\ writes'[i].body \in Shape
           \/ writes'[i].kind = "engine" /\ writes'[i].body \in Engines
<1>1. /\ Len(writes) \in Nat /\ Len(writes') = Len(writes) + 1 /\ writes'[Len(writes) + 1] = x
      /\ \A i \in 1..Len(writes) : writes'[i] = writes[i]
  OBVIOUS
<1>2. x.kind = "route" \/ x.kind = "engine"
  BY DEF Write
<1> QED BY <1>1, <1>2 DEF TypeOK

LEMMA RouteTyped ==
  ASSUME SettingsInv, live' \in Shape, acked' \in Shape, NEW p, p = live'.prefix, PersistRoute(p),
         UNCHANGED <<engine, route, engineEntry, restore, held, gate, engineRestore, engineHeld,
                     ackedEngine>>
  PROVE  TypeOK'
<1>1. live' = [live' EXCEPT !.prefix = p]
  BY DEF Shape
<1> DEFINE x == [kind |-> "route", opened |-> FALSE, body |-> live']
<1>2. x \in Write /\ writes' = Append(writes, x) /\ x.kind = "route" /\ x.body = live'
  BY <1>1 DEF PersistRoute, Write
<1> HIDE DEF x
<1>3. \A i \in 1..Len(writes') :
        \/ writes'[i].kind = "route" /\ writes'[i].body \in Shape
        \/ writes'[i].kind = "engine" /\ writes'[i].body \in Engines
  BY <1>2, AppendedTyped DEF SettingsInv
<1> QED BY <1>3 DEF SettingsInv, TypeOK

\* The invariant holds at first, and one lemma for each action that writes or restores.
LEMMA InitSettings == Init => SettingsInv
<1> SUFFICES ASSUME Init PROVE SettingsInv
  OBVIOUS
<1>1. TypeOK /\ writes \in Seq(Write) /\ Len(writes) = 0
  <2>1. writes \in Seq(Write) /\ Len(writes) = 0
    BY DEF Init
  <2>2. gate \in BOOLEAN
    BY Zenon DEF Init
  <2> QED BY <2>1, <2>2, BootIsShape DEF Init, TypeOK, Engines, BootEngine
<1>2. RouteWritten /\ EngineWritten
  BY <1>1 DEF Init, RouteWritten, EngineWritten
<1> QED BY <1>1, <1>2 DEF Init, SettingsInv, BootInv, Sure

LEMMA ConfigKeeps == SettingsInv /\ Config => SettingsInv'
<1> SUFFICES ASSUME SettingsInv, Config PROVE SettingsInv'
  OBVIOUS
<1>1. PICK p \in Prefixes \cup {live.prefix}, u \in BOOLEAN :
        /\ live' = [live EXCEPT !.prefix = p, !.upgrade = u]
        /\ acked' = [acked EXCEPT !.prefix = p, !.upgrade = u]
        /\ PersistRoute(p)
  BY DEF Config
<1>2. live' \in Shape /\ acked' \in Shape /\ p = live'.prefix /\ (live = acked => live' = acked')
  BY <1>1 DEF SettingsInv, TypeOK, Shape
<1>3. TypeOK'
  BY <1>1, <1>2, RouteTyped DEF Config
<1>4. writes' \in Seq(Write) /\ BootInv' /\ (Sure' => RouteWritten' /\ EngineWritten')
  BY <1>1, <1>2, RouteMessage DEF Config, Message
<1> QED BY <1>3, <1>4 DEF SettingsInv, Config

LEMMA PrimaryKeeps == SettingsInv /\ WispPrimary => SettingsInv'
<1> SUFFICES ASSUME SettingsInv, WispPrimary PROVE SettingsInv'
  OBVIOUS
<1>1. PICK e \in Primaries \cup {None} :
        /\ live' = [live EXCEPT !.primary = e]
        /\ acked' = [acked EXCEPT !.primary = e]
        /\ PersistRoute(live.prefix)
  BY DEF WispPrimary
<1>2. live' \in Shape /\ acked' \in Shape /\ live.prefix = live'.prefix
      /\ (live = acked => live' = acked')
  BY <1>1 DEF SettingsInv, TypeOK, Shape
<1>3. TypeOK'
  BY <1>1, <1>2, RouteTyped DEF WispPrimary
<1>4. writes' \in Seq(Write) /\ BootInv' /\ (Sure' => RouteWritten' /\ EngineWritten')
  BY <1>1, <1>2, RouteMessage DEF WispPrimary, Message
<1> QED BY <1>3, <1>4 DEF SettingsInv, WispPrimary

LEMMA RegisterKeeps == SettingsInv /\ WispRegister => SettingsInv'
<1> SUFFICES ASSUME SettingsInv, WispRegister PROVE SettingsInv'
  OBVIOUS
<1>1. PICK a \in Alts \cup {None} :
        /\ live' = [live EXCEPT !.alt = a]
        /\ acked' = [acked EXCEPT !.alt = a]
        /\ PersistRoute(live.prefix)
  BY DEF WispRegister
<1>2. live' \in Shape /\ acked' \in Shape /\ live.prefix = live'.prefix
      /\ (live = acked => live' = acked')
  BY <1>1 DEF SettingsInv, TypeOK, Shape
<1>3. TypeOK'
  BY <1>1, <1>2, RouteTyped DEF WispRegister
<1>4. writes' \in Seq(Write) /\ BootInv' /\ (Sure' => RouteWritten' /\ EngineWritten')
  BY <1>1, <1>2, RouteMessage DEF WispRegister, Message
<1> QED BY <1>3, <1>4 DEF SettingsInv, WispRegister

LEMMA SwitchKeeps == SettingsInv /\ SwitchEngine => SettingsInv'
<1> SUFFICES ASSUME SettingsInv, SwitchEngine PROVE SettingsInv'
  OBVIOUS
<1>1. PICK e \in Engines :
        /\ engine' = e /\ ackedEngine' = e
        /\ writes' = Append(writes, [kind |-> "engine", opened |-> FALSE, body |-> e])
  BY DEF SwitchEngine
<1> DEFINE x == [kind |-> "engine", opened |-> FALSE, body |-> e]
<1>2. x \in Write /\ writes' = Append(writes, x) /\ x.kind = "engine" /\ x.kind # "route"
      /\ x.body = e
  BY <1>1 DEF Write
<1> HIDE DEF x
<1>3. writes \in Seq(Write)
  BY DEF SettingsInv
<1>4. /\ writes' \in Seq(Write) /\ ~NoneIn(writes', "engine")
      /\ \A i \in 1..Len(writes') : LastIn(writes', "engine", i) => writes'[i] = x
  BY <1>2, <1>3, AppendedLast
<1>5. /\ NoneIn(writes', "route") => NoneIn(writes, "route")
      /\ \A i \in 1..Len(writes') : LastIn(writes', "route", i) =>
           LastIn(writes, "route", i) /\ writes'[i] = writes[i]
  BY <1>2, <1>3, AppendedOther
<1>6. \A i \in 1..Len(writes') : LastIn(writes', "route", i) => i \in 1..Len(writes)
  BY <1>5 DEF LastIn
<1>7. \A i \in 1..Len(writes') :
        \/ writes'[i].kind = "route" /\ writes'[i].body \in Shape
        \/ writes'[i].kind = "engine" /\ writes'[i].body \in Engines
  BY <1>2, <1>3, AppendedTyped DEF SettingsInv
<1>8. TypeOK'
  BY <1>1, <1>7 DEF SettingsInv, TypeOK, SwitchEngine
<1>9. BootInv' /\ (Sure' => Sure)
  BY DEF SettingsInv, BootInv, Sure, SwitchEngine, Message
<1>10. Sure' => RouteWritten'
  BY <1>5, <1>6, <1>9 DEF SettingsInv, RouteWritten, SwitchEngine
<1>11. Sure' => EngineWritten'
  BY <1>1, <1>2, <1>4 DEF EngineWritten
<1> QED BY <1>4, <1>8, <1>9, <1>10, <1>11 DEF SettingsInv, SwitchEngine

LEMMA OpensKeeps == SettingsInv /\ WriteOpens => SettingsInv'
<1> SUFFICES ASSUME SettingsInv, WriteOpens PROVE SettingsInv'
  OBVIOUS
<1>1. PICK i \in 1..Len(writes) : writes' = [writes EXCEPT ![i] = Opened(writes[i])]
  BY DEF WriteOpens
<1> DEFINE new == IF writes[i].kind = "route" THEN [live EXCEPT !.prefix = writes[i].body.prefix]
                  ELSE writes[i].body
<1>2. /\ writes \in Seq(Write) /\ Len(writes) \in Nat /\ writes[i] \in Write
      /\ writes[i].kind = "route" => writes[i].body \in Shape
      /\ writes[i].kind = "engine" => writes[i].body \in Engines
  BY DEF SettingsInv, TypeOK
<1>3. /\ writes[i].kind = "route" => new \in Shape
      /\ writes[i].kind = "engine" => new \in Engines /\ new = writes[i].body
      /\ writes[i].kind \in {"route", "engine"}
  BY <1>2 DEF SettingsInv, TypeOK, Shape, Write
<1>4. /\ Len(writes') = Len(writes) /\ DOMAIN writes' = DOMAIN writes
      /\ writes'[i] = [kind |-> writes[i].kind, opened |-> TRUE, body |-> new]
      /\ \A j \in 1..Len(writes) : j # i => writes'[j] = writes[j]
  <2>1. /\ Len(writes') = Len(writes) /\ DOMAIN writes' = DOMAIN writes
        /\ \A j \in 1..Len(writes) : j # i => writes'[j] = writes[j]
    BY <1>1, <1>2
  <2>2. writes'[i] = Opened(writes[i])
    BY <1>1, <1>2
  <2>3. writes'[i] = [kind |-> writes[i].kind, opened |-> TRUE, body |-> new]
    BY <1>2, <2>2 DEF Write, Opened
  <2> QED BY <2>1, <2>3
<1>5. writes' \in Seq(Write)
  <2>1. [kind |-> writes[i].kind, opened |-> TRUE, body |-> new] \in Write
    BY <1>3 DEF Write
  <2>2. \A j \in 1..Len(writes) : writes'[j] \in Write
    BY <1>2, <1>4, <2>1
  <2>3. writes' \in [1..Len(writes) -> Write]
    <3>1. writes \in [1..Len(writes) -> Write]
      BY <1>2
    <3>2. writes' = [j \in 1..Len(writes) |-> writes'[j]]
      BY <1>1, <3>1
    <3> QED BY <2>2, <3>2
  <2> QED BY <1>2, <2>3
<1> HIDE DEF new
<1>6. \A j \in 1..Len(writes) : writes'[j].kind = writes[j].kind
  BY <1>4
<1>7. /\ \A k : NoneIn(writes', k) => NoneIn(writes, k)
      /\ \A k : \A j \in 1..Len(writes) : LastIn(writes', k, j) => LastIn(writes, k, j)
  BY <1>4, <1>6 DEF NoneIn, LastIn
<1>8. TypeOK'
  <2>1. \A j \in 1..Len(writes') :
          \/ writes'[j].kind = "route" /\ writes'[j].body \in Shape
          \/ writes'[j].kind = "engine" /\ writes'[j].body \in Engines
    BY <1>3, <1>4 DEF SettingsInv, TypeOK
  <2> QED BY <2>1 DEF SettingsInv, TypeOK, WriteOpens, ghosts
<1>9. BootInv' /\ (Sure' => Sure /\ live = acked)
  <2>1. writes # <<>>
    BY <1>2
  <2>2. Sure' => Sure
    BY DEF WriteOpens, ghosts, Sure
  <2>3. late \/ restore = "done"
    BY <2>1 DEF SettingsInv, BootInv
  <2> QED BY <2>2, <2>3 DEF SettingsInv, BootInv, Sure, WriteOpens, ghosts
<1>10. Sure' => RouteWritten'
  <2> SUFFICES ASSUME Sure' PROVE RouteWritten'
    OBVIOUS
  <2>1. RouteWritten /\ live = acked
    BY <1>9 DEF SettingsInv
  <2>2. ASSUME LastIn(writes, "route", i) PROVE new = acked
    BY <1>2, <2>1, <2>2 DEF RouteWritten, LastIn, SettingsInv, TypeOK, Shape, new
  <2>3. ASSUME NEW j \in 1..Len(writes), LastIn(writes', "route", j)
        PROVE  /\ writes'[j].body.prefix = acked.prefix
               /\ writes'[j].opened => writes'[j].body = acked
    BY <1>4, <1>7, <2>1, <2>2, <2>3 DEF RouteWritten
  <2>4. NoneIn(writes', "route") => route = acked \/ (route = NoEntry /\ acked = Boot)
    BY <1>7, <2>1 DEF RouteWritten
  <2>5. UNCHANGED <<acked, route>>
    BY DEF WriteOpens, ghosts
  <2> QED BY <1>4, <2>3, <2>4, <2>5 DEF RouteWritten
<1>11. Sure' => EngineWritten'
  <2> SUFFICES ASSUME Sure' PROVE EngineWritten'
    OBVIOUS
  <2>1. EngineWritten
    BY <1>9 DEF SettingsInv
  <2>2. ASSUME NEW j \in 1..Len(writes), LastIn(writes', "engine", j)
        PROVE  writes'[j].body = ackedEngine
    <3>1. LastIn(writes, "engine", j)
      BY <1>7, <2>2
    <3>2. writes'[j].body = writes[j].body
      BY <1>3, <1>4, <3>1 DEF LastIn
    <3> QED BY <2>1, <3>1, <3>2 DEF EngineWritten
  <2> QED BY <1>4, <1>7, <2>1, <2>2 DEF EngineWritten, WriteOpens, ghosts
<1> QED BY <1>5, <1>8, <1>9, <1>10, <1>11 DEF SettingsInv, WriteOpens, ghosts

LEMMA LandsKeeps == SettingsInv /\ WriteLands => SettingsInv'
<1> SUFFICES ASSUME SettingsInv, WriteLands PROVE SettingsInv'
  OBVIOUS
<1>1. /\ writes \in Seq(Write) /\ writes # <<>> /\ writes' = Tail(writes)
      /\ Len(writes) \in Nat /\ 1 \in 1..Len(writes) /\ Head(writes) = writes[1]
  BY DEF SettingsInv, WriteLands
<1>2. \A k : /\ writes' \in Seq(Write)
             /\ NoneIn(writes', k) => NoneIn(writes, k) \/ LastIn(writes, k, 1)
             /\ \A i \in 1..Len(writes') : LastIn(writes', k, i) =>
                  i + 1 \in 1..Len(writes) /\ LastIn(writes, k, i + 1) /\ writes'[i] = writes[i + 1]
  BY <1>1, TailLast
<1>3. /\ writes[1].kind = "route" => /\ writes[1].body \in Shape /\ route' = writes[1].body
                                     /\ engineEntry' = engineEntry
      /\ writes[1].kind = "engine" => /\ writes[1].body \in Engines /\ route' = route
                                      /\ engineEntry' = writes[1].body
      /\ writes[1].kind \in {"route", "engine"} /\ writes[1].opened
  BY <1>1 DEF SettingsInv, TypeOK, WriteLands
<1>4. TypeOK'
  <2>1. \A i \in 1..Len(writes') :
          \/ writes'[i].kind = "route" /\ writes'[i].body \in Shape
          \/ writes'[i].kind = "engine" /\ writes'[i].body \in Engines
    <3>1. \A i \in 1..Len(writes') : i + 1 \in 1..Len(writes) /\ writes'[i] = writes[i + 1]
      BY <1>1
    <3> QED BY <3>1 DEF SettingsInv, TypeOK
  <2> QED BY <1>3, <2>1 DEF SettingsInv, TypeOK, WriteLands, ghosts
<1>5. BootInv' /\ (Sure' => Sure)
  <2>1. late \/ restore = "done"
    BY <1>1 DEF SettingsInv, BootInv
  <2> QED BY <2>1 DEF SettingsInv, BootInv, Sure, WriteLands, ghosts
<1>6. Sure' => RouteWritten'
  <2> SUFFICES ASSUME Sure' PROVE RouteWritten'
    OBVIOUS
  <2>1. RouteWritten /\ acked' = acked
    BY <1>5 DEF SettingsInv, WriteLands, ghosts
  <2>2. LastIn(writes, "route", 1) => route' = acked
    BY <1>1, <1>3, <2>1 DEF RouteWritten, LastIn
  <2>3. NoneIn(writes, "route") => route' = route
    BY <1>1, <1>3 DEF NoneIn
  <2>4. NoneIn(writes', "route") => route' = acked \/ (route' = NoEntry /\ acked = Boot)
    BY <1>2, <2>1, <2>2, <2>3 DEF RouteWritten
  <2>5. ASSUME NEW i \in 1..Len(writes'), LastIn(writes', "route", i)
        PROVE  /\ writes'[i].body.prefix = acked.prefix
               /\ writes'[i].opened => writes'[i].body = acked
    BY <1>2, <2>1, <2>5 DEF RouteWritten
  <2> QED BY <2>1, <2>4, <2>5 DEF RouteWritten
<1>7. Sure' => EngineWritten'
  <2> SUFFICES ASSUME Sure' PROVE EngineWritten'
    OBVIOUS
  <2>1. EngineWritten /\ ackedEngine' = ackedEngine
    BY <1>5 DEF SettingsInv, WriteLands, ghosts
  <2>2. LastIn(writes, "engine", 1) => engineEntry' = ackedEngine
    BY <1>1, <1>3, <2>1 DEF EngineWritten, LastIn
  <2>3. NoneIn(writes, "engine") => engineEntry' = engineEntry
    BY <1>1, <1>3 DEF NoneIn
  <2>4. NoneIn(writes', "engine") =>
          engineEntry' = ackedEngine \/ (engineEntry' = NoEngine /\ ackedEngine = BootEngine)
    BY <1>2, <2>1, <2>2, <2>3 DEF EngineWritten
  <2>5. ASSUME NEW i \in 1..Len(writes'), LastIn(writes', "engine", i)
        PROVE  writes'[i].body = ackedEngine
    BY <1>2, <2>1, <2>5 DEF EngineWritten
  <2> QED BY <2>1, <2>4, <2>5 DEF EngineWritten
<1> QED BY <1>2, <1>4, <1>5, <1>6, <1>7 DEF SettingsInv, WriteLands, ghosts

LEMMA AppliesKeeps == SettingsInv /\ RestoreApplies => SettingsInv'
<1> SUFFICES ASSUME SettingsInv, RestoreApplies PROVE SettingsInv'
  OBVIOUS
<1>1. live' \in Shape
  BY DEF SettingsInv, TypeOK, RestoreApplies, Restored, Shape
<1>2. TypeOK'
  BY <1>1 DEF SettingsInv, TypeOK, RestoreApplies, ghosts
<1>3. ASSUME Sure PROVE live' = acked
  <2>1. live = Boot /\ writes = <<>> /\ held = route /\ acked \in Shape
    BY <1>3 DEF SettingsInv, BootInv, Sure, RestoreApplies, TypeOK
  <2>2. route = acked \/ (route = NoEntry /\ acked = Boot)
    BY <1>3, <2>1 DEF SettingsInv, RouteWritten, NoneIn
  <2>3. CASE route = acked
    BY <2>1, <2>3, RestoredIsEntry, EntryIsNoShape DEF RestoreApplies
  <2>4. CASE route = NoEntry /\ acked = Boot
    BY <2>1, <2>4 DEF RestoreApplies
  <2> QED BY <2>2, <2>3, <2>4
<1>4. BootInv' /\ (Sure' => Sure)
  BY <1>3 DEF BootInv, Sure, RestoreApplies, ghosts
<1>5. Sure' => RouteWritten' /\ EngineWritten'
  BY <1>4, WrittenStays DEF SettingsInv, RestoreApplies, ghosts
<1> QED BY <1>2, <1>4, <1>5 DEF SettingsInv, RestoreApplies, ghosts

LEMMA FailsKeeps == SettingsInv /\ WriteFails => SettingsInv'
<1> SUFFICES ASSUME SettingsInv, WriteFails PROVE SettingsInv'
  OBVIOUS
<1>1. /\ writes' \in Seq(Write) /\ writes # <<>>
      /\ \A i \in 1..Len(writes') : i + 1 \in 1..Len(writes) /\ writes'[i] = writes[i + 1]
  BY DEF SettingsInv, WriteFails
<1>2. TypeOK'
  BY <1>1 DEF SettingsInv, TypeOK, WriteFails
<1>3. BootInv'
  BY <1>1 DEF SettingsInv, BootInv, Sure, WriteFails
<1> QED BY <1>1, <1>2, <1>3 DEF SettingsInv, Sure, WriteFails

LEMMA KillKeeps == SettingsInv /\ Kill => SettingsInv'
<1> SUFFICES ASSUME SettingsInv, Kill PROVE SettingsInv'
  OBVIOUS
<1>1. TypeOK' /\ writes' \in Seq(Write) /\ Len(writes') = 0
  <2>1. writes' \in Seq(Write) /\ Len(writes') = 0
    BY DEF Kill
  <2>2. gate' \in BOOLEAN
    BY Zenon DEF Kill
  <2> QED BY <2>1, <2>2, BootIsShape DEF SettingsInv, TypeOK, Kill, Engines, BootEngine
<1>2. BootInv' /\ clean' \in BOOLEAN
  BY DEF SettingsInv, BootInv, Kill, Sure
<1>3. Sure' => Sure /\ writes = <<>>
  BY DEF Sure, Kill
<1>4. Sure' => RouteWritten' /\ EngineWritten'
  BY <1>3 DEF SettingsInv, RouteWritten, EngineWritten, NoneIn, LastIn, Kill
<1> QED BY <1>1, <1>2, <1>4 DEF SettingsInv, Kill

LEMMA SettingsStep == SettingsInv /\ [Next]_vars => SettingsInv'
<1> SUFFICES ASSUME SettingsInv, [Next]_vars PROVE SettingsInv'
  OBVIOUS
<1>1. ASSUME \/ RestoreReads \/ BootDeadline \/ EngineReadyStarts \/ EngineReads \/ EngineApplies
             \/ UNCHANGED vars
      PROVE  SettingsInv'
  <2>1. UNCHANGED <<writes, route, engineEntry, acked, ackedEngine, live>>
    BY <1>1 DEF RestoreReads, BootDeadline, EngineReadyStarts, EngineReads, EngineApplies, ghosts, vars
  <2>2. TypeOK'
    BY <1>1, <2>1 DEF RestoreReads, BootDeadline, EngineReadyStarts, EngineReads, EngineApplies,
       ghosts, vars, SettingsInv, TypeOK
  <2>3. BootInv'
    BY <1>1, <2>1 DEF RestoreReads, BootDeadline, EngineReadyStarts, EngineReads, EngineApplies,
       ghosts, vars, SettingsInv, BootInv, Sure
  <2>4. clean' \in {clean, FALSE} /\ late' \in {late, TRUE}
    BY <1>1 DEF RestoreReads, BootDeadline, EngineReadyStarts, EngineReads, EngineApplies,
       ghosts, vars
  <2>6. clean' \in BOOLEAN /\ late' \in BOOLEAN
    BY Zenon, <2>4 DEF SettingsInv
  <2>7. Sure' => Sure
    BY <2>4, <2>6 DEF SettingsInv, Sure
  <2>5. Sure' => RouteWritten' /\ EngineWritten'
    BY <2>1, <2>7, WrittenStays DEF SettingsInv
  <2> QED BY <2>1, <2>2, <2>3, <2>5, <2>6 DEF SettingsInv
<1> QED BY <1>1, ConfigKeeps, PrimaryKeeps, RegisterKeeps, SwitchKeeps, OpensKeeps, LandsKeeps,
           AppliesKeeps, FailsKeeps, KillKeeps DEF Next

\* The inductive invariant holds in every reachable state.
LEMMA SettingsHold == Spec => []SettingsInv
  BY InitSettings, SettingsStep, PTL DEF Spec

\* A restarted worker whose storage worked and whose restore came in time has the
\* settings the embedder was last told of.
THEOREM RouteAlwaysSurvives == Spec => []RouteSurvives
<1>1. SettingsInv => RouteSurvives
  BY DEF SettingsInv, BootInv, Sure, RouteSurvives
<1> QED BY SettingsHold, <1>1, PTL

\* With no write under way the two entries hold the settings in force.
THEOREM StoreAlwaysCurrent == Spec => []StoreCurrent
<1>1. SettingsInv => StoreCurrent
  <2> SUFFICES ASSUME SettingsInv, writes = <<>>, clean, ~late
               PROVE  /\ route = IF acked = Boot /\ route = NoEntry THEN NoEntry ELSE acked
                      /\ engineEntry = IF ackedEngine = BootEngine /\ engineEntry = NoEngine
                                         THEN NoEngine ELSE ackedEngine
    BY DEF StoreCurrent
  <2>1. NoneIn(writes, "route") /\ NoneIn(writes, "engine")
    BY DEF NoneIn
  <2> QED BY <2>1 DEF SettingsInv, Sure, RouteWritten, EngineWritten
<1> QED BY SettingsHold, <1>1, PTL

\* The settings in memory and in the store are those last acknowledged, whatever
\* messages, failed operations and restarts come between: what run Worker checks.
THEOREM SettingsKept == Spec => []SettingsAreKept
<1>1. SettingsInv => TypeOK
  BY DEF SettingsInv
<1>2. Spec => []TypeOK
  BY SettingsHold, <1>1, PTL
<1> QED BY <1>2, RouteAlwaysSurvives, StoreAlwaysCurrent, PTL DEF SettingsAreKept

-----------------------------------------------------------------------------
(* The jar profiles.                                                         *)

ProfileRequests ==
  [at : Phases, early : BOOLEAN,
   jar : [root : Hosts \cup {NoHost}, name : {Durable, Session, Unknown}]]
ProfileTyped ==
  /\ ProfileTypeOK /\ req \in [Frames -> ProfileRequests]
  /\ listed \in [on : BOOLEAN, of : SUBSET Clients]
  /\ put.kind = "kept" => queue > 0

\* A client's root, where it is known, is its own window.
Rooted ==
  /\ \A h \in Hosts : root[h] \in {NoHost, h}
  /\ \A f \in Frames : root[f] \in {NoHost, owner[f]}

\* While a window is in doubt, what is stored or being stored says so, a restore that
\* is over has left the mark in memory, and nobody knows the window's profile.
Marked == profileDisk.kind = "corrupt" \/ (profileDisk.kind = "kept" /\ profileDisk.uncertain)
Doubted ==
  /\ doubt # {} => /\ Marked /\ (put.kind = "kept" => put.uncertain)
                   /\ profileRestore = "done" => failed
  /\ \A h \in doubt : prof[h] = NoHost /\ profileDisk.roots[h] = NoHost /\ put.roots[h] = NoHost

\* A request that waited for the restore.
Waited(q) == q.at \in {"open", "sent"} /\ ~q.early
Gated == \A f \in Frames : Waited(req[f]) => profileRestore = "done"

\* A snapshot under way is of this worker's memory, but for what it was told since.
Putting ==
  put.kind = "kept" =>
    /\ profileRestore = "done" /\ put.uncertain = failed
    /\ \A h \in Hosts \ assigned : put.roots[h] = prof[h]

\* Of a window that this worker was not told about it knows nothing before the restore,
\* and what is stored after it.
Kept ==
  /\ profileRestore # "done" => \A h \in Hosts \ assigned : prof[h] = NoHost
  /\ profileRestore = "done" /\ ~failed /\ profileDisk.kind = "kept" =>
       \A h \in Hosts \ assigned : prof[h] = profileDisk.roots[h]

ProfileIInv == ProfileTyped /\ Rooted /\ Doubted /\ Gated /\ Putting /\ Kept

LEMMA ProfileFacts ==
  ASSUME ProfileIInv
  PROVE  /\ pages \subseteq Clients /\ owner \in [Frames -> Hosts \cup {NoHost}]
         /\ root \in [Clients -> Hosts \cup {NoHost}]
         /\ prof \in [Hosts -> {NoHost, Durable, Session}]
         /\ req \in [Frames -> ProfileRequests]
         /\ put \in Snapshots \cup {NoSnapshot("none")}
         /\ profileDisk \in Snapshots \cup {NoSnapshot("none"), NoSnapshot("corrupt")}
         /\ failed \in BOOLEAN /\ assigned \subseteq Hosts /\ doubt \subseteq Hosts
         /\ queue \in Nat
  BY ProfilesAssumption DEF ProfileIInv, ProfileTyped, ProfileTypeOK

LEMMA JarNameOf ==
  ASSUME NEW f \in Frames, ProfileIInv
  PROVE  /\ RootOf(f) = root[f]
         /\ Active(f) \in {Durable, Session, Unknown}
         /\ JarOf(f) \in [root : Hosts \cup {NoHost}, name : {Durable, Session, Unknown}]
         /\ JarOf(f).name = Active(f)
<1>1. root[f] \in Hosts \cup {NoHost}
  BY ProfileFacts DEF Clients
<1>2. RootOf(f) = root[f]
  BY ProfilesAssumption DEF RootOf
<1>3. Active(f) \in {Durable, Session, Unknown}
  BY <1>1, <1>2, ProfileFacts DEF Active
<1>4. JarOf(f).name = Active(f) /\ JarOf(f) \in [root : Hosts \cup {NoHost}, name : {Durable, Session, Unknown}]
  BY <1>1, <1>2, <1>3 DEF JarOf
<1> QED BY <1>2, <1>3, <1>4

LEMMA ProfilesStart == ProfileInit => ProfileIInv
<1> SUFFICES ASSUME ProfileInit PROVE ProfileIInv
  OBVIOUS
<1>1. queue \in 0..(MaxPushes + 1) /\ put.kind = "none"
  BY ProfilesAssumption DEF ProfileInit, NoSnapshot
<1>2. /\ \A f \in Frames : req[f] = Idle
      /\ req \in [Frames -> ProfileRequests]
  BY DEF ProfileInit, Idle, NoJar, ProfileRequests, Phases, Durable, Session, Unknown
<1>3. ProfileTypeOK
  BY <1>1, <1>2 DEF ProfileInit, ProfileTypeOK, Clients, NoSnapshot, Unlisted, Idle, Phases
<1>4. ProfileTyped
  BY <1>1, <1>2, <1>3 DEF ProfileTyped, ProfileInit, Unlisted
<1>5. Rooted
  BY DEF ProfileInit, Rooted, Clients
<1>6. Doubted
  BY <1>1 DEF ProfileInit, Doubted, Marked, NoSnapshot
<1>7. Gated /\ Putting /\ Kept
  BY <1>1, <1>2 DEF ProfileInit, Gated, Waited, Putting, Kept, Idle
<1> QED BY <1>4, <1>5, <1>6, <1>7 DEF ProfileIInv

LEMMA NavigatesKeeps ==
  ASSUME ProfileIInv, NEW f \in Frames, NEW h \in Hosts, NEW src \in {h, NoHost},
         NEW bound \in BOOLEAN, Navigates(f, h, src, bound)
  PROVE  ProfileIInv'
<1> DEFINE r == IF src # NoHost /\ RootOf(src) # NoHost THEN RootOf(src)
                ELSE IF bound THEN h ELSE NoHost
<1>1. r \in {h, NoHost}
  BY ProfilesAssumption, ProfileFacts DEF RootOf, ProfileIInv, Rooted
<1>2. /\ owner[f] = NoHost /\ owner' = [owner EXCEPT ![f] = h]
      /\ root' = [c \in Clients |-> IF c = f \/ (c = src /\ r # NoHost) THEN r ELSE root[c]]
  BY DEF Navigates
<1>3. root' \in [Clients -> Hosts \cup {NoHost}]
  BY <1>1, <1>2, ProfileFacts
<1>4. Rooted'
  <2>1. ASSUME NEW g \in Hosts PROVE root'[g] \in {NoHost, g}
    <3>1. g # f /\ (g = src => g = h)
      BY ProfilesAssumption
    <3>2. root'[g] = IF g = src /\ r # NoHost THEN r ELSE root[g]
      BY <3>1, <1>2 DEF Clients
    <3> QED BY <3>1, <3>2, <1>1 DEF ProfileIInv, Rooted
  <2>2. ASSUME NEW g \in Frames, g # f PROVE root'[g] \in {NoHost, owner'[g]}
    <3>1. g # src
      BY ProfilesAssumption
    <3>2. root'[g] = root[g] /\ owner'[g] = owner[g]
      BY <2>2, <3>1, <1>2, ProfileFacts DEF Clients
    <3> QED BY <3>2 DEF ProfileIInv, Rooted
  <2>3. root'[f] = r /\ owner'[f] = h
    BY <1>2, ProfileFacts DEF Clients
  <2> QED BY <2>1, <2>2, <2>3, <1>1 DEF Rooted
<1>5. unbound' \subseteq Clients /\ pages' \subseteq Clients /\ carries' \subseteq Frames
      /\ owner' \in [Frames -> Hosts \cup {NoHost}]
  BY ProfileFacts DEF Navigates, Clients, ProfileIInv, ProfileTyped, ProfileTypeOK
<1>6. UNCHANGED <<prof, failed, assigned, profileRestore, profileDisk, queue, put, listed, req, doubt>>
  BY DEF Navigates, profileStoring
<1>7. ProfileTyped'
  BY <1>3, <1>5, <1>6 DEF ProfileIInv, ProfileTyped, ProfileTypeOK
<1>8. Doubted' /\ Gated' /\ Putting' /\ Kept'
  BY <1>6 DEF ProfileIInv, Doubted, Marked, Gated, Putting, Kept
<1> QED BY <1>4, <1>7, <1>8 DEF ProfileIInv

LEMMA RestoreKeeps ==
  ASSUME ProfileIInv, RestoreStarts \/ RestoreEnds \/ RestoreFails
  PROVE  ProfileIInv'
<1>1. UNCHANGED <<pages, owner, carries, root, unbound, assigned, profileDisk, queue, put, listed,
                  req, doubt>>
      /\ profileRestore \in {"idle", "reading"}
  BY DEF RestoreStarts, RestoreEnds, RestoreFails, profileStoring, world
<1>2. put.kind # "kept" /\ \A f \in Frames : ~Waited(req[f])
  BY <1>1 DEF ProfileIInv, Putting, Gated
<1>3. \A h \in Hosts \ assigned : prof[h] = NoHost
  BY <1>1 DEF ProfileIInv, Kept
<1>4. Rooted' /\ Gated' /\ Putting'
  BY <1>1, <1>2 DEF ProfileIInv, Rooted, Gated, Putting
<1>5. CASE RestoreStarts
  <2>1. UNCHANGED <<prof, failed>> /\ profileRestore' = "reading"
    BY <1>5 DEF RestoreStarts
  <2>2. ProfileTyped' /\ Doubted' /\ Kept'
    BY <2>1, <1>1, <1>3 DEF ProfileIInv, ProfileTyped, ProfileTypeOK, Doubted, Marked, Kept
  <2> QED BY <2>2, <1>4 DEF ProfileIInv
<1>6. CASE RestoreFails
  <2>1. UNCHANGED <<prof>> /\ profileRestore' = "done" /\ failed'
    BY <1>6 DEF RestoreFails
  <2>2. failed' \in BOOLEAN
    BY <1>6 DEF RestoreFails
  <2>3. ProfileTyped' /\ Doubted' /\ Kept'
    BY <2>1, <2>2, <1>1, <1>3 DEF ProfileIInv, ProfileTyped, ProfileTypeOK, Doubted, Marked, Kept
  <2> QED BY <2>3, <1>4 DEF ProfileIInv
<1>7. CASE RestoreEnds
  <2>1. /\ profileRestore' = "done"
        /\ profileDisk.kind = "kept" =>
             /\ failed' = (failed \/ profileDisk.uncertain)
             /\ prof' = [h \in Hosts |-> IF h \in assigned \/ profileDisk.roots[h] = NoHost
                                         THEN prof[h] ELSE profileDisk.roots[h]]
        /\ profileDisk.kind # "kept" => prof' = prof
        /\ profileDisk.kind = "corrupt" => failed' = TRUE
        /\ profileDisk.kind \in {"kept", "none", "corrupt"}
        /\ profileDisk.kind = "none" => failed' = failed
    BY <1>7 DEF RestoreEnds
  <2>2. profileDisk.kind = "kept" => profileDisk \in Snapshots
    BY ProfileFacts DEF NoSnapshot
  <2>3. prof' \in [Hosts -> {NoHost, Durable, Session}] /\ failed' \in BOOLEAN
    BY <2>1, <2>2, ProfileFacts DEF Snapshots
  <2>4. ProfileTyped'
    BY <2>1, <2>3, <1>1 DEF ProfileIInv, ProfileTyped, ProfileTypeOK
  <2>5. Kept'
    BY <2>1, <2>2, <1>1, <1>3, ProfileFacts DEF Kept
  <2>6. Doubted'
    BY <2>1, <1>1, ProfileFacts DEF ProfileIInv, Doubted, Marked
  <2> QED BY <2>4, <2>5, <2>6, <1>4 DEF ProfileIInv
<1> QED BY <1>5, <1>6, <1>7

LEMMA PersistKeeps ==
  ASSUME ProfileIInv, PersistTurn \/ \E ok \in BOOLEAN : PersistEnds(ok)
  PROVE  ProfileIInv'
<1>1. UNCHANGED <<pages, owner, carries, root, prof, unbound, failed, assigned, profileRestore,
                  listed, req, doubt>>
  BY DEF PersistTurn, PersistEnds, profileMemory, world
<1>2. Rooted' /\ Gated'
  BY <1>1 DEF ProfileIInv, Rooted, Gated
<1>3. CASE PersistTurn
  <2>1. /\ queue > 0 /\ profileRestore = "done" /\ queue' = queue /\ profileDisk' = profileDisk
        /\ put' = [kind |-> "kept", roots |-> prof, uncertain |-> failed]
    BY <1>3 DEF PersistTurn, Snapshot
  <2>2. put' \in Snapshots
    BY <2>1, ProfileFacts DEF Snapshots
  <2>3. ProfileTyped'
    BY <2>1, <2>2, <1>1 DEF ProfileIInv, ProfileTyped, ProfileTypeOK
  <2>4. Doubted' /\ Putting' /\ Kept'
    BY <2>1, <1>1, ProfileFacts DEF ProfileIInv, Doubted, Marked, Putting, Kept
  <2> QED BY <2>3, <2>4, <1>2 DEF ProfileIInv
<1>4. ASSUME NEW ok \in BOOLEAN, PersistEnds(ok) PROVE ProfileIInv'
  <2>1. /\ put.kind = "kept" /\ profileDisk' = IF ok THEN put ELSE profileDisk
        /\ put' = NoSnapshot("none") /\ queue' = queue - 1
    BY <1>4 DEF PersistEnds
  <2>2. put \in Snapshots /\ put'.kind = "none" /\ (\A h \in Hosts : put'.roots[h] = NoHost)
    BY <2>1, ProfileFacts DEF NoSnapshot
  <2>3. queue' \in 0..(MaxPushes + 1)
    BY <2>1, ProfilesAssumption DEF ProfileIInv, ProfileTyped, ProfileTypeOK
  <2>4. ProfileTyped'
    BY <2>1, <2>2, <2>3, <1>1 DEF ProfileIInv, ProfileTyped, ProfileTypeOK
  <2>5. Doubted'
    BY <2>1, <2>2, <1>1, ProfileFacts DEF ProfileIInv, Doubted, Marked
  <2>6. Putting'
    BY <2>2 DEF Putting
  <2>7. Kept'
    BY <2>1, <1>1, ProfileFacts DEF ProfileIInv, Putting, Kept
  <2> QED BY <2>4, <2>5, <2>6, <2>7, <1>2 DEF ProfileIInv
<1> QED BY <1>3, <1>4

LEMMA PushKeeps ==
  ASSUME ProfileIInv, NEW h \in Hosts, NEW p \in {Durable, Session}, Push(h, p)
  PROVE  ProfileIInv'
<1>1. /\ prof' = [prof EXCEPT ![h] = p] /\ root' = [root EXCEPT ![h] = h]
      /\ assigned' = assigned \cup {h} /\ doubt' = doubt \ {h}
      /\ queue <= MaxPushes /\ queue' = queue + 1
      /\ UNCHANGED <<pages, owner, carries, unbound, failed, profileRestore, profileDisk, put,
                     listed, req>>
  BY DEF Push, world
<1>2. queue' \in 0..(MaxPushes + 1) /\ queue' > 0
  BY <1>1, ProfilesAssumption, ProfileFacts
<1>3. ProfileTyped'
  BY <1>1, <1>2, ProfileFacts DEF ProfileIInv, ProfileTyped, ProfileTypeOK, Clients
<1>4. Rooted'
  BY <1>1, ProfilesAssumption, ProfileFacts DEF ProfileIInv, Rooted, Clients
<1>5. Doubted'
  BY <1>1, ProfileFacts DEF ProfileIInv, Doubted, Marked
<1>6. Gated' /\ Putting' /\ Kept'
  BY <1>1, ProfileFacts DEF ProfileIInv, Gated, Putting, Kept
<1> QED BY <1>3, <1>4, <1>5, <1>6 DEF ProfileIInv

LEMMA PrunesKeeps ==
  ASSUME ProfileIInv, Prunes
  PROVE  ProfileIInv'
<1> DEFINE kept == {root[c] : c \in listed.of} \cup listed.of
           gone == {h \in Hosts : prof[h] # NoHost /\ h \notin kept}
           left == [h \in Hosts |-> IF h \in gone THEN NoHost ELSE prof[h]]
           private == \E h \in Hosts : left[h] = Session
           adrift == {c \in listed.of : root[c] # NoHost /\ left[root[c]] = NoHost /\ private}
<1>1. /\ listed' = Unlisted
      /\ prof' = left /\ assigned' = assigned \cup gone
      /\ root' = [c \in Clients |-> IF c \in listed.of \ adrift THEN root[c] ELSE NoHost]
      /\ unbound' = (unbound \cup adrift) \cap listed.of
      /\ queue' = IF gone # {} THEN queue + 1 ELSE queue
      /\ queue' <= MaxPushes + 1
      /\ UNCHANGED <<pages, owner, carries, failed, profileRestore, profileDisk, put, req, doubt>>
  BY DEF Prunes, world
<1>2. gone \subseteq Hosts
  OBVIOUS
<1>3. \A h \in Hosts : prof'[h] = NoHost \/ prof'[h] = prof[h]
  BY <1>1
<1>4. \A h \in Hosts \ assigned' : prof'[h] = prof[h]
  BY <1>1
<1>5. \A c \in Clients : root'[c] = NoHost \/ root'[c] = root[c]
  BY <1>1
<1>6. prof' \in [Hosts -> {NoHost, Durable, Session}]
  BY <1>1, ProfileFacts
<1>7. root' \in [Clients -> Hosts \cup {NoHost}]
  BY <1>1, ProfileFacts
<1>8. unbound' \subseteq Clients
  BY <1>1 DEF ProfileIInv, ProfileTyped, ProfileTypeOK
<1>9. assigned' \subseteq Hosts
  BY <1>1, <1>2, ProfileFacts
<1>10. queue' \in 0..(MaxPushes + 1) /\ (queue > 0 => queue' > 0)
  <2> HIDE DEF gone
  <2> QED BY <1>1, ProfilesAssumption, ProfileFacts
<1> HIDE DEF kept, gone, left, private, adrift
<1>11. ProfileTyped'
  BY <1>1, <1>6, <1>7, <1>8, <1>9, <1>10 DEF ProfileIInv, ProfileTyped, ProfileTypeOK, Unlisted
<1>12. Rooted'
  BY <1>1, <1>5 DEF ProfileIInv, Rooted, Clients
<1>13. Doubted'
  BY <1>1, <1>3, ProfileFacts DEF ProfileIInv, Doubted, Marked
<1>14. assigned \subseteq assigned'
  BY <1>1
<1>15. Gated' /\ Putting' /\ Kept'
  BY <1>1, <1>4, <1>14 DEF ProfileIInv, Gated, Putting, Kept
<1> QED BY <1>11, <1>12, <1>13, <1>15 DEF ProfileIInv

LEMMA RequestArrived ==
  ASSUME NEW q \in ProfileRequests
  PROVE  [q EXCEPT !.at = "gated"] \in ProfileRequests /\ ~Waited([q EXCEPT !.at = "gated"])
<1>1. "gated" \in Phases
  BY DEF Phases
<1>2. [q EXCEPT !.at = "gated"].at = "gated"
  BY DEF ProfileRequests
<1> QED BY <1>1, <1>2 DEF ProfileRequests, Waited

LEMMA RequestSent ==
  ASSUME NEW q \in ProfileRequests, q.at = "open",
         NEW j \in [root : Hosts \cup {NoHost}, name : {Durable, Session, Unknown}]
  PROVE  /\ [q EXCEPT !.at = "sent", !.jar = j] \in ProfileRequests
         /\ Waited([q EXCEPT !.at = "sent", !.jar = j]) => Waited(q)
<1>1. [q EXCEPT !.at = "sent", !.jar = j] \in ProfileRequests
  <2>1. "sent" \in Phases
    BY DEF Phases
  <2> QED BY <2>1 DEF ProfileRequests
<1>2. [q EXCEPT !.at = "sent", !.jar = j].early = q.early
  BY DEF ProfileRequests
<1> QED BY <1>1, <1>2 DEF Waited

LEMMA FrameKeeps ==
  ASSUME ProfileIInv, NEW f \in Frames,
         Arrives(f) \/ Attaches(f) \/ TakesCookies(f) \/ \E early \in BOOLEAN : PassesGate(f, early)
  PROVE  ProfileIInv'
<1>1. UNCHANGED <<pages, owner, carries, prof, failed, assigned, profileRestore, profileDisk, queue,
                  put, listed, doubt>>
  BY DEF Arrives, Attaches, TakesCookies, PassesGate, profileMemory, profileStoring, world
<1>2. Doubted' /\ Putting' /\ Kept'
  BY <1>1 DEF ProfileIInv, Doubted, Marked, Putting, Kept
<1>3. /\ root' = root \/ root' = [root EXCEPT ![f] = owner[f]]
      /\ unbound' \subseteq unbound \cup {f}
  BY DEF Arrives, Attaches, TakesCookies, PassesGate, profileMemory, Recovered
<1>4. root' \in [Clients -> Hosts \cup {NoHost}] /\ unbound' \subseteq Clients
  BY <1>3, ProfileFacts DEF Clients, ProfileIInv, ProfileTyped, ProfileTypeOK
<1>5. Rooted'
  BY <1>1, <1>3, ProfilesAssumption, ProfileFacts DEF ProfileIInv, Rooted, Clients
<1>6. /\ req' \in [Frames -> ProfileRequests]
      /\ \A g \in Frames : g # f => req'[g] = req[g]
      /\ Waited(req'[f]) => profileRestore = "done"
  <2>1. CASE Arrives(f) \/ TakesCookies(f)
    <3>1. PICK q : req' = [req EXCEPT ![f] = q] /\ q \in {Idle, [Idle EXCEPT !.at = "gated"]}
      BY <2>1 DEF Arrives, TakesCookies
    <3>2. Idle \in ProfileRequests /\ ~Waited(Idle)
      BY DEF Idle, NoJar, ProfileRequests, Phases, Durable, Session, Unknown, Waited
    <3>3. q \in ProfileRequests /\ ~Waited(q)
      BY <3>1, <3>2, RequestArrived
    <3> QED BY <3>1, <3>3, ProfileFacts
  <2>2. CASE Attaches(f)
    <3>1. PICK q : q = req[f]
      OBVIOUS
    <3>2. PICK j \in [root : Hosts \cup {NoHost}, name : {Durable, Session, Unknown}] : j = JarOf(f)
      BY JarNameOf
    <3>3. q.at = "open" /\ q \in ProfileRequests
      BY <2>2, <3>1, ProfileFacts DEF Attaches
    <3>4. req' = [req EXCEPT ![f] = [q EXCEPT !.at = "sent", !.jar = j]]
      BY <2>2, <3>1, <3>2, ProfileFacts DEF Attaches
    <3>5. /\ [q EXCEPT !.at = "sent", !.jar = j] \in ProfileRequests
          /\ Waited([q EXCEPT !.at = "sent", !.jar = j]) => Waited(q)
      BY <3>3, RequestSent
    <3>6. Waited(q) => profileRestore = "done"
      BY <3>1 DEF ProfileIInv, Gated
    <3> QED BY <3>4, <3>5, <3>6, ProfileFacts
  <2>3. ASSUME NEW early \in BOOLEAN, PassesGate(f, early)
        PROVE  /\ req' \in [Frames -> ProfileRequests]
               /\ \A g \in Frames : g # f => req'[g] = req[g]
               /\ Waited(req'[f]) => profileRestore = "done"
    <3>1. req' = [req EXCEPT ![f] = [at |-> "open", early |-> early, jar |-> NoJar]]
          /\ (~early => profileRestore = "done")
      BY <2>3 DEF PassesGate
    <3>2. PICK q : q = [at |-> "open", early |-> early, jar |-> NoJar]
      OBVIOUS
    <3>3. q \in ProfileRequests /\ (Waited(q) => ~early)
      BY <3>2 DEF ProfileRequests, Phases, NoJar, Durable, Session, Unknown, Waited
    <3> QED BY <3>1, <3>2, <3>3, ProfileFacts
  <2> QED BY <2>1, <2>2, <2>3
<1>7. \A g \in Frames : req'[g].at \in Phases
  BY <1>6 DEF ProfileRequests
<1>8. ProfileTyped'
  BY <1>1, <1>4, <1>6, <1>7 DEF ProfileIInv, ProfileTyped, ProfileTypeOK
<1>9. Gated'
  BY <1>1, <1>6 DEF ProfileIInv, Gated
<1> QED BY <1>2, <1>5, <1>8, <1>9 DEF ProfileIInv

LEMMA OthersKeep ==
  ASSUME ProfileIInv, PruneLists \/ (\E h \in Hosts : Closes(h)) \/ ProfileRestart
  PROVE  ProfileIInv'
<1>1. CASE PruneLists
  <2>1. listed' = [on |-> TRUE, of |-> pages]
        /\ UNCHANGED <<pages, owner, carries, root, prof, unbound, failed, assigned, profileRestore,
                       profileDisk, queue, put, req, doubt>>
    BY <1>1 DEF PruneLists, profileMemory, profileStoring, world
  <2> QED BY <2>1, ProfileFacts DEF ProfileIInv, ProfileTyped, ProfileTypeOK, Rooted, Doubted, Marked,
               Gated, Putting, Kept
<1>2. ASSUME NEW h \in Hosts, Closes(h) PROVE ProfileIInv'
  <2>1. /\ pages' \subseteq pages /\ carries' \subseteq carries
        /\ req' = [f \in Frames |-> IF f \in pages' THEN req[f] ELSE Idle]
        /\ UNCHANGED <<owner, root, prof, unbound, failed, assigned, profileRestore,
                       profileDisk, queue, put, listed, doubt>>
    BY <1>2 DEF Closes, profileMemory, profileStoring
  <2>2. Idle \in ProfileRequests
    BY DEF Idle, NoJar, ProfileRequests, Phases, Durable, Session, Unknown
  <2>3. req' \in [Frames -> ProfileRequests]
    BY <2>1, <2>2, ProfileFacts
  <2>4. \A f \in Frames : req'[f].at \in Phases
    BY <2>3 DEF ProfileRequests
  <2>5. ProfileTyped'
    BY <2>1, <2>3, <2>4 DEF ProfileIInv, ProfileTyped, ProfileTypeOK
  <2>6. Gated'
    BY <2>1 DEF ProfileIInv, Gated, Waited, Idle
  <2>7. Rooted' /\ Doubted' /\ Putting' /\ Kept'
    BY <2>1 DEF ProfileIInv, Rooted, Doubted, Marked, Putting, Kept
  <2> QED BY <2>5, <2>6, <2>7 DEF ProfileIInv
<1>3. CASE ProfileRestart
  <2>1. /\ root' = [c \in Clients |-> NoHost] /\ prof' = [h \in Hosts |-> NoHost]
        /\ unbound' = {} /\ failed' = FALSE /\ assigned' = {} /\ profileRestore' = "idle"
        /\ profileDisk' = profileDisk \/ (put.kind = "kept" /\ profileDisk' = put)
        /\ queue' = 0 /\ put' = NoSnapshot("none") /\ listed' = Unlisted
        /\ req' = [f \in Frames |-> Idle]
        /\ UNCHANGED <<pages, owner, carries, doubt>>
    BY <1>3 DEF ProfileRestart, world
  <2>2. put'.kind = "none" /\ (\A h \in Hosts : put'.roots[h] = NoHost)
    BY <2>1 DEF NoSnapshot
  <2>3. Idle \in ProfileRequests
    BY DEF Idle, NoJar, ProfileRequests, Phases, Durable, Session, Unknown
  <2>4. (put.kind = "kept" => put \in Snapshots) /\ queue' \in 0..(MaxPushes + 1)
    BY <2>1, ProfilesAssumption, ProfileFacts DEF NoSnapshot
  <2>5. req' \in [Frames -> ProfileRequests] /\ \A f \in Frames : req'[f] = Idle
    BY <2>1, <2>3
  <2>6. ProfileTyped'
    BY <2>1, <2>2, <2>4, <2>5 DEF ProfileIInv, ProfileTyped, ProfileTypeOK, Unlisted, Idle, Phases
  <2>7. Rooted'
    BY <2>1 DEF Rooted, Clients
  <2>8. Gated' /\ Putting' /\ Kept'
    BY <2>1, <2>2, <2>5 DEF Gated, Waited, Putting, Kept, Idle
  <2>9. Doubted'
    BY <2>1, <2>2, ProfileFacts DEF ProfileIInv, Doubted, Marked
  <2> QED BY <2>6, <2>7, <2>8, <2>9 DEF ProfileIInv
<1> QED BY <1>1, <1>2, <1>3

LEMMA ProfilesStep == ProfileIInv /\ [ProfileNext]_profileVars => ProfileIInv'
<1> SUFFICES ASSUME ProfileIInv, [ProfileNext]_profileVars PROVE ProfileIInv'
  OBVIOUS
<1>1. CASE UNCHANGED profileVars
  BY <1>1 DEF profileVars, ProfileIInv, ProfileTyped, ProfileTypeOK, Rooted, Doubted, Marked, Gated,
     Putting, Kept
<1>2. CASE ProfileNext
  BY <1>2, NavigatesKeeps, RestoreKeeps, PersistKeeps, PushKeeps, PrunesKeeps, FrameKeeps,
     OthersKeep DEF ProfileNext
<1> QED BY <1>1, <1>2

\* What a worker that does not know a window's profile has in memory, in the snapshot it
\* writes and in the store agrees at every moment, whatever is lost and restarted.
THEOREM ProfilesInductive == ProfileSpec => []ProfileIInv
  BY ProfilesStart, ProfilesStep, PTL DEF ProfileSpec

LEMMA UncertainStep ==
  ASSUME ProfileIInv, NEW f \in Frames, UsesJar(f), owner[f] \in doubt, ~req[f].early
  PROVE  JarOf(f).name # Durable
<1>1. profileRestore = "done"
  BY DEF UsesJar, Attaches, TakesCookies, ProfileIInv, Gated, Waited
<1>2. failed
  BY <1>1 DEF ProfileIInv, Doubted
<1>3. root[f] = NoHost \/ prof[root[f]] = NoHost
  BY DEF ProfileIInv, Rooted, Doubted
<1>4. Active(f) = Unknown
  BY <1>2, <1>3, JarNameOf DEF Active
<1> QED BY <1>4, JarNameOf DEF Unknown, Durable

LEMMA SnapshotStep ==
  ASSUME ProfileIInv, [ProfileNext]_profileVars, NEW h \in Hosts,
         reboots \in Nat, reboots' = reboots,
         profileDisk.kind = "kept", profileDisk' # profileDisk, h \notin assigned
  PROVE  profileDisk'.roots[h] = profileDisk.roots[h] \/ profileDisk'.uncertain
<1>1. \E ok \in BOOLEAN : PersistEnds(ok)
  <2>1. ~ProfileRestart
    BY DEF ProfileRestart
  <2> QED BY <2>1 DEF ProfileNext, profileVars, Closes, Navigates, RestoreStarts, RestoreEnds, RestoreFails,
          PersistTurn, Push, PruneLists, Prunes, Arrives, Attaches, TakesCookies, PassesGate,
          profileStoring
<1>2. profileDisk' = put /\ put.kind = "kept"
  BY <1>1 DEF PersistEnds
<1>3. put.uncertain = failed /\ put.roots[h] = prof[h] /\ profileRestore = "done"
  BY <1>2 DEF ProfileIInv, Putting
<1>4. ~failed => prof[h] = profileDisk.roots[h]
  BY <1>3 DEF ProfileIInv, Kept
<1> QED BY <1>2, <1>3, <1>4

RebootsTyped == reboots \in Nat

LEMMA RebootsStep == RebootsTyped /\ [ProfileNext]_profileVars => RebootsTyped'
<1> SUFFICES ASSUME RebootsTyped, [ProfileNext]_profileVars PROVE RebootsTyped'
  OBVIOUS
<1>1. CASE ProfileRestart
  BY <1>1 DEF ProfileRestart, RebootsTyped
<1>2. CASE ~ProfileRestart
  <2>1. reboots' = reboots
    BY <1>2 DEF ProfileNext, profileVars, profileBounds, Closes, Navigates, RestoreStarts, RestoreEnds,
       RestoreFails, PersistTurn, PersistEnds, Push, PruneLists, Prunes, Arrives, Attaches,
       TakesCookies, PassesGate
  <2> QED BY <2>1 DEF RebootsTyped
<1> QED BY <1>1, <1>2

LEMMA RebootsCounted == ProfileSpec => []RebootsTyped
<1>1. ProfileInit => RebootsTyped
  BY DEF ProfileInit, RebootsTyped
<1> QED BY <1>1, RebootsStep, PTL DEF ProfileSpec

\* Two promises of the jar's profiles: after an unreadable snapshot no frame uses the durable
\* jar before its own window has selected a profile, and a snapshot that replaces another
\* forgets no window that this worker has not heard of.
THEOREM WindowsKept == ProfileSpec => WindowsKeepTheirJar
<1>1. ProfileIInv => ProfileTypeOK
  BY DEF ProfileIInv, ProfileTyped
<1>2. ProfileIInv /\ [ProfileNext]_profileVars =>
        [ \A f \in Frames : UsesJar(f) /\ owner[f] \in doubt /\ ~req[f].early =>
            JarOf(f).name # Durable ]_profileVars
  BY UncertainStep
<1>3. ProfileIInv /\ RebootsTyped /\ [ProfileNext]_profileVars =>
        [ \A h \in Hosts :
            profileDisk.kind = "kept" /\ profileDisk' # profileDisk /\ reboots' = reboots
              /\ h \notin assigned =>
            profileDisk'.roots[h] = profileDisk.roots[h] \/ profileDisk'.uncertain ]_profileVars
  BY SnapshotStep DEF RebootsTyped
<1> QED BY <1>1, <1>2, <1>3, ProfilesInductive, RebootsCounted, PTL
     DEF ProfileSpec, WindowsKeepTheirJar, UncertainStaysClosed, SnapshotKeepsRoots

-----------------------------------------------------------------------------
(* The cookie jar.                                                           *)

JarTyped ==
  /\ JarTypeOK /\ jars \in [Spaces -> SUBSET Cookies]
  /\ \A s \in Spaces : IsFiniteSet(jars[s])
  /\ IsFiniteSet(snap) /\ IsFiniteSet(disk)

\* A write under way belongs to the chain, and nothing is stored before the load.
Chained == (chain = 0 => phase = "none") /\ (~loaded => chain = 0 /\ ~timer)

\* The write that the chain ends with writes the jar as it is.
LastWriteIsCurrent ==
  loaded /\ ~timer /\ chain = 1 /\ phase = "putting" => Alive(snap) = Alive(jars["default"])

JarIInv == JarTyped /\ Chained /\ QuietIsDurable /\ LastWriteIsCurrent

-----------------------------------------------------------------------------
LEMMA VictimsOf ==
  ASSUME NEW jar, IsFiniteSet(jar), NEW cap \in Nat, NEW spared,
         NEW v \in Victims(jar, cap, spared)
  PROVE  /\ v \subseteq jar \ spared /\ IsFiniteSet(v)
         /\ Cardinality(jar) <= cap => v = {}
<1> DEFINE size == Cardinality(jar)
           open == jar \ spared
           most == Cardinality(open)
           excess == IF size <= cap THEN 0 ELSE IF size - cap <= most THEN size - cap ELSE most
<1>1. v \subseteq open /\ Cardinality(v) = excess
  BY DEF Victims
<1>2. IsFiniteSet(v)
  BY <1>1, FS_Subset
<1>3. size <= cap => Cardinality(v) = 0
  BY <1>1
<1> QED BY <1>1, <1>2, <1>3, FS_EmptySet

\* Where one cookie is spared the others make room for it.
LEMMA VictimsSuffice ==
  ASSUME NEW jar, IsFiniteSet(jar), NEW cap \in Nat \ {0}, NEW x \in jar,
         NEW v \in Victims(jar, cap, {x})
  PROVE  Cardinality(jar \ v) <= cap
<1> DEFINE size == Cardinality(jar)
           open == jar \ {x}
           most == Cardinality(open)
           excess == IF size <= cap THEN 0 ELSE IF size - cap <= most THEN size - cap ELSE most
<1>1. v \subseteq open /\ Cardinality(v) = excess
  BY DEF Victims
<1>2. size \in Nat /\ most = size - 1
  BY FS_RemoveElement, FS_CardinalityType
<1>3. Cardinality(jar \ v) = size - Cardinality(v)
  <2>1. jar \cap v = v
    BY <1>1
  <2> QED BY <2>1, FS_Difference
<1> HIDE DEF size, most
<1> QED BY <1>1, <1>2, <1>3

\* What a sweep leaves is of the jar, alive, and keeps the spared cookies.
LEMMA SweptIsPart ==
  ASSUME NEW jar, IsFiniteSet(jar), NEW spared, NEW left \in Swept(jar, spared)
  PROVE  /\ left \subseteq Alive(jar) /\ IsFiniteSet(left)
         /\ Alive(jar) \cap spared \subseteq left
<1> DEFINE fresh == Alive(jar)
           perDomain ==
             {v \in SUBSET (fresh \ spared) :
                \A d \in Range(DomainOf) :
                  InDomain(v, d) \in Victims(InDomain(fresh, d), PerDomain, spared)}
<1>1. PICK v \in perDomain : \E w \in Victims(fresh \ v, Total, spared) : left = (fresh \ v) \ w
  BY DEF Swept
<1>2. fresh \subseteq jar
  BY DEF Alive
<1>3. IsFiniteSet(fresh \ v)
  BY <1>2, FS_Subset
<1>4. PICK w \in Victims(fresh \ v, Total, spared) : left = (fresh \ v) \ w
  BY <1>1
<1>5. w \cap spared = {} /\ v \cap spared = {}
  BY <1>1, <1>3, <1>4, VictimsOf, JarAssumption
<1>6. left \subseteq jar
  BY <1>2, <1>4
<1> QED BY <1>4, <1>5, <1>6, FS_Subset

\* An admitted cookie costs no other domain its share.
LEMMA SweptSpares ==
  ASSUME NEW jar, IsFiniteSet(jar), NEW x \in Alive(jar), NEW left \in Swept(jar, {x}),
         x.id \in Ids, \A c \in jar : c.id \in Ids,
         NEW others, others = {c \in Alive(jar) : DomainOf[c.id] # DomainOf[x.id]},
         Cardinality(others) + PerDomain <= Total,
         NEW c \in others, Cardinality(InDomain(others, DomainOf[c.id])) <= PerDomain
  PROVE  c \in left
<1> DEFINE fresh == Alive(jar)
           perDomain ==
             {v \in SUBSET (fresh \ {x}) :
                \A d \in Range(DomainOf) :
                  InDomain(v, d) \in Victims(InDomain(fresh, d), PerDomain, {x})}
           D == DomainOf[x.id]
           E == DomainOf[c.id]
<1>1. PICK v \in perDomain : \E w \in Victims(fresh \ v, Total, {x}) : left = (fresh \ v) \ w
  BY DEF Swept
<1>2. PICK w \in Victims(fresh \ v, Total, {x}) : left = (fresh \ v) \ w
  BY <1>1
<1>3. IsFiniteSet(fresh) /\ fresh \subseteq jar
  BY FS_Subset DEF Alive
<1>4. /\ v \subseteq fresh
      /\ \A d \in Range(DomainOf) : InDomain(v, d) \in Victims(InDomain(fresh, d), PerDomain, {x})
  OBVIOUS
<1>5. D \in Range(DomainOf) /\ E \in Range(DomainOf)
  BY <1>3, JarAssumption DEF Range
<1> HIDE DEF perDomain
<1>6. c \in fresh /\ E # D
  OBVIOUS
<1>7. c \notin v
  <2>1. InDomain(fresh, E) = InDomain(others, E)
    BY <1>6 DEF InDomain
  <2>2. IsFiniteSet(InDomain(fresh, E))
    BY <1>3, FS_Subset DEF InDomain
  <2>3. InDomain(v, E) = {}
    BY <1>4, <1>5, <2>1, <2>2, VictimsOf, JarAssumption
  <2> QED BY <2>3 DEF InDomain
<1>8. Cardinality(fresh \ v) <= Total
  <2> DEFINE mine == InDomain(fresh, D) \ InDomain(v, D)
             theirs == {k \in fresh \ v : DomainOf[k.id] # D}
  <2>1. IsFiniteSet(InDomain(fresh, D)) /\ x \in InDomain(fresh, D)
    BY <1>3, FS_Subset DEF InDomain
  <2>2. Cardinality(mine) <= PerDomain
    BY <1>4, <1>5, <2>1, VictimsSuffice, JarAssumption
  <2>3. IsFiniteSet(others)
    BY <1>3, FS_Subset
  <2>4. IsFiniteSet(theirs) /\ Cardinality(theirs) <= Cardinality(others)
    <3>1. theirs \subseteq others
      OBVIOUS
    <3> QED BY <2>3, <3>1, FS_Subset
  <2>5. IsFiniteSet(mine)
    BY <2>1, FS_Subset
  <2>6. fresh \ v = mine \cup theirs /\ mine \cap theirs = {}
    BY DEF InDomain
  <2> HIDE DEF mine, theirs
  <2>7. Cardinality(fresh \ v) = Cardinality(mine) + Cardinality(theirs)
    <3>1. Cardinality(mine \cap theirs) = 0
      BY <2>6, FS_EmptySet
    <3>2. Cardinality(mine \cup theirs) = Cardinality(mine) + Cardinality(theirs) - Cardinality(mine \cap theirs)
      BY <2>4, <2>5, FS_Union
    <3>3. Cardinality(mine) \in Nat /\ Cardinality(theirs) \in Nat
      BY <2>4, <2>5, FS_CardinalityType
    <3>4. PICK m \in Nat, t \in Nat : m = Cardinality(mine) /\ t = Cardinality(theirs)
      BY <3>3
    <3>5. Cardinality(mine \cup theirs) = m + t - 0
      BY <3>1, <3>2, <3>4
    <3>6. m + t - 0 = m + t
      OBVIOUS
    <3> QED BY <3>4, <3>5, <3>6, <2>6
  <2>8. Cardinality(mine) \in Nat /\ Cardinality(theirs) \in Nat /\ Cardinality(others) \in Nat
    BY <2>3, <2>4, <2>5, FS_CardinalityType
  <2>9. PerDomain \in Nat /\ Total \in Nat
    BY JarAssumption
  <2> QED BY <2>2, <2>4, <2>7, <2>8, <2>9
<1>9. w = {}
  <2>1. IsFiniteSet(fresh \ v)
    BY <1>3, FS_Subset
  <2> QED BY <1>8, <2>1, VictimsOf, JarAssumption
<1> QED BY <1>2, <1>6, <1>7, <1>9

-----------------------------------------------------------------------------
LEMMA EarlierTyped == Earlier \subseteq Cookies /\ IsFiniteSet(Earlier)
<1>1. PICK p \in Origins : p = CHOOSE o \in Origins : TRUE
  BY JarAssumption
<1> DEFINE f == [i \in Stored |-> [at |-> p, id |-> i, made |-> 1, exp |-> 0, http |-> FALSE]]
<1>2. Earlier = {[at |-> p, id |-> i, made |-> 1, exp |-> 0, http |-> FALSE] : i \in Stored}
  BY <1>1 DEF Earlier
<1>3. 1 \in 1..MaxNow /\ 0 \in Expiries
  BY JarAssumption DEF Expiries
<1>4. \A i \in Stored : [at |-> p, id |-> i, made |-> 1, exp |-> 0, http |-> FALSE] \in Cookies
  BY <1>3, JarAssumption DEF Cookies
<1>5. f \in Surjection(Stored, Earlier)
  BY <1>2 DEF Surjection
<1> QED BY <1>2, <1>4, <1>5, FS_Surjection, JarAssumption

LEMMA JarStart == JarInit => JarIInv
<1> SUFFICES ASSUME JarInit PROVE JarIInv
  OBVIOUS
<1>1. jars = [s \in Spaces |-> {}] /\ jars \in [Spaces -> SUBSET Cookies]
  BY DEF JarInit
<1>2. (\A s \in Spaces : IsFiniteSet(jars[s])) /\ IsFiniteSet(snap) /\ IsFiniteSet(disk) /\ disk \subseteq Cookies
  BY <1>1, EarlierTyped, FS_EmptySet DEF JarInit
<1>3. now \in 1..MaxNow /\ ops \in 0..MaxOps /\ restarts \in 0..MaxRestarts /\ chain \in 0..MaxChain
  BY JarAssumption DEF JarInit, MaxChain
<1>4. JarTyped
  BY <1>1, <1>2, <1>3 DEF JarTyped, JarTypeOK, JarInit
<1> QED BY <1>4 DEF JarIInv, JarInit, Chained, QuietIsDurable, LastWriteIsCurrent

LEMMA JarFacts ==
  ASSUME JarIInv
  PROVE  /\ jars \in [Spaces -> SUBSET Cookies] /\ \A s \in Spaces : IsFiniteSet(jars[s])
         /\ IsFiniteSet(snap) /\ IsFiniteSet(disk)
         /\ snap \subseteq Cookies /\ disk \subseteq Cookies
         /\ now \in 1..MaxNow /\ timer \in BOOLEAN /\ loaded \in BOOLEAN
         /\ chain \in 0..2 /\ missed \in BOOLEAN
         /\ ops \in 0..MaxOps /\ restarts \in 0..MaxRestarts
         /\ phase \in {"none", "opening", "putting"}
  BY DEF JarIInv, JarTyped, JarTypeOK, MaxChain

LEMMA CookieOfInput ==
  ASSUME JarIInv, NEW o \in Origins, NEW i \in Ids, NEW exp \in Expiries, NEW http \in BOOLEAN
  PROVE  [at |-> o, id |-> i, made |-> now, exp |-> exp, http |-> http] \in Cookies
  BY JarFacts DEF Cookies

LEMMA CookiePlaced ==
  ASSUME NEW s, NEW c \in Cookies, NEW home \in Cookies
  PROVE  /\ Placed(s, c, home) \in Cookies
         /\ Placed(s, c, home).id = c.id /\ Placed(s, c, home).exp = c.exp
<1>1. Placed(s, c, home) \in Cookies
  BY DEF Placed, Cookies
<1>2. Placed(s, c, home).id = c.id
  BY DEF Placed, Cookies
<1>3. Placed(s, c, home).exp = c.exp
  BY DEF Placed, Cookies
<1> QED BY <1>1, <1>2, <1>3

\* What an admission does: one cookie of the identity, in a jar swept for it.
Admitted(s, i, script, new, left) ==
  /\ new.id = i /\ Live(new)
  /\ left \in Swept((jars[s] \ Copies(s, i)) \cup {new}, {new})
  /\ jars' = [jars EXCEPT ![s] = left]
  /\ ops < MaxOps /\ ops' = ops + 1 /\ timer' = TRUE
  /\ did' = Did("admit", s, i, script)
  /\ UNCHANGED <<chain, phase, snap, disk, missed, now, loaded, restarts>>

LEMMA AdmitsEffect ==
  ASSUME JarIInv, NEW s \in Spaces, NEW o \in Origins, NEW i \in Ids, NEW exp \in Expiries,
         NEW http \in BOOLEAN, NEW script \in BOOLEAN, Admits(s, o, i, exp, http, script)
  PROVE  \E new \in Cookies, left \in SUBSET Cookies : Admitted(s, i, script, new, left)
<1> DEFINE c == [at |-> o, id |-> i, made |-> now, exp |-> exp, http |-> http]
           homes == IF Copies(s, i) = {} THEN {c} ELSE Homes(s, i)
<1>1. c \in Cookies /\ c.id = i /\ c.exp = exp
  BY CookieOfInput
<1>2. homes \subseteq Cookies
  BY <1>1, JarFacts DEF Homes, Copies
<1>3. PICK home \in homes : \E left \in Swept((jars[s] \ Copies(s, i)) \cup {Placed(s, c, home)}, {Placed(s, c, home)}) :
                               Change(s, left)
  BY DEF Admits
<1>4. PICK left \in Swept((jars[s] \ Copies(s, i)) \cup {Placed(s, c, home)}, {Placed(s, c, home)}) : Change(s, left)
  BY <1>3
<1>5. /\ exp = 0 \/ exp > now
      /\ timer' = TRUE /\ did' = Did("admit", s, i, script)
      /\ UNCHANGED <<chain, phase, snap, disk, missed, now, loaded, restarts>>
  BY DEF Admits, writing, jarBounds
<1> HIDE DEF c, homes
<1>6. PICK new \in Cookies : new = Placed(s, c, home) /\ new.id = i /\ new.exp = exp
  BY <1>1, <1>2, CookiePlaced
<1>7. IsFiniteSet((jars[s] \ Copies(s, i)) \cup {new})
  <2>1. IsFiniteSet(jars[s] \ Copies(s, i))
    BY JarFacts, FS_Difference
  <2> QED BY <2>1, FS_AddElement
<1>8. left \subseteq (jars[s] \ Copies(s, i)) \cup {new}
  BY <1>4, <1>6, <1>7, SweptIsPart DEF Alive
<1>9. left \subseteq Cookies
  BY <1>8, JarFacts
<1> QED BY <1>4, <1>5, <1>6, <1>9 DEF Change, Live, Admitted

JarsTyped(js) == js \in [Spaces -> SUBSET Cookies] /\ \A s \in Spaces : IsFiniteSet(js[s])

LEMMA JarOfChange ==
  ASSUME JarIInv, NEW s \in Spaces, NEW left \in SUBSET Cookies, IsFiniteSet(left),
         jars' = [jars EXCEPT ![s] = left]
  PROVE  /\ JarsTyped(jars') /\ jars'[s] = left
         /\ \A t \in Spaces \ {s} : jars'[t] = jars[t]
<1>1. jars \in [Spaces -> SUBSET Cookies] /\ \A t \in Spaces : IsFiniteSet(jars[t])
  BY JarFacts
<1>2. jars' \in [Spaces -> SUBSET Cookies] /\ jars'[s] = left /\ \A t \in Spaces \ {s} : jars'[t] = jars[t]
  BY <1>1
<1>3. \A t \in Spaces : IsFiniteSet(jars'[t])
  BY <1>1, <1>2
<1> QED BY <1>2, <1>3 DEF JarsTyped

\* A change of the jars is due to be saved, or is of the session jar only.
LEMMA JarEdited ==
  ASSUME JarIInv, loaded, JarsTyped(jars'), ops < MaxOps, ops' = ops + 1, timer' \in BOOLEAN,
         timer' \/ (timer' = timer /\ jars'["default"] = jars["default"]),
         UNCHANGED <<chain, phase, snap, disk, missed, now, loaded, restarts>>
  PROVE  JarIInv'
<1>1. ops' \in 0..MaxOps
  BY JarFacts, JarAssumption
<1>2. JarTyped'
  BY <1>1 DEF JarIInv, JarTyped, JarTypeOK, JarsTyped
<1>3. Chained'
  BY DEF JarIInv, Chained
<1>4. CASE timer'
  BY <1>2, <1>3, <1>4 DEF JarIInv, QuietIsDurable, LastWriteIsCurrent
<1>5. CASE timer' = timer /\ jars'["default"] = jars["default"]
  <2>1. Alive(disk)' = Alive(disk) /\ Alive(snap)' = Alive(snap)
        /\ Alive(jars["default"])' = Alive(jars["default"])
    BY <1>5 DEF Alive, Live
  <2>2. QuietIsDurable' /\ LastWriteIsCurrent'
    BY <2>1, <1>5 DEF JarIInv, QuietIsDurable, LastWriteIsCurrent
  <2> QED BY <1>2, <1>3, <2>2 DEF JarIInv
<1> QED BY <1>4, <1>5

\* A write asked for is behind the one under way, and is not under way itself.
LEMMA JarAsked ==
  ASSUME JarIInv, loaded, JarsTyped(jars'), Ask, ops' \in 0..MaxOps, timer' \in BOOLEAN,
         UNCHANGED <<phase, snap, disk, missed, now, loaded, restarts>>
  PROVE  JarIInv'
<1>1. chain' = chain + 1 /\ chain < 2 /\ chain \in 0..2
  BY JarFacts DEF Ask, MaxChain
<1>2. chain' \in 0..2 /\ chain' # 0 /\ (chain' = 1 => chain = 0)
  BY <1>1
<1>3. JarTyped'
  BY <1>2 DEF JarIInv, JarTyped, JarTypeOK, JarsTyped, MaxChain
<1>4. Chained' /\ QuietIsDurable' /\ LastWriteIsCurrent'
  BY <1>2 DEF JarIInv, Chained, QuietIsDurable, LastWriteIsCurrent
<1> QED BY <1>3, <1>4 DEF JarIInv

LEMMA ImportTyped ==
  ASSUME JarIInv, NEW o \in Origins, NEW i \in Ids, NEW http \in BOOLEAN
  PROVE  Imported(o, i, http) \in Cookies
<1>1. 0 \in Expiries
  BY DEF Expiries
<1> QED BY <1>1, CookieOfInput DEF Imported

LEMMA JarsKept ==
  ASSUME JarIInv, jars' = jars
  PROVE  JarsTyped(jars')
  BY JarFacts DEF JarsTyped

LEMMA InputOf ==
  ASSUME NEW in \in Inputs
  PROVE  in[1] \in Spaces /\ in[2] \in Origins /\ in[3] \in Ids
  BY JarAssumption DEF Spaces

LEMMA AdmitsKeeps ==
  ASSUME JarIInv, loaded, NEW s \in Spaces, NEW o \in Origins, NEW i \in Ids, NEW exp \in Expiries,
         NEW http \in BOOLEAN, NEW script \in BOOLEAN, Admits(s, o, i, exp, http, script)
  PROVE  JarIInv'
<1>0. PICK new \in Cookies, left \in SUBSET Cookies : Admitted(s, i, script, new, left)
  BY AdmitsEffect
<1>1. /\ left \in Swept((jars[s] \ Copies(s, i)) \cup {new}, {new})
      /\ jars' = [jars EXCEPT ![s] = left]
      /\ ops < MaxOps /\ ops' = ops + 1 /\ timer' = TRUE
      /\ UNCHANGED <<chain, phase, snap, disk, missed, now, loaded, restarts>>
  BY <1>0 DEF Admitted
<1>2. IsFiniteSet((jars[s] \ Copies(s, i)) \cup {new})
  <2>1. IsFiniteSet(jars[s] \ Copies(s, i))
    BY JarFacts, FS_Difference
  <2> QED BY <2>1, FS_AddElement
<1>3. IsFiniteSet(left)
  BY <1>1, <1>2, SweptIsPart
<1>4. JarsTyped(jars')
  BY <1>1, <1>3, JarOfChange
<1> QED BY <1>1, <1>4, JarEdited

LEMMA EditKeeps ==
  ASSUME JarIInv, loaded,
         \/ \E s \in Spaces, i \in Ids, script \in BOOLEAN : Retires(s, i, script)
         \/ Reads \/ \E s \in Spaces, o \in Origins : Clears(s, o)
         \/ LeavesProfile
  PROVE  JarIInv'
<1>1. UNCHANGED <<chain, phase, snap, disk, missed, now, loaded, restarts>>
      /\ ops < MaxOps /\ ops' = ops + 1
  BY DEF Retires, Reads, Clears, LeavesProfile, Change, writing, jarBounds
<1>2. ASSUME NEW s \in Spaces, NEW left \in SUBSET jars[s], jars' = [jars EXCEPT ![s] = left]
      PROVE  JarsTyped(jars') /\ \A t \in Spaces \ {s} : jars'[t] = jars[t]
  <2>1. left \in SUBSET Cookies /\ IsFiniteSet(left)
    BY JarFacts, FS_Subset
  <2> QED BY <2>1, <1>2, JarOfChange
<1>3. ASSUME NEW s \in Spaces, NEW i \in Ids, NEW script \in BOOLEAN, Retires(s, i, script)
      PROVE  JarIInv'
  <2>1. PICK left \in SUBSET jars[s] : jars' = [jars EXCEPT ![s] = left] /\ timer' = TRUE
    BY <1>3 DEF Retires, Change
  <2> QED BY <2>1, <1>1, <1>2, JarEdited
<1>4. CASE Reads
  <2>1. jars' = [s \in Spaces |-> Alive(jars[s])] /\ timer' = TRUE
    BY <1>4 DEF Reads
  <2>2. \A s \in Spaces : Alive(jars[s]) \in SUBSET jars[s]
    BY DEF Alive
  <2>3. \A s \in Spaces : Alive(jars[s]) \in SUBSET Cookies /\ IsFiniteSet(Alive(jars[s]))
    BY <2>2, JarFacts, FS_Subset
  <2>4. JarsTyped(jars')
    BY <2>1, <2>3 DEF JarsTyped
  <2> QED BY <2>1, <2>4, <1>1, JarEdited
<1>5. ASSUME NEW s \in Spaces, NEW o \in Origins, Clears(s, o) PROVE JarIInv'
  <2>1. PICK left \in SUBSET jars[s] : jars' = [jars EXCEPT ![s] = left]
    BY <1>5 DEF Clears, Change
  <2>2. timer' = (timer \/ s = "default")
    BY <1>5 DEF Clears
  <2>3. timer' \in BOOLEAN /\ (timer' \/ (timer' = timer /\ s # "default"))
    BY <2>2, JarFacts
  <2>4. s # "default" => jars'["default"] = jars["default"]
    BY <2>1, <1>2 DEF Spaces
  <2>5. JarsTyped(jars')
    BY <2>1, <1>2
  <2> QED BY <2>3, <2>4, <2>5, <1>1, JarEdited
<1>6. CASE LeavesProfile
  <2>1. jars' = [jars EXCEPT !["session"] = {}] /\ timer' = timer
    BY <1>6 DEF LeavesProfile, Change
  <2>2. JarsTyped(jars') /\ jars'["default"] = jars["default"]
    BY <2>1, <1>2 DEF Spaces
  <2> QED BY <2>1, <2>2, <1>1, JarEdited, JarFacts
<1> QED BY <1>3, <1>4, <1>5, <1>6

LEMMA AskKeeps ==
  ASSUME JarIInv, loaded,
         \/ \E s \in Spaces, o \in Origins, i \in Ids, http \in BOOLEAN : Merges(s, o, i, http)
         \/ \E s \in Spaces, o \in Origins, i \in Ids : Replaces(s, o, i)
         \/ Teardown \/ TimerFires \/ Flushes
  PROVE  JarIInv'
<1>1. Ask /\ UNCHANGED <<phase, snap, disk, missed, now, loaded, restarts>>
  BY DEF Merges, Replaces, Teardown, TimerFires, Flushes, jarBounds
<1>2. timer' \in BOOLEAN
  BY JarFacts DEF Merges, Replaces, Teardown, TimerFires, Flushes
<1>3. ops' \in 0..MaxOps
  <2>1. ops' = ops \/ (ops < MaxOps /\ ops' = ops + 1)
    BY DEF Merges, Replaces, Teardown, TimerFires, Flushes, Change
  <2> QED BY <2>1, JarFacts, JarAssumption
<1>4. JarsTyped(jars')
  <2>1. ASSUME NEW s \in Spaces, NEW o \in Origins, NEW i \in Ids, NEW http \in BOOLEAN, Merges(s, o, i, http)
        PROVE  JarsTyped(jars')
    <3> DEFINE new == Imported(o, i, http)
               there == {c \in Copies(s, i) : c.at = o}
    <3>1. \/ jars' = [jars EXCEPT ![s] = (jars[s] \ there) \cup {new}]
          \/ jars' = [jars EXCEPT ![s] = jars[s]]
      BY <2>1 DEF Merges, Change
    <3>2. new \in Cookies
      BY ImportTyped
    <3>3. IsFiniteSet(jars[s] \ there)
      BY JarFacts, FS_Difference
    <3>4. IsFiniteSet((jars[s] \ there) \cup {new}) /\ IsFiniteSet(jars[s])
      BY <3>3, FS_AddElement, JarFacts
    <3>5. (jars[s] \ there) \cup {new} \in SUBSET Cookies /\ jars[s] \in SUBSET Cookies
      BY <3>2, JarFacts
    <3> HIDE DEF new, there
    <3> QED BY <3>1, <3>4, <3>5, JarOfChange
  <2>2. ASSUME NEW s \in Spaces, NEW o \in Origins, NEW i \in Ids, Replaces(s, o, i)
        PROVE  JarsTyped(jars')
    <3>1. jars' = [jars EXCEPT ![s] = {Imported(o, i, FALSE)}]
      BY <2>2 DEF Replaces, Change
    <3>2. {Imported(o, i, FALSE)} \in SUBSET Cookies /\ IsFiniteSet({Imported(o, i, FALSE)})
      BY ImportTyped, FS_Singleton
    <3> QED BY <3>1, <3>2, JarOfChange
  <2>3. CASE Teardown
    BY <2>3, FS_EmptySet DEF Teardown, JarsTyped
  <2>4. CASE TimerFires \/ Flushes
    BY <2>4, JarsKept DEF TimerFires, Flushes
  <2> QED BY <2>1, <2>2, <2>3, <2>4
<1> QED BY <1>1, <1>2, <1>3, <1>4, JarAsked

LEMMA TurnKeeps ==
  ASSUME JarIInv, TurnStarts \/ Collects \/ Puts \/ TurnFails
  PROVE  JarIInv'
<1>1. UNCHANGED <<timer, ops, now, loaded, restarts>>
  BY DEF TurnStarts, Collects, Puts, TurnFails, jarBounds
<1>2. chain # 0
  BY DEF TurnStarts, Collects, Puts, TurnFails, JarIInv, Chained
<1>3. CASE TurnStarts
  <2>1. phase' = "opening" /\ UNCHANGED <<chain, snap, disk, missed>>
    BY <1>3 DEF TurnStarts
  <2>2. PICK left \in Swept(jars["default"], {}) : jars' = [jars EXCEPT !["default"] = left]
    BY <1>3 DEF TurnStarts
  <2>3. IsFiniteSet(jars["default"]) /\ jars["default"] \subseteq Cookies
    BY JarFacts DEF Spaces
  <2>4. left \subseteq jars["default"] /\ IsFiniteSet(left)
    BY <2>3, SweptIsPart DEF Alive
  <2>5. JarsTyped(jars')
    BY <2>2, <2>3, <2>4, JarOfChange DEF Spaces
  <2>6. JarTyped'
    BY <2>1, <2>5, <1>1 DEF JarIInv, JarTyped, JarTypeOK, JarsTyped
  <2> QED BY <2>1, <2>6, <1>1, <1>2 DEF JarIInv, Chained, QuietIsDurable, LastWriteIsCurrent
<1>4. CASE Collects
  <2>1. phase' = "putting" /\ snap' = jars["default"] /\ UNCHANGED <<jars, chain, disk, missed>>
    BY <1>4 DEF Collects
  <2>2. IsFiniteSet(snap') /\ snap' \subseteq Cookies
    BY <2>1, JarFacts DEF Spaces
  <2>3. JarTyped'
    BY <2>1, <2>2, <1>1 DEF JarIInv, JarTyped, JarTypeOK
  <2>4. Alive(snap)' = Alive(jars["default"])'
    BY <2>1
  <2> QED BY <2>1, <2>3, <2>4, <1>1, <1>2 DEF JarIInv, Chained, QuietIsDurable, LastWriteIsCurrent
<1>5. CASE Puts
  <2>1. /\ phase = "putting" /\ phase' = "none" /\ disk' = snap /\ snap' = {} /\ missed' = FALSE
        /\ chain' = chain - 1 /\ jars' = jars
    BY <1>5 DEF Puts
  <2>2. chain' \in 0..2 /\ (chain' = 0 => chain = 1)
    BY <2>1, <1>2, JarFacts
  <2>3. JarTyped'
    BY <2>1, <2>2, <1>1, FS_EmptySet DEF JarIInv, JarTyped, JarTypeOK, MaxChain
  <2>4. Alive(disk)' = Alive(snap) /\ Alive(jars["default"])' = Alive(jars["default"])
    BY <2>1, <1>1 DEF Alive, Live
  <2>5. QuietIsDurable'
    BY <2>1, <2>2, <2>4, <1>1 DEF JarIInv, QuietIsDurable, LastWriteIsCurrent
  <2>6. Chained' /\ LastWriteIsCurrent'
    BY <2>1, <1>1, <1>2 DEF JarIInv, Chained, LastWriteIsCurrent
  <2> QED BY <2>3, <2>5, <2>6 DEF JarIInv
<1>6. CASE TurnFails
  <2>1. /\ phase' = "none" /\ snap' = {} /\ missed' = TRUE /\ chain' = chain - 1
        /\ UNCHANGED <<jars, disk>>
    BY <1>6 DEF TurnFails
  <2>2. chain' \in 0..2
    BY <2>1, <1>2, JarFacts
  <2>3. JarTyped'
    BY <2>1, <2>2, <1>1, FS_EmptySet DEF JarIInv, JarTyped, JarTypeOK, MaxChain
  <2> QED BY <2>1, <2>3, <1>1, <1>2 DEF JarIInv, Chained, QuietIsDurable, LastWriteIsCurrent
<1> QED BY <1>3, <1>4, <1>5, <1>6

LEMMA LoadKeeps ==
  ASSUME JarIInv, Loads \/ JarRestart \/ Tick
  PROVE  JarIInv'
<1>1. CASE Loads
  <2>1. /\ ~loaded /\ jars' = [s \in Spaces |-> IF s = "default" THEN disk ELSE {}]
        /\ loaded' = TRUE
        /\ UNCHANGED <<timer, ops, now, restarts, chain, phase, snap, disk, missed>>
    BY <1>1 DEF Loads, writing
  <2>2. JarsTyped(jars') /\ jars'["default"] = disk
    BY <2>1, JarFacts, FS_EmptySet DEF JarsTyped, Spaces
  <2>3. JarTyped'
    BY <2>1, <2>2 DEF JarIInv, JarTyped, JarTypeOK, JarsTyped
  <2>4. chain = 0 /\ ~timer
    BY <2>1 DEF JarIInv, Chained
  <2>5. QuietIsDurable'
    BY <2>1, <2>2 DEF QuietIsDurable
  <2> QED BY <2>1, <2>3, <2>4, <2>5 DEF JarIInv, Chained, LastWriteIsCurrent
<1>2. CASE JarRestart
  <2>1. /\ restarts < MaxRestarts /\ restarts' = restarts + 1
        /\ disk' = snap \/ disk' = disk
        /\ jars' = [s \in Spaces |-> {}] /\ timer' = FALSE
        /\ chain' = 0 /\ phase' = "none" /\ snap' = {} /\ loaded' = FALSE
        /\ missed' = FALSE /\ UNCHANGED <<now, ops>>
    BY <1>2 DEF JarRestart
  <2>2. restarts' \in 0..MaxRestarts /\ chain' \in 0..2
    BY <2>1, JarFacts, JarAssumption
  <2>3. JarsTyped(jars')
    BY <2>1, FS_EmptySet DEF JarsTyped
  <2>4. disk' \subseteq Cookies /\ IsFiniteSet(disk') /\ IsFiniteSet(snap')
    BY <2>1, JarFacts, FS_EmptySet
  <2>5. JarTyped'
    BY <2>1, <2>2, <2>3, <2>4 DEF JarIInv, JarTyped, JarTypeOK, JarsTyped, MaxChain
  <2> QED BY <2>1, <2>5 DEF JarIInv, Chained, QuietIsDurable, LastWriteIsCurrent
<1>3. CASE Tick
  <2>1. /\ now < MaxNow /\ now' = now + 1
        /\ UNCHANGED <<jars, timer, loaded, ops, restarts, chain, phase, snap, disk, missed>>
    BY <1>3 DEF Tick, writing
  <2>2. now' \in 1..MaxNow /\ now \in Nat
    BY <2>1, JarFacts, JarAssumption
  <2>3. JarTyped'
    BY <2>1, <2>2 DEF JarIInv, JarTyped, JarTypeOK
  <2>4. \A c \in Cookies : Live(c)' => Live(c)
    <3> SUFFICES ASSUME NEW c \in Cookies, Live(c)' PROVE Live(c)
      OBVIOUS
    <3>1. c.exp \in Nat
      BY JarAssumption DEF Cookies, Expiries
    <3> QED BY <3>1, <2>1, <2>2 DEF Live
  <2>5. ASSUME NEW a \in SUBSET Cookies PROVE {c \in a : Live(c)'} = {c \in Alive(a) : Live(c)'}
    BY <2>4 DEF Alive
  <2>6. /\ Alive(disk)' = {c \in Alive(disk) : Live(c)'}
        /\ Alive(snap)' = {c \in Alive(snap) : Live(c)'}
        /\ Alive(jars["default"])' = {c \in Alive(jars["default"]) : Live(c)'}
    <3>1. disk \in SUBSET Cookies /\ snap \in SUBSET Cookies /\ jars["default"] \in SUBSET Cookies
      BY JarFacts DEF Spaces
    <3>2. /\ Alive(disk)' = {c \in disk : Live(c)'}
          /\ Alive(snap)' = {c \in snap : Live(c)'}
          /\ Alive(jars["default"])' = {c \in jars["default"] : Live(c)'}
      BY <2>1 DEF Alive
    <3> QED BY <3>1, <3>2, <2>5
  <2>7. QuietIsDurable' /\ LastWriteIsCurrent'
    BY <2>1, <2>6 DEF JarIInv, QuietIsDurable, LastWriteIsCurrent
  <2> QED BY <2>1, <2>3, <2>7 DEF JarIInv, Chained
<1> QED BY <1>1, <1>2, <1>3

LEMMA JarStep == JarIInv /\ [JarNext]_jarVars => JarIInv'
<1> SUFFICES ASSUME JarIInv, [JarNext]_jarVars PROVE JarIInv'
  OBVIOUS
<1>1. CASE UNCHANGED jarVars
  <2>1. Alive(disk)' = Alive(disk) /\ Alive(snap)' = Alive(snap)
        /\ Alive(jars["default"])' = Alive(jars["default"])
    BY <1>1 DEF jarVars, Alive, Live
  <2> QED BY <1>1, <2>1 DEF jarVars, JarIInv, JarTyped, JarTypeOK, Chained, QuietIsDurable,
               LastWriteIsCurrent
<1>2. CASE JarNext
  BY <1>2, InputOf, AdmitsKeeps, EditKeeps, AskKeeps, TurnKeeps, LoadKeeps DEF JarNext
<1> QED BY <1>1, <1>2

\* The last write of the chain writes the jar as it is, the chain is idle until the jar is
\* loaded, and every jar and record stays finite.
THEOREM JarInductive == JarSpec => []JarIInv
  BY JarStart, JarStep, PTL DEF JarSpec

-----------------------------------------------------------------------------
Settled ==
  ops' # ops /\ did' # Nothing =>
    LET s == did'.space
        i == did'.id
        left == {c \in jars'[s] : c.id = i}
    IN /\ \A t \in Spaces \ {s} : jars'[t] = jars[t]
       /\ did'.what = "admit" =>
            /\ Cardinality(left) = 1
            /\ LET others == {c \in Alive(jars[s]) :
                                DomainOf[c.id] # DomainOf[i]}
               IN Cardinality(others) + PerDomain <= Total =>
                    \A c \in others :
                      Cardinality(InDomain(others, DomainOf[c.id])) <= PerDomain =>
                        c \in jars'[s]
       /\ did'.what = "retire" =>
            \A c \in left : did'.script /\ c.http

LEMMA AdmitsSettles ==
  ASSUME JarIInv, NEW s \in Spaces, NEW o \in Origins, NEW i \in Ids, NEW exp \in Expiries,
         NEW http \in BOOLEAN, NEW script \in BOOLEAN, Admits(s, o, i, exp, http, script)
  PROVE  Settled
<1>0. PICK new \in Cookies, left \in SUBSET Cookies : Admitted(s, i, script, new, left)
  BY AdmitsEffect
<1>1. /\ new.id = i /\ Live(new)
      /\ left \in Swept((jars[s] \ Copies(s, i)) \cup {new}, {new})
      /\ jars' = [jars EXCEPT ![s] = left]
      /\ did' = Did("admit", s, i, script)
  BY <1>0 DEF Admitted
<1> DEFINE base == jars[s] \ Copies(s, i)
           jar == base \cup {new}
           others == {c \in Alive(jars[s]) : DomainOf[c.id] # DomainOf[i]}
<1>2. IsFiniteSet(jar)
  <2>1. IsFiniteSet(base)
    BY JarFacts, FS_Difference
  <2> QED BY <2>1, FS_AddElement
<1>3. IsFiniteSet(left) /\ new \in left /\ left \subseteq jar
  <2>1. new \in Alive(jar)
    BY <1>1 DEF Alive
  <2> QED BY <1>1, <1>2, <2>1, SweptIsPart DEF Alive
<1>4. jars'[s] = left /\ \A t \in Spaces \ {s} : jars'[t] = jars[t]
  BY <1>1, <1>3, JarOfChange
<1>5. {c \in left : c.id = i} = {new}
  BY <1>1, <1>3 DEF Copies
<1>6. Cardinality({c \in left : c.id = i}) = 1
  BY <1>5, FS_Singleton
<1>7. ASSUME Cardinality(others) + PerDomain <= Total,
             NEW c \in others, Cardinality(InDomain(others, DomainOf[c.id])) <= PerDomain
      PROVE  c \in left
  <2>1. jar \subseteq Cookies
    BY JarFacts
  <2>2. \A d \in jar : d.id \in Ids
    BY <2>1 DEF Cookies
  <2>3. new \in Alive(jar)
    BY <1>1 DEF Alive
  <2>4. others = {d \in Alive(jar) : DomainOf[d.id] # DomainOf[new.id]}
    BY <1>1 DEF Alive, Copies
  <2> HIDE DEF others, jar
  <2>5. left \in Swept(jar, {new})
    BY <1>1 DEF jar
  <2> QED BY <1>1, <1>2, <1>7, <2>2, <2>3, <2>4, <2>5, SweptSpares
<1>8. did'.what = "admit" /\ did'.space = s /\ did'.id = i
  BY <1>1 DEF Did
<1> HIDE DEF base, jar
<1> QED BY <1>4, <1>6, <1>7, <1>8 DEF Settled

LEMMA RetiresSettles ==
  ASSUME JarIInv, NEW s \in Spaces, NEW i \in Ids, NEW script \in BOOLEAN, Retires(s, i, script)
  PROVE  Settled
<1> DEFINE gone == {c \in Copies(s, i) : ~(script /\ c.http)}
<1>1. jars' = [jars EXCEPT ![s] = jars[s] \ gone] /\ did' = Did("retire", s, i, script)
  BY DEF Retires, Change
<1>2. IsFiniteSet(jars[s] \ gone) /\ jars[s] \ gone \in SUBSET Cookies
  BY JarFacts, FS_Difference
<1>3. jars'[s] = jars[s] \ gone /\ \A t \in Spaces \ {s} : jars'[t] = jars[t]
  BY <1>1, <1>2, JarOfChange
<1>4. \A c \in jars'[s] : c.id = i => script /\ c.http
  BY <1>3 DEF Copies
<1>5. did'.what = "retire" /\ did'.space = s /\ did'.id = i /\ did'.script = script
  BY <1>1 DEF Did
<1> HIDE DEF gone
<1> QED BY <1>3, <1>4, <1>5 DEF Settled

LEMMA SettledStep == JarIInv /\ [JarNext]_jarVars => [Settled]_jarVars
<1> SUFFICES ASSUME JarIInv, JarNext, ops' # ops, did' # Nothing PROVE Settled
  BY DEF Settled
<1>1. \/ \E in \in Inputs :
           \/ \E exp \in Expiries, http, script \in BOOLEAN : Admits(in[1], in[2], in[3], exp, http, script)
           \/ \E script \in BOOLEAN : Retires(in[1], in[3], script)
  BY DEF JarNext, Merges, Replaces, Reads, Clears, LeavesProfile, Teardown, TimerFires, Flushes,
     TurnStarts, Collects, Puts, TurnFails, Loads, JarRestart, Tick
<1> QED BY <1>1, InputOf, AdmitsSettles, RetiresSettles

\* What the jar promises: when nothing waits to be written the store holds the jar, and
\* an admission settles its identity in one place of its own namespace and evicts no cookie
\* of another domain that keeps to its share.
THEOREM JarSound == JarSpec => JarIsSound
<1>1. JarIInv => JarTypeOK /\ QuietIsDurable
  BY DEF JarIInv, JarTyped
<1> QED BY <1>1, SettledStep, JarInductive, PTL
     DEF JarSpec, JarIsSound, IdentityIsSettled, Settled
==============================================================================
