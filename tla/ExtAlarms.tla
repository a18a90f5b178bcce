------------------------------- MODULE ExtAlarms -------------------------------
(***************************************************************************)
(* The alarms of one extension (extensions/alarms.ts) and how a worker that *)
(* starts meets them: hydrate() is called as control.ts is evaluated, and   *)
(* runs beside the boot of sw.ts, which brings the extension's listeners    *)
(* and, last of all, the hook by which an alarm wakes a background.         *)
(*                                                                          *)
(* The store serves its requests one after the other.                       *)
(***************************************************************************)
EXTENDS Naturals, Sequences, FiniteSets

CONSTANTS Names,
          MaxNow,     \* bound: the clock
          MaxOps,     \* bound: calls of the extension
          MaxAsked,   \* bound: the requests that wait in the store
          MaxFaults,  \* bound: requests that fail
          MaxKills    \* bound

VARIABLES table,      \* the alarms, in memory
          timers,     \* the armed timers
          stored,     \* the stored list: whether there is one, and its alarms
          asked,      \* the requests that wait
          hydrating,  \* hydrate is not over
          firing,     \* the alarms whose fire awaits the wake
          demand,     \* the background is a service worker, booted on demand
          listening,  \* the background has run and registered onAlarm
          wired,      \* setWake was called
          up, now, ops, faults, kills,
          unheard     \* an alarm was dispatched to nobody

vars == <<table, timers, stored, asked, hydrating, firing, demand, listening,
          wired, up, now, ops, faults, kills, unheard>>
bounds == <<now, ops, faults, kills>>

Times == 0..(MaxNow + 1)
Entries == [on : BOOLEAN, at : Times, period : 0..1]
Off == [on |-> FALSE, at |-> 0, period |-> 0]
Tables == [Names -> Entries]
Empty == [n \in Names |-> Off]
Timers == [name : Names, at : Times, period : 0..1]
Requests == [kind : {"put", "keys", "get"}, what : Tables]

TypeOK ==
  /\ table \in Tables /\ timers \subseteq Timers
  /\ stored \in [has : BOOLEAN, what : Tables]
  /\ asked \in Seq(Requests) /\ Len(asked) <= MaxAsked
  /\ hydrating \in BOOLEAN /\ firing \subseteq Names /\ demand \in BOOLEAN
  /\ listening \in BOOLEAN /\ wired \in BOOLEAN /\ up \in BOOLEAN
  /\ now \in 0..MaxNow /\ ops \in 0..MaxOps /\ faults \in 0..MaxFaults
  /\ kills \in 0..MaxKills /\ unheard \in BOOLEAN

Init ==
  /\ table = Empty /\ timers = {} /\ stored = [has |-> FALSE, what |-> Empty]
  /\ asked = <<>> /\ hydrating = FALSE /\ firing = {} /\ demand \in BOOLEAN
  /\ listening = FALSE /\ wired = FALSE /\ up = FALSE
  /\ now = 0 /\ ops = 0 /\ faults = 0 /\ kills = 0 /\ unheard = FALSE

-----------------------------------------------------------------------------
Timer(n, e) == [name |-> n, at |-> e.at, period |-> e.period]
TimerOf(n) == IF table[n].on THEN {Timer(n, table[n])} ELSE {}
Request(kind, what) == [kind |-> kind, what |-> what]
Asks(kind, what) ==
  Len(asked) < MaxAsked /\ asked' = Append(asked, Request(kind, what))
\* The list is written as it is when its write reaches the store.
Persists == Asks("put", table')

Calls ==
  /\ up /\ listening /\ ops < MaxOps /\ ops' = ops + 1
  /\ UNCHANGED <<now, faults, kills>>
quiet == <<stored, hydrating, firing, demand, listening, wired, up, unheard>>

\* Creating an existing name replaces it.
Create(n, at, period) ==
  LET new == [on |-> TRUE, at |-> at, period |-> period]
  IN /\ Calls
     /\ table' = [table EXCEPT ![n] = new]
     /\ timers' = (timers \ TimerOf(n)) \cup {Timer(n, new)}
     /\ Persists
     /\ UNCHANGED quiet
Clear(n) ==
  /\ Calls /\ table[n].on
  /\ table' = [table EXCEPT ![n] = Off] /\ timers' = timers \ TimerOf(n)
  /\ Persists
  /\ UNCHANGED quiet
ClearAll ==
  /\ Calls /\ \E n \in Names : table[n].on
  /\ table' = Empty /\ timers' = timers \ UNION {TimerOf(n) : n \in Names}
  /\ Persists
  /\ UNCHANGED quiet
\* Uninstall: the listeners go with the alarms.
Drop ==
  /\ Calls
  /\ table' = Empty /\ timers' = timers \ UNION {TimerOf(n) : n \in Names}
  /\ listening' = FALSE
  /\ Persists
  /\ UNCHANGED <<stored, hydrating, firing, demand, wired, up, unheard>>

-----------------------------------------------------------------------------
(* A timer fires.  A periodic alarm is armed again for its first slot that  *)
(* is still to come; a one-shot alarm leaves the table before it is heard.  *)

Later(t) == [on |-> TRUE, at |-> IF t.at + 1 > now THEN t.at + 1 ELSE now + 1, period |-> 1]
Left(t) == IF t.period = 1 THEN Later(t) ELSE Off
Armed(n, e) == IF e.on THEN {Timer(n, e)} ELSE {}

Dispatched == unheard' = (unheard \/ ~listening')
Fires(t) ==
  /\ t \in timers /\ t.at <= now /\ Left(t).at <= MaxNow + 1
  /\ table' = [table EXCEPT ![t.name] = Left(t)]
  /\ timers' = (timers \ {t}) \cup Armed(t.name, Left(t))
  /\ Persists
  /\ IF wired /\ demand /\ ~listening
     THEN firing' = firing \cup {t.name} /\ UNCHANGED <<listening, unheard>>
     ELSE UNCHANGED <<firing, listening>> /\ Dispatched
  /\ UNCHANGED <<stored, hydrating, demand, wired, up, bounds>>
\* wakeExtension booted the background, which registered its listeners or failed.
Woken(n) ==
  /\ n \in firing /\ firing' = firing \ {n}
  /\ \/ listening' = TRUE /\ Dispatched
     \/ UNCHANGED <<listening, unheard>>
  /\ UNCHANGED <<table, timers, stored, asked, hydrating, demand, wired, up, bounds>>

-----------------------------------------------------------------------------
(* The store, and hydrate, which waits for its two reads.                   *)

Served ==
  /\ asked # <<>>
  /\ UNCHANGED <<firing, demand, listening, wired, up, now, ops, kills, unheard>>
Puts ==
  /\ Served /\ Head(asked).kind = "put"
  /\ stored' = [has |-> TRUE, what |-> Head(asked).what]
  /\ asked' = Tail(asked)
  /\ UNCHANGED <<table, timers, hydrating, faults>>
ReadsKeys ==
  /\ Served /\ Head(asked).kind = "keys"
  /\ asked' = IF stored.has THEN Append(Tail(asked), Request("get", Empty)) ELSE Tail(asked)
  /\ hydrating' = stored.has
  /\ UNCHANGED <<table, timers, stored, faults>>
\* Every name that is not live is restored and armed, at once if it elapsed.
Restored == [n \in Names |-> IF table[n].on THEN table[n] ELSE stored.what[n]]
\* What the worker made since it started gives way to what was stored.
RestoredOver == [n \in Names |-> IF stored.what[n].on THEN stored.what[n] ELSE table[n]]
Merged == Restored
Gets ==
  /\ Served /\ Head(asked).kind = "get"
  /\ table' = Merged
  /\ LET new == {n \in Names : Merged[n] # table[n]}
     IN /\ timers' = timers \cup {Timer(n, Merged[n]) : n \in new}
        /\ asked' = IF new = {} THEN Tail(asked)
                    ELSE Append(Tail(asked), Request("put", Merged))
  /\ hydrating' = FALSE
  /\ UNCHANGED <<stored, faults>>
\* A failed write is dropped; a failed read leaves the alarms in memory.
Fails ==
  /\ Served /\ faults < MaxFaults /\ faults' = faults + 1
  /\ asked' = Tail(asked)
  /\ hydrating' = (hydrating /\ Head(asked).kind = "put")
  /\ UNCHANGED <<table, timers, stored>>

-----------------------------------------------------------------------------
(* The boot of the worker.                                                  *)

Starts ==
  /\ ~up /\ up' = TRUE
  /\ hydrating' = TRUE /\ Asks("keys", Empty)
  /\ UNCHANGED <<table, timers, stored, firing, demand, listening, wired, bounds, unheard>>
\* bootEnabled ran the background, unless it boots on demand: then an event does.
Boots ==
  /\ up /\ ~listening /\ (demand => wired)
  /\ listening' = TRUE
  /\ UNCHANGED <<table, timers, stored, asked, hydrating, firing, demand, wired, up,
                 bounds, unheard>>
Wires ==
  /\ up /\ ~wired /\ wired' = TRUE /\ (demand \/ listening)
  /\ UNCHANGED <<table, timers, stored, asked, hydrating, firing, demand, listening, up,
                 bounds, unheard>>
Killed ==
  /\ up /\ up' = FALSE /\ kills < MaxKills /\ kills' = kills + 1
  /\ table' = Empty /\ timers' = {} /\ asked' = <<>> /\ hydrating' = FALSE
  /\ firing' = {} /\ listening' = FALSE /\ wired' = FALSE
  /\ UNCHANGED <<stored, demand, now, ops, faults, unheard>>
Tick ==
  /\ now < MaxNow /\ now' = now + 1
  /\ UNCHANGED <<table, timers, stored, asked, hydrating, firing, demand, listening,
                 wired, up, ops, faults, kills, unheard>>

Next ==
  \/ \E n \in Names :
       \/ \E at \in 1..MaxNow, period \in 0..1 : Create(n, at, period)
       \/ Clear(n) \/ Woken(n)
  \/ ClearAll \/ Drop
  \/ \E t \in timers : Fires(t)
  \/ Puts \/ ReadsKeys \/ Gets \/ Fails
  \/ Starts \/ Boots \/ Wires \/ Killed \/ Tick

Spec == Init /\ [][Next]_vars

-----------------------------------------------------------------------------
(* Every alarm of the table has the one timer that fires it, and no timer   *)
(* fires for an alarm that was cleared, replaced or restored twice.         *)
TimersAreTheTable == timers = {Timer(n, table[n]) : n \in {m \in Names : table[m].on}}

(* Once the restore is over and nothing waits in the store, the stored list *)
(* is the table, unless a request failed: what was created is armed again   *)
(* by the next worker, and what fired or was cleared is not.                *)
QuietListIsStored ==
  up /\ ~hydrating /\ asked = <<>> /\ faults = 0 =>
    table = (IF stored.has THEN stored.what ELSE Empty)

(* alarms.ts: an elapsed alarm fires on restore, and a fire wakes the       *)
(* background and reaches its listeners.                                    *)
RestoredAlarmIsHeard == ~unheard

(* alarms.ts: a create inside the load window does not erase what is being  *)
(* restored.                                                                *)
RestoreKeepsAlarms ==
  [][ \A n \in Names :
        stored.has /\ stored.what[n].on /\ hydrating /\ ~table[n].on /\ up' =>
          stored'.what[n].on \/ table'[n].on ]_vars
=============================================================================
