------------------------------ MODULE GuestKernel ------------------------------
(***************************************************************************)
(* Guest service workers: the kernel of kernel/guests/executor.ts in the   *)
(* worker, and the page app/guest-host.html that runs the realms for it.   *)
(*                                                                         *)
(* The kernel keeps one record per virtual origin and scope; here all      *)
(* scopes are of one origin.  A realm is known by the id of the spawn that *)
(* asked for it.  Kernel and host page exchange messages in order over one *)
(* port per host; what a realm posts to the kernel may arrive at any time. *)
(* A script is its URL with a version of its bytes.                        *)
(***************************************************************************)
EXTENDS Naturals, Sequences, FiniteSets, SequencesExt

CONSTANTS
  Scopes,      \* scopes as path lengths: a longer path lies in every shorter one
  Hosts,       \* host pages, each connecting once
  NoHost,
  URLs,        \* script URLs
  Versions,    \* of the bytes a URL serves
  Callers,     \* confirmed registrations (register() of a page)
  Fetches,     \* requests that ask a guest first
  What,        \* bridge calls: a realm's first "fetch" and first "update"
  RegistrationsMax, \* GUEST_REGISTRATIONS_MAX_PER_ORIGIN
  MaxRealms    \* bound: spawn messages to hosts

ASSUME ScopesAssumption == Scopes \subseteq Nat /\ IsFiniteSet(Scopes) /\ NoHost \notin Hosts
ASSUME WhatAssumption == What \subseteq {"fetch", "update"}
ASSUME MaxAssumption == RegistrationsMax \in Nat /\ MaxRealms \in Nat

VARIABLES
  hosts,       \* this.hosts: pages in the order they announced themselves
  open,        \* the pages not closed since
  guests,      \* the record of each scope
  regs,        \* record objects ever made: scriptURL and script
  realms,      \* spawns asked for: scope and record object
  reply,       \* each caller
  fetch,       \* each dispatched request: where it is and the realm asked
  waitPending, \* waitUntil tracker of each scope: the realm that opened it, 0 for none
  netPending,  \* bridge call entries: the realm whose timer it holds, 0 for none
  calls,       \* each realm's bridge calls: bridge and timer outstanding, results posted
  swaps,       \* replaceGuest timeouts under way
  toHost, toKernel,
  workers      \* the host page's map: the realm that runs for a scope, 0 for none

kernelVars == <<guests, regs, realms, reply>>
workVars   == <<fetch, waitPending, netPending, calls, swaps>>
hostVars   == <<hosts, open, toHost, toKernel, workers>>
vars == <<hosts, open, guests, regs, realms, reply, fetch, waitPending, netPending, calls,
          swaps, toHost, toKernel, workers>>

Ids     == 1..MaxRealms
Scripts == URLs \X Versions
NoGuest == [id |-> 0, reg |-> 0, state |-> "none", host |-> NoHost, pending |-> {}]
NoCall  == [bridge |-> FALSE, timer |-> FALSE, results |-> 0]

Init ==
  /\ hosts = <<>> /\ open = {}
  /\ guests = [s \in Scopes |-> NoGuest]
  /\ regs = <<>> /\ realms = <<>>
  /\ reply = [c \in Callers |-> "none"]
  /\ fetch = [f \in Fetches |-> [at |-> "idle", realm |-> 0]]
  /\ waitPending = [s \in Scopes |-> 0]
  /\ netPending = [s \in Scopes |-> [w \in What |-> 0]]
  /\ calls = [i \in Ids |-> [w \in What |-> NoCall]]
  /\ swaps = {}
  /\ toHost = [h \in Hosts |-> <<>>] /\ toKernel = [h \in Hosts |-> <<>>]
  /\ workers = [h \in Hosts |-> [s \in Scopes |-> 0]]

--------------------------------------------------------------------------------
(* Shared operations. *)

ScopeOf(i)  == realms[i].scope
Running(s)  == guests[s].state = "running"
Post(h, m)  == toHost' = [toHost EXCEPT ![h] = Append(@, m)]

\* tick(): spawn and terminate handshakes past their deadline are discarded.  No
\* timer runs: any handshake may be found late when the kernel looks
MayBeOverdue(s) == guests[s].state \in {"spawning", "terminating"}
Told(cs, r)     == [c \in Callers |-> IF c \in cs THEN r ELSE reply[c]]
Ticked(late)    == [s \in Scopes |-> IF s \in late THEN NoGuest ELSE guests[s]]
Replies(late)   == Told(UNION {guests[s].pending : s \in late}, "failed")

\* Mutant: only the pending fetches are cleared.
ClearFetchesOnly(ss) ==
  /\ fetch' = [f \in Fetches |-> IF fetch[f].at = "pending" /\ ScopeOf(fetch[f].realm) \in ss
                                   THEN [fetch[f] EXCEPT !.at = "unhandled"] ELSE fetch[f]]
  /\ UNCHANGED <<waitPending, netPending, calls>>

\* clearGuestWork of the scopes ss: fetches fail closed, trackers and timers go
ClearGuestWork(ss) ==
  /\ fetch' = [f \in Fetches |-> IF fetch[f].at = "pending" /\ ScopeOf(fetch[f].realm) \in ss
                                   THEN [fetch[f] EXCEPT !.at = "unhandled"] ELSE fetch[f]]
  /\ waitPending' = [s \in Scopes |-> IF s \in ss THEN 0 ELSE waitPending[s]]
  /\ netPending' = [s \in Scopes |-> [w \in What |-> IF s \in ss THEN 0 ELSE netPending[s][w]]]
  /\ calls' = [i \in Ids |-> [w \in What |->
                 IF \E s \in ss : netPending[s][w] = i
                   THEN [calls[i][w] EXCEPT !.timer = FALSE] ELSE calls[i][w]]]

\* terminateKey of the scopes ss, over the records g
TerminateKeys(g, ss) ==
  LET now == {s \in ss : g[s].state \in {"spawning", "running"}}
      frame(s) == [op |-> "terminate", scope |-> s, id |-> g[s].id]
      of(h) == SetToSeq({s \in now : g[s].host = h /\ h \in open})
  IN
  /\ guests' = [s \in Scopes |-> IF s \in now
                  THEN [g[s] EXCEPT !.state = "terminating"] ELSE g[s]]
  /\ toHost' = [h \in Hosts |-> toHost[h] \o [n \in 1..Len(of(h)) |-> frame(of(h)[n])]]
  /\ ClearGuestWork(now)

--------------------------------------------------------------------------------
(* Host pages. *)

RegisterHost(h) ==
  /\ \A n \in 1..Len(hosts) : hosts[n] # h
  /\ hosts' = Append(hosts, h) /\ open' = open \cup {h}
  /\ UNCHANGED <<kernelVars, workVars, toHost, toKernel, workers>>

\* the page is closed and its realms with it; the kernel does not hear of it
HostCloses(h) ==
  /\ h \in open /\ open' = open \ {h}
  /\ workers' = [workers EXCEPT ![h] = [s \in Scopes |-> 0]]
  /\ toHost' = [toHost EXCEPT ![h] = <<>>]
  /\ UNCHANGED <<hosts, toKernel, kernelVars, workVars>>

--------------------------------------------------------------------------------
(* Control messages: each ticks first. *)

\* a registration that is refused, or unconfirmed for a script already there; an
\* unregister of another script
OnlyTicks(late) ==
  /\ guests' = Ticked(late) /\ reply' = Replies(late)
  /\ UNCHANGED <<regs, realms, workVars, hostVars>>

\* the same script, confirmed, for a scope that is not terminating: no respawn
Rejoin(c, s, u, v, late) ==
  LET g == Ticked(late)[s] IN
  /\ reply[c] = "none"
  /\ g.state \in {"spawning", "running"} /\ regs[g.reg] = [url |-> u, script |-> <<u, v>>]
  /\ \/ /\ g.state = "running"
        /\ guests' = Ticked(late)
        /\ reply' = [Replies(late) EXCEPT ![c] = "ok"]
     \/ /\ g.state = "spawning"
        /\ guests' = [Ticked(late) EXCEPT ![s].pending = @ \cup {c}]
        /\ reply' = [Replies(late) EXCEPT ![c] = "waiting"]
  /\ UNCHANGED <<regs, realms, workVars, hostVars>>

\* Mutant: a replacement forgets the callers of the spawn it replaces.
InheritNobody(g, confirmed) == confirmed

\* callers that still wait move to the new record
Inherit(g, confirmed) == g.pending \cup confirmed

\* a new registration, or new script bytes for the scope, of a confirmed caller
\* or of none
Spawn(confirmed, s, u, v, late) ==
  LET g    == Ticked(late)[s]
      host == IF g.state # "none" THEN g.host ELSE hosts[Len(hosts)]
      id   == Len(realms) + 1
      reg  == [url |-> u, script |-> <<u, v>>]
  IN
  /\ \A c \in confirmed : reply[c] = "none"
  /\ id <= MaxRealms
  /\ g.state \in {"spawning", "running"} => regs[g.reg] # reg
  /\ g.state = "none" =>
       /\ hosts # <<>>
       /\ Cardinality({t \in Scopes : Ticked(late)[t].state # "none"}) < RegistrationsMax
  /\ regs' = Append(regs, reg)
  /\ realms' = Append(realms, [scope |-> s, reg |-> Len(regs')])
  /\ guests' = [Ticked(late) EXCEPT ![s] = [id |-> id, reg |-> Len(regs'), state |-> "spawning",
                                            host |-> host, pending |-> Inherit(g, confirmed)]]
  /\ reply' = [c \in Callers |-> IF c \in confirmed THEN "waiting" ELSE Replies(late)[c]]
  /\ ClearGuestWork({s})
  /\ IF host \in open THEN Post(host, [op |-> "spawn", scope |-> s, id |-> id])
                      ELSE UNCHANGED toHost
  /\ UNCHANGED <<swaps, hosts, open, toKernel, workers>>

\* terminate(origin): every scope
Terminate(late) ==
  /\ TerminateKeys(Ticked(late), Scopes)
  /\ reply' = Replies(late)
  /\ UNCHANGED <<regs, realms, swaps, hosts, open, toKernel, workers>>

\* unregisterScope: the exact scope and script URL
Unregister(s, u, late) ==
  /\ Ticked(late)[s].state # "none" /\ regs[Ticked(late)[s].reg].url = u
  /\ TerminateKeys(Ticked(late), {s})
  /\ reply' = Replies(late)
  /\ UNCHANGED <<regs, realms, swaps, hosts, open, toKernel, workers>>

--------------------------------------------------------------------------------
(* guest-host.html and the answers it sends. *)

Frame(kind, s, i) == [kind |-> kind, scope |-> s, id |-> i]

\* spawn: the realm that runs for the scope goes first
HostSpawns(h) ==
  /\ h \in open /\ toHost[h] # <<>> /\ Head(toHost[h]).op = "spawn"
  /\ LET s    == Head(toHost[h]).scope
         i    == Head(toHost[h]).id
         old  == workers[h][s]
         gone == IF old = 0 THEN <<>> ELSE <<Frame("terminated", s, old)>>
     IN
     \/ /\ workers' = [workers EXCEPT ![h][s] = i]
        /\ toKernel' = [toKernel EXCEPT ![h] = @ \o Append(gone, Frame("spawned", s, i))]
     \/ /\ workers' = [workers EXCEPT ![h][s] = 0]
        /\ toKernel' = [toKernel EXCEPT ![h] = @ \o Append(gone, Frame("spawnFailed", s, i))]
  /\ toHost' = [toHost EXCEPT ![h] = Tail(@)]
  /\ UNCHANGED <<hosts, open, kernelVars, workVars>>

\* terminate: only the realm of that id; the answer names the realm it found
HostTerminates(h) ==
  /\ h \in open /\ toHost[h] # <<>> /\ Head(toHost[h]).op = "terminate"
  /\ LET s == Head(toHost[h]).scope
         i == Head(toHost[h]).id
         found == workers[h][s]
     IN /\ workers' = IF found = i THEN [workers EXCEPT ![h][s] = 0] ELSE workers
        /\ toKernel' = [toKernel EXCEPT ![h] =
                          Append(@, Frame("terminated", s, IF found = 0 THEN i ELSE found))]
  /\ toHost' = [toHost EXCEPT ![h] = Tail(@)]
  /\ UNCHANGED <<hosts, open, kernelVars, workVars>>

\* a script error in a realm
WorkerErrors(h, s) ==
  /\ h \in open /\ workers[h][s] # 0
  /\ LET m == Frame("error", s, workers[h][s]) IN
       /\ \A n \in 1..Len(toKernel[h]) : toKernel[h][n] # m
       /\ toKernel' = [toKernel EXCEPT ![h] = Append(@, m)]
  /\ UNCHANGED <<hosts, open, toHost, workers, kernelVars, workVars>>

\* hostMessage: only the host and the spawn id of the record count
Concerns(h, m) ==
  guests[m.scope].state # "none" /\ guests[m.scope].host = h /\ guests[m.scope].id = m.id

Hears(h, kind, m) ==
  /\ toKernel[h] # <<>> /\ m = Head(toKernel[h]) /\ m.kind = kind
  /\ toKernel' = [toKernel EXCEPT ![h] = Tail(@)]
  /\ UNCHANGED <<hosts, open, workers>>

\* a frame about another realm, or in a state that does not expect it
HearsNothing(h) ==
  /\ toKernel[h] # <<>>
  /\ LET m == Head(toKernel[h])
         st == guests[m.scope].state
     IN
     /\ Hears(h, m.kind, m)
     /\ \/ ~Concerns(h, m)
        \/ m.kind \in {"spawned", "spawnFailed"} /\ st # "spawning"
        \/ m.kind = "terminated" /\ st # "terminating"
  /\ UNCHANGED <<kernelVars, workVars, toHost>>

HearsSpawned(h) ==
  /\ toKernel[h] # <<>>
  /\ LET m == Head(toKernel[h]) IN
       /\ Hears(h, "spawned", m) /\ Concerns(h, m)
       /\ guests[m.scope].state = "spawning"
       /\ guests' = [guests EXCEPT ![m.scope].state = "running", ![m.scope].pending = {}]
       /\ reply' = Told(guests[m.scope].pending, "ok")
  /\ UNCHANGED <<regs, realms, workVars, toHost>>

HearsSpawnFailed(h) ==
  /\ toKernel[h] # <<>>
  /\ LET m == Head(toKernel[h]) IN
       /\ Hears(h, "spawnFailed", m) /\ Concerns(h, m)
       /\ guests[m.scope].state = "spawning"
       /\ guests' = [guests EXCEPT ![m.scope] = NoGuest]
       /\ reply' = Told(guests[m.scope].pending, "failed")
  /\ UNCHANGED <<regs, realms, workVars, toHost>>

\* the record goes, with the callers that still wait on it
HearsTerminated(h) ==
  /\ toKernel[h] # <<>>
  /\ LET m == Head(toKernel[h]) IN
       /\ Hears(h, "terminated", m) /\ Concerns(h, m)
       /\ guests[m.scope].state = "terminating"
       /\ guests' = [guests EXCEPT ![m.scope] = NoGuest]
  /\ UNCHANGED <<regs, realms, reply, workVars, toHost>>

HearsError(h) ==
  /\ toKernel[h] # <<>>
  /\ LET m == Head(toKernel[h]) IN
       /\ Hears(h, "error", m) /\ Concerns(h, m)
       /\ TerminateKeys(guests, {m.scope})
  /\ UNCHANGED <<regs, realms, reply, swaps>>

--------------------------------------------------------------------------------
(* What a realm posts to the kernel. *)

\* guestMessage: only the running realm of the record is heard
Accepts(i) == guests[ScopeOf(i)].id = i /\ Running(ScopeOf(i))

\* registration.unregister()
GuestUnregisters(i) ==
  /\ Accepts(i)
  /\ TerminateKeys(guests, {ScopeOf(i)})
  /\ UNCHANGED <<regs, realms, reply, swaps, hosts, open, toKernel, workers>>

\* waitUntil: the tracker opens, and closes when the promise settles
GuestWaits(i) ==
  /\ Accepts(i) /\ waitPending[ScopeOf(i)] # i
  /\ waitPending' = [waitPending EXCEPT ![ScopeOf(i)] = i]
  /\ UNCHANGED <<kernelVars, hostVars, fetch, netPending, calls, swaps>>

\* the promise settles, or the tracker's budget is over
WaitEnds(s) ==
  /\ waitPending[s] # 0
  /\ waitPending' = [waitPending EXCEPT ![s] = 0]
  /\ UNCHANGED <<kernelVars, hostVars, fetch, netPending, calls, swaps>>

\* guestNetFetch and guestUpdate: a bridge call under a budget; a call refused
\* at once is answered without an entry
GuestCalls(i, w) ==
  /\ Accepts(i) /\ calls[i][w] = NoCall
  /\ \/ /\ calls' = [calls EXCEPT ![i][w].bridge = TRUE, ![i][w].timer = TRUE]
        /\ netPending' = [netPending EXCEPT ![ScopeOf(i)][w] = i]
     \/ /\ calls' = [calls EXCEPT ![i][w].results = 1]
        /\ UNCHANGED netPending
  /\ UNCHANGED <<kernelVars, hostVars, fetch, waitPending, swaps>>

\* Mutant: the entry need not be there.
SettlesAlways(i, w) == TRUE

\* settle(): the entry of the key is there, whichever call put it
Settles(i, w) == netPending[ScopeOf(i)][w] # 0

\* the bridge answers a call; one that no longer counts is ignored.  An update
\* whose bytes changed schedules the replacement of the realm
BridgeAnswers(i, w) ==
  LET s == ScopeOf(i)
      r == regs[realms[i].reg]
  IN
  /\ calls[i][w].bridge
  /\ IF Settles(i, w)
       THEN /\ netPending' = [netPending EXCEPT ![s][w] = 0]
            /\ calls' = [calls EXCEPT ![i][w].bridge = FALSE, ![i][w].timer = FALSE,
                                      ![i][w].results = @ + 1]
            /\ \/ UNCHANGED swaps
               \/ \E v \in Versions :
                    /\ w = "update" /\ <<r.url, v>> # r.script
                    /\ swaps' = swaps \cup {[scope |-> s, script |-> <<r.url, v>>]}
       ELSE /\ calls' = [calls EXCEPT ![i][w].bridge = FALSE]
            /\ UNCHANGED <<netPending, swaps>>
  /\ UNCHANGED <<kernelVars, hostVars, fetch, waitPending>>

\* the budget of a bridge call is over: whatever entry the key has goes
CallBudget(i, w) ==
  /\ calls[i][w].timer
  /\ calls' = [calls EXCEPT ![i][w].timer = FALSE, ![i][w].results = @ + 1]
  /\ netPending' = [netPending EXCEPT ![ScopeOf(i)][w] = 0]
  /\ UNCHANGED <<kernelVars, hostVars, fetch, waitPending, swaps>>

\* replaceGuest, one tick after the update's answer: the same record object
\* gets the new script and a new realm
ReplaceGuest(x) ==
  LET g  == guests[x.scope]
      id == Len(realms) + 1
  IN
  /\ swaps' = swaps \ {x}
  /\ IF ~Running(x.scope) THEN UNCHANGED <<kernelVars, fetch, waitPending, netPending, calls, toHost>>
     ELSE /\ id <= MaxRealms
          /\ regs' = [regs EXCEPT ![g.reg].script = x.script]
          /\ realms' = Append(realms, [scope |-> x.scope, reg |-> g.reg])
          /\ guests' = [guests EXCEPT ![x.scope].id = id, ![x.scope].state = "spawning"]
          /\ ClearGuestWork({x.scope})
          /\ IF g.host \in open THEN Post(g.host, [op |-> "spawn", scope |-> x.scope, id |-> id])
                                ELSE UNCHANGED toHost
          /\ UNCHANGED reply
  /\ UNCHANGED <<hosts, open, toKernel, workers>>

--------------------------------------------------------------------------------
(* dispatchFetchForUrl: the most specific running scope, under a budget. *)

Dispatch(f, late) ==
  /\ fetch[f].at = "idle"
  /\ \E path \in Scopes :
       LET able == {s \in Scopes : s <= path /\ Running(s)}
           best == CHOOSE s \in able : \A t \in able : t <= s
       IN fetch' = [fetch EXCEPT ![f] = IF able = {} THEN [at |-> "unhandled", realm |-> 0]
                                        ELSE [at |-> "pending", realm |-> guests[best].id]]
  /\ guests' = Ticked(late) /\ reply' = Replies(late)
  /\ UNCHANGED <<regs, realms, waitPending, netPending, calls, swaps, hostVars>>

\* the realm answers: a valid response, or anything else
Answers(f) ==
  /\ fetch[f].at = "pending" /\ Accepts(fetch[f].realm)
  /\ \E o \in {"handled", "unhandled"} : fetch' = [fetch EXCEPT ![f].at = o]
  /\ UNCHANGED <<kernelVars, hostVars, waitPending, netPending, calls, swaps>>

FetchBudget(f) ==
  /\ fetch[f].at = "pending"
  /\ fetch' = [fetch EXCEPT ![f].at = "unhandled"]
  /\ UNCHANGED <<kernelVars, hostVars, waitPending, netPending, calls, swaps>>

--------------------------------------------------------------------------------
Spawning(late) ==
  \/ OnlyTicks(late)
  \/ \E s \in Scopes, u \in URLs, v \in Versions :
       \/ \E c \in Callers : Rejoin(c, s, u, v, late)
       \/ \E confirmed \in {{}} \cup {{c} : c \in Callers} : Spawn(confirmed, s, u, v, late)
Ending(late) == Terminate(late) \/ \E s \in Scopes, u \in URLs : Unregister(s, u, late)
Hosting(h) == HostSpawns(h) \/ HostTerminates(h)
Hearing(h) ==
  \/ HearsNothing(h) \/ HearsSpawned(h) \/ HearsSpawnFailed(h)
  \/ HearsTerminated(h) \/ HearsError(h)
RealmPosts(i) ==
  \/ GuestUnregisters(i) \/ GuestWaits(i)
  \/ \E w \in What : GuestCalls(i, w) \/ BridgeAnswers(i, w)

Next ==
  \/ \E h \in Hosts : RegisterHost(h) \/ HostCloses(h) \/ Hosting(h) \/ Hearing(h)
                      \/ \E s \in Scopes : WorkerErrors(h, s)
  \/ \E late \in SUBSET {s \in Scopes : MayBeOverdue(s)} :
       Spawning(late) \/ Ending(late) \/ \E f \in Fetches : Dispatch(f, late)
  \/ \E s \in Scopes : WaitEnds(s)
  \/ \E i \in 1..Len(realms) : RealmPosts(i) \/ \E w \in What : CallBudget(i, w)
  \/ \E x \in swaps : ReplaceGuest(x)
  \/ \E f \in Fetches : Answers(f) \/ FetchBudget(f)

Spec == Init /\ [][Next]_vars

--------------------------------------------------------------------------------
(* Properties. *)

\* Types; a record's realm is the newest of its scope.
TypeOK ==
  /\ regs \in Seq([url : URLs, script : Scripts])
  /\ realms \in Seq([scope : Scopes, reg : 1..Len(regs)]) /\ Len(realms) <= MaxRealms
  /\ hosts \in Seq(Hosts) /\ open \subseteq Hosts
  /\ \A s \in Scopes :
       /\ guests[s].state \in {"none", "spawning", "running", "terminating"}
       /\ guests[s].state # "none" =>
            /\ guests[s].id \in 1..Len(realms) /\ ScopeOf(guests[s].id) = s
            /\ \A i \in 1..Len(realms) : ScopeOf(i) = s => i <= guests[s].id
       /\ guests[s].pending \subseteq Callers /\ guests[s].host \in Hosts \cup {NoHost}
  /\ reply \in [Callers -> {"none", "waiting", "ok", "failed"}]
  /\ fetch \in [Fetches -> [at : {"idle", "pending", "handled", "unhandled"}, realm : 0..MaxRealms]]
  /\ waitPending \in [Scopes -> 0..Len(realms)]
  /\ netPending \in [Scopes -> [What -> 0..Len(realms)]]
  /\ calls \in [Ids -> [What -> [bridge : BOOLEAN, timer : BOOLEAN, results : Nat]]]

\* Whatever replaces, fails or terminates a realm, nothing stays open in its name:
\* dispatched fetches and waitUntil trackers are those of the running realm.
WorkIsOfTheRunningRealm ==
  /\ \A f \in Fetches : fetch[f].at = "pending" =>
       Running(ScopeOf(fetch[f].realm)) /\ guests[ScopeOf(fetch[f].realm)].id = fetch[f].realm
  /\ \A s \in Scopes : waitPending[s] # 0 => Running(s) /\ guests[s].id = waitPending[s]

\* #576: register() resolves only on a realm that is running: a confirmed caller
\* is told ok in a step that leaves its record running.
ConfirmedOnRunningRealm ==
  [][\A c \in Callers : reply'[c] = "ok" /\ reply[c] # "ok" =>
       \E s \in Scopes : guests'[s].state = "running"
                         /\ (reply[c] = "waiting" => c \in guests[s].pending)]_vars

\* While a record is running, its open host page runs exactly that realm for the
\* scope, unless the page has already been told, or has told, of its end.
RunningRealmIsHosted ==
  \A s \in Scopes : Running(s) /\ guests[s].host \in open =>
    workers[guests[s].host][s] = guests[s].id

\* The record, its pending work and the host page agree on the realm; besides, the types,
\* which make the record's realm the newest of its scope.
RealmsAgree == TypeOK /\ WorkIsOfTheRunningRealm /\ RunningRealmIsHosted

\* A fetch() or update() of the running realm gets at most one result, whatever its
\* budget, its bridge and the calls of earlier realms under the same key do.
OneResult ==
  \A s \in Scopes : Running(s) => \A w \in What : calls[guests[s].id][w].results <= 1

\* Replacement, reaping and failure lose no confirmed caller: it stays on the
\* record's list until it is answered, but for a record the host ends.
PendingCallersKept ==
  [][\A s \in Scopes : \A c \in guests[s].pending :
       \/ c \in guests'[s].pending \/ reply'[c] # "waiting"
       \/ guests[s].state = "terminating" /\ guests'[s].state = "none"]_vars

\* Each confirmed caller is answered on a running realm or kept waiting (#576).
CallersAreKept == ConfirmedOnRunningRealm /\ PendingCallersKept

\* #576: a confirmed caller that has no answer yet is on some record's list, so
\* that guestSpawned, guestSpawnFailed or the reaper will answer it.
ConfirmedCallersKept ==
  \A c \in Callers : reply[c] = "waiting" => \E s \in Scopes : c \in guests[s].pending
================================================================================
