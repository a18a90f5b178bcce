# Verification of Zeolite

Zeolite is a web proxy that runs in a service worker.  A page under the proxy
origin sends every request to the worker, the worker rewrites it and fetches it
upstream, over a wisp connection driven by one of two wasm clients (libcurl and
epoxy), over a second wisp endpoint, or over a port of the embedding page (the
relay).  The worker is killed and restarted by the browser at will; everything
is asynchronous, and most of the state is module-level variables that many
requests share across their awaits.  The server at the other end of a wisp
connection is a threaded program with counters of its own.  These modules state
what that shared state must keep doing whatever the interleaving, check it with TLC
on small instances, and prove the most important parts with TLAPS for every instance.

Paths below are relative to `src/app/src/` unless they start with `crates/`.

## 1. Inventory

### The request path

| component | state | operations | what is hard | what makes it correct |
|---|---|---|---|---|
| Upstream transport, `transport.ts`, `request.ts` upstreamFetch | client generation, shared reset, deferred reset generation, stall window, cooldown, secondary client | upstreamFetch, wispFetch, altWispFetch, sharedCurlReset, the deferred resets, recordStall, setPrimaryWisp, switchEngine | many requests fail on one client; a failure is handled after awaits in which the client may have changed; three ways to send a request again | no write sent twice; a failure resets its own client only; a deferred reset kills nobody and happens; every request ends |
| Delivery evidence, `delivery.ts` | none (facts attached to responses and errors) | deliveryAllowsReplay, attemptDelivery, prepareDelivery | the evidence crosses three layers | the promise of module Delivery |
| In-flight accounting, `loadstate.ts` | per-group and total counts | loadEnter, loadLeave | one missed leave disables the deferred resets | the total is the number of requests inside |
| Client singletons, `libcurl-transport-vendored.ts`, `transport-lifecycle.ts` | client and init promise of each engine, wisp generation, live sockets, reconnect timer, lifecycle state | init, getClient, getEpoxy, fetch, reset, the watcher, scheduleReconnect | a reset, a switch or a reconnect overtakes an init that is still running | no stale client, no memo of a failure, no await without an end |
| Wisp credentials, `wisp-auth.ts` | credentials by endpoint, outcome, one handshake per socket | the websocket wrapper, configure, the deadline | frames of the vendor wait for a handshake the vendor does not know of | no downgrade, no password to another endpoint, no stream lost |
| One libcurl transfer, `libcurl-transport-vendored.ts` libcurlRequest, stream_response | the stream of one answer | header, chunk and end callbacks, pull, cancel, abort | the wasm calls back while the consumer cancels | a body seen to end is whole, one end each |
| Embedder relay, `relayfetch.ts` | host port, waiters, parked fetches, backoff, per-fetch queue and credits | relayRegister, requestRelayReRegister, relayFetch, the probe, the body stream | a dead page's port accepts messages; five timers and an abort race the first frame | no write falls back once the embedder may have sent it; no leak; a paced stream is never cut off |
| WebSocket over relay, `ws-relay.ts`, `wsbridge.ts`, `bootstrap/ws.ts` | relayed sockets by id, close timers | connect, send, close, re-registration sweep | Blob conversion across an await; close echo against timer and sweep | one close event per socket, frames in order |
| Replay spool, `bodyspool.ts` | live and in-flight byte budgets, spool files | spoolBody, cleanup, sweepOrphans | concurrent reservations with many exits | what is reserved is given back, once |
| Request engine, `request.ts`, `vctx.ts`, `foreign.ts` | virtual contexts by client, hop chain, reports | handleRequest, its hops, the treatment of the answer | redirects with bodies; contexts that expire, move and die with the worker | each request finds its own home; each hop sends what the specification says; a body is treated as its destination calls for |
| Page cache, `request.ts` | index, entries, reservations | match, refresh, store, evict, clear | a serial chain beside puts that are outside it | what is reserved is in flight; pages of an account stay out |
| Document gates, `csp-enforce.ts`, `sri.ts`; asset recovery, `assetbases.ts` | registries by client or origin | admit a load, verify bytes, search | bounded maps with different evictions | a document is gated by its own policy; a search ends |

### The worker

| component | state | operations | what is hard | what makes it correct |
|---|---|---|---|---|
| Persisted settings, `request.ts` routeRestore/persistRoute, `control.ts`, `transport.ts` engineReady/persistEngine | route prefix, knobs, two endpoints, engine; two Cache Storage entries | zl:config, zl:wispPrimary, zl:wispRegister, zl:transport, restore | restores, writes and messages interleave; kills | what was acknowledged is in force after a restart |
| Route keys and codec, `routekey.ts`, `codec.ts` | current key and key history; the forms of a route | load, save, mint, decode | a failed read must not look like a first boot; tokens expire | every minted route stays decodable and names its page |
| Boot and lifecycle, `lifecycle.ts`, `sw.ts` | boot gate | raceBoot, activation, broadcasts | a deadline opens the gate before the restore is done | no message is served on half-restored state |
| Guest service workers, `kernel/guests/executor.ts`, `app/guest-host.html` | guest realms by scope, pending fetches, waits, calls, caches | register, spawn, terminate, dispatchFetch, replace | answers of an old realm arrive after its replacement | every dispatched event ends, in the right realm |
| Download registry, `downloads.ts` | ring of 200 entries, buffers under one budget, pumps | begin, pause, resume, cancel, load, persist | eviction while a pump runs; restart | an entry's bytes are whole chunks of what was answered, and its state final once |
| Cookie jar, `cookies.ts` with `crates/cookies` | jars by origin, write chain, profiles of windows | admit, sweep, persist, restore, select a profile | writes from several tabs; a profile that is not known yet | the stored jar is the jar; doubt never opens the durable jar |
| Extensions, `extensions/` | installed set, background contexts, alarms, tabs, pages, ports, messages, menus, action, notifications, permissions, storage areas | install, enable, wake, connect, send, alarm, request | wake against message against kill; two copies of everything the host shows | what runs is timed; the store agrees; an answer is the asker's |
| Control plane, `control.ts`, `cpgate.ts` | none of its own | the zl: messages | replies race state changes | answered once; an acknowledgement is kept |
| Host tools, `dom-inspect.ts`, `finder.ts`, `netlog.ts`, `tracing.ts`, `recording.ts`, `devtools.ts` | inspection sessions, searches, request log | authorize, find, poll, record | a document is replaced while it is inspected | inspection is of the document authorized; logs are whole |

### The server and the libraries

| component | state | operations | what is hard | what makes it correct |
|---|---|---|---|---|
| Wisp server, streams, `crates/zeolite-server` | entries of each session, relay tasks, server-wide bytes and slots | CONNECT, DATA, CONTINUE, CLOSE, relay loop, sweep, teardown | tasks abort at any await while other threads settle their charge | counts exact; bytes held are charged; input is taken |
| Wisp server, admission, same crate | connection counts, per-address counts, failed attempts | upgrade, reserve, handshake, guard | many early exits between two counters | counts exact; nobody is served unverified |
| Wisp protocol, `crates/wisp-core`, `wisp-extensions`, `wisp-wasm` | none | frame and handshake coding | truncated input | decode inverts encode |
| Rewriter, CSP translation, cookie crate, configuration text | none | text to text | grammar | outside a state model |

How they interact: request.ts calls transport.ts through upstreamFetch;
transport.ts drives the vendored client singletons (init, reset, fetch) and
relayfetch.ts; the vendored watcher feeds the lifecycle machine that wispFetch
waits on; control.ts receives the embedder's messages and changes endpoints,
engine and the relay's port under running requests; the restore at boot and the
stores it reads are the only state that outlives a worker.

## 2. Modules and how they correspond to the code

An action is the code between two awaits, or between two operations on memory that
threads share, with every call it makes; its guard is the code's condition.
Components that share no state are put into one run by an MC module whose variable
`part` (`half`) is chosen initially and says which of them a behaviour explores; the
properties of such a run are conjunctions of the components' own.

### The upstream path: Delivery, Transport, WispClient, WispAuth, CurlStream

`Delivery` is the abstract specification: for each request, how often it was
handed to an adapter without proof of non-delivery, whether its caller is gone,
and what it may still do.  An unrepeatable request (method not idempotent, or body
not replayable) may be dispatched only when nothing undisproved went before.

`Transport` is upstreamFetch, wispFetch and altWispFetch with the module state
they share.  A request's `pc` names the await it is at.  A failure action includes the stall
record, the reset or its scheduling, and the `finally` block with the deferred
reset.  JavaScript runs the continuations of a settled promise before the next
event, so `Next` lets no event happen while a `Resume` action is enabled.
`inits` is every init promise started by ensureCurl; `curlReady`
and `curlResetInflight` are indices into it.  `rides` is the client that carries
a dispatch and is compared with `gen`, the generation the code remembers.
`load` is loadInflight(), which actions add to and subtract from;
that it equals a number of requests is a property, not the definition.  `sent` counts
dispatches not proved undelivered.  The relay is relayFetch's contract; module Relay is
its detail.  Abstracted: URLs, headers, bodies, which adapter answered; the 60 s stall
window is a count whose members may age out at any time; the cooldown may end at any time.

`WispClient` is the client singletons behind ensureCurl's memo.  An init run
is one execution of the async body that builds a client; an init call is one execution of
`init()`, which joins a run or starts one.  The socket watcher and the reconnect timer act
on their own.  A rejected `c.init()` leaves the rejected promise in `initPromise`, the
other failures clear it, as in the code.  Abstracted: the lengths of the backoff,
`client.ready`, and what rides a socket.

`WispAuth` is one websocket of a wisp client with the wrappers of wisp-auth.ts, the
vendor (v1, upgraded, or native v2) on one side and a server on the other.  `CurlStream`
is one libcurl transfer, from the callbacks of the wasm to the body that the page reads.

### The embedder: Relay, WsRelay

`Relay` is the registered port, the bounded wait for a re-registration, and each relayed
fetch from the frame to the embedder to the end of its body, with abort, header
deadline, probe, credits and the queue's two limits, bytes and frames.  The embedder is
external: the host actions do what relayfetch.ts expects of it, and one action sends a frame
that breaks the protocol.  Chunks are of one size, the unit of bytes and credit, or empty;
`free` counts the frames that cost no credit, and only the properties read it.
A fetch that has a port never changes it.  `WsRelay` is one relayed socket: the page's
shim, the worker's bridge, the relay factory and the host, over two message ports.

### Guests: GuestKernel, and WorkerCaches

`GuestKernel` is the kernel in the worker and the page that runs the realms,
joined by an ordered port each way.  `guests` is the kernel's map, with one record per
scope of one origin; `regs` are the record objects, because an update's answer reads and
changes the object its call began with.  A realm is the spawn message that asked for it.
Handshake deadlines have no timer in the code: `tick` runs at the start of each control
message and each dispatch, and those actions take the set of handshakes that are found
late.  `TerminateKeys` and `ClearGuestWork` are part of each action that calls them.
`calls` holds each realm's first bridge call of a kind; `netPending` is the kernel's map of
entries, whose key names the scope and the call but not the realm.  `swaps` are the
timeouts between an update's answer and replaceGuest.  The host page is translated from
`src/app/guest-host.html`; its closing is external.  Abstracted: script text (a URL and a
version), what a realm answers, the registration checks, clients.matchAll, and a
kernel that restarts under an open host page.  The second part of `WorkerCaches` is the
CacheStorage of a guest origin.

### Files, records and routes: RouteKeys, RouteForms, BodySpool, Downloads, WorkerCaches

`RouteKeys` boots workers over a store whose reads and writes fail.  `RouteForms` is a tab
that follows links, rewrites its location and reloads, over token expiry and restarts; a
token is the record that was sealed and the key.  The first part of `WorkerCaches` is the page
cache.  `BodySpool`, `Downloads` and the page cache count bodies in chunks, and each of their
caps counts chunks.

### State of the worker: Settings, CookieJar, JarProfiles

`Settings` keeps the restores with their read and their application as separate steps
(there is an await in between), the messages, and each write from the call to `caches.open`
to the put.  A kill loses memory and the writes under way.  `acked` is what the embedder was
last told; `clean` says that no storage operation failed and no worker died with a
write under way; `late` says that raceBoot opened the gate before the restore.
`CookieJar` admits, sweeps, clears and persists, with the chain of writes;
`JarProfiles` is which jar a window's frames use, over the snapshots of that choice.

### A request: RequestEngine, ServeAnswer, DocumentGates, AssetRecovery

In the order of the code: from the URL to the destination, and from the destination over the
redirects, which are the intake and the chain of `RequestEngine`; from the answer to the last byte, and the second visit's copy; the gates of the
page's own policy; the search for assets named wrongly.  Each takes over with any state
that the one before can leave.  A body is two chunks and what was done to it.

### Extensions and tools

`ExtBackground` (manager, boot, wake, idle end), `ExtAlarms`, `ExtTabs`, `ExtPages`
(tokens, ports, and messages to listeners), `ExtSurfaces` (menus, action, notifications),
`ExtPermissions`, `ExtStorage`, `ControlPlane` and `HostTools` are the extension subsystem,
the messages of the control plane and the tools of the host page.  A background is the
sequence of awaits of its boot; what its script does is left open.

### The server: WispServer

Admission is a connection from the upgrade to the drop of its guard, one atomic
operation a step.  The streams are the session loops and relay tasks, with a pc for each
await and for each point between two operations on shared memory; aborting a task stops
it at an await and nowhere else.  One chunk is one DATA frame and one unit of every cap.

## 3. What is checked

Every run is exhaustive over the bounds in its cfg and, for the parts of an MC module,
over those of its INSTANCEs.

| run | question | bounds |
|---|---|---|
| TransportDirect | resets on one client: own generation only, deferred until idle, exact count | 3 requests of any mix of GET, POST and the isolated list load; 2 stalls start a cooldown; symmetric requests |
| TransportRoutes | no write twice, no dispatch after an abort, the Delivery promise, every request settles, over every route and fallback | 2 requests from {secondary GET, secondary upload, relay POST}; one endpoint or engine change; 2 stalls start a cooldown |
| WispClient | no failed memo, a dispatch finds a client of the current generation, awaits end | 2 requests, 2 sockets, 2 endpoints, 3 init calls, 1 switch |
| Embedder | a fallback is undelivered, a paced stream is kept, a live channel is kept, the embedder is released; a socket ends once | a stream of 4 chunks, empty or not, over 2 ports against limits of 2 grants of 1 and of 3 frames; a read and a write on one channel; a socket with 2 sends, 1 datum, 2 sweeps |
| GuestKernel | no work in the name of a realm that is gone, a running realm is hosted, one result per call, confirmed callers are kept | 2 scopes, 1 host page, 2 spawns, 1 confirmed caller, 1 dispatched fetch or update calls, 2 versions of the script |
| Worker | the settings are kept, a link is sound, the jar is durable and its admissions settle, windows keep their jar | 3 messages and 1 kill; 4 cookies in 2 domains against caps of 2 and 3, 1 restart; 2 windows and a frame, 2 snapshots, 1 restart; 1 socket, of either engine, with 1 stream of each kind; 3 chunks |
| Storage | routes stay decodable and name their page, spool budgets, cache reservations, a download's bytes | 3 keys over 3 lives; 2 sites, 2 keys, 2 moves, 1 restart; 2 spools on a budget of 3; 2 downloads of 2 chunks, other answers to a resume, a kill and a stop; 2 guest caches; 2 requests over a page cache with room for 1 |
| Requests | a request's own home, sound hops, treatment of answers, gates and searches | 2 clients, 2 sites, one navigation and one fetch at a time, 1 context, 1 restart, URLs by handle, query or route, with a destination in the path or a tail; 3 URLs of 2 origins, 2 redirects; one request and its second visit; 2 clients with 2 documents; 2 searches |
| Extensions | timers with their stores, storage areas, answers, pages and ports, what the host shows, grants, acknowledgements | 1 extension with 3 operations, 1 fault and 1 kill; 2 alarms; 2 tabs; 2 pages, 1 port; 2 messages, 2 listeners; 3 menu items; 2 permissions; 2 storage keys; 2 control messages; 2 documents under inspection |
| WispServer | counts of streams, bytes and connections; input is taken | 2 relays of 1 session, 1 open stream, caps of 2 chunks, 1 slot of each channel; 2 connections from 2 addresses with room for 1 |

Why the bounds are enough.  Three requests are the fewest for a request that fails
on an old generation while a second rides the new one and a third keeps the count
from reaching zero.  Two stalls instead of three make the cooldown reachable with the
retries of two requests; the code compares the count with the threshold in one place.
Three init calls are a first, one for a reset or a switch, and one for the reconnect that
meets them.  Two ports are the fewest for a probe that meets a newer one.  Five dispatches is
the most a route allows, and the proof shows it.  Two spawns give a scope an old and a new
realm, or two scopes a realm each; fetch() is left out of the guest calls because it differs
from update() only in never replacing the realm.  The limits (64 registrations, ring,
caps, quotas) are parameters that the instances set to one or two, so that both sides of
each are reached; the limit of 64 registrations is in the guard of `Spawn` and no run
reaches it.  What a TLC bound leaves open for the transport, the client singletons, the
relay, the guest kernel, the server, the settings, the jar with its profiles, the route keys, the
intake and the chain of a request, the upload spools, the page cache, the extension pages with
their ports, the permissions, the storage areas and the acknowledgements of the control plane,
the proofs of section 4 close.

Some properties hold under a condition that the code needs, stated in their comments:
`ClientIsSound` says more of behaviours where only resets drop the client; `RouteSurvives`
and `StoreCurrent` leave out failed storage, kills with a write under way, and a
passed boot deadline; `SpoolFileKept` leaves out files older than the sweep age;
`RunningIsTimed` leaves out behaviours in which the store failed; `AcksAreDurable` leaves out
a message whose write failed, and one handled past the boot deadline while the jar was still
being loaded; `NotWedged` speaks of sockets that the close guard knows.  `HeadersStayHome` lets
the headers that were computed for the URL asked for go where a rule rewrote it to, and
says nothing of those a webRequest listener added.  The intake leaves out destinations nested in
a path more than three deep and one that is the whole path of a handle, and supposes that the route
keys of a request are held, which RouteKeys is about.

### Where the code does not do what its comments say

Two runs end in a counterexample.

- **TransportForgottenReset**, `DueResetHappens`: scheduleCurlResetWhenIdle overwrites
  the deferred generation (`transport.ts:161`).  A late failure of an older
  generation replaces a reset that is due, and the wedged client keeps serving.
- **GuestLostCaller**, `ConfirmedCallersKept`: a registration terminated while its realm
  spawns loses its waiting callers, because the `zl:guestTerminated` arm deletes the record
  with their replies (`kernel/guests/executor.ts:561-563`).

The modules keep the statements of more such disagreements as definitions that no run
lists, because the code violates them: `EndpointHonoured`, `EngineSurvives`, `NoWaitWithPort`,
`WokenCanAnswer`, `RemovedStaysRemoved`, `RestoredAlarmIsHeard`, `RestoreKeepsAlarms`,
`DeadlineFailsClosed`, `SessionStaysInMemory`, `ScriptSparesHttpOnly`, `AssembledIsTheFile`,
`NewcomerTracked`, `QuotaHolds`, `VoluntaryIsEofOnly`, `ForeignStaysOnEngine`,
`WorkersAreComposed`, `EntryBoundHard`, `RevokedIsUnused`.  What they and the modelling
showed, by component:

**Transport and clients.**
The last request to leave altWispFetch never runs the primary client's deferred
reset (`transport.ts:676-679`), and altWispFetch returns its retry without an await (`674`), so
the retry is not counted in flight.  The first byte of a retry does not clear the stall
window as that of the first attempt does (`255-258`, `571-573`).  The stall of an isolated
request counts in the cooldown's relay arm (`491` against `43-47`).  setPrimaryWisp does not
bump curlGeneration, so a late failure of the old endpoint can reset the new client.
engineReady applies the stored engine over a choice made while the store was read (`102`).
An init run overtaken by an endpoint change installs its client
(`libcurl-transport-vendored.ts:784`); a rejected `c.init()` stays memoised until the next
reset (`773`, and the same in ensureAlt); the reconnect timer resets behind ensureCurl's
resolved memo (`1184-1196`); after reset() the lifecycle machine is dead with no reconnect
scheduled, so a request may wait its 10 s for nothing (`transport.ts:504-507`).

**Wisp credentials and transfers.**
A native v2 vendor's socket never leaves its handshake state in wisp-auth.ts, so the 10 s
deadline closes a healthy one.  Credentials changed while a socket waits for INFO are sent as
they are then, also when they are for another endpoint.  A socket that dies before its
handshake still reports "auth-unsupported" at the deadline, and a late CLOSE of an old
socket sets the outcome of newer credentials.  The close guard that answers a stream left open
looks at the primary engine and at the socket of the primary client
(`libcurl-transport-vendored.ts:1302`, `1310`): with epoxy as the engine, the secondary libcurl
client's socket (`transport.ts:642`) has none, and a stream there may stay wedged.  A libcurl transfer that ends with error 56 in
a header block cut off before its content-length resolves an empty answer; chunks after a
bodiless answer are parked without bound; an abort after the end calls end_callback again; a
signal that was aborted before the request starts is not noticed.

**Relay and sockets.**
Credit paces the bytes of a stream and not its frames: an embedder that keeps to its 2 MiB in
chunks of 512 bytes or fewer, or sends empty ones, is cut off at 4096 unread frames
(`relayfetch.ts:325`).  A body stream that ends on a frame of another kind tells the
embedder nothing (`525-527`), which goes on serving it; `HostReleased` leaves that exit out.
requestRelayReRegister checks for a port, awaits the window clients, and parks without
checking again (`relayfetch.ts:85-128`).  A second probe that finds the port already dropped
leaves its fetch to the header deadline (`429`).  zl:teardown closes wsBridge and not
wsRelayBridge (`control.ts:1441`), and a socket whose open still awaits the transport opens
after it.  wsOpen reads `viaRelay` before the await.  A page that goes away never closes its
socket; a worker restart leaves page sockets open.

**Boot and settings.**
Past raceBoot's deadline a restore may land over newer settings (`lifecycle.ts:80-95`).  Two
workers that boot first together strand one's key.

**Route forms.**
A route under the reserved "zl" segment whose search carries a copied live token is read as a
query form while the prefix is the default.  A prefix change strands committed query URLs
whose path becomes engine-shaped.  Tokens of a lost key ride along and can stack.  recoverPath
drops the search.  A challenge return under a query form carries the token upstream.
navpResolve and decodeNavHandlePath disagree on "//" and on nested tokens.

**Guests.**
Bridge calls are keyed by scope and call number (`kernel/guests/executor.ts:770`): an old
realm's late answer removes the entry of the new realm's call of the same number, which then
ends by its 30 s budget.  An update() begun under one registration replaces the realm of a
later registration of the scope with the bytes of the earlier script URL (`1123`).  A
`zl:guestSpawned` after the reaper discarded its record leaves the realm running with no
record (`364-380`, `531`).  A running record whose host page is closed is never discarded
(`411`).  `cacheBytes` is only ever lowered (`817-1036`), so the byte quota is never reached,
and cacheStores are never dropped at a termination (against `1246-1250`).

**Cookies.**
The deadline opens on the durable jar (`docs/cookies.md:398-403`).  A late response after a
profile switch admits session cookies to the durable jar (`docs/cookies.md:124-126`).  A
script's write drops an HttpOnly duplicate (#337).  A failed read of the jar leaves an empty
jar whose next persist overwrites the stored record (`docs/cookies.md:238`); admissions past
the boot deadline are erased by a later load.  A zl:clearJar,
zl:importSession or zl:teardown acknowledged past the deadline is undone when the load lands: the
deadline opens the gate only (`sw.ts:317-322`), and the load then clears the jars and fills them from
the record as it was read (`cookies.ts:1549-1582`).  pruneJarClients with a stale list can delete a
profile that was just pushed.  jarClear does not persist profiles.

**Spool and downloads.**
The orphan sweep removes any file older than 10 min, a live spool's too (`bodyspool.ts:92-104`);
a failed createWritable leaves its file.  A newcomer may evict itself (`docs/downloads.md`,
#25); assemble's reload leaves `received` stale; loadPartial bypasses the buffer budget; a
cancel during a resume is overridden; pause does not stop a resume pump; a resume answered with
anything but 206 or 416 starts over with that answer's body, an error page's too
(`downloads.ts:550-559`), and a later 206 goes on behind those bytes; what was received is
never compared with the size (`595-609`); clearHistory during
loadPartial leaves an orphan buffer; past the boot deadline load() replaces entries begun
meanwhile.

**Requests.**
After a restart a handle or query page's foreign request goes to the browser
(`foreign.ts:32-70` against `5-9`), and the rebuilt context is the pre-redirect target.  A
handle that expired and has a path, navigated to by a page that has a context, resolves
against that context (`request.ts:2911-2924`) and is not made anew as #385 wants (`2925-2960`).  A
destination in the path makes a page's URL name another site than the one it was asked for, so that
after a restart its requests go there.  A challenge that was passed turns the page once more
(`5189-5203`).  A
cached hit of a redirected entry does not establish its context again.  Rules' headers are
set after the jar's cookie, so a rule's cookie overrides the jar on hops; the cookie is
computed before the upload is spooled; URL rewrites by rules are not gated again (`4023`).
Headers of the page, the rules and the listeners are computed for the URL asked for and sent to the one a
rule rewrote it to (`3950-3966`, `4037`, `4393`).  Only injected headers are dropped when a redirect
leaves their origin: those that a webRequest listener adds (`4383-4384`), or that a plugin writes over one
that was there, follow every redirect, as do the user agent, the languages and the client hints.

**Page cache.**
The count limit is exceeded by concurrent stores (`request.ts:746-749`).  bumpStoredEntry puts
outside the chain: it resurrects evicted or cleared entries and can put an older validator
on a newer body.  A store reserved before pageCacheClear puts after it (`1316-1318`).  A response
fetched with a cookie may be stored if the jar is cleared before the check (#179).  A worker's
request is served the copy composed for a page's script and the other way round
(`4260-4263`).  Two queued deletes of one stale entry disable the cache until a restart.

**Answers and gates.**
Interception arms return before the integrity check; answers blocked there, challenges and
sniffed non-HTML end without WEBREQ.completed, and a throw after it fires errorOccurred too.  The
cached path ignores the native policy (`request.ts:4265` against `transit.ts:258-260`).  A
directive that was given up falls back to default-src and may block falsely
(`csp-enforce.ts`); http sources do not admit https.  With two integrity values for one URL
the last wins, and one malformed token skips the check (#531).  A recovered asset's answer
has no stall deadline.

**Extensions.**
A second message during a wake's boot is refused (`extensions/control.ts:557-559`).  A put
during an uninstall's awaits resurrects the record.  Uninstall clears neither storage nor
menus nor the running bit.  A crashed boot's listeners stay.  A throw in wakeExtension leaves
the running bit with no idle timer.  Elapsed alarms fire before the listeners exist; an alarm
made inside the load window erases the stored list.  Storage calls that overlap exceed the
quota and announce out of order.  A background that posts or disconnects inside onConnect is
not heard; a refused connect leaves the page's port open.  Menus, action state and
notifications in the host grow stale after a restart, a default's change or a late report.
A revoke never reaches contexts booted before it (#282).

**Control plane and tools.**
recordStop restores tracing over a toggle made meanwhile.  zl:clearJar acknowledges when the
write failed.  After a restart the first rules message without a user agent does not clear
pages of the earlier one (#377).  A failed finder bundle is memoised until the restart and a
hung one has no deadline.  The Authorize button of devtools.html is disabled until an
authorization succeeds (`devtools.ts:519`).  After a restart a poll skips the new worker's first
events.  An evicted inspection leaves the page's console patched.

**Server.**
In `crates/zeolite-server/src/lib.rs`: a write failure inside drain_until_credited closes
Voluntary (1823-1857); the flush before the connect has no write timeout (2105-2114, against
1804-1807); a refused UDP send keeps its charge until the stream ends (2229-2232); a discharge
after the settlement under-counts server_queued until it drains (167-170); both the relay's
Close and the session's may be sent.

### Fairness

`Transport`: every request's next step is weakly fair, because the first-byte deadline
ends each attempt, 10 s the wait for a dead transport, and the relay has its own
deadline; an init settles, which is an assumption about the wasm clients (the code
puts no timeout around `c.init()`).  `WispClient`: init runs settle, on the same
assumption, and continuations run.  `Relay`: the timers of a fetch fire, frames already
sent arrive, and an embedder whose page is alive reads its port; nothing is assumed of
what it answers.  `WsRelay`: frames arrive, conversions end and the close timer fires.
`WispServer`: a relay's awaits end by their deadlines (weak), select! polls its arms in
random order (strong fairness of taking input), the client reads or its websocket breaks.
The other modules have no liveness property: their waits end by timers that each do one
thing.


## 4. What is proved

Eight proof modules state results for every value of the constants that the `ASSUME` of the
module allows: finite sets of requests, uploads, cookies, connections, relays, scopes or fetches where something
is counted, limits that are natural numbers, and names of which none is the empty one.  Nothing else is assumed; the two theorems with a
premise on the run say so in their statement.  Each has an inductive
invariant, TLC-checked on the run of its component before it was proved, one lemma for each action
or family of actions, and the theorems listed in PROJECT.json.

**TransportProofs.**  `Invariance`: the invariant IInv is TypeOK, LoadCountsInFlight and
DispatchInv.  TypeOK is not inductive alone: a leave subtracts one, so the counter stays
natural only because a request that leaves was counted.  AtMostOnce is not inductive alone: a
request at `retry` may have been sent twice, which is sound only because the replay check on
the way there let nothing but repeatable requests pass, and because an unrepeatable request
that falls back has nothing undisproved behind it.  DispatchInv says that for each place and
bounds the dispatches by place (`Cap`), which gives the refinement its five.  `KeepsPromise` is
the refinement of `Delivery`, step by step; `NothingSentForTheGone` follows from it, since only
Delivery's Dispatch raises `sent` and it asks for a live caller.

`ResetsByGeneration` has the premise that no endpoint is switched (`NoSwitches`), as in run
TransportDirect: a switch drops the client without touching the generation a request remembers,
so the two numbers part for good reason.  The invariant is GenInv: only the memoised init is
pending, a request in service rides the client of the generation it remembers, and a reset
is owed only to a generation whose client was ready, so that a retry which joins the shared reset
waits for a client that is newer than its own.  `DeferredResetTimely` has the premise that no
request is routed over the secondary client (`NoneOnAlt`): the last to leave altWispFetch runs the
secondary client's deferred reset only, and the primary's then stays due with nothing in flight.
Both proofs go through one classification of the steps (`Shapes`): a step leaves wispFetch, moves
between places that hold nothing of the client, touches neither, or is one of six actions that get
their own argument.

**WispClientProofs.**  `ClientSound`: the memo of ensureCurl never stands for a failed init(),
and a request whose init() succeeded finds a client on the current generation's URL.  The
second half holds while resets are the only thing that drops the client (`OnlyResets`: no endpoint
was switched), which the property says.  The strengthening, `Sure`, then allows at most one
init run under way, and vouches for each call that is resolved or will be: its client is there, or
the request will see that it is not.

**RelayProofs.**  `StreamKept`: a stream paced by credit is not cut off for its bytes, and for
its frames only when one grant in chunks and the frames that cost nothing exceed that limit.
The reason is a conservation law (`Flow`): the chunks queued, on the wire and credited to
the embedder never exceed one grant, and what else is queued or on the wire was posted
without credit (`Spare`).  It needs to be known
which frames may still be under way for a fetch at each place (`Asks`, `Heads`, `Seen`), and
that a fetch is in the map of waiters exactly while it or its stream lives
(`Life`).  `Undelivered`: a write that ended null was not sent to its destination and never will
be.  `ChannelKept`: the probe drops a registration only when its page is gone, whatever
registers while it looks.

The second half of the module is about `WsRelay`.  `EndsOnce`: a socket's page hears of one close,
its wire ends with its close frame, and an open page's bufferedAmount is what was not
acknowledged.  ClosedOnce is not inductive: it must be known that the bridge's registry and the
factory's forget a socket in the same step, so that the close event owed and the two registry
entries change together (`Once`), and that before the constructor's message is handled there is
nothing of the socket anywhere (`Unopened`).  The wire needs that an alive connection has
posted no close (`Wire`), and the count that nothing is buffered or drained before a page's
socket opens (`Owing`).  Each handler makes one of three things of a socket, an end, the start of the close
handshake, or neither, and each is shown once to keep the invariant.

**GuestKernelProofs.**  `RealmsAgreeAlways`, `OneResultAlways` and `CallersKeptAlways` rest on
one invariant in seven parts.  A record names the newest realm of its scope (Records);
while it does, no frame that ends that realm is on its way and its spawn is the last one, and
once the page has said that it spawned the page runs it (Hosted); the fetches, waits
and calls that the kernel keeps are of that realm (FetchWork, WaitWork, CallWork); whoever waits on a
record has a reply left (Waiting).  Hosted is what the code never checks and relies on: the
two ports are ordered, so an answer that names a record's realm is not an old one.

**SettingsProofs.**  `SettingsKept`: a worker whose storage worked and whose restore came in
time has the settings last acknowledged, and with no write under way both entries hold them.
The store lags behind memory, so neither half is inductive: SettingsInv says what the last
write of each kind will leave in its entry (`RouteWritten`, `EngineWritten`).  A route write
takes the prefix as an argument and reads the rest from memory when its cache is open, and it
is the last write of its kind that must read what was acknowledged; that holds because
memory never differs from it after the restore, and before it no message is dispatched (`BootInv`).

`WindowsKept` is WindowsKeepTheirJar.  What protects a window of unknown profile is a mark that
wanders: it is in the store as an unreadable or uncertain snapshot, in the memory of a worker whose restore
is over, and in a snapshot under way, and each replaces another.  ProfileIInv says that
all three carry it while any window is in doubt (`Doubted`), that of a window which a worker
was not told about it knows nothing before its restore and what is stored after it (`Kept`), and that a
snapshot under way is of this worker's memory (`Putting`), which holds because a write waits for the restore.

`JarSound` is JarIsSound.  QuietIsDurable is not inductive: the write that ends the chain may have
collected its snapshot before the jar changed.  JarIInv says that this is harmless, because such a change
arms the timer or asks for another write (`LastWriteIsCurrent`).  IdentityIsSettled follows from an
admission's sweep: the victims of a domain within its cap are none (`VictimsOf`), those of the new
cookie's domain bring it down to the cap though the cookie itself is spared (`VictimsSuffice`), and
what is left fits the total, so that nothing of another domain is taken (`SweptSpares`).

**RequestProofs.**  `HomesFound` is RequestsFindTheirHome.  That a request has the home of its own
page is not inductive, because a home is read from the page's context, which moves: IInv says of
each context that it names a site of its own page, named by its URL, asked for, or where it lives, or
the destination of the navigation that is being fetched for it (`OwnContext`); and that a page whose
context was never lost, by a restart or by the cap, has one that is where the page lives.  A
navigation is turned at most once for its route and once for a destination in its path.  `HopsSound` is HopsAreSound.  ChainInv follows what the next
dispatch *would* carry, headers, cookies and body, from the answer that redirects to the dispatch:
it is meant for the next URL at each place between, made for its origin or diverted there by the
rule that rewrote the first URL (`Meant`), a one-shot body is there only before it was
sent, and the gates were passed for the URL that is next and no other.

`SpoolsSound` is SpoolsAreSound.  The two budgets are the sums over the uploads of what each
holds by its place; the sum is the cardinality of a set of pairs (`Total`), and one
lemma, `Recount`, says what one upload's step does to it.  The reservation of an upload that spools is what it has
read, so the budget is checked before it is exceeded.  A sweep works on a list of files made
earlier, so that no young file goes needs that a list holds old files only, also after its uploads have moved on.

`DecodableAlways` is the part of RecordsAreSound about restarts: whatever store
operation fails, a worker with the codec on decodes every route that was handed out.  KInv has
the reasons: every key with a route out is among those that the store would load, and a key is
minted only while there is none (`Unminted`), because a failed read turns the codec off rather
than looking like an empty store.

`CachesSound` is CachesAreSound.  A put runs outside the chain of mutations and a store is given up
in many places, so CacheIInv ties the places of the requests to what is counted: a job of the chain is
the one job of a request that waits for it (`ChainWaits`), and what is reserved is the number of
stores under way.  That a page of an account stays out does not follow from the test of the
credentials at the match, which was made before the response: what was sent with
the account's cookies may be stored only once it is signed out, and then its sign-out was crossed
(`RequestSound`); a repaired script and a bumped entry are copies of an entry and bring in
no account that was not there.

**ExtensionProofs.**  `GrantsSound` is GrantsAgree.  That a quiet view is the record is not inductive:
two calls overlap and each copies an array that the other replaces.  PermissionIInv says that calls
go on in their order (`Queue`), that the last one which changed the record has the record's array, copies
it and leaves the view at it (`Latest`), that a call which is alone began with all that was
announced (`Alone`), and that with no write under way the store has the record (`Written`).

`PagesAgree` is PagesAndPortsAgree.  Two ends of a port change at different times and never look at
each other.  PageIInv says what is on each of the two channels at each state of the two ends: an end that
closed by itself has a frame under way that says so until the other end has closed (`Closing`),
and what an open end has heard, with what is under way to it, is what the other has posted
(`Delivered`).

`StorageKept` is StorageIsKept.  When a put ends well, the record gets what that put carries; that
this is what the memory has, or that a later put under way has it, is `LastPutIsMemory`.  Each put
is the one its call waits for (`PutsAreWaitedFor`), so that a failed put ends that call alone.
The count of bytes says nothing while calls are under way; `CountIsExact` keeps it until one of
them has changed something, and a call that throws after that leaves it in doubt up to the next recount.
The sum itself is a fold and stays opaque: each recount is over the memory there is.

`AcksSound` is AcksAreSound of the control plane.  AcksAreDurable is not inductive: what acknowledges
a message is the end of a write that was asked for long before, after others' writes, and
the store then is what that write collected.  ControlIInv says that each message which waits
has one write of its own in the chain (`WritesAreAsked`); that from its change on the memory is rid
of the old cookies (`JarIsRid`), so that the snapshot taken in its turn is too (`SnapshotIsRid`);
and that with an acknowledged message no later write can bring them back (`AcksAreKept`).  The load
of the jar would break all three where it lands after the boot deadline has opened the gate: a message
handled while it goes on is marked (`early`) and left out, and once it has landed nothing loads the
jar again in that worker's life.  Before the gate opens nothing is handled (`OpenFirst`).

**WispServerProofs.**  Admission: the two counts are inductive by themselves, because every
action moves one connection (`ConnectionCountsExact`); that a served connection was verified
where a handshake is required is a second invariant (`ServedVerified`).  Streams:
`AccountsAlwaysExact`.  HeldBytesAreCharged must be known at every place of a relay
(`Charged`: what it holds by its pc, against its charge), and of a task whose entry is gone it must
be known that it has at most the rest of a discharge to do (`Fits`), or a late discharge would be
subtracted from another stream's bytes without bound.  ServerQueueIsOwed then holds because
each step moves the server's count, the charges and the number of half-finished discharges
together; StreamSlotsExact because a dropped entry gives back one slot, and a reservation is
counted from its increment to its rollback.  The sum over the streams is the cardinality of a set
of units (`Units`), which the prover can count where it cannot fold.

What the attempts showed of the model.  An earlier Connect of `WispServer` had two overlapping
arms in a CASE, for a relay that is reaped and reused in one step: TLC takes the first, TLA+
leaves it open, and the proof failed there until the arms were made disjoint.

## 5. Model-checked only, and why

- Everything under fairness (EveryRequestSettles, AwaitEnds, HostReleased, CloseEnds,
  InputIsTaken) and DueResetHappens: liveness is out of the prover's reach.
- ResetsKeepToTheirGeneration when an endpoint is switched, and DeferredResetIsTimely when requests
  ride the secondary client: TLC finds counterexamples there with two requests.
- PairFallsBackUndelivered is stated in MCEmbedder over an instance with fixed constants;
  `Undelivered` proves it for any number of fetches.
- LinkIsSound of Worker; of Storage, DownloadsAreSound and the parts of RecordsAreSound other than
  RoutesStayDecodable, which are the forms of a route and the guest caches; of Requests, AnswersAreTreated and LoadsAreGated; of
  Extensions, CopiesAgree and AnswersAreSound.  They are conjunctions over
  instances with fixed constants, and several of the modules compute with folds and selections
  over sequences, on which the provers cannot do induction.

## 6. Plan

Next to prove, most important first: the stores of ExtBackground and ExtAlarms; what ServeAnswer
makes of a response; a first answer's win in ExtPages.
To be modelled: the update check; the pure operators of rule matching and cookie retrieval,
against a reference definition.

## 7. What is not modelled, and why

The rewriter, CSP and configuration parsers transform text character by character,
which a state model does not help with.  Page shims run against browser APIs and share
nothing with the worker but messages.  Diagnostic logs record and decide nothing.
Identity and fingerprint tables are values.  The wasm clients' internals and the
browser's service-worker life cycle are external: their outcomes are choices.
