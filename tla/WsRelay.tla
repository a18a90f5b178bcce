------------------------------ MODULE WsRelay ------------------------------
(***************************************************************************)
(* A page's WebSocket carried by the embedder's relay: the page shim       *)
(* (bootstrap/ws.ts), the worker's bridge (wsbridge.ts), the relay factory *)
(* (ws-relay.ts) and the host, over two message ports.                     *)
(*                                                                         *)
(* Each socket has a port of its own to the worker and a rid on the relay  *)
(* port.  A payload is one byte.  Sends are "text" or "blob", whose        *)
(* conversion takes the worker an await.  The page's own queue of events   *)
(* keeps their order and is left out.                                      *)
(***************************************************************************)
EXTENDS Integers, Sequences, FiniteSets

CONSTANTS
  Socks,        \* page sockets
  MaxSends,     \* bound: frames a page sends on a socket
  MaxData,      \* bound: frames a host sends on a socket
  MaxSweeps     \* bound: re-registrations and drops of the port

ASSUME SocketBounds == MaxSends \in Nat /\ MaxData \in Nat /\ MaxSweeps \in Nat

VARIABLES
  page,         \* readyState, bufferedAmount and the close events fired
  toWorker,     \* messages on each socket's port,
  toPage,       \* and the answers on it
  bridge,       \* the bridge's registry: "none", "conn" or "ready"
  conn,         \* the factory's registry: "none", "conn", "open" or closing
  blobs,        \* conversions under way
  socketPort,   \* a relay port is registered
  onWire,       \* every frame posted to the host for a socket
  heard,        \* how many of them the host has read
  socketHost,   \* the host's socket
  back,         \* frames on their way from the host
  sends, data, sweeps

socketVars == <<page, toWorker, toPage, bridge, conn, blobs, socketPort, onWire, heard,
                socketHost, back, sends, data, sweeps>>
hostSide == <<heard, socketHost, back, data>>
worker == <<bridge, conn, blobs, socketPort, onWire, sweeps>>

Unborn == -1
Connecting == 0
Open == 1
Closing == 2
Closed == 3
Alive == {"conn", "open"}

SocketsInit ==
  /\ page = [s \in Socks |-> [st |-> Unborn, owed |-> 0, closes |-> 0]]
  /\ toWorker = [s \in Socks |-> <<>>] /\ toPage = [s \in Socks |-> <<>>]
  /\ bridge = [s \in Socks |-> "none"] /\ conn = [s \in Socks |-> "none"]
  /\ blobs = [s \in Socks |-> 0]
  /\ socketPort = TRUE
  /\ onWire = [s \in Socks |-> <<>>] /\ heard = [s \in Socks |-> 0]
  /\ socketHost = [s \in Socks |-> "none"] /\ back = [s \in Socks |-> <<>>]
  /\ sends = [s \in Socks |-> 0] /\ data = [s \in Socks |-> 0] /\ sweeps = 0

-----------------------------------------------------------------------------
(* The page *)

\* The constructor posts zl:wsOpen.
PageOpens(s) ==
  /\ page[s].st = Unborn
  /\ page' = [page EXCEPT ![s].st = Connecting]
  /\ toWorker' = [toWorker EXCEPT ![s] = <<"wsOpen">>]
  /\ UNCHANGED <<toPage, worker, sends, hostSide>>

\* A send after the close counts as buffered for good.
PageSends(s, kind) ==
  /\ sends[s] < MaxSends /\ sends' = [sends EXCEPT ![s] = @ + 1]
  /\ page[s].st >= Open
  /\ page' = [page EXCEPT ![s].owed = @ + 1]
  /\ toWorker' = IF page[s].st = Open THEN [toWorker EXCEPT ![s] = Append(@, kind)] ELSE toWorker
  /\ UNCHANGED <<toPage, worker, hostSide>>

PageCloses(s) ==
  /\ page[s].st \in {Connecting, Open}
  /\ page' = [page EXCEPT ![s].st = Closing]
  /\ toWorker' = [toWorker EXCEPT ![s] = Append(@, "close")]
  /\ UNCHANGED <<toPage, worker, sends, hostSide>>

PageHears(s) ==
  /\ toPage[s] # <<>>
  /\ toPage' = [toPage EXCEPT ![s] = Tail(@)]
  /\ LET ev == Head(toPage[s]) IN
     page' = [page EXCEPT ![s] =
       CASE ev = "open"  -> IF @.st >= Closing THEN @ ELSE [@ EXCEPT !.st = Open]
         [] ev = "drain" -> [@ EXCEPT !.owed = IF @ > 0 THEN @ - 1 ELSE 0]
         [] ev = "error" -> [@ EXCEPT !.st = Closed]
         [] ev = "close" -> [@ EXCEPT !.st = Closed, !.closes = @ + 1]
         [] OTHER        -> @]
  /\ UNCHANGED <<toWorker, worker, sends, hostSide>>

-----------------------------------------------------------------------------
(* The bridge and the factory.  What one handler does to one socket is a    *)
(* record: its registry entries, the frame it posts, the events it posts.   *)

State(s) == [bridge |-> bridge[s], conn |-> conn[s], frames |-> <<>>, events |-> <<>>]
Posts(r, ev) == [r EXCEPT !.events = Append(@, ev)]
Forgotten(r) == [r EXCEPT !.conn = "none"]

\* close() of the factory's handle as end() calls it: the handshake starts.
Closes(r) ==
  IF r.conn \notin Alive THEN r
  ELSE IF socketPort THEN [r EXCEPT !.conn = "closing", !.frames = Append(@, "wsClose")]
  ELSE Forgotten(r)

\* end() of the bridge: once per socket, and an abnormal one also closes what
\* the factory holds.
EndSocket(r, clean) ==
  IF r.bridge = "none" THEN r
  ELSE LET gone == [r EXCEPT !.bridge = "none"]
       IN Posts(IF clean THEN gone ELSE Closes(gone), "close")

EchoedKept(r) == EndSocket(r, TRUE)

\* The close handshake is over, by the host's frame or the fallback timer.
Echoed(r) == EndSocket(Forgotten(r), TRUE)

ShutSilently(r) == Closes(r)

\* close() on the page's request: without a channel it reports the close itself.
Shut(r) == IF r.conn \in Alive /\ ~socketPort THEN EndSocket(Forgotten(r), TRUE) ELSE Closes(r)

\* zl:wsError, and the sweep of a re-registration.
Errs(r) == IF r.bridge = "none" THEN Forgotten(r) ELSE EndSocket(Posts(Forgotten(r), "error"), FALSE)

\* send() of the bridge: whatever the factory did with it, a payload is drained.
Sends(r, kind) ==
  Posts(IF kind = "text" /\ r.conn \in Alive /\ socketPort THEN [r EXCEPT !.frames = Append(@, "text")] ELSE r,
        "drain")

Becomes(s, r) ==
  /\ bridge' = [bridge EXCEPT ![s] = r.bridge]
  /\ conn' = [conn EXCEPT ![s] = r.conn]
  /\ onWire' = [onWire EXCEPT ![s] = @ \o r.frames]
  /\ toPage' = [toPage EXCEPT ![s] = @ \o r.events]

-----------------------------------------------------------------------------
(* The worker *)

NextUp(s, ops) == toWorker[s] # <<>> /\ Head(toWorker[s]) \in ops /\ toWorker' = [toWorker EXCEPT ![s] = Tail(@)]

\* zl:wsOpen with a channel registered.
Opens(s) ==
  /\ NextUp(s, {"wsOpen"}) /\ socketPort
  /\ Becomes(s, [bridge |-> "conn", conn |-> "conn", frames |-> <<"wsRelay">>, events |-> <<>>])
  /\ UNCHANGED <<page, blobs, socketPort, sends, sweeps, hostSide>>

\* It is refused, or without a channel fails on the wisp transport.
Refuses(s) ==
  /\ NextUp(s, {"wsOpen"})
  /\ Becomes(s, [State(s) EXCEPT !.events = <<"error", "close">>])
  /\ UNCHANGED <<page, blobs, socketPort, sends, sweeps, hostSide>>

\* A message for a socket that the bridge no longer has is dropped.
BridgeSends(s) ==
  /\ NextUp(s, {"text", "blob"})
  /\ IF bridge[s] = "none" THEN UNCHANGED <<toPage, bridge, conn, onWire, blobs>>
     ELSE /\ Becomes(s, Sends(State(s), Head(toWorker[s])))
          /\ blobs' = [blobs EXCEPT ![s] = @ + IF Head(toWorker[s]) = "blob" /\ conn[s] \in Alive THEN 1 ELSE 0]
  /\ UNCHANGED <<page, socketPort, sends, sweeps, hostSide>>

BridgeCloses(s) ==
  /\ NextUp(s, {"close"})
  /\ Becomes(s, IF bridge[s] = "none" THEN State(s) ELSE Shut(State(s)))
  /\ UNCHANGED <<page, blobs, socketPort, sends, sweeps, hostSide>>

\* The conversion is over: the connection is looked at again.
BlobConverts(s) ==
  /\ blobs[s] > 0 /\ blobs' = [blobs EXCEPT ![s] = @ - 1]
  /\ onWire' = IF conn[s] \in Alive /\ socketPort THEN [onWire EXCEPT ![s] = Append(@, "blob")] ELSE onWire
  /\ UNCHANGED <<page, toWorker, toPage, bridge, conn, socketPort, sends, sweeps, hostSide>>

\* CLOSE_FALLBACK_MS passed without the echo.
FallbackFires(s) ==
  /\ conn[s] = "closing"
  /\ Becomes(s, Echoed(State(s)))
  /\ UNCHANGED <<page, toWorker, blobs, socketPort, sends, sweeps, hostSide>>

\* What a frame of the host does to a socket that the factory holds.
Answered(r, frame) ==
  CASE frame = "wsOpen" ->
         IF r.bridge = "none" THEN r
         ELSE Posts([r EXCEPT !.bridge = "ready", !.conn = IF @ = "conn" THEN "open" ELSE @], "open")
    [] frame = "wsData"  -> IF r.bridge = "none" THEN r ELSE Posts(r, "message")
    [] frame = "wsClose" -> Echoed(r)
    [] frame = "wsError" -> Errs(r)

\* A frame of the host, of this registration or an earlier one.
RelayHears(s) ==
  /\ back[s] # <<>> /\ back' = [back EXCEPT ![s] = Tail(@)]
  /\ Becomes(s,
       IF conn[s] = "none" THEN State(s) ELSE Answered(State(s), Head(back[s])))
  /\ UNCHANGED <<page, toWorker, blobs, socketPort, sends, sweeps, heard, socketHost, data>>

\* A host page registers (again): every relayed socket ends.
ReRegisters ==
  /\ sweeps < MaxSweeps /\ sweeps' = sweeps + 1
  /\ socketPort' = TRUE
  /\ LET swept == [s \in Socks |-> IF conn[s] = "none" THEN State(s) ELSE Errs(State(s))] IN
       /\ bridge' = [s \in Socks |-> swept[s].bridge]
       /\ conn' = [s \in Socks |-> swept[s].conn]
       /\ toPage' = [s \in Socks |-> toPage[s] \o swept[s].events]
  /\ UNCHANGED <<page, toWorker, blobs, onWire, sends, hostSide>>

\* A relayed fetch finds the channel dead and drops it (relayfetch.ts).
PortDrops ==
  /\ socketPort /\ sweeps < MaxSweeps /\ sweeps' = sweeps + 1
  /\ socketPort' = FALSE
  /\ UNCHANGED <<page, toWorker, toPage, bridge, conn, blobs, onWire, sends, hostSide>>

-----------------------------------------------------------------------------
(* The host: it answers a frame or stays silent, and speaks while open. *)

HostHears(s) ==
  /\ heard[s] < Len(onWire[s]) /\ heard' = [heard EXCEPT ![s] = @ + 1]
  /\ LET frame == onWire[s][heard[s] + 1] IN
     \/ socketHost' = socketHost /\ back' = back
     \/ /\ frame = "wsRelay"
        /\ \/ socketHost' = [socketHost EXCEPT ![s] = "open"] /\ back' = [back EXCEPT ![s] = Append(@, "wsOpen")]
           \/ socketHost' = [socketHost EXCEPT ![s] = "over"] /\ back' = [back EXCEPT ![s] = Append(@, "wsError")]
     \/ /\ frame = "wsClose" /\ socketHost[s] = "open"
        /\ socketHost' = [socketHost EXCEPT ![s] = "over"] /\ back' = [back EXCEPT ![s] = Append(@, "wsClose")]
  /\ UNCHANGED <<page, toWorker, toPage, worker, sends, data>>

HostSpeaks(s) ==
  /\ socketHost[s] = "open"
  /\ \/ /\ data[s] < MaxData /\ data' = [data EXCEPT ![s] = @ + 1]
        /\ back' = [back EXCEPT ![s] = Append(@, "wsData")] /\ socketHost' = socketHost
     \/ /\ \E last \in {"wsClose", "wsError"} : back' = [back EXCEPT ![s] = Append(@, last)]
        /\ socketHost' = [socketHost EXCEPT ![s] = "over"] /\ UNCHANGED data
  /\ UNCHANGED <<page, toWorker, toPage, worker, sends, heard>>

SocketsNext ==
  \/ \E s \in Socks :
       \/ \E kind \in {"text", "blob"} : PageSends(s, kind)
       \/ PageOpens(s) \/ PageCloses(s) \/ PageHears(s)
       \/ Opens(s) \/ Refuses(s) \/ BridgeSends(s) \/ BridgeCloses(s) \/ BlobConverts(s)
       \/ FallbackFires(s) \/ RelayHears(s) \/ HostHears(s) \/ HostSpeaks(s)
  \/ ReRegisters \/ PortDrops

\* Both ports deliver, the worker handles what is delivered, its timer fires.
SocketsFairness ==
  \A s \in Socks :
    /\ WF_socketVars(PageHears(s)) /\ WF_socketVars(Opens(s) \/ Refuses(s))
    /\ WF_socketVars(BridgeSends(s)) /\ WF_socketVars(BridgeCloses(s)) /\ WF_socketVars(FallbackFires(s))

SocketsSpec == SocketsInit /\ [][SocketsNext]_socketVars
FairSocketsSpec == SocketsSpec /\ SocketsFairness

-----------------------------------------------------------------------------
(* Properties *)

\* how many messages of q are of the kinds S
Occurring(q, S) == Cardinality({i \in DOMAIN q : q[i] \in S})

\* Types.
SocketsTypeOK ==
  /\ page \in [Socks -> [st: Unborn..Closed, owed: 0..MaxSends, closes: Nat]]
  /\ toWorker \in [Socks -> Seq({"wsOpen", "text", "blob", "close"})]
  /\ toPage \in [Socks -> Seq({"open", "message", "drain", "error", "close"})]
  /\ onWire \in [Socks -> Seq({"wsRelay", "text", "blob", "wsClose"})]
  /\ back \in [Socks -> Seq({"wsOpen", "wsData", "wsClose", "wsError"})]
  /\ bridge \in [Socks -> {"none", "conn", "ready"}]
  /\ conn \in [Socks -> {"none", "conn", "open", "closing"}]
  /\ blobs \in [Socks -> Nat] /\ sends \in [Socks -> 0..MaxSends]

\* The echo, the fallback timer, a host's own close or error, an abnormal end and
\* a sweep race for one socket: its page is told of one close, and nothing of the
\* socket stays behind but a close handshake that its timer ends.
ClosedOnce ==
  \A s \in Socks :
    /\ page[s].closes + Occurring(toPage[s], {"close"}) <= 1
    /\ bridge[s] = "none" => conn[s] \in {"none", "closing"}

\* Nothing follows a close frame on the wire, however late a payload's conversion
\* ends, and nothing precedes the open.
WireEndsWithClose ==
  \A s \in Socks : \A i \in DOMAIN onWire[s] :
    /\ onWire[s][i] = "wsClose" => i = Len(onWire[s])
    /\ (onWire[s][i] = "wsRelay") = (i = 1)

\* While a socket is open its bufferedAmount is what has not been accepted or not
\* been acknowledged yet: a drain is neither lost nor counted twice.
BufferedIsOwed ==
  \A s \in Socks : page[s].st = Open /\ bridge[s] = "ready" =>
    page[s].owed = Occurring(toWorker[s], {"text", "blob"}) + Occurring(toPage[s], {"drain"})

\* A socket ends once, its wire ends with its close frame, and meanwhile the
\* page's count of unsent bytes is right.
SocketEndsOnce == ClosedOnce /\ WireEndsWithClose /\ BufferedIsOwed

\* A closing socket reaches its close event though no host answers.
CloseEnds == \A s \in Socks : page[s].st = Closing ~> page[s].st = Closed
=============================================================================
