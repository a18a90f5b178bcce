------------------------------ MODULE WispServer ------------------------------
(***************************************************************************)
(* The wisp server, crates/zeolite-server/src/lib.rs, in two halves that   *)
(* share no state.                                                         *)
(*                                                                         *)
(* Admission is how a connection comes to be served and leaves: the        *)
(* upgrade handler, the reservation of a connection slot, the handshake    *)
(* with its authentication (crates/wisp-core/src/handshake.rs), the        *)
(* penalty for failed attempts, and the guard that gives the slot back.    *)
(* Handlers run on many threads: each action is one atomic operation on    *)
(* the shared counters, or the code between two awaits.                    *)
(*                                                                         *)
(* The streams are the session loop of each connection, the relay task of  *)
(* each stream, and the counters they share across threads (the bytes      *)
(* queued server-wide and the open streams).  A session modelled here has  *)
(* finished its handshake.  A relay is one spawned task.  Its pc names the *)
(* await it is at, or the point between two of its shared-memory           *)
(* operations where another thread may run: "wrote" and "flushed" are the  *)
(* points after a finished write and before its discharge, "half" the one  *)
(* between the two subtractions of a discharge.  Aborting a task stops it  *)
(* at an await and nowhere else.  Data is counted in chunks: one chunk is  *)
(* one DATA frame and one unit of every byte cap.                          *)
(***************************************************************************)
EXTENDS Integers, FiniteSets

-------------------------------------------------------------------------------
(* Admission *)

CONSTANTS
  Conns,               \* connection attempts under way at one time
  Ips,                 \* addresses of clients
  Methods,             \* authentication extensions: password, key
  MaxConnections,      \* max_connections
  MaxPerIp,            \* max_connections_per_ip, 0 for no limit
  AuthFailThreshold    \* AUTH_FAIL_THRESHOLD

ASSUME AdmissionAssumption ==
  /\ IsFiniteSet(Conns) /\ Ips # {}
  /\ MaxConnections \in Nat /\ MaxPerIp \in Nat /\ AuthFailThreshold \in Nat \ {0}

VARIABLES
  required,  \* the methods the deployment configures
  conn,      \* where each connection is, from which addresses, in which version
  active,    \* Shared::active
  perIp,     \* Shared::per_ip
  fails      \* Shared::auth_penalty: failed attempts, counted up to the threshold

vars == <<required, conn, active, perIp, fails>>

\* "counted" and "handBack" lie inside reserve_slot, "uncounted" inside the
\* guard's drop.
Phases == {"out", "upgrading", "counted", "handBack", "start", "shake", "serving",
           "leaving", "uncounted"}
HoldsSlot == {"counted", "handBack", "start", "shake", "serving", "leaving"}
HoldsIp == {"start", "shake", "serving", "leaving", "uncounted"}

Outside == LET i == CHOOSE i \in Ips : TRUE IN
  [phase |-> "out", ip |-> i, peer |-> i, v2 |-> FALSE, verified |-> FALSE]

Init ==
  /\ required \in SUBSET Methods
  /\ conn = [c \in Conns |-> Outside]
  /\ active = 0
  /\ perIp = [i \in Ips |-> 0]
  /\ fails = [i \in Ips |-> 0]

At(c, phase) == conn[c].phase = phase
Moves(c, phase) == conn' = [conn EXCEPT ![c].phase = phase]
Leaves(c) == conn' = [conn EXCEPT ![c] = Outside]
counters == <<active, perIp>>

-----------------------------------------------------------------------------
(* The upgrade *)

IpFull(i) == MaxPerIp > 0 /\ perIp[i] >= MaxPerIp

\* wisp_handler: the soft checks, whose refusals change nothing.  Behind a
\* trusted proxy the forwarded address is not the peer's.
Upgrade(c, ip, peer, v2) ==
  /\ At(c, "out")
  /\ active < MaxConnections
  /\ ~IpFull(ip)
  /\ conn' = [conn EXCEPT ![c] = [phase |-> "upgrading", ip |-> ip, peer |-> peer,
                                  v2 |-> v2, verified |-> FALSE]]
  /\ UNCHANGED <<required, counters, fails>>

UpgradeFails(c) ==
  /\ At(c, "upgrading")
  /\ Leaves(c)
  /\ UNCHANGED <<required, counters, fails>>

\* reserve_slot: the global slot, in one compare and exchange ...

TakeSlot(c) ==
  /\ At(c, "upgrading")
  /\ IF active >= MaxConnections
     THEN Leaves(c) /\ UNCHANGED active
     ELSE Moves(c, "counted") /\ active' = active + 1
  /\ UNCHANGED <<required, perIp, fails>>

\* ... then the address, under its lock ...
TakeIp(c) ==
  /\ At(c, "counted")
  /\ LET i == conn[c].ip IN
       IF IpFull(i)
       THEN Moves(c, "handBack") /\ UNCHANGED perIp
       ELSE Moves(c, "start") /\ perIp' = [perIp EXCEPT ![i] = @ + 1]
  /\ UNCHANGED <<required, active, fails>>

\* ... and the global slot back when the address has too many.
HandBackNothing(c) ==
  /\ At(c, "handBack")
  /\ Leaves(c)
  /\ UNCHANGED <<required, active, perIp, fails>>

HandBack(c) ==
  /\ At(c, "handBack")
  /\ Leaves(c)
  /\ active' = active - 1
  /\ UNCHANGED <<required, perIp, fails>>

-----------------------------------------------------------------------------
(* The handshake.  Each way out leads to the guard's drop.                 *)

\* auth_refused: a peer at the threshold is boxed for a while.
Boxed(c) ==
  /\ At(c, "start")
  /\ fails[conn[c].peer] = AuthFailThreshold
  /\ Moves(c, "leaving")
  /\ UNCHANGED <<required, counters, fails>>

AuthFail(c) ==
  fails' = [fails EXCEPT ![conn[c].peer] = IF @ < AuthFailThreshold THEN @ + 1 ELSE @]
AuthOk(c) == fails' = [fails EXCEPT ![conn[c].peer] = 0]

StartV2(c) ==
  /\ At(c, "start") /\ conn[c].v2
  /\ Moves(c, "shake")
  /\ UNCHANGED <<required, counters, fails>>

\* v1 has no handshake and cannot authenticate.
StartV1(c) ==
  /\ At(c, "start") /\ ~conn[c].v2
  /\ IF required # {}
     THEN Moves(c, "leaving") /\ AuthFail(c)
     ELSE Moves(c, "serving") /\ UNCHANGED fails
  /\ UNCHANGED <<required, counters>>

\* check_auth: the client's INFO must offer every required method, correctly.
Verifies(offer) == \A m \in required : offer[m] = "good"

Info(c, offer) ==
  /\ At(c, "shake")
  /\ IF Verifies(offer)
     THEN /\ conn' = [conn EXCEPT ![c].phase = "serving", ![c].verified = required # {}]
          /\ AuthOk(c)
     ELSE Moves(c, "leaving") /\ AuthFail(c)
  /\ UNCHANGED <<required, counters>>

Continue(c) ==
  /\ At(c, "shake")
  /\ IF required # {} /\ ~conn[c].verified
     THEN Moves(c, "leaving") /\ AuthFail(c)
     ELSE Moves(c, "serving") /\ AuthOk(c)
  /\ UNCHANGED <<required, counters>>

\* Timeout, malformed or foreign packets, another major version.
ShakeFails(c) ==
  /\ At(c, "shake")
  /\ Moves(c, "leaving")
  /\ UNCHANGED <<required, counters, fails>>

SessionEnds(c) ==
  /\ At(c, "serving")
  /\ Moves(c, "leaving")
  /\ UNCHANGED <<required, counters, fails>>

\* ConnGuard::drop: the global slot, then the address.
DropSlot(c) ==
  /\ At(c, "leaving")
  /\ Moves(c, "uncounted")
  /\ active' = active - 1
  /\ UNCHANGED <<required, perIp, fails>>

DropIp(c) ==
  /\ At(c, "uncounted")
  /\ Leaves(c)
  /\ perIp' = [perIp EXCEPT ![conn[c].ip] = @ - 1]
  /\ UNCHANGED <<required, active, fails>>

Step(c) ==
  \/ \E ip, peer \in Ips, v2 \in BOOLEAN : Upgrade(c, ip, peer, v2)
  \/ UpgradeFails(c) \/ TakeSlot(c) \/ TakeIp(c) \/ HandBack(c)
  \/ Boxed(c) \/ StartV1(c) \/ StartV2(c)
  \/ \E offer \in [Methods -> {"none", "good", "bad"}] : Info(c, offer)
  \/ Continue(c) \/ ShakeFails(c) \/ SessionEnds(c)
  \/ DropSlot(c) \/ DropIp(c)

Next == \E c \in Conns : Step(c)
Spec == Init /\ [][Next]_vars

-----------------------------------------------------------------------------
(* Properties *)

\* Types, and both caps: concurrent upgrades never overshoot them.
TypeOK ==
  /\ required \subseteq Methods
  /\ conn \in [Conns -> [phase: Phases, ip: Ips, peer: Ips, v2: BOOLEAN, verified: BOOLEAN]]
  /\ active \in 0..MaxConnections
  /\ perIp \in [Ips -> Nat]
  /\ MaxPerIp > 0 => \A i \in Ips : perIp[i] <= MaxPerIp
  /\ fails \in [Ips -> 0..AuthFailThreshold]

InPhase(P) == {c \in Conns : conn[c].phase \in P}
OfIp(i) == {c \in Conns : conn[c].phase \in HoldsIp /\ conn[c].ip = i}

\* Both counts are exact whatever path each connection took: one leaked slot
\* is lost for the server's lifetime, one returned twice lifts the limit.
ConnCountsExact ==
  /\ active = Cardinality(InPhase(HoldsSlot))
  /\ \A i \in Ips : perIp[i] = Cardinality(OfIp(i))

\* The counts, with the types and both caps.
AdmissionIsExact == TypeOK /\ ConnCountsExact

\* No connection is served unverified when the deployment requires it.
ServedIsVerified ==
  \A c \in Conns : At(c, "serving") /\ required # {} => conn[c].verified

-------------------------------------------------------------------------------
(* The streams *)

CONSTANTS
  Sessions,        \* the websocket connections
  Ids,             \* stream ids
  Relays,          \* relay tasks that exist at one time
  Kinds,           \* the kinds of stream the clients open
  Credit,          \* INITIAL_BUFFER_SIZE
  InputSlots,      \* the slots of a stream's input channel (64)
  StreamBytes,     \* STREAM_QUEUE_BYTES
  ServerBytes,     \* SERVER_QUEUE_BYTES
  PrebufferBytes,  \* what connect_with_drain buffers (128 KiB)
  MaxPerConn,      \* max_streams_per_conn
  MaxOpen,         \* MAX_OPEN_STREAMS
  WsSlots          \* the slots of the channel to the websocket (128)

ASSUME StreamsAssumption ==
  /\ IsFiniteSet(Sessions) /\ Sessions # {} /\ Ids # {} /\ IsFiniteSet(Relays)
  /\ Kinds \subseteq {"tcp", "udp"}
  /\ Credit \in Nat /\ InputSlots \in Nat /\ StreamBytes \in Nat /\ ServerBytes \in Nat
  /\ PrebufferBytes \in Nat /\ MaxOpen \in Nat /\ WsSlots \in Nat

VARIABLES
  sess,          \* what each session loop is doing
  relay,         \* the relay tasks and the session's entry for each
  serverQueued,  \* Shared::server_queued
  liveStreams,   \* Shared::live_streams
  wsq,           \* messages in each connection's outgoing channel
  pump           \* is the task that empties the channel alive

streamVars == <<sess, relay, serverQueued, liveStreams, wsq, pump>>

-----------------------------------------------------------------------------
(* State *)

Awaits == {"connect", "ack", "flush", "starved", "regrant", "select", "send",
           "drain", "write", "grant", "udp", "udpSend", "udpData", "close"}
BeforeDischarge == {"flushed", "wrote", "drained", "udpDrop"}
HalfDischarged == {"half", "flushHalf", "drainHalf"}
RelayPcs == Awaits \union BeforeDischarge \union HalfDischarged \union {"none", "done"}

HalfBuffer == Credit \div 2

RelayState ==
  [pc: RelayPcs, conn: Sessions, id: Ids, kind: {"tcp", "udp"}, listed: BOOLEAN,
   input: 0..InputSlots, pre: 0..PrebufferBytes, queued: 0..StreamBytes,
   credits: 0..Credit, consumed: 0..HalfBuffer,
   reason: {"", "Voluntary", "NetworkError", "Throttled"},
   broke: BOOLEAN]

\* No task.  `broke` remembers that an upstream operation failed.
Free == [pc |-> "none", conn |-> CHOOSE c \in Sessions : TRUE, id |-> CHOOSE i \in Ids : TRUE,
         kind |-> "tcp", listed |-> FALSE, input |-> 0, pre |-> 0, queued |-> 0,
         credits |-> 0, consumed |-> 0, reason |-> "", broke |-> FALSE]

StreamsInit ==
  /\ sess \in [Sessions -> [mode: {"open"}, at: {"loop"}, v2: BOOLEAN]]
  /\ relay = [r \in Relays |-> Free]
  /\ serverQueued = 0
  /\ liveStreams = 0
  /\ wsq = [c \in Sessions |-> 0]
  /\ pump = [c \in Sessions |-> TRUE]

-----------------------------------------------------------------------------
(* Shared counters *)

\* Subtract n, never below zero.
SubClamped(v, n) == IF n > v THEN 0 ELSE v - n

\* Account one chunk of stream r: both caps hold, or nothing changes.
Charges(r) == relay[r].queued + 1 <= StreamBytes /\ serverQueued + 1 <= ServerBytes

\* A chunk reached its socket: the stream's half of a discharge.
Discharged(x) == [x EXCEPT !.queued = SubClamped(@, 1)]

\* The discharge also counts the frame towards the next CONTINUE.
\* Only whether the count has reached half the buffer is ever asked.
GrantDue(x) == x.consumed >= HalfBuffer
Consumed(x) == [x EXCEPT !.consumed = IF GrantDue(x) THEN @ ELSE @ + 1]

\* What the streams of R are charged for, chunk by chunk.
Units(R) == {u \in R \X (1..StreamBytes) : u[2] <= relay[u[1]].queued}
QueuedBy(R) == Cardinality(Units(R))

\* The relay after its entry is dropped: settled, and gone unless it is
\* between two awaits, where abort() does not reach it and what is left of a
\* discharge still happens.
Ended(x) ==
  CASE x.pc \in BeforeDischarge -> [Free EXCEPT !.pc = "wrote"]
    [] x.pc \in HalfDischarged -> [Free EXCEPT !.pc = "half"]
    [] OTHER -> Free

Settled(R) == SubClamped(serverQueued, QueuedBy(R))

\* Mutant: one slot is released whatever is closed.
CloseReleasesOne(R) ==
  /\ relay' = [r \in Relays |-> IF r \in R THEN Ended(relay[r]) ELSE relay[r]]
  /\ serverQueued' = Settled(R)
  /\ liveStreams' = SubClamped(liveStreams, 1)

\* Drop the entries of R: settle, release the slot, abort.
Close(R) ==
  /\ relay' = [r \in Relays |-> IF r \in R THEN Ended(relay[r]) ELSE relay[r]]
  /\ serverQueued' = Settled(R)
  /\ liveStreams' = SubClamped(liveStreams, Cardinality(R))

Entries(c) == {r \in Relays : relay[r].listed /\ relay[r].conn = c}
Entry(c, i) == {r \in Entries(c) : relay[r].id = i}
Finished(c) == {r \in Entries(c) : relay[r].pc = "done"}

-----------------------------------------------------------------------------
(* The channel to the websocket *)

\* A send completes: there is room, or the receiver is gone and it fails.
Room(c) == wsq[c] < WsSlots \/ ~pump[c]
Push(c) == wsq' = [wsq EXCEPT ![c] = IF pump[c] THEN @ + 1 ELSE @]

\* The client reads a message.
Pump(c) ==
  /\ pump[c] /\ wsq[c] > 0
  /\ wsq' = [wsq EXCEPT ![c] = @ - 1]
  /\ UNCHANGED <<sess, relay, serverQueued, liveStreams, pump>>

\* Writing to the websocket fails: the channel's receiver is dropped.
PumpBreaks(c) ==
  /\ pump[c]
  /\ pump' = [pump EXCEPT ![c] = FALSE]
  /\ wsq' = [wsq EXCEPT ![c] = 0]
  /\ UNCHANGED <<sess, relay, serverQueued, liveStreams>>

-----------------------------------------------------------------------------
(* The session loop.  It takes one packet at a time and never awaits a     *)
(* stream; it may await room in the outgoing channel to send a Close.      *)

AtLoop(c) == sess[c].mode # "gone" /\ sess[c].at = "loop"
Goes(c, at) == sess' = [sess EXCEPT ![c].at = at]
wsVars == <<wsq, pump>>

\* CONNECT: finished relays are reaped first; then the refusals in the
\* code's order; then the relay is spawned and entered.
ConnectRefused(c, i) ==
  LET kept == Entries(c) \ Finished(c) IN
  \/ sess[c].mode = "drain" /\ Goes(c, "reply")
  \/ /\ sess[c].mode = "open"
     /\ Entry(c, i) \ Finished(c) # {}
     /\ UNCHANGED sess
  \/ /\ sess[c].mode = "open"
     /\ Entry(c, i) \ Finished(c) = {}
     /\ Cardinality(kept) >= MaxPerConn
     /\ Goes(c, "reply")

ConnectThrottled(c, i) ==
  /\ AtLoop(c)
  /\ ConnectRefused(c, i)
  /\ Close(Finished(c))
  /\ UNCHANGED wsVars

Acceptable(c, i) ==
  /\ sess[c].mode = "open"
  /\ Entry(c, i) \ Finished(c) = {}
  /\ Cardinality(Entries(c) \ Finished(c)) < MaxPerConn

Spawned(c, i, kind) == [Free EXCEPT !.pc = "connect", !.conn = c, !.id = i,
                                    !.kind = kind, !.listed = TRUE]

\* reserve_stream_slot succeeds.  One that fails has counted itself for a
\* moment, in which other sessions may be refused too.
Connect(c, i, kind) ==
  /\ AtLoop(c)
  /\ Acceptable(c, i)
  /\ liveStreams - Cardinality(Finished(c)) < MaxOpen
  /\ \E r \in Relays :
       /\ relay[r].pc = "none" \/ r \in Finished(c)
       /\ relay' = [q \in Relays |-> CASE q = r -> Spawned(c, i, kind)
                                       [] q \in Finished(c) \ {r} -> Free
                                       [] OTHER -> relay[q]]
  /\ serverQueued' = Settled(Finished(c))
  /\ liveStreams' = SubClamped(liveStreams, Cardinality(Finished(c))) + 1
  /\ UNCHANGED <<sess, wsVars>>

ConnectOverCap(c, i) ==
  /\ AtLoop(c)
  /\ Acceptable(c, i)
  /\ liveStreams - Cardinality(Finished(c)) >= MaxOpen
  /\ relay' = [r \in Relays |-> IF r \in Finished(c) THEN Free ELSE relay[r]]
  /\ serverQueued' = Settled(Finished(c))
  /\ liveStreams' = SubClamped(liveStreams, Cardinality(Finished(c))) + 1
  /\ Goes(c, "rollback")
  /\ UNCHANGED wsVars

RollBack(c) ==
  /\ sess[c].mode # "gone" /\ sess[c].at = "rollback"
  /\ liveStreams' = liveStreams - 1
  /\ Goes(c, "reply")
  /\ UNCHANGED <<relay, serverQueued, wsVars>>

\* DATA: charge, then one try_send.  A stream over a cap or with a full
\* channel is closed; a channel whose relay has finished keeps the charge.
Data(c, i) ==
  /\ AtLoop(c)
  /\ \E r \in Entry(c, i) :
       /\ Charges(r)
       /\ relay[r].pc = "done" \/ relay[r].input < InputSlots
       /\ relay' = [relay EXCEPT ![r].queued = @ + 1,
                                 ![r].input = IF relay[r].pc = "done" THEN @ ELSE @ + 1]
       /\ serverQueued' = serverQueued + 1
  /\ UNCHANGED <<sess, liveStreams, wsVars>>

\* The charge of a chunk that found the channel full is settled with the rest.
DataThrottled(c, i) ==
  /\ AtLoop(c)
  /\ \E r \in Entry(c, i) :
       /\ ~Charges(r) \/ (relay[r].pc # "done" /\ relay[r].input = InputSlots)
       /\ Close({r})
  /\ Goes(c, "reply")
  /\ UNCHANGED wsVars

\* CONTINUE of a client: the window is what it says, not an addition.
ClientGrants(c, i, n) ==
  /\ AtLoop(c)
  /\ sess[c].v2
  /\ \E r \in Entry(c, i) :
       /\ relay[r].kind = "tcp" /\ relay[r].pc \notin {"close", "done"}
       /\ relay' = [relay EXCEPT ![r].credits = n]
  /\ UNCHANGED <<sess, serverQueued, liveStreams, wsVars>>

\* CLOSE of one stream: echoed when there was an unfinished one.
ClientCloses(c, i) ==
  /\ AtLoop(c)
  /\ Close(Finished(c) \union Entry(c, i))
  /\ IF Entry(c, i) \ Finished(c) # {} THEN Goes(c, "reply") ELSE UNCHANGED sess
  /\ UNCHANGED wsVars

\* The 5 s sweep: reap, then close what is idle or over its UDP budget.
Sweep(c, K) ==
  /\ AtLoop(c)
  /\ K \subseteq Entries(c)
  /\ Close(Finished(c) \union K)
  /\ UNCHANGED <<sess, wsVars>>

\* The queued Close is accepted by the channel.
Reply(c) ==
  /\ sess[c].mode # "gone" /\ sess[c].at = "reply"
  /\ Room(c)
  /\ Push(c)
  /\ Goes(c, "loop")
  /\ UNCHANGED <<relay, serverQueued, liveStreams, pump>>

\* The connection has lasted max_conn_duration.
Deadline(c) ==
  /\ AtLoop(c)
  /\ sess[c].mode = "open"
  /\ sess' = [sess EXCEPT ![c].mode = "drain"]
  /\ UNCHANGED <<relay, serverQueued, liveStreams, wsVars>>

\* Drained, or past the grace: the whole connection is closed Throttled.
DrainEnds(c) ==
  /\ AtLoop(c)
  /\ sess[c].mode = "drain"
  /\ Goes(c, "bye")
  /\ UNCHANGED <<relay, serverQueued, liveStreams, wsVars>>

Teardown(c) ==
  /\ Close(Entries(c))
  /\ sess' = [sess EXCEPT ![c].mode = "gone", ![c].at = "loop"]

\* The client goes away, closes stream 0 or breaks the protocol.
SessionIsOver(c) ==
  /\ AtLoop(c)
  /\ Teardown(c)
  /\ UNCHANGED wsVars

SaysBye(c) ==
  /\ sess[c].mode # "gone" /\ sess[c].at = "bye"
  /\ Room(c)
  /\ Push(c)
  /\ Teardown(c)
  /\ UNCHANGED pump

Session(c) ==
  \/ \E i \in Ids : \/ ConnectThrottled(c, i) \/ ConnectOverCap(c, i)
                    \/ \E k \in Kinds : Connect(c, i, k)
                    \/ Data(c, i) \/ DataThrottled(c, i)
                    \/ \E n \in 0..Credit : ClientGrants(c, i, n)
                    \/ ClientCloses(c, i)
  \/ \E K \in SUBSET Relays : Sweep(c, K)
  \/ RollBack(c) \/ Reply(c) \/ Deadline(c) \/ DrainEnds(c) \/ SaysBye(c) \/ SessionIsOver(c)

-----------------------------------------------------------------------------
(* The relay task *)

shared == <<sess, serverQueued, liveStreams, pump>>
Becomes(r, x) == relay' = [relay EXCEPT ![r] = x]
Waits(r, pc) == relay[r].pc = pc
RelayGoes(r, pc) == Becomes(r, [relay[r] EXCEPT !.pc = pc])

\* Past its loop a relay has only its Close to send; nothing looks at its
\* window or its pre-connect buffer again.
Over(x, reason, broke) ==
  [x EXCEPT !.pc = "close", !.reason = reason, !.broke = broke,
            !.credits = 0, !.consumed = 0, !.pre = 0]
Ends(r, reason) == Becomes(r, Over(relay[r], reason, FALSE))
Breaks(r, reason) == Becomes(r, Over(relay[r], reason, TRUE))

\* Only a v2 client grants windows.
Flows(x) == sess[x.conn].v2

\* The top of tcp_relay_loop: wait for a window, grant one, or select.
Top(x) ==
  CASE Flows(x) /\ x.credits = 0 -> [x EXCEPT !.pc = "starved"]
    [] Flows(x) /\ x.credits > 0 /\ GrantDue(x) ->
         [x EXCEPT !.pc = "regrant", !.consumed = 0]
    [] OTHER -> [x EXCEPT !.pc = "select"]

\* connect_with_drain: early data is buffered up to its cap.
Buffer(r) ==
  /\ Waits(r, "connect") /\ relay[r].kind = "tcp" /\ relay[r].input > 0
  /\ relay[r].pre < PrebufferBytes
  /\ Becomes(r, [relay[r] EXCEPT !.input = @ - 1, !.pre = @ + 1])
  /\ UNCHANGED <<shared, wsq>>

Flooded(r) ==
  /\ Waits(r, "connect") /\ relay[r].kind = "tcp" /\ relay[r].input > 0
  /\ relay[r].pre = PrebufferBytes
  /\ Becomes(r, Over([relay[r] EXCEPT !.input = @ - 1], "Throttled", FALSE))
  /\ UNCHANGED <<shared, wsq>>

\* connect_validated and udp_dest_validated end by their deadline.
Connected(r) ==
  /\ Waits(r, "connect")
  /\ RelayGoes(r, IF relay[r].kind = "tcp" THEN "ack" ELSE "udp")
  /\ UNCHANGED <<shared, wsq>>

ConnectFails(r) ==
  /\ Waits(r, "connect")
  /\ Breaks(r, "NetworkError")
  /\ UNCHANGED <<shared, wsq>>

\* The CONTINUE that acknowledges the CONNECT.
Ack(r) ==
  /\ Waits(r, "ack")
  /\ Room(relay[r].conn) /\ Push(relay[r].conn)
  /\ RelayGoes(r, "flush")
  /\ UNCHANGED shared

\* One write of the flush; there is no deadline on it.
FlushWrites(r) ==
  /\ Waits(r, "flush") /\ relay[r].pre > 0
  /\ Becomes(r, [relay[r] EXCEPT !.pre = @ - 1, !.pc = "flushed"])
  /\ UNCHANGED <<shared, wsq>>

FlushFails(r) ==
  /\ Waits(r, "flush") /\ relay[r].pre > 0
  /\ Breaks(r, "NetworkError")
  /\ UNCHANGED <<shared, wsq>>

FlushDone(r) ==
  /\ Waits(r, "flush") /\ relay[r].pre = 0
  /\ Becomes(r, Top(relay[r]))
  /\ UNCHANGED <<shared, wsq>>

\* Out of credits: the loop still takes its input.
Credited(r) ==
  /\ Waits(r, "starved") /\ relay[r].credits > 0
  /\ Becomes(r, Top(relay[r]))
  /\ UNCHANGED <<shared, wsq>>

Takes(r, from, to) ==
  /\ Waits(r, from) /\ relay[r].input > 0
  /\ Becomes(r, [relay[r] EXCEPT !.input = @ - 1, !.pc = to])
  /\ UNCHANGED <<shared, wsq>>

\* Mutant: a starved relay takes nothing.
StarvedOnlyWaits(r) == FALSE
StarvedTakes(r) == Takes(r, "starved", "drain")
SelectTakes(r) == Takes(r, "select", "write")

\* The write ends before its deadline.
Written(r) ==
  /\ relay[r].pc \in {"write", "drain"}
  /\ RelayGoes(r, IF Waits(r, "write") THEN "wrote" ELSE "drained")
  /\ UNCHANGED <<shared, wsq>>

\* It fails or times out.  The wait for credits only reports that the relay
\* is over, and the loop then ends as on EOF.
WriteFails(r) ==
  /\ Waits(r, "write")
  /\ Breaks(r, "NetworkError")
  /\ UNCHANGED <<shared, wsq>>

DrainWriteFails(r) ==
  /\ Waits(r, "drain")
  /\ Breaks(r, "Voluntary")
  /\ UNCHANGED <<shared, wsq>>

\* discharge(), first half.
DischargeStream(r) ==
  /\ relay[r].pc \in BeforeDischarge
  /\ Becomes(r, [Discharged(relay[r]) EXCEPT
       !.pc = CASE Waits(r, "flushed") -> "flushHalf" [] Waits(r, "drained") -> "drainHalf"
                [] OTHER -> "half"])
  /\ UNCHANGED <<shared, wsq>>

\* After the second half: on to the next await, where an aborted task stops.
AfterDischarge(x, pc) ==
  LET y == Consumed(x) IN
  CASE ~x.listed -> Free
    [] x.listed /\ x.kind = "udp" -> [y EXCEPT !.pc = "udp"]
    [] x.listed /\ x.kind = "tcp" /\ pc = "flushHalf" -> [y EXCEPT !.pc = "flush"]
    [] x.listed /\ x.kind = "tcp" /\ pc = "drainHalf" -> Top(y)
    [] x.listed /\ x.kind = "tcp" /\ pc = "half" ->
         IF Flows(y) /\ GrantDue(y) THEN [y EXCEPT !.pc = "grant", !.consumed = 0]
         ELSE Top(y)

DischargeServer(r) ==
  /\ relay[r].pc \in HalfDischarged
  /\ Becomes(r, AfterDischarge(relay[r], relay[r].pc))
  /\ serverQueued' = SubClamped(serverQueued, 1)
  /\ UNCHANGED <<sess, liveStreams, pump, wsq>>

\* The CONTINUE for the frames consumed, at either of its two places.
Grant(r) ==
  /\ relay[r].pc \in {"grant", "regrant"}
  /\ Room(relay[r].conn) /\ Push(relay[r].conn)
  /\ Becomes(r, IF Waits(r, "regrant") THEN [relay[r] EXCEPT !.pc = "select"]
                ELSE Top(relay[r]))
  /\ UNCHANGED shared

\* The other arm of select: the upstream socket.
Reads(r) ==
  /\ relay[r].pc \in {"select", "udp"}
  /\ RelayGoes(r, IF Waits(r, "select") THEN "send" ELSE "udpData")
  /\ UNCHANGED <<shared, wsq>>

ReadEof(r) ==
  /\ Waits(r, "select")
  /\ Ends(r, "Voluntary")
  /\ UNCHANGED <<shared, wsq>>

ReadFails(r) ==
  /\ relay[r].pc \in {"select", "udp"}
  /\ Breaks(r, IF Waits(r, "select") THEN "NetworkError" ELSE "Voluntary")
  /\ UNCHANGED <<shared, wsq>>

\* DATA to the client costs a credit; without a channel the relay is over.
Sends(r) ==
  /\ relay[r].pc \in {"send", "udpData"}
  /\ Room(relay[r].conn) /\ Push(relay[r].conn)
  /\ Becomes(r, CASE ~pump[relay[r].conn] ->
                       Over(relay[r], "Voluntary", FALSE)
                  [] pump[relay[r].conn] /\ Waits(r, "udpData") -> [relay[r] EXCEPT !.pc = "udp"]
                  [] OTHER -> Top([relay[r] EXCEPT
                       !.credits = IF Flows(relay[r]) /\ @ > 0 THEN @ - 1 ELSE @]))
  /\ UNCHANGED shared

\* UDP: a datagram is sent, dropped over the budget with its charge handed
\* back, or lost to a refused destination, which keeps its charge.
UdpTakes(r) == Takes(r, "udp", "udpSend")

UdpSent(r) ==
  /\ Waits(r, "udpSend")
  /\ RelayGoes(r, "udpDrop")
  /\ UNCHANGED <<shared, wsq>>

UdpRefused(r) ==
  /\ Waits(r, "udpSend")
  /\ RelayGoes(r, "udp")
  /\ UNCHANGED <<shared, wsq>>

UdpFails(r) ==
  /\ Waits(r, "udpSend")
  /\ Breaks(r, "Voluntary")
  /\ UNCHANGED <<shared, wsq>>

\* The Close of the relay itself; its task is then finished.
Closes(r) ==
  /\ Waits(r, "close")
  /\ Room(relay[r].conn) /\ Push(relay[r].conn)
  /\ Becomes(r, [relay[r] EXCEPT !.pc = "done", !.input = 0, !.reason = "", !.broke = FALSE])
  /\ UNCHANGED shared

\* The awaits that end by themselves: on a deadline of the code, or because
\* another part of the server goes on.
Prompt(r) ==
  \/ Connected(r) \/ ConnectFails(r) \/ Ack(r) \/ FlushDone(r) \/ Credited(r)
  \/ Written(r) \/ WriteFails(r) \/ DrainWriteFails(r)
  \/ DischargeStream(r) \/ DischargeServer(r) \/ Grant(r) \/ Sends(r)
  \/ UdpSent(r) \/ UdpRefused(r) \/ UdpFails(r) \/ Closes(r)

Takings(r) == Buffer(r) \/ Flooded(r) \/ StarvedTakes(r) \/ SelectTakes(r) \/ UdpTakes(r)
Flushing(r) == FlushWrites(r) \/ FlushFails(r)
Upstream(r) == Reads(r) \/ ReadEof(r) \/ ReadFails(r)

StreamsNext ==
  \/ \E c \in Sessions : Pump(c) \/ PumpBreaks(c) \/ Session(c)
  \/ \E r \in Relays : Prompt(r) \/ Takings(r) \/ Flushing(r) \/ Upstream(r)

StreamsSpec == StreamsInit /\ [][StreamsNext]_streamVars

\* select! polls its arms in random order.  A stuck flush is closed by the
\* idle sweep.  The client keeps reading or its websocket breaks.
Fairness ==
  /\ \A c \in Sessions : WF_streamVars(Pump(c) \/ PumpBreaks(c)) /\ SF_streamVars(Reply(c) \/ RollBack(c))
  /\ \A r \in Relays :
       /\ SF_streamVars(Prompt(r))
       /\ SF_streamVars(Takings(r))
       /\ WF_streamVars(Flushing(r) \/ \E c \in Sessions : r \in Entries(c) /\ Sweep(c, {r}))

FairStreamsSpec == StreamsSpec /\ Fairness

-----------------------------------------------------------------------------
(* Properties *)

\* Types, and the caps: a stream's queue, the server's queue, the input and
\* outgoing channels.
StreamsTypeOK ==
  /\ sess \in [Sessions -> [mode: {"open", "drain", "gone"},
                         at: {"loop", "rollback", "reply", "bye"}, v2: BOOLEAN]]
  /\ relay \in [Relays -> RelayState]
  /\ serverQueued \in 0..ServerBytes
  /\ liveStreams \in 0..(MaxOpen + Cardinality(Sessions))
  /\ wsq \in [Sessions -> 0..WsSlots]
  /\ pump \in [Sessions -> BOOLEAN]

\* The count of open streams is exact: one for each entry of a session and
\* for each reservation that is being rolled back.  A slot that is lost on one
\* of the ways a stream ends would in time refuse every CONNECT.
StreamSlotsExact ==
  liveStreams = Cardinality({r \in Relays : relay[r].listed})
                + Cardinality({c \in Sessions : sess[c].at = "rollback"})

\* The bytes a relay holds.
Held(x) ==
  x.input + x.pre
  + (IF x.pc \in {"write", "drain", "udpSend"} \union BeforeDischarge THEN 1 ELSE 0)

\* Queued bytes are charged for as long as they are held, in the pre-connect
\* buffer and during a write too; and a TCP stream in service is charged for
\* nothing else, so that a long upload does not run into its cap.
HeldBytesAreCharged ==
  \A r \in Relays : relay[r].listed =>
    /\ Held(relay[r]) <= relay[r].queued
    /\ (relay[r].kind = "tcp" /\ relay[r].pc \notin {"close", "done"})
          => relay[r].queued = Held(relay[r])

\* The server-wide count never exceeds what the open streams are charged
\* for, whatever thread settles and whatever thread discharges: when the
\* streams have ended it is zero, and no DATA is refused for bytes that are gone.
ServerQueueIsOwed ==
  serverQueued <= QueuedBy({r \in Relays : relay[r].listed})
                  + Cardinality({r \in Relays : relay[r].pc \in HalfDischarged})

\* The accounts of the streams, with the types and the caps.
StreamAccountsExact ==
  StreamsTypeOK /\ StreamSlotsExact /\ HeldBytesAreCharged /\ ServerQueueIsOwed

\* A relay that has a chunk waiting takes it or ends, also when its client has
\* granted it no window.
InputIsTaken ==
  \A r \in Relays :
    relay[r].input > 0 ~> relay[r].pc \in {"none", "connect", "drain", "write", "udpSend", "close", "done"}

\* Voluntary is the reason of a normal end only.
VoluntaryIsEofOnly ==
  \A r \in Relays : relay[r].kind = "tcp" /\ relay[r].reason = "Voluntary" => ~relay[r].broke
===============================================================================
