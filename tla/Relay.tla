--------------------------------- MODULE Relay ---------------------------------
(***************************************************************************)
(* The embedder relay of relayfetch.ts: the registered port, the bounded   *)
(* wait for a re-registration, and each relayed fetch from its frame to    *)
(* the embedder to the end of its body stream, with abort, header          *)
(* deadline, stale-channel probe, byte credits and the bounded queue.      *)
(*                                                                         *)
(* A port is one registration by one host page; postMessage on the port of *)
(* a dead page succeeds silently.  The embedder is external: it serves     *)
(* what relayfetch.ts expects it to serve, and may also send one frame     *)
(* that breaks the protocol.  Chunks are of one size, the unit that bytes  *)
(* and credit are counted in, or empty; the queue is bounded in bytes and  *)
(* in frames.                                                              *)
(***************************************************************************)
EXTENDS Naturals, Sequences, FiniteSets

CONSTANTS
  Fetches,
  Ports,        \* registrations, each by a page of its own
  Crediting,    \* the ports whose embedder understands byte credits
  Safe,         \* the fetches with an idempotent method (mayFallback)
  Streamed,     \* the fetches whose body cannot ride the port
  Credit,       \* RELAY_CREDIT_BYTES, in chunks
  FrameLimit,   \* the frames of one fetch that may wait unread: 4096
  MaxChunks     \* bound: chunks of one response

ASSUME CreditAssumption == Credit \in Nat \ {0} /\ FrameLimit \in Nat \ {0} /\ MaxChunks \in Nat
ASSUME SetsAssumption == Crediting \subseteq Ports /\ Safe \subseteq Fetches
ASSUME NoneAssumption == "none" \notin Ports

None == "none"

VARIABLES
  hostPort,
  alive,       \* the ports whose host page is alive
  backoff,     \* reRegisterBackoffUntil lies ahead
  pc,          \* asking and parked: requestRelayReRegister; awaiting: the first frame
  res,         \* how relayFetch, or then its body stream, ended
  port,        \* the port it was sent on
  waiters,     \* the fetches that port frames are routed to
  queue,       \* frames received and not yet read
  terminal,    \* why the queue was closed: no, bytes, frames or bad
  probe,       \* the stale-channel probe: armed, looking, sawNone, over or dead
  down, up,    \* frames of a fetch on their way to the embedder and back
  host,        \* the embedder's side of a fetch
  balance,     \* credit the embedder holds for it
  sent,        \* chunks it has sent, empty ones too
  free,        \* frames it has posted after the head, or instead, that cost no credit
  upstream     \* it has sent the request to the destination

channel == <<hostPort, alive, backoff>>
link    == <<down, up>>
remote  == <<host, balance, sent, free, upstream>>
vars == <<hostPort, alive, backoff, pc, res, port, waiters, queue, terminal, probe, down, up,
          host, balance, sent, free, upstream>>

Init ==
  /\ hostPort = None /\ alive = {} /\ backoff = FALSE
  /\ pc = [f \in Fetches |-> "idle"]
  /\ res = [f \in Fetches |-> "none"]
  /\ port = [f \in Fetches |-> None]
  /\ waiters = {}
  /\ queue = [f \in Fetches |-> <<>>]
  /\ terminal = [f \in Fetches |-> "no"]
  /\ probe = [f \in Fetches |-> "armed"]
  /\ down = [f \in Fetches |-> <<>>] /\ up = [f \in Fetches |-> <<>>]
  /\ host = [f \in Fetches |-> "none"]
  /\ balance = [f \in Fetches |-> 0]
  /\ sent = [f \in Fetches |-> 0]
  /\ free = [f \in Fetches |-> 0]
  /\ upstream = [f \in Fetches |-> FALSE]

--------------------------------------------------------------------------------
(* Registration. *)

\* relayRegister: the newest port wins and wakes the parked fetches; a port is
\* registered once, by a page that is alive
Register(p) ==
  /\ p \notin alive /\ hostPort # p /\ \A f \in Fetches : port[f] # p
  /\ hostPort' = p /\ alive' = alive \cup {p}
  /\ pc' = [f \in Fetches |-> IF pc[f] = "parked" THEN "go" ELSE pc[f]]
  /\ UNCHANGED <<backoff, res, port, waiters, queue, terminal, probe, link, remote>>

\* the page goes away; its port stays registered
PageDies(p) ==
  /\ p \in alive /\ alive' = alive \ {p}
  /\ UNCHANGED <<hostPort, backoff, pc, res, port, waiters, queue, terminal, probe, link, remote>>

\* requestRelayReRegister: no wait with a port or inside the backoff
Begin(f) ==
  /\ pc[f] = "idle"
  /\ pc' = [pc EXCEPT ![f] = IF hostPort # None \/ backoff THEN "go" ELSE "asking"]
  /\ UNCHANGED <<channel, res, port, waiters, queue, terminal, probe, link, remote>>

\* the window clients are listed and told; only now does the fetch park
Asked(f) ==
  /\ pc[f] = "asking"
  /\ pc' = [pc EXCEPT ![f] = "parked"]
  /\ UNCHANGED <<channel, res, port, waiters, queue, terminal, probe, link, remote>>

ParkDeadline(f) ==
  /\ pc[f] = "parked"
  /\ pc' = [pc EXCEPT ![f] = "go"]
  /\ backoff' = (backoff \/ hostPort = None)
  /\ UNCHANGED <<hostPort, alive, res, port, waiters, queue, terminal, probe, link, remote>>

BackoffEnds ==
  /\ backoff /\ backoff' = FALSE
  /\ UNCHANGED <<hostPort, alive, pc, res, port, waiters, queue, terminal, probe, link, remote>>

--------------------------------------------------------------------------------
(* A relayed fetch. *)

End(f, r) == pc' = [pc EXCEPT ![f] = "ended"] /\ res' = [res EXCEPT ![f] = r]

\* Mutant: every method falls back.
AfterDispatchAnyMethod(f) == "null"

\* failedAfterDispatch: only an idempotent method falls back
AfterDispatch(f) == IF f \in Safe THEN "null" ELSE "unknown"

Cleanup(f) == waiters' = waiters \ {f} /\ queue' = [queue EXCEPT ![f] = <<>>]
Tell(f, m) == down' = [down EXCEPT ![f] = Append(@, m)]

\* without a channel, or with a body the port cannot carry: null at once
NotCarried(f) ==
  /\ pc[f] = "go" /\ (hostPort = None \/ f \in Streamed)
  /\ End(f, "null")
  /\ UNCHANGED <<channel, port, waiters, queue, terminal, probe, link, remote>>

Send(f) ==
  /\ pc[f] = "go" /\ hostPort # None /\ f \notin Streamed
  /\ pc' = [pc EXCEPT ![f] = "awaiting"]
  /\ port' = [port EXCEPT ![f] = hostPort]
  /\ waiters' = waiters \cup {f}
  /\ down' = [down EXCEPT ![f] = IF hostPort \in Crediting THEN <<"fetch", "grant">> ELSE <<"fetch">>]
  /\ UNCHANGED <<channel, res, queue, terminal, probe, up, remote>>

\* posting the frame throws: the dispatch is on record as attempted
SendThrows(f) ==
  /\ pc[f] = "go" /\ hostPort # None /\ f \notin Streamed
  /\ End(f, AfterDispatch(f))
  /\ UNCHANGED <<channel, port, waiters, queue, terminal, probe, link, remote>>

\* the first frame decides what the caller gets
FirstFrame(f, m) ==
  \/ /\ m = "head"
     /\ pc' = [pc EXCEPT ![f] = "streaming"]
     /\ UNCHANGED <<res, waiters, queue, down>>
  \/ /\ m = "head"                             \* a HEAD or a null-body status
     /\ End(f, "complete") /\ Cleanup(f) /\ Tell(f, "cancel")
  \/ /\ m = "refused"                          \* evidence from before the dispatch
     /\ End(f, "null") /\ Cleanup(f) /\ UNCHANGED down
  \/ /\ m = "error"
     /\ End(f, AfterDispatch(f)) /\ Cleanup(f) /\ UNCHANGED down
  \/ /\ m \in {"bad", "stray", "chunk", "empty", "end"}
     /\ End(f, AfterDispatch(f)) /\ Cleanup(f) /\ Tell(f, "cancel")

Units(q) == Cardinality({i \in 1..Len(q) : q[i] = "chunk"})
\* Mutant: the limit counts one grant, and is inclusive.
OverOneGrant(q, m) == Units(q) + (IF m = "chunk" THEN 1 ELSE 0) >= Credit

\* queuedBytes with this frame against twice the grant
OverBytes(q, m) == Units(q) + (IF m = "chunk" THEN 1 ELSE 0) > 2 * Credit

\* why a frame closes the queue, if it does; any other frame is queued
CutBy(q, m) ==
  IF m = "bad" THEN "bad"                      \* a chunk without bytes to it
  ELSE IF OverBytes(q, m) THEN "bytes"
  ELSE IF Len(q) >= FrameLimit THEN "frames" ELSE "no"

\* the queue is closed: its frames are replaced by one error
CloseQueue(f, why) ==
  /\ terminal' = [terminal EXCEPT ![f] = why]
  /\ waiters' = waiters \ {f}
  /\ queue' = [queue EXCEPT ![f] = <<"error">>]
  /\ Tell(f, "cancel")

\* a frame arrives on the port; one that nobody waits for is dropped
Frame(f) ==
  /\ up[f] # <<>>
  /\ up' = [up EXCEPT ![f] = Tail(@)]
  /\ LET m == Head(up[f]) IN
       \/ /\ f \notin waiters
          /\ UNCHANGED <<pc, res, waiters, queue, terminal, down>>
       \/ /\ f \in waiters /\ pc[f] = "awaiting"
          /\ FirstFrame(f, m) /\ UNCHANGED terminal
       \/ /\ f \in waiters /\ pc[f] = "streaming"
          /\ UNCHANGED <<pc, res>>
          /\ IF CutBy(queue[f], m) # "no"
               THEN CloseQueue(f, CutBy(queue[f], m))
               ELSE /\ queue' = [queue EXCEPT ![f] = Append(@, m)]
                    /\ UNCHANGED <<waiters, terminal, down>>
  /\ UNCHANGED <<channel, port, probe, remote>>

\* how the body stream ends on a frame that is not a chunk: a frame of another kind
\* in mid-stream is a fault that the embedder is not told of
Ending(m) == IF m = "end" THEN "complete" ELSE IF m = "stray" THEN "fault" ELSE "error"

\* the stream is pulled: a chunk is passed on and its bytes granted back, by a post of
\* plain numbers that cannot throw (an empty chunk gives back nothing)
Pull(f) ==
  /\ pc[f] = "streaming" /\ queue[f] # <<>>
  /\ LET m == Head(queue[f]) IN
       \/ /\ m \in {"chunk", "empty"}
          /\ queue' = [queue EXCEPT ![f] = Tail(@)]
          /\ IF m = "chunk" /\ port[f] \in Crediting THEN Tell(f, "credit") ELSE UNCHANGED down
          /\ UNCHANGED <<pc, res, waiters>>
       \/ /\ m \notin {"chunk", "empty"}
          /\ End(f, Ending(m)) /\ Cleanup(f) /\ UNCHANGED down
  /\ UNCHANGED <<channel, port, terminal, probe, up, remote>>

\* the caller aborts, or the consumer cancels the body
Abort(f) ==
  /\ pc[f] \in {"awaiting", "streaming"}
  /\ End(f, "aborted") /\ Cleanup(f) /\ Tell(f, "cancel")
  /\ UNCHANGED <<channel, port, terminal, probe, up, remote>>

\* Mutant: the deadline forgets to cancel the embedder's fetch.
HeaderDeadlineSilent(f) ==
  /\ pc[f] = "awaiting"
  /\ End(f, AfterDispatch(f)) /\ Cleanup(f)
  /\ UNCHANGED <<channel, port, terminal, probe, link, remote>>

\* no first frame within the header deadline
HeaderDeadline(f) ==
  /\ pc[f] = "awaiting"
  /\ End(f, AfterDispatch(f)) /\ Cleanup(f) /\ Tell(f, "cancel")
  /\ UNCHANGED <<channel, port, terminal, probe, up, remote>>

--------------------------------------------------------------------------------
(* The stale-channel probe of a fetch that still awaits its first frame. *)

ProbeFires(f) ==
  /\ pc[f] = "awaiting" /\ probe[f] = "armed"
  /\ probe' = [probe EXCEPT ![f] = IF hostPort # None /\ hostPort # port[f] THEN "over" ELSE "looking"]
  /\ UNCHANGED <<channel, pc, res, port, waiters, queue, terminal, link, remote>>

\* anyHostClientAlive: a lookup that fails or takes too long reads as alive
ProbeLooks(f) ==
  /\ probe[f] = "looking"
  /\ \E seen \in {"over"} \cup (IF alive = {} THEN {"sawNone"} ELSE {}) :
       probe' = [probe EXCEPT ![f] = seen]
  /\ UNCHANGED <<channel, pc, res, port, waiters, queue, terminal, link, remote>>

\* Mutant: the probe does not look again for a newer registration.
DropsAnyPort(f) == hostPort # None

\* no host page: drop the port this fetch rode, and fall back if still awaiting
DropsPort(f) == hostPort = port[f]

ProbeConcludes(f) ==
  /\ probe[f] = "sawNone"
  /\ IF DropsPort(f)
       THEN /\ probe' = [probe EXCEPT ![f] = "dead"]
            /\ hostPort' = None
            /\ IF pc[f] = "awaiting" THEN End(f, AfterDispatch(f)) /\ Cleanup(f)
                                     ELSE UNCHANGED <<pc, res, waiters, queue>>
       ELSE /\ probe' = [probe EXCEPT ![f] = IF hostPort = None THEN "dead" ELSE "over"]
            /\ UNCHANGED <<hostPort, pc, res, waiters, queue>>
  /\ UNCHANGED <<alive, backoff, port, terminal, link, remote>>

--------------------------------------------------------------------------------
(* The embedder (external). *)

Serves(f) == port[f] \in alive /\ host[f] \in {"serving", "answering"}
Post(f, m) == up' = [up EXCEPT ![f] = Append(@, m)]
PostFree(f, m) == Post(f, m) /\ free' = [free EXCEPT ![f] = @ + 1]

HostReceives(f) ==
  /\ down[f] # <<>> /\ port[f] \in alive
  /\ down' = [down EXCEPT ![f] = Tail(@)]
  /\ LET m == Head(down[f]) IN
       /\ host' = [host EXCEPT ![f] = IF m = "fetch" THEN "serving"
                                      ELSE IF m = "cancel" THEN "over" ELSE @]
       /\ balance' = [balance EXCEPT ![f] = @ + (IF m = "grant" THEN Credit
                                                  ELSE IF m = "credit" THEN 1 ELSE 0)]
  /\ UNCHANGED <<channel, pc, res, port, waiters, queue, terminal, probe, up, sent, free, upstream>>

HostForwards(f) ==
  /\ Serves(f) /\ ~upstream[f]
  /\ upstream' = [upstream EXCEPT ![f] = TRUE]
  /\ UNCHANGED <<channel, pc, res, port, waiters, queue, terminal, probe, link, host, balance, sent, free>>

HostRefuses(f) ==
  /\ Serves(f) /\ ~upstream[f]
  /\ PostFree(f, "refused") /\ host' = [host EXCEPT ![f] = "over"]
  /\ UNCHANGED <<channel, pc, res, port, waiters, queue, terminal, probe, down, balance, sent, upstream>>

HostAnswers(f) ==
  /\ Serves(f) /\ host[f] = "serving" /\ upstream[f]
  /\ Post(f, "head") /\ host' = [host EXCEPT ![f] = "answering"]
  /\ UNCHANGED <<channel, pc, res, port, waiters, queue, terminal, probe, down, balance, sent,
                 free, upstream>>

\* a chunk, which costs credit, or an empty one, which does not
HostSends(f) ==
  /\ Serves(f) /\ host[f] = "answering" /\ sent[f] < MaxChunks
  /\ \/ /\ port[f] \in Crediting => balance[f] > 0
        /\ Post(f, "chunk")
        /\ balance' = [balance EXCEPT ![f] = IF port[f] \in Crediting THEN @ - 1 ELSE @]
        /\ UNCHANGED free
     \/ PostFree(f, "empty") /\ UNCHANGED balance
  /\ sent' = [sent EXCEPT ![f] = @ + 1]
  /\ UNCHANGED <<channel, pc, res, port, waiters, queue, terminal, probe, down, host, upstream>>

HostEnds(f) ==
  /\ Serves(f)
  /\ \E m \in {"error"} \cup (IF host[f] = "answering" THEN {"end"} ELSE {}) : PostFree(f, m)
  /\ host' = [host EXCEPT ![f] = "over"]
  /\ UNCHANGED <<channel, pc, res, port, waiters, queue, terminal, probe, down, balance, sent, upstream>>

\* an invalid frame, or in mid-stream one of another kind (a second head), from an
\* embedder that goes on serving
HostBreaksProtocol(f) ==
  /\ Serves(f) /\ sent[f] < MaxChunks
  /\ \E m \in {"bad"} \cup (IF host[f] = "answering" THEN {"stray"} ELSE {}) : PostFree(f, m)
  /\ sent' = [sent EXCEPT ![f] = MaxChunks]
  /\ UNCHANGED <<channel, pc, res, port, waiters, queue, terminal, probe, down, host, balance, upstream>>

Embedder(f) ==
  \/ HostReceives(f) \/ HostForwards(f) \/ HostRefuses(f) \/ HostAnswers(f)
  \/ HostSends(f) \/ HostEnds(f) \/ HostBreaksProtocol(f)

--------------------------------------------------------------------------------
Worker(f) ==
  \/ Begin(f) \/ Asked(f) \/ ParkDeadline(f) \/ NotCarried(f) \/ Send(f) \/ SendThrows(f)
  \/ Frame(f) \/ Pull(f) \/ Abort(f) \/ HeaderDeadline(f)
  \/ ProbeFires(f) \/ ProbeLooks(f) \/ ProbeConcludes(f)

Next ==
  \/ \E f \in Fetches : Worker(f) \/ Embedder(f)
  \/ \E p \in Ports : Register(p) \/ PageDies(p)
  \/ BackoffEnds

Spec == Init /\ [][Next]_vars

\* a live page handles the frames of its port; timers fire and frames arrive
Fairness ==
  \A f \in Fetches :
    /\ WF_vars(HostReceives(f))
    /\ WF_vars(ParkDeadline(f)) /\ WF_vars(Asked(f))
    /\ WF_vars(NotCarried(f) \/ Send(f) \/ SendThrows(f))
    /\ WF_vars(HeaderDeadline(f))

FairSpec == Spec /\ Fairness

--------------------------------------------------------------------------------
(* Properties. *)

\* Types, the bounds on the received and unread frames of one fetch in bytes and in
\* number (relayfetch.ts queue limit), and that no embedder ever holds more than one
\* grant of credit.
TypeOK ==
  /\ hostPort \in Ports \cup {None} /\ alive \subseteq Ports /\ backoff \in BOOLEAN
  /\ pc \in [Fetches -> {"idle", "asking", "parked", "go", "awaiting", "streaming", "ended"}]
  /\ res \in [Fetches -> {"none", "null", "unknown", "aborted", "error", "fault", "complete"}]
  /\ port \in [Fetches -> Ports \cup {None}]
  /\ waiters \subseteq Fetches
  /\ terminal \in [Fetches -> {"no", "bytes", "frames", "bad"}]
  /\ probe \in [Fetches -> {"armed", "looking", "sawNone", "over", "dead"}]
  /\ \A f \in Fetches : Len(queue[f]) <= FrameLimit /\ Units(queue[f]) <= 2 * Credit
  /\ balance \in [Fetches -> 0..Credit]

\* A null result lets the caller send the request again, so a write ends null only
\* when the embedder has not sent it to the destination and never will.
FallbackIsUndelivered ==
  \A f \in Fetches \ Safe :
    res[f] = "null" => ~upstream[f] /\ ~Serves(f) /\ \A i \in 1..Len(down[f]) : down[f][i] # "fetch"

\* An embedder that paces its chunks by the credit it holds is never cut off by the
\* limit on bytes, however slowly the stream is read; and by the limit on frames only
\* if the chunks of one grant and the frames that cost no credit are more than that
\* limit: with 2 MiB and 4096 frames, when it sends chunks of 512 bytes or fewer, empty
\* chunks or stray frames.  Credit does pace the bytes, and does not pace the frames.
PacedNeverCutOff ==
  \A f \in Fetches : port[f] \in Crediting =>
    /\ terminal[f] # "bytes"
    /\ terminal[f] = "frames" => Credit + free[f] > FrameLimit

\* A waiter lives as long as its fetch or body stream and no longer: no exit path
\* leaks one and none loses a live one (relayPendingCount).
WaitersAreLive ==
  waiters = {f \in Fetches : pc[f] \in {"awaiting", "streaming"} /\ terminal[f] = "no"}

\* A paced stream is not cut off for its bytes, nor abandoned by the worker.
StreamIsKept == PacedNeverCutOff /\ WaitersAreLive

\* The probe never drops the channel of a page that is alive, whatever registers
\* while it looks.
LiveChannelKept == [][hostPort # None /\ hostPort' = None => hostPort \notin alive]_vars

\* #145: an embedder does not go on serving a fetch that has ended: it hears of every
\* abort, deadline, refused first frame and closed queue, unless its page is gone.  The
\* one exit left out is a body stream that ends on a frame of another kind: the worker
\* drops the fetch without a cancel (relayfetch.ts:525-527), and the embedder goes on.
HostReleased ==
  \A f \in Fetches :
    pc[f] = "ended" /\ res[f] # "fault"
      ~> host[f] \notin {"serving", "answering"} \/ port[f] \notin alive

\* #354: a registration wakes the fetch that waits for it: none stays parked while
\* a port is registered.
NoWaitWithPort == \A f \in Fetches : pc[f] = "parked" => hostPort = None
================================================================================
