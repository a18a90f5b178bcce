----------------------------- MODULE MCEmbedder -----------------------------
(***************************************************************************)
(* The traffic over the embedder's port, for TLC: the stream of a relayed  *)
(* fetch, a read and a write that share one channel, and relayed sockets.  *)
(* A behaviour explores one of them, chosen initially.                     *)
(***************************************************************************)
EXTENDS Relay, WsRelay, TLC

CONSTANTS f1, f2, p1, p2, s1    \* two fetches, two ports and a socket

VARIABLES part,
          pairPort, pairAlive, pairBackoff, pairPc, pairRes, pairOn, pairWaiters, pairQueue,
          pairTerminal, pairProbe, pairDown, pairUp, pairHost, pairBalance, pairSent, pairFree, pairUpstream

pairVars == <<pairPort, pairAlive, pairBackoff, pairPc, pairRes, pairOn, pairWaiters, pairQueue,
              pairTerminal, pairProbe, pairDown, pairUp, pairHost, pairBalance, pairSent,
              pairFree, pairUpstream>>

\* the sets that the instances take fetches and ports from
Both == {f1, f2}
JustF1 == {f1}
Neither == {}
FirstPort == {p1}
TwoPorts == {p1, p2}
OneSocket == {s1}

\* a read that may fall back and a write that may not, answered without a body
Pair == INSTANCE Relay WITH
  hostPort <- pairPort, alive <- pairAlive, backoff <- pairBackoff, pc <- pairPc, res <- pairRes,
  port <- pairOn, waiters <- pairWaiters, queue <- pairQueue, terminal <- pairTerminal,
  probe <- pairProbe, down <- pairDown, up <- pairUp, host <- pairHost,
  balance <- pairBalance, sent <- pairSent, free <- pairFree, upstream <- pairUpstream,
  Fetches <- Both, Ports <- FirstPort, Crediting <- Neither, Safe <- JustF1,
  Streamed <- Neither, Credit <- 1, FrameLimit <- 1, MaxChunks <- 0

EmbedderInit ==
  part \in {"fetch", "pair", "sockets"} /\ Init /\ Pair!Init /\ SocketsInit

EmbedderNext ==
  \/ part = "fetch" /\ Next /\ UNCHANGED <<part, pairVars, socketVars>>
  \/ part = "pair" /\ Pair!Next /\ UNCHANGED <<part, vars, socketVars>>
  \/ part = "sockets" /\ SocketsNext /\ UNCHANGED <<part, vars, pairVars>>

EmbedderSpec ==
  /\ EmbedderInit /\ [][EmbedderNext]_<<part, vars, pairVars, socketVars>>
  /\ Fairness /\ SocketsFairness

\* The types of the parts, with the bound on a fetch's unread frames.
EmbedderTypeOK == TypeOK /\ Pair!TypeOK /\ SocketsTypeOK

\* Relay: of a read and a write that share a channel, neither falls back to direct
\* egress after the embedder may have delivered it, but a read that may.  With the types.
PairFallsBackUndelivered == EmbedderTypeOK /\ Pair!FallbackIsUndelivered
=============================================================================
