------------------------------ MODULE CurlStream ------------------------------
(***************************************************************************)
(* One request over a libcurl session (libcurl-transport-vendored.ts): the *)
(* replaced stream_response, which turns the callbacks of the wasm into an *)
(* answer and its body, and libcurlRequest, which gives a request that     *)
(* must not be repeated a session of its own.                              *)
(*                                                                         *)
(* The wasm delivers header text, chunks and one end; it delivers nothing  *)
(* for a request that was removed.  Chunks are numbered.                   *)
(***************************************************************************)
EXTENDS Naturals, Sequences

CONSTANTS
  MaxChunks,   \* bound: chunks of a body
  Hwm          \* highWaterMark of the body's queue, in chunks

\* method; the final status, 204 and 304 being "bodiless"; the framing that the header
\* block declares; the chunks that the server sends
Answers ==
  {a \in [method : {"GET", "HEAD", "POST"}, status : {"plain", "bodiless"},
          framing : {"length", "chunked", "close", "zero"}, size : 0..MaxChunks] :
     /\ a.framing = "zero" => a.size = 0
     /\ a.method = "HEAD" \/ a.status = "bodiless" => a.size = 0}

None == "none"

VARIABLES
  answer,  \* what the server answers
  head,    \* the header text so far: "none", "interim", "status", "framed", "whole"
  sent,    \* chunks delivered
  t,       \* the transfer: see Init
  reader,  \* "reading", "done", "failed", "cancelled"
  got,     \* the chunks that it has
  session  \* of a request with a session of its own: times it was closed

vars == <<answer, head, sent, t, reader, got, session>>

Init ==
  /\ answer \in Answers /\ head = "none" /\ sent = 0
  /\ t = [promise |-> "pending", body |-> "none", received |-> FALSE, aborted |-> FALSE,
          stream |-> "open", queue |-> <<>>, pending |-> <<>>,
          removed |-> FALSE, cancels |-> 0, error |-> None]
  /\ reader = "reading" /\ got = <<>> /\ session = 0

POOLED_IDEMPOTENT == {"GET", "HEAD"}
Fresh == answer.method \notin POOLED_IDEMPOTENT
\* request_async leaves its method with the session for this call alone.
ReqMethod == answer.method
Bodiless == answer.status = "bodiless" \/ ReqMethod = "HEAD"

\* What end_callback is told: curl's 0, 56, any other code, and -1 of who gives up.
Ok == "ok"
RecvError == "recv"
OtherError == "other"
Cancelled == "cancelled"

(* ---- the pieces of stream_response ---- *)

\* headers_callback resolves the request, unless no response can be made of the status;
\* statuses without a body get none, whatever they were given.
Constructible == head \in {"status", "framed", "whole"}
Resolved(x, body) ==
  IF Constructible /\ x.promise = "pending"
  THEN [x EXCEPT !.promise = "resolved",
                 !.body = IF answer.status = "bodiless" THEN "null" ELSE body]
  ELSE x

\* end_callback removes the request and rejects it if it was not resolved.
Finished(x, error) ==
  [x EXCEPT !.removed = TRUE, !.error = error,
            !.cancels = IF error = Cancelled THEN @ + 1 ELSE @,
            !.promise = IF @ = "pending" THEN "rejected" ELSE @]

Room(x) == IF Len(x.queue) < Hwm THEN Hwm - Len(x.queue) ELSE 0
FlushPending(x, all) ==
  LET n == IF all \/ Len(x.pending) < Room(x) THEN Len(x.pending) ELSE Room(x)
  IN IF x.stream # "open" THEN [x EXCEPT !.pending = <<>>]
     ELSE [x EXCEPT !.queue = @ \o SubSeq(x.pending, 1, n),
                    !.pending = SubSeq(@, n + 1, Len(@))]

\* closing a stream keeps what is queued, an error drops it; neither does anything to one
\* that has ended
CloseStream(x) ==
  IF x.stream # "open" THEN x
  ELSE [x EXCEPT !.stream = IF x.queue = <<>> THEN "closed" ELSE "closing"]
ErrorStream(x) ==
  IF x.stream \in {"closed", "errored"} THEN x
  ELSE [x EXCEPT !.stream = "errored", !.queue = <<>>]

\* What the header text says of the framing, complete or not.
AnyFraming == TRUE \* mutant: a cut body passes for a whole one
CloseDelimited == head \in {"framed", "whole"} => answer.framing \in {"close", "zero"}

RealEnd(x, error) ==
  LET salvaged == ~x.received /\ error = RecvError /\ CloseDelimited
      first == IF salvaged \/ (~x.received /\ error = Ok)
               THEN [Resolved(x, "stream") EXCEPT !.received = TRUE] ELSE x
  IN Finished(IF first.received /\ error # Ok /\ ~(error = RecvError /\ CloseDelimited)
              THEN ErrorStream(first)
              ELSE CloseStream(FlushPending(first, TRUE)), error)

\* A request with a session of its own closes it where it was rejected or has no body.
Step(x) ==
  /\ t' = x
  /\ session' =
       IF Fresh /\ t.promise = "pending"
            /\ (x.promise = "rejected" \/ (x.promise = "resolved" /\ x.body = "null"))
       THEN session + 1 ELSE session

(* ---- what the wasm does ---- *)

Wasm == ~t.removed /\ UNCHANGED <<answer, reader, got>>

\* A block that is not the last: an interim answer.
Interim ==
  /\ Wasm /\ head = "none" /\ head' = "interim"
  /\ UNCHANGED <<sent, t, session>>

\* The last block arrives in any pieces.
HeaderPiece ==
  /\ Wasm
  /\ \/ head \in {"none", "interim"} /\ head' = "status"
     \/ head = "status" /\ head' = "framed"
  /\ UNCHANGED <<sent, t, session>>

\* collect_header_text: with the last block complete, an answer that ends at its headers
\* is handed out at once.
Surfaces == Bodiless
HeaderText ==
  /\ Wasm /\ head = "framed" /\ head' = "whole"
  /\ Step(IF Surfaces
          THEN [Resolved(t, "null") EXCEPT !.received = TRUE, !.stream = "closed"]
          ELSE t)
  /\ UNCHANGED sent

\* real_data_callback: a chunk is parked behind others and while the queue is full.
Full(x) == x.pending # <<>> \/ x.stream # "open" \/ Room(x) = 0
Data ==
  /\ Wasm /\ head = "whole" /\ sent < answer.size /\ sent' = sent + 1
  /\ LET x == IF t.received THEN t ELSE [Resolved(t, "stream") EXCEPT !.received = TRUE]
     IN Step(IF Full(x) THEN [x EXCEPT !.pending = Append(@, sent + 1)]
             ELSE [x EXCEPT !.queue = Append(@, sent + 1)])
  /\ UNCHANGED head

\* The end: curl sees a framed body come to its end, or takes the peer's close for an
\* error; either ends a body that only the close delimits, and may cut any other short.
Complete == head = "whole" /\ sent = answer.size
End ==
  /\ Wasm
  /\ \/ Complete /\ ~(Bodiless /\ answer.framing = "length") /\ Step(RealEnd(t, Ok))
     \/ \E error \in {RecvError, OtherError} : Step(RealEnd(t, error))
  /\ UNCHANGED <<head, sent>>

(* ---- the caller ---- *)

\* The signal: an abort after the end still counts as one.
Abort ==
  /\ ~t.aborted
  /\ LET x == [t EXCEPT !.aborted = TRUE]
     IN Step(RealEnd(IF x.received THEN ErrorStream(x) ELSE x, Cancelled))
  /\ UNCHANGED <<answer, head, sent, reader, got>>

\* Who has the body: a read that leaves room pulls what is parked.
Reading == t.promise = "resolved" /\ t.body = "stream" /\ reader = "reading"
Pull(x) == IF x.stream = "open" THEN FlushPending(x, FALSE) ELSE x
Read ==
  /\ Reading /\ t.queue # <<>> /\ got' = Append(got, Head(t.queue))
  /\ t' = LET x == [t EXCEPT !.queue = Tail(@)]
          IN IF x.stream = "closing" /\ x.queue = <<>> THEN [x EXCEPT !.stream = "closed"]
             ELSE Pull(x)
  /\ UNCHANGED <<answer, head, sent, reader, session>>

\* The session of its own is closed with the end of the body, its error or its cancel.
SettleSession == session' = IF Fresh THEN session + 1 ELSE session
SeesEnd ==
  /\ Reading /\ t.queue = <<>>
  /\ \/ t.stream = "closed" /\ reader' = "done"
     \/ t.stream = "errored" /\ reader' = "failed"
  /\ SettleSession /\ UNCHANGED <<answer, head, sent, t, got>>

\* cancel(): the transfer is given up, unless it was or the stream has ended.
Cancel ==
  /\ Reading /\ reader' = "cancelled" /\ SettleSession
  /\ t' = IF t.stream \in {"closed", "errored"} THEN t
          ELSE LET x == [t EXCEPT !.stream = "closed", !.queue = <<>>]
               IN IF x.aborted THEN x
                  ELSE Finished([x EXCEPT !.aborted = TRUE, !.pending = <<>>], Cancelled)
  /\ UNCHANGED <<answer, head, sent, got>>

Next ==
  Interim \/ HeaderPiece \/ HeaderText \/ Data \/ End \/ Abort \/ Read \/ SeesEnd \/ Cancel

Spec == Init /\ [][Next]_vars

--------------------------------------------------------------------------------

\* #180, #347: a body that its reader saw end is the whole body: every chunk, in order,
\* to the end that its framing declares.  A body that only the close of the connection
\* delimits may be cut by it, and so may a header block before its framing is told.
EndsByClose == answer.framing \in {"close", "zero"} \/ head \in {"none", "interim", "status"}
WholeBodies ==
  reader = "done" =>
    /\ got = [i \in 1..sent |-> i]
    /\ sent = answer.size \/ EndsByClose

\* While the transfer lives no chunk is lost or overtaken: the reader's, the queued and the
\* parked ones are those delivered, and chunks are parked only behind a full queue.
ChunksInOrder ==
  t.stream \in {"open", "closing"} => got \o t.queue \o t.pending = [i \in 1..sent |-> i]
ParkedBehindFull == t.stream = "open" /\ t.pending # <<>> => Len(t.queue) >= Hwm

\* #92, #96: an answer that ends at its headers is handed out with them, while the
\* connection stays open.
BodilessAtOnce == head = "whole" /\ Bodiless => t.promise # "pending"

\* #348: a transfer is given up once at most, by a cancel or by an abort, and a request
\* that has ended is settled.
GivenUpOnce == t.cancels <= 1
EndedIsSettled == t.removed => t.promise # "pending"

\* #454: a session of its own is closed once, when its request was rejected, has no body or
\* its reader is through with it, and no sooner.
SessionFollowsBody ==
  LET settled == \/ t.promise = "rejected"
                 \/ t.promise = "resolved" /\ (t.body = "null" \/ reader # "reading")
  IN session = IF Fresh /\ settled THEN 1 ELSE 0

\* A body that was seen to end is whole and in order, an answer without a body waits for
\* nothing, and a transfer and its session end once and with the body.
TransferIsSound ==
  /\ WholeBodies /\ ChunksInOrder /\ ParkedBehindFull /\ BodilessAtOnce
  /\ GivenUpOnce /\ EndedIsSettled /\ SessionFollowsBody
================================================================================
