----------------------------- MODULE BodySpool -----------------------------
(***************************************************************************)
(* What becomes of a streamed request body before the hop chain sends it:  *)
(* replayableInit and spoolTransportCopy of request.ts with the bounded    *)
(* spool of bodyspool.ts.  The spools of concurrent requests share two     *)
(* byte counters and one directory, whose files outlive the worker.        *)
(*                                                                         *)
(* A body is a number of chunks, and every cap counts chunks.  Each action *)
(* is the code between two awaits.                                         *)
(***************************************************************************)
EXTENDS Integers, FiniteSets

CONSTANTS
  Reqs,         \* requests with a stream body; each names its spool file
  MaxSize,      \* the longest body
  ReplayCap,    \* replayBodyCap(), of the memory buffer
  SpoolCap,     \* REPLAY_SPOOL_CAP
  Budget,       \* TOTAL_SPOOL_BUDGET
  CopyBound     \* TRANSPORT_BODY_BOUND

ASSUME SpoolAssumption ==
  /\ IsFiniteSet(Reqs)
  /\ MaxSize \in Nat /\ ReplayCap \in Nat /\ SpoolCap \in Nat /\ Budget \in Nat /\ CopyBound \in Nat

VARIABLES
  upload,        \* where each request is and what it has taken from its stream
  inFlight,   \* inFlightSpooledBytes
  live,       \* liveSpooledBytes
  files,      \* the files of the spool directory
  aged,       \* those last modified longer ago than the sweep age
  victims,    \* what each request's sweep has listed
  removing    \* released spools whose removal is under way

spoolVars == <<upload, inFlight, live, files, aged, victims, removing>>
counters == <<inFlight, live>>
storage == <<files, aged, victims, removing>>

\* "open" to "writable" are the awaits before the first byte is read.
BeforeFirstByte == {"open", "sweep", "create", "writable"}
Writing == {"read", "write", "close", "getFile"}
Over == {"sent", "failed", "killed"}
Pcs == {"idle", "buffer", "spooled", "cleanup"} \union BeforeFirstByte \union Writing \union Over

SpoolInit ==
  /\ upload = [r \in Reqs |-> [pc |-> "idle", length |-> "none", size |-> 0, got |-> 0,
                            reserved |-> 0, as |-> ""]]
  /\ inFlight = 0 /\ live = 0
  /\ files = {} /\ aged = {} /\ removing = {}
  /\ victims = [r \in Reqs |-> {}]

At(r, pc) == upload[r].pc = pc
Moves(r, pc) == upload' = [upload EXCEPT ![r].pc = pc]
Sends(r, as) == upload' = [upload EXCEPT ![r].pc = "sent", ![r].as = as]

-----------------------------------------------------------------------------
(* replayableInit on the hop path *)

\* An announced length over the cap, or none, asks for the spool.
Start(r, length, size, authorized) ==
  /\ At(r, "idle")
  /\ LET next == CASE length = "fits" -> "buffer"
                   [] length # "fits" /\ authorized -> "open"
                   [] length = "none" /\ ~authorized -> "buffer"
                   [] length = "over" /\ ~authorized -> "sent"
     IN upload' = [upload EXCEPT ![r] = [pc |-> next, length |-> length, size |-> size, got |-> 0,
                  reserved |-> 0, as |-> IF next = "sent" THEN "stream" ELSE ""]]
  /\ UNCHANGED <<counters, storage>>

\* The memory buffer.
Buffers(r) ==
  /\ At(r, "buffer")
  /\ IF upload[r].got < upload[r].size
     THEN IF upload[r].got + 1 > ReplayCap THEN Moves(r, "failed")
          ELSE upload' = [upload EXCEPT ![r].got = @ + 1]
     ELSE Sends(r, "buffer")
  /\ UNCHANGED <<counters, storage>>

BufferFails(r) ==
  /\ At(r, "buffer")
  /\ Moves(r, "failed")
  /\ UNCHANGED <<counters, storage>>

-----------------------------------------------------------------------------
(* spoolBody *)

\* Storage fails before a byte is read: the body streams once, or is buffered
\* when no length was announced.  A file that was created is left behind.
Unavailable(r) ==
  /\ upload[r].pc \in BeforeFirstByte \ {"sweep"}
  /\ IF upload[r].length = "over" THEN Sends(r, "stream") ELSE Moves(r, "buffer")
  /\ UNCHANGED <<counters, storage>>

\* sweepOrphans lists the old files, whoever they belong to; a failed listing
\* is swallowed.
SweepLists(r) ==
  /\ At(r, "open")
  /\ \E listed \in {files \intersect aged, {}} : victims' = [victims EXCEPT ![r] = listed]
  /\ Moves(r, "sweep")
  /\ UNCHANGED <<counters, files, aged, removing>>

SweepRemoves(r) ==
  /\ At(r, "sweep")
  /\ IF victims[r] = {} THEN Moves(r, "create") /\ UNCHANGED storage
     ELSE \E v \in victims[r] :
            /\ victims' = [victims EXCEPT ![r] = @ \ {v}]
            /\ files' \in {files, files \ {v}}
            /\ UNCHANGED <<upload, aged, removing>>
  /\ UNCHANGED counters

Creates(r) ==
  /\ At(r, "create")
  /\ files' = files \union {r}
  /\ Moves(r, "writable")
  /\ UNCHANGED <<counters, aged, victims, removing>>

Opens(r) ==
  /\ At(r, "writable")
  /\ Moves(r, "read")
  /\ UNCHANGED <<counters, storage>>

CleansUpLeaks(r) ==
  /\ upload' = [upload EXCEPT ![r].pc = "cleanup", ![r].reserved = 0]
  /\ UNCHANGED inFlight

\* cleanup() up to its first await: the reservation is rolled back.
CleansUp(r) ==
  /\ upload' = [upload EXCEPT ![r].pc = "cleanup", ![r].reserved = 0]
  /\ inFlight' = inFlight - upload[r].reserved

\* A chunk is reserved unless the request's cap or the shared budget refuses it.
OverCap(r) == upload[r].got + 1 > SpoolCap \/ live + inFlight + 1 > Budget

Reads(r) ==
  /\ At(r, "read") /\ upload[r].got < upload[r].size
  /\ IF OverCap(r) THEN CleansUp(r)
     ELSE /\ upload' = [upload EXCEPT ![r].pc = "write", ![r].got = @ + 1, ![r].reserved = @ + 1]
          /\ inFlight' = inFlight + 1
  /\ UNCHANGED <<live, storage>>

\* The stream, the write, the close or getFile() fails.
SpoolFails(r) ==
  /\ upload[r].pc \in Writing
  /\ CleansUp(r)
  /\ UNCHANGED <<live, storage>>

Writes(r) ==
  /\ At(r, "write")
  /\ Moves(r, "read")
  /\ UNCHANGED <<counters, storage>>

ReadEnds(r) ==
  /\ At(r, "read") /\ upload[r].got = upload[r].size
  /\ Moves(r, "close")
  /\ UNCHANGED <<counters, storage>>

WritableCloses(r) ==
  /\ At(r, "close")
  /\ Moves(r, "getFile")
  /\ UNCHANGED <<counters, storage>>

\* The whole stream is on disk: its bytes move from one counter to the other.
Spooled(r) ==
  /\ At(r, "getFile") /\ r \in files
  /\ inFlight' = inFlight - upload[r].got
  /\ live' = live + upload[r].got
  /\ upload' = [upload EXCEPT ![r].pc = "spooled", ![r].reserved = 0]
  /\ UNCHANGED storage

\* The rest of cleanup(); a removal that fails leaves the file to a sweep.
Cleaned(r) ==
  /\ At(r, "cleanup")
  /\ files' \in {files, files \ {r}}
  /\ Moves(r, "failed")
  /\ UNCHANGED <<counters, aged, victims, removing>>

-----------------------------------------------------------------------------
(* The hop path copies the spooled body and releases the spool in any case *)

Release(r) ==
  /\ live' = live - upload[r].got
  /\ removing' = removing \union {r}
  /\ UNCHANGED <<inFlight, files, aged, victims>>

\* The file was swept under the copy, or the body is over the bound.
CopyFails(r) ==
  /\ At(r, "spooled")
  /\ r \notin files \/ upload[r].got > CopyBound
  /\ Moves(r, "failed")
  /\ Release(r)

Copies(r) ==
  /\ At(r, "spooled")
  /\ r \in files /\ upload[r].got <= CopyBound
  /\ Sends(r, "copy")
  /\ Release(r)

Removes(r) ==
  /\ r \in removing
  /\ removing' = removing \ {r}
  /\ files' \in {files, files \ {r}}
  /\ UNCHANGED <<upload, counters, aged, victims>>

\* Time passes: a file is now older than the sweep age.
Ages(r) ==
  /\ r \in files \ aged
  /\ aged' = aged \union {r}
  /\ UNCHANGED <<upload, counters, files, victims, removing>>

\* The worker dies; its files stay.
Kill ==
  /\ upload' = [r \in Reqs |-> IF upload[r].pc \in Over \union {"idle"} THEN upload[r]
                            ELSE [upload[r] EXCEPT !.pc = "killed", !.reserved = 0]]
  /\ inFlight' = 0 /\ live' = 0 /\ removing' = {}
  /\ victims' = [r \in Reqs |-> {}]
  /\ UNCHANGED <<files, aged>>

Step(r) ==
  \/ \E length \in {"none", "fits", "over"}, size \in 0..MaxSize, authorized \in BOOLEAN :
       Start(r, length, size, authorized)
  \/ Buffers(r) \/ BufferFails(r)
  \/ Unavailable(r) \/ SweepLists(r) \/ SweepRemoves(r) \/ Creates(r) \/ Opens(r)
  \/ Reads(r) \/ SpoolFails(r) \/ Writes(r) \/ ReadEnds(r) \/ WritableCloses(r) \/ Spooled(r)
  \/ Cleaned(r) \/ CopyFails(r) \/ Copies(r) \/ Removes(r) \/ Ages(r)

SpoolNext == (\E r \in Reqs : Step(r)) \/ Kill
SpoolSpec == SpoolInit /\ [][SpoolNext]_spoolVars

-----------------------------------------------------------------------------
(* Properties *)

\* Types.
SpoolTypeOK ==
  /\ upload \in [Reqs -> [pc: Pcs, length: {"none", "fits", "over"}, size: 0..MaxSize,
                       got: 0..MaxSize, reserved: 0..SpoolCap,
                       as: {"", "stream", "buffer", "copy"}]]
  /\ inFlight \in Nat /\ live \in Nat
  /\ files \subseteq Reqs /\ aged \subseteq Reqs /\ removing \subseteq Reqs
  /\ victims \in [Reqs -> SUBSET Reqs]

\* what a request counts for in each counter
Reserved(u) == IF u.pc \in Writing THEN u.reserved ELSE 0
OnDisk(u) == IF u.pc = "spooled" THEN u.got ELSE 0

\* the sum over the requests, each chunk a pair of the request and its number
Total(held) == Cardinality({c \in Reqs \X (1..MaxSize) : c[2] <= held[c[1]]})

\* Each counter is the sum of what the spools under way hold, whichever of the
\* many exits the others took, and together they stay in the budget.  A byte
\* that is never given back is lost to uploads until the worker dies.
SpoolBudgetsExact ==
  /\ inFlight = Total([r \in Reqs |-> Reserved(upload[r])])
  /\ live = Total([r \in Reqs |-> OnDisk(upload[r])])
  /\ inFlight + live <= Budget

\* What is sent is the whole body: a stream of which nothing was taken, or a
\* buffer or copy of all of it.
WholeBodySent ==
  \A r \in Reqs : At(r, "sent") =>
    upload[r].got = IF upload[r].as = "stream" THEN 0 ELSE upload[r].size

\* The sweep of one request does not take the file of another that is at work,
\* unless that one has been at it for longer than the sweep age.
SpoolFileKept ==
  \A r \in Reqs \ aged : upload[r].pc \in Writing \union {"writable", "spooled"} => r \in files

\* The two budgets are what the spools under way hold, and an upload is sent whole, from a
\* file that the sweep left alone.
SpoolsAreSound == SpoolBudgetsExact /\ WholeBodySent /\ SpoolFileKept
=============================================================================
