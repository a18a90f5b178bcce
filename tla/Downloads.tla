----------------------------- MODULE Downloads -----------------------------
(***************************************************************************)
(* The download registry of the worker (downloads.ts): a ring of entries,  *)
(* the page streams it counts, the buffers that make a download resumable, *)
(* resume pumps, and the two IndexedDB stores that outlive the worker.     *)
(*                                                                         *)
(* A body is a number of chunks; a buffered chunk is the pair of the       *)
(* download it came from and its offset.  What the upstream may answer a   *)
(* resume with instead of the file, an error page for one, is a body of    *)
(* its own: its chunks bear the download's number negated.                 *)
(* Every caller waits for initReady,                                       *)
(* so the restart loads the stores before anything else happens.  Writes   *)
(* of one connection keep their order of call; a delete does not fail.     *)
(***************************************************************************)
EXTENDS Integers, Sequences, FiniteSets, FiniteSetsExt, SequencesExt

CONSTANTS
  MaxIds,       \* bound: ids "dl1", "dl2" ... of one behaviour
  Sizes,        \* body lengths
  Ring,         \* RING
  ResumeMax,    \* ZL_DL_RESUME_MAX
  Budget,       \* ZL_DL_BUFFER_TOTAL_MAX
  MaxFiles,     \* bound: downloads begun
  MaxKills,     \* bound: worker restarts
  MaxStops      \* bound: pauses, failures and refusals that leave an entry paused

VARIABLES
  ring,       \* entries, oldest first
  dl,         \* the entry object of each id
  streams,    \* ids with a page stream in this.streams
  severed,    \* ids whose pipe has been aborted and has not been heard of yet
  partials,   \* id -> buffered chunks
  pump,       \* where each resume is
  saved,      \* id -> stored entry (a site of its own each)
  stored,     \* id -> stored chunks
  assembled,  \* ghost: ids whose bytes assemble() has read back
  seq, files, kills, stops

vars == <<ring, dl, streams, severed, partials, pump, saved, stored,
          assembled, seq, files, kills, stops>>
disk == <<saved, stored>>
bounds == <<assembled, seq, files, kills, stops>>

Ids == 1..MaxIds
Statuses == {"active", "done", "error", "cancelled", "paused"}
Nothing == [file |-> 0, size |-> 0, status |-> "error", resumable |-> FALSE, received |-> 0]
InRing(id) == \E i \in DOMAIN ring : ring[i] = id
Holds(f, id) == id \in DOMAIN f
With(f, id, v) == [i \in DOMAIN f \union {id} |-> IF i = id THEN v ELSE f[i]]
Without(f, ids) == [i \in DOMAIN f \ ids |-> f[i]]
Bytes(f) == MapThenSumSet(LAMBDA id : Len(f[id]), DOMAIN f)
Is(id, status) == dl[id].status = status
Sets(id, status) == dl' = [dl EXCEPT ![id].status = status]
Pumping(id) == pump[id] # "none"
PumpStops(id) == pump' = [pump EXCEPT ![id] = "none"]
Stop == stops < MaxStops /\ stops' = stops + 1 /\ UNCHANGED <<assembled, seq, files, kills>>

Init ==
  /\ ring = <<>> /\ dl = [id \in Ids |-> Nothing]
  /\ streams = {} /\ severed = {}
  /\ partials = << >> /\ saved = << >> /\ stored = << >>
  /\ pump = [id \in Ids |-> "none"]
  /\ assembled = {} /\ seq = 0 /\ files = 0 /\ kills = 0 /\ stops = 0

-----------------------------------------------------------------------------
(* Buffers *)

\* persistPartial: an empty or missing buffer is not written; a failed write
\* is swallowed.
PersistsPartial(id) ==
  IF ~Holds(partials, id) \/ partials[id] = <<>> THEN UNCHANGED stored
  ELSE stored' \in {stored, With(stored, id, partials[id])}

\* admitBytes: the other buffers in the order they would be dropped.
Victims(id) ==
  LET others(live) == SelectSeq(ring, LAMBDA v : v # id /\ Holds(partials, v) /\ Is(v, "active") = live)
  IN others(FALSE) \o others(TRUE)
Room(id, dropped) == Bytes(Without(partials, Range(SubSeq(Victims(id), 1, dropped)))) + 1 <= Budget
Dropped(id) ==
  LET enough == {k \in 0..Len(Victims(id)) : Room(id, k)}
  IN Range(SubSeq(Victims(id), 1, IF enough = {} THEN Len(Victims(id)) ELSE Min(enough)))

\* What bufferChunk gives up for one chunk of id; id itself when it cannot fit.
GivenUp(id) ==
  IF Len(partials[id]) + 1 > ResumeMax THEN {id}
  ELSE Dropped(id) \union (IF Room(id, Cardinality(Dropped(id))) THEN {} ELSE {id})

\* One chunk of a body arrives: it is counted, and buffered if the entry is resumable.
Counts(id, body) ==
  LET e == dl[id]
      buffers == e.resumable /\ Holds(partials, id)
      lost == IF buffers THEN GivenUp(id) ELSE {}
      kept == Without(partials, lost)
  IN /\ dl' = [i \in Ids |-> [dl[i] EXCEPT
                  !.received = IF i = id THEN @ + 1 ELSE @,
                  !.resumable = @ /\ i \notin lost]]
     /\ partials' = IF buffers /\ id \notin lost
                    THEN [kept EXCEPT ![id] = Append(@, <<body, e.received>>)] ELSE kept
     /\ stored' = Without(stored, lost)

-----------------------------------------------------------------------------
(* begin and wrap, one synchronous call of adoptResponse *)

Idle(id) == id \notin streams /\ ~Pumping(id)

\* A full ring loses its oldest idle entry.  The newcomer is idle too: its
\* stream is registered by wrap, after begin.
Evicted(full) ==
  LET idle == {i \in DOMAIN full : Idle(full[i])}
  IN IF Len(full) <= Ring \/ idle = {} THEN {} ELSE {full[Min(idle)]}

Begin(size, known) ==
  LET id == seq + 1
      gone == Evicted(Append(ring, id))
      resumable == ~known \/ size <= ResumeMax
      kept == Without(partials, gone)
  IN /\ id \in Ids /\ files < MaxFiles
     /\ ring' = SelectSeq(Append(ring, id), LAMBDA i : i \notin gone)
     /\ dl' = [dl EXCEPT ![id] = [file |-> files + 1, size |-> size, status |-> "active",
                                  resumable |-> resumable, received |-> 0]]
     /\ streams' = streams \union {id}
     /\ partials' = IF resumable /\ id \notin gone THEN With(kept, id, <<>>) ELSE kept
     /\ stored' = Without(stored, gone)
     /\ seq' = id /\ files' = files + 1
     /\ UNCHANGED <<severed, pump, saved, assembled, kills, stops>>

\* An entry that wrap did not find is not counted: its stream only passes through.
Chunk(id) ==
  /\ id \in streams /\ id \notin severed /\ InRing(id)
  /\ dl[id].received < dl[id].size
  /\ Is(id, "active") /\ Counts(id, dl[id].file)
  /\ UNCHANGED <<ring, streams, severed, pump, saved, bounds>>

Flush(id) ==
  /\ id \in streams /\ id \notin severed
  /\ InRing(id) => dl[id].received = dl[id].size
  /\ IF InRing(id) /\ Is(id, "active")
     THEN Sets(id, "done") /\ partials' = Without(partials, {id})
     ELSE UNCHANGED <<dl, partials>>
  /\ streams' = streams \ {id}
  /\ UNCHANGED <<ring, severed, pump, disk, bounds>>

\* The pipe is found broken: the page stopped reading, the upstream failed, or
\* cancel or pause severed it; a resume may already have begun.
PipeFails(id) ==
  /\ id \in streams \/ id \in severed
  /\ streams' = streams \ {id} /\ severed' = severed \ {id}
  /\ IF ~InRing(id) \/ ~Is(id, "active") THEN UNCHANGED <<dl, stored, bounds>>
     ELSE IF dl[id].resumable /\ Holds(partials, id) /\ partials[id] # <<>>
     THEN Stop /\ Sets(id, "paused") /\ PersistsPartial(id)
     ELSE Sets(id, "error") /\ UNCHANGED <<stored, bounds>>
  /\ UNCHANGED <<ring, partials, pump, saved>>

-----------------------------------------------------------------------------
(* zl:cancelDownload and zl:pauseDownload *)

Severs(id) ==
  /\ streams' = streams \ {id}
  /\ severed' = IF id \in streams THEN severed \union {id} ELSE severed

Cancel(id) ==
  /\ id \in streams \/ Is(id, "active")
  /\ Severs(id)
  /\ IF InRing(id) /\ Is(id, "active")
     THEN /\ Sets(id, "cancelled")
          /\ partials' = Without(partials, {id}) /\ stored' = Without(stored, {id})
     ELSE UNCHANGED <<dl, partials, stored>>
  /\ UNCHANGED <<ring, pump, saved, bounds>>

Pause(id) ==
  /\ InRing(id) /\ Is(id, "active")
  /\ Stop /\ Severs(id)
  /\ dl' = [dl EXCEPT ![id].status = "paused", ![id].resumable = @ /\ Holds(partials, id)]
  /\ IF dl[id].resumable THEN PersistsPartial(id) ELSE UNCHANGED stored
  /\ UNCHANGED <<ring, partials, pump, saved>>

-----------------------------------------------------------------------------
(* zl:resumeDownload *)

Resume(id) ==
  /\ InRing(id) /\ Is(id, "paused") /\ dl[id].resumable /\ ~Pumping(id)
  /\ pump' = [pump EXCEPT ![id] = IF Holds(partials, id) THEN "fetching" ELSE "loading"]
  /\ IF Holds(partials, id) THEN Sets(id, "active") ELSE UNCHANGED dl
  /\ UNCHANGED <<ring, streams, severed, partials, disk, bounds>>

\* The stored bytes come back, or none are found and the download restarts.
Loaded(id) ==
  /\ pump[id] = "loading"
  /\ \E chunks \in {<<>>} \union {stored[i] : i \in DOMAIN stored \intersect {id}} :
       /\ partials' = With(partials, id, chunks)
       /\ dl' = [dl EXCEPT ![id].status = "active", ![id].received = Len(chunks)]
  /\ pump' = [pump EXCEPT ![id] = "fetching"]
  /\ UNCHANGED <<ring, streams, severed, disk, bounds>>

\* assemble() of a paused entry reads its bytes back as well.
AssembleLoads(id) ==
  /\ InRing(id) /\ Is(id, "paused") /\ ~Pumping(id)
  /\ ~Holds(partials, id) /\ Holds(stored, id)
  /\ partials' = With(partials, id, stored[id])
  /\ assembled' = assembled \union {id}
  /\ UNCHANGED <<ring, dl, streams, severed, pump, disk, seq, files, kills, stops>>

\* pumpResume looks for the entry and its buffer before it reads a body: the file's, or
\* another one.
Pumps(id, body) ==
  IF InRing(id) /\ Holds(partials, id)
  THEN pump' = [pump EXCEPT ![id] = body] /\ UNCHANGED stops
  ELSE PumpStops(id) /\ stops < MaxStops /\ stops' = stops + 1

\* 206 from the offset asked for.
Continues(id) ==
  /\ pump[id] = "fetching" /\ Pumps(id, "file")
  /\ IF InRing(id) /\ ~Holds(partials, id) THEN Sets(id, "paused") ELSE UNCHANGED dl
  /\ UNCHANGED <<ring, streams, severed, partials, disk, assembled, seq, files, kills>>

StartsOverOnTop(id) ==
  /\ pump[id] = "fetching" /\ \E body \in {"file", "other"} : Pumps(id, body)
  /\ dl' = [dl EXCEPT ![id].received = 0,
                      ![id].status = IF InRing(id) /\ ~Holds(partials, id) THEN "paused" ELSE @]
  /\ UNCHANGED <<ring, streams, severed, partials, disk, seq, files, kills, assembled>>

\* Any other answer: the server ignored the range, or answered something else than the
\* file; its body replaces what was buffered either way.
StartsOver(id) ==
  /\ pump[id] = "fetching" /\ \E body \in {"file", "other"} : Pumps(id, body)
  /\ partials' = IF Holds(partials, id) THEN [partials EXCEPT ![id] = <<>>] ELSE partials
  /\ dl' = [dl EXCEPT ![id].received = 0,
                      ![id].status = IF InRing(id) /\ ~Holds(partials, id) THEN "paused" ELSE @]
  /\ UNCHANGED <<ring, streams, severed, disk, assembled, seq, files, kills>>

\* 416: the upstream has nothing left to serve.
RangeGone(id) ==
  /\ pump[id] = "fetching" /\ PumpStops(id)
  /\ Sets(id, "error")
  /\ partials' = Without(partials, {id}) /\ stored' = Without(stored, {id})
  /\ UNCHANGED <<ring, streams, severed, saved, bounds>>

\* 206 from another offset.
Mismatch(id) ==
  /\ pump[id] = "fetching" /\ PumpStops(id) /\ Stop
  /\ Sets(id, "paused")
  /\ UNCHANGED <<ring, streams, severed, partials, disk>>

\* The fetch, or the body under the pump, fails.
ResumeFails(id) ==
  /\ pump[id] \in {"fetching", "file", "other"} /\ PumpStops(id) /\ Stop
  /\ Sets(id, "paused") /\ PersistsPartial(id)
  /\ UNCHANGED <<ring, streams, severed, partials, saved>>

\* The pump asks no status: a pause or a cancel does not stop it.
PumpChunk(id) ==
  /\ \/ pump[id] = "file" /\ dl[id].received < dl[id].size /\ Counts(id, dl[id].file)
     \/ pump[id] = "other" /\ dl[id].received < Max(Sizes) /\ Counts(id, -dl[id].file)
  /\ UNCHANGED <<ring, streams, severed, pump, saved, bounds>>

\* A body ends where the upstream ends it: nothing compares what came with the size.
PumpEnds(id) ==
  /\ pump[id] \in {"file", "other"} /\ PumpStops(id)
  /\ Sets(id, IF Holds(partials, id) THEN "done" ELSE "error")
  /\ UNCHANGED <<ring, streams, severed, partials, disk, bounds>>

-----------------------------------------------------------------------------
(* History, persistence, restart *)

\* clearHistory: any choice of entries that are not active leaves.
ClearHistory(gone) ==
  /\ gone # {} /\ \A id \in gone : InRing(id) /\ ~Is(id, "active")
  /\ ring' = SelectSeq(ring, LAMBDA id : id \notin gone)
  /\ partials' = Without(partials, gone) /\ stored' = Without(stored, gone)
  /\ UNCHANGED <<dl, streams, severed, pump, saved, bounds>>

\* persist() mirrors the ring, each site on its own: the write or the delete of
\* any of them may fail.  Its awaits are one step here.
Persist ==
  \E written \in SUBSET (Range(ring) \union DOMAIN saved) :
    /\ written # {}
    /\ saved' = [id \in (written \intersect Range(ring)) \union (DOMAIN saved \ written) |->
                   IF id \in written THEN dl[id] ELSE saved[id]]
    /\ UNCHANGED <<ring, dl, streams, severed, partials, pump, stored, bounds>>

LastIds(s, n) == SubSeq(s, IF Len(s) > n THEN Len(s) - n + 1 ELSE 1, Len(s))
RestoredIds == LastIds(SetToSortSeq(DOMAIN saved, <), Ring)

\* No stream survives a restart.
Restored(e) == IF e.status = "active" THEN [e EXCEPT !.status = "error"] ELSE e

\* Stored bytes whose entry was not restored are dropped: their id may be given
\* to another download.
Pruned(live) == Without(stored, Ids \ live)

Restart ==
  LET live == Range(RestoredIds)
  IN /\ kills < MaxKills /\ kills' = kills + 1
     /\ ring' = RestoredIds
     /\ dl' = [id \in Ids |-> IF id \in live THEN Restored(saved[id]) ELSE Nothing]
     /\ stored' = Pruned(live)
     /\ seq' = IF live = {} THEN 0 ELSE Max(live)
     /\ streams' = {} /\ severed' = {} /\ partials' = << >>
     /\ pump' = [id \in Ids |-> "none"]
     /\ UNCHANGED <<saved, assembled, files, stops>>

Next ==
  \/ \E size \in Sizes, known \in BOOLEAN : Begin(size, known)
  \/ \E id \in Ids :
       \/ Chunk(id) \/ Flush(id) \/ PipeFails(id) \/ Cancel(id) \/ Pause(id)
       \/ Resume(id) \/ Loaded(id) \/ AssembleLoads(id) \/ Continues(id) \/ StartsOver(id)
       \/ RangeGone(id) \/ Mismatch(id) \/ ResumeFails(id) \/ PumpChunk(id) \/ PumpEnds(id)
  \/ \E gone \in SUBSET Ids : ClearHistory(gone)
  \/ Persist \/ Restart

Spec == Init /\ [][Next]_vars

-----------------------------------------------------------------------------
(* Properties *)

IsTheFile(id) ==
  Is(id, "done") \/ (Is(id, "paused") /\ dl[id].resumable /\ ~Pumping(id)) =>
    /\ \A i \in DOMAIN partials[id] :
         partials[id][i] \in {<<dl[id].file, i - 1>>, <<-dl[id].file, i - 1>>}
    /\ Is(id, "done") => Len(partials[id]) = dl[id].received

\* Types; a buffer never outgrows the cap of one entry.
TypeOK ==
  /\ Range(ring) \subseteq Ids
  /\ dl \in [Ids -> [file: 0..MaxFiles, size: Sizes \union {0}, status: Statuses,
                     resumable: BOOLEAN, received: 0..Max(Sizes)]]
  /\ streams \subseteq Ids /\ severed \subseteq Ids /\ assembled \subseteq Ids
  /\ \A f \in {partials, stored} : DOMAIN f \subseteq Ids /\ \A id \in DOMAIN f : Len(f[id]) <= ResumeMax
  /\ DOMAIN saved \subseteq Ids
  /\ pump \in [Ids -> {"none", "loading", "fetching", "file", "other"}]

\* What a finished resume hands to the host, and what a paused entry would
\* continue from, is what the upstream served for this download from the first
\* byte on, none missing, doubled or taken from another download, whatever was
\* dropped, paused, restarted or reloaded on the way; a finished resume has all
\* that was counted.  That it is the file is the upstream's doing: any answer
\* but a 206 or a 416 starts over with its own body, an error page included
\* (downloads.ts 550), a later 206 continues after those bytes, and a body that
\* ends early finishes the download, for its size is not compared.
ArtifactIsTheFile ==
  \A id \in (Range(ring) \intersect DOMAIN partials) \ assembled : IsTheFile(id)

\* downloads.ts 462: a 206 continues from the buffered count, so the same holds
\* of bytes that assemble() has read back.
AssembledIsTheFile == \A id \in Range(ring) \intersect DOMAIN partials : IsTheFile(id)

\* However the buffers of other downloads come and go, a chunk is buffered only
\* when all of them together stay within the budget.
BufferedWithinBudget ==
  [][\A id \in Ids :
       Holds(partials, id) /\ Holds(partials', id) /\ Len(partials'[id]) > Len(partials[id])
         => Bytes(partials') <= Budget]_vars

\* docs/downloads.md: an all-active ring runs over capacity instead of losing a
\* running download.
NewcomerTracked == \A id \in streams : InRing(id)
=============================================================================
