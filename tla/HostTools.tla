------------------------------- MODULE HostTools -------------------------------
(***************************************************************************)
(* The tools a host page has for looking at a session: DOM inspection of   *)
(* one document (dom-inspect.ts, dominspect-core.ts), in-page search        *)
(* (zl:find of control.ts, findload.ts, finder.ts), and the request log     *)
(* with the recording made from it and the devtools page that polls it      *)
(* (netlog.ts, tracing.ts, recording.ts, devtools.ts).                      *)
(*                                                                          *)
(* The three share no state, so each has its own next-state relation.  A    *)
(* document is the number of its realm: the bridge stamps it as the         *)
(* generation when it is evaluated there, once.                             *)
(***************************************************************************)
EXTENDS Naturals, FiniteSets, Sequences, SequencesExt

CONSTANTS Clients,
          Calls,       \* the numbers of the calls, made in their order
          SessionCap,  \* SESSION_CAP
          RingCap,     \* NET_LIMIT
          MaxDocs,     \* bound: the documents a client shows
          MaxHits,     \* bound: the matches in a page
          MaxRows,     \* bound: the rows logged by one worker
          MaxPolls     \* bound: the answers the devtools page waits for

VARIABLES
  doc,       \* the realm of each client's document; 0 when the client is gone
  bridge,    \* the inspection bridge of that realm: "none", "off" or "on"
  inbox,     \* messages of the worker on their way to each client
  sessions,  \* the inspection sessions, oldest first
  bundle,    \* what the worker knows of a sibling bundle: "unknown", "there", "absent"
  asked,     \* the inspection calls
  pinned     \* the documents a session was ever made for, for the properties

inspectVars == <<doc, bridge, inbox, sessions, bundle, asked, pinned>>

VARIABLES
  place,     \* the page each client shows; "away" when it shows no proxied page
  hits, ord, \* the finder of that page: its match list and the current one (0-based, -1)
  heard,     \* find commands on their way to a page
  finder,    \* finderSource
  finds      \* the zl:find calls

findVars == <<place, hits, ord, heard, finder, finds>>

VARIABLES
  rows,      \* netLog
  life,      \* netGeneration: the worker's life
  last,      \* netSeq
  tracing, rec,
  window,    \* the rows logged since recordStart, for the properties
  record,    \* the record just made, and the window it is of
  wanted,    \* the host's last zl:tracing, and whether it came during a recording
  view,      \* the devtools page: its rows, cursor and generation
  polls,     \* since of its polls that are not answered yet
  crossed    \* two polls were under way at once, for the properties

logVars == <<rows, life, last, tracing, rec, window, record, wanted, view, polls, crossed>>

-----------------------------------------------------------------------------
(* Inspection.                                                              *)

Free == [op |-> "none", client |-> "none", step |-> "free", gen |-> 0, raw |-> 0, said |-> "none"]
Over(said) == [Free EXCEPT !.step = "done", !.said = said]
Deaf == 0                      \* no answer on the port so far

InspectInit ==
  /\ doc = [c \in Clients |-> 1] /\ bridge = [c \in Clients |-> "none"]
  /\ inbox = [c \in Clients |-> <<>>] /\ sessions = <<>> /\ bundle = "unknown"
  /\ asked = [k \in Calls |-> Free] /\ pinned = {}

SessionOf(c) == {s \in ToSet(sessions) : s.client = c}
Without(c) == SelectSeq(sessions, LAMBDA s : s.client # c)
To(k, step) == asked' = [asked EXCEPT ![k].step = step]
Says(k, said) == asked' = [asked EXCEPT ![k] = Over(said)]
Post(c, what, k) ==
  inbox' = IF doc[c] = 0 THEN inbox
           ELSE [inbox EXCEPT ![c] = Append(@, [what |-> what, call |-> k])]

(* zl:domInspect.  A revoke answers at once and turns the bridge off later. *)
Authorize(k, c) ==
  /\ asked[k].step = "free" /\ \A j \in Calls : j < k => asked[j].step # "free"
  /\ asked' = [asked EXCEPT ![k] = [Free EXCEPT !.op = "authorize", !.client = c, !.step = "live"]]
  /\ UNCHANGED <<doc, bridge, inbox, sessions, bundle, pinned>>
Revoke(k, c) ==
  /\ asked[k].step = "free" /\ \A j \in Calls : j < k => asked[j].step # "free"
  /\ asked' = [asked EXCEPT ![k] =
       IF SessionOf(c) = {} THEN Over("refused")
       ELSE [Free EXCEPT !.op = "revoke", !.client = c, !.step = "live", !.said = "ok"]]
  /\ sessions' = Without(c)
  /\ UNCHANGED <<doc, bridge, inbox, bundle, pinned>>
Request(k, c) ==
  /\ asked[k].step = "free" /\ \A j \in Calls : j < k => asked[j].step # "free"
  /\ IF SessionOf(c) = {}
     THEN Says(k, "refused")
     ELSE \E s \in SessionOf(c) :
            asked' = [asked EXCEPT ![k] = [Free EXCEPT !.op = "request", !.client = c,
                                                       !.step = "live", !.gen = s.gen]]
  /\ UNCHANGED <<doc, bridge, inbox, sessions, bundle, pinned>>

(* liveProxiedClient has answered. *)
Looked(k) ==
  LET c == asked[k].client
  IN /\ asked[k].step = "live"
     /\ CASE asked[k].op = "authorize" ->
               /\ IF doc[c] = 0 THEN Says(k, "refused") ELSE To(k, "code")
               /\ UNCHANGED <<inbox, sessions>>
          [] asked[k].op = "revoke" ->
               Post(c, "off", k) /\ Says(k, "ok") /\ UNCHANGED sessions
          [] OTHER ->
               /\ IF doc[c] = 0 THEN Says(k, "refused") ELSE To(k, "posted")
               /\ sessions' = IF doc[c] = 0 THEN Without(c) ELSE sessions
               /\ Post(c, "req", k)
     /\ UNCHANGED <<doc, bridge, bundle, pinned>>

(* loadInspectorSource is memoised, a failure too. *)
Sourced(k) ==
  /\ asked[k].step = "code"
  /\ bundle' \in IF bundle = "unknown" THEN {"there", "absent"} ELSE {bundle}
  /\ IF bundle' = "absent"
     THEN Says(k, "refused") /\ UNCHANGED inbox
     ELSE To(k, "posted") /\ Post(asked[k].client, "on", k)
  /\ UNCHANGED <<doc, bridge, sessions, pinned>>

(* The page: the loader evaluates the bridge once per document, unless a    *)
(* policy of the page refuses; while it is on it answers requests, and what *)
(* it cannot answer it refuses, which the worker treats like silence.       *)
Handles(c) ==
  /\ inbox[c] # <<>>
  /\ LET m == Head(inbox[c])
         answers(raw) == asked' = [asked EXCEPT ![m.call].raw =
                                     IF asked[m.call].step = "posted" THEN raw ELSE @]
     IN \/ /\ m.what = "on"
           /\ bridge' = [bridge EXCEPT ![c] = "on"] /\ answers(doc[c])
        \/ m.what = "on" /\ bridge[c] = "none" /\ UNCHANGED <<bridge, asked>>
        \/ /\ m.what = "off" /\ UNCHANGED asked
           /\ bridge' = [bridge EXCEPT ![c] = IF @ = "none" THEN @ ELSE "off"]
        \/ /\ m.what = "req" /\ bridge[c] = "on" /\ UNCHANGED bridge
           /\ answers(doc[c])
        \/ m.what = "req" /\ UNCHANGED <<bridge, asked>>
  /\ inbox' = [inbox EXCEPT ![c] = Tail(@)]
  /\ UNCHANGED <<doc, sessions, bundle, pinned>>

(* relayOnce has an answer: an authorize makes the session anew and drops   *)
(* the oldest above the limit; a request is held against its generation.    *)
Pins(k) ==
  LET c == asked[k].client
      with == Append(Without(c), [client |-> c, gen |-> asked[k].raw])
  IN /\ asked[k].step = "posted" /\ asked[k].op = "authorize" /\ asked[k].raw # Deaf
     /\ sessions' = IF Len(with) > SessionCap THEN Tail(with) ELSE with
     /\ pinned' = pinned \cup {<<c, asked[k].raw>>}
     /\ Says(k, "ok")
     /\ UNCHANGED <<doc, bridge, inbox, bundle>>
Forwards(k) ==
  /\ asked[k].step = "posted" /\ asked[k].op = "request" /\ asked[k].raw # Deaf
  /\ IF asked[k].raw = asked[k].gen
     THEN /\ asked' = [asked EXCEPT ![k].step = "done", ![k].said = "ok"]
          /\ UNCHANGED sessions
     ELSE Says(k, "stale") /\ sessions' = Without(asked[k].client)
  /\ UNCHANGED <<doc, bridge, inbox, bundle, pinned>>
GivesUp(k) ==
  /\ asked[k].step = "posted" /\ Says(k, "refused")
  /\ UNCHANGED <<doc, bridge, inbox, sessions, bundle, pinned>>

(* A new document in the client, or the end of the client.                  *)
Leaves(c) ==
  /\ doc[c] # 0
  /\ doc' \in {[doc EXCEPT ![c] = d] : d \in {0} \cup ({doc[c] + 1} \cap 1..MaxDocs)}
  /\ bridge' = [bridge EXCEPT ![c] = "none"] /\ inbox' = [inbox EXCEPT ![c] = <<>>]
  /\ UNCHANGED <<sessions, bundle, asked, pinned>>
WorkerEnds ==
  /\ sessions # <<>> \/ bundle # "unknown"
  /\ sessions' = <<>> /\ bundle' = "unknown"
  /\ asked' = [k \in Calls |-> IF asked[k].step \in {"free", "done"} THEN asked[k]
                               ELSE Over("none")]
  /\ UNCHANGED <<doc, bridge, inbox, pinned>>

InspectNext ==
  \/ \E k \in Calls : \/ \E c \in Clients : Authorize(k, c) \/ Revoke(k, c) \/ Request(k, c)
                      \/ Looked(k) \/ Sourced(k) \/ Pins(k) \/ Forwards(k) \/ GivesUp(k)
  \/ \E c \in Clients : Handles(c) \/ Leaves(c)
  \/ WorkerEnds

(* #550: what the engine forwards comes from the very document that an      *)
(* authorize pinned before the request was made, however documents, calls   *)
(* and messages crossed, and the sessions are bounded.                      *)
InspectionIsAuthorized ==
  /\ \A k \in Calls :
       asked[k].op = "request" /\ asked[k].said = "ok" =>
         /\ <<asked[k].client, asked[k].raw>> \in pinned
         /\ asked[k].raw = asked[k].gen
  /\ Len(sessions) <= SessionCap

-----------------------------------------------------------------------------
(* In-page search.                                                          *)

Dests == {"p", "q"}
Commands == {"find", "next", "prev", "clear"}
Unasked == [dest |-> "none", cmd |-> "none", step |-> "free", timer |-> FALSE, answers |-> 0,
            said |-> "none", raw |-> "none", matches |-> 0, ordinal |-> 0, from |-> "none"]

FindInit ==
  /\ place \in [Clients -> Dests \cup {"away"}]
  /\ hits = [c \in Clients |-> 0] /\ ord = [c \in Clients |-> 0]
  /\ heard = [c \in Clients |-> <<>>] /\ finder = "unknown"
  /\ finds = [k \in Calls |-> Unasked]

(* stepOrdinal over positions 1..count; 0: there is no current match, and   *)
(* as an answer: no move.                                                   *)
StepOrdinal(cur, count, forward, wrap) ==
  CASE count = 0 -> 0
    [] cur = 0 -> IF forward THEN 1 ELSE count
    [] forward -> IF cur < count THEN cur + 1 ELSE IF wrap THEN 1 ELSE 0
    [] OTHER -> IF cur > 1 THEN cur - 1 ELSE IF wrap THEN count ELSE 0

Finds(k, d, cmd) ==
  /\ finds[k].step = "free" /\ \A j \in Calls : j < k => finds[j].step # "free"
  /\ finds' = [finds EXCEPT ![k] = [Unasked EXCEPT !.dest = d, !.cmd = cmd, !.step = "code"]]
  /\ UNCHANGED <<place, hits, ord, heard, finder>>

\* finish: the first payload is the answer, and it ends the timer.
Finish(f, said) ==
  IF f.answers > 0 THEN f
  ELSE [f EXCEPT !.answers = 1, !.said = said, !.timer = FALSE]

(* The bundle is there, and the 10 s timer runs from here on.               *)
FinderLoads(k) ==
  /\ finds[k].step = "code"
  /\ finder' \in IF finder = "unknown" THEN {"there", "absent"} ELSE {finder}
  /\ finds' = [finds EXCEPT ![k] =
       IF finder' = "absent" THEN [Finish(@, "unavailable") EXCEPT !.step = "done"]
       ELSE [@ EXCEPT !.step = "matching", !.timer = TRUE]]
  /\ UNCHANGED <<place, hits, ord, heard>>

Matched(k) ==
  LET at == {c \in Clients : place[c] = finds[k].dest}
  IN /\ finds[k].step = "matching"
     /\ \/ \E c \in at : /\ heard' = [heard EXCEPT ![c] = Append(@, k)]
                         /\ finds' = [finds EXCEPT ![k].step = "posted"]
        \/ /\ at = {} /\ UNCHANGED heard
           /\ finds' = [finds EXCEPT ![k] = [Finish(@, "nowhere") EXCEPT !.step = "posted"]]
        \/ finds' = [finds EXCEPT ![k].step = "posted"] /\ UNCHANGED heard
     /\ UNCHANGED <<place, hits, ord, finder>>

(* The page's finder runs the command, or its policy kept the finder out.   *)
(* A find walks the document again; a move reuses the list.                 *)
Hears(c) ==
  /\ heard[c] # <<>>
  /\ heard' = [heard EXCEPT ![c] = Tail(@)]
  /\ LET k == Head(heard[c])
         cmd == finds[k].cmd
     IN \/ UNCHANGED <<hits, ord, finds>>
        \/ \E found \in IF cmd = "find" THEN 0..MaxHits ELSE IF cmd = "clear" THEN {0} ELSE {hits[c]},
              wrap \in BOOLEAN :
             LET n == StepOrdinal(ord[c], found, cmd = "next", wrap)
                 now == CASE cmd \in {"find", "clear"} -> IF found > 0 THEN 1 ELSE 0
                          [] OTHER -> IF n > 0 THEN n ELSE ord[c]
             IN /\ hits' = [hits EXCEPT ![c] = found] /\ ord' = [ord EXCEPT ![c] = now]
                /\ finds' = [finds EXCEPT ![k].raw = "answer", ![k].matches = found,
                                          ![k].ordinal = now, ![k].from = place[c]]
  /\ UNCHANGED <<place, finder>>

PageAnswers(k) ==
  /\ finds[k].raw = "answer"
  /\ finds' = [finds EXCEPT ![k] = [Finish(@, "page") EXCEPT !.raw = "read"]]
  /\ UNCHANGED <<place, hits, ord, heard, finder>>
FindTimer(k) ==
  /\ finds[k].timer
  /\ finds' = [finds EXCEPT ![k] = Finish(@, "timeout")]
  /\ UNCHANGED <<place, hits, ord, heard, finder>>

Moves(c) ==
  /\ \E to \in (Dests \cup {"away"}) \ {place[c]} : place' = [place EXCEPT ![c] = to]
  /\ hits' = [hits EXCEPT ![c] = 0] /\ ord' = [ord EXCEPT ![c] = 0]
  /\ heard' = [heard EXCEPT ![c] = <<>>]
  /\ UNCHANGED <<finder, finds>>

FindNext ==
  \/ \E k \in Calls : \/ \E d \in Dests, cmd \in Commands : Finds(k, d, cmd)
                      \/ FinderLoads(k) \/ Matched(k) \/ PageAnswers(k) \/ FindTimer(k)
  \/ \E c \in Clients : Hears(c) \/ Moves(c)

(* #29: a command is answered once, by a page at its destination or by the  *)
(* error, and nothing can leave it unanswered once its timer is gone.  The  *)
(* position in the match list is one of the list's.                         *)
FindIsAnswered ==
  /\ \A k \in Calls : LET f == finds[k] IN
       /\ f.answers <= 1
       /\ f.step \in {"matching", "posted", "done"} /\ ~f.timer => f.answers = 1
       /\ f.said = "page" => f.from = f.dest /\ f.ordinal <= f.matches
       /\ f.said = "page" => (f.ordinal = 0) = (f.matches = 0)
  /\ \A c \in Clients : ord[c] <= hits[c]

-----------------------------------------------------------------------------
(* The request log, recordings and the devtools page's poll.                *)

NoRec == [on |-> FALSE, from |-> 0, was |-> FALSE]
NoRecord == [rows |-> {}, of |-> {}]
NoView == [rows |-> <<>>, cursor |-> 0, life |-> 0]

LogInit ==
  /\ rows = <<>> /\ life = 1 /\ last = 0 /\ tracing = FALSE /\ rec = NoRec
  /\ window = {} /\ record = NoRecord /\ wanted = [on |-> FALSE, during |-> FALSE]
  /\ view = NoView /\ polls = <<>> /\ crossed = FALSE

(* netLogPush, and the decision that traceDecision keeps while it is on.    *)
Logs ==
  LET row == [seq |-> last + 1, traced |-> tracing]
      with == Append(rows, row)
  IN /\ last < MaxRows /\ last' = last + 1
     /\ rows' = IF Len(with) > RingCap THEN Tail(with) ELSE with
     /\ window' = IF rec.on THEN window \cup {row} ELSE window
     /\ record' = NoRecord
     /\ UNCHANGED <<life, tracing, rec, wanted, view, polls, crossed>>

SetTracing(on) ==
  /\ tracing' = on /\ wanted' = [on |-> on, during |-> rec.on]
  /\ UNCHANGED <<rows, life, last, rec, window, record, view, polls, crossed>>

RecordStart ==
  /\ ~rec.on
  /\ rec' = [on |-> TRUE, from |-> last, was |-> tracing]
  /\ tracing' = TRUE
  /\ record' = NoRecord
  /\ UNCHANGED <<rows, life, last, window, wanted, view, polls, crossed>>
RecordStop ==
  /\ rec.on /\ rec' = NoRec
  /\ record' = [rows |-> {r \in ToSet(rows) : r.seq > rec.from}, of |-> window]
  /\ window' = {}
  /\ tracing' = rec.was
  /\ UNCHANGED <<rows, life, last, wanted, view, polls, crossed>>

(* tick of the devtools page, and the answer to zl:getNetLog: an answer of  *)
(* another life only resets the view.                                       *)
Polls ==
  /\ Len(polls) < MaxPolls
  /\ polls' = Append(polls, view.cursor)
  /\ crossed' = (crossed \/ polls # <<>>)
  /\ UNCHANGED <<rows, life, last, tracing, rec, window, record, wanted, view>>
Since(n) == SelectSeq([i \in 1..Len(rows) |-> rows[i].seq], LAMBDA seq : seq > n)
Polled ==
  /\ polls # <<>> /\ polls' = Tail(polls)
  /\ view' = IF life # view.life THEN [NoView EXCEPT !.life = life]
             ELSE [view EXCEPT !.rows = @ \o Since(Head(polls)), !.cursor = last]
  /\ UNCHANGED <<rows, life, last, tracing, rec, window, record, wanted, crossed>>

(* The worker ends; a poll it had not taken wakes the next one.             *)
WorkerRestarts ==
  /\ life = 1 /\ life' = 2
  /\ rows' = <<>> /\ last' = 0 /\ tracing' = FALSE /\ rec' = NoRec
  /\ window' = {} /\ record' = NoRecord /\ wanted' = [on |-> FALSE, during |-> FALSE]
  /\ polls' \in {polls, <<>>}
  /\ UNCHANGED <<view, crossed>>

LogNext ==
  \/ Logs \/ (\E on \in BOOLEAN : SetTracing(on)) \/ RecordStart \/ RecordStop
  \/ Polls \/ Polled \/ WorkerRestarts

Latest(s, n) == {r \in s : Cardinality({x \in s : x.seq > r.seq}) < n}

(* A record holds the rows of its window that the ring still had, each with *)
(* its decisions, and leaves tracing as the host set it.  The devtools page *)
(* shows rows of one life, once, and while its polls do not overlap it has  *)
(* every row of the ring that its cursor passed.                            *)
LogsAreWhole ==
  /\ record.rows = Latest(record.of, RingCap)
  /\ rec.on /\ ~wanted.during => \A r \in window : r.traced
  /\ ~rec.on /\ ~wanted.during => tracing = wanted.on
  /\ ~crossed /\ view.life = life =>
       /\ \A i, j \in 1..Len(view.rows) : i < j => view.rows[i] < view.rows[j]
       /\ \A r \in ToSet(rows) : r.seq <= view.cursor => r.seq \in ToSet(view.rows)
=============================================================================
