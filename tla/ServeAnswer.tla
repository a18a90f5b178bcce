------------------------------ MODULE ServeAnswer ------------------------------
(***************************************************************************)
(* What request.ts makes of the answer of upstream, from its headers to    *)
(* the last byte that the page receives, and of the copy that a second     *)
(* visit finds in the page cache.                                          *)
(*                                                                         *)
(* Between two awaits the handler is one step.  A body is two chunks of    *)
(* bytes; what is done to it is its form.  Every document is a navigation. *)
(***************************************************************************)
EXTENDS Naturals, Sequences

VARIABLES
  rq,         \* the request
  stage,      \* how far its handler has come
  resp,       \* the answer: its status class, its type, whether its body is over a cap
  moved,      \* finalDest: it came from another URL than the one asked for
  home, base, \* where the document's context lives, and the base its rewrite resolves against
  rule,       \* "native", "cdn" (a /cdn-cgi/ URL) or none
  decision,   \* what planResponseTransit decided
  hook,       \* the transform an interception handler declared
  form,       \* what became of the body
  stored,     \* the form of the copy in the page cache
  again,      \* what a second visit is given of it
  page,       \* what the page sees of its fetch
  left,       \* chunks that upstream still has to send
  piped, first, timer,   \* zlStreamGuards: bytes counted, first output seen, deadline armed
  told, failed,          \* webRequest's onCompleted and onErrorOccurred
  rows, transits         \* the request's rows of the network log and of the transit record

vars == <<rq, stage, resp, moved, home, base, rule, decision, hook, form, stored, again,
          page, left, piped, first, timer, told, failed, rows, transits>>

answerVars == <<rq, resp, moved, home, rule, decision, hook, again>>
guardVars == <<piped, first, timer>>
logVars == <<rows, transits>>

Dests == {"document", "script", "style", "worker", "empty", "image"}
Types == {"html", "css", "js", "none", "other"}
Statuses == {"ok", "empty", "unchanged", "moved", "bad"}
\* Response constructors and the transport give these no body
HasBody == resp.status \notin {"empty", "unchanged"}
Worker == rq.dest = "worker"
Document == rq.dest = "document"
Nothing == [status |-> "none", type |-> "none", over |-> FALSE]

Init ==
  /\ rq \in [dest : Dests, get : BOOLEAN, challenge : BOOLEAN,
             integrity : {"none", "match", "mismatch", "unusable"}]
  /\ rq.challenge => rq.dest = "document"
  /\ rq.integrity # "none" => rq.dest \in {"script", "style"}
  /\ stage = "routing" /\ resp = Nothing /\ moved = FALSE /\ home = "asked" /\ base = "asked"
  /\ rule = "none" /\ decision = "none" /\ hook = "none" /\ form = "none"
  /\ stored = "none" /\ again = "none" /\ page = "waiting" /\ left = 0
  /\ piped = 0 /\ first = FALSE /\ timer = FALSE
  /\ told = 0 /\ failed = 0 /\ rows = 0 /\ transits = 0

(* ---- how a request ends ---- *)

\* The page is answered, and the body it is given, if any, begins to flow.
Answers(f, streams) ==
  /\ form' = f /\ stage' = IF streams THEN "flowing" ELSE "done"
  /\ page' = IF streams THEN "streaming" ELSE "complete"
  /\ UNCHANGED answerVars

\* The handler's catch: an error event, a row, and the error page or a line of text.
Fails ==
  /\ failed' = failed + 1 /\ rows' = rows + 1
  /\ form' = "error" /\ stage' = "done" /\ page' = "complete"
  /\ UNCHANGED <<answerVars, base, stored, left, guardVars, told, transits>>

\* Before anything is asked: the boot gates and the route's decoding may throw, which
\* only the outermost catch sees, and the CSP of the page may refuse the load.
Routed ==
  /\ stage = "routing" /\ stage' = "asking"
  /\ UNCHANGED <<answerVars, base, form, stored, page, left, guardVars, told, failed, logVars>>
RouteFails ==
  /\ stage = "routing" /\ Answers("error", FALSE)
  /\ UNCHANGED <<base, stored, left, guardVars, told, failed, logVars>>
PolicyRefuses ==
  /\ stage = "routing" /\ ~Document /\ ~Worker /\ Answers("blocked", FALSE)
  /\ rows' = rows + 1
  /\ UNCHANGED <<base, stored, left, guardVars, told, failed, transits>>

\* Upstream answers, or the deadline of a navigation or the transport rejects.
Fetched ==
  /\ stage = "asking"
  /\ \E s \in Statuses, t \in Types, o \in BOOLEAN, m \in BOOLEAN :
       /\ s \in {"empty", "unchanged", "moved"} => ~o
       /\ resp' = [status |-> s, type |-> t, over |-> o]
       /\ moved' = m
       /\ left' = IF s \in {"empty", "unchanged"} THEN 0 ELSE 2
  /\ stage' = IF resp'.status = "bad" /\ rq.dest \in {"script", "style", "image"}
              THEN "missing" ELSE "headers"
  /\ UNCHANGED <<rq, home, base, rule, decision, hook, again, form, stored, page, guardVars,
                 told, failed, logVars>>

FetchFails == stage = "asking" /\ Fails

\* A missing asset is asked for again at the bases its page has loaded from.
Recovers ==
  /\ stage = "missing" /\ stage' = "headers"
  /\ \/ UNCHANGED <<resp, moved>>
     \/ /\ \E t \in Types \ {"html"} : resp' = [status |-> "ok", type |-> t, over |-> FALSE]
        /\ moved' = TRUE
  /\ UNCHANGED <<rq, home, base, rule, decision, hook, again, form, stored, page, left,
                 guardVars, told, failed, logVars>>

(* ---- the headers, one step up to the first await ---- *)

\* A navigation or worker that was redirected lives where it was answered.
Rehomed == IF moved /\ (Document \/ Worker) THEN "final" ELSE "asked"
Where(m) == IF m THEN "final" ELSE "asked"

\* refineWithContent: which bodies must be rewritten.  It is given "empty" for what
\* the request itself calls "", so a fetched script is no case of its own.
MustRewrite ==
  \/ Document /\ resp.type \in {"html", "none"}
  \/ resp.type = "css"
  \/ resp.type = "js" /\ (rq.dest = "script" \/ Worker)

Planned(r) ==
  IF ~(Document \/ MustRewrite) THEN "default"
  ELSE IF r = "cdn" THEN "cdn"
  ELSE IF r = "native" /\ resp.type = "js" /\ rq.dest = "script" THEN "native"
  ELSE "rewrite"

\* Which bodies an interception handler may transform: all but those that are known
\* to be documents or stylesheets.
Transformable == ~(Document /\ resp.type = "html") /\ resp.type # "css"

\* The branch order of the handler, once no handler has taken the body.
MaskNeeded == (rq.dest = "script" \/ Worker) /\ resp.type \in {"html", "css"}
PassesScript(r, d) ==
  /\ rq.dest \in {"script", "empty"} /\ resp.type = "js" /\ HasBody
  /\ d # "native" /\ r # "cdn"
StoresAnyRaw(r, d) == rq.get /\ resp.status = "ok" /\ ~(Document /\ resp.type = "none")
StoresRaw(r, d) ==
  /\ rq.get /\ resp.status = "ok" /\ ~(Worker /\ HasBody) /\ ~PassesScript(r, d)
  /\ ~(Document /\ resp.type = "none")

Branch(r, d) ==
  IF MaskNeeded THEN "mask"
  ELSE IF rq.challenge /\ resp.status # "bad" THEN "reanchor"
  ELSE IF Document /\ resp.type \in {"html", "none"} /\ HasBody /\ r # "cdn" THEN "document"
  ELSE IF resp.type = "css" /\ HasBody /\ r # "cdn" THEN "style"
  ELSE IF Worker /\ HasBody THEN "worker"
  ELSE IF PassesScript(r, d) THEN "script"
  ELSE "plain"

\* Where the handler goes from its headers.
Next1(r, d, h, known) ==
  IF h = "stream" /\ Transformable /\ HasBody /\ ~(known /\ resp.over) THEN "pipe"
  ELSE IF h = "text" /\ Transformable /\ known /\ ~resp.over THEN "text"
  ELSE IF rq.get /\ HasBody /\ resp.status = "ok" /\ rq.integrity # "none" THEN "verify"
  ELSE Branch(r, d)

Heads ==
  /\ stage = "headers"
  /\ home' = Rehomed /\ base' = Where(moved)
  /\ \E r \in {"none", "native", "cdn"}, h \in {"none", "stream", "text"},
        known \in BOOLEAN :
       /\ rule' = r /\ hook' = h /\ decision' = Planned(r)
       /\ stage' = Next1(r, Planned(r), h, known)
       /\ stored' = IF stage' \notin {"pipe", "text", "verify"} /\ StoresRaw(r, Planned(r))
                    THEN "raw" ELSE stored
  /\ rows' = rows + 1 /\ transits' = transits + 1
  /\ UNCHANGED <<rq, resp, moved, again, form, page, left, guardVars, told, failed>>

(* ---- transforms that interception handlers declare ---- *)

Pipe ==
  /\ stage = "pipe" /\ told' = told + 1 /\ Answers("transformed", TRUE)
  /\ UNCHANGED <<base, stored, left, guardVars, failed, logVars>>

\* The buffered arm tells of completion before it reads the body.
Text ==
  /\ stage = "text" /\ told' = told + 1 /\ stage' = "texting"
  /\ UNCHANGED <<answerVars, base, form, stored, page, left, guardVars, failed, logVars>>
\* A Response of a status without a body may not be given one: constructing it throws.
TextRead ==
  /\ stage = "texting" /\ HasBody /\ Answers("transformed", FALSE)
  /\ UNCHANGED <<base, stored, left, guardVars, told, failed, logVars>>
TextFails == stage = "texting" /\ Fails

(* ---- subresource integrity over the raw bytes ---- *)

Blocked == rq.integrity = "mismatch" /\ ~resp.over

Verified ==
  /\ stage = "verify" /\ ~Blocked
  /\ stage' = Branch(rule, decision)
  /\ stored' = IF StoresRaw(rule, decision) THEN "raw" ELSE stored
  /\ UNCHANGED <<answerVars, base, form, page, left, guardVars, told, failed, logVars>>
Refused ==
  /\ stage = "verify" /\ Blocked /\ Answers("refused", FALSE)
  /\ UNCHANGED <<base, stored, left, guardVars, told, failed, logVars>>
VerifyFails == stage = "verify" /\ Fails

(* ---- the branches ---- *)

\* The page gets f at once, or as a stream; completion is told now or at its end.
Serves(s, f, streams, tells) ==
  /\ stage = s /\ Answers(f, streams)
  /\ told' = IF tells THEN told + 1 ELSE told
  /\ UNCHANGED <<base, left, guardVars, failed, logVars>>

Mask == HasBody /\ Serves("mask", "masked", FALSE, TRUE) /\ UNCHANGED stored
MaskFails ==
  /\ stage = "mask" /\ ~HasBody /\ told' = told + 1
  /\ failed' = failed + 1 /\ rows' = rows + 1
  /\ form' = "error" /\ stage' = "done" /\ page' = "complete"
  /\ UNCHANGED <<answerVars, base, stored, left, guardVars, transits>>
Reanchor == Serves("reanchor", "reanchored", FALSE, FALSE) /\ UNCHANGED stored
RewriteDocument ==
  /\ resp.type = "html" /\ Serves("document", "rewritten", TRUE, FALSE) /\ UNCHANGED stored
\* A document without a type is judged by its first chunk.
Sniff ==
  /\ resp.type = "none" /\ \E f \in {"rewritten", "raw"} : Serves("document", f, TRUE, FALSE)
  /\ UNCHANGED stored
SniffFails == stage = "document" /\ resp.type = "none" /\ Fails
RewriteStyle == Serves("style", "rewritten", TRUE, FALSE) /\ UNCHANGED stored

\* A worker's script and a page's are read whole, up to a cap, and composed; a composed
\* copy is stored.  The script's second pass may fail or be withheld by learned evidence.
Compose(f) == stored' = IF rq.get /\ resp.status = "ok" THEN f ELSE stored
ServeWorker ==
  \/ resp.over /\ Serves("worker", "prelude", TRUE, TRUE) /\ UNCHANGED stored
  \/ ~resp.over /\ Serves("worker", "worker", FALSE, TRUE) /\ Compose("worker")
ServeScript ==
  \/ resp.over /\ Serves("script", "raw", TRUE, TRUE) /\ UNCHANGED stored
  \/ /\ ~resp.over
     /\ \E f \in {"rewritten", "specifiers"} : Serves("script", f, FALSE, TRUE) /\ Compose(f)
BodyFails == stage \in {"worker", "script"} /\ Fails

\* Everything else: a 304 becomes a marked 200, an empty navigation the error page, an
\* attachment a download, whose stream is counted; other bodies pass.
Plain ==
  /\ \/ resp.status = "unchanged" /\ Serves("plain", "unchanged", FALSE, TRUE)
     \/ resp.status = "empty" /\ Document /\ Serves("plain", "error", FALSE, TRUE)
     \/ resp.status = "empty" /\ ~Document /\ Serves("plain", "raw", FALSE, TRUE)
     \/ HasBody /\ Serves("plain", "raw", TRUE, TRUE)
  /\ UNCHANGED stored

(* ---- bodies under way ---- *)

Flowing == stage = "flowing" /\ page = "streaming"
Piping == Flowing /\ form = "transformed"
TellsAtEnd == form = "rewritten" \* rewriteDone and its twin of the stylesheets
Ends(how) == page' = how /\ stage' = "done"

Chunk ==
  /\ Flowing /\ ~Piping /\ left > 0 /\ left' = left - 1
  /\ UNCHANGED <<answerVars, base, stage, form, stored, page, guardVars, told, failed, logVars>>
LastByte ==
  /\ Flowing /\ ~Piping /\ left = 0 /\ Ends("complete")
  /\ told' = IF TellsAtEnd THEN told + 1 ELSE told
  /\ UNCHANGED <<answerVars, base, form, stored, left, guardVars, failed, logVars>>

\* Upstream breaks off or sends nothing for BODY_STALL_DEADLINE_MS.
Stalls ==
  /\ Flowing /\ left > 0 /\ Ends("broken")
  /\ UNCHANGED <<answerVars, base, form, stored, left, guardVars, told, failed, logVars>>
PageCancels ==
  /\ Flowing /\ Ends("cancelled")
  /\ UNCHANGED <<answerVars, base, form, stored, left, guardVars, told, failed, logVars>>

\* The guards around a handler's transform: one chunk is allowed if the body is over
\* the declared limit.
Allowed == IF resp.over THEN 1 ELSE 2
Feeds ==
  /\ Piping /\ left > 0 /\ left' = left - 1 /\ piped' = piped + 1
  /\ IF piped' > Allowed
     THEN timer' = FALSE /\ Ends("broken")
     ELSE /\ timer' \in {timer, ~first} /\ (timer => timer')
          /\ UNCHANGED <<page, stage>>
  /\ UNCHANGED <<answerVars, base, form, stored, first, told, failed, logVars>>
Emits ==
  /\ Piping /\ piped > 0 /\ ~first /\ first' = TRUE /\ timer' = FALSE
  /\ UNCHANGED <<answerVars, base, stage, form, stored, page, left, piped, told, failed, logVars>>
MissesDeadline ==
  /\ Piping /\ timer /\ timer' = FALSE /\ Ends("broken")
  /\ UNCHANGED <<answerVars, base, form, stored, left, piped, first, told, failed, logVars>>
Flushes ==
  /\ Piping /\ left = 0 /\ timer' = FALSE /\ Ends("complete")
  /\ UNCHANGED <<answerVars, base, form, stored, left, piped, first, told, failed, logVars>>

(* ---- the second visit ---- *)

\* The cached path has branches of its own; for a script it asks no decision.
HitForm ==
  IF MaskNeeded THEN "masked"
  ELSE IF rule # "cdn" /\ ((Document /\ resp.type = "html") \/ resp.type = "css") THEN "rewritten"
  ELSE IF rule # "cdn" /\ rq.dest \in {"script", "empty"} /\ resp.type = "js" THEN "rewritten"
  ELSE stored

Hit ==
  /\ stage = "done" /\ stored # "none" /\ again = "none" /\ again' = HitForm
  /\ UNCHANGED <<rq, stage, resp, moved, home, base, rule, decision, hook, form, stored, page,
                 left, guardVars, told, failed, logVars>>

Next ==
  \/ Routed \/ RouteFails \/ PolicyRefuses \/ Fetched \/ FetchFails \/ Recovers \/ Heads
  \/ Pipe \/ Text \/ TextRead \/ TextFails \/ Verified \/ Refused \/ VerifyFails
  \/ Mask \/ MaskFails \/ Reanchor \/ RewriteDocument \/ Sniff \/ SniffFails \/ RewriteStyle
  \/ ServeWorker \/ ServeScript \/ BodyFails \/ Plain
  \/ Chunk \/ LastByte \/ Stalls \/ PageCancels
  \/ Feeds \/ Emits \/ MissesDeadline \/ Flushes \/ Hit

Spec == Init /\ [][Next]_vars

--------------------------------------------------------------------------------

Settled == stage = "done"
Bytes == form \in {"raw", "rewritten", "specifiers", "worker", "prelude"}

\* #158, #414: unless a handler took the body, documents are rewritten, no script gets
\* a document or a stylesheet, page scripts take the passes and workers the prelude.
FormIsDue ==
  Bytes =>
    /\ Document /\ resp.type = "html" /\ rule # "cdn" => form = "rewritten"
    /\ rq.dest = "script" \/ Worker => resp.type \notin {"html", "css"}
    /\ rq.dest = "script" /\ resp.type = "js" /\ HasBody
         => form # "raw" \/ resp.over \/ rule # "none"
    /\ Worker /\ HasBody => form \in {"worker", "prelude"}

\* #531: bytes that fail their integrity check are neither served nor stored.
IntegrityKept ==
  rq.get /\ resp.status = "ok" /\ Blocked => ~Bytes /\ stored = "none"

\* A second visit gets what the first was given.  A script under a native rule does not:
\* the cached path rewrites it.
VisitsAgree ==
  again # "none" /\ rule # "native" =>
    \/ again = form \/ form = "error"
    \/ form = "specifiers" /\ again = "rewritten"
    \/ form = "reanchored"

\* #110: a document resolves its URLs where its context lives.
BaseIsHome == Document /\ Bytes => base = home

\* A fetch is told of once.  A handler's text that fails, and a mask for a status without
\* a body, are told as both; refusals, re-anchored challenges and sniffed data as none.
\* Nothing that is rewritten on its way is told of before its last byte.
EventsOnce ==
  /\ told <= 1 /\ failed <= 1
  /\ told + failed = 2 => hook = "text" \/ MaskNeeded
  /\ Settled /\ page = "complete" /\ told + failed = 0 /\ resp # Nothing =>
       \/ form \in {"refused", "reanchored"}
       \/ form = "raw" /\ Document /\ resp.type = "none"
  /\ form = "rewritten" /\ rq.dest \in {"document", "style"} /\ told > 0 => page = "complete"

\* Each answer, failure and refusal has its row, and only answers are transits.  What
\* fails before its route is known has none.
RowsAgree ==
  Settled /\ (resp # Nothing \/ failed > 0 \/ form = "blocked") =>
    rows = transits + failed + (IF form = "blocked" THEN 1 ELSE 0) /\ rows > 0

\* #552: a page that gets a transformed body whole got all of one within its limit, and
\* a deadline is armed only before the first output.
GuardsHold ==
  /\ form = "transformed" /\ hook = "stream" /\ page = "complete" =>
       left = 0 /\ piped <= Allowed
  /\ timer => ~first

AnswerIsSound ==
  FormIsDue /\ IntegrityKept /\ VisitsAgree /\ BaseIsHome /\ EventsOnce /\ RowsAgree
    /\ GuardsHold

================================================================================
