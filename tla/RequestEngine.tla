----------------------------- MODULE RequestEngine -----------------------------
(***************************************************************************)
(* A request on its way out.  handleFetch (request.ts) with vctx.ts and    *)
(* foreign.ts: first from the URL of a request to the destination it       *)
(* stands for, by the shape of its route and by the virtual context of the *)
(* page that sent it (Spec); then the chain of dispatches to it: gates,    *)
(* outgoing headers and body, the redirects that the engine follows        *)
(* itself, and the cookies of every response on the way (ChainSpec).       *)
(*                                                                         *)
(* A client id is one document and is never reused.  Its committed URL has *)
(* one of five forms; a handle and a query form carry a token with a time  *)
(* to live, a bare path names no site.  The URL of a document names one    *)
(* site, it may be asked for at another, and after redirects upstream it   *)
(* lives at a third.  A restart of the worker empties the contexts and     *)
(* drops the requests in flight.  Route keys are held.                     *)
(*                                                                         *)
(* The jar of an origin is empty, or holds cookies of others, or also one  *)
(* that this chain was given.  Whether a URL is barred (a disabled site,   *)
(* a rule, an extension, an interception) does not change meanwhile.       *)
(***************************************************************************)
EXTENDS Naturals, Sequences, SequencesExt

CONSTANTS
  Clients, Sites, Requests,
  Cap,           \* VCTX_CAP
  MaxRestarts,   \* bound
  Navigating,    \* bound: the requests that are navigations, the others are not
  Carrying,      \* bound: the shapes that are explored with a destination in their path
  Urls, Origin,  \* Origin[u]: the origin of a URL
  First,         \* the URL asked for
  Submitted,     \* the inputs explored: records [req, barred, creds, minting, rewrite]
  MaxHops        \* MAX_REDIRECT_HOPS

None == "none"
Origins == {Origin[u] : u \in Urls}
Methods == {"GET", "POST", "PUT"}    \* a redirect treats POST apart; PUT stands for the others
Outgoing ==
  [req : {q \in [method : Methods, body : {None, "buffer", "stream"}] :
            q.method = "GET" => q.body = None},
   barred : SUBSET Urls,
   creds : [mode : {"include", "same", "omit"}, initiator : Origins \cup {None}],
   minting : [Origins -> {"none", "plain", "cookie"}],
   rewrite : Urls \cup {None}]

ASSUME IntakeAssumption ==
  /\ None \notin Clients \cup Sites
  /\ Cap \in Nat \ {0} /\ MaxRestarts \in Nat

ASSUME ChainAssumption ==
  /\ None \notin Urls \cup Origins /\ First \in Urls /\ MaxHops \in Nat
  /\ \A s \in Submitted : s \in Outgoing

Tokened == {"handle", "query"}
Blank == [named |-> None, asked |-> None, at |-> None, form |-> None]
Forms == Tokened \cup {"route", "marker", "bare"}

VARIABLES
  doc,        \* by client: the document it shows, or Blank
  expired,    \* the clients whose committed token is past its time to live
  ctx,        \* VCTX in insertion order: <<client, site, mainSurface>>
  forgot,     \* the clients that lost a context
  req, pc,    \* by request: its input and its progress
  dest,       \* the site it was resolved to
  initiator,
  turns,      \* redirects answered to this navigation: for its route, for a URL in its path
  restarts

vars == <<doc, expired, ctx, forgot, req, pc, dest, initiator, turns, restarts>>

\* what a request brings: its requesting client, the client it creates, its shape, and
\* the site of a destination that its path carries (a navigation marker, nested up to
\* three times, or a route of the engine), or None
Shapes == Tokened \cup {"route", "marker", "prel", "legacy", "bare", "tail", "foreign"}
Inputs == [from : Clients \cup {None}, new : Clients \cup {None}, get : BOOLEAN, shape : Shapes,
           site : Sites, stale : BOOLEAN, referrer : BOOLEAN, within : Sites \cup {None}]
Nothing == [from |-> None, new |-> None, get |-> TRUE, shape |-> "bare",
            site |-> None, stale |-> FALSE, referrer |-> FALSE, within |-> None]
Unturned == [route |-> 0, path |-> 0]

Init ==
  /\ doc = [c \in Clients |-> Blank] /\ expired = {} /\ ctx = <<>> /\ forgot = {}
  /\ req = [r \in Requests |-> Nothing]
  /\ pc = [r \in Requests |-> "idle"]
  /\ dest = [r \in Requests |-> None]
  /\ initiator = [r \in Requests |-> None]
  /\ turns = [r \in Requests |-> Unturned] /\ restarts = 0

--------------------------------------------------------------------------------
(* Contexts. *)

Shown(c) == c # None /\ doc[c] # Blank
Known(c) == \E i \in 1..Len(ctx) : ctx[i][1] = c
ContextOf(c) == ctx[CHOOSE i \in 1..Len(ctx) : ctx[i][1] = c]

\* establishContext: one entry, replaced in its place or appended
Established(map, c, site, main) ==
  IF \E i \in 1..Len(map) : map[i][1] = c
    THEN [i \in 1..Len(map) |-> IF map[i][1] = c THEN <<c, site, main>> ELSE map[i]]
    ELSE Append(map, <<c, site, main>>)

\* capContexts: past the cap the oldest entries drop
Capped(map) == IF Len(map) > Cap THEN SubSeq(map, Len(map) - Cap + 1, Len(map)) ELSE map
Lost(old, new) == {old[i][1] : i \in 1..Len(old)} \ {new[i][1] : i \in 1..Len(new)}

\* decodeClientUrl: an expired token decodes to nothing
Decodes(c) == Shown(c) /\ doc[c].form # "bare" /\ ~(doc[c].form \in Tokened /\ c \in expired)

\* rehydrateClientContext, its lookup over: from the committed URL, if that decodes
Rehydrated(c, found) ==
  IF found /\ Decodes(c)
    THEN Capped(Established(ctx, c, doc[c].named, doc[c].form \in Tokened))
    ELSE ctx

\* referrerDest: only a route in the Referer decodes
Referred(r) == req[r].referrer /\ Shown(req[r].from) /\ doc[req[r].from].form = "route"

--------------------------------------------------------------------------------
(* A request arrives, and waits for the boot of the worker. *)

IsNav(r) == req[r].new # None
MintedForm(r) == req[r].shape \in Tokened

\* an engine form, perhaps with an old token; a path that the page wrote, perhaps behind
\* the route it shows; or another origin
Arrive(r) ==
  /\ pc[r] = "idle"
  /\ \E from, new \in Clients \cup {None}, shape \in Shapes, site \in Sites :
       /\ from # None => Shown(from)
       /\ new # None => doc[new] = Blank /\ \A q \in Requests : req[q].new # new
       /\ (new # None) = (r \in Navigating)
       /\ \/ new # None /\ shape \in Tokened \cup {"route", "legacy", "marker"}
          \/ /\ from # None /\ shape \in {"bare", "tail", "prel"} /\ site = doc[from].named
             /\ shape = "tail" => doc[from].form \in {"handle", "route", "marker"}
          \/ from # None /\ new = None /\ shape = "foreign"
       /\ \E get, stale, referrer \in BOOLEAN, within \in Sites \cup {None} :
            /\ new = None => get
            /\ stale => shape \in Tokened
            /\ referrer => from # None /\ doc[from].form = "route" /\ shape \in {"bare", "tail"}
            /\ within # None => shape \in Carrying
            /\ req' = [req EXCEPT ![r] =
                 [from |-> from, new |-> new, get |-> get, shape |-> shape, site |-> site,
                  stale |-> stale, referrer |-> referrer, within |-> within]]
  /\ pc' = [pc EXCEPT ![r] = "routing"]
  /\ UNCHANGED <<doc, expired, ctx, forgot, dest, initiator, turns, restarts>>

--------------------------------------------------------------------------------
(* Routing: each branch decides one of these. *)

Rest == <<doc, expired, ctx, forgot, restarts>>

Awaits(r) == pc' = [pc EXCEPT ![r] = "looking"] /\ UNCHANGED <<dest, req, turns, initiator>>

\* the request ends: passed to the browser, stranded with a 404, answered, or served
Ends(r) ==
  /\ pc' = [pc EXCEPT ![r] = "idle"] /\ req' = [req EXCEPT ![r] = Nothing]
  /\ dest' = [dest EXCEPT ![r] = None] /\ initiator' = [initiator EXCEPT ![r] = None]
  /\ turns' = [turns EXCEPT ![r] = Unturned]

\* only a GET navigation is turned, and only if a handle can be minted
Turns(r) == IsNav(r) /\ req[r].get

\* one same-origin 302 to a form with a fresh token (buildQueryHandleUrl, buildNavHandleUrl):
\* the browser sends the same navigation again
Sent302(r, site, forms, within) ==
  /\ Turns(r)
  /\ \E form \in forms :
       req' = [req EXCEPT ![r].shape = form, ![r].site = site, ![r].stale = FALSE,
                          ![r].within = within]
  /\ pc' = [pc EXCEPT ![r] = "routing"] /\ UNCHANGED <<dest, initiator>>

Turn(r, site, forms) ==
  /\ Sent302(r, site, forms, req[r].within)
  /\ turns' = [turns EXCEPT ![r].route = @ + 1]

\* a resolved destination whose path carries another one stands for that (markerPathDest,
\* derefSelfRoute): a navigation is turned there, anything else goes there in place
To(r, site) ==
  LET carried == req[r].within IN
    \/ /\ carried # None /\ Sent302(r, carried, Tokened, None)
       /\ turns' = [turns EXCEPT ![r].path = @ + 1]
    \/ /\ dest' = [dest EXCEPT ![r] = IF carried = None THEN site ELSE carried]
       /\ pc' = [pc EXCEPT ![r] = "resolved"]
       /\ UNCHANGED <<req, turns, initiator>>

\* a verified but expired query handle is minted anew, or strands
ExpiredQuery(r) ==
  /\ req[r].shape = "query" /\ req[r].stale /\ Turns(r)
  /\ Turn(r, req[r].site, {"query"}) \/ Ends(r)

\* classifyForeign: a page is proxied by its context or by its route
Proxied(c) == Known(c) \/ doc[c].form = "route"

Foreign(r) ==
  /\ req[r].shape = "foreign"
  /\ \/ Proxied(req[r].from) /\ To(r, req[r].site)
     \/ Ends(r)                                 \* a preflight, or the browser's own

LiveQuery(r) == req[r].shape = "query" /\ ~req[r].stale /\ To(r, req[r].site)

\* navpResolve: the parent decodes, expired or not
Prel(r) ==
  /\ req[r].shape = "prel"
  /\ Turn(r, req[r].site, Tokened) \/ To(r, req[r].site)

Marker(r) ==
  /\ req[r].shape = "marker"
  /\ Turn(r, req[r].site, Tokened) \/ To(r, req[r].site)

\* a handle decodes; an expired one is minted anew for a GET navigation, but with a path
\* behind it resolves against the context of the page that navigates, if it has one
Handle(r) ==
  /\ req[r].shape = "handle"
  /\ \/ ~req[r].stale /\ To(r, req[r].site)
     \/ req[r].stale /\ Ends(r)
     \/ req[r].stale /\ Known(req[r].from) /\ To(r, ContextOf(req[r].from)[2])
     \/ req[r].stale /\ Turn(r, req[r].site, {"handle"})

\* navhTailDest: a path appended to the handle of the page resolves against what
\* the token names, else against the context of the page; a parsed relative path
\* has lost the token and resolves against the context.  A navigation without either
\* is minted anew, if the token was there
HandleTail(r) ==
  /\ req[r].shape = "tail" /\ doc[req[r].from].form = "handle"
  /\ LET c == req[r].from IN
       \/ c \notin expired /\ To(r, doc[c].named)
       \/ Known(c) /\ To(r, ContextOf(c)[2])
       \/ ~Known(c) /\ Ends(r)
       \/ ~Known(c) /\ c \in expired /\ Turn(r, doc[c].named, {"handle"})

\* a route decodes, or a legacy one ahead of the context of the page
EngineRoute(r) == req[r].shape \in {"route", "legacy"} /\ To(r, req[r].site)

\* recoverPath: a path appended to a route is found behind its token; a navigation to
\* one that has lost the token is stranded
RouteTail(r) ==
  /\ req[r].shape = "tail" /\ doc[req[r].from].form = "route"
  /\ To(r, doc[req[r].from].named) \/ (IsNav(r) /\ Ends(r))

\* a relative path under a marker is no marker
MarkerTail(r) ==
  req[r].shape = "tail" /\ doc[req[r].from].form = "marker" /\ Ends(r)

\* a path that names no destination: the context of the page gives it a home, and a
\* page without one is looked up
Homeless(r) ==
  \/ req[r].shape = "bare"
  \/ req[r].shape = "tail" /\ doc[req[r].from].form = "route" /\ ~IsNav(r)
  \/ req[r].shape = "query" /\ req[r].stale /\ ~Turns(r)

Resolved(r, c) == Turn(r, ContextOf(c)[2], {"query"}) \/ To(r, ContextOf(c)[2])

Relative(r) ==
  /\ Homeless(r)
  /\ IF Known(req[r].from) THEN Resolved(r, req[r].from) ELSE Awaits(r)

Route(r) ==
  /\ pc[r] = "routing"
  /\ \/ ExpiredQuery(r) \/ Foreign(r) \/ LiveQuery(r) \/ Prel(r) \/ Marker(r) \/ Handle(r)
     \/ HandleTail(r) \/ EngineRoute(r) \/ RouteTail(r) \/ MarkerTail(r) \/ Relative(r)
  /\ UNCHANGED Rest

\* the lookup of the client ends, with its URL or without: the context, then the
\* Referer, then the strand of a route tail or the browser
LookedUp(r) ==
  /\ pc[r] = "looking"
  /\ \E found \in BOOLEAN :
       LET c == req[r].from
           map == IF Known(c) THEN ctx ELSE Rehydrated(c, found)
           held == \E i \in 1..Len(map) : map[i][1] = c
           home == IF held THEN map[CHOOSE i \in 1..Len(map) : map[i][1] = c][2]
                   ELSE IF Referred(r) THEN doc[c].named ELSE None
       IN /\ ctx' = map /\ forgot' = forgot \cup Lost(ctx, map)
          /\ \/ home # None /\ To(r, home)
             \/ held /\ Turn(r, home, {"query"})
             \/ home = None /\ Ends(r)
  /\ UNCHANGED <<doc, expired, restarts>>

--------------------------------------------------------------------------------
(* A resolved request. *)

\* the requesting page: its context, rehydrated if lost, else its expired handle
Initiate(r) ==
  /\ pc[r] = "resolved"
  /\ \E found \in BOOLEAN :
       LET c == req[r].from
           map == IF c = None \/ Known(c) THEN ctx ELSE Rehydrated(c, found)
       IN /\ ctx' = map /\ forgot' = forgot \cup Lost(ctx, map)
          /\ initiator' = [initiator EXCEPT ![r] =
               IF \E i \in 1..Len(map) : map[i][1] = c
                 THEN map[CHOOSE i \in 1..Len(map) : map[i][1] = c][2]
               ELSE IF found /\ Shown(c) /\ doc[c].form = "handle" THEN doc[c].named ELSE None]
  /\ pc' = [pc EXCEPT ![r] = "gated"]
  /\ UNCHANGED <<doc, expired, req, dest, turns, restarts>>

\* a navigation establishes the context of the client it creates
Establish(r) ==
  /\ pc[r] = "gated"
  /\ LET map == IF IsNav(r) THEN Capped(Established(ctx, req[r].new, dest[r], MintedForm(r))) ELSE ctx
     IN ctx' = map /\ forgot' = forgot \cup Lost(ctx, map)
  /\ IF IsNav(r)
       THEN pc' = [pc EXCEPT ![r] = "fetching"] /\ UNCHANGED <<req, dest, initiator, turns>>
       ELSE Ends(r)
  /\ UNCHANGED <<doc, expired, restarts>>

\* Mutant: the context stays at the site that was asked for.
HeldAt(r, site) == ctx

\* after redirect hops the context of the new client moves to the final site
MovedTo(r, site) ==
  IF site # dest[r] THEN Capped(Established(ctx, req[r].new, site, MintedForm(r))) ELSE ctx

\* what the document is at: the URL of the request, whose token may be an old one
Committed(r) ==
  CASE req[r].shape \in Forms \ {"bare"} -> req[r].shape
    [] req[r].shape = "tail" -> doc[req[r].from].form
    [] req[r].shape = "bare" -> "bare"
    [] OTHER -> "route"
Worn(r) == req[r].stale \/ (req[r].shape = "tail" /\ req[r].from \in expired)

\* the response; an entry of the page cache that was redirected when it was stored
\* leaves the context where it is
Serve(r) ==
  /\ pc[r] = "fetching"
  /\ \E site \in Sites, cached \in BOOLEAN :
       LET c == req[r].new
           map == IF cached THEN ctx ELSE MovedTo(r, site)
       IN /\ ctx' = map
          /\ forgot' = (forgot \cup Lost(ctx, map)) \cup (IF cached /\ site # dest[r] THEN {c} ELSE {})
          /\ doc' = [doc EXCEPT ![c] =
               [named |-> IF Committed(r) = "bare" THEN dest[r] ELSE req[r].site,
                asked |-> dest[r], at |-> site, form |-> Committed(r)]]
          /\ expired' = IF Worn(r) THEN expired \cup {c} ELSE expired
  /\ Ends(r)
  /\ UNCHANGED restarts

\* no document comes of it: a passed challenge is answered with a 302 to the page that it
\* guards, which is a navigation of its own; a download, a load that is given up
Unserved(r) ==
  /\ pc[r] = "fetching" /\ Ends(r)
  /\ UNCHANGED <<doc, expired, ctx, forgot, restarts>>

\* the token of a page runs out
Expire(c) ==
  /\ Shown(c) /\ doc[c].form \in Tokened /\ c \notin expired
  /\ expired' = expired \cup {c}
  /\ UNCHANGED <<doc, ctx, forgot, req, pc, dest, initiator, turns, restarts>>

Restart ==
  /\ restarts < MaxRestarts /\ restarts' = restarts + 1
  /\ ctx' = <<>> /\ forgot' = forgot \cup Lost(ctx, <<>>)
  /\ pc' = [r \in Requests |-> "idle"] /\ req' = [r \in Requests |-> Nothing]
  /\ dest' = [r \in Requests |-> None] /\ initiator' = [r \in Requests |-> None]
  /\ turns' = [r \in Requests |-> Unturned]
  /\ UNCHANGED <<doc, expired>>

Next ==
  \/ \E r \in Requests :
       Arrive(r) \/ Route(r) \/ LookedUp(r) \/ Initiate(r) \/ Establish(r) \/ Serve(r)
       \/ Unserved(r)
  \/ \E c \in Clients : Expire(c)
  \/ Restart

Spec == Init /\ [][Next]_vars

--------------------------------------------------------------------------------
(* The chain of a resolved request: its own state. *)

VARIABLES
  in,        \* method, body, barred URLs, credentials mode, initiator, rules' headers, rewrite
  step,
  url, hops,
  method, body, ctype,
  hdr,       \* the page's headers, those of rules and interceptions, of plugins and of
             \* webRequest listeners: the origin each was made for, or None
  cookie,    \* the Cookie header and where it is from
  resp,      \* the last response: its URL and status, where it redirects to, whether its
             \* Set-Cookie is pending, and the URL that was admitted for
  jar,
  aborted,
  out,       \* the request last dispatched
  streamed,  \* how often a one-shot stream was dispatched
  reached    \* the URLs dispatched to

chainVars == <<in, step, url, hops, method, body, ctype, hdr, cookie, resp, jar, aborted, out, streamed, reached>>

Silent == [from |-> None, status |-> None, to |-> None, sets |-> FALSE, at |-> None]
NoCookie == [from |-> None, origin |-> None, mine |-> FALSE]
NoHeaders == [authorization |-> None, referer |-> None, ruled |-> None, plugged |-> None,
              listened |-> None]
Unsent == [url |-> None, method |-> None, body |-> None, ctype |-> FALSE, hdr |-> NoHeaders,
           cookie |-> NoCookie]
Statuses == {"ok", "302", "303", "307", "bare"}    \* bare: a 3xx without a usable Location

\* a GET brings no body; another method brings a buffer or a one-shot stream
ChainInit ==
  /\ in \in Submitted
  /\ step = "gates" /\ url = First /\ hops = 0
  /\ method = in.req.method /\ body = in.req.body /\ ctype = (in.req.body # None)
  /\ hdr = NoHeaders /\ cookie = NoCookie /\ resp = Silent
  /\ jar = [o \in Origins |-> "others"]
  /\ aborted = FALSE /\ out = Unsent /\ streamed = 0 /\ reached = {}

--------------------------------------------------------------------------------
(* Headers and cookies. *)

\* credsEligible: omit never, same-origin only at the origin of the initiator
Eligible(u) ==
  \/ in.creds.mode = "include"
  \/ in.creds.mode = "same" /\ in.creds.initiator \in {None, Origin[u]}

\* the Cookie header of a URL: the jar's, or none
JarCookie(j, u) ==
  IF Eligible(u) /\ j[Origin[u]] # "empty"
    THEN [from |-> "jar", origin |-> Origin[u], mine |-> j[Origin[u]] = "mine"]
  ELSE NoCookie

\* Mutant: only Authorization is dropped.
StrippedAuth(h, u, next) ==
  IF Origin[u] # Origin[next] THEN [h EXCEPT !.authorization = None] ELSE h

\* stripCrossOriginHopHeaders, with Authorization: what was made for one origin
\* stays there, but for what a listener added, or a plugin wrote over another header
Stripped(h, u, next) ==
  IF Origin[u] # Origin[next] THEN [NoHeaders EXCEPT !.listened = h.listened] ELSE h

\* a rule's headers for a URL are set over the others
Minted(h, u) ==
  IF in.minting[Origin[u]] # "none" THEN [h EXCEPT !.ruled = Origin[u]] ELSE h

\* on a hop they may include a Cookie header, set after the jar's
HopCookie(j, u) ==
  IF in.minting[Origin[u]] = "cookie" THEN [from |-> "rule", origin |-> Origin[u], mine |-> FALSE]
  ELSE JarCookie(j, u)

\* applySetCookie of the response just received, for a URL
Captures(u) ==
  IF resp.sets /\ Eligible(u)
    THEN /\ jar' = [jar EXCEPT ![Origin[u]] = "mine"]
         /\ resp' = [resp EXCEPT !.sets = FALSE, !.at = u]
    ELSE UNCHANGED <<jar, resp>>

--------------------------------------------------------------------------------
(* The first dispatch. *)

Halts(how) == step' = how

\* disabled sites, extensions, rules and interceptions, in this order, each ending the
\* request; then a rule or an interception may rewrite the URL
Gates ==
  /\ step = "gates"
  /\ IF First \in in.barred THEN Halts("blocked") /\ url' = url
     ELSE step' = "headers" /\ url' = IF in.rewrite = None THEN First ELSE in.rewrite
  /\ UNCHANGED <<in, hops, method, body, ctype, hdr, cookie, resp, jar, aborted, out, streamed, reached>>

\* the page's headers, then those of listeners and plugins, the rules' over them, then
\* the jar's cookie over all.  The page, the listeners and the rules had the URL asked
\* for, a plugin has the one it may have been rewritten to
Headers ==
  /\ step = "headers" /\ step' = "body"
  /\ hdr' = Minted([authorization |-> Origin[First], referer |-> Origin[First], ruled |-> None,
                    plugged |-> Origin[url], listened |-> Origin[First]], First)
  /\ cookie' = JarCookie(jar, url)
  /\ UNCHANGED <<in, url, hops, method, body, ctype, resp, jar, aborted, out,
                 streamed, reached>>

\* replayableInit and spoolTransportCopy: the body is read once, or left a stream, or the
\* request fails
Body ==
  /\ step = "body"
  /\ step' \in IF body = None THEN {"send"} ELSE {"send", "failed"}
  /\ UNCHANGED <<in, url, hops, method, body, ctype, hdr, cookie, resp, jar, aborted, out, streamed, reached>>

\* upstreamFetch refuses an aborted signal
Send ==
  /\ step = "send"
  /\ IF aborted
       THEN Halts("failed") /\ UNCHANGED <<out, streamed, reached>>
       ELSE /\ step' = "waiting"
            /\ out' = [url |-> url, method |-> method, body |-> body, ctype |-> ctype,
                       hdr |-> hdr, cookie |-> cookie]
            /\ streamed' = streamed + (IF body = "stream" THEN 1 ELSE 0)
            /\ reached' = reached \cup {url}
  /\ UNCHANGED <<in, url, hops, method, body, ctype, hdr, cookie, resp, jar, aborted>>

\* the response, or a failure: of the upstream, of the deadline, of an abort
Responds ==
  /\ step = "waiting"
  /\ \/ /\ ~aborted /\ step' = "answered"
        /\ \E status \in Statuses, to \in Urls, sets \in BOOLEAN :
             /\ status \in {"ok", "bare"} => to = url
             /\ resp' = [from |-> url, status |-> status, to |-> to, sets |-> sets, at |-> None]
     \/ Halts("failed") /\ resp' = resp
  /\ UNCHANGED <<in, url, hops, method, body, ctype, hdr, cookie, jar, aborted,
                 out, streamed, reached>>

--------------------------------------------------------------------------------
(* The hop chain. *)

Redirected == resp.status # "ok" /\ hops < MaxHops

\* 303, and any redirect of a POST but 307 and 308, becomes a GET without a body
BecomesGet == resp.status = "303" \/ (resp.status = "302" /\ method = "POST")

\* a one-shot body cannot be sent again, so its redirect is left to the page
Unreplayable == body = "stream" /\ ~BecomesGet

HopBarred(u) == u \in in.barred

\* a redirect that is followed: its cookies first, then headers, method, body and cookie
\* of the next hop, then the gates for it and the rule's headers, and a pause
Hop ==
  /\ step = "answered" /\ Redirected /\ resp.status # "bare" /\ ~Unreplayable
  /\ Captures(url)
  /\ IF BecomesGet THEN method' = "GET" /\ body' = None /\ ctype' = FALSE
     ELSE UNCHANGED <<method, body, ctype>>
  /\ IF HopBarred(resp.to)
       THEN /\ Halts("blocked") /\ cookie' = JarCookie(jar', resp.to)
            /\ hdr' = Stripped(hdr, url, resp.to)
       ELSE /\ step' = "paused" /\ cookie' = HopCookie(jar', resp.to)
            /\ hdr' = Minted(Stripped(hdr, url, resp.to), resp.to)
  /\ url' = resp.to /\ hops' = hops + 1
  /\ UNCHANGED <<in, aborted, out, streamed, reached>>

\* the 10 ms pause, past the removal of the last transfer
Resumes ==
  /\ step = "paused" /\ step' = "send"
  /\ UNCHANGED <<in, url, hops, method, body, ctype, hdr, cookie, resp, jar, aborted, out, streamed, reached>>

\* a redirect without a Location or with a body that cannot be sent again leaves the
\* chain with its cookies captured
Surfaces ==
  /\ step = "answered" /\ Redirected /\ (resp.status = "bare" \/ Unreplayable)
  /\ Captures(url) /\ step' = "final"
  /\ UNCHANGED <<in, url, hops, method, body, ctype, hdr, cookie, aborted, out,
                 streamed, reached>>

\* the response that is served, its cookies captured at the URL it came from
Final ==
  /\ step = "final" \/ (step = "answered" /\ ~Redirected)
  /\ Captures(url) /\ Halts("served")
  /\ UNCHANGED <<in, url, hops, method, body, ctype, hdr, cookie, aborted, out, streamed, reached>>

--------------------------------------------------------------------------------
(* Others. *)

Runs == step \notin {"served", "failed", "blocked"}

\* another response, a script or an extension writes a cookie of the origin
OtherSets(o) ==
  /\ Runs /\ jar[o] = "empty" /\ jar' = [jar EXCEPT ![o] = "others"]
  /\ UNCHANGED <<in, step, url, hops, method, body, ctype, hdr, cookie, resp, aborted, out,
                 streamed, reached>>

\* jarClear
ClearJar ==
  /\ Runs /\ \E o \in Origins : jar[o] # "empty"
  /\ jar' = [o \in Origins |-> "empty"]
  /\ UNCHANGED <<in, step, url, hops, method, body, ctype, hdr, cookie, resp, aborted,
                 out, streamed, reached>>

\* the page goes away, or the deadline of a navigation passes
Abort ==
  /\ Runs /\ ~aborted /\ aborted' = TRUE
  /\ UNCHANGED <<in, step, url, hops, method, body, ctype, hdr, cookie, resp, jar,
                 out, streamed, reached>>

ChainNext ==
  \/ Gates \/ Headers \/ Body \/ Send \/ Responds
  \/ Hop \/ Resumes \/ Surfaces \/ Final
  \/ \E o \in Origins : OtherSets(o)
  \/ ClearJar \/ Abort

ChainSpec == ChainInit /\ [][ChainNext]_chainVars

--------------------------------------------------------------------------------
(* Properties of the intake. *)

\* Types, and the bound on the contexts.
TypeOK ==
  /\ \A c \in Clients : doc[c] = Blank \/ doc[c] \in [named : Sites, asked : Sites, at : Sites, form : Forms]
  /\ expired \subseteq Clients /\ forgot \subseteq Clients
  /\ Len(ctx) <= Cap /\ \A i \in 1..Len(ctx) : ctx[i] \in Clients \X Sites \X BOOLEAN
  /\ \A r \in Requests : req[r] \in Inputs \cup {Nothing}
  /\ restarts \in 0..MaxRestarts
  /\ pc \in [Requests -> {"idle", "routing", "looking", "resolved", "gated", "fetching"}]
  /\ dest \in [Requests -> Sites \cup {None}] /\ initiator \in [Requests -> Sites \cup {None}]

\* the sites of a page
Own(c) == {doc[c].named, doc[c].asked, doc[c].at}

\* #33: a request is never given the home of another page, and its initiator is never
\* another page, across restarts, evictions and navigations elsewhere: both are the site
\* that the URL of the page names, that it was asked for at, or where it lives.  A request whose own path carries a
\* destination goes to that.
HomeIsItsOwn ==
  \A r \in Requests : Shown(req[r].from) /\ req[r].new = None =>
    LET own == Own(req[r].from) IN
      /\ initiator[r] \in own \cup {None}
      /\ req[r].shape # "foreign" => dest[r] \in own \cup {None, req[r].within}

\* #110: a page that lives elsewhere than its URL names is known to live there,
\* until a restart, the cap or a cached answer loses it.
ContextIsCurrent ==
  \A c \in Clients \ forgot : Shown(c) /\ Known(c) => ContextOf(c)[2] = doc[c].at

\* #385, #612: a navigation is turned to a visible form once for its route and once for a
\* destination in its path, so that no two forms send it back and forth; only a GET is.
TurnedOnce ==
  \A r \in Requests :
    /\ turns[r].route <= 1 /\ turns[r].path <= 1
    /\ turns[r] # Unturned => req[r].get /\ IsNav(r)

\* A request is given the home of the page that sent it, the context of a page is where
\* it lives, and a navigation is turned at most once for its route and once for its path.
RequestsFindTheirHome == TypeOK /\ HomeIsItsOwn /\ ContextIsCurrent /\ TurnedOnce

--------------------------------------------------------------------------------
(* Properties of the chain. *)

\* Types: among them, no chain is longer than the cap on redirects.
ChainTypeOK ==
  /\ step \in {"gates", "headers", "body", "send", "waiting", "answered", "paused",
             "final", "served", "failed", "blocked"}
  /\ url \in Urls /\ hops \in 0..MaxHops /\ method \in {in.req.method, "GET"}
  /\ body \in {None, "buffer", "stream"} /\ ctype \in BOOLEAN /\ aborted \in BOOLEAN
  /\ \A h \in DOMAIN hdr : hdr[h] \in Origins \cup {None}
  /\ jar \in [Origins -> {"empty", "others", "mine"}]
  /\ reached \subseteq Urls

Sent == out # Unsent

\* #194: no credential, no Referer, and no header of a rule, an interception or a plugin
\* is dispatched to an origin it was not made for, over any chain of redirects and back.
\* Where a rule rewrites the URL, what was made for the URL asked for goes to the origin
\* of the rewritten one, and to no further.  A header that a webRequest listener
\* added travels everywhere: it is not among them.
HeadersStayHome ==
  Sent => \A h \in DOMAIN out.hdr \ {"listened"} :
    \/ out.hdr[h] \in {None, Origin[out.url]}
    \/ /\ in.rewrite # None /\ out.hdr[h] = Origin[First]
       /\ \A u \in reached : Origin[u] = Origin[in.rewrite]

\* #276: the Cookie header is of the origin it goes to, and the jar's only where the
\* mode is eligible; unless a rule minted it, a hop carries what the chain was given.
CookiesFollowTheChain ==
  /\ Sent /\ out.cookie # NoCookie =>
       /\ out.cookie.origin = Origin[out.url]
       /\ out.cookie.from = "jar" => Eligible(out.url)
  /\ step = "send" /\ hops > 0 /\ jar[Origin[url]] = "mine" /\ Eligible(url) =>
       (cookie.mine \/ cookie.from = "rule")

\* #556: a one-shot body is dispatched once, and a method keeps the body it came with
\* or has become a GET without one, and without its content type.
BodyIsWhole ==
  /\ streamed <= 1
  /\ Sent => \/ out.method = in.req.method /\ out.body = in.req.body
             \/ out.method = "GET" /\ out.body = None /\ ~out.ctype

\* #186: no redirect smuggles a barred URL past the gates; a URL that a rule rewrote
\* the request to is not gated again.
GatesHold == reached \cap in.barred \subseteq {in.rewrite}

\* 1.4, 2.2: an eligible response of the chain has its cookies admitted before the next
\* dispatch and before the page sees the last one, and for the URL it came from.
CookiesAreCaptured ==
  /\ resp.at \in {None, resp.from}
  /\ step \in {"paused", "send", "served"} /\ Sent => ~(resp.sets /\ Eligible(resp.from))

\* What is dispatched over a chain of redirects carries what is meant for its
\* destination, passes the gates, and every response on the way has its cookies admitted.
HopsAreSound ==
  /\ ChainTypeOK /\ HeadersStayHome /\ CookiesFollowTheChain /\ BodyIsWhole /\ GatesHold
  /\ CookiesAreCaptured
================================================================================
