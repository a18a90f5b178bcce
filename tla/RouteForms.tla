------------------------------ MODULE RouteForms ------------------------------
(***************************************************************************)
(* The forms a destination takes in the address bar (codec.ts), and what   *)
(* the worker reads back from them: a tab that is opened, follows links,   *)
(* rewrites its own location and is reloaded, over the expiry of its token *)
(* and restarts of the worker, must keep naming the page it shows.         *)
(*                                                                         *)
(* A keyed token is the record of what was sealed and under which key: the *)
(* seal (SipHash, keystream, base64url) is exact, so a token reads as that *)
(* record under its key and as nothing under any other.  A URL is read by  *)
(* its shape alone.  A path that begins with "%2F" is left out: the codec  *)
(* says that it comes back as "//".                                        *)
(***************************************************************************)
EXTENDS Naturals, Sequences, SequencesExt, TLC

CONSTANTS
  Sites, Keys,
  Window,        \* by site: the host window that opens it, or none
  Hops,          \* the bound of unwrapDest
  Peels,         \* the bound of decodeNavHandlePath: virtual paths one below the other
  Ttl,           \* NAVH_TTL_MS
  MaxTime, MaxRestarts, MaxParams, MaxMoves    \* bounds

Absent == "none"
Legacy == "legacy"

VARIABLES
  keys,      \* routeKeys: the stored key, or none
  stored,    \* the key of the store
  lost,      \* the keys that a store took with it
  prefix,    \* "j" or a configured one
  loc,       \* the URL the tab has committed
  page,      \* the destination it stands for
  now, restarts,
  moves      \* the pages the tab has opened

vars == <<keys, stored, lost, prefix, loc, page, now, restarts, moves>>
browser == <<loc, page, moves>>
worker == <<keys, stored, lost, prefix, now, restarts>>

\* a token, of a handle or of a route; as a parameter of a query it is zlNavh's value,
\* beside a page's imitations and plain fields
Field == [key |-> "field", o |-> Absent, route |-> FALSE, exp |-> 0, root |-> Absent]
Junk == [Field EXCEPT !.key = "junk"]
NoToken == [Field EXCEPT !.key = Absent]

\* a destination: its site, its path with its leading slashes, its query and fragment
Nowhere == [o |-> Absent, p |-> Absent, lead |-> "one", q |-> <<>>, h |-> Absent]

\* a URL of the engine's origin: the form of its path, the prefix at its mint, its
\* token, the destination it seals or the path it shows, what a page appended to its
\* path, and its own query and fragment
Blank == [form |-> "route", pre |-> "j", tok |-> NoToken, at |-> Nowhere, wraps |-> 0,
          joined |-> FALSE, tail |-> <<>>, q |-> <<>>, h |-> Absent]

--------------------------------------------------------------------------------
(* Tokens. *)

Verifies(t) == \E i \in 1..Len(keys) : keys[i] = t.key
Live(t) == Verifies(t) /\ ~t.route /\ now <= t.exp
Expired(t) == Verifies(t) /\ ~t.route /\ now > t.exp

\* encodeNavHandle: the site, an expiry and the window that owns the route
Token(o, root) ==
  [key |-> Head(keys), o |-> o, route |-> FALSE, exp |-> now + Ttl, root |-> root]

\* Mutant (before #633): only live tokens are the engine's.
OnlyLive(t) == Live(t)
\* navqEngineOrigin: live or expired, and not the seal of a route
EngineOrigin(t) == Verifies(t) /\ ~t.route

Cleaned(q) == SelectSeq(q, LAMBDA t : ~EngineOrigin(t))

--------------------------------------------------------------------------------
(* Minting. *)

\* the seal of a route: the newest key, or plain base64url without one
EncodeDest(d, wraps) ==
  [Blank EXCEPT !.pre = prefix, !.wraps = wraps, !.at = [d EXCEPT !.h = Absent], !.h = d.h,
                !.tok.route = TRUE, !.tok.key = IF keys = <<>> THEN Legacy ELSE Head(keys)]

Escaped(lead) == IF lead = "two" THEN "coded" ELSE lead
Restored(lead) == IF lead = "coded" THEN "two" ELSE lead
Shows(d) == [d EXCEPT !.o = Absent, !.q = <<>>, !.h = Absent, !.lead = Escaped(d.lead)]

Mintable == keys # <<>>
BuildNavHandle(d, root) ==
  [Blank EXCEPT !.form = "navh", !.pre = prefix, !.tok = Token(d.o, root),
                !.at = Shows(d), !.q = d.q, !.h = d.h]

\* queryHandlePathShaped: an asset, a path under the prefix, a marker or another root
\* of the engine; a query form never has one of these paths
Shaped(p, lead) == lead = "one" /\ p \in {prefix, "asset"}
BuildQueryHandle(d, root) ==
  [Blank EXCEPT !.form = "query", !.pre = prefix, !.tok = Token(d.o, root),
                !.at = Shows(d), !.q = Append(Cleaned(d.q), Token(d.o, root)), !.h = d.h]

\* with queryRoutes the query form, and the handle where its path is the engine's
Handles(d, root) ==
  {BuildNavHandle(d, root)} \cup
  IF Shaped(d.p, d.lead) THEN {} ELSE {BuildQueryHandle(d, root)}

--------------------------------------------------------------------------------
(* Reading. *)

With(d, q) == IF d = Nowhere THEN d ELSE [d EXCEPT !.q = @ \o q]

\* is the path one of the engine's, under the prefix of today?
EnginePath(l) ==
  CASE l.form = "query" -> Shaped(l.at.p, l.at.lead)
    [] l.form = "route" -> l.pre = prefix
    [] OTHER -> TRUE

LiveOrigins(q) == SelectSeq(q, Live)
DecodeQueryHandle(l) ==
  IF EnginePath(l) \/ LiveOrigins(l.q) = <<>> THEN Nowhere
  ELSE [o |-> Head(LiveOrigins(l.q)).o, p |-> IF l.form = "query" THEN l.at.p ELSE "route",
        lead |-> Restored(l.at.lead), q |-> Cleaned(l.q), h |-> Absent]

\* what the page appended to its handle: a deeper virtual path replaces the ones before
\* it; a marker is a destination of its own; "//" would leave the site
Peeled(l) ==
  LET deepest == Last(l.tail)
  IN CASE Len(l.tail) > Peels \/ deepest.kind = "escape" -> Nowhere
       [] deepest.kind = "marker" -> deepest.at
       [] OTHER -> [deepest.at EXCEPT !.o = l.tok.o]

DecodeNavHandlePath(l, expired) ==
  IF ~(Live(l.tok) \/ (expired /\ Verifies(l.tok))) THEN Nowhere
  ELSE IF l.tail = <<>> THEN [l.at EXCEPT !.o = l.tok.o, !.lead = Restored(@)]
  ELSE Peeled(l)

\* keyedDecode with every key of the list; a legacy tail always reads
Unsealed(l) == IF l.tok.key = Legacy \/ Verifies(l.tok) THEN l.at ELSE Nowhere
DecodePath(l) == IF l.pre = prefix /\ ~l.joined THEN Unsealed(l) ELSE Nowhere
\* a route of a worker that has not been configured yet
DecodeLegacyRoute(l) == IF l.pre \in {prefix, "zl"} /\ ~l.joined THEN Unsealed(l) ELSE Nowhere
\* plain text after a token: only under a seal, and only for a key that is held
RecoverPath(l) ==
  IF l.form = "route" /\ l.pre = prefix /\ l.joined /\ Verifies(l.tok)
    THEN [l.at EXCEPT !.p = "joined"] ELSE Nowhere

NoHash(l) ==
  CASE l.form = "marker" -> With(l.at, l.q)
    [] DecodeQueryHandle(l) # Nowhere -> DecodeQueryHandle(l)
    [] l.form = "navh" -> With(DecodeNavHandlePath(l, FALSE), l.q)
    [] l.form = "route" -> With(IF DecodePath(l) # Nowhere THEN DecodePath(l)
                                ELSE DecodeLegacyRoute(l), l.q)
    [] OTHER -> Nowhere
DecodeClientUrl(l) == IF NoHash(l) = Nowhere THEN Nowhere ELSE [NoHash(l) EXCEPT !.h = l.h]

\* unwrapDest: older rewriters wrapped a route again at each pass
Unwrapped(l, d) ==
  IF d = Nowhere \/ l.wraps = 0 \/ (l.pre = prefix /\ l.wraps <= Hops) THEN d
  ELSE [d EXCEPT !.p = "route"]
Known(l) ==
  LET d == DecodeClientUrl(l) IN Unwrapped(l, IF d # Nowhere THEN d ELSE [RecoverPath(l) EXCEPT !.h = l.h])

\* referrerDest: only a route in the Referer names a site
ReferrerSite(l) == IF l.form = "route" THEN DecodePath(l).o ELSE Absent

--------------------------------------------------------------------------------
(* A challenge that sends the browser back to where it came from: the page's own URL,  *)
(* or one of another site, in the redir parameter.                                     *)

Home(context, l) ==
  IF context # Absent THEN context
  ELSE IF l.form = "navh" /\ Live(l.tok) THEN l.tok.o ELSE Absent

PassChallengeRedirFixed(l, foreign, context) ==
  LET decoded == CASE l.form = "navh" -> With(DecodeNavHandlePath(l, FALSE), l.q)
                   [] EnginePath(l) /\ l.form = "route" -> With(DecodePath(l), l.q)
                   [] OTHER -> Nowhere
  IN CASE foreign -> Nowhere
       [] decoded # Nowhere -> decoded
       [] Home(context, l) # Absent -> [l.at EXCEPT !.o = Home(context, l), !.q = l.q]
       [] OTHER -> Nowhere

--------------------------------------------------------------------------------
(* The worker. *)

Init ==
  /\ stored = "k1" /\ keys \in {<<"k1">>, <<>>} /\ lost = {}
  /\ prefix = "j" /\ loc = Blank /\ page = Nowhere /\ now = 0 /\ restarts = 0 /\ moves = 0

Tick ==
  /\ now < MaxTime /\ now' = now + 1
  /\ UNCHANGED <<keys, stored, lost, prefix, browser, restarts>>

\* setRouteKeys at boot: the stored key, a new one after the store was cleared, or none
\* when it cannot be read; the prefix is the default until the configuration arrives
Restart ==
  /\ restarts < MaxRestarts /\ restarts' = restarts + 1
  /\ \/ UNCHANGED <<stored, lost>>
     \/ \E k \in Keys \ (lost \cup {stored}) : stored' = k /\ lost' = lost \cup {stored}
  /\ keys' \in {<<stored'>>, <<>>} /\ prefix' \in {prefix, "j"}
  /\ UNCHANGED <<browser, now>>

\* setScheme refuses whatever is not one plain segment, and the engine's own roots
ValidSchemePrefix(p) == p \notin {"/", "__zl_nav__", "__zl_navh__", "zl-ext", "zl-cs", "zlsw-register"}
SetScheme ==
  /\ \E p \in {"j", "zl", "/", "__zl_nav__", "zl-ext"} : ValidSchemePrefix(p) /\ prefix' = p
  /\ UNCHANGED <<keys, stored, lost, browser, now, restarts>>

--------------------------------------------------------------------------------
(* The tab. *)

\* the queries a page can write into a link: its own, plain ones, an imitation, its
\* whole native query with the token in it, or its token pasted
Queries ==
  {q \in {<<>>, <<Junk>>, loc.q, <<loc.tok>>, <<Field>> \o loc.q} :
     Len(q) <= MaxParams}
\* bound: a page is out of the ordinary in its path, its slashes, its fragment or its query
Odd == {[p |-> "asset"], [p |-> "j"], [lead |-> "two"], [h |-> "anchor"]} \cup [q : Queries]
Destinations == {change @@ [Nowhere EXCEPT !.o = o, !.p = "page"] : o \in Sites, change \in Odd}

Commit(l, d) ==
  /\ moves < MaxMoves /\ moves' = moves + 1
  /\ loc' = l /\ page' = d /\ UNCHANGED worker

\* the host opens a page (zl:navHandle), its own window bound to it or not
Open ==
  \E d \in Destinations : Mintable /\ \E l \in Handles(d, Window[d.o]) : Commit(l, d)

\* a link the rewriter minted, or one that older rewriters wrapped again; a form adds a
\* query to it
Follow ==
  \E d \in Destinations, wraps \in 0..Hops + 1, q \in {<<>>, <<Field>>, loc.q} :
    /\ d.h = Absent /\ Len(q) + Len(d.q) <= MaxParams
    /\ wraps > 0 => q = <<>> /\ d.q = <<>>
    /\ d.q # <<>> => q = <<>>
    /\ Commit([EncodeDest(d, wraps) EXCEPT !.q = q], With(d, q))
\* a script glued plain text to a literal that the rewriter had sealed
Glue ==
  \E d \in Destinations :
    /\ d.q = <<>> /\ d.h = Absent
    /\ Commit([EncodeDest(d, 0) EXCEPT !.joined = TRUE], [d EXCEPT !.p = "joined"])
\* navguard's marker, in the clear
Mark ==
  \E d \in Destinations :
    d.h = Absent /\ d.q = <<>> /\ Commit([Blank EXCEPT !.form = "marker", !.pre = prefix, !.at = d], d)

\* a page on a handle moves its location: a virtual path, one that reads as another host,
\* or a marker
Move ==
  /\ loc.form = "navh" /\ Len(loc.tail) <= Peels /\ page # Nowhere
  /\ \E kind \in {"path", "escape", "marker"}, o \in Sites \ {loc.tok.o} :
       LET d == [Nowhere EXCEPT !.o = IF kind = "path" THEN loc.tok.o ELSE o,
                                !.p = IF loc.tail = <<>> THEN "page" ELSE "moved"]
       IN /\ loc' = [loc EXCEPT !.tail = Append(@, [kind |-> kind, at |-> d]), !.q = <<>>, !.h = Absent]
          /\ page' = IF kind = "escape" THEN Nowhere ELSE d
  /\ UNCHANGED <<worker, moves>>
Anchor ==
  /\ page # Nowhere /\ loc.h # "anchor"
  /\ Commit([loc EXCEPT !.h = "anchor"], [page EXCEPT !.h = "anchor"])

\* A reload past the expiry: the handle is minted anew over the same path and query.
RevisitHandle ==
  /\ loc.form = "navh" /\ Expired(loc.tok) /\ Mintable
  /\ loc' = [loc EXCEPT !.tok = Token(loc.tok.o, loc.tok.root)]
  /\ UNCHANGED <<worker, page, moves>>

\* or the query form: the first zlNavh parameter, if it is an expired token of the engine
Named(q) == SelectSeq(q, LAMBDA t : t # Field)
RevisitQuery ==
  /\ loc.form = "query" /\ ~EnginePath(loc) /\ DecodeQueryHandle(loc) = Nowhere
  /\ Named(loc.q) # <<>>
  /\ LET t == Head(Named(loc.q))
         d == [loc.at EXCEPT !.o = t.o, !.lead = Restored(@), !.h = loc.h,
                             !.q = SelectSeq(loc.q, LAMBDA u : u # t)]
     IN Expired(t) /\ loc' = BuildQueryHandle(d, t.root)
  /\ UNCHANGED <<worker, page, moves>>

Next ==
  \/ Tick \/ Restart \/ SetScheme
  \/ Open \/ Follow \/ Glue \/ Mark \/ Move \/ Anchor \/ RevisitHandle \/ RevisitQuery

Spec == Init /\ [][Next]_vars

--------------------------------------------------------------------------------
(* Properties. *)

Ours(t) == t.key \in ToSet(keys) /\ ~t.route

\* the tab's URL is one that the codec promises to read today
Readable ==
  /\ page # Nowhere
  /\ \/ loc.pre = prefix
     \/ /\ loc.form = "route" /\ loc.pre = "zl" /\ ~loc.joined /\ loc.wraps = 0
        /\ \A i \in 1..Len(loc.q) : ~Ours(loc.q[i])
  /\ loc.form \in {"navh", "query"} => loc.tok.key \in ToSet(keys) /\ now <= loc.tok.exp
  /\ loc.form = "route" => /\ loc.tok.key \in ToSet(keys) \cup (IF loc.joined THEN {} ELSE {Legacy})
                           /\ loc.wraps <= Hops
  /\ Len(loc.tail) <= Peels

TheSites(q) == SelectSeq(q, LAMBDA t : ~Ours(t))
Alike(d, e) == [d EXCEPT !.q = TheSites(@)] = [e EXCEPT !.q = TheSites(@)]

\* #144, #202, #410, #543, #612: whatever form it took, the URL names the page, to its
\* query and fragment; a Referer and a finished challenge lead to the page's site.
LocationNamesPage ==
  Readable => /\ Alike(Known(loc), page)
              /\ ReferrerSite(loc) \in {Absent, page.o}
              /\ \A context \in {Absent, page.o} :
                   PassChallengeRedirFixed(loc, FALSE, context).o \in {Absent, page.o}

\* #558, #633, #410: a query form carries one token of the engine, however often it was
\* copied, expired and minted again, asks the site for none, and its path is not one that
\* the engine would answer itself.
QueryFormsAreClean ==
  loc.form = "query" =>
    /\ Len(SelectSeq(loc.q, Ours)) <= 1
    /\ SelectSeq(Known(loc).q, Ours) = <<>>
    /\ loc.at.lead = "one" => loc.at.p \notin {loc.pre, "asset"}

\* #202: a handle never leads from its site, unless a marker in it names another.
HandleKeepsToItsSite ==
  loc.form = "navh" /\ (loc.tail = <<>> \/ Last(loc.tail).kind # "marker") =>
    Known(loc).o \in {Absent, loc.tok.o}
=============================================================================
