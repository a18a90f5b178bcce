----------------------------- MODULE RequestProofs -----------------------------
(***************************************************************************)
(* Proofs about requests on their way out, for any number of clients,      *)
(* sites, requests, URLs, hops and uploads: a request finds the home of    *)
(* its own page and a context follows its page (the intake of              *)
(* RequestEngine), nothing travels a chain of redirects that is not meant  *)
(* for its destination (its chain), the spools of request bodies keep      *)
(* their budgets, bytes and files (BodySpool), a route stays decodable     *)
(* over restarts (RouteKeys), and a page of an account stays out of the    *)
(* page cache (the first part of WorkerCaches).                            *)
(***************************************************************************)
EXTENDS RequestEngine, BodySpool, RouteKeys, WorkerCaches, FiniteSetTheorems, TLAPS

--------------------------------------------------------------------------------
(* The intake. *)

Entries == Clients \X Sites \X BOOLEAN
Places == {"idle", "routing", "looking", "resolved", "gated", "fetching"}

Docs == [named : Sites, asked : Sites, at : Sites, form : Forms]
TurnCounts == [route : 0..1, path : 0..1]

Typed ==
  /\ doc \in [Clients -> {Blank} \cup Docs]
  /\ expired \subseteq Clients /\ forgot \subseteq Clients
  /\ ctx \in Seq(Entries) /\ Len(ctx) <= Cap
  /\ req \in [Requests -> Inputs \cup {Nothing}]
  /\ pc \in [Requests -> Places]
  /\ dest \in [Requests -> Sites \cup {None}]
  /\ initiator \in [Requests -> Sites \cup {None}]
  /\ turns \in [Requests -> TurnCounts] /\ restarts \in 0..MaxRestarts

\* what is held of a request at each place; a client is created by one request, and has
\* no document before that request is served
Asks(r) ==
  /\ pc[r] = "idle" <=> req[r] = Nothing
  /\ pc[r] # "idle" => req[r] \in Inputs
  /\ pc[r] = "idle" => dest[r] = None /\ initiator[r] = None
  /\ req[r].from # None => Shown(req[r].from)
  /\ IsNav(r) => /\ doc[req[r].new] = Blank
                 /\ \A q \in Requests : req[q].new = req[r].new => q = r
  /\ pc[r] # "idle" /\ ~IsNav(r) =>
       /\ req[r].from # None
       /\ \/ req[r].shape = "foreign"
          \/ req[r].shape \in {"bare", "tail", "prel"} /\ req[r].site = doc[req[r].from].named
  /\ req[r].shape = "tail" => req[r].from # None
  /\ pc[r] \in {"resolved", "gated", "fetching"} => dest[r] \in Sites
  /\ pc[r] = "fetching" => IsNav(r)
  /\ pc[r] = "looking" => turns[r] = Unturned
  /\ turns[r] # Unturned => req[r].get /\ IsNav(r) /\ req[r].shape \in Tokened /\ ~req[r].stale
  /\ turns[r].path > 0 => req[r].within = None

Homes(r) ==
  Shown(req[r].from) /\ req[r].new = None =>
    /\ initiator[r] \in Own(req[r].from) \cup {None}
    /\ req[r].shape # "foreign" => dest[r] \in Own(req[r].from) \cup {None, req[r].within}

\* the context of a page that is shown names a site of that page, and that of one that is
\* being fetched names its destination
OwnContext(i) ==
  /\ Shown(ctx[i][1]) => ctx[i][2] \in Own(ctx[i][1])
  /\ \A r \in Requests : pc[r] = "fetching" /\ req[r].new = ctx[i][1] => ctx[i][2] = dest[r]
\* a page whose context was never lost has one, and it is where the page lives
CurrentContext(c) ==
  /\ Shown(c) => Known(c) /\ \A i \in 1..Len(ctx) : ctx[i][1] = c => ctx[i][2] = doc[c].at
  /\ \A r \in Requests : pc[r] = "fetching" /\ req[r].new = c => Known(c)
Contexts ==
  /\ \A i \in 1..Len(ctx) : OwnContext(i)
  /\ \A c \in Clients \ forgot : CurrentContext(c)

IInv == Typed /\ (\A r \in Requests : Asks(r) /\ Homes(r)) /\ Contexts

\* The initial state satisfies the invariant.
LEMMA IntakeInitial == Init => IInv
<1> SUFFICES ASSUME Init PROVE IInv  OBVIOUS
<1>1. Typed
  BY IntakeAssumption DEF Init, Typed, Places, Entries, Unturned, TurnCounts
<1>2. ASSUME NEW r \in Requests PROVE Asks(r) /\ Homes(r)
  BY <1>2 DEF Init, Asks, Homes, Nothing, Shown, IsNav
<1>3. Len(ctx) = 0 /\ \A c \in Clients : ~Shown(c) /\ \A r \in Requests : pc[r] # "fetching"
  BY DEF Init, Shown
<1>4. Contexts
  BY <1>3 DEF Contexts, CurrentContext
<1> QED  BY <1>1, <1>2, <1>4 DEF IInv

\* The map new is what m becomes with the site s for the client c: it keeps its type and the
\* cap, names s for c, and every other entry is an old one.
Renews(m, c, s, new) ==
  /\ new \in Seq(Entries) /\ Len(new) <= Cap
  /\ \A j \in 1..Len(new) : new[j][1] = c => new[j][2] = s
  /\ \A j \in 1..Len(new) : new[j][1] # c => \E i \in 1..Len(m) : m[i] = new[j]
  /\ \E j \in 1..Len(new) : new[j][1] = c
Placed(m, c, s, b) == Capped(Established(m, c, s, b))

\* establishContext with capContexts renews the map for its client.
LEMMA PlacedFacts ==
  ASSUME NEW m \in Seq(Entries), Len(m) <= Cap,
         NEW c \in Clients, NEW s \in Sites, NEW b \in BOOLEAN
  PROVE  Renews(m, c, s, Placed(m, c, s, b))
<1> DEFINE e == <<c, s, b>>
           held == \E i \in 1..Len(m) : m[i][1] = c
           est == Established(m, c, s, b)
           new == Capped(est)
<1> e \in Entries /\ e[1] = c /\ e[2] = s  BY DEF Entries
<1> HIDE DEF e
<1>c. Cap \in Nat \ {0}  BY IntakeAssumption
<1> SUFFICES Renews(m, c, s, new)  BY DEF Placed
<1>1. CASE held
  <2>1. est = [i \in 1..Len(m) |-> IF m[i][1] = c THEN e ELSE m[i]]
    BY <1>1 DEF Established, e
  <2> HIDE DEF est
  <2>2. est \in Seq(Entries) /\ Len(est) = Len(m)
    BY <2>1
  <2>3. new = est  BY <2>2, <1>c DEF Capped
  <2>4. \A j \in 1..Len(est) : est[j] = IF m[j][1] = c THEN e ELSE m[j]
    BY <2>1, <2>2
  <2> HIDE DEF new
  <2>5. \E j \in 1..Len(new) : new[j][1] = c
    BY <1>1, <2>2, <2>3, <2>4
  <2> QED  BY <2>2, <2>3, <2>4, <2>5 DEF Renews
<1>2. CASE ~held
  <2>1. est = Append(m, e)  BY <1>2 DEF Established, e
  <2> HIDE DEF est
  <2>2. /\ est \in Seq(Entries) /\ Len(est) = Len(m) + 1 /\ est[Len(m) + 1] = e
        /\ \A i \in 1..Len(m) : est[i] = m[i]
    BY <2>1
  <2>a. \A j \in 1..Len(est) : j = Len(est) \/ j \in 1..Len(m)  BY <2>2
  <2>3. CASE Len(est) <= Cap
    <3>1. new = est  BY <2>3, <2>2, <1>c DEF Capped
    <3> HIDE DEF new
    <3>2. \A j \in 1..Len(new) : new[j][1] = c => new[j][2] = s
      BY <1>2, <2>2, <2>a, <3>1
    <3>3. \A j \in 1..Len(new) : new[j][1] # c => \E i \in 1..Len(m) : m[i] = new[j]
      BY <2>2, <2>a, <3>1
    <3>4. \E j \in 1..Len(new) : new[j][1] = c  BY <2>2, <3>1
    <3> QED  BY <2>2, <2>3, <3>1, <3>2, <3>3, <3>4 DEF Renews
  <2>4. CASE Len(est) > Cap
    <3>1. Len(m) = Cap /\ Len(est) = Cap + 1  BY <2>2, <2>4, <1>c
    <3>2. new = SubSeq(est, 2, Cap + 1)  BY <2>4, <3>1, <1>c DEF Capped
    <3> HIDE DEF new
    <3>3. new \in Seq(Entries) /\ Len(new) = Cap /\ \A j \in 1..Cap : new[j] = est[j + 1]
      BY <2>2, <3>1, <3>2, <1>c
    <3>4. \A j \in 1..Cap : j + 1 = Len(est) \/ j + 1 \in 1..Len(m)  BY <3>1, <1>c
    <3>5. \A j \in 1..Len(new) : new[j][1] = c => new[j][2] = s
      BY <1>2, <2>2, <3>1, <3>3, <3>4
    <3>6. \A j \in 1..Len(new) : new[j][1] # c => \E i \in 1..Len(m) : m[i] = new[j]
      BY <2>2, <3>1, <3>3, <3>4
    <3>7. Cap \in 1..Len(new) /\ new[Cap] = e  BY <1>c, <2>2, <3>1, <3>3
    <3> QED  BY <3>3, <3>5, <3>6, <3>7, <1>c DEF Renews
  <2> QED  BY <2>2, <2>3, <2>4, <1>c
<1> QED  BY <1>1, <1>2

\* rehydrateClientContext: what it adds to the map is of the page it looked up
LEMMA RehydratedFacts ==
  ASSUME Typed, NEW c, c # None => c \in Clients, NEW found \in BOOLEAN
  PROVE  LET map == Rehydrated(c, found) IN
           /\ map \in Seq(Entries) /\ Len(map) <= Cap
           /\ \A j \in 1..Len(map) :
                \/ \E i \in 1..Len(ctx) : ctx[i] = map[j]
                \/ Shown(c) /\ map[j][1] = c /\ map[j][2] = doc[c].named
<1>1. CASE found /\ Decodes(c)
  <2>1. c \in Clients /\ Shown(c) /\ doc[c].named \in Sites
    BY <1>1 DEF Decodes, Shown, Typed, Docs
  <2>2. Rehydrated(c, found) = Capped(Established(ctx, c, doc[c].named, doc[c].form \in Tokened))
    BY <1>1 DEF Rehydrated
  <2> DEFINE b == doc[c].form \in Tokened
  <2>3. Rehydrated(c, found) = Placed(ctx, c, doc[c].named, b) /\ b \in BOOLEAN
    BY <2>2 DEF Placed
  <2> HIDE DEF b
  <2>5. Renews(ctx, c, doc[c].named, Rehydrated(c, found))
    BY <2>1, <2>3, PlacedFacts DEF Typed
  <2> QED  BY <2>1, <2>5 DEF Renews
<1>2. CASE ~(found /\ Decodes(c))
  <2>1. Rehydrated(c, found) = ctx  BY <1>2 DEF Rehydrated
  <2> QED  BY <2>1 DEF Typed
<1> QED  BY <1>1, <1>2

\* A step that shows no new page and neither starts nor ends a fetch keeps the contexts,
\* if what it adds to the map is of a page without a context.
LEMMA ContextsKept ==
  ASSUME Typed, Contexts, Typed', doc' = doc,
         \A q \in Requests : IsNav(q) => doc[req[q].new] = Blank,
         NEW c, ~Known(c),
         forgot \cup Lost(ctx, ctx') \subseteq forgot',
         \A j \in 1..Len(ctx') :
           \/ \E i \in 1..Len(ctx) : ctx[i] = ctx'[j]
           \/ Shown(c) /\ ctx'[j][1] = c /\ ctx'[j][2] = doc[c].named,
         \A q \in Requests : /\ pc'[q] = "fetching" <=> pc[q] = "fetching"
                             /\ pc[q] = "fetching" => req'[q] = req[q] /\ dest'[q] = dest[q]
  PROVE  Contexts'
<1>1. \A x : Shown(x)' <=> Shown(x)  BY DEF Shown
<1>2. \A x : Own(x)' = Own(x)  BY DEF Own
<1>3. ASSUME NEW j \in 1..Len(ctx') PROVE OwnContext(j)'
  <2>1. CASE \E i \in 1..Len(ctx) : ctx[i] = ctx'[j]
    <3>1. PICK i \in 1..Len(ctx) : ctx[i] = ctx'[j]  BY <2>1
    <3>2. OwnContext(i)  BY DEF Contexts
    <3> QED  BY <1>1, <1>2, <3>1, <3>2 DEF OwnContext
  <2>2. CASE Shown(c) /\ ctx'[j][1] = c /\ ctx'[j][2] = doc[c].named
    <3>1. ASSUME NEW q \in Requests, pc'[q] = "fetching", req'[q].new = c PROVE FALSE
      BY <2>2, <3>1 DEF IsNav, Shown
    <3> QED  BY <1>1, <1>2, <2>2, <3>1 DEF OwnContext, Own
  <2> QED  BY <1>3, <2>1, <2>2
<1>4. ASSUME NEW d \in Clients \ forgot' PROVE CurrentContext(d)'
  <2>1. d \in Clients \ forgot /\ d \notin Lost(ctx, ctx')  OBVIOUS
  <2>2. CurrentContext(d)  BY <2>1 DEF Contexts
  <2>3. Known(d) => Known(d)'
    BY <2>1 DEF Known, Lost
  <2>4. Shown(d) => \A i \in 1..Len(ctx') : ctx'[i][1] = d => ctx'[i][2] = doc'[d].at
    BY <2>2 DEF CurrentContext
  <2> QED  BY <1>1, <2>2, <2>3, <2>4 DEF CurrentContext
<1> QED  BY <1>3, <1>4 DEF Contexts

\* What a branch of the routing decides for a request: a destination, which for a
\* subresource of the engine's own is where its page is, unless the path carries another;
\* its end; the same navigation again in a visible form, once; or a lookup of its page.
Decided(r) ==
  \/ \E site \in Sites :
       To(r, site) /\ (~IsNav(r) /\ req[r].shape # "foreign" => site \in Own(req[r].from))
  \/ Ends(r)
  \/ turns[r] = Unturned /\ \E site \in Sites, forms \in SUBSET Tokened : Turn(r, site, forms)
  \/ Awaits(r) /\ turns[r] = Unturned

\* What every decision keeps of the requests.
Kept ==
  /\ req' \in [Requests -> Inputs \cup {Nothing}] /\ pc' \in [Requests -> Places]
  /\ dest' \in [Requests -> Sites \cup {None}]
  /\ initiator' \in [Requests -> Sites \cup {None}] /\ turns' \in [Requests -> TurnCounts]
  /\ \A q \in Requests : Asks(q)' /\ Homes(q)'
  /\ \A q \in Requests : /\ pc'[q] = "fetching" <=> pc[q] = "fetching"
                         /\ pc[q] = "fetching" => req'[q] = req[q] /\ dest'[q] = dest[q]

\* A navigation that is sent again asks for the site it is sent to, by a fresh token.
LEMMA Sent302Keeps ==
  ASSUME IInv, NEW r \in Requests, pc[r] \in {"routing", "looking", "gated"},
         NEW site \in Sites, NEW forms \in SUBSET Tokened, NEW within \in Sites \cup {None},
         Sent302(r, site, forms, within),
         NEW n \in TurnCounts, turns' = [turns EXCEPT ![r] = n],
         n.path > 0 => within = None,
         doc' = doc, expired' = expired, restarts' = restarts
  PROVE  Kept
<1> USE IntakeAssumption
<1>0. Typed /\ \A q \in Requests : Asks(q) /\ Homes(q)  BY DEF IInv
<1>1. PICK form \in Tokened :
        /\ req' = [req EXCEPT ![r].shape = form, ![r].site = site, ![r].stale = FALSE,
                              ![r].within = within]
        /\ pc' = [pc EXCEPT ![r] = "routing"] /\ UNCHANGED <<dest, initiator>>
  BY DEF Sent302
<1>a. req[r] \in Inputs /\ IsNav(r) /\ req[r].get
  BY <1>0 DEF Asks, Sent302, Turns
<1>b. /\ req'[r] \in Inputs /\ req'[r].new = req[r].new /\ req'[r].from = req[r].from
      /\ req'[r].shape \in Tokened /\ req'[r] # Nothing /\ req'[r].within = within
      /\ req'[r].get = TRUE /\ req'[r].stale = FALSE
  <2>1. req'[r] = [req[r] EXCEPT !.shape = form, !.site = site, !.stale = FALSE,
                                 !.within = within]
    BY <1>0, <1>1 DEF Typed
  <2>2. form \in Shapes /\ req[r].get = TRUE  BY <1>a DEF Shapes, Inputs
  <2>3. req'[r] \in Inputs /\ req'[r].site \in Sites  BY <1>a, <2>1, <2>2 DEF Inputs
  <2>4. /\ req'[r].new = req[r].new /\ req'[r].from = req[r].from /\ req'[r].within = within
        /\ req'[r].shape = form /\ req'[r].get = TRUE /\ req'[r].stale = FALSE
    BY <1>a, <2>1, <2>2 DEF Inputs
  <2>5. req'[r] # Nothing  BY <2>3 DEF Nothing
  <2> QED  BY <2>3, <2>4, <2>5
<1>c. \A q \in Requests : q # r => req'[q] = req[q] /\ pc'[q] = pc[q] /\ turns'[q] = turns[q]
  BY <1>0, <1>1 DEF Typed
<1>d. pc'[r] = "routing" /\ turns'[r] = n
  BY <1>0, <1>1 DEF Typed
<1>2. /\ req' \in [Requests -> Inputs \cup {Nothing}] /\ pc' \in [Requests -> Places]
      /\ dest' \in [Requests -> Sites \cup {None}]
      /\ initiator' \in [Requests -> Sites \cup {None}] /\ turns' \in [Requests -> TurnCounts]
  <2>1. req' \in [Requests -> Inputs \cup {Nothing}]
    BY <1>0, <1>1, <1>b, <1>c DEF Typed
  <2> QED  BY <1>0, <1>1, <2>1 DEF Typed, Places
<1>e. \A q \in Requests : IsNav(q)' = IsNav(q) /\ req'[q].new = req[q].new /\ req'[q].from = req[q].from
  BY <1>b, <1>c DEF IsNav
<1>3. ASSUME NEW q \in Requests PROVE Asks(q)'
  <2>1. Asks(q)  BY <1>0
  <2>2. CASE q = r
    <3>1. /\ pc[r] # "idle" /\ (req[r].from # None => Shown(req[r].from))
          /\ doc[req[r].new] = Blank
          /\ \A p \in Requests : req[p].new = req[r].new => p = r
      BY <1>a, <2>1, <2>2 DEF Asks
    <3>2. IsNav(r)'  BY <1>a, <1>b DEF IsNav
    <3>3. req'[r].from # None => doc'[req'[r].from] # Blank  BY <1>e, <3>1 DEF Shown
    <3>4. /\ doc'[req'[r].new] = Blank
          /\ \A p \in Requests : req'[p].new = req'[r].new => p = r
      BY <1>e, <3>1
    <3>5. req'[r].shape # "tail"  BY <1>b DEF Tokened
    <3>6. turns'[r].path > 0 => req'[r].within = None  BY <1>b, <1>d
    <3>7. Asks(r)'  BY <1>b, <1>d, <3>2, <3>3, <3>4, <3>5, <3>6 DEF Asks, IsNav, Shown
    <3> QED  BY <2>2, <3>7
  <2>3. CASE q # r
    <3>1. IsNav(q)' = IsNav(q) /\ Shown(req[q].from)' = Shown(req[q].from)  BY <1>e DEF Shown
    <3> QED  BY <1>1, <1>c, <1>e, <2>1, <2>3, <3>1 DEF Asks, IsNav, Shown
  <2> QED  BY <2>2, <2>3
<1>4. ASSUME NEW q \in Requests PROVE Homes(q)'
  <2>1. Homes(q)  BY <1>0
  <2> QED  BY <1>1, <1>a, <1>c, <1>e, <2>1 DEF Homes, IsNav, Own, Shown
<1>5. \A q \in Requests : /\ pc'[q] = "fetching" <=> pc[q] = "fetching"
                          /\ pc[q] = "fetching" => req'[q] = req[q] /\ dest'[q] = dest[q]
  BY <1>1, <1>c, <1>d
<1> QED  BY <1>2, <1>3, <1>4, <1>5 DEF Kept

\* Whatever is decided, each request still asks for what it did and is given its own home.
LEMMA DecidedKeeps ==
  ASSUME IInv, NEW r \in Requests, pc[r] \in {"routing", "looking", "gated"}, Decided(r),
         doc' = doc, expired' = expired, restarts' = restarts
  PROVE  Kept
<1> USE IntakeAssumption
<1>0. Typed /\ \A q \in Requests : Asks(q) /\ Homes(q)  BY DEF IInv
<1>a. pc[r] # "idle" => req[r] \in Inputs  BY <1>0 DEF Asks
<1>b. req[r] \in Inputs /\ req[r].within \in Sites \cup {None}  BY <1>a DEF Inputs
<1>c. turns[r] \in TurnCounts  BY <1>0 DEF Typed
<1>1. CASE \E site \in Sites :
         To(r, site) /\ (~IsNav(r) /\ req[r].shape # "foreign" => site \in Own(req[r].from))
  <2>1. PICK site \in Sites :
           To(r, site) /\ (~IsNav(r) /\ req[r].shape # "foreign" => site \in Own(req[r].from))
    BY <1>1
  <2> DEFINE carried == req[r].within
             there == IF carried = None THEN site ELSE carried
  <2>2. CASE /\ carried # None /\ Sent302(r, carried, Tokened, None)
             /\ turns' = [turns EXCEPT ![r].path = @ + 1]
    <3>1. carried \in Sites  BY <1>b, <2>2
    <3>2. turns[r].path = 0
      <4>1. ~(turns[r].path > 0)  BY <1>0, <2>2 DEF Asks
      <4> QED  BY <1>c, <4>1 DEF TurnCounts
    <3> DEFINE n == [turns[r] EXCEPT !.path = 1]
    <3>3. n \in TurnCounts  BY <1>c DEF TurnCounts
    <3>4. turns' = [turns EXCEPT ![r] = n]
      <4>1. turns[r].path + 1 = 1  BY <3>2
      <4> QED  BY <2>2, <4>1
    <3> HIDE DEF n
    <3> QED  BY <2>2, <3>1, <3>3, <3>4, Sent302Keeps
  <2>3. CASE /\ dest' = [dest EXCEPT ![r] = there] /\ pc' = [pc EXCEPT ![r] = "resolved"]
             /\ UNCHANGED <<req, turns, initiator>>
    <3>1. there \in Sites /\ (there = site \/ there = carried)  BY <1>b
    <3> HIDE DEF there
    <3>2. /\ req' \in [Requests -> Inputs \cup {Nothing}] /\ pc' \in [Requests -> Places]
          /\ dest' \in [Requests -> Sites \cup {None}]
          /\ initiator' \in [Requests -> Sites \cup {None}] /\ turns' \in [Requests -> TurnCounts]
      BY <1>0, <2>3, <3>1 DEF Typed, Places
    <3>3. ASSUME NEW q \in Requests PROVE Asks(q)'
      <4>1. Asks(q)  BY <1>0
      <4> QED  BY <1>0, <2>3, <3>1, <4>1 DEF Asks, IsNav, Shown, Typed, Places
    <3>4. ASSUME NEW q \in Requests PROVE Homes(q)'
      <4>1. Homes(q)  BY <1>0
      <4> QED  BY <1>0, <2>1, <2>3, <3>1, <4>1 DEF Homes, IsNav, Own, Shown, Typed
    <3>5. \A q \in Requests : /\ pc'[q] = "fetching" <=> pc[q] = "fetching"
                              /\ pc[q] = "fetching" => req'[q] = req[q] /\ dest'[q] = dest[q]
      BY <1>0, <2>3 DEF Typed
    <3> QED  BY <3>2, <3>3, <3>4, <3>5 DEF Kept
  <2> QED  BY <2>1, <2>2, <2>3 DEF To
<1>2. CASE Ends(r)
  <2>2. /\ req' \in [Requests -> Inputs \cup {Nothing}] /\ pc' \in [Requests -> Places]
        /\ dest' \in [Requests -> Sites \cup {None}]
        /\ initiator' \in [Requests -> Sites \cup {None}] /\ turns' \in [Requests -> TurnCounts]
    <3>1. Unturned \in TurnCounts  BY DEF Unturned, TurnCounts
    <3> QED  BY <1>0, <1>2, <3>1 DEF Typed, Ends, Places
  <2>3. ASSUME NEW q \in Requests PROVE Asks(q)'
    <3>1. Asks(q)  BY <1>0
    <3>2. CASE q = r
      <4>1. /\ req'[q] = Nothing /\ pc'[q] = "idle" /\ turns'[q] = Unturned
            /\ dest'[q] = None /\ initiator'[q] = None
        BY <1>0, <1>2, <3>2 DEF Ends, Typed
      <4> QED  BY <4>1 DEF Asks, IsNav, Nothing
    <3>3. CASE q # r
      <4>1. /\ req'[q] = req[q] /\ pc'[q] = pc[q] /\ turns'[q] = turns[q] /\ dest'[q] = dest[q]
            /\ initiator'[q] = initiator[q]
            /\ \A p \in Requests : req'[p] = req[p] \/ req'[p] = Nothing
        BY <1>0, <1>2, <3>3 DEF Ends, Typed
      <4> QED  BY <3>1, <4>1 DEF Asks, IsNav, Nothing, Shown
    <3> QED  BY <3>2, <3>3
  <2>4. ASSUME NEW q \in Requests PROVE Homes(q)'
    <3>1. Homes(q)  BY <1>0
    <3> QED  BY <1>0, <1>2, <3>1 DEF Homes, Own, Shown, Ends, Typed, Nothing
  <2>5. \A q \in Requests : /\ pc'[q] = "fetching" <=> pc[q] = "fetching"
                            /\ pc[q] = "fetching" => req'[q] = req[q] /\ dest'[q] = dest[q]
    BY <1>0, <1>2 DEF Ends, Typed
  <2> QED  BY <2>2, <2>3, <2>4, <2>5 DEF Kept
<1>3. CASE turns[r] = Unturned /\ \E site \in Sites, forms \in SUBSET Tokened : Turn(r, site, forms)
  <2>1. PICK site \in Sites, forms \in SUBSET Tokened : Turn(r, site, forms)
    BY <1>3
  <2> DEFINE n == [route |-> 1, path |-> 0]
  <2>2. turns' = [turns EXCEPT ![r] = n]
    <3>1. [turns[r] EXCEPT !.route = @ + 1] = n  BY <1>3 DEF Unturned
    <3> QED  BY <2>1, <3>1 DEF Turn
  <2>3. n \in TurnCounts /\ ~(n.path > 0)  BY DEF TurnCounts
  <2> HIDE DEF n
  <2> QED  BY <1>b, <2>1, <2>2, <2>3, Sent302Keeps DEF Turn
<1>4. CASE Awaits(r) /\ turns[r] = Unturned
  <2>2. /\ req' \in [Requests -> Inputs \cup {Nothing}] /\ pc' \in [Requests -> Places]
        /\ dest' \in [Requests -> Sites \cup {None}]
        /\ initiator' \in [Requests -> Sites \cup {None}] /\ turns' \in [Requests -> TurnCounts]
    BY <1>0, <1>4 DEF Typed, Awaits, Places
  <2>3. ASSUME NEW q \in Requests PROVE Asks(q)'
    <3>1. Asks(q)  BY <1>0
    <3> QED  BY <1>0, <1>4, <3>1 DEF Asks, IsNav, Shown, Awaits, Typed
  <2>4. ASSUME NEW q \in Requests PROVE Homes(q)'
    <3>1. Homes(q)  BY <1>0
    <3> QED  BY <1>0, <1>4, <3>1 DEF Homes, Own, Shown, Awaits
  <2>5. \A q \in Requests : /\ pc'[q] = "fetching" <=> pc[q] = "fetching"
                            /\ pc[q] = "fetching" => req'[q] = req[q] /\ dest'[q] = dest[q]
    BY <1>0, <1>4 DEF Awaits, Typed
  <2> QED  BY <2>2, <2>3, <2>4, <2>5 DEF Kept
<1> QED  BY <1>1, <1>2, <1>3, <1>4 DEF Decided

\* A context that is known is one of the page's own.
LEMMA ContextIsOwn ==
  ASSUME IInv, NEW c, Shown(c), Known(c)
  PROVE  ContextOf(c)[2] \in Sites \cap Own(c)
<1>1. ContextOf(c)[1] = c /\ \E i \in 1..Len(ctx) : ContextOf(c) = ctx[i]
  BY DEF ContextOf, Known
<1>2. PICK i \in 1..Len(ctx) : ContextOf(c) = ctx[i]  BY <1>1
<1>3. ctx[i] \in Entries  BY DEF IInv, Typed
<1>4. OwnContext(i)  BY DEF IInv, Contexts
<1> QED  BY <1>1, <1>2, <1>3, <1>4 DEF OwnContext, Entries

\* A known context of a page that asks is its own, and of Turn and To the site is one.
LEMMA RouteDecides ==
  ASSUME IInv, NEW r \in Requests, Route(r)
  PROVE  Decided(r) /\ pc[r] = "routing"
<1> USE IntakeAssumption
<1>0. pc[r] = "routing"  BY DEF Route
<1> SUFFICES Decided(r)  BY <1>0
<1>1. Typed /\ Asks(r) /\ Homes(r)  BY DEF IInv
<1>2. req[r] \in Inputs /\ req[r].site \in Sites  BY <1>0, <1>1 DEF Asks, Inputs
<1>4. ~(req[r].shape \in Tokened /\ ~req[r].stale) => turns[r] = Unturned
  BY <1>1 DEF Asks
<1>3. {"query"} \in SUBSET Tokened /\ {"handle"} \in SUBSET Tokened  BY DEF Tokened
<1>5. req[r].from # None => Shown(req[r].from) /\ req[r].from \in Clients
  BY <1>1, <1>2 DEF Asks, Inputs
<1>6. ~IsNav(r) => req[r].from # None /\ req[r].shape \in {"foreign", "bare", "tail", "prel"}
  BY <1>0, <1>1 DEF Asks
<1>7. ~IsNav(r) /\ req[r].shape # "foreign" => req[r].site = doc[req[r].from].named
  BY <1>0, <1>1 DEF Asks
<1>8. \A c \in Clients : Shown(c) => doc[c].named \in Sites /\ doc[c].named \in Own(c)
  BY <1>1 DEF Typed, Shown, Own, Docs
<1>9. \A c \in Clients : Shown(c) /\ Known(c) => ContextOf(c)[2] \in Sites /\ ContextOf(c)[2] \in Own(c)
  BY ContextIsOwn
<1>10. CASE ExpiredQuery(r)
  BY <1>2, <1>3, <1>4, <1>10 DEF ExpiredQuery, Decided
<1>11. CASE Foreign(r)
  BY <1>2, <1>11 DEF Foreign, Decided
<1>12. CASE LiveQuery(r)
  BY <1>2, <1>6, <1>12 DEF LiveQuery, Decided
<1>13. CASE Prel(r)
  BY <1>2, <1>4, <1>5, <1>6, <1>7, <1>8, <1>13 DEF Prel, Decided, Tokened
<1>14. CASE Marker(r)
  BY <1>2, <1>4, <1>6, <1>14 DEF Marker, Decided, Tokened
<1>15. CASE Handle(r)
  <2>1. IsNav(r)  BY <1>6, <1>15 DEF Handle
  <2>2. CASE req[r].stale /\ Known(req[r].from) /\ To(r, ContextOf(req[r].from)[2])
    <3>1. req[r].from \in Clients  BY <1>1, <2>2 DEF Known, Typed, Entries
    <3>2. ContextOf(req[r].from)[2] \in Sites  BY <1>5, <1>9, <2>2, <3>1
    <3> QED  BY <2>1, <2>2, <3>2 DEF Decided
  <2> QED  BY <1>2, <1>3, <1>4, <1>15, <2>1, <2>2 DEF Handle, Decided
<1>16. CASE HandleTail(r)
  <2>1. req[r].shape = "tail" /\ req[r].from # None /\ turns[r] = Unturned
    BY <1>1, <1>4, <1>16 DEF HandleTail, Asks, Tokened
  <2> QED  BY <1>3, <1>5, <1>8, <1>9, <1>16, <2>1 DEF HandleTail, Decided
<1>17. CASE EngineRoute(r)
  BY <1>2, <1>6, <1>17 DEF EngineRoute, Decided
<1>20. CASE RouteTail(r)
  <2>1. req[r].shape = "tail" /\ req[r].from # None
    BY <1>1, <1>20 DEF RouteTail, Asks
  <2> QED  BY <1>5, <1>8, <1>20, <2>1 DEF RouteTail, Decided
<1>18. CASE MarkerTail(r)
  BY <1>18 DEF MarkerTail, Decided
<1>19. CASE Relative(r)
  <2>1. turns[r] = Unturned  BY <1>4, <1>19 DEF Relative, Homeless, Tokened
  <2>2. CASE Known(req[r].from)
    <3>1. req[r].from \in Clients
      BY <1>1, <2>2 DEF Known, Typed, Entries
    <3>2. Shown(req[r].from)  BY <1>5, <3>1
    <3> QED  BY <1>3, <1>9, <1>19, <2>1, <2>2, <3>1, <3>2 DEF Relative, Resolved, Decided
  <2>3. CASE ~Known(req[r].from)
    BY <1>19, <2>1, <2>3 DEF Relative, Decided
  <2> QED  BY <2>2, <2>3
<1> QED
  BY <1>0, <1>10, <1>11, <1>12, <1>13, <1>14, <1>15, <1>16, <1>17, <1>18, <1>19, <1>20 DEF Route

\* The lookup of a page decides alike, from the map it leaves.
LEMMA LookupDecides ==
  ASSUME IInv, NEW r \in Requests, LookedUp(r)
  PROVE  /\ Decided(r) /\ pc[r] = "looking"
         /\ \E found \in BOOLEAN :
              /\ ctx' = IF Known(req[r].from) THEN ctx ELSE Rehydrated(req[r].from, found)
              /\ forgot' = forgot \cup Lost(ctx, ctx')
<1> USE IntakeAssumption
<1>0. pc[r] = "looking"  BY DEF LookedUp
<1>1. Typed /\ Asks(r) /\ Homes(r)  BY DEF IInv
<1>2. turns[r] = Unturned /\ req[r] \in Inputs  BY <1>0, <1>1 DEF Asks
<1> DEFINE c == req[r].from
           known(map) == \E i \in 1..Len(map) : map[i][1] = c
           home(map) == IF known(map) THEN map[CHOOSE i \in 1..Len(map) : map[i][1] = c][2]
                        ELSE IF Referred(r) THEN doc[c].named ELSE None
<1>3. PICK found \in BOOLEAN :
        LET map == IF Known(c) THEN ctx ELSE Rehydrated(c, found) IN
          /\ ctx' = map /\ forgot' = forgot \cup Lost(ctx, map)
          /\ \/ home(map) # None /\ To(r, home(map))
             \/ known(map) /\ Turn(r, home(map), {"query"})
             \/ home(map) = None /\ Ends(r)
  BY DEF LookedUp
<1> DEFINE map == IF Known(c) THEN ctx ELSE Rehydrated(c, found)
<1>4. ctx' = map /\ forgot' = forgot \cup Lost(ctx, map)  BY <1>3
<1>5. \/ home(map) # None /\ To(r, home(map))
      \/ known(map) /\ Turn(r, home(map), {"query"})
      \/ home(map) = None /\ Ends(r)
  BY <1>3
<1>6. c # None => c \in Clients /\ Shown(c) /\ doc[c].named \in Sites
  BY <1>1, <1>2 DEF Asks, Inputs, Typed, Shown, Docs
<1>7. known(map) => /\ c \in Clients
                    /\ map[CHOOSE i \in 1..Len(map) : map[i][1] = c][2] \in Sites \cap Own(c)
  <2>1. CASE Known(c)
    <3>1. map = ctx  BY <2>1
    <3>2. c \in Clients  BY <1>1, <2>1 DEF Known, Typed, Entries
    <3>3. ContextOf(c)[2] \in Sites \cap Own(c)  BY <1>6, <2>1, <3>2, ContextIsOwn
    <3> QED  BY <3>1, <3>2, <3>3 DEF ContextOf
  <2>2. CASE ~Known(c)
    <3>1. map = Rehydrated(c, found)  BY <2>2
    <3>2. /\ map \in Seq(Entries)
          /\ \A j \in 1..Len(map) :
               \/ \E i \in 1..Len(ctx) : ctx[i] = map[j]
               \/ Shown(c) /\ map[j][1] = c /\ map[j][2] = doc[c].named
      BY <1>1, <1>6, <3>1, RehydratedFacts
    <3> HIDE DEF map
    <3>3. \A j \in 1..Len(map) : map[j][1] = c => Shown(c) /\ map[j][2] = doc[c].named
      BY <2>2, <3>2 DEF Known
    <3>4. known(map) => Shown(c) /\ map[CHOOSE i \in 1..Len(map) : map[i][1] = c][2] = doc[c].named
      BY <3>3
    <3> QED  BY <1>6, <3>4 DEF Shown, Own
  <2> QED  BY <2>1, <2>2
<1> HIDE DEF map
<1>8. Referred(r) => c \in Clients /\ Shown(c) /\ doc[c].named \in Sites \cap Own(c)
  BY <1>6 DEF Referred, Shown, Own
<1>9. /\ home(map) # None => home(map) \in Sites \cap Own(c)
      /\ known(map) => home(map) \in Sites
  BY <1>7, <1>8
<1> HIDE DEF home
<1>10. Decided(r)
  <2>1. {"query"} \in SUBSET Tokened  BY DEF Tokened
  <2> QED  BY <1>2, <1>5, <1>9, <2>1 DEF Decided
<1> QED  BY <1>0, <1>4, <1>10 DEF map

\* Each action keeps the invariant.
LEMMA ArriveKeeps == ASSUME IInv, NEW r \in Requests, Arrive(r) PROVE IInv'
<1> USE IntakeAssumption
<1>0. Typed /\ Contexts /\ \A q \in Requests : Asks(q) /\ Homes(q)  BY DEF IInv
<1>1. PICK in0 \in Inputs :
        /\ in0.from # None => Shown(in0.from)
        /\ in0.new # None => doc[in0.new] = Blank /\ \A q \in Requests : req[q].new # in0.new
        /\ in0.new = None =>
             /\ in0.from # None
             /\ \/ in0.shape = "foreign"
                \/ in0.shape \in {"bare", "tail", "prel"} /\ in0.site = doc[in0.from].named
        /\ in0.shape = "tail" => in0.from # None
        /\ req' = [req EXCEPT ![r] = in0]
  <2>1. PICK from, new \in Clients \cup {None}, shape \in Shapes, site \in Sites :
          /\ from # None => Shown(from)
          /\ new # None => doc[new] = Blank /\ \A q \in Requests : req[q].new # new
          /\ (new # None) = (r \in Navigating)
          /\ \/ new # None /\ shape \in Tokened \cup {"route", "legacy", "marker"}
             \/ /\ from # None /\ shape \in {"bare", "tail", "prel"} /\ site = doc[from].named
                /\ shape = "tail" => doc[from].form \in {"handle", "route", "marker"}
             \/ from # None /\ new = None /\ shape = "foreign"
          /\ \E get, stale, referrer \in BOOLEAN, within \in Sites \cup {None} :
               /\ new = None => get
               /\ stale => shape \in Tokened
               /\ referrer => from # None /\ doc[from].form = "route" /\ shape \in {"bare", "tail"}
               /\ within # None => shape \in Carrying
               /\ req' = [req EXCEPT ![r] =
                    [from |-> from, new |-> new, get |-> get, shape |-> shape, site |-> site,
                     stale |-> stale, referrer |-> referrer, within |-> within]]
    BY Zenon DEF Arrive
  <2>2. PICK get, stale, referrer \in BOOLEAN, within \in Sites \cup {None} :
          req' = [req EXCEPT ![r] =
            [from |-> from, new |-> new, get |-> get, shape |-> shape, site |-> site,
             stale |-> stale, referrer |-> referrer, within |-> within]]
    BY <2>1
  <2>3. \/ new # None /\ shape \in Tokened \cup {"route", "legacy", "marker"}
        \/ from # None /\ shape \in {"bare", "tail", "prel"} /\ site = doc[from].named
        \/ from # None /\ new = None /\ shape = "foreign"
    BY <2>1
  <2> DEFINE in0 == [from |-> from, new |-> new, get |-> get, shape |-> shape, site |-> site,
                     stale |-> stale, referrer |-> referrer, within |-> within]
  <2>4. in0 \in Inputs  BY DEF Inputs
  <2>5. /\ in0.from = from /\ in0.new = new /\ in0.shape = shape /\ in0.site = site
    OBVIOUS
  <2>6. req' = [req EXCEPT ![r] = in0]  BY <2>2
  <2> HIDE DEF in0
  <2> QED  BY <2>1, <2>3, <2>4, <2>5, <2>6 DEF Tokened
<1>2. /\ pc[r] = "idle" /\ pc' = [pc EXCEPT ![r] = "routing"]
      /\ UNCHANGED <<doc, expired, ctx, forgot, dest, initiator, turns, restarts>>
  BY DEF Arrive
<1>3. in0 # Nothing /\ req[r] = Nothing /\ dest[r] = None /\ initiator[r] = None
  <2>1. in0.site \in Sites  BY DEF Inputs
  <2>2. in0 # Nothing  BY <2>1 DEF Nothing
  <2> QED  BY <1>0, <1>2, <2>2 DEF Asks
<1>4. turns[r] = Unturned
  BY <1>0, <1>3 DEF Asks, IsNav, Nothing, Typed
<1>b. Unturned.path = 0 /\ in0 \in Inputs  BY DEF Unturned
<1>5. /\ req'[r] = in0 /\ pc'[r] = "routing"
      /\ \A q \in Requests : q # r => req'[q] = req[q] /\ pc'[q] = pc[q]
  BY <1>0, <1>1, <1>2 DEF Typed
<1>6. Typed'
  BY <1>0, <1>1, <1>2 DEF Typed, Places
<1>7. ASSUME NEW q \in Requests PROVE Asks(q)'
  <2>1. Asks(q)  BY <1>0
  <2>2. CASE q = r
    <3>1. /\ req'[q] = in0 /\ pc'[q] = "routing" /\ doc' = doc /\ dest'[q] = None
          /\ initiator'[q] = None /\ turns'[q] = Unturned
      BY <1>2, <1>3, <1>4, <1>5, <2>2
    <3>2. \A p \in Requests : p # r => req'[p].new # in0.new \/ in0.new = None
      BY <1>1, <1>5
    <3> QED  BY <1>1, <1>3, <1>b, <2>2, <3>1, <3>2 DEF Asks, IsNav, Shown
  <2>3. CASE q # r
    BY <1>1, <1>2, <1>3, <1>5, <2>1, <2>3 DEF Asks, IsNav, Shown, Nothing
  <2> QED  BY <2>2, <2>3
<1>8. ASSUME NEW q \in Requests PROVE Homes(q)'
  <2>1. Homes(q)  BY <1>0
  <2> QED  BY <1>2, <1>3, <1>5, <2>1 DEF Homes, Shown, Own
<1>9. Contexts'
  <2>1. ~Known(None)  BY <1>0 DEF Known, Typed, Entries
  <2>2. \A q \in Requests : pc[q] = "fetching" => q # r  BY <1>2
  <2>3. \A q \in Requests : IsNav(q) => doc[req[q].new] = Blank  BY <1>0 DEF Asks
  <2> QED  BY <1>0, <1>2, <1>5, <1>6, <2>1, <2>2, <2>3, ContextsKept DEF Lost
<1> QED  BY <1>6, <1>7, <1>8, <1>9 DEF IInv

LEMMA RouteKeeps == ASSUME IInv, NEW r \in Requests, Route(r) PROVE IInv'
<1>0. Typed /\ Contexts  BY DEF IInv
<1>1. Decided(r) /\ pc[r] = "routing"  BY RouteDecides
<1>2. UNCHANGED <<doc, expired, ctx, forgot, restarts>>  BY DEF Route, Rest
<1>3. /\ req' \in [Requests -> Inputs \cup {Nothing}] /\ pc' \in [Requests -> Places]
      /\ dest' \in [Requests -> Sites \cup {None}]
      /\ initiator' \in [Requests -> Sites \cup {None}] /\ turns' \in [Requests -> TurnCounts]
      /\ \A q \in Requests : Asks(q)' /\ Homes(q)'
      /\ \A q \in Requests : /\ pc'[q] = "fetching" <=> pc[q] = "fetching"
                             /\ pc[q] = "fetching" => req'[q] = req[q] /\ dest'[q] = dest[q]
  BY <1>1, <1>2, DecidedKeeps DEF Kept
<1>4. Typed'  BY <1>0, <1>2, <1>3 DEF Typed
<1>5. Contexts'
  <2>1. ~Known(None)  BY <1>0, IntakeAssumption DEF Known, Typed, Entries
  <2>2. \A q \in Requests : IsNav(q) => doc[req[q].new] = Blank  BY DEF IInv, Asks
  <2> QED  BY <1>0, <1>2, <1>3, <1>4, <2>1, <2>2, ContextsKept DEF Lost
<1> QED  BY <1>3, <1>4, <1>5 DEF IInv

\* What a rehydration leaves, of a page without a context, keeps the contexts.
LEMMA RehydrationKeeps ==
  ASSUME Typed, Contexts, \A q \in Requests : IsNav(q) => doc[req[q].new] = Blank,
         NEW c, c # None => c \in Clients, NEW found \in BOOLEAN,
         doc' = doc, expired' = expired, restarts' = restarts,
         ctx' = IF c = None \/ Known(c) THEN ctx ELSE Rehydrated(c, found),
         forgot' = forgot \cup Lost(ctx, ctx'),
         req' \in [Requests -> Inputs \cup {Nothing}], pc' \in [Requests -> Places],
         dest' \in [Requests -> Sites \cup {None}],
         initiator' \in [Requests -> Sites \cup {None}], turns' \in [Requests -> TurnCounts],
         \A q \in Requests : /\ pc'[q] = "fetching" <=> pc[q] = "fetching"
                             /\ pc[q] = "fetching" => req'[q] = req[q] /\ dest'[q] = dest[q]
  PROVE  Typed' /\ Contexts'
<1>1. Lost(ctx, ctx') \subseteq Clients
  BY DEF Lost, Typed, Entries
<1>2. CASE c = None \/ Known(c)
  <2>1. ctx' = ctx  BY <1>2
  <2>2. Typed'  BY <1>1, <2>1 DEF Typed
  <2>3. ~Known(None)  BY IntakeAssumption DEF Known, Typed, Entries
  <2> QED  BY <2>1, <2>2, <2>3, ContextsKept
<1>3. CASE ~(c = None \/ Known(c))
  <2>1. ctx' = Rehydrated(c, found)  BY <1>3
  <2>2. /\ ctx' \in Seq(Entries) /\ Len(ctx') <= Cap
        /\ \A j \in 1..Len(ctx') :
             \/ \E i \in 1..Len(ctx) : ctx[i] = ctx'[j]
             \/ Shown(c) /\ ctx'[j][1] = c /\ ctx'[j][2] = doc[c].named
    BY <2>1, RehydratedFacts
  <2>3. Typed'  BY <1>1, <2>2 DEF Typed
  <2> QED  BY <1>3, <2>2, <2>3, ContextsKept
<1> QED  BY <1>2, <1>3

LEMMA LookedUpKeeps == ASSUME IInv, NEW r \in Requests, LookedUp(r) PROVE IInv'
<1>0. Typed /\ Contexts /\ Asks(r)  BY DEF IInv
<1>1. /\ Decided(r) /\ pc[r] = "looking"
      /\ \E found \in BOOLEAN :
           /\ ctx' = IF Known(req[r].from) THEN ctx ELSE Rehydrated(req[r].from, found)
           /\ forgot' = forgot \cup Lost(ctx, ctx')
  BY LookupDecides
<1>2. UNCHANGED <<doc, expired, restarts>>  BY DEF LookedUp
<1>3. /\ req' \in [Requests -> Inputs \cup {Nothing}] /\ pc' \in [Requests -> Places]
      /\ dest' \in [Requests -> Sites \cup {None}]
      /\ initiator' \in [Requests -> Sites \cup {None}] /\ turns' \in [Requests -> TurnCounts]
      /\ \A q \in Requests : Asks(q)' /\ Homes(q)'
      /\ \A q \in Requests : /\ pc'[q] = "fetching" <=> pc[q] = "fetching"
                             /\ pc[q] = "fetching" => req'[q] = req[q] /\ dest'[q] = dest[q]
  BY <1>1, <1>2, DecidedKeeps DEF Kept
<1>4. req[r].from # None => req[r].from \in Clients
  BY <1>0, <1>1 DEF Asks, Inputs
<1>5. \E found \in BOOLEAN :
        /\ ctx' = IF req[r].from = None \/ Known(req[r].from) THEN ctx
                  ELSE Rehydrated(req[r].from, found)
        /\ forgot' = forgot \cup Lost(ctx, ctx')
  BY <1>1 DEF Rehydrated, Decodes, Shown
<1>6. Typed' /\ Contexts'
  <2>1. \A q \in Requests : IsNav(q) => doc[req[q].new] = Blank  BY DEF IInv, Asks
  <2> QED  BY <1>0, <1>2, <1>3, <1>4, <1>5, <2>1, RehydrationKeeps
<1> QED  BY <1>3, <1>6 DEF IInv

LEMMA InitiateKeeps == ASSUME IInv, NEW r \in Requests, Initiate(r) PROVE IInv'
<1> USE IntakeAssumption
<1>0. Typed /\ Contexts /\ Asks(r) /\ \A q \in Requests : Asks(q) /\ Homes(q)  BY DEF IInv
<1> DEFINE c == req[r].from
           known(map) == \E i \in 1..Len(map) : map[i][1] = c
           from(map, found) ==
             IF known(map) THEN map[CHOOSE i \in 1..Len(map) : map[i][1] = c][2]
             ELSE IF found /\ Shown(c) /\ doc[c].form = "handle" THEN doc[c].named ELSE None
<1>1. PICK found \in BOOLEAN :
        LET map == IF c = None \/ Known(c) THEN ctx ELSE Rehydrated(c, found) IN
          /\ ctx' = map /\ forgot' = forgot \cup Lost(ctx, map)
          /\ initiator' = [initiator EXCEPT ![r] = from(map, found)]
  BY DEF Initiate
<1>2. /\ pc[r] = "resolved" /\ pc' = [pc EXCEPT ![r] = "gated"]
      /\ UNCHANGED <<doc, expired, req, dest, turns, restarts>>
  BY DEF Initiate
<1> DEFINE map == IF c = None \/ Known(c) THEN ctx ELSE Rehydrated(c, found)
<1>3. /\ ctx' = map /\ forgot' = forgot \cup Lost(ctx, ctx')
      /\ initiator' = [initiator EXCEPT ![r] = from(map, found)]
  BY <1>1
<1>4. c # None => c \in Clients /\ Shown(c) /\ doc[c].named \in Sites \cap Own(c)
  BY <1>0, <1>2 DEF Asks, Inputs, Typed, Shown, Own, Docs
<1>5. known(map) => map[CHOOSE i \in 1..Len(map) : map[i][1] = c][2] \in Sites \cap Own(c)
  <2>1. CASE Known(c)
    <3>1. map = ctx  BY <2>1
    <3>2. c \in Clients  BY <1>0, <2>1 DEF Known, Typed, Entries
    <3>3. ContextOf(c)[2] \in Sites \cap Own(c)  BY <1>4, <2>1, <3>2, ContextIsOwn
    <3> QED  BY <3>1, <3>3 DEF ContextOf
  <2>2. CASE ~Known(c) /\ c # None
    <3>1. map = Rehydrated(c, found)  BY <2>2
    <3>2. /\ map \in Seq(Entries)
          /\ \A j \in 1..Len(map) :
               \/ \E i \in 1..Len(ctx) : ctx[i] = map[j]
               \/ Shown(c) /\ map[j][1] = c /\ map[j][2] = doc[c].named
      BY <1>0, <1>4, <3>1, RehydratedFacts
    <3> HIDE DEF map
    <3>3. \A j \in 1..Len(map) : map[j][1] = c => map[j][2] = doc[c].named
      BY <2>2, <3>2 DEF Known
    <3>4. known(map) => map[CHOOSE i \in 1..Len(map) : map[i][1] = c][2] = doc[c].named
      BY <3>3
    <3> QED  BY <1>4, <2>2, <3>4
  <2>3. CASE ~Known(c) /\ c = None
    BY <2>3 DEF Known
  <2> QED  BY <2>1, <2>2, <2>3
<1> HIDE DEF map
<1>6. from(map, found) \in (Sites \cap Own(c)) \cup {None}
  BY <1>4, <1>5 DEF Shown
<1> HIDE DEF from
<1>7. initiator' \in [Requests -> Sites \cup {None}] /\ pc' \in [Requests -> Places]
  BY <1>0, <1>2, <1>3, <1>6 DEF Typed, Places
<1>8. \A q \in Requests : pc'[q] = "fetching" <=> pc[q] = "fetching"
  BY <1>0, <1>2 DEF Typed
<1>9. Typed' /\ Contexts'
  <2>1. ctx' = IF c = None \/ Known(c) THEN ctx ELSE Rehydrated(c, found)  BY <1>3 DEF map
  <2>2. c # None => c \in Clients  BY <1>4
  <2>3. /\ req' \in [Requests -> Inputs \cup {Nothing}]
        /\ dest' \in [Requests -> Sites \cup {None}] /\ turns' \in [Requests -> TurnCounts]
    BY <1>0, <1>2 DEF Typed
  <2>4. \A q \in Requests : req'[q] = req[q] /\ dest'[q] = dest[q]  BY <1>2
  <2>5. \A q \in Requests : IsNav(q) => doc[req[q].new] = Blank  BY <1>0 DEF Asks
  <2> QED  BY <1>0, <1>2, <1>3, <1>7, <1>8, <2>1, <2>2, <2>3, <2>4, <2>5, RehydrationKeeps
<1>10. ASSUME NEW q \in Requests PROVE Asks(q)'
  <2>1. Asks(q)  BY <1>0
  <2>2. pc'[q] = pc[q] \/ (q = r /\ pc[q] = "resolved" /\ pc'[q] = "gated")  BY <1>0, <1>2 DEF Typed
  <2>3. q # r => initiator'[q] = initiator[q]  BY <1>0, <1>3 DEF Typed
  <2> QED  BY <1>2, <2>1, <2>2, <2>3 DEF Asks, IsNav, Shown
<1>11. ASSUME NEW q \in Requests PROVE Homes(q)'
  <2>1. Homes(q)  BY <1>0
  <2>2. initiator'[q] = IF q = r THEN from(map, found) ELSE initiator[q]  BY <1>0, <1>3 DEF Typed
  <2> QED  BY <1>2, <1>6, <2>1, <2>2 DEF Homes, Shown, Own
<1> QED  BY <1>9, <1>10, <1>11 DEF IInv

LEMMA EstablishKeeps == ASSUME IInv, NEW r \in Requests, Establish(r) PROVE IInv'
<1> USE IntakeAssumption
<1>0. Typed /\ Contexts /\ Asks(r) /\ \A q \in Requests : Asks(q) /\ Homes(q)  BY DEF IInv
<1>1. pc[r] = "gated" /\ UNCHANGED <<doc, expired, restarts>>  BY DEF Establish
<1>2. CASE ~IsNav(r)
  <2>1. ctx' = ctx /\ forgot' = forgot \cup Lost(ctx, ctx') /\ Ends(r)
    BY <1>2 DEF Establish
  <2>2. /\ req' \in [Requests -> Inputs \cup {Nothing}] /\ pc' \in [Requests -> Places]
        /\ dest' \in [Requests -> Sites \cup {None}]
        /\ initiator' \in [Requests -> Sites \cup {None}] /\ turns' \in [Requests -> TurnCounts]
        /\ \A q \in Requests : Asks(q)' /\ Homes(q)'
        /\ \A q \in Requests : /\ pc'[q] = "fetching" <=> pc[q] = "fetching"
                               /\ pc[q] = "fetching" => req'[q] = req[q] /\ dest'[q] = dest[q]
    BY <1>1, <2>1, DecidedKeeps DEF Decided, Kept
  <2>3. Typed' /\ Contexts'
    <3>1. ctx' = IF None = None \/ Known(None) THEN ctx ELSE Rehydrated(None, TRUE)  BY <2>1
    <3>2. \A q \in Requests : IsNav(q) => doc[req[q].new] = Blank  BY <1>0 DEF Asks
    <3> QED  BY <1>0, <1>1, <2>1, <2>2, <3>1, <3>2, RehydrationKeeps
  <2> QED  BY <2>2, <2>3 DEF IInv
<1>3. CASE IsNav(r)
  <2> DEFINE c == req[r].new
             s == dest[r]
  <2>1. /\ c \in Clients /\ s \in Sites /\ doc[c] = Blank
        /\ \A q \in Requests : req[q].new = c => q = r
    BY <1>0, <1>1, <1>3 DEF Asks, Inputs, IsNav
  <2>2. /\ ctx' = Placed(ctx, c, s, MintedForm(r)) /\ forgot' = forgot \cup Lost(ctx, ctx')
        /\ pc' = [pc EXCEPT ![r] = "fetching"] /\ UNCHANGED <<req, dest, initiator, turns>>
    BY <1>3 DEF Establish, Placed
  <2>3. MintedForm(r) \in BOOLEAN  BY DEF MintedForm
  <2>4. Renews(ctx, c, s, ctx')
    BY <1>0, <2>1, <2>2, <2>3, PlacedFacts DEF Typed
  <2>5. Lost(ctx, ctx') \subseteq Clients  BY <1>0 DEF Lost, Typed, Entries
  <2>6. Typed'  BY <1>0, <1>1, <2>2, <2>4, <2>5 DEF Typed, Renews, Places
  <2>7. pc'[r] = "fetching" /\ \A q \in Requests : q # r => pc'[q] = pc[q]
    BY <1>0, <2>2 DEF Typed
  <2>8. ASSUME NEW q \in Requests PROVE Asks(q)' /\ Homes(q)'
    <3>1. Asks(q) /\ Homes(q)  BY <1>0
    <3>2. Homes(q)'  BY <1>1, <2>2, <3>1 DEF Homes, Shown, Own
    <3>3. Asks(q)'
      <4>1. CASE q = r
        BY <1>1, <1>3, <2>1, <2>2, <2>7, <3>1, <4>1 DEF Asks, IsNav, Shown
      <4>2. CASE q # r
        BY <1>1, <2>2, <2>7, <3>1, <4>2 DEF Asks, IsNav, Shown
      <4> QED  BY <4>1, <4>2
    <3> QED  BY <3>2, <3>3
  <2>9. Contexts'
    <3> HIDE DEF c, s
    <3>a. c = req'[r].new /\ s = dest'[r]  BY <2>2 DEF c, s
    <3>1. ASSUME NEW j \in 1..Len(ctx') PROVE OwnContext(j)'
      <4>1. CASE ctx'[j][1] = c
        <5>1. ctx'[j][2] = s /\ doc'[ctx'[j][1]] = Blank
          BY <1>1, <2>1, <2>4, <3>1, <4>1 DEF Renews
        <5>2. \A q \in Requests : req'[q].new = c => q = r  BY <2>1, <2>2
        <5> QED  BY <2>2, <3>a, <4>1, <5>1, <5>2 DEF OwnContext, Shown
      <4>2. CASE ctx'[j][1] # c
        <5>1. PICK i \in 1..Len(ctx) : ctx[i] = ctx'[j]  BY <2>4, <3>1, <4>2 DEF Renews
        <5>2. OwnContext(i)  BY <1>0 DEF Contexts
        <5>3. \A q \in Requests : pc'[q] = "fetching" /\ req'[q].new = ctx[i][1] => pc[q] = "fetching"
          BY <2>2, <2>7, <3>a, <4>2, <5>1
        <5> QED  BY <1>1, <2>2, <5>1, <5>2, <5>3 DEF OwnContext, Shown, Own
      <4> QED  BY <4>1, <4>2
    <3>2. ASSUME NEW d \in Clients \ forgot' PROVE CurrentContext(d)'
      <4>1. d \in Clients \ forgot /\ d \notin Lost(ctx, ctx')  BY <2>2
      <4>2. CurrentContext(d)  BY <1>0, <4>1 DEF Contexts
      <4>3. Known(d) => Known(d)'  BY <4>1 DEF Known, Lost
      <4>4. d = c => Known(d)'  BY <2>4 DEF Known, Renews
      <4>5. ASSUME Shown(d)' PROVE Known(d)' /\ \A i \in 1..Len(ctx') : ctx'[i][1] = d => ctx'[i][2] = doc'[d].at
        <5>1. Shown(d) /\ d # c  BY <1>1, <2>1, <4>5 DEF Shown
        <5> QED  BY <1>1, <2>4, <4>2, <4>3, <5>1 DEF CurrentContext, Renews
      <4>6. ASSUME NEW q \in Requests, pc'[q] = "fetching", req'[q].new = d PROVE Known(d)'
        <5>1. CASE q = r  BY <3>a, <4>4, <4>6, <5>1
        <5>2. CASE q # r  BY <2>2, <2>7, <4>2, <4>3, <4>6, <5>2 DEF CurrentContext
        <5> QED  BY <5>1, <5>2
      <4> QED  BY <4>5, <4>6 DEF CurrentContext
    <3> QED  BY <3>1, <3>2 DEF Contexts
  <2> QED  BY <2>6, <2>8, <2>9 DEF IInv
<1> QED  BY <1>2, <1>3

LEMMA ServeKeeps == ASSUME IInv, NEW r \in Requests, Serve(r) PROVE IInv'
<1> USE IntakeAssumption
<1>0. Typed /\ Contexts /\ Asks(r) /\ \A q \in Requests : Asks(q) /\ Homes(q)  BY DEF IInv
<1>1. pc[r] = "fetching" /\ UNCHANGED restarts /\ Ends(r)  BY DEF Serve
<1>3. PICK c \in Clients, s \in Sites :
        /\ c = req[r].new /\ s = dest[r] /\ doc[c] = Blank
        /\ \A q \in Requests : req[q].new = c => q = r
  BY <1>0, <1>1 DEF Asks, Inputs, IsNav
<1>a. req[r] \in Inputs /\ req[r].site \in Sites /\ req[r].shape \in Shapes
  BY <1>0, <1>1 DEF Asks, Inputs
<1>b. Committed(r) \in Forms
  <2>1. CASE req[r].shape = "tail"
    <3>1. req[r].from \in Clients /\ Shown(req[r].from)
      BY <1>0, <1>a, <2>1 DEF Asks, Inputs
    <3>2. doc[req[r].from].form \in Forms  BY <1>0, <3>1 DEF Typed, Shown, Docs
    <3>3. Committed(r) = doc[req[r].from].form  BY <2>1 DEF Committed, Forms, Tokened
    <3> QED  BY <3>2, <3>3
  <2>2. CASE req[r].shape \in Forms \ {"bare"}
    BY <2>2 DEF Committed, Forms, Tokened
  <2>3. CASE req[r].shape # "tail" /\ req[r].shape \notin Forms \ {"bare"}
    BY <2>3 DEF Committed, Forms
  <2> QED  BY <2>1, <2>2, <2>3
<1>2. PICK site \in Sites, cached \in BOOLEAN, form \in Forms, named \in Sites :
        /\ ctx' = IF cached \/ site = s THEN ctx ELSE Placed(ctx, c, site, MintedForm(r))
        /\ forgot' = (forgot \cup Lost(ctx, ctx')) \cup (IF cached /\ site # s THEN {c} ELSE {})
        /\ doc' = [doc EXCEPT ![c] = [named |-> named, asked |-> s, at |-> site, form |-> form]]
        /\ expired' \subseteq expired \cup {c}
  <2>1. PICK site \in Sites, cached \in BOOLEAN :
          /\ ctx' = IF cached THEN ctx ELSE MovedTo(r, site)
          /\ forgot' = (forgot \cup Lost(ctx, ctx')) \cup (IF cached /\ site # dest[r] THEN {req[r].new} ELSE {})
          /\ doc' = [doc EXCEPT ![req[r].new] =
               [named |-> IF Committed(r) = "bare" THEN dest[r] ELSE req[r].site,
                asked |-> dest[r], at |-> site, form |-> Committed(r)]]
          /\ expired' = IF Worn(r) THEN expired \cup {req[r].new} ELSE expired
    BY DEF Serve
  <2> DEFINE form == Committed(r)
             named == IF Committed(r) = "bare" THEN dest[r] ELSE req[r].site
  <2>2. form \in Forms /\ named \in Sites  BY <1>3, <1>a, <1>b
  <2>3. ctx' = IF cached \/ site = dest[r] THEN ctx ELSE Placed(ctx, req[r].new, site, MintedForm(r))
    BY <2>1 DEF MovedTo, Placed
  <2>4. doc' = [doc EXCEPT ![c] = [named |-> named, asked |-> s, at |-> site, form |-> form]]
    BY <1>3, <2>1
  <2> HIDE DEF form, named
  <2>5. expired' \subseteq expired \cup {c}  BY <1>3, <2>1
  <2> QED  BY <1>3, <2>1, <2>2, <2>3, <2>4, <2>5
<1>4. /\ \A q \in Requests \ {r} : /\ req'[q] = req[q] /\ pc'[q] = pc[q] /\ dest'[q] = dest[q]
                                   /\ initiator'[q] = initiator[q] /\ turns'[q] = turns[q]
      /\ req'[r] = Nothing /\ pc'[r] = "idle" /\ dest'[r] = None /\ initiator'[r] = None
      /\ turns'[r] = Unturned
  BY <1>0, <1>1 DEF Ends, Typed
<1>5. /\ doc'[c] = [named |-> named, asked |-> s, at |-> site, form |-> form]
      /\ \A d \in Clients \ {c} : doc'[d] = doc[d]
  BY <1>0, <1>2, <1>3 DEF Typed
<1>6. doc'[c] # Blank /\ doc'[c].asked = s /\ doc'[c].at = site /\ doc'[c].named = named
  <2>1. form # None  BY DEF Forms, Tokened, None
  <2>2. doc'[c].form # Blank.form  BY <1>5, <2>1 DEF Blank
  <2> QED  BY <1>5, <2>2
<1>7. /\ ctx' \in Seq(Entries) /\ Len(ctx') <= Cap
      /\ ctx' = ctx \/ (~cached /\ Renews(ctx, c, site, ctx'))
      /\ ctx' = ctx => cached \/ site = s \/ Renews(ctx, c, site, ctx')
  <2>1. MintedForm(r) \in BOOLEAN  BY DEF MintedForm
  <2>2. Renews(ctx, c, site, Placed(ctx, c, site, MintedForm(r)))
    BY <1>0, <1>3, <2>1, PlacedFacts DEF Typed
  <2> QED  BY <1>0, <1>2, <2>2 DEF Renews, Typed
<1>8. Typed'
  <2>1. Lost(ctx, ctx') \subseteq Clients  BY <1>0 DEF Lost, Typed, Entries
  <2>2. doc' \in [Clients -> {Blank} \cup Docs]
    <3>1. [named |-> named, asked |-> s, at |-> site, form |-> form] \in Docs  BY <1>3 DEF Docs
    <3> QED  BY <1>0, <1>2, <1>3, <3>1 DEF Typed
  <2>3. /\ req' \in [Requests -> Inputs \cup {Nothing}] /\ pc' \in [Requests -> Places]
        /\ dest' \in [Requests -> Sites \cup {None}]
        /\ initiator' \in [Requests -> Sites \cup {None}] /\ turns' \in [Requests -> TurnCounts]
    <3>1. Unturned \in TurnCounts  BY DEF Unturned, TurnCounts
    <3> QED  BY <1>0, <1>1, <3>1 DEF Typed, Ends, Places
  <2> QED  BY <1>0, <1>1, <1>2, <1>3, <1>7, <2>1, <2>2, <2>3 DEF Typed
<1>9. ASSUME NEW q \in Requests PROVE Asks(q)' /\ Homes(q)'
  <2>1. CASE q = r
    BY <1>4, <2>1 DEF Asks, Homes, IsNav, Nothing, Shown, Unturned
  <2>2. CASE q # r
    <3>1. Asks(q) /\ Homes(q)  BY <1>0
    <3>2. /\ req'[q] = req[q] /\ pc'[q] = pc[q] /\ dest'[q] = dest[q]
          /\ initiator'[q] = initiator[q] /\ turns'[q] = turns[q]
      BY <1>4, <2>2
    <3>3. req[q].new # c /\ (pc[q] # "idle" => req[q] \in Inputs)
      BY <1>3, <2>2, <3>1 DEF Asks
    <3>4. pc[q] = "idle" => req[q].from = None /\ req[q].new = None  BY <3>1 DEF Asks, Nothing
    <3>5. req[q].from # None => /\ req[q].from \in Clients \ {c}
                                /\ doc'[req[q].from] = doc[req[q].from] /\ doc[req[q].from] # Blank
      BY <1>3, <1>5, <3>1, <3>3, <3>4 DEF Asks, Shown, Inputs
    <3>6. req[q].new # None => doc'[req[q].new] = doc[req[q].new]
      BY <1>5, <3>3, <3>4 DEF Inputs
    <3>7. \A p \in Requests : req'[p].new = req[p].new \/ req'[p].new = None
      BY <1>4 DEF Nothing
    <3>8. Asks(q)'  BY <3>1, <3>2, <3>5, <3>6, <3>7 DEF Asks, IsNav, Shown
    <3>9. Homes(q)'  BY <3>1, <3>2, <3>5 DEF Homes, Shown, Own
    <3> QED  BY <3>8, <3>9
  <2> QED  BY <2>1, <2>2
<1>10. Contexts'
  <2>a. c # None  BY <1>3
  <2>b. \A i \in 1..Len(ctx) : ctx[i][1] = c => ctx[i][2] = s
    <3>1. ASSUME NEW i \in 1..Len(ctx), ctx[i][1] = c PROVE ctx[i][2] = s
      <4>1. OwnContext(i)  BY <1>0 DEF Contexts
      <4> QED  BY <1>1, <1>3, <3>1, <4>1 DEF OwnContext
    <3> QED  BY <3>1
  <2>c. \A d \in Clients \ {c} : (Shown(d)' <=> Shown(d)) /\ Own(d)' = Own(d)
    BY <1>5 DEF Shown, Own
  <2>d. Shown(c)' /\ Own(c)' = {named, s, site}  BY <1>6, <2>a DEF Shown, Own
  <2>1. ASSUME NEW j \in 1..Len(ctx') PROVE OwnContext(j)'
    <3>0. ctx'[j][1] \in Clients  BY <1>7 DEF Entries
    <3>1. CASE ctx'[j][1] = c
      <4>1. ctx'[j][2] \in {s, site}
        BY <1>7, <2>b, <3>1 DEF Renews
      <4>2. \A q \in Requests : req'[q].new # c  BY <1>3, <1>4 DEF Nothing
      <4> QED  BY <2>d, <3>1, <4>1, <4>2 DEF OwnContext
    <3>2. CASE ctx'[j][1] # c
      <4>1. PICK i \in 1..Len(ctx) : ctx[i] = ctx'[j]  BY <1>7, <2>1, <3>2 DEF Renews
      <4>2. OwnContext(i)  BY <1>0 DEF Contexts
      <4>3. ctx[i][1] \in Clients \ {c}  BY <3>0, <3>2, <4>1
      <4>4. \A q \in Requests : pc'[q] = "fetching" =>
              pc[q] = "fetching" /\ req'[q] = req[q] /\ dest'[q] = dest[q]
        BY <1>4
      <4> QED  BY <2>c, <4>1, <4>2, <4>3, <4>4 DEF OwnContext
    <3> QED  BY <3>1, <3>2
  <2>2. ASSUME NEW d \in Clients \ forgot' PROVE CurrentContext(d)'
    <3>1. /\ d \in Clients \ forgot /\ d \notin Lost(ctx, ctx')
          /\ d = c => ~(cached /\ site # s)
      BY <1>2
    <3>2. CurrentContext(d)  BY <1>0, <3>1 DEF Contexts
    <3>3. Known(d) => Known(d)'  BY <3>1 DEF Known, Lost
    <3>4. CASE d = c
      <4>1. Known(c)  BY <1>1, <1>3, <3>2, <3>4 DEF CurrentContext
      <4>2. \A i \in 1..Len(ctx') : ctx'[i][1] = c => ctx'[i][2] = site
        BY <1>7, <2>b, <3>1, <3>4 DEF Renews
      <4> QED  BY <1>6, <3>3, <3>4, <4>1, <4>2 DEF CurrentContext
    <3>5. CASE d # c
      <4>1. ASSUME Shown(d)'
            PROVE  Known(d)' /\ \A i \in 1..Len(ctx') : ctx'[i][1] = d => ctx'[i][2] = doc'[d].at
        <5>1. Shown(d) /\ doc'[d] = doc[d]  BY <1>5, <2>c, <3>5, <4>1
        <5>2. \A i \in 1..Len(ctx') : ctx'[i][1] = d => \E j \in 1..Len(ctx) : ctx[j] = ctx'[i]
          BY <1>7, <3>5 DEF Renews
        <5> QED  BY <3>2, <3>3, <5>1, <5>2 DEF CurrentContext
      <4>2. ASSUME NEW q \in Requests, pc'[q] = "fetching", req'[q].new = d PROVE Known(d)'
        <5>1. q # r  BY <1>4, <4>2
        <5> QED  BY <1>4, <3>2, <3>3, <4>2, <5>1 DEF CurrentContext
      <4> QED  BY <4>1, <4>2 DEF CurrentContext
    <3> QED  BY <3>4, <3>5
  <2> QED  BY <2>1, <2>2 DEF Contexts
<1> QED  BY <1>8, <1>9, <1>10 DEF IInv

LEMMA UnservedKeeps == ASSUME IInv, NEW r \in Requests, Unserved(r) PROVE IInv'
<1> USE IntakeAssumption
<1>0. Typed /\ Contexts /\ \A q \in Requests : Asks(q) /\ Homes(q)  BY DEF IInv
<1>1. UNCHANGED <<doc, expired, ctx, forgot, restarts>> /\ Ends(r)  BY DEF Unserved
<1>2. /\ \A q \in Requests \ {r} : /\ req'[q] = req[q] /\ pc'[q] = pc[q] /\ dest'[q] = dest[q]
                                   /\ initiator'[q] = initiator[q] /\ turns'[q] = turns[q]
      /\ req'[r] = Nothing /\ pc'[r] = "idle" /\ dest'[r] = None /\ initiator'[r] = None
      /\ turns'[r] = Unturned
  BY <1>0, <1>1 DEF Ends, Typed
<1>3. Typed'
  <2>1. Unturned \in TurnCounts  BY DEF Unturned, TurnCounts
  <2> QED  BY <1>0, <1>1, <2>1 DEF Typed, Ends, Places
<1>4. ASSUME NEW q \in Requests PROVE Asks(q)' /\ Homes(q)'
  <2>1. CASE q = r
    BY <1>2, <2>1 DEF Asks, Homes, IsNav, Nothing, Shown, Unturned
  <2>2. CASE q # r
    <3>1. Asks(q) /\ Homes(q)  BY <1>0
    <3>2. /\ req'[q] = req[q] /\ pc'[q] = pc[q] /\ turns'[q] = turns[q] /\ dest'[q] = dest[q]
          /\ initiator'[q] = initiator[q]
          /\ \A p \in Requests : req'[p] = req[p] \/ req'[p] = Nothing
      BY <1>2, <2>2
    <3>3. Asks(q)'  BY <1>1, <3>1, <3>2 DEF Asks, IsNav, Nothing, Shown
    <3>4. Homes(q)'  BY <1>1, <3>1, <3>2 DEF Homes, Shown, Own
    <3> QED  BY <3>3, <3>4
  <2> QED  BY <2>1, <2>2
<1>5. Contexts'
  <2>1. \A q \in Requests : pc'[q] = "fetching" =>
          pc[q] = "fetching" /\ req'[q] = req[q] /\ dest'[q] = dest[q]
    BY <1>2
  <2>2. \A x : (Shown(x)' <=> Shown(x)) /\ Own(x)' = Own(x) /\ (Known(x)' <=> Known(x))
    BY <1>1 DEF Shown, Own, Known
  <2>3. ASSUME NEW i \in 1..Len(ctx') PROVE OwnContext(i)'
    <3>1. OwnContext(i)  BY <1>0, <1>1 DEF Contexts
    <3> QED  BY <1>1, <2>1, <2>2, <3>1 DEF OwnContext
  <2>4. ASSUME NEW d \in Clients \ forgot' PROVE CurrentContext(d)'
    <3>1. CurrentContext(d)  BY <1>0, <1>1 DEF Contexts
    <3> QED  BY <1>1, <2>1, <2>2, <3>1 DEF CurrentContext
  <2> QED  BY <2>3, <2>4 DEF Contexts
<1> QED  BY <1>3, <1>4, <1>5 DEF IInv

LEMMA ExpireKeeps == ASSUME IInv, NEW c \in Clients, Expire(c) PROVE IInv'
<1>0. Typed /\ Contexts /\ \A q \in Requests : Asks(q) /\ Homes(q)  BY DEF IInv
<1>1. expired' = expired \cup {c} /\ UNCHANGED <<doc, ctx, forgot, req, pc, dest, initiator, turns, restarts>>
  BY DEF Expire
<1>2. Typed'  BY <1>0, <1>1 DEF Typed
<1>3. ASSUME NEW q \in Requests PROVE Asks(q)' /\ Homes(q)'
  <2>1. Asks(q) /\ Homes(q)  BY <1>0
  <2> QED  BY <1>1, <2>1 DEF Asks, Homes, Shown, Own, IsNav
<1>4. Contexts'
  <2>1. ~Known(None)  BY <1>0, IntakeAssumption DEF Known, Typed, Entries
  <2>2. \A q \in Requests : IsNav(q) => doc[req[q].new] = Blank  BY <1>0 DEF Asks
  <2> QED  BY <1>0, <1>1, <1>2, <2>1, <2>2, ContextsKept DEF Lost
<1> QED  BY <1>2, <1>3, <1>4 DEF IInv

LEMMA RestartKeeps == ASSUME IInv, Restart PROVE IInv'
<1> USE IntakeAssumption
<1>0. Typed /\ Contexts /\ \A q \in Requests : Asks(q) /\ Homes(q)  BY DEF IInv
<1>1. /\ ctx' = <<>> /\ forgot' = forgot \cup Lost(ctx, ctx') /\ UNCHANGED <<doc, expired>>
      /\ restarts < MaxRestarts /\ restarts' = restarts + 1
      /\ pc' = [r \in Requests |-> "idle"] /\ req' = [r \in Requests |-> Nothing]
      /\ dest' = [r \in Requests |-> None] /\ initiator' = [r \in Requests |-> None]
      /\ turns' = [r \in Requests |-> Unturned]
  BY DEF Restart
<1>2. Typed'
  <2>1. Lost(ctx, ctx') \subseteq Clients  BY <1>0 DEF Lost, Typed, Entries
  <2>2. Unturned \in TurnCounts  BY DEF Unturned, TurnCounts
  <2> QED  BY <1>0, <1>1, <2>1, <2>2 DEF Typed, Places
<1>3. ASSUME NEW q \in Requests PROVE Asks(q)' /\ Homes(q)'
  BY <1>1 DEF Asks, Homes, Nothing, Shown, IsNav, Unturned
<1>4. Contexts'
  <2>1. ASSUME NEW d \in Clients \ forgot' PROVE CurrentContext(d)'
    <3>1. d \in Clients \ forgot /\ d \notin Lost(ctx, ctx')  BY <1>1
    <3>2. CurrentContext(d)  BY <1>0, <3>1 DEF Contexts
    <3>3. ~Known(d)  BY <1>1, <3>1 DEF Known, Lost
    <3>4. ~Shown(d)'  BY <1>1, <3>2, <3>3 DEF CurrentContext, Shown
    <3> QED  BY <1>1, <3>4 DEF CurrentContext
  <2> QED  BY <1>1, <2>1 DEF Contexts
<1> QED  BY <1>2, <1>3, <1>4 DEF IInv

\* IInv holds of every behaviour of the intake, for any number of clients, sites, requests
\* and restarts, and any cap of the virtual contexts.
THEOREM IntakeInductive == Spec => []IInv
<1>1. ASSUME IInv, [Next]_vars PROVE IInv'
  <2>1. CASE UNCHANGED vars
    <3>1. Typed'  BY <1>1, <2>1 DEF IInv, Typed, vars
    <3>2. ASSUME NEW q \in Requests PROVE Asks(q)' /\ Homes(q)'
      <4>1. Asks(q) /\ Homes(q)  BY <1>1 DEF IInv
      <4> QED  BY <2>1, <4>1 DEF Asks, Homes, Shown, Own, IsNav, vars
    <3>3. Contexts'
      <4>1. ~Known(None)  BY <1>1, IntakeAssumption DEF IInv, Known, Typed, Entries
      <4>2. \A q \in Requests : IsNav(q) => doc[req[q].new] = Blank  BY <1>1 DEF IInv, Asks
      <4> QED  BY <1>1, <2>1, <3>1, <4>1, <4>2, ContextsKept DEF IInv, Lost, vars
    <3> QED  BY <3>1, <3>2, <3>3 DEF IInv
  <2>2. CASE Next
    BY <1>1, <2>2, ArriveKeeps, RouteKeeps, LookedUpKeeps, InitiateKeeps, EstablishKeeps,
       ServeKeeps, UnservedKeeps, ExpireKeeps, RestartKeeps DEF Next
  <2> QED  BY <1>1, <2>1, <2>2
<1> QED  BY <1>1, IntakeInitial, PTL DEF Spec

\* #33, #110, #385, for every value of the constants: a request is given the home of the
\* page that sent it and no other, across restarts, evictions and late lookups; a page
\* whose context was never lost is known where it lives; a navigation is turned once.
THEOREM HomesFound == Spec => []RequestsFindTheirHome
<1>1. ASSUME IInv PROVE RequestsFindTheirHome
  <2>0. Typed /\ Contexts /\ \A q \in Requests : Asks(q) /\ Homes(q)  BY <1>1 DEF IInv
  <2>1. TypeOK  BY <2>0 DEF Typed, TypeOK, Entries, Places, Docs
  <2>2. HomeIsItsOwn  BY <2>0 DEF HomeIsItsOwn, Homes, Own
  <2>3. ContextIsCurrent
    <3>1. ASSUME NEW c \in Clients \ forgot, Shown(c), Known(c) PROVE ContextOf(c)[2] = doc[c].at
      <4>1. PICK i \in 1..Len(ctx) : ContextOf(c) = ctx[i] /\ ctx[i][1] = c
        BY <3>1 DEF ContextOf, Known
      <4>2. CurrentContext(c)  BY <2>0 DEF Contexts
      <4> QED  BY <3>1, <4>1, <4>2 DEF CurrentContext
    <3> QED  BY <3>1 DEF ContextIsCurrent
  <2>4. TurnedOnce
    <3>1. \A r \in Requests : turns[r].route \in 0..1 /\ turns[r].path \in 0..1
      BY <2>0 DEF Typed, TurnCounts
    <3> QED  BY <2>0, <3>1 DEF TurnedOnce, Asks
  <2> QED  BY <2>1, <2>2, <2>3, <2>4 DEF RequestsFindTheirHome
<1> QED  BY <1>1, IntakeInductive, PTL

--------------------------------------------------------------------------------
(* The chain. *)

Named == Origins \cup {None}
HeaderSets == [authorization : Named, referer : Named, ruled : Named, plugged : Named,
               listened : Named]
CookieHeaders == [from : {None, "jar", "rule"}, origin : Named, mine : BOOLEAN]
Bodies == {None, "buffer", "stream"}
Dispatches == [url : Urls, method : Methods, body : Bodies, ctype : BOOLEAN,
               hdr : HeaderSets, cookie : CookieHeaders]
Responses == [from : Urls \cup {None}, status : Statuses \cup {None}, to : Urls \cup {None},
              sets : BOOLEAN, at : Urls \cup {None}]
Unsettled == {"gates", "headers", "body", "send", "waiting", "answered", "paused", "final"}
ChainSteps == Unsettled \cup {"served", "failed", "blocked"}

ChainTyped ==
  /\ in \in Outgoing /\ step \in ChainSteps /\ url \in Urls /\ hops \in 0..MaxHops
  /\ method \in {in.req.method, "GET"} /\ body \in Bodies /\ ctype \in BOOLEAN
  /\ hdr \in HeaderSets /\ cookie \in CookieHeaders /\ resp \in Responses
  /\ jar \in [Origins -> {"empty", "others", "mine"}] /\ aborted \in BOOLEAN
  /\ out \in Dispatches \cup {Unsent} /\ streamed \in 0..1 /\ reached \subseteq Urls

\* headers made for an origin go there, or to where a rule rewrote the URL asked for
Scoped == {"authorization", "referer", "ruled", "plugged"}
Diverted(u) == in.rewrite # None /\ \A v \in reached \cup {u} : Origin[v] = Origin[in.rewrite]
Meant(h, u) ==
  \A k \in Scoped : h[k] \in {None, Origin[u]} \/ (Diverted(u) /\ h[k] = Origin[First])
CookieMeant(k, u) ==
  k # NoCookie => k.origin = Origin[u] /\ (k.from = "jar" => Eligible(u))

\* what the next dispatch would carry
NextIsMeant ==
  /\ Meant(hdr, url) /\ CookieMeant(cookie, url)
  /\ step \in {"gates", "headers", "body"} => hops = 0 /\ resp = Silent /\ out = Unsent
  /\ step \in {"gates", "headers"} => hdr = NoHeaders /\ cookie = NoCookie /\ reached = {}
  /\ step = "headers" => url = IF in.rewrite = None THEN First ELSE in.rewrite
  /\ step \in {"paused", "send"} /\ hops > 0 /\ jar[Origin[url]] = "mine" /\ Eligible(url) =>
       (cookie.mine \/ cookie.from = "rule")

\* a body that is a stream has not been dispatched while another dispatch may come
BodyIsFresh ==
  /\ step \in {"gates", "headers", "body", "send", "paused"} /\ body = "stream" => streamed = 0
  /\ \/ method = in.req.method /\ body = in.req.body
     \/ method = "GET" /\ body = None /\ ~ctype

\* what is about to be dispatched passed the gates, or a rule put it past them
Passed ==
  step \in Unsettled \ {"gates"} => url \notin in.barred \/ url = in.rewrite

\* the cookies of the response in hand are admitted where the code says so
Admitted ==
  /\ step \in {"answered", "final"} => resp.from = url /\ resp.to \in Urls
  /\ resp.at \in {None, resp.from}
  /\ step \in {"gates", "headers", "body", "paused", "send", "served"} =>
       ~(resp.sets /\ Eligible(resp.from))

\* what was dispatched
OutIsMeant ==
  out # Unsent =>
    /\ Meant(out.hdr, out.url) /\ CookieMeant(out.cookie, out.url)
    /\ \/ out.method = in.req.method /\ out.body = in.req.body
       \/ out.method = "GET" /\ out.body = None /\ ~out.ctype

ChainInv ==
  /\ ChainTyped /\ NextIsMeant /\ BodyIsFresh /\ Passed /\ Admitted /\ OutIsMeant /\ GatesHold

LEMMA ChainInitial == ChainInit => ChainInv
<1> SUFFICES ASSUME ChainInit PROVE ChainInv  OBVIOUS
<1>1. in \in Outgoing /\ First \in Urls /\ MaxHops \in Nat  BY ChainAssumption DEF ChainInit
<1>2. in.req.method \in Methods /\ in.req.body \in Bodies  BY <1>1 DEF Outgoing, Bodies
<1>3. ChainTyped
  <2>1. hdr \in HeaderSets /\ cookie \in CookieHeaders
    BY DEF ChainInit, HeaderSets, Named, NoHeaders, CookieHeaders, NoCookie
  <2>2. resp \in Responses  BY DEF ChainInit, Responses, Silent
  <2>3. ctype \in BOOLEAN  BY DEF ChainInit
  <2>4. step \in ChainSteps /\ out = Unsent /\ jar \in [Origins -> {"empty", "others", "mine"}]
    BY DEF ChainInit, ChainSteps, Unsettled
  <2>5. url \in Urls /\ hops \in 0..MaxHops /\ method \in {in.req.method, "GET"} /\ body \in Bodies
    BY <1>1, <1>2 DEF ChainInit
  <2>6. streamed \in 0..1 /\ reached \subseteq Urls  BY DEF ChainInit
  <2>7. aborted \in BOOLEAN  BY DEF ChainInit
  <2> QED  BY <1>1, <2>1, <2>2, <2>3, <2>4, <2>5, <2>6, <2>7 DEF ChainTyped
<1>4. NextIsMeant  BY DEF ChainInit, NextIsMeant, Meant, Scoped, CookieMeant, NoHeaders
<1>5. BodyIsFresh /\ Passed  BY DEF ChainInit, BodyIsFresh, Passed
<1>6. Admitted  BY DEF ChainInit, Admitted, Silent
<1>7. OutIsMeant /\ GatesHold  BY DEF ChainInit, OutIsMeant, GatesHold
<1> QED  BY <1>3, <1>4, <1>5, <1>6, <1>7 DEF ChainInv

\* What is meant for a URL does not change while nothing is dispatched.
LEMMA SameMeant ==
  ASSUME in' = in, reached' = reached
  PROVE  Meant(hdr, url)' <=> Meant(hdr', url')
BY DEF Meant, Diverted

\* What the rules and the strip of a hop give is meant for the URL.
LEMMA HeaderFacts ==
  ASSUME in \in Outgoing, NEW u \in Urls, NEW h \in HeaderSets
  PROVE  /\ Minted(h, u) \in HeaderSets /\ (Meant(h, u) => Meant(Minted(h, u), u))
         /\ \A v \in Urls : /\ Stripped(h, v, u) \in HeaderSets
                            /\ Meant(h, v) => Meant(Stripped(h, v, u), u)
<1>1. Origin[u] \in Origins  BY DEF Origins
<1>2. Minted(h, u) \in HeaderSets /\ (Meant(h, u) => Meant(Minted(h, u), u))
  BY <1>1 DEF Minted, HeaderSets, Named, Meant, Scoped
<1>3. ASSUME NEW v \in Urls
      PROVE  Stripped(h, v, u) \in HeaderSets /\ (Meant(h, v) => Meant(Stripped(h, v, u), u))
  <2>1. CASE Origin[v] = Origin[u]
    <3>1. Stripped(h, v, u) = h  BY <2>1 DEF Stripped
    <3>2. Diverted(v) => Diverted(u)  BY <2>1 DEF Diverted
    <3> QED  BY <2>1, <3>1, <3>2 DEF Meant
  <2>2. CASE Origin[v] # Origin[u]
    BY <2>2 DEF Stripped, NoHeaders, HeaderSets, Named, Meant, Scoped
  <2> QED  BY <2>1, <2>2
<1> QED  BY <1>2, <1>3

LEMMA CookieFacts ==
  ASSUME NEW u \in Urls, NEW j \in [Origins -> {"empty", "others", "mine"}]
  PROVE  /\ JarCookie(j, u) \in CookieHeaders /\ CookieMeant(JarCookie(j, u), u)
         /\ HopCookie(j, u) \in CookieHeaders /\ CookieMeant(HopCookie(j, u), u)
         /\ j[Origin[u]] = "mine" /\ Eligible(u) =>
              HopCookie(j, u).mine \/ HopCookie(j, u).from = "rule"
<1>1. Origin[u] \in Origins  BY DEF Origins
<1> DEFINE mine == j[Origin[u]] = "mine"
           jc == [from |-> "jar", origin |-> Origin[u], mine |-> mine]
           rc == [from |-> "rule", origin |-> Origin[u], mine |-> FALSE]
<1>2. mine \in BOOLEAN  OBVIOUS
<1>3. jc \in CookieHeaders /\ rc \in CookieHeaders /\ NoCookie \in CookieHeaders
  <2> HIDE DEF mine
  <2> QED  BY <1>1, <1>2 DEF CookieHeaders, Named, NoCookie
<1>4. JarCookie(j, u) = IF Eligible(u) /\ j[Origin[u]] # "empty" THEN jc ELSE NoCookie
  BY DEF JarCookie
<1>5. HopCookie(j, u) = IF in.minting[Origin[u]] = "cookie" THEN rc ELSE JarCookie(j, u)
  BY DEF HopCookie
<1>6. CookieMeant(jc, u) <=> Eligible(u) \/ jc = NoCookie
  BY DEF CookieMeant
<1>7. CookieMeant(rc, u) /\ CookieMeant(NoCookie, u)  BY DEF CookieMeant
<1>8. JarCookie(j, u) \in CookieHeaders /\ CookieMeant(JarCookie(j, u), u)
  BY <1>3, <1>4, <1>6, <1>7
<1>9. HopCookie(j, u) \in CookieHeaders /\ CookieMeant(HopCookie(j, u), u)
  BY <1>3, <1>5, <1>7, <1>8
<1>10. j[Origin[u]] = "mine" /\ Eligible(u) => HopCookie(j, u).mine \/ HopCookie(j, u).from = "rule"
  <2> SUFFICES ASSUME j[Origin[u]] = "mine", Eligible(u)
               PROVE  HopCookie(j, u).mine \/ HopCookie(j, u).from = "rule"
    OBVIOUS
  <2>1. mine = TRUE  OBVIOUS
  <2>2. JarCookie(j, u) = jc /\ jc.mine = TRUE  BY <1>4, <2>1
  <2>3. rc.from = "rule"  OBVIOUS
  <2> HIDE DEF jc, rc
  <2> QED  BY <1>5, <2>2, <2>3
<1> QED  BY <1>8, <1>9, <1>10

\* Eligible does not change in a chain.
LEMMA SameEligible == ASSUME in' = in PROVE \A u : Eligible(u)' <=> Eligible(u)
BY DEF Eligible

\* Each action keeps the invariant.
LEMMA GatesKeeps == ASSUME ChainInv, Gates PROVE ChainInv'
<1>0. ChainTyped /\ NextIsMeant /\ BodyIsFresh /\ Passed /\ Admitted /\ OutIsMeant /\ GatesHold
  BY DEF ChainInv
<1>1. /\ step = "gates"
      /\ UNCHANGED <<in, hops, method, body, ctype, hdr, cookie, resp, jar, aborted, out, streamed, reached>>
      /\ \/ First \in in.barred /\ step' = "blocked" /\ url' = url
         \/ /\ First \notin in.barred /\ step' = "headers"
            /\ url' = IF in.rewrite = None THEN First ELSE in.rewrite
  BY DEF Gates, Halts
<1>2. url' \in Urls  BY <1>0, <1>1, ChainAssumption DEF ChainTyped, Outgoing
<1>3. ChainTyped'  BY <1>0, <1>1, <1>2 DEF ChainTyped, ChainSteps, Unsettled
<1>4. hdr = NoHeaders /\ cookie = NoCookie /\ resp = Silent /\ out = Unsent /\ hops = 0
  BY <1>0, <1>1 DEF NextIsMeant
<1>5. NextIsMeant'
  <2>1. Meant(hdr, url)'  BY <1>1, <1>4 DEF Meant, Scoped, NoHeaders
  <2>2. reached' = {}  BY <1>0, <1>1 DEF NextIsMeant
  <2> QED  BY <1>1, <1>4, <2>1, <2>2 DEF NextIsMeant, CookieMeant
<1>6. BodyIsFresh' /\ OutIsMeant' /\ GatesHold'
  BY <1>0, <1>1, <1>4 DEF BodyIsFresh, OutIsMeant, GatesHold
<1>7. Passed'  BY <1>1 DEF Passed, Unsettled
<1>8. Admitted'  BY <1>1, <1>4 DEF Admitted, Silent
<1> QED  BY <1>3, <1>5, <1>6, <1>7, <1>8 DEF ChainInv

LEMMA HeadersKeeps == ASSUME ChainInv, Headers PROVE ChainInv'
<1>0. ChainTyped /\ NextIsMeant /\ BodyIsFresh /\ Passed /\ Admitted /\ OutIsMeant /\ GatesHold
  BY DEF ChainInv
<1> DEFINE own == [authorization |-> Origin[First], referer |-> Origin[First], ruled |-> None,
                   plugged |-> Origin[url], listened |-> Origin[First]]
<1>1. /\ step = "headers" /\ step' = "body" /\ hdr' = Minted(own, First) /\ cookie' = JarCookie(jar, url)
      /\ UNCHANGED <<in, url, hops, method, body, ctype, resp, jar, aborted, out, streamed, reached>>
  BY DEF Headers
<1>2. /\ url \in Urls /\ in \in Outgoing /\ jar \in [Origins -> {"empty", "others", "mine"}]
      /\ First \in Urls /\ reached = {} /\ url = IF in.rewrite = None THEN First ELSE in.rewrite
  BY <1>0, <1>1, ChainAssumption DEF ChainTyped, NextIsMeant
<1>3. own \in HeaderSets  BY <1>2 DEF HeaderSets, Named, Origins
<1>4. hdr' \in HeaderSets /\ Meant(hdr', url)
  <2>1. hdr' \in HeaderSets  BY <1>1, <1>2, <1>3, HeaderFacts
  <2>2. \A k \in Scoped : hdr'[k] \in {None, Origin[First], Origin[url]}
    BY <1>1 DEF Minted, Scoped
  <2>3. url = First \/ Diverted(url)  BY <1>2 DEF Diverted
  <2> QED  BY <2>1, <2>2, <2>3 DEF Meant
<1> HIDE DEF own
<1>5. cookie' \in CookieHeaders /\ CookieMeant(cookie', url)  BY <1>1, <1>2, CookieFacts
<1>6. ChainTyped'  BY <1>0, <1>1, <1>4, <1>5 DEF ChainTyped, ChainSteps, Unsettled
<1>7. NextIsMeant'
  <2>1. Meant(hdr, url)'  BY <1>1, <1>4, SameMeant
  <2>2. CookieMeant(cookie, url)'  BY <1>1, <1>5, SameEligible DEF CookieMeant
  <2> QED  BY <1>0, <1>1, <2>1, <2>2 DEF NextIsMeant
<1>8. BodyIsFresh' /\ GatesHold' /\ Passed'
  BY <1>0, <1>1 DEF BodyIsFresh, GatesHold, Passed, Unsettled
<1>9. OutIsMeant'  BY <1>0, <1>1 DEF NextIsMeant, OutIsMeant
<1>10. Admitted'  BY <1>0, <1>1, SameEligible DEF Admitted
<1> QED  BY <1>6, <1>7, <1>8, <1>9, <1>10 DEF ChainInv

LEMMA BodyKeeps == ASSUME ChainInv, Body PROVE ChainInv'
<1>0. ChainTyped /\ NextIsMeant /\ BodyIsFresh /\ Passed /\ Admitted /\ OutIsMeant /\ GatesHold
  BY DEF ChainInv
<1>1. /\ step = "body" /\ step' \in {"send", "failed"}
      /\ UNCHANGED <<in, url, hops, method, body, ctype, hdr, cookie, resp, jar, aborted, out, streamed, reached>>
  BY DEF Body
<1>2. ChainTyped'  BY <1>0, <1>1 DEF ChainTyped, ChainSteps, Unsettled
<1>3. \A u : Eligible(u)' <=> Eligible(u)  BY <1>1, SameEligible
<1>4. NextIsMeant'  BY <1>0, <1>1, <1>3 DEF NextIsMeant, Meant, Diverted, CookieMeant
<1>5. BodyIsFresh' /\ GatesHold' /\ Passed'
  BY <1>0, <1>1 DEF BodyIsFresh, GatesHold, Passed, Unsettled
<1>6. OutIsMeant'  BY <1>0, <1>1 DEF NextIsMeant, OutIsMeant
<1>7. Admitted'  BY <1>0, <1>1, <1>3 DEF Admitted
<1> QED  BY <1>2, <1>4, <1>5, <1>6, <1>7 DEF ChainInv

LEMMA SendKeeps == ASSUME ChainInv, Send PROVE ChainInv'
<1>0. ChainTyped /\ NextIsMeant /\ BodyIsFresh /\ Passed /\ Admitted /\ OutIsMeant /\ GatesHold
  BY DEF ChainInv
<1>1. /\ step = "send"
      /\ UNCHANGED <<in, url, hops, method, body, ctype, hdr, cookie, resp, jar, aborted>>
  BY DEF Send
<1>3. \A u : Eligible(u)' <=> Eligible(u)  BY <1>1, SameEligible
<1>2. CASE aborted
  <2>1. step' = "failed" /\ UNCHANGED <<out, streamed, reached>>  BY <1>2 DEF Send, Halts
  <2>2. ChainTyped'  BY <1>0, <1>1, <2>1 DEF ChainTyped, ChainSteps, Unsettled
  <2>3. NextIsMeant'  BY <1>0, <1>1, <1>3, <2>1 DEF NextIsMeant, Meant, Diverted, CookieMeant
  <2>4. BodyIsFresh' /\ GatesHold' /\ Passed'
    BY <1>0, <1>1, <2>1 DEF BodyIsFresh, GatesHold, Passed, Unsettled
  <2>5. OutIsMeant'  BY <1>0, <1>1, <1>3, <2>1 DEF OutIsMeant, Meant, Diverted, CookieMeant
  <2>6. Admitted'  BY <1>0, <1>1, <1>3, <2>1 DEF Admitted
  <2> QED  BY <2>2, <2>3, <2>4, <2>5, <2>6 DEF ChainInv
<1>4. CASE ~aborted
  <2> DEFINE sent == [url |-> url, method |-> method, body |-> body, ctype |-> ctype,
                      hdr |-> hdr, cookie |-> cookie]
  <2>1. /\ step' = "waiting" /\ out' = sent /\ reached' = reached \cup {url}
        /\ streamed' = streamed + (IF body = "stream" THEN 1 ELSE 0)
    BY <1>4 DEF Send
  <2>2. sent \in Dispatches
    <3>0. in \in Outgoing  BY <1>0 DEF ChainTyped
    <3>1. in.req.method \in Methods
      <4>1. in.req \in [method : Methods, body : {None, "buffer", "stream"}]  BY <3>0 DEF Outgoing
      <4> QED  BY <4>1
    <3>2. method \in Methods
      <4>1. method = in.req.method \/ method = "GET"  BY <1>0 DEF ChainTyped
      <4>2. "GET" \in Methods  BY DEF Methods
      <4> QED  BY <3>1, <4>1, <4>2
    <3>3. ctype \in BOOLEAN  BY <1>0 DEF ChainTyped
    <3> QED  BY <1>0, <3>2, <3>3 DEF ChainTyped, Dispatches
  <2>3. streamed' \in 0..1  BY <1>0, <1>1, <2>1 DEF BodyIsFresh, ChainTyped
  <2>4. /\ sent.url = url /\ sent.method = method /\ sent.body = body /\ sent.ctype = ctype
        /\ sent.hdr = hdr /\ sent.cookie = cookie
    OBVIOUS
  <2> HIDE DEF sent
  <2>5. ChainTyped'  BY <1>0, <1>1, <2>1, <2>2, <2>3 DEF ChainTyped, ChainSteps, Unsettled
  <2>a. Meant(hdr, url)'
    <3>1. Meant(hdr, url)  BY <1>0 DEF NextIsMeant
    <3>2. Diverted(url) => Diverted(url)'  BY <1>1, <2>1 DEF Diverted
    <3> QED  BY <1>1, <3>1, <3>2 DEF Meant
  <2>6. NextIsMeant'  BY <1>0, <1>1, <1>3, <2>1, <2>a DEF NextIsMeant, CookieMeant
  <2>7. BodyIsFresh' /\ Passed'  BY <1>0, <1>1, <2>1 DEF BodyIsFresh, Passed, Unsettled
  <2>8. GatesHold'
    <3>1. url \notin in.barred \/ url = in.rewrite  BY <1>0, <1>1 DEF Passed, Unsettled
    <3> QED  BY <1>0, <1>1, <2>1, <3>1 DEF GatesHold
  <2>9. OutIsMeant'
    <3>1. CookieMeant(cookie, url)  BY <1>0 DEF NextIsMeant
    <3>2. Meant(out.hdr, out.url)'  BY <1>1, <2>1, <2>4, <2>a DEF Meant, Diverted
    <3>3. CookieMeant(out.cookie, out.url)'  BY <1>3, <2>1, <2>4, <3>1 DEF CookieMeant
    <3>4. \/ method = in.req.method /\ body = in.req.body
          \/ method = "GET" /\ body = None /\ ~ctype
      BY <1>0 DEF BodyIsFresh
    <3> QED  BY <1>1, <2>1, <2>4, <3>2, <3>3, <3>4 DEF OutIsMeant
  <2>10. Admitted'  BY <1>0, <1>1, <1>3, <2>1 DEF Admitted
  <2> QED  BY <2>5, <2>6, <2>7, <2>8, <2>9, <2>10 DEF ChainInv
<1> QED  BY <1>2, <1>4

LEMMA RespondsKeeps == ASSUME ChainInv, Responds PROVE ChainInv'
<1>0. ChainTyped /\ NextIsMeant /\ BodyIsFresh /\ Passed /\ Admitted /\ OutIsMeant /\ GatesHold
  BY DEF ChainInv
<1>1. /\ step = "waiting" /\ step' \in {"answered", "failed"}
      /\ UNCHANGED <<in, url, hops, method, body, ctype, hdr, cookie, jar, aborted, out, streamed, reached>>
      /\ \/ resp' = resp /\ step' = "failed"
         \/ \E status \in Statuses, to \in Urls, sets \in BOOLEAN :
              resp' = [from |-> url, status |-> status, to |-> to, sets |-> sets, at |-> None]
  BY DEF Responds, Halts
<1>3. \A u : Eligible(u)' <=> Eligible(u)  BY <1>1, SameEligible
<1>2. resp' \in Responses /\ (step' = "answered" => resp'.from = url /\ resp'.to \in Urls) /\ resp'.at \in {None, resp'.from}
  <2>1. CASE resp' = resp /\ step' = "failed"  BY <1>0, <2>1 DEF ChainTyped, Admitted
  <2>2. ASSUME NEW status \in Statuses, NEW to \in Urls, NEW sets \in BOOLEAN,
               resp' = [from |-> url, status |-> status, to |-> to, sets |-> sets, at |-> None]
        PROVE  resp' \in Responses /\ resp'.from = url /\ resp'.to \in Urls /\ resp'.at = None
    BY <1>0, <2>2 DEF ChainTyped, Responses
  <2> QED  BY <1>1, <2>1, <2>2
<1>4. ChainTyped'  BY <1>0, <1>1, <1>2 DEF ChainTyped, ChainSteps, Unsettled
<1>5. NextIsMeant'  BY <1>0, <1>1, <1>3 DEF NextIsMeant, Meant, Diverted, CookieMeant
<1>6. BodyIsFresh' /\ GatesHold' /\ Passed'
  BY <1>0, <1>1 DEF BodyIsFresh, GatesHold, Passed, Unsettled
<1>7. OutIsMeant'  BY <1>0, <1>1, <1>3 DEF OutIsMeant, Meant, Diverted, CookieMeant
<1>8. Admitted'  BY <1>1, <1>2 DEF Admitted
<1> QED  BY <1>4, <1>5, <1>6, <1>7, <1>8 DEF ChainInv

\* applySetCookie at the URL a response came from settles its cookies.
LEMMA CapturesFacts ==
  ASSUME ChainInv, step \in {"answered", "final"}, Captures(url), in' = in
  PROVE  /\ jar' \in [Origins -> {"empty", "others", "mine"}] /\ resp' \in Responses
         /\ resp'.from = resp.from /\ resp'.at \in {None, resp'.from}
         /\ ~(resp'.sets /\ Eligible(resp.from))
<1>0. /\ url \in Urls /\ jar \in [Origins -> {"empty", "others", "mine"}] /\ resp \in Responses
      /\ resp.from = url /\ resp.at \in {None, resp.from}
  BY DEF ChainInv, ChainTyped, Admitted
<1>1. \A u : Eligible(u)' <=> Eligible(u)  BY SameEligible
<1>2. CASE resp.sets /\ Eligible(url)
  <2>1. jar' = [jar EXCEPT ![Origin[url]] = "mine"] /\ resp' = [resp EXCEPT !.sets = FALSE, !.at = url]
    BY <1>2 DEF Captures
  <2>2. resp' \in Responses /\ resp'.from = url /\ resp'.at = url /\ resp'.sets = FALSE
    BY <1>0, <2>1 DEF Responses
  <2> QED  BY <1>0, <2>1, <2>2
<1>3. CASE ~(resp.sets /\ Eligible(url))
  BY <1>0, <1>1, <1>3 DEF Captures
<1> QED  BY <1>2, <1>3

LEMMA HopKeeps == ASSUME ChainInv, Hop PROVE ChainInv'
<1>0. ChainTyped /\ NextIsMeant /\ BodyIsFresh /\ Passed /\ Admitted /\ OutIsMeant /\ GatesHold
  BY DEF ChainInv
<1>1. /\ step = "answered" /\ Redirected /\ resp.status # "bare" /\ ~Unreplayable /\ Captures(url)
      /\ url' = resp.to /\ hops' = hops + 1 /\ UNCHANGED <<in, aborted, out, streamed, reached>>
      /\ IF BecomesGet THEN method' = "GET" /\ body' = None /\ ctype' = FALSE
         ELSE UNCHANGED <<method, body, ctype>>
  BY DEF Hop
<1>2. \/ /\ HopBarred(resp.to) /\ step' = "blocked" /\ cookie' = JarCookie(jar', resp.to)
         /\ hdr' = Stripped(hdr, url, resp.to)
      \/ /\ ~HopBarred(resp.to) /\ step' = "paused" /\ cookie' = HopCookie(jar', resp.to)
         /\ hdr' = Minted(Stripped(hdr, url, resp.to), resp.to)
  BY DEF Hop, Halts
<1>3. \A u : Eligible(u)' <=> Eligible(u)  BY <1>1, SameEligible
<1>4. /\ jar' \in [Origins -> {"empty", "others", "mine"}] /\ resp' \in Responses
      /\ resp'.from = resp.from /\ resp'.at \in {None, resp'.from}
      /\ ~(resp'.sets /\ Eligible(resp.from))
  BY <1>1, CapturesFacts
<1>5. /\ url \in Urls /\ resp.to \in Urls /\ in \in Outgoing /\ hdr \in HeaderSets
      /\ Meant(hdr, url)
  BY <1>0, <1>1 DEF ChainTyped, Admitted, NextIsMeant
<1> DEFINE to == resp.to
<1>6. hdr' \in HeaderSets /\ Meant(hdr', to)  BY <1>2, <1>5, HeaderFacts
<1>7. /\ cookie' \in CookieHeaders /\ CookieMeant(cookie', to)
      /\ step' = "paused" /\ jar'[Origin[to]] = "mine" /\ Eligible(to) =>
           (cookie'.mine \/ cookie'.from = "rule")
  BY <1>2, <1>4, <1>5, CookieFacts
<1>8. step' \in {"blocked", "paused"} /\ url' = to  BY <1>1, <1>2
<1>9. ChainTyped'
  <2>1. hops' \in 0..MaxHops  BY <1>0, <1>1, ChainAssumption DEF ChainTyped, Redirected
  <2>2. body' \in Bodies /\ method' \in {in.req.method, "GET"}
    BY <1>0, <1>1 DEF ChainTyped, Bodies
  <2>3. ctype' \in BOOLEAN  BY <1>0, <1>1 DEF ChainTyped
  <2> QED  BY <1>0, <1>1, <1>4, <1>5, <1>6, <1>7, <1>8, <2>1, <2>2, <2>3 DEF ChainTyped, ChainSteps, Unsettled
<1>10. NextIsMeant'
  <2>1. Meant(hdr, url)'  BY <1>1, <1>6, <1>8, SameMeant
  <2>2. CookieMeant(cookie, url)'  BY <1>3, <1>7, <1>8 DEF CookieMeant
  <2>3. hops' > 0  BY <1>0, <1>1 DEF ChainTyped
  <2> QED  BY <1>3, <1>7, <1>8, <2>1, <2>2, <2>3 DEF NextIsMeant
<1>11. BodyIsFresh'
  <2>1. body' # "stream"  BY <1>1 DEF Unreplayable, None
  <2> QED  BY <1>0, <1>1, <2>1 DEF BodyIsFresh
<1>12. Passed'  BY <1>1, <1>2, <1>8 DEF Passed, HopBarred, Unsettled
<1>13. GatesHold' /\ OutIsMeant'
  BY <1>0, <1>1, <1>3 DEF GatesHold, OutIsMeant, Meant, Diverted, CookieMeant
<1>14. Admitted'  BY <1>3, <1>4, <1>8 DEF Admitted
<1> QED  BY <1>9, <1>10, <1>11, <1>12, <1>13, <1>14 DEF ChainInv

LEMMA ResumesKeeps == ASSUME ChainInv, Resumes PROVE ChainInv'
<1>0. ChainTyped /\ NextIsMeant /\ BodyIsFresh /\ Passed /\ Admitted /\ OutIsMeant /\ GatesHold
  BY DEF ChainInv
<1>1. /\ step = "paused" /\ step' = "send"
      /\ UNCHANGED <<in, url, hops, method, body, ctype, hdr, cookie, resp, jar, aborted, out, streamed, reached>>
  BY DEF Resumes
<1>3. \A u : Eligible(u)' <=> Eligible(u)  BY <1>1, SameEligible
<1>2. ChainTyped'  BY <1>0, <1>1 DEF ChainTyped, ChainSteps, Unsettled
<1>4. NextIsMeant'  BY <1>0, <1>1, <1>3 DEF NextIsMeant, Meant, Diverted, CookieMeant
<1>5. BodyIsFresh' /\ GatesHold' /\ Passed'
  BY <1>0, <1>1 DEF BodyIsFresh, GatesHold, Passed, Unsettled
<1>6. OutIsMeant'  BY <1>0, <1>1, <1>3 DEF OutIsMeant, Meant, Diverted, CookieMeant
<1>7. Admitted'  BY <1>0, <1>1, <1>3 DEF Admitted
<1> QED  BY <1>2, <1>4, <1>5, <1>6, <1>7 DEF ChainInv

\* A response that leaves the chain, or is served, has its cookies admitted.
LEMMA SettlesKeeps == ASSUME ChainInv, Surfaces \/ Final PROVE ChainInv'
<1>0. ChainTyped /\ NextIsMeant /\ BodyIsFresh /\ Passed /\ Admitted /\ OutIsMeant /\ GatesHold
  BY DEF ChainInv
<1>1. /\ Captures(url) /\ step \in {"answered", "final"}
      /\ step' \in {"final", "served"}
      /\ UNCHANGED <<in, url, hops, method, body, ctype, hdr, cookie, aborted, out, streamed, reached>>
  BY DEF Surfaces, Final, Halts
<1>a. resp'.to = resp.to
  BY <1>0, <1>1 DEF Captures, ChainTyped, Responses
<1>3. \A u : Eligible(u)' <=> Eligible(u)  BY <1>1, SameEligible
<1>4. /\ jar' \in [Origins -> {"empty", "others", "mine"}] /\ resp' \in Responses
      /\ resp'.from = resp.from /\ resp'.at \in {None, resp'.from}
      /\ ~(resp'.sets /\ Eligible(resp.from))
  BY <1>1, CapturesFacts
<1>5. ChainTyped'  BY <1>0, <1>1, <1>4 DEF ChainTyped, ChainSteps, Unsettled
<1>6. NextIsMeant'  BY <1>0, <1>1, <1>3 DEF NextIsMeant, Meant, Diverted, CookieMeant
<1>7. BodyIsFresh' /\ GatesHold' /\ Passed'
  BY <1>0, <1>1 DEF BodyIsFresh, GatesHold, Passed, Unsettled
<1>8. OutIsMeant'  BY <1>0, <1>1, <1>3 DEF OutIsMeant, Meant, Diverted, CookieMeant
<1>9. Admitted'  BY <1>0, <1>1, <1>3, <1>4, <1>a DEF Admitted
<1> QED  BY <1>5, <1>6, <1>7, <1>8, <1>9 DEF ChainInv

\* What others do to the jar makes nothing of the chain's own.
LEMMA OthersKeep ==
  ASSUME ChainInv, (\E o \in Origins : OtherSets(o)) \/ ClearJar \/ Abort \/ UNCHANGED chainVars
  PROVE  ChainInv'
<1>0. ChainTyped /\ NextIsMeant /\ BodyIsFresh /\ Passed /\ Admitted /\ OutIsMeant /\ GatesHold
  BY DEF ChainInv
<1>1. /\ UNCHANGED <<in, step, url, hops, method, body, ctype, hdr, cookie, resp, out, streamed, reached>>
      /\ jar' \in [Origins -> {"empty", "others", "mine"}]
      /\ \A o \in Origins : jar'[o] = "mine" => jar[o] = "mine"
  BY <1>0 DEF OtherSets, ClearJar, Abort, chainVars, ChainTyped
<1>a. aborted' \in BOOLEAN
  BY <1>0 DEF OtherSets, ClearJar, Abort, chainVars, ChainTyped
<1>3. \A u : Eligible(u)' <=> Eligible(u)  BY <1>1, SameEligible
<1>2. ChainTyped'  BY <1>0, <1>1, <1>a DEF ChainTyped
<1>4. NextIsMeant'
  <2>1. Origin[url] \in Origins  BY <1>0 DEF ChainTyped, Origins
  <2> QED  BY <1>0, <1>1, <1>3, <2>1 DEF NextIsMeant, Meant, Diverted, CookieMeant
<1>5. BodyIsFresh' /\ GatesHold' /\ Passed'
  BY <1>0, <1>1 DEF BodyIsFresh, GatesHold, Passed
<1>6. OutIsMeant'  BY <1>0, <1>1, <1>3 DEF OutIsMeant, Meant, Diverted, CookieMeant
<1>7. Admitted'  BY <1>0, <1>1, <1>3 DEF Admitted
<1> QED  BY <1>2, <1>4, <1>5, <1>6, <1>7 DEF ChainInv

\* ChainInv holds of every chain, for any URLs, origins, requests and bound on the redirects.
THEOREM ChainInductive == ChainSpec => []ChainInv
<1>1. ASSUME ChainInv, [ChainNext]_chainVars PROVE ChainInv'
  BY <1>1, GatesKeeps, HeadersKeeps, BodyKeeps, SendKeeps, RespondsKeeps, HopKeeps,
     ResumesKeeps, SettlesKeeps, OthersKeep DEF ChainNext
<1> QED  BY <1>1, ChainInitial, PTL DEF ChainSpec

\* #194, #276, #556, #186, for every value of the constants: whatever redirects come, no
\* header or cookie is dispatched to an origin it was not made for, a one-shot body goes
\* out once, no redirect smuggles a barred URL past the gates, and the cookies of each
\* response are admitted before the next dispatch.
THEOREM HopsSound == ChainSpec => []HopsAreSound
<1>1. ASSUME ChainInv PROVE HopsAreSound
  <2>0. ChainTyped /\ NextIsMeant /\ BodyIsFresh /\ Passed /\ Admitted /\ OutIsMeant /\ GatesHold
    BY <1>1 DEF ChainInv
  <2>1. ChainTypeOK
    <3>1. \A h \in DOMAIN hdr : hdr[h] \in Origins \cup {None}
      BY <2>0 DEF ChainTyped, HeaderSets, Named
    <3> QED  BY <2>0, <3>1 DEF ChainTyped, ChainTypeOK, ChainSteps, Unsettled, Bodies
  <2>2. HeadersStayHome
    <3>1. out # Unsent => out.hdr \in HeaderSets  BY <2>0 DEF ChainTyped, Dispatches
    <3>2. ASSUME out # Unsent, NEW h \in DOMAIN out.hdr \ {"listened"}
          PROVE  \/ out.hdr[h] \in {None, Origin[out.url]}
                 \/ /\ in.rewrite # None /\ out.hdr[h] = Origin[First]
                    /\ \A u \in reached : Origin[u] = Origin[in.rewrite]
      <4>1. Meant(out.hdr, out.url) /\ h \in Scoped
        BY <2>0, <3>1, <3>2 DEF OutIsMeant, HeaderSets, Scoped
      <4> QED  BY <4>1 DEF Meant, Diverted
    <3> QED  BY <3>2 DEF HeadersStayHome, Sent
  <2>3. CookiesFollowTheChain
    BY <2>0 DEF CookiesFollowTheChain, Sent, OutIsMeant, CookieMeant, NextIsMeant
  <2>4. BodyIsWhole  BY <2>0 DEF BodyIsWhole, Sent, OutIsMeant, ChainTyped
  <2>5. CookiesAreCaptured  BY <2>0 DEF CookiesAreCaptured, Admitted
  <2> QED  BY <2>0, <2>1, <2>2, <2>3, <2>4, <2>5 DEF HopsAreSound
<1> QED  BY <1>1, ChainInductive, PTL
--------------------------------------------------------------------------------
(* The spool of request bodies. *)

Uploads == [pc : Pcs, length : {"none", "fits", "over"}, size : 0..MaxSize, got : 0..MaxSize,
            reserved : 0..SpoolCap, as : {"", "stream", "buffer", "copy"}]

\* what an upload holds at each place: its reservation is what it has read, as long as it
\* spools; nothing was read before the first byte, and all of it once the stream has ended
Fits(u) ==
  /\ u \in Uploads /\ u.got <= u.size
  /\ u.reserved = (IF u.pc \in Writing THEN u.got ELSE 0)
  /\ u.pc \in {"idle"} \cup BeforeFirstByte => u.got = 0
  /\ u.pc \in {"close", "getFile", "spooled"} => u.got = u.size
  /\ u.pc = "sent" => u.got = IF u.as = "stream" THEN 0 ELSE u.size

\* a sweep has listed old files only, and a file is removed once its upload is over
Sweeps ==
  /\ files \subseteq Reqs /\ aged \subseteq Reqs /\ removing \subseteq Reqs
  /\ victims \in [Reqs -> SUBSET Reqs]
  /\ \A r \in Reqs : victims[r] \subseteq aged
  /\ \A r \in removing : upload[r].pc \in Over

SpoolTyped == upload \in [Reqs -> Uploads] /\ \A r \in Reqs : Fits(upload[r])

SpoolIInv == SpoolTyped /\ Sweeps /\ SpoolFileKept /\ SpoolBudgetsExact

\* one request's chunks, as pairs
LEMMA RowSize ==
  ASSUME NEW r \in Reqs, NEW k \in 0..MaxSize
  PROVE  IsFiniteSet({r} \X (1..k)) /\ Cardinality({r} \X (1..k)) = k
<1>1. IsFiniteSet(1..k) /\ Cardinality(1..k) = k  BY SpoolAssumption, FS_Interval
<1>2. IsFiniteSet({r}) /\ Cardinality({r}) = 1  BY FS_Singleton
<1>3. /\ IsFiniteSet({r} \X (1..k))
      /\ Cardinality({r} \X (1..k)) = Cardinality({r}) * Cardinality(1..k)
  BY <1>1, <1>2, FS_Product
<1> QED  BY <1>1, <1>2, <1>3, SpoolAssumption

LEMMA ChunksFinite == IsFiniteSet(Reqs \X (1..MaxSize))
<1>1. IsFiniteSet(1..MaxSize)  BY SpoolAssumption, FS_Interval
<1> QED  BY <1>1, SpoolAssumption, FS_Product

\* A sum is a natural number, and a sum of nothing is zero.
LEMMA TotalType ==
  ASSUME NEW f \in [Reqs -> 0..MaxSize]
  PROVE  Total(f) \in Nat /\ ((\A r \in Reqs : f[r] = 0) => Total(f) = 0)
<1> DEFINE S == {c \in Reqs \X (1..MaxSize) : c[2] <= f[c[1]]}
<1>1. IsFiniteSet(Reqs \X (1..MaxSize))  BY ChunksFinite
<1>2. Cardinality(S) \in Nat  BY <1>1, FS_Subset, FS_CardinalityType
<1>3. (\A r \in Reqs : f[r] = 0) => S = {}  BY SpoolAssumption
<1> QED  BY <1>2, <1>3, FS_EmptySet DEF Total

\* a sum is the rest and one request's part
LEMMA TotalSplits ==
  ASSUME NEW f \in [Reqs -> 0..MaxSize], NEW r \in Reqs
  PROVE  LET rest == {c \in Reqs \X (1..MaxSize) : c[1] # r /\ c[2] <= f[c[1]]} IN
           Cardinality(rest) \in Nat /\ Total(f) = Cardinality(rest) + f[r]
<1> DEFINE rest == {c \in Reqs \X (1..MaxSize) : c[1] # r /\ c[2] <= f[c[1]]}
           row == {r} \X (1..f[r])
           all == {c \in Reqs \X (1..MaxSize) : c[2] <= f[c[1]]}
<1>1. IsFiniteSet(Reqs \X (1..MaxSize))  BY ChunksFinite
<1>2. IsFiniteSet(rest) /\ Cardinality(rest) \in Nat  BY <1>1, FS_Subset, FS_CardinalityType
<1>3. IsFiniteSet(row) /\ Cardinality(row) = f[r]  BY RowSize
<1>4. all = rest \cup row
  <2>1. all \subseteq rest \cup row  BY SpoolAssumption
  <2>2. row \subseteq all  BY SpoolAssumption
  <2> QED  BY <2>1, <2>2
<1>5. rest \cap row = {}  OBVIOUS
<1>6. Cardinality(rest \cup row) = Cardinality(rest) + Cardinality(row) - Cardinality(rest \cap row)
  BY <1>2, <1>3, FS_Union
<1>7. Cardinality(all) = Cardinality(rest) + f[r]
  <2>1. Cardinality(rest \cap row) = 0  BY <1>5, FS_EmptySet
  <2>2. f[r] \in Nat  BY SpoolAssumption
  <2>3. Cardinality(rest \cup row) = Cardinality(rest) + f[r]
    <3> HIDE DEF rest, row
    <3> QED  BY <1>2, <1>3, <1>6, <2>1, <2>2
  <2> QED  BY <1>4, <2>3
<1> HIDE DEF rest
<1>8. Total(f) = Cardinality(rest) + f[r]  BY <1>7 DEF Total
<1> QED  BY <1>2, <1>8 DEF rest

\* Two sums that differ in what one request holds.
LEMMA Recount ==
  ASSUME NEW f \in [Reqs -> 0..MaxSize], NEW g \in [Reqs -> 0..MaxSize], NEW r \in Reqs,
         \A q \in Reqs \ {r} : g[q] = f[q]
  PROVE  Total(g) = Total(f) - f[r] + g[r] /\ Total(f) \in Nat /\ Total(g) \in Nat
<1> DEFINE R(h) == {c \in Reqs \X (1..MaxSize) : c[1] # r /\ c[2] <= h[c[1]]}
<1>1. R(f) = R(g)  OBVIOUS
<1>2. Cardinality(R(f)) \in Nat /\ Total(f) = Cardinality(R(f)) + f[r]  BY TotalSplits
<1>3. Total(g) = Cardinality(R(g)) + g[r]  BY TotalSplits
<1> HIDE DEF R
<1>4. f[r] \in Nat /\ g[r] \in Nat  BY SpoolAssumption
<1> QED  BY <1>1, <1>2, <1>3, <1>4, TotalType

\* What a step of one request does to the types and the budgets.
LEMMA UploadStep ==
  ASSUME SpoolTyped, SpoolBudgetsExact, NEW r \in Reqs, NEW y, Fits(y),
         upload' = [upload EXCEPT ![r] = y],
         inFlight' = inFlight - Reserved(upload[r]) + Reserved(y),
         live' = live - OnDisk(upload[r]) + OnDisk(y),
         inFlight' + live' <= Budget
  PROVE  SpoolTyped' /\ SpoolBudgetsExact'
<1>1. /\ upload \in [Reqs -> Uploads] /\ y \in Uploads /\ upload' \in [Reqs -> Uploads]
      /\ upload'[r] = y /\ \A q \in Reqs \ {r} : upload'[q] = upload[q]
  BY DEF SpoolTyped, Fits
<1>2. SpoolTyped'
  <2>1. \A q \in Reqs : Fits(upload'[q])  BY <1>1 DEF SpoolTyped
  <2> QED  BY <1>1, <2>1 DEF SpoolTyped, Fits
<1>3. \A u : Fits(u) => Reserved(u) \in 0..MaxSize /\ OnDisk(u) \in 0..MaxSize
  <2>1. TAKE u
  <2>2. HAVE Fits(u)
  <2>3. u.got \in 0..MaxSize /\ 0 \in 0..MaxSize
    <3>1. u \in Uploads  BY <2>2 DEF Fits
    <3>2. u.got \in 0..MaxSize  BY <3>1 DEF Uploads
    <3> QED  BY <3>2, SpoolAssumption
  <2>4. u.reserved = IF u.pc \in Writing THEN u.got ELSE 0  BY <2>2 DEF Fits
  <2> QED  BY <2>3, <2>4 DEF Reserved, OnDisk
<1> DEFINE f == [q \in Reqs |-> Reserved(upload[q])]
           g == [q \in Reqs |-> Reserved(upload'[q])]
           d == [q \in Reqs |-> OnDisk(upload[q])]
           e == [q \in Reqs |-> OnDisk(upload'[q])]
<1>4. f \in [Reqs -> 0..MaxSize] /\ d \in [Reqs -> 0..MaxSize]  BY <1>3 DEF SpoolTyped
<1>5. g \in [Reqs -> 0..MaxSize] /\ e \in [Reqs -> 0..MaxSize]
  <2>1. \A q \in Reqs : Fits(upload'[q])  BY <1>1 DEF SpoolTyped
  <2> QED  BY <1>3, <2>1
<1>6. \A q \in Reqs \ {r} : g[q] = f[q] /\ e[q] = d[q]  BY <1>1
<1>7. f[r] = Reserved(upload[r]) /\ g[r] = Reserved(y) /\ d[r] = OnDisk(upload[r]) /\ e[r] = OnDisk(y)
  BY <1>1
<1>8. inFlight = Total(f) /\ live = Total(d)  BY DEF SpoolBudgetsExact
<1> HIDE DEF f, g, d, e
<1>9. Total(g) = Total(f) - f[r] + g[r] /\ Total(e) = Total(d) - d[r] + e[r]
  BY <1>4, <1>5, <1>6, Recount
<1>10. inFlight' = Total(g) /\ live' = Total(e)  BY <1>7, <1>8, <1>9
<1>11. SpoolBudgetsExact'  BY <1>10 DEF SpoolBudgetsExact, g, e, Total, Reserved, OnDisk
<1> QED  BY <1>2, <1>11

\* the places at which an upload needs its file
NeedsFile == Writing \cup {"writable", "spooled"}

LEMMA SpoolFacts ==
  ASSUME SpoolIInv, NEW r \in Reqs
  PROVE  /\ Fits(upload[r]) /\ upload[r] \in Uploads
         /\ inFlight \in Nat /\ live \in Nat /\ inFlight + live <= Budget
         /\ Reserved(upload[r]) \in Nat /\ OnDisk(upload[r]) \in Nat
         /\ upload[r].got \in 0..MaxSize /\ upload[r].size \in 0..MaxSize
<1>1. Fits(upload[r]) /\ upload[r] \in Uploads  BY DEF SpoolIInv, SpoolTyped
<1>2. \A q \in Reqs : Reserved(upload[q]) \in 0..MaxSize /\ OnDisk(upload[q]) \in 0..MaxSize
  <2>1. TAKE q \in Reqs
  <2>2. Fits(upload[q]) /\ upload[q] \in Uploads  BY DEF SpoolIInv, SpoolTyped
  <2>3. upload[q].got \in 0..MaxSize /\ 0 \in 0..MaxSize
    <3>1. upload[q].got \in 0..MaxSize  BY <2>2 DEF Uploads
    <3> QED  BY <3>1, SpoolAssumption
  <2>4. upload[q].reserved = IF upload[q].pc \in Writing THEN upload[q].got ELSE 0  BY <2>2 DEF Fits
  <2> QED  BY <2>3, <2>4 DEF Reserved, OnDisk
<1>3. Total([q \in Reqs |-> Reserved(upload[q])]) \in Nat
      /\ Total([q \in Reqs |-> OnDisk(upload[q])]) \in Nat
  BY <1>2, TotalType
<1>4. inFlight \in Nat /\ live \in Nat /\ inFlight + live <= Budget
  BY <1>3 DEF SpoolIInv, SpoolBudgetsExact
<1>5. Reserved(upload[r]) \in Nat /\ OnDisk(upload[r]) \in Nat  BY <1>2, SpoolAssumption
<1>6. upload[r].got \in 0..MaxSize /\ upload[r].size \in 0..MaxSize  BY <1>1 DEF Uploads
<1> QED  BY <1>1, <1>4, <1>5, <1>6

\* A step of one request that leaves the files.
LEMMA AtWork ==
  ASSUME SpoolIInv, NEW r \in Reqs, NEW y, Fits(y), upload' = [upload EXCEPT ![r] = y],
         inFlight' = inFlight - Reserved(upload[r]) + Reserved(y),
         live' = live - OnDisk(upload[r]) + OnDisk(y),
         inFlight' + live' <= Budget,
         UNCHANGED storage, upload[r].pc \notin Over, y.pc \in NeedsFile => upload[r].pc \in NeedsFile
  PROVE  SpoolIInv'
<1>1. SpoolTyped' /\ SpoolBudgetsExact'  BY UploadStep DEF SpoolIInv
<1>2. upload'[r] = y /\ \A q \in Reqs \ {r} : upload'[q] = upload[q]  BY DEF SpoolIInv, SpoolTyped
<1>3. UNCHANGED <<files, aged, victims, removing>>  BY DEF storage
<1>4. Sweeps'
  <2>1. Sweeps  BY DEF SpoolIInv
  <2>2. \A q \in removing' : upload'[q].pc \in Over  BY <1>2, <1>3, <2>1 DEF Sweeps
  <2> QED  BY <1>3, <2>1, <2>2 DEF Sweeps
<1>5. SpoolFileKept'
  <2>1. SpoolFileKept  BY DEF SpoolIInv
  <2> QED  BY <1>2, <1>3, <2>1 DEF SpoolFileKept, NeedsFile
<1> QED  BY <1>1, <1>4, <1>5 DEF SpoolIInv

\* the same, where no counter is concerned
LEMMA Quiet ==
  ASSUME SpoolIInv, NEW r \in Reqs, NEW y, Fits(y), upload' = [upload EXCEPT ![r] = y],
         Reserved(y) = Reserved(upload[r]), OnDisk(y) = OnDisk(upload[r]),
         UNCHANGED <<counters, storage>>, upload[r].pc \notin Over,
         y.pc \in NeedsFile => upload[r].pc \in NeedsFile
  PROVE  SpoolIInv'
<1>1. inFlight' = inFlight /\ live' = live /\ UNCHANGED storage  BY DEF counters
<1>2. /\ inFlight \in Nat /\ live \in Nat /\ inFlight + live <= Budget
      /\ Reserved(upload[r]) \in Nat /\ OnDisk(upload[r]) \in Nat
  BY SpoolFacts
<1>3. /\ inFlight' = inFlight - Reserved(upload[r]) + Reserved(y)
      /\ live' = live - OnDisk(upload[r]) + OnDisk(y) /\ inFlight' + live' <= Budget
  BY <1>1, <1>2, SpoolAssumption
<1> QED  BY <1>1, <1>3, AtWork

\* a record that only moves to another place
LEMMA MovesAs ==
  ASSUME SpoolIInv, NEW r \in Reqs, NEW place \in Pcs, Moves(r, place)
  PROVE  \E y : /\ upload' = [upload EXCEPT ![r] = y] /\ y \in Uploads
                /\ y.pc = place /\ y.length = upload[r].length /\ y.size = upload[r].size
                /\ y.got = upload[r].got /\ y.reserved = upload[r].reserved /\ y.as = upload[r].as
<1> DEFINE y == [upload[r] EXCEPT !.pc = place]
<1>1. upload[r] \in Uploads /\ upload \in [Reqs -> Uploads]  BY DEF SpoolIInv, SpoolTyped
<1>2. upload' = [upload EXCEPT ![r] = y]  BY <1>1 DEF Moves
<1>3. y \in Uploads  BY <1>1 DEF Uploads
<1>4. /\ y.pc = place /\ y.length = upload[r].length /\ y.size = upload[r].size
      /\ y.got = upload[r].got /\ y.reserved = upload[r].reserved /\ y.as = upload[r].as
  BY <1>1 DEF Uploads
<1> HIDE DEF y
<1> QED  BY <1>2, <1>3, <1>4

LEMMA SendsAs ==
  ASSUME SpoolIInv, NEW r \in Reqs, NEW as \in {"stream", "buffer", "copy"}, Sends(r, as)
  PROVE  \E y : /\ upload' = [upload EXCEPT ![r] = y] /\ y \in Uploads
                /\ y.pc = "sent" /\ y.length = upload[r].length /\ y.size = upload[r].size
                /\ y.got = upload[r].got /\ y.reserved = upload[r].reserved /\ y.as = as
<1> DEFINE y == [upload[r] EXCEPT !.pc = "sent", !.as = as]
<1>1. upload[r] \in Uploads /\ upload \in [Reqs -> Uploads]  BY DEF SpoolIInv, SpoolTyped
<1>2. upload' = [upload EXCEPT ![r] = y]  BY <1>1 DEF Sends
<1>3. y \in Uploads  BY <1>1 DEF Uploads, Pcs, Over
<1>4. /\ y.pc = "sent" /\ y.length = upload[r].length /\ y.size = upload[r].size
      /\ y.got = upload[r].got /\ y.reserved = upload[r].reserved /\ y.as = as
  BY <1>1 DEF Uploads
<1> HIDE DEF y
<1> QED  BY <1>2, <1>3, <1>4

LEMMA StartKeeps ==
  ASSUME SpoolIInv, NEW r \in Reqs, NEW length \in {"none", "fits", "over"}, NEW size \in 0..MaxSize,
         NEW authorized \in BOOLEAN, Start(r, length, size, authorized)
  PROVE  SpoolIInv'
<1> DEFINE Y(next) == [pc |-> next, length |-> length, size |-> size, got |-> 0, reserved |-> 0,
                       as |-> IF next = "sent" THEN "stream" ELSE ""]
<1>1. PICK next \in {"buffer", "open", "sent"} : upload' = [upload EXCEPT ![r] = Y(next)]
  <2>1. CASE length = "fits"  BY <2>1 DEF Start
  <2>2. CASE length = "none" /\ authorized = TRUE  BY <2>2 DEF Start
  <2>3. CASE length = "none" /\ authorized = FALSE  BY <2>3 DEF Start
  <2>4. CASE length = "over" /\ authorized = TRUE  BY <2>4 DEF Start
  <2>5. CASE length = "over" /\ authorized = FALSE  BY <2>5 DEF Start
  <2> QED  BY <2>1, <2>2, <2>3, <2>4, <2>5
<1>2. upload[r].pc = "idle" /\ UNCHANGED <<counters, storage>>  BY DEF Start, At
<1>3. Y(next) \in Uploads
  BY SpoolAssumption DEF Uploads, Pcs, Over, BeforeFirstByte
<1>4. Fits(Y(next))
  <2>1. /\ Y(next).pc = next /\ Y(next).got = 0 /\ Y(next).size = size /\ Y(next).reserved = 0
        /\ next = "sent" => Y(next).as = "stream"
    OBVIOUS
  <2>2. 0 <= size  BY SpoolAssumption
  <2> HIDE DEF Y
  <2> QED  BY <1>3, <2>1, <2>2 DEF Fits, Writing
<1>5. Reserved(Y(next)) = Reserved(upload[r]) /\ OnDisk(Y(next)) = OnDisk(upload[r])
  BY <1>2 DEF Reserved, OnDisk, Writing
<1>6. Y(next).pc \notin NeedsFile /\ upload[r].pc \notin Over  BY <1>2 DEF NeedsFile, Over, Writing
<1> HIDE DEF Y
<1> QED  BY <1>1, <1>2, <1>4, <1>5, <1>6, Quiet

LEMMA BuffersKeeps == ASSUME SpoolIInv, NEW r \in Reqs, Buffers(r) \/ BufferFails(r) PROVE SpoolIInv'
<1>0. /\ Fits(upload[r]) /\ upload[r] \in Uploads /\ upload \in [Reqs -> Uploads]
      /\ upload[r].got \in 0..MaxSize /\ upload[r].size \in 0..MaxSize
  BY SpoolFacts DEF SpoolIInv, SpoolTyped
<1>1. upload[r].pc = "buffer" /\ UNCHANGED <<counters, storage>>  BY DEF Buffers, BufferFails, At
<1>2. Reserved(upload[r]) = 0 /\ OnDisk(upload[r]) = 0 /\ upload[r].pc \notin Over /\ upload[r].reserved = 0
  BY <1>0, <1>1 DEF Reserved, OnDisk, Over, Writing, Fits
<1>3. CASE Moves(r, "failed")
  <2>1. PICK y : /\ upload' = [upload EXCEPT ![r] = y] /\ y \in Uploads /\ y.pc = "failed"
                 /\ y.got = upload[r].got /\ y.size = upload[r].size /\ y.reserved = upload[r].reserved
    BY <1>3, MovesAs DEF Pcs, Over
  <2>2. Fits(y)  BY <1>0, <1>2, <2>1 DEF Fits, BeforeFirstByte, Writing
  <2>3. Reserved(y) = 0 /\ OnDisk(y) = 0 /\ y.pc \notin NeedsFile
    BY <2>1 DEF Reserved, OnDisk, NeedsFile, Writing
  <2> QED  BY <1>1, <1>2, <2>1, <2>2, <2>3, Quiet
<1>4. CASE Sends(r, "buffer") /\ ~(upload[r].got < upload[r].size)
  <2>1. PICK y : /\ upload' = [upload EXCEPT ![r] = y] /\ y \in Uploads /\ y.pc = "sent" /\ y.as = "buffer"
                 /\ y.got = upload[r].got /\ y.size = upload[r].size /\ y.reserved = upload[r].reserved
    BY <1>4, SendsAs
  <2>a. y.got = y.size  BY <1>0, <1>4, <2>1, SpoolAssumption DEF Fits
  <2>b. y.got <= y.size  BY <1>0, <2>1 DEF Fits
  <2>2. Fits(y)  BY <1>2, <2>1, <2>a, <2>b DEF Fits, BeforeFirstByte, Writing
  <2>3. Reserved(y) = 0 /\ OnDisk(y) = 0 /\ y.pc \notin NeedsFile
    BY <2>1 DEF Reserved, OnDisk, NeedsFile, Writing
  <2> QED  BY <1>1, <1>2, <2>1, <2>2, <2>3, Quiet
<1>5. CASE upload' = [upload EXCEPT ![r].got = @ + 1] /\ upload[r].got < upload[r].size
  <2> DEFINE y == [upload[r] EXCEPT !.got = @ + 1]
  <2>1. upload' = [upload EXCEPT ![r] = y]  BY <1>0, <1>5
  <2>2. upload[r].got + 1 \in 0..MaxSize  BY <1>0, <1>5, SpoolAssumption
  <2>3. /\ y \in Uploads /\ y.pc = upload[r].pc /\ y.size = upload[r].size /\ y.reserved = upload[r].reserved
        /\ y.got = upload[r].got + 1
    BY <1>0, <2>2 DEF Uploads
  <2> HIDE DEF y
  <2>4. y.got <= y.size  BY <1>0, <1>5, <2>3, SpoolAssumption
  <2>5. Fits(y)  BY <1>1, <1>2, <2>3, <2>4 DEF Fits, BeforeFirstByte, Writing
  <2>6. Reserved(y) = 0 /\ OnDisk(y) = 0 /\ y.pc \notin NeedsFile
    BY <1>1, <2>3 DEF Reserved, OnDisk, NeedsFile, Writing
  <2> QED  BY <1>1, <1>2, <2>1, <2>5, <2>6, Quiet
<1> QED  BY <1>3, <1>4, <1>5 DEF Buffers, BufferFails

LEMMA UnavailableKeeps == ASSUME SpoolIInv, NEW r \in Reqs, Unavailable(r) PROVE SpoolIInv'
<1>0. Fits(upload[r]) /\ upload[r] \in Uploads  BY SpoolFacts
<1>1. upload[r].pc \in BeforeFirstByte /\ UNCHANGED <<counters, storage>>  BY DEF Unavailable
<1>2. /\ Reserved(upload[r]) = 0 /\ OnDisk(upload[r]) = 0 /\ upload[r].pc \notin Over
      /\ upload[r].reserved = 0 /\ upload[r].got = 0 /\ upload[r].got <= upload[r].size
  BY <1>0, <1>1 DEF Reserved, OnDisk, Over, Writing, Fits, BeforeFirstByte
<1>3. CASE Sends(r, "stream")
  <2>1. PICK y : /\ upload' = [upload EXCEPT ![r] = y] /\ y \in Uploads /\ y.pc = "sent" /\ y.as = "stream"
                 /\ y.got = upload[r].got /\ y.size = upload[r].size /\ y.reserved = upload[r].reserved
    BY <1>3, SendsAs
  <2>2. Fits(y)  BY <1>2, <2>1 DEF Fits, BeforeFirstByte, Writing
  <2>3. Reserved(y) = 0 /\ OnDisk(y) = 0 /\ y.pc \notin NeedsFile
    BY <2>1 DEF Reserved, OnDisk, NeedsFile, Writing
  <2> QED  BY <1>1, <1>2, <2>1, <2>2, <2>3, Quiet
<1>4. CASE Moves(r, "buffer")
  <2>1. PICK y : /\ upload' = [upload EXCEPT ![r] = y] /\ y \in Uploads /\ y.pc = "buffer"
                 /\ y.got = upload[r].got /\ y.size = upload[r].size /\ y.reserved = upload[r].reserved
    BY <1>4, MovesAs DEF Pcs
  <2>2. Fits(y)  BY <1>2, <2>1 DEF Fits, BeforeFirstByte, Writing
  <2>3. Reserved(y) = 0 /\ OnDisk(y) = 0 /\ y.pc \notin NeedsFile
    BY <2>1 DEF Reserved, OnDisk, NeedsFile, Writing
  <2> QED  BY <1>1, <1>2, <2>1, <2>2, <2>3, Quiet
<1> QED  BY <1>3, <1>4 DEF Unavailable

\* The steps that only move on: writable, a chunk written, the end of the stream, the close.
LEMMA MovesOnKeeps ==
  ASSUME SpoolIInv, NEW r \in Reqs, Opens(r) \/ Writes(r) \/ ReadEnds(r) \/ WritableCloses(r)
  PROVE  SpoolIInv'
<1>0. Fits(upload[r]) /\ upload[r] \in Uploads  BY SpoolFacts
<1>1. UNCHANGED <<counters, storage>>  BY DEF Opens, Writes, ReadEnds, WritableCloses
<1>2. PICK place \in {"read", "close", "getFile"} :
        /\ Moves(r, place) /\ upload[r].pc \in {"writable", "write", "read", "close"}
        /\ upload[r].pc = "writable" => place = "read"
        /\ place # "read" => upload[r].got = upload[r].size
  <2>1. CASE Opens(r)  BY <2>1 DEF Opens, At
  <2>2. CASE Writes(r)  BY <2>2 DEF Writes, At
  <2>3. CASE ReadEnds(r)  BY <2>3 DEF ReadEnds, At
  <2>4. CASE WritableCloses(r)  BY <1>0, <2>4 DEF WritableCloses, At, Fits
  <2> QED  BY <2>1, <2>2, <2>3, <2>4
<1>3. PICK y : /\ upload' = [upload EXCEPT ![r] = y] /\ y \in Uploads /\ y.pc = place
               /\ y.got = upload[r].got /\ y.size = upload[r].size /\ y.reserved = upload[r].reserved
  BY <1>2, MovesAs DEF Pcs, Writing
<1>4. /\ upload[r].got <= upload[r].size
      /\ upload[r].reserved = IF upload[r].pc \in Writing THEN upload[r].got ELSE 0
      /\ upload[r].pc = "writable" => upload[r].got = 0
  BY <1>0 DEF Fits, BeforeFirstByte
<1>5. y.pc \in Writing /\ y.reserved = y.got  BY <1>2, <1>3, <1>4 DEF Writing
<1>6. Fits(y)  BY <1>2, <1>3, <1>4, <1>5 DEF Fits, BeforeFirstByte, Writing
<1>7. Reserved(y) = Reserved(upload[r]) /\ OnDisk(y) = OnDisk(upload[r])
  BY <1>2, <1>3, <1>4, <1>5 DEF Reserved, OnDisk, Writing
<1>8. upload[r].pc \notin Over /\ upload[r].pc \in NeedsFile  BY <1>2 DEF Over, NeedsFile, Writing
<1> QED  BY <1>1, <1>3, <1>6, <1>7, <1>8, Quiet

\* A cleanup rolls the reservation back.
LEMMA CleansUpKeeps ==
  ASSUME SpoolIInv, NEW r \in Reqs, upload[r].pc \in Writing, CleansUp(r), UNCHANGED <<live, storage>>
  PROVE  SpoolIInv'
<1>0. /\ Fits(upload[r]) /\ upload[r] \in Uploads /\ upload \in [Reqs -> Uploads]
      /\ inFlight \in Nat /\ live \in Nat /\ inFlight + live <= Budget
      /\ Reserved(upload[r]) \in Nat /\ OnDisk(upload[r]) \in Nat
  BY SpoolFacts DEF SpoolIInv, SpoolTyped
<1> DEFINE y == [upload[r] EXCEPT !.pc = "cleanup", !.reserved = 0]
<1>1. upload' = [upload EXCEPT ![r] = y]  BY <1>0 DEF CleansUp
<1>2. 0 \in 0..SpoolCap  BY SpoolAssumption
<1>3. /\ y \in Uploads /\ y.pc = "cleanup" /\ y.got = upload[r].got /\ y.size = upload[r].size
      /\ y.reserved = 0
  BY <1>0, <1>2 DEF Uploads, Pcs
<1> HIDE DEF y
<1>4. Fits(y)  BY <1>0, <1>3 DEF Fits, BeforeFirstByte, Writing
<1>5. /\ Reserved(y) = 0 /\ OnDisk(y) = 0 /\ y.pc \notin NeedsFile
      /\ upload[r].pc \notin Over /\ OnDisk(upload[r]) = 0 /\ Reserved(upload[r]) = upload[r].reserved
  BY <1>3 DEF Reserved, OnDisk, NeedsFile, Writing, Over
<1>6. inFlight' = inFlight - Reserved(upload[r]) + Reserved(y) /\ live' = live - OnDisk(upload[r]) + OnDisk(y)
      /\ inFlight' + live' <= Budget
  BY <1>0, <1>5, SpoolAssumption DEF CleansUp
<1> QED  BY <1>1, <1>4, <1>5, <1>6, AtWork

LEMMA ReadsKeeps == ASSUME SpoolIInv, NEW r \in Reqs, Reads(r) PROVE SpoolIInv'
<1>0. /\ Fits(upload[r]) /\ upload[r] \in Uploads /\ upload \in [Reqs -> Uploads]
      /\ inFlight \in Nat /\ live \in Nat /\ inFlight + live <= Budget
      /\ upload[r].got \in 0..MaxSize /\ upload[r].size \in 0..MaxSize
  BY SpoolFacts DEF SpoolIInv, SpoolTyped
<1>1. upload[r].pc = "read" /\ upload[r].got < upload[r].size /\ UNCHANGED <<live, storage>>
  BY DEF Reads, At
<1>2. CASE OverCap(r)  BY <1>1, <1>2, CleansUpKeeps DEF Reads, Writing
<1>3. CASE ~OverCap(r)
  <2> DEFINE y == [upload[r] EXCEPT !.pc = "write", !.got = @ + 1, !.reserved = @ + 1]
  <2>1. upload' = [upload EXCEPT ![r] = y] /\ inFlight' = inFlight + 1  BY <1>0, <1>3 DEF Reads
  <2>2. upload[r].reserved = upload[r].got  BY <1>0, <1>1 DEF Fits, Writing
  <2>3. upload[r].got + 1 \in 0..MaxSize /\ upload[r].got + 1 \in 0..SpoolCap /\ live + inFlight + 1 <= Budget
    BY <1>0, <1>1, <1>3, SpoolAssumption DEF OverCap
  <2>4. /\ y \in Uploads /\ y.pc = "write" /\ y.size = upload[r].size
        /\ y.got = upload[r].got + 1 /\ y.reserved = upload[r].got + 1
    BY <1>0, <2>2, <2>3 DEF Uploads, Pcs, Writing
  <2> HIDE DEF y
  <2>5. y.got <= y.size  BY <1>0, <1>1, <2>4, SpoolAssumption
  <2>6. Fits(y)  BY <2>4, <2>5 DEF Fits, BeforeFirstByte, Writing
  <2>7. /\ Reserved(y) = upload[r].got + 1 /\ Reserved(upload[r]) = upload[r].got
        /\ OnDisk(y) = 0 /\ OnDisk(upload[r]) = 0
        /\ upload[r].pc \notin Over /\ upload[r].pc \in NeedsFile
    BY <1>1, <2>2, <2>4 DEF Reserved, OnDisk, Over, NeedsFile, Writing
  <2>8. inFlight' = inFlight - Reserved(upload[r]) + Reserved(y) /\ live' = live - OnDisk(upload[r]) + OnDisk(y)
        /\ inFlight' + live' <= Budget
    BY <1>0, <1>1, <2>1, <2>3, <2>7, SpoolAssumption
  <2> QED  BY <1>1, <2>1, <2>6, <2>7, <2>8, AtWork
<1> QED  BY <1>2, <1>3

LEMMA SpooledKeeps == ASSUME SpoolIInv, NEW r \in Reqs, Spooled(r) PROVE SpoolIInv'
<1>0. /\ Fits(upload[r]) /\ upload[r] \in Uploads /\ upload \in [Reqs -> Uploads]
      /\ inFlight \in Nat /\ live \in Nat /\ inFlight + live <= Budget
      /\ upload[r].got \in 0..MaxSize
  BY SpoolFacts DEF SpoolIInv, SpoolTyped
<1>1. /\ upload[r].pc = "getFile" /\ UNCHANGED storage
      /\ inFlight' = inFlight - upload[r].got /\ live' = live + upload[r].got
  BY DEF Spooled, At
<1> DEFINE y == [upload[r] EXCEPT !.pc = "spooled", !.reserved = 0]
<1>2. upload' = [upload EXCEPT ![r] = y]  BY <1>0 DEF Spooled
<1>3. 0 \in 0..SpoolCap  BY SpoolAssumption
<1>4. /\ y \in Uploads /\ y.pc = "spooled" /\ y.got = upload[r].got /\ y.size = upload[r].size
      /\ y.reserved = 0
  BY <1>0, <1>3 DEF Uploads, Pcs
<1> HIDE DEF y
<1>5. upload[r].got = upload[r].size /\ upload[r].got <= upload[r].size /\ upload[r].reserved = upload[r].got
  BY <1>0, <1>1 DEF Fits, Writing
<1>6. Fits(y)  BY <1>4, <1>5 DEF Fits, BeforeFirstByte, Writing
<1>7. /\ Reserved(y) = 0 /\ OnDisk(y) = upload[r].got /\ OnDisk(upload[r]) = 0
      /\ Reserved(upload[r]) = upload[r].got /\ upload[r].pc \notin Over /\ upload[r].pc \in NeedsFile
  BY <1>1, <1>4, <1>5 DEF Reserved, OnDisk, NeedsFile, Writing, Over
<1>8. inFlight' = inFlight - Reserved(upload[r]) + Reserved(y) /\ live' = live - OnDisk(upload[r]) + OnDisk(y)
      /\ inFlight' + live' <= Budget
  BY <1>0, <1>1, <1>7, SpoolAssumption
<1> QED  BY <1>1, <1>2, <1>6, <1>7, <1>8, AtWork

\* The steps of a sweep and of a removal leave the uploads where they are, or move one that
\* holds nothing.
LEMMA FilesStep ==
  ASSUME SpoolIInv, NEW r \in Reqs, NEW y, Fits(y), upload' = [upload EXCEPT ![r] = y],
         Reserved(y) = Reserved(upload[r]), OnDisk(y) = OnDisk(upload[r]), UNCHANGED counters
  PROVE  SpoolTyped' /\ SpoolBudgetsExact'
<1>1. inFlight' = inFlight /\ live' = live  BY DEF counters
<1>2. /\ inFlight \in Nat /\ live \in Nat /\ inFlight + live <= Budget
      /\ Reserved(upload[r]) \in Nat /\ OnDisk(upload[r]) \in Nat
  BY SpoolFacts
<1>3. /\ inFlight' = inFlight - Reserved(upload[r]) + Reserved(y)
      /\ live' = live - OnDisk(upload[r]) + OnDisk(y) /\ inFlight' + live' <= Budget
  BY <1>1, <1>2, SpoolAssumption
<1> QED  BY <1>3, UploadStep DEF SpoolIInv

LEMMA SameUploads ==
  ASSUME SpoolIInv, UNCHANGED <<upload, counters>>
  PROVE  SpoolTyped' /\ SpoolBudgetsExact'
<1>1. upload' = upload /\ inFlight' = inFlight /\ live' = live  BY DEF counters
<1>2. SpoolTyped'  BY <1>1 DEF SpoolIInv, SpoolTyped
<1> QED  BY <1>1, <1>2 DEF SpoolIInv, SpoolBudgetsExact, Total, Reserved, OnDisk

LEMMA SweepKeeps == ASSUME SpoolIInv, NEW r \in Reqs, SweepLists(r) \/ SweepRemoves(r) PROVE SpoolIInv'
<1>0. /\ Fits(upload[r]) /\ upload[r] \in Uploads /\ upload \in [Reqs -> Uploads] /\ Sweeps /\ SpoolFileKept
  BY SpoolFacts DEF SpoolIInv, SpoolTyped
<1>1. UNCHANGED counters  BY DEF SweepLists, SweepRemoves, counters
<1>2. CASE SweepLists(r) \/ (SweepRemoves(r) /\ victims[r] = {})
  <2>0. upload[r].pc \in {"open", "sweep"}  BY <1>2 DEF SweepLists, SweepRemoves, At
  <2>1. PICK place \in {"sweep", "create"} : Moves(r, place)  BY <1>2 DEF SweepLists, SweepRemoves
  <2>2. PICK y : /\ upload' = [upload EXCEPT ![r] = y] /\ y \in Uploads /\ y.pc = place
                 /\ y.got = upload[r].got /\ y.size = upload[r].size /\ y.reserved = upload[r].reserved
    BY <2>1, MovesAs DEF Pcs, BeforeFirstByte
  <2>3. upload[r].reserved = 0 /\ upload[r].got = 0 /\ upload[r].got <= upload[r].size
    BY <1>0, <2>0 DEF Fits, Writing, BeforeFirstByte
  <2>4. Fits(y)  BY <2>2, <2>3 DEF Fits, Writing, BeforeFirstByte
  <2>5. Reserved(y) = Reserved(upload[r]) /\ OnDisk(y) = OnDisk(upload[r])
    BY <2>0, <2>2 DEF Reserved, OnDisk, Writing
  <2>6. SpoolTyped' /\ SpoolBudgetsExact'  BY <1>1, <2>2, <2>4, <2>5, FilesStep
  <2>7. /\ upload'[r].pc = place /\ \A q \in Reqs \ {r} : upload'[q] = upload[q]  BY <1>0, <2>2
  <2>8. UNCHANGED <<files, aged, removing>>
    BY <1>2 DEF SweepLists, SweepRemoves, storage
  <2>9. /\ victims' \in [Reqs -> SUBSET Reqs] /\ \A q \in Reqs : victims'[q] \subseteq aged
    <3>1. CASE SweepLists(r)  BY <1>0, <3>1 DEF SweepLists, Sweeps
    <3>2. CASE SweepRemoves(r) /\ victims[r] = {}
      <4>1. victims' = victims  BY <3>2 DEF SweepRemoves, storage
      <4> QED  BY <1>0, <4>1 DEF Sweeps
    <3> QED  BY <1>2, <3>1, <3>2
  <2>10. Sweeps'
    <3>1. \A q \in removing' : upload'[q].pc \in Over
      BY <1>0, <2>0, <2>7, <2>8 DEF Sweeps, Over
    <3> QED  BY <1>0, <2>8, <2>9, <3>1 DEF Sweeps
  <2>11. SpoolFileKept'  BY <1>0, <2>7, <2>8 DEF SpoolFileKept, Writing
  <2> QED  BY <2>6, <2>10, <2>11 DEF SpoolIInv
<1>3. ASSUME NEW v \in victims[r], victims' = [victims EXCEPT ![r] = @ \ {v}],
             files' \in {files, files \ {v}}, UNCHANGED <<upload, aged, removing>>
      PROVE  SpoolIInv'
  <2>1. SpoolTyped' /\ SpoolBudgetsExact'  BY <1>1, <1>3, SameUploads
  <2>2. v \in aged  BY <1>0, <1>3 DEF Sweeps
  <2>3. Sweeps'  BY <1>0, <1>3 DEF Sweeps
  <2>4. SpoolFileKept'  BY <1>0, <1>3, <2>2 DEF SpoolFileKept
  <2> QED  BY <2>1, <2>3, <2>4 DEF SpoolIInv
<1>4. CASE SweepRemoves(r) /\ victims[r] # {}
  <2>1. PICK v \in victims[r] : /\ victims' = [victims EXCEPT ![r] = @ \ {v}]
                               /\ files' \in {files, files \ {v}} /\ UNCHANGED <<upload, aged, removing>>
    BY <1>4 DEF SweepRemoves
  <2> QED  BY <1>3, <2>1
<1> QED  BY <1>2, <1>4

LEMMA CreatesKeeps == ASSUME SpoolIInv, NEW r \in Reqs, Creates(r) PROVE SpoolIInv'
<1>0. /\ Fits(upload[r]) /\ upload[r] \in Uploads /\ upload \in [Reqs -> Uploads] /\ Sweeps /\ SpoolFileKept
  BY SpoolFacts DEF SpoolIInv, SpoolTyped
<1>1. /\ UNCHANGED <<counters, aged, victims, removing>> /\ upload[r].pc = "create"
      /\ files' = files \cup {r} /\ Moves(r, "writable")
  BY DEF Creates, At
<1>2. PICK y : /\ upload' = [upload EXCEPT ![r] = y] /\ y \in Uploads /\ y.pc = "writable"
               /\ y.got = upload[r].got /\ y.size = upload[r].size /\ y.reserved = upload[r].reserved
  BY <1>1, MovesAs DEF Pcs, BeforeFirstByte
<1>3. upload[r].reserved = 0 /\ upload[r].got = 0 /\ upload[r].got <= upload[r].size
  BY <1>0, <1>1 DEF Fits, Writing, BeforeFirstByte
<1>4. Fits(y)  BY <1>2, <1>3 DEF Fits, Writing, BeforeFirstByte
<1>5. Reserved(y) = Reserved(upload[r]) /\ OnDisk(y) = OnDisk(upload[r])
  BY <1>1, <1>2 DEF Reserved, OnDisk, Writing
<1>6. SpoolTyped' /\ SpoolBudgetsExact'  BY <1>1, <1>2, <1>4, <1>5, FilesStep
<1>7. /\ upload'[r].pc = "writable" /\ \A q \in Reqs \ {r} : upload'[q] = upload[q]  BY <1>0, <1>2
<1>8. Sweeps'
  <2>1. \A q \in removing' : upload'[q].pc \in Over  BY <1>0, <1>1, <1>7 DEF Sweeps, Over
  <2> QED  BY <1>0, <1>1, <2>1 DEF Sweeps
<1>9. SpoolFileKept'  BY <1>0, <1>1, <1>7 DEF SpoolFileKept
<1> QED  BY <1>6, <1>8, <1>9 DEF SpoolIInv

LEMMA CleanedKeeps == ASSUME SpoolIInv, NEW r \in Reqs, Cleaned(r) PROVE SpoolIInv'
<1>0. /\ Fits(upload[r]) /\ upload[r] \in Uploads /\ upload \in [Reqs -> Uploads] /\ Sweeps /\ SpoolFileKept
  BY SpoolFacts DEF SpoolIInv, SpoolTyped
<1>1. /\ UNCHANGED <<counters, aged, victims, removing>> /\ upload[r].pc = "cleanup"
      /\ files' \in {files, files \ {r}} /\ Moves(r, "failed")
  BY DEF Cleaned, At
<1>2. PICK y : /\ upload' = [upload EXCEPT ![r] = y] /\ y \in Uploads /\ y.pc = "failed"
               /\ y.got = upload[r].got /\ y.size = upload[r].size /\ y.reserved = upload[r].reserved
  BY <1>1, MovesAs DEF Pcs, Over
<1>3. upload[r].reserved = 0 /\ upload[r].got <= upload[r].size
  BY <1>0, <1>1 DEF Fits, Writing
<1>4. Fits(y)  BY <1>2, <1>3 DEF Fits, Writing, BeforeFirstByte
<1>5. Reserved(y) = Reserved(upload[r]) /\ OnDisk(y) = OnDisk(upload[r])
  BY <1>1, <1>2 DEF Reserved, OnDisk, Writing
<1>6. SpoolTyped' /\ SpoolBudgetsExact'  BY <1>1, <1>2, <1>4, <1>5, FilesStep
<1>7. /\ upload'[r].pc = "failed" /\ \A q \in Reqs \ {r} : upload'[q] = upload[q]  BY <1>0, <1>2
<1>8. Sweeps'
  <2>1. \A q \in removing' : upload'[q].pc \in Over  BY <1>0, <1>1, <1>7 DEF Sweeps, Over
  <2> QED  BY <1>0, <1>1, <2>1 DEF Sweeps
<1>9. SpoolFileKept'  BY <1>0, <1>1, <1>7 DEF SpoolFileKept, Writing
<1> QED  BY <1>6, <1>8, <1>9 DEF SpoolIInv

\* The copy is made, or fails: either way the spool is released.
LEMMA CopyKeeps == ASSUME SpoolIInv, NEW r \in Reqs, CopyFails(r) \/ Copies(r) PROVE SpoolIInv'
<1>0. /\ Fits(upload[r]) /\ upload[r] \in Uploads /\ upload \in [Reqs -> Uploads] /\ Sweeps /\ SpoolFileKept
      /\ inFlight \in Nat /\ live \in Nat /\ inFlight + live <= Budget /\ upload[r].got \in 0..MaxSize
  BY SpoolFacts DEF SpoolIInv, SpoolTyped
<1>1. /\ live' = live - upload[r].got /\ removing' = removing \cup {r}
      /\ UNCHANGED <<inFlight, files, aged, victims>> /\ upload[r].pc = "spooled"
  BY DEF CopyFails, Copies, Release, At
<1>2. PICK y : /\ upload' = [upload EXCEPT ![r] = y] /\ y \in Uploads
               /\ y.pc \in {"failed", "sent"} /\ (y.pc = "sent" => y.as = "copy")
               /\ y.got = upload[r].got /\ y.size = upload[r].size /\ y.reserved = upload[r].reserved
  <2>1. CASE CopyFails(r)
    <3>1. Moves(r, "failed")  BY <2>1 DEF CopyFails
    <3>2. PICK y : /\ upload' = [upload EXCEPT ![r] = y] /\ y \in Uploads /\ y.pc = "failed"
                   /\ y.got = upload[r].got /\ y.size = upload[r].size /\ y.reserved = upload[r].reserved
      BY <3>1, MovesAs DEF Pcs, Over
    <3> QED  BY <3>2
  <2>2. CASE Copies(r)
    <3>1. Sends(r, "copy")  BY <2>2 DEF Copies
    <3>2. PICK y : /\ upload' = [upload EXCEPT ![r] = y] /\ y \in Uploads /\ y.pc = "sent" /\ y.as = "copy"
                   /\ y.got = upload[r].got /\ y.size = upload[r].size /\ y.reserved = upload[r].reserved
      BY <3>1, SendsAs
    <3> QED  BY <3>2
  <2> QED  BY <2>1, <2>2
<1>3. upload[r].reserved = 0 /\ upload[r].got = upload[r].size /\ upload[r].got <= upload[r].size
  BY <1>0, <1>1 DEF Fits, Writing
<1>4. Fits(y)  BY <1>2, <1>3 DEF Fits, Writing, BeforeFirstByte
<1>5. Reserved(y) = 0 /\ OnDisk(y) = 0 /\ Reserved(upload[r]) = 0 /\ OnDisk(upload[r]) = upload[r].got
  BY <1>1, <1>2 DEF Reserved, OnDisk, Writing
<1>6. /\ inFlight' = inFlight - Reserved(upload[r]) + Reserved(y)
      /\ live' = live - OnDisk(upload[r]) + OnDisk(y) /\ inFlight' + live' <= Budget
  BY <1>0, <1>1, <1>5, SpoolAssumption
<1>7. SpoolTyped' /\ SpoolBudgetsExact'  BY <1>2, <1>4, <1>6, UploadStep DEF SpoolIInv
<1>8. /\ upload'[r].pc \in {"failed", "sent"} /\ \A q \in Reqs \ {r} : upload'[q] = upload[q]
  BY <1>0, <1>2
<1>9. Sweeps'
  <2>1. \A q \in removing' : upload'[q].pc \in Over  BY <1>0, <1>1, <1>8 DEF Sweeps, Over
  <2> QED  BY <1>0, <1>1, <2>1 DEF Sweeps
<1>10. SpoolFileKept'  BY <1>0, <1>1, <1>8 DEF SpoolFileKept, Writing
<1> QED  BY <1>7, <1>9, <1>10 DEF SpoolIInv

LEMMA RemovesKeeps == ASSUME SpoolIInv, NEW r \in Reqs, Removes(r) \/ Ages(r) PROVE SpoolIInv'
<1>0. Sweeps /\ SpoolFileKept  BY DEF SpoolIInv
<1>1. SpoolTyped' /\ SpoolBudgetsExact'  BY SameUploads DEF Removes, Ages
<1>2. CASE Removes(r)
  <2>1. /\ r \in removing /\ removing' = removing \ {r} /\ files' \in {files, files \ {r}}
        /\ upload' = upload /\ aged' = aged /\ victims' = victims
    BY <1>2 DEF Removes
  <2>2. upload[r].pc \in Over  BY <1>0, <2>1 DEF Sweeps
  <2>3. Sweeps'  BY <1>0, <2>1 DEF Sweeps
  <2>4. SpoolFileKept'  BY <1>0, <2>1, <2>2 DEF SpoolFileKept, Over, Writing
  <2> QED  BY <1>1, <2>3, <2>4 DEF SpoolIInv
<1>3. CASE Ages(r)
  <2>1. /\ aged' = aged \cup {r} /\ upload' = upload /\ files' = files
        /\ victims' = victims /\ removing' = removing
    BY <1>3 DEF Ages
  <2>2. Sweeps'  BY <1>0, <2>1 DEF Sweeps
  <2>3. SpoolFileKept'  BY <1>0, <2>1 DEF SpoolFileKept
  <2> QED  BY <1>1, <2>2, <2>3 DEF SpoolIInv
<1> QED  BY <1>2, <1>3

\* A death of the worker resets both counters with all that they count.
LEMMA KillKeeps == ASSUME SpoolIInv, Kill PROVE SpoolIInv'
<1>0. upload \in [Reqs -> Uploads] /\ Sweeps /\ SpoolFileKept /\ \A q \in Reqs : Fits(upload[q])
  BY DEF SpoolIInv, SpoolTyped
<1>1. /\ inFlight' = 0 /\ live' = 0 /\ removing' = {} /\ victims' = [q \in Reqs |-> {}]
      /\ files' = files /\ aged' = aged
      /\ upload' = [q \in Reqs |-> IF upload[q].pc \in Over \cup {"idle"} THEN upload[q]
                                   ELSE [upload[q] EXCEPT !.pc = "killed", !.reserved = 0]]
  BY DEF Kill
<1>2. ASSUME NEW q \in Reqs
      PROVE  Fits(upload'[q]) /\ upload'[q] \in Uploads /\ upload'[q].pc \in Over \cup {"idle"}
  <2>1. CASE upload[q].pc \in Over \cup {"idle"}
    <3>1. upload'[q] = upload[q]  BY <1>1, <2>1
    <3>2. Fits(upload[q]) /\ upload[q] \in Uploads  BY <1>0
    <3> QED  BY <2>1, <3>1, <3>2
  <2>2. CASE upload[q].pc \notin Over \cup {"idle"}
    <3> DEFINE y == [upload[q] EXCEPT !.pc = "killed", !.reserved = 0]
    <3>1. upload'[q] = y  BY <1>1, <2>2
    <3>2. Fits(upload[q]) /\ upload[q] \in Uploads /\ 0 \in 0..SpoolCap  BY <1>0, SpoolAssumption
    <3>3. /\ y \in Uploads /\ y.pc = "killed" /\ y.got = upload[q].got /\ y.size = upload[q].size
          /\ y.reserved = 0
      BY <3>2 DEF Uploads, Pcs, Over
    <3> HIDE DEF y
    <3>4. Fits(y)  BY <3>2, <3>3 DEF Fits, Writing, BeforeFirstByte
    <3> QED  BY <3>1, <3>3, <3>4 DEF Over
  <2> QED  BY <2>1, <2>2
<1>3. SpoolTyped'
  <2>1. upload' \in [Reqs -> Uploads]  BY <1>1, <1>2
  <2> QED  BY <1>2, <2>1 DEF SpoolTyped, Fits
<1>4. SpoolBudgetsExact'
  <2> DEFINE g == [q \in Reqs |-> Reserved(upload'[q])]
             e == [q \in Reqs |-> OnDisk(upload'[q])]
  <2>1. \A q \in Reqs : g[q] = 0 /\ e[q] = 0  BY <1>2 DEF Reserved, OnDisk, Over, Writing
  <2>2. g \in [Reqs -> 0..MaxSize] /\ e \in [Reqs -> 0..MaxSize]
    <3>1. 0 \in 0..MaxSize  BY SpoolAssumption
    <3> QED  BY <2>1, <3>1
  <2> HIDE DEF g, e
  <2>3. Total(g) = 0 /\ Total(e) = 0  BY <2>1, <2>2, TotalType
  <2>4. inFlight' = Total(g) /\ live' = Total(e) /\ inFlight' + live' <= Budget
    <3>1. 0 + 0 <= Budget  BY SpoolAssumption
    <3> QED  BY <1>1, <2>3, <3>1
  <2> QED  BY <2>4 DEF SpoolBudgetsExact, g, e, Total, Reserved, OnDisk
<1>5. Sweeps'  BY <1>0, <1>1 DEF Sweeps
<1>6. SpoolFileKept'  BY <1>2 DEF SpoolFileKept, Over, Writing
<1> QED  BY <1>3, <1>4, <1>5, <1>6 DEF SpoolIInv

LEMMA SpoolInitial == SpoolInit => SpoolIInv
<1> SUFFICES ASSUME SpoolInit PROVE SpoolIInv  OBVIOUS
<1> DEFINE y == [pc |-> "idle", length |-> "none", size |-> 0, got |-> 0, reserved |-> 0, as |-> ""]
<1>1. /\ upload = [r \in Reqs |-> y] /\ inFlight = 0 /\ live = 0 /\ files = {} /\ aged = {}
      /\ removing = {} /\ victims = [r \in Reqs |-> {}]
  BY DEF SpoolInit
<1>2. y \in Uploads
  <2>1. 0 \in 0..MaxSize /\ 0 \in 0..SpoolCap  BY SpoolAssumption
  <2> QED  BY <2>1 DEF Uploads, Pcs
<1>3. /\ y.pc = "idle" /\ y.got = 0 /\ y.size = 0 /\ y.reserved = 0  OBVIOUS
<1> HIDE DEF y
<1>4. Fits(y) /\ Reserved(y) = 0 /\ OnDisk(y) = 0
  BY <1>2, <1>3 DEF Fits, Writing, Reserved, OnDisk
<1>5. SpoolTyped  BY <1>1, <1>2, <1>4 DEF SpoolTyped
<1>6. Sweeps /\ SpoolFileKept  BY <1>1, <1>3 DEF Sweeps, SpoolFileKept, Writing
<1>7. SpoolBudgetsExact
  <2> DEFINE g == [r \in Reqs |-> Reserved(upload[r])]
             e == [r \in Reqs |-> OnDisk(upload[r])]
  <2>1. \A r \in Reqs : g[r] = 0 /\ e[r] = 0  BY <1>1, <1>4
  <2>2. g \in [Reqs -> 0..MaxSize] /\ e \in [Reqs -> 0..MaxSize]
    <3>1. 0 \in 0..MaxSize  BY SpoolAssumption
    <3> QED  BY <2>1, <3>1
  <2> HIDE DEF g, e
  <2>3. Total(g) = 0 /\ Total(e) = 0  BY <2>1, <2>2, TotalType
  <2> QED  BY <1>1, <2>3, SpoolAssumption DEF SpoolBudgetsExact, g, e
<1> QED  BY <1>5, <1>6, <1>7 DEF SpoolIInv

\* SpoolIInv holds of every behaviour, for any number of uploads, any caps and any budget.
THEOREM SpoolInductive == SpoolSpec => []SpoolIInv
<1>1. ASSUME SpoolIInv, [SpoolNext]_spoolVars PROVE SpoolIInv'
  <2>1. CASE UNCHANGED spoolVars
    <3>1. upload' = upload /\ inFlight' = inFlight /\ live' = live /\ files' = files /\ aged' = aged
          /\ victims' = victims /\ removing' = removing
      BY <2>1 DEF spoolVars
    <3>2. SpoolTyped' /\ SpoolBudgetsExact'  BY <1>1, <3>1, SameUploads DEF counters
    <3>3. Sweeps' /\ SpoolFileKept'  BY <1>1, <3>1 DEF SpoolIInv, Sweeps, SpoolFileKept
    <3> QED  BY <3>2, <3>3 DEF SpoolIInv
  <2>2. ASSUME NEW r \in Reqs, Step(r) PROVE SpoolIInv'
    BY <1>1, <2>2, StartKeeps, BuffersKeeps, UnavailableKeeps, SweepKeeps, CreatesKeeps, MovesOnKeeps,
       ReadsKeeps, CleansUpKeeps, SpooledKeeps, CleanedKeeps, CopyKeeps, RemovesKeeps
       DEF Step, SpoolFails
  <2> QED  BY <1>1, <2>1, <2>2, KillKeeps DEF SpoolNext
<1> QED  BY <1>1, SpoolInitial, PTL DEF SpoolSpec

\* For every value of the constants: both byte counters are what the spools under way hold,
\* whichever way each of them ends, and keep to the budget; what is sent is the whole body;
\* no sweep takes the file of an upload at work that is younger than the sweep age.
THEOREM SpoolsSound == SpoolSpec => []SpoolsAreSound
<1>1. ASSUME SpoolIInv PROVE SpoolsAreSound
  <2>1. WholeBodySent  BY <1>1 DEF WholeBodySent, At, SpoolIInv, SpoolTyped, Fits
  <2> QED  BY <1>1, <2>1 DEF SpoolIInv, SpoolsAreSound
<1> QED  BY <1>1, SpoolInductive, PTL

--------------------------------------------------------------------------------
(* The proof, for any keys, history limit and number of boots.  What makes *)
(* the routes decodable is that no key is minted while a route is out      *)
(* (Unminted): a failed read turns the codec off instead of looking like an *)
(* empty store.                                                            *)

Minting == {"minting", "routing", "listing", "reading"}

\* the record under way begins with the fresh key, and is in the store once put
FreshIsFirst ==
  /\ stage \in {"routing", "listing"} => /\ fresh \in Keys /\ list # <<>> /\ Head(list) = fresh
                                         /\ Len(list) <= Limit
  /\ stage = "reading" => fresh \in Keys /\ Has /\ history # <<>> /\ Head(history) = fresh

\* every key a route is out under would be loaded from the store
StoreHolds == minted \subseteq ToSet(Loaded)
Unminted   == stage \in Minting => minted = {}

\* a worker with the codec on has every such key, and what it mints with is stored
CodecHolds ==
  stage = "keyed" => keys # <<>> /\ minted \subseteq ToSet(keys) /\ Head(keys) \in ToSet(Loaded)

KInv == KeysTypeOK /\ FreshIsFirst /\ StoreHolds /\ Unminted /\ CodecHolds

LEMMA HeadIsIn ==
  ASSUME NEW s \in Seq(Keys), s # <<>>
  PROVE  Head(s) \in Keys /\ Head(s) \in ToSet(s)
  BY DEF ToSet

LEMMA LoadedIsList == KeysTypeOK => Loaded \in Seq(Keys)
  BY DEF KeysTypeOK, Loaded, Has

LEMMA NoRecordIsNoList == <<NoKey>> \notin Seq(Keys)
  BY RouteKeysAssumption

\* saveRouteKey's list is a history that begins with its key
LEMMA ListIsHistory ==
  ASSUME KeysTypeOK, NEW k \in Keys, NEW all, all = <<k>> \o (IF Has THEN history ELSE <<>>),
         NEW s, s = SubSeq(all, 1, IF Len(all) < Limit THEN Len(all) ELSE Limit)
  PROVE  s \in Seq(Keys) /\ s # <<>> /\ Head(s) = k /\ Len(s) <= Limit
<1>1. (IF Has THEN history ELSE <<>>) \in Seq(Keys)
  BY DEF KeysTypeOK, Has
<1>2. all \in Seq(Keys) /\ Len(all) \in Nat /\ Len(all) >= 1 /\ all[1] = k
  BY <1>1
<1>3. PICK n \in Nat : n = (IF Len(all) < Limit THEN Len(all) ELSE Limit)
                       /\ n >= 1 /\ n <= Len(all) /\ n <= Limit
  BY <1>2, RouteKeysAssumption
<1>4. s \in Seq(Keys) /\ Len(s) = n /\ s[1] = all[1]
  BY <1>2, <1>3
<1> QED BY <1>2, <1>3, <1>4

LEMMA KInvInit == KeysInit => KInv
<1> SUFFICES ASSUME KeysInit PROVE KInv
  OBVIOUS
<1>1. KeysTypeOK
  BY RouteKeysAssumption DEF KeysInit, KeysTypeOK, Steps
<1>2. StoreHolds
  BY DEF KeysInit, StoreHolds, Loaded, Has, ToSet
<1> QED BY <1>1, <1>2 DEF KeysInit, KInv, FreshIsFirst, Unminted, CodecHolds, Minting

LEMMA KInvStep == KInv /\ [KeysNext]_keyVars => KInv'
<1> SUFFICES ASSUME KInv, [KeysNext]_keyVars PROVE KInv'
  OBVIOUS
<1> USE DEF KInv
<1>0. Loaded \in Seq(Keys) /\ history \in Seq(Keys) \cup {<<NoKey>>}
  BY LoadedIsList DEF KeysTypeOK
<1>1. UNCHANGED store => Loaded' = Loaded
  BY DEF store, Loaded, Has
<1>2. CASE Boot
  <2>1. KeysTypeOK'
    BY <1>2, RouteKeysAssumption DEF Boot, store, KeysTypeOK, Steps
  <2> QED BY <1>1, <1>2, <2>1 DEF Boot, FreshIsFirst, StoreHolds, Unminted, CodecHolds, Minting
<1>3. CASE Loads
  <2>1. KeysTypeOK'
    BY <1>0, <1>3 DEF Loads, Restores, Keyed, store, KeysTypeOK, Steps
  <2>2. FreshIsFirst' /\ StoreHolds'
    BY <1>1, <1>3 DEF Loads, Restores, Keyed, FreshIsFirst, StoreHolds
  <2>3. Loaded = <<>> => minted = {}
    BY DEF StoreHolds, ToSet
  <2>4. Unminted'
    BY <1>3, <2>3 DEF Loads, Restores, Keyed, Unminted, Minting
  <2>5. CodecHolds'
    BY <1>0, <1>1, <1>3, HeadIsIn DEF Loads, Restores, Keyed, CodecHolds, StoreHolds
  <2> QED BY <2>1, <2>2, <2>4, <2>5
<1>4. CASE LoadFails
  BY <1>1, <1>4 DEF LoadFails, store, KeysTypeOK, Steps, FreshIsFirst, StoreHolds, Unminted, CodecHolds, Minting
<1>5. CASE Mints
  <2>1. PICK k \in Keys : fresh' = k /\ list' \in Seq(Keys) /\ list' # <<>> /\ Head(list') = k
                            /\ Len(list') <= Limit
    BY <1>5, ListIsHistory DEF Mints
  <2>2. KeysTypeOK'
    BY <1>5, <2>1 DEF Mints, store, KeysTypeOK, Steps
  <2> QED BY <1>1, <1>5, <2>1, <2>2
          DEF Mints, FreshIsFirst, StoreHolds, Unminted, CodecHolds, Minting
<1>6. CASE PutsRoute
  <2>1. minted = {} /\ fresh \in Keys
    BY <1>6 DEF PutsRoute, Unminted, Minting, FreshIsFirst
  <2> QED BY <1>6, <2>1
          DEF PutsRoute, KeysTypeOK, Steps, FreshIsFirst, StoreHolds, Unminted, CodecHolds, Minting
<1>7. CASE PutsHistory
  <2>1. minted = {} /\ fresh \in Keys /\ list # <<>> /\ Head(list) = fresh /\ Len(list) <= Limit
    BY <1>7 DEF PutsHistory, Unminted, Minting, FreshIsFirst
  <2>2. list # <<NoKey>> /\ list \in Seq(Keys)
    BY NoRecordIsNoList DEF KeysTypeOK
  <2>3. KeysTypeOK'
    BY <1>7, <2>1, <2>2 DEF PutsHistory, KeysTypeOK, Steps
  <2> QED BY <1>7, <2>1, <2>2, <2>3
          DEF PutsHistory, FreshIsFirst, StoreHolds, Unminted, CodecHolds, Minting, Has
<1>8. CASE SaveFails
  BY <1>1, <1>8 DEF SaveFails, store, KeysTypeOK, Steps, FreshIsFirst, StoreHolds, Unminted, CodecHolds, Minting
<1>9. CASE ReadsBack
  <2>1. minted = {} /\ fresh \in Keys /\ history \in Seq(Keys) /\ history # <<>> /\ Loaded = history
        /\ Head(history) = fresh
    BY <1>0, <1>9 DEF ReadsBack, Unminted, Minting, FreshIsFirst, Has, Loaded
  <2>2. fresh \in ToSet(Loaded)
    BY <2>1, HeadIsIn
  <2>3. keys' \in Seq(Keys) /\ keys' # <<>> /\ Head(keys') = fresh
    <3>1. <<fresh>> \in Seq(Keys) /\ <<fresh>> # <<>> /\ Head(<<fresh>>) = fresh
      BY <2>1
    <3> QED BY <1>9, <2>1, <3>1 DEF ReadsBack, Keyed
  <2>4. KeysTypeOK'
    BY <1>9, <2>3 DEF ReadsBack, Keyed, store, KeysTypeOK, Steps
  <2> QED BY <1>1, <1>9, <2>1, <2>2, <2>3, <2>4
          DEF ReadsBack, Keyed, FreshIsFirst, StoreHolds, Unminted, CodecHolds, Minting
<1>10. CASE HandsOut
  <2>1. Head(keys) \in Keys /\ Head(keys) \in ToSet(keys) /\ Head(keys) \in ToSet(Loaded)
    BY <1>10, HeadIsIn DEF HandsOut, CodecHolds, KeysTypeOK
  <2> QED BY <1>1, <1>10, <2>1
          DEF HandsOut, store, KeysTypeOK, FreshIsFirst, StoreHolds, Unminted, CodecHolds, Minting
<1>11. CASE Killed
  <2>1. stage \in {"routing", "listing"} => /\ minted = {} /\ fresh \in Keys
                                             /\ list \in Seq(Keys) /\ Len(list) <= Limit
    BY DEF Unminted, Minting, FreshIsFirst, KeysTypeOK
  <2>2. StoreHolds'
    BY <1>1, <1>11, <2>1 DEF Killed, StoreHolds
  <2>3. KeysTypeOK'
    BY <1>11, <2>1 DEF Killed, store, KeysTypeOK, Steps
  <2> QED BY <1>11, <2>2, <2>3 DEF Killed, FreshIsFirst, Unminted, CodecHolds, Minting
<1>12. CASE UNCHANGED keyVars
  BY <1>1, <1>12 DEF keyVars, store, KeysTypeOK, FreshIsFirst, StoreHolds, Unminted, CodecHolds, Has
<1> QED BY <1>2, <1>3, <1>4, <1>5, <1>6, <1>7, <1>8, <1>9, <1>10, <1>11, <1>12 DEF KeysNext

\* Whatever reads and writes of the store fail and wherever a worker is killed, a
\* worker whose restore succeeded decodes every route handed out before (#399).
THEOREM DecodableAlways == KeysSpec => []RoutesStayDecodable
<1>1. KInv => RoutesStayDecodable
  BY DEF KInv, CodecHolds, RoutesStayDecodable
<1> QED BY KInvInit, KInvStep, <1>1, PTL DEF KeysSpec

--------------------------------------------------------------------------------
(* The page cache.  Puts run outside the chain of mutations, so what the    *)
(* chain counts is related to the places of the requests: a job of it is the *)
(* one job of a request that waits (ChainWaits), and what is reserved is the  *)
(* number of requests that store.  That a page of an account stays out rests *)
(* on the credentials being looked at again when a response may be stored:   *)
(* by then the account is signed out, and its sign-out was crossed           *)
(* (RequestSound).                                                           *)

AllPhases ==
  {"idle", "live", "refreshing", "refreshed", "probing", "probed", "bumping", "reserving",
   "putting", "closing", "healing", "dropping", "stale", "dropped"}
InChain == {"reserving", "dropping", "stale"}
InFlight == {"putting", "closing"}
CopyOrNone == Page \cup {Missing}

PagesTyped ==
  /\ reserved \in 0..TotalMax /\ disabled \in BOOLEAN
  /\ chain \in Seq([kind : {"reserve", "delete"}, of : Fetches] \cup {Job("clear", Nil)})
  /\ rows \subseteq PageUrls /\ IsFiniteSet(rows) /\ signedIn \in BOOLEAN /\ logouts \in 0..MaxLogouts
  /\ phase \in [Fetches -> AllPhases]
  /\ rq \in [Fetches -> {Idle} \cup [key : PageUrls, dest : {"script", "worker", "document"}]]
  /\ got \in [Fetches -> CopyOrNone]
  /\ tainted \in [Fetches -> BOOLEAN] /\ crossed \in [Fetches -> BOOLEAN]
  /\ served \in [Fetches -> BodyForms \cup {Nil}]

\* a page of an account is kept only if it crossed the sign-out
Excused(page) == page.account => page.crossed

\* the entries are pages, finitely many, and each is excused
EntriesSound ==
  /\ entry \in [PageUrls -> CopyOrNone] /\ IsFiniteSet(Present)
  /\ \A k \in PageUrls : Excused(entry[k])

\* what is held of a request: it names a URL while it is under way; once the account is
\* signed out, what was sent with its cookies has crossed; and so for what it will store
RequestSound(r) ==
  /\ rq[r] = Idle \/ (rq[r].key \in PageUrls /\ rq[r].dest \in Destinations(rq[r].key))
  /\ phase[r] # "idle" => rq[r] # Idle
  /\ tainted[r] /\ ~signedIn => crossed[r]
  /\ Excused(got[r])
  /\ rq[r].dest = "script" => served[r] \in {Nil, "script", "mixed"}

\* a job of the chain is the one job of a request that waits for it, so that the chain is
\* as long as there are such requests, and sign-outs
Wanted(job) == IF job.kind = "reserve" THEN {"reserving"} ELSE {"dropping", "stale"}
Waiting == {r \in Fetches : phase[r] \in InChain}
ChainWaits ==
  /\ \A i \in 1..Len(chain) : chain[i].kind # "clear" => phase[chain[i].of] \in Wanted(chain[i])
  /\ \A i, j \in 1..Len(chain) :
       chain[i].kind # "clear" /\ chain[j].kind # "clear" /\ chain[i].of = chain[j].of => i = j
  /\ Len(chain) <= Cardinality(Waiting) + logouts

Storing == {r \in Fetches : phase[r] \in InFlight}
CacheIInv ==
  /\ PagesTyped /\ ChainWaits /\ EntriesSound
  /\ reserved = Cardinality(Storing)
  /\ \A r \in Fetches : RequestSound(r)

LEMMA PageWith ==
  ASSUME NEW page \in Page
  PROVE  /\ \A form \in BodyForms : LET p == [page EXCEPT !.form = form] IN
              p \in Page /\ p.account = page.account /\ p.crossed = page.crossed
         /\ \A b \in BOOLEAN : LET p == [page EXCEPT !.stale = b] IN
              p \in Page /\ p.account = page.account /\ p.crossed = page.crossed
BY DEF Page

LEMMA CopyTyped ==
  ASSUME NEW page \in CopyOrNone
  PROVE  /\ page.form \in BodyForms \cup {Nil} /\ page.noCache \in BOOLEAN
<1>1. CASE page \in Page
  BY <1>1 DEF Page
<1>2. CASE page = Missing
  BY <1>2 DEF Missing
<1> QED  BY <1>1, <1>2 DEF CopyOrNone

LEMMA MissingIsExcused == Missing \notin Page /\ Excused(Missing) /\ Missing \in CopyOrNone
BY DEF Missing, Page, Excused, CopyOrNone, BodyForms, Nil

LEMMA EntriesKept == ASSUME EntriesSound, entry' = entry PROVE EntriesSound'
BY DEF EntriesSound, Present, Excused, PageUrls, CopyOrNone, Page, Missing, Nil, BodyForms

\* A page is put, or an entry dropped: there is at most one more.
LEMMA EntryPut ==
  ASSUME EntriesSound, NEW k, NEW page \in CopyOrNone, Excused(page),
         entry' = [entry EXCEPT ![k] = page]
  PROVE  EntriesSound'
<1>1. entry' \in [PageUrls -> CopyOrNone] /\ \A u \in PageUrls : Excused(entry'[u])
  BY DEF EntriesSound
<1>2. {u \in PageUrls : entry'[u] # Missing} \subseteq Present \cup {k}
  BY DEF EntriesSound, Present
<1>3. IsFiniteSet(Present \cup {k})
  BY FS_AddElement DEF EntriesSound
<1>4. IsFiniteSet({u \in PageUrls : entry'[u] # Missing})
  BY <1>2, <1>3, FS_Subset
<1> QED  BY <1>1, <1>4 DEF EntriesSound, Present, Excused, PageUrls, CopyOrNone, Page, Missing, Nil, BodyForms

LEMMA EntriesDropped ==
  ASSUME EntriesSound, NEW S, entry' = [u \in PageUrls |-> IF u \in S THEN Missing ELSE entry[u]]
  PROVE  EntriesSound'
<1>1. entry' \in [PageUrls -> CopyOrNone] /\ \A u \in PageUrls : Excused(entry'[u])
  BY MissingIsExcused DEF EntriesSound
<1>2. {u \in PageUrls : entry'[u] # Missing} \subseteq Present
  BY DEF EntriesSound, Present
<1>3. IsFiniteSet({u \in PageUrls : entry'[u] # Missing})
  BY <1>2, FS_Subset DEF EntriesSound
<1> QED  BY <1>1, <1>3 DEF EntriesSound, Present, Excused, PageUrls, CopyOrNone, Page, Missing, Nil, BodyForms

\* One request changes place: what is counted follows.
LEMMA PlaceMoves ==
  ASSUME CacheIInv, NEW r \in Fetches, NEW where \in AllPhases,
         phase' = [phase EXCEPT ![r] = where]
  PROVE  /\ phase' \in [Fetches -> AllPhases]
         /\ phase'[r] = where /\ \A q \in Fetches \ {r} : phase'[q] = phase[q]
         /\ IsFiniteSet(Waiting) /\ IsFiniteSet(Storing)
         /\ Cardinality(Waiting) \in Nat /\ Cardinality(Storing) \in Nat
         /\ (phase[r] \in InChain <=> where \in InChain) => Cardinality(Waiting') = Cardinality(Waiting)
         /\ phase[r] \notin InChain /\ where \in InChain => Cardinality(Waiting') = Cardinality(Waiting) + 1
         /\ phase[r] \in InChain /\ where \notin InChain => Cardinality(Waiting') = Cardinality(Waiting) - 1
         /\ (phase[r] \in InFlight <=> where \in InFlight) => Cardinality(Storing') = Cardinality(Storing)
         /\ phase[r] \notin InFlight /\ where \in InFlight => Cardinality(Storing') = Cardinality(Storing) + 1
         /\ phase[r] \in InFlight /\ where \notin InFlight => Cardinality(Storing') = Cardinality(Storing) - 1
<1>1. /\ phase \in [Fetches -> AllPhases] /\ phase' \in [Fetches -> AllPhases]
      /\ phase'[r] = where /\ \A q \in Fetches \ {r} : phase'[q] = phase[q]
  BY DEF CacheIInv, PagesTyped
<1>2. IsFiniteSet(Waiting) /\ IsFiniteSet(Storing)
  BY PagesAssumption, FS_Subset DEF Waiting, Storing
<1>3. Cardinality(Waiting) \in Nat /\ Cardinality(Storing) \in Nat
  BY <1>2, FS_CardinalityType
<1>4. (phase[r] \in InChain <=> where \in InChain) => Waiting' = Waiting
  BY <1>1 DEF Waiting
<1>5. phase[r] \notin InChain /\ where \in InChain => Waiting' = Waiting \cup {r} /\ r \notin Waiting
  BY <1>1 DEF Waiting
<1>6. phase[r] \in InChain /\ where \notin InChain => Waiting' = Waiting \ {r} /\ r \in Waiting
  BY <1>1 DEF Waiting
<1>7. (phase[r] \in InFlight <=> where \in InFlight) => Storing' = Storing
  BY <1>1 DEF Storing
<1>8. phase[r] \notin InFlight /\ where \in InFlight => Storing' = Storing \cup {r} /\ r \notin Storing
  BY <1>1 DEF Storing
<1>9. phase[r] \in InFlight /\ where \notin InFlight => Storing' = Storing \ {r} /\ r \in Storing
  BY <1>1 DEF Storing
<1>10. phase[r] \notin InChain /\ where \in InChain => Cardinality(Waiting') = Cardinality(Waiting) + 1
  BY <1>2, <1>5, FS_AddElement
<1>11. phase[r] \in InChain /\ where \notin InChain => Cardinality(Waiting') = Cardinality(Waiting) - 1
  BY <1>2, <1>6, FS_RemoveElement
<1>12. phase[r] \notin InFlight /\ where \in InFlight => Cardinality(Storing') = Cardinality(Storing) + 1
  BY <1>2, <1>8, FS_AddElement
<1>13. phase[r] \in InFlight /\ where \notin InFlight => Cardinality(Storing') = Cardinality(Storing) - 1
  BY <1>2, <1>9, FS_RemoveElement
<1> QED  BY <1>1, <1>2, <1>3, <1>4, <1>7, <1>10, <1>11, <1>12, <1>13

\* The chain is left alone by a request that neither enters nor leaves it.
LEMMA ChainLeftAlone ==
  ASSUME CacheIInv, NEW r \in Fetches, NEW where \in AllPhases,
         phase' = [phase EXCEPT ![r] = where], chain' = chain, logouts' = logouts,
         phase[r] \notin InChain, where \notin InChain
  PROVE  ChainWaits'
<1>1. \A q \in Fetches \ {r} : phase'[q] = phase[q]
  BY PlaceMoves
<1>2. Cardinality(Waiting') = Cardinality(Waiting)
  BY PlaceMoves
<1>3. ASSUME NEW i \in 1..Len(chain), chain[i].kind # "clear"
      PROVE  phase'[chain[i].of] \in Wanted(chain[i])
  <2>1. chain[i] \in [kind : {"reserve", "delete"}, of : Fetches] \cup {Job("clear", Nil)}
    BY DEF CacheIInv, PagesTyped
  <2>2. chain[i].of \in Fetches
    BY <2>1, <1>3 DEF Job
  <2>3. phase[chain[i].of] \in Wanted(chain[i])
    BY <1>3 DEF CacheIInv, ChainWaits
  <2>4. Wanted(chain[i]) \subseteq InChain
    BY DEF Wanted, InChain
  <2>5. chain[i].of # r
    BY <2>3, <2>4
  <2> QED  BY <1>1, <2>2, <2>3, <2>5
<1>4. ChainWaits
  BY DEF CacheIInv
<1> QED  BY <1>2, <1>3, <1>4 DEF ChainWaits, Wanted

\* A request queues its job and waits.
LEMMA ChainGrows ==
  ASSUME CacheIInv, NEW r \in Fetches, NEW where \in AllPhases,
         NEW kind \in {"reserve", "delete"}, where \in Wanted(Job(kind, r)),
         phase' = [phase EXCEPT ![r] = where], Queue(Job(kind, r)), logouts' = logouts,
         phase[r] \notin InChain
  PROVE  ChainWaits' /\ chain' \in Seq([kind : {"reserve", "delete"}, of : Fetches] \cup {Job("clear", Nil)})
<1> DEFINE J == [kind : {"reserve", "delete"}, of : Fetches] \cup {Job("clear", Nil)}
           job == Job(kind, r)
<1>0. chain \in Seq(J) /\ logouts \in Nat /\ ChainWaits
  BY PagesAssumption DEF CacheIInv, PagesTyped
<1>1. job \in J /\ job.kind = kind /\ job.of = r
  BY DEF Job
<1>2. chain' = Append(chain, job)
  BY DEF Queue
<1>3. /\ chain' \in Seq(J) /\ Len(chain') = Len(chain) + 1 /\ chain'[Len(chain) + 1] = job
      /\ \A i \in 1..Len(chain) : chain'[i] = chain[i]
  <2> HIDE DEF J, job
  <2> QED  BY <1>0, <1>1, <1>2
<1>4. where \in InChain
  BY <1>1 DEF Wanted, InChain
<1>5. /\ phase'[r] = where /\ \A q \in Fetches \ {r} : phase'[q] = phase[q]
      /\ Cardinality(Waiting') = Cardinality(Waiting) + 1 /\ Cardinality(Waiting) \in Nat
  BY <1>4, PlaceMoves
<1>6. \A i \in 1..Len(chain) : chain[i].kind # "clear" =>
        /\ chain[i].of \in Fetches \ {r} /\ phase[chain[i].of] \in Wanted(chain[i])
  <2> TAKE i \in 1..Len(chain)
  <2> HAVE chain[i].kind # "clear"
  <2>1. chain[i] \in J
    BY <1>0
  <2>2. chain[i].of \in Fetches
    BY <2>1 DEF Job
  <2>3. phase[chain[i].of] \in Wanted(chain[i])
    BY <1>0 DEF ChainWaits
  <2>4. Wanted(chain[i]) \subseteq InChain
    BY DEF Wanted, InChain
  <2> QED  BY <2>2, <2>3, <2>4
<1>7. Len(chain) \in Nat
  BY <1>0
<1>8. \A i \in 1..Len(chain') : chain'[i].kind # "clear" => phase'[chain'[i].of] \in Wanted(chain'[i])
  <2> TAKE i \in 1..Len(chain')
  <2> HAVE chain'[i].kind # "clear"
  <2>1. CASE i = Len(chain) + 1
    BY <2>1, <1>1, <1>3, <1>5
  <2>2. CASE i \in 1..Len(chain)
    BY <2>2, <1>3, <1>5, <1>6
  <2> QED  BY <2>1, <2>2, <1>3, <1>7
<1>9. \A i, j \in 1..Len(chain') :
        chain'[i].kind # "clear" /\ chain'[j].kind # "clear" /\ chain'[i].of = chain'[j].of => i = j
  <2> TAKE i, j \in 1..Len(chain')
  <2> HAVE chain'[i].kind # "clear" /\ chain'[j].kind # "clear" /\ chain'[i].of = chain'[j].of
  <2>1. CASE i \in 1..Len(chain) /\ j \in 1..Len(chain)
    BY <2>1, <1>0, <1>3 DEF ChainWaits
  <2>2. CASE i = Len(chain) + 1 /\ j \in 1..Len(chain)
    BY <2>2, <1>1, <1>3, <1>6
  <2>3. CASE j = Len(chain) + 1 /\ i \in 1..Len(chain)
    BY <2>3, <1>1, <1>3, <1>6
  <2> QED  BY <2>1, <2>2, <2>3, <1>3, <1>7
<1>10. Len(chain') <= Cardinality(Waiting') + logouts'
  BY <1>0, <1>3, <1>5, <1>7 DEF ChainWaits
<1>11. ChainWaits'
  BY <1>8, <1>9, <1>10 DEF ChainWaits, Wanted
<1> QED  BY <1>3, <1>11

\* The first job is over: the request it was of goes on, or it was a clear.
LEMMA ChainShrinks ==
  ASSUME CacheIInv, chain # <<>>, chain' = Tail(chain), logouts' = logouts,
         \/ Head(chain).kind = "clear" /\ phase' = phase
         \/ \E where \in AllPhases \ InChain :
              /\ Head(chain).kind # "clear"
              /\ phase' = [phase EXCEPT ![Head(chain).of] = where]
  PROVE  ChainWaits' /\ chain' \in Seq([kind : {"reserve", "delete"}, of : Fetches] \cup {Job("clear", Nil)})
<1> DEFINE J == [kind : {"reserve", "delete"}, of : Fetches] \cup {Job("clear", Nil)}
<1>0. chain \in Seq(J) /\ logouts \in Nat /\ ChainWaits
  BY PagesAssumption DEF CacheIInv, PagesTyped
<1>1. /\ chain' \in Seq(J) /\ Len(chain') = Len(chain) - 1 /\ Len(chain) \in Nat \ {0}
      /\ Head(chain) = chain[1] /\ \A i \in 1..Len(chain') : chain'[i] = chain[i + 1]
  <2> HIDE DEF J
  <2> QED  BY <1>0
<1>2. \A i \in 1..Len(chain) : chain[i].kind # "clear" =>
        /\ chain[i].of \in Fetches /\ phase[chain[i].of] \in Wanted(chain[i])
        /\ phase[chain[i].of] \in InChain
  <2> TAKE i \in 1..Len(chain)
  <2> HAVE chain[i].kind # "clear"
  <2>1. chain[i] \in J
    BY <1>0
  <2>2. chain[i].of \in Fetches
    BY <2>1 DEF Job
  <2>3. phase[chain[i].of] \in Wanted(chain[i])
    BY <1>0 DEF ChainWaits
  <2>4. Wanted(chain[i]) \subseteq InChain
    BY DEF Wanted, InChain
  <2> QED  BY <2>2, <2>3, <2>4
<1>3. \A i, j \in 1..Len(chain') :
        chain'[i].kind # "clear" /\ chain'[j].kind # "clear" /\ chain'[i].of = chain'[j].of => i = j
  <2> TAKE i, j \in 1..Len(chain')
  <2> HAVE chain'[i].kind # "clear" /\ chain'[j].kind # "clear" /\ chain'[i].of = chain'[j].of
  <2>1. i + 1 \in 1..Len(chain) /\ j + 1 \in 1..Len(chain)
    BY <1>1
  <2>2. i + 1 = j + 1
    BY <2>1, <1>0, <1>1 DEF ChainWaits
  <2> QED  BY <2>2
<1>4. CASE Head(chain).kind = "clear" /\ phase' = phase
  <2>1. Waiting' = Waiting
    BY <1>4 DEF Waiting
  <2>2. Cardinality(Waiting) \in Nat
    BY PagesAssumption, FS_Subset, FS_CardinalityType DEF Waiting
  <2>3. Len(chain') <= Cardinality(Waiting') + logouts'
    BY <2>1, <2>2, <1>0, <1>1 DEF ChainWaits
  <2>4. ASSUME NEW i \in 1..Len(chain'), chain'[i].kind # "clear"
        PROVE  phase'[chain'[i].of] \in Wanted(chain'[i])
    <3>1. i + 1 \in 1..Len(chain) /\ chain'[i] = chain[i + 1]
      BY <1>1
    <3> QED  BY <3>1, <1>2, <1>4, <2>4
  <2>5. ChainWaits'
    BY <2>3, <2>4, <1>3 DEF ChainWaits, Wanted
  <2> QED  BY <2>5, <1>1
<1>5. ASSUME NEW where \in AllPhases \ InChain, Head(chain).kind # "clear",
             phase' = [phase EXCEPT ![Head(chain).of] = where]
      PROVE  ChainWaits'
  <2> DEFINE r == Head(chain).of
  <2>1. r \in Fetches /\ phase[r] \in InChain /\ r = chain[1].of /\ chain[1].kind # "clear"
    BY <1>1, <1>2, <1>5
  <2>2. /\ \A q \in Fetches \ {r} : phase'[q] = phase[q]
        /\ Cardinality(Waiting') = Cardinality(Waiting) - 1 /\ Cardinality(Waiting) \in Nat
    <3> HIDE DEF r
    <3>1. phase' = [phase EXCEPT ![r] = where]
      BY <1>5 DEF r
    <3> QED  BY <3>1, <2>1, PlaceMoves
  <2>3. Len(chain') <= Cardinality(Waiting') + logouts'
    BY <2>2, <1>0, <1>1 DEF ChainWaits
  <2>4. ASSUME NEW i \in 1..Len(chain'), chain'[i].kind # "clear"
        PROVE  phase'[chain'[i].of] \in Wanted(chain'[i])
    <3>1. i + 1 \in 1..Len(chain) /\ 1 \in 1..Len(chain) /\ i + 1 # 1 /\ chain'[i] = chain[i + 1]
      BY <1>1
    <3>2. chain[i + 1].of # r
      BY <3>1, <2>1, <2>4, <1>0 DEF ChainWaits
    <3> QED  BY <3>1, <3>2, <1>2, <2>2, <2>4
  <2> QED  BY <2>3, <2>4, <1>3 DEF ChainWaits, Wanted
<1> QED  BY <1>1, <1>4, <1>5

\* What is held of a request that a step leaves alone stays so.
LEMMA OthersStaySound ==
  ASSUME NEW r \in Fetches, RequestSound(r), phase'[r] = phase[r], rq'[r] = rq[r],
         got'[r] = got[r], tainted'[r] = tainted[r], crossed'[r] = crossed[r],
         served'[r] = served[r], signedIn' = signedIn \/ (signedIn' /\ ~signedIn)
  PROVE  RequestSound(r)'
BY DEF RequestSound, Excused, PageUrls, Destinations

\* A request ends, wherever it is: it is idle, and gave back what it had reserved.
LEMMA FinishFacts ==
  ASSUME CacheIInv, NEW r \in Fetches, Finish(r), signedIn' = signedIn
  PROVE  /\ phase' = [phase EXCEPT ![r] = "idle"] /\ phase' \in [Fetches -> AllPhases]
         /\ rq' \in [Fetches -> {Idle} \cup [key : PageUrls, dest : {"script", "worker", "document"}]]
         /\ got' \in [Fetches -> CopyOrNone]
         /\ tainted' \in [Fetches -> BOOLEAN] /\ crossed' \in [Fetches -> BOOLEAN]
         /\ served' \in [Fetches -> BodyForms \cup {Nil}]
         /\ reserved' \in 0..TotalMax /\ reserved' = Cardinality(Storing')
         /\ \A q \in Fetches : RequestSound(q)'
<1>1. phase' = [phase EXCEPT ![r] = "idle"] /\ "idle" \in AllPhases
  BY DEF Finish, AllPhases
<1>2. /\ phase' \in [Fetches -> AllPhases] /\ phase'[r] = "idle"
      /\ \A q \in Fetches \ {r} : phase'[q] = phase[q]
  BY <1>1, PlaceMoves
<1>3. Missing \in CopyOrNone /\ Excused(Missing) /\ Nil \in BodyForms \cup {Nil}
  BY MissingIsExcused
<1>4. /\ rq' = [rq EXCEPT ![r] = Idle] /\ got' = [got EXCEPT ![r] = Missing]
      /\ tainted' = [tainted EXCEPT ![r] = FALSE] /\ crossed' = [crossed EXCEPT ![r] = FALSE]
      /\ served' = [served EXCEPT ![r] = Nil]
  BY DEF Finish
<1>5. /\ rq \in [Fetches -> {Idle} \cup [key : PageUrls, dest : {"script", "worker", "document"}]]
      /\ got \in [Fetches -> CopyOrNone]
      /\ tainted \in [Fetches -> BOOLEAN] /\ crossed \in [Fetches -> BOOLEAN]
      /\ served \in [Fetches -> BodyForms \cup {Nil}]
  BY DEF CacheIInv, PagesTyped
<1>6. /\ rq' \in [Fetches -> {Idle} \cup [key : PageUrls, dest : {"script", "worker", "document"}]]
      /\ got' \in [Fetches -> CopyOrNone]
      /\ tainted' \in [Fetches -> BOOLEAN] /\ crossed' \in [Fetches -> BOOLEAN]
      /\ served' \in [Fetches -> BodyForms \cup {Nil}]
  BY <1>3, <1>4, <1>5
<1>7. ASSUME NEW q \in Fetches PROVE RequestSound(q)'
  <2>1. CASE q = r
    <3>1. rq'[r] = Idle /\ got'[r] = Missing /\ tainted'[r] = FALSE /\ served'[r] = Nil
      BY <1>4, <1>5
    <3>2. Idle.dest # "script" /\ ~Missing.account
      BY DEF Idle, Nil, Missing
    <3> QED  BY <2>1, <3>1, <3>2, <1>2 DEF RequestSound, Excused, Idle, Nil
  <2>2. CASE q # r
    <3>1. /\ rq'[q] = rq[q] /\ got'[q] = got[q] /\ tainted'[q] = tainted[q]
          /\ crossed'[q] = crossed[q] /\ served'[q] = served[q] /\ phase'[q] = phase[q]
      BY <2>2, <1>2, <1>4, <1>5
    <3>2. RequestSound(q)
      BY DEF CacheIInv
    <3> QED  BY <3>1, <3>2, OthersStaySound
  <2> QED  BY <2>1, <2>2
<1>8. reserved \in 0..TotalMax /\ reserved = Cardinality(Storing)
  BY DEF CacheIInv, PagesTyped
<1>9. reserved' \in 0..TotalMax /\ reserved' = Cardinality(Storing')
  <2>1. CASE phase[r] \in InFlight
    <3>1. "idle" \notin InFlight
      BY DEF InFlight
    <3>2. Cardinality(Storing') = Cardinality(Storing) - 1 /\ IsFiniteSet(Storing)
      BY <1>1, <2>1, <3>1, PlaceMoves
    <3>3. r \in Storing
      BY <2>1 DEF Storing
    <3>4. Cardinality(Storing) # 0
      BY <3>2, <3>3, FS_EmptySet
    <3>5. reserved' = reserved - 1
      BY <2>1 DEF Finish, InFlight
    <3> QED  BY <3>2, <3>4, <3>5, <1>8, PagesAssumption
  <2>2. CASE phase[r] \notin InFlight
    <3>1. "idle" \notin InFlight
      BY DEF InFlight
    <3>2. Cardinality(Storing') = Cardinality(Storing)
      BY <1>1, <2>2, <3>1, PlaceMoves
    <3>3. reserved' = reserved
      BY <2>2 DEF Finish, InFlight
    <3> QED  BY <3>2, <3>3, <1>8
  <2> QED  BY <2>1, <2>2
<1> QED  BY <1>1, <1>2, <1>6, <1>7, <1>9

\* A request ends outside the chain; a bump has put its page back.
LEMMA FinishKeeps ==
  ASSUME CacheIInv, NEW r \in Fetches, Finish(r), phase[r] \notin InChain, chain' = chain,
         EntriesSound',
         UNCHANGED <<disabled, rows, signedIn, logouts>>
  PROVE  CacheIInv'
<1>1. /\ phase' = [phase EXCEPT ![r] = "idle"] /\ phase' \in [Fetches -> AllPhases]
      /\ rq' \in [Fetches -> {Idle} \cup [key : PageUrls, dest : {"script", "worker", "document"}]]
      /\ got' \in [Fetches -> CopyOrNone]
      /\ tainted' \in [Fetches -> BOOLEAN] /\ crossed' \in [Fetches -> BOOLEAN]
      /\ served' \in [Fetches -> BodyForms \cup {Nil}]
      /\ reserved' \in 0..TotalMax /\ reserved' = Cardinality(Storing')
      /\ \A q \in Fetches : RequestSound(q)'
  BY FinishFacts
<1>2. "idle" \in AllPhases /\ "idle" \notin InChain
  BY DEF AllPhases, InChain
<1>3. ChainWaits'
  BY <1>1, <1>2, ChainLeftAlone
<1>4. PagesTyped'
  BY <1>1 DEF CacheIInv, PagesTyped, PageUrls, CopyOrNone, Page, Missing, Job, Idle, Nil, BodyForms
<1> QED  BY <1>1, <1>3, <1>4 DEF CacheIInv

\* A request goes on to a place that is neither in the chain nor reserves.
LEMMA GoesKeeps ==
  ASSUME CacheIInv, NEW r \in Fetches, NEW where \in AllPhases \ (InChain \cup InFlight),
         phase[r] \notin InChain \cup InFlight, phase[r] # "idle", Goes(r, where), chain' = chain,
         got' \in [Fetches -> CopyOrNone], Excused(got'[r]), \A q \in Fetches \ {r} : got'[q] = got[q],
         UNCHANGED <<entry, disabled, rows, signedIn, logouts>>
  PROVE  CacheIInv'
<1>1. phase' = [phase EXCEPT ![r] = where] /\ UNCHANGED <<rq, tainted, crossed, served, reserved>>
  BY DEF Goes
<1>2. /\ phase' \in [Fetches -> AllPhases] /\ phase'[r] = where
      /\ \A q \in Fetches \ {r} : phase'[q] = phase[q]
      /\ Cardinality(Storing') = Cardinality(Storing)
  BY <1>1, PlaceMoves
<1>3. ChainWaits'
  BY <1>1, ChainLeftAlone
<1>4. PagesTyped'
  BY <1>1, <1>2 DEF CacheIInv, PagesTyped, PageUrls, CopyOrNone, Page, Missing, Job, Idle, Nil, BodyForms
<1>5. ASSUME NEW q \in Fetches PROVE RequestSound(q)'
  <2>1. RequestSound(q)
    BY DEF CacheIInv
  <2>2. CASE q = r
    BY <2>1, <2>2, <1>1, <1>2 DEF RequestSound, Excused, PageUrls, Destinations, Idle
  <2>3. CASE q # r
    BY <2>1, <2>3, <1>1, <1>2, OthersStaySound
  <2> QED  BY <2>2, <2>3
<1>6. reserved' = Cardinality(Storing') /\ EntriesSound'
  BY <1>1, <1>2, EntriesKept DEF CacheIInv
<1> QED  BY <1>3, <1>4, <1>5, <1>6 DEF CacheIInv

\* A response that may be stored queues its reservation, any other is dropped.
LEMMA StoresKeeps ==
  ASSUME CacheIInv, NEW r \in Fetches, phase[r] \notin InChain \cup InFlight, phase[r] # "idle",
         NEW page \in CopyOrNone, ~signedIn => Excused(page), Stores(r, page),
         UNCHANGED <<entry, disabled, rows, signedIn, logouts>>
  PROVE  CacheIInv'
<1>1. CASE ~MayStore(r)
  <2>1. Finish(r) /\ chain' = chain
    BY <1>1 DEF Stores
  <2>2. EntriesSound'
    BY EntriesKept DEF CacheIInv
  <2> QED  BY <2>1, <2>2, FinishKeeps
<1>2. CASE MayStore(r)
  <2>1. /\ got' = [got EXCEPT ![r] = page] /\ Goes(r, "reserving") /\ Queue(Job("reserve", r))
        /\ ~signedIn
    BY <1>2 DEF Stores, MayStore
  <2>2. /\ "reserving" \in AllPhases /\ "reserving" \in Wanted(Job("reserve", r))
        /\ "reserving" \in InChain /\ "reserving" \notin InFlight
    BY DEF AllPhases, Wanted, Job, InChain, InFlight
  <2>3. phase' = [phase EXCEPT ![r] = "reserving"] /\ UNCHANGED <<rq, tainted, crossed, served, reserved>>
    BY <2>1 DEF Goes
  <2>4. /\ phase' \in [Fetches -> AllPhases] /\ phase'[r] = "reserving"
        /\ \A q \in Fetches \ {r} : phase'[q] = phase[q]
        /\ Cardinality(Storing') = Cardinality(Storing)
    BY <2>2, <2>3, PlaceMoves
  <2>5. ChainWaits' /\ chain' \in Seq([kind : {"reserve", "delete"}, of : Fetches] \cup {Job("clear", Nil)})
    BY <2>1, <2>2, <2>3, ChainGrows
  <2>6. /\ got' \in [Fetches -> CopyOrNone] /\ got'[r] = page
        /\ \A q \in Fetches \ {r} : got'[q] = got[q]
    BY <2>1 DEF CacheIInv, PagesTyped
  <2>7. PagesTyped'
    BY <2>3, <2>4, <2>5, <2>6
    DEF CacheIInv, PagesTyped, PageUrls, CopyOrNone, Page, Missing, Job, Idle, Nil, BodyForms
  <2>8. ASSUME NEW q \in Fetches PROVE RequestSound(q)'
    <3>1. RequestSound(q)
      BY DEF CacheIInv
    <3>2. CASE q = r
      BY <3>1, <3>2, <2>1, <2>3, <2>4, <2>6 DEF RequestSound, Excused, PageUrls, Destinations, Idle
    <3>3. CASE q # r
      BY <3>1, <3>3, <2>3, <2>4, <2>6, OthersStaySound
    <3> QED  BY <3>2, <3>3
  <2>9. reserved' = Cardinality(Storing') /\ EntriesSound'
    BY <2>3, <2>4, EntriesKept DEF CacheIInv
  <2> QED  BY <2>5, <2>7, <2>8, <2>9 DEF CacheIInv
<1> QED  BY <1>1, <1>2

LEMMA AnswerTyped ==
  ASSUME CacheIInv, NEW r \in Fetches, NEW form \in BodyForms, NEW noCache \in BOOLEAN
  PROVE  /\ Answer(form, r, noCache) \in CopyOrNone
         /\ ~signedIn => Excused(Answer(form, r, noCache))
<1>1. tainted[r] \in BOOLEAN /\ crossed[r] \in BOOLEAN /\ RequestSound(r)
  BY DEF CacheIInv, PagesTyped
<1>2. Answer(form, r, noCache) \in Page
  BY <1>1 DEF Answer, Page
<1>3. ~signedIn => Excused(Answer(form, r, noCache))
  BY <1>1 DEF Answer, Excused, RequestSound
<1> QED  BY <1>2, <1>3 DEF CopyOrNone

\* The steps of a request under way.
LEMMA EndsKeep ==
  ASSUME CacheIInv, NEW r \in Fetches, Done(r) \/ PutFails(r) \/ Closes(r)
  PROVE  CacheIInv'
<1>1. Finish(r) /\ chain' = chain /\ UNCHANGED <<entry, disabled, rows, signedIn, logouts>>
  BY DEF Done, PutFails, Closes
<1>2. phase[r] \notin InChain
  BY DEF Done, PutFails, Closes, InChain
<1>3. EntriesSound'
  BY <1>1, EntriesKept DEF CacheIInv
<1> QED  BY <1>1, <1>2, <1>3, FinishKeeps

LEMMA AnsweredKeeps ==
  ASSUME CacheIInv, NEW r \in Fetches, Answered(r) PROVE CacheIInv'
<1>1. /\ phase[r] \notin InChain \cup InFlight /\ phase[r] # "idle"
      /\ UNCHANGED <<entry, disabled, rows, signedIn, logouts>>
  BY DEF Answered, InChain, InFlight
<1>2. CASE Finish(r) /\ chain' = chain
  <2>1. EntriesSound'
    BY <1>1, EntriesKept DEF CacheIInv
  <2> QED  BY <1>1, <1>2, <2>1, FinishKeeps
<1>3. CASE \E noCache \in {FALSE, rq[r].key \in Revalidated} :
             Stores(r, Answer(Composed(rq[r].key, rq[r].dest), r, noCache))
  <2>1. PICK noCache \in {FALSE, rq[r].key \in Revalidated} :
          Stores(r, Answer(Composed(rq[r].key, rq[r].dest), r, noCache))
    BY <1>3
  <2>2. noCache \in BOOLEAN
    <3>1. (rq[r].key \in Revalidated) \in BOOLEAN
      OBVIOUS
    <3> QED  BY <2>1, <3>1, Zenon
  <2>3. Composed(rq[r].key, rq[r].dest) \in BodyForms
    <3>1. rq[r].dest \in Destinations(rq[r].key)
      BY <1>1 DEF CacheIInv, RequestSound
    <3> QED  BY <3>1 DEF Destinations, Composed, BodyForms
  <2>4. /\ Answer(Composed(rq[r].key, rq[r].dest), r, noCache) \in CopyOrNone
        /\ ~signedIn => Excused(Answer(Composed(rq[r].key, rq[r].dest), r, noCache))
    BY <2>2, <2>3, AnswerTyped
  <2> QED  BY <1>1, <2>1, <2>4, StoresKeeps
<1> QED  BY <1>2, <1>3 DEF Answered

LEMMA HealsKeeps ==
  ASSUME CacheIInv, NEW r \in Fetches, Heals(r) PROVE CacheIInv'
<1>1. /\ phase[r] \notin InChain \cup InFlight /\ phase[r] # "idle" /\ Stores(r, got[r])
      /\ UNCHANGED <<entry, disabled, rows, signedIn, logouts>>
  BY DEF Heals, InChain, InFlight
<1>2. got[r] \in CopyOrNone /\ Excused(got[r])
  BY DEF CacheIInv, PagesTyped, RequestSound
<1> QED  BY <1>1, <1>2, StoresKeeps

LEMMA RefreshedKeeps ==
  ASSUME CacheIInv, NEW r \in Fetches, Refreshed(r) PROVE CacheIInv'
<1> DEFINE k == rq[r].key
           bumped == [entry[k] EXCEPT !.stale = FALSE]
<1>1. /\ phase[r] \notin InChain \cup InFlight /\ phase[r] # "idle"
      /\ UNCHANGED <<entry, disabled, rows, signedIn, logouts>>
  BY DEF Refreshed, InChain, InFlight
<1>2. rq[r] # Idle /\ k \in PageUrls /\ entry[k] \in CopyOrNone /\ Excused(entry[k])
  BY <1>1 DEF CacheIInv, RequestSound, EntriesSound
<1>3. EntriesSound'
  BY <1>1, EntriesKept DEF CacheIInv
<1>4. CASE Stores(r, Answer("raw", r, entry[k].noCache))
  <2>1. entry[k].noCache \in BOOLEAN /\ "raw" \in BodyForms
    BY <1>2, CopyTyped DEF BodyForms
  <2>2. /\ Answer("raw", r, entry[k].noCache) \in CopyOrNone
        /\ ~signedIn => Excused(Answer("raw", r, entry[k].noCache))
    BY <2>1, AnswerTyped
  <2> QED  BY <1>1, <1>4, <2>2, StoresKeeps
<1>5. CASE entry[k] # Missing /\ chain' = chain /\ got' = [got EXCEPT ![r] = bumped] /\ Goes(r, "bumping")
  <2>1. entry[k] \in Page
    BY <1>2, <1>5 DEF CopyOrNone
  <2>2. bumped \in Page /\ bumped.account = entry[k].account /\ bumped.crossed = entry[k].crossed
    BY <2>1, PageWith
  <2>3. bumped \in CopyOrNone /\ Excused(bumped)
    BY <2>2, <1>2 DEF CopyOrNone, Excused
  <2> HIDE DEF bumped
  <2>4. got' \in [Fetches -> CopyOrNone] /\ Excused(got'[r]) /\ \A q \in Fetches \ {r} : got'[q] = got[q]
    BY <2>3, <1>5 DEF CacheIInv, PagesTyped
  <2>5. "bumping" \in AllPhases \ (InChain \cup InFlight)
    BY DEF AllPhases, InChain, InFlight
  <2> QED  BY <1>1, <1>5, <2>4, <2>5, GoesKeeps
<1>6. CASE Finish(r) /\ chain' = chain
  BY <1>1, <1>3, <1>6, FinishKeeps
<1>7. CASE Goes(r, "live") /\ UNCHANGED <<got, chain>>
  <2>1. got' \in [Fetches -> CopyOrNone] /\ Excused(got'[r]) /\ \A q \in Fetches \ {r} : got'[q] = got[q]
    BY <1>7 DEF CacheIInv, PagesTyped, RequestSound
  <2>2. "live" \in AllPhases \ (InChain \cup InFlight)
    BY DEF AllPhases, InChain, InFlight
  <2> QED  BY <1>1, <1>7, <2>1, <2>2, GoesKeeps
<1> QED  BY <1>4, <1>5, <1>6, <1>7 DEF Refreshed

LEMMA BumpsKeeps ==
  ASSUME CacheIInv, NEW r \in Fetches, Bumps(r) PROVE CacheIInv'
<1>1. /\ phase[r] = "bumping" /\ entry' = [entry EXCEPT ![rq[r].key] = got[r]] /\ Finish(r)
      /\ UNCHANGED <<disabled, chain, rows, signedIn, logouts>>
  BY DEF Bumps
<1>2. got[r] \in CopyOrNone /\ Excused(got[r])
  BY DEF CacheIInv, PagesTyped, RequestSound
<1>5. EntriesSound'
  BY <1>1, <1>2, EntryPut DEF CacheIInv
<1>6. phase[r] \notin InChain
  BY <1>1 DEF InChain
<1> QED  BY <1>1, <1>5, <1>6, FinishKeeps

LEMMA PutsKeeps ==
  ASSUME CacheIInv, NEW r \in Fetches, Puts(r) PROVE CacheIInv'
<1>1. /\ phase[r] = "putting" /\ phase' = [phase EXCEPT ![r] = "closing"]
      /\ entry' = [entry EXCEPT ![rq[r].key] = got[r]]
      /\ UNCHANGED <<reserved, disabled, chain, rows, signedIn, logouts, rq, got, tainted,
                     crossed, served>>
  BY DEF Puts
<1>2. got[r] \in CopyOrNone /\ Excused(got[r])
  BY DEF CacheIInv, PagesTyped, RequestSound
<1>5. EntriesSound'
  BY <1>1, <1>2, EntryPut DEF CacheIInv
<1>6. /\ "closing" \in AllPhases /\ "closing" \in InFlight /\ phase[r] \in InFlight
      /\ "closing" \notin InChain /\ phase[r] \notin InChain
  BY <1>1 DEF AllPhases, InFlight, InChain
<1>7. /\ phase' \in [Fetches -> AllPhases] /\ phase'[r] = "closing"
      /\ \A q \in Fetches \ {r} : phase'[q] = phase[q]
      /\ Cardinality(Storing') = Cardinality(Storing)
  BY <1>1, <1>6, PlaceMoves
<1>8. ChainWaits'
  BY <1>1, <1>6, ChainLeftAlone
<1>9. PagesTyped'
  BY <1>1, <1>7 DEF CacheIInv, PagesTyped, PageUrls, CopyOrNone, Page, Missing, Job, Idle, Nil, BodyForms
<1>10. ASSUME NEW q \in Fetches PROVE RequestSound(q)'
  <2>1. RequestSound(q)
    BY DEF CacheIInv
  <2>2. CASE q = r
    BY <2>1, <2>2, <1>1, <1>7 DEF RequestSound, Excused, PageUrls, Destinations, Idle
  <2>3. CASE q # r
    BY <2>1, <2>3, <1>1, <1>7, OthersStaySound
  <2> QED  BY <2>2, <2>3
<1>11. reserved' = Cardinality(Storing')
  BY <1>1, <1>7 DEF CacheIInv
<1> QED  BY <1>5, <1>8, <1>9, <1>10, <1>11 DEF CacheIInv

LEMMA RefetchesKeeps ==
  ASSUME CacheIInv, NEW r \in Fetches, Refetches(r) PROVE CacheIInv'
<1> DEFINE where == IF phase[r] = "probing" THEN "probed" ELSE "refreshed"
<1>1. /\ phase[r] \in {"refreshing", "probing"} /\ phase' = [phase EXCEPT ![r] = where]
      /\ tainted' = [tainted EXCEPT ![r] = signedIn]
      /\ UNCHANGED <<entry, reserved, disabled, chain, rows, signedIn, logouts, rq, got, crossed,
                     served>>
  BY DEF Refetches
<1>2. /\ where \in AllPhases /\ where \notin InChain /\ phase[r] \notin InChain
      /\ where \notin InFlight /\ phase[r] \notin InFlight /\ phase[r] # "idle"
  BY <1>1 DEF AllPhases, InChain, InFlight
<1> HIDE DEF where
<1>3. /\ phase' \in [Fetches -> AllPhases] /\ phase'[r] = where
      /\ \A q \in Fetches \ {r} : phase'[q] = phase[q]
      /\ Cardinality(Storing') = Cardinality(Storing)
  BY <1>1, <1>2, PlaceMoves
<1>4. ChainWaits'
  BY <1>1, <1>2, ChainLeftAlone
<1>5. /\ tainted' \in [Fetches -> BOOLEAN] /\ tainted'[r] = signedIn
      /\ \A q \in Fetches \ {r} : tainted'[q] = tainted[q]
  BY <1>1 DEF CacheIInv, PagesTyped
<1>6. PagesTyped'
  BY <1>1, <1>3, <1>5 DEF CacheIInv, PagesTyped, PageUrls, CopyOrNone, Page, Missing, Job, Idle, Nil, BodyForms
<1>7. ASSUME NEW q \in Fetches PROVE RequestSound(q)'
  <2>1. RequestSound(q)
    BY DEF CacheIInv
  <2>2. CASE q = r
    BY <2>1, <2>2, <1>1, <1>2, <1>5 DEF RequestSound, Excused, PageUrls, Destinations, Idle
  <2>3. CASE q # r
    BY <2>1, <2>3, <1>1, <1>3, <1>5, OthersStaySound
  <2> QED  BY <2>2, <2>3
<1>8. reserved' = Cardinality(Storing') /\ EntriesSound'
  BY <1>1, <1>3, EntriesKept DEF CacheIInv
<1> QED  BY <1>4, <1>6, <1>7, <1>8 DEF CacheIInv

LEMMA ServedForms ==
  ASSUME NEW form \in BodyForms, NEW use
  PROVE  /\ Served(form, use) \in BodyForms
         /\ use = "script" => Served(form, use) \in {"script", "mixed"}
BY DEF Served, BodyForms

\* What a request finds in the cache.
AskedAs(r, k, use, next, hit, heals) ==
  /\ rq' = [rq EXCEPT ![r] = [key |-> k, dest |-> use]]
  /\ phase' = [phase EXCEPT ![r] = next]
  /\ tainted' = [tainted EXCEPT ![r] = next = "live" /\ signedIn]
  /\ served' = [served EXCEPT ![r] =
       IF Hit(k) /\ ~hit.noCache THEN Served(hit.form, use) ELSE Nil]
  /\ got' = [got EXCEPT ![r] =
       IF Hit(k) /\ heals /\ next # "dropping" THEN [hit EXCEPT !.form = Served(hit.form, use)] ELSE Missing]
  /\ IF next \in {"dropping", "stale"} THEN Queue(Job("delete", r)) ELSE chain' = chain
  /\ UNCHANGED <<entry, reserved, disabled, rows, signedIn, logouts, crossed>>

LEMMA AskForms ==
  ASSUME NEW r \in Fetches, Ask(r)
  PROVE  /\ phase[r] = "idle"
         /\ \E k \in PageUrls : \E use \in Destinations(k) :
              \E next \in {"live", "dropping", "probing", "stale", "dropped", "refreshing", "healing"} :
              \E heals \in BOOLEAN : AskedAs(r, k, use, next, entry[k], heals)
<1>1. phase[r] = "idle"
  BY DEF Ask
<1> DEFINE code(k, use) == k \in Scripts /\ use # "document"
           heals(k, use) == use = "script" /\ Served(entry[k].form, use) # entry[k].form
           next(k, use) ==
             IF ~Hit(k) THEN "live"
             ELSE IF entry[k].noCache THEN IF code(k, use) THEN "dropping" ELSE "probing"
             ELSE IF entry[k].stale THEN IF code(k, use) THEN "stale"
                                         ELSE IF Refreshing(k) THEN "dropped" ELSE "refreshing"
             ELSE IF heals(k, use) THEN "healing" ELSE "dropped"
<1>2. PICK k \in PageUrls : \E use \in Destinations(k) :
        AskedAs(r, k, use, next(k, use), entry[k], heals(k, use))
  BY DEF Ask, AskedAs, Skips
<1>3. PICK use \in Destinations(k) : AskedAs(r, k, use, next(k, use), entry[k], heals(k, use))
  BY <1>2
<1>4. heals(k, use) \in BOOLEAN
  OBVIOUS
<1>5. next(k, use) \in {"live", "dropping", "probing", "stale", "dropped", "refreshing", "healing"}
  OBVIOUS
<1> HIDE DEF next, heals, code
<1> QED  BY <1>1, <1>3, <1>4, <1>5

LEMMA AskKeeps ==
  ASSUME CacheIInv, NEW r \in Fetches, Ask(r) PROVE CacheIInv'
<1>1. phase[r] = "idle"
  BY AskForms
<1>0. PICK k \in PageUrls : \E use \in Destinations(k) :
        \E next \in {"live", "dropping", "probing", "stale", "dropped", "refreshing", "healing"} :
        \E heals \in BOOLEAN : AskedAs(r, k, use, next, entry[k], heals)
  BY AskForms
<1>2. PICK use \in Destinations(k),
           next \in {"live", "dropping", "probing", "stale", "dropped", "refreshing", "healing"},
           heals \in BOOLEAN : AskedAs(r, k, use, next, entry[k], heals)
  BY <1>0
<1> DEFINE asked == [key |-> k, dest |-> use]
           page == IF Hit(k) /\ heals /\ next # "dropping"
                     THEN [entry[k] EXCEPT !.form = Served(entry[k].form, use)] ELSE Missing
           form == IF Hit(k) /\ ~entry[k].noCache THEN Served(entry[k].form, use) ELSE Nil
<1>3. /\ next \in AllPhases /\ next \notin InFlight /\ phase[r] \notin InFlight
      /\ phase[r] \notin InChain
      /\ next \in InChain <=> next \in {"dropping", "stale"}
  BY <1>1, <1>2 DEF AllPhases, InFlight, InChain
<1>4. /\ rq' = [rq EXCEPT ![r] = asked] /\ phase' = [phase EXCEPT ![r] = next]
      /\ tainted' = [tainted EXCEPT ![r] = next = "live" /\ signedIn]
      /\ served' = [served EXCEPT ![r] = form] /\ got' = [got EXCEPT ![r] = page]
      /\ UNCHANGED <<entry, reserved, disabled, rows, signedIn, logouts, crossed>>
  BY <1>2 DEF AskedAs
<1>5. /\ phase' \in [Fetches -> AllPhases] /\ phase'[r] = next
      /\ \A q \in Fetches \ {r} : phase'[q] = phase[q]
      /\ Cardinality(Storing') = Cardinality(Storing)
  BY <1>3, <1>4, PlaceMoves
<1>6. ChainWaits' /\ chain' \in Seq([kind : {"reserve", "delete"}, of : Fetches] \cup {Job("clear", Nil)})
  <2>1. CASE next \in {"dropping", "stale"}
    <3>1. Queue(Job("delete", r)) /\ next \in Wanted(Job("delete", r))
      BY <1>2, <2>1 DEF AskedAs, Wanted, Job
    <3> QED  BY <3>1, <1>3, <1>4, ChainGrows
  <2>2. CASE next \notin {"dropping", "stale"}
    <3>1. chain' = chain
      BY <1>2, <2>2 DEF AskedAs
    <3>2. ChainWaits'
      BY <3>1, <2>2, <1>3, <1>4, ChainLeftAlone
    <3> QED  BY <3>1, <3>2 DEF CacheIInv, PagesTyped
  <2> QED  BY <2>1, <2>2
<1>7. /\ entry[k] \in CopyOrNone /\ Excused(entry[k])
      /\ Hit(k) => entry[k] \in Page /\ entry[k].form \in BodyForms
  BY DEF CacheIInv, EntriesSound, Hit, CopyOrNone, Page
<1>8. form \in BodyForms \cup {Nil} /\ (use = "script" => form \in {Nil, "script", "mixed"})
  BY <1>7, ServedForms
<1>9. page \in CopyOrNone /\ Excused(page)
  <2>1. CASE Hit(k) /\ heals /\ next # "dropping"
    <3>1. entry[k] \in Page /\ Served(entry[k].form, use) \in BodyForms
      BY <2>1, <1>7, ServedForms
    <3>2. /\ page \in Page /\ page.account = entry[k].account /\ page.crossed = entry[k].crossed
      BY <2>1, <3>1, PageWith
    <3> QED  BY <3>2, <1>7 DEF CopyOrNone, Excused
  <2>2. CASE ~(Hit(k) /\ heals /\ next # "dropping")
    BY <2>2, MissingIsExcused
  <2> QED  BY <2>1, <2>2
<1>10. /\ asked \in [key : PageUrls, dest : {"script", "worker", "document"}] /\ asked # Idle
       /\ asked.key = k /\ asked.dest = use
  BY DEF Destinations, Idle, Nil
<1> HIDE DEF asked, page, form
<1>12. /\ rq' \in [Fetches -> {Idle} \cup [key : PageUrls, dest : {"script", "worker", "document"}]]
       /\ rq'[r] = asked /\ \A q \in Fetches \ {r} : rq'[q] = rq[q]
  BY <1>4, <1>10 DEF CacheIInv, PagesTyped
<1>13. /\ got' \in [Fetches -> CopyOrNone] /\ got'[r] = page
       /\ \A q \in Fetches \ {r} : got'[q] = got[q]
  BY <1>4, <1>9 DEF CacheIInv, PagesTyped
<1>14. /\ served' \in [Fetches -> BodyForms \cup {Nil}] /\ served'[r] = form
       /\ \A q \in Fetches \ {r} : served'[q] = served[q]
  BY <1>4, <1>8 DEF CacheIInv, PagesTyped
<1>15. /\ tainted' \in [Fetches -> BOOLEAN] /\ (tainted'[r] => signedIn)
       /\ \A q \in Fetches \ {r} : tainted'[q] = tainted[q]
  BY <1>4 DEF CacheIInv, PagesTyped
<1>16. PagesTyped'
  BY <1>4, <1>5, <1>6, <1>12, <1>13, <1>14, <1>15
  DEF CacheIInv, PagesTyped, PageUrls, CopyOrNone, Page, Missing, Job, Idle, Nil, BodyForms
<1>17. ASSUME NEW q \in Fetches PROVE RequestSound(q)'
  <2>1. RequestSound(q)
    BY DEF CacheIInv
  <2>2. CASE q = r
    BY <2>2, <1>4, <1>8, <1>9, <1>10, <1>12, <1>13, <1>14, <1>15
    DEF RequestSound, Excused, PageUrls, Destinations, Idle
  <2>3. CASE q # r
    BY <2>1, <2>3, <1>4, <1>5, <1>12, <1>13, <1>14, <1>15, OthersStaySound
  <2> QED  BY <2>2, <2>3
<1>18. reserved' = Cardinality(Storing') /\ EntriesSound'
  BY <1>4, <1>5, EntriesKept DEF CacheIInv
<1> QED  BY <1>6, <1>16, <1>17, <1>18 DEF CacheIInv

\* The first job of the chain is the job of a request that waits for it.
LEMMA HeadWaits ==
  ASSUME CacheIInv, chain # <<>>, Head(chain).kind # "clear"
  PROVE  /\ Head(chain).of \in Fetches /\ phase[Head(chain).of] \in Wanted(Head(chain))
         /\ phase[Head(chain).of] \in InChain
<1> DEFINE J == [kind : {"reserve", "delete"}, of : Fetches] \cup {Job("clear", Nil)}
<1>1. chain \in Seq(J) /\ ChainWaits
  BY DEF CacheIInv, PagesTyped
<1>2. Head(chain) = chain[1] /\ 1 \in 1..Len(chain) /\ chain[1] \in J
  <2> HIDE DEF J
  <2> QED  BY <1>1
<1>3. chain[1].of \in Fetches
  BY <1>2 DEF Job
<1>4. phase[chain[1].of] \in Wanted(chain[1])
  BY <1>1, <1>2 DEF ChainWaits
<1> QED  BY <1>2, <1>3, <1>4 DEF Wanted, InChain

LEMMA DeletesKeeps == ASSUME CacheIInv, Deletes PROVE CacheIInv'
<1> DEFINE r == Head(chain).of
           where == IF phase[r] = "dropping" THEN "live"
                    ELSE IF got[r] # Missing THEN "healing" ELSE "dropped"
<1>1. /\ chain # <<>> /\ Head(chain).kind = "delete" /\ got' = got /\ Goes(r, where)
      /\ chain' = Tail(chain) /\ rows' = {} /\ UNCHANGED <<signedIn, logouts>>
      /\ \/ entry' = [entry EXCEPT ![rq[r].key] = Missing] /\ disabled' = disabled
         \/ disabled' = TRUE /\ entry' = entry
  BY DEF Deletes
<1>2. r \in Fetches /\ phase[r] \in {"dropping", "stale"}
  BY <1>1, HeadWaits DEF Wanted
<1>3. /\ where \in AllPhases \ InChain /\ where \notin InFlight /\ where # "idle"
      /\ phase[r] \notin InFlight /\ phase[r] # "idle"
  BY <1>2 DEF AllPhases, InChain, InFlight
<1>4. ChainWaits' /\ chain' \in Seq([kind : {"reserve", "delete"}, of : Fetches] \cup {Job("clear", Nil)})
  BY <1>1, <1>3, ChainShrinks DEF Goes
<1> HIDE DEF where, r
<1>5. phase' = [phase EXCEPT ![r] = where] /\ UNCHANGED <<rq, tainted, crossed, served, reserved>>
  BY <1>1 DEF Goes
<1>6. /\ phase' \in [Fetches -> AllPhases] /\ phase'[r] = where
      /\ \A q \in Fetches \ {r} : phase'[q] = phase[q]
      /\ Cardinality(Storing') = Cardinality(Storing)
  BY <1>2, <1>3, <1>5, PlaceMoves
<1>7. IsFiniteSet(rows')
  BY <1>1, FS_EmptySet
<1>8. EntriesSound'
  BY <1>1, MissingIsExcused, EntryPut, EntriesKept DEF CacheIInv
<1>9. PagesTyped'
  BY <1>1, <1>4, <1>5, <1>6, <1>7
  DEF CacheIInv, PagesTyped, PageUrls, CopyOrNone, Page, Missing, Job, Idle, Nil, BodyForms
<1>10. ASSUME NEW q \in Fetches PROVE RequestSound(q)'
  <2>1. RequestSound(q)
    BY DEF CacheIInv
  <2>2. CASE q = r
    BY <2>1, <2>2, <1>1, <1>3, <1>5, <1>6 DEF RequestSound, Excused, PageUrls, Destinations, Idle
  <2>3. CASE q # r
    BY <2>1, <2>3, <1>1, <1>5, <1>6, OthersStaySound
  <2> QED  BY <2>2, <2>3
<1>11. reserved' = Cardinality(Storing')
  BY <1>5, <1>6 DEF CacheIInv
<1> QED  BY <1>4, <1>8, <1>9, <1>10, <1>11 DEF CacheIInv

\* A reservation is made, after others were evicted for it, or the store is given up.
LEMMA ReservesKeeps == ASSUME CacheIInv, Reserves PROVE CacheIInv'
<1> DEFINE r == Head(chain).of
           others == rows \ {rq[r].key}
<1>1. /\ chain # <<>> /\ Head(chain).kind = "reserve" /\ chain' = Tail(chain) /\ rows' = {}
      /\ UNCHANGED <<signedIn, logouts>>
  BY DEF Reserves
<1>2. r \in Fetches /\ phase[r] = "reserving"
  BY <1>1, HeadWaits DEF Wanted
<1>3. rows' \subseteq PageUrls /\ IsFiniteSet(rows')
  BY <1>1, FS_EmptySet
<1>4. CASE Finish(r) /\ entry' = entry /\ disabled' \in BOOLEAN
  <2>1. /\ phase' = [phase EXCEPT ![r] = "idle"] /\ phase' \in [Fetches -> AllPhases]
        /\ rq' \in [Fetches -> {Idle} \cup [key : PageUrls, dest : {"script", "worker", "document"}]]
        /\ got' \in [Fetches -> CopyOrNone]
        /\ tainted' \in [Fetches -> BOOLEAN] /\ crossed' \in [Fetches -> BOOLEAN]
        /\ served' \in [Fetches -> BodyForms \cup {Nil}]
        /\ reserved' \in 0..TotalMax /\ reserved' = Cardinality(Storing')
        /\ \A q \in Fetches : RequestSound(q)'
    BY <1>1, <1>2, <1>4, FinishFacts
  <2>2. "idle" \in AllPhases \ InChain
    BY DEF AllPhases, InChain
  <2>3. ChainWaits' /\ chain' \in Seq([kind : {"reserve", "delete"}, of : Fetches] \cup {Job("clear", Nil)})
    <3>1. phase' = [phase EXCEPT ![Head(chain).of] = "idle"]
      BY <2>1
    <3> QED  BY <3>1, <2>2, <1>1, ChainShrinks
  <2>4. EntriesSound'
    BY <1>4, EntriesKept DEF CacheIInv
  <2>5. PagesTyped'
    BY <1>1, <1>3, <1>4, <2>1, <2>3
    DEF CacheIInv, PagesTyped, PageUrls, CopyOrNone, Page, Missing, Job, Idle, Nil, BodyForms
  <2> QED  BY <2>1, <2>3, <2>4, <2>5 DEF CacheIInv
<1>5. ASSUME NEW evicted \in SUBSET others, Room(others \ evicted),
             entry' = [k \in PageUrls |-> IF k \in evicted THEN Missing ELSE entry[k]],
             phase' = [phase EXCEPT ![r] = "putting"], reserved' = reserved + 1,
             UNCHANGED <<disabled, rq, got, tainted, crossed, served>>
      PROVE  CacheIInv'
  <2>1. /\ "putting" \in AllPhases \ InChain /\ "putting" \in InFlight /\ phase[r] \notin InFlight
    BY <1>2 DEF AllPhases, InChain, InFlight
  <2>2. ChainWaits' /\ chain' \in Seq([kind : {"reserve", "delete"}, of : Fetches] \cup {Job("clear", Nil)})
    <3>1. phase' = [phase EXCEPT ![Head(chain).of] = "putting"]
      BY <1>5
    <3> QED  BY <3>1, <2>1, <1>1, ChainShrinks
  <2> HIDE DEF r
  <2>3. /\ phase' \in [Fetches -> AllPhases] /\ phase'[r] = "putting"
        /\ \A q \in Fetches \ {r} : phase'[q] = phase[q]
        /\ Cardinality(Storing') = Cardinality(Storing) + 1
    BY <1>2, <1>5, <2>1, PlaceMoves
  <2>4. reserved \in 0..TotalMax /\ reserved = Cardinality(Storing)
    BY DEF CacheIInv, PagesTyped
  <2>5. reserved' \in 0..TotalMax /\ reserved' = Cardinality(Storing')
    <3>1. IsFiniteSet(others \ evicted)
      BY FS_Subset DEF CacheIInv, PagesTyped
    <3>2. Cardinality(others \ evicted) \in Nat
      BY <3>1, FS_CardinalityType
    <3>3. reserved + 1 + Cardinality(others \ evicted) <= TotalMax
      BY <1>5 DEF Room
    <3> HIDE DEF others
    <3> QED  BY <3>2, <3>3, <2>3, <2>4, <1>5, PagesAssumption
  <2>6. EntriesSound'
    BY <1>5, EntriesDropped DEF CacheIInv
  <2>7. PagesTyped'
    BY <1>1, <1>3, <1>5, <2>2, <2>3, <2>5
    DEF CacheIInv, PagesTyped, PageUrls, CopyOrNone, Page, Missing, Job, Idle, Nil, BodyForms
  <2>8. ASSUME NEW q \in Fetches PROVE RequestSound(q)'
    <3>1. RequestSound(q)
      BY DEF CacheIInv
    <3>2. CASE q = r
      BY <3>1, <3>2, <1>1, <1>2, <1>5 DEF RequestSound, Excused, PageUrls, Destinations, Idle
    <3>3. CASE q # r
      BY <3>1, <3>3, <1>1, <1>5, <2>3, OthersStaySound
    <3> QED  BY <3>2, <3>3
  <2> QED  BY <2>2, <2>5, <2>6, <2>7, <2>8 DEF CacheIInv
<1>6. disabled \in BOOLEAN
  BY DEF CacheIInv, PagesTyped
<1>7. CASE disabled \/ ~Room({})
  <2>1. Finish(r) /\ UNCHANGED <<entry, disabled>>
    BY <1>7 DEF Reserves
  <2> QED  BY <2>1, <1>4, <1>6
<1>8. CASE ~(disabled \/ ~Room({}))
  <2>1. PICK evicted \in SUBSET others :
          /\ Room(others \ evicted)
          /\ \/ /\ entry' = [k \in PageUrls |-> IF k \in evicted THEN Missing ELSE entry[k]]
                /\ phase' = [phase EXCEPT ![r] = "putting"] /\ reserved' = reserved + 1
                /\ UNCHANGED <<disabled, rq, got, tainted, crossed, served>>
             \/ disabled' = TRUE /\ entry' = entry /\ Finish(r)
    BY <1>8 DEF Reserves
  <2>2. CASE disabled' = TRUE /\ entry' = entry /\ Finish(r)
    BY <2>2, <1>4
  <2>3. CASE /\ entry' = [k \in PageUrls |-> IF k \in evicted THEN Missing ELSE entry[k]]
             /\ phase' = [phase EXCEPT ![r] = "putting"] /\ reserved' = reserved + 1
             /\ UNCHANGED <<disabled, rq, got, tainted, crossed, served>>
    BY <2>1, <2>3, <1>5
  <2> QED  BY <2>1, <2>2, <2>3
<1> QED  BY <1>7, <1>8

\* The steps that move no request: a listing, a clear, an entry grown stale, a sign-in.
LEMMA ListsKeeps == ASSUME CacheIInv, Lists PROVE CacheIInv'
<1>1. /\ rows' = Present
      /\ UNCHANGED <<entry, reserved, disabled, chain, signedIn, logouts, phase, rq, got, tainted,
                     crossed, served>>
  BY DEF Lists
<1>2. rows' \subseteq PageUrls /\ IsFiniteSet(rows')
  BY <1>1 DEF CacheIInv, EntriesSound, Present
<1>3. PagesTyped'
  BY <1>1, <1>2
  DEF CacheIInv, PagesTyped, PageUrls, CopyOrNone, Page, Missing, Job, Idle, Nil, BodyForms
<1>4. EntriesSound'
  BY <1>1, EntriesKept DEF CacheIInv
<1>5. ChainWaits' /\ reserved' = Cardinality(Storing')
  BY <1>1 DEF CacheIInv, ChainWaits, Waiting, Storing, Wanted
<1>6. \A q \in Fetches : RequestSound(q)'
  BY <1>1, OthersStaySound DEF CacheIInv
<1> QED  BY <1>3, <1>4, <1>5, <1>6 DEF CacheIInv

LEMMA ClearsKeeps == ASSUME CacheIInv, Clears PROVE CacheIInv'
<1>1. /\ chain # <<>> /\ Head(chain).kind = "clear" /\ chain' = Tail(chain) /\ rows' = {}
      /\ entry' = [k \in PageUrls |-> IF k \in rows THEN Missing ELSE entry[k]]
      /\ UNCHANGED <<reserved, disabled, signedIn, logouts, phase, rq, got, tainted, crossed, served>>
  BY DEF Clears
<1>2. rows' \subseteq PageUrls /\ IsFiniteSet(rows')
  BY <1>1, FS_EmptySet
<1>3. ChainWaits' /\ chain' \in Seq([kind : {"reserve", "delete"}, of : Fetches] \cup {Job("clear", Nil)})
  BY <1>1, ChainShrinks
<1>4. PagesTyped'
  BY <1>1, <1>2, <1>3
  DEF CacheIInv, PagesTyped, PageUrls, CopyOrNone, Page, Missing, Job, Idle, Nil, BodyForms
<1>5. EntriesSound'
  BY <1>1, EntriesDropped DEF CacheIInv
<1>6. reserved' = Cardinality(Storing')
  BY <1>1 DEF CacheIInv, Storing
<1>7. \A q \in Fetches : RequestSound(q)'
  BY <1>1, OthersStaySound DEF CacheIInv
<1> QED  BY <1>3, <1>4, <1>5, <1>6, <1>7 DEF CacheIInv

LEMMA GrowsStaleKeeps == ASSUME CacheIInv, NEW k \in PageUrls, GrowsStale(k) PROVE CacheIInv'
<1> DEFINE old == [entry[k] EXCEPT !.stale = TRUE]
<1>1. /\ entry[k] # Missing /\ entry' = [entry EXCEPT ![k] = old]
      /\ UNCHANGED <<reserved, disabled, chain, rows, signedIn, logouts, phase, rq, got, tainted,
                     crossed, served>>
  <2>1. entry' = [entry EXCEPT ![k].stale = TRUE]
    BY DEF GrowsStale
  <2> QED  BY <2>1 DEF GrowsStale
<1>2. entry[k] \in Page /\ Excused(entry[k])
  BY <1>1 DEF CacheIInv, EntriesSound, CopyOrNone
<1>3. old \in CopyOrNone /\ Excused(old)
  BY <1>2, PageWith DEF CopyOrNone, Excused
<1> HIDE DEF old
<1>4. EntriesSound'
  BY <1>1, <1>3, EntryPut DEF CacheIInv
<1>5. PagesTyped'
  BY <1>1
  DEF CacheIInv, PagesTyped, PageUrls, CopyOrNone, Page, Missing, Job, Idle, Nil, BodyForms
<1>6. ChainWaits' /\ reserved' = Cardinality(Storing')
  BY <1>1 DEF CacheIInv, ChainWaits, Waiting, Storing, Wanted
<1>7. \A q \in Fetches : RequestSound(q)'
  BY <1>1, OthersStaySound DEF CacheIInv
<1> QED  BY <1>4, <1>5, <1>6, <1>7 DEF CacheIInv

LEMMA SignInKeeps == ASSUME CacheIInv, SignIn PROVE CacheIInv'
<1>1. /\ ~signedIn /\ signedIn' = TRUE
      /\ UNCHANGED <<entry, reserved, disabled, chain, rows, logouts, phase, rq, got, tainted,
                     crossed, served>>
  BY DEF SignIn
<1>2. PagesTyped'
  BY <1>1
  DEF CacheIInv, PagesTyped, PageUrls, CopyOrNone, Page, Missing, Job, Idle, Nil, BodyForms
<1>3. EntriesSound'
  BY <1>1, EntriesKept DEF CacheIInv
<1>4. ChainWaits' /\ reserved' = Cardinality(Storing')
  BY <1>1 DEF CacheIInv, ChainWaits, Waiting, Storing, Wanted
<1>5. \A q \in Fetches : RequestSound(q)'
  BY <1>1, OthersStaySound DEF CacheIInv
<1> QED  BY <1>2, <1>3, <1>4, <1>5 DEF CacheIInv

\* The account is signed out: what was sent with its cookies crosses, a clear is queued.
LEMMA SignOutKeeps == ASSUME CacheIInv, SignOut PROVE CacheIInv'
<1> DEFINE J == [kind : {"reserve", "delete"}, of : Fetches] \cup {Job("clear", Nil)}
           clear == Job("clear", Nil)
<1>1. /\ logouts < MaxLogouts /\ logouts' = logouts + 1 /\ signedIn' = FALSE
      /\ chain' = Append(chain, clear)
      /\ crossed' = [r \in Fetches |-> crossed[r] \/ tainted[r]]
      /\ UNCHANGED <<entry, reserved, disabled, rows, phase, rq, got, tainted, served>>
  BY DEF SignOut, Queue
<1>2. chain \in Seq(J) /\ logouts \in 0..MaxLogouts /\ ChainWaits /\ clear \in J /\ clear.kind = "clear"
  BY DEF CacheIInv, PagesTyped, Job
<1>3. /\ chain' \in Seq(J) /\ Len(chain') = Len(chain) + 1 /\ chain'[Len(chain) + 1] = clear
      /\ Len(chain) \in Nat /\ \A i \in 1..Len(chain) : chain'[i] = chain[i]
  <2> HIDE DEF J, clear
  <2> QED  BY <1>1, <1>2
<1>4. crossed' \in [Fetches -> BOOLEAN] /\ \A q \in Fetches : crossed'[q] = (crossed[q] \/ tainted[q])
  BY <1>1
<1>5. logouts' \in 0..MaxLogouts
  BY <1>1, <1>2, PagesAssumption
<1> HIDE DEF clear
<1>6. PagesTyped'
  BY <1>1, <1>3, <1>4, <1>5
  DEF CacheIInv, PagesTyped, PageUrls, CopyOrNone, Page, Missing, Job, Idle, Nil, BodyForms
<1>7. EntriesSound'
  BY <1>1, EntriesKept DEF CacheIInv
<1>8. ChainWaits'
  <2>1. Waiting' = Waiting
    BY <1>1 DEF Waiting
  <2>2. Cardinality(Waiting) \in Nat
    BY PagesAssumption, FS_Subset, FS_CardinalityType DEF Waiting
  <2>3. Len(chain') <= Cardinality(Waiting') + logouts'
    BY <2>1, <2>2, <1>1, <1>2, <1>3, PagesAssumption DEF ChainWaits
  <2>4. \A i \in 1..Len(chain') : chain'[i].kind # "clear" =>
          i \in 1..Len(chain) /\ chain'[i] = chain[i]
    BY <1>2, <1>3
  <2> QED  BY <2>3, <2>4, <1>1, <1>2 DEF ChainWaits, Wanted
<1>9. ASSUME NEW q \in Fetches PROVE RequestSound(q)'
  <2>1. RequestSound(q)
    BY DEF CacheIInv
  <2> QED  BY <2>1, <1>1, <1>4 DEF RequestSound, Excused, PageUrls, Destinations, Idle
<1>10. reserved' = Cardinality(Storing')
  BY <1>1 DEF CacheIInv, Storing
<1> QED  BY <1>6, <1>7, <1>8, <1>9, <1>10 DEF CacheIInv

LEMMA CacheInitial == PagesInit => CacheIInv
<1> SUFFICES ASSUME PagesInit PROVE CacheIInv
  OBVIOUS
<1>1. /\ entry = [k \in PageUrls |-> Missing] /\ reserved = 0 /\ disabled = FALSE
      /\ chain = <<>> /\ rows = {} /\ signedIn = FALSE /\ logouts = 0
      /\ phase = [r \in Fetches |-> "idle"] /\ rq = [r \in Fetches |-> Idle]
      /\ got = [r \in Fetches |-> Missing]
      /\ tainted = [r \in Fetches |-> FALSE] /\ crossed = [r \in Fetches |-> FALSE]
      /\ served = [r \in Fetches |-> Nil]
  BY DEF PagesInit
<1>2. Present = {} /\ Waiting = {} /\ Storing = {}
  BY <1>1 DEF Present, Waiting, Storing, InChain, InFlight
<1>3. IsFiniteSet({}) /\ Cardinality({}) = 0
  BY FS_EmptySet
<1>4. EntriesSound
  BY <1>1, <1>2, <1>3, MissingIsExcused DEF EntriesSound
<1>5. PagesTyped
  <2>1. 0 \in 0..TotalMax /\ 0 \in 0..MaxLogouts
    BY PagesAssumption
  <2>2. <<>> \in Seq([kind : {"reserve", "delete"}, of : Fetches] \cup {Job("clear", Nil)})
    OBVIOUS
  <2>3. got \in [Fetches -> CopyOrNone]
    BY <1>1, MissingIsExcused
  <2>4. phase \in [Fetches -> AllPhases] /\ served \in [Fetches -> BodyForms \cup {Nil}]
    BY <1>1 DEF AllPhases
  <2>5. rq \in [Fetches -> {Idle} \cup [key : PageUrls, dest : {"script", "worker", "document"}]]
    BY <1>1
  <2>6. tainted \in [Fetches -> BOOLEAN] /\ crossed \in [Fetches -> BOOLEAN]
    BY <1>1
  <2> QED  BY <1>1, <1>3, <2>1, <2>2, <2>3, <2>4, <2>5, <2>6 DEF PagesTyped
<1>6. ChainWaits
  BY <1>1, <1>2, <1>3 DEF ChainWaits
<1>7. \A r \in Fetches : RequestSound(r)
  BY <1>1, MissingIsExcused DEF RequestSound, Idle, Nil
<1> QED  BY <1>1, <1>2, <1>3, <1>4, <1>5, <1>6, <1>7 DEF CacheIInv

\* The page cache, request.ts: what is reserved is counted, the chain holds one job of each
\* request that waits, and what was sent with the cookies of an account that is signed out
\* has crossed its sign-out.
THEOREM CacheInductive == PagesSpec => []CacheIInv
<1>1. CacheIInv /\ [PagesNext]_pageVars => CacheIInv'
  <2> SUFFICES ASSUME CacheIInv, [PagesNext]_pageVars PROVE CacheIInv'
    OBVIOUS
  <2>1. CASE UNCHANGED pageVars
    <3>1. UNCHANGED <<entry, reserved, disabled, chain, rows, signedIn, logouts, phase, rq, got,
                      tainted, crossed, served>>
      BY <2>1 DEF pageVars
    <3>2. PagesTyped'
      BY <3>1
      DEF CacheIInv, PagesTyped, PageUrls, CopyOrNone, Page, Missing, Job, Idle, Nil, BodyForms
    <3>3. EntriesSound'
      BY <3>1, EntriesKept DEF CacheIInv
    <3>4. ChainWaits' /\ reserved' = Cardinality(Storing')
      BY <3>1 DEF CacheIInv, ChainWaits, Waiting, Storing, Wanted
    <3>5. \A q \in Fetches : RequestSound(q)'
      BY <3>1, OthersStaySound DEF CacheIInv
    <3> QED  BY <3>2, <3>3, <3>4, <3>5 DEF CacheIInv
  <2>2. CASE Lists
    BY <2>2, ListsKeeps
  <2>3. CASE Reserves
    BY <2>3, ReservesKeeps
  <2>4. CASE Deletes
    BY <2>4, DeletesKeeps
  <2>5. CASE Clears
    BY <2>5, ClearsKeeps
  <2>6. CASE SignIn
    BY <2>6, SignInKeeps
  <2>7. CASE SignOut
    BY <2>7, SignOutKeeps
  <2>8. ASSUME NEW k \in PageUrls, GrowsStale(k) PROVE CacheIInv'
    BY <2>8, GrowsStaleKeeps
  <2>9. ASSUME NEW r \in Fetches,
               \/ Ask(r) \/ Done(r) \/ Refetches(r) \/ Answered(r) \/ Heals(r) \/ Refreshed(r)
               \/ Bumps(r) \/ Puts(r) \/ PutFails(r) \/ Closes(r)
        PROVE  CacheIInv'
    BY <2>9, AskKeeps, EndsKeep, RefetchesKeeps, AnsweredKeeps, HealsKeeps, RefreshedKeeps,
       BumpsKeeps, PutsKeeps
  <2> QED  BY <2>1, <2>2, <2>3, <2>4, <2>5, <2>6, <2>7, <2>8, <2>9 DEF PagesNext
<1> QED  BY CacheInitial, <1>1, PTL DEF PagesSpec

\* #179, #134: the bytes reserved are those of the stores under way, a page of an account is
\* in the shared cache only if the account was signed out while it was on its way, and a
\* page's script that comes from the cache has been through the passes.
THEOREM CachesSound == PagesSpec => []CachesAreSound
<1>1. CacheIInv => CachesAreSound
  <2> SUFFICES ASSUME CacheIInv PROVE CachesAreSound
    OBVIOUS
  <2>1. PagesTyped /\ EntriesSound /\ ChainWaits /\ \A r \in Fetches : RequestSound(r)
    BY DEF CacheIInv
  <2>2. Len(chain) <= Cardinality(Fetches) + MaxLogouts
    <3>1. Cardinality(Waiting) <= Cardinality(Fetches) /\ Cardinality(Waiting) \in Nat
          /\ Cardinality(Fetches) \in Nat
      BY PagesAssumption, FS_Subset, FS_CardinalityType DEF Waiting
    <3>2. Len(chain) \in Nat /\ logouts \in 0..MaxLogouts
      BY <2>1 DEF PagesTyped
    <3> QED  BY <3>1, <3>2, <2>1, PagesAssumption DEF ChainWaits
  <2>3. PagesTypeOK
    BY <2>1, <2>2 DEF PagesTypeOK, PagesTyped, EntriesSound, RequestSound, CopyOrNone
  <2>4. ReservedIsInFlight
    BY DEF CacheIInv, ReservedIsInFlight, Storing, InFlight
  <2>5. AccountPagesStayOut
    BY <2>1 DEF EntriesSound, Excused, AccountPagesStayOut
  <2>6. ScriptsAreTransformed
    BY <2>1 DEF RequestSound, ScriptsAreTransformed
  <2> QED  BY <2>3, <2>4, <2>5, <2>6 DEF CachesAreSound
<1> QED  BY CacheInductive, <1>1, PTL
================================================================================
