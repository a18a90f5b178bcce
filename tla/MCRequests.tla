------------------------------ MODULE MCRequests ------------------------------
(***************************************************************************)
(* A proxied request, for TLC: how its destination is found for each shape *)
(* of URL, the chain of dispatches to it, what is made of the answer, the  *)
(* gates that the page puts on its loads, and the search for a missing     *)
(* asset.  A behaviour explores one of them, chosen initially.             *)
(***************************************************************************)
EXTENDS RequestEngine, TLC

CONSTANTS c1, c2, r1, r2, a, b

VARIABLES part,
          rq, stage, answer, moved, home, base, rule, decision, hook, form, stored, again,
          seen, left, piped, first, timer, told, failed, rows, transits,
          page, coming, plans, expects, optedIn, navigations,
          bases, scripts, requests, targets, call, loads, spent, tries

answerVars == <<rq, stage, answer, moved, home, base, rule, decision, hook, form, stored, again,
                seen, left, piped, first, timer, told, failed, rows, transits>>
gateVars == <<page, coming, plans, expects, optedIn, navigations>>
recoveryVars == <<bases, scripts, requests, targets, call, loads, spent, tries>>

TwoClients == {c1, c2}
TwoRequests == {r1, r2}
TwoSites == {a, b}
\* one navigation and one fetch at a time, over the forms of one kind of page; a
\* destination in the path at a query form and behind a handle or a route
Navigations == {r1}
PathShapes == {"query", "tail"}
Explored == [handles |-> {"handle", "tail", "bare", "prel"},
             queries |-> {"query", "bare", "foreign"},
             routes |-> {"route", "legacy", "marker", "tail", "bare"}]
Intake == DOMAIN Explored
Alike == Permutations(TwoClients) \cup Permutations(TwoSites)

\* three URLs of two origins; the request is for one of the first
ChainUrls == {"a1", "a2", "b1"}
ChainOrigin == [u \in ChainUrls |-> IF u = "b1" THEN "B" ELSE "A"]
Brought == {[method |-> "GET", body |-> "none"], [method |-> "POST", body |-> "buffer"],
            [method |-> "POST", body |-> "stream"], [method |-> "PUT", body |-> "stream"]}
\* credentials: always, never, or at the origin of an initiator, known or not
Creds == {[mode |-> "include", initiator |-> "none"], [mode |-> "omit", initiator |-> "none"],
          [mode |-> "same", initiator |-> "none"], [mode |-> "same", initiator |-> "B"]}
\* rules mint headers at both origins; at B they may include a cookie
Mintings == {[o \in {"A", "B"} |-> IF o = "B" THEN y ELSE "plain"] : y \in {"none", "cookie"}}
ChainInputs ==
  [req : Brought, barred : {{}, {"b1"}}, creds : Creds, minting : Mintings, rewrite : {"none"}]
  \cup [req : {[method |-> "GET", body |-> "none"]}, barred : {{"a2"}, {"a1"}},
        creds : {[mode |-> "include", initiator |-> "none"]}, minting : Mintings,
        rewrite : {"none", "b1", "a2"}]

Answer == INSTANCE ServeAnswer WITH resp <- answer, page <- seen

\* source lists: keywords, a scheme, hosts with and without scheme, port and path, and
\* one with a nonce
Host(s, h, wild, port, path) ==
  [k |-> "host", scheme |-> s, host |-> h, wild |-> wild, port |-> port, path |-> path]
Keyword(k) == [k |-> k, scheme |-> "none"]
SourceLists ==
  {{}, {Keyword("self")}, {Keyword("any")}, {[k |-> "scheme", scheme |-> "http"]},
   {Host("none", "x", FALSE, "none", "none")},
   {Host("none", "x", TRUE, "none", "none"), Keyword("ignored")},
   {Host("https", "x", FALSE, "443", "/d/")}, {Host("none", "x", FALSE, "80", "/d/f")},
   {Host("http", "s.x", FALSE, "*", "none")},
   {Keyword("nonce"), Host("none", "x", FALSE, "none", "none")}}
Policies ==
  {<<>>} \cup [{"script-src"} -> SourceLists] \cup [{"default-src"} -> SourceLists]
  \cup [{"script-src", "default-src"} -> SourceLists]
  \cup [{"default-src", "script-src-elem"} -> {{Keyword("self")}, {Keyword("any")}}]
GateLoads == [scheme : {"http", "https"}, host : {"x", "s.x", "y"}, port : {"", "8080"},
              path : {"/d/f", "/e"}]
\* elements: two hashes of which one fits, one that does not, an unknown algorithm, and
\* a malformed token
Hash(alg, fits) == [alg |-> alg, fits |-> fits]
Element(u, meta) == [url |-> u, meta |-> meta]
Marked == {Element("u1", {Hash(256, TRUE), Hash(512, FALSE)}), Element("u1", {Hash(256, FALSE)}),
           Element("u2", {Hash(512, FALSE), Hash(1, TRUE)})}
Malformed == {Element("u2", {Hash(0, TRUE), Hash(256, FALSE)}), Element("u1", {Hash(256, FALSE)})}
\* one client has documents of every policy, the other of two, with elements
GateDocuments ==
  [c \in {"d1", "d2"} |->
     IF c = "d1" THEN [policies |-> Policies, elements |-> {{}}]
     ELSE [policies |-> {<<>>, "script-src" :> {Keyword("self")}},
           elements |-> {{}, Marked, Malformed}]]

DocGates == INSTANCE DocumentGates WITH
  Clients <- {"d1", "d2"}, Documents <- GateDocuments, Loads <- GateLoads,
  ClientsCap <- 1, EntriesCap <- 1, MaxNavigations <- 2

Misses == {[url |-> "f", flat |-> TRUE, namespaced |-> FALSE],
           [url |-> "g1", flat |-> FALSE, namespaced |-> FALSE],
           [url |-> "g2", flat |-> FALSE, namespaced |-> FALSE],
           [url |-> "m", flat |-> FALSE, namespaced |-> TRUE]}
Recovery == INSTANCE AssetRecovery WITH
  Origins <- {"o1", "o2"}, Places <- {"p1", "p2"}, Namespaced <- {"p2"}, Targets <- Misses,
  Calls <- {"k1", "k2"}, PerOrigin <- 2, Total <- 1, RequestsPerCall <- 2,
  RequestsPerOrigin <- 3, TargetsPerOrigin <- 2, MaxLoads <- 2

RequestsInit ==
  /\ part \in Intake \cup {"chain", "answer", "gates", "recovery"}
  /\ Init /\ ChainInit /\ Answer!Init /\ DocGates!Init /\ Recovery!Init
  /\ part # "chain" => in = CHOOSE i \in ChainInputs : TRUE
  /\ part # "answer" =>
       rq = [dest |-> "image", get |-> TRUE, challenge |-> FALSE, integrity |-> "none"]
  /\ part # "gates" => optedIn

RequestsNext ==
  \/ /\ part \in Intake /\ Next
     /\ \A r \in Requests : req'[r].shape \in Explored[part]
     /\ UNCHANGED <<part, chainVars, answerVars, gateVars, recoveryVars>>
  \/ /\ part = "chain" /\ ChainNext
     /\ UNCHANGED <<part, vars, answerVars, gateVars, recoveryVars>>
  \/ /\ part = "answer" /\ Answer!Next
     /\ UNCHANGED <<part, vars, chainVars, gateVars, recoveryVars>>
  \/ /\ part = "gates" /\ DocGates!Next
     /\ UNCHANGED <<part, vars, chainVars, answerVars, recoveryVars>>
  \/ /\ part = "recovery" /\ Recovery!Next
     /\ UNCHANGED <<part, vars, chainVars, answerVars, gateVars>>

RequestsSpec ==
  RequestsInit /\ [][RequestsNext]_<<part, vars, chainVars, answerVars, gateVars, recoveryVars>>

\* ServeAnswer, #158, #414, #531, #110, #552: each body takes the treatment that its type
\* and its destination call for, on the first visit as on the second, bytes that fail
\* their integrity check reach nobody, and events and rows tell of what happened.
AnswersAreTreated == Answer!AnswerIsSound

\* DocumentGates, #527, #531: what the engine refuses for a document is what a browser
\* would, but for the differences named there, and never for another document's sake.
\* AssetRecovery: the search for missing assets keeps to its budgets, and a miss is tried
\* once, however calls interleave.
LoadsAreGated ==
  DocGates!LoadsAreGated /\ Recovery!RecoveryIsBounded /\ Recovery!MissTriedOnce
================================================================================
