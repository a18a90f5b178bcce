----------------------------- MODULE DocumentGates -----------------------------
(***************************************************************************)
(* The gates that a document puts on its own loads and that the engine     *)
(* enforces for it: the source lists of its CSP (csp-enforce.ts) and the   *)
(* integrity of its scripts and stylesheets (sri.ts), each with a registry *)
(* by client that lives in memory.                                         *)
(*                                                                         *)
(* A URL is a record; a source list is a set of tokens; a hash either fits *)
(* the bytes of the load or does not.                                      *)
(***************************************************************************)
EXTENDS Naturals, Sequences, FiniteSets, SequencesExt

CONSTANTS
  Clients,
  Documents,    \* by client: the policies its documents may carry, and the sets of
                \* (URL, integrity) pairs they may hold
  Loads,        \* the URLs of loads
  ClientsCap,   \* CLIENTS_CAP and SRI_CLIENTS_CAP
  EntriesCap,   \* SRI_ENTRIES_CAP
  MaxNavigations

None == "none"

(* ---- source lists ---- *)

Default(scheme) == IF scheme = "http" THEN "80" ELSE "443"
Subdomains == {<<"s.x", "x">>}
Under(path, prefix) == prefix = "/d/" /\ path = "/d/f"

\* parseToken: a nonce, a hash or 'strict-dynamic' cannot be judged by a URL; keywords
\* about inline code are not seen here.
Unverifiable(list) == \E t \in list : t.k = "nonce"
Sources(list) == {t \in list : t.k # "ignored"}

Directives == {"script-src", "default-src"}   \* two of those that the engine reads

\* planEngineCsp: a list it cannot judge is given up, a list that is absent or that no
\* code here knows leaves no trace.
Plan(policy, scheme, host) ==
  LET seen == DOMAIN policy \cap Directives
      given == {n \in seen : ~Unverifiable(policy[n])}
  IN [scheme |-> scheme, host |-> host,
      unsupported |-> seen \ given,
      lists |-> [n \in given |-> Sources(policy[n])]]

\* sourceMatches.  The URL parser has dropped default ports.
Matches(t, u, plan) ==
  CASE t.k = "self" -> u.scheme = plan.scheme /\ u.host = plan.host /\ u.port = ""
    [] t.k = "any" -> TRUE
    [] t.k = "scheme" -> u.scheme = t.scheme
    [] t.k = "host" ->
         LET scheme == IF t.scheme = None THEN plan.scheme ELSE t.scheme
             port == IF t.port = Default(scheme) THEN "" ELSE t.port
         IN /\ u.scheme = scheme
            /\ IF t.wild THEN <<u.host, t.host>> \in Subdomains ELSE u.host = t.host
            /\ port = "*" \/ u.port = IF port = None THEN "" ELSE port
            /\ t.path \in {None, u.path} \/ Under(u.path, t.path)

\* cspGate for a script: its own list, else the fallback, else nothing is known.
Gate(plan, u) ==
  LET list == IF "script-src" \in DOMAIN plan.lists THEN "script-src" ELSE "default-src"
  IN list \in DOMAIN plan.lists /\ ~\E t \in plan.lists[list] : Matches(t, u, plan)

(* ---- integrity metadata ---- *)

\* parseSri and sriVerifyBytes over a set of candidates: 1 is an algorithm that is not
\* known, 0 a token that is no hash.
Supported(meta) == {h \in meta : h.alg \in {256, 512}}
Verdict(meta) ==
  IF \E h \in meta : h.alg = 0 THEN "skipped"
  ELSE IF Supported(meta) = {} THEN "skipped"
  ELSE IF \E h \in Supported(meta) : h.fits THEN "verified"
  ELSE "blocked"

(* ---- registries ---- *)

VARIABLES
  page,     \* by client: the document it shows
  coming,   \* the navigation under way there, or None
  plans,    \* CSPREG.clients in insertion order: pairs of a client and a plan
  expects,  \* SRI.clients in insertion order: pairs of a client and its entries
  optedIn,  \* the experimental setting cspTranslation
  navigations

vars == <<page, coming, plans, expects, optedIn, navigations>>

\* A document: its policy, the site it came from and its elements.
Blank == [policy |-> <<>>, scheme |-> "https", host |-> "x", elements |-> {}]

Init ==
  /\ page = [c \in Clients |-> Blank] /\ coming = [c \in Clients |-> None]
  /\ plans = <<>> /\ expects = <<>> /\ optedIn \in BOOLEAN /\ navigations = 0

Of(reg, c) == {i \in DOMAIN reg : reg[i].client = c}
ClearedNothing(reg, c) == reg
Cleared(reg, c) == SelectSeq(reg, LAMBDA x : x.client # c)
\* An entry is replaced where it stands; a new one may push out the oldest.
Put(reg, entry) ==
  IF Of(reg, entry.client) # {}
  THEN [i \in DOMAIN reg |-> IF reg[i].client = entry.client THEN entry ELSE reg[i]]
  ELSE Append(IF Len(reg) >= ClientsCap THEN Tail(reg) ELSE reg, entry)

\* A navigation clears both registries before anything is asked.
Navigate(c) ==
  /\ navigations < MaxNavigations /\ coming[c] = None
  /\ coming' = [coming EXCEPT ![c] = "asked"]
  /\ plans' = Cleared(plans, c) /\ expects' = Cleared(expects, c)
  /\ navigations' = navigations + 1 /\ UNCHANGED <<page, optedIn>>

\* Its answer has a policy, which a document from the page cache has lost; a redirect
\* clears once more.  The document is shown and its text flows.
Commit(c) ==
  /\ coming[c] = "asked" /\ coming' = [coming EXCEPT ![c] = "text"]
  /\ \E p \in Documents[c].policies, s \in {"http", "https"},
        elements \in Documents[c].elements, live \in BOOLEAN :
       /\ page' = [page EXCEPT ![c] =
            [policy |-> p, scheme |-> s, host |-> "x", elements |-> elements]]
       /\ plans' = IF optedIn /\ live /\ DOMAIN p # {}
                   THEN Put(plans, [client |-> c, plan |-> Plan(p, s, "x")]) ELSE plans
  /\ UNCHANGED <<expects, optedIn, navigations>>

\* sriNote: one entry by URL, the oldest goes when there are too many.
Noted(entries, e) ==
  IF \E i \in DOMAIN entries : entries[i].url = e.url
  THEN [i \in DOMAIN entries |-> IF entries[i].url = e.url THEN e ELSE entries[i]]
  ELSE Append(IF Len(entries) >= EntriesCap THEN Tail(entries) ELSE entries, e)
EntriesOf(c) == IF Of(expects, c) = {} THEN <<>>
                ELSE expects[CHOOSE i \in Of(expects, c) : TRUE].entries

\* sriScanner: an element is noted before the text that holds it reaches the page, in
\* any order here; text past SRI_SCAN_TEXT_MAX is not read.
Note(c) ==
  /\ coming[c] = "text"
  /\ \E e \in page[c].elements :
       /\ \A i \in DOMAIN EntriesOf(c) : EntriesOf(c)[i] # e
       /\ expects' = Put(expects, [client |-> c, entries |-> Noted(EntriesOf(c), e)])
  /\ UNCHANGED <<page, coming, plans, optedIn, navigations>>

\* The rest of the text is past the limit, or the document has ended.
TextEnds(c) ==
  /\ coming[c] = "text" /\ coming' = [coming EXCEPT ![c] = None]
  /\ UNCHANGED <<page, plans, expects, optedIn, navigations>>

\* The navigation ends without a document, as a download or an error of the network.
Abandon(c) ==
  /\ coming[c] = "asked" /\ coming' = [coming EXCEPT ![c] = None]
  /\ UNCHANGED <<page, plans, expects, optedIn, navigations>>

Toggle == optedIn' = ~optedIn /\ UNCHANGED <<page, coming, plans, expects, navigations>>

\* A new worker knows nothing of the clients that are still open.
Restart ==
  /\ plans # <<>> \/ expects # <<>>
  /\ plans' = <<>> /\ expects' = <<>> /\ UNCHANGED <<page, coming, optedIn, navigations>>

Next ==
  \/ \E c \in Clients : Navigate(c) \/ Commit(c) \/ Note(c) \/ TextEnds(c) \/ Abandon(c)
  \/ Toggle \/ Restart

Spec == Init /\ [][Next]_vars

--------------------------------------------------------------------------------
(* What a browser does with the same document on its own. *)

\* CSP3: a list of http also admits https; the port follows the scheme.
Upgrades(a, b) == a = b \/ (a = "http" /\ b = "https")
BrowserMatches(t, u, s, h) ==
  CASE t.k = "self" -> u.host = h /\ Upgrades(s, u.scheme) /\ u.port = ""
    [] t.k = "any" -> TRUE
    [] t.k = "scheme" -> Upgrades(t.scheme, u.scheme)
    [] t.k = "host" ->
         /\ Upgrades(IF t.scheme = None THEN s ELSE t.scheme, u.scheme)
         /\ IF t.wild THEN <<u.host, t.host>> \in Subdomains ELSE u.host = t.host
         /\ \/ t.port = "*" \/ u.port = t.port
            \/ u.port = "" /\ t.port \in {None, Default(u.scheme)}
         /\ t.path \in {None, u.path} \/ Under(u.path, t.path)

Effective(policy) ==
  IF "script-src-elem" \in DOMAIN policy THEN "script-src-elem"
  ELSE IF "script-src" \in DOMAIN policy THEN "script-src" ELSE "default-src"
\* A nonce on the element may always admit it.
BrowserBlocks(policy, s, h, u) ==
  LET d == Effective(policy)
  IN /\ d \in DOMAIN policy /\ ~Unverifiable(policy[d])
     /\ ~\E t \in Sources(policy[d]) : BrowserMatches(t, u, s, h)

Strongest(meta) == {h \in Supported(meta) : \A g \in Supported(meta) : g.alg <= h.alg}
BrowserRefuses(meta) == Strongest(meta) # {} /\ \A h \in Strongest(meta) : ~h.fits

\* #527: no load is blocked that a browser would admit, but for three differences: a
\* list that was given up falls back to default-src, script-src-elem is not known, and
\* http does not stand for https.
NeverFalselyBlocks ==
  \A c \in Clients : \A i \in Of(plans, c) : \A u \in Loads :
    LET d == page[c]
    IN Gate(plans[i].plan, u) =>
         \/ BrowserBlocks(d.policy, d.scheme, d.host, u)
         \/ "script-src" \in plans[i].plan.unsupported
         \/ "script-src-elem" \in DOMAIN d.policy
         \/ u.scheme = "https"
              /\ \E t \in UNION {plans[i].plan.lists[n] : n \in DOMAIN plans[i].plan.lists} :
                   \/ t.k \in {"self", "host"} /\ d.scheme = "http"
                   \/ t.k \in {"scheme", "host"} /\ t.scheme = "http"

\* What is enforced is enforced as a browser would.
BlocksAlike ==
  \A c \in Clients : \A i \in Of(plans, c) : \A u \in Loads :
    LET d == page[c]
    IN BrowserBlocks(d.policy, d.scheme, d.host, u) /\ Effective(d.policy) # "script-src-elem"
         => Gate(plans[i].plan, u)

\* No document is gated by the policy or the metadata of another one, also while a
\* navigation of its client is under way.
GatesAreItsOwn ==
  \A c \in Clients :
    /\ \A i \in Of(plans, c) :
         plans[i].plan = Plan(page[c].policy, page[c].scheme, page[c].host)
    /\ \A i \in DOMAIN EntriesOf(c) : EntriesOf(c)[i] \in page[c].elements

\* #531: bytes are refused only if an element of the document that names them would
\* have them refused; and a client that is full forgets its oldest entries.
RefusalsAreDue ==
  /\ \A c \in Clients : \A i \in DOMAIN EntriesOf(c) :
       Verdict(EntriesOf(c)[i].meta) = "blocked" =>
         \E e \in page[c].elements : e.url = EntriesOf(c)[i].url /\ BrowserRefuses(e.meta)
  /\ \A c \in Clients : Len(EntriesOf(c)) <= EntriesCap
  /\ Len(plans) <= ClientsCap /\ Len(expects) <= ClientsCap

LoadsAreGated == NeverFalselyBlocks /\ BlocksAlike /\ GatesAreItsOwn /\ RefusalsAreDue

================================================================================
