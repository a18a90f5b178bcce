------------------------------ MODULE ExtPages ------------------------------
(***************************************************************************)
(* Pages of an extension (extensions/serve.ts, pagebridge.ts, control.ts): *)
(* how a navigation is granted, by a token or by a page that already is    *)
(* one; what such a page may call; and the port it opens to the            *)
(* background, a message channel bridged to a pair of ports in the worker. *)
(* Tokens and the registered clients live in the worker only.              *)
(*                                                                         *)
(* And one message of an extension to its background, or to another        *)
(* extension (messaging.ts), from a content script (bridge.ts) that waits  *)
(* for the answer with a deadline of its own.  A listener is silent, gives *)
(* the answer at once, promises one, keeps the channel open, or throws;    *)
(* the first answer wins.                                                  *)
(***************************************************************************)
EXTENDS Naturals, Sequences, FiniteSets, SequencesExt

CONSTANTS
  Exts, Paths,
  Pages,       \* the clients that navigations create
  Ported,      \* those among them that open a port
  MaxTokens,   \* bound: tokens minted
  MaxPosts,    \* bound: messages posted on a port, each way
  MaxKills,    \* bound: ends of the worker
  Messages, Listeners,
  Admitted,    \* the messages that stay within the extension, or whose sender the
               \* target's externally_connectable admits
  MaxClears    \* bound: idle terminations while messages wait

\* a client that is registered for no extension has the empty id
ASSUME NamesAssumption == "" \notin Exts

ASSUME PagesAssumption == MaxTokens \in Nat /\ MaxPosts \in Nat /\ MaxKills \in Nat

VARIABLES
  enabled,     \* the extensions that are
  minted,      \* the tokens there ever were, with where they lead and whether they are good
  tokens,      \* those the worker has
  page,        \* by page: whose it is and its path, or None, or Gone
  by,          \* by page: what granted it, a token or a page
  clients,     \* by page: the extension it is registered for, or ""
  end,         \* the page's end of its port: none, open, closed
  bridge,      \* the worker's end: none, waking, linked, refused, dead, lost
  toPage, toSw,  \* frames on their way
  background,  \* by extension: its background is running and listens
  posted, got, \* what the background posted on the port once it was linked; what arrived
  silent,      \* the background ended the port from within its onConnect listener
  kills,
  hearers,     \* the listeners registered, in their order
  sent,        \* by message: idle, waking, open, settled
  promised,    \* the listeners that owe an answer
  kept,        \* some listener keeps the channel open (returned true)
  answers,     \* the answers and failures given, in their order
  outcome,     \* the engine's promise
  sender,      \* by message: what the sender has: nothing, waiting, or the outcome
  clears

pageVars == <<enabled, minted, tokens, page, by, clients, end, bridge, toPage, toSw,
              background, posted, got, silent, kills>>
messageVars == <<hearers, sent, promised, kept, answers, outcome, sender, clears>>
portVars == <<end, bridge, toPage, toSw, posted, got, silent>>

None == [ext |-> "", path |-> "none"]
Gone == [ext |-> "", path |-> "gone"]
Live(p) == page[p] \notin {None, Gone}

PageInit ==
  /\ enabled = Exts /\ minted = <<>> /\ tokens = {}
  /\ page = [p \in Pages |-> None] /\ by = [p \in Pages |-> 0]
  /\ clients = [p \in Pages |-> ""] /\ end = [p \in Pages |-> "none"]
  /\ bridge = [p \in Pages |-> "none"] /\ toPage = [p \in Pages |-> <<>>]
  /\ toSw = [p \in Pages |-> <<>>] /\ background = [x \in Exts |-> FALSE]
  /\ posted = [p \in Pages |-> 0] /\ got = [p \in Pages |-> 0]
  /\ silent = [p \in Pages |-> FALSE] /\ kills = 0

-----------------------------------------------------------------------------
(* Navigations. *)

\* zl:openExtPage and runtime.openOptionsPage: extPageOpenUrl
Mint(x, path) ==
  /\ x \in enabled /\ Len(minted) < MaxTokens
  /\ minted' = Append(minted, [ext |-> x, path |-> path, fresh |-> TRUE])
  /\ tokens' = tokens \cup {Len(minted')}
  /\ UNCHANGED <<enabled, page, by, clients, background, portVars, kills>>

\* five minutes pass
Expire(k) ==
  /\ minted[k].fresh /\ minted' = [minted EXCEPT ![k].fresh = FALSE]
  /\ UNCHANGED <<enabled, tokens, page, by, clients, background, portVars, kills>>

\* Mutant: a token opens every path of its extension.
AnyPathGood(k, x, path) == k \in tokens /\ minted[k].fresh /\ minted[k].ext = x

Good(k, x, path) ==
  k \in tokens /\ minted[k].fresh /\ minted[k].ext = x /\ minted[k].path = path

\* checkPageToken drops the token that does not fit
Checked(k, x, path) == tokens \ {j \in {k} : ~Good(j, x, path)}

\* a page opens where a token or the page it comes from grants it; what is not granted
\* is left to the virtual sites.  The token is not used up.
Navigate(p, x, path, k, from) ==
  /\ page[p] = None /\ x \in enabled /\ k \in 0..Len(minted)
  /\ tokens' = Checked(k, x, path)
  /\ LET granted == Good(k, x, path) \/ (from \in Pages /\ clients[from] = x)
     IN /\ page' = [page EXCEPT ![p] = IF granted THEN [ext |-> x, path |-> path] ELSE @]
        /\ clients' = [clients EXCEPT ![p] = IF granted THEN x ELSE @]
        /\ by' = [by EXCEPT ![p] = IF granted /\ Good(k, x, path) THEN k ELSE 0]
        /\ granted \/ tokens' # tokens
  /\ UNCHANGED <<enabled, minted, background, portVars, kills>>

\* its frames on the way to the worker still arrive; the channel tells nobody
Leave(p) ==
  /\ Live(p) /\ page' = [page EXCEPT ![p] = Gone]
  /\ end' = [end EXCEPT ![p] = IF @ = "open" THEN "closed" ELSE @]
  /\ UNCHANGED <<enabled, minted, tokens, by, clients, bridge, toPage, toSw, background,
                 posted, got, silent, kills>>

SetEnabled(x) ==
  /\ enabled' = IF x \in enabled THEN enabled \ {x} ELSE enabled \cup {x}
  /\ UNCHANGED <<minted, tokens, page, by, clients, background, portVars, kills>>

-----------------------------------------------------------------------------
(* runtime.connect from a page. *)

Sends(p, f) == toSw' = [toSw EXCEPT ![p] = Append(@, f)]
Tells(p, f) == toPage' = [toPage EXCEPT ![p] = Append(@, f)]

\* zl:extPage, port: connect; a page that is not registered, or whose extension is
\* disabled, is answered on the channel that was to be its port
Connect(p) ==
  /\ p \in Ported /\ Live(p) /\ end[p] = "none" /\ end' = [end EXCEPT ![p] = "open"]
  /\ IF clients[p] \in enabled
       THEN bridge' = [bridge EXCEPT ![p] = "waking"] /\ toPage' = toPage
       ELSE bridge' = [bridge EXCEPT ![p] = "refused"] /\ Tells(p, "refused")
  /\ UNCHANGED <<enabled, minted, tokens, page, by, clients, toSw, background, posted, got,
                 silent, kills>>

\* the background is awake and its onConnect listeners have run.  What they post or end
\* while they run finds nobody: the bridge listens only when connect has returned.
Link(p) ==
  /\ bridge[p] = "waking" /\ background' = [background EXCEPT ![clients[p]] = TRUE]
  /\ bridge' = [bridge EXCEPT ![p] = "linked"]
  /\ Tells(p, "ok")
  /\ silent' \in {silent, [silent EXCEPT ![p] = TRUE]}
  /\ UNCHANGED <<enabled, minted, tokens, page, by, clients, end, toSw, posted, got, kills>>

\* the wake fails
WakeFails(p) ==
  /\ bridge[p] = "waking" /\ bridge' = [bridge EXCEPT ![p] = "dead"] /\ Tells(p, "err")
  /\ UNCHANGED <<enabled, minted, tokens, page, by, clients, end, toSw, background, posted,
                 got, silent, kills>>

PagePosts(p) ==
  /\ end[p] = "open" /\ Len(toSw[p]) < MaxPosts /\ Sends(p, "p")
  /\ UNCHANGED <<enabled, minted, tokens, page, by, clients, end, bridge, toPage,
                 background, posted, got, silent, kills>>

PageEnds(p) ==
  /\ end[p] = "open" /\ end' = [end EXCEPT ![p] = "closed"] /\ Sends(p, "d")
  /\ UNCHANGED <<enabled, minted, tokens, page, by, clients, bridge, toPage, background,
                 posted, got, silent, kills>>

Posts(p) ==
  /\ bridge[p] = "linked" /\ ~silent[p] /\ posted[p] < MaxPosts
  /\ posted' = [posted EXCEPT ![p] = @ + 1] /\ Tells(p, "m")
  /\ UNCHANGED <<enabled, minted, tokens, page, by, clients, end, bridge, toSw,
                 background, got, silent, kills>>

\* the background disconnects: the page is told, then the channel closes
Disconnects(p) ==
  /\ bridge[p] = "linked" /\ ~silent[p]
  /\ bridge' = [bridge EXCEPT ![p] = "dead"] /\ Tells(p, "d")
  /\ UNCHANGED <<enabled, minted, tokens, page, by, clients, end, toSw, background, posted,
                 got, silent, kills>>

\* a frame of the page: what it posts on a dead port is dropped, what comes before the
\* link waits in the channel
Hears(p) ==
  /\ toSw[p] # <<>> /\ bridge[p] \in {"linked", "dead"}
  /\ toSw' = [toSw EXCEPT ![p] = Tail(@)]
  /\ IF bridge[p] = "linked" /\ Head(toSw[p]) = "d"
       THEN /\ bridge' = [bridge EXCEPT ![p] = "dead"]
            /\ IF silent[p] THEN toPage' = toPage ELSE Tells(p, "d")
       ELSE UNCHANGED <<bridge, toPage>>
  /\ UNCHANGED <<enabled, minted, tokens, page, by, clients, end, background, posted, got,
                 silent, kills>>

\* a frame of the worker; a refusal is no frame of a port, so the page goes on
PageHears(p) ==
  /\ toPage[p] # <<>> /\ toPage' = [toPage EXCEPT ![p] = Tail(@)]
  /\ LET f == Head(toPage[p]) IN
       /\ end' = [end EXCEPT ![p] = IF @ = "open" /\ f \in {"d", "err"} THEN "closed" ELSE @]
       /\ got' = [got EXCEPT ![p] = IF f = "m" /\ end[p] = "open" THEN @ + 1 ELSE @]
  /\ UNCHANGED <<enabled, minted, tokens, page, by, clients, bridge, toSw, background,
                 posted, silent, kills>>

\* idleTerminate drops the listeners of the background and leaves its ports
IdleTerminate(x) ==
  /\ background[x] /\ background' = [background EXCEPT ![x] = FALSE]
  /\ UNCHANGED <<enabled, minted, tokens, page, by, clients, portVars, kills>>

\* the worker ends; the pages stay
Kill ==
  /\ kills < MaxKills /\ kills' = kills + 1
  /\ tokens' = {} /\ clients' = [p \in Pages |-> ""] /\ background' = [x \in Exts |-> FALSE]
  /\ bridge' = [p \in Pages |-> IF bridge[p] = "none" THEN "none" ELSE "lost"]
  /\ toSw' = [p \in Pages |-> <<>>]
  /\ UNCHANGED <<enabled, minted, page, by, end, toPage, posted, got, silent>>

PageNext ==
  \/ \E x \in Exts : SetEnabled(x) \/ IdleTerminate(x) \/ \E path \in Paths : Mint(x, path)
  \/ \E k \in 1..Len(minted) : Expire(k)
  \/ \E p \in Pages, x \in Exts, path \in Paths, k \in 0..MaxTokens, from \in Pages \cup {""} :
       Navigate(p, x, path, k, from)
  \/ \E p \in Pages :
       Leave(p) \/ Connect(p) \/ Link(p) \/ WakeFails(p) \/ PagePosts(p) \/ PageEnds(p)
         \/ Posts(p) \/ Disconnects(p) \/ Hears(p) \/ PageHears(p)
  \/ Kill

PageSpec == PageInit /\ [][PageNext]_pageVars

-----------------------------------------------------------------------------
(* Messages. *)

Kinds == {"silent", "value", "promise", "open", "throw"}
NoAnswer == "none"
Nobody == "no receiving end"
Late == "did not respond"

MessageInit ==
  /\ hearers = <<>> /\ clears = 0
  /\ sent = [m \in Messages |-> "idle"] /\ promised = [m \in Messages |-> {}]
  /\ kept = [m \in Messages |-> FALSE] /\ answers = [m \in Messages |-> <<>>]
  /\ outcome = [m \in Messages |-> NoAnswer] /\ sender = [m \in Messages |-> NoAnswer]

Register(l) ==
  /\ l \notin ToSet(hearers) /\ hearers' = Append(hearers, l)
  /\ UNCHANGED <<sent, promised, kept, answers, outcome, sender, clears>>

Unregister(l) ==
  /\ l \in ToSet(hearers) /\ hearers' = SelectSeq(hearers, LAMBDA k : k # l)
  /\ UNCHANGED <<sent, promised, kept, answers, outcome, sender, clears>>

\* the background is terminated: its listeners go, their promises stay
Forget ==
  /\ clears < MaxClears /\ clears' = clears + 1 /\ hearers # <<>> /\ hearers' = <<>>
  /\ UNCHANGED <<sent, promised, kept, answers, outcome, sender>>

\* the content script posts the message and starts its timer; the worker wakes the
\* background first
Send(m) ==
  /\ sent[m] = "idle" /\ sent' = [sent EXCEPT ![m] = "waking"]
  /\ sender' = [sender EXCEPT ![m] = "waiting"]
  /\ UNCHANGED <<hearers, promised, kept, answers, outcome, clears>>

Refuse(m) ==
  /\ sent[m] = "waking" /\ (m \notin Admitted \/ hearers = <<>>)
  /\ sent' = [sent EXCEPT ![m] = "settled"] /\ outcome' = [outcome EXCEPT ![m] = Nobody]
  /\ UNCHANGED <<hearers, promised, kept, answers, sender, clears>>

\* the listeners that are called: those up to the first that throws
Called(does) ==
  LET throws == {i \in DOMAIN hearers : does[hearers[i]] = "throw"}
  IN {hearers[i] : i \in {j \in DOMAIN hearers : \A t \in throws : j <= t}}

Give(l) == "answer of " \o l

\* what the loop over the listeners has answered when it is over; a listener that throws
\* ends the loop and fails the send, unless somebody has answered
Said(does) ==
  FoldLeft(LAMBDA acc, l : IF l \in Called(does) /\ does[l] \in {"value", "throw"}
                           THEN Append(acc, Give(l)) ELSE acc, <<>>, hearers)

\* the outcome after the loop: the first answer; undefined when all are silent
Settles(does) ==
  IF Said(does) # <<>> THEN Head(Said(does))
  ELSE IF \E l \in Called(does) : does[l] \in {"promise", "open"} THEN NoAnswer ELSE "undefined"

\* deliver
Deliver(m) ==
  /\ sent[m] = "waking" /\ m \in Admitted /\ hearers # <<>>
  /\ \E does \in [ToSet(hearers) -> Kinds] :
       /\ promised' = [promised EXCEPT ![m] = {l \in Called(does) : does[l] \in {"promise", "open"}}]
       /\ kept' = [kept EXCEPT ![m] = \E l \in Called(does) : does[l] = "open"]
       /\ answers' = [answers EXCEPT ![m] = Said(does)]
       /\ outcome' = [outcome EXCEPT ![m] = Settles(does)]
       /\ sent' = [sent EXCEPT ![m] = IF Settles(does) = NoAnswer THEN "open" ELSE "settled"]
  /\ UNCHANGED <<hearers, sender, clears>>

\* a promise is kept or broken, or sendResponse is called
Answer(m, l) ==
  /\ l \in promised[m] /\ promised' = [promised EXCEPT ![m] = @ \ {l}]
  /\ answers' = [answers EXCEPT ![m] = Append(@, Give(l))]
  /\ sent' = [sent EXCEPT ![m] = "settled"]
  /\ outcome' = [outcome EXCEPT ![m] = IF sent[m] = "open" THEN Give(l) ELSE @]
  /\ UNCHANGED <<hearers, kept, sender, clears>>

\* thirty seconds after the delivery
Timeout(m) ==
  /\ sent[m] = "open" /\ sent' = [sent EXCEPT ![m] = "settled"]
  /\ outcome' = [outcome EXCEPT ![m] = Late]
  /\ UNCHANGED <<hearers, promised, kept, answers, sender, clears>>

\* the answer is posted to the sender, which takes it unless its own timer has fired
Arrives(m) ==
  /\ sent[m] = "settled" /\ sender[m] = "waiting" /\ sender' = [sender EXCEPT ![m] = outcome[m]]
  /\ UNCHANGED <<hearers, sent, promised, kept, answers, outcome, clears>>

PageTimeout(m) ==
  /\ sender[m] = "waiting" /\ sender' = [sender EXCEPT ![m] = "timed out"]
  /\ UNCHANGED <<hearers, sent, promised, kept, answers, outcome, clears>>

MessageNext ==
  \/ \E l \in Listeners : Register(l) \/ Unregister(l)
  \/ Forget
  \/ \E m \in Messages :
       Send(m) \/ Refuse(m) \/ Deliver(m) \/ Timeout(m) \/ Arrives(m) \/ PageTimeout(m)
         \/ \E l \in Listeners : Answer(m, l)

MessageSpec == MessageInit /\ [][MessageNext]_messageVars

-----------------------------------------------------------------------------
Tokens == [ext : Exts, path : Paths, fresh : BOOLEAN]
PageTypeOK ==
  /\ enabled \subseteq Exts /\ minted \in Seq(Tokens) /\ Len(minted) <= MaxTokens
  /\ tokens \subseteq 1..Len(minted) /\ kills \in 0..MaxKills
  /\ page \in [Pages -> {None, Gone} \cup [ext : Exts, path : Paths]]
  /\ clients \in [Pages -> Exts \cup {""}] /\ by \in [Pages -> 0..Len(minted)]
  /\ end \in [Pages -> {"none", "open", "closed"}]
  /\ bridge \in [Pages -> {"none", "waking", "linked", "refused", "dead", "lost"}]
  /\ toPage \in [Pages -> Seq({"ok", "refused", "err", "m", "d"})]
  /\ toSw \in [Pages -> Seq({"p", "d"})]
  /\ background \in [Exts -> BOOLEAN] /\ silent \in [Pages -> BOOLEAN]
  /\ posted \in [Pages -> 0..MaxPosts] /\ got \in [Pages -> 0..MaxPosts]

MessageTypeOK ==
  /\ ToSet(hearers) \subseteq Listeners /\ IsInjective(hearers) /\ clears \in 0..MaxClears
  /\ \A m \in Messages :
       /\ sent[m] \in {"idle", "waking", "open", "settled"} /\ promised[m] \subseteq Listeners
       /\ kept[m] \in BOOLEAN /\ Len(answers[m]) <= Cardinality(Listeners)

\* #40: a page that came by a token is the very page the token was minted for, and a
\* registered client is a page of that extension.
TokensOpenTheirPage ==
  \A p \in Pages :
    /\ Live(p) /\ by[p] # 0 => page[p] = [ext |-> minted[by[p]].ext, path |-> minted[by[p]].path]
    /\ clients[p] # "" /\ Live(p) => page[p].ext = clients[p]

\* #560: when no frame is on its way, both ends of a port are open or neither, unless the
\* page went away, the worker ended, the connection was refused, or the background ended
\* the port while it was being connected.
PortEndsAgree ==
  \A p \in Pages :
    Live(p) /\ toPage[p] = <<>> /\ toSw[p] = <<>> /\ ~silent[p]
        /\ bridge[p] \in {"linked", "dead"} =>
      ((end[p] = "open") <=> (bridge[p] = "linked"))

\* What the background posts reaches the page, as long as its end is open.
Posted(frames) == Cardinality({i \in 1..Len(frames) : frames[i] = "m"})
PostsArrive == \A p \in Pages : end[p] = "open" => posted[p] = got[p] + Posted(toPage[p])

\* #40, #560: a token opens the page it was minted for, and the two ends of a page's port
\* agree, on what was posted too.
PagesAndPortsAgree == PageTypeOK /\ TokensOpenTheirPage /\ PortEndsAgree /\ PostsArrive

\* The first answer wins: what the sender has is the first answer anybody gave, or that
\* nobody gave one in time; and silence is taken for an answer only when no listener
\* ever promised one.
FirstAnswerWins ==
  \A m \in Messages :
    /\ sender[m] \notin {NoAnswer, "waiting", "timed out", Nobody, Late, "undefined"} =>
         answers[m] # <<>> /\ sender[m] = Head(answers[m])
    /\ outcome[m] = "undefined" => answers[m] = <<>> /\ promised[m] = {} /\ ~kept[m]
    /\ sender[m] \in {Nobody, Late} => outcome[m] = sender[m]
=============================================================================
