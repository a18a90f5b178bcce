------------------------------ MODULE ExtTabs ------------------------------
(***************************************************************************)
(* The tabs bridge (extensions/tabs.ts).  The host owns the tabs; what an  *)
(* extension asks for is posted to it, and is settled by what a later sync *)
(* of the host shows, by the tab's end, or by a deadline.  Messages to     *)
(* content scripts are addressed by page, so that every tab at that page   *)
(* may answer.  The registry dies with the worker; the host does not.      *)
(***************************************************************************)
EXTENDS Naturals, Sequences, FiniteSets

CONSTANTS
  Tabs, Pages, Exts,
  MaxOps,      \* bound: calls of extensions
  MaxTurns,    \* bound: what the user does with the tabs
  MaxSyncs,    \* bound: syncs on their way
  MaxKills     \* bound: ends of the worker

VARIABLES
  known,       \* tabs: the registry
  host,        \* the host's own tabs
  opener,      \* by tab: the operation the host opened it for, 0 if not opened yet, or
               \* User; the host uses the id of a tab once
  syncs,       \* zl:tabs messages on their way
  ops,         \* the calls made so far
  nonceSeq, life,
  posted,      \* zl:tabsOp messages the host has not handled
  asked,       \* messages that pages may answer
  turns

vars == <<known, host, opener, syncs, ops, nonceSeq, life, posted, asked, turns>>

User == MaxOps + 1
Gone == [page |-> "gone", nonce |-> 0]
Tab(p, n) == [page |-> p, nonce |-> n]
Op(kind, ts, page, ext, nonce) ==
  [kind |-> kind, tabs |-> ts, page |-> page, ext |-> ext, nonce |-> nonce, life |-> life,
   state |-> "pending", got |-> {}, late |-> FALSE]

Init ==
  /\ known = [t \in Tabs |-> Gone] /\ host = [t \in Tabs |-> Gone]
  /\ opener = [t \in Tabs |-> 0] /\ syncs = <<>> /\ ops = <<>> /\ nonceSeq = 0 /\ life = 0
  /\ posted = {} /\ asked = {} /\ turns = 0

Open(m) == {t \in Tabs : m[t] # Gone}
Pending(i) == ops[i].state = "pending"

-----------------------------------------------------------------------------
(* Calls of extensions. *)

Call(op) == Len(ops) < MaxOps /\ ops' = Append(ops, op)

Create(p) ==
  /\ Call(Op("create", {}, p, "", nonceSeq + 1)) /\ nonceSeq' = nonceSeq + 1
  /\ posted' = posted \cup {Len(ops')}
  /\ UNCHANGED <<known, host, opener, syncs, life, asked, turns>>

\* an update or a removal of known tabs; any other is rejected at once
Change(kind, ts, p) ==
  /\ ts # {} /\ ts \subseteq Open(known)
  /\ Call(Op(kind, ts, p, "", 0)) /\ posted' = posted \cup {Len(ops')}
  /\ UNCHANGED <<known, host, opener, syncs, nonceSeq, life, asked, turns>>

\* addressed to the page the registry has for the tab
SendMessage(x, t) ==
  /\ t \in Open(known) /\ Call(Op("message", {t}, known[t].page, x, 0))
  /\ asked' = asked \cup {Len(ops')}
  /\ UNCHANGED <<known, host, opener, syncs, nonceSeq, life, posted, turns>>

-----------------------------------------------------------------------------
(* The host and its pages. *)

\* what the host was asked for: done, or ignored
HostDoes(i) ==
  /\ i \in posted /\ posted' = posted \ {i}
  /\ \/ UNCHANGED <<host, opener>>
     \/ /\ ops[i].kind = "create"
        /\ \E t \in {u \in Tabs : opener[u] = 0} :
             /\ host' = [host EXCEPT ![t] = Tab(ops[i].page, ops[i].nonce)]
             /\ opener' = [opener EXCEPT ![t] = i]
     \/ /\ ops[i].kind = "update" /\ ops[i].tabs \subseteq Open(host)
        /\ host' = [t \in Tabs |-> IF t \in ops[i].tabs THEN Tab(ops[i].page, host[t].nonce)
                                                        ELSE host[t]]
        /\ opener' = opener
     \/ /\ ops[i].kind = "remove"
        /\ host' = [t \in Tabs |-> IF t \in ops[i].tabs THEN Gone ELSE host[t]]
        /\ opener' = opener
  /\ UNCHANGED <<known, syncs, ops, nonceSeq, life, asked, turns>>

\* the user opens, navigates or closes a tab
UserTurns(t, r) ==
  /\ turns < MaxTurns /\ turns' = turns + 1 /\ host[t] # r
  /\ IF r = Gone THEN TRUE
     ELSE IF host[t] = Gone THEN opener[t] = 0 /\ r.nonce = 0 ELSE r.nonce = host[t].nonce
  /\ host' = [host EXCEPT ![t] = r]
  /\ opener' = [opener EXCEPT ![t] = IF @ = 0 THEN User ELSE @]
  /\ UNCHANGED <<known, syncs, ops, nonceSeq, life, posted, asked>>

HostSyncs ==
  /\ Len(syncs) < MaxSyncs /\ syncs' = Append(syncs, host)
  /\ UNCHANGED <<known, host, opener, ops, nonceSeq, life, posted, asked, turns>>

\* resolveTabMessage: a content script at the page answers, in the name of an extension
Replies(i, x) ==
  /\ i \in asked /\ Pending(i) /\ \E t \in Open(host) : host[t].page = ops[i].page
  /\ x = ops[i].ext
  /\ ops' = [ops EXCEPT ![i].state = "resolved", ![i].got = {x}]
  /\ UNCHANGED <<known, host, opener, syncs, nonceSeq, life, posted, asked, turns>>

\* rejectTabMessage, when no listener is registered, or the deadline of any operation
Rejects(i) ==
  /\ Pending(i) /\ ops' = [ops EXCEPT ![i].state = "rejected"]
  /\ UNCHANGED <<known, host, opener, syncs, nonceSeq, life, posted, asked, turns>>

-----------------------------------------------------------------------------
(* syncFromUi. *)

\* Mutant: a pending create takes any tab that is new.
TakesNew(op, next) == {t \in Open(next) : op.kind = "create" /\ known[t] = Gone}

\* the tab that carries the nonce of a pending create
Created(op, next) == {t \in Open(next) : op.kind = "create" /\ next[t].nonce = op.nonce}

\* what one sync makes of a pending operation; closed tabs are seen first
Settled(op, next, closed) ==
  CASE op.kind \in {"update", "message"} /\ op.tabs \subseteq closed ->
         [op EXCEPT !.state = "rejected"]
    [] op.kind = "remove" /\ op.tabs \subseteq closed -> [op EXCEPT !.state = "resolved", !.tabs = {}]
    [] op.kind = "remove" -> [op EXCEPT !.tabs = @ \ closed]
    [] op.kind = "create" /\ Created(op, next) # {} ->
         [op EXCEPT !.state = "resolved", !.got = Created(op, next)]
    [] op.kind = "update" /\ \A t \in op.tabs : next[t].page = op.page ->
         [op EXCEPT !.state = "resolved"]
    [] OTHER -> op

\* a listener of a later event still finds the closed tab, for the map is replaced last
FromListener(closed) ==
  {<<>>} \cup IF Len(ops) = MaxOps THEN {}
              ELSE {<<[Op("update", {t}, p, "", 0) EXCEPT !.late = TRUE]>> : t \in closed, p \in Pages}

Sync ==
  /\ syncs # <<>> /\ syncs' = Tail(syncs)
  /\ LET next == Head(syncs)
         closed == Open(known) \ Open(next)
     IN \E made \in FromListener(closed) :
          /\ ops' = [i \in 1..Len(ops) |-> IF Pending(i) THEN Settled(ops[i], next, closed)
                                                         ELSE ops[i]] \o made
          /\ posted' = posted \cup ((Len(ops) + 1)..Len(ops'))
          \* the marker never stays in the registry
          /\ known' = [t \in Tabs |-> IF next[t] = Gone THEN Gone ELSE Tab(next[t].page, 0)]
  /\ UNCHANGED <<host, opener, nonceSeq, life, asked, turns>>

\* the worker ends: its promises with it; syncs and posts on their way arrive
Kill ==
  /\ life < MaxKills /\ life' = life + 1 /\ nonceSeq' = 0
  /\ known' = [t \in Tabs |-> Gone]
  /\ ops' = [i \in 1..Len(ops) |-> IF Pending(i) THEN [ops[i] EXCEPT !.state = "lost"] ELSE ops[i]]
  /\ UNCHANGED <<host, opener, syncs, posted, asked, turns>>

Next ==
  \/ \E p \in Pages : Create(p)
  \/ \E t \in Tabs, p \in Pages : Change("update", {t}, p)
  \/ \E ts \in SUBSET Tabs : Change("remove", ts, "")
  \/ \E x \in Exts, t \in Tabs : SendMessage(x, t)
  \/ \E i \in 1..Len(ops) : HostDoes(i) \/ Rejects(i) \/ \E x \in Exts : Replies(i, x)
  \/ \E t \in Tabs, r \in {Gone} \cup [page : Pages, nonce : 0..MaxOps] : UserTurns(t, r)
  \/ HostSyncs \/ Sync \/ Kill

Spec == Init /\ [][Next]_vars

-----------------------------------------------------------------------------
TypeOK ==
  /\ \A t \in Tabs : known[t].nonce = 0 /\ host[t].nonce \in 0..MaxOps
  /\ opener \in [Tabs -> 0..User] /\ Len(syncs) <= MaxSyncs /\ Len(ops) <= MaxOps
  /\ nonceSeq \in 0..MaxOps /\ life \in 0..MaxKills /\ turns \in 0..MaxTurns
  /\ posted \subseteq 1..Len(ops) /\ asked \subseteq 1..Len(ops)

\* A create resolves with the tab that was opened for it.  The sequence of nonces starts
\* again with the worker, so a tab opened for the call of an earlier worker is excepted.
CreateGetsItsTab ==
  \A i \in 1..Len(ops) : ops[i].kind = "create" /\ ops[i].state = "resolved" =>
    \A t \in ops[i].got : opener[t] = i \/ (opener[t] \in 1..Len(ops) /\ ops[opener[t]].life # ops[i].life)

\* #283: nothing waits on a tab that is closed, but what a listener asked for while the
\* registry was still the old one.
NothingWaitsOnClosed ==
  \A i \in 1..Len(ops) : Pending(i) /\ ~ops[i].late => ops[i].tabs \subseteq Open(known)

\* #185: a message is answered in the name of the extension that sent it.
RepliesAreOwn ==
  \A i \in 1..Len(ops) : ops[i].kind = "message" => ops[i].got \subseteq {ops[i].ext}
=============================================================================
