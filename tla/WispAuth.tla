------------------------------- MODULE WispAuth -------------------------------
(***************************************************************************)
(* wisp-auth.ts: one websocket that the vendored wisp client opens towards *)
(* an endpoint, with the wrappers around it that authenticate it and hide  *)
(* from the client what it cannot bear, and the server behind it.          *)
(*                                                                         *)
(* The vendor of the libcurl engine speaks v1 and is upgraded; epoxy's     *)
(* wasm is native v2.                                                      *)
(* Frames are records; only CONNECT differs between the two versions.      *)
(***************************************************************************)
EXTENDS Naturals, Sequences, SequencesExt

CONSTANTS
  Tcp, Udp,      \* the streams that the vendor may open, by kind
  Window,        \* WISP_GRANT_PACKETS
  MaxData,       \* bound: DATA frames of the server for one TCP stream; one datagram
  MaxChanges     \* bound: configurations of credentials

Streams == Tcp \cup Udp
None == "none"

\* Credentials for this endpoint, right or wrong, or for another one.
Creds == {"right", "wrong", "elsewhere"}

VARIABLES
  cred, outcome, changes,  \* the credentials in memory and the last outcome
  vendor, server,          \* vendor: "v1" or "v2"; server: [v2, requires]
  engine, known,           \* when the socket is constructed: the engine that is selected, and
                           \* whether its endpoint is the configured or the announced one
  sock,                    \* "none", "connecting", "open", "gone"
  armed,
  hs, timer, held, rewrote, counts,   \* the wrapper's; counts: its credits map
  down, up,                \* frames on the way to the client and to the server
  vendorUp, wedged,        \* the vendor has had a message; it took a CLOSE of stream 0
  said,                    \* what the vendor sent
  phase,                   \* of the server: "new", "await", "up", "over"
  got,                     \* the vendor's frames that the server took
  streams,                 \* at the server: "new", "open", "over"
  credit, sent,            \* at the server, by stream
  stale                    \* credentials changed since the socket was opened

memVars == <<cred, outcome, changes, stale>>
wrapVars == <<hs, timer, held, rewrote, counts>>
fixedVars == <<vendor, server, engine, known>>
peerVars == <<phase, got, streams, credit, sent>>
vendorVars == <<vendorUp, wedged, said>>
vars == <<cred, outcome, changes, vendor, server, engine, known, sock, armed, hs, timer, held, rewrote,
          counts, down, up, vendorUp, wedged, said, phase, got, streams, credit, sent, stale>>

Init ==
  /\ cred \in Creds \cup {None} /\ outcome = None /\ changes = 0 /\ stale = FALSE
  /\ vendor \in {"v1", "v2"}
  /\ server \in [v2 : BOOLEAN, requires : BOOLEAN]
  /\ engine \in {"libcurl", "epoxy"} /\ known \in BOOLEAN
  /\ sock = "none" /\ armed = FALSE
  /\ hs = "wait-info" /\ timer = FALSE /\ held = <<>> /\ rewrote = FALSE /\ counts = <<>>
  /\ down = <<>> /\ up = <<>>
  /\ vendorUp = FALSE /\ wedged = FALSE /\ said = <<>>
  /\ phase = "new" /\ got = <<>>
  /\ streams = [s \in Streams |-> "new"]
  /\ credit = [s \in Streams |-> 0] /\ sent = [s \in Streams |-> 0]

Frame(t, s) == [t |-> t, id |-> s]
Reject(why) == [t |-> "close", id |-> 0, why |-> why]
InfoAuth(c) == [t |-> "info", id |-> 0, auth |-> c]
PlainInfo == [t |-> "info", id |-> 0, auth |-> None]

Native == vendor = "v2"
SpeaksV2 == server.v2 /\ (armed \/ Native)

(* ---- the credentials ---- *)

\* Nothing reads the credentials for a plain socket, nor for an upgraded one after its
\* handshake: they are changed here where they matter.
MayChange == changes < MaxChanges /\ armed /\ (Native \/ hs # "done")

\* zl:wispAuth: an endpoint, name and password within bounds, or a refusal that changes
\* nothing; the outcome starts over.
Configure ==
  /\ MayChange /\ changes' = changes + 1
  /\ \E c \in Creds : cred' = c
  /\ outcome' = None /\ stale' = (sock # "none")
  /\ UNCHANGED <<fixedVars, sock, armed, wrapVars, down, up, vendorVars, peerVars>>

ClearAuth ==
  /\ MayChange /\ changes' = changes + 1 /\ cred' = None
  /\ stale' = (sock # "none") /\ UNCHANGED outcome
  /\ UNCHANGED <<fixedVars, sock, armed, wrapVars, down, up, vendorVars, peerVars>>

(* ---- the socket ---- *)

\* The constructor: a socket to the credentialed endpoint is armed with its deadline.
Construct ==
  /\ sock = "none" /\ sock' = "connecting"
  /\ armed' = (cred \in {"right", "wrong"}) /\ timer' = armed'
  /\ UNCHANGED <<memVars, fixedVars, hs, held, rewrote, counts, down, up, vendorVars, peerVars>>

\* It opens; a server of v2 greets with its INFO, one of v1 with its first window, and a
\* v1 connection is refused where the server requires authentication.
Opens ==
  /\ sock = "connecting" /\ sock' = "open"
  /\ \/ SpeaksV2 /\ phase' = "await" /\ down' = <<Frame("info", 0)>>
     \/ ~SpeaksV2 /\ ~server.requires /\ phase' = "up" /\ down' = <<Frame("continue", 0)>>
     \/ ~SpeaksV2 /\ server.requires /\ phase' = "over" /\ down' = <<Reject("required")>>
  /\ UNCHANGED <<memVars, fixedVars, armed, wrapVars, up, vendorVars, got, streams, credit, sent>>

\* The connection ends, for the network or the server.
Drops ==
  /\ sock \in {"connecting", "open"} /\ sock' = "gone" /\ phase' = "over"
  /\ down' = <<>> /\ up' = <<>>
  /\ UNCHANGED <<memVars, fixedVars, armed, wrapVars, vendorVars, got, streams, credit, sent>>

\* failClosed: the outcome, if it tells one; what is on its way still arrives, but the
\* socket takes and hands out nothing more.
FailClosed(o) ==
  /\ outcome' = IF o = None THEN outcome ELSE o
  /\ hs' = "done" /\ held' = <<>> /\ timer' = FALSE /\ sock' = "gone" /\ down' = <<>>

\* The deadline of the handshake runs on whatever becomes of the socket.
Deadline ==
  /\ timer /\ hs # "done" /\ FailClosed("auth-unsupported")
  /\ UNCHANGED <<cred, changes, stale, fixedVars, armed, rewrote, counts, up, vendorVars, peerVars>>

(* ---- what the vendor sends ---- *)

\* v1 CONNECTs are translated; one whose host is too long cannot be.
Translated(f) == IF f.t = "connect1" THEN [f EXCEPT !.t = "connect2"] ELSE f
Upgradable(f) == f.t # "connectLong"

Sends(f) ==
  /\ said' = Append(said, f)
  /\ UNCHANGED <<cred, changes, stale, fixedVars, armed, counts, vendorUp, wedged, peerVars>>

PassThrough(f) ==
  /\ (~armed \/ (Native /\ rewrote)) /\ Sends(f) /\ up' = Append(up, f)
  /\ UNCHANGED <<sock, outcome, hs, timer, held, rewrote, down>>

\* A native vendor's first frame is its INFO, which gets the password appended; one that
\* cannot be read, or no credentials any more, closes the socket.
Rewrites(f) ==
  /\ armed /\ Native /\ ~rewrote /\ rewrote' = TRUE /\ Sends(f)
  /\ IF cred # None /\ f.t = "info"
     THEN up' = Append(up, InfoAuth(cred)) /\ UNCHANGED <<sock, outcome, hs, timer, held, down>>
     ELSE FailClosed("auth-unsupported") /\ UNCHANGED up

Holds(f) ==
  /\ armed /\ ~Native /\ hs # "done" /\ Sends(f) /\ held' = Append(held, f)
  /\ UNCHANGED <<sock, outcome, hs, timer, rewrote, up, down>>

Upgrades(f) ==
  /\ armed /\ ~Native /\ hs = "done" /\ Sends(f)
  /\ IF Upgradable(f)
     THEN up' = Append(up, Translated(f)) /\ UNCHANGED <<sock, outcome, hs, timer, held, down>>
     ELSE FailClosed("auth-unsupported") /\ UNCHANGED up
  /\ UNCHANGED rewrote

Send(f) == PassThrough(f) \/ Rewrites(f) \/ Holds(f) \/ Upgrades(f)

Said(t, s) == \E i \in DOMAIN said : said[i].t \in t /\ said[i].id = s
Connects == {"connect1", "connect2", "connectLong"}

\* The vendor opens streams after its first message, a native one after its INFO, and
\* sends on them; it may send on an unopened socket no frame.
VendorSends ==
  /\ sock = "open" /\ vendorUp /\ ~wedged
  /\ \/ /\ Native /\ said = <<>>
        /\ \E f \in {PlainInfo, Frame("blob", 0)} : Send(f)
     \/ /\ ~Native \/ said # <<>>
        /\ \E s \in Streams :
             \/ /\ ~Said(Connects, s)
                /\ \/ Send(Frame(IF Native THEN "connect2" ELSE "connect1", s))
                   \/ ~Native /\ Send(Frame("connectLong", s))
             \/ Said(Connects, s) /\ ~Said({"close"}, s) /\ Send(Frame("close", s))

(* ---- what the client receives ---- *)

\* maybeGrant: the v2 server relays no DATA without credits, and a v1 vendor grants none:
\* all of the window at the first frame of a stream, and again at half of it.
CountOf(s) == IF \E i \in DOMAIN counts : counts[i].id = s
              THEN counts[CHOOSE i \in DOMAIN counts : counts[i].id = s].n ELSE 0
Seen(s) == \E i \in DOMAIN counts : counts[i].id = s
Counted(s, n) == Append(SelectSeq(counts, LAMBDA x : x.id # s), [id |-> s, n |-> n])
Forgotten(s) == SelectSeq(counts, LAMBDA x : x.id # s)

Due(f) == f.t = "data" /\ 2 * (CountOf(f.id) + 1) >= Window
MaybeGrant(f) ==
  IF Native \/ f.id = 0 \/ f.t \notin {"data", "continue", "close"}
  THEN UNCHANGED <<counts, up>>
  ELSE IF f.t = "close" THEN counts' = Forgotten(f.id) /\ UNCHANGED up
  ELSE IF ~Seen(f.id) \/ Due(f)
  THEN counts' = Counted(f.id, 0) /\ up' = Append(up, Frame("grant", f.id))
  ELSE counts' = Counted(f.id, CountOf(f.id) + (IF f.t = "data" THEN 1 ELSE 0)) /\ UNCHANGED up

\* closeAuthOutcome
Told(f) == CASE f.why = "bad" -> "invalid-credential" [] f.why = "required" -> "auth-required"
             [] OTHER -> None

\* Each way below hands the frame on to the vendor: it is up with its first message, and
\* a CLOSE of stream 0 wedges the vendor of the libcurl bundle.  The guard hides it, if the
\* engine was libcurl when the socket was constructed and its endpoint is one in use: the
\* secondary client of a worker whose engine is epoxy is of the libcurl bundle as well.
Libcurl == ~Native
Guarded == engine = "libcurl" /\ known
HandedOn(f) ==
  LET hidden == Guarded /\ f.t = "close" /\ f.id = 0
  IN /\ vendorUp' = (vendorUp \/ ~hidden)
     /\ wedged' = (wedged \/ (Libcurl /\ f.t = "close" /\ f.id = 0 /\ ~hidden))

Takes(f) == sock = "open" /\ down # <<>> /\ f = Head(down) /\ HandedOn(f)
Keeps == down' = Tail(down) /\ sock' = sock
ReceiveRest == UNCHANGED <<cred, changes, stale, fixedVars, armed, rewrote, said, peerVars>>

Unarmed(f) ==
  /\ ~armed /\ Takes(f) /\ Keeps /\ ReceiveRest
  /\ UNCHANGED <<outcome, hs, timer, held, counts, up>>

RejectSeen(f) ==
  /\ armed /\ f.t = "close" /\ f.id = 0 /\ Told(f) # None /\ Takes(f) /\ ReceiveRest
  /\ IF hs # "done" THEN FailClosed(Told(f))
     ELSE outcome' = Told(f) /\ Keeps /\ UNCHANGED <<hs, held, timer>>
  /\ UNCHANGED <<counts, up>>

Unknown(f) == ~(f.t = "close" /\ f.id = 0 /\ Told(f) # None)

AfterHandshake(f) ==
  /\ armed /\ Unknown(f) /\ (Native \/ hs = "done") /\ Takes(f) /\ Keeps /\ MaybeGrant(f)
  /\ ReceiveRest /\ UNCHANGED <<outcome, hs, timer, held>>

\* wait-info: the server's INFO is answered with the password.
Answers(f) ==
  /\ armed /\ ~Native /\ hs = "wait-info" /\ Unknown(f) /\ Takes(f) /\ ReceiveRest
  /\ IF f.t # "info" THEN Keeps /\ UNCHANGED <<outcome, hs, timer, held, up>>
     ELSE IF cred = None THEN FailClosed(None) /\ UNCHANGED up
     ELSE /\ hs' = "wait-continue" /\ up' = Append(up, InfoAuth(cred))
          /\ Keeps /\ UNCHANGED <<outcome, timer, held>>
  /\ UNCHANGED counts

\* wait-continue: the first window of stream 0 ends the handshake; what was held is sent
\* in order, up to a frame that cannot be translated.
Sendable(frames) ==
  LET bad == {i \in DOMAIN frames : ~Upgradable(frames[i])}
  IN IF bad = {} THEN frames
     ELSE SubSeq(frames, 1, (CHOOSE i \in bad : \A j \in bad : i <= j) - 1)
Released == [i \in DOMAIN Sendable(held) |-> Translated(held[i])]
Releases(f) ==
  /\ armed /\ ~Native /\ hs = "wait-continue" /\ Unknown(f) /\ Takes(f) /\ ReceiveRest
  /\ IF ~(f.t = "continue" /\ f.id = 0) THEN Keeps /\ UNCHANGED <<outcome, hs, timer, held, up>>
     ELSE IF cred = None THEN FailClosed(None) /\ UNCHANGED up
     ELSE /\ up' = up \o Released
          /\ IF Len(Released) = Len(held)
             THEN hs' = "done" /\ timer' = FALSE /\ held' = <<>> /\ Keeps /\ UNCHANGED outcome
             ELSE FailClosed("auth-unsupported")
  /\ UNCHANGED counts

Receive ==
  down # <<>> /\ LET f == Head(down) IN
    Unarmed(f) \/ RejectSeen(f) \/ AfterHandshake(f) \/ Answers(f) \/ Releases(f)

(* ---- the server ---- *)

ServerRest == UNCHANGED <<memVars, fixedVars, sock, armed, wrapVars, vendorVars>>
Serve(f) == up # <<>> /\ f = Head(up) /\ up' = Tail(up) /\ ServerRest

\* The INFO of a client, verified if the server requires it; any other traffic is refused.
Greeted(f) ==
  /\ phase = "await" /\ Serve(f)
  /\ IF f.t = "info" /\ (server.requires => f.auth = "right")
     THEN phase' = "up" /\ down' = Append(down, Frame("continue", 0))
     ELSE /\ phase' = "over"
          /\ down' = Append(down, Reject(IF f.t # "info" THEN "invalid"
                                         ELSE IF f.auth = None THEN "required" ELSE "bad"))
  /\ UNCHANGED <<got, streams, credit, sent>>

Layout == IF SpeaksV2 THEN "connect2" ELSE "connect1"

\* A CONNECT in the other version's layout is taken for something else.
Taken(f) ==
  /\ phase = "up" /\ Serve(f)
  /\ got' = IF f.t = "grant" THEN got ELSE Append(got, f)
  /\ CASE f.t = Layout ->
            /\ streams' = [streams EXCEPT ![f.id] = "open"]
            /\ down' = IF f.id \in Tcp THEN Append(down, Frame("continue", f.id)) ELSE down
            /\ UNCHANGED <<phase, credit>>
       [] f.t = "grant" ->
            /\ credit' = IF f.id \in Tcp THEN [credit EXCEPT ![f.id] = Window] ELSE credit
            /\ UNCHANGED <<phase, streams, down>>
       [] f.t = "close" ->
            /\ streams' = [streams EXCEPT ![f.id] = "over"]
            /\ down' = IF streams[f.id] = "open" THEN Append(down, Frame("close", f.id)) ELSE down
            /\ UNCHANGED <<phase, credit>>
       [] OTHER -> phase' = "over" /\ UNCHANGED <<streams, credit, down>>
  /\ UNCHANGED sent

\* Traffic for a session that is over is dropped.
Dropped(f) ==
  /\ phase = "over" /\ Serve(f) /\ UNCHANGED <<down, peerVars>>

\* A TCP stream's DATA spends a credit in v2; datagrams need none.
Relays(s) ==
  /\ phase = "up" /\ sock = "open" /\ streams[s] = "open" /\ sent[s] < (IF s \in Udp THEN 1 ELSE MaxData)
  /\ s \in Udp \/ ~SpeaksV2 \/ credit[s] > 0
  /\ sent' = [sent EXCEPT ![s] = @ + 1]
  /\ credit' = IF s \in Tcp /\ SpeaksV2 THEN [credit EXCEPT ![s] = @ - 1] ELSE credit
  /\ down' = Append(down, Frame("data", s))
  /\ ServerRest /\ UNCHANGED <<up, phase, got, streams>>

EndsStream(s) ==
  /\ phase = "up" /\ sock = "open" /\ streams[s] = "open"
  /\ streams' = [streams EXCEPT ![s] = "over"] /\ down' = Append(down, Frame("close", s))
  /\ ServerRest /\ UNCHANGED <<up, phase, got, credit, sent>>

\* What a socket that is gone leaves behind is its deadline.
Next ==
  \/ Construct \/ Deadline
  \/ /\ sock # "gone"
     /\ \/ Configure \/ ClearAuth \/ Opens \/ Drops \/ VendorSends \/ Receive
        \/ up # <<>> /\ (Greeted(Head(up)) \/ Taken(Head(up)) \/ Dropped(Head(up)))
        \/ \E s \in Streams : Relays(s) \/ EndsStream(s)

Spec == Init /\ [][Next]_vars

--------------------------------------------------------------------------------

Upgraded == armed /\ ~Native

\* #496: over a socket that was opened with credentials the first thing that the server
\* takes is a password, and an upgraded one opens no stream and is sent nothing unless the
\* server speaks v2: there is no downgrade.
NoDowngrade ==
  armed =>
    /\ phase = "await" /\ up # <<>> => Head(up).t = "info" /\ Head(up).auth # None
    /\ Upgraded /\ (\E s \in Streams : streams[s] # "new") => SpeaksV2
    /\ Upgraded /\ ~server.v2 => up = <<>> /\ got = <<>>

\* Credentials that were not changed under the socket go to their own endpoint.
PasswordsStayHome ==
  armed /\ ~stale => \A i \in DOMAIN up : up[i].t = "info" => up[i].auth # "elsewhere"

\* What an upgraded vendor sends arrives in its order and layout, each frame once, while
\* the socket is open.
FromVendor(frames) == SelectSeq(frames, LAMBDA f : f.t \notin {"grant", "info"})
FramesInOrder ==
  Upgraded /\ sock = "open" /\ phase # "over" =>
    got \o FromVendor(up) \o [i \in DOMAIN held |-> Translated(held[i])]
      = [i \in DOMAIN said |-> Translated(said[i])]

\* A stream of an upgraded vendor that is out of credits has some on their way, or DATA
\* that will release them: the v2 server never waits for a client that cannot know.
NeverStarved ==
  \A s \in Tcp :
    Upgraded /\ sock = "open" /\ phase = "up" /\ streams[s] = "open" /\ credit[s] = 0 =>
      \/ \E i \in DOMAIN up : up[i].t \in {"grant", "close"} /\ up[i].id = s
      \/ \E i \in DOMAIN down : down[i].id = s
\* and it never holds more than a window
WindowKept == \A s \in Streams : credit[s] <= Window

\* #639: the vendor takes no CLOSE of stream 0 over a socket that was constructed while the
\* engine was libcurl, towards an endpoint in use.  Any other socket of the bundle can be
\* wedged by it: that of the secondary client while the engine is epoxy, and one whose
\* endpoint was replaced or withdrawn while its client started.
NotWedged == engine = "libcurl" /\ known => ~wedged

\* An upgraded socket whose handshake has ended has no deadline left to close it.  A native
\* vendor's socket has no end of its handshake: its deadline always comes.
HealthyKept == timer /\ ~Native => hs # "done"

\* Credentials that were not changed since are told to be invalid only if they are.
OutcomeTold ==
  outcome = "invalid-credential" /\ ~stale => server.requires /\ cred # "right"

\* A credentialed socket is never downgraded, sends passwords to their endpoint, keeps the
\* vendor's frames in order and its streams in credit, and tells what the server said.
AuthIsSound ==
  NoDowngrade /\ PasswordsStayHome /\ FramesInOrder /\ NeverStarved /\ WindowKept /\ NotWedged
    /\ HealthyKept /\ OutcomeTold

================================================================================
