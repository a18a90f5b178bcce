----------------------------- MODULE ControlPlane -----------------------------
(***************************************************************************)
(* The messages that pages send to the worker (control.ts, cpgate.ts): the *)
(* diagnostics that are answered before the boot, the boot gate, the gate  *)
(* for senders that are no host page, and the handlers, each named by a    *)
(* message whose way through the code it stands for.  The cookie jar is    *)
(* here as what the acknowledgements promise of it: the cookies in memory, *)
(* the stored record and the chain of its writes (CookieJar has the rest). *)
(***************************************************************************)
EXTENDS Naturals, FiniteSets, Sequences

CONSTANTS ControlCalls, \* the numbers of the messages, sent in their order
          Senders,      \* the URLs of clients that send
          MaxChain,     \* bound: writes of the jar that wait
          MaxReboots    \* bound: the worker ends and starts again, the last time within the deadline

\* 0 numbers no message: it is a write that nobody waits for.
ASSUME ControlAssumption == ControlCalls \subseteq Nat \ {0}

VARIABLES
  open,       \* deps.ready has resolved
  extPages,   \* the senders registered as pages of an extension
  relay,      \* relayAvailable()
  sendings,
  sockets,    \* the messages whose socket is open, and the bridge it is on
  jar, disk,  \* the cookies in memory and in the store
  load,       \* jarLoad: still to read the store, what it has read, or over
  chain,      \* the writes asked for: each the message its end acknowledges, or 0
  snap,       \* the cookies a write under way has collected
  caches,     \* the caches and the registration are there
  reboots

controlVars == <<open, extPages, relay, sendings, sockets, jar, disk, load, chain, snap, caches,
                 reboots>>

(* A sender is the URL of its client: of this origin or not, a page of the  *)
(* engine, an engine route or a page of an extension, with a zlNavh         *)
(* parameter or without.                                                    *)
Urls == [same : BOOLEAN, path : {"host", "route", "ext"}, token : BOOLEAN]
HostPage(s) == s.same /\ ~s.token /\ s.path = "host"
Client(s) == s.same /\ (s.token \/ s.path # "host")
Preflight == {"doctor", "exportDiagnostics"}
PageMessages == {"mint", "wsOpen", "docCookie", "spa404"}
JarMessages == {"clearJar", "importSession", "teardown"}
OtherMessages == {"config", "relayRegister", "extPage"}
NoSender == [same |-> FALSE, path |-> "host", token |-> FALSE]
Unsent == [from |-> NoSender, type |-> "none", step |-> "free", said |-> <<>>,
           unsaved |-> FALSE, early |-> FALSE]
ToRead == {"to read"}
Loaded == {"loaded"}

ControlInit ==
  /\ open = FALSE /\ relay = FALSE /\ caches = TRUE
  /\ extPages \in SUBSET {[same |-> TRUE, path |-> "ext", token |-> FALSE]}
  /\ sendings = [k \in ControlCalls |-> Unsent] /\ sockets = {}
  /\ jar = {} /\ disk = {"old"} /\ load = ToRead /\ chain = <<>> /\ snap = {"none"} /\ reboots = 0

Flush == Append(chain, 0)      \* a write whose end nobody waits for

\* The handler is over with this answer; the listener's own flush follows.
Answers(k, what) ==
  /\ sendings' = [sendings EXCEPT ![k].from = NoSender, ![k].said = Append(@, what),
                                  ![k].step = "done"]
  /\ chain' = Flush

-----------------------------------------------------------------------------
Submits(k) ==
  /\ sendings[k].step = "free" /\ \A j \in ControlCalls : j < k => sendings[j].step # "free"
  /\ \E s \in Senders, type \in Preflight \cup PageMessages \cup JarMessages \cup OtherMessages :
       sendings' = [sendings EXCEPT ![k] =
                      [Unsent EXCEPT !.from = s, !.type = type, !.step = "sent"]]
  /\ UNCHANGED <<open, extPages, relay, sockets, jar, disk, load, chain, snap, caches, reboots>>

(* Answered whatever the boot does, and without the flush.  exportDiagnostics *)
(* wants a request of a live proxied client.                                *)
Diagnoses(k) ==
  /\ sendings[k].step = "sent" /\ sendings[k].type \in Preflight
  /\ \E said \in IF ~HostPage(sendings[k].from) THEN {"refused"}
                 ELSE IF sendings[k].type = "exportDiagnostics" THEN {"ok", "refused"} ELSE {"ok"} :
       sendings' = [sendings EXCEPT ![k].from = NoSender, ![k].said = Append(@, said),
                                    ![k].step = "done"]
  /\ UNCHANGED <<open, extPages, relay, sockets, jar, disk, load, chain, snap, caches, reboots>>

(* The restores are over: a jar that cannot be read starts empty.           *)
Boots ==
  /\ ~open /\ open' = TRUE
  /\ jar' \in {disk, {}} /\ load' = Loaded
  /\ UNCHANGED <<extPages, relay, sendings, sockets, disk, chain, snap, caches, reboots>>

(* raceBoot: past the deadline the gate opens on an empty jar, and the load *)
(* goes on, before its read of the store or after it.                       *)
BootsLate ==
  /\ ~open /\ open' = TRUE
  /\ load' \in {ToRead, disk}
  /\ UNCHANGED <<extPages, relay, sendings, sockets, jar, disk, chain, snap, caches, reboots>>
LoadReads ==
  /\ open /\ load = ToRead /\ load' \in {disk, Loaded}
  /\ UNCHANGED <<open, extPages, relay, sendings, sockets, jar, disk, chain, snap, caches, reboots>>

\* jarLoad clears the jars and fills them with what it read, whatever they have by then.
LoadLands ==
  /\ load \notin {ToRead, Loaded} /\ load' = Loaded /\ jar' = load
  /\ UNCHANGED <<open, extPages, relay, sendings, sockets, disk, chain, snap, caches, reboots>>

Passes(k) ==
  \/ HostPage(sendings[k].from)
  \/ sendings[k].type \in PageMessages
  \/ sendings[k].type = "extPage" /\ sendings[k].from \in extPages
\* Of the handlers only that of zl:docCookie looks at its sender again.
Gates(k) ==
  /\ open /\ sendings[k].step = "sent" /\ sendings[k].type \notin Preflight
  /\ IF Passes(k)
     THEN /\ sendings' = [sendings EXCEPT ![k].step = "handling",
               ![k].from = IF sendings[k].type = "docCookie" THEN @ ELSE NoSender]
          /\ UNCHANGED chain
     ELSE Answers(k, "refused")
  /\ UNCHANGED <<open, extPages, relay, sockets, jar, disk, load, snap, caches, reboots>>

\* Handlers that answer as they run, refuse what is malformed, or throw: those a page
\* may ask to mint and decode routes, and those of the host's settings and queries.
AtOnce(k) ==
  /\ sendings[k].step = "handling"
  /\ \E said \in {"ok", "refused", "failed"} : Answers(k, said)
  /\ UNCHANGED <<open, extPages, relay, sockets, jar, disk, load, snap, caches, reboots>>
Mints(k) == sendings[k].type = "mint" /\ AtOnce(k)
Applies(k) == sendings[k].type \in {"config", "extPage"} /\ AtOnce(k)

\* zl:relayRegister; zl:spa404, which has no port.
TakesRelay(k) ==
  /\ sendings[k].step = "handling"
  /\ \/ sendings[k].type = "relayRegister" /\ relay' = TRUE /\ Answers(k, "ok")
     \/ /\ sendings[k].type = "spa404" /\ UNCHANGED relay
        /\ sendings' = [sendings EXCEPT ![k].step = "done"] /\ chain' = Flush
  /\ UNCHANGED <<open, extPages, sockets, jar, disk, load, snap, caches, reboots>>

\* zl:docCookie: the origin of the jar is that of the sender's own route.
ReadsCookies(k) ==
  /\ sendings[k].step = "handling" /\ sendings[k].type = "docCookie"
  /\ IF Client(sendings[k].from) /\ sendings[k].from.path # "ext"
     THEN Answers(k, "ok") \/ Answers(k, "refused")
     ELSE Answers(k, "refused")
  /\ UNCHANGED <<open, extPages, relay, sockets, jar, disk, load, snap, caches, reboots>>

(* zl:wsOpen: over the relay at once; otherwise it waits for the transport  *)
(* and stays with the native bridge.  The port hears one close if anything  *)
(* is wrong, the context of an engine-local URL included.                   *)
OpensSocket(k) ==
  /\ sendings[k].type = "wsOpen"
  /\ \/ sendings[k].step = "handling" /\ Answers(k, "closed") /\ UNCHANGED sockets
     \/ /\ sendings[k].step = "handling" /\ relay
        /\ Answers(k, "open") /\ sockets' = sockets \cup {<<k, "relay">>}
     \/ /\ sendings[k].step = "handling" /\ ~relay
        /\ sendings' = [sendings EXCEPT ![k].step = "transport"] /\ UNCHANGED <<chain, sockets>>
     \/ sendings[k].step = "transport" /\ Answers(k, "closed") /\ UNCHANGED sockets
     \/ /\ sendings[k].step = "transport"
        /\ Answers(k, "open") /\ sockets' = sockets \cup {<<k, "native">>}
  /\ UNCHANGED <<open, extPages, relay, jar, disk, load, snap, caches, reboots>>

-----------------------------------------------------------------------------
\* The answer comes first and leaves the store to the flush.
ChangesUnwritten(k, to) == jar' = to /\ Answers(k, "ok")
(* The messages that change the jar: the change, then the write, then the   *)
(* acknowledgement.  Their work outlives the handler, whose flush is next.  *)
Changes(k, to) ==
  /\ jar' = to
  /\ chain' = chain \o <<k, 0>>
  /\ sendings' = [sendings EXCEPT ![k].step = "writing", ![k].early = load # Loaded]
ClearsJar(k) ==
  /\ sendings[k].step = "handling" /\ sendings[k].type = "clearJar"
  /\ \/ Changes(k, {})
     \/ Answers(k, "refused") /\ UNCHANGED jar
  /\ UNCHANGED <<open, extPages, relay, sockets, disk, load, snap, caches, reboots>>

Decrypts(k) ==
  /\ sendings[k].step = "handling" /\ sendings[k].type = "importSession"
  /\ \/ sendings' = [sendings EXCEPT ![k].step = "decrypting"] /\ chain' = Flush
     \/ Answers(k, "refused")
  /\ UNCHANGED <<open, extPages, relay, sockets, jar, disk, load, snap, caches, reboots>>
Decrypted(k) ==
  /\ sendings[k].step = "decrypting"
  /\ \/ Changes(k, {"imported"})
     \/ /\ sendings' = [sendings EXCEPT ![k].said = Append(@, "refused"), ![k].step = "done"]
        /\ UNCHANGED <<jar, chain>>
  /\ UNCHANGED <<open, extPages, relay, sockets, disk, load, snap, caches, reboots>>

\* The sockets of the native bridge are closed first.
TearsDown(k) ==
  /\ sendings[k].step = "handling" /\ sendings[k].type = "teardown"
  /\ sockets' = {s \in sockets : s[2] = "relay"}
  /\ Changes(k, {})
  /\ UNCHANGED <<open, extPages, relay, disk, load, snap, caches, reboots>>
\* Caches that cannot be dropped leave the message without an answer.
Wipes(k) ==
  /\ sendings[k].step = "wiping"
  /\ \/ /\ sendings' = [sendings EXCEPT ![k].said = Append(@, "ok"), ![k].step = "done"]
        /\ caches' = FALSE
     \/ sendings' = [sendings EXCEPT ![k].step = "lost"] /\ UNCHANGED caches
  /\ UNCHANGED <<open, extPages, relay, sockets, jar, disk, load, chain, snap, reboots>>

-----------------------------------------------------------------------------
\* A response sets a cookie; its debounced write comes later.
Admits ==
  /\ open /\ jar' = jar \cup {"new"} /\ jar' # jar
  /\ UNCHANGED <<open, extPages, relay, sendings, sockets, disk, load, chain, snap, caches, reboots>>
TimerFires ==
  /\ "new" \in jar /\ chain' = Flush
  /\ UNCHANGED <<open, extPages, relay, sendings, sockets, jar, disk, load, snap, caches, reboots>>

(* jarPersist in its turn: the snapshot, and the put.  flushJarPersist      *)
(* swallows a failure, so the acknowledgement comes all the same.           *)
Collects ==
  /\ chain # <<>> /\ snap = {"none"} /\ snap' = jar
  /\ UNCHANGED <<open, extPages, relay, sendings, sockets, jar, disk, load, chain, caches, reboots>>
JarWritten(ok) ==
  LET w == Head(chain)
  IN /\ snap # {"none"} /\ snap' = {"none"} /\ chain' = Tail(chain)
     /\ disk' = IF ok THEN snap ELSE disk
     /\ sendings' = IF w = 0 THEN sendings
                 ELSE [sendings EXCEPT ![w].unsaved = ~ok,
                        ![w].said = IF sendings[w].type = "teardown" THEN @ ELSE Append(@, "ok"),
                        ![w].step = IF sendings[w].type = "teardown" THEN "wiping" ELSE "done"]
     /\ UNCHANGED <<open, extPages, relay, sockets, jar, load, caches, reboots>>

\* What the worker held in memory is gone; the next event boots it again.
ControlEnds ==
  /\ reboots < MaxReboots /\ reboots' = reboots + 1
  /\ open' = FALSE /\ extPages' = {} /\ relay' = FALSE /\ sockets' = {}
  /\ jar' = {} /\ load' = ToRead /\ chain' = <<>> /\ snap' = {"none"}
  /\ sendings' = [k \in ControlCalls |-> IF sendings[k].step \in {"free", "done"} THEN sendings[k]
                               ELSE [Unsent EXCEPT !.step = "lost"]]
  /\ UNCHANGED <<disk, caches>>

ControlNext ==
  \/ \E k \in ControlCalls :
       \/ Submits(k) \/ Diagnoses(k) \/ Gates(k) \/ Mints(k) \/ Applies(k) \/ TakesRelay(k)
       \/ ReadsCookies(k) \/ OpensSocket(k) \/ ClearsJar(k) \/ Decrypts(k) \/ Decrypted(k)
       \/ TearsDown(k) \/ Wipes(k)
  \/ Boots \/ (reboots < MaxReboots /\ BootsLate) \/ LoadReads \/ LoadLands \/ Admits \/ (Len(chain) < MaxChain /\ TimerFires) \/ Collects \/ ControlEnds
  \/ \E ok \in BOOLEAN : JarWritten(ok)

ControlSpec == ControlInit /\ [][ControlNext]_controlVars

-----------------------------------------------------------------------------
(* #254: what an acknowledged message removed from the jar is neither in    *)
(* memory nor in the store, and so cannot come back with a restart, unless  *)
(* the very write was the one that failed, or the message was handled past  *)
(* the boot deadline while the jar was still being loaded: that load clears *)
(* the jars when it lands and brings back the record as it read it, with    *)
(* what the message had removed.                                            *)
AcksAreDurable ==
  \A k \in ControlCalls :
    LET m == sendings[k]
    IN m.type \in JarMessages /\ m.said = <<"ok">> /\ ~m.unsaved /\ ~m.early =>
         "old" \notin disk \cup jar

(* #250: a message that is over was answered once, whatever failed or threw *)
(* in it; only zl:spa404 has nobody to answer.                              *)
AnsweredOnce ==
  \A k \in ControlCalls :
    /\ Len(sendings[k].said) <= 1
    /\ sendings[k].step = "done" =>
         Len(sendings[k].said) = IF sendings[k].type = "spa404" THEN 0 ELSE 1

\* #250, #254: a message is acknowledged once, and what its acknowledgement says was done
\* stays done, whichever messages overlap and whenever the worker ends; a message that the
\* load of the jar overtakes is left out.
AcksAreSound == AcksAreDurable /\ AnsweredOnce
=============================================================================
