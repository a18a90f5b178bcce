------------------------------- MODULE MCWorker -------------------------------
(***************************************************************************)
(* State of the worker that many requests share, for TLC: the persisted    *)
(* settings, the cookie jar, the jar profiles of the windows, the          *)
(* credentials with a socket that uses them, and a transfer over such a    *)
(* socket.  A behaviour explores one of them, chosen initially.            *)
(***************************************************************************)
EXTENDS Settings, CookieJar, JarProfiles, TLC

CONSTANTS f1

VARIABLES part,
          cred, outcome, changes, stale, vendor, server, driver, known, sock, armed, hs, deadline,
          waiting, rewrote, counts, down, up, vendorUp, wedged, said, session, got, streams, credit,
          sent,
          answer, head, chunks, transfer, reader, read, closes

authVars == <<cred, outcome, changes, stale, vendor, server, driver, known, sock, armed, hs,
              deadline, waiting, rewrote, counts, down, up, vendorUp, wedged, said, session, got, streams, credit,
              sent>>
transferVars == <<answer, head, chunks, transfer, reader, read, closes>>

\* two domains, and what a page or a response of two origins sets in two jars
FourCookies == {"a1", "a2", "a3", "b1"}
Domains == [i \in FourCookies |-> IF i = "b1" THEN "b" ELSE "a"]
Settable == {<<"default", "o1", "a1">>, <<"default", "o2", "a1">>,
             <<"default", "o2", "a3">>, <<"session", "o1", "a1">>}

Auth == INSTANCE WispAuth WITH
  engine <- driver, timer <- deadline, phase <- session, held <- waiting,
  Tcp <- {1}, Udp <- {2}, Window <- 2, MaxData <- 2, MaxChanges <- 1

Curl == INSTANCE CurlStream WITH
  sent <- chunks, t <- transfer, got <- read, session <- closes, MaxChunks <- 3, Hwm <- 1

CurlRests == answer = [method |-> "GET", status |-> "plain", framing |-> "zero", size |-> 0]
AuthRests ==
  /\ vendor = "v1" /\ server = [v2 |-> TRUE, requires |-> FALSE] /\ cred = "none"
  /\ driver = "libcurl" /\ known

\* epoxy's own socket is opened by the engine it belongs to; one reason not to be guarded
\* at a time
Selections ==
  IF vendor = "v2" THEN driver = "epoxy" /\ known ELSE driver = "libcurl" \/ known

WorkerInit ==
  /\ part \in {"settings", "jar", "profiles", "socket", "transfer"}
  /\ Init /\ JarInit /\ ProfileInit /\ Auth!Init /\ Curl!Init
  /\ IF part = "socket" THEN Selections ELSE AuthRests
  /\ part = "transfer" \/ CurlRests
  /\ part = "jar" \/ disk = {}
  /\ part = "profiles" \/ doubt = {}

WorkerNext ==
  \/ part = "settings" /\ Next /\ UNCHANGED <<part, jarVars, profileVars, authVars, transferVars>>
  \/ part = "jar" /\ JarNext /\ UNCHANGED <<part, vars, profileVars, authVars, transferVars>>
  \/ part = "profiles" /\ ProfileNext /\ UNCHANGED <<part, vars, jarVars, authVars, transferVars>>
  \/ part = "socket" /\ Auth!Next /\ UNCHANGED <<part, vars, jarVars, profileVars,
                                                         transferVars>>
  \/ part = "transfer" /\ Curl!Next /\ UNCHANGED <<part, vars, jarVars, profileVars,
                                                     authVars>>

WorkerSpec ==
  WorkerInit /\ [][WorkerNext]_<<part, vars, jarVars, profileVars, authVars, transferVars>>

Symmetry == Permutations(Hosts)

\* WispAuth, CurlStream: a credentialed socket is never downgraded, sends passwords to
\* their endpoint, keeps the vendor's frames in order and its streams in credit; a body
\* that was seen to end is whole, and a transfer and its session end once and with it.
LinkIsSound == Auth!AuthIsSound /\ Curl!TransferIsSound

===============================================================================
