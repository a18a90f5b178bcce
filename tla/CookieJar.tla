------------------------------- MODULE CookieJar -------------------------------
(***************************************************************************)
(* The cookie jars of the worker and their persistence (cookies.ts).  A     *)
(* jar is kept for each origin that set a cookie; a cookie's identity       *)
(* (name, domain, host-only flag and path) is looked up in all of them.     *)
(* The durable namespace is stored as one record, by writes that queue on   *)
(* one chain; the session namespace lives in memory.                        *)
(*                                                                          *)
(* The gates of admitCookie that only read the header are not in this       *)
(* module: an input is a cookie that passed them.                           *)
(***************************************************************************)
EXTENDS Naturals, FiniteSets, Functions

CONSTANTS Origins, Ids,
          DomainOf,   \* the stored Domain of an identity
          PerDomain,  \* COOKIE_MAX_PER_DOMAIN
          Total,      \* COOKIE_MAX_TOTAL
          Stored,     \* bound: the identities an earlier engine stored
          Inputs,     \* bound: the (namespace, origin, identity) of inputs
          MaxOps,     \* bound: changes of the jars
          MaxNow,     \* bound: the clock
          MaxRestarts \* bound

ASSUME JarAssumption ==
  /\ IsFiniteSet(Origins) /\ Origins # {}
  /\ IsFiniteSet(Stored) /\ Stored \subseteq Ids /\ DOMAIN DomainOf = Ids
  /\ Inputs \subseteq {"default", "session"} \X Origins \X Ids
  /\ PerDomain \in Nat \ {0} /\ Total \in Nat \ {0} /\ MaxNow \in Nat \ {0}
  /\ MaxOps \in Nat /\ MaxRestarts \in Nat

VARIABLES jars,     \* the cookies of each namespace
          now,      \* the clock: expiry and creation times
          timer,    \* saveTimer is armed
          chain,    \* the number of writes on persistChain
          phase,    \* the write at its head: "none", "opening", "putting"
          snap,     \* what it writes
          disk,     \* the stored record
          loaded,   \* jarLoad is over
          ops, restarts,
          missed,   \* a write failed and none has landed since
          did       \* the admission or deletion just made, for the properties

jarVars == <<jars, now, timer, chain, phase, snap, disk, loaded, ops, restarts,
          missed, did>>
writing == <<chain, phase, snap, disk, missed>>
jarBounds == <<now, loaded, restarts>>

Spaces == {"default", "session"}
Expiries == {0, MaxNow}                    \* 0: a session cookie
\* A stored cookie, with the origin whose jar holds it.
Cookies == [at : Origins, id : Ids, made : 1..MaxNow, exp : Expiries,
            http : BOOLEAN]
MaxChain == 2
\* What an earlier engine may have left.
Earlier == {[at |-> CHOOSE o \in Origins : TRUE, id |-> i, made |-> 1, exp |-> 0,
             http |-> FALSE] : i \in Stored}
Nothing == [what |-> "none", space |-> "none", id |-> "none", script |-> FALSE]
Did(what, s, i, script) == [what |-> what, space |-> s, id |-> i, script |-> script]

JarTypeOK ==
  /\ \A s \in Spaces : jars[s] \subseteq Cookies
  /\ now \in 1..MaxNow /\ timer \in BOOLEAN /\ loaded \in BOOLEAN
  /\ chain \in 0..MaxChain /\ missed \in BOOLEAN
  /\ phase \in {"none", "opening", "putting"}
  /\ snap \subseteq Cookies /\ disk \subseteq Cookies
  /\ ops \in 0..MaxOps /\ restarts \in 0..MaxRestarts

JarInit ==
  /\ jars = [s \in Spaces |-> {}] /\ now = 1 /\ timer = FALSE
  /\ chain = 0 /\ phase = "none" /\ snap = {} /\ disk \in {{}, Earlier}
  /\ loaded = FALSE /\ ops = 0 /\ restarts = 0
  /\ missed = FALSE
  /\ did = Nothing

-----------------------------------------------------------------------------
(* The limits: expired cookies go first, then the ones that expire first,   *)
(* session cookies last, the older of two first.                            *)

Live(c) == c.exp = 0 \/ c.exp > now
Alive(jar) == {c \in jar : Live(c)}
InDomain(jar, d) == {c \in jar : DomainOf[c.id] = d}

Until(c) == IF c.exp = 0 THEN MaxNow + 1 ELSE c.exp
Before(c, d) == \/ Until(c) < Until(d)
                \/ Until(c) = Until(d) /\ c.made < d.made

\* The sets of victims that bring a jar from its size to the cap.
Victims(jar, cap, spared) ==
  LET size == Cardinality(jar)
      open == jar \ spared
      most == Cardinality(open)
      excess == IF size <= cap THEN 0
                ELSE IF size - cap <= most THEN size - cap ELSE most
  IN {v \in SUBSET open :
        /\ Cardinality(v) = excess
        /\ \A c \in v, d \in open \ v : ~Before(d, c)}

\* sweepJarLimits: what may remain of a jar; spared cookies are not evicted.
Swept(jar, spared) ==
  LET fresh == Alive(jar)
      perDomain ==
        {v \in SUBSET (fresh \ spared) :
           \A d \in Range(DomainOf) :
             InDomain(v, d) \in Victims(InDomain(fresh, d), PerDomain, spared)}
  IN UNION {{(fresh \ v) \ w : w \in Victims(fresh \ v, Total, spared)} :
            v \in perDomain}

-----------------------------------------------------------------------------
(* Admission.                                                               *)

Copies(s, i) == {c \in jars[s] : c.id = i}
\* The earliest copy of an identity is its canonical home.
Homes(s, i) == {c \in Copies(s, i) : \A d \in Copies(s, i) : c.made <= d.made}

Change(s, jar) ==
  /\ ops < MaxOps /\ ops' = ops + 1
  /\ jars' = [jars EXCEPT ![s] = jar]

\* The jar once a cookie replaces every copy of its identity at one home, or
\* joins the jar of the response's origin.
Placed(s, c, home) == [c EXCEPT !.at = home.at, !.made = home.made]

\* Only the jar of the response's own origin is looked at.
AdmitsHere(s, o, i, exp, http, script) ==
  LET c == [at |-> o, id |-> i, made |-> now, exp |-> exp, http |-> http]
      here == {d \in Copies(s, i) : d.at = o}
  IN /\ script => ~http /\ \A d \in here : ~d.http
     /\ exp = 0 \/ exp > now
     /\ \E left \in Swept((jars[s] \ here) \cup {c}, {c}) : Change(s, left)
     /\ timer' = TRUE
     /\ did' = Did("admit", s, i, script)
     /\ UNCHANGED <<writing, jarBounds>>

Admits(s, o, i, exp, http, script) ==
  LET c == [at |-> o, id |-> i, made |-> now, exp |-> exp, http |-> http]
      homes == IF Copies(s, i) = {} THEN {c} ELSE Homes(s, i)
  IN /\ script => ~http
     /\ exp = 0 \/ exp > now
     /\ \E home \in homes :
          LET new == Placed(s, c, home)
          IN /\ ~(script /\ home \in Copies(s, i) /\ home.http)
             /\ \E left \in Swept((jars[s] \ Copies(s, i)) \cup {new}, {new}) :
                  Change(s, left)
     /\ timer' = TRUE
     /\ did' = Did("admit", s, i, script)
     /\ UNCHANGED <<writing, jarBounds>>
Retires(s, i, script) ==
  LET gone == {c \in Copies(s, i) : ~(script /\ c.http)}
  IN /\ gone # {}
     /\ Change(s, jars[s] \ gone)
     /\ timer' = TRUE
     /\ did' = Did("retire", s, i, script)
     /\ UNCHANGED <<writing, jarBounds>>

\* cookieHeaderFor purges expired cookies of every namespace.
Reads ==
  /\ \E s \in Spaces : Alive(jars[s]) # jars[s]
  /\ jars' = [s \in Spaces |-> Alive(jars[s])]
  /\ timer' = TRUE
  /\ ops < MaxOps /\ ops' = ops + 1
  /\ did' = Nothing
  /\ UNCHANGED <<writing, jarBounds>>

\* Clearing one origin, by the host (zl:clearJar) or an extension.
Clears(s, o) ==
  /\ \E c \in jars[s] : c.at = o
  /\ Change(s, {c \in jars[s] : c.at # o})
  /\ timer' = (timer \/ s = "default")
  /\ did' = Nothing
  /\ UNCHANGED <<writing, jarBounds>>

\* Leaving a session profile drops its namespace.
LeavesProfile ==
  /\ jars["session"] # {}
  /\ Change("session", {})
  /\ did' = Nothing
  /\ UNCHANGED <<timer, writing, jarBounds>>

-----------------------------------------------------------------------------
(* Persistence.                                                             *)

Ask == chain < MaxChain /\ chain' = chain + 1

\* Import merges a record into one origin's jar, wherever else its identity is.
Imported(o, i, http) == [at |-> o, id |-> i, made |-> now, exp |-> 0, http |-> http]
Merges(s, o, i, http) ==
  LET there == {c \in Copies(s, i) : c.at = o}
  IN /\ \/ Change(s, (jars[s] \ there) \cup {Imported(o, i, http)})
        \/ there # {} /\ Change(s, jars[s])
     /\ Ask
     /\ did' = Nothing
     /\ UNCHANGED <<timer, phase, snap, disk, missed, jarBounds>>

Replaces(s, o, i) ==
  /\ Change(s, {Imported(o, i, FALSE)})
  /\ Ask
  /\ did' = Nothing
  /\ UNCHANGED <<timer, phase, snap, disk, missed, jarBounds>>

Teardown ==
  /\ ops < MaxOps /\ ops' = ops + 1
  /\ jars' = [s \in Spaces |-> {}]
  /\ Ask
  /\ did' = Nothing
  /\ UNCHANGED <<timer, phase, snap, disk, missed, jarBounds>>

TimerFires ==
  /\ timer /\ timer' = FALSE
  /\ Ask
  /\ did' = Nothing
  /\ UNCHANGED <<jars, ops, phase, snap, disk, missed, jarBounds>>

\* flushJarPersist: the acknowledgement is the end of the write it asks for.
Flushes ==
  /\ timer' = FALSE
  /\ Ask
  /\ did' = Nothing
  /\ UNCHANGED <<jars, ops, phase, snap, disk, missed, jarBounds>>

\* jarPersist sweeps, opens the database, and then collects the entries.
TurnStarts ==
  /\ chain > 0 /\ phase = "none"
  /\ \E left \in Swept(jars["default"], {}) :
       jars' = [jars EXCEPT !["default"] = left]
  /\ phase' = "opening"
  /\ did' = Nothing
  /\ UNCHANGED <<timer, chain, snap, disk, missed, ops, jarBounds>>
Collects ==
  /\ phase = "opening" /\ phase' = "putting"
  /\ snap' = jars["default"]
  /\ did' = Nothing
  /\ UNCHANGED <<jars, timer, chain, disk, missed, ops, jarBounds>>
Puts ==
  /\ phase = "putting" /\ phase' = "none"
  /\ disk' = snap /\ snap' = {} /\ missed' = FALSE
  /\ chain' = chain - 1
  /\ did' = Nothing
  /\ UNCHANGED <<jars, timer, ops, jarBounds>>
\* A failed write frees the chain; nothing is retried.
TurnFails ==
  /\ phase # "none" /\ phase' = "none"
  /\ chain' = chain - 1 /\ snap' = {} /\ missed' = TRUE
  /\ did' = Nothing
  /\ UNCHANGED <<jars, timer, disk, ops, jarBounds>>

Loads ==
  /\ ~loaded /\ loaded' = TRUE
  /\ jars' = [s \in Spaces |-> IF s = "default" THEN disk ELSE {}]
  /\ did' = Nothing
  /\ UNCHANGED <<timer, ops, now, restarts, writing>>

JarRestart ==
  /\ restarts < MaxRestarts /\ restarts' = restarts + 1
  /\ \E lands \in BOOLEAN :
       disk' = IF lands /\ phase = "putting" THEN snap ELSE disk
  /\ jars' = [s \in Spaces |-> {}] /\ timer' = FALSE
  /\ chain' = 0 /\ phase' = "none" /\ snap' = {} /\ loaded' = FALSE
  /\ missed' = FALSE
  /\ did' = Nothing
  /\ UNCHANGED <<now, ops>>

Tick ==
  /\ now < MaxNow /\ now' = now + 1
  /\ did' = Nothing
  /\ UNCHANGED <<jars, timer, loaded, ops, restarts, writing>>

JarNext ==
  \/ /\ loaded
     /\ \/ \E in \in Inputs :
             \/ \E exp \in Expiries, http, script \in BOOLEAN :
                  Admits(in[1], in[2], in[3], exp, http, script)
             \/ \E http \in BOOLEAN : Merges(in[1], in[2], in[3], http)
             \/ Replaces(in[1], in[2], in[3])
             \/ \E script \in BOOLEAN : Retires(in[1], in[3], script)
        \/ Reads
        \/ \E s \in Spaces, o \in Origins : Clears(s, o)
        \/ LeavesProfile \/ Teardown \/ TimerFires \/ Flushes
  \/ TurnStarts \/ Collects \/ Puts \/ TurnFails
  \/ Loads \/ JarRestart \/ Tick

JarSpec == JarInit /\ [][JarNext]_jarVars

-----------------------------------------------------------------------------
(* When nothing is queued and the last write landed, the stored record is   *)
(* the durable jar: no change is left that a restart would undo.            *)
QuietIsDurable ==
  loaded /\ chain = 0 /\ ~timer /\ ~missed =>
    Alive(disk) = Alive(jars["default"])

(* An admission touches only its own namespace, settles its identity in one *)
(* place, and never evicts the cookies of another domain that is within its *)
(* own cap, while the others leave the domain its share of the total.  A    *)
(* retired identity is gone from every jar of its namespace, except the     *)
(* HttpOnly copies that a script may not touch.                             *)
IdentityIsSettled ==
  [][ ops' # ops /\ did' # Nothing =>
        LET s == did'.space
            i == did'.id
            left == {c \in jars'[s] : c.id = i}
        IN /\ \A t \in Spaces \ {s} : jars'[t] = jars[t]
           /\ did'.what = "admit" =>
                /\ Cardinality(left) = 1
                /\ LET others == {c \in Alive(jars[s]) :
                                    DomainOf[c.id] # DomainOf[i]}
                   IN Cardinality(others) + PerDomain <= Total =>
                        \A c \in others :
                          Cardinality(InDomain(others, DomainOf[c.id])) <= PerDomain =>
                            c \in jars'[s]
           /\ did'.what = "retire" =>
                \A c \in left : did'.script /\ c.http ]_jarVars

(* #337: a script write never replaces or drops an HttpOnly cookie.         *)
ScriptSparesHttpOnly ==
  [][ ops' # ops /\ did'.what = "admit" /\ did'.script =>
        \A c \in jars[did'.space] : c.id = did'.id /\ c.http => c \in jars'[did'.space] ]_jarVars

\* CookieJar: when nothing waits to be written the store holds the jar, and an
\* admission settles its identity and costs no other cookie its place; with the types.
JarIsSound == []JarTypeOK /\ []QuietIsDurable /\ IdentityIsSettled
=============================================================================
