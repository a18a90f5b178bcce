------------------------------ MODULE JarProfiles ------------------------------
(***************************************************************************)
(* Which cookie jar a client uses (cookies.ts, the profile half).  A host   *)
(* window is a root; the proxied frames in it inherit its root.  The host   *)
(* selects the durable "default" jar or a throwaway session jar.  The map   *)
(* of roots is worker memory, restored from one stored snapshot when a      *)
(* worker starts; requests wait for that restore, but only up to a          *)
(* deadline.                                                                *)
(*                                                                          *)
(* The requests of a frame are modelled from the fetch event to the         *)
(* admission of the response's cookies, one at a time for each frame.       *)
(***************************************************************************)
EXTENDS Naturals, FiniteSets

CONSTANTS Hosts,        \* host windows, by client id
          Frames,       \* client ids of proxied documents and workers
          NoHost,
          MaxPushes,    \* bound: zl:jarProfile messages
          MaxReboots   \* bound: worker restarts

ASSUME ProfilesAssumption ==
  /\ Hosts \cap Frames = {} /\ NoHost \notin Hosts \cup Frames \cup {"default", "session", "unbound"}
  /\ MaxPushes \in Nat /\ MaxReboots \in Nat

VARIABLES pages,      \* clients that exist in the browser
          owner,     \* the host window a frame belongs to (a fact, not memory)
          carries,   \* frames whose URL is a handle with its host's binding
          root,      \* clientRoots
          prof,      \* rootProfiles
          unbound,   \* unboundClients
          failed,    \* profileRestoreFailed
          assigned,  \* assignedRoots
          profileRestore,   \* jarProfilesPromise: "idle", "reading" or "done"
          profileDisk,      \* the stored snapshot
          queue,     \* snapshot writes waiting on profilePersistChain
          put,       \* the snapshot being written
          listed,    \* the client list a prune waits to apply, or None
          req,       \* the request of each frame
          doubt,     \* hosts not heard of since an unreadable snapshot
          pushes, reboots

profileVars == <<pages, owner, carries, root, prof, unbound, failed, assigned, profileRestore,
          profileDisk, queue, put, listed, req, doubt, pushes, reboots>>

profileMemory == <<root, prof, unbound, failed, assigned, profileRestore>>
profileStoring == <<profileDisk, queue, put>>
world == <<pages, owner, carries>>
profileBounds == <<pushes, reboots>>

Durable == "default"
Session == "session"
Unknown == "unbound"
Clients == Hosts \cup Frames

\* A stored snapshot: what it says of each root, and the uncertainty marker.
Snapshots == [kind : {"kept"}, roots : [Hosts -> {NoHost, Durable, Session}],
              uncertain : BOOLEAN]
NoSnapshot(kind) == [kind |-> kind, roots |-> [h \in Hosts |-> NoHost],
                     uncertain |-> FALSE]

Phases == {"idle", "gated", "open", "sent"}

ProfileTypeOK ==
  /\ pages \subseteq Clients
  /\ owner \in [Frames -> Hosts \cup {NoHost}]
  /\ carries \subseteq Frames
  /\ root \in [Clients -> Hosts \cup {NoHost}]
  /\ prof \in [Hosts -> {NoHost, Durable, Session}]
  /\ unbound \subseteq Clients
  /\ failed \in BOOLEAN /\ assigned \subseteq Hosts
  /\ profileRestore \in {"idle", "reading", "done"}
  /\ profileDisk \in Snapshots \cup {NoSnapshot("none"), NoSnapshot("corrupt")}
  /\ queue \in 0..(MaxPushes + 1) /\ put \in Snapshots \cup {NoSnapshot("none")}
  /\ listed.of \subseteq Clients
  /\ \A f \in Frames : req[f].at \in Phases
  /\ doubt \subseteq Hosts

Unlisted == [on |-> FALSE, of |-> {}]
NoJar == [root |-> NoHost, name |-> Unknown]
Idle == [at |-> "idle", early |-> FALSE, jar |-> NoJar]

ProfileInit ==
  /\ pages = Hosts /\ owner = [f \in Frames |-> NoHost] /\ carries = {}
  /\ root = [c \in Clients |-> NoHost] /\ prof = [h \in Hosts |-> NoHost]
  /\ unbound = {} /\ failed = FALSE /\ assigned = {} /\ profileRestore = "idle"
  /\ profileDisk \in {NoSnapshot("none"), NoSnapshot("corrupt")}
  /\ queue = 0 /\ put = NoSnapshot("none") /\ listed = Unlisted
  /\ req = [f \in Frames |-> Idle]
  /\ doubt = IF profileDisk.kind = "corrupt" THEN Hosts ELSE {}
  /\ pushes = 0 /\ reboots = 0

-----------------------------------------------------------------------------
(* Reading the maps.                                                        *)

RootOf(c) == IF root[c] # NoHost THEN root[c]
             ELSE IF c \in Hosts /\ prof[c] # NoHost THEN c ELSE NoHost

AnySession == \E h \in Hosts : prof[h] = Session

Active(c) ==
  IF RootOf(c) # NoHost
  THEN IF prof[RootOf(c)] # NoHost THEN prof[RootOf(c)]
       ELSE IF failed \/ AnySession THEN Unknown ELSE Durable
  ELSE IF c \in unbound \/ failed THEN Unknown ELSE Durable

\* The namespace of a client: the durable jar is one, whatever the root.
JarOf(c) == IF Active(c) = Durable THEN [root |-> NoHost, name |-> Durable]
            ELSE [root |-> RootOf(c), name |-> Active(c)]

-----------------------------------------------------------------------------
(* Clients come and go.                                                     *)

\* The navigation of a frame.  The source client is the host window or empty;
\* a handle minted by the host names its root, a legacy route does not.
Navigates(f, h, src, bound) ==
  /\ f \notin pages /\ owner[f] = NoHost /\ h \in pages
  /\ LET r == IF src # NoHost /\ RootOf(src) # NoHost THEN RootOf(src)
              ELSE IF bound THEN h ELSE NoHost
     IN root' = [c \in Clients |-> IF c = f \/ (c = src /\ r # NoHost)
                                   THEN r ELSE root[c]]
  /\ unbound' = unbound \ ({f} \cup (IF root'[f] # NoHost THEN {src} ELSE {}))
  /\ pages' = pages \cup {f}
  /\ owner' = [owner EXCEPT ![f] = h]
  /\ carries' = IF bound THEN carries \cup {f} ELSE carries
  /\ UNCHANGED <<prof, failed, assigned, profileRestore, profileStoring, listed, req,
                 doubt, profileBounds>>

Closes(h) ==
  /\ h \in pages \cap Hosts
  /\ pages' = {c \in pages : c # h /\ (c \in Frames => owner[c] # h)}
  /\ carries' = carries \cap pages'
  /\ req' = [f \in Frames |-> IF f \in pages' THEN req[f] ELSE Idle]
  /\ UNCHANGED <<owner, profileMemory, profileStoring, listed, doubt, profileBounds>>

-----------------------------------------------------------------------------
(* The restore, and the chain of snapshot writes.                           *)

RestoreStarts ==
  /\ profileRestore = "idle"
  /\ \/ queue > 0
     \/ \E f \in Frames : req[f].at = "gated"
  /\ profileRestore' = "reading"
  /\ UNCHANGED <<world, root, prof, unbound, failed, assigned, profileStoring, listed,
                 req, doubt, profileBounds>>

\* Roots assigned since the worker started keep their assignment.
RestoreEnds ==
  /\ profileRestore = "reading"
  /\ profileRestore' = "done"
  /\ \/ /\ profileDisk.kind = "kept"
        /\ failed' = (failed \/ profileDisk.uncertain)
        /\ prof' = [h \in Hosts |->
                     IF h \in assigned \/ profileDisk.roots[h] = NoHost
                     THEN prof[h] ELSE profileDisk.roots[h]]
     \/ /\ profileDisk.kind = "none"
        /\ UNCHANGED <<failed, prof>>
     \/ /\ profileDisk.kind = "corrupt"
        /\ failed' = TRUE
        /\ UNCHANGED prof
  /\ UNCHANGED <<world, root, unbound, assigned, profileStoring, listed, req,
                 doubt, profileBounds>>

\* The storage refuses the read although a snapshot is there.
RestoreFails ==
  /\ profileRestore = "reading"
  /\ profileRestore' = "done" /\ failed' = TRUE
  /\ UNCHANGED <<world, root, prof, unbound, assigned, profileStoring, listed, req,
                 doubt, profileBounds>>

Snapshot == [kind |-> "kept", roots |-> prof, uncertain |-> failed]

\* The write does not wait for the restore.
PersistTurnAtOnce ==
  /\ queue > 0 /\ put.kind = "none"
  /\ put' = Snapshot
  /\ UNCHANGED <<world, profileMemory, profileDisk, queue, listed, req, doubt, profileBounds>>

PersistTurn ==
  /\ queue > 0 /\ put.kind = "none" /\ profileRestore = "done"
  /\ put' = Snapshot
  /\ UNCHANGED <<world, profileMemory, profileDisk, queue, listed, req, doubt, profileBounds>>

PersistEnds(ok) ==
  /\ put.kind = "kept"
  /\ profileDisk' = IF ok THEN put ELSE profileDisk
  /\ put' = NoSnapshot("none") /\ queue' = queue - 1
  /\ UNCHANGED <<world, profileMemory, listed, req, doubt, profileBounds>>

-----------------------------------------------------------------------------
(* zl:jarProfile, and the prune of dead clients.                            *)

Push(h, p) ==
  /\ h \in pages /\ pushes < MaxPushes /\ queue <= MaxPushes   \* bound
  /\ pushes' = pushes + 1
  /\ assigned' = assigned \cup {h}
  /\ prof' = [prof EXCEPT ![h] = p]
  /\ root' = [root EXCEPT ![h] = h]
  /\ queue' = queue + 1
  /\ doubt' = doubt \ {h}
  /\ UNCHANGED <<world, unbound, failed, profileRestore, profileDisk, put, listed, req,
                 reboots>>

\* matchAll answers later than it looks.
PruneLists ==
  /\ listed.on = FALSE
  /\ listed' = [on |-> TRUE, of |-> pages]
  /\ UNCHANGED <<world, profileMemory, profileStoring, req, doubt, profileBounds>>

Prunes ==
  /\ listed.on /\ listed' = Unlisted
  /\ LET kept == {root[c] : c \in listed.of} \cup listed.of
         gone == {h \in Hosts : prof[h] # NoHost /\ h \notin kept}
         left == [h \in Hosts |-> IF h \in gone THEN NoHost ELSE prof[h]]
         private == \E h \in Hosts : left[h] = Session
         adrift == {c \in listed.of : root[c] # NoHost /\ left[root[c]] = NoHost /\ private}
     IN /\ prof' = left
        /\ assigned' = assigned \cup gone
        /\ root' = [c \in Clients |-> IF c \in listed.of \ adrift THEN root[c] ELSE NoHost]
        /\ unbound' = (unbound \cup adrift) \cap listed.of
        /\ queue' = IF gone # {} THEN queue + 1 ELSE queue
        /\ queue' <= MaxPushes + 1
  /\ UNCHANGED <<world, failed, profileRestore, profileDisk, put, req, doubt, profileBounds>>

-----------------------------------------------------------------------------
(* A request of a frame.                                                    *)

Arrives(f) ==
  /\ f \in pages /\ req[f].at = "idle"
  /\ req' = [req EXCEPT ![f] = [Idle EXCEPT !.at = "gated"]]
  /\ UNCHANGED <<world, profileMemory, profileStoring, listed, doubt, profileBounds>>

\* recoverJarClientRoot: the URL of the client names the root, or the client is
\* marked; only while some window has a session jar does the mark hold.
Recovered(f) ==
  IF RootOf(f) # NoHost THEN [root |-> root, unbound |-> unbound]
  ELSE IF f \in carries
       THEN [root |-> [root EXCEPT ![f] = owner[f]], unbound |-> unbound \ {f}]
       ELSE [root |-> root,
             unbound |-> IF AnySession THEN unbound \cup {f} ELSE unbound]

\* The gate opens when the restore is over, or at the deadline.
PassesGate(f, early) ==
  /\ f \in pages /\ req[f].at = "gated"
  /\ IF early THEN profileRestore = "reading" ELSE profileRestore = "done"
  /\ root' = Recovered(f).root /\ unbound' = Recovered(f).unbound
  /\ req' = [req EXCEPT ![f] = [at |-> "open", early |-> early, jar |-> NoJar]]
  /\ UNCHANGED <<world, prof, failed, assigned, profileRestore, profileStoring, listed,
                 doubt, profileBounds>>

\* cookieHeaderFor reads the jar of the client.
Attaches(f) ==
  /\ f \in pages /\ req[f].at = "open"
  /\ req' = [req EXCEPT ![f].at = "sent", ![f].jar = JarOf(f)]
  /\ UNCHANGED <<world, profileMemory, profileStoring, listed, doubt, profileBounds>>

\* applySetCookie admits the response's cookies into the jar of that moment.
TakesCookies(f) ==
  /\ f \in pages /\ req[f].at = "sent"
  /\ req' = [req EXCEPT ![f] = Idle]
  /\ UNCHANGED <<world, profileMemory, profileStoring, listed, doubt, profileBounds>>

-----------------------------------------------------------------------------
(* The worker stops and starts again; a put under way lands or not.         *)

ProfileRestart ==
  /\ reboots < MaxReboots /\ reboots' = reboots + 1
  /\ root' = [c \in Clients |-> NoHost] /\ prof' = [h \in Hosts |-> NoHost]
  /\ unbound' = {} /\ failed' = FALSE /\ assigned' = {} /\ profileRestore' = "idle"
  /\ \E lands \in BOOLEAN : profileDisk' = IF lands /\ put.kind = "kept" THEN put ELSE profileDisk
  /\ queue' = 0 /\ put' = NoSnapshot("none") /\ listed' = Unlisted
  /\ req' = [f \in Frames |-> Idle]
  /\ UNCHANGED <<world, doubt, pushes>>

ProfileNext ==
  \/ \E h \in Hosts : Closes(h)
  \/ \E f \in Frames, h \in Hosts, bound \in BOOLEAN :
       \E src \in {h, NoHost} : Navigates(f, h, src, bound)
  \/ RestoreStarts \/ RestoreEnds \/ RestoreFails
  \/ PersistTurn \/ (\E ok \in BOOLEAN : PersistEnds(ok))
  \/ \E h \in Hosts, p \in {Durable, Session} : Push(h, p)
  \/ PruneLists \/ Prunes
  \/ \E f \in Frames : \/ Arrives(f) \/ Attaches(f) \/ TakesCookies(f)
                       \/ \E early \in BOOLEAN : PassesGate(f, early)
  \/ ProfileRestart

ProfileSpec == ProfileInit /\ [][ProfileNext]_profileVars

-----------------------------------------------------------------------------
UsesJar(f) == Attaches(f) \/ TakesCookies(f)

(* After an unreadable snapshot no frame uses the durable jar before its    *)
(* own window has selected a profile, in this worker or a later one.        *)
UncertainStaysClosed ==
  [][ \A f \in Frames :
        UsesJar(f) /\ owner[f] \in doubt /\ ~req[f].early =>
          JarOf(f).name # Durable ]_profileVars

(* A snapshot that replaces another one keeps what the old one says of the  *)
(* windows that the running worker has not been told about, or it carries   *)
(* the marker that keeps them out of the durable jar.                       *)
SnapshotKeepsRoots ==
  [][ \A h \in Hosts :
        profileDisk.kind = "kept" /\ profileDisk' # profileDisk /\ reboots' = reboots
          /\ h \notin assigned =>
        profileDisk'.roots[h] = profileDisk.roots[h] \/ profileDisk'.uncertain ]_profileVars

(* docs/cookies.md: past the deadline a request proceeds on the same        *)
(* fail-closed default as with an unreadable snapshot: no durable cookies   *)
(* for a window that the worker has not heard of.                           *)
DeadlineFailsClosed ==
  [][ \A f \in Frames :
        UsesJar(f) /\ req[f].early /\ profileRestore = "reading"
          /\ owner[f] \notin assigned =>
        JarOf(f).name # Durable ]_profileVars

(* The cookies that answer a session jar's request never enter the durable  *)
(* jar.                                                                     *)
SessionStaysInMemory ==
  [][ \A f \in Frames :
        TakesCookies(f) /\ req[f].jar.name = Session => JarOf(f).name # Durable ]_profileVars

\* JarProfiles: a window of unknown profile stays out of the durable jar, and no
\* snapshot forgets which windows those are; with the types.
WindowsKeepTheirJar == []ProfileTypeOK /\ UncertainStaysClosed /\ SnapshotKeepsRoots
=============================================================================
