----------------------------- MODULE ExtBackground -----------------------------
(***************************************************************************)
(* The extensions of the worker: the manager's records and their store      *)
(* (extensions/manager.ts), the boot of a background, the on-demand life of *)
(* MV3 service-worker backgrounds (extensions/background.ts), and the       *)
(* messages that wake one (extensions/control.ts, messaging.ts).            *)
(*                                                                          *)
(* A background runs inside the worker that everything else runs in, so a   *)
(* boot is a sequence of awaits that any other handler may come between.    *)
(* The store takes one write after the other; what waits is lost when the   *)
(* worker is killed.  What a script does is left open: it throws or not.    *)
(***************************************************************************)
EXTENDS Naturals, Sequences, FiniteSets

CONSTANTS Exts, Messages,
          MaxOps,     \* bound: installs, removals, switches and reloads
          MaxFaults,  \* bound: failures of the store
          MaxKills,   \* bound
          MaxPuts     \* bound: the writes that wait in the store

VARIABLES workers,    \* the extensions whose background is a service worker
          rec,        \* the manager's record of each extension
          meta,       \* the stored record
          puts,       \* the writes that wait
          busy,       \* the manager's operation under way
          boot,       \* where bootExtension is
          waking,     \* that boot was asked for by wakeExtension
          swRunning, idle,
          listeners,  \* the messenger's listeners of an extension are there
          msg,        \* each message: "none", "waking", "delivered", "refused"
          target,     \* its extension
          due,        \* what bootEnabled has still to boot
          up, ops, faults, kills

vars == <<workers, rec, meta, puts, busy, boot, waking, swRunning, idle, listeners, msg,
          target, due, up, ops, faults, kills>>
bounds == <<workers, up, ops, faults, kills>>
messages == <<msg, target>>
life == <<boot, waking, swRunning, idle, listeners, due>>
store == <<meta, puts>>

States == {"installed", "starting", "running", "disabled", "error", "uninstalled"}
Records == [on : BOOLEAN, enabled : BOOLEAN, state : States]
Gone == [on |-> FALSE, enabled |-> FALSE, state |-> "uninstalled"]
Fresh == [on |-> TRUE, enabled |-> TRUE, state |-> "installed"]
Busy == {"no", "installing", "removing", "reloading"}
Boots == {"none", "opening", "loading", "fetched", "marking"}

TypeOK ==
  /\ rec \in [Exts -> Records] /\ meta \in [Exts -> Records]
  /\ \A e \in Exts : puts[e] \in Seq(Records) /\ Len(puts[e]) <= MaxPuts
  /\ busy \in [Exts -> Busy] /\ boot \in [Exts -> Boots]
  /\ waking \subseteq Exts /\ workers \subseteq Exts /\ swRunning \subseteq workers /\ idle \subseteq workers
  /\ listeners \subseteq Exts /\ due \subseteq Exts \ workers
  /\ msg \in [Messages -> {"none", "waking", "delivered", "refused"}]
  /\ target \in [Messages -> Exts] /\ up \in BOOLEAN
  /\ ops \in 0..MaxOps /\ faults \in 0..MaxFaults /\ kills \in 0..MaxKills

Init ==
  /\ \E on \in SUBSET Exts :
       meta = [e \in Exts |-> IF e \in on THEN Fresh ELSE Gone]
  /\ rec = [e \in Exts |-> Gone] /\ puts = [e \in Exts |-> <<>>]
  /\ busy = [e \in Exts |-> "no"] /\ boot = [e \in Exts |-> "none"]
  /\ waking = {} /\ swRunning = {} /\ idle = {} /\ listeners = {}
  /\ msg = [m \in Messages |-> "none"]
  /\ target \in [Messages -> Exts]
  /\ workers \in SUBSET Exts
  /\ due = {} /\ up = FALSE /\ ops = 0 /\ faults = 0 /\ kills = 0

-----------------------------------------------------------------------------
(* The store.                                                               *)

Asks(e, r) == Len(puts[e]) < MaxPuts /\ puts' = [puts EXCEPT ![e] = Append(@, r)]
Keeps(e, r) == rec' = [rec EXCEPT ![e] = r] /\ Asks(e, r)
\* Before the write asks for the store, a record that is not in the map is let go.
SetState(e, state) ==
  IF rec[e].on THEN Keeps(e, [rec[e] EXCEPT !.state = state])
  ELSE UNCHANGED <<rec, puts>>

Lands(e) ==
  /\ puts[e] # <<>>
  /\ meta' = [meta EXCEPT ![e] = Head(puts[e])]
  /\ puts' = [puts EXCEPT ![e] = Tail(@)]
  /\ UNCHANGED <<rec, busy, life, messages, bounds>>
\* A failed write is dropped.
Drops(e) ==
  /\ puts[e] # <<>> /\ faults < MaxFaults /\ faults' = faults + 1
  /\ puts' = [puts EXCEPT ![e] = Tail(@)]
  /\ UNCHANGED <<rec, meta, busy, life, messages, workers, up, ops, kills>>

-----------------------------------------------------------------------------
(* The operations of the manager.                                           *)

Op == up /\ ops < MaxOps /\ ops' = ops + 1 /\ UNCHANGED <<workers, up, faults, kills>>
Turns(e, b) == busy' = [busy EXCEPT ![e] = b]

\* installFiles stores the record and the files; the map comes last.
InstallStarts(e) ==
  /\ Op /\ ~rec[e].on /\ busy[e] = "no"
  /\ Turns(e, "installing") /\ Asks(e, Fresh)
  /\ UNCHANGED <<rec, meta, life, messages>>
InstallEnds(e) ==
  /\ busy[e] = "installing" /\ Turns(e, "no") /\ puts[e] = <<>>
  /\ rec' = [rec EXCEPT ![e] = Fresh]
  /\ due' = due \cup ({e} \ workers)      \* bootInstalled
  /\ UNCHANGED <<store, boot, waking, swRunning, idle, listeners, messages, bounds>>
\* A file that cannot be stored fails the install; its record stays behind.
InstallFails(e) ==
  /\ busy[e] = "installing" /\ Turns(e, "no")
  /\ faults < MaxFaults /\ faults' = faults + 1
  /\ UNCHANGED <<rec, store, life, messages, workers, up, ops, kills>>

\* uninstall deletes the record and then the files; the map comes last.
UninstallStarts(e) ==
  /\ Op /\ rec[e].on /\ busy[e] = "no"
  /\ Turns(e, "removing") /\ Asks(e, Gone)
  /\ UNCHANGED <<rec, meta, life, messages>>
UninstallEnds(e) ==
  /\ busy[e] = "removing" /\ Gone \notin {puts[e][i] : i \in DOMAIN puts[e]}
  /\ Turns(e, "no") /\ rec' = [rec EXCEPT ![e] = Gone]
  /\ UNCHANGED <<store, life, messages, bounds>>

SetEnabled(e) ==
  /\ Op /\ rec[e].on
  /\ LET on == ~rec[e].enabled
     IN Keeps(e, [rec[e] EXCEPT !.enabled = on,
                                !.state = IF on THEN "installed" ELSE "disabled"])
  /\ UNCHANGED <<meta, busy, life, messages>>

\* runtime.reload: the package is parsed again, and the background starts over.
ReloadSaves(e) ==
  /\ Op /\ rec[e].on /\ busy[e] = "no" /\ Turns(e, "reloading")
  /\ Keeps(e, [rec[e] EXCEPT !.state = "installed"])
  /\ UNCHANGED <<meta, life, messages>>
IdleTerminated(e) ==
  /\ idle' = idle \ {e} /\ swRunning' = swRunning \ {e}
  /\ IF e \in swRunning /\ rec[e].state = "running" THEN SetState(e, "installed")
     ELSE UNCHANGED <<rec, puts>>
\* Bound: a script background is not reloaded in the middle of its boot.
ReloadEnds(e) ==
  /\ busy[e] = "reloading" /\ Turns(e, "no")
  /\ listeners' = listeners \ {e}
  /\ IF e \in workers
     THEN /\ IF rec[e].on /\ rec[e].enabled THEN IdleTerminated(e)
             ELSE UNCHANGED <<idle, swRunning, rec, puts>>
          /\ UNCHANGED due
     ELSE /\ boot[e] = "none" /\ due' = due \cup {e}
          /\ UNCHANGED <<idle, swRunning, rec, puts>>
  /\ UNCHANGED <<meta, boot, waking, messages, bounds>>

-----------------------------------------------------------------------------
(* The boot of a background, and what waits for it.                         *)

Waiting(e) == {m \in Messages : msg[m] = "waking" /\ target[m] = e}
\* The send that follows the wake finds the listeners, or is refused.
Sent(ms, e) ==
  msg' = [m \in Messages |->
            IF m \notin ms THEN msg[m]
            ELSE IF e \in listeners' THEN "delivered" ELSE "refused"]
Refused(ms) == msg' = [m \in Messages |-> IF m \in ms THEN "refused" ELSE msg[m]]
At(e, pc) == boot[e] = pc
Goes(e, pc) == boot' = [boot EXCEPT ![e] = pc]

\* bootEnabled and bootInstalled start the script backgrounds.
BootStarts(e) ==
  /\ up /\ e \in due /\ At(e, "none") /\ due' = due \ {e}
  /\ Goes(e, IF rec[e].on /\ rec[e].enabled THEN "opening" ELSE "none")
  /\ UNCHANGED <<rec, store, busy, waking, swRunning, idle, listeners, messages, bounds>>
Opened(e) ==
  /\ At(e, "opening") /\ Goes(e, "loading")
  /\ SetState(e, "starting")
  /\ UNCHANGED <<meta, busy, waking, swRunning, idle, listeners, due, messages, bounds>>
\* The store cannot be opened: bootExtension throws, and so does wakeExtension.
BootThrows(e) ==
  /\ At(e, "opening") \/ At(e, "marking")
  /\ faults < MaxFaults /\ faults' = faults + 1
  /\ Goes(e, "none") /\ waking' = waking \ {e} /\ Refused(Waiting(e))
  /\ UNCHANGED <<rec, store, busy, swRunning, idle, listeners, due, target, workers, up, ops, kills>>
\* getResource answers nothing for a disabled or removed extension.
Fetched(e) ==
  /\ At(e, "loading") /\ rec[e].on /\ rec[e].enabled
  /\ Goes(e, "fetched")
  /\ UNCHANGED <<rec, store, busy, waking, swRunning, idle, listeners, due, messages, bounds>>
NotFetched(e) ==
  /\ At(e, "loading") /\ ~(rec[e].on /\ rec[e].enabled /\ busy[e] = "no")
  /\ Goes(e, "marking") /\ SetState(e, "error")
  /\ UNCHANGED <<meta, busy, waking, swRunning, idle, listeners, due, messages, bounds>>
\* The scripts register their listeners; one that throws may have before.
Runs(e) ==
  /\ At(e, "fetched") /\ Goes(e, "marking")
  /\ \/ listeners' = listeners \cup {e} /\ SetState(e, "running")
     \/ listeners' \in {listeners, listeners \cup {e}} /\ SetState(e, "error")
  /\ UNCHANGED <<meta, busy, waking, swRunning, idle, due, messages, bounds>>
\* The boot marker is stored, and wakeExtension goes on.
Marked(e) ==
  /\ At(e, "marking") /\ Goes(e, "none") /\ waking' = waking \ {e}
  /\ IF e \notin waking THEN UNCHANGED <<swRunning, idle>>
     ELSE IF rec[e].state = "error"
          THEN swRunning' = swRunning \ {e} /\ UNCHANGED idle
          ELSE idle' = idle \cup {e} /\ UNCHANGED swRunning
  /\ UNCHANGED <<rec, store, busy, listeners, due, target, bounds>>
  /\ Sent(Waiting(e), e)

\* wakeExtension on behalf of a message of a content script or a page.
Arrives(m) ==
  LET e == target[m]
  IN /\ up /\ msg[m] = "none" /\ rec[e].on /\ rec[e].enabled
     /\ UNCHANGED listeners
     /\ IF rec[e].state = "error" \/ e \notin workers
        THEN Sent({m}, e) /\ UNCHANGED <<boot, waking, swRunning, idle>>
        ELSE IF e \in swRunning
        THEN /\ idle' = idle \cup {e} /\ Sent({m}, e)
             /\ UNCHANGED <<boot, waking, swRunning>>
        ELSE /\ At(e, "none")      \* bound: one boot of an extension at a time
             /\ swRunning' = swRunning \cup {e} /\ waking' = waking \cup {e}
             /\ Goes(e, "opening") /\ msg' = [msg EXCEPT ![m] = "waking"]
             /\ UNCHANGED idle
     /\ UNCHANGED <<rec, store, busy, due, target, bounds>>

IdleFires(e) ==
  /\ e \in idle
  /\ IdleTerminated(e)
  /\ listeners' = IF e \in swRunning THEN listeners \ {e} ELSE listeners
  /\ UNCHANGED <<meta, busy, boot, waking, due, messages, bounds>>

-----------------------------------------------------------------------------
Startup ==
  /\ ~up /\ up' = TRUE
  /\ rec' = meta
  /\ due' = {e \in Exts \ workers : meta[e].on /\ meta[e].enabled}
  /\ UNCHANGED <<store, busy, boot, waking, swRunning, idle, listeners, messages,
                 workers, ops, faults, kills>>
Killed ==
  /\ up /\ up' = FALSE /\ kills < MaxKills /\ kills' = kills + 1
  /\ rec' = [e \in Exts |-> Gone] /\ puts' = [e \in Exts |-> <<>>]
  /\ busy' = [e \in Exts |-> "no"] /\ boot' = [e \in Exts |-> "none"]
  /\ waking' = {} /\ swRunning' = {} /\ idle' = {} /\ listeners' = {} /\ due' = {}
  /\ Refused({m \in Messages : msg[m] = "waking"})
  /\ UNCHANGED <<meta, target, workers, ops, faults>>

Next ==
  \/ Startup \/ Killed
  \/ \E e \in Exts :
       \/ Lands(e) \/ Drops(e)
       \/ InstallStarts(e) \/ InstallEnds(e) \/ InstallFails(e)
       \/ UninstallStarts(e) \/ UninstallEnds(e)
       \/ SetEnabled(e) \/ ReloadSaves(e) \/ ReloadEnds(e)
       \/ BootStarts(e) \/ Opened(e) \/ BootThrows(e)
       \/ Fetched(e) \/ NotFetched(e) \/ Runs(e) \/ Marked(e) \/ IdleFires(e)
  \/ \E m \in Messages : Arrives(m)

Spec == Init /\ [][Next]_vars

-----------------------------------------------------------------------------
(* When no write waits and none failed, the stored record of an installed   *)
(* extension is the manager's: a restart finds the state the user left.     *)
QuietRecordIsStored ==
  \A e \in Exts :
    up /\ rec[e].on /\ busy[e] = "no" /\ puts[e] = <<>> /\ faults = 0 =>
      meta[e] = rec[e]

(* A service-worker background that is up, and not in its boot, has its     *)
(* idle timer armed: nothing keeps it, or the bit that stops the next wake  *)
(* from booting it, beyond 30 s of silence, unless the store failed.        *)
RunningIsTimed ==
  \A e \in swRunning : boot[e] = "none" /\ faults = 0 => e \in idle

(* control.ts: a wake lets the background receive the message.  A message   *)
(* is refused only when its background could not be started.                *)
WokenCanAnswer ==
  [][ \A m \in Messages :
        /\ msg[m] # "refused" /\ msg'[m] = "refused"
        /\ faults' = 0 /\ up'
        => LET r == rec[target[m]]
           IN ~r.enabled \/ r.state \in {"error", "disabled"} \/ target[m] \notin workers ]_vars

(* Nothing of a removed extension comes back at the next restart.           *)
RemovedStaysRemoved ==
  \A e \in Exts : up /\ ~rec[e].on /\ busy[e] = "no" /\ puts[e] = <<>> /\ faults = 0
                    => ~meta[e].on
=============================================================================
