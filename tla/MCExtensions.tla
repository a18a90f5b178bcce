---------------------------- MODULE MCExtensions ----------------------------
(***************************************************************************)
(* The extension subsystem and the tools of the host page for TLC: the     *)
(* manager with the background contexts, the alarms, the tabs bridge, the  *)
(* pages of an extension with their ports, messages, menus, what the       *)
(* host's UI shows, optional permissions, a storage area, the messages of  *)
(* the control plane, and inspection, search and the request log.  A       *)
(* behaviour explores one of them, chosen initially; some share the        *)
(* counters of operations, faults and kills.                               *)
(***************************************************************************)
EXTENDS ExtPages, ExtPermissions, ExtStorage, ControlPlane

VARIABLES part, up, ops, faults, deaths,
          workers, rec, meta, puts, busy, boot, waking, swRunning, idle, listeners,
          msg, target, due,
          table, timers, stored, asked, hydrating, firing, demand, listening, wired,
          now, unheard,
          known, host, opener, syncs, calls, nonceSeq, life, toHost, toPages, turns,
          items,
          defaults, over, touched, notes, seq, toUi, shown, events, created, closed, lost,
          doc, inspector, inbox, sessions, bundle, inspections, pinned,
          place, hits, ord, heard, finder, finds,
          rows, epoch, last, tracing, recording, window, record, wanted, panel, polls, crossed

backgroundVars == <<workers, rec, meta, puts, busy, boot, waking, swRunning, idle,
                    listeners, msg, target, due>>
alarmVars == <<table, timers, stored, asked, hydrating, firing, demand, listening, wired,
               now, unheard>>
tabVars == <<known, host, opener, syncs, calls, nonceSeq, life, toHost, toPages, turns>>
surfaceVars == <<defaults, over, touched, notes, seq, toUi, shown, events, created, closed,
                 lost>>
inspectVars == <<doc, inspector, inbox, sessions, bundle, inspections, pinned>>
findVars == <<place, hits, ord, heard, finder, finds>>
logVars == <<rows, epoch, last, tracing, recording, window, record, wanted, panel, polls, crossed>>
toolVars == <<inspectVars, findVars, logVars, areaVars, controlVars>>
hostVars == <<items, surfaceVars, permissionVars>>
coreVars == <<backgroundVars, alarmVars, tabVars, pageVars, messageVars>>
countVars == <<up, ops, faults>>

OneExt == {"e"}
TwoExts == {"e", "f"}
TwoMessages == {"m1", "m2"}
Background == INSTANCE ExtBackground WITH
  Exts <- OneExt, Messages <- TwoMessages, MaxOps <- 3, MaxFaults <- 1, MaxKills <- 1,
  MaxPuts <- 3, kills <- deaths
TwoNames == {"a", "b"}
Alarms == INSTANCE ExtAlarms WITH
  Names <- TwoNames, MaxNow <- 2, MaxOps <- 2, MaxAsked <- 3, MaxFaults <- 1, MaxKills <- 1,
  kills <- deaths
TwoTabs == {1, 2}
OnePage == {"p"}
TabsBridge == INSTANCE ExtTabs WITH
  Tabs <- TwoTabs, Pages <- OnePage, Exts <- TwoExts, MaxOps <- 2, MaxTurns <- 1,
  MaxSyncs <- 1, MaxKills <- 1, ops <- calls, posted <- toHost, asked <- toPages
ThreeItems == {"a", "b", "c"}
OneTab == {1}
TwoKeys == {"k", "l"}
OneValue == {"x"}
OneName == {"n1"}
Surfaces == INSTANCE ExtSurfaces WITH
  Items <- ThreeItems, MaxItems <- 3,
  Tabs <- OneTab, Keys <- TwoKeys, Values <- OneValue, Exts <- TwoExts, Names <- OneName,
  MaxOps <- 5, toHost <- toUi
TwoClients == {"p1", "p2"}
Inspections == {1, 2, 3}
Tools == INSTANCE HostTools WITH
  bridge <- inspector, asked <- inspections, life <- epoch, rec <- recording, view <- panel,
  Clients <- TwoClients, Calls <- Inspections, SessionCap <- 1, RingCap <- 2, MaxDocs <- 2,
  MaxHits <- 1, MaxRows <- 3, MaxPolls <- 1
Searches == {1, 2}
Finding == INSTANCE HostTools WITH
  bridge <- inspector, asked <- inspections, life <- epoch, rec <- recording, view <- panel,
  Clients <- TwoClients, Calls <- Searches, SessionCap <- 1, RingCap <- 2, MaxDocs <- 2,
  MaxHits <- 1, MaxRows <- 3, MaxPolls <- 1

Url(path, token) == [same |-> TRUE, path |-> path, token |-> token]
ThreeSenders == {Url("host", FALSE), Url("host", TRUE), Url("ext", FALSE)}

ExtInit ==
  /\ part \in {"background", "alarms", "tabs", "pages", "messages", "menus", "surfaces",
             "permissions", "inspection", "search", "log", "storage", "control"}
  /\ Background!Init /\ Alarms!Init /\ TabsBridge!Init /\ PageInit /\ MessageInit
  /\ Surfaces!Init /\ PermissionInit
  /\ part = "background" \/ (meta = rec /\ workers = {})
  /\ part = "alarms" \/ ~demand
  /\ Tools!InspectInit /\ Finding!FindInit /\ Tools!LogInit
  /\ AreaInit /\ ControlInit
  /\ part = "storage" \/ area = "local"
  /\ part = "control" \/ extPages = {}
  /\ part = "search" \/ \A c \in TwoClients : place[c] = "away"

ExtNext ==
  \/ part = "background" /\ Background!Next
     /\ UNCHANGED <<part, toolVars, hostVars, alarmVars, tabVars, pageVars, messageVars>>
  \/ part = "alarms" /\ Alarms!Next
     /\ UNCHANGED <<part, toolVars, hostVars, backgroundVars, tabVars, pageVars, messageVars>>
  \/ part = "tabs" /\ TabsBridge!Next
     /\ UNCHANGED <<part, toolVars, hostVars, countVars, deaths, backgroundVars, alarmVars, pageVars, messageVars>>
  \/ part = "pages" /\ PageNext
     /\ UNCHANGED <<part, toolVars, hostVars, countVars, deaths, backgroundVars, alarmVars, tabVars, messageVars>>
  \/ part = "messages" /\ MessageNext
     /\ UNCHANGED <<part, toolVars, hostVars, countVars, deaths, backgroundVars, alarmVars, tabVars, pageVars>>
  \/ part = "menus" /\ Surfaces!MenuNext
     /\ UNCHANGED <<part, toolVars, countVars, deaths, coreVars, surfaceVars, permissionVars>>
  \/ part = "surfaces" /\ Surfaces!SurfaceNext
     /\ UNCHANGED <<part, toolVars, up, faults, deaths, coreVars, permissionVars>>
  \/ part = "permissions" /\ PermissionNext
     /\ UNCHANGED <<part, toolVars, countVars, deaths, coreVars, items, surfaceVars>>
  \/ /\ UNCHANGED <<part, countVars, deaths, coreVars, hostVars, inspectVars, findVars, logVars>>
     /\ \/ part = "storage" /\ AreaNext /\ UNCHANGED controlVars
        \/ part = "control" /\ ControlNext /\ UNCHANGED areaVars
  \/ /\ UNCHANGED <<part, countVars, deaths, coreVars, hostVars, areaVars, controlVars>>
     /\ \/ part = "inspection" /\ Tools!InspectNext /\ UNCHANGED <<findVars, logVars>>
        \/ part = "search" /\ Finding!FindNext /\ UNCHANGED <<inspectVars, logVars>>
        \/ part = "log" /\ Tools!LogNext /\ UNCHANGED <<inspectVars, findVars>>

ExtSpec ==
  ExtInit /\ [][ExtNext]_<<part, toolVars, countVars, deaths, coreVars, hostVars>>

\* The types of the parts.
ExtTypeOK ==
  CASE part = "background" -> Background!TypeOK
    [] part = "alarms" -> Alarms!TypeOK
    [] part = "tabs" -> TabsBridge!TypeOK
    [] part = "messages" -> MessageTypeOK
    [] part \in {"menus", "surfaces"} -> Surfaces!TypeOK
    [] OTHER -> TRUE

\* What is kept twice agrees, besides the types.  ExtBackground, ExtAlarms: what runs has a
\* timer that ends it, each alarm of the table has one timer that fires it, and when nothing
\* waits to be written the store agrees with the manager's record and with the table.
\* ExtSurfaces, #43, #519: the menus are a forest, a tab shows the defaults where nothing
\* else was set for it, and the host shows the notifications there are.  HostTools:
\* recordings and the polled log are whole.
CopiesAgree ==
  /\ ExtTypeOK
  /\ part = "background" => Background!RunningIsTimed /\ Background!QuietRecordIsStored
  /\ part = "alarms" => Alarms!TimersAreTheTable /\ Alarms!QuietListIsStored
  /\ part = "menus" => Surfaces!MenusAreAForest
  /\ part = "surfaces" => Surfaces!DefaultsShowThrough /\ Surfaces!NotesAgree
  /\ part = "log" => Tools!LogsAreWhole

\* ExtTabs, ExtPages, #185, #283: what was asked of the host, of a page or of a
\* background is answered by the tab or the listener it was meant for, in the asker's
\* name, once, and nothing waits on a tab that is closed.  HostTools, #29: a search
\* command is answered once, by a page at its destination or by an error.
\* HostTools, #550: what an inspection answers with is of the document that was authorized.
AnswersAreSound ==
  /\ part = "inspection" => Tools!InspectionIsAuthorized
  /\ part = "search" => Finding!FindIsAnswered
  /\ part = "tabs" => TabsBridge!CreateGetsItsTab /\ TabsBridge!NothingWaitsOnClosed /\ TabsBridge!RepliesAreOwn
  /\ part = "messages" => FirstAnswerWins
=============================================================================
