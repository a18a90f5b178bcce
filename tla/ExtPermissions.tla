--------------------------- MODULE ExtPermissions ---------------------------
(***************************************************************************)
(* Optional permissions of one extension: the manager's record, the view   *)
(* that the permissions API answers from (extensions/advanced-             *)
(* permissions.ts), and the arrays that the contexts of the extension      *)
(* share with the record.  A grant pushes onto the record's array, which   *)
(* contexts hold too; a revoke gives the record a new array.  The webRequest *)
(* registry (extensions/webrequest.ts) decides with the array of the       *)
(* context that registered last.                                           *)
(***************************************************************************)
EXTENDS Integers, Sequences, FiniteSets

CONSTANTS
  Required,    \* what the manifest demands
  Optional,    \* what it declares optional; "host" and "blocking" matter to webRequest
  MaxCalls,    \* bound: calls of request and remove in one life
  MaxPuts,     \* bound: writes under way
  MaxEnds      \* bound: ends of the worker

\* the view that was not read yet is no set of permissions
ASSUME ViewAssumption == "no view" \notin Required \cup Optional

ASSUME PermissionsAssumption == MaxCalls \in Nat /\ MaxPuts \in Nat /\ MaxEnds \in Nat

VARIABLES
  arrays,      \* the arrays there were in this life; the last is the record's
  view,        \* the view of the permissions API, or NoView
  requests,    \* request and remove, in the order in which they go on
  writes,      \* writes of the record under way
  saved,       \* the stored record
  context,     \* the array that the running context holds
  registered,  \* the array by which webRequest listeners are judged, or 0 for none
  announced,   \* how often onAdded told of each, less how often onRemoved did
  overlapped,  \* two calls were ever under way at once
  failed,      \* a write failed
  judged,      \* the last request a listener wanted to cancel: passed or cancelled
  ends

permissionVars == <<arrays, view, requests, writes, saved, context, registered, announced,
                    overlapped, failed, judged, ends>>

NoView == {"no view"}
Record == arrays[Len(arrays)]
Count(ps) == [p \in Required \cup Optional |-> IF p \in ps THEN 1 ELSE 0]
Starting(grants) ==
  /\ arrays = <<grants>> /\ view = NoView /\ requests = <<>> /\ writes = 0
  /\ context = 1 /\ registered = 0 /\ announced = Count(grants) /\ overlapped = FALSE
  /\ judged = "passed"

PermissionInit == Starting(Required) /\ saved = Required /\ failed = FALSE /\ ends = 0

\* view: the first use copies the array of the context
Seen == IF view = NoView THEN arrays[context] ELSE view

Underway == Cardinality({i \in 1..Len(requests) : requests[i].at # "done"})
Goes(call) ==
  /\ Len(requests) < MaxCalls /\ writes < MaxPuts
  /\ requests' = Append(requests, call) /\ view' = Seen
  /\ overlapped' = (overlapped \/ Underway > 0)

-----------------------------------------------------------------------------
\* request: what is not declared optional is refused; the rest is pushed onto the
\* array, one by one, and the record is written
Request(ps) ==
  /\ IF ps \subseteq Optional
       THEN /\ Goes([op |-> "grant", asked |-> ps, prior |-> Seen, array |-> Len(arrays),
                     after |-> {}, at |-> "granted"])
            /\ arrays' = [arrays EXCEPT ![Len(arrays)] = @ \cup ps] /\ writes' = writes + 1
       ELSE /\ Goes([op |-> "grant", asked |-> ps, prior |-> Seen, array |-> 0,
                     after |-> {}, at |-> "refused"])
            /\ UNCHANGED <<arrays, writes>>
  /\ UNCHANGED <<saved, context, registered, announced, failed, judged, ends>>

\* remove: the record gets a new array
Removes(ps) ==
  /\ Goes([op |-> "revoke", asked |-> ps, prior |-> Seen, array |-> Len(arrays) + 1,
           after |-> {}, at |-> "granted"])
  /\ arrays' = Append(arrays, Record \ ps) /\ writes' = writes + 1
  /\ UNCHANGED <<saved, context, registered, announced, failed, judged, ends>>

\* calls go on in their order, one await after the other
First(i, at) ==
  /\ i \in 1..Len(requests) /\ requests[i].at = at
  /\ \A j \in 1..(i - 1) : requests[j].at # at

\* the backend copies the arrays of the clone it was given, whose contents may have grown
Copies(i) ==
  /\ First(i, "granted")
  /\ requests' = [requests EXCEPT ![i].after = arrays[requests[i].array], ![i].at = "copied"]
  /\ UNCHANGED <<arrays, view, writes, saved, context, registered, announced, overlapped,
                 failed, judged, ends>>

\* Mutant: events carry what was asked for.
AllAsked(c) == c.asked

\* #522: the entries that changed against the view the call began with
Delta(c) ==
  IF c.op = "grant" THEN {p \in c.asked : p \notin c.prior /\ p \in c.after}
                    ELSE {p \in c.asked : p \in c.prior /\ p \notin c.after}

\* the view becomes the copy, and the listeners are told
Ends(i) ==
  /\ First(i, "copied")
  /\ requests' = [requests EXCEPT ![i].at = "done"] /\ view' = requests[i].after
  /\ LET told == Count(Delta(requests[i])) IN
       announced' = [p \in DOMAIN announced |->
         IF requests[i].op = "grant" THEN announced[p] + told[p] ELSE announced[p] - told[p]]
  /\ UNCHANGED <<arrays, writes, saved, context, registered, overlapped, failed, judged, ends>>

Refused(i) ==
  /\ First(i, "refused") /\ requests' = [requests EXCEPT ![i].at = "done"]
  /\ UNCHANGED <<arrays, view, writes, saved, context, registered, announced, overlapped,
                 failed, judged, ends>>

-----------------------------------------------------------------------------
\* a write stores the record as it is then; or it fails, silently
Stores ==
  /\ writes > 0 /\ writes' = writes - 1
  /\ \/ saved' = Record /\ failed' = failed
     \/ ~failed /\ saved' = saved /\ failed' = TRUE
  /\ UNCHANGED <<arrays, view, requests, context, registered, announced, overlapped, judged, ends>>

\* the background is terminated and booted: its context gets the record's array.
\* The listeners of the old context stay registered.
Boot ==
  /\ context # Len(arrays) /\ context' = Len(arrays)
  /\ UNCHANGED <<arrays, view, requests, writes, saved, registered, announced, overlapped,
                 failed, judged, ends>>

\* #282: a registration renews the extension's permission getter
Registers ==
  /\ registered # context /\ registered' = context
  /\ UNCHANGED <<arrays, view, requests, writes, saved, context, announced, overlapped, failed,
                 judged, ends>>

\* beforeRequest, with a listener that cancels: it must see the host and may block
Judge ==
  /\ registered # 0
  /\ judged' = IF {"host", "blocking"} \subseteq arrays[registered] THEN "cancelled" ELSE "passed"
  /\ judged' # judged
  /\ UNCHANGED <<arrays, view, requests, writes, saved, context, registered, announced,
                 overlapped, failed, ends>>

\* the worker ends, with writes under way; the next one starts from the store
WorkerEnds ==
  /\ ends < MaxEnds /\ ends' = ends + 1
  /\ arrays' = <<saved>> /\ view' = NoView /\ requests' = <<>> /\ writes' = 0
  /\ context' = 1 /\ registered' = 0 /\ announced' = Count(saved) /\ overlapped' = FALSE
  /\ judged' = "passed" /\ UNCHANGED <<saved, failed>>

PermissionNext ==
  \/ \E ps \in SUBSET (Required \cup Optional) \ {{}} : Request(ps) \/ Removes(ps)
  \/ \E i \in 1..Len(requests) : Copies(i) \/ Ends(i) \/ Refused(i)
  \/ Stores \/ Boot \/ Registers \/ Judge \/ WorkerEnds

PermissionSpec == PermissionInit /\ [][PermissionNext]_permissionVars

-----------------------------------------------------------------------------
Granted == SUBSET (Required \cup Optional)
ApiCalls == [op : {"grant", "revoke"}, asked : Granted, prior : Granted, array : Nat,
             after : Granted, at : {"granted", "refused", "copied", "done"}]
PermissionTypeOK ==
  /\ arrays \in Seq(Granted) /\ arrays # <<>> /\ view \in Granted \cup {NoView}
  /\ requests \in Seq(ApiCalls) /\ Len(requests) <= MaxCalls
  /\ writes \in 0..MaxPuts /\ saved \in Granted
  /\ context \in 1..Len(arrays) /\ registered \in 0..Len(arrays)
  /\ announced \in [Required \cup Optional -> Int]
  /\ overlapped \in BOOLEAN /\ failed \in BOOLEAN /\ judged \in {"passed", "cancelled"}
  /\ ends \in 0..MaxEnds

\* When no call is under way, the API answers with the record's grants, whichever calls
\* overlapped; when no write is, the store has them too.
QuietViewIsRecord ==
  /\ Underway = 0 /\ view # NoView => view = Record
  /\ writes = 0 /\ ~failed => saved = Record

\* #522: unless calls overlapped, what the events told adds up to what is
\* granted: a permission is announced when it comes and when it goes, once.
EventsAddUp == Underway = 0 /\ ~overlapped => announced = Count(Record)

\* #522: quiet, the API and the store have the record's grants, and what the listeners
\* were told adds up to them.
GrantsAgree == PermissionTypeOK /\ QuietViewIsRecord /\ EventsAddUp

\* #282, as webrequest.ts:98-102 has it: every delivery reads the extension's current
\* grants.  Refuted: a revoke gives the record an array that the contexts do not hold.
RevokedIsUnused == registered # 0 => arrays[registered] \subseteq Record
=============================================================================
