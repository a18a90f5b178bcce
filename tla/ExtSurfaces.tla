----------------------------- MODULE ExtSurfaces -----------------------------
(***************************************************************************)
(* What an extension shows in the host's own UI: its menu items, a list    *)
(* whose entries name their parents (extensions/contextmenus.ts); the      *)
(* toolbar action with its defaults and its overrides by tab               *)
(* (extensions/action.ts); and notifications, whose ids are common to all  *)
(* extensions (extensions/notifications.ts).  The registries die with the  *)
(* worker, the UI does not; it hears of changes, and reports what the user *)
(* does, possibly to something that is gone.                               *)
(***************************************************************************)
EXTENDS Naturals, Sequences, FiniteSets

CONSTANTS
  Items,           \* the ids an extension gives its menu items
  MaxItems,        \* MAX_ITEMS
  Tabs, Keys, Values,
  Exts, Names,     \* the ids that extensions give their notifications
  MaxOps           \* bound: calls of extensions and interactions of the user

VARIABLES
  items,           \* by id: the menu item, or Absent
  defaults,        \* by key
  over,            \* by tab and key: the override, or Unset
  touched,         \* by tab: the keys that were ever set for it
  notes,           \* by id: the extension whose notification has it, or Nobody
  seq,             \* the last id given by the registry
  toHost,          \* zl:notifyOp messages on their way, in their order
  shown,           \* what the host shows: pairs of an extension and an id
  events,          \* zl:notifyEvent: closures reported, on their way or while they wake
  created, closed, \* by extension and id: how often one was, in this life of the worker
  lost,            \* closures that were not delivered
  ops

actionVars == <<defaults, over, touched>>
noteVars == <<notes, seq, toHost, shown, events, created, closed, lost>>
surfaceVars == <<actionVars, noteVars, ops>>
vars == <<items, surfaceVars>>

Null == "null"
Unset == "unset"
Nobody == "nobody"
Auto == {"n1", "n2"}                 \* "n" + ++seq
AutoId(k) == IF k = 1 THEN "n1" ELSE "n2"
NoteIds == Names \cup Auto
Never == [x \in Exts, i \in NoteIds |-> 0]
Manifest == [k \in Keys |-> Null]
None == [t \in Tabs |-> [k \in Keys |-> Unset]]

(* Menu items. *)

Root == "root"
Kept == "kept"        \* a property that menus.update does not mention
ItemTypes == {"normal", "checkbox", "radio"}
Checkable == {"checkbox", "radio"}
Item(p, ty, c) == [parent |-> p, type |-> ty, checked |-> c]
Absent == Item("absent", "normal", FALSE)

Present(m) == {i \in Items : m[i] # Absent}

\* i and what is above it
Lineage(m, i) ==
  LET up[n \in 0..Cardinality(Items)] ==
        IF n = 0 THEN {i} ELSE up[n - 1] \cup ({m[j].parent : j \in up[n - 1]} \cap Present(m))
  IN up[Cardinality(Items)]

Subtree(m, i) == {j \in Present(m) : i \in Lineage(m, j)}

NoItems == [i \in Items |-> Absent]

\* create: the parent must exist; a duplicate, or one item too many, is refused
MenuCreate(i, p, ty, c) ==
  /\ i \notin Present(items) /\ Cardinality(Present(items)) < MaxItems
  /\ p \in Present(items) \cup {Root}
  /\ items' = [items EXCEPT ![i] = Item(p, ty, c /\ ty \in Checkable)]

-----------------------------------------------------------------------------
(* update applies the properties one after the other; the first that is    *)
(* refused throws, and those before it stay.                               *)

Typed(it, ty) ==
  IF ty = Kept THEN it
  ELSE [it EXCEPT !.type = ty, !.checked = it.checked /\ ty \in Checkable]

CheckRefused(it, c) == c # Kept /\ it.type \notin Checkable
Checked(it, c) == IF c = Kept THEN it ELSE [it EXCEPT !.checked = (c = "yes")]

\* itself, an item that is gone, or one of its own descendants
ParentRefused(i, p) ==
  p # Kept /\ (p \notin Present(items) \cup {Root} \/ p \in Subtree(items, i))

MenuUpdate(i, ty, c, p) ==
  /\ i \in Present(items)
  /\ LET typed == Typed(items[i], ty)
         checked == Checked(typed, c)
         new == IF CheckRefused(typed, c) THEN typed
                ELSE IF p = Kept \/ ParentRefused(i, p) THEN checked
                ELSE [checked EXCEPT !.parent = p]
     IN items' = [items EXCEPT ![i] = new]

-----------------------------------------------------------------------------
MenuRemove(i) ==
  /\ i \in Present(items)
  /\ items' = [j \in Items |-> IF j \in Subtree(items, i) THEN Absent ELSE items[j]]

\* also what the end of the worker does, which has the items in memory only
MenuRemoveAll == Present(items) # {} /\ items' = NoItems

\* zl:menuClick and click, for whatever the host drew: an item that is gone is reported
\* to the listeners all the same, without a state
MenuClick(i) ==
  LET it == items[i]
      siblings == {j \in Present(items) \ {i} : items[j].type = "radio"
                                                /\ items[j].parent = it.parent}
  IN items' = [j \in Items |->
       IF j = i /\ it.type = "checkbox" THEN [it EXCEPT !.checked = ~@]
       ELSE IF j = i /\ it.type = "radio" THEN [it EXCEPT !.checked = TRUE]
       ELSE IF it.type = "radio" /\ j \in siblings THEN [items[j] EXCEPT !.checked = FALSE]
       ELSE items[j]]

-----------------------------------------------------------------------------
Init ==
  /\ items = NoItems /\ defaults = Manifest /\ over = None /\ touched = [t \in Tabs |-> {}]
  /\ notes = [i \in NoteIds |-> Nobody] /\ seq = 0 /\ toHost = <<>> /\ shown = {}
  /\ events = {} /\ created = Never /\ closed = Never /\ lost = {} /\ ops = 0

Acts == ops < MaxOps /\ ops' = ops + 1

-----------------------------------------------------------------------------
(* The toolbar action. *)

\* effective: an override of null does not count
Effective(t) == [k \in Keys |-> IF over[t][k] \in Values THEN over[t][k] ELSE defaults[k]]

SetDefault(k, v) ==
  /\ Acts /\ defaults' = [defaults EXCEPT ![k] = v] /\ UNCHANGED <<over, touched, noteVars>>

\* what is stored for a tab: the keys that differ from the defaults
Differing(state) == [k \in Keys |-> IF state[k] # defaults[k] THEN state[k] ELSE Unset]

SetForTab(t, k, v) ==
  /\ Acts /\ over' = [over EXCEPT ![t] = Differing([Effective(t) EXCEPT ![k] = v])]
  /\ touched' = [touched EXCEPT ![t] = @ \cup {k}] /\ UNCHANGED <<defaults, noteVars>>

\* drop, at an uninstall: the next entry starts from the manifest
Drop ==
  /\ Acts /\ defaults' = Manifest /\ over' = None /\ touched' = [t \in Tabs |-> {}]
  /\ UNCHANGED noteVars

-----------------------------------------------------------------------------
(* Notifications. *)

Dispatch(op, x, i) == toHost' = Append(toHost, [op |-> op, ext |-> x, id |-> i])

\* an id that another extension's notification has is taken over
Notify(x, i) ==
  /\ Acts
  /\ \/ i \in Names /\ seq' = seq
     \/ seq < 2 /\ seq' = seq + 1 /\ i = AutoId(seq')
  /\ notes' = [notes EXCEPT ![i] = x] /\ created' = [created EXCEPT ![x, i] = @ + 1]
  /\ lost' = lost \ {<<x, i>>}
  /\ Dispatch("create", x, i) /\ UNCHANGED <<shown, events, closed, actionVars>>

\* update draws it again, clear withdraws it; an id of another extension is refused
Update(x, i) ==
  /\ Acts /\ notes[i] = x /\ Dispatch("create", x, i) /\ lost' = lost \ {<<x, i>>}
  /\ UNCHANGED <<notes, seq, shown, events, created, closed, actionVars>>

Clear(x, i) ==
  /\ Acts /\ notes[i] = x /\ notes' = [notes EXCEPT ![i] = Nobody]
  /\ Dispatch("clear", x, i)
  /\ UNCHANGED <<seq, shown, events, created, closed, lost, actionVars>>

HostDraws ==
  /\ toHost # <<>> /\ toHost' = Tail(toHost)
  /\ LET m == Head(toHost) IN
       shown' = IF m.op = "create" THEN shown \cup {<<m.ext, m.id>>}
                                   ELSE shown \ {<<m.ext, m.id>>}
  /\ UNCHANGED <<notes, seq, events, created, closed, lost, actionVars, ops>>

UserCloses(x, i) ==
  /\ Acts /\ <<x, i>> \in shown /\ shown' = shown \ {<<x, i>>}
  /\ events' = events \cup {[ext |-> x, id |-> i, at |-> "sent"]}
  /\ UNCHANGED <<notes, seq, toHost, created, closed, lost, actionVars>>

\* the message: an unknown notification is refused, otherwise the background is woken
Reported(ev) ==
  /\ ev \in events /\ ev.at = "sent"
  /\ events' = (events \ {ev}) \cup
       (IF notes[ev.id] = ev.ext THEN {[ev EXCEPT !.at = "waking"]} ELSE {})
  /\ UNCHANGED <<notes, seq, toHost, shown, created, closed, lost, actionVars, ops>>

\* event: looks again, tells the listeners, and removes the entry
Event(ev) ==
  /\ ev \in events /\ ev.at = "waking" /\ events' = events \ {ev}
  /\ IF notes[ev.id] = ev.ext
       THEN /\ closed' = [closed EXCEPT ![ev.ext, ev.id] = @ + 1]
            /\ notes' = [notes EXCEPT ![ev.id] = Nobody]
       ELSE UNCHANGED <<closed, notes>>
  /\ UNCHANGED <<seq, toHost, shown, created, lost, actionVars, ops>>

\* the extension is disabled when the report arrives, or its background does not wake
EventLost(ev) ==
  /\ ev \in events /\ events' = events \ {ev} /\ lost' = lost \cup {<<ev.ext, ev.id>>}
  /\ UNCHANGED <<notes, seq, toHost, shown, created, closed, actionVars, ops>>

-----------------------------------------------------------------------------
\* the worker ends and starts again
Kill ==
  /\ Acts
  /\ defaults' = Manifest /\ over' = None /\ touched' = [t \in Tabs |-> {}]
  /\ notes' = [i \in NoteIds |-> Nobody] /\ seq' = 0 /\ events' = {e \in events : e.at = "sent"}
  /\ created' = Never /\ closed' = Never /\ items' = NoItems /\ UNCHANGED <<toHost, shown, lost>>

MenuNext ==
  \/ \E i \in Items, p \in Items \cup {Root}, ty \in ItemTypes, c \in BOOLEAN : MenuCreate(i, p, ty, c)
  \/ \E i \in Items, ty \in ItemTypes \cup {Kept}, c \in {"yes", "no", Kept},
        p \in Items \cup {Root, Kept} : MenuUpdate(i, ty, c, p)
  \/ \E i \in Items : MenuRemove(i) \/ MenuClick(i)
  \/ MenuRemoveAll

Shows ==
  \/ \E k \in Keys, v \in Values \cup {Null} :
       SetDefault(k, v) \/ \E t \in Tabs : SetForTab(t, k, v)
  \/ Drop
  \/ \E x \in Exts, i \in NoteIds : Notify(x, i) \/ Update(x, i) \/ Clear(x, i) \/ UserCloses(x, i)
  \/ HostDraws
  \/ \E ev \in events : Reported(ev) \/ Event(ev) \/ EventLost(ev)

SurfaceNext ==
  \/ Shows /\ UNCHANGED items
  \/ Kill

Next ==
  \/ MenuNext /\ UNCHANGED surfaceVars
  \/ SurfaceNext

Spec == Init /\ [][Next]_vars

-----------------------------------------------------------------------------
TypeOK ==
  /\ \A i \in Present(items) :
       items[i].type \in ItemTypes /\ items[i].checked \in BOOLEAN
       /\ items[i].parent \in Items \cup {Root}
  /\ defaults \in [Keys -> Values \cup {Null}]
  /\ over \in [Tabs -> [Keys -> Values \cup {Null, Unset}]] /\ touched \in [Tabs -> SUBSET Keys]
  /\ notes \in [NoteIds -> Exts \cup {Nobody}] /\ seq \in 0..2 /\ ops \in 0..MaxOps
  /\ shown \subseteq Exts \X NoteIds

\* #519: the items are a forest: parents exist, and no item is under itself, whatever was
\* created, moved, changed in type and removed in between.  remove and update walk it.
MenusAreAForest ==
  \A i \in Present(items) :
    /\ items[i].parent \in Present(items) \cup {Root}
    /\ items[i].parent # Root => i \notin Lineage(items, items[i].parent)
    /\ items[i].checked => items[i].type \in Checkable

\* #519: a default that changes shows through on every tab for every property that was
\* not set for that tab, whatever else was set for it.
DefaultsShowThrough ==
  \A t \in Tabs : \A k \in Keys \ touched[t] : Effective(t)[k] = defaults[k]

\* #43: when nothing is on its way, the host shows each notification of the registry,
\* unless the report that it was closed got lost; and no notification is closed more
\* often than it was created, however often the user closes what is drawn again.
NotesAgree ==
  /\ toHost = <<>> /\ events = {} =>
       \A i \in NoteIds : notes[i] # Nobody =>
         <<notes[i], i>> \in shown \cup lost
  /\ \A x \in Exts, i \in NoteIds : closed[x, i] <= created[x, i]
=============================================================================
