----------------------------- MODULE AssetRecovery -----------------------------
(***************************************************************************)
(* assetbases.ts: assets that a page names wrongly are asked for again at  *)
(* the directories, and scripts at the URLs, that the page has loaded      *)
(* from.  Four registries by page origin, bounded in different orders, and *)
(* calls that await upstream between two candidates.                       *)
(***************************************************************************)
EXTENDS Naturals, Sequences, FiniteSets, SequencesExt

CONSTANTS
  Origins,       \* of pages
  Places,        \* what loads are seen at: a directory, or a script
  Namespaced,    \* the scripts below a token and an application name, as Google's
  Targets,       \* the misses: [url, flat: a plain name; namespaced, else flags]
  Calls,
  PerOrigin,     \* ASSET_BASES_PER_ORIGIN and SCRIPT_URLS_PER_ORIGIN
  Total,         \* ASSET_BASES_TOTAL, SCRIPT_URLS_TOTAL, FLAG_RECOVERY_ORIGINS
  RequestsPerCall, RequestsPerOrigin, TargetsPerOrigin,   \* FLAG_RECOVERY_...
  MaxLoads       \* bound: loads that are recorded

Free == [pc |-> "free"]

VARIABLES
  bases, scripts,      \* in the order of the map: [origin, list], the list latest first
  requests, targets,   \* in the order of the map: [origin, n] and [origin, urls]
  call,                \* by call: free, or the origin, the target and what it will try;
                       \* kept: its origin has not been forgotten since it began
  loads,
  spent,               \* by origin: the requests of its calls since it was last forgotten
  tries                \* by origin: the targets tried since then

vars == <<bases, scripts, requests, targets, call, loads, spent, tries>>

Init ==
  /\ bases = <<>> /\ scripts = <<>> /\ requests = <<>> /\ targets = <<>>
  /\ call = [c \in Calls |-> Free] /\ loads = 0
  /\ spent = [o \in Origins |-> 0] /\ tries = [o \in Origins |-> {}]

(* ---- maps in insertion order ---- *)

Has(map, o) == \E i \in DOMAIN map : map[i].origin = o
Entry(map, o) == map[CHOOSE i \in DOMAIN map : map[i].origin = o]
Without(map, o) == SelectSeq(map, LAMBDA e : e.origin # o)
InPlace(map, e) ==
  IF Has(map, e.origin)
  THEN [i \in DOMAIN map |-> IF map[i].origin = e.origin THEN e ELSE map[i]]
  ELSE Append(map, e)
ToEnd(map, e) == Append(Without(map, e.origin), e)
Oldest(map) == map[1].origin
Bounded(map) == IF Len(map) > Total THEN Tail(map) ELSE map

ListOf(map, o) == IF Has(map, o) THEN Entry(map, o).list ELSE <<>>
Latest(list, x) ==
  LET longer == <<x>> \o SelectSeq(list, LAMBDA y : y # x)
  IN SubSeq(longer, 1, IF Len(longer) > PerOrigin THEN PerOrigin ELSE Len(longer))

(* ---- what is recorded ---- *)

\* A script or stylesheet of another origin loaded: its directory.  The map keeps the
\* place of an origin it knows.
RecordBase(o, p) ==
  /\ loads < MaxLoads /\ loads' = loads + 1
  /\ bases' = Bounded(InPlace(bases, [origin |-> o, list |-> Latest(ListOf(bases, o), p)]))
  /\ UNCHANGED <<scripts, requests, targets, call, spent, tries>>

\* A script was served: its URL.  The map is in the order of use (#358).
RecordScript(o, p) ==
  /\ loads < MaxLoads /\ loads' = loads + 1
  /\ scripts' = Bounded(ToEnd(scripts, [origin |-> o, list |-> Latest(ListOf(scripts, o), p)]))
  /\ UNCHANGED <<bases, requests, targets, call, spent, tries>>

(* ---- a plain name ---- *)

\* Every base of the page in turn; nothing is counted.
StartFlat(c, o, t) ==
  /\ call[c] = Free /\ t.flat /\ ListOf(bases, o) # <<>>
  /\ call' = [call EXCEPT ![c] =
       [pc |-> "flat", origin |-> o, target |-> t.url, cands |-> ListOf(bases, o), asked |-> 0,
        kept |-> TRUE]]
  /\ UNCHANGED <<bases, scripts, requests, targets, loads, spent, tries>>

(* ---- a path of flags ---- *)

RequestsOf(o) == IF Has(requests, o) THEN Entry(requests, o).n ELSE 0
TargetsOf(o) == IF Has(targets, o) THEN Entry(targets, o).urls ELSE {}

\* Either the namespaced scripts of the page, or two bases for each of its latest.
Candidates(o, t) ==
  IF t.namespaced THEN SelectSeq(ListOf(scripts, o), LAMBDA s : s \in Namespaced)
  ELSE FoldLeft(LAMBDA acc, s : acc \o <<<<s, 1>>, <<s, 2>>>>, <<>>, ListOf(scripts, o))

MayTry(o, t) ==
  /\ t.url \notin TargetsOf(o) /\ Cardinality(TargetsOf(o)) < TargetsPerOrigin
  /\ t.namespaced \/ RequestsOf(o) < RequestsPerOrigin

\* An origin that falls out of one of the two maps is forgotten by the other.
Forgotten(map) == IF Len(map) > Total THEN {Oldest(map)} ELSE {}
Loses(c, gone) == call[c] # Free /\ call[c].origin \in gone
ForgetIn(map, gone) == SelectSeq(map, LAMBDA e : e.origin \notin gone)

\* rememberTarget: the miss is noted before the first candidate is asked.
StartFlags(c, o, t) ==
  /\ call[c] = Free /\ ~t.flat /\ Candidates(o, t) # <<>> /\ MayTry(o, t)
  /\ LET longer == ToEnd(targets, [origin |-> o, urls |-> TargetsOf(o) \cup {t.url}])
         gone == Forgotten(longer)
     IN /\ targets' = ForgetIn(longer, gone) /\ requests' = ForgetIn(requests, gone)
        /\ spent' = [x \in Origins |-> IF x \in gone THEN 0 ELSE spent[x]]
        /\ tries' = [x \in Origins |-> IF x \in gone THEN {}
                                       ELSE IF x = o THEN tries[x] \cup {t.url} ELSE tries[x]]
        /\ call' = [d \in Calls |->
             IF d = c THEN [pc |-> "flags", origin |-> o, target |-> t.url,
                            cands |-> Candidates(o, t), asked |-> 0, kept |-> TRUE]
             ELSE IF Loses(d, gone) THEN [call[d] EXCEPT !.kept = FALSE] ELSE call[d]]
  /\ UNCHANGED <<bases, scripts, loads>>

(* ---- the candidates, one await each ---- *)

Stops(c) == call' = [call EXCEPT ![c] = Free]
Exhausted(c) == call[c].cands = <<>>

AskBase(c) ==
  /\ call[c].pc = "flat" /\ ~Exhausted(c)
  /\ call' = [call EXCEPT ![c] = [@ EXCEPT !.pc = "askedBase", !.cands = Tail(@),
                                           !.asked = @ + 1]]
  /\ UNCHANGED <<bases, scripts, requests, targets, loads, spent, tries>>

\* The request is counted before it is sent.
Counted(c, o) ==
  LET longer == ToEnd(requests, [origin |-> o, n |-> RequestsOf(o) + 1])
      gone == Forgotten(longer)
  IN /\ requests' = ForgetIn(longer, gone) /\ targets' = ForgetIn(targets, gone)
     /\ spent' = [x \in Origins |-> IF x \in gone THEN 0
                                    ELSE IF x = o THEN spent[x] + 1 ELSE spent[x]]
     /\ tries' = [x \in Origins |-> IF x \in gone THEN {} ELSE tries[x]]
     /\ call' = [d \in Calls |->
          IF d = c THEN [call[c] EXCEPT !.pc = "askedScript", !.cands = Tail(@),
                                        !.asked = @ + 1]
          ELSE IF Loses(d, gone) THEN [call[d] EXCEPT !.kept = FALSE] ELSE call[d]]

Budgeted(c) == call[c].asked < RequestsPerCall /\ RequestsOf(call[c].origin) < RequestsPerOrigin

AskScript(c) ==
  /\ call[c].pc = "flags" /\ ~Exhausted(c) /\ Budgeted(c) /\ Counted(c, call[c].origin)
  /\ UNCHANGED <<bases, scripts, loads>>

\* An answer of the right type ends the call; any other, or none, tries the next.
Answered(c) ==
  /\ \/ /\ call[c].pc \in {"askedBase", "askedScript"}
        /\ \/ Stops(c)
           \/ call' = [call EXCEPT ![c].pc = IF @ = "askedBase" THEN "flat" ELSE "flags"]
     \/ /\ call[c].pc \in {"flat", "flags"} /\ Stops(c)
        /\ Exhausted(c) \/ (call[c].pc = "flags" /\ ~Budgeted(c))
  /\ UNCHANGED <<bases, scripts, requests, targets, loads, spent, tries>>

Next ==
  \/ \E o \in Origins, p \in Places : RecordBase(o, p) \/ RecordScript(o, p)
  \/ \E c \in Calls :
       \/ \E o \in Origins, t \in Targets : StartFlat(c, o, t) \/ StartFlags(c, o, t)
       \/ AskBase(c) \/ AskScript(c) \/ Answered(c)

Spec == Init /\ [][Next]_vars

--------------------------------------------------------------------------------

\* However calls interleave, one asks a bounded number of URLs, and an origin has no more
\* requests and misses than its budget until it is forgotten, which both maps do at once.
RecoveryIsBounded ==
  /\ \A c \in Calls : call[c] # Free =>
       call[c].asked <= IF call[c].pc \in {"flags", "askedScript"} THEN RequestsPerCall
                        ELSE PerOrigin
  /\ \A o \in Origins : spent[o] <= RequestsPerOrigin /\ Cardinality(tries[o]) <= TargetsPerOrigin
  /\ \A m \in {bases, scripts, requests, targets} : Len(m) <= Total
  /\ \A o \in Origins : RequestsOf(o) = spent[o] /\ TargetsOf(o) = tries[o]

\* A miss is tried once until its origin is forgotten: no two calls are for the same one.
MissTriedOnce ==
  \A c, d \in Calls :
    LET Live(x) == call[x] # Free /\ call[x].pc \in {"flags", "askedScript"} /\ call[x].kept
    IN c # d /\ Live(c) /\ Live(d) /\ call[c].origin = call[d].origin
         => call[c].target # call[d].target

================================================================================
