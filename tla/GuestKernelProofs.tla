---------------------------- MODULE GuestKernelProofs ----------------------------
(***************************************************************************)
(* The guest kernel keeps its promises for every set of scopes, hosts,     *)
(* scripts, callers and fetches: the record of a scope, its pending work   *)
(* and the host page agree on the realm, a bridge call of the running      *)
(* realm has one result, and a confirmed caller is answered on a running   *)
(* realm or kept waiting.                                                  *)
(*                                                                         *)
(* The inductive invariant adds what the properties leave open: the frames *)
(* on their way to a host page hold no end of the realm that the record    *)
(* names, its spawn is the last of its scope, and once the page has said   *)
(* spawned it runs that realm; the entry of a bridge call belongs to the   *)
(* running realm and its timer runs; a realm not yet running has no calls. *)
(***************************************************************************)
EXTENDS GuestKernel, SequenceTheorems, FiniteSetTheorems, WellFoundedInduction, TLAPS

(* The inductive invariant. *)

States == {"none", "spawning", "running", "terminating"}
GuestRecords == [id : Nat, reg : Nat, state : States, host : Hosts \cup {NoHost},
                 pending : SUBSET Callers]
RegRecords == [url : URLs, script : Scripts]
RealmRecords(n) == [scope : Scopes, reg : 1..n]
HostFrames(n) == [op : {"spawn", "terminate"}, scope : Scopes, id : 1..n]
Kinds == {"spawned", "spawnFailed", "terminated", "error"}
KernelFrames(n) == [kind : Kinds, scope : Scopes, id : 1..n]
Replied == {"none", "waiting", "ok", "failed"}
FetchRecords == [at : {"idle", "pending", "handled", "unhandled"}, realm : 0..MaxRealms]
CallRecords == [bridge : BOOLEAN, timer : BOOLEAN, results : Nat]
SwapRecords == [scope : Scopes, script : Scripts]

RecordTypes ==
  /\ regs \in Seq(RegRecords) /\ realms \in Seq(RealmRecords(Len(regs)))
  /\ Len(realms) <= MaxRealms
  /\ guests \in [Scopes -> GuestRecords] /\ reply \in [Callers -> Replied]
WorkTypes ==
  /\ fetch \in [Fetches -> FetchRecords]
  /\ waitPending \in [Scopes -> 0..Len(realms)]
  /\ netPending \in [Scopes -> [What -> 0..Len(realms)]]
  /\ calls \in [Ids -> [What -> CallRecords]]
  /\ swaps \subseteq SwapRecords
HostTypes ==
  /\ hosts \in Seq(Hosts) /\ open \subseteq Hosts
  /\ toHost \in [Hosts -> Seq(HostFrames(Len(realms)))]
  /\ toKernel \in [Hosts -> Seq(KernelFrames(Len(realms)))]
  /\ workers \in [Hosts -> [Scopes -> 0..Len(realms)]]
Types == RecordTypes /\ WorkTypes /\ HostTypes

Alive(s) == guests[s].state \in {"spawning", "running"}
Announced(h) == \E n \in 1..Len(hosts) : hosts[n] = h
RecordOf(s) ==
  /\ guests[s].id \in 1..Len(realms) /\ ScopeOf(guests[s].id) = s
  /\ \A i \in 1..Len(realms) : ScopeOf(i) = s => i <= guests[s].id
  /\ guests[s].reg \in 1..Len(regs) /\ Announced(guests[s].host)
Records ==
  /\ \A s \in Scopes : guests[s].state # "none" => RecordOf(s)
  /\ \A h \in open : Announced(h)

\* The frames q to a host page hold no end of realm i of the scope s; none that spawns a
\* realm of s; none after the one that spawns i.
SpawnFor(m, s) == m.op = "spawn" /\ m.scope = s
NoEnd(q, s, i) ==
  \A n \in 1..Len(q) : ~(q[n].op = "terminate" /\ q[n].scope = s /\ q[n].id = i)
NoSpawn(q, s) == \A n \in 1..Len(q) : ~SpawnFor(q[n], s)
LastSpawn(q, s, i) ==
  \A n, m \in 1..Len(q) : SpawnFor(q[n], s) /\ q[n].id = i /\ SpawnFor(q[m], s) => m <= n
Heard(q, m) == \E n \in 1..Len(q) : q[n] = m
Begun(s) ==
  \/ guests[s].state = "running"
  \/ Heard(toKernel[guests[s].host], Frame("spawned", s, guests[s].id))
HostedAt(s) ==
  /\ NoEnd(toHost[guests[s].host], s, guests[s].id)
  /\ LastSpawn(toHost[guests[s].host], s, guests[s].id)
  /\ Begun(s) => /\ workers[guests[s].host][s] = guests[s].id
                 /\ NoSpawn(toHost[guests[s].host], s)
Hosted == \A s \in Scopes : Alive(s) /\ guests[s].host \in open => HostedAt(s)

\* Pending work is that of the running realm.
RunsAs(i) == /\ i \in 1..Len(realms) /\ guests[ScopeOf(i)].state = "running"
             /\ guests[ScopeOf(i)].id = i
FetchWork == \A f \in Fetches : fetch[f].at = "pending" => RunsAs(fetch[f].realm)
WaitWork == \A s \in Scopes : waitPending[s] # 0 => Running(s) /\ guests[s].id = waitPending[s]

\* Bridge calls: by realm, and by the scope whose record they are entered for.
CallOf(i, w) ==
  /\ calls[i][w].timer => calls[i][w].results = 0
  /\ i > Len(realms) => calls[i][w] = NoCall
CallsAt(s, w) ==
  /\ guests[s].state = "spawning" => calls[guests[s].id][w] = NoCall
  /\ guests[s].state = "running" => calls[guests[s].id][w].results <= 1
  /\ netPending[s][w] # 0 => /\ guests[s].state = "running"
                             /\ netPending[s][w] = guests[s].id
                             /\ calls[guests[s].id][w].timer = TRUE
CallWork ==
  /\ \A i \in Ids : \A w \in What : CallOf(i, w)
  /\ \A s \in Scopes : \A w \in What : CallsAt(s, w)

Waiting == \A s \in Scopes : \A c \in guests[s].pending : reply[c] # "none"

IInv == Types /\ Records /\ Hosted /\ FetchWork /\ WaitWork /\ CallWork /\ Waiting

--------------------------------------------------------------------------------
(* Frames in a queue. *)

\* What holds of the realm i of s for the frames q holds for the frames r.
Follows(q, r, s) ==
  /\ NoSpawn(q, s) => NoSpawn(r, s)
  /\ \A i \in Nat : /\ NoEnd(q, s, i) => NoEnd(r, s, i)
                    /\ LastSpawn(q, s, i) => LastSpawn(r, s, i)

LEMMA FollowsTail ==
  ASSUME NEW k \in Nat, NEW q \in Seq(HostFrames(k)), q # <<>>, NEW s \in Scopes
  PROVE  Follows(q, Tail(q), s)
<1>1. /\ Len(Tail(q)) = Len(q) - 1 /\ Len(q) \in Nat
      /\ \A n \in 1..Len(Tail(q)) : n + 1 \in 1..Len(q) /\ Tail(q)[n] = q[n + 1]
  BY HeadTailProperties
<1>2. NoSpawn(q, s) => NoSpawn(Tail(q), s)
  BY <1>1 DEF NoSpawn
<1>3. ASSUME NEW i \in Nat PROVE NoEnd(q, s, i) => NoEnd(Tail(q), s, i)
  BY <1>1 DEF NoEnd
<1>4. ASSUME NEW i \in Nat, LastSpawn(q, s, i) PROVE LastSpawn(Tail(q), s, i)
  <2> SUFFICES ASSUME NEW n \in 1..Len(Tail(q)), NEW m \in 1..Len(Tail(q)),
                      SpawnFor(Tail(q)[n], s), Tail(q)[n].id = i, SpawnFor(Tail(q)[m], s)
               PROVE  m <= n
    BY DEF LastSpawn
  <2>1. SpawnFor(q[n + 1], s) /\ q[n + 1].id = i /\ SpawnFor(q[m + 1], s)
    BY <1>1
  <2>2. m + 1 <= n + 1
    BY <1>1, <1>4, <2>1 DEF LastSpawn
  <2> QED BY <2>2
<1> QED BY <1>2, <1>3, <1>4 DEF Follows

\* Frames that follow and concern another scope, or end another realm.
LEMMA FollowsConcat ==
  ASSUME NEW k \in Nat, NEW q \in Seq(HostFrames(k)), NEW r \in Seq(HostFrames(k)),
         NEW s \in Scopes, \A n \in 1..Len(r) : r[n].scope # s
  PROVE  Follows(q, q \o r, s)
<1>1. /\ Len(q) \in Nat /\ Len(r) \in Nat /\ Len(q \o r) = Len(q) + Len(r)
      /\ \A n \in 1..Len(q) + Len(r) :
           (q \o r)[n] = IF n <= Len(q) THEN q[n] ELSE r[n - Len(q)]
  BY ConcatProperties
<1>2. ASSUME NEW n \in 1..Len(q \o r), (q \o r)[n].scope = s
      PROVE  n \in 1..Len(q) /\ (q \o r)[n] = q[n]
  <2>1. CASE n <= Len(q)
    BY <1>1, <2>1
  <2>2. CASE ~(n <= Len(q))
    <3>1. n - Len(q) \in 1..Len(r) /\ (q \o r)[n] = r[n - Len(q)]
      BY <1>1, <2>2
    <3> QED BY <1>2, <3>1
  <2> QED BY <2>1, <2>2
<1>3. NoSpawn(q, s) => NoSpawn(q \o r, s)
  BY <1>2 DEF NoSpawn, SpawnFor
<1>4. ASSUME NEW i \in Nat PROVE NoEnd(q, s, i) => NoEnd(q \o r, s, i)
  BY <1>2 DEF NoEnd
<1>5. ASSUME NEW i \in Nat, LastSpawn(q, s, i) PROVE LastSpawn(q \o r, s, i)
  <2> SUFFICES ASSUME NEW n \in 1..Len(q \o r), NEW m \in 1..Len(q \o r),
                      SpawnFor((q \o r)[n], s), (q \o r)[n].id = i, SpawnFor((q \o r)[m], s)
               PROVE  m <= n
    BY DEF LastSpawn
  <2>1. n \in 1..Len(q) /\ (q \o r)[n] = q[n] /\ m \in 1..Len(q) /\ (q \o r)[m] = q[m]
    BY <1>2 DEF SpawnFor
  <2> QED BY <1>5, <2>1 DEF LastSpawn
<1> QED BY <1>3, <1>4, <1>5 DEF Follows

LEMMA FollowsSame == \A q, s : Follows(q, q, s)
  BY DEF Follows

LEMMA FollowsAppend ==
  ASSUME NEW k \in Nat, NEW q \in Seq(HostFrames(k)), NEW m \in HostFrames(k),
         NEW s \in Scopes, m.scope # s
  PROVE  Follows(q, Append(q, m), s)
<1>1. Append(q, m) = q \o <<m>>
  BY AppendIsConcat
<1>2. <<m>> \in Seq(HostFrames(k)) /\ Len(<<m>>) = 1 /\ <<m>>[1] = m
  OBVIOUS
<1>3. \A n \in 1..Len(<<m>>) : <<m>>[n].scope # s
  BY <1>2
<1> QED BY <1>1, <1>2, <1>3, FollowsConcat

\* A new realm: nothing in the queue names it, and its spawn comes last.
LEMMA FreshFrames ==
  ASSUME NEW k \in Nat, NEW q \in Seq(HostFrames(k)), NEW s \in Scopes
  PROVE  /\ NoEnd(q, s, k + 1) /\ LastSpawn(q, s, k + 1)
         /\ NoEnd(Append(q, [op |-> "spawn", scope |-> s, id |-> k + 1]), s, k + 1)
         /\ LastSpawn(Append(q, [op |-> "spawn", scope |-> s, id |-> k + 1]), s, k + 1)
<1> DEFINE m == [op |-> "spawn", scope |-> s, id |-> k + 1]
           r == Append(q, m)
<1>1. Len(q) \in Nat /\ \A n \in 1..Len(q) : q[n].id # k + 1
  <2>1. \A n \in 1..Len(q) : q[n] \in HostFrames(k)
    BY ElementOfSeq
  <2> QED BY <2>1, LenProperties DEF HostFrames
<1>2. Len(r) = Len(q) + 1 /\ r[Len(q) + 1] = m /\ \A n \in 1..Len(q) : r[n] = q[n]
  <2>1. q \in Seq(HostFrames(k + 1)) /\ m \in HostFrames(k + 1)
    <3>1. HostFrames(k) \subseteq HostFrames(k + 1)
      BY DEF HostFrames
    <3>2. q \in Seq(HostFrames(k + 1))
      BY <3>1, SeqMonotonic
    <3>3. m \in HostFrames(k + 1)
      BY DEF HostFrames
    <3> QED BY <3>2, <3>3
  <2> QED BY <2>1, AppendProperties
<1>3. \A n \in 1..Len(r) : \/ n = Len(q) + 1 /\ r[n].op = "spawn"
                          \/ r[n].id # k + 1
  BY <1>1, <1>2
<1> HIDE DEF r
<1>4. NoEnd(q, s, k + 1) /\ LastSpawn(q, s, k + 1)
  BY <1>1 DEF NoEnd, LastSpawn
<1>5. NoEnd(r, s, k + 1)
  BY <1>3 DEF NoEnd
<1>6. LastSpawn(r, s, k + 1)
  BY <1>1, <1>2, <1>3 DEF LastSpawn
<1> QED BY <1>4, <1>5, <1>6 DEF r

--------------------------------------------------------------------------------
(* Shared operations. *)

LEMMA Assumed ==
  /\ Scopes \subseteq Nat /\ IsFiniteSet(Scopes) /\ NoHost \notin Hosts
  /\ RegistrationsMax \in Nat /\ MaxRealms \in Nat
  BY ScopesAssumption, MaxAssumption

LEMMA Lengths == ASSUME Types PROVE Len(realms) \in Nat /\ Len(regs) \in Nat
  BY DEF Types, RecordTypes

LEMMA SeqOfSet == ASSUME NEW S, IsFiniteSet(S) PROVE SetToSeq(S) \in Seq(S)
<1>1. Cardinality(S) \in Nat /\ ExistsBijection(1..Cardinality(S), S)
  BY FS_CardinalityType
<1>2. \E f \in [1..Cardinality(S) -> S] : IsInjective(f)
  BY <1>1 DEF ExistsBijection, Bijection, Injection
<1>3. SetToSeq(S) \in [1..Cardinality(S) -> S]
  BY <1>2 DEF SetToSeq
<1> QED BY <1>1, <1>3

\* the scopes among ss whose records g have a realm to end
Enders(g, ss) == {s \in ss : g[s].state \in {"spawning", "running"}}

LEMMA Terminates ==
  ASSUME Types, NEW g \in [Scopes -> GuestRecords], NEW ss \in SUBSET Scopes,
         \A s \in Enders(g, ss) : g[s].id \in 1..Len(realms),
         TerminateKeys(g, ss)
  PROVE  /\ guests' = [s \in Scopes |-> IF s \in Enders(g, ss)
                         THEN [g[s] EXCEPT !.state = "terminating"] ELSE g[s]]
         /\ ClearGuestWork(Enders(g, ss))
         /\ toHost' \in [Hosts -> Seq(HostFrames(Len(realms)))]
         /\ \A h \in Hosts : \A s \in Scopes \ Enders(g, ss) : Follows(toHost[h], toHost'[h], s)
<1> DEFINE now == Enders(g, ss)
           of(h) == SetToSeq({s \in now : g[s].host = h /\ h \in open})
           frame(s) == [op |-> "terminate", scope |-> s, id |-> g[s].id]
           row(h) == [n \in 1..Len(of(h)) |-> frame(of(h)[n])]
<1>1. /\ guests' = [s \in Scopes |-> IF s \in now
                      THEN [g[s] EXCEPT !.state = "terminating"] ELSE g[s]]
      /\ toHost' = [h \in Hosts |-> toHost[h] \o row(h)]
      /\ ClearGuestWork(now)
  BY DEF TerminateKeys, Enders
<1>2. ASSUME NEW h \in Hosts
      PROVE  /\ row(h) \in Seq(HostFrames(Len(realms)))
             /\ \A n \in 1..Len(row(h)) : row(h)[n].scope \in now
  <2> DEFINE S == {s \in now : g[s].host = h /\ h \in open}
  <2>1. IsFiniteSet(S)
    BY Assumed, FS_Subset DEF Enders
  <2>2. of(h) \in Seq(S)
    BY <2>1, SeqOfSet
  <2>3. Len(of(h)) \in Nat /\ \A n \in 1..Len(of(h)) : of(h)[n] \in now
    <3>1. S \subseteq now
      OBVIOUS
    <3> HIDE DEF S, of
    <3>2. \A n \in 1..Len(of(h)) : of(h)[n] \in S
      BY <2>2, ElementOfSeq
    <3> QED BY <2>2, <3>1, <3>2, LenProperties
  <2> HIDE DEF now, of
  <2>4. \A s \in now : frame(s) \in HostFrames(Len(realms)) /\ frame(s).scope = s
    BY DEF HostFrames, Enders, now
  <2> HIDE DEF frame
  <2>5. row(h) \in [1..Len(of(h)) -> HostFrames(Len(realms))]
    BY <2>3, <2>4
  <2>6. row(h) \in Seq(HostFrames(Len(realms))) /\ Len(row(h)) = Len(of(h))
    BY <2>3, <2>5
  <2>7. \A n \in 1..Len(row(h)) : row(h)[n].scope \in now
    BY <2>3, <2>4, <2>6
  <2> QED BY <2>6, <2>7
<1> HIDE DEF row, now
<1>3. Len(realms) \in Nat /\ toHost \in [Hosts -> Seq(HostFrames(Len(realms)))]
  BY Lengths DEF Types, HostTypes
<1>4. toHost' \in [Hosts -> Seq(HostFrames(Len(realms)))]
  <2>1. \A h \in Hosts : toHost[h] \o row(h) \in Seq(HostFrames(Len(realms)))
    BY <1>2, <1>3, ConcatProperties
  <2> QED BY <1>1, <2>1
<1>5. ASSUME NEW h \in Hosts, NEW s \in Scopes \ now PROVE Follows(toHost[h], toHost'[h], s)
  <2>1. toHost'[h] = toHost[h] \o row(h) /\ toHost[h] \in Seq(HostFrames(Len(realms)))
    BY <1>1, <1>3
  <2>2. \A n \in 1..Len(row(h)) : row(h)[n].scope # s
    BY <1>2, <1>5
  <2> QED BY <1>2, <1>3, <2>1, <2>2, FollowsConcat
<1> QED BY <1>1, <1>4, <1>5 DEF now

LEMMA TickedIs ==
  ASSUME Types, NEW late \in SUBSET {s \in Scopes : MayBeOverdue(s)}
  PROVE  /\ Ticked(late) \in [Scopes -> GuestRecords]
         /\ \A s \in Scopes :
              \/ Ticked(late)[s] = guests[s]
              \/ Ticked(late)[s] = NoGuest /\ guests[s].state # "running" /\ s \in late
         /\ Replies(late) \in [Callers -> Replied]
         /\ \A c \in Callers : reply[c] # "none" => Replies(late)[c] # "none"
         /\ \A s \in late : \A c \in guests[s].pending : Replies(late)[c] = "failed"
         /\ \A c \in Callers : Replies(late)[c] \in {"failed", reply[c]}
<1>1. /\ guests \in [Scopes -> GuestRecords] /\ reply \in [Callers -> Replied]
      /\ NoGuest \in GuestRecords /\ "failed" \in Replied
  BY DEF Types, RecordTypes, GuestRecords, NoGuest, States, Replied
<1>2. Ticked(late) = [s \in Scopes |-> IF s \in late THEN NoGuest ELSE guests[s]]
  BY DEF Ticked
<1>3. Replies(late) = [c \in Callers |-> IF \E s \in late : c \in guests[s].pending
                                           THEN "failed" ELSE reply[c]]
  BY DEF Replies, Told
<1>4. \A s \in late : guests[s].pending \subseteq Callers /\ guests[s].state # "running"
  BY <1>1 DEF GuestRecords, MayBeOverdue
<1> QED BY <1>1, <1>2, <1>3, <1>4

LEMMA ClearNothing ==
  ASSUME Types, UNCHANGED <<fetch, waitPending, netPending, calls>> PROVE ClearGuestWork({})
<1>1. /\ fetch = [f \in Fetches |-> fetch[f]] /\ waitPending = [s \in Scopes |-> waitPending[s]]
      /\ netPending = [s \in Scopes |-> [w \in What |-> netPending[s][w]]]
      /\ calls = [i \in Ids |-> [w \in What |-> calls[i][w]]]
  BY DEF Types, WorkTypes
<1> QED BY <1>1 DEF ClearGuestWork

LEMMA ClearedTypes ==
  ASSUME Types, NEW ss \in SUBSET Scopes, ClearGuestWork(ss)
  PROVE  /\ fetch' \in [Fetches -> FetchRecords]
         /\ waitPending' \in [Scopes -> 0..Len(realms)]
         /\ netPending' \in [Scopes -> [What -> 0..Len(realms)]]
         /\ calls' \in [Ids -> [What -> CallRecords]]
<1>0. Len(realms) \in Nat /\ WorkTypes
  BY Lengths DEF Types
<1>1. fetch' \in [Fetches -> FetchRecords]
  BY <1>0 DEF WorkTypes, ClearGuestWork, FetchRecords
<1>2. waitPending' \in [Scopes -> 0..Len(realms)]
  BY <1>0 DEF WorkTypes, ClearGuestWork
<1>3. netPending' \in [Scopes -> [What -> 0..Len(realms)]]
  BY <1>0 DEF WorkTypes, ClearGuestWork
<1>4. \A i \in Ids : \A w \in What :
        calls[i][w] \in CallRecords /\ [calls[i][w] EXCEPT !.timer = FALSE] \in CallRecords
  <2>1. \A i \in Ids : \A w \in What : calls[i][w] \in CallRecords
    BY <1>0 DEF WorkTypes
  <2>2. \A c \in CallRecords : [c EXCEPT !.timer = FALSE] \in CallRecords
    BY DEF CallRecords
  <2> QED BY <2>1, <2>2
<1>5. calls' \in [Ids -> [What -> CallRecords]]
  BY <1>4 DEF ClearGuestWork
<1> QED BY <1>1, <1>2, <1>3, <1>5

--------------------------------------------------------------------------------
(* What a step does to the record of a scope. *)

SameRealm(s) == /\ guests'[s].id = guests[s].id /\ guests'[s].reg = guests[s].reg
                /\ guests'[s].host = guests[s].host
Stays(s)  == SameRealm(s) /\ guests'[s].state = guests[s].state
Goes(s)   == guests'[s].state = "none" /\ guests[s].state # "running"
Starts(s) == SameRealm(s) /\ guests[s].state = "spawning" /\ guests'[s].state = "running" /\ Begun(s)
Ends(s)   == SameRealm(s) /\ Alive(s) /\ guests'[s].state = "terminating"

\* The realms of the scopes ended are told to end, no other realm comes or goes by force.
Winds(ended) ==
  /\ guests' \in [Scopes -> GuestRecords]
  /\ \A s \in Scopes \ ended : Stays(s) \/ Goes(s) \/ Starts(s)
  /\ \A s \in ended : Ends(s)
  /\ UNCHANGED <<realms, regs, hosts>>

LEMMA WindsRecords ==
  ASSUME Types, Records, NEW ended \in SUBSET Scopes, Winds(ended), open' \subseteq open
  PROVE  Records'
<1>1. ASSUME NEW s \in Scopes, guests'[s].state # "none" PROVE RecordOf(s)'
  <2>1. SameRealm(s) /\ guests[s].state # "none"
    BY <1>1 DEF Winds, Stays, Goes, Starts, Ends, Alive
  <2>2. RecordOf(s)
    BY <2>1 DEF Records
  <2> QED BY <2>1, <2>2 DEF RecordOf, SameRealm, Winds, ScopeOf, Announced
<1>2. \A h \in open' : Announced(h)'
  BY DEF Records, Winds, Announced
<1> QED BY <1>1, <1>2 DEF Records

LEMMA WindsFetches ==
  ASSUME Types, Records, FetchWork, NEW ended \in SUBSET Scopes, Winds(ended),
         fetch' = [f \in Fetches |-> IF fetch[f].at = "pending" /\ ScopeOf(fetch[f].realm) \in ended
                                       THEN [fetch[f] EXCEPT !.at = "unhandled"] ELSE fetch[f]]
  PROVE  FetchWork'
<1> SUFFICES ASSUME NEW f \in Fetches, fetch'[f].at = "pending" PROVE RunsAs(fetch[f].realm)'
                                                                      /\ fetch'[f] = fetch[f]
  BY DEF FetchWork, RunsAs, ScopeOf
<1>1. fetch[f] \in FetchRecords
  BY DEF Types, WorkTypes
<1>2. fetch'[f] = fetch[f] /\ fetch[f].at = "pending" /\ ScopeOf(fetch[f].realm) \notin ended
  BY <1>1 DEF FetchRecords
<1>3. RunsAs(fetch[f].realm)
  BY <1>2 DEF FetchWork
<1> DEFINE s == ScopeOf(fetch[f].realm)
<1>4. s \in Scopes
  <2>1. realms[fetch[f].realm] \in RealmRecords(Len(regs))
    BY <1>3, ElementOfSeq DEF Types, RecordTypes, RunsAs
  <2> QED BY <2>1 DEF RealmRecords, ScopeOf
<1>5. Stays(s)
  BY <1>2, <1>3, <1>4 DEF Winds, Goes, Starts, RunsAs
<1> QED BY <1>2, <1>3, <1>5 DEF RunsAs, Stays, SameRealm, Winds, ScopeOf

LEMMA WindsWaits ==
  ASSUME Types, Records, WaitWork, NEW ended \in SUBSET Scopes, Winds(ended),
         waitPending' = [s \in Scopes |-> IF s \in ended THEN 0 ELSE waitPending[s]]
  PROVE  WaitWork'
<1> SUFFICES ASSUME NEW s \in Scopes, waitPending'[s] # 0
             PROVE  guests'[s].state = "running" /\ guests'[s].id = waitPending'[s]
  BY DEF WaitWork, Running
<1>1. s \notin ended /\ waitPending'[s] = waitPending[s]
  OBVIOUS
<1>2. guests[s].state = "running" /\ guests[s].id = waitPending[s]
  BY <1>1 DEF WaitWork, Running
<1> QED BY <1>1, <1>2 DEF Winds, Stays, SameRealm, Goes, Starts

\* A realm that the record of s names and that runs or spawns keeps its calls.
LEMMA CallsKept ==
  ASSUME Types, Records, CallWork, NEW ended \in SUBSET Scopes, ClearGuestWork(ended),
         NEW s \in Scopes \ ended, Alive(s), NEW w \in What
  PROVE  calls'[guests[s].id][w] = calls[guests[s].id][w] /\ guests[s].id \in Ids
<1>1. guests[s].id \in Ids /\ ScopeOf(guests[s].id) = s /\ guests[s].id # 0
  BY Assumed, Lengths DEF Records, RecordOf, Alive, Ids, Types, RecordTypes
<1>2. ASSUME NEW t \in ended, netPending[t][w] = guests[s].id PROVE FALSE
  <2>1. guests[t].state = "running" /\ guests[t].id = guests[s].id
    BY <1>1, <1>2 DEF CallWork, CallsAt
  <2>2. ScopeOf(guests[t].id) = t
    BY <2>1 DEF Records, RecordOf
  <2> QED BY <1>1, <2>1, <2>2
<1> QED BY <1>1, <1>2 DEF ClearGuestWork

LEMMA ClearedCallOf ==
  ASSUME Types, CallWork, NEW ended \in SUBSET Scopes, ClearGuestWork(ended),
         NEW i \in Ids, NEW w \in What
  PROVE  /\ calls'[i][w].timer => calls'[i][w].results = 0
         /\ i > Len(realms) => calls'[i][w] = NoCall
         /\ calls[i][w] = NoCall => calls'[i][w] = NoCall
<1>1. calls'[i][w] \in {calls[i][w], [calls[i][w] EXCEPT !.timer = FALSE]}
  BY DEF ClearGuestWork
<1>2. CallOf(i, w) /\ calls[i][w] \in CallRecords
  BY DEF CallWork, Types, WorkTypes
<1>3. [NoCall EXCEPT !.timer = FALSE] = NoCall
  <2>1. \A c \in CallRecords : ~c.timer => [c EXCEPT !.timer = FALSE] = c
    BY DEF CallRecords
  <2>2. NoCall \in CallRecords /\ ~NoCall.timer
    BY DEF NoCall, CallRecords
  <2> QED BY <2>1, <2>2
<1>4. calls'[i][w].timer => calls'[i][w].results = 0
  BY <1>1, <1>2 DEF CallOf, CallRecords
<1> QED BY <1>1, <1>2, <1>3, <1>4 DEF CallOf

LEMMA CallsAtKept ==
  ASSUME Types, Records, CallWork, NEW ended \in SUBSET Scopes, ClearGuestWork(ended),
         NEW s \in Scopes \ ended, Stays(s) \/ Goes(s) \/ Starts(s), NEW w \in What
  PROVE  CallsAt(s, w)'
<1>0. CallsAt(s, w) /\ netPending'[s][w] = netPending[s][w]
  BY DEF CallWork, ClearGuestWork
<1>1. CASE Stays(s) /\ Alive(s)
  <2>1. calls'[guests[s].id][w] = calls[guests[s].id][w]
    BY <1>1, CallsKept
  <2> QED BY <1>0, <1>1, <2>1 DEF CallsAt, Stays, SameRealm
<1>2. CASE Stays(s) /\ ~Alive(s)
  BY <1>0, <1>2 DEF CallsAt, Stays, Alive
<1>3. CASE Goes(s)
  BY <1>0, <1>3 DEF CallsAt, Goes
<1>4. CASE Starts(s)
  <2>1. Alive(s) /\ guests'[s].state = "running" /\ guests'[s].id = guests[s].id
    BY <1>4 DEF Starts, SameRealm, Alive
  <2>2. calls[guests[s].id][w] = NoCall /\ netPending[s][w] = 0
    BY <1>0, <1>4 DEF CallsAt, Starts
  <2>3. calls'[guests[s].id][w] = NoCall
    BY <2>1, <2>2, CallsKept
  <2>4. calls'[guests[s].id][w].results <= 1
    BY <2>3 DEF NoCall
  <2> QED BY <1>0, <2>1, <2>2, <2>4 DEF CallsAt
<1> QED BY <1>1, <1>2, <1>3, <1>4

LEMMA WindsCalls ==
  ASSUME Types, Records, CallWork, NEW ended \in SUBSET Scopes, Winds(ended),
         ClearGuestWork(ended)
  PROVE  CallWork'
<1>1. ASSUME NEW i \in Ids, NEW w \in What PROVE CallOf(i, w)'
  BY ClearedCallOf DEF CallOf, Winds
<1>2. ASSUME NEW s \in Scopes, NEW w \in What PROVE CallsAt(s, w)'
  <2>1. CASE s \in ended
    <3>1. netPending'[s][w] = 0
      BY <2>1 DEF ClearGuestWork
    <3> QED BY <2>1, <3>1 DEF Winds, Ends, CallsAt
  <2>2. CASE s \notin ended
    BY <2>2, CallsAtKept DEF Winds
  <2> QED BY <2>1, <2>2
<1> QED BY <1>1, <1>2 DEF CallWork

LEMMA HostedCarries ==
  ASSUME NEW s \in Scopes, SameRealm(s), guests[s].id \in Nat, HostedAt(s),
         Follows(toHost[guests[s].host], toHost'[guests[s].host], s),
         Begun(s)' => Begun(s),
         Begun(s) => workers'[guests[s].host][s] = workers[guests[s].host][s]
  PROVE  HostedAt(s)'
<1>1. guests'[s].host = guests[s].host /\ guests'[s].id = guests[s].id
  BY DEF SameRealm
<1>2. /\ NoEnd(toHost'[guests[s].host], s, guests[s].id)
      /\ LastSpawn(toHost'[guests[s].host], s, guests[s].id)
  BY DEF HostedAt, Follows
<1>3. Begun(s) => /\ workers'[guests[s].host][s] = guests[s].id
                  /\ NoSpawn(toHost'[guests[s].host], s)
  BY DEF HostedAt, Follows
<1>4. /\ NoEnd(toHost[guests[s].host], s, guests[s].id)'
      /\ LastSpawn(toHost[guests[s].host], s, guests[s].id)'
  BY <1>1, <1>2 DEF NoEnd, LastSpawn
<1>5. Begun(s)' => /\ workers'[guests'[s].host][s] = guests'[s].id
                   /\ NoSpawn(toHost[guests[s].host], s)'
  BY <1>1, <1>3 DEF NoSpawn
<1> QED BY <1>4, <1>5 DEF HostedAt

LEMMA AliveIs ==
  ASSUME Types, Records, NEW s \in Scopes, Alive(s)
  PROVE  RecordOf(s) /\ guests[s].id \in Nat /\ guests[s].id # 0 /\ guests[s].host \in Hosts
<1>1. RecordOf(s)
  BY DEF Records, Alive
<1>2. Len(realms) \in Nat /\ hosts \in Seq(Hosts)
  BY Lengths DEF Types, HostTypes
<1>3. guests[s].host \in Hosts
  BY <1>1, <1>2, ElementOfSeq DEF RecordOf, Announced
<1> QED BY <1>1, <1>2, <1>3 DEF RecordOf

LEMMA WindsHosted ==
  ASSUME Types, Records, Hosted, NEW ended \in SUBSET Scopes, Winds(ended),
         open' \subseteq open, workers' = workers,
         \A h \in Hosts : \A s \in Scopes \ ended : Follows(toHost[h], toHost'[h], s),
         \A h \in Hosts : \A m : Heard(toKernel'[h], m) => Heard(toKernel[h], m)
  PROVE  Hosted'
<1> SUFFICES ASSUME NEW s \in Scopes, Alive(s)', guests'[s].host \in open' PROVE HostedAt(s)'
  BY DEF Hosted
<1>1. s \notin ended /\ SameRealm(s) /\ Alive(s) /\ (guests'[s].state = "running" => Begun(s))
  BY DEF Winds, Ends, Stays, Goes, Starts, Alive, Begun
<1>2. guests[s].host \in open /\ guests[s].id \in Nat /\ guests[s].host \in Hosts
  BY <1>1, AliveIs DEF SameRealm
<1>3. HostedAt(s)
  BY <1>1, <1>2 DEF Hosted
<1>4. Begun(s)' => Begun(s)
  <2>1. Heard(toKernel'[guests[s].host], Frame("spawned", s, guests[s].id))
          => Heard(toKernel[guests[s].host], Frame("spawned", s, guests[s].id))
    BY <1>2
  <2>2. Heard(toKernel[guests[s].host], Frame("spawned", s, guests[s].id))'
          => Heard(toKernel'[guests[s].host], Frame("spawned", s, guests[s].id))
    BY <1>1 DEF Heard, SameRealm, Frame
  <2> QED BY <1>1, <2>1, <2>2 DEF Begun
<1> QED BY <1>1, <1>2, <1>3, <1>4, HostedCarries

\* A scope gets a new realm, which no frame knows yet.
Renews(s) ==
  /\ guests' \in [Scopes -> GuestRecords]
  /\ \A t \in Scopes \ {s} : Stays(t) \/ Goes(t)
  /\ guests'[s].id = Len(realms) + 1 /\ guests'[s].state = "spawning"
  /\ guests'[s].reg \in 1..Len(regs') /\ Announced(guests'[s].host)
  /\ regs' \in Seq(RegRecords) /\ Len(regs) <= Len(regs') /\ Len(realms) < MaxRealms
  /\ \E k \in 1..Len(regs') : realms' = Append(realms, [scope |-> s, reg |-> k])
  /\ UNCHANGED <<hosts, open, toKernel, workers>>

LEMMA RenewedRealms ==
  ASSUME Types, NEW s \in Scopes, Renews(s)
  PROVE  /\ realms' \in Seq(RealmRecords(Len(regs'))) /\ Len(realms') = Len(realms) + 1
         /\ \A i \in 1..Len(realms) : realms'[i] = realms[i]
         /\ realms'[Len(realms) + 1].scope = s
<1>1. PICK k \in 1..Len(regs') : realms' = Append(realms, [scope |-> s, reg |-> k])
  BY DEF Renews
<1>2. /\ Len(regs) \in Nat /\ Len(regs') \in Nat /\ Len(regs) <= Len(regs')
      /\ realms \in Seq(RealmRecords(Len(regs)))
  BY Lengths DEF Renews, Types, RecordTypes
<1>3. realms \in Seq(RealmRecords(Len(regs')))
  <2>1. RealmRecords(Len(regs)) \subseteq RealmRecords(Len(regs'))
    BY <1>2 DEF RealmRecords
  <2> QED BY <1>2, <2>1, SeqMonotonic
<1>4. [scope |-> s, reg |-> k] \in RealmRecords(Len(regs'))
  BY DEF RealmRecords
<1> QED BY <1>1, <1>3, <1>4, AppendProperties

LEMMA RenewsRecords ==
  ASSUME Types, Records, NEW s \in Scopes, Renews(s)
  PROVE  Records'
<1>0. Len(realms) \in Nat /\ Len(regs) \in Nat /\ Len(regs') \in Nat /\ Len(regs) <= Len(regs')
  BY Lengths DEF Renews
<1>1. ASSUME NEW t \in Scopes \ {s}, guests'[t].state # "none" PROVE RecordOf(t)'
  <2>1. SameRealm(t) /\ guests[t].state # "none"
    BY <1>1 DEF Renews, Stays, Goes
  <2>2. RecordOf(t)
    BY <2>1 DEF Records
  <2>3. guests'[t].id \in 1..Len(realms') /\ ScopeOf(guests[t].id)' = t
    BY <1>0, <2>1, <2>2, RenewedRealms DEF RecordOf, SameRealm, ScopeOf
  <2>4. \A i \in 1..Len(realms') : realms'[i].scope = t => i <= guests'[t].id
    BY <1>0, <2>1, <2>2, RenewedRealms DEF RecordOf, SameRealm, ScopeOf
  <2>5. guests'[t].reg \in 1..Len(regs') /\ Announced(guests[t].host)'
    BY <1>0, <2>1, <2>2 DEF RecordOf, SameRealm, Renews, Announced
  <2> QED BY <2>3, <2>4, <2>5 DEF RecordOf, ScopeOf
<1>2. RecordOf(s)'
  <2>1. guests'[s].id \in 1..Len(realms') /\ ScopeOf(guests[s].id)' = s
    BY <1>0, RenewedRealms DEF Renews, ScopeOf
  <2>2. \A i \in 1..Len(realms') : i <= guests'[s].id
    BY <1>0, RenewedRealms DEF Renews
  <2>3. guests'[s].reg \in 1..Len(regs') /\ Announced(guests[s].host)'
    BY DEF Renews, Announced
  <2> QED BY <2>1, <2>2, <2>3 DEF RecordOf
<1>3. \A h \in open' : Announced(h)'
  BY DEF Records, Renews, Announced
<1> QED BY <1>1, <1>2, <1>3 DEF Records

LEMMA RenewsWork ==
  ASSUME Types, Records, FetchWork, WaitWork, CallWork, NEW s \in Scopes, Renews(s),
         ClearGuestWork({s})
  PROVE  FetchWork' /\ WaitWork' /\ CallWork'
<1>0. Len(realms) \in Nat /\ Len(realms) + 1 \in Ids /\ Len(realms') = Len(realms) + 1
  BY Lengths, RenewedRealms, Assumed DEF Renews, Ids
<1>1. ASSUME NEW f \in Fetches, fetch'[f].at = "pending" PROVE RunsAs(fetch[f].realm)'
  <2>0. fetch[f] \in FetchRecords
    BY DEF Types, WorkTypes
  <2>1. fetch'[f] = fetch[f] /\ fetch[f].at = "pending" /\ ScopeOf(fetch[f].realm) # s
    BY <1>1, <2>0 DEF FetchRecords, ClearGuestWork
  <2>2. RunsAs(fetch[f].realm)
    BY <2>1 DEF FetchWork
  <2> DEFINE i == fetch[f].realm
             t == ScopeOf(i)
  <2>3. i \in 1..Len(realms) /\ guests[t].state = "running" /\ guests[t].id = i
    BY <2>2 DEF RunsAs
  <2>4. t \in Scopes
    <3>1. realms[i] \in RealmRecords(Len(regs))
      BY <2>3, ElementOfSeq DEF Types, RecordTypes
    <3> QED BY <3>1 DEF RealmRecords, ScopeOf
  <2>5. Stays(t)
    BY <2>1, <2>3, <2>4 DEF Renews, Goes
  <2>6. realms'[i].scope = t /\ i \in 1..Len(realms')
    BY <1>0, <2>3, RenewedRealms DEF ScopeOf
  <2>7. guests'[t].state = "running" /\ guests'[t].id = i
    BY <2>3, <2>5 DEF Stays, SameRealm
  <2>8. RunsAs(fetch[f].realm)'
    BY <2>1, <2>6, <2>7 DEF RunsAs, ScopeOf
  <2> QED BY <2>8
<1>2. ASSUME NEW t \in Scopes, waitPending'[t] # 0
      PROVE  guests'[t].state = "running" /\ guests'[t].id = waitPending'[t]
  <2>1. t # s /\ waitPending'[t] = waitPending[t]
    BY <1>2 DEF ClearGuestWork
  <2>2. guests[t].state = "running" /\ guests[t].id = waitPending[t]
    BY <1>2, <2>1 DEF WaitWork, Running
  <2> QED BY <2>1, <2>2 DEF Renews, Stays, SameRealm, Goes
<1>3. ASSUME NEW i \in Ids, NEW w \in What PROVE CallOf(i, w)'
  BY <1>0, ClearedCallOf DEF CallOf, Ids
<1>4. ASSUME NEW t \in Scopes, NEW w \in What PROVE CallsAt(t, w)'
  <2>1. CASE t = s
    <3>1. netPending'[s][w] = 0
      BY DEF ClearGuestWork
    <3>2. calls'[Len(realms) + 1][w] = NoCall
      BY <1>0, ClearedCallOf
    <3> QED BY <2>1, <3>1, <3>2 DEF CallsAt, Renews
  <2>2. CASE t # s
    BY <2>2, CallsAtKept DEF Renews
  <2> QED BY <2>1, <2>2
<1> QED BY <1>1, <1>2, <1>3, <1>4 DEF FetchWork, WaitWork, Running, CallWork

SpawnPosted(s) ==
  IF guests'[s].host \in open
    THEN Post(guests'[s].host, [op |-> "spawn", scope |-> s, id |-> Len(realms) + 1])
    ELSE UNCHANGED toHost

LEMMA RenewsHostTypes ==
  ASSUME Types, NEW s \in Scopes, Renews(s), SpawnPosted(s) PROVE HostTypes'
<1>0. /\ Len(realms) \in Nat /\ Len(realms') = Len(realms) + 1
      /\ hosts \in Seq(Hosts) /\ open \subseteq Hosts
      /\ toHost \in [Hosts -> Seq(HostFrames(Len(realms)))]
      /\ toKernel \in [Hosts -> Seq(KernelFrames(Len(realms)))]
      /\ workers \in [Hosts -> [Scopes -> 0..Len(realms)]]
  BY Lengths, RenewedRealms DEF Types, HostTypes
<1>1. \A h \in Hosts : toHost[h] \in Seq(HostFrames(Len(realms')))
  <2>1. HostFrames(Len(realms)) \subseteq HostFrames(Len(realms'))
    BY <1>0 DEF HostFrames
  <2> QED BY <1>0, <2>1, SeqMonotonic
<1>2. toHost' \in [Hosts -> Seq(HostFrames(Len(realms')))]
  <2> DEFINE m == [op |-> "spawn", scope |-> s, id |-> Len(realms) + 1]
  <2>1. m \in HostFrames(Len(realms'))
    BY <1>0 DEF HostFrames
  <2> HIDE DEF m
  <2>2. \A h \in Hosts : Append(toHost[h], m) \in Seq(HostFrames(Len(realms')))
    BY <1>1, <2>1, AppendProperties
  <2>3. toHost' = [h \in Hosts |-> toHost'[h]]
    BY <1>0 DEF SpawnPosted, Post
  <2>4. \A h \in Hosts : toHost'[h] \in {toHost[h], Append(toHost[h], m)}
    BY <1>0 DEF SpawnPosted, Post, m
  <2> QED BY <1>1, <2>2, <2>3, <2>4
<1>3. toKernel' \in [Hosts -> Seq(KernelFrames(Len(realms')))]
  <2>1. KernelFrames(Len(realms)) \subseteq KernelFrames(Len(realms'))
    BY <1>0 DEF KernelFrames
  <2>2. \A h \in Hosts : toKernel[h] \in Seq(KernelFrames(Len(realms')))
    BY <1>0, <2>1, SeqMonotonic
  <2> QED BY <1>0, <2>2 DEF Renews
<1>4. workers' \in [Hosts -> [Scopes -> 0..Len(realms')]]
  <2>1. 0..Len(realms) \subseteq 0..Len(realms')
    BY <1>0
  <2>2. \A h \in Hosts : workers[h] \in [Scopes -> 0..Len(realms')]
    BY <1>0, <2>1
  <2> QED BY <1>0, <2>2 DEF Renews
<1>5. hosts' \in Seq(Hosts) /\ open' \subseteq Hosts
  BY <1>0 DEF Renews
<1> QED BY <1>2, <1>3, <1>4, <1>5 DEF HostTypes

LEMMA RenewsTypes ==
  ASSUME Types, NEW s \in Scopes, Renews(s), SpawnPosted(s), ClearGuestWork({s}),
         swaps' \subseteq swaps, reply' \in [Callers -> Replied]
  PROVE  Types'
<1>0. Len(realms) \in Nat /\ Len(realms') = Len(realms) + 1
  BY Lengths, RenewedRealms
<1>1. RecordTypes'
  <2>1. realms' \in Seq(RealmRecords(Len(regs')))
    BY RenewedRealms
  <2>2. Len(realms') <= MaxRealms /\ regs' \in Seq(RegRecords) /\ guests' \in [Scopes -> GuestRecords]
    BY <1>0, Assumed DEF Renews
  <2> QED BY <2>1, <2>2 DEF RecordTypes
<1>2. WorkTypes'
  <2>1. 0..Len(realms) \subseteq 0..Len(realms')
    BY <1>0
  <2>2. waitPending' \in [Scopes -> 0..Len(realms')]
    BY <2>1, ClearedTypes
  <2>3. netPending' \in [Scopes -> [What -> 0..Len(realms')]]
    BY <2>1, ClearedTypes
  <2>4. swaps' \subseteq SwapRecords
    BY DEF Types, WorkTypes
  <2> QED BY <2>2, <2>3, <2>4, ClearedTypes DEF WorkTypes
<1> QED BY <1>1, <1>2, RenewsHostTypes DEF Types

LEMMA RenewsHosted ==
  ASSUME Types, Records, Hosted, NEW s \in Scopes, Renews(s), SpawnPosted(s) PROVE Hosted'
<1> DEFINE m == [op |-> "spawn", scope |-> s, id |-> Len(realms) + 1]
<1>0. /\ Len(realms) \in Nat /\ open \subseteq Hosts
      /\ toHost \in [Hosts -> Seq(HostFrames(Len(realms)))]
      /\ toKernel \in [Hosts -> Seq(KernelFrames(Len(realms)))]
  BY Lengths DEF Types, HostTypes
<1>1. ASSUME Alive(s)', guests'[s].host \in open' PROVE HostedAt(s)'
  <2> DEFINE h == guests'[s].host
  <2>1. h \in open /\ h \in Hosts
    BY <1>0, <1>1 DEF Renews
  <2>2. toHost'[h] = Append(toHost[h], m)
    BY <1>0, <2>1 DEF SpawnPosted, Post
  <2>3. guests'[s].id = Len(realms) + 1 /\ guests'[s].state = "spawning"
    BY DEF Renews
  <2>4. toHost[h] \in Seq(HostFrames(Len(realms))) /\ toKernel[h] \in Seq(KernelFrames(Len(realms)))
    BY <1>0, <2>1
  <2> HIDE DEF h
  <2>5. NoEnd(toHost'[h], s, Len(realms) + 1) /\ LastSpawn(toHost'[h], s, Len(realms) + 1)
    BY <1>0, <2>2, <2>4, FreshFrames
  <2>6. ~Heard(toKernel[h], Frame("spawned", s, Len(realms) + 1))
    <3>1. \A n \in 1..Len(toKernel[h]) : toKernel[h][n] \in KernelFrames(Len(realms))
      BY <2>4, ElementOfSeq
    <3> QED BY <1>0, <3>1 DEF Heard, KernelFrames, Frame
  <2>7. ~Begun(s)'
    BY <2>3, <2>6 DEF Begun, Heard, Frame, Renews, h
  <2>8. /\ NoEnd(toHost[guests[s].host], s, guests[s].id)'
        /\ LastSpawn(toHost[guests[s].host], s, guests[s].id)'
    BY <2>3, <2>5 DEF NoEnd, LastSpawn, h
  <2> QED BY <2>7, <2>8 DEF HostedAt
<1>2. ASSUME NEW t \in Scopes \ {s}, Alive(t)', guests'[t].host \in open' PROVE HostedAt(t)'
  <2>1. Stays(t) /\ Alive(t)
    BY <1>2 DEF Renews, Goes, Stays, Alive
  <2>2. /\ SameRealm(t) /\ guests[t].host \in open /\ guests[t].id \in Nat
        /\ guests[t].host \in Hosts /\ HostedAt(t)
    BY <1>2, <2>1, AliveIs DEF Stays, SameRealm, Renews, Hosted
  <2>3. Begun(t)' => Begun(t)
    BY <2>1 DEF Begun, Stays, SameRealm, Renews, Heard, Frame
  <2>4. Follows(toHost[guests[t].host], toHost'[guests[t].host], t)
    <3>1. toHost[guests[t].host] \in Seq(HostFrames(Len(realms) + 1))
      <4>1. HostFrames(Len(realms)) \subseteq HostFrames(Len(realms) + 1)
        BY <1>0 DEF HostFrames
      <4> QED BY <1>0, <2>2, <4>1, SeqMonotonic
    <3>2. m \in HostFrames(Len(realms) + 1) /\ m.scope # t
      BY <1>0, <1>2 DEF HostFrames
    <3> HIDE DEF m
    <3>3. Follows(toHost[guests[t].host], Append(toHost[guests[t].host], m), t)
      BY <1>0, <3>1, <3>2, FollowsAppend
    <3>4. toHost'[guests[t].host] \in {toHost[guests[t].host], Append(toHost[guests[t].host], m)}
      BY <1>0, <2>2 DEF SpawnPosted, Post, m
    <3> QED BY <3>3, <3>4, FollowsSame
  <2> QED BY <2>2, <2>3, <2>4, HostedCarries DEF Renews
<1> QED BY <1>1, <1>2 DEF Hosted

LEMMA RenewsKeeps ==
  ASSUME IInv, NEW s \in Scopes, Renews(s), SpawnPosted(s), ClearGuestWork({s}),
         swaps' \subseteq swaps, reply' \in [Callers -> Replied], Waiting'
  PROVE  IInv'
<1>1. Types'
  BY RenewsTypes DEF IInv
<1>2. Records' /\ Hosted'
  BY RenewsRecords, RenewsHosted DEF IInv
<1>3. FetchWork' /\ WaitWork' /\ CallWork'
  BY RenewsWork DEF IInv
<1> QED BY <1>1, <1>2, <1>3 DEF IInv

\* A step of the kernel that makes no realm, with its frames to and from the hosts.
LEMMA WindsKeeps ==
  ASSUME IInv, NEW ended \in SUBSET Scopes, Winds(ended), ClearGuestWork(ended),
         UNCHANGED <<swaps, open, workers>>,
         toHost' \in [Hosts -> Seq(HostFrames(Len(realms)))],
         toKernel' \in [Hosts -> Seq(KernelFrames(Len(realms)))],
         \A h \in Hosts : \A s \in Scopes \ ended : Follows(toHost[h], toHost'[h], s),
         \A h \in Hosts : \A m : Heard(toKernel'[h], m) => Heard(toKernel[h], m),
         reply' \in [Callers -> Replied], Waiting'
  PROVE  IInv'
<1>1. RecordTypes'
  BY DEF IInv, Types, RecordTypes, Winds
<1>2. WorkTypes'
  <2>1. swaps \subseteq SwapRecords /\ realms' = realms
    BY DEF IInv, Types, WorkTypes, Winds
  <2>2. Types
    BY DEF IInv
  <2> QED BY <2>1, <2>2, ClearedTypes DEF WorkTypes
<1>3. HostTypes'
  BY DEF IInv, Types, HostTypes, Winds
<1>4. Records'
  BY WindsRecords DEF IInv
<1>5. Hosted'
  BY WindsHosted DEF IInv
<1>6. FetchWork'
  BY WindsFetches DEF IInv, ClearGuestWork
<1>7. WaitWork'
  BY WindsWaits DEF IInv, ClearGuestWork
<1>8. CallWork'
  BY WindsCalls DEF IInv
<1> QED BY <1>1, <1>2, <1>3, <1>4, <1>5, <1>6, <1>7, <1>8 DEF IInv, Types

\* A step of a host page or of its port.
LEMMA HostsKeep ==
  ASSUME IInv, UNCHANGED <<kernelVars, workVars>>, HostTypes', Hosted',
         \A h \in open' : Announced(h)', \A h \in Hosts : Announced(h) => Announced(h)'
  PROVE  IInv'
<1>1. RecordTypes' /\ WorkTypes'
  BY DEF IInv, Types, RecordTypes, WorkTypes, kernelVars, workVars
<1>2. Records'
  <2> SUFFICES ASSUME NEW s \in Scopes, guests[s].state # "none" PROVE RecordOf(s)'
    BY DEF Records, kernelVars
  <2>1. RecordOf(s)
    BY DEF IInv, Records
  <2>2. guests[s].host \in Hosts
    BY <2>1, ElementOfSeq DEF RecordOf, Announced, IInv, Types, HostTypes
  <2>3. Announced(guests[s].host)'
    BY <2>1, <2>2 DEF RecordOf, kernelVars, Announced
  <2> QED BY <2>1, <2>3 DEF RecordOf, kernelVars, ScopeOf
<1>3. FetchWork' /\ WaitWork'
  BY DEF IInv, FetchWork, WaitWork, RunsAs, Running, ScopeOf, kernelVars, workVars
<1>4. CallWork'
  BY DEF IInv, CallWork, CallOf, CallsAt, kernelVars, workVars
<1>5. Waiting'
  BY DEF IInv, Waiting, kernelVars
<1> QED BY <1>1, <1>2, <1>3, <1>4, <1>5 DEF IInv, Types

\* A step of the pending work.
LEMMA WorkKeeps ==
  ASSUME IInv, UNCHANGED <<kernelVars, hostVars>>, WorkTypes', FetchWork', WaitWork', CallWork'
  PROVE  IInv'
<1>1. RecordTypes' /\ HostTypes'
  BY DEF IInv, Types, RecordTypes, HostTypes, kernelVars, hostVars
<1>2. Records'
  BY DEF IInv, Records, RecordOf, Announced, ScopeOf, kernelVars, hostVars
<1>3. Hosted'
  BY DEF IInv, Hosted, HostedAt, Alive, Begun, NoEnd, NoSpawn, LastSpawn, Heard, kernelVars, hostVars
<1>4. Waiting'
  BY DEF IInv, Waiting, kernelVars
<1> QED BY <1>1, <1>2, <1>3, <1>4 DEF IInv, Types
--------------------------------------------------------------------------------
(* The kernel's handlers. *)

LEMMA TickedNone == ASSUME Types PROVE Ticked({}) = guests /\ Replies({}) = reply
<1>1. guests = [s \in Scopes |-> guests[s]] /\ reply = [c \in Callers |-> reply[c]]
  BY DEF Types, RecordTypes
<1>2. Ticked({}) = [s \in Scopes |-> guests[s]]
  BY DEF Ticked
<1>3. Replies({}) = [c \in Callers |-> reply[c]]
  BY DEF Replies, Told
<1> QED BY <1>1, <1>2, <1>3

LEMMA TickedWaits ==
  ASSUME Types, Waiting, NEW late \in SUBSET {s \in Scopes : MayBeOverdue(s)}, NEW s \in Scopes,
         NEW c \in Ticked(late)[s].pending
  PROVE  c \in Callers /\ Replies(late)[c] # "none"
<1>1. Ticked(late)[s] = guests[s]
  BY TickedIs DEF NoGuest
<1>2. guests[s] \in GuestRecords
  BY DEF Types, RecordTypes
<1>3. c \in Callers /\ reply[c] # "none"
  BY <1>1, <1>2 DEF GuestRecords, Waiting
<1> QED BY <1>3, TickedIs

LEMMA TickedWinds ==
  ASSUME Types, NEW late \in SUBSET {s \in Scopes : MayBeOverdue(s)},
         guests' \in [Scopes -> GuestRecords],
         \A s \in Scopes : /\ guests'[s].id = Ticked(late)[s].id
                           /\ guests'[s].reg = Ticked(late)[s].reg
                           /\ guests'[s].host = Ticked(late)[s].host
                           /\ guests'[s].state = Ticked(late)[s].state,
         UNCHANGED <<realms, regs, hosts>>
  PROVE  Winds({})
<1>1. ASSUME NEW s \in Scopes PROVE Stays(s) \/ Goes(s)
  <2>1. CASE Ticked(late)[s] = guests[s]
    BY <2>1 DEF Stays, SameRealm
  <2>2. CASE Ticked(late)[s] = NoGuest /\ guests[s].state # "running"
    BY <2>2 DEF Goes, NoGuest
  <2> QED BY <2>1, <2>2, TickedIs
<1> QED BY <1>1 DEF Winds

\* A step that ends no realm and leaves the work and the frames alone.
LEMMA CalmKeeps ==
  ASSUME IInv, Winds({}), UNCHANGED <<workVars, open, workers, toHost>>,
         toKernel' \in [Hosts -> Seq(KernelFrames(Len(realms)))],
         \A h \in Hosts : \A m : Heard(toKernel'[h], m) => Heard(toKernel[h], m),
         reply' \in [Callers -> Replied], Waiting'
  PROVE  IInv'
<1>1. ClearGuestWork({}) /\ swaps' = swaps
  BY ClearNothing DEF IInv, workVars
<1>2. toHost' \in [Hosts -> Seq(HostFrames(Len(realms)))]
  BY DEF IInv, Types, HostTypes
<1>3. \A h \in Hosts : \A s \in Scopes \ {} : Follows(toHost[h], toHost'[h], s)
  BY FollowsSame
<1> QED BY <1>1, <1>2, <1>3, WindsKeeps

LEMMA OnlyTicksKeeps ==
  ASSUME IInv, NEW late \in SUBSET {s \in Scopes : MayBeOverdue(s)}, OnlyTicks(late)
  PROVE  IInv'
<1>1. /\ guests' = Ticked(late) /\ reply' = Replies(late)
      /\ UNCHANGED <<regs, realms, workVars, hosts, open, toHost, toKernel, workers>>
  BY DEF OnlyTicks, hostVars
<1>2. Types /\ Waiting
  BY DEF IInv
<1>3. Winds({}) /\ reply' \in [Callers -> Replied]
  BY <1>1, <1>2, TickedIs, TickedWinds
<1>4. Waiting'
  BY <1>1, <1>2, TickedWaits DEF Waiting
<1>5. toKernel' \in [Hosts -> Seq(KernelFrames(Len(realms)))]
  BY <1>1, <1>2 DEF Types, HostTypes
<1> QED BY <1>1, <1>3, <1>4, <1>5, CalmKeeps

LEMMA RejoinKeeps ==
  ASSUME IInv, NEW late \in SUBSET {s \in Scopes : MayBeOverdue(s)}, NEW c \in Callers,
         NEW s \in Scopes, NEW u \in URLs, NEW v \in Versions, Rejoin(c, s, u, v, late)
  PROVE  IInv'
<1> DEFINE g == Ticked(late)
<1>1. UNCHANGED <<regs, realms, workVars, hosts, open, toHost, toKernel, workers>>
  BY DEF Rejoin, hostVars
<1>2. Types /\ Waiting /\ g \in [Scopes -> GuestRecords] /\ Replies(late) \in [Callers -> Replied]
  BY TickedIs DEF IInv
<1>3. \A x \in GuestRecords : [x EXCEPT !.pending = @ \cup {c}] \in GuestRecords
  BY DEF GuestRecords
<1>4. PICK r \in {"ok", "waiting"} :
        /\ reply' = [Replies(late) EXCEPT ![c] = r]
        /\ guests' \in {g, [g EXCEPT ![s].pending = @ \cup {c}]}
  BY DEF Rejoin
<1> HIDE DEF g
<1>5. /\ guests' \in [Scopes -> GuestRecords]
      /\ \A t \in Scopes : /\ guests'[t].id = g[t].id /\ guests'[t].reg = g[t].reg
                           /\ guests'[t].host = g[t].host /\ guests'[t].state = g[t].state
                           /\ guests'[t].pending \subseteq g[t].pending \cup {c}
  <2>1. CASE guests' = g
    BY <1>2, <2>1
  <2>2. CASE guests' = [g EXCEPT ![s].pending = @ \cup {c}]
    <3>1. guests' = [g EXCEPT ![s] = [g[s] EXCEPT !.pending = @ \cup {c}]] /\ g[s] \in GuestRecords
      BY <1>2, <2>2
    <3>2. LET x == [g[s] EXCEPT !.pending = @ \cup {c}] IN
            /\ x \in GuestRecords /\ x.id = g[s].id /\ x.reg = g[s].reg /\ x.host = g[s].host
            /\ x.state = g[s].state /\ x.pending = g[s].pending \cup {c}
      BY <1>3, <3>1 DEF GuestRecords
    <3> QED BY <1>2, <3>1, <3>2
  <2> QED BY <1>4, <2>1, <2>2
<1>6. Winds({})
  BY <1>1, <1>2, <1>5, TickedWinds DEF g
<1>7. reply' \in [Callers -> Replied]
  BY <1>2, <1>4 DEF Replied
<1>8. Waiting'
  <2> SUFFICES ASSUME NEW t \in Scopes, NEW d \in guests'[t].pending PROVE reply'[d] # "none"
    BY DEF Waiting
  <2>1. CASE d = c
    BY <1>2, <1>4, <2>1
  <2>2. CASE d # c
    <3>1. d \in g[t].pending
      BY <1>5, <2>2
    <3>2. d \in Callers /\ Replies(late)[d] # "none"
      BY <1>2, <3>1, TickedWaits DEF g
    <3> QED BY <1>2, <1>4, <2>2, <3>2
  <2> QED BY <2>1, <2>2
<1>9. toKernel' \in [Hosts -> Seq(KernelFrames(Len(realms)))]
  BY <1>1, <1>2 DEF Types, HostTypes
<1> QED BY <1>1, <1>6, <1>7, <1>8, <1>9, CalmKeeps

\* terminateKey, of whatever scopes and after whatever tick.
LEMMA EndsKeep ==
  ASSUME IInv, NEW late \in SUBSET {s \in Scopes : MayBeOverdue(s)}, NEW ss \in SUBSET Scopes,
         TerminateKeys(Ticked(late), ss), reply' = Replies(late),
         UNCHANGED <<regs, realms, swaps, hosts, open, workers>>,
         toKernel' \in [Hosts -> Seq(KernelFrames(Len(realms)))],
         \A h \in Hosts : \A m : Heard(toKernel'[h], m) => Heard(toKernel[h], m)
  PROVE  IInv'
<1> DEFINE g == Ticked(late)
           ended == Enders(g, ss)
<1>1. Types /\ Records /\ Waiting /\ g \in [Scopes -> GuestRecords]
  BY TickedIs DEF IInv
<1>2. ended \in SUBSET Scopes /\ \A s \in ended : g[s] = guests[s] /\ Alive(s)
  BY <1>1, TickedIs DEF Enders, NoGuest, Alive
<1>3. \A s \in ended : g[s].id \in 1..Len(realms)
  BY <1>1, <1>2, AliveIs DEF RecordOf
<1>4. /\ guests' = [s \in Scopes |-> IF s \in ended THEN [g[s] EXCEPT !.state = "terminating"]
                                     ELSE g[s]]
      /\ ClearGuestWork(ended)
      /\ toHost' \in [Hosts -> Seq(HostFrames(Len(realms)))]
      /\ \A h \in Hosts : \A s \in Scopes \ ended : Follows(toHost[h], toHost'[h], s)
  BY <1>1, <1>3, Terminates
<1>5. \A x \in GuestRecords :
        LET y == [x EXCEPT !.state = "terminating"] IN
        /\ y \in GuestRecords /\ y.id = x.id /\ y.reg = x.reg /\ y.host = x.host
        /\ y.state = "terminating" /\ y.pending = x.pending
  BY DEF GuestRecords, States
<1>6. /\ guests' \in [Scopes -> GuestRecords]
      /\ \A s \in Scopes : guests'[s].pending = g[s].pending
  <2>1. \A s \in Scopes : g[s] \in GuestRecords
    BY <1>1
  <2> HIDE DEF g, ended
  <2> QED BY <1>4, <1>5, <2>1
<1>7. \A s \in ended : Ends(s)
  <2>1. ASSUME NEW s \in ended PROVE Ends(s)
    <3>1. guests'[s] = [guests[s] EXCEPT !.state = "terminating"] /\ guests[s] \in GuestRecords
      BY <1>1, <1>2, <1>4
    <3> QED BY <1>2, <1>5, <3>1 DEF Ends, SameRealm
  <2> QED BY <2>1
<1>8. \A s \in Scopes \ ended : Stays(s) \/ Goes(s)
  <2>1. ASSUME NEW s \in Scopes \ ended PROVE Stays(s) \/ Goes(s)
    <3>1. guests'[s] = g[s]
      BY <1>4
    <3> HIDE DEF ended
    <3>2. CASE g[s] = guests[s]
      BY <3>1, <3>2 DEF Stays, SameRealm
    <3>3. CASE g[s] = NoGuest /\ guests[s].state # "running"
      BY <3>1, <3>3 DEF Goes, NoGuest
    <3> QED BY <1>1, <3>2, <3>3, TickedIs
  <2> QED BY <2>1
<1> HIDE DEF g, ended
<1>9. Winds(ended)
  BY <1>6, <1>7, <1>8 DEF Winds
<1>10. Waiting'
  <2> SUFFICES ASSUME NEW t \in Scopes, NEW d \in guests'[t].pending PROVE reply'[d] # "none"
    BY DEF Waiting
  <2>1. d \in g[t].pending
    BY <1>6
  <2> QED BY <1>1, <2>1, TickedWaits DEF g
<1>11. reply' \in [Callers -> Replied]
  BY <1>1, TickedIs
<1> QED BY <1>2, <1>4, <1>9, <1>10, <1>11, WindsKeeps

LEMMA SameHeard ==
  ASSUME IInv, UNCHANGED toKernel
  PROVE  /\ toKernel' \in [Hosts -> Seq(KernelFrames(Len(realms)))]
         /\ \A h \in Hosts : \A m : Heard(toKernel'[h], m) => Heard(toKernel[h], m)
  BY DEF IInv, Types, HostTypes

LEMMA EndingKeeps ==
  ASSUME IInv, NEW late \in SUBSET {s \in Scopes : MayBeOverdue(s)}, Ending(late)
  PROVE  IInv'
<1>1. PICK ss \in SUBSET Scopes :
        /\ TerminateKeys(Ticked(late), ss) /\ reply' = Replies(late)
        /\ UNCHANGED <<regs, realms, swaps, hosts, open, toKernel, workers>>
  <2>1. CASE Terminate(late)
    BY <2>1 DEF Terminate
  <2>2. CASE \E s \in Scopes, u \in URLs : Unregister(s, u, late)
    BY <2>2 DEF Unregister
  <2> QED BY <2>1, <2>2 DEF Ending
<1> QED BY <1>1, SameHeard, EndsKeep

LEMMA ScopeIs ==
  ASSUME Types, NEW i \in 1..Len(realms) PROVE ScopeOf(i) \in Scopes
<1>1. realms[i] \in RealmRecords(Len(regs))
  BY ElementOfSeq DEF Types, RecordTypes
<1> QED BY <1>1 DEF RealmRecords, ScopeOf

LEMMA GuestUnregistersKeeps ==
  ASSUME IInv, NEW i \in 1..Len(realms), GuestUnregisters(i) PROVE IInv'
<1>1. ScopeOf(i) \in Scopes /\ Types
  BY ScopeIs DEF IInv
<1>2. /\ TerminateKeys(Ticked({}), {ScopeOf(i)}) /\ reply' = Replies({})
      /\ UNCHANGED <<regs, realms, swaps, hosts, open, toKernel, workers>>
  BY <1>1, TickedNone DEF GuestUnregisters
<1>3. {} \in SUBSET {s \in Scopes : MayBeOverdue(s)} /\ {ScopeOf(i)} \in SUBSET Scopes
  BY <1>1
<1> QED BY <1>2, <1>3, SameHeard, EndsKeep

--------------------------------------------------------------------------------
(* What the kernel hears from a host page. *)

LEMMA FirstFrame ==
  ASSUME Types, NEW h \in Hosts, toKernel[h] # <<>>
  PROVE  LET m == Head(toKernel[h]) IN
         /\ m.scope \in Scopes /\ m.kind \in Kinds /\ m.id \in 1..Len(realms)
         /\ m = Frame(m.kind, m.scope, m.id)
         /\ Heard(toKernel[h], m)
<1> DEFINE q == toKernel[h]
<1>1. q \in Seq(KernelFrames(Len(realms))) /\ Len(q) \in Nat /\ Head(q) = q[1] /\ 1 \in 1..Len(q)
  BY DEF Types, HostTypes
<1>2. q[1] \in KernelFrames(Len(realms))
  BY <1>1, ElementOfSeq
<1>3. \A m \in KernelFrames(Len(realms)) :
        /\ m.scope \in Scopes /\ m.kind \in Kinds /\ m.id \in 1..Len(realms)
        /\ m = Frame(m.kind, m.scope, m.id)
  BY DEF KernelFrames, Frame
<1> QED BY <1>1, <1>2, <1>3 DEF Heard

LEMMA TailHeard ==
  ASSUME Types, NEW h \in Hosts, toKernel[h] # <<>>,
         toKernel' = [toKernel EXCEPT ![h] = Tail(toKernel[h])]
  PROVE  /\ toKernel' \in [Hosts -> Seq(KernelFrames(Len(realms)))]
         /\ \A k \in Hosts : \A m : Heard(toKernel'[k], m) => Heard(toKernel[k], m)
<1> DEFINE q == toKernel[h]
<1>1. toKernel \in [Hosts -> Seq(KernelFrames(Len(realms)))]
  BY DEF Types, HostTypes
<1>2. /\ Tail(q) \in Seq(KernelFrames(Len(realms))) /\ Len(q) \in Nat /\ Len(Tail(q)) = Len(q) - 1
      /\ \A n \in 1..Len(Tail(q)) : n + 1 \in 1..Len(q) /\ Tail(q)[n] = q[n + 1]
  BY <1>1, HeadTailProperties
<1>3. \A m : Heard(Tail(q), m) => Heard(q, m)
  BY <1>2 DEF Heard
<1> QED BY <1>1, <1>2, <1>3

LEMMA HearsIs ==
  ASSUME NEW h, NEW k, NEW m, Hears(h, k, m)
  PROVE  /\ toKernel[h] # <<>> /\ m = Head(toKernel[h]) /\ m.kind = k
         /\ toKernel' = [toKernel EXCEPT ![h] = Tail(toKernel[h])]
         /\ UNCHANGED <<hosts, open, workers>>
  BY DEF Hears

\* guestSpawned: a spawning realm runs.
LEMMA HearsSpawnedKeeps ==
  ASSUME IInv, NEW h \in Hosts, HearsSpawned(h) PROVE IInv'
<1> DEFINE m == Head(toKernel[h])
           s == m.scope
<1>1. /\ Hears(h, "spawned", m) /\ Concerns(h, m) /\ guests[s].state = "spawning"
      /\ guests' = [guests EXCEPT ![s].state = "running", ![s].pending = {}]
      /\ reply' = Told(guests[s].pending, "ok")
      /\ UNCHANGED <<regs, realms, workVars, toHost>>
  BY DEF HearsSpawned
<1>2. Types /\ s \in Scopes /\ m = Frame("spawned", s, m.id) /\ Heard(toKernel[h], m)
  BY <1>1, HearsIs, FirstFrame DEF IInv
<1>3. guests \in [Scopes -> GuestRecords] /\ reply \in [Callers -> Replied]
  BY <1>2 DEF Types, RecordTypes
<1>4. \A x \in GuestRecords :
        LET y == [x EXCEPT !.state = "running", !.pending = {}] IN
        /\ y \in GuestRecords /\ y.id = x.id /\ y.reg = x.reg /\ y.host = x.host
        /\ y.state = "running" /\ y.pending = {}
  BY DEF GuestRecords, States
<1>5. /\ guests' = [guests EXCEPT ![s] = [guests[s] EXCEPT !.state = "running", !.pending = {}]]
      /\ UNCHANGED <<regs, realms, workVars, toHost, hosts, open, workers>>
      /\ guests[s].host = h /\ guests[s].id = m.id /\ guests[s].state = "spawning"
      /\ reply' = [c \in Callers |-> IF c \in guests[s].pending THEN "ok" ELSE reply[c]]
  BY <1>1, <1>2, <1>3, HearsIs DEF Concerns, Told
<1> HIDE DEF m, s
<1>6. /\ guests' \in [Scopes -> GuestRecords] /\ SameRealm(s) /\ guests'[s].state = "running"
      /\ guests'[s].pending = {} /\ \A t \in Scopes \ {s} : guests'[t] = guests[t]
  BY <1>2, <1>3, <1>4, <1>5 DEF SameRealm
<1>7. Starts(s)
  BY <1>2, <1>5, <1>6 DEF Starts, Begun
<1>8. Winds({})
  BY <1>5, <1>6, <1>7 DEF Winds, Stays, SameRealm
<1>9. reply' \in [Callers -> Replied]
  BY <1>3, <1>5 DEF Replied
<1>10. Waiting'
  <2> SUFFICES ASSUME NEW t \in Scopes, NEW c \in guests'[t].pending PROVE reply'[c] # "none"
    BY DEF Waiting
  <2>1. t # s /\ c \in guests[t].pending
    BY <1>6
  <2>2. c \in Callers
    BY <1>3, <2>1 DEF GuestRecords
  <2>3. reply[c] # "none"
    BY <2>1 DEF IInv, Waiting
  <2> QED BY <1>5, <2>2, <2>3
<1>11. toKernel[h] # <<>> /\ toKernel' = [toKernel EXCEPT ![h] = Tail(toKernel[h])]
  BY <1>1, HearsIs
<1> QED BY <1>2, <1>5, <1>8, <1>9, <1>10, <1>11, TailHeard, CalmKeeps

\* guestSpawnFailed and guestTerminated: the record goes.
LEMMA RecordGoes ==
  ASSUME IInv, NEW h \in Hosts, NEW s \in Scopes, toKernel[h] # <<>>,
         toKernel' = [toKernel EXCEPT ![h] = Tail(toKernel[h])],
         guests[s].state # "running", guests' = [guests EXCEPT ![s] = NoGuest],
         reply' \in [Callers -> Replied], \A c \in Callers : reply[c] # "none" => reply'[c] # "none",
         UNCHANGED <<regs, realms, workVars, toHost, hosts, open, workers>>
  PROVE  IInv'
<1>1. Types /\ guests \in [Scopes -> GuestRecords] /\ NoGuest \in GuestRecords
  BY DEF IInv, Types, RecordTypes, NoGuest, GuestRecords, States
<1>2. /\ guests' \in [Scopes -> GuestRecords] /\ guests'[s] = NoGuest
      /\ \A t \in Scopes \ {s} : guests'[t] = guests[t]
  BY <1>1
<1>3. Winds({})
  <2>1. Goes(s)
    BY <1>2 DEF Goes, NoGuest
  <2> QED BY <1>2, <2>1 DEF Winds, Stays, SameRealm
<1>4. Waiting'
  <2> SUFFICES ASSUME NEW t \in Scopes, NEW c \in guests'[t].pending PROVE reply'[c] # "none"
    BY DEF Waiting
  <2>1. t # s /\ c \in guests[t].pending
    BY <1>2 DEF NoGuest
  <2>2. c \in Callers /\ reply[c] # "none"
    BY <1>1, <2>1 DEF GuestRecords, IInv, Waiting
  <2> QED BY <2>2
<1> QED BY <1>1, <1>3, <1>4, TailHeard, CalmKeeps

LEMMA HearsSpawnFailedKeeps ==
  ASSUME IInv, NEW h \in Hosts, HearsSpawnFailed(h) PROVE IInv'
<1> DEFINE m == Head(toKernel[h])
<1>1. /\ Hears(h, "spawnFailed", m) /\ guests[m.scope].state = "spawning"
      /\ guests' = [guests EXCEPT ![m.scope] = NoGuest]
      /\ reply' = Told(guests[m.scope].pending, "failed")
      /\ UNCHANGED <<regs, realms, workVars, toHost>>
  BY DEF HearsSpawnFailed
<1>2. m.scope \in Scopes /\ reply \in [Callers -> Replied]
  BY <1>1, HearsIs, FirstFrame DEF IInv, Types, RecordTypes
<1>3. /\ reply' \in [Callers -> Replied]
      /\ \A c \in Callers : reply[c] # "none" => reply'[c] # "none"
  BY <1>1, <1>2 DEF Told, Replied
<1> QED BY <1>1, <1>2, <1>3, HearsIs, RecordGoes

LEMMA HearsTerminatedKeeps ==
  ASSUME IInv, NEW h \in Hosts, HearsTerminated(h) PROVE IInv'
<1> DEFINE m == Head(toKernel[h])
<1>1. /\ Hears(h, "terminated", m) /\ guests[m.scope].state = "terminating"
      /\ guests' = [guests EXCEPT ![m.scope] = NoGuest]
      /\ UNCHANGED <<regs, realms, reply, workVars, toHost>>
  BY DEF HearsTerminated
<1>2. m.scope \in Scopes /\ reply' \in [Callers -> Replied]
  BY <1>1, HearsIs, FirstFrame DEF IInv, Types, RecordTypes
<1> QED BY <1>1, <1>2, HearsIs, RecordGoes

LEMMA HearsErrorKeeps ==
  ASSUME IInv, NEW h \in Hosts, HearsError(h) PROVE IInv'
<1> DEFINE m == Head(toKernel[h])
<1>1. Hears(h, "error", m) /\ TerminateKeys(guests, {m.scope}) /\ UNCHANGED <<regs, realms, reply, swaps>>
  BY DEF HearsError
<1>2. Types /\ toKernel[h] # <<>>
  BY <1>1, HearsIs DEF IInv
<1>3. m.scope \in Scopes
  BY <1>2, FirstFrame
<1> HIDE DEF m
<1>4. TerminateKeys(Ticked({}), {m.scope}) /\ reply' = Replies({})
  BY <1>1, <1>2, TickedNone
<1>5. toKernel' = [toKernel EXCEPT ![h] = Tail(toKernel[h])] /\ UNCHANGED <<hosts, open, workers>>
  BY <1>1, HearsIs
<1>6. {} \in SUBSET {s \in Scopes : MayBeOverdue(s)} /\ {m.scope} \in SUBSET Scopes
  BY <1>3
<1> QED BY <1>1, <1>2, <1>4, <1>5, <1>6, TailHeard, EndsKeep

LEMMA HearsNothingKeeps ==
  ASSUME IInv, NEW h \in Hosts, HearsNothing(h) PROVE IInv'
<1>1. /\ toKernel[h] # <<>> /\ UNCHANGED <<kernelVars, workVars, toHost, hosts, open, workers>>
      /\ toKernel' = [toKernel EXCEPT ![h] = Tail(toKernel[h])]
  BY DEF HearsNothing, Hears
<1>2. Types /\ guests' = guests /\ Winds({}) /\ Waiting' /\ reply' \in [Callers -> Replied]
  <2>1. Types /\ Waiting
    BY DEF IInv
  <2>2. UNCHANGED <<guests, regs, realms, reply, hosts>>
    BY <1>1 DEF kernelVars
  <2>3. Winds({}) /\ reply' \in [Callers -> Replied]
    BY <2>1, <2>2 DEF Winds, Stays, SameRealm, Types, RecordTypes
  <2> QED BY <2>1, <2>2, <2>3 DEF Waiting
<1> QED BY <1>1, <1>2, TailHeard, CalmKeeps

LEMMA HearingKeeps ==
  ASSUME IInv, NEW h \in Hosts, Hearing(h) PROVE IInv'
  BY HearsNothingKeeps, HearsSpawnedKeeps, HearsSpawnFailedKeeps, HearsTerminatedKeeps,
     HearsErrorKeeps DEF Hearing

--------------------------------------------------------------------------------
(* A new realm. *)

LEMMA SpawnRenews ==
  ASSUME IInv, NEW late \in SUBSET {s \in Scopes : MayBeOverdue(s)}, NEW confirmed \in SUBSET Callers,
         NEW s \in Scopes, NEW u \in URLs, NEW v \in Versions, Spawn(confirmed, s, u, v, late)
  PROVE  /\ Renews(s) /\ SpawnPosted(s) /\ reply' \in [Callers -> Replied]
         /\ \A t \in Scopes : guests'[t].pending \subseteq Ticked(late)[t].pending \cup confirmed
         /\ \A c \in Callers : reply'[c] = IF c \in confirmed THEN "waiting" ELSE Replies(late)[c]
<1> DEFINE g == Ticked(late)
           host == IF g[s].state # "none" THEN g[s].host ELSE hosts[Len(hosts)]
           id == Len(realms) + 1
           reg == [url |-> u, script |-> <<u, v>>]
           new == [id |-> id, reg |-> Len(regs'), state |-> "spawning", host |-> host,
                   pending |-> Inherit(g[s], confirmed)]
<1>1. /\ id <= MaxRealms /\ (g[s].state = "none" => hosts # <<>>)
      /\ regs' = Append(regs, reg)
      /\ realms' = Append(realms, [scope |-> s, reg |-> Len(regs')])
      /\ guests' = [g EXCEPT ![s] = new]
      /\ reply' = [c \in Callers |-> IF c \in confirmed THEN "waiting" ELSE Replies(late)[c]]
      /\ IF host \in open THEN Post(host, [op |-> "spawn", scope |-> s, id |-> id])
                          ELSE UNCHANGED toHost
      /\ UNCHANGED <<hosts, open, toKernel, workers>>
  BY DEF Spawn
<1>2. /\ Types /\ Records /\ Len(realms) \in Nat /\ Len(regs) \in Nat
      /\ g \in [Scopes -> GuestRecords] /\ Replies(late) \in [Callers -> Replied]
  BY TickedIs, Lengths DEF IInv
<1>3. regs' \in Seq(RegRecords) /\ Len(regs') = Len(regs) + 1
  <2>1. reg \in RegRecords
    BY DEF RegRecords, Scripts
  <2>2. regs \in Seq(RegRecords)
    BY <1>2 DEF Types, RecordTypes
  <2> HIDE DEF reg
  <2> QED BY <1>1, <2>1, <2>2, AppendProperties
<1>4. host \in Hosts /\ Announced(host)
  <2>1. hosts \in Seq(Hosts)
    BY <1>2 DEF Types, HostTypes
  <2>2. CASE g[s].state # "none"
    <3>1. g[s] = guests[s] /\ guests[s].state # "none"
      BY <1>2, <2>2, TickedIs DEF NoGuest
    <3>2. Announced(guests[s].host)
      BY <1>2, <3>1 DEF Records, RecordOf
    <3>3. guests[s].host \in Hosts
      BY <2>1, <3>2, ElementOfSeq DEF Announced
    <3> QED BY <2>2, <3>1, <3>2, <3>3
  <2>3. CASE g[s].state = "none"
    <3>1. Len(hosts) \in Nat /\ Len(hosts) # 0
      BY <1>1, <2>1, <2>3, LenProperties, EmptySeq
    <3>2. Len(hosts) \in 1..Len(hosts)
      BY <3>1
    <3> QED BY <2>1, <2>3, <3>2, ElementOfSeq DEF Announced
  <2> QED BY <2>2, <2>3
<1> HIDE DEF host
<1>5. g[s].pending \subseteq Callers
  BY <1>2 DEF GuestRecords
<1>6. /\ new \in GuestRecords /\ new.id = id /\ new.reg = Len(regs) + 1 /\ new.state = "spawning"
      /\ new.host = host /\ new.pending = g[s].pending \cup confirmed
  BY <1>2, <1>3, <1>4, <1>5 DEF GuestRecords, States, Inherit
<1> HIDE DEF new, g, reg
<1>7. guests' \in [Scopes -> GuestRecords] /\ guests'[s] = new
      /\ \A t \in Scopes \ {s} : guests'[t] = g[t]
  BY <1>1, <1>2, <1>6
<1>8. \A t \in Scopes \ {s} : Stays(t) \/ Goes(t)
  <2>1. ASSUME NEW t \in Scopes \ {s} PROVE Stays(t) \/ Goes(t)
    <3>1. CASE g[t] = guests[t]
      BY <1>7, <3>1 DEF Stays, SameRealm
    <3>2. CASE g[t] = NoGuest /\ guests[t].state # "running"
      BY <1>7, <3>2 DEF Goes, NoGuest
    <3> QED BY <1>2, <3>1, <3>2, TickedIs DEF g
  <2> QED BY <2>1
<1>9. Len(regs) + 1 \in 1..Len(regs') /\ Len(regs) <= Len(regs') /\ Len(realms) < MaxRealms
  BY <1>1, <1>2, <1>3, Assumed
<1>10. Renews(s)
  BY <1>1, <1>3, <1>4, <1>6, <1>7, <1>8, <1>9 DEF Renews
<1>11. SpawnPosted(s)
  BY <1>1, <1>6, <1>7 DEF SpawnPosted
<1>12. reply' \in [Callers -> Replied]
  BY <1>1, <1>2 DEF Replied
<1>13. \A t \in Scopes : guests'[t].pending \subseteq g[t].pending \cup confirmed
  BY <1>6, <1>7
<1> QED BY <1>1, <1>10, <1>11, <1>12, <1>13 DEF g

LEMMA SpawnKeeps ==
  ASSUME IInv, NEW late \in SUBSET {s \in Scopes : MayBeOverdue(s)}, NEW confirmed \in SUBSET Callers,
         NEW s \in Scopes, NEW u \in URLs, NEW v \in Versions, Spawn(confirmed, s, u, v, late)
  PROVE  IInv'
<1>1. ClearGuestWork({s}) /\ swaps' \subseteq swaps
  BY DEF Spawn
<1>2. Waiting'
  <2> SUFFICES ASSUME NEW t \in Scopes, NEW c \in guests'[t].pending PROVE reply'[c] # "none"
    BY DEF Waiting
  <2>1. CASE c \in confirmed
    BY <2>1, SpawnRenews
  <2>2. CASE c \notin confirmed
    <3>1. c \in Ticked(late)[t].pending
      BY <2>2, SpawnRenews
    <3>2. c \in Callers /\ Replies(late)[c] # "none"
      BY <3>1, TickedWaits DEF IInv
    <3> QED BY <2>2, <3>2, SpawnRenews
  <2> QED BY <2>1, <2>2
<1> QED BY <1>1, <1>2, SpawnRenews, RenewsKeeps

\* replaceGuest of a running record.
LEMMA ReplaceRenews ==
  ASSUME IInv, NEW x \in swaps, ReplaceGuest(x), Running(x.scope)
  PROVE  /\ Renews(x.scope) /\ SpawnPosted(x.scope) /\ x.scope \in Scopes
         /\ ClearGuestWork({x.scope}) /\ reply' = reply
         /\ \A t \in Scopes : guests'[t].pending = guests[t].pending
<1> DEFINE s == x.scope
           g == guests[s]
           id == Len(realms) + 1
<1>1. /\ id <= MaxRealms /\ regs' = [regs EXCEPT ![g.reg].script = x.script]
      /\ realms' = Append(realms, [scope |-> s, reg |-> g.reg])
      /\ guests' = [guests EXCEPT ![s].id = id, ![s].state = "spawning"]
      /\ ClearGuestWork({s})
      /\ IF g.host \in open THEN Post(g.host, [op |-> "spawn", scope |-> s, id |-> id])
                            ELSE UNCHANGED toHost
      /\ UNCHANGED <<hosts, open, toKernel, workers, reply>>
  BY DEF ReplaceGuest
<1>2. /\ Types /\ Records /\ Len(realms) \in Nat /\ Len(regs) \in Nat /\ s \in Scopes
      /\ x.script \in Scripts /\ guests \in [Scopes -> GuestRecords] /\ regs \in Seq(RegRecords)
  BY Lengths DEF IInv, Types, RecordTypes, WorkTypes, SwapRecords
<1>3. RecordOf(s) /\ g.reg \in 1..Len(regs) /\ Announced(g.host)
  BY <1>2 DEF Records, RecordOf, Running
<1>4. regs' \in Seq(RegRecords) /\ Len(regs') = Len(regs)
  <2>1. regs[g.reg] \in RegRecords
    BY <1>2, <1>3, ElementOfSeq
  <2>2. \A r \in RegRecords : [r EXCEPT !.script = x.script] \in RegRecords
    BY <1>2 DEF RegRecords
  <2>3. [regs[g.reg] EXCEPT !.script = x.script] \in RegRecords
    BY <2>1, <2>2
  <2>4. regs' = [regs EXCEPT ![g.reg] = [regs[g.reg] EXCEPT !.script = x.script]]
    BY <1>1
  <2> HIDE DEF g
  <2> QED BY <1>2, <1>3, <2>3, <2>4, ExceptSeq
<1>5. \A y \in GuestRecords :
        LET z == [y EXCEPT !.id = id, !.state = "spawning"] IN
        /\ z \in GuestRecords /\ z.id = id /\ z.reg = y.reg /\ z.host = y.host
        /\ z.state = "spawning" /\ z.pending = y.pending
  <2>1. id \in Nat
    BY <1>2
  <2> HIDE DEF id
  <2> QED BY <2>1 DEF GuestRecords, States
<1>6. guests' = [guests EXCEPT ![s] = [g EXCEPT !.id = id, !.state = "spawning"]]
  BY <1>1, <1>2
<1>7. /\ guests' \in [Scopes -> GuestRecords] /\ guests'[s].id = id /\ guests'[s].reg = g.reg
      /\ guests'[s].host = g.host /\ guests'[s].state = "spawning" /\ guests'[s].pending = g.pending
      /\ \A t \in Scopes \ {s} : guests'[t] = guests[t]
  <2>1. g \in GuestRecords
    BY <1>2
  <2> QED BY <1>2, <1>5, <1>6, <2>1
<1> HIDE DEF id, g
<1>8. \A t \in Scopes \ {s} : Stays(t)
  BY <1>7 DEF Stays, SameRealm
<1>9. Len(regs) <= Len(regs') /\ Len(realms) < MaxRealms /\ g.reg \in 1..Len(regs')
  BY <1>1, <1>2, <1>3, <1>4, Assumed DEF id
<1>10. Renews(s)
  BY <1>1, <1>3, <1>4, <1>7, <1>8, <1>9 DEF Renews, id
<1>11. SpawnPosted(s)
  BY <1>1, <1>7 DEF SpawnPosted, id
<1>12. \A t \in Scopes : guests'[t].pending = guests[t].pending
  BY <1>7 DEF g
<1> QED BY <1>1, <1>2, <1>10, <1>11, <1>12

LEMMA ReplaceGuestKeeps ==
  ASSUME IInv, NEW x \in swaps, ReplaceGuest(x) PROVE IInv'
<1>1. CASE Running(x.scope)
  <2>1. swaps' \subseteq swaps
    BY DEF ReplaceGuest
  <2>2. reply' \in [Callers -> Replied] /\ Waiting'
    BY <1>1, ReplaceRenews DEF IInv, Types, RecordTypes, Waiting
  <2> QED BY <1>1, <2>1, <2>2, ReplaceRenews, RenewsKeeps
<1>2. CASE ~Running(x.scope)
  <2>1. /\ swaps' \subseteq swaps /\ UNCHANGED <<kernelVars, fetch, waitPending, netPending, calls>>
        /\ UNCHANGED hostVars
    BY <1>2 DEF ReplaceGuest, hostVars
  <2>2. UNCHANGED <<guests, regs, realms, reply>>
    BY <2>1 DEF kernelVars
  <2>3. WorkTypes'
    BY <2>1, <2>2 DEF IInv, Types, WorkTypes
  <2>4. FetchWork' /\ WaitWork' /\ CallWork'
    BY <2>1, <2>2 DEF IInv, FetchWork, WaitWork, RunsAs, Running, ScopeOf, CallWork, CallOf, CallsAt
  <2> QED BY <2>1, <2>3, <2>4, WorkKeeps
<1> QED BY <1>1, <1>2

--------------------------------------------------------------------------------
(* The pages and their ports. *)

\* Frames r that the page h sends: they are heard last.
LEMMA HeardConcat ==
  ASSUME NEW S, NEW q \in Seq(S), NEW r \in Seq(S), NEW m, Heard(q \o r, m)
  PROVE  Heard(q, m) \/ Heard(r, m)
<1>1. /\ Len(q) \in Nat /\ Len(r) \in Nat /\ Len(q \o r) = Len(q) + Len(r)
      /\ \A n \in 1..Len(q) + Len(r) :
           (q \o r)[n] = IF n <= Len(q) THEN q[n] ELSE r[n - Len(q)]
  BY ConcatProperties
<1>2. PICK n \in 1..Len(q) + Len(r) : (q \o r)[n] = m
  BY <1>1 DEF Heard
<1>3. CASE n <= Len(q)
  BY <1>1, <1>2, <1>3 DEF Heard
<1>4. CASE ~(n <= Len(q))
  <2>1. n - Len(q) \in 1..Len(r) /\ r[n - Len(q)] = m
    BY <1>1, <1>2, <1>4
  <2> QED BY <2>1 DEF Heard
<1> QED BY <1>3, <1>4

LEMMA Sends ==
  ASSUME Types, NEW h \in Hosts, NEW r \in Seq(KernelFrames(Len(realms))),
         toKernel' = [toKernel EXCEPT ![h] = toKernel[h] \o r]
  PROVE  /\ toKernel' \in [Hosts -> Seq(KernelFrames(Len(realms)))]
         /\ \A k \in Hosts \ {h} : toKernel'[k] = toKernel[k]
         /\ toKernel'[h] = toKernel[h] \o r /\ toKernel[h] \in Seq(KernelFrames(Len(realms)))
<1>1. toKernel \in [Hosts -> Seq(KernelFrames(Len(realms)))]
  BY DEF Types, HostTypes
<1>2. toKernel[h] \o r \in Seq(KernelFrames(Len(realms)))
  BY <1>1, ConcatProperties
<1> QED BY <1>1, <1>2

\* The first frame to a page.
LEMMA FirstOrder ==
  ASSUME Types, NEW h \in Hosts, toHost[h] # <<>>
  PROVE  LET m == Head(toHost[h]) IN
         /\ m.scope \in Scopes /\ m.id \in 1..Len(realms) /\ m = toHost[h][1]
         /\ 1 \in 1..Len(toHost[h])
<1> DEFINE q == toHost[h]
<1>1. q \in Seq(HostFrames(Len(realms))) /\ Len(q) \in Nat /\ Head(q) = q[1] /\ 1 \in 1..Len(q)
  BY DEF Types, HostTypes
<1>2. q[1] \in HostFrames(Len(realms))
  BY <1>1, ElementOfSeq
<1> QED BY <1>1, <1>2 DEF HostFrames

LEMMA TailOrders ==
  ASSUME Types, NEW h \in Hosts, toHost[h] # <<>>,
         toHost' = [toHost EXCEPT ![h] = Tail(toHost[h])]
  PROVE  /\ toHost' \in [Hosts -> Seq(HostFrames(Len(realms)))]
         /\ \A k \in Hosts : \A s \in Scopes : Follows(toHost[k], toHost'[k], s)
<1>1. toHost \in [Hosts -> Seq(HostFrames(Len(realms)))] /\ Len(realms) \in Nat
  BY Lengths DEF Types, HostTypes
<1>2. Tail(toHost[h]) \in Seq(HostFrames(Len(realms)))
  BY <1>1, HeadTailProperties
<1>3. \A s \in Scopes : Follows(toHost[h], Tail(toHost[h]), s)
  BY <1>1, FollowsTail
<1> QED BY <1>1, <1>2, <1>3, FollowsSame

Calm(h, s) == (Begun(s)' => Begun(s)) /\ (Begun(s) => workers'[h][s] = workers[h][s])
Moves(h, s) == Begun(s)' => workers'[h][s] = guests[s].id /\ NoSpawn(toHost'[h], s)

\* A step of the page h or of its port: the realms it hosts stay as they are, but for one
\* it takes up or gives up before it has said so.
LEMMA PageKeeps ==
  ASSUME IInv, NEW h \in Hosts, UNCHANGED <<kernelVars, workVars, hosts, open>>,
         toHost' \in [Hosts -> Seq(HostFrames(Len(realms)))],
         toKernel' \in [Hosts -> Seq(KernelFrames(Len(realms)))],
         workers' \in [Hosts -> [Scopes -> 0..Len(realms)]],
         \A k \in Hosts : \A s \in Scopes : Follows(toHost[k], toHost'[k], s),
         \A k \in Hosts \ {h} : workers'[k] = workers[k] /\ toKernel'[k] = toKernel[k],
         \A s \in Scopes : Alive(s) /\ guests[s].host = h /\ h \in open =>
                             Calm(h, s) \/ Moves(h, s)
  PROVE  IInv'
<1>1. UNCHANGED <<guests, regs, realms, reply>>
  BY DEF kernelVars
<1>2. Types /\ Records /\ Hosted
  BY DEF IInv
<1>3. HostTypes'
  BY <1>1, <1>2 DEF Types, HostTypes
<1>4. Hosted'
  <2> SUFFICES ASSUME NEW s \in Scopes, Alive(s), guests[s].host \in open PROVE HostedAt(s)'
    BY <1>1 DEF Hosted, Alive
  <2>1. SameRealm(s) /\ guests[s].id \in Nat /\ guests[s].host \in Hosts /\ HostedAt(s)
    BY <1>1, <1>2, AliveIs DEF SameRealm, Hosted
  <2>2. CASE guests[s].host # h
    <3>1. Begun(s)' => Begun(s)
      BY <1>1, <2>1, <2>2 DEF Begun, Heard, Frame
    <3>2. Begun(s) => workers'[guests[s].host][s] = workers[guests[s].host][s]
      BY <2>1, <2>2
    <3> QED BY <2>1, <3>1, <3>2, HostedCarries
  <2>3. CASE guests[s].host = h
    <3>1. Calm(h, s) \/ Moves(h, s)
      BY <2>3
    <3>2. ASSUME Calm(h, s) PROVE HostedAt(s)'
      <4>1. /\ Begun(s)' => Begun(s)
            /\ Begun(s) => workers'[guests[s].host][s] = workers[guests[s].host][s]
        BY <2>3, <3>2 DEF Calm
      <4> QED BY <2>1, <4>1, HostedCarries
    <3>3. ASSUME Moves(h, s) PROVE HostedAt(s)'
      <4>1. NoEnd(toHost'[h], s, guests[s].id) /\ LastSpawn(toHost'[h], s, guests[s].id)
        BY <2>1, <2>3 DEF HostedAt, Follows
      <4>2. /\ NoEnd(toHost[guests[s].host], s, guests[s].id)'
            /\ LastSpawn(toHost[guests[s].host], s, guests[s].id)'
        BY <1>1, <2>3, <4>1 DEF NoEnd, LastSpawn
      <4>3. Begun(s)' => /\ workers'[guests'[s].host][s] = guests'[s].id
                         /\ NoSpawn(toHost[guests[s].host], s)'
        BY <1>1, <2>3, <3>3 DEF NoSpawn, Moves
      <4> QED BY <4>2, <4>3 DEF HostedAt
    <3> QED BY <3>1, <3>2, <3>3
  <2> QED BY <2>2, <2>3
<1>5. \A k \in open' : Announced(k)'
  BY <1>2 DEF Records, Announced
<1>6. \A k \in Hosts : Announced(k) => Announced(k)'
  BY DEF Announced
<1> QED BY <1>3, <1>4, <1>5, <1>6, HostsKeep

LEMMA RegisterHostKeeps ==
  ASSUME IInv, NEW h \in Hosts, RegisterHost(h) PROVE IInv'
<1>1. /\ ~Announced(h) /\ hosts' = Append(hosts, h) /\ open' = open \cup {h}
      /\ UNCHANGED <<kernelVars, workVars, toHost, toKernel, workers>>
  BY DEF RegisterHost, Announced
<1>2. Types /\ Records /\ Hosted /\ hosts \in Seq(Hosts) /\ UNCHANGED <<guests, regs, realms, reply>>
  BY <1>1 DEF IInv, Types, HostTypes, kernelVars
<1>3. /\ hosts' \in Seq(Hosts) /\ Len(hosts) \in Nat /\ Len(hosts') = Len(hosts) + 1
      /\ hosts'[Len(hosts) + 1] = h /\ \A n \in 1..Len(hosts) : hosts'[n] = hosts[n]
  BY <1>1, <1>2, AppendProperties
<1>4. \A k \in Hosts : Announced(k) => Announced(k)'
  BY <1>3 DEF Announced
<1>5. Announced(h)'
  <2>1. Len(hosts) + 1 \in 1..Len(hosts')
    BY <1>3
  <2> QED BY <1>3, <2>1 DEF Announced
<1>6. \A k \in open' : Announced(k)'
  <2>1. \A k \in open : k \in Hosts /\ Announced(k)
    BY <1>2 DEF Types, HostTypes, Records
  <2> QED BY <1>1, <1>4, <1>5, <2>1
<1>7. HostTypes'
  BY <1>1, <1>2, <1>3 DEF Types, HostTypes
<1>8. Hosted'
  <2> SUFFICES ASSUME NEW s \in Scopes, Alive(s), guests[s].host \in open \cup {h}
               PROVE  HostedAt(s)'
    BY <1>1, <1>2 DEF Hosted, Alive
  <2>1. RecordOf(s) /\ guests[s].id \in Nat
    BY <1>2, AliveIs
  <2>2. guests[s].host \in open
    BY <1>1, <2>1 DEF RecordOf
  <2>3. HostedAt(s)
    BY <1>2, <2>2 DEF Hosted
  <2> QED BY <1>1, <1>2, <2>3 DEF HostedAt, NoEnd, LastSpawn, NoSpawn, Begun, Heard
<1> QED BY <1>1, <1>4, <1>6, <1>7, <1>8, HostsKeep

LEMMA HostClosesKeeps ==
  ASSUME IInv, NEW h \in Hosts, HostCloses(h) PROVE IInv'
<1>1. /\ open' = open \ {h} /\ workers' = [workers EXCEPT ![h] = [s \in Scopes |-> 0]]
      /\ toHost' = [toHost EXCEPT ![h] = <<>>]
      /\ UNCHANGED <<hosts, toKernel, kernelVars, workVars>>
  BY DEF HostCloses
<1>2. Types /\ Records /\ Hosted /\ Len(realms) \in Nat /\ UNCHANGED <<guests, regs, realms, reply>>
  BY <1>1, Lengths DEF IInv, kernelVars
<1>3. HostTypes'
  <2>1. toHost' \in [Hosts -> Seq(HostFrames(Len(realms)))]
    BY <1>1, <1>2 DEF Types, HostTypes
  <2>2. workers' \in [Hosts -> [Scopes -> 0..Len(realms)]]
    BY <1>1, <1>2 DEF Types, HostTypes
  <2> QED BY <1>1, <1>2, <2>1, <2>2 DEF Types, HostTypes
<1>4. Hosted'
  <2> SUFFICES ASSUME NEW s \in Scopes, Alive(s), guests[s].host \in open \ {h}
               PROVE  HostedAt(s)'
    BY <1>1, <1>2 DEF Hosted, Alive
  <2>1. HostedAt(s) /\ guests[s].host \in Hosts /\ guests[s].host # h
    BY <1>2, AliveIs DEF Hosted
  <2>2. /\ toHost'[guests[s].host] = toHost[guests[s].host]
        /\ workers'[guests[s].host] = workers[guests[s].host]
    BY <1>1, <1>2, <2>1 DEF Types, HostTypes
  <2> QED BY <1>1, <1>2, <2>1, <2>2 DEF HostedAt, NoEnd, LastSpawn, NoSpawn, Begun, Heard
<1>5. \A k \in open' : Announced(k)'
  BY <1>1, <1>2 DEF Records, Announced
<1>6. \A k \in Hosts : Announced(k) => Announced(k)'
  BY <1>1 DEF Announced
<1> QED BY <1>1, <1>3, <1>4, <1>5, <1>6, HostsKeep

\* A frame of the page h for its scope t, which says that t is spawned only as realm i.
LEMMA SendsCalm ==
  ASSUME Types, NEW h \in Hosts, NEW r \in Seq(KernelFrames(Len(realms))), NEW s \in Scopes,
         UNCHANGED guests,
         toKernel' = [toKernel EXCEPT ![h] = toKernel[h] \o r],
         guests[s].host = h, ~Heard(r, Frame("spawned", s, guests[s].id))
  PROVE  Begun(s)' => Begun(s)
<1>1. ASSUME Heard(toKernel'[h], Frame("spawned", s, guests[s].id))
      PROVE  Heard(toKernel[h], Frame("spawned", s, guests[s].id))
  <2>1. toKernel'[h] = toKernel[h] \o r /\ toKernel[h] \in Seq(KernelFrames(Len(realms)))
    BY Sends
  <2>2. Heard(toKernel[h] \o r, Frame("spawned", s, guests[s].id))
    BY <1>1, <2>1
  <2> QED BY <2>1, <2>2, HeardConcat
<1> QED BY <1>1 DEF Begun, Heard, Frame

LEMMA OneFrame ==
  ASSUME NEW S, NEW m \in S
  PROVE  /\ <<m>> \in Seq(S) /\ \A q \in Seq(S) : Append(q, m) = q \o <<m>>
         /\ \A x : Heard(<<m>>, x) => x = m
<1>1. <<m>> \in Seq(S) /\ Len(<<m>>) = 1 /\ <<m>>[1] = m
  OBVIOUS
<1>2. \A x : Heard(<<m>>, x) => x = m
  BY <1>1 DEF Heard
<1>3. \A q \in Seq(S) : Append(q, m) = q \o <<m>>
  BY AppendIsConcat
<1> QED BY <1>1, <1>2, <1>3

\* spawn
LEMMA HostSpawnsKeeps ==
  ASSUME IInv, NEW h \in Hosts, HostSpawns(h) PROVE IInv'
<1> DEFINE m == Head(toHost[h])
           s == m.scope
           i == m.id
           old == workers[h][s]
           gone == IF old = 0 THEN <<>> ELSE <<Frame("terminated", s, old)>>
<1>1. PICK k \in {"spawned", "spawnFailed"} :
        /\ workers' = [workers EXCEPT ![h][s] = IF k = "spawned" THEN i ELSE 0]
        /\ toKernel' = [toKernel EXCEPT ![h] = toKernel[h] \o Append(gone, Frame(k, s, i))]
  BY DEF HostSpawns
<1>2. /\ h \in open /\ toHost[h] # <<>> /\ m.op = "spawn"
      /\ toHost' = [toHost EXCEPT ![h] = Tail(toHost[h])]
      /\ UNCHANGED <<hosts, open, kernelVars, workVars>> /\ UNCHANGED guests
  BY DEF HostSpawns, kernelVars
<1>3. /\ Types /\ Records /\ Hosted /\ Len(realms) \in Nat
      /\ s \in Scopes /\ i \in 1..Len(realms) /\ m = toHost[h][1] /\ 1 \in 1..Len(toHost[h])
  BY <1>2, FirstOrder, Lengths DEF IInv
<1>4. /\ workers \in [Hosts -> [Scopes -> 0..Len(realms)]] /\ old \in 0..Len(realms)
      /\ toHost \in [Hosts -> Seq(HostFrames(Len(realms)))]
  BY <1>3 DEF Types, HostTypes
<1> DEFINE r == Append(gone, Frame(k, s, i))
<1> HIDE DEF m, s, i, old
<1>5. /\ r \in Seq(KernelFrames(Len(realms)))
      /\ \A t \in Scopes, j \in Nat : Heard(r, Frame("spawned", t, j)) => t = s /\ j = i /\ k = "spawned"
  <2>1. Frame(k, s, i) \in KernelFrames(Len(realms))
    BY <1>3 DEF Frame, KernelFrames, Kinds
  <2>2. CASE old = 0
    <3>1. r = <<Frame(k, s, i)>>
      BY <2>2
    <3>2. \A x : Heard(r, x) => x = Frame(k, s, i)
      BY <2>1, <3>1, OneFrame
    <3> QED BY <2>1, <3>1, <3>2, OneFrame DEF Frame
  <2>3. CASE old # 0
    <3>1. Frame("terminated", s, old) \in KernelFrames(Len(realms))
      BY <1>3, <1>4, <2>3 DEF Frame, KernelFrames, Kinds
    <3>2. r = Append(<<Frame("terminated", s, old)>>, Frame(k, s, i))
      BY <2>3
    <3>3. /\ <<Frame("terminated", s, old)>> \in Seq(KernelFrames(Len(realms)))
          /\ \A x : Heard(<<Frame("terminated", s, old)>>, x) => x = Frame("terminated", s, old)
          /\ \A x : Heard(<<Frame(k, s, i)>>, x) => x = Frame(k, s, i)
          /\ <<Frame(k, s, i)>> \in Seq(KernelFrames(Len(realms)))
      BY <2>1, <3>1, OneFrame
    <3>4. r = <<Frame("terminated", s, old)>> \o <<Frame(k, s, i)>>
      BY <2>1, <3>2, <3>3, OneFrame
    <3>5. r \in Seq(KernelFrames(Len(realms)))
      BY <3>3, <3>4, ConcatProperties
    <3>6. \A x : Heard(r, x) => x = Frame("terminated", s, old) \/ x = Frame(k, s, i)
      BY <3>3, <3>4, HeardConcat
    <3> QED BY <3>5, <3>6 DEF Frame
  <2> QED BY <2>2, <2>3
<1> HIDE DEF r
<1>6. workers' \in [Hosts -> [Scopes -> 0..Len(realms)]]
  BY <1>1, <1>3, <1>4
<1>7. /\ toKernel' \in [Hosts -> Seq(KernelFrames(Len(realms)))]
      /\ \A j \in Hosts \ {h} : workers'[j] = workers[j] /\ toKernel'[j] = toKernel[j]
  <2>1. toKernel' = [toKernel EXCEPT ![h] = toKernel[h] \o r]
    BY <1>1 DEF r
  <2> QED BY <1>1, <1>3, <1>4, <1>5, <2>1, Sends DEF Types, HostTypes
<1>8. ASSUME NEW t \in Scopes, Alive(t), guests[t].host = h PROVE Calm(h, t) \/ Moves(h, t)
  <2>0. HostedAt(t) /\ guests[t].id \in Nat
    BY <1>2, <1>3, <1>8, AliveIs DEF Hosted
  <2>1. CASE t # s
    <3>1. workers'[h][t] = workers[h][t]
      BY <1>1, <1>3, <1>4, <2>1
    <3>2. ~Heard(r, Frame("spawned", t, guests[t].id))
      BY <1>5, <2>0, <2>1
    <3>3. Begun(t)' => Begun(t)
      BY <1>1, <1>2, <1>3, <1>5, <1>8, <3>2, SendsCalm DEF r
    <3> QED BY <3>1, <3>3 DEF Calm
  <2>2. CASE t = s
    <3>1. SpawnFor(toHost[h][1], t)
      BY <1>2, <1>3, <2>2 DEF SpawnFor, s
    <3>2. ~Begun(t)
      BY <1>3, <1>8, <2>0, <3>1 DEF HostedAt, NoSpawn
    <3>3. CASE guests[t].id = i /\ k = "spawned"
      <4>1. workers'[h][t] = guests[t].id
        BY <1>1, <1>3, <1>4, <2>2, <3>3
      <4>2. LastSpawn(toHost[h], t, toHost[h][1].id)
        BY <1>3, <1>8, <2>0, <3>3 DEF HostedAt, i
      <4>3. \A n \in 1..Len(toHost[h]) : SpawnFor(toHost[h][n], t) => n <= 1
        BY <1>3, <3>1, <4>2 DEF LastSpawn
      <4>4. /\ Len(Tail(toHost[h])) = Len(toHost[h]) - 1 /\ Len(toHost[h]) \in Nat
            /\ \A n \in 1..Len(Tail(toHost[h])) :
                 n + 1 \in 1..Len(toHost[h]) /\ Tail(toHost[h])[n] = toHost[h][n + 1]
        BY <1>2, <1>4, HeadTailProperties
      <4>5. NoSpawn(Tail(toHost[h]), t)
        BY <4>3, <4>4 DEF NoSpawn
      <4>6. NoSpawn(toHost'[h], t)
        BY <1>2, <1>4, <4>5
      <4> QED BY <4>1, <4>6 DEF Moves
    <3>4. CASE guests[t].id # i \/ k # "spawned"
      <4>1. ~Heard(r, Frame("spawned", t, guests[t].id))
        BY <1>5, <2>0, <3>4
      <4>2. Begun(t)' => Begun(t)
        BY <1>1, <1>2, <1>3, <1>5, <1>8, <4>1, SendsCalm DEF r
      <4> QED BY <3>2, <4>2 DEF Calm
    <3> QED BY <3>3, <3>4
  <2> QED BY <2>1, <2>2
<1>9. /\ toHost' \in [Hosts -> Seq(HostFrames(Len(realms)))]
      /\ \A j \in Hosts : \A t \in Scopes : Follows(toHost[j], toHost'[j], t)
  BY <1>2, <1>3, TailOrders
<1> QED BY <1>2, <1>6, <1>7, <1>8, <1>9, PageKeeps

\* terminate
LEMMA HostTerminatesKeeps ==
  ASSUME IInv, NEW h \in Hosts, HostTerminates(h) PROVE IInv'
<1> DEFINE m == Head(toHost[h])
           s == m.scope
           i == m.id
           found == workers[h][s]
           f == Frame("terminated", s, IF found = 0 THEN i ELSE found)
<1>1. /\ h \in open /\ toHost[h] # <<>> /\ m.op = "terminate"
      /\ workers' = IF found = i THEN [workers EXCEPT ![h][s] = 0] ELSE workers
      /\ toKernel' = [toKernel EXCEPT ![h] = Append(toKernel[h], f)]
      /\ toHost' = [toHost EXCEPT ![h] = Tail(toHost[h])]
      /\ UNCHANGED <<hosts, open, kernelVars, workVars>> /\ UNCHANGED guests
  BY DEF HostTerminates, kernelVars
<1>2. /\ Types /\ Records /\ Hosted /\ Len(realms) \in Nat
      /\ s \in Scopes /\ i \in 1..Len(realms) /\ m = toHost[h][1] /\ 1 \in 1..Len(toHost[h])
  BY <1>1, FirstOrder, Lengths DEF IInv
<1>3. /\ workers \in [Hosts -> [Scopes -> 0..Len(realms)]] /\ found \in 0..Len(realms)
      /\ toHost \in [Hosts -> Seq(HostFrames(Len(realms)))]
      /\ toKernel \in [Hosts -> Seq(KernelFrames(Len(realms)))]
  BY <1>2 DEF Types, HostTypes
<1> HIDE DEF m, s, i, found
<1>4. f \in KernelFrames(Len(realms)) /\ \A t, j : f # Frame("spawned", t, j)
  BY <1>2, <1>3 DEF Frame, KernelFrames, Kinds
<1> HIDE DEF f
<1>5. /\ <<f>> \in Seq(KernelFrames(Len(realms))) /\ \A x : Heard(<<f>>, x) => x = f
      /\ toKernel' = [toKernel EXCEPT ![h] = toKernel[h] \o <<f>>]
  BY <1>1, <1>3, <1>4, OneFrame
<1>6. workers' \in [Hosts -> [Scopes -> 0..Len(realms)]]
  BY <1>1, <1>2, <1>3
<1>7. /\ toKernel' \in [Hosts -> Seq(KernelFrames(Len(realms)))]
      /\ \A j \in Hosts \ {h} : workers'[j] = workers[j] /\ toKernel'[j] = toKernel[j]
  BY <1>1, <1>2, <1>3, <1>5, Sends
<1>8. ASSUME NEW t \in Scopes, Alive(t), guests[t].host = h PROVE Calm(h, t)
  <2>0. HostedAt(t) /\ guests[t].id \in Nat
    BY <1>1, <1>2, <1>8, AliveIs DEF Hosted
  <2>1. Begun(t)' => Begun(t)
    <3>1. ~Heard(<<f>>, Frame("spawned", t, guests[t].id))
      BY <1>4, <1>5
    <3> QED BY <1>1, <1>2, <1>5, <1>8, <3>1, SendsCalm
  <2>2. ASSUME Begun(t) PROVE workers'[h][t] = workers[h][t]
    <3>1. workers[h][t] = guests[t].id
      BY <1>8, <2>0, <2>2 DEF HostedAt
    <3>2. t = s => guests[t].id # i
      BY <1>1, <1>2, <1>8, <2>0 DEF HostedAt, NoEnd, s, i
    <3> QED BY <1>1, <1>2, <1>3, <3>1, <3>2 DEF found
  <2> QED BY <2>1, <2>2 DEF Calm
<1>9. /\ toHost' \in [Hosts -> Seq(HostFrames(Len(realms)))]
      /\ \A j \in Hosts : \A t \in Scopes : Follows(toHost[j], toHost'[j], t)
  BY <1>1, <1>2, TailOrders
<1> QED BY <1>1, <1>6, <1>7, <1>8, <1>9, PageKeeps

LEMMA WorkerErrorsKeeps ==
  ASSUME IInv, NEW h \in Hosts, NEW s \in Scopes, WorkerErrors(h, s) PROVE IInv'
<1> DEFINE f == Frame("error", s, workers[h][s])
<1>1. /\ workers[h][s] # 0 /\ toKernel' = [toKernel EXCEPT ![h] = Append(toKernel[h], f)]
      /\ UNCHANGED <<hosts, open, toHost, workers, kernelVars, workVars>> /\ UNCHANGED guests
  BY DEF WorkerErrors, kernelVars
<1>2. /\ Types /\ Len(realms) \in Nat /\ workers \in [Hosts -> [Scopes -> 0..Len(realms)]]
      /\ toHost \in [Hosts -> Seq(HostFrames(Len(realms)))]
      /\ toKernel \in [Hosts -> Seq(KernelFrames(Len(realms)))]
  BY Lengths DEF IInv, Types, HostTypes
<1>3. f \in KernelFrames(Len(realms)) /\ \A t, j : f # Frame("spawned", t, j)
  BY <1>1, <1>2 DEF Frame, KernelFrames, Kinds
<1> HIDE DEF f
<1>4. /\ <<f>> \in Seq(KernelFrames(Len(realms))) /\ \A x : Heard(<<f>>, x) => x = f
      /\ toKernel' = [toKernel EXCEPT ![h] = toKernel[h] \o <<f>>]
  BY <1>1, <1>2, <1>3, OneFrame
<1>5. /\ toKernel' \in [Hosts -> Seq(KernelFrames(Len(realms)))]
      /\ \A j \in Hosts \ {h} : workers'[j] = workers[j] /\ toKernel'[j] = toKernel[j]
  BY <1>1, <1>2, <1>4, Sends
<1>6. ASSUME NEW t \in Scopes, Alive(t), guests[t].host = h PROVE Calm(h, t)
  <2>1. Begun(t)' => Begun(t)
    <3>1. ~Heard(<<f>>, Frame("spawned", t, guests[t].id))
      BY <1>3, <1>4
    <3> QED BY <1>1, <1>2, <1>4, <1>6, <3>1, SendsCalm
  <2> QED BY <1>1, <2>1 DEF Calm
<1>7. /\ toHost' \in [Hosts -> Seq(HostFrames(Len(realms)))]
      /\ workers' \in [Hosts -> [Scopes -> 0..Len(realms)]]
      /\ \A j \in Hosts : \A t \in Scopes : Follows(toHost[j], toHost'[j], t)
  BY <1>1, <1>2, FollowsSame
<1> QED BY <1>1, <1>5, <1>6, <1>7, PageKeeps

--------------------------------------------------------------------------------
(* Pending work. *)

\* A realm that is heard is the running realm of its scope, and of no other.
LEMMA AcceptedIs ==
  ASSUME IInv, NEW i \in 1..Len(realms), Accepts(i)
  PROVE  /\ ScopeOf(i) \in Scopes /\ guests[ScopeOf(i)].id = i
         /\ guests[ScopeOf(i)].state = "running" /\ RunsAs(i)
<1>1. ScopeOf(i) \in Scopes
  BY ScopeIs DEF IInv
<1> QED BY <1>1 DEF Accepts, Running, RunsAs

LEMMA GuestWaitsKeeps ==
  ASSUME IInv, NEW i \in 1..Len(realms), GuestWaits(i) PROVE IInv'
<1>1. /\ Accepts(i) /\ waitPending' = [waitPending EXCEPT ![ScopeOf(i)] = i]
      /\ UNCHANGED <<kernelVars, hostVars, fetch, netPending, calls, swaps>>
      /\ UNCHANGED <<guests, realms, regs>>
  BY DEF GuestWaits, kernelVars
<1>2. WorkTypes /\ Len(realms) \in Nat /\ FetchWork /\ WaitWork /\ CallWork
  BY Lengths DEF IInv, Types
<1>3. WorkTypes'
  <2>0. i \in 0..Len(realms) /\ waitPending \in [Scopes -> 0..Len(realms)]
    BY <1>2 DEF WorkTypes
  <2>1. waitPending' \in [Scopes -> 0..Len(realms)]
    BY <1>1, <2>0
  <2> QED BY <1>1, <1>2, <2>1 DEF WorkTypes
<1>4. WaitWork'
  BY <1>1, <1>2, AcceptedIs DEF WaitWork, WorkTypes, Running
<1>5. FetchWork' /\ CallWork'
  BY <1>1, <1>2 DEF FetchWork, RunsAs, ScopeOf, CallWork, CallOf, CallsAt
<1> QED BY <1>1, <1>3, <1>4, <1>5, WorkKeeps

LEMMA WaitEndsKeeps ==
  ASSUME IInv, NEW s \in Scopes, WaitEnds(s) PROVE IInv'
<1>1. /\ waitPending' = [waitPending EXCEPT ![s] = 0]
      /\ UNCHANGED <<kernelVars, hostVars, fetch, netPending, calls, swaps>>
      /\ UNCHANGED <<guests, realms, regs>>
  BY DEF WaitEnds, kernelVars
<1>2. WorkTypes /\ Len(realms) \in Nat /\ FetchWork /\ WaitWork /\ CallWork
  BY Lengths DEF IInv, Types
<1>3. WorkTypes'
  <2>1. waitPending' \in [Scopes -> 0..Len(realms)]
    BY <1>1, <1>2 DEF WorkTypes
  <2> QED BY <1>1, <1>2, <2>1 DEF WorkTypes
<1>4. WaitWork'
  BY <1>1, <1>2 DEF WaitWork, WorkTypes, Running
<1>5. FetchWork' /\ CallWork'
  BY <1>1, <1>2 DEF FetchWork, RunsAs, ScopeOf, CallWork, CallOf, CallsAt
<1> QED BY <1>1, <1>3, <1>4, <1>5, WorkKeeps

LEMMA AliveId ==
  ASSUME IInv, NEW s \in Scopes, Alive(s) PROVE guests[s].id \in Ids
<1>1. RecordOf(s)
  BY AliveIs DEF IInv
<1>2. Len(realms) \in Nat /\ Len(realms) <= MaxRealms /\ MaxRealms \in Nat
  BY Lengths, Assumed DEF IInv, Types, RecordTypes
<1> QED BY <1>1, <1>2 DEF RecordOf, Ids

\* A step of the call w of realm i, and of the entry of its scope.
LEMMA CallKeeps ==
  ASSUME IInv, NEW i \in 1..Len(realms), NEW w \in What,
         UNCHANGED <<kernelVars, hostVars, fetch, waitPending>>, swaps' \subseteq SwapRecords,
         calls' \in [Ids -> [What -> CallRecords]],
         netPending' \in [Scopes -> [What -> 0..Len(realms)]],
         \A j \in Ids, x \in What : j # i \/ x # w => calls'[j][x] = calls[j][x],
         \A t \in Scopes, x \in What :
           t # ScopeOf(i) \/ x # w => netPending'[t][x] = netPending[t][x],
         CallOf(i, w)', CallsAt(ScopeOf(i), w)'
  PROVE  IInv'
<1>1. /\ Types /\ Records /\ Len(realms) \in Nat /\ CallWork /\ FetchWork /\ WaitWork
      /\ ScopeOf(i) \in Scopes /\ UNCHANGED <<guests, realms, regs>>
  BY Lengths, ScopeIs DEF IInv, kernelVars
<1>2. WorkTypes'
  BY <1>1 DEF Types, WorkTypes
<1>3. FetchWork' /\ WaitWork'
  BY <1>1 DEF FetchWork, WaitWork, RunsAs, Running, ScopeOf
<1>4. ASSUME NEW j \in Ids, NEW x \in What PROVE CallOf(j, x)'
  <2>1. CASE j = i /\ x = w
    BY <2>1
  <2>2. CASE j # i \/ x # w
    <3>1. calls'[j][x] = calls[j][x] /\ CallOf(j, x)
      BY <1>1, <2>2 DEF CallWork
    <3> QED BY <1>1, <3>1 DEF CallOf
  <2> QED BY <2>1, <2>2
<1>5. ASSUME NEW t \in Scopes, NEW x \in What PROVE CallsAt(t, x)'
  <2>1. CASE t = ScopeOf(i) /\ x = w
    <3>1. CallsAt(ScopeOf(i), w)' = CallsAt(t, x)'
      BY <1>1, <2>1 DEF ScopeOf, CallsAt
    <3> QED BY <3>1
  <2>2. CASE t # ScopeOf(i) \/ x # w
    <3>1. netPending'[t][x] = netPending[t][x] /\ CallsAt(t, x)
      BY <1>1, <2>2 DEF CallWork
    <3>2. CASE guests[t].state \in {"spawning", "running"}
      <4>1. guests[t].id \in Ids /\ ScopeOf(guests[t].id) = t
        BY <1>1, <3>2, Assumed DEF Records, RecordOf, Ids, Types, RecordTypes
      <4>2. calls'[guests[t].id][x] = calls[guests[t].id][x]
        BY <2>2, <4>1
      <4> QED BY <1>1, <3>1, <4>2 DEF CallsAt
    <3>3. CASE guests[t].state \notin {"spawning", "running"}
      BY <1>1, <3>1, <3>3 DEF CallsAt
    <3> QED BY <3>2, <3>3
  <2> QED BY <2>1, <2>2
<1>6. CallWork'
  BY <1>4, <1>5 DEF CallWork
<1> QED BY <1>1, <1>2, <1>3, <1>6, WorkKeeps

LEMMA IdsHave ==
  ASSUME Types, NEW i \in 1..Len(realms)
  PROVE  /\ i \in Ids /\ i # 0 /\ Len(realms) \in Nat /\ ScopeOf(i) \in Scopes
         /\ calls \in [Ids -> [What -> CallRecords]] /\ swaps \subseteq SwapRecords
         /\ netPending \in [Scopes -> [What -> 0..Len(realms)]]
  BY Lengths, Assumed, ScopeIs DEF Types, RecordTypes, WorkTypes, Ids

LEMMA GuestCallsKeeps ==
  ASSUME IInv, NEW i \in 1..Len(realms), NEW w \in What, GuestCalls(i, w) PROVE IInv'
<1> DEFINE s == ScopeOf(i)
           c == calls'[i][w]
<1>1. /\ UNCHANGED <<kernelVars, hostVars, fetch, waitPending, swaps>>
      /\ UNCHANGED <<guests, realms, regs>>
      /\ Accepts(i) /\ calls[i][w] = NoCall
  BY DEF GuestCalls, kernelVars
<1>2. /\ Types /\ i \in Ids /\ i # 0 /\ Len(realms) \in Nat /\ s \in Scopes
      /\ calls \in [Ids -> [What -> CallRecords]] /\ swaps \subseteq SwapRecords
      /\ netPending \in [Scopes -> [What -> 0..Len(realms)]]
      /\ guests[s].id = i /\ guests[s].state = "running"
  BY <1>1, IdsHave, AcceptedIs DEF IInv
<1>3. CASE /\ calls' = [calls EXCEPT ![i][w].bridge = TRUE, ![i][w].timer = TRUE]
           /\ netPending' = [netPending EXCEPT ![s][w] = i]
  <2>1. LET d == [NoCall EXCEPT !.bridge = TRUE, !.timer = TRUE]
        IN d \in CallRecords /\ d.timer = TRUE /\ d.results = 0
    BY DEF NoCall, CallRecords
  <2> DEFINE d == [NoCall EXCEPT !.bridge = TRUE, !.timer = TRUE]
  <2>2. calls' = [calls EXCEPT ![i] = [calls[i] EXCEPT ![w] = d]]
    BY <1>1, <1>2, <1>3
  <2> HIDE DEF d
  <2>3. /\ calls' \in [Ids -> [What -> CallRecords]] /\ c = d
        /\ \A j \in Ids, x \in What : j # i \/ x # w => calls'[j][x] = calls[j][x]
    BY <1>2, <2>1, <2>2 DEF d
  <2>4. /\ netPending' \in [Scopes -> [What -> 0..Len(realms)]] /\ netPending'[s][w] = i
        /\ \A t \in Scopes, x \in What : t # s \/ x # w => netPending'[t][x] = netPending[t][x]
    BY <1>2, <1>3
  <2>5. CallOf(i, w)'
    BY <1>1, <1>2, <2>1, <2>3 DEF CallOf, d
  <2>6. CallsAt(s, w)'
    BY <1>1, <1>2, <2>1, <2>3, <2>4 DEF CallsAt, ScopeOf, d
  <2> QED BY <1>1, <1>2, <2>3, <2>4, <2>5, <2>6, CallKeeps
<1>4. CASE calls' = [calls EXCEPT ![i][w].results = 1] /\ UNCHANGED netPending
  <2>1. LET d == [NoCall EXCEPT !.results = 1]
        IN d \in CallRecords /\ ~d.timer /\ d.results = 1
    BY DEF NoCall, CallRecords
  <2> DEFINE d == [NoCall EXCEPT !.results = 1]
  <2>2. calls' = [calls EXCEPT ![i] = [calls[i] EXCEPT ![w] = d]]
    BY <1>1, <1>2, <1>4
  <2> HIDE DEF d
  <2>3. /\ calls' \in [Ids -> [What -> CallRecords]] /\ c = d
        /\ \A j \in Ids, x \in What : j # i \/ x # w => calls'[j][x] = calls[j][x]
    BY <1>2, <2>1, <2>2 DEF d
  <2>4. netPending[s][w] = 0
    <3>1. CallsAt(s, w)
      BY <1>2 DEF IInv, CallWork
    <3>2. ~NoCall.timer
      BY DEF NoCall
    <3> QED BY <1>1, <1>2, <3>1, <3>2 DEF CallsAt
  <2>5. CallOf(i, w)'
    BY <1>1, <1>2, <2>1, <2>3 DEF CallOf, d
  <2>6. CallsAt(s, w)'
    BY <1>1, <1>2, <1>4, <2>1, <2>3, <2>4 DEF CallsAt, ScopeOf, d
  <2> QED BY <1>1, <1>2, <1>4, <2>3, <2>5, <2>6, CallKeeps
<1> QED BY <1>3, <1>4 DEF GuestCalls

\* A call of realm i that has an open bridge or timer: i is no spawning realm.
LEMMA CallIs ==
  ASSUME IInv, NEW i \in 1..Len(realms), NEW w \in What, calls[i][w] # NoCall
  PROVE  /\ CallsAt(ScopeOf(i), w) /\ CallOf(i, w) /\ calls[i][w] \in CallRecords
         /\ ~(guests[ScopeOf(i)].state = "spawning" /\ guests[ScopeOf(i)].id = i)
<1>1. /\ CallsAt(ScopeOf(i), w) /\ CallOf(i, w) /\ calls[i][w] \in CallRecords
  BY IdsHave DEF IInv, CallWork
<1> QED BY <1>1 DEF CallsAt

\* The entry is taken: the call has its result, and no timer.
LEMMA SettledKeeps ==
  ASSUME IInv, NEW i \in 1..Len(realms), NEW w \in What, calls[i][w] # NoCall,
         UNCHANGED <<kernelVars, hostVars, fetch, waitPending>>, swaps' \subseteq SwapRecords,
         NEW d \in CallRecords, d.timer = FALSE, d.results = calls[i][w].results + 1,
         calls' = [calls EXCEPT ![i][w] = d],
         netPending' = [netPending EXCEPT ![ScopeOf(i)][w] = 0],
         guests[ScopeOf(i)].state = "running" /\ guests[ScopeOf(i)].id = i => calls[i][w].results = 0
  PROVE  IInv'
<1> DEFINE s == ScopeOf(i)
<1>1. /\ Types /\ i \in Ids /\ i # 0 /\ Len(realms) \in Nat /\ s \in Scopes
      /\ calls \in [Ids -> [What -> CallRecords]]
      /\ netPending \in [Scopes -> [What -> 0..Len(realms)]]
      /\ UNCHANGED <<guests, realms, regs>>
  BY IdsHave DEF IInv, kernelVars
<1>2. /\ calls' \in [Ids -> [What -> CallRecords]] /\ calls'[i][w] = d
      /\ \A j \in Ids, x \in What : j # i \/ x # w => calls'[j][x] = calls[j][x]
  BY <1>1
<1>3. /\ netPending' \in [Scopes -> [What -> 0..Len(realms)]] /\ netPending'[s][w] = 0
      /\ \A t \in Scopes, x \in What : t # s \/ x # w => netPending'[t][x] = netPending[t][x]
  BY <1>1
<1>4. CallOf(i, w)'
  BY <1>1, <1>2 DEF CallOf
<1>5. CallsAt(s, w)'
  <2> SUFFICES /\ ~(guests[s].state = "spawning" /\ calls'[guests[s].id][w] # NoCall)
               /\ guests[s].state = "running" => calls'[guests[s].id][w].results <= 1
    BY <1>1, <1>3 DEF CallsAt, ScopeOf
  <2>1. CASE guests[s].id = i
    <3>1. ~(guests[s].state = "spawning")
      BY <2>1, CallIs
    <3>2. guests[s].state = "running" => d.results = 1
      BY <2>1
    <3> QED BY <1>2, <2>1, <3>1, <3>2
  <2>2. CASE guests[s].id # i
    <3>1. CASE guests[s].state \in {"spawning", "running"}
      <4>1. guests[s].id \in Ids
        BY <1>1, <3>1, AliveId DEF Alive
      <4>2. calls'[guests[s].id][w] = calls[guests[s].id][w]
        BY <1>2, <2>2, <4>1
      <4> QED BY <4>2, CallIs DEF CallsAt
    <3> QED BY <3>1
  <2> QED BY <2>1, <2>2
<1> QED BY <1>1, <1>2, <1>3, <1>4, <1>5, CallKeeps

LEMMA CallBudgetKeeps ==
  ASSUME IInv, NEW i \in 1..Len(realms), NEW w \in What, CallBudget(i, w) PROVE IInv'
<1> DEFINE d == [calls[i][w] EXCEPT !.timer = FALSE, !.results = calls[i][w].results + 1]
<1>1. /\ calls[i][w].timer
      /\ calls' = [calls EXCEPT ![i][w].timer = FALSE, ![i][w].results = @ + 1]
      /\ netPending' = [netPending EXCEPT ![ScopeOf(i)][w] = 0]
      /\ UNCHANGED <<kernelVars, hostVars, fetch, waitPending, swaps>>
  BY DEF CallBudget
<1>2. i \in Ids /\ calls \in [Ids -> [What -> CallRecords]] /\ swaps \subseteq SwapRecords
  BY IdsHave DEF IInv
<1>3. calls[i][w] # NoCall
  BY <1>1 DEF NoCall
<1>4. calls[i][w].results = 0 /\ calls[i][w] \in CallRecords
  BY <1>1, <1>3, CallIs DEF CallOf
<1>5. calls' = [calls EXCEPT ![i][w] = d]
  BY <1>1, <1>2
<1>6. d \in CallRecords /\ d.timer = FALSE /\ d.results = calls[i][w].results + 1
  <2>1. \A x \in CallRecords : \A n \in Nat :
          LET y == [x EXCEPT !.timer = FALSE, !.results = n]
          IN y \in CallRecords /\ y.timer = FALSE /\ y.results = n
    BY DEF CallRecords
  <2>2. calls[i][w].results + 1 \in Nat
    BY <1>4
  <2> QED BY <1>4, <2>1, <2>2
<1> HIDE DEF d
<1> QED BY <1>1, <1>2, <1>3, <1>4, <1>5, <1>6, SettledKeeps

LEMMA BridgeAnswersKeeps ==
  ASSUME IInv, NEW i \in 1..Len(realms), NEW w \in What, BridgeAnswers(i, w) PROVE IInv'
<1> DEFINE s == ScopeOf(i)
           r == regs[realms[i].reg]
<1>0. /\ calls[i][w].bridge /\ UNCHANGED <<kernelVars, hostVars, fetch, waitPending>>
      /\ UNCHANGED <<guests, realms, regs>>
  BY DEF BridgeAnswers, kernelVars
<1>1. /\ Types /\ i \in Ids /\ i # 0 /\ Len(realms) \in Nat /\ s \in Scopes
      /\ calls \in [Ids -> [What -> CallRecords]] /\ swaps \subseteq SwapRecords
      /\ netPending \in [Scopes -> [What -> 0..Len(realms)]]
  BY IdsHave DEF IInv
<1>2. calls[i][w] # NoCall
  BY <1>0 DEF NoCall
<1>3. CallsAt(s, w) /\ CallOf(i, w) /\ calls[i][w] \in CallRecords
      /\ ~(guests[s].state = "spawning" /\ guests[s].id = i)
  BY <1>2, CallIs
<1>4. CASE Settles(i, w)
  <2> DEFINE d == [calls[i][w] EXCEPT !.bridge = FALSE, !.timer = FALSE,
                                      !.results = calls[i][w].results + 1]
  <2>1. /\ netPending' = [netPending EXCEPT ![s][w] = 0]
        /\ calls' = [calls EXCEPT ![i][w].bridge = FALSE, ![i][w].timer = FALSE,
                                  ![i][w].results = @ + 1]
    BY <1>4 DEF BridgeAnswers
  <2>2. calls' = [calls EXCEPT ![i][w] = d]
    BY <1>1, <2>1
  <2>3. d \in CallRecords /\ d.timer = FALSE /\ d.results = calls[i][w].results + 1
    <3>1. \A x \in CallRecords : \A n \in Nat :
            LET y == [x EXCEPT !.bridge = FALSE, !.timer = FALSE, !.results = n]
            IN y \in CallRecords /\ y.timer = FALSE /\ y.results = n
      BY DEF CallRecords
    <3>2. calls[i][w].results + 1 \in Nat
      BY <1>3 DEF CallRecords
    <3> QED BY <1>3, <3>1, <3>2
  <2> HIDE DEF d
  <2>4. guests[s].state = "running" /\ guests[s].id = i => calls[i][w].results = 0
    <3>1. netPending[s][w] # 0
      BY <1>4 DEF Settles
    <3>2. calls[guests[s].id][w].timer = TRUE
      BY <1>3, <3>1 DEF CallsAt
    <3> QED BY <1>3, <3>2 DEF CallOf
  <2>5. swaps' \subseteq SwapRecords
    <3>1. realms[i].reg \in 1..Len(regs)
      <4>1. realms[i] \in RealmRecords(Len(regs))
        BY <1>1, ElementOfSeq DEF Types, RecordTypes
      <4> QED BY <4>1 DEF RealmRecords
    <3>2. r \in RegRecords
      BY <1>1, <3>1, ElementOfSeq DEF Types, RecordTypes
    <3>3. \A v \in Versions : [scope |-> s, script |-> <<r.url, v>>] \in SwapRecords
      BY <1>1, <3>2 DEF RegRecords, SwapRecords, Scripts
    <3>4. swaps' = swaps \/ \E v \in Versions : swaps' = swaps \cup {[scope |-> s, script |-> <<r.url, v>>]}
      BY <1>4 DEF BridgeAnswers
    <3> QED BY <1>1, <3>3, <3>4
  <2> QED BY <1>0, <1>2, <2>1, <2>2, <2>3, <2>4, <2>5, SettledKeeps
<1>5. CASE ~Settles(i, w)
  <2> DEFINE d == [calls[i][w] EXCEPT !.bridge = FALSE]
  <2>1. calls' = [calls EXCEPT ![i][w].bridge = FALSE] /\ UNCHANGED <<netPending, swaps>>
    BY <1>5 DEF BridgeAnswers
  <2>2. calls' = [calls EXCEPT ![i][w] = d]
    BY <1>1, <2>1
  <2>3. d \in CallRecords /\ d.timer = calls[i][w].timer /\ d.results = calls[i][w].results
    BY <1>3 DEF CallRecords
  <2> HIDE DEF d
  <2>4. /\ calls' \in [Ids -> [What -> CallRecords]] /\ calls'[i][w] = d
        /\ \A j \in Ids, x \in What : j # i \/ x # w => calls'[j][x] = calls[j][x]
    BY <1>1, <2>2, <2>3
  <2>5. CallOf(i, w)'
    BY <1>0, <1>1, <1>3, <2>3, <2>4 DEF CallOf
  <2>6. CallsAt(s, w)'
    <3>1. netPending[s][w] = 0
      BY <1>5 DEF Settles
    <3>2. CASE guests[s].id = i
      BY <1>0, <1>3, <2>1, <2>3, <2>4, <3>1, <3>2 DEF CallsAt, ScopeOf
    <3>3. CASE guests[s].id # i /\ guests[s].state \in {"spawning", "running"}
      <4>1. guests[s].id \in Ids
        BY <1>1, <3>3, AliveId DEF Alive
      <4>2. calls'[guests[s].id][w] = calls[guests[s].id][w]
        BY <2>4, <3>3, <4>1
      <4> QED BY <1>0, <1>3, <2>1, <3>1, <4>2 DEF CallsAt, ScopeOf
    <3>4. CASE guests[s].state \notin {"spawning", "running"}
      BY <1>0, <2>1, <3>1, <3>4 DEF CallsAt, ScopeOf
    <3> QED BY <3>2, <3>3, <3>4
  <2> QED BY <1>0, <1>1, <2>1, <2>4, <2>5, <2>6, CallKeeps
<1> QED BY <1>4, <1>5

--------------------------------------------------------------------------------
(* Dispatched fetches. *)

LEMMA FetchEnds ==
  ASSUME IInv, NEW f \in Fetches, NEW o \in {"handled", "unhandled"},
         fetch' = [fetch EXCEPT ![f].at = o],
         UNCHANGED <<kernelVars, hostVars, waitPending, netPending, calls, swaps>>
  PROVE  IInv'
<1>1. /\ UNCHANGED <<guests, realms, regs>> /\ fetch \in [Fetches -> FetchRecords]
      /\ WorkTypes /\ FetchWork /\ WaitWork /\ CallWork
  BY DEF kernelVars, IInv, Types, WorkTypes
<1>2. \A x \in FetchRecords :
        LET y == [x EXCEPT !.at = o] IN y \in FetchRecords /\ y.at = o /\ y.realm = x.realm
  BY DEF FetchRecords
<1>3. fetch' = [fetch EXCEPT ![f] = [fetch[f] EXCEPT !.at = o]]
  BY <1>1
<1>4. /\ fetch' \in [Fetches -> FetchRecords] /\ fetch'[f].at # "pending"
      /\ \A k \in Fetches \ {f} : fetch'[k] = fetch[k]
  BY <1>1, <1>2, <1>3
<1>5. WorkTypes'
  BY <1>1, <1>4 DEF WorkTypes
<1>6. FetchWork'
  BY <1>1, <1>4 DEF FetchWork, RunsAs, ScopeOf
<1>7. WaitWork' /\ CallWork'
  BY <1>1 DEF WaitWork, Running, CallWork, CallOf, CallsAt
<1> QED BY <1>5, <1>6, <1>7, WorkKeeps

LEMMA AnswersKeeps ==
  ASSUME IInv, NEW f \in Fetches, Answers(f) \/ FetchBudget(f) PROVE IInv'
<1>1. PICK o \in {"handled", "unhandled"} :
        /\ fetch' = [fetch EXCEPT ![f].at = o]
        /\ UNCHANGED <<kernelVars, hostVars, waitPending, netPending, calls, swaps>>
  BY DEF Answers, FetchBudget
<1> QED BY <1>1, FetchEnds

\* Of finitely many scopes below a path one is the most specific.
LEMMA MostSpecific ==
  ASSUME NEW S \in SUBSET Nat, NEW path \in Nat, S # {}, \A s \in S : s <= path
  PROVE  \E s \in S : \A t \in S : t <= s
<1> DEFINE T == {path - s : s \in S}
<1>1. T \subseteq Nat /\ T # {}
  <2>1. \A s \in S : path - s \in Nat
    OBVIOUS
  <2> QED BY <2>1
<1>2. PICK x \in T : \A y \in T : ~(<<y, x>> \in OpToRel(<, Nat))
  BY <1>1, NatLessThanWellFounded, WFMin
<1>3. PICK s \in S : x = path - s
  BY <1>2
<1>4. ASSUME NEW t \in S PROVE t <= s
  <2>1. path - t \in T /\ path - t \in Nat /\ x \in Nat
    BY <1>1
  <2>2. ~(path - t < x)
    BY <1>2, <2>1 DEF OpToRel
  <2> QED BY <1>3, <2>2
<1> QED BY <1>4

LEMMA DispatchKeeps ==
  ASSUME IInv, NEW late \in SUBSET {s \in Scopes : MayBeOverdue(s)}, NEW f \in Fetches,
         Dispatch(f, late)
  PROVE  IInv'
<1>1. /\ guests' = Ticked(late) /\ reply' = Replies(late)
      /\ UNCHANGED <<regs, realms, waitPending, netPending, calls, swaps>>
      /\ UNCHANGED <<hosts, open, toHost, toKernel, workers>>
  BY DEF Dispatch, hostVars
<1>2. /\ Types /\ Records /\ Hosted /\ FetchWork /\ WaitWork /\ CallWork /\ Waiting
      /\ Ticked(late) \in [Scopes -> GuestRecords] /\ Replies(late) \in [Callers -> Replied]
      /\ fetch \in [Fetches -> FetchRecords]
  BY TickedIs DEF IInv, Types, WorkTypes
<1>3. Winds({})
  BY <1>1, <1>2, TickedWinds
<1>4. \A s \in Scopes : guests[s].state = "running" => guests'[s] = guests[s]
  BY <1>1, <1>2, TickedIs
<1>5. \A s \in Scopes : \/ guests'[s] = guests[s]
                        \/ guests'[s].state = "none" /\ guests[s].state # "running"
  <2> SUFFICES ASSUME NEW s \in Scopes
               PROVE  \/ guests'[s] = guests[s]
                      \/ guests'[s].state = "none" /\ guests[s].state # "running"
    OBVIOUS
  <2>1. \/ Ticked(late)[s] = guests[s]
        \/ Ticked(late)[s] = NoGuest /\ guests[s].state # "running"
    BY <1>2, TickedIs
  <2>2. NoGuest.state = "none"
    BY DEF NoGuest
  <2>3. guests'[s] = Ticked(late)[s]
    BY <1>1
  <2>4. CASE Ticked(late)[s] = guests[s]
    <3>1. guests'[s] = guests[s]
      BY <2>3, <2>4
    <3> QED BY <3>1
  <2>5. CASE Ticked(late)[s] = NoGuest /\ guests[s].state # "running"
    BY <2>2, <2>3, <2>5
  <2> QED BY <2>1, <2>4, <2>5
<1>6. PICK path \in Scopes :
        LET able == {s \in Scopes : s <= path /\ Running(s)}
            best == CHOOSE s \in able : \A t \in able : t <= s
        IN fetch' = [fetch EXCEPT ![f] = IF able = {} THEN [at |-> "unhandled", realm |-> 0]
                                         ELSE [at |-> "pending", realm |-> guests[best].id]]
  BY DEF Dispatch
<1> DEFINE able == {s \in Scopes : s <= path /\ Running(s)}
           best == CHOOSE s \in able : \A t \in able : t <= s
           new == IF able = {} THEN [at |-> "unhandled", realm |-> 0]
                  ELSE [at |-> "pending", realm |-> guests[best].id]
<1>7. able # {} => best \in able
  <2>1. able \in SUBSET Nat /\ path \in Nat /\ \A s \in able : s <= path
    BY Assumed
  <2> HIDE DEF able
  <2>2. ASSUME able # {} PROVE best \in able
    <3>1. \E s \in able : \A t \in able : t <= s
      BY <2>1, <2>2, MostSpecific
    <3> QED BY <3>1
  <2> QED BY <2>2
<1>8. able # {} => guests[best].id \in 1..Len(realms) /\ RunsAs(guests[best].id)
  <2> SUFFICES ASSUME able # {} PROVE guests[best].id \in 1..Len(realms) /\ RunsAs(guests[best].id)
    OBVIOUS
  <2>1. best \in Scopes /\ guests[best].state = "running"
    BY <1>7 DEF Running
  <2> HIDE DEF best
  <2>2. RecordOf(best)
    BY <1>2, <2>1 DEF Records
  <2> QED BY <2>1, <2>2 DEF RecordOf, RunsAs
<1>9. fetch' = [fetch EXCEPT ![f] = new]
  BY <1>6
<1>10. /\ new \in FetchRecords
       /\ new.at = "pending" => RunsAs(new.realm)
  <2>1. CASE able = {}
    BY <2>1, Assumed DEF FetchRecords
  <2>2. CASE able # {}
    <3>1. guests[best].id \in 0..MaxRealms
      BY <1>2, <1>8, <2>2, Lengths, Assumed DEF Types, RecordTypes
    <3> QED BY <1>8, <2>2, <3>1 DEF FetchRecords
  <2> QED BY <2>1, <2>2
<1> HIDE DEF new, able, best
<1>11. /\ fetch' \in [Fetches -> FetchRecords] /\ fetch'[f] = new
       /\ \A k \in Fetches \ {f} : fetch'[k] = fetch[k]
  BY <1>2, <1>9, <1>10
<1>12. FetchWork'
  <2> SUFFICES ASSUME NEW k \in Fetches, fetch'[k].at = "pending" PROVE RunsAs(fetch[k].realm)'
    BY DEF FetchWork
  <2> DEFINE i == fetch'[k].realm
  <2>1. RunsAs(i)
    BY <1>2, <1>10, <1>11 DEF FetchWork
  <2>2. i \in 1..Len(realms) /\ ScopeOf(i) \in Scopes
    BY <1>2, <2>1, ScopeIs DEF RunsAs
  <2>3. guests'[ScopeOf(i)] = guests[ScopeOf(i)]
    BY <1>4, <2>1, <2>2 DEF RunsAs
  <2> QED BY <1>1, <2>1, <2>2, <2>3 DEF RunsAs, ScopeOf
<1>13. WaitWork'
  BY <1>1, <1>2, <1>4 DEF WaitWork, Running
<1>14. CallWork'
  <2>1. ASSUME NEW s \in Scopes, NEW w \in What PROVE CallsAt(s, w)'
    <3>1. CallsAt(s, w)
      BY <1>2 DEF CallWork
    <3> QED BY <1>1, <1>5, <3>1 DEF CallsAt
  <2>2. ASSUME NEW i \in Ids, NEW w \in What PROVE CallOf(i, w)'
    BY <1>1, <1>2 DEF CallWork, CallOf
  <2> QED BY <2>1, <2>2 DEF CallWork
<1>15. Types'
  <2>1. RecordTypes'
    BY <1>1, <1>2 DEF Types, RecordTypes
  <2>2. WorkTypes'
    BY <1>1, <1>2, <1>11 DEF Types, WorkTypes
  <2>3. HostTypes'
    BY <1>1, <1>2 DEF Types, HostTypes
  <2> QED BY <2>1, <2>2, <2>3 DEF Types
<1>16. Records'
  BY <1>1, <1>2, <1>3, WindsRecords
<1>17. Hosted'
  <2>1. /\ \A h \in Hosts : \A s \in Scopes \ {} : Follows(toHost[h], toHost'[h], s)
        /\ \A h \in Hosts : \A m : Heard(toKernel'[h], m) => Heard(toKernel[h], m)
    BY <1>1, FollowsSame
  <2> QED BY <1>1, <1>2, <1>3, <2>1, WindsHosted
<1>18. Waiting'
  BY <1>1, <1>2, TickedWaits DEF Waiting
<1> QED BY <1>12, <1>13, <1>14, <1>15, <1>16, <1>17, <1>18 DEF IInv

--------------------------------------------------------------------------------
(* The invariant. *)

LEMMA InitHolds == Init => IInv
<1> SUFFICES ASSUME Init PROVE IInv
  OBVIOUS
<1>1. /\ Len(realms) = 0 /\ Len(regs) = 0 /\ realms = <<>> /\ regs = <<>>
      /\ guests = [s \in Scopes |-> NoGuest] /\ open = {}
  BY DEF Init
<1>2. RecordTypes
  <2>1. NoGuest \in GuestRecords
    BY DEF NoGuest, GuestRecords, States
  <2>2. reply \in [Callers -> Replied]
    BY DEF Init, Replied
  <2> QED BY <1>1, <2>1, <2>2, Assumed DEF RecordTypes
<1>3. WorkTypes
  <2>1. calls \in [Ids -> [What -> CallRecords]]
    <3>1. NoCall \in CallRecords
      BY DEF NoCall, CallRecords
    <3> QED BY <3>1 DEF Init
  <2>2. fetch \in [Fetches -> FetchRecords]
    BY Assumed DEF Init, FetchRecords
  <2>3. /\ waitPending \in [Scopes -> 0..Len(realms)]
        /\ netPending \in [Scopes -> [What -> 0..Len(realms)]]
        /\ swaps \subseteq SwapRecords
    BY <1>1 DEF Init
  <2> QED BY <2>1, <2>2, <2>3 DEF WorkTypes
<1>4. HostTypes
  <2>1. workers \in [Hosts -> [Scopes -> 0..Len(realms)]]
    BY <1>1 DEF Init
  <2>2. /\ hosts \in Seq(Hosts) /\ open \subseteq Hosts
        /\ toHost \in [Hosts -> Seq(HostFrames(Len(realms)))]
        /\ toKernel \in [Hosts -> Seq(KernelFrames(Len(realms)))]
    BY DEF Init
  <2> QED BY <2>1, <2>2 DEF HostTypes
<1>5. \A s \in Scopes : guests[s].state = "none" /\ guests[s].pending = {}
  BY <1>1 DEF NoGuest
<1>6. Records /\ Hosted /\ Waiting
  BY <1>1, <1>5 DEF Records, Hosted, Alive, Waiting
<1>7. FetchWork /\ WaitWork
  BY DEF Init, FetchWork, WaitWork
<1>8. CallWork
  <2>1. \A i \in Ids : \A w \in What : calls[i][w] = NoCall /\ ~NoCall.timer
    BY DEF Init, NoCall
  <2>2. \A s \in Scopes : \A w \in What : netPending[s][w] = 0
    BY DEF Init
  <2> QED BY <1>5, <2>1, <2>2 DEF CallWork, CallOf, CallsAt
<1> QED BY <1>2, <1>3, <1>4, <1>6, <1>7, <1>8 DEF IInv, Types

LEMMA StutterKeeps == ASSUME IInv, UNCHANGED vars PROVE IInv'
<1>1. UNCHANGED <<kernelVars, hostVars, workVars>>
  BY DEF vars, kernelVars, hostVars, workVars
<1>2. WorkTypes' /\ FetchWork' /\ WaitWork' /\ CallWork'
  BY <1>1 DEF IInv, Types, WorkTypes, FetchWork, WaitWork, CallWork, RunsAs, Running, ScopeOf,
              CallOf, CallsAt, kernelVars, workVars
<1> QED BY <1>1, <1>2, WorkKeeps

LEMMA SpawningKeeps ==
  ASSUME IInv, NEW late \in SUBSET {s \in Scopes : MayBeOverdue(s)}, Spawning(late) PROVE IInv'
<1>1. CASE OnlyTicks(late)
  BY <1>1, OnlyTicksKeeps
<1>2. ASSUME NEW s \in Scopes, NEW u \in URLs, NEW v \in Versions, NEW c \in Callers,
             Rejoin(c, s, u, v, late)
      PROVE  IInv'
  BY <1>2, RejoinKeeps
<1>3. ASSUME NEW s \in Scopes, NEW u \in URLs, NEW v \in Versions,
             NEW confirmed \in {{}} \cup {{c} : c \in Callers}, Spawn(confirmed, s, u, v, late)
      PROVE  IInv'
  <2>1. confirmed \in SUBSET Callers
    OBVIOUS
  <2> QED BY <1>3, <2>1, SpawnKeeps
<1> QED BY <1>1, <1>2, <1>3 DEF Spawning

LEMMA NextKeeps == IInv /\ [Next]_vars => IInv'
<1> SUFFICES ASSUME IInv, [Next]_vars PROVE IInv'
  OBVIOUS
<1>1. CASE \E h \in Hosts : RegisterHost(h) \/ HostCloses(h) \/ Hosting(h) \/ Hearing(h)
                            \/ \E s \in Scopes : WorkerErrors(h, s)
  BY <1>1, RegisterHostKeeps, HostClosesKeeps, HostSpawnsKeeps, HostTerminatesKeeps, HearingKeeps,
     WorkerErrorsKeeps DEF Hosting
<1>2. CASE \E late \in SUBSET {s \in Scopes : MayBeOverdue(s)} :
             Spawning(late) \/ Ending(late) \/ \E f \in Fetches : Dispatch(f, late)
  BY <1>2, SpawningKeeps, EndingKeeps, DispatchKeeps
<1>3. CASE \E s \in Scopes : WaitEnds(s)
  BY <1>3, WaitEndsKeeps
<1>4. CASE \E i \in 1..Len(realms) : RealmPosts(i) \/ \E w \in What : CallBudget(i, w)
  BY <1>4, GuestUnregistersKeeps, GuestWaitsKeeps, GuestCallsKeeps, BridgeAnswersKeeps,
     CallBudgetKeeps DEF RealmPosts
<1>5. CASE \E x \in swaps : ReplaceGuest(x)
  BY <1>5, ReplaceGuestKeeps
<1>6. CASE \E f \in Fetches : Answers(f) \/ FetchBudget(f)
  BY <1>6, AnswersKeeps
<1>7. CASE UNCHANGED vars
  BY <1>7, StutterKeeps
<1> QED BY <1>1, <1>2, <1>3, <1>4, <1>5, <1>6, <1>7 DEF Next

\* The invariant of this module holds of every reachable state.
THEOREM Inductive == Spec => []IInv
  BY InitHolds, NextKeeps, PTL DEF Spec

\* The record of a scope, its pending work and the host page agree on the realm: executor.ts
\* clears what is pending whenever it replaces, fails, reaps or terminates a realm, and the
\* page runs the realm that the record names.
THEOREM RealmsAgreeAlways == Spec => []RealmsAgree
<1>1. IInv => TypeOK
  <2> SUFFICES ASSUME IInv PROVE TypeOK
    OBVIOUS
  <2>1. Types /\ Records
    BY DEF IInv
  <2>2. /\ regs \in Seq([url : URLs, script : Scripts])
        /\ realms \in Seq([scope : Scopes, reg : 1..Len(regs)]) /\ Len(realms) <= MaxRealms
        /\ hosts \in Seq(Hosts) /\ open \subseteq Hosts
        /\ reply \in [Callers -> {"none", "waiting", "ok", "failed"}]
    BY <2>1 DEF Types, RecordTypes, HostTypes, RegRecords, RealmRecords, Replied
  <2>3. /\ fetch \in [Fetches -> [at : {"idle", "pending", "handled", "unhandled"},
                                  realm : 0..MaxRealms]]
        /\ waitPending \in [Scopes -> 0..Len(realms)]
        /\ netPending \in [Scopes -> [What -> 0..Len(realms)]]
        /\ calls \in [Ids -> [What -> [bridge : BOOLEAN, timer : BOOLEAN, results : Nat]]]
    BY <2>1 DEF Types, WorkTypes, FetchRecords, CallRecords
  <2>4. \A s \in Scopes :
          /\ guests[s].state \in {"none", "spawning", "running", "terminating"}
          /\ guests[s].pending \subseteq Callers /\ guests[s].host \in Hosts \cup {NoHost}
    BY <2>1 DEF Types, RecordTypes, GuestRecords, States
  <2>5. \A s \in Scopes : guests[s].state # "none" =>
          /\ guests[s].id \in 1..Len(realms) /\ ScopeOf(guests[s].id) = s
          /\ \A i \in 1..Len(realms) : ScopeOf(i) = s => i <= guests[s].id
    BY <2>1 DEF Records, RecordOf
  <2> QED BY <2>2, <2>3, <2>4, <2>5 DEF TypeOK
<1>2. IInv => WorkIsOfTheRunningRealm
  BY DEF IInv, FetchWork, WaitWork, RunsAs, Running, WorkIsOfTheRunningRealm
<1>3. IInv => RunningRealmIsHosted
  BY DEF IInv, Hosted, HostedAt, Alive, Begun, Running, RunningRealmIsHosted
<1>4. IInv => RealmsAgree
  BY <1>1, <1>2, <1>3 DEF RealmsAgree
<1> QED BY <1>4, Inductive, PTL

\* A fetch() or update() of the running realm gets at most one result, whatever its budget,
\* its bridge and the calls of earlier realms under the same key do.
THEOREM OneResultAlways == Spec => []OneResult
<1>1. IInv => OneResult
  BY DEF IInv, CallWork, CallsAt, Running, OneResult
<1> QED BY <1>1, Inductive, PTL

--------------------------------------------------------------------------------
(* Confirmed callers. *)

ConfirmedStep ==
  \A c \in Callers : reply'[c] = "ok" /\ reply[c] # "ok" =>
    \E s \in Scopes : guests'[s].state = "running" /\ (reply[c] = "waiting" => c \in guests[s].pending)
PendingStep ==
  \A s \in Scopes : \A c \in guests[s].pending :
    \/ c \in guests'[s].pending \/ reply'[c] # "waiting"
    \/ guests[s].state = "terminating" /\ guests'[s].state = "none"

LEMMA PendingIs ==
  ASSUME IInv, NEW late \in SUBSET {s \in Scopes : MayBeOverdue(s)}, NEW s \in Scopes,
         NEW c \in guests[s].pending
  PROVE  /\ c \in Callers /\ reply[c] # "none"
         /\ c \in Ticked(late)[s].pending \/ Replies(late)[c] = "failed"
<1>1. Types /\ guests \in [Scopes -> GuestRecords] /\ reply[c] # "none"
  BY DEF IInv, Types, RecordTypes, Waiting
<1>2. c \in Callers
  BY <1>1 DEF GuestRecords
<1>3. CASE s \in late
  BY <1>1, <1>2, <1>3, TickedIs
<1>4. CASE s \notin late
  <2>1. Ticked(late)[s] = guests[s]
    BY <1>4 DEF Ticked
  <2> QED BY <1>1, <1>2, <2>1
<1> QED BY <1>1, <1>2, <1>3, <1>4

\* A step that answers only the callers of the records it reaps.
LEMMA ReapsCallers ==
  ASSUME IInv, NEW late \in SUBSET {s \in Scopes : MayBeOverdue(s)}, reply' = Replies(late),
         \A s \in Scopes : Ticked(late)[s].pending \subseteq guests'[s].pending
  PROVE  ConfirmedStep /\ PendingStep
<1>1. Types /\ \A c \in Callers : Replies(late)[c] \in {"failed", reply[c]}
  BY TickedIs DEF IInv
<1>2. ConfirmedStep
  BY <1>1 DEF ConfirmedStep
<1>3. PendingStep
  <2> SUFFICES ASSUME NEW s \in Scopes, NEW c \in guests[s].pending
               PROVE  c \in guests'[s].pending \/ reply'[c] # "waiting"
    BY DEF PendingStep
  <2>1. c \in Ticked(late)[s].pending \/ Replies(late)[c] = "failed"
    BY PendingIs
  <2> QED BY <2>1
<1> QED BY <1>2, <1>3

LEMMA QuietCallers ==
  ASSUME IInv, reply' = reply, \A s \in Scopes : guests'[s].pending = guests[s].pending
  PROVE  ConfirmedStep /\ PendingStep
  BY DEF ConfirmedStep, PendingStep

LEMMA EndedCallers ==
  ASSUME IInv, NEW late \in SUBSET {s \in Scopes : MayBeOverdue(s)}, NEW ss \in SUBSET Scopes,
         TerminateKeys(Ticked(late), ss), reply' = Replies(late)
  PROVE  ConfirmedStep /\ PendingStep
<1> DEFINE g == Ticked(late)
<1>1. g \in [Scopes -> GuestRecords]
  BY TickedIs DEF IInv
<1>2. PICK ended : guests' = [s \in Scopes |-> IF s \in ended
                     THEN [g[s] EXCEPT !.state = "terminating"] ELSE g[s]]
  BY DEF TerminateKeys
<1>3. \A x \in GuestRecords : [x EXCEPT !.state = "terminating"].pending = x.pending
  BY DEF GuestRecords
<1>4. \A s \in Scopes : guests'[s].pending = g[s].pending
  <2>1. \A s \in Scopes : g[s] \in GuestRecords
    BY <1>1
  <2> HIDE DEF g
  <2> QED BY <1>2, <1>3, <2>1
<1> QED BY <1>4, ReapsCallers

LEMMA EndingCallers ==
  ASSUME IInv, NEW late \in SUBSET {s \in Scopes : MayBeOverdue(s)}, Ending(late)
  PROVE  ConfirmedStep /\ PendingStep
<1>1. CASE Terminate(late)
  BY <1>1, EndedCallers DEF Terminate
<1>2. ASSUME NEW s \in Scopes, NEW u \in URLs, Unregister(s, u, late)
      PROVE  ConfirmedStep /\ PendingStep
  <2>1. TerminateKeys(Ticked(late), {s}) /\ reply' = Replies(late) /\ {s} \in SUBSET Scopes
    BY <1>2 DEF Unregister
  <2> QED BY <2>1, EndedCallers
<1> QED BY <1>1, <1>2 DEF Ending

LEMMA RejoinCallers ==
  ASSUME IInv, NEW late \in SUBSET {s \in Scopes : MayBeOverdue(s)}, NEW c \in Callers,
         NEW s \in Scopes, NEW u \in URLs, NEW v \in Versions, Rejoin(c, s, u, v, late)
  PROVE  ConfirmedStep /\ PendingStep
<1> DEFINE g == Ticked(late)
<1>1. /\ reply[c] = "none"
      /\ \/ g[s].state = "running" /\ guests' = g /\ reply' = [Replies(late) EXCEPT ![c] = "ok"]
         \/ /\ guests' = [g EXCEPT ![s].pending = @ \cup {c}]
            /\ reply' = [Replies(late) EXCEPT ![c] = "waiting"]
  BY DEF Rejoin
<1>2. /\ g \in [Scopes -> GuestRecords] /\ Replies(late) \in [Callers -> Replied]
      /\ \A d \in Callers : Replies(late)[d] \in {"failed", reply[d]}
  BY TickedIs DEF IInv
<1>3. \A d \in Callers \ {c} : reply'[d] = Replies(late)[d]
  BY <1>1, <1>2
<1>4. ConfirmedStep
  <2> SUFFICES ASSUME NEW d \in Callers, reply'[d] = "ok", reply[d] # "ok"
               PROVE  \E t \in Scopes : guests'[t].state = "running"
                                        /\ (reply[d] = "waiting" => d \in guests[t].pending)
    BY DEF ConfirmedStep
  <2>1. d = c
    BY <1>2, <1>3
  <2>2. g[s].state = "running" /\ guests' = g
    BY <1>1, <1>2, <2>1
  <2>3. guests'[s].state = "running" /\ reply[d] # "waiting"
    BY <1>1, <2>1, <2>2
  <2> QED BY <2>3
<1>5. PendingStep
  <2> SUFFICES ASSUME NEW t \in Scopes, NEW d \in guests[t].pending
               PROVE  d \in guests'[t].pending \/ reply'[d] # "waiting"
    BY DEF PendingStep
  <2>1. d \in Callers /\ d # c /\ (d \in g[t].pending \/ Replies(late)[d] = "failed")
    BY <1>1, PendingIs
  <2>2. g[t].pending \subseteq guests'[t].pending
    <3>1. CASE guests' = g
      BY <3>1
    <3>2. CASE guests' = [g EXCEPT ![s].pending = @ \cup {c}]
      <4>1. \A x \in GuestRecords : [x EXCEPT !.pending = @ \cup {c}].pending = x.pending \cup {c}
        BY DEF GuestRecords
      <4>2. g[s] \in GuestRecords /\ guests' = [g EXCEPT ![s] = [g[s] EXCEPT !.pending = @ \cup {c}]]
        BY <1>2, <3>2
      <4> HIDE DEF g
      <4> QED BY <1>2, <4>1, <4>2
    <3> QED BY <1>1, <3>1, <3>2
  <2> QED BY <1>3, <2>1, <2>2
<1> QED BY <1>4, <1>5

LEMMA SpawnCallers ==
  ASSUME IInv, NEW late \in SUBSET {s \in Scopes : MayBeOverdue(s)}, NEW confirmed \in SUBSET Callers,
         NEW s \in Scopes, NEW u \in URLs, NEW v \in Versions, Spawn(confirmed, s, u, v, late)
  PROVE  ConfirmedStep /\ PendingStep
<1>1. /\ \A c \in confirmed : reply[c] = "none"
      /\ \A c \in Callers : reply'[c] = IF c \in confirmed THEN "waiting" ELSE Replies(late)[c]
      /\ \A c \in Callers : Replies(late)[c] \in {"failed", reply[c]}
  BY SpawnRenews, TickedIs DEF Spawn, IInv
<1>2. \A t \in Scopes : Ticked(late)[t].pending \subseteq guests'[t].pending
  <2>1. Ticked(late) \in [Scopes -> GuestRecords]
    BY TickedIs DEF IInv
  <2> DEFINE p == Ticked(late)[s].pending \cup confirmed
  <2>2. \E i, r, h : guests' = [Ticked(late) EXCEPT
                       ![s] = [id |-> i, reg |-> r, state |-> "spawning", host |-> h, pending |-> p]]
    BY DEF Spawn, Inherit
  <2>3. guests'[s].pending = p /\ \A t \in Scopes \ {s} : guests'[t] = Ticked(late)[t]
    BY <2>1, <2>2
  <2> QED BY <2>3
<1>3. ConfirmedStep
  BY <1>1 DEF ConfirmedStep
<1>4. PendingStep
  <2> SUFFICES ASSUME NEW t \in Scopes, NEW d \in guests[t].pending
               PROVE  d \in guests'[t].pending \/ reply'[d] # "waiting"
    BY DEF PendingStep
  <2>1. /\ d \in Callers /\ d \notin confirmed
        /\ d \in Ticked(late)[t].pending \/ Replies(late)[d] = "failed"
    BY <1>1, PendingIs
  <2> QED BY <1>1, <1>2, <2>1
<1> QED BY <1>3, <1>4

LEMMA HearingCallers ==
  ASSUME IInv, NEW h \in Hosts, Hearing(h) PROVE ConfirmedStep /\ PendingStep
<1> DEFINE m == Head(toKernel[h])
           s == m.scope
<1>1. Types /\ guests \in [Scopes -> GuestRecords] /\ reply \in [Callers -> Replied]
  BY DEF IInv, Types, RecordTypes
<1>2. toKernel[h] # <<>> => s \in Scopes
  BY <1>1, FirstFrame
<1>3. CASE HearsNothing(h)
  BY <1>3, QuietCallers DEF HearsNothing, kernelVars
<1>4. CASE HearsSpawned(h)
  <2>1. /\ s \in Scopes /\ guests' = [guests EXCEPT ![s].state = "running", ![s].pending = {}]
        /\ reply' = [c \in Callers |-> IF c \in guests[s].pending THEN "ok" ELSE reply[c]]
    BY <1>2, <1>4 DEF HearsSpawned, Told
  <2>2. guests'[s].state = "running" /\ \A t \in Scopes \ {s} : guests'[t] = guests[t]
    <3>1. guests[s] \in GuestRecords
      BY <1>1, <2>1
    <3>2. \A x \in GuestRecords : [x EXCEPT !.state = "running", !.pending = {}].state = "running"
      BY DEF GuestRecords
    <3>3. guests' = [guests EXCEPT ![s] = [guests[s] EXCEPT !.state = "running", !.pending = {}]]
      BY <1>1, <2>1
    <3> HIDE DEF s
    <3> QED BY <1>1, <2>1, <3>1, <3>2, <3>3
  <2> HIDE DEF s
  <2>3. ConfirmedStep
    BY <2>1, <2>2 DEF ConfirmedStep
  <2>4. PendingStep
    <3>1. \A c \in guests[s].pending : reply'[c] = "ok"
      BY <1>1, <2>1 DEF GuestRecords
    <3> QED BY <2>2, <3>1 DEF PendingStep
  <2> QED BY <2>3, <2>4
<1>5. CASE HearsSpawnFailed(h)
  <2>1. /\ s \in Scopes /\ guests[s].state = "spawning" /\ guests' = [guests EXCEPT ![s] = NoGuest]
        /\ reply' = Told(guests[s].pending, "failed")
    BY <1>2, <1>5 DEF HearsSpawnFailed
  <2> HIDE DEF s
  <2>2. {s} \in SUBSET {t \in Scopes : MayBeOverdue(t)}
    BY <2>1 DEF MayBeOverdue
  <2>3. reply' = Replies({s})
    <3>1. UNION {guests[t].pending : t \in {s}} = guests[s].pending
      OBVIOUS
    <3> QED BY <2>1, <3>1 DEF Replies
  <2>4. \A t \in Scopes : Ticked({s})[t].pending \subseteq guests'[t].pending
    BY <1>1, <2>1 DEF Ticked, NoGuest
  <2> QED BY <2>2, <2>3, <2>4, ReapsCallers
<1>6. CASE HearsTerminated(h)
  <2>1. /\ s \in Scopes /\ guests[s].state = "terminating" /\ guests' = [guests EXCEPT ![s] = NoGuest]
        /\ reply' = reply
    BY <1>2, <1>6 DEF HearsTerminated
  <2> HIDE DEF s
  <2>2. guests'[s].state = "none" /\ \A t \in Scopes \ {s} : guests'[t] = guests[t]
    BY <1>1, <2>1 DEF NoGuest
  <2>3. ConfirmedStep
    BY <2>1 DEF ConfirmedStep
  <2>4. PendingStep
    BY <2>1, <2>2 DEF PendingStep
  <2> QED BY <2>3, <2>4
<1>7. CASE HearsError(h)
  <2>1. s \in Scopes /\ TerminateKeys(guests, {s}) /\ reply' = reply
    BY <1>2, <1>7 DEF HearsError
  <2> HIDE DEF s
  <2>2. TerminateKeys(Ticked({}), {s}) /\ reply' = Replies({})
    BY <1>1, <2>1, TickedNone
  <2>3. {} \in SUBSET {t \in Scopes : MayBeOverdue(t)} /\ {s} \in SUBSET Scopes
    BY <2>1
  <2> QED BY <2>2, <2>3, EndedCallers
<1> QED BY <1>3, <1>4, <1>5, <1>6, <1>7 DEF Hearing, HearsNothing

LEMMA CallersStep == IInv /\ [Next]_vars => ConfirmedStep /\ PendingStep
<1> SUFFICES ASSUME IInv, [Next]_vars PROVE ConfirmedStep /\ PendingStep
  OBVIOUS
<1>0. Types /\ \A i \in 1..Len(realms) : ScopeOf(i) \in Scopes
  BY ScopeIs DEF IInv
<1>1. CASE \E h \in Hosts : RegisterHost(h) \/ HostCloses(h) \/ Hosting(h)
                            \/ \E s \in Scopes : WorkerErrors(h, s)
  <2>1. reply' = reply /\ guests' = guests
    BY <1>1 DEF RegisterHost, HostCloses, Hosting, HostSpawns, HostTerminates, WorkerErrors, kernelVars
  <2> QED BY <2>1, QuietCallers
<1>2. CASE \E h \in Hosts : Hearing(h)
  BY <1>2, HearingCallers
<1>3. ASSUME NEW late \in SUBSET {s \in Scopes : MayBeOverdue(s)},
             Spawning(late) \/ Ending(late) \/ \E f \in Fetches : Dispatch(f, late)
      PROVE  ConfirmedStep /\ PendingStep
  <2>1. CASE OnlyTicks(late) \/ \E f \in Fetches : Dispatch(f, late)
    <3>1. guests' = Ticked(late) /\ reply' = Replies(late)
      BY <2>1 DEF OnlyTicks, Dispatch
    <3> QED BY <3>1, ReapsCallers
  <2>2. ASSUME NEW s \in Scopes, NEW u \in URLs, NEW v \in Versions, NEW c \in Callers,
               Rejoin(c, s, u, v, late)
        PROVE  ConfirmedStep /\ PendingStep
    BY <2>2, RejoinCallers
  <2>3. ASSUME NEW s \in Scopes, NEW u \in URLs, NEW v \in Versions,
               NEW confirmed \in {{}} \cup {{c} : c \in Callers}, Spawn(confirmed, s, u, v, late)
        PROVE  ConfirmedStep /\ PendingStep
    <3>1. confirmed \in SUBSET Callers
      OBVIOUS
    <3> QED BY <2>3, <3>1, SpawnCallers
  <2>4. CASE Ending(late)
    BY <2>4, EndingCallers
  <2> QED BY <1>3, <2>1, <2>2, <2>3, <2>4 DEF Spawning
<1>4. CASE \E s \in Scopes : WaitEnds(s)
  <2>1. reply' = reply /\ guests' = guests
    BY <1>4 DEF WaitEnds, kernelVars
  <2> QED BY <2>1, QuietCallers
<1>5. ASSUME NEW i \in 1..Len(realms), RealmPosts(i) \/ \E w \in What : CallBudget(i, w)
      PROVE  ConfirmedStep /\ PendingStep
  <2>1. CASE GuestUnregisters(i)
    <3>1. TerminateKeys(Ticked({}), {ScopeOf(i)}) /\ reply' = Replies({})
      BY <1>0, <2>1, TickedNone DEF GuestUnregisters
    <3>2. {} \in SUBSET {s \in Scopes : MayBeOverdue(s)} /\ {ScopeOf(i)} \in SUBSET Scopes
      BY <1>0
    <3> QED BY <3>1, <3>2, EndedCallers
  <2>2. CASE GuestWaits(i) \/ \E w \in What : GuestCalls(i, w) \/ BridgeAnswers(i, w) \/ CallBudget(i, w)
    <3>1. reply' = reply /\ guests' = guests
      BY <2>2 DEF GuestWaits, GuestCalls, BridgeAnswers, CallBudget, kernelVars
    <3> QED BY <3>1, QuietCallers
  <2> QED BY <1>5, <2>1, <2>2 DEF RealmPosts
<1>6. ASSUME NEW x \in swaps, ReplaceGuest(x) PROVE ConfirmedStep /\ PendingStep
  <2>1. CASE Running(x.scope)
    BY <1>6, <2>1, ReplaceRenews, QuietCallers
  <2>2. CASE ~Running(x.scope)
    BY <1>6, <2>2, QuietCallers DEF ReplaceGuest, kernelVars
  <2> QED BY <2>1, <2>2
<1>7. CASE \E f \in Fetches : Answers(f) \/ FetchBudget(f)
  <2>1. reply' = reply /\ guests' = guests
    BY <1>7 DEF Answers, FetchBudget, kernelVars
  <2> QED BY <2>1, QuietCallers
<1>8. CASE UNCHANGED vars
  BY <1>8, QuietCallers DEF vars
<1> QED BY <1>1, <1>2, <1>3, <1>4, <1>5, <1>6, <1>7, <1>8 DEF Next

\* #576: each step that tells a confirmed caller ok leaves its record running, and no step
\* drops a caller that waits: it stays on its record's list until it is answered, but for a
\* record that the host page has ended.
THEOREM CallersKeptAlways == Spec => CallersAreKept
<1>1. IInv /\ [Next]_vars =>
        [\A c \in Callers : reply'[c] = "ok" /\ reply[c] # "ok" =>
           \E s \in Scopes : guests'[s].state = "running"
                             /\ (reply[c] = "waiting" => c \in guests[s].pending)]_vars
  BY CallersStep DEF ConfirmedStep
<1>2. IInv /\ [Next]_vars =>
        [\A s \in Scopes : \A c \in guests[s].pending :
           \/ c \in guests'[s].pending \/ reply'[c] # "waiting"
           \/ guests[s].state = "terminating" /\ guests'[s].state = "none"]_vars
  BY CallersStep DEF PendingStep
<1>3. Spec => ConfirmedOnRunningRealm
  BY <1>1, Inductive, PTL DEF Spec, ConfirmedOnRunningRealm
<1>4. Spec => PendingCallersKept
  BY <1>2, Inductive, PTL DEF Spec, PendingCallersKept
<1> QED BY <1>3, <1>4 DEF CallersAreKept
================================================================================
