------------------------------ MODULE ExtStorage ------------------------------
(***************************************************************************)
(* One browser.storage area of an extension (extensions/storage.ts): a map *)
(* in memory over records of IndexedDB, with its quota, the limits of the  *)
(* sync area and the change listeners.  A value is the call that set it    *)
(* and its size.  Calls overlap at the opening of the database and at each *)
(* put; the puts of one store run in the order they were made.  The        *)
(* session area, whose calls never wait, is left out.                      *)
(***************************************************************************)
EXTENDS Naturals, FiniteSets, Sequences, FiniteSetsExt

CONSTANTS Keys,
          AreaCalls,  \* the numbers of the calls, from 1 on, made in their order
          Sizes,
          Quota,      \* quotaBytes
          MaxItem,    \* SYNC_QUOTA_BYTES_PER_ITEM
          MaxItems,   \* SYNC_MAX_ITEMS
          MaxWrites,  \* the write operations the sync area's limiter admits
          MaxReloads  \* bound: restarts of the worker

\* 0 numbers no call: it is what an absent key has.
ASSUME AreaAssumption ==
  IsFiniteSet(Keys) /\ AreaCalls \subseteq Nat \ {0} /\ Sizes \subseteq Nat

VARIABLES
  area,       \* "local" or "sync"
  mem,        \* the values in memory; Absent where there is none
  records,    \* the records of the store
  bytesInUse,
  admitted,   \* the operations the limiter counts
  accesses,   \* the calls
  putting,    \* the puts under way, in their order
  unwritten,  \* keys whose last put failed, for the properties
  doubt,      \* a call threw after it changed the memory, for the properties
  news,       \* the value of each key that the listeners were told last
  reloads

areaVars == <<area, mem, records, bytesInUse, admitted, accesses, putting, unwritten, doubt,
              news, reloads>>

Absent == [by |-> 0, size |-> 0]
Idle == [op |-> "none", items |-> <<>>, step |-> "free", wrote |-> {}]
Under(c) == accesses[c].step \in {"going", "putting"}
Bytes(m) == MapThenSumSet(LAMBDA k : m[k].size, Keys)

\* The area as load leaves it: the store has nothing yet.
AreaInit ==
  /\ area \in {"local", "sync"}
  /\ mem = [k \in Keys |-> Absent] /\ records = mem
  /\ bytesInUse = Bytes(records) /\ admitted = 0
  /\ accesses = [c \in AreaCalls |-> Idle] /\ putting = <<>>
  /\ unwritten = {} /\ doubt = FALSE /\ news = mem /\ reloads = 0

-----------------------------------------------------------------------------
Lists(S) == {<<x>> : x \in S} \cup {<<x, y>> : x, y \in S}
Items == [key : Keys, size : Sizes]
Asks(c) ==
  /\ accesses[c].step = "free" /\ \A b \in AreaCalls : b < c => accesses[b].step # "free"
  /\ \/ \E items \in Lists(Items) :
          /\ Len(items) = 2 => items[1].key # items[2].key
          /\ accesses' = [accesses EXCEPT ![c] = [Idle EXCEPT !.op = "set", !.items = items,
                                                        !.step = "opening"]]
     \/ \E keys \in Lists(Keys) :
          accesses' = [accesses EXCEPT ![c] = [Idle EXCEPT !.op = "remove", !.step = "opening",
            !.items = [i \in 1..Len(keys) |-> [key |-> keys[i], size |-> 0]]]]
  /\ UNCHANGED <<area, mem, records, bytesInUse, admitted, putting, unwritten, doubt, news,
                 reloads>>

Throws(c) ==
  /\ accesses' = [accesses EXCEPT ![c].step = "thrown", ![c].items = <<>>]
  /\ doubt' = (doubt \/ accesses[c].wrote # {})

(* openDb has answered, or failed.  The limits of sync are checked before anything is  *)
(* changed; a removal counts as one operation, a set each of its items.     *)
Named(c) == {accesses[c].items[i].key : i \in 1..Len(accesses[c].items)}
OverLimit(c) ==
  /\ area = "sync"
  /\ IF accesses[c].op = "set"
     THEN \/ Cardinality({k \in Keys : mem[k] # Absent} \cup Named(c)) > MaxItems
          \/ \E i \in 1..Len(accesses[c].items) : accesses[c].items[i].size > MaxItem
     ELSE admitted >= MaxWrites
DbOpened(c) ==
  /\ accesses[c].step = "opening"
  /\ \/ Throws(c) /\ UNCHANGED admitted
     \/ /\ ~OverLimit(c)
        /\ accesses' = [accesses EXCEPT ![c].step = "going"]
        /\ admitted' = IF area = "sync" /\ accesses[c].op = "remove" THEN admitted + 1 ELSE admitted
        /\ UNCHANGED doubt
  /\ UNCHANGED <<area, mem, records, bytesInUse, putting, unwritten, news, reloads>>

(* The memory changes before its put is made, so the last put of a key      *)
(* carries what the memory has.                                             *)
Writes(c, key, val) ==
  /\ mem' = [mem EXCEPT ![key] = val]
  /\ putting' = Append(putting, [by |-> c, key |-> key, val |-> val])
  /\ accesses' = [accesses EXCEPT ![c].step = "putting", ![c].wrote = @ \cup {<<key, val>>}]

\* The next item of a set; the quota is held against the last recount.
Sets(c) ==
  LET it == Head(accesses[c].items)
  IN /\ accesses[c].op = "set" /\ accesses[c].step = "going" /\ accesses[c].items # <<>>
     /\ admitted' = IF area = "sync" /\ admitted < MaxWrites THEN admitted + 1 ELSE admitted
     /\ IF \/ area = "sync" /\ admitted >= MaxWrites
           \/ bytesInUse + it.size > Quota + mem[it.key].size
        THEN Throws(c) /\ UNCHANGED <<mem, putting>>
        ELSE Writes(c, it.key, [by |-> c, size |-> it.size]) /\ UNCHANGED doubt
     /\ UNCHANGED <<area, records, bytesInUse, unwritten, news, reloads>>

\* A removal that leaves the store to the next set.
DeletesInMemory(c) ==
  /\ accesses[c].op = "remove" /\ accesses[c].step = "going" /\ accesses[c].items # <<>>
  /\ mem' = [mem EXCEPT ![Head(accesses[c].items).key] = Absent]
  /\ accesses' = [accesses EXCEPT ![c].items = Tail(@)]
  /\ UNCHANGED <<area, records, bytesInUse, admitted, putting, unwritten, doubt, news, reloads>>

\* The next key of a removal; the record becomes null, which load passes over.
Deletes(c) ==
  LET key == Head(accesses[c].items).key
  IN /\ accesses[c].op = "remove" /\ accesses[c].step = "going" /\ accesses[c].items # <<>>
     /\ IF mem[key] = Absent
        THEN accesses' = [accesses EXCEPT ![c].items = Tail(@)] /\ UNCHANGED <<mem, putting>>
        ELSE Writes(c, key, Absent)
     /\ UNCHANGED <<area, records, bytesInUse, admitted, unwritten, doubt, news, reloads>>

PutEnds(ok) ==
  LET p == Head(putting)
  IN /\ putting # <<>> /\ putting' = Tail(putting)
     /\ IF ok
        THEN /\ records' = [records EXCEPT ![p.key] = p.val] /\ unwritten' = unwritten \ {p.key}
             /\ accesses' = [accesses EXCEPT ![p.by].step = "going", ![p.by].items = Tail(@)]
             /\ UNCHANGED doubt
        ELSE Throws(p.by) /\ unwritten' = unwritten \cup {p.key} /\ UNCHANGED records
     /\ UNCHANGED <<area, mem, bytesInUse, admitted, news, reloads>>

\* recount, and the listeners hear what the call changed.
CallEnds(c) ==
  /\ accesses[c].step = "going" /\ accesses[c].items = <<>>
  /\ accesses' = [accesses EXCEPT ![c].step = "done"]
  /\ bytesInUse' = Bytes(mem) /\ doubt' = FALSE
  /\ news' = [k \in Keys |-> IF \E w \in accesses[c].wrote : w[1] = k
                              THEN (CHOOSE w \in accesses[c].wrote : w[1] = k)[2] ELSE news[k]]
  /\ UNCHANGED <<area, mem, records, admitted, putting, unwritten, reloads>>

\* admit prunes what its windows have passed.
WindowPasses ==
  /\ admitted > 0 /\ admitted' = 0
  /\ UNCHANGED <<area, mem, records, bytesInUse, accesses, putting, unwritten, doubt, news,
                 reloads>>

(* The worker ends, and the next context loads the area.  Puts under way    *)
(* end before that or not at all.                                           *)
Restarts ==
  /\ reloads < MaxReloads /\ reloads' = reloads + 1
  /\ mem' = records /\ bytesInUse' = Bytes(records) /\ admitted' = 0 /\ news' = records
  /\ accesses' = [c \in AreaCalls |-> IF accesses[c].step \in {"free", "done", "thrown"}
                               THEN accesses[c] ELSE [accesses[c] EXCEPT !.step = "lost"]]
  /\ putting' = <<>> /\ unwritten' = {} /\ doubt' = FALSE
  /\ UNCHANGED <<area, records>>

AreaNext ==
  \/ \E c \in AreaCalls : Asks(c) \/ DbOpened(c) \/ Sets(c) \/ Deletes(c) \/ CallEnds(c)
  \/ \E ok \in BOOLEAN : PutEnds(ok)
  \/ WindowPasses \/ Restarts

AreaSpec == AreaInit /\ [][AreaNext]_areaVars

-----------------------------------------------------------------------------
(* What the memory has is in the store, unless its last put is still under  *)
(* way or failed: so what a call has answered survives a restart.  And the  *)
(* byte count the quota uses is exact whenever no call is in the middle of  *)
(* its items and none gave up there since the last recount.                 *)
StorageIsKept ==
  /\ \A k \in Keys : mem[k] # records[k] =>
       k \in unwritten \/ \E i \in 1..Len(putting) : putting[i].key = k /\ putting[i].val = mem[k]
  /\ ~doubt /\ (\A c \in AreaCalls : ~Under(c)) => bytesInUse = Bytes(mem)
=============================================================================
