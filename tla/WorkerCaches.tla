------------------------------ MODULE WorkerCaches ------------------------------
(***************************************************************************)
(* The page cache of request.ts: cache first for proxied GETs, stale while *)
(* revalidate, and a serial chain of mutations beside puts that are not in *)
(* the chain.                                                              *)
(*                                                                         *)
(* An entry weighs one unit and is a document or a script.  A stored body  *)
(* is raw, or composed for a page's script or for a worker (its prelude    *)
(* first).  While the jar holds cookies of an account, upstream answers    *)
(* with a page of that account.  Vary and Range are not modelled: each     *)
(* only turns a hit into a miss or a slice.                                *)
(*                                                                         *)
(* And the CacheStorage of the guest service workers of one origin         *)
(* (guestCaches of kernel/guests/executor.ts).                             *)
(***************************************************************************)
EXTENDS Integers, Sequences, FiniteSets, SequencesExt, FiniteSetsExt

CONSTANTS
  Fetches,               \* requests for pages and scripts
  Documents, Scripts,    \* the URLs
  Revalidated,           \* those whose answers may say no-cache
  PageLimit, TotalMax,       \* ZL_PAGE_LIMIT, ZL_PAGE_TOTAL_MAX
  MaxLogouts             \* bound: sign-outs, and sign-ins before them

ASSUME PagesAssumption ==
  IsFiniteSet(Fetches) /\ PageLimit \in Nat /\ TotalMax \in Nat /\ MaxLogouts \in Nat

PageUrls == Documents \cup Scripts
Nil == "none"

VARIABLES
  entry,      \* by URL: the stored page, or Missing
  reserved,   \* pageCacheReservedBytes
  disabled,   \* pageCacheDisabled
  chain,      \* pageCacheMutation: the jobs queued, the first one running
  rows,       \* what the running job has listed
  signedIn,   \* the jar holds cookies of the account
  logouts,
  phase, rq,     \* by request: its progress, and its URL and destination
  got,        \* what it will store
  tainted,    \* it was sent with the cookies of the account
  crossed,    \* the account was signed out while such a response was on its way
  served      \* the form of the body its page received from the cache

pageVars == <<entry, reserved, disabled, chain, rows, signedIn, logouts, phase, rq, got, tainted,
          crossed, served>>

BodyForms == {"raw", "script", "worker", "mixed"}
Page == [form : BodyForms, account : BOOLEAN, crossed : BOOLEAN, stale : BOOLEAN,
         noCache : BOOLEAN]
Missing == [form |-> Nil, account |-> FALSE, crossed |-> FALSE, stale |-> FALSE,
            noCache |-> FALSE]
Idle == [key |-> Nil, dest |-> Nil]

PagesInit ==
  /\ entry = [k \in PageUrls |-> Missing] /\ reserved = 0 /\ disabled = FALSE
  /\ chain = <<>> /\ rows = {} /\ signedIn = FALSE /\ logouts = 0
  /\ phase = [r \in Fetches |-> "idle"] /\ rq = [r \in Fetches |-> Idle]
  /\ got = [r \in Fetches |-> Missing]
  /\ tainted = [r \in Fetches |-> FALSE] /\ crossed = [r \in Fetches |-> FALSE]
  /\ served = [r \in Fetches |-> Nil]

Present == {k \in PageUrls : entry[k] # Missing}

--------------------------------------------------------------------------------
(* Bodies. *)

\* a script may be asked for by a page, by a worker, or by a navigation
Destinations(k) == IF k \in Scripts THEN {"script", "worker", "document"} ELSE {"document"}

\* what a fresh response is stored as: composed for the destination, or raw
Composed(k, dest) == IF k \in Scripts /\ dest # "document" THEN dest ELSE "raw"

\* Mutant: a hit is served as it is.
ServedRaw(form, dest) == form

\* a hit for a page's script takes the passes again, which change nothing in a script;
\* every other hit of a script is served as it is
Served(form, dest) ==
  IF dest # "script" THEN form
  ELSE CASE form = "raw" -> "script" [] form = "worker" -> "mixed" [] OTHER -> form

\* cacheRefreshSkipsEntry: an entry asked for as code is dropped, not overwritten
Skips(k, dest) == k \in Scripts /\ dest # "document"

--------------------------------------------------------------------------------
(* The chain of mutations. *)

Job(kind, r) == [kind |-> kind, of |-> r]
Queue(job) == chain' = Append(chain, job)

\* a request is over; a store gives back what it reserved, whatever became of it
Finish(r) ==
  /\ phase' = [phase EXCEPT ![r] = "idle"] /\ rq' = [rq EXCEPT ![r] = Idle]
  /\ got' = [got EXCEPT ![r] = Missing]
  /\ tainted' = [tainted EXCEPT ![r] = FALSE] /\ crossed' = [crossed EXCEPT ![r] = FALSE]
  /\ served' = [served EXCEPT ![r] = Nil]
  /\ reserved' = IF phase[r] \in {"putting", "closing"} THEN reserved - 1 ELSE reserved

Goes(r, where) ==
  /\ phase' = [phase EXCEPT ![r] = where]
  /\ UNCHANGED <<rq, tainted, crossed, served, reserved>>

\* the first job lists the entries
Lists ==
  /\ chain # <<>> /\ Head(chain).kind \in {"reserve", "clear"} /\ rows = {}
  /\ Present # {} /\ rows' = Present
  /\ UNCHANGED <<entry, reserved, disabled, chain, signedIn, logouts, phase, rq, got, tainted,
                 crossed, served>>

Listed == rows # {} \/ Present = {}

\* reservePageCacheSpace: others' entries of the list are evicted until the new one
\* fits the limit and the total with all reservations; which entry was used least
\* recently is left open
Room(others) == Cardinality(others) + 1 <= PageLimit /\ reserved + 1 + Cardinality(others) <= TotalMax

Reserves ==
  /\ chain # <<>> /\ Head(chain).kind = "reserve" /\ Listed
  /\ LET r == Head(chain).of
         others == rows \ {rq[r].key}
     IN IF disabled \/ ~Room({})
          THEN Finish(r) /\ UNCHANGED <<entry, disabled>>
          ELSE \E victims \in SUBSET others :
                 /\ Room(others \ victims)
                 /\ \A v \in victims : ~Room(others \ (victims \ {v}))
                 /\ \/ /\ victims \subseteq Present        \* every delete removed something
                       /\ entry' = [k \in PageUrls |-> IF k \in victims THEN Missing ELSE entry[k]]
                       /\ phase' = [phase EXCEPT ![r] = "putting"] /\ reserved' = reserved + 1
                       /\ UNCHANGED <<disabled, rq, got, tainted, crossed, served>>
                    \/ /\ victims # {}                     \* an eviction failed
                       /\ disabled' = TRUE /\ entry' = entry /\ Finish(r)
  /\ chain' = Tail(chain) /\ rows' = {}
  /\ UNCHANGED <<signedIn, logouts>>

\* deletePageCacheEntry, for a request that drops a composed entry; one that came for a
\* no-cache entry goes on to the live path
Deletes ==
  /\ chain # <<>> /\ Head(chain).kind = "delete"
  /\ LET r == Head(chain).of IN
       /\ \/ /\ entry[rq[r].key] # Missing
             /\ entry' = [entry EXCEPT ![rq[r].key] = Missing] /\ disabled' = disabled
          \/ disabled' = TRUE /\ entry' = entry
       /\ got' = got
       /\ Goes(r, IF phase[r] = "dropping" THEN "live"
                   ELSE IF got[r] # Missing THEN "healing" ELSE "dropped")
  /\ chain' = Tail(chain) /\ rows' = {}
  /\ UNCHANGED <<signedIn, logouts>>

\* pageCacheClear
Clears ==
  /\ chain # <<>> /\ Head(chain).kind = "clear" /\ Listed
  /\ entry' = [k \in PageUrls |-> IF k \in rows THEN Missing ELSE entry[k]]
  /\ chain' = Tail(chain) /\ rows' = {}
  /\ UNCHANGED <<reserved, disabled, signedIn, logouts, phase, rq, got, tainted, crossed, served>>

--------------------------------------------------------------------------------
(* A request. *)

\* a request that carries credentials never matches (requestHasCredentials)
Hit(k) == ~signedIn /\ entry[k] # Missing

Refreshing(k) == \E q \in Fetches : rq[q].key = k /\ phase[q] = "refreshing"

\* pageCacheMatch
Ask(r) ==
  /\ phase[r] = "idle"
  /\ \E k \in PageUrls : \E dest \in Destinations(k) :
       LET hit == entry[k]
           code == Skips(k, dest)
           heals == dest = "script" /\ Served(hit.form, dest) # hit.form
           next == IF ~Hit(k) THEN "live"
                   ELSE IF hit.noCache THEN IF code THEN "dropping" ELSE "probing"
                   ELSE IF hit.stale THEN IF code THEN "stale"
                                          ELSE IF Refreshing(k) THEN "dropped" ELSE "refreshing"
                   ELSE IF heals THEN "healing" ELSE "dropped"
       IN /\ rq' = [rq EXCEPT ![r] = [key |-> k, dest |-> dest]]
          /\ phase' = [phase EXCEPT ![r] = next]
          /\ tainted' = [tainted EXCEPT ![r] = next = "live" /\ signedIn]
          /\ served' = [served EXCEPT ![r] =
               IF Hit(k) /\ ~hit.noCache THEN Served(hit.form, dest) ELSE Nil]
          /\ got' = [got EXCEPT ![r] =
               IF Hit(k) /\ heals /\ next # "dropping" THEN [hit EXCEPT !.form = Served(hit.form, dest)] ELSE Missing]
          /\ IF next \in {"dropping", "stale"} THEN Queue(Job("delete", r)) ELSE chain' = chain
  /\ UNCHANGED <<entry, reserved, disabled, rows, signedIn, logouts, crossed>>

\* the page has its body and nothing is left to do
Done(r) ==
  /\ phase[r] = "dropped" /\ Finish(r)
  /\ UNCHANGED <<entry, disabled, chain, rows, signedIn, logouts>>

\* a refresh or a revalidation sends the cookies of the jar as it is then
Refetches(r) ==
  /\ phase[r] \in {"refreshing", "probing"}
  /\ tainted' = [tainted EXCEPT ![r] = signedIn]
  /\ phase' = [phase EXCEPT ![r] = IF phase[r] = "probing" THEN "probed" ELSE "refreshed"]
  /\ UNCHANGED <<entry, reserved, disabled, chain, rows, signedIn, logouts, rq, got, crossed,
                 served>>

\* pageCacheStore: not once disabled, nor while the request carries credentials
MayStore(r) == ~disabled /\ ~signedIn

\* a response that is stored waits for its reservation
Stores(r, page) ==
  IF MayStore(r)
    THEN /\ got' = [got EXCEPT ![r] = page] /\ Goes(r, "reserving") /\ Queue(Job("reserve", r))
    ELSE Finish(r) /\ chain' = chain

Answer(form, r, noCache) ==
  [form |-> form, account |-> tainted[r], crossed |-> crossed[r], stale |-> FALSE,
   noCache |-> noCache]

\* the live response, or none, or one that may not be stored
Answered(r) ==
  /\ phase[r] = "live"
  /\ \/ \E noCache \in {FALSE, rq[r].key \in Revalidated} :
          Stores(r, Answer(Composed(rq[r].key, rq[r].dest), r, noCache))
     \/ Finish(r) /\ chain' = chain
  /\ UNCHANGED <<entry, disabled, rows, signedIn, logouts>>

\* the repaired script is stored again
Heals(r) ==
  /\ phase[r] = "healing" /\ Stores(r, got[r])
  /\ UNCHANGED <<entry, disabled, rows, signedIn, logouts>>

\* a refresh or a revalidation ends: a fresh body is stored raw, a 304 bumps the entry,
\* a failure leaves the stale copy, or sends the revalidation to the live path
Refreshed(r) ==
  /\ phase[r] \in {"refreshed", "probed"}
  /\ \/ Stores(r, Answer("raw", r, entry[rq[r].key].noCache))
     \/ entry[rq[r].key] # Missing /\ chain' = chain
          /\ got' = [got EXCEPT ![r] = [entry[rq[r].key] EXCEPT !.stale = FALSE]]
          /\ Goes(r, "bumping")
     \/ entry[rq[r].key] = Missing /\ Finish(r) /\ chain' = chain
     \/ phase[r] = "refreshed" /\ Finish(r) /\ chain' = chain
     \/ phase[r] = "probed" /\ Goes(r, "live") /\ UNCHANGED <<got, chain>>
  /\ UNCHANGED <<entry, disabled, rows, signedIn, logouts>>

\* bumpStoredEntry puts the body it matched back, outside the chain
Bumps(r) ==
  /\ phase[r] = "bumping" /\ entry' = [entry EXCEPT ![rq[r].key] = got[r]] /\ Finish(r)
  /\ UNCHANGED <<disabled, chain, rows, signedIn, logouts>>

\* the body is put, outside the chain, or the storage is full or the body too large
Puts(r) ==
  /\ phase[r] = "putting" /\ phase' = [phase EXCEPT ![r] = "closing"]
  /\ entry' = [entry EXCEPT ![rq[r].key] = got[r]]
  /\ UNCHANGED <<reserved, disabled, chain, rows, signedIn, logouts, rq, got, tainted, crossed,
                 served>>

PutFails(r) ==
  /\ phase[r] = "putting" /\ Finish(r)
  /\ UNCHANGED <<entry, disabled, chain, rows, signedIn, logouts>>

Closes(r) ==
  /\ phase[r] = "closing" /\ Finish(r)
  /\ UNCHANGED <<entry, disabled, chain, rows, signedIn, logouts>>

--------------------------------------------------------------------------------
(* Others. *)

SignIn ==
  /\ ~signedIn /\ logouts < MaxLogouts /\ signedIn' = TRUE
  /\ UNCHANGED <<entry, reserved, disabled, chain, rows, logouts, phase, rq, got, tainted,
                 crossed, served>>

\* the jar is cleared, and then the page cache (control.ts zl:jarClear)
SignOut ==
  /\ signedIn /\ logouts < MaxLogouts /\ logouts' = logouts + 1
  /\ signedIn' = FALSE /\ Queue(Job("clear", Nil))
  /\ crossed' = [r \in Fetches |-> crossed[r] \/ tainted[r]]
  /\ UNCHANGED <<entry, reserved, disabled, rows, phase, rq, got, tainted, served>>

\* the age of a no-cache entry is never asked for
GrowsStale(k) ==
  /\ entry[k] # Missing /\ ~entry[k].stale /\ ~entry[k].noCache
  /\ entry' = [entry EXCEPT ![k].stale = TRUE]
  /\ UNCHANGED <<reserved, disabled, chain, rows, signedIn, logouts, phase, rq, got, tainted,
                 crossed, served>>

PagesNext ==
  \/ Lists \/ Reserves \/ Deletes \/ Clears \/ SignIn \/ SignOut
  \/ \E k \in PageUrls : GrowsStale(k)
  \/ \E r \in Fetches :
       \/ Ask(r) \/ Done(r) \/ Refetches(r) \/ Answered(r) \/ Heals(r) \/ Refreshed(r)
       \/ Bumps(r) \/ Puts(r) \/ PutFails(r) \/ Closes(r)

PagesSpec == PagesInit /\ [][PagesNext]_pageVars

--------------------------------------------------------------------------------
(* Properties. *)

PagesTypeOK ==
  /\ \A k \in PageUrls : entry[k] \in Page \cup {Missing}
  /\ reserved \in 0..TotalMax /\ disabled \in BOOLEAN /\ signedIn \in BOOLEAN
  /\ rows \subseteq PageUrls /\ Len(chain) <= Cardinality(Fetches) + MaxLogouts
  /\ \A r \in Fetches :
       /\ rq[r] = Idle \/ (rq[r].key \in PageUrls /\ rq[r].dest \in Destinations(rq[r].key))
       /\ got[r] \in Page \cup {Missing} /\ served[r] \in BodyForms \cup {Nil}

\* The bytes reserved are those of the stores between their reservation and their end,
\* on every way out of a store.
ReservedIsInFlight ==
  reserved = Cardinality({r \in Fetches : phase[r] \in {"putting", "closing"}})

\* #179: a page of an account is in the shared cache only if the account was signed out
\* while that response was on its way.
AccountPagesStayOut == \A k \in PageUrls : entry[k].account => entry[k].crossed

\* #134: a page's script that comes from the cache has been through the passes.
ScriptsAreTransformed ==
  \A r \in Fetches : rq[r].dest = "script" => served[r] \in {Nil, "script", "mixed"}

\* #179, #134: what is reserved is what is being stored, the pages of an account stay
\* out, and a script that is served has been through the passes; with the types.
CachesAreSound == PagesTypeOK /\ ReservedIsInFlight /\ AccountPagesStayOut /\ ScriptsAreTransformed

\* #35: a worker that comes from the cache has its prelude (the comment on the hits of
\* worker destinations: their cached copies are composed).
WorkersAreComposed == \A r \in Fetches : rq[r].dest = "worker" => served[r] \in {Nil, "worker"}

\* #548: the entry bound stays hard.
EntryBoundHard == Cardinality(Present) <= PageLimit

--------------------------------------------------------------------------------
(* The CacheStorage of one guest origin: caches by name, oldest entry first, and *)
(* the running byte count that its quota is held against.  Reading operations     *)
(* change nothing and are left out; nothing else touches the stores, the end of a *)
(* realm neither.                                                                 *)

CONSTANTS
  Names, GuestUrls,
  Sizes,        \* byte counts of entries, url and status text included
  MaxCaches,    \* GUEST_CACHE_MAX_CACHES
  MaxEntries,   \* GUEST_CACHE_MAX_ENTRIES
  MaxBytes      \* GUEST_CACHE_MAX_BYTES

VARIABLES
  stores,       \* cacheStores: the open caches
  bytes         \* cacheBytes

guestVars == <<stores, bytes>>

GuestInit == stores = << >> /\ bytes = 0

BytesOf(entries) == FoldSeq(LAMBDA e, sum : e.bytes + sum, 0, entries)
Held == MapThenSumSet(LAMBDA n : BytesOf(stores[n]), DOMAIN stores)
Less(freed) == IF bytes > freed THEN bytes - freed ELSE 0
Cache(name, entries) == [n \in DOMAIN stores \union {name} |-> IF n = name THEN entries ELSE stores[n]]
Other(entries, url) == SelectSeq(entries, LAMBDA e : e.url # url)
EntriesAt(entries, url) == SelectSeq(entries, LAMBDA e : e.url = url)

CacheOpens(name) ==
  /\ name \notin DOMAIN stores /\ Len(SetToSeq(DOMAIN stores)) < MaxCaches
  /\ stores' = Cache(name, <<>>)
  /\ UNCHANGED bytes

CacheDeletes(name) ==
  /\ name \in DOMAIN stores
  /\ stores' = [n \in DOMAIN stores \ {name} |-> stores[n]]
  /\ bytes' = Less(BytesOf(stores[name]))

EntryDeletes(name, url) ==
  /\ name \in DOMAIN stores /\ EntriesAt(stores[name], url) # <<>>
  /\ stores' = Cache(name, Other(stores[name], url))
  /\ bytes' = Less(BytesOf(EntriesAt(stores[name], url)))

\* The oldest entries that go: as many as leave room for one more, and for its
\* bytes by the running count.
Evicted(entries, size, count) ==
  LET fits(k) == /\ Len(entries) - k < MaxEntries
                 /\ count - BytesOf(SubSeq(entries, 1, k)) + size <= MaxBytes
      enough == {k \in 0..Len(entries) : fits(k)}
  IN IF enough = {} THEN Len(entries) ELSE Min(enough)

\* An entry that does not fit at last is refused; what was evicted is gone.
Put(name, url, size) ==
  /\ name \in DOMAIN stores
  /\ LET others == Other(stores[name], url)
         count == Less(BytesOf(EntriesAt(stores[name], url)))
         k == Evicted(others, size, count)
         freed == BytesOf(SubSeq(others, 1, k))
         left == IF count > freed THEN count - freed ELSE 0
         kept == SubSeq(others, k + 1, Len(others))
     IN /\ stores' = Cache(name, IF left + size > MaxBytes THEN kept
                                 ELSE Append(kept, [url |-> url, bytes |-> size]))
        /\ bytes' = left

GuestNext ==
  \E name \in Names :
    \/ CacheOpens(name) \/ CacheDeletes(name)
    \/ \E url \in GuestUrls :
         \/ EntryDeletes(name, url)
         \/ \E size \in Sizes : Put(name, url, size)

GuestSpec == GuestInit /\ [][GuestNext]_guestVars

-----------------------------------------------------------------------------
(* Properties *)

\* Types, and the two limits that are counted in entries.
GuestTypeOK ==
  /\ DOMAIN stores \subseteq Names /\ Len(SetToSeq(DOMAIN stores)) <= MaxCaches
  /\ \A name \in DOMAIN stores :
       /\ Len(stores[name]) <= MaxEntries
       /\ \A i, j \in DOMAIN stores[name] : stores[name][i].url = stores[name][j].url => i = j
  /\ bytes \in 0..MaxBytes

\* executor.ts 819: all storage is quota-bounded.
QuotaHolds == Held <= MaxBytes
================================================================================
