------------------------------ MODULE MCStorage ------------------------------
(***************************************************************************)
(* What the worker keeps in files, records and URLs, for TLC: the keys of  *)
(* the routes it minted, the forms of those routes in a tab, the spool of  *)
(* request bodies, the download registry, the caches of guest realms, and  *)
(* the page cache.  They share no state, so a behaviour explores one of    *)
(* them, chosen initially.                                                 *)
(***************************************************************************)
EXTENDS RouteKeys, BodySpool, WorkerCaches, TLC

CONSTANTS r1, r2    \* two requests for pages

VARIABLES part,
          ring, dl, streams, severed, partials, pump, saved, stored, assembled,
          seq, begun, kills, stops,
          formKeys, storedKey, lost, prefix, loc, page, now, restarts, moves

downloadVars == <<ring, dl, streams, severed, partials, pump, saved, stored, assembled,
                  seq, begun, kills, stops>>

formVars == <<formKeys, storedKey, lost, prefix, loc, page, now, restarts, moves>>

Registry == INSTANCE Downloads WITH
  files <- begun, MaxIds <- 2, Sizes <- {2}, Ring <- 2, ResumeMax <- 3, Budget <- 3,
  MaxFiles <- 2, MaxKills <- 1, MaxStops <- 1

TwoRequests == {r1, r2}
Alike == Permutations(TwoRequests)

\* the tab at the first site was opened by a window of the host
OpenedBy == [o \in {"a", "b"} |-> IF o = "a" THEN "window" ELSE "none"]
Forms == INSTANCE RouteForms WITH
  keys <- formKeys, stored <- storedKey, Sites <- {"a", "b"}, Keys <- {"k1", "k2"},
  Window <- OpenedBy, Hops <- 1, Peels <- 2, Ttl <- 1,
  MaxTime <- 2, MaxRestarts <- 1, MaxParams <- 2, MaxMoves <- 2

StorageInit ==
  /\ part \in {"keys", "spool", "downloads", "caches", "pages", "forms"}
  /\ KeysInit /\ SpoolInit /\ Registry!Init /\ GuestInit /\ PagesInit
  /\ Forms!Init /\ (part = "forms" \/ formKeys = <<>>)
  /\ part = "keys" \/ route = NoKey

StorageNext ==
  \/ part = "keys" /\ KeysNext /\ UNCHANGED <<part, spoolVars, downloadVars, guestVars, pageVars, formVars>>
  \/ part = "spool" /\ SpoolNext /\ UNCHANGED <<part, keyVars, downloadVars, guestVars, pageVars, formVars>>
  \/ part = "downloads" /\ Registry!Next /\ UNCHANGED <<part, keyVars, spoolVars, guestVars, pageVars, formVars>>
  \/ part = "caches" /\ GuestNext /\ UNCHANGED <<part, keyVars, spoolVars, downloadVars, pageVars, formVars>>
  \/ part = "pages" /\ PagesNext /\ UNCHANGED <<part, keyVars, spoolVars, downloadVars, guestVars, formVars>>
  \/ part = "forms" /\ Forms!Next
     /\ UNCHANGED <<part, keyVars, spoolVars, downloadVars, guestVars, pageVars>>

StorageSpec ==
  StorageInit /\ [][StorageNext]_<<part, keyVars, spoolVars, downloadVars, guestVars, pageVars, formVars>>

\* The types of the other parts; a guest origin's caches keep to the limits that are
\* counted in caches and entries.
RecordsTypeOK == KeysTypeOK /\ SpoolTypeOK /\ Registry!TypeOK /\ GuestTypeOK

\* RouteKeys and RouteForms, #55: no restart strands a route that was handed out, and
\* whatever form a route takes, it names its page and that page's site alone; with the
\* types, among them the limits of the guest caches.
RecordsAreSound ==
  /\ RecordsTypeOK /\ RoutesStayDecodable
  /\ Forms!LocationNamesPage /\ Forms!QueryFormsAreClean /\ Forms!HandleKeepsToItsSite

\* Downloads: the bytes handed over are the file's, and the buffers together keep to
\* their budget.
DownloadsAreSound == [][Registry!ArtifactIsTheFile']_<<part, keyVars, downloadVars>> /\ Registry!BufferedWithinBudget
=============================================================================
