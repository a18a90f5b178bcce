------------------------------ MODULE MCTransport ------------------------------
(* Instances of Transport for TLC: which requests a run draws from. *)
EXTENDS Transport, TLC

Kind(route, idem, replay, iso) ==
  [route |-> route, idempotent |-> idem, replayableBody |-> replay, isolated |-> iso]

Get       == Kind("direct", TRUE, TRUE, FALSE)
Post      == Kind("direct", FALSE, TRUE, FALSE)
ListLoad  == Kind("direct", TRUE, TRUE, TRUE)
AltGet    == Kind("alt", TRUE, TRUE, FALSE)
AltUpload == Kind("alt", TRUE, FALSE, FALSE)
RelPost   == Kind("relay", FALSE, TRUE, FALSE)

\* one client, one reset: reads, writes and the isolated list load
DirectKinds == {Get, Post, ListLoad}
\* every policy route and, where it declines, the fallback behind it
RouteKinds  == {AltUpload, AltGet, RelPost}
WriteKinds  == {Get, Post}
Symmetry    == Permutations(Reqs)
================================================================================
