---------------------------- MODULE MCWispServer ----------------------------
(***************************************************************************)
(* Both halves of the wisp server for TLC.  A session that the streams     *)
(* half runs is one that the admission half serves; beyond that the two    *)
(* share no state, so a behaviour explores one of them, chosen initially.  *)
(***************************************************************************)
EXTENDS WispServer

VARIABLE half

ServerInit ==
  /\ half \in {"admission", "streams"}
  /\ Init /\ StreamsInit
  /\ half = "streams" => required = {}
  /\ half = "admission" => \A s \in Sessions : sess[s].v2

ServerNext ==
  \/ half = "admission" /\ Next /\ UNCHANGED <<half, streamVars>>
  \/ half = "streams" /\ StreamsNext /\ UNCHANGED <<half, vars>>

ServerSpec == ServerInit /\ [][ServerNext]_<<half, vars, streamVars>>
FairServerSpec == ServerSpec /\ Fairness
=============================================================================
