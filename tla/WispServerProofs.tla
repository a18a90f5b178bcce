--------------------------- MODULE WispServerProofs ---------------------------
(***************************************************************************)
(* Proofs about the two halves of the wisp server, for any number of       *)
(* connections, addresses, sessions, relays and chunks, any limits and any *)
(* threshold.                                                              *)
(*                                                                         *)
(* Admission.  The two counts are an invariant by themselves: every action *)
(* moves one connection, so it changes each count by whether that          *)
(* connection held the slot or the address before, and holds it after.     *)
(* The counts also show that a guard's drop never takes a count below      *)
(* zero.                                                                   *)
(*                                                                         *)
(* Streams.  The accounts are exact, whichever thread closes, settles,     *)
(* discharges or aborts.  StreamsIInv says of each relay what it holds and *)
(* is charged for by its place in the code, and of the two shared counters *)
(* what they count.                                                        *)
(***************************************************************************)
EXTENDS WispServer, FiniteSetTheorems, TLAPS

------------------------------------------------------------------------------
(* Admission: what a connection adds to the counts. *)

ConnState == [phase: Phases, ip: Ips, peer: Ips, v2: BOOLEAN, verified: BOOLEAN]

\* what one connection adds to the count of slots, and to that of an address
Slot(x) == IF x.phase \in HoldsSlot THEN 1 ELSE 0
Share(x, i) == IF x.phase \in HoldsIp /\ x.ip = i THEN 1 ELSE 0

--------------------------------------------------------------------------------
(* The counts. *)

\* two sets that differ in one element at most
LEMMA OneChange ==
  ASSUME NEW S, NEW T, NEW c, IsFiniteSet(S), S \ {c} = T \ {c}
  PROVE  /\ Cardinality(S) \in Nat
         /\ (c \in S <=> c \in T) => Cardinality(T) = Cardinality(S)
         /\ c \in S /\ c \notin T => Cardinality(T) = Cardinality(S) - 1
         /\ c \notin S /\ c \in T => Cardinality(T) = Cardinality(S) + 1
<1>1. Cardinality(S) \in Nat
  BY FS_CardinalityType
<1>2. CASE c \in S <=> c \in T
  <2>1. S = T
    BY <1>2
  <2> QED BY <1>1, <1>2, <2>1
<1>3. CASE c \in S /\ c \notin T
  <2>1. T = S \ {c}
    BY <1>3
  <2> QED BY <1>1, <1>3, <2>1, FS_RemoveElement
<1>4. CASE c \notin S /\ c \in T
  <2>1. T = S \cup {c}
    BY <1>4
  <2> QED BY <1>1, <1>4, <2>1, FS_AddElement
<1> QED BY <1>1, <1>2, <1>3, <1>4

\* a connection that holds its slot, or its address, is counted
LEMMA HolderIsCounted ==
  ASSUME AdmissionIsExact, NEW c \in Conns
  PROVE  /\ conn[c].phase \in HoldsSlot => active >= 1
         /\ conn[c].phase \in HoldsIp => perIp[conn[c].ip] >= 1
<1>1. /\ IsFiniteSet(InPhase(HoldsSlot))
      /\ IsFiniteSet(OfIp(conn[c].ip))
  BY AdmissionAssumption, FS_Subset DEF InPhase, OfIp
<1>2. ASSUME conn[c].phase \in HoldsSlot PROVE active >= 1
  <2>1. InPhase(HoldsSlot) # {}
    BY <1>2 DEF InPhase
  <2> QED BY <1>1, <2>1, FS_EmptySet, FS_CardinalityType DEF AdmissionIsExact, ConnCountsExact
<1>3. ASSUME conn[c].phase \in HoldsIp PROVE perIp[conn[c].ip] >= 1
  <2>1. OfIp(conn[c].ip) # {} /\ conn[c].ip \in Ips
    BY <1>3 DEF OfIp, AdmissionIsExact, TypeOK
  <2> QED BY <1>1, <2>1, FS_EmptySet, FS_CardinalityType DEF AdmissionIsExact, ConnCountsExact
<1> QED BY <1>2, <1>3

\* a step that moves one connection, and the counts with it, keeps them exact
LEMMA CountsFollow ==
  ASSUME AdmissionIsExact, NEW c \in Conns, NEW x \in ConnState,
         conn' = [conn EXCEPT ![c] = x],
         active' = active - Slot(conn[c]) + Slot(x),
         \A i \in Ips : perIp'[i] = perIp[i] - Share(conn[c], i) + Share(x, i)
  PROVE  ConnCountsExact'
<1>1. conn'[c] = x /\ \A d \in Conns \ {c} : conn'[d] = conn[d]
  BY DEF AdmissionIsExact, TypeOK
<1>2. active' = Cardinality(InPhase(HoldsSlot)')
  <2>1. InPhase(HoldsSlot) \ {c} = InPhase(HoldsSlot)' \ {c}
    BY <1>1 DEF InPhase
  <2>2. /\ c \in InPhase(HoldsSlot) <=> conn[c].phase \in HoldsSlot
        /\ c \in InPhase(HoldsSlot)' <=> x.phase \in HoldsSlot
    BY <1>1 DEF InPhase
  <2>3. IsFiniteSet(InPhase(HoldsSlot))
    BY AdmissionAssumption, FS_Subset DEF InPhase
  <2> QED BY <2>1, <2>2, <2>3, OneChange DEF AdmissionIsExact, ConnCountsExact, Slot
<1>3. ASSUME NEW i \in Ips PROVE perIp'[i] = Cardinality(OfIp(i)')
  <2>1. OfIp(i) \ {c} = OfIp(i)' \ {c}
    BY <1>1 DEF OfIp
  <2>2. /\ c \in OfIp(i) <=> conn[c].phase \in HoldsIp /\ conn[c].ip = i
        /\ c \in OfIp(i)' <=> x.phase \in HoldsIp /\ x.ip = i
    BY <1>1 DEF OfIp
  <2>3. IsFiniteSet(OfIp(i))
    BY AdmissionAssumption, FS_Subset DEF OfIp
  <2>4. perIp[i] = Cardinality(OfIp(i))
    BY DEF AdmissionIsExact, ConnCountsExact
  <2> QED BY <2>1, <2>2, <2>3, <2>4, OneChange DEF Share
<1> QED BY <1>2, <1>3 DEF ConnCountsExact

--------------------------------------------------------------------------------
(* The steps. *)

LEMMA AdmissionInitially == Init => AdmissionIsExact
<1> SUFFICES ASSUME Init PROVE AdmissionIsExact
  OBVIOUS
<1>1. Outside \in ConnState
  BY AdmissionAssumption DEF Outside, ConnState, Phases
<1>2. TypeOK
  BY <1>1, AdmissionAssumption DEF Init, TypeOK, ConnState
<1>3. InPhase(HoldsSlot) = {} /\ \A i \in Ips : OfIp(i) = {}
  BY DEF Init, InPhase, OfIp, Outside, HoldsSlot, HoldsIp
<1>4. ConnCountsExact
  BY <1>3, FS_EmptySet DEF Init, ConnCountsExact
<1> QED BY <1>2, <1>4 DEF AdmissionIsExact

\* the steps that leave the counters alone move between places of equal share
LEMMA QuietPhase ==
  ASSUME AdmissionIsExact, NEW c \in Conns, NEW x \in ConnState, conn' = [conn EXCEPT ![c] = x],
         UNCHANGED <<required, active, perIp>>, fails' \in [Ips -> 0..AuthFailThreshold],
         Slot(x) = Slot(conn[c]), \A i \in Ips : Share(x, i) = Share(conn[c], i)
  PROVE  AdmissionIsExact'
<1>1. active \in Int /\ \A i \in Ips : perIp[i] \in Int
  BY AdmissionAssumption DEF AdmissionIsExact, TypeOK
<1>2. Slot(x) \in Int /\ \A i \in Ips : Share(x, i) \in Int
  BY DEF Slot, Share
<1>3. active' = active - Slot(conn[c]) + Slot(x)
  BY <1>1, <1>2
<1>4. \A i \in Ips : perIp'[i] = perIp[i] - Share(conn[c], i) + Share(x, i)
  BY <1>1, <1>2
<1>5. ConnCountsExact'
  BY <1>3, <1>4, CountsFollow
<1>6. TypeOK'
  BY DEF AdmissionIsExact, TypeOK, ConnState
<1> QED BY <1>5, <1>6 DEF AdmissionIsExact

LEMMA FailsTypes ==
  ASSUME AdmissionIsExact, NEW c \in Conns
  PROVE  /\ AuthFail(c) => fails' \in [Ips -> 0..AuthFailThreshold]
         /\ AuthOk(c) => fails' \in [Ips -> 0..AuthFailThreshold]
         /\ UNCHANGED fails => fails' \in [Ips -> 0..AuthFailThreshold]
  BY AdmissionAssumption DEF AdmissionIsExact, TypeOK, AuthFail, AuthOk

\* where a connection goes when it only changes its phase
LEMMA Moved ==
  ASSUME AdmissionIsExact, NEW c \in Conns, NEW p \in Phases
  PROVE  /\ [conn[c] EXCEPT !.phase = p] \in ConnState
         /\ [conn[c] EXCEPT !.phase = p].phase = p
         /\ [conn[c] EXCEPT !.phase = p].ip = conn[c].ip
         /\ Moves(c, p) => conn' = [conn EXCEPT ![c] = [conn[c] EXCEPT !.phase = p]]
         /\ Outside \in ConnState /\ Outside.phase = "out"
         /\ Leaves(c) => conn' = [conn EXCEPT ![c] = Outside]
  BY AdmissionAssumption DEF AdmissionIsExact, TypeOK, ConnState, Moves, Leaves, Outside, Phases

\* a phase that holds as much as the one before
LEMMA QuietMove ==
  ASSUME AdmissionIsExact, NEW c \in Conns, NEW p \in Phases, Moves(c, p),
         UNCHANGED <<required, active, perIp>>, fails' \in [Ips -> 0..AuthFailThreshold],
         p \in HoldsSlot <=> conn[c].phase \in HoldsSlot,
         p \in HoldsIp <=> conn[c].phase \in HoldsIp
  PROVE  AdmissionIsExact'
<1> DEFINE x == [conn[c] EXCEPT !.phase = p]
<1>1. x \in ConnState /\ conn' = [conn EXCEPT ![c] = x]
  BY Moved
<1>2. Slot(x) = Slot(conn[c])
  BY Moved DEF Slot
<1>3. \A i \in Ips : Share(x, i) = Share(conn[c], i)
  BY Moved DEF Share
<1> HIDE DEF x
<1> QED BY <1>1, <1>2, <1>3, QuietPhase

LEMMA StepKeeps == ASSUME AdmissionIsExact, NEW c \in Conns, Step(c) PROVE AdmissionIsExact'
<1> USE DEF At, counters
<1>1. ASSUME NEW ip \in Ips, NEW peer \in Ips, NEW v2 \in BOOLEAN, Upgrade(c, ip, peer, v2)
      PROVE  AdmissionIsExact'
  <2> DEFINE x == [phase |-> "upgrading", ip |-> ip, peer |-> peer, v2 |-> v2, verified |-> FALSE]
  <2>1. x \in ConnState
    BY DEF ConnState, Phases
  <2>2. Slot(x) = Slot(conn[c]) /\ \A i \in Ips : Share(x, i) = Share(conn[c], i)
    BY <1>1 DEF Upgrade, Slot, Share, HoldsSlot, HoldsIp
  <2> QED BY <1>1, <2>1, <2>2, QuietPhase, FailsTypes DEF Upgrade
<1>2. ASSUME UpgradeFails(c) PROVE AdmissionIsExact'
  BY <1>2, Moved, QuietPhase, FailsTypes
     DEF UpgradeFails, Slot, Share, HoldsSlot, HoldsIp, Phases
<1>3. CASE TakeSlot(c)
  <2>1. CASE active >= MaxConnections
    BY <1>3, <2>1, Moved, QuietPhase, FailsTypes
       DEF TakeSlot, Slot, Share, HoldsSlot, HoldsIp, Phases
  <2>2. CASE ~(active >= MaxConnections)
    <3> DEFINE x == [conn[c] EXCEPT !.phase = "counted"]
    <3>1. x \in ConnState /\ conn' = [conn EXCEPT ![c] = x] /\ x.phase = "counted"
      BY <1>3, <2>2, Moved DEF TakeSlot, Phases
    <3>2. active' = active + 1 /\ UNCHANGED <<required, perIp, fails>>
      BY <1>3, <2>2 DEF TakeSlot
    <3>3. Slot(conn[c]) = 0 /\ Slot(x) = 1
      BY <1>3, <3>1 DEF TakeSlot, Slot, HoldsSlot
    <3>4. \A i \in Ips : Share(conn[c], i) = 0 /\ Share(x, i) = 0
      BY <1>3, <3>1 DEF TakeSlot, Share, HoldsIp
    <3>5. ConnCountsExact'
      <4>1. active \in Int /\ \A i \in Ips : perIp[i] \in Int
        BY AdmissionAssumption DEF AdmissionIsExact, TypeOK
      <4>2. active' = active - Slot(conn[c]) + Slot(x)
        BY <3>2, <3>3, <4>1
      <4>3. \A i \in Ips : perIp'[i] = perIp[i] - Share(conn[c], i) + Share(x, i)
        BY <3>2, <3>4, <4>1
      <4> QED BY <3>1, <4>2, <4>3, CountsFollow
    <3>6. TypeOK'
      BY <2>2, <3>1, <3>2, AdmissionAssumption DEF AdmissionIsExact, TypeOK, ConnState
    <3> QED BY <3>5, <3>6 DEF AdmissionIsExact
  <2> QED BY <2>1, <2>2
<1>4. CASE TakeIp(c)
  <2>1. CASE IpFull(conn[c].ip)
    BY <1>4, <2>1, QuietMove, FailsTypes
       DEF TakeIp, HoldsSlot, HoldsIp, Phases
  <2>2. CASE ~IpFull(conn[c].ip)
    <3> DEFINE x == [conn[c] EXCEPT !.phase = "start"]
    <3>1. x \in ConnState /\ conn' = [conn EXCEPT ![c] = x] /\ x.phase = "start" /\ x.ip = conn[c].ip
      BY <1>4, <2>2, Moved DEF TakeIp, Phases
    <3>2. perIp' = [perIp EXCEPT ![conn[c].ip] = @ + 1] /\ UNCHANGED <<required, active, fails>>
      BY <1>4, <2>2 DEF TakeIp
    <3>3. Slot(conn[c]) = 1 /\ Slot(x) = 1
      BY <1>4, <3>1 DEF TakeIp, Slot, HoldsSlot
    <3>4. \A i \in Ips : Share(conn[c], i) = 0 /\ Share(x, i) = IF i = conn[c].ip THEN 1 ELSE 0
      BY <1>4, <3>1 DEF TakeIp, Share, HoldsIp
    <3>5. active \in Int /\ perIp \in [Ips -> Nat]
      BY AdmissionAssumption DEF AdmissionIsExact, TypeOK
    <3>6. ConnCountsExact'
      <4>1. active' = active - Slot(conn[c]) + Slot(x)
        BY <3>2, <3>3, <3>5
      <4>2. \A i \in Ips : perIp'[i] = perIp[i] - Share(conn[c], i) + Share(x, i)
        BY <3>2, <3>4, <3>5
      <4> QED BY <3>1, <4>1, <4>2, CountsFollow
    <3>7. MaxPerIp > 0 => \A i \in Ips : perIp'[i] <= MaxPerIp
      BY <2>2, <3>2, <3>5, AdmissionAssumption DEF AdmissionIsExact, TypeOK, IpFull
    <3>8. TypeOK'
      BY <3>1, <3>2, <3>5, <3>7 DEF AdmissionIsExact, TypeOK, ConnState
    <3> QED BY <3>6, <3>8 DEF AdmissionIsExact
  <2> QED BY <2>1, <2>2
<1>5. CASE HandBack(c)
  <2>1. Outside \in ConnState /\ conn' = [conn EXCEPT ![c] = Outside] /\ Outside.phase = "out"
    BY <1>5, Moved DEF HandBack, Phases
  <2>2. active' = active - 1 /\ UNCHANGED <<required, perIp, fails>>
    BY <1>5 DEF HandBack
  <2>3. Slot(conn[c]) = 1 /\ Slot(Outside) = 0
    BY <1>5, <2>1 DEF HandBack, Slot, HoldsSlot
  <2>4. \A i \in Ips : Share(conn[c], i) = 0 /\ Share(Outside, i) = 0
    BY <1>5, <2>1 DEF HandBack, Share, HoldsIp
  <2>5. active \in 1..MaxConnections /\ \A i \in Ips : perIp[i] \in Int
    BY <1>5, HolderIsCounted, AdmissionAssumption DEF HandBack, HoldsSlot, AdmissionIsExact, TypeOK
  <2>6. ConnCountsExact'
    <3>1. active' = active - Slot(conn[c]) + Slot(Outside)
      BY <2>2, <2>3, <2>5
    <3>2. \A i \in Ips : perIp'[i] = perIp[i] - Share(conn[c], i) + Share(Outside, i)
      BY <2>2, <2>4, <2>5
    <3> QED BY <2>1, <3>1, <3>2, CountsFollow
  <2>7. TypeOK'
    BY <2>1, <2>2, <2>5, AdmissionAssumption DEF AdmissionIsExact, TypeOK, ConnState
  <2> QED BY <2>6, <2>7 DEF AdmissionIsExact
<1>6. CASE Boxed(c)
  BY <1>6, QuietMove, FailsTypes DEF Boxed, HoldsSlot, HoldsIp, Phases
<1>7. CASE StartV1(c)
  BY <1>7, QuietMove, FailsTypes DEF StartV1, HoldsSlot, HoldsIp, Phases
<1>8. CASE StartV2(c)
  BY <1>8, QuietMove, FailsTypes DEF StartV2, HoldsSlot, HoldsIp, Phases
<1>9. ASSUME NEW offer, Info(c, offer) PROVE AdmissionIsExact'
  <2>1. CASE Verifies(offer)
    <3> DEFINE x == [conn[c] EXCEPT !.phase = "serving", !.verified = required # {}]
    <3>1. x \in ConnState /\ x.phase = "serving" /\ x.ip = conn[c].ip
      BY DEF AdmissionIsExact, TypeOK, ConnState, Phases
    <3>2. conn' = [conn EXCEPT ![c] = x]
      BY <1>9, <2>1 DEF Info, AdmissionIsExact, TypeOK
    <3> QED BY <1>9, <2>1, <3>1, <3>2, QuietPhase, FailsTypes
            DEF Info, Slot, Share, HoldsSlot, HoldsIp
  <2>2. CASE ~Verifies(offer)
    BY <1>9, <2>2, QuietMove, FailsTypes DEF Info, HoldsSlot, HoldsIp, Phases
  <2> QED BY <2>1, <2>2
<1>10. CASE Continue(c)
  BY <1>10, QuietMove, FailsTypes DEF Continue, HoldsSlot, HoldsIp, Phases
<1>11. CASE ShakeFails(c)
  BY <1>11, QuietMove, FailsTypes DEF ShakeFails, HoldsSlot, HoldsIp, Phases
<1>12. CASE SessionEnds(c)
  BY <1>12, QuietMove, FailsTypes DEF SessionEnds, HoldsSlot, HoldsIp, Phases
<1>13. CASE DropSlot(c)
  <2> DEFINE x == [conn[c] EXCEPT !.phase = "uncounted"]
  <2>1. x \in ConnState /\ conn' = [conn EXCEPT ![c] = x] /\ x.phase = "uncounted" /\ x.ip = conn[c].ip
    BY <1>13, Moved DEF DropSlot, Phases
  <2>2. active' = active - 1 /\ UNCHANGED <<required, perIp, fails>>
    BY <1>13 DEF DropSlot
  <2>3. Slot(conn[c]) = 1 /\ Slot(x) = 0
    BY <1>13, <2>1 DEF DropSlot, Slot, HoldsSlot
  <2>4. \A i \in Ips : Share(conn[c], i) = Share(x, i) /\ Share(x, i) \in Int
    BY <1>13, <2>1 DEF DropSlot, Share, HoldsIp
  <2>5. active \in 1..MaxConnections /\ \A i \in Ips : perIp[i] \in Int
    BY <1>13, HolderIsCounted, AdmissionAssumption DEF DropSlot, HoldsSlot, AdmissionIsExact, TypeOK
  <2>6. ConnCountsExact'
    <3>1. active' = active - Slot(conn[c]) + Slot(x)
      BY <2>2, <2>3, <2>5
    <3>2. \A i \in Ips : perIp'[i] = perIp[i] - Share(conn[c], i) + Share(x, i)
      BY <2>2, <2>4, <2>5
    <3> QED BY <2>1, <3>1, <3>2, CountsFollow
  <2>7. TypeOK'
    BY <2>1, <2>2, <2>5, AdmissionAssumption DEF AdmissionIsExact, TypeOK, ConnState
  <2> QED BY <2>6, <2>7 DEF AdmissionIsExact
<1>14. CASE DropIp(c)
  <2>1. Outside \in ConnState /\ conn' = [conn EXCEPT ![c] = Outside] /\ Outside.phase = "out"
    BY <1>14, Moved DEF DropIp, Phases
  <2>2. perIp' = [perIp EXCEPT ![conn[c].ip] = @ - 1] /\ UNCHANGED <<required, active, fails>>
    BY <1>14 DEF DropIp
  <2>3. Slot(conn[c]) = 0 /\ Slot(Outside) = 0
    BY <1>14, <2>1 DEF DropIp, Slot, HoldsSlot
  <2>4. \A i \in Ips : Share(Outside, i) = 0 /\ Share(conn[c], i) = IF i = conn[c].ip THEN 1 ELSE 0
    BY <1>14, <2>1 DEF DropIp, Share, HoldsIp
  <2>5. active \in Int /\ perIp \in [Ips -> Nat] /\ perIp[conn[c].ip] >= 1 /\ conn[c].ip \in Ips
    BY <1>14, HolderIsCounted, AdmissionAssumption DEF DropIp, HoldsIp, AdmissionIsExact, TypeOK
  <2>6. ConnCountsExact'
    <3>1. active' = active - Slot(conn[c]) + Slot(Outside)
      BY <2>2, <2>3, <2>5
    <3>2. \A i \in Ips : perIp'[i] = perIp[i] - Share(conn[c], i) + Share(Outside, i)
      BY <2>2, <2>4, <2>5
    <3> QED BY <2>1, <3>1, <3>2, CountsFollow
  <2>7. perIp' \in [Ips -> Nat] /\ \A i \in Ips : perIp'[i] <= perIp[i]
    BY <2>2, <2>5
  <2>8. MaxPerIp > 0 => \A i \in Ips : perIp'[i] <= MaxPerIp
    BY <2>5, <2>7, AdmissionAssumption DEF AdmissionIsExact, TypeOK
  <2>9. TypeOK'
    BY <2>1, <2>2, <2>7, <2>8 DEF AdmissionIsExact, TypeOK, ConnState
  <2> QED BY <2>6, <2>9 DEF AdmissionIsExact
<1> QED BY <1>1, <1>2, <1>3, <1>4, <1>5, <1>6, <1>7, <1>8, <1>9, <1>10, <1>11, <1>12, <1>13, <1>14
        DEF Step

LEMMA AdmissionKept == AdmissionIsExact /\ [Next]_vars => AdmissionIsExact'
<1>1. ASSUME AdmissionIsExact, UNCHANGED vars PROVE AdmissionIsExact'
  BY <1>1 DEF vars, AdmissionIsExact, TypeOK, ConnCountsExact, InPhase, OfIp
<1> QED BY <1>1, StepKeeps DEF Next

--------------------------------------------------------------------------------
(* The theorems. *)

\* Concurrent upgrades never overshoot max_connections or max_connections_per_ip.
THEOREM TypeCorrect == Spec => []TypeOK
<1>1. AdmissionIsExact => TypeOK
  BY DEF AdmissionIsExact
<1> QED BY AdmissionInitially, AdmissionKept, <1>1, PTL DEF Spec

\* Whatever way each connection takes through the upgrade, the reservation, the
\* handshake and the guard's drop, both counts are exact after every step.
THEOREM ConnectionCountsExact == Spec => []AdmissionIsExact
  BY AdmissionInitially, AdmissionKept, PTL DEF Spec

\* A connection is served only after its handshake verified it, when the
\* deployment requires it (check_auth and v1's want of a handshake).
THEOREM ServedVerified == Spec => []ServedIsVerified
<1>1. Init => ServedIsVerified
  BY DEF Init, ServedIsVerified, At, Outside
<1>2. ASSUME TypeOK, ServedIsVerified, NEW c \in Conns, Step(c) PROVE ServedIsVerified'
  <2>1. required' = required
    BY <1>2 DEF Step, Upgrade, UpgradeFails, TakeSlot, TakeIp, HandBack, Boxed, StartV1, StartV2,
                Info, Continue, ShakeFails, SessionEnds, DropSlot, DropIp
  <2>2. \A d \in Conns \ {c} : conn'[d] = conn[d]
    BY <1>2 DEF TypeOK, Step, Upgrade, UpgradeFails, TakeSlot, TakeIp, HandBack, Boxed, StartV1,
                StartV2, Info, Continue, ShakeFails, SessionEnds, DropSlot, DropIp, Moves, Leaves
  <2>3. conn'[c].phase = "serving" /\ required # {} => conn'[c].verified
    <3>1. ASSUME NEW offer, Info(c, offer)
          PROVE  conn'[c].phase = "serving" /\ required # {} => conn'[c].verified
      BY <1>2, <3>1 DEF TypeOK, Info, Moves
    <3>2. CASE StartV1(c) \/ Continue(c)
      BY <1>2, <3>2 DEF TypeOK, StartV1, Continue, Moves
    <3>3. ASSUME NEW ip \in Ips, NEW peer \in Ips, NEW v2 \in BOOLEAN, Upgrade(c, ip, peer, v2)
          PROVE  conn'[c].phase # "serving"
      BY <1>2, <3>3 DEF TypeOK, Upgrade
    <3>4. CASE \/ UpgradeFails(c) \/ TakeSlot(c) \/ TakeIp(c) \/ HandBack(c) \/ Boxed(c)
               \/ StartV2(c) \/ ShakeFails(c) \/ SessionEnds(c) \/ DropSlot(c) \/ DropIp(c)
      BY <1>2, <3>4 DEF TypeOK, UpgradeFails, TakeSlot, TakeIp, HandBack, Boxed, StartV2,
                        ShakeFails, SessionEnds, DropSlot, DropIp, Moves, Leaves, Outside
    <3> QED BY <1>2, <3>1, <3>2, <3>3, <3>4 DEF Step
  <2> QED BY <1>2, <2>1, <2>2, <2>3 DEF ServedIsVerified, At
<1>3. TypeOK /\ ServedIsVerified /\ [Next]_vars => ServedIsVerified'
  <2>1. ASSUME ServedIsVerified, UNCHANGED vars PROVE ServedIsVerified'
    BY <2>1 DEF vars, ServedIsVerified, At
  <2> QED BY <1>2, <2>1 DEF Next
<1> QED BY <1>1, <1>3, TypeCorrect, PTL DEF Spec

------------------------------------------------------------------------------
(* The streams: the inductive invariant. *)

Listed == {r \in Relays : relay[r].listed}
Halves == {r \in Relays : relay[r].pc \in HalfDischarged}
RollingBack == {c \in Sessions : sess[c].at = "rollback"}

UdpPcs == {"udp", "udpSend", "udpData", "udpDrop"}
Over0 == {"close", "done"}

\* One relay: an entry of a session is charged for what it holds, and a task whose entry
\* is gone has at most the rest of a discharge to do.
Charged(x) ==
  /\ Held(x) <= x.queued
  /\ x.kind = "tcp" => x.pc \notin UdpPcs
  /\ x.kind = "tcp" /\ x.pc \notin Over0 => x.queued = Held(x)

Fits(x) ==
  /\ x \in RelayState
  /\ x.listed => x.pc # "none" /\ Charged(x)
  /\ ~x.listed => x.pc \in {"none", "wrote", "half"}

Types ==
  /\ sess \in [Sessions -> [mode: {"open", "drain", "gone"},
                            at: {"loop", "rollback", "reply", "bye"}, v2: BOOLEAN]]
  /\ wsq \in [Sessions -> 0..WsSlots] /\ pump \in [Sessions -> BOOLEAN]

Tasks == relay \in [Relays -> RelayState] /\ \A r \in Relays : Fits(relay[r])

Slots ==
  /\ liveStreams = Cardinality(Listed) + Cardinality(RollingBack)
  /\ Cardinality(Listed) <= MaxOpen

Queue ==
  /\ serverQueued \in 0..ServerBytes
  /\ serverQueued <= QueuedBy(Listed) + Cardinality(Halves)

StreamsIInv == Types /\ Tasks /\ Slots /\ Queue

-----------------------------------------------------------------------------
(* The records of single relays. *)

LEMMA HalfNat == HalfBuffer \in Nat
  BY StreamsAssumption DEF HalfBuffer

\* The parts of a relay.
LEMMA Parts ==
  ASSUME NEW x \in RelayState
  PROVE  /\ x.pc \in RelayPcs /\ x.conn \in Sessions /\ x.id \in Ids
         /\ x.kind \in {"tcp", "udp"} /\ x.listed \in BOOLEAN
         /\ x.input \in Nat /\ x.pre \in Nat /\ x.queued \in Nat /\ x.credits \in Nat
         /\ x.consumed \in Nat
<1>1. /\ x.pc \in RelayPcs /\ x.conn \in Sessions /\ x.id \in Ids
      /\ x.kind \in {"tcp", "udp"} /\ x.listed \in BOOLEAN
      /\ x.input \in 0..InputSlots /\ x.pre \in 0..PrebufferBytes
      /\ x.queued \in 0..StreamBytes /\ x.credits \in 0..Credit /\ x.consumed \in 0..HalfBuffer
  BY DEF RelayState
<1>2. \A n : \A k \in 0..n : k \in Int /\ k >= 0
  OBVIOUS
<1> QED BY <1>1, <1>2

LEMMA FreeIs == Free \in RelayState /\ ~Free.listed /\ Free.pc = "none" /\ Free.queued = 0
  BY StreamsAssumption, HalfNat DEF Free, RelayState, RelayPcs

\* A relay whose entry is dropped.
LEMMA EndedFits ==
  ASSUME NEW x, Fits(x)
  PROVE  /\ Fits(Ended(x)) /\ ~Ended(x).listed
         /\ Ended(x).pc \in HalfDischarged <=> x.pc \in HalfDischarged
<1> DEFINE F(p) == [Free EXCEPT !.pc = p]
<1>1. \A p \in {"none", "wrote", "half"} : F(p) \in RelayState /\ ~F(p).listed /\ F(p).pc = p
  BY FreeIs DEF RelayState, RelayPcs, BeforeDischarge, HalfDischarged, Free
<1>2. \A p \in {"none", "wrote", "half"} : Fits(F(p))
  BY <1>1 DEF Fits
<1>3. F("none") = Free
  BY FreeIs DEF RelayState
<1>4. CASE x.pc \in BeforeDischarge
  BY <1>1, <1>2, <1>4 DEF Ended, BeforeDischarge, HalfDischarged
<1>5. CASE x.pc \in HalfDischarged
  BY <1>1, <1>2, <1>5 DEF Ended, BeforeDischarge, HalfDischarged
<1>6. CASE x.pc \notin BeforeDischarge /\ x.pc \notin HalfDischarged
  <2>1. Ended(x) = F("none")
    BY <1>3, <1>6 DEF Ended
  <2> QED BY <1>1, <1>2, <1>6, <2>1 DEF HalfDischarged
<1> QED BY <1>4, <1>5, <1>6

\* The same relay elsewhere: its entry and its charge are as they were.
Same(x, y) == y.listed = x.listed /\ y.queued = x.queued /\ y.conn = x.conn

LEMMA TopFits ==
  ASSUME NEW x \in RelayState, x.listed, x.input + x.pre <= x.queued,
         x.kind = "tcp" => x.queued = x.input + x.pre
  PROVE  Fits(Top(x)) /\ Same(x, Top(x)) /\ Top(x).pc \notin HalfDischarged
<1> DEFINE y == Top(x)
<1>0. \/ y = [x EXCEPT !.pc = "starved"]
      \/ y = [x EXCEPT !.pc = "regrant", !.consumed = 0]
      \/ y = [x EXCEPT !.pc = "select"]
  BY DEF Top
<1>a. 0 \in 0..HalfBuffer /\ {"starved", "regrant", "select"} \subseteq RelayPcs
  BY HalfNat DEF RelayPcs, Awaits
<1> HIDE DEF y
<1>1. /\ y.input = x.input /\ y.pre = x.pre /\ y.queued = x.queued /\ y.kind = x.kind
      /\ y.listed = x.listed /\ y.conn = x.conn /\ y.pc \in {"starved", "regrant", "select"}
      /\ y \in RelayState
  BY <1>0, <1>a DEF RelayState
<1>2. Held(y) = x.input + x.pre
  BY <1>1, Parts DEF Held, BeforeDischarge
<1>3. Charged(y)
  BY <1>1, <1>2 DEF Charged, UdpPcs
<1>4. Fits(y) /\ Same(x, y) /\ y.pc \notin HalfDischarged
  BY <1>1, <1>3 DEF Fits, Same, HalfDischarged
<1> QED BY <1>4 DEF y

LEMMA Zeros == 0 \in 0..HalfBuffer /\ 0 \in 0..Credit /\ 0 \in 0..PrebufferBytes
  BY HalfNat, StreamsAssumption

LEMMA ClosedCharged ==
  ASSUME NEW x \in RelayState, x.input <= x.queued, NEW y, y.pc = "close",
         y.input = x.input, y.pre = 0, y.queued = x.queued
  PROVE  Charged(y)
<1>1. Held(y) = x.input
  BY Parts DEF Held, BeforeDischarge
<1> QED BY <1>1 DEF Charged, UdpPcs, Over0

LEMMA OverFits ==
  ASSUME NEW x \in RelayState, x.listed, x.input <= x.queued,
         NEW reason \in {"", "Voluntary", "NetworkError", "Throttled"}, NEW broke \in BOOLEAN
  PROVE  /\ Fits(Over(x, reason, broke)) /\ Same(x, Over(x, reason, broke))
         /\ Over(x, reason, broke).pc = "close"
<1> DEFINE y == Over(x, reason, broke)
<1>0. y = [x EXCEPT !.pc = "close", !.reason = reason, !.broke = broke,
                    !.credits = 0, !.consumed = 0, !.pre = 0]
  BY DEF Over
<1>b. "close" \in RelayPcs
  BY DEF RelayPcs, Awaits
<1> HIDE DEF y
<1>1. /\ y.input = x.input /\ y.pre = 0 /\ y.queued = x.queued /\ y.kind = x.kind
      /\ y.listed = x.listed /\ y.conn = x.conn /\ y.pc = "close" /\ y \in RelayState
  BY <1>0, <1>b, Zeros DEF RelayState
<1>3. Charged(y)
  BY <1>1, ClosedCharged
<1>4. Fits(y) /\ Same(x, y) /\ y.pc = "close"
  BY <1>1, <1>3 DEF Fits, Same
<1> QED BY <1>4 DEF y

\* A relay that goes on to an await at which it holds what it held.
LEMMA StepFits ==
  ASSUME NEW x, Fits(x), x.listed, NEW pc \in RelayPcs, pc # "none",
         NEW input \in 0..InputSlots, NEW pre \in 0..PrebufferBytes,
         pc \in UdpPcs => x.kind = "udp" \/ x.pc \in UdpPcs, pc \notin Over0, x.pc \notin Over0,
         Held([x EXCEPT !.pc = pc, !.input = input, !.pre = pre]) = Held(x)
  PROVE  /\ Fits([x EXCEPT !.pc = pc, !.input = input, !.pre = pre])
         /\ Same(x, [x EXCEPT !.pc = pc, !.input = input, !.pre = pre])
<1> DEFINE y == [x EXCEPT !.pc = pc, !.input = input, !.pre = pre]
<1>1. x \in RelayState /\ Charged(x)
  BY DEF Fits
<1>2. /\ y.kind = x.kind /\ y.queued = x.queued /\ y.listed = x.listed /\ y.pc = pc
      /\ y.conn = x.conn /\ y \in RelayState
  BY <1>1 DEF RelayState
<1>3. Held(y) = Held(x)
  OBVIOUS
<1> HIDE DEF y
<1>4. Charged(y)
  BY <1>1, <1>2, <1>3 DEF Charged
<1>5. Fits(y) /\ Same(x, y)
  BY <1>2, <1>4 DEF Fits, Same
<1> QED BY <1>5 DEF y

Holding == {"write", "drain", "udpSend"} \union BeforeDischarge

LEMMA HeldAt ==
  ASSUME NEW x \in RelayState
  PROVE  /\ x.pc \notin Holding => Held(x) = x.input + x.pre
         /\ x.pc \in Holding => Held(x) = x.input + x.pre + 1
  BY Parts DEF Held, Holding

LEMMA PlainTop ==
  ASSUME NEW x, Fits(x), x.listed, x.pc \notin Holding, x.pc \notin Over0
  PROVE  Fits(Top(x)) /\ Same(x, Top(x)) /\ Top(x).pc \notin HalfDischarged
<1>1. x \in RelayState /\ Charged(x)
  BY DEF Fits
<1>2. Held(x) = x.input + x.pre
  BY <1>1, HeldAt
<1>3. x.input + x.pre <= x.queued /\ (x.kind = "tcp" => x.queued = x.input + x.pre)
  BY <1>1, <1>2 DEF Charged
<1> QED BY <1>1, <1>3, TopFits

LEMMA InputCharged ==
  ASSUME NEW x, Fits(x), x.listed
  PROVE  x.input <= x.queued
<1>1. x \in RelayState /\ Charged(x)
  BY DEF Fits
<1>2. Held(x) <= x.queued /\ x.input \in Nat /\ x.pre \in Nat /\ x.queued \in Nat
  BY <1>1, Parts DEF Charged
<1> QED BY <1>1, <1>2, HeldAt

LEMMA PlainOver ==
  ASSUME NEW x, Fits(x), x.listed,
         NEW reason \in {"", "Voluntary", "NetworkError", "Throttled"}, NEW broke \in BOOLEAN
  PROVE  /\ Fits(Over(x, reason, broke)) /\ Same(x, Over(x, reason, broke))
         /\ Over(x, reason, broke).pc = "close"
<1>1. x \in RelayState
  BY DEF Fits
<1> QED BY <1>1, InputCharged, OverFits

-----------------------------------------------------------------------------
(* The steps of a relay that move nothing between the accounts. *)

\* What a step may do to the channels to the websockets.
Channels ==
  /\ wsq' \in [Sessions -> 0..WsSlots] /\ pump' \in [Sessions -> BOOLEAN]

Becoming(r, y) ==
  /\ relay' = [relay EXCEPT ![r] = y] /\ Fits(y) /\ Same(relay[r], y)
  /\ y.pc \in HalfDischarged <=> relay[r].pc \in HalfDischarged

Quietly(r) ==
  /\ \E y : Becoming(r, y)
  /\ UNCHANGED <<sess, serverQueued, liveStreams>> /\ Channels

LEMMA AwaitListed ==
  ASSUME Tasks, NEW r \in Relays, relay[r].pc \in Awaits
  PROVE  /\ relay[r] \in RelayState /\ Fits(relay[r]) /\ relay[r].listed
         /\ relay[r].pc \notin HalfDischarged /\ relay[r].pc \notin BeforeDischarge
<1>1. relay[r] \in RelayState /\ Fits(relay[r])
  BY DEF Tasks
<1>2. /\ relay[r].pc \notin {"none", "wrote", "half"} /\ relay[r].pc \notin HalfDischarged
      /\ relay[r].pc \notin BeforeDischarge
  BY DEF Awaits, HalfDischarged, BeforeDischarge
<1> QED BY <1>1, <1>2 DEF Fits

LEMMA ChannelsStay ==
  ASSUME Types, UNCHANGED <<wsq, pump>>
  PROVE  Channels
  BY DEF Types, Channels

LEMMA ChannelsPush ==
  ASSUME Types, NEW c \in Sessions, Room(c), Push(c), UNCHANGED pump
  PROVE  Channels
<1>1. wsq \in [Sessions -> 0..WsSlots] /\ pump \in [Sessions -> BOOLEAN]
  BY DEF Types
<1> DEFINE n == IF pump[c] THEN wsq[c] + 1 ELSE wsq[c]
<1>2. wsq[c] \in 0..WsSlots
  BY <1>1
<1>3. pump[c] => wsq[c] < WsSlots
  BY DEF Room
<1>4. n \in 0..WsSlots
  BY <1>2, <1>3, StreamsAssumption
<1>5. wsq' = [wsq EXCEPT ![c] = n]
  BY DEF Push
<1> HIDE DEF n
<1>6. wsq' \in [Sessions -> 0..WsSlots]
  BY <1>1, <1>4, <1>5
<1> QED BY <1>1, <1>6 DEF Channels

\* The relay of an action at an await becomes y.
LEMMA QuietStep ==
  ASSUME NEW r, NEW y, relay' = [relay EXCEPT ![r] = y], Fits(y), Same(relay[r], y),
         relay[r].pc \notin HalfDischarged, y.pc \notin HalfDischarged,
         UNCHANGED shared, Channels
  PROVE  Quietly(r)
  BY DEF Quietly, Becoming, shared

\* Awaits at which only the place changes.
LEMMA MoveFits ==
  ASSUME NEW x, Fits(x), x.listed, NEW pc \in RelayPcs, pc # "none", pc \notin Over0,
         x.pc \notin Over0, pc \in UdpPcs => x.kind = "udp" \/ x.pc \in UdpPcs,
         pc \in Holding <=> x.pc \in Holding
  PROVE  Fits([x EXCEPT !.pc = pc]) /\ Same(x, [x EXCEPT !.pc = pc])
<1> DEFINE y == [x EXCEPT !.pc = pc]
<1>1. x \in RelayState /\ Charged(x)
  BY DEF Fits
<1>2. /\ y.kind = x.kind /\ y.queued = x.queued /\ y.listed = x.listed /\ y.pc = pc
      /\ y.conn = x.conn /\ y \in RelayState /\ y.input = x.input /\ y.pre = x.pre
  BY <1>1 DEF RelayState
<1> HIDE DEF y
<1>3. Held(y) = Held(x)
  BY <1>1, <1>2, HeldAt
<1>4. Charged(y)
  BY <1>1, <1>2, <1>3 DEF Charged
<1>5. Fits(y) /\ Same(x, y)
  BY <1>2, <1>4 DEF Fits, Same
<1> QED BY <1>5 DEF y

LEMMA MoveQuiet ==
  ASSUME Types, Tasks, NEW r \in Relays, relay[r].pc \in Awaits, relay[r].pc # "close",
         NEW pc, pc \in Awaits \union BeforeDischarge, pc # "close",
         pc \in UdpPcs => relay[r].kind = "udp" \/ relay[r].pc \in UdpPcs,
         pc \in Holding <=> relay[r].pc \in Holding,
         relay' = [relay EXCEPT ![r] = [relay[r] EXCEPT !.pc = pc]], UNCHANGED shared, Channels
  PROVE  Quietly(r)
<1> DEFINE x == relay[r]
           y == [x EXCEPT !.pc = pc]
<1>1. Fits(x) /\ x \in RelayState /\ x.listed /\ x.pc \notin HalfDischarged
  BY AwaitListed
<1>2. /\ pc \in RelayPcs /\ pc # "none" /\ pc \notin Over0 /\ x.pc \notin Over0
      /\ pc \notin HalfDischarged
  BY DEF RelayPcs, Awaits, Over0, BeforeDischarge, HalfDischarged
<1>3. y.pc = pc
  BY <1>1 DEF RelayState
<1>4. Fits(y) /\ Same(x, y)
  BY <1>1, <1>2, MoveFits
<1> HIDE DEF y
<1>5. relay' = [relay EXCEPT ![r] = y]
  BY DEF y
<1> QED BY <1>1, <1>2, <1>3, <1>4, <1>5, QuietStep

LEMMA OverQuiet ==
  ASSUME Types, Tasks, NEW r \in Relays, relay[r].pc \in Awaits,
         NEW reason \in {"", "Voluntary", "NetworkError", "Throttled"}, NEW broke \in BOOLEAN,
         relay' = [relay EXCEPT ![r] = Over(relay[r], reason, broke)], UNCHANGED shared, Channels
  PROVE  Quietly(r)
<1> DEFINE x == relay[r]
           y == Over(x, reason, broke)
<1>1. Fits(x) /\ x \in RelayState /\ x.listed /\ x.pc \notin HalfDischarged
  BY AwaitListed
<1>2. Fits(y) /\ Same(x, y) /\ y.pc = "close"
  BY <1>1, PlainOver
<1> HIDE DEF y
<1>3. relay' = [relay EXCEPT ![r] = y] /\ y.pc \notin HalfDischarged
  BY <1>2 DEF y, HalfDischarged
<1> QED BY <1>1, <1>2, <1>3, QuietStep

LEMMA TopQuiet ==
  ASSUME Types, Tasks, NEW r \in Relays, relay[r].pc \in Awaits, relay[r].pc \notin Holding,
         relay[r].pc # "close",
         relay' = [relay EXCEPT ![r] = Top(relay[r])], UNCHANGED shared, Channels
  PROVE  Quietly(r)
<1> DEFINE x == relay[r]
           y == Top(x)
<1>1. Fits(x) /\ x \in RelayState /\ x.listed /\ x.pc \notin HalfDischarged
  BY AwaitListed
<1>2. x.pc \notin Over0
  BY DEF Over0, Awaits
<1>3. Fits(y) /\ Same(x, y) /\ y.pc \notin HalfDischarged
  BY <1>1, <1>2, PlainTop
<1> HIDE DEF y
<1>4. relay' = [relay EXCEPT ![r] = y]
  BY DEF y
<1> QED BY <1>1, <1>3, <1>4, QuietStep

\* A chunk moves inside a relay, or leaves its input for a write.
Shifted(x, pc, input, pre) == [x EXCEPT !.pc = pc, !.input = input, !.pre = pre]

LEMMA ShiftFits ==
  ASSUME NEW x, Fits(x), x.listed, x.pc \notin Holding, x.pc \notin Over0,
         NEW pc \in RelayPcs, pc # "none", pc \notin Over0,
         pc \in UdpPcs => x.kind = "udp" \/ x.pc \in UdpPcs,
         NEW input \in 0..InputSlots, NEW pre \in 0..PrebufferBytes,
         pc \in Holding => input + pre + 1 = x.input + x.pre,
         pc \notin Holding => input + pre = x.input + x.pre
  PROVE  /\ Fits(Shifted(x, pc, input, pre)) /\ Same(x, Shifted(x, pc, input, pre))
         /\ Shifted(x, pc, input, pre).pc = pc
<1> DEFINE y == Shifted(x, pc, input, pre)
<1>1. x \in RelayState /\ Charged(x)
  BY DEF Fits
<1>2. /\ y.kind = x.kind /\ y.queued = x.queued /\ y.listed = x.listed /\ y.pc = pc
      /\ y.conn = x.conn /\ y \in RelayState /\ y.input = input /\ y.pre = pre
  BY <1>1 DEF RelayState, Shifted
<1> HIDE DEF y
<1>3. Held(x) = x.input + x.pre
  BY <1>1, HeldAt
<1>4. Held(y) = x.input + x.pre
  BY <1>2, HeldAt
<1>5. Held(y) = Held(x)
  BY <1>3, <1>4
<1>6. Charged(y)
  BY <1>1, <1>2, <1>5 DEF Charged
<1>7. Fits(y) /\ Same(x, y) /\ y.pc = pc
  BY <1>2, <1>6 DEF Fits, Same
<1> QED BY <1>7 DEF y

-----------------------------------------------------------------------------
LEMMA BufferQuiet ==
  ASSUME Types, Tasks, NEW r \in Relays, Buffer(r)
  PROVE  Quietly(r)
<1> DEFINE x == relay[r]
           y == Shifted(x, "connect", x.input - 1, x.pre + 1)
<1>1. /\ x.pc = "connect" /\ x.input > 0 /\ x.pre < PrebufferBytes
      /\ relay' = [relay EXCEPT ![r] = [x EXCEPT !.input = @ - 1, !.pre = @ + 1]]
      /\ UNCHANGED <<shared, wsq>>
  BY DEF Buffer, Becomes, Waits
<1>2. Fits(x) /\ x \in RelayState /\ x.listed /\ x.pc \notin HalfDischarged
  BY <1>1, AwaitListed DEF Awaits
<1>3. x.input \in 0..InputSlots /\ x.pre \in 0..PrebufferBytes
  BY <1>2 DEF RelayState
<1>4. x.input - 1 \in 0..InputSlots /\ x.pre + 1 \in 0..PrebufferBytes
      /\ (x.input - 1) + (x.pre + 1) = x.input + x.pre
  BY <1>1, <1>3, StreamsAssumption
<1>5. /\ "connect" \in RelayPcs /\ "connect" \notin Over0 /\ "connect" \notin UdpPcs
      /\ "connect" \notin Holding /\ "connect" \notin HalfDischarged
  BY DEF RelayPcs, Awaits, Over0, UdpPcs, Holding, BeforeDischarge, HalfDischarged
<1>6. [x EXCEPT !.input = @ - 1, !.pre = @ + 1] = y
  BY <1>1, <1>2 DEF RelayState, Shifted
<1>7. Fits(y) /\ Same(x, y) /\ y.pc = "connect"
  BY <1>1, <1>2, <1>4, <1>5, ShiftFits
<1>8. Channels
  BY <1>1, ChannelsStay DEF shared
<1> HIDE DEF y
<1> QED BY <1>1, <1>2, <1>5, <1>6, <1>7, <1>8, QuietStep

LEMMA FlushQuiet ==
  ASSUME Types, Tasks, NEW r \in Relays, FlushWrites(r)
  PROVE  Quietly(r)
<1> DEFINE x == relay[r]
           y == Shifted(x, "flushed", x.input, x.pre - 1)
<1>1. /\ x.pc = "flush" /\ x.pre > 0
      /\ relay' = [relay EXCEPT ![r] = [x EXCEPT !.pre = @ - 1, !.pc = "flushed"]]
      /\ UNCHANGED <<shared, wsq>>
  BY DEF FlushWrites, Becomes, Waits
<1>2. Fits(x) /\ x \in RelayState /\ x.listed /\ x.pc \notin HalfDischarged
  BY <1>1, AwaitListed DEF Awaits
<1>3. x.input \in 0..InputSlots /\ x.pre \in 0..PrebufferBytes
  BY <1>2 DEF RelayState
<1>4. x.pre - 1 \in 0..PrebufferBytes /\ x.input + (x.pre - 1) + 1 = x.input + x.pre
  BY <1>1, <1>3, StreamsAssumption
<1>5. /\ "flushed" \in RelayPcs /\ "flushed" \notin Over0 /\ "flushed" \notin UdpPcs
      /\ "flushed" \in Holding /\ "flushed" \notin HalfDischarged
      /\ "flush" \notin Over0 /\ "flush" \notin Holding
  BY DEF RelayPcs, Awaits, Over0, UdpPcs, Holding, BeforeDischarge, HalfDischarged
<1>6. [x EXCEPT !.pre = @ - 1, !.pc = "flushed"] = y
  BY <1>1, <1>2 DEF RelayState, Shifted
<1>7. Fits(y) /\ Same(x, y) /\ y.pc = "flushed"
  BY <1>1, <1>2, <1>3, <1>4, <1>5, ShiftFits
<1>8. Channels
  BY <1>1, ChannelsStay DEF shared
<1> HIDE DEF y
<1> QED BY <1>1, <1>2, <1>5, <1>6, <1>7, <1>8, QuietStep

LEMMA TakesQuiet ==
  ASSUME Types, Tasks, NEW r \in Relays, NEW from, NEW to, Takes(r, from, to),
         <<from, to>> \in {<<"starved", "drain">>, <<"select", "write">>, <<"udp", "udpSend">>}
  PROVE  Quietly(r)
<1> DEFINE x == relay[r]
           y == Shifted(x, to, x.input - 1, x.pre)
<1>1. /\ x.pc = from /\ x.input > 0
      /\ relay' = [relay EXCEPT ![r] = [x EXCEPT !.input = @ - 1, !.pc = to]]
      /\ UNCHANGED <<shared, wsq>>
  BY DEF Takes, Becomes, Waits
<1>2. Fits(x) /\ x \in RelayState /\ x.listed /\ x.pc \notin HalfDischarged
  BY <1>1, AwaitListed DEF Awaits
<1>3. x.input \in 0..InputSlots /\ x.pre \in 0..PrebufferBytes
  BY <1>2 DEF RelayState
<1>4. x.input - 1 \in 0..InputSlots /\ (x.input - 1) + x.pre + 1 = x.input + x.pre
  BY <1>1, <1>3, StreamsAssumption
<1>5. /\ to \in RelayPcs /\ to # "none" /\ to \notin Over0 /\ (to \in UdpPcs => from \in UdpPcs)
      /\ to \in Holding /\ to \notin HalfDischarged /\ from \notin Over0 /\ from \notin Holding
  BY DEF RelayPcs, Awaits, Over0, UdpPcs, Holding, BeforeDischarge, HalfDischarged
<1>6. [x EXCEPT !.input = @ - 1, !.pc = to] = y
  BY <1>1, <1>2 DEF RelayState, Shifted
<1>7. Fits(y) /\ Same(x, y) /\ y.pc = to
  BY <1>1, <1>2, <1>3, <1>4, <1>5, ShiftFits
<1>8. Channels
  BY <1>1, ChannelsStay DEF shared
<1> HIDE DEF y
<1> QED BY <1>1, <1>2, <1>5, <1>6, <1>7, <1>8, QuietStep

-----------------------------------------------------------------------------
\* The steps of a relay from one place to the next.
Hops(from, to) ==
  \/ from = "ack" /\ to = "flush"
  \/ from = "write" /\ to = "wrote"
  \/ from = "drain" /\ to = "drained"
  \/ from = "regrant" /\ to = "select"
  \/ from = "select" /\ to = "send"
  \/ from = "udp" /\ to = "udpData"
  \/ from = "udpSend" /\ to = "udpDrop"
  \/ from = "udpData" /\ to = "udp"

LEMMA HopsAre ==
  ASSUME NEW from, NEW to, Hops(from, to)
  PROVE  /\ from \in Awaits /\ from # "close" /\ to # "close"
         /\ to \in Awaits \union BeforeDischarge
         /\ to \in UdpPcs => from \in UdpPcs
         /\ to \in Holding <=> from \in Holding
  BY DEF Hops, Awaits, BeforeDischarge, UdpPcs, Holding

LEMMA HopQuiet ==
  ASSUME Types, Tasks, NEW r \in Relays, NEW to, Hops(relay[r].pc, to),
         RelayGoes(r, to), UNCHANGED shared, Channels
  PROVE  Quietly(r)
<1>1. relay' = [relay EXCEPT ![r] = [relay[r] EXCEPT !.pc = to]]
  BY DEF RelayGoes, Becomes
<1> QED BY <1>1, HopsAre, MoveQuiet

\* The upstream of a relay answers.
LEMMA ConnectedQuiet ==
  ASSUME Types, Tasks, NEW r \in Relays, NEW to, relay[r].pc = "connect",
         to = IF relay[r].kind = "tcp" THEN "ack" ELSE "udp",
         RelayGoes(r, to), UNCHANGED shared, Channels
  PROVE  Quietly(r)
<1>1. relay' = [relay EXCEPT ![r] = [relay[r] EXCEPT !.pc = to]]
  BY DEF RelayGoes, Becomes
<1>2. relay[r].kind \in {"tcp", "udp"}
  BY DEF Tasks, RelayState
<1>3. /\ relay[r].pc \in Awaits /\ relay[r].pc # "close" /\ to # "close"
      /\ to \in Awaits \union BeforeDischarge
  BY DEF Awaits, BeforeDischarge
<1>4. to \in UdpPcs => relay[r].kind = "udp" \/ relay[r].pc \in UdpPcs
  BY <1>2 DEF UdpPcs
<1>5. to \in Holding <=> relay[r].pc \in Holding
  BY DEF Holding, BeforeDischarge
<1> QED BY <1>1, <1>3, <1>4, <1>5, MoveQuiet

LEMMA OfConn ==
  ASSUME Tasks, NEW r \in Relays
  PROVE  relay[r].conn \in Sessions /\ relay[r] \in RelayState
  BY DEF Tasks, RelayState

LEMMA SharedStays ==
  ASSUME Types, UNCHANGED <<shared, wsq>>
  PROVE  UNCHANGED shared /\ Channels
  BY ChannelsStay DEF shared

LEMMA SharedPush ==
  ASSUME Types, Tasks, NEW r \in Relays, Room(relay[r].conn), Push(relay[r].conn), UNCHANGED shared
  PROVE  Channels
<1>1. UNCHANGED pump
  BY DEF shared
<1> QED BY <1>1, OfConn, ChannelsPush

\* The awaits that only lead to another await.
LEMMA HopsQuiet ==
  ASSUME Types, Tasks, NEW r \in Relays,
         Connected(r) \/ Ack(r) \/ Written(r) \/ Reads(r) \/ UdpSent(r)
  PROVE  Quietly(r)
<1>1. CASE Connected(r)
  BY <1>1, SharedStays, ConnectedQuiet DEF Connected, Waits
<1>2. CASE Ack(r)
  <2>1. /\ Hops(relay[r].pc, "flush") /\ RelayGoes(r, "flush") /\ UNCHANGED shared
        /\ Room(relay[r].conn) /\ Push(relay[r].conn)
    BY <1>2 DEF Ack, Waits, Hops
  <2>2. Channels
    BY <2>1, SharedPush
  <2> QED BY <2>1, <2>2, HopQuiet
<1>3. CASE Written(r) \/ Reads(r) \/ UdpSent(r)
  <2>1. \E to : Hops(relay[r].pc, to) /\ RelayGoes(r, to)
    <3>1. CASE Written(r)
      BY <3>1 DEF Written, Waits, Hops
    <3>2. CASE Reads(r)
      BY <3>2 DEF Reads, Waits, Hops
    <3>3. CASE UdpSent(r)
      BY <3>3 DEF UdpSent, Waits, Hops
    <3> QED BY <1>3, <3>1, <3>2, <3>3
  <2>2. UNCHANGED <<shared, wsq>>
    BY <1>3 DEF Written, Reads, UdpSent
  <2> QED BY <2>1, <2>2, SharedStays, HopQuiet
<1> QED BY <1>1, <1>2, <1>3

\* The ways a relay comes to its end.
LEMMA EndsQuiet ==
  ASSUME Types, Tasks, NEW r \in Relays,
         \/ ConnectFails(r) \/ FlushFails(r) \/ WriteFails(r) \/ DrainWriteFails(r)
         \/ ReadEof(r) \/ ReadFails(r) \/ UdpFails(r)
  PROVE  Quietly(r)
<1>1. /\ relay[r].pc \in Awaits
      /\ UNCHANGED <<shared, wsq>>
  BY DEF ConnectFails, FlushFails, WriteFails, DrainWriteFails, ReadEof, ReadFails, UdpFails,
         Waits, Awaits
<1>2. \E reason \in {"", "Voluntary", "NetworkError", "Throttled"}, broke \in BOOLEAN :
        relay' = [relay EXCEPT ![r] = Over(relay[r], reason, broke)]
  BY DEF ConnectFails, FlushFails, WriteFails, DrainWriteFails, ReadEof, ReadFails, UdpFails,
         Waits, Breaks, Ends, Becomes
<1> QED BY <1>1, <1>2, SharedStays, OverQuiet

LEMMA TopsQuiet ==
  ASSUME Types, Tasks, NEW r \in Relays, FlushDone(r) \/ Credited(r)
  PROVE  Quietly(r)
<1>1. /\ relay[r].pc \in Awaits /\ relay[r].pc \notin Holding /\ relay[r].pc # "close"
      /\ UNCHANGED <<shared, wsq>>
      /\ relay' = [relay EXCEPT ![r] = Top(relay[r])]
  BY DEF FlushDone, Credited, Waits, Becomes, Awaits, Holding, BeforeDischarge
<1> QED BY <1>1, SharedStays, TopQuiet

LEMMA GrantQuiet ==
  ASSUME Types, Tasks, NEW r \in Relays, Grant(r)
  PROVE  Quietly(r)
<1>1. /\ relay[r].pc \in {"grant", "regrant"} /\ UNCHANGED shared
      /\ Room(relay[r].conn) /\ Push(relay[r].conn)
  BY DEF Grant
<1>2. Channels
  BY <1>1, SharedPush
<1>3. CASE relay[r].pc = "regrant"
  <2>1. RelayGoes(r, "select") /\ Hops(relay[r].pc, "select")
    BY <1>3 DEF Grant, RelayGoes, Waits, Hops
  <2> QED BY <1>1, <1>2, <2>1, HopQuiet
<1>4. CASE relay[r].pc = "grant"
  <2>1. /\ relay[r].pc \in Awaits /\ relay[r].pc \notin Holding /\ relay[r].pc # "close"
        /\ relay' = [relay EXCEPT ![r] = Top(relay[r])]
    BY <1>4 DEF Grant, Waits, Becomes, Awaits, Holding, BeforeDischarge
  <2> QED BY <1>1, <1>2, <2>1, TopQuiet
<1> QED BY <1>1, <1>3, <1>4

\* A relay that refused more early data ends with one chunk taken.
LEMMA FloodedQuiet ==
  ASSUME Types, Tasks, NEW r \in Relays, Flooded(r)
  PROVE  Quietly(r)
<1> DEFINE x == relay[r]
           z == [x EXCEPT !.input = x.input - 1]
           y == Over(z, "Throttled", FALSE)
<1>1. /\ x.pc = "connect" /\ x.input > 0 /\ UNCHANGED <<shared, wsq>>
      /\ relay' = [relay EXCEPT ![r] = y]
  BY DEF Flooded, Waits, Becomes
<1>2. Fits(x) /\ x \in RelayState /\ x.listed /\ x.pc \notin HalfDischarged
  BY <1>1, AwaitListed DEF Awaits
<1>3. x.input \in 0..InputSlots /\ x.input <= x.queued /\ x.queued \in Nat
  BY <1>2, InputCharged, Parts DEF RelayState
<1>4. x.input - 1 \in 0..InputSlots /\ x.input - 1 <= x.queued
  BY <1>1, <1>3, StreamsAssumption
<1>5. z \in RelayState /\ z.input = x.input - 1 /\ z.queued = x.queued /\ z.listed /\ Same(x, z)
  BY <1>2, <1>4 DEF RelayState, Same
<1> HIDE DEF z
<1>6. Fits(y) /\ Same(z, y) /\ y.pc = "close"
  BY <1>4, <1>5, OverFits
<1> HIDE DEF y
<1>7. Same(x, y) /\ y.pc \notin HalfDischarged
  BY <1>5, <1>6 DEF Same, HalfDischarged
<1> QED BY <1>1, <1>2, <1>6, <1>7, SharedStays, QuietStep
-----------------------------------------------------------------------------
\* A chunk goes to the client: the relay selects again, or is over with the channel.
LEMMA SendsQuiet ==
  ASSUME Types, Tasks, NEW r \in Relays, Sends(r)
  PROVE  Quietly(r)
<1> DEFINE x == relay[r]
           z == [x EXCEPT !.credits = IF Flows(x) /\ @ > 0 THEN @ - 1 ELSE @]
           y == Top(z)
<1>1. /\ x.pc \in {"send", "udpData"} /\ UNCHANGED shared
      /\ Room(x.conn) /\ Push(x.conn)
  BY DEF Sends
<1>2. Channels
  BY <1>1, SharedPush
<1>3. /\ x.pc \in Awaits /\ x.pc \notin Holding /\ x.pc \notin Over0 /\ x.pc # "close"
  BY <1>1 DEF Awaits, Holding, BeforeDischarge, Over0
<1>4. CASE ~pump[x.conn]
  <2>1. relay' = [relay EXCEPT ![r] = Over(x, "Voluntary", FALSE)]
    BY <1>4 DEF Sends, Becomes
  <2> QED BY <1>1, <1>2, <1>3, <2>1, OverQuiet
<1>5. CASE pump[x.conn] /\ x.pc = "udpData"
  <2>1. RelayGoes(r, "udp") /\ Hops(x.pc, "udp")
    BY <1>5 DEF Sends, Becomes, RelayGoes, Waits, Hops
  <2> QED BY <1>1, <1>2, <2>1, HopQuiet
<1>6. CASE pump[x.conn] /\ x.pc = "send"
  <2>1. relay' = [relay EXCEPT ![r] = y]
    BY <1>6 DEF Sends, Becomes, Waits
  <2>2. Fits(x) /\ x \in RelayState /\ x.listed /\ x.pc \notin HalfDischarged
    BY <1>3, AwaitListed
  <2>3. \A n \in 0..Credit : (n > 0 => n - 1 \in 0..Credit)
    BY StreamsAssumption
  <2>4. /\ z \in RelayState /\ z.input = x.input /\ z.pre = x.pre /\ z.queued = x.queued
        /\ z.listed = x.listed /\ z.kind = x.kind /\ Same(x, z)
    BY <2>2, <2>3 DEF RelayState, Same
  <2>5. Charged(x) /\ Held(x) = x.input + x.pre
    BY <1>3, <2>2, HeldAt DEF Fits
  <2>6. x.input + x.pre <= x.queued /\ (x.kind = "tcp" => x.queued = x.input + x.pre)
    BY <1>3, <2>5 DEF Charged
  <2> HIDE DEF z
  <2>7. Fits(y) /\ Same(z, y) /\ y.pc \notin HalfDischarged
    BY <2>2, <2>4, <2>6, TopFits
  <2> HIDE DEF y
  <2>8. Same(x, y)
    BY <2>4, <2>7 DEF Same
  <2> QED BY <1>1, <1>2, <2>1, <2>2, <2>7, <2>8, QuietStep
<1> QED BY <1>1, <1>4, <1>5, <1>6

\* A lost datagram stays charged.
LEMMA RefusedQuiet ==
  ASSUME Types, Tasks, NEW r \in Relays, UdpRefused(r)
  PROVE  Quietly(r)
<1> DEFINE x == relay[r]
           y == [x EXCEPT !.pc = "udp"]
<1>1. x.pc = "udpSend" /\ relay' = [relay EXCEPT ![r] = y] /\ UNCHANGED <<shared, wsq>>
  BY DEF UdpRefused, Waits, RelayGoes, Becomes
<1>2. Fits(x) /\ x \in RelayState /\ x.listed /\ x.pc \notin HalfDischarged
  BY <1>1, AwaitListed DEF Awaits
<1>3. /\ y \in RelayState /\ y.input = x.input /\ y.pre = x.pre /\ y.queued = x.queued
      /\ y.listed = x.listed /\ y.kind = x.kind /\ y.conn = x.conn /\ y.pc = "udp"
  BY <1>2 DEF RelayState, RelayPcs, Awaits
<1> HIDE DEF y
<1>4. /\ "udp" \notin Holding /\ "udpSend" \in Holding /\ "udpSend" \in UdpPcs
      /\ "udp" \notin HalfDischarged /\ "udpSend" \notin Over0
  BY DEF Holding, BeforeDischarge, UdpPcs, HalfDischarged, Over0
<1>5. Held(x) = x.input + x.pre + 1 /\ Held(y) = x.input + x.pre /\ Charged(x)
  BY <1>1, <1>2, <1>3, <1>4, HeldAt DEF Fits
<1>6. Held(y) <= x.queued
  BY <1>2, <1>5, Parts DEF Charged
<1>7. x.kind # "tcp"
  BY <1>1, <1>4, <1>5 DEF Charged
<1>8. Charged(y)
  BY <1>3, <1>6, <1>7 DEF Charged
<1>9. Fits(y) /\ Same(x, y) /\ y.pc \notin HalfDischarged
  BY <1>2, <1>3, <1>4, <1>8 DEF Fits, Same
<1> QED BY <1>1, <1>2, <1>9, SharedStays, QuietStep

\* The task is finished; its input is dropped, its charge waits for the reap.
LEMMA ClosesQuiet ==
  ASSUME Types, Tasks, NEW r \in Relays, Closes(r)
  PROVE  Quietly(r)
<1> DEFINE x == relay[r]
           y == [x EXCEPT !.pc = "done", !.input = 0, !.reason = "", !.broke = FALSE]
<1>1. /\ x.pc = "close" /\ relay' = [relay EXCEPT ![r] = y] /\ UNCHANGED shared
      /\ Room(x.conn) /\ Push(x.conn)
  BY DEF Closes, Waits, Becomes
<1>2. Fits(x) /\ x \in RelayState /\ x.listed /\ x.pc \notin HalfDischarged
  BY <1>1, AwaitListed DEF Awaits
<1>3. 0 \in 0..InputSlots /\ "done" \in RelayPcs
  BY StreamsAssumption DEF RelayPcs
<1>4. /\ y \in RelayState /\ y.input = 0 /\ y.pre = x.pre /\ y.queued = x.queued
      /\ y.listed = x.listed /\ y.kind = x.kind /\ y.conn = x.conn /\ y.pc = "done"
  BY <1>2, <1>3 DEF RelayState
<1> HIDE DEF y
<1>5. /\ "done" \notin Holding /\ "close" \notin Holding /\ "done" \in Over0
      /\ "done" \notin HalfDischarged /\ "done" \notin UdpPcs
  BY DEF Holding, BeforeDischarge, UdpPcs, HalfDischarged, Over0
<1>6. Held(x) = x.input + x.pre /\ Held(y) = 0 + x.pre /\ Charged(x)
  BY <1>1, <1>2, <1>4, <1>5, HeldAt DEF Fits
<1>7. Held(y) <= x.queued
  BY <1>2, <1>6, Parts DEF Charged
<1>8. Charged(y)
  BY <1>4, <1>5, <1>7 DEF Charged
<1>9. Fits(y) /\ Same(x, y) /\ y.pc \notin HalfDischarged
  BY <1>2, <1>4, <1>5, <1>8 DEF Fits, Same
<1>10. Channels
  BY <1>1, SharedPush
<1> QED BY <1>1, <1>2, <1>9, <1>10, QuietStep

-----------------------------------------------------------------------------
(* Counting. *)

LEMMA ListedFinite ==
  ASSUME TRUE
  PROVE  \A R \in SUBSET Relays : IsFiniteSet(R) /\ Cardinality(R) \in Nat
  BY StreamsAssumption, FS_Subset, FS_CardinalityType

LEMMA UnitsFinite ==
  ASSUME NEW R \in SUBSET Relays
  PROVE  IsFiniteSet(Units(R)) /\ QueuedBy(R) \in Nat
<1>1. IsFiniteSet(R) /\ IsFiniteSet(1..StreamBytes)
  BY ListedFinite, FS_Interval, StreamsAssumption
<1>2. IsFiniteSet(R \X (1..StreamBytes))
  BY <1>1, FS_Product
<1>3. Units(R) \subseteq R \X (1..StreamBytes)
  BY DEF Units
<1> QED BY <1>2, <1>3, FS_Subset, FS_CardinalityType DEF QueuedBy

\* Steps that leave the entries and what they are charged for.
SameEntries ==
  \A q \in Relays : relay'[q].listed = relay[q].listed /\ relay'[q].queued = relay[q].queued

LEMMA EntriesKept ==
  ASSUME SameEntries
  PROVE  Listed' = Listed /\ (\A R \in SUBSET Relays : Units(R)' = Units(R))
  BY DEF SameEntries, Listed, Units

LEMMA QuietKeeps ==
  ASSUME StreamsIInv, NEW r \in Relays, Quietly(r)
  PROVE  StreamsIInv'
<1>1. PICK y : Becoming(r, y)
  BY DEF Quietly
<1>2. relay \in [Relays -> RelayState] /\ y \in RelayState
  BY <1>1 DEF StreamsIInv, Tasks, Becoming, Fits
<1>3. /\ relay' \in [Relays -> RelayState] /\ relay'[r] = y
      /\ \A q \in Relays \ {r} : relay'[q] = relay[q]
  BY <1>1, <1>2 DEF Becoming
<1>4. Tasks'
  <2>1. \A q \in Relays : Fits(relay'[q])
    BY <1>1, <1>3 DEF Becoming, StreamsIInv, Tasks
  <2> QED BY <1>3, <2>1 DEF Tasks, Fits, Charged, Held
<1>5. SameEntries /\ Halves' = Halves
  BY <1>1, <1>3 DEF Becoming, Same, SameEntries, Halves
<1>6. Listed' = Listed /\ QueuedBy(Listed)' = QueuedBy(Listed) /\ RollingBack' = RollingBack
  <2>1. Listed' = Listed /\ Listed \in SUBSET Relays
    BY <1>5, EntriesKept DEF Listed
  <2>2. Units(Listed)' = Units(Listed)
    BY <1>3, <1>5, <2>1 DEF Units, SameEntries
  <2>3. RollingBack' = RollingBack
    BY DEF Quietly, RollingBack
  <2> QED BY <2>1, <2>2, <2>3 DEF QueuedBy
<1>7. Types' /\ Slots' /\ Queue'
  BY <1>5, <1>6 DEF Quietly, Channels, Types, Slots, Queue, StreamsIInv
<1> QED BY <1>4, <1>7 DEF StreamsIInv
-----------------------------------------------------------------------------
(* The two halves of a discharge, and a charge. *)

LEMMA RelayIs ==
  ASSUME Tasks, NEW r \in Relays, NEW y, relay' = [relay EXCEPT ![r] = y], Fits(y)
  PROVE  /\ Tasks' /\ relay'[r] = y /\ \A q \in Relays \ {r} : relay'[q] = relay[q]
<1>1. relay \in [Relays -> RelayState] /\ y \in RelayState
  BY DEF Tasks, Fits
<1>2. /\ relay' \in [Relays -> RelayState] /\ relay'[r] = y
      /\ \A q \in Relays \ {r} : relay'[q] = relay[q]
  BY <1>1
<1>3. \A q \in Relays : Fits(relay'[q])
  BY <1>2 DEF Tasks
<1> QED BY <1>2, <1>3 DEF Tasks, Fits, Charged, Held

LEMMA UnitOf ==
  ASSUME Tasks, NEW r \in Relays, NEW n \in Nat
  PROVE  \A R : <<r, n>> \in Units(R) <=> r \in R /\ n > 0 /\ n <= relay[r].queued
<1>1. relay[r].queued \in 0..StreamBytes
  BY DEF Tasks, RelayState
<1>2. n \in 1..StreamBytes <=> n > 0 /\ n <= StreamBytes
  BY StreamsAssumption
<1>3. n <= relay[r].queued => n <= StreamBytes
  BY <1>1, StreamsAssumption
<1> QED BY <1>2, <1>3 DEF Units

LEMMA QueuedIn ==
  ASSUME NEW x \in RelayState
  PROVE  x.queued \in 0..StreamBytes
  BY DEF RelayState

LEMMA RelayQueued ==
  ASSUME Tasks, NEW r \in Relays
  PROVE  relay[r].queued \in 0..StreamBytes
  BY DEF Tasks, RelayState

\* One chunk less is charged to r, or one more.
LEMMA OneFewer ==
  ASSUME Tasks, NEW R \in SUBSET Relays, NEW r \in R, relay[r].queued > 0,
         relay'[r].queued = relay[r].queued - 1,
         \A q \in R \ {r} : relay'[q].queued = relay[q].queued
  PROVE  QueuedBy(R)' = QueuedBy(R) - 1
<1> DEFINE n == relay[r].queued
           u == <<r, n>>
<1>1. n \in Nat /\ n \in 1..StreamBytes
  BY StreamsAssumption, RelayQueued
<1>2. \A v \in R \X (1..StreamBytes) : v \in Units(R)' <=> v \in Units(R) /\ v # u
  <2> SUFFICES ASSUME NEW q \in R, NEW m \in 1..StreamBytes
               PROVE  m <= relay'[q].queued <=> m <= relay[q].queued /\ <<q, m>> # u
    BY DEF Units
  <2>1. CASE q = r
    <3>1. m <= n - 1 <=> m <= n /\ m # n
      BY <1>1, StreamsAssumption
    <3> QED BY <2>1, <3>1
  <2>2. CASE q # r
    BY <2>2
  <2> QED BY <2>1, <2>2
<1>3. u \in Units(R)
  BY <1>1 DEF Units
<1>4. Units(R)' = Units(R) \ {u}
  BY <1>2 DEF Units
<1> HIDE DEF u
<1>5. IsFiniteSet(Units(R))
  BY UnitsFinite
<1>6. Cardinality(Units(R) \ {u}) = Cardinality(Units(R)) - 1
  BY <1>3, <1>5, FS_RemoveElement
<1> QED BY <1>4, <1>6 DEF QueuedBy

LEMMA OneMore ==
  ASSUME Tasks, NEW R \in SUBSET Relays, NEW r \in R, relay[r].queued + 1 <= StreamBytes,
         relay'[r].queued = relay[r].queued + 1,
         \A q \in R \ {r} : relay'[q].queued = relay[q].queued
  PROVE  QueuedBy(R)' = QueuedBy(R) + 1
<1> DEFINE n == relay[r].queued + 1
           u == <<r, n>>
<1>1. relay[r].queued \in Nat /\ n \in 1..StreamBytes
  BY StreamsAssumption, RelayQueued
<1>2. \A v \in R \X (1..StreamBytes) : v \in Units(R)' <=> v \in Units(R) \/ v = u
  <2> SUFFICES ASSUME NEW q \in R, NEW m \in 1..StreamBytes
               PROVE  m <= relay'[q].queued <=> (m <= relay[q].queued \/ <<q, m>> = u)
    BY DEF Units
  <2>1. CASE q = r
    <3>1. m <= n <=> (m <= relay[r].queued \/ m = n)
      BY <1>1, StreamsAssumption
    <3> QED BY <2>1, <3>1
  <2>2. CASE q # r
    BY <2>2
  <2> QED BY <2>1, <2>2
<1>3. u \notin Units(R) /\ u \in R \X (1..StreamBytes)
  <2>1. ~(n <= relay[r].queued)
    BY <1>1
  <2> QED BY <1>1, <2>1 DEF Units
<1>4. Units(R)' = Units(R) \union {u}
  BY <1>2, <1>3 DEF Units
<1> HIDE DEF u
<1>5. IsFiniteSet(Units(R))
  BY UnitsFinite
<1>6. Cardinality(Units(R) \union {u}) = Cardinality(Units(R)) + 1
  BY <1>3, <1>5, FS_AddElement
<1> QED BY <1>4, <1>6 DEF QueuedBy

\* A discharge leaves the stream: the relay owes the server's half of it.
LEMMA DischargedFits ==
  ASSUME NEW x, Fits(x), x.pc \in BeforeDischarge, NEW pc \in HalfDischarged,
         ~x.listed => pc = "half"
  PROVE  /\ Fits([Discharged(x) EXCEPT !.pc = pc])
         /\ [Discharged(x) EXCEPT !.pc = pc].pc = pc
         /\ [Discharged(x) EXCEPT !.pc = pc].listed = x.listed
         /\ x.listed => x.queued > 0 /\ [Discharged(x) EXCEPT !.pc = pc].queued = x.queued - 1
<1> DEFINE n == SubClamped(x.queued, 1)
           y == [Discharged(x) EXCEPT !.pc = pc]
<1>1. x \in RelayState
  BY DEF Fits
<1>2. n \in 0..StreamBytes /\ (x.queued > 0 => n = x.queued - 1)
  <2>1. x.queued \in 0..StreamBytes
    BY <1>1, QueuedIn
  <2> QED BY <2>1, StreamsAssumption DEF SubClamped
<1>3. pc \in RelayPcs /\ pc \notin Holding /\ pc \notin UdpPcs /\ pc \notin Over0
  BY DEF RelayPcs, HalfDischarged, Holding, BeforeDischarge, UdpPcs, Over0
<1>4. x.pc \in Holding /\ x.pc \notin Over0
  BY DEF Holding, BeforeDischarge, Over0
<1>5. y = [x EXCEPT !.queued = n, !.pc = pc]
  BY <1>1 DEF Discharged, RelayState
<1> HIDE DEF y, n
<1>6. /\ y.kind = x.kind /\ y.queued = n /\ y.listed = x.listed /\ y.pc = pc
      /\ y \in RelayState /\ y.input = x.input /\ y.pre = x.pre
  BY <1>1, <1>2, <1>3, <1>5 DEF RelayState
<1>7. Held(y) = x.input + x.pre /\ Held(x) = x.input + x.pre + 1
  BY <1>1, <1>3, <1>4, <1>6, HeldAt
<1>8. CASE x.listed
  <2>1. Charged(x)
    BY <1>8 DEF Fits
  <2>2. Held(x) <= x.queued /\ (x.kind = "tcp" => x.queued = Held(x))
    BY <1>4, <2>1 DEF Charged
  <2>3. x.queued > 0 /\ n = x.queued - 1
    BY <1>1, <1>2, <1>7, <2>2, Parts
  <2>4. Held(y) <= n /\ (x.kind = "tcp" => n = Held(y))
    BY <1>1, <1>7, <2>2, <2>3, Parts
  <2>5. Charged(y)
    BY <1>3, <1>6, <2>4 DEF Charged
  <2>6. pc # "none"
    BY DEF HalfDischarged
  <2> QED BY <1>6, <1>8, <2>3, <2>5, <2>6 DEF Fits, y
<1>9. CASE ~x.listed
  BY <1>6, <1>9 DEF Fits, y
<1> QED BY <1>1, <1>8, <1>9, Parts
-----------------------------------------------------------------------------
LEMMA HalvesFinite ==
  ASSUME TRUE
  PROVE  /\ IsFiniteSet(Halves) /\ Cardinality(Halves) \in Nat /\ Listed \in SUBSET Relays
         /\ IsFiniteSet(Listed) /\ Cardinality(Listed) \in Nat /\ QueuedBy(Listed) \in Nat
<1>1. Halves \in SUBSET Relays /\ Listed \in SUBSET Relays
  BY DEF Halves, Listed
<1> QED BY <1>1, ListedFinite, UnitsFinite

LEMMA RestKept ==
  ASSUME Types, Slots, Listed' = Listed, UNCHANGED <<sess, liveStreams>>, Channels
  PROVE  Types' /\ Slots'
<1>1. RollingBack' = RollingBack
  BY DEF RollingBack
<1> QED BY <1>1 DEF Types, Slots, Channels

LEMMA DischargeStreamKeeps ==
  ASSUME StreamsIInv, NEW r \in Relays, DischargeStream(r)
  PROVE  StreamsIInv'
<1> DEFINE x == relay[r]
           pc == CASE Waits(r, "flushed") -> "flushHalf" [] Waits(r, "drained") -> "drainHalf"
                   [] OTHER -> "half"
           y == [Discharged(x) EXCEPT !.pc = pc]
<1>1. /\ x.pc \in BeforeDischarge /\ UNCHANGED <<shared, wsq>>
      /\ relay' = [relay EXCEPT ![r] = y]
  BY DEF DischargeStream, Becomes
<1>2. Types /\ Tasks /\ Slots /\ Queue
  BY DEF StreamsIInv
<1>3. Fits(x) /\ x \in RelayState
  BY <1>2 DEF Tasks
<1>4. x.pc \notin HalfDischarged
  BY <1>1 DEF BeforeDischarge, HalfDischarged
<1>5. pc \in HalfDischarged /\ (~x.listed => pc = "half")
  BY <1>1, <1>3 DEF HalfDischarged, Waits, Fits
<1> HIDE DEF pc
<1>6. /\ Fits(y) /\ y.pc = pc /\ y.listed = x.listed
      /\ x.listed => x.queued > 0 /\ y.queued = x.queued - 1
  BY <1>1, <1>3, <1>5, DischargedFits
<1> HIDE DEF y
<1>7. Tasks' /\ relay'[r] = y /\ \A q \in Relays \ {r} : relay'[q] = relay[q]
  BY <1>1, <1>2, <1>6, RelayIs
<1>8. Listed' = Listed
  BY <1>6, <1>7 DEF Listed
<1>9. Halves' = Halves \union {r} /\ r \notin Halves
  BY <1>4, <1>5, <1>6, <1>7 DEF Halves
<1>10. Cardinality(Halves)' = Cardinality(Halves) + 1
  BY <1>9, HalvesFinite, FS_AddElement
<1>11. QueuedBy(Listed)' = QueuedBy(Listed) - 1 \/ QueuedBy(Listed)' = QueuedBy(Listed)
  <2> DEFINE L == Listed
  <2>1. L \in SUBSET Relays
    BY DEF Listed
  <2>2. QueuedBy(Listed)' = Cardinality({u \in L \X (1..StreamBytes) : u[2] <= relay'[u[1]].queued})
    BY <1>8 DEF QueuedBy, Units
  <2>3. CASE x.listed
    <3>1. r \in L /\ \A q \in L \ {r} : relay'[q].queued = relay[q].queued
      BY <1>7, <2>3 DEF Listed
    <3>2. relay'[r].queued = relay[r].queued - 1 /\ relay[r].queued > 0
      BY <1>6, <1>7, <2>3
    <3> HIDE DEF L
    <3>3. Cardinality({u \in L \X (1..StreamBytes) : u[2] <= relay'[u[1]].queued})
            = QueuedBy(L) - 1
      BY <1>2, <2>1, <3>1, <3>2, OneFewer DEF QueuedBy, Units
    <3> QED BY <2>2, <3>3 DEF L
  <2>4. CASE ~x.listed
    <3>1. \A q \in L : relay'[q] = relay[q]
      BY <1>7, <2>4 DEF Listed
    <3>2. {u \in L \X (1..StreamBytes) : u[2] <= relay'[u[1]].queued} = Units(L)
      BY <3>1 DEF Units
    <3> QED BY <2>2, <3>2 DEF QueuedBy
  <2> QED BY <2>3, <2>4
<1>12. Queue'
  <2>1. /\ serverQueued' = serverQueued /\ serverQueued \in 0..ServerBytes
        /\ serverQueued <= QueuedBy(Listed) + Cardinality(Halves)
    BY <1>1, <1>2 DEF Queue, shared
  <2>2. serverQueued <= QueuedBy(Listed)' + Cardinality(Halves)'
    BY <1>10, <1>11, <2>1, HalvesFinite, StreamsAssumption
  <2> QED BY <2>1, <2>2 DEF Queue
<1>13. Types' /\ Slots'
  BY <1>1, <1>2, <1>8, RestKept, ChannelsStay DEF shared
<1> QED BY <1>7, <1>12, <1>13 DEF StreamsIInv

LEMMA ConsumedFits ==
  ASSUME NEW x, Fits(x)
  PROVE  /\ Fits(Consumed(x)) /\ Same(x, Consumed(x)) /\ Consumed(x).pc = x.pc
         /\ Consumed(x).kind = x.kind
<1> DEFINE n == IF GrantDue(x) THEN x.consumed ELSE x.consumed + 1
           y == [x EXCEPT !.consumed = n]
<1>1. x \in RelayState /\ y = Consumed(x)
  BY DEF Fits, Consumed
<1>2. n \in 0..HalfBuffer
  <2>1. x.consumed \in 0..HalfBuffer
    BY <1>1 DEF RelayState
  <2> QED BY <2>1, HalfNat DEF GrantDue
<1> HIDE DEF n
<1>3. /\ y.kind = x.kind /\ y.queued = x.queued /\ y.listed = x.listed /\ y.pc = x.pc
      /\ y.conn = x.conn /\ y \in RelayState /\ y.input = x.input /\ y.pre = x.pre
  BY <1>1, <1>2 DEF RelayState
<1> HIDE DEF y
<1>4. Held(y) = Held(x)
  BY <1>1, <1>3, HeldAt
<1>5. Fits(y)
  BY <1>3, <1>4 DEF Fits, Charged
<1> QED BY <1>1, <1>3, <1>5 DEF Same

LEMMA GrantFits ==
  ASSUME NEW x, Fits(x), x.listed, x.kind = "tcp", x.pc \notin Holding, x.pc \notin Over0
  PROVE  /\ Fits([x EXCEPT !.pc = "grant", !.consumed = 0])
         /\ Same(x, [x EXCEPT !.pc = "grant", !.consumed = 0])
         /\ [x EXCEPT !.pc = "grant", !.consumed = 0].pc \notin HalfDischarged
<1> DEFINE y == [x EXCEPT !.pc = "grant", !.consumed = 0]
<1>1. x \in RelayState /\ Charged(x)
  BY DEF Fits
<1>2. "grant" \in RelayPcs /\ "grant" \notin Holding /\ "grant" \notin HalfDischarged
      /\ "grant" \notin UdpPcs
  BY DEF RelayPcs, Awaits, Holding, BeforeDischarge, HalfDischarged, UdpPcs
<1>3. /\ y.kind = x.kind /\ y.queued = x.queued /\ y.listed = x.listed /\ y.pc = "grant"
      /\ y.conn = x.conn /\ y \in RelayState /\ y.input = x.input /\ y.pre = x.pre
  BY <1>1, <1>2, Zeros DEF RelayState
<1> HIDE DEF y
<1>4. Held(y) = Held(x)
  BY <1>1, <1>2, <1>3, HeldAt
<1>5. Charged(y)
  BY <1>1, <1>2, <1>3, <1>4 DEF Charged
<1>6. Fits(y) /\ Same(x, y) /\ y.pc \notin HalfDischarged
  BY <1>2, <1>3, <1>5 DEF Fits, Same
<1> QED BY <1>6 DEF y

\* After a discharge a relay is at an await, or gone with its entry.
LEMMA AfterFits ==
  ASSUME NEW x, Fits(x), x.pc \in HalfDischarged
  PROVE  LET y == AfterDischarge(x, x.pc) IN
         /\ Fits(y) /\ y.pc \notin HalfDischarged /\ y.listed = x.listed
         /\ x.listed => y.queued = x.queued
<1> DEFINE z == Consumed(x)
           y == AfterDischarge(x, x.pc)
<1>1. /\ x \in RelayState /\ Fits(z) /\ Same(x, z) /\ z.pc = x.pc /\ z.kind = x.kind
  BY ConsumedFits DEF Fits
<1>2. /\ x.pc \notin Holding /\ x.pc \notin Over0
      /\ x.pc \in {"half", "flushHalf", "drainHalf"}
  BY DEF Holding, BeforeDischarge, HalfDischarged, Over0
<1>3. CASE ~x.listed
  <2>1. y = Free
    BY <1>3 DEF AfterDischarge
  <2>2. x.listed = FALSE /\ Free.listed = FALSE
    BY <1>1, <1>3, Parts DEF Free
  <2>3. Fits(Free) /\ Free.pc \notin HalfDischarged
    BY <2>2, FreeIs DEF Fits, HalfDischarged
  <2> QED BY <2>1, <2>2, <2>3
<1>4. CASE x.listed
  <2>1. z.listed /\ x.kind \in {"tcp", "udp"} /\ z.queued = x.queued
    BY <1>1, <1>4, Parts DEF Same
  <2>2. \/ x.kind = "udp" /\ y = [z EXCEPT !.pc = "udp"]
        \/ x.kind = "tcp" /\ y = [z EXCEPT !.pc = "flush"]
        \/ y = Top(z)
        \/ x.kind = "tcp" /\ y = [z EXCEPT !.pc = "grant", !.consumed = 0]
    BY <1>2, <1>4, <2>1 DEF AfterDischarge
  <2> HIDE DEF z, y
  <2>3. CASE x.kind = "udp" /\ y = [z EXCEPT !.pc = "udp"]
    <3>1. /\ "udp" \in RelayPcs /\ "udp" \notin Holding /\ "udp" \notin Over0 /\ "udp" # "none"
          /\ "udp" \notin HalfDischarged
      BY DEF RelayPcs, Awaits, Holding, BeforeDischarge, Over0, HalfDischarged
    <3>2. Fits(y) /\ Same(z, y) /\ y.pc = "udp"
      BY <1>1, <1>2, <2>1, <2>3, <3>1, MoveFits DEF Fits, RelayState
    <3> QED BY <1>4, <2>1, <3>1, <3>2 DEF Same, y
  <2>4. CASE x.kind = "tcp" /\ y = [z EXCEPT !.pc = "flush"]
    <3>1. /\ "flush" \in RelayPcs /\ "flush" \notin Holding /\ "flush" \notin Over0
          /\ "flush" # "none" /\ "flush" \notin HalfDischarged /\ "flush" \notin UdpPcs
      BY DEF RelayPcs, Awaits, Holding, BeforeDischarge, Over0, HalfDischarged, UdpPcs
    <3>2. Fits(y) /\ Same(z, y) /\ y.pc = "flush"
      BY <1>1, <1>2, <2>1, <2>4, <3>1, MoveFits DEF Fits, RelayState
    <3> QED BY <1>4, <2>1, <3>1, <3>2 DEF Same, y
  <2>5. CASE y = Top(z)
    <3>1. Fits(y) /\ Same(z, y) /\ y.pc \notin HalfDischarged
      BY <1>1, <1>2, <2>1, <2>5, PlainTop
    <3> QED BY <1>4, <2>1, <3>1 DEF Same, y
  <2>6. CASE x.kind = "tcp" /\ y = [z EXCEPT !.pc = "grant", !.consumed = 0]
    <3>1. Fits(y) /\ Same(z, y) /\ y.pc \notin HalfDischarged
      BY <1>1, <1>2, <2>1, <2>6, GrantFits
    <3> QED BY <1>4, <2>1, <3>1 DEF Same, y
  <2> QED BY <2>2, <2>3, <2>4, <2>5, <2>6
<1> QED BY <1>1, <1>3, <1>4, Parts

LEMMA DischargeServerKeeps ==
  ASSUME StreamsIInv, NEW r \in Relays, DischargeServer(r)
  PROVE  StreamsIInv'
<1> DEFINE x == relay[r]
           y == AfterDischarge(x, x.pc)
<1>1. /\ x.pc \in HalfDischarged /\ UNCHANGED <<sess, liveStreams, pump, wsq>>
      /\ relay' = [relay EXCEPT ![r] = y] /\ serverQueued' = SubClamped(serverQueued, 1)
  BY DEF DischargeServer, Becomes
<1>2. Types /\ Tasks /\ Slots /\ Queue
  BY DEF StreamsIInv
<1>3. Fits(x) /\ x \in RelayState
  BY <1>2 DEF Tasks
<1>4. /\ Fits(y) /\ y.pc \notin HalfDischarged /\ y.listed = x.listed
      /\ x.listed => y.queued = x.queued
  BY <1>1, <1>3, AfterFits
<1> HIDE DEF y
<1>5. Tasks' /\ relay'[r] = y /\ \A q \in Relays \ {r} : relay'[q] = relay[q]
  BY <1>1, <1>2, <1>4, RelayIs
<1>6. Listed' = Listed
  BY <1>4, <1>5 DEF Listed
<1>7. Halves' = Halves \ {r} /\ r \in Halves
  BY <1>1, <1>4, <1>5 DEF Halves
<1>8. Cardinality(Halves)' = Cardinality(Halves) - 1
  BY <1>7, HalvesFinite, FS_RemoveElement
<1>9. QueuedBy(Listed)' = QueuedBy(Listed)
  <2>1. \A q \in Listed : relay'[q].queued = relay[q].queued
    BY <1>4, <1>5 DEF Listed
  <2>2. Units(Listed)' = Units(Listed)
    BY <1>6, <2>1 DEF Units
  <2> QED BY <2>2 DEF QueuedBy
<1>10. Queue'
  <2>1. /\ serverQueued \in 0..ServerBytes
        /\ serverQueued <= QueuedBy(Listed) + Cardinality(Halves)
    BY <1>2 DEF Queue
  <2>2. /\ serverQueued' \in 0..ServerBytes
        /\ serverQueued' = serverQueued - 1 \/ (serverQueued = 0 /\ serverQueued' = 0)
    BY <1>1, <2>1, StreamsAssumption DEF SubClamped
  <2>3. Cardinality(Halves)' \in Nat
    BY <1>7, HalvesFinite, FS_Subset, FS_CardinalityType
  <2>4. serverQueued' <= QueuedBy(Listed)' + Cardinality(Halves)'
    BY <1>8, <1>9, <2>1, <2>2, <2>3, HalvesFinite, StreamsAssumption
  <2> QED BY <2>2, <2>4 DEF Queue
<1>11. Types' /\ Slots'
  <2>1. UNCHANGED <<wsq, pump>> /\ UNCHANGED <<sess, liveStreams>>
    BY <1>1
  <2> QED BY <1>2, <1>6, <2>1, RestKept, ChannelsStay
<1> QED BY <1>5, <1>10, <1>11 DEF StreamsIInv

-----------------------------------------------------------------------------
(* The session loop. *)

\* DATA: a chunk is held and charged.
InputAfter(x) == IF x.pc = "done" THEN x.input ELSE x.input + 1
Taken(x) == [x EXCEPT !.queued = x.queued + 1, !.input = InputAfter(x)]

LEMMA TakenFits ==
  ASSUME NEW x, Fits(x), x.listed, x.queued + 1 <= StreamBytes,
         x.pc = "done" \/ x.input < InputSlots
  PROVE  /\ Fits(Taken(x)) /\ Taken(x).pc = x.pc /\ Taken(x).listed = x.listed
         /\ Taken(x).queued = x.queued + 1
<1> DEFINE y == Taken(x)
           n == InputAfter(x)
<1>1. x \in RelayState /\ Charged(x)
  BY DEF Fits
<1>2. x.queued + 1 \in 0..StreamBytes /\ n \in 0..InputSlots
  <2>1. x.queued \in 0..StreamBytes /\ x.input \in 0..InputSlots
    BY <1>1 DEF RelayState
  <2> QED BY <2>1, StreamsAssumption DEF InputAfter
<1>a. x.pc = "done" => n = x.input
  BY DEF InputAfter
<1>b. x.pc # "done" => n = x.input + 1
  BY DEF InputAfter
<1> HIDE DEF n
<1>3. /\ y.kind = x.kind /\ y.queued = x.queued + 1 /\ y.listed = x.listed /\ y.pc = x.pc
      /\ y.conn = x.conn /\ y \in RelayState /\ y.input = n /\ y.pre = x.pre
  BY <1>1, <1>2 DEF RelayState, Taken, n
<1> HIDE DEF y
<1>4. /\ x.pc = "done" => Held(y) = Held(x)
      /\ x.pc # "done" => Held(y) = Held(x) + 1
      /\ Held(x) \in Nat
  <2>1. x.pc \in Holding => Held(x) = x.input + x.pre + 1 /\ Held(y) = n + x.pre + 1
    BY <1>1, <1>3, HeldAt
  <2>2. x.pc \notin Holding => Held(x) = x.input + x.pre /\ Held(y) = n + x.pre
    BY <1>1, <1>3, HeldAt
  <2>3. x.input \in Nat /\ x.pre \in Nat
    BY <1>1, Parts
  <2> QED BY <1>a, <1>b, <2>1, <2>2, <2>3
<1>5. Held(x) <= x.queued /\ x.queued \in Nat
      /\ (x.kind = "tcp" /\ x.pc \notin Over0 => x.queued = Held(x))
  BY <1>1, Parts DEF Charged
<1>6. Held(y) <= x.queued + 1
  BY <1>4, <1>5
<1>7. x.kind = "tcp" /\ x.pc \notin Over0 => x.queued + 1 = Held(y)
  BY <1>4, <1>5 DEF Over0
<1>8. Charged(y)
  BY <1>1, <1>3, <1>6, <1>7 DEF Charged
<1>9. Fits(y)
  BY <1>3, <1>8 DEF Fits
<1> QED BY <1>3, <1>9 DEF y

LEMMA DataKeeps ==
  ASSUME StreamsIInv, NEW c \in Sessions, NEW i \in Ids, Data(c, i)
  PROVE  StreamsIInv'
<1>1. PICK r \in Entry(c, i) :
        /\ Charges(r)
        /\ relay[r].pc = "done" \/ relay[r].input < InputSlots
        /\ relay' = [relay EXCEPT ![r].queued = @ + 1,
                                  ![r].input = IF relay[r].pc = "done" THEN @ ELSE @ + 1]
        /\ serverQueued' = serverQueued + 1
  BY DEF Data
<1> DEFINE x == relay[r]
           y == Taken(x)
<1>2. Types /\ Tasks /\ Slots /\ Queue
  BY DEF StreamsIInv
<1>3. r \in Relays /\ x.listed /\ Fits(x) /\ x \in RelayState
  BY <1>2 DEF Entry, Entries, Tasks
<1>4. x.queued + 1 <= StreamBytes /\ serverQueued + 1 <= ServerBytes
  BY <1>1 DEF Charges
<1>5. relay' = [relay EXCEPT ![r] = y]
  BY <1>1, <1>2, <1>3 DEF Tasks, RelayState, Taken, InputAfter
<1>6. Fits(y) /\ y.pc = x.pc /\ y.listed = x.listed /\ y.queued = x.queued + 1
  BY <1>1, <1>3, <1>4, TakenFits
<1> HIDE DEF y
<1>7. Tasks' /\ relay'[r] = y /\ \A q \in Relays \ {r} : relay'[q] = relay[q]
  BY <1>2, <1>3, <1>5, <1>6, RelayIs
<1>8. Listed' = Listed /\ Halves' = Halves /\ r \in Listed
  BY <1>3, <1>6, <1>7 DEF Listed, Halves
<1>9. QueuedBy(Listed)' = QueuedBy(Listed) + 1
  <2> DEFINE L == Listed
  <2>1. L \in SUBSET Relays /\ r \in L
    BY <1>8 DEF Listed
  <2>2. QueuedBy(Listed)' = Cardinality({u \in L \X (1..StreamBytes) : u[2] <= relay'[u[1]].queued})
    BY <1>8 DEF QueuedBy, Units
  <2>3. relay'[r].queued = relay[r].queued + 1 /\ relay[r].queued + 1 <= StreamBytes
    BY <1>4, <1>6, <1>7
  <2>4. \A q \in L \ {r} : relay'[q].queued = relay[q].queued
    BY <1>7, <2>1
  <2> HIDE DEF L
  <2>5. Cardinality({u \in L \X (1..StreamBytes) : u[2] <= relay'[u[1]].queued}) = QueuedBy(L) + 1
    BY <1>2, <2>1, <2>3, <2>4, OneMore DEF QueuedBy, Units
  <2> QED BY <2>2, <2>5 DEF L
<1>10. Queue'
  <2>1. /\ serverQueued \in 0..ServerBytes
        /\ serverQueued <= QueuedBy(Listed) + Cardinality(Halves)
    BY <1>2 DEF Queue
  <2>2. serverQueued' \in 0..ServerBytes
    BY <1>1, <1>4, <2>1, StreamsAssumption
  <2>3. serverQueued' <= QueuedBy(Listed)' + Cardinality(Halves)'
    BY <1>1, <1>8, <1>9, <2>1, HalvesFinite, StreamsAssumption
  <2> QED BY <2>2, <2>3 DEF Queue
<1>11. Types' /\ Slots'
  <2>1. UNCHANGED <<wsq, pump>> /\ UNCHANGED <<sess, liveStreams>>
    BY DEF Data, wsVars
  <2> QED BY <1>2, <1>8, <2>1, RestKept, ChannelsStay
<1> QED BY <1>7, <1>10, <1>11 DEF StreamsIInv
-----------------------------------------------------------------------------
\* What is left when the entries of R are dropped.
LEMMA EntriesDropped ==
  ASSUME NEW L \in SUBSET Relays, NEW R \in SUBSET L
  PROVE  /\ QueuedBy(L \ R) = QueuedBy(L) - QueuedBy(R) /\ QueuedBy(R) <= QueuedBy(L)
         /\ Cardinality(L \ R) = Cardinality(L) - Cardinality(R)
         /\ Cardinality(R) <= Cardinality(L)
         /\ QueuedBy(L) \in Nat /\ QueuedBy(R) \in Nat /\ Cardinality(L) \in Nat
         /\ Cardinality(R) \in Nat
<1>1. IsFiniteSet(L) /\ R \in SUBSET Relays
  BY ListedFinite
<1>2. /\ Units(R) \subseteq Units(L) /\ Units(L \ R) = Units(L) \ Units(R)
  BY DEF Units
<1>3. IsFiniteSet(Units(L)) /\ IsFiniteSet(Units(R))
  BY <1>1, UnitsFinite
<1>4. /\ Cardinality(Units(L) \ Units(R)) = Cardinality(Units(L)) - Cardinality(Units(L) \cap Units(R))
      /\ Cardinality(L \ R) = Cardinality(L) - Cardinality(L \cap R)
  BY <1>1, <1>3, FS_Difference
<1>5. Units(L) \cap Units(R) = Units(R) /\ L \cap R = R
  BY <1>2
<1>6. Cardinality(Units(R)) <= Cardinality(Units(L)) /\ Cardinality(R) <= Cardinality(L)
  BY <1>1, <1>2, <1>3, FS_Subset
<1>7. QueuedBy(L) \in Nat /\ QueuedBy(R) \in Nat /\ Cardinality(L) \in Nat /\ Cardinality(R) \in Nat
  BY <1>1, UnitsFinite, ListedFinite
<1> QED BY <1>2, <1>4, <1>5, <1>6, <1>7 DEF QueuedBy

Dropped(R) ==
  relay' = [r \in Relays |-> IF r \in R THEN Ended(relay[r]) ELSE relay[r]]

LEMMA DroppedIs ==
  ASSUME Tasks, NEW R \in SUBSET Listed, Dropped(R)
  PROVE  /\ Tasks' /\ Listed' = Listed \ R /\ Halves' = Halves
         /\ QueuedBy(Listed)' = QueuedBy(Listed \ R)
<1>1. \A r \in Relays : /\ r \in R => relay'[r] = Ended(relay[r])
                        /\ r \notin R => relay'[r] = relay[r]
  BY DEF Dropped
<1>2. \A r \in Relays : Fits(relay[r])
  BY DEF Tasks
<1>3. R \in SUBSET Relays
  BY DEF Listed
<1>4. \A r \in R : /\ Fits(relay'[r]) /\ ~relay'[r].listed
                   /\ relay'[r].pc \in HalfDischarged <=> relay[r].pc \in HalfDischarged
  BY <1>1, <1>2, <1>3, EndedFits
<1>5. Tasks'
  <2>1. \A r \in Relays : Fits(relay'[r])
    BY <1>1, <1>2, <1>4
  <2>2. \A r \in Relays : relay'[r] \in RelayState
    BY <2>1 DEF Fits
  <2>3. relay' \in [Relays -> RelayState]
    BY <2>2 DEF Dropped
  <2> QED BY <2>1, <2>3 DEF Tasks, Fits, Charged, Held
<1>6. Listed' = Listed \ R
  BY <1>1, <1>4 DEF Listed
<1>7. Halves' = Halves
  BY <1>1, <1>4 DEF Halves
<1>8. QueuedBy(Listed)' = QueuedBy(Listed \ R)
  <2> DEFINE L == Listed \ R
  <2>1. \A q \in L : relay'[q] = relay[q]
    BY <1>1 DEF Listed
  <2>2. Units(Listed)' = {u \in L \X (1..StreamBytes) : u[2] <= relay'[u[1]].queued}
    BY <1>6 DEF Units
  <2>3. {u \in L \X (1..StreamBytes) : u[2] <= relay'[u[1]].queued} = Units(L)
    BY <2>1 DEF Units
  <2> QED BY <2>2, <2>3 DEF QueuedBy
<1> QED BY <1>5, <1>6, <1>7, <1>8

\* The server's count after a settlement.
LEMMA SettledQueue ==
  ASSUME Queue, NEW R \in SUBSET Listed, serverQueued' = Settled(R), Halves' = Halves,
         QueuedBy(Listed)' = QueuedBy(Listed \ R)
  PROVE  Queue'
<1>1. /\ serverQueued \in 0..ServerBytes
      /\ serverQueued <= QueuedBy(Listed) + Cardinality(Halves)
  BY DEF Queue
<1>2. Listed \in SUBSET Relays /\ Cardinality(Halves) \in Nat
  BY HalvesFinite
<1>3. /\ QueuedBy(Listed \ R) = QueuedBy(Listed) - QueuedBy(R) /\ QueuedBy(R) <= QueuedBy(Listed)
      /\ QueuedBy(Listed) \in Nat /\ QueuedBy(R) \in Nat
  BY <1>2, EntriesDropped
<1>4. \/ QueuedBy(R) > serverQueued /\ serverQueued' = 0
      \/ QueuedBy(R) <= serverQueued /\ serverQueued' = serverQueued - QueuedBy(R)
  BY <1>1, <1>3 DEF Settled, SubClamped
<1>5. serverQueued' \in 0..ServerBytes
  BY <1>1, <1>3, <1>4, StreamsAssumption
<1>6. serverQueued' <= QueuedBy(Listed)' + Cardinality(Halves)'
  BY <1>1, <1>2, <1>3, <1>4, StreamsAssumption
<1> QED BY <1>5, <1>6 DEF Queue

\* A session that goes on, its reservations as they were.
SessionGoes ==
  /\ sess' \in [Sessions -> [mode: {"open", "drain", "gone"},
                             at: {"loop", "rollback", "reply", "bye"}, v2: BOOLEAN]]
  /\ RollingBack' = RollingBack

LEMMA RollingFinite ==
  ASSUME TRUE
  PROVE  /\ IsFiniteSet(RollingBack) /\ Cardinality(RollingBack) \in Nat
         /\ Cardinality(RollingBack) <= Cardinality(Sessions) /\ Cardinality(Sessions) \in Nat
<1>1. RollingBack \subseteq Sessions
  BY DEF RollingBack
<1> QED BY <1>1, StreamsAssumption, FS_Subset, FS_CardinalityType

LEMMA GoesIs ==
  ASSUME Types, NEW c \in Sessions, NEW at \in {"loop", "rollback", "reply", "bye"}, Goes(c, at)
  PROVE  /\ sess' \in [Sessions -> [mode: {"open", "drain", "gone"},
                                    at: {"loop", "rollback", "reply", "bye"}, v2: BOOLEAN]]
         /\ \A d \in Sessions \ {c} : sess'[d] = sess[d]
         /\ sess'[c].at = at /\ sess'[c].mode = sess[c].mode
  BY DEF Types, Goes

LEMMA GoesOn ==
  ASSUME Types, NEW c \in Sessions, NEW at \in {"loop", "reply", "bye"}, Goes(c, at),
         sess[c].at # "rollback"
  PROVE  SessionGoes
<1>1. at \in {"loop", "rollback", "reply", "bye"} /\ at # "rollback"
  OBVIOUS
<1>2. /\ sess' \in [Sessions -> [mode: {"open", "drain", "gone"},
                                    at: {"loop", "rollback", "reply", "bye"}, v2: BOOLEAN]]
      /\ \A d \in Sessions \ {c} : sess'[d] = sess[d]
      /\ sess'[c].at = at
  BY <1>1, GoesIs
<1>3. RollingBack' = RollingBack
  BY <1>1, <1>2 DEF RollingBack
<1> QED BY <1>2, <1>3 DEF SessionGoes

LEMMA StaysOn ==
  ASSUME Types, UNCHANGED sess
  PROVE  SessionGoes
  BY DEF Types, SessionGoes, RollingBack

\* A session closes some of its streams.
LEMMA CloseKeeps ==
  ASSUME StreamsIInv, NEW R \in SUBSET Listed, Close(R), SessionGoes, Channels
  PROVE  StreamsIInv'
<1>1. Types /\ Tasks /\ Slots /\ Queue
  BY DEF StreamsIInv
<1>2. Dropped(R) /\ serverQueued' = Settled(R)
      /\ liveStreams' = SubClamped(liveStreams, Cardinality(R))
  BY DEF Close, Dropped
<1>3. /\ Tasks' /\ Listed' = Listed \ R /\ Halves' = Halves
      /\ QueuedBy(Listed)' = QueuedBy(Listed \ R)
  BY <1>1, <1>2, DroppedIs
<1>4. Queue'
  BY <1>1, <1>2, <1>3, SettledQueue
<1>5. Listed \in SUBSET Relays
  BY DEF Listed
<1>6. /\ Cardinality(Listed \ R) = Cardinality(Listed) - Cardinality(R)
      /\ Cardinality(R) <= Cardinality(Listed) /\ Cardinality(Listed) \in Nat
      /\ Cardinality(R) \in Nat
  BY <1>5, EntriesDropped
<1>7. /\ liveStreams = Cardinality(Listed) + Cardinality(RollingBack)
      /\ Cardinality(Listed) <= MaxOpen /\ Cardinality(RollingBack) \in Nat
  BY <1>1, RollingFinite DEF Slots
<1>8. liveStreams' = liveStreams - Cardinality(R)
  BY <1>2, <1>6, <1>7 DEF SubClamped
<1>9. Cardinality(Listed \ R) <= MaxOpen
      /\ liveStreams' = Cardinality(Listed \ R) + Cardinality(RollingBack)
  BY <1>6, <1>7, <1>8, StreamsAssumption
<1>10. Slots'
  BY <1>3, <1>9 DEF SessionGoes, Slots
<1>11. Types'
  BY DEF SessionGoes, Channels, Types
<1> QED BY <1>3, <1>4, <1>10, <1>11 DEF StreamsIInv
-----------------------------------------------------------------------------
(* CONNECT: the finished are reaped, then a slot is taken. *)

LEMMA FinishedListed ==
  ASSUME NEW c
  PROVE  /\ Entries(c) \in SUBSET Listed /\ Finished(c) \in SUBSET Listed
         /\ \A i : Entry(c, i) \in SUBSET Listed
         /\ \A r \in Finished(c) : relay[r].pc = "done"
  BY DEF Entries, Finished, Entry, Listed

LEMMA SpawnedFits ==
  ASSUME NEW c \in Sessions, NEW i \in Ids, NEW kind \in Kinds
  PROVE  /\ Fits(Spawned(c, i, kind)) /\ Spawned(c, i, kind).listed
         /\ Spawned(c, i, kind).pc = "connect" /\ Spawned(c, i, kind).queued = 0
<1> DEFINE y == Spawned(c, i, kind)
<1>1. kind \in {"tcp", "udp"} /\ Free \in RelayState
  BY StreamsAssumption, FreeIs
<1>2. /\ y.kind = kind /\ y.queued = 0 /\ y.listed = TRUE /\ y.pc = "connect"
      /\ y \in RelayState /\ y.input = 0 /\ y.pre = 0
  BY <1>1 DEF Spawned, RelayState, RelayPcs, Awaits, Free
<1> HIDE DEF y
<1>3. "connect" \notin Holding /\ "connect" \notin UdpPcs
  BY DEF Holding, BeforeDischarge, UdpPcs
<1>4. Held(y) = 0 + 0
  BY <1>2, <1>3, HeldAt
<1>5. Charged(y)
  BY <1>2, <1>3, <1>4 DEF Charged
<1>6. Fits(y) /\ y.listed /\ y.pc = "connect" /\ y.queued = 0
  BY <1>2, <1>5 DEF Fits
<1> QED BY <1>6 DEF y

LEMMA ConnectKeeps ==
  ASSUME StreamsIInv, NEW c \in Sessions, NEW i \in Ids, NEW kind \in Kinds, Connect(c, i, kind)
  PROVE  StreamsIInv'
<1> DEFINE F == Finished(c)
           y == Spawned(c, i, kind)
<1>1. Types /\ Tasks /\ Slots /\ Queue
  BY DEF StreamsIInv
<1>2. PICK r \in Relays :
        /\ relay[r].pc = "none" \/ r \in F
        /\ relay' = [q \in Relays |-> CASE q = r -> y [] q \in F \ {r} -> Free [] OTHER -> relay[q]]
  BY DEF Connect
<1>3. /\ liveStreams - Cardinality(F) < MaxOpen /\ serverQueued' = Settled(F)
      /\ liveStreams' = SubClamped(liveStreams, Cardinality(F)) + 1
      /\ UNCHANGED <<sess, wsq, pump>>
  BY DEF Connect, wsVars
<1>4. F \in SUBSET Listed /\ (\A q \in F : relay[q].pc = "done") /\ Listed \in SUBSET Relays
  BY FinishedListed DEF Listed
<1>5. Fits(y) /\ y.listed /\ y.pc = "connect" /\ y.queued = 0
  BY SpawnedFits
<1> HIDE DEF y, F
<1>6. /\ relay'[r] = y /\ \A q \in F \ {r} : relay'[q] = Free
      /\ \A q \in Relays \ (F \union {r}) : relay'[q] = relay[q]
  <2> DEFINE G == [q \in Relays |-> CASE q = r -> y [] q \in F \ {r} -> Free [] OTHER -> relay[q]]
  <2>1. relay' = G /\ F \in SUBSET Relays
    BY <1>2, <1>4
  <2>2. G[r] = y
    BY <1>2
  <2>3. \A q \in F \ {r} : q \in Relays => G[q] = Free
    OBVIOUS
  <2>4. \A q \in Relays \ (F \union {r}) : G[q] = relay[q]
    OBVIOUS
  <2> HIDE DEF G
  <2> QED BY <2>1, <2>2, <2>3, <2>4
<1>7. Fits(Free) /\ ~Free.listed /\ Free.pc = "none"
  BY FreeIs DEF Fits
<1>8. Tasks'
  <2>1. \A q \in Relays : Fits(relay'[q])
    BY <1>1, <1>5, <1>6, <1>7 DEF Tasks
  <2>2. \A q \in Relays : relay'[q] \in RelayState
    BY <2>1 DEF Fits
  <2>3. relay' \in [Relays -> RelayState]
    BY <1>2, <2>2
  <2> QED BY <2>1, <2>3 DEF Tasks, Fits, Charged, Held
<1>9. r \notin Listed \ F
  <2>1. relay[r].pc = "none" => ~relay[r].listed
    BY <1>1 DEF Tasks, Fits
  <2> QED BY <1>2, <2>1 DEF Listed
<1>10. Listed' = (Listed \ F) \union {r}
  BY <1>4, <1>5, <1>6, <1>7 DEF Listed
<1>11. Halves' = Halves
  <2>1. relay[r].pc \in {"none", "done"}
    BY <1>2, <1>4
  <2>2. {"none", "done", "connect"} \cap HalfDischarged = {}
    BY DEF HalfDischarged
  <2>3. \A q \in Relays : relay'[q].pc \in HalfDischarged <=> relay[q].pc \in HalfDischarged
    BY <1>4, <1>5, <1>6, <1>7, <2>1, <2>2
  <2> QED BY <2>3 DEF Halves
<1>12. QueuedBy(Listed)' = QueuedBy(Listed \ F)
  <2>1. \A n \in 1..StreamBytes : ~(n <= relay'[r].queued)
    BY <1>5, <1>6, StreamsAssumption
  <2>2. \A q \in Listed \ F : relay'[q] = relay[q]
    BY <1>4, <1>6, <1>9
  <2>3. Units(Listed)' = {u \in ((Listed \ F) \union {r}) \X (1..StreamBytes) :
                            u[2] <= relay'[u[1]].queued}
    BY <1>10 DEF Units
  <2>4. Units(Listed)' = Units(Listed \ F)
    BY <2>1, <2>2, <2>3 DEF Units
  <2> QED BY <2>4 DEF QueuedBy
<1>13. Queue'
  BY <1>1, <1>3, <1>4, <1>11, <1>12, SettledQueue
<1>14. /\ Cardinality(Listed \ F) = Cardinality(Listed) - Cardinality(F)
       /\ Cardinality(F) <= Cardinality(Listed) /\ Cardinality(Listed) \in Nat
       /\ Cardinality(F) \in Nat
  BY <1>4, EntriesDropped
<1>15. Cardinality(Listed)' = Cardinality(Listed) - Cardinality(F) + 1
  <2>1. IsFiniteSet(Listed \ F)
    BY <1>4, ListedFinite
  <2> QED BY <1>9, <1>10, <1>14, <2>1, FS_AddElement
<1>16. /\ liveStreams = Cardinality(Listed) + Cardinality(RollingBack)
       /\ Cardinality(RollingBack) \in Nat
  BY <1>1, RollingFinite DEF Slots
<1>17. liveStreams' = liveStreams - Cardinality(F) + 1
  BY <1>3, <1>14, <1>16 DEF SubClamped
<1>18. /\ liveStreams' = Cardinality(Listed)' + Cardinality(RollingBack)
       /\ Cardinality(Listed)' <= MaxOpen
  BY <1>3, <1>14, <1>15, <1>16, <1>17, StreamsAssumption
<1>19. RollingBack' = RollingBack
  BY <1>3 DEF RollingBack
<1>20. Slots' /\ Types'
  BY <1>1, <1>3, <1>18, <1>19 DEF Slots, Types
<1> QED BY <1>8, <1>13, <1>20 DEF StreamsIInv

\* A CONNECT over the server's cap holds a slot until it has counted itself back.
LEMMA OverCapKeeps ==
  ASSUME StreamsIInv, NEW c \in Sessions, NEW i \in Ids, ConnectOverCap(c, i)
  PROVE  StreamsIInv'
<1> DEFINE F == Finished(c)
<1>1. Types /\ Tasks /\ Slots /\ Queue
  BY DEF StreamsIInv
<1>2. /\ relay' = [r \in Relays |-> IF r \in F THEN Free ELSE relay[r]]
      /\ serverQueued' = Settled(F)
      /\ liveStreams' = SubClamped(liveStreams, Cardinality(F)) + 1
      /\ Goes(c, "rollback") /\ UNCHANGED <<wsq, pump>> /\ sess[c].at = "loop"
  BY DEF ConnectOverCap, wsVars, AtLoop
<1>3. F \in SUBSET Listed /\ (\A q \in F : relay[q].pc = "done") /\ Listed \in SUBSET Relays
  BY FinishedListed DEF Listed
<1> HIDE DEF F
<1>4. Dropped(F)
  <2>1. \A r \in F : Ended(relay[r]) = Free
    BY <1>3 DEF Ended, BeforeDischarge, HalfDischarged
  <2> QED BY <1>2, <2>1 DEF Dropped
<1>5. /\ Tasks' /\ Listed' = Listed \ F /\ Halves' = Halves
      /\ QueuedBy(Listed)' = QueuedBy(Listed \ F)
  BY <1>1, <1>3, <1>4, DroppedIs
<1>6. Queue'
  BY <1>1, <1>2, <1>3, <1>5, SettledQueue
<1>7. /\ Cardinality(Listed \ F) = Cardinality(Listed) - Cardinality(F)
      /\ Cardinality(F) <= Cardinality(Listed) /\ Cardinality(Listed) \in Nat
      /\ Cardinality(F) \in Nat
  BY <1>3, EntriesDropped
<1>8. /\ liveStreams = Cardinality(Listed) + Cardinality(RollingBack)
      /\ Cardinality(Listed) <= MaxOpen /\ Cardinality(RollingBack) \in Nat
  BY <1>1, RollingFinite DEF Slots
<1>9. liveStreams' = liveStreams - Cardinality(F) + 1
  BY <1>2, <1>7, <1>8 DEF SubClamped
<1>10. /\ sess' \in [Sessions -> [mode: {"open", "drain", "gone"},
                                  at: {"loop", "rollback", "reply", "bye"}, v2: BOOLEAN]]
       /\ \A d \in Sessions \ {c} : sess'[d] = sess[d]
       /\ sess'[c].at = "rollback"
  BY <1>1, <1>2, GoesIs
<1>11. RollingBack' = RollingBack \union {c} /\ c \notin RollingBack
  BY <1>2, <1>10 DEF RollingBack
<1>12. Cardinality(RollingBack)' = Cardinality(RollingBack) + 1
  BY <1>11, RollingFinite, FS_AddElement
<1>13. Cardinality(Listed)' <= MaxOpen
       /\ liveStreams' = Cardinality(Listed)' + Cardinality(RollingBack)'
  BY <1>5, <1>7, <1>8, <1>9, <1>12, StreamsAssumption
<1>14. Slots'
  BY <1>13 DEF Slots
<1>15. Types'
  BY <1>1, <1>2, <1>10 DEF Types
<1> QED BY <1>5, <1>6, <1>14, <1>15 DEF StreamsIInv

\* Relays, and so what the queues owe, are as they were.
LEMMA RelaysStay ==
  ASSUME Tasks, Queue, UNCHANGED <<relay, serverQueued>>
  PROVE  Tasks' /\ Queue' /\ Listed' = Listed
<1>1. Tasks'
  BY DEF Tasks, Fits, Charged, Held
<1>2. Listed' = Listed /\ Halves' = Halves
  BY DEF Listed, Halves
<1>3. QueuedBy(Listed)' = QueuedBy(Listed)
  BY <1>2 DEF QueuedBy, Units
<1> QED BY <1>1, <1>2, <1>3 DEF Queue

LEMMA RollBackKeeps ==
  ASSUME StreamsIInv, NEW c \in Sessions, RollBack(c)
  PROVE  StreamsIInv'
<1>1. Types /\ Tasks /\ Slots /\ Queue
  BY DEF StreamsIInv
<1>2. /\ sess[c].at = "rollback" /\ liveStreams' = liveStreams - 1 /\ Goes(c, "reply")
      /\ UNCHANGED <<relay, serverQueued>> /\ UNCHANGED <<wsq, pump>>
  BY DEF RollBack, wsVars
<1>3. Tasks' /\ Queue' /\ Listed' = Listed
  BY <1>1, <1>2, RelaysStay
<1>4. /\ sess' \in [Sessions -> [mode: {"open", "drain", "gone"},
                                 at: {"loop", "rollback", "reply", "bye"}, v2: BOOLEAN]]
      /\ \A d \in Sessions \ {c} : sess'[d] = sess[d]
      /\ sess'[c].at = "reply"
  BY <1>1, <1>2, GoesIs
<1>5. RollingBack' = RollingBack \ {c} /\ c \in RollingBack
  BY <1>2, <1>4 DEF RollingBack
<1>6. Cardinality(RollingBack)' = Cardinality(RollingBack) - 1
  BY <1>5, RollingFinite, FS_RemoveElement
<1>7. /\ liveStreams = Cardinality(Listed) + Cardinality(RollingBack)
      /\ Cardinality(Listed) <= MaxOpen /\ Cardinality(RollingBack) \in Nat
      /\ Cardinality(Listed) \in Nat
  BY <1>1, RollingFinite, HalvesFinite DEF Slots
<1>8. liveStreams' = Cardinality(Listed)' + Cardinality(RollingBack)'
  BY <1>2, <1>3, <1>6, <1>7
<1>9. Slots'
  BY <1>3, <1>7, <1>8 DEF Slots
<1>10. Types'
  BY <1>1, <1>2, <1>4 DEF Types
<1> QED BY <1>3, <1>9, <1>10 DEF StreamsIInv
-----------------------------------------------------------------------------
(* Every step, and the theorem. *)

LEMMA SessionKeeps ==
  ASSUME StreamsIInv, NEW c \in Sessions, Session(c)
  PROVE  StreamsIInv'
<1>1. Types /\ Tasks /\ Slots /\ Queue
  BY DEF StreamsIInv
<1>2. /\ Entries(c) \in SUBSET Listed /\ Finished(c) \in SUBSET Listed
      /\ \A i : Entry(c, i) \in SUBSET Listed
  BY FinishedListed
<1>3. CASE \E i \in Ids : ConnectThrottled(c, i) \/ DataThrottled(c, i) \/ ClientCloses(c, i)
  <2>1. PICK i \in Ids : ConnectThrottled(c, i) \/ DataThrottled(c, i) \/ ClientCloses(c, i)
    BY <1>3
  <2>2. /\ sess[c].at # "rollback" /\ UNCHANGED <<wsq, pump>>
        /\ Goes(c, "reply") \/ UNCHANGED sess
    <3>1. CASE ConnectThrottled(c, i)
      BY <3>1 DEF ConnectThrottled, ConnectRefused, AtLoop, wsVars
    <3>2. CASE DataThrottled(c, i)
      BY <3>2 DEF DataThrottled, AtLoop, wsVars
    <3>3. CASE ClientCloses(c, i)
      BY <3>3 DEF ClientCloses, AtLoop, wsVars
    <3> QED BY <2>1, <3>1, <3>2, <3>3
  <2>3. \E R \in SUBSET Listed : Close(R)
    <3>1. CASE ConnectThrottled(c, i)
      BY <1>2, <3>1 DEF ConnectThrottled
    <3>2. CASE DataThrottled(c, i)
      BY <1>2, <3>2 DEF DataThrottled
    <3>3. CASE ClientCloses(c, i)
      <4>1. Finished(c) \union Entry(c, i) \in SUBSET Listed
        BY <1>2
      <4> QED BY <3>3, <4>1 DEF ClientCloses
    <3> QED BY <2>1, <3>1, <3>2, <3>3
  <2>4. SessionGoes /\ Channels
    BY <1>1, <2>2, GoesOn, StaysOn, ChannelsStay
  <2> QED BY <2>3, <2>4, CloseKeeps
<1>4. CASE \E K \in SUBSET Relays : Sweep(c, K)
  <2>1. PICK K : Sweep(c, K)
    BY <1>4
  <2>2. /\ Close(Finished(c) \union K) /\ K \in SUBSET Entries(c)
        /\ UNCHANGED sess /\ UNCHANGED <<wsq, pump>>
    BY <2>1 DEF Sweep, wsVars
  <2>3. Finished(c) \union K \in SUBSET Listed
    BY <1>2, <2>2
  <2> QED BY <1>1, <2>2, <2>3, StaysOn, ChannelsStay, CloseKeeps
<1>5. CASE \E i \in Ids : ConnectOverCap(c, i)
  BY <1>5, OverCapKeeps
<1>6. CASE \E i \in Ids, k \in Kinds : Connect(c, i, k)
  BY <1>6, ConnectKeeps
<1>7. CASE \E i \in Ids : Data(c, i)
  BY <1>7, DataKeeps
<1>8. CASE \E i \in Ids, n \in 0..Credit : ClientGrants(c, i, n)
  <2>1. PICK i \in Ids, n \in 0..Credit : ClientGrants(c, i, n)
    BY <1>8
  <2>2. PICK r \in Entry(c, i) : relay' = [relay EXCEPT ![r].credits = n]
    BY <2>1 DEF ClientGrants
  <2> DEFINE x == relay[r]
             y == [x EXCEPT !.credits = n]
  <2>3. r \in Relays /\ Fits(x) /\ x \in RelayState
    BY <1>1 DEF Tasks, Entry, Entries
  <2>4. relay' = [relay EXCEPT ![r] = y]
    BY <2>2
  <2>5. /\ y.kind = x.kind /\ y.queued = x.queued /\ y.listed = x.listed /\ y.pc = x.pc
        /\ y.conn = x.conn /\ y \in RelayState /\ y.input = x.input /\ y.pre = x.pre
    BY <2>3 DEF RelayState
  <2> HIDE DEF y
  <2>6. Held(y) = Held(x)
    BY <2>3, <2>5, HeldAt
  <2>7. Fits(y) /\ Same(x, y)
    BY <2>3, <2>5, <2>6 DEF Fits, Charged, Same
  <2>8. UNCHANGED <<sess, serverQueued, liveStreams>> /\ UNCHANGED <<wsq, pump>>
    BY <2>1 DEF ClientGrants, wsVars
  <2>9. Quietly(r)
    BY <1>1, <2>4, <2>5, <2>7, <2>8, ChannelsStay DEF Quietly, Becoming
  <2> QED BY <2>3, <2>9, QuietKeeps
<1>9. CASE RollBack(c)
  BY <1>9, RollBackKeeps
<1>10. CASE SaysBye(c) \/ SessionIsOver(c)
  <2>1. Close(Entries(c)) /\ sess' = [sess EXCEPT ![c].mode = "gone", ![c].at = "loop"]
        /\ sess[c].at # "rollback"
    BY <1>10 DEF SaysBye, SessionIsOver, Teardown, AtLoop
  <2>2. SessionGoes
    <3>1. /\ sess' \in [Sessions -> [mode: {"open", "drain", "gone"},
                                     at: {"loop", "rollback", "reply", "bye"}, v2: BOOLEAN]]
          /\ \A d \in Sessions \ {c} : sess'[d] = sess[d]
          /\ sess'[c].at = "loop"
      BY <1>1, <2>1 DEF Types
    <3> QED BY <2>1, <3>1 DEF SessionGoes, RollingBack
  <2>3. Channels
    <3>1. CASE SaysBye(c)
      BY <1>1, <3>1, ChannelsPush DEF SaysBye
    <3>2. CASE SessionIsOver(c)
      BY <1>1, <3>2, ChannelsStay DEF SessionIsOver, wsVars
    <3> QED BY <1>10, <3>1, <3>2
  <2> QED BY <1>2, <2>1, <2>2, <2>3, CloseKeeps
<1>11. CASE Reply(c) \/ Deadline(c) \/ DrainEnds(c)
  <2>1. UNCHANGED <<relay, serverQueued>> /\ UNCHANGED liveStreams
    BY <1>11 DEF Reply, Deadline, DrainEnds
  <2>2. SessionGoes
    <3>1. CASE Reply(c)
      BY <1>1, <3>1, GoesOn DEF Reply
    <3>2. CASE DrainEnds(c)
      BY <1>1, <3>2, GoesOn DEF DrainEnds, AtLoop
    <3>3. CASE Deadline(c)
      <4>1. sess' = [sess EXCEPT ![c].mode = "drain"]
        BY <3>3 DEF Deadline
      <4>2. /\ sess' \in [Sessions -> [mode: {"open", "drain", "gone"},
                                       at: {"loop", "rollback", "reply", "bye"}, v2: BOOLEAN]]
            /\ \A d \in Sessions : sess'[d].at = sess[d].at
        BY <1>1, <4>1 DEF Types
      <4> QED BY <4>2 DEF SessionGoes, RollingBack
    <3> QED BY <1>11, <3>1, <3>2, <3>3
  <2>3. Channels
    <3>1. CASE Reply(c)
      BY <1>1, <3>1, ChannelsPush DEF Reply
    <3>2. CASE Deadline(c) \/ DrainEnds(c)
      BY <1>1, <3>2, ChannelsStay DEF Deadline, DrainEnds, wsVars
    <3> QED BY <1>11, <3>1, <3>2
  <2>4. Tasks' /\ Queue' /\ Listed' = Listed
    BY <1>1, <2>1, RelaysStay
  <2>5. Types' /\ Slots'
    BY <1>1, <2>1, <2>2, <2>3, <2>4 DEF Types, Slots, SessionGoes, Channels
  <2> QED BY <2>4, <2>5 DEF StreamsIInv
<1> QED BY <1>3, <1>4, <1>5, <1>6, <1>7, <1>8, <1>9, <1>10, <1>11 DEF Session

LEMMA RelayKeeps ==
  ASSUME StreamsIInv, NEW r \in Relays, Prompt(r) \/ Takings(r) \/ Flushing(r) \/ Upstream(r)
  PROVE  StreamsIInv'
<1>1. Types /\ Tasks
  BY DEF StreamsIInv
<1>2. CASE Connected(r) \/ Ack(r) \/ Written(r) \/ Reads(r) \/ UdpSent(r)
  BY <1>1, <1>2, HopsQuiet, QuietKeeps
<1>3. CASE \/ ConnectFails(r) \/ FlushFails(r) \/ WriteFails(r) \/ DrainWriteFails(r)
           \/ ReadEof(r) \/ ReadFails(r) \/ UdpFails(r)
  BY <1>1, <1>3, EndsQuiet, QuietKeeps
<1>4. CASE FlushDone(r) \/ Credited(r)
  BY <1>1, <1>4, TopsQuiet, QuietKeeps
<1>5. CASE Grant(r) \/ Sends(r) \/ UdpRefused(r) \/ Closes(r)
  BY <1>1, <1>5, GrantQuiet, SendsQuiet, RefusedQuiet, ClosesQuiet, QuietKeeps
<1>6. CASE Buffer(r) \/ Flooded(r) \/ FlushWrites(r)
  BY <1>1, <1>6, BufferQuiet, FloodedQuiet, FlushQuiet, QuietKeeps
<1>7. CASE StarvedTakes(r) \/ SelectTakes(r) \/ UdpTakes(r)
  <2>1. \E from, to : /\ Takes(r, from, to)
                      /\ <<from, to>> \in {<<"starved", "drain">>, <<"select", "write">>,
                                           <<"udp", "udpSend">>}
    BY <1>7 DEF StarvedTakes, SelectTakes, UdpTakes
  <2> QED BY <1>1, <2>1, TakesQuiet, QuietKeeps
<1>8. CASE DischargeStream(r)
  BY <1>8, DischargeStreamKeeps
<1>9. CASE DischargeServer(r)
  BY <1>9, DischargeServerKeeps
<1> QED BY <1>2, <1>3, <1>4, <1>5, <1>6, <1>7, <1>8, <1>9
        DEF Prompt, Takings, Flushing, Upstream

LEMMA PumpKeeps ==
  ASSUME StreamsIInv, NEW c \in Sessions, Pump(c) \/ PumpBreaks(c)
  PROVE  StreamsIInv'
<1>1. Types /\ Tasks /\ Slots /\ Queue
  BY DEF StreamsIInv
<1>2. UNCHANGED <<relay, serverQueued>> /\ UNCHANGED <<sess, liveStreams>>
  BY DEF Pump, PumpBreaks
<1>3. Channels
  <2>1. wsq \in [Sessions -> 0..WsSlots] /\ pump \in [Sessions -> BOOLEAN]
    BY <1>1 DEF Types
  <2>2. CASE Pump(c)
    <3>1. wsq[c] - 1 \in 0..WsSlots
      BY <2>1, <2>2, StreamsAssumption DEF Pump
    <3> QED BY <2>1, <2>2, <3>1 DEF Pump, Channels
  <2>3. CASE PumpBreaks(c)
    <3>1. 0 \in 0..WsSlots
      BY StreamsAssumption
    <3> QED BY <2>1, <2>3, <3>1 DEF PumpBreaks, Channels
  <2> QED BY <2>2, <2>3
<1>4. Tasks' /\ Queue' /\ Listed' = Listed
  BY <1>1, <1>2, RelaysStay
<1>5. Types' /\ Slots'
  BY <1>1, <1>2, <1>3, <1>4, RestKept
<1> QED BY <1>4, <1>5 DEF StreamsIInv

LEMMA StreamsInitially == StreamsInit => StreamsIInv
<1> SUFFICES ASSUME StreamsInit PROVE StreamsIInv
  OBVIOUS
<1>1. /\ sess \in [Sessions -> [mode: {"open"}, at: {"loop"}, v2: BOOLEAN]]
      /\ relay = [r \in Relays |-> Free] /\ serverQueued = 0 /\ liveStreams = 0
      /\ wsq = [c \in Sessions |-> 0] /\ pump = [c \in Sessions |-> TRUE]
  BY DEF StreamsInit
<1>2. Types
  <2>1. 0 \in 0..WsSlots
    BY StreamsAssumption
  <2>2. \A s \in [mode: {"open"}, at: {"loop"}, v2: BOOLEAN] :
          s \in [mode: {"open", "drain", "gone"}, at: {"loop", "rollback", "reply", "bye"},
                 v2: BOOLEAN]
    OBVIOUS
  <2>3. sess \in [Sessions -> [mode: {"open", "drain", "gone"},
                               at: {"loop", "rollback", "reply", "bye"}, v2: BOOLEAN]]
    BY <1>1, <2>2
  <2> QED BY <1>1, <2>1, <2>3 DEF Types
<1>3. Tasks
  BY <1>1, FreeIs DEF Tasks, Fits
<1>4. Listed = {} /\ Halves = {} /\ RollingBack = {}
  BY <1>1, FreeIs DEF Listed, Halves, RollingBack, HalfDischarged
<1>5. Cardinality(Listed) = 0 /\ Cardinality(Halves) = 0 /\ Cardinality(RollingBack) = 0
  BY <1>4, FS_EmptySet
<1>6. QueuedBy(Listed) \in Nat
  BY HalvesFinite
<1>7. 0 \in 0..ServerBytes
  BY StreamsAssumption
<1>8. Slots /\ Queue
  BY <1>1, <1>5, <1>6, <1>7, StreamsAssumption DEF Slots, Queue
<1> QED BY <1>2, <1>3, <1>8 DEF StreamsIInv

LEMMA StreamsKept == StreamsIInv /\ [StreamsNext]_streamVars => StreamsIInv'
<1> SUFFICES ASSUME StreamsIInv, [StreamsNext]_streamVars PROVE StreamsIInv'
  OBVIOUS
<1>1. CASE UNCHANGED streamVars
  <2>1. UNCHANGED <<relay, serverQueued>> /\ UNCHANGED <<sess, liveStreams>>
        /\ UNCHANGED <<wsq, pump>>
    BY <1>1 DEF streamVars
  <2>2. Types /\ Tasks /\ Slots /\ Queue
    BY DEF StreamsIInv
  <2>3. Tasks' /\ Queue' /\ Listed' = Listed
    BY <2>1, <2>2, RelaysStay
  <2>4. Types' /\ Slots'
    BY <2>1, <2>2, <2>3, RestKept, ChannelsStay
  <2> QED BY <2>3, <2>4 DEF StreamsIInv
<1>2. CASE \E c \in Sessions : Pump(c) \/ PumpBreaks(c) \/ Session(c)
  BY <1>2, PumpKeeps, SessionKeeps
<1>3. CASE \E r \in Relays : Prompt(r) \/ Takings(r) \/ Flushing(r) \/ Upstream(r)
  BY <1>3, RelayKeeps
<1> QED BY <1>1, <1>2, <1>3 DEF StreamsNext

LEMMA AccountsImplied == StreamsIInv => StreamAccountsExact
<1> SUFFICES ASSUME StreamsIInv PROVE StreamAccountsExact
  OBVIOUS
<1>1. Types /\ Tasks /\ Slots /\ Queue
  BY DEF StreamsIInv
<1>2. liveStreams \in 0..(MaxOpen + Cardinality(Sessions))
  BY <1>1, HalvesFinite, RollingFinite, StreamsAssumption DEF Slots
<1>3. StreamsTypeOK
  BY <1>1, <1>2 DEF StreamsTypeOK, Types, Tasks, Queue
<1>4. StreamSlotsExact
  BY <1>1 DEF Slots, StreamSlotsExact, Listed, RollingBack
<1>5. ServerQueueIsOwed
  BY <1>1 DEF Queue, ServerQueueIsOwed, Listed, Halves
<1>6. HeldBytesAreCharged
  BY <1>1 DEF Tasks, Fits, Charged, HeldBytesAreCharged, Over0
<1> QED BY <1>3, <1>4, <1>5, <1>6 DEF StreamAccountsExact

\* The strengthening is inductive: what each relay holds and is charged for by
\* its place in relay_tcp, relay_udp and discharge(), and what the two shared
\* counters count.
THEOREM StreamsInductive == StreamsSpec => []StreamsIInv
<1>1. StreamsInit => StreamsIInv
  BY StreamsInitially
<1>2. StreamsIInv /\ [StreamsNext]_streamVars => StreamsIInv'
  BY StreamsKept
<1> QED BY <1>1, <1>2, PTL DEF StreamsSpec

\* The accounts of the server's streams are exact in every reachable state: the
\* types and caps, one slot for each open stream or reservation being rolled
\* back, every held byte charged, and no byte counted server-wide that no open
\* stream is charged for (Shared, reserve_stream_slot, try_account, discharge).
THEOREM AccountsAlwaysExact == StreamsSpec => []StreamAccountsExact
<1>1. StreamsIInv => StreamAccountsExact
  BY AccountsImplied
<1> QED BY <1>1, StreamsInductive, PTL
==============================================================================
