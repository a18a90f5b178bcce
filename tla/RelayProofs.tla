------------------------------ MODULE RelayProofs ------------------------------
(***************************************************************************)
(* Proofs about Relay, for any sets of fetches and ports, any credit and   *)
(* any length of a response; and about WsRelay, for any sockets and any    *)
(* bounds.                                                                 *)
(*                                                                         *)
(* The inductive invariant of Relay says of each fetch where it stands     *)
(* (Life), that credit is neither made nor lost on its way round (Flow),   *)
(* what the embedder has heard and said (Asks, Heads, Spare), and that a   *)
(* probe that saw no host page saw the death of this fetch's own (Seen).   *)
(* That of WsRelay is in the second half, with its proof.                  *)
(***************************************************************************)
EXTENDS Relay, WsRelay, SequenceTheorems, FunctionTheorems, FiniteSetTheorems, TLAPS

\* the frames that cost no credit and begin no stream
Plain == {"empty", "stray", "end", "error", "refused", "bad"}
Frames == {"head", "chunk"} \cup Plain
Orders == {"fetch", "grant", "credit", "cancel"}

\* how often m occurs in q
Count(q, m) == Cardinality({i \in 1..Len(q) : q[i] = m})
Extras(q) == Occurring(q, Plain)

Types ==
  /\ hostPort \in Ports \cup {None} /\ alive \subseteq Ports /\ backoff \in BOOLEAN
  /\ pc \in [Fetches -> {"idle", "asking", "parked", "go", "awaiting", "streaming", "ended"}]
  /\ res \in [Fetches -> {"none", "null", "unknown", "aborted", "error", "fault", "complete"}]
  /\ port \in [Fetches -> Ports \cup {None}]
  /\ waiters \subseteq Fetches
  /\ queue \in [Fetches -> Seq(Frames)]
  /\ terminal \in [Fetches -> {"no", "bytes", "frames", "bad"}]
  /\ probe \in [Fetches -> {"armed", "looking", "sawNone", "over", "dead"}]
  /\ down \in [Fetches -> Seq(Orders)] /\ up \in [Fetches -> Seq(Frames)]
  /\ host \in [Fetches -> {"none", "serving", "answering", "over"}]
  /\ balance \in [Fetches -> Nat] /\ sent \in [Fetches -> Nat]
  /\ free \in [Fetches -> Nat] /\ upstream \in [Fetches -> BOOLEAN]

Before == {"idle", "asking", "parked", "go"}

Life(f) ==
  /\ f \in waiters <=> pc[f] \in {"awaiting", "streaming"} /\ terminal[f] = "no"
  /\ pc[f] \in Before \cup {"awaiting"} => terminal[f] = "no" /\ queue[f] = <<>>
  /\ pc[f] # "ended" => res[f] = "none"
  /\ pc[f] \in Before => port[f] = None
  /\ pc[f] \in {"awaiting", "streaming"} => port[f] # None
  /\ port[f] = None => /\ down[f] = <<>> /\ up[f] = <<>> /\ queue[f] = <<>>
                       /\ host[f] = "none" /\ balance[f] = 0 /\ probe[f] = "armed"

\* what the frames on their way to the embedder are worth to it
Due(q) == Credit * Count(q, "grant") + Count(q, "credit")

\* the credit a fetch was granted is with the embedder, on its way there, or
\* spent on chunks that were not read yet
Flow(f) ==
  /\ port[f] \in Crediting =>
       /\ terminal[f] # "bytes"
       /\ balance[f] + Due(down[f]) + Count(up[f], "chunk") + Count(queue[f], "chunk") <= Credit
  /\ port[f] \notin Crediting =>
       balance[f] = 0 /\ Count(down[f], "grant") = 0 /\ Count(down[f], "credit") = 0
  /\ Count(queue[f], "chunk") <= 2 * Credit

\* the order reaches the embedder once, and a write that ended null it never served
Asks(f) ==
  /\ Count(down[f], "fetch") <= (IF host[f] = "none" THEN 1 ELSE 0)
  /\ Count(down[f], "fetch") >= 1 => down[f][1] = "fetch"
  /\ host[f] = "none" => up[f] = <<>> /\ ~upstream[f]
  /\ Count(up[f], "refused") >= 1 => ~upstream[f] /\ host[f] = "over"
  /\ f \notin Safe /\ res[f] = "null" =>
       ~upstream[f] /\ host[f] \in {"none", "over"} /\ Count(down[f], "fetch") = 0

\* it answers with one head
Heads(f) ==
  /\ Count(up[f], "head") <= (IF host[f] \in {"none", "serving"} THEN 0 ELSE 1)
  /\ pc[f] = "streaming" => host[f] \in {"answering", "over"} /\ Count(up[f], "head") = 0

\* what waits to be read is chunks and frames it posted without credit, so that a paced
\* stream outgrows the limit on frames only with more of both than the limit
Spare(f) ==
  /\ Extras(up[f]) + (IF terminal[f] = "no" THEN Extras(queue[f]) ELSE 0) <= free[f]
  /\ terminal[f] = "no" => Len(queue[f]) <= Count(queue[f], "chunk") + Extras(queue[f])
  /\ Len(queue[f]) <= FrameLimit
  /\ port[f] \in Crediting /\ terminal[f] = "frames" => Credit + free[f] > FrameLimit

Seen(f) == probe[f] = "sawNone" => port[f] \notin alive

FetchInv(f) == Life(f) /\ Flow(f) /\ Asks(f) /\ Heads(f) /\ Spare(f) /\ Seen(f)
IInv == Types /\ \A f \in Fetches : FetchInv(f)

--------------------------------------------------------------------------------
(* Counting in sequences. *)

LEMMA OccurringType ==
  ASSUME NEW T, NEW q \in Seq(T), NEW S
  PROVE  Occurring(q, S) \in Nat /\ IsFiniteSet({i \in 1..Len(q) : q[i] \in S})
<1>1. IsFiniteSet(1..Len(q)) /\ DOMAIN q = 1..Len(q)
  BY FS_Interval
<1>2. IsFiniteSet({i \in 1..Len(q) : q[i] \in S})
  BY <1>1, FS_Subset
<1> QED BY <1>1, <1>2, FS_CardinalityType DEF Occurring

LEMMA OccurringEmpty == \A S : Occurring(<<>>, S) = 0
<1> TAKE S
<1>1. {i \in DOMAIN <<>> : <<>>[i] \in S} = {}
  OBVIOUS
<1> QED BY <1>1, FS_EmptySet DEF Occurring

LEMMA OccurringAppend ==
  ASSUME NEW T, NEW q \in Seq(T), NEW e \in T, NEW S
  PROVE  Occurring(Append(q, e), S) = Occurring(q, S) + (IF e \in S THEN 1 ELSE 0)
<1> DEFINE A == {i \in 1..Len(q) : q[i] \in S}
           B == {i \in 1..Len(Append(q, e)) : Append(q, e)[i] \in S}
<1>0. Occurring(q, S) = Cardinality(A) /\ Occurring(Append(q, e), S) = Cardinality(B)
  <2>1. DOMAIN q = 1..Len(q) /\ DOMAIN Append(q, e) = 1..Len(Append(q, e))
    OBVIOUS
  <2> QED BY <2>1 DEF Occurring
<1>1. IsFiniteSet(A) /\ Cardinality(A) \in Nat
  BY OccurringType, FS_CardinalityType
<1>2. /\ Len(Append(q, e)) = Len(q) + 1 /\ Len(q) \in Nat
      /\ Append(q, e)[Len(q) + 1] = e
      /\ \A i \in 1..Len(q) : Append(q, e)[i] = q[i]
  OBVIOUS
<1>3. CASE e \in S
  <2>1. B = A \cup {Len(q) + 1} /\ Len(q) + 1 \notin A
    BY <1>2, <1>3
  <2> HIDE DEF A, B
  <2> QED BY <1>0, <1>1, <1>3, <2>1, FS_AddElement
<1>4. CASE e \notin S
  <2>1. B = A
    BY <1>2, <1>4
  <2> HIDE DEF A, B
  <2> QED BY <1>0, <1>1, <1>4, <2>1
<1> QED BY <1>3, <1>4

LEMMA OccurringTail ==
  ASSUME NEW T, NEW q \in Seq(T), q # <<>>, NEW S
  PROVE  Occurring(q, S) = Occurring(Tail(q), S) + (IF Head(q) \in S THEN 1 ELSE 0)
<1> DEFINE A == {i \in 1..Len(q) : q[i] \in S}
           B == {i \in 1..Len(Tail(q)) : Tail(q)[i] \in S}
           C == A \ {1}
           g == [i \in B |-> i + 1]
<1>0. Len(q) \in Nat /\ Len(q) >= 1
  BY EmptySeq
<1>1. /\ Tail(q) \in Seq(T) /\ Len(Tail(q)) = Len(q) - 1 /\ Head(q) = q[1]
      /\ \A i \in 1..(Len(q) - 1) : Tail(q)[i] = q[i + 1]
  BY <1>0, HeadTailProperties
<1>2. /\ IsFiniteSet(A) /\ Cardinality(A) \in Nat
      /\ IsFiniteSet(B) /\ Cardinality(B) \in Nat
  BY <1>1, OccurringType, FS_CardinalityType
<1>3. g \in Bijection(B, C)
  <2>1. \A i \in B : i + 1 \in C
    BY <1>0, <1>1
  <2>2. \A j \in C : j - 1 \in B /\ g[j - 1] = j
    BY <1>0, <1>1
  <2>3. g \in [B -> C]
    BY <2>1
  <2>4. \A i, j \in B : g[i] = g[j] => i = j
    BY <1>0, <1>1
  <2>5. \A j \in C : \E i \in B : g[i] = j
    BY <2>2
  <2> HIDE DEF B, C, g
  <2> QED BY <2>3, <2>4, <2>5, Fun_IsBij
<1>4. Cardinality(B) = Cardinality(C)
  <2>1. ExistsBijection(B, C)
    BY <1>3 DEF ExistsBijection
  <2>2. IsFiniteSet(C)
    BY <1>2, FS_Subset
  <2> QED BY <1>2, <2>1, <2>2, FS_Bijection
<1>5. 1 \in A <=> Head(q) \in S
  BY <1>0, <1>1
<1>6. Cardinality(C) = IF 1 \in A THEN Cardinality(A) - 1 ELSE Cardinality(A)
  BY <1>2, FS_RemoveElement
<1>7. Occurring(q, S) = Cardinality(A) /\ Occurring(Tail(q), S) = Cardinality(B)
  <2>1. DOMAIN q = 1..Len(q) /\ DOMAIN Tail(q) = 1..Len(Tail(q))
    BY <1>1
  <2> QED BY <2>1 DEF Occurring
<1> HIDE DEF A, B, C
<1> QED BY <1>2, <1>4, <1>5, <1>6, <1>7

LEMMA CountIsOccurring ==
  ASSUME NEW S, NEW q \in Seq(S), NEW m
  PROVE  Count(q, m) = Occurring(q, {m})
<1>1. {i \in 1..Len(q) : q[i] = m} = {i \in DOMAIN q : q[i] \in {m}}
  OBVIOUS
<1> QED BY <1>1 DEF Count, Occurring

LEMMA CountType ==
  ASSUME NEW S, NEW q \in Seq(S), NEW m
  PROVE  Count(q, m) \in Nat /\ IsFiniteSet({i \in 1..Len(q) : q[i] = m})
<1>1. {i \in 1..Len(q) : q[i] = m} = {i \in 1..Len(q) : q[i] \in {m}}
  OBVIOUS
<1>2. Count(q, m) = Occurring(q, {m})
  BY CountIsOccurring
<1>3. /\ Occurring(q, {m}) \in Nat
      /\ IsFiniteSet({i \in 1..Len(q) : q[i] \in {m}})
  BY OccurringType
<1> QED BY <1>1, <1>2, <1>3

LEMMA CountEmpty == \A m : Count(<<>>, m) = 0
<1> TAKE m
<1>1. {i \in 1..Len(<<>>) : <<>>[i] = m} = {}
  OBVIOUS
<1> QED BY <1>1, FS_EmptySet DEF Count

LEMMA CountAppend ==
  ASSUME NEW S, NEW q \in Seq(S), NEW e \in S, NEW m
  PROVE  Count(Append(q, e), m) = Count(q, m) + (IF e = m THEN 1 ELSE 0)
<1>1. Append(q, e) \in Seq(S)
  OBVIOUS
<1>2. Occurring(Append(q, e), {m}) = Occurring(q, {m}) + (IF e \in {m} THEN 1 ELSE 0)
  BY OccurringAppend
<1>3. Count(q, m) = Occurring(q, {m}) /\ Count(Append(q, e), m) = Occurring(Append(q, e), {m})
  BY <1>1, CountIsOccurring
<1> QED BY <1>2, <1>3

LEMMA CountTail ==
  ASSUME NEW S, NEW q \in Seq(S), q # <<>>, NEW m
  PROVE  Count(q, m) = Count(Tail(q), m) + (IF Head(q) = m THEN 1 ELSE 0)
<1>1. Tail(q) \in Seq(S)
  OBVIOUS
<1>2. Occurring(q, {m}) = Occurring(Tail(q), {m}) + (IF Head(q) \in {m} THEN 1 ELSE 0)
  BY OccurringTail
<1>3. Count(q, m) = Occurring(q, {m}) /\ Count(Tail(q), m) = Occurring(Tail(q), {m})
  BY <1>1, CountIsOccurring
<1> QED BY <1>2, <1>3

LEMMA CountZero ==
  ASSUME NEW S, NEW q \in Seq(S), NEW m, Count(q, m) = 0
  PROVE  \A i \in 1..Len(q) : q[i] # m
<1> DEFINE A == {i \in 1..Len(q) : q[i] = m}
<1>1. IsFiniteSet(A) /\ Cardinality(A) = 0
  BY CountType DEF Count
<1>2. A = {}
  BY <1>1, FS_EmptySet
<1> QED BY <1>2

--------------------------------------------------------------------------------
(* What one action does to the sequences and to the other fetches. *)

LEMMA CountsAreNat ==
  ASSUME Types, NEW f \in Fetches
  PROVE  \A m : /\ Count(down[f], m) \in Nat
                /\ Count(up[f], m) \in Nat
                /\ Count(queue[f], m) \in Nat
<1> TAKE m
<1>1. down[f] \in Seq(Orders) /\ up[f] \in Seq(Frames) /\ queue[f] \in Seq(Frames)
  BY DEF Types
<1> QED BY <1>1, CountType

LEMMA Told ==
  ASSUME Types, NEW f \in Fetches, NEW m \in Orders, Tell(f, m)
  PROVE  /\ down' \in [Fetches -> Seq(Orders)]
         /\ \A g \in Fetches : g # f => down'[g] = down[g]
         /\ Count(down'[f], "fetch") = Count(down[f], "fetch") + (IF m = "fetch" THEN 1 ELSE 0)
         /\ Count(down'[f], "grant") = Count(down[f], "grant") + (IF m = "grant" THEN 1 ELSE 0)
         /\ Count(down'[f], "credit") = Count(down[f], "credit") + (IF m = "credit" THEN 1 ELSE 0)
         /\ m \in {"fetch", "cancel"} => Due(down'[f]) = Due(down[f])
         /\ m = "credit" => Due(down'[f]) = Due(down[f]) + 1
         /\ Count(down[f], "fetch") >= 1 => down'[f][1] = down[f][1]
<1>1. down[f] \in Seq(Orders) /\ down'[f] = Append(down[f], m)
  BY DEF Types, Tell
<1>2. \A x : Count(down'[f], x) = Count(down[f], x) + (IF m = x THEN 1 ELSE 0)
  BY <1>1, CountAppend
<1>3. down' \in [Fetches -> Seq(Orders)] /\ \A g \in Fetches : g # f => down'[g] = down[g]
  BY <1>1 DEF Types, Tell
<1>4. ASSUME m # "grant"
      PROVE  /\ m \in {"fetch", "cancel"} => Due(down'[f]) = Due(down[f])
             /\ m = "credit" => Due(down'[f]) = Due(down[f]) + 1
  <2> DEFINE owed == Credit * Count(down[f], "grant")
  <2>1. Credit * Count(down'[f], "grant") = owed
    <3>1. Count(down[f], "grant") \in Nat /\ Count(down'[f], "grant") = Count(down[f], "grant") + 0
      BY <1>1, <1>2, <1>4, CountType
    <3>2. Count(down'[f], "grant") = Count(down[f], "grant")
      BY <3>1
    <3> QED BY <3>2
  <2>2. owed \in Nat /\ Count(down[f], "credit") \in Nat
    <3>1. Count(down[f], "grant") \in Nat /\ Count(down[f], "credit") \in Nat
      BY <1>1, CountType
    <3> QED BY <3>1, CreditAssumption
  <2>3. Count(down'[f], "credit") = Count(down[f], "credit") + (IF m = "credit" THEN 1 ELSE 0)
    BY <1>2
  <2>4. Due(down[f]) = owed + Count(down[f], "credit") /\ Due(down'[f]) = owed + Count(down'[f], "credit")
    BY <2>1 DEF Due
  <2> HIDE DEF owed
  <2> QED BY <2>2, <2>3, <2>4
<1>5. ASSUME Count(down[f], "fetch") >= 1 PROVE down'[f][1] = down[f][1]
  <2>1. down[f] # <<>>
    BY <1>5, CountEmpty
  <2>2. Len(down[f]) \in Nat /\ Len(down[f]) >= 1
    BY <1>1, <2>1, EmptySeq
  <2> QED BY <1>1, <2>2
<1> QED BY <1>2, <1>3, <1>4, <1>5

LEMMA Posted ==
  ASSUME Types, NEW f \in Fetches, NEW m \in Frames, Post(f, m)
  PROVE  /\ up' \in [Fetches -> Seq(Frames)]
         /\ \A g \in Fetches : g # f => up'[g] = up[g]
         /\ Count(up'[f], "head") = Count(up[f], "head") + (IF m = "head" THEN 1 ELSE 0)
         /\ Count(up'[f], "chunk") = Count(up[f], "chunk") + (IF m = "chunk" THEN 1 ELSE 0)
         /\ Count(up'[f], "refused") = Count(up[f], "refused") + (IF m = "refused" THEN 1 ELSE 0)
         /\ Extras(up'[f]) = Extras(up[f]) + (IF m \in Plain THEN 1 ELSE 0)
<1>1. up[f] \in Seq(Frames) /\ up'[f] = Append(up[f], m)
  BY DEF Types, Post
<1>2. \A x : Count(up'[f], x) = Count(up[f], x) + (IF m = x THEN 1 ELSE 0)
  BY <1>1, CountAppend
<1>3. up' \in [Fetches -> Seq(Frames)] /\ \A g \in Fetches : g # f => up'[g] = up[g]
  BY <1>1 DEF Types, Post
<1>4. Extras(up'[f]) = Extras(up[f]) + (IF m \in Plain THEN 1 ELSE 0)
  BY <1>1, OccurringAppend DEF Extras
<1> QED BY <1>2, <1>3, <1>4

LEMMA Cleaned ==
  ASSUME Types, NEW f \in Fetches, Cleanup(f)
  PROVE  /\ queue' \in [Fetches -> Seq(Frames)] /\ waiters' \subseteq Fetches
         /\ queue'[f] = <<>> /\ f \notin waiters' /\ Count(queue'[f], "chunk") = 0
         /\ \A g \in Fetches : g # f => queue'[g] = queue[g] /\ (g \in waiters' <=> g \in waiters)
  BY CountEmpty DEF Types, Cleanup

\* every other fetch stands where it stood
Only(f) ==
  /\ \A g \in Fetches \ {f} :
       /\ pc'[g] = pc[g] /\ res'[g] = res[g] /\ port'[g] = port[g]
       /\ terminal'[g] = terminal[g] /\ queue'[g] = queue[g] /\ probe'[g] = probe[g]
       /\ down'[g] = down[g] /\ up'[g] = up[g] /\ host'[g] = host[g]
       /\ balance'[g] = balance[g] /\ free'[g] = free[g] /\ upstream'[g] = upstream[g]
       /\ g \in waiters' <=> g \in waiters
  /\ alive' = alive

LEMMA OneFetch ==
  ASSUME IInv, NEW f \in Fetches, Types', Only(f), FetchInv(f)'
  PROVE  IInv'
<1>1. ASSUME NEW g \in Fetches, g # f PROVE FetchInv(g)'
  <2>1. FetchInv(g)
    BY DEF IInv
  <2>2. Life(g)'
    BY <1>1, <2>1 DEF FetchInv, Life, Only
  <2>3. Flow(g)'
    BY <1>1, <2>1 DEF FetchInv, Flow, Only
  <2>4. Asks(g)' /\ Heads(g)' /\ Spare(g)'
    BY <1>1, <2>1 DEF FetchInv, Asks, Heads, Spare, Only
  <2>5. Seen(g)'
    BY <1>1, <2>1 DEF FetchInv, Seen, Only
  <2> QED BY <2>2, <2>3, <2>4, <2>5 DEF FetchInv
<1> QED BY <1>1 DEF IInv

--------------------------------------------------------------------------------
(* The steps of the worker. *)

LEMMA BeginKeeps == ASSUME IInv, NEW f \in Fetches, Begin(f) PROVE IInv'
<1>1. Types'
  BY DEF IInv, Types, Begin, channel, link, remote
<1>2. Only(f)
  BY DEF IInv, Types, Begin, Only, channel, link, remote
<1>3. FetchInv(f)'
  BY CountEmpty, CreditAssumption, SetsAssumption, NoneAssumption
     DEF IInv, Types, FetchInv, Life, Flow, Due, Asks, Heads, Spare, Seen, Before, Begin, channel, link, remote
<1> QED BY <1>1, <1>2, <1>3, OneFetch

LEMMA AskedKeeps == ASSUME IInv, NEW f \in Fetches, Asked(f) PROVE IInv'
<1>1. Types'
  BY DEF IInv, Types, Asked, channel, link, remote
<1>2. Only(f)
  BY DEF IInv, Types, Asked, Only, channel, link, remote
<1>3. FetchInv(f)'
  BY CountEmpty, CreditAssumption, SetsAssumption, NoneAssumption
     DEF IInv, Types, FetchInv, Life, Flow, Due, Asks, Heads, Spare, Seen, Before, Asked, channel, link, remote
<1> QED BY <1>1, <1>2, <1>3, OneFetch

LEMMA ParkDeadlineKeeps == ASSUME IInv, NEW f \in Fetches, ParkDeadline(f) PROVE IInv'
<1>1. Types'
  BY DEF IInv, Types, ParkDeadline, channel, link, remote
<1>2. Only(f)
  BY DEF IInv, Types, ParkDeadline, Only, channel, link, remote
<1>3. FetchInv(f)'
  BY CountEmpty, CreditAssumption, SetsAssumption, NoneAssumption
     DEF IInv, Types, FetchInv, Life, Flow, Due, Asks, Heads, Spare, Seen, Before, ParkDeadline, channel, link, remote
<1> QED BY <1>1, <1>2, <1>3, OneFetch

LEMMA NotCarriedKeeps == ASSUME IInv, NEW f \in Fetches, NotCarried(f) PROVE IInv'
<1>1. Types'
  BY DEF IInv, Types, NotCarried, channel, link, remote, End
<1>2. Only(f)
  BY DEF IInv, Types, NotCarried, Only, channel, link, remote, End
<1>3. FetchInv(f)'
  BY CountEmpty, CreditAssumption, SetsAssumption, NoneAssumption
     DEF IInv, Types, FetchInv, Life, Flow, Due, Asks, Heads, Spare, Seen, Before, NotCarried, channel, link, remote, End
<1> QED BY <1>1, <1>2, <1>3, OneFetch

LEMMA SendThrowsKeeps == ASSUME IInv, NEW f \in Fetches, SendThrows(f) PROVE IInv'
<1>1. Types'
  BY DEF IInv, Types, SendThrows, channel, link, remote, End, AfterDispatch
<1>2. Only(f)
  BY DEF IInv, Types, SendThrows, Only, channel, link, remote, End, AfterDispatch
<1>3. FetchInv(f)'
  BY CountEmpty, CreditAssumption, SetsAssumption, NoneAssumption
     DEF IInv, Types, FetchInv, Life, Flow, Due, Asks, Heads, Spare, Seen, Before, SendThrows, channel, link, remote, End, AfterDispatch
<1> QED BY <1>1, <1>2, <1>3, OneFetch

LEMMA ProbeFiresKeeps == ASSUME IInv, NEW f \in Fetches, ProbeFires(f) PROVE IInv'
<1>1. Types'
  BY DEF IInv, Types, ProbeFires, channel, link, remote
<1>2. Only(f)
  BY DEF IInv, Types, ProbeFires, Only, channel, link, remote
<1>3. FetchInv(f)'
  BY CountEmpty, CreditAssumption, SetsAssumption, NoneAssumption
     DEF IInv, Types, FetchInv, Life, Flow, Due, Asks, Heads, Spare, Seen, Before, ProbeFires, channel, link, remote
<1> QED BY <1>1, <1>2, <1>3, OneFetch

LEMMA ProbeLooksKeeps == ASSUME IInv, NEW f \in Fetches, ProbeLooks(f) PROVE IInv'
<1>1. Types'
  BY DEF IInv, Types, ProbeLooks, channel, link, remote
<1>2. Only(f)
  BY DEF IInv, Types, ProbeLooks, Only, channel, link, remote
<1>3. FetchInv(f)'
  BY CountEmpty, CreditAssumption, SetsAssumption, NoneAssumption
     DEF IInv, Types, FetchInv, Life, Flow, Due, Asks, Heads, Spare, Seen, Before, ProbeLooks, channel, link, remote
<1> QED BY <1>1, <1>2, <1>3, OneFetch

LEMMA HostForwardsKeeps == ASSUME IInv, NEW f \in Fetches, HostForwards(f) PROVE IInv'
<1>1. Types'
  BY DEF IInv, Types, HostForwards, channel, link, remote, Serves
<1>2. Only(f)
  BY DEF IInv, Types, HostForwards, Only, channel, link, remote, Serves
<1>3. FetchInv(f)'
  BY CountEmpty, CreditAssumption, SetsAssumption, NoneAssumption
     DEF IInv, Types, FetchInv, Life, Flow, Due, Asks, Heads, Spare, Seen, Before, HostForwards, channel, link, remote, Serves
<1> QED BY <1>1, <1>2, <1>3, OneFetch


\* the parts of one fetch, and what is counted in its sequences
Parts(f) ==
  /\ pc[f] \in {"idle", "asking", "parked", "go", "awaiting", "streaming", "ended"}
  /\ host[f] \in {"none", "serving", "answering", "over"}
  /\ balance[f] \in Nat /\ upstream[f] \in BOOLEAN
  /\ Credit \in Nat /\ Credit >= 1 /\ None \notin Crediting
  /\ Count(down[f], "fetch") \in Nat /\ Count(down[f], "grant") \in Nat
  /\ Count(down[f], "credit") \in Nat /\ Due(down[f]) \in Nat
  /\ Count(up[f], "head") \in Nat /\ Count(up[f], "chunk") \in Nat
  /\ Count(up[f], "refused") \in Nat /\ Count(queue[f], "chunk") \in Nat
  /\ Extras(up[f]) \in Nat /\ Extras(queue[f]) \in Nat
  /\ Len(queue[f]) \in Nat /\ free[f] \in Nat /\ FrameLimit \in Nat /\ FrameLimit >= 1

LEMMA PartsOK == ASSUME IInv, NEW f \in Fetches PROVE Parts(f)
<1>1. \A x : /\ Count(down[f], x) \in Nat
             /\ Count(up[f], x) \in Nat
             /\ Count(queue[f], x) \in Nat
  BY CountsAreNat DEF IInv
<1>2. /\ pc[f] \in {"idle", "asking", "parked", "go", "awaiting", "streaming", "ended"}
      /\ host[f] \in {"none", "serving", "answering", "over"}
      /\ balance[f] \in Nat /\ upstream[f] \in BOOLEAN
      /\ Credit \in Nat /\ Credit >= 1 /\ None \notin Crediting
  BY CreditAssumption, SetsAssumption, NoneAssumption DEF IInv, Types, None
<1>3. Due(down[f]) \in Nat
  BY <1>1, <1>2 DEF Due
<1>4. /\ Extras(up[f]) \in Nat /\ Extras(queue[f]) \in Nat
      /\ Len(queue[f]) \in Nat /\ free[f] \in Nat /\ FrameLimit \in Nat /\ FrameLimit >= 1
  <2>1. up[f] \in Seq(Frames) /\ queue[f] \in Seq(Frames) /\ free[f] \in Nat
    BY DEF IInv, Types
  <2>2. Extras(up[f]) \in Nat /\ Extras(queue[f]) \in Nat
    BY <2>1, OccurringType DEF Extras
  <2> QED BY <2>1, <2>2, CreditAssumption
<1> QED BY <1>1, <1>2, <1>3, <1>4 DEF Parts

LEMMA EmptyCounts ==
  /\ Len(<<>>) = 0 /\ Due(<<>>) = 0 /\ Extras(<<>>) = 0
  /\ Count(<<>>, "fetch") = 0 /\ Count(<<>>, "grant") = 0 /\ Count(<<>>, "credit") = 0
  /\ Count(<<>>, "head") = 0 /\ Count(<<>>, "chunk") = 0 /\ Count(<<>>, "refused") = 0
  BY CountEmpty, OccurringEmpty, CreditAssumption DEF Due, Extras

LEMMA ToldCancel ==
  ASSUME Types, NEW f \in Fetches, Tell(f, "cancel")
  PROVE  /\ down' \in [Fetches -> Seq(Orders)]
         /\ \A g \in Fetches : g # f => down'[g] = down[g]
         /\ Due(down'[f]) = Due(down[f])
         /\ Count(down'[f], "fetch") = Count(down[f], "fetch")
         /\ Count(down'[f], "grant") = Count(down[f], "grant")
         /\ Count(down'[f], "credit") = Count(down[f], "credit")
         /\ Count(down[f], "fetch") >= 1 => down'[f][1] = down[f][1]
<1>1. "cancel" \in Orders
  BY DEF Orders
<1>2. Count(down[f], "fetch") \in Nat /\ Count(down[f], "grant") \in Nat /\ Count(down[f], "credit") \in Nat
  BY CountsAreNat
<1>3. /\ Count(down'[f], "fetch") = Count(down[f], "fetch") + 0
      /\ Count(down'[f], "grant") = Count(down[f], "grant") + 0
      /\ Count(down'[f], "credit") = Count(down[f], "credit") + 0
  BY <1>1, Told
<1>4. Due(down'[f]) = Due(down[f])
  BY <1>1, Told
<1>5. down' \in [Fetches -> Seq(Orders)] /\ \A g \in Fetches : g # f => down'[g] = down[g]
  BY <1>1, Told
<1>6. Count(down[f], "fetch") >= 1 => down'[f][1] = down[f][1]
  BY <1>1, Told
<1> QED BY <1>2, <1>3, <1>4, <1>5, <1>6

LEMMA ToldCredit ==
  ASSUME Types, NEW f \in Fetches, Tell(f, "credit")
  PROVE  /\ down' \in [Fetches -> Seq(Orders)]
         /\ \A g \in Fetches : g # f => down'[g] = down[g]
         /\ Due(down'[f]) = Due(down[f]) + 1
         /\ Count(down'[f], "fetch") = Count(down[f], "fetch")
         /\ Count(down[f], "fetch") >= 1 => down'[f][1] = down[f][1]
<1>1. "credit" \in Orders
  BY DEF Orders
<1>2. Count(down[f], "fetch") \in Nat
  BY CountsAreNat
<1>3. Count(down'[f], "fetch") = Count(down[f], "fetch") + 0
  BY <1>1, Told
<1>4. Due(down'[f]) = Due(down[f]) + 1
  BY <1>1, Told
<1>5. down' \in [Fetches -> Seq(Orders)] /\ \A g \in Fetches : g # f => down'[g] = down[g]
  BY <1>1, Told
<1>6. Count(down[f], "fetch") >= 1 => down'[f][1] = down[f][1]
  BY <1>1, Told
<1> QED BY <1>2, <1>3, <1>4, <1>5, <1>6

\* a fetch or its stream ends, whatever was on its way to it is read or not
Ends(f) ==
  /\ pc[f] \in {"awaiting", "streaming"} /\ pc'[f] = "ended"
  /\ f \notin waiters' /\ queue'[f] = <<>>
  /\ port'[f] = port[f] /\ terminal'[f] = terminal[f] /\ host'[f] = host[f]
  /\ balance'[f] = balance[f] /\ free'[f] = free[f] /\ upstream'[f] = upstream[f]
  /\ Extras(up'[f]) \in Nat /\ Extras(up'[f]) <= Extras(up[f])
  /\ probe'[f] = "sawNone" => probe[f] = "sawNone"
  /\ Due(down'[f]) = Due(down[f])
  /\ Count(down'[f], "fetch") = Count(down[f], "fetch")
  /\ Count(down'[f], "grant") = Count(down[f], "grant")
  /\ Count(down'[f], "credit") = Count(down[f], "credit")
  /\ Count(down[f], "fetch") >= 1 => down'[f][1] = down[f][1]
  /\ up[f] = <<>> => up'[f] = <<>>
  /\ Count(up'[f], "chunk") \in Nat /\ Count(up'[f], "chunk") <= Count(up[f], "chunk")
  /\ Count(up'[f], "head") \in Nat /\ Count(up'[f], "head") <= Count(up[f], "head")
  /\ Count(up'[f], "refused") \in Nat /\ Count(up'[f], "refused") <= Count(up[f], "refused")
  /\ f \notin Safe /\ res'[f] = "null" =>
       ~upstream[f] /\ host[f] = "over" /\ Count(down[f], "fetch") = 0

LEMMA EndsKeeps == ASSUME IInv, NEW f \in Fetches, Types', Only(f), Ends(f) PROVE IInv'
<1>0. FetchInv(f) /\ Parts(f)
  BY PartsOK DEF IInv
<1>1. Life(f)'
  BY <1>0 DEF FetchInv, Life, Before, Ends
<1>2. Flow(f)'
  <2>1. Count(queue'[f], "chunk") = 0
    BY EmptyCounts DEF Ends
  <2>2. CASE port[f] \in Crediting
    <3>1. /\ terminal[f] # "bytes"
          /\ balance[f] + Due(down[f]) + Count(up[f], "chunk") + Count(queue[f], "chunk") <= Credit
      BY <1>0, <2>2 DEF FetchInv, Flow
    <3>2. /\ balance[f] \in Nat /\ Due(down[f]) \in Nat /\ Count(up[f], "chunk") \in Nat
          /\ Count(queue[f], "chunk") \in Nat /\ Credit \in Nat
      BY <1>0 DEF Parts
    <3>3. balance'[f] + Due(down'[f]) + Count(up'[f], "chunk") + Count(queue'[f], "chunk") <= Credit
      BY <2>1, <3>1, <3>2 DEF Ends
    <3> QED BY <1>0, <2>1, <2>2, <3>1, <3>2, <3>3 DEF Flow, Ends
  <2>3. CASE port[f] \notin Crediting
    <3>1. Credit \in Nat
      BY <1>0 DEF Parts
    <3>2. balance[f] = 0 /\ Count(down[f], "grant") = 0 /\ Count(down[f], "credit") = 0
      BY <1>0, <2>3 DEF FetchInv, Flow
    <3> QED BY <2>1, <2>3, <3>1, <3>2 DEF Flow, Ends
  <2> QED BY <2>2, <2>3
<1>3. Asks(f)'
  <2>1. Asks(f) /\ Count(up[f], "refused") \in Nat
    BY <1>0 DEF FetchInv, Parts
  <2>2. Count(up'[f], "refused") >= 1 => Count(up[f], "refused") >= 1
    BY <2>1 DEF Ends
  <2> QED BY <2>1, <2>2 DEF Asks, Ends
<1>4. Heads(f)'
  <2>1. Count(up[f], "head") \in Nat /\ Count(up[f], "head") <= (IF host[f] \in {"none", "serving"} THEN 0 ELSE 1)
    BY <1>0 DEF FetchInv, Heads, Parts
  <2>2. /\ pc'[f] = "ended" /\ host'[f] = host[f]
        /\ Count(up'[f], "head") \in Nat /\ Count(up'[f], "head") <= Count(up[f], "head")
    BY DEF Ends
  <2>3. Count(up'[f], "head") <= (IF host'[f] \in {"none", "serving"} THEN 0 ELSE 1)
    BY <2>1, <2>2
  <2> QED BY <2>2, <2>3 DEF Heads
<1>5. Spare(f)'
  <2>1. /\ Extras(up[f]) \in Nat /\ Extras(queue[f]) \in Nat /\ free[f] \in Nat
        /\ FrameLimit \in Nat /\ FrameLimit >= 1 /\ Spare(f)
    BY <1>0 DEF FetchInv, Parts
  <2>2. /\ Len(queue'[f]) = 0 /\ Count(queue'[f], "chunk") = 0 /\ Extras(queue'[f]) = 0
    BY EmptyCounts DEF Ends
  <2>3. Extras(up[f]) <= free[f]
    BY <2>1 DEF Spare
  <2>4. Extras(up'[f]) <= free'[f]
    BY <2>1, <2>3 DEF Ends
  <2> QED BY <2>1, <2>2, <2>4 DEF Spare, Ends
<1>6. Seen(f)'
  BY <1>0 DEF FetchInv, Seen, Ends, Only
<1> QED BY <1>1, <1>2, <1>3, <1>4, <1>5, <1>6, OneFetch DEF FetchInv

LEMMA AbortKeeps == ASSUME IInv, NEW f \in Fetches, Abort(f) PROVE IInv'
<1>0. Types /\ Parts(f) /\ FetchInv(f)
  BY PartsOK DEF IInv
<1>1. /\ queue' \in [Fetches -> Seq(Frames)] /\ waiters' \subseteq Fetches
      /\ queue'[f] = <<>> /\ f \notin waiters'
      /\ \A g \in Fetches : g # f => queue'[g] = queue[g] /\ (g \in waiters' <=> g \in waiters)
  BY <1>0, Cleaned DEF Abort
<1>2. /\ down' \in [Fetches -> Seq(Orders)]
      /\ \A g \in Fetches : g # f => down'[g] = down[g]
      /\ Due(down'[f]) = Due(down[f])
      /\ Count(down'[f], "fetch") = Count(down[f], "fetch")
      /\ Count(down'[f], "grant") = Count(down[f], "grant")
      /\ Count(down'[f], "credit") = Count(down[f], "credit")
      /\ Count(down[f], "fetch") >= 1 => down'[f][1] = down[f][1]
  BY <1>0, ToldCancel DEF Abort
<1>3. Types'
  BY <1>0, <1>1, <1>2 DEF Types, Abort, End, channel, link, remote
<1>4. Only(f)
  BY <1>0, <1>1, <1>2 DEF Types, Abort, End, Only, channel, link, remote
<1>v. /\ pc[f] \in {"awaiting", "streaming"} /\ pc'[f] = "ended"
      /\ port' = port /\ terminal' = terminal /\ host' = host /\ balance' = balance
      /\ free' = free /\ upstream' = upstream /\ probe' = probe /\ up' = up
      /\ f \notin Safe => res'[f] # "null"
  BY <1>0 DEF Types, Abort, End, channel, link, remote
<1>n. /\ Count(up[f], "chunk") \in Nat /\ Count(up[f], "head") \in Nat
      /\ Count(up[f], "refused") \in Nat /\ Extras(up[f]) \in Nat
  BY <1>0 DEF Parts
<1>5. Ends(f)
  BY <1>1, <1>2, <1>v, <1>n DEF Ends
<1> QED BY <1>3, <1>4, <1>5, EndsKeeps

LEMMA HeaderDeadlineKeeps == ASSUME IInv, NEW f \in Fetches, HeaderDeadline(f) PROVE IInv'
<1>0. Types /\ Parts(f) /\ FetchInv(f)
  BY PartsOK DEF IInv
<1>1. /\ queue' \in [Fetches -> Seq(Frames)] /\ waiters' \subseteq Fetches
      /\ queue'[f] = <<>> /\ f \notin waiters'
      /\ \A g \in Fetches : g # f => queue'[g] = queue[g] /\ (g \in waiters' <=> g \in waiters)
  BY <1>0, Cleaned DEF HeaderDeadline
<1>2. /\ down' \in [Fetches -> Seq(Orders)]
      /\ \A g \in Fetches : g # f => down'[g] = down[g]
      /\ Due(down'[f]) = Due(down[f])
      /\ Count(down'[f], "fetch") = Count(down[f], "fetch")
      /\ Count(down'[f], "grant") = Count(down[f], "grant")
      /\ Count(down'[f], "credit") = Count(down[f], "credit")
      /\ Count(down[f], "fetch") >= 1 => down'[f][1] = down[f][1]
  BY <1>0, ToldCancel DEF HeaderDeadline
<1>3. Types'
  BY <1>0, <1>1, <1>2 DEF Types, HeaderDeadline, End, AfterDispatch, channel, link, remote
<1>4. Only(f)
  BY <1>0, <1>1, <1>2 DEF Types, HeaderDeadline, End, AfterDispatch, Only, channel, link, remote
<1>v. /\ pc[f] \in {"awaiting", "streaming"} /\ pc'[f] = "ended"
      /\ port' = port /\ terminal' = terminal /\ host' = host /\ balance' = balance
      /\ free' = free /\ upstream' = upstream /\ probe' = probe /\ up' = up
      /\ f \notin Safe => res'[f] # "null"
  BY <1>0 DEF Types, HeaderDeadline, End, AfterDispatch, channel, link, remote
<1>n. /\ Count(up[f], "chunk") \in Nat /\ Count(up[f], "head") \in Nat
      /\ Count(up[f], "refused") \in Nat /\ Extras(up[f]) \in Nat
  BY <1>0 DEF Parts
<1>5. Ends(f)
  BY <1>1, <1>2, <1>v, <1>n DEF Ends
<1> QED BY <1>3, <1>4, <1>5, EndsKeeps

LEMMA ProbeConcludesKeeps == ASSUME IInv, NEW f \in Fetches, ProbeConcludes(f) PROVE IInv'
<1>0. Types /\ Parts(f) /\ FetchInv(f)
  BY PartsOK DEF IInv
<1>1. CASE DropsPort(f) /\ pc[f] = "awaiting"
  <2>1. /\ queue' \in [Fetches -> Seq(Frames)] /\ waiters' \subseteq Fetches
        /\ queue'[f] = <<>> /\ f \notin waiters'
        /\ \A g \in Fetches : g # f => queue'[g] = queue[g] /\ (g \in waiters' <=> g \in waiters)
    BY <1>0, <1>1, Cleaned DEF ProbeConcludes
  <2>2. Types'
    BY ZenonT(40), <1>0, <1>1, <2>1 DEF Types, ProbeConcludes, End, AfterDispatch, link, remote
  <2>3. Only(f)
    BY <1>0, <1>1, <2>1 DEF Types, ProbeConcludes, End, AfterDispatch, Only, link, remote
  <2>v. /\ pc[f] \in {"awaiting", "streaming"} /\ pc'[f] = "ended"
        /\ port' = port /\ terminal' = terminal /\ host' = host /\ balance' = balance
        /\ free' = free /\ upstream' = upstream /\ probe'[f] = "dead" /\ up' = up /\ down' = down
        /\ f \notin Safe => res'[f] # "null"
    BY <1>0, <1>1 DEF Types, ProbeConcludes, End, AfterDispatch, link, remote
  <2>n. /\ Count(up[f], "chunk") \in Nat /\ Count(up[f], "head") \in Nat
        /\ Count(up[f], "refused") \in Nat /\ Extras(up[f]) \in Nat
    BY <1>0 DEF Parts
  <2>4. Ends(f)
    BY <2>1, <2>v, <2>n DEF Ends
  <2> QED BY <2>2, <2>3, <2>4, EndsKeeps
<1>2. CASE ~(DropsPort(f) /\ pc[f] = "awaiting")
  <2>1. Types'
    BY <1>0, <1>2 DEF Types, ProbeConcludes, link, remote
  <2>2. Only(f)
    BY <1>0, <1>2 DEF Types, ProbeConcludes, Only, link, remote
  <2>3. /\ pc' = pc /\ res' = res /\ port' = port /\ terminal' = terminal /\ queue' = queue
        /\ waiters' = waiters /\ down' = down /\ up' = up /\ host' = host /\ balance' = balance
        /\ free' = free /\ upstream' = upstream /\ alive' = alive
        /\ probe[f] = "sawNone" /\ probe'[f] \in {"dead", "over"}
    BY <1>0, <1>2 DEF Types, ProbeConcludes, link, remote
  <2>4. FetchInv(f)'
    <3>1. Life(f)'
      BY <1>0, <2>3 DEF FetchInv, Life
    <3>2. Flow(f)' /\ Asks(f)' /\ Heads(f)' /\ Spare(f)'
      BY <1>0, <2>3 DEF FetchInv, Flow, Asks, Heads, Spare
    <3>3. Seen(f)'
      BY <2>3 DEF Seen
    <3> QED BY <3>1, <3>2, <3>3 DEF FetchInv
  <2> QED BY <2>1, <2>2, <2>4, OneFetch
<1> QED BY <1>1, <1>2

LEMMA PullKeeps == ASSUME IInv, NEW f \in Fetches, Pull(f) PROVE IInv'
<1>0. Types /\ Parts(f) /\ FetchInv(f)
  BY PartsOK DEF IInv
<1>q. queue[f] \in Seq(Frames) /\ queue[f] # <<>> /\ pc[f] = "streaming"
  BY <1>0 DEF Types, Pull
<1>1. CASE Head(queue[f]) \notin {"chunk", "empty"}
  <2>1. /\ queue' \in [Fetches -> Seq(Frames)] /\ waiters' \subseteq Fetches
        /\ queue'[f] = <<>> /\ f \notin waiters'
        /\ \A g \in Fetches : g # f => queue'[g] = queue[g] /\ (g \in waiters' <=> g \in waiters)
    BY <1>0, <1>1, Cleaned DEF Pull
  <2>2. Types'
    BY <1>0, <1>1, <2>1 DEF Types, Pull, End, Ending, channel, remote
  <2>3. Only(f)
    BY <1>0, <1>1, <2>1 DEF Types, Pull, End, Only, channel, remote
  <2>v. /\ pc[f] \in {"awaiting", "streaming"} /\ pc'[f] = "ended"
        /\ port' = port /\ terminal' = terminal /\ host' = host /\ balance' = balance
        /\ free' = free /\ upstream' = upstream /\ probe' = probe /\ up' = up /\ down' = down
        /\ res'[f] # "null"
    BY <1>0, <1>1 DEF Types, Pull, End, Ending, channel, remote
  <2>n. /\ Count(up[f], "chunk") \in Nat /\ Count(up[f], "head") \in Nat
        /\ Count(up[f], "refused") \in Nat /\ Extras(up[f]) \in Nat
    BY <1>0 DEF Parts
  <2>4. Ends(f)
    BY <2>1, <2>v, <2>n DEF Ends
  <2> QED BY <2>2, <2>3, <2>4, EndsKeeps
<1>2. CASE Head(queue[f]) \in {"chunk", "empty"}
  <2> DEFINE m == Head(queue[f])
  <2>1. /\ queue' = [queue EXCEPT ![f] = Tail(@)]
        /\ IF m = "chunk" /\ port[f] \in Crediting THEN Tell(f, "credit") ELSE UNCHANGED down
        /\ UNCHANGED <<pc, res, waiters, channel, port, terminal, probe, up, remote>>
    BY <1>2 DEF Pull
  <2>2. /\ queue'[f] = Tail(queue[f]) /\ Tail(queue[f]) \in Seq(Frames)
        /\ queue' \in [Fetches -> Seq(Frames)]
        /\ \A g \in Fetches : g # f => queue'[g] = queue[g]
    BY <1>0, <1>q, <2>1, HeadTailProperties DEF Types
  <2>3. /\ Count(queue[f], "chunk") = Count(queue'[f], "chunk") + (IF m = "chunk" THEN 1 ELSE 0)
        /\ Extras(queue[f]) = Extras(queue'[f]) + (IF m \in Plain THEN 1 ELSE 0)
    BY <1>q, <2>2, CountTail, OccurringTail DEF Extras
  <2>4. Count(queue'[f], "chunk") \in Nat /\ Extras(queue'[f]) \in Nat
    BY <2>2, CountType, OccurringType DEF Extras
  <2>5. m = "empty" <=> m \in Plain
    BY <1>2 DEF Plain
  <2>6. Len(queue'[f]) = Len(queue[f]) - 1 /\ Len(queue[f]) \in Nat
    BY <1>q, <2>2
  <2>7. /\ down' \in [Fetches -> Seq(Orders)]
        /\ \A g \in Fetches : g # f => down'[g] = down[g]
        /\ Due(down'[f]) = Due(down[f]) + (IF m = "chunk" /\ port[f] \in Crediting THEN 1 ELSE 0)
        /\ Count(down'[f], "fetch") = Count(down[f], "fetch")
        /\ Count(down[f], "fetch") >= 1 => down'[f][1] = down[f][1]
        /\ port[f] \notin Crediting => down' = down
    <3>1. CASE m = "chunk" /\ port[f] \in Crediting
      BY <1>0, <2>1, <3>1, ToldCredit
    <3>2. CASE ~(m = "chunk" /\ port[f] \in Crediting)
      <4>1. down' = down /\ Due(down[f]) \in Nat /\ down \in [Fetches -> Seq(Orders)]
        BY <1>0, <2>1, <3>2 DEF Types, Parts
      <4> QED BY <3>2, <4>1
    <3> QED BY <3>1, <3>2
  <2>8. Types'
    BY <1>0, <2>1, <2>2, <2>7 DEF Types, channel, remote
  <2>9. Only(f)
    BY <1>0, <2>1, <2>2, <2>7 DEF Types, Only, channel, remote
  <2>10. /\ pc' = pc /\ res' = res /\ port' = port /\ terminal' = terminal
         /\ waiters' = waiters /\ up' = up /\ host' = host /\ balance' = balance /\ free' = free
         /\ upstream' = upstream /\ alive' = alive /\ probe' = probe /\ port[f] # None
    BY <1>0, <1>q, <2>1 DEF channel, remote, FetchInv, Life
  <2>11. Life(f)'
    BY <1>0, <1>q, <2>10 DEF FetchInv, Life, Before
  <2>m. m \in {"chunk", "empty"}
    BY <1>2
  <2> HIDE DEF m
  <2>12. Flow(f)'
    <3>1. /\ balance[f] \in Nat /\ Due(down[f]) \in Nat /\ Count(up[f], "chunk") \in Nat
          /\ Credit \in Nat
      BY <1>0 DEF Parts
    <3>2. Count(queue'[f], "chunk") <= 2 * Credit
      <4>1. Count(queue[f], "chunk") <= 2 * Credit
        BY <1>0 DEF FetchInv, Flow
      <4> QED BY <2>3, <2>4, <3>1, <4>1
    <3>3. CASE port[f] \in Crediting
      <4>1. /\ terminal[f] # "bytes"
            /\ balance[f] + Due(down[f]) + Count(up[f], "chunk") + Count(queue[f], "chunk") <= Credit
        BY <1>0, <3>3 DEF FetchInv, Flow
      <4>2. Due(down'[f]) + Count(queue'[f], "chunk") = Due(down[f]) + Count(queue[f], "chunk")
        BY <2>3, <2>4, <2>7, <3>1, <3>3
      <4>3. Due(down'[f]) \in Nat /\ Count(queue[f], "chunk") \in Nat
        BY <1>0, <2>7, <3>1 DEF Parts
      <4>4. balance[f] + Due(down'[f]) + Count(up[f], "chunk") + Count(queue'[f], "chunk") <= Credit
        BY <2>4, <3>1, <4>1, <4>2, <4>3
      <4> QED BY <2>10, <3>2, <3>3, <4>1, <4>4 DEF Flow
    <3>4. CASE port[f] \notin Crediting
      BY <1>0, <2>7, <2>10, <3>2, <3>4 DEF FetchInv, Flow
    <3> QED BY <3>3, <3>4
  <2>13. Asks(f)' /\ Heads(f)'
    BY <1>0, <2>7, <2>10 DEF FetchInv, Asks, Heads
  <2>14. Spare(f)'
    <3>1. Spare(f)
      BY <1>0 DEF FetchInv
    <3>2. /\ Count(queue[f], "chunk") \in Nat /\ Extras(queue[f]) \in Nat
          /\ Extras(up[f]) \in Nat /\ free[f] \in Nat /\ FrameLimit \in Nat
      BY <1>0 DEF Parts
    <3>3. Extras(up[f]) + (IF terminal[f] = "no" THEN Extras(queue'[f]) ELSE 0) <= free[f]
      BY <2>3, <2>4, <3>1, <3>2 DEF Spare
    <3>4. terminal[f] = "no" => Len(queue'[f]) <= Count(queue'[f], "chunk") + Extras(queue'[f])
      <4>1. (IF m = "chunk" THEN 1 ELSE 0) + (IF m \in Plain THEN 1 ELSE 0) = 1
        BY <2>5, <2>m
      <4>2. Count(queue[f], "chunk") + Extras(queue[f])
              = Count(queue'[f], "chunk") + Extras(queue'[f]) + 1
        BY <2>3, <2>4, <3>2, <4>1
      <4> QED BY <2>4, <2>6, <3>1, <3>2, <4>2 DEF Spare
    <3>5. Len(queue'[f]) <= FrameLimit
      BY <2>6, <3>1, <3>2 DEF Spare
    <3> QED BY <2>10, <3>1, <3>3, <3>4, <3>5 DEF Spare
  <2>15. Seen(f)'
    BY <1>0, <2>10 DEF FetchInv, Seen
  <2> QED BY <2>8, <2>9, <2>11, <2>12, <2>13, <2>14, <2>15, OneFetch DEF FetchInv
<1> QED BY <1>1, <1>2

LEMMA SendKeeps == ASSUME IInv, NEW f \in Fetches, Send(f) PROVE IInv'
<1>d. <<>> \in Seq(Orders) /\ <<"fetch">> \in Seq(Orders) /\ "fetch" \in Orders /\ "grant" \in Orders
  BY DEF Orders
<1>e. \A x : Count(<<"fetch">>, x) = IF x = "fetch" THEN 1 ELSE 0
  <2>1. <<"fetch">> = Append(<<>>, "fetch")
    OBVIOUS
  <2>2. \A x : Count(Append(<<>>, "fetch"), x) = Count(<<>>, x) + (IF "fetch" = x THEN 1 ELSE 0)
    BY <1>d, CountAppend
  <2> QED BY <2>1, <2>2, CountEmpty
<1>h. \A x : Count(<<"fetch", "grant">>, x) = Count(<<"fetch">>, x) + (IF "grant" = x THEN 1 ELSE 0)
  <2>1. <<"fetch", "grant">> = Append(<<"fetch">>, "grant")
    OBVIOUS
  <2>2. \A x : Count(Append(<<"fetch">>, "grant"), x) = Count(<<"fetch">>, x) + (IF "grant" = x THEN 1 ELSE 0)
    BY <1>d, CountAppend
  <2> QED BY <2>1, <2>2
<1>i. /\ Count(<<"fetch">>, "fetch") = 1 /\ Count(<<"fetch">>, "grant") = 0
      /\ Count(<<"fetch">>, "credit") = 0
      /\ Count(<<"fetch", "grant">>, "fetch") = 1 /\ Due(<<"fetch", "grant">>) = Credit
  BY <1>e, <1>h, CreditAssumption DEF Due
<1>s. /\ down' \in [Fetches -> Seq(Orders)]
      /\ \A g \in Fetches : g # f => down'[g] = down[g]
      /\ down'[f] = IF hostPort \in Crediting THEN <<"fetch", "grant">> ELSE <<"fetch">>
  <2>1. <<"fetch", "grant">> \in Seq(Orders)
    BY DEF Orders
  <2> QED BY <1>d, <2>1 DEF IInv, Types, Send
<1>t. Types'
  BY <1>s, <1>i, SetsAssumption, CreditAssumption DEF IInv, Types, Send, channel, link, remote
<1>o. Only(f)
  BY <1>s, <1>i, NoneAssumption DEF IInv, Types, Send, Only, channel, link, remote
<1>v. /\ res'[f] = res[f] /\ terminal'[f] = terminal[f] /\ queue'[f] = queue[f]
      /\ probe'[f] = probe[f] /\ up'[f] = up[f] /\ host'[f] = host[f]
      /\ balance'[f] = balance[f] /\ free'[f] = free[f] /\ upstream'[f] = upstream[f]
      /\ pc'[f] = "awaiting"
      /\ port'[f] = hostPort
      /\ f \in waiters'
  BY <1>s, <1>i, NoneAssumption DEF IInv, Types, Send, channel, link, remote
<1>g. pc[f] = "go" /\ hostPort # None
  BY <1>s, <1>i, <1>v, NoneAssumption DEF Send
<1>k. /\ up[f] = <<>> /\ queue[f] = <<>> /\ host[f] = "none" /\ balance[f] = 0
      /\ probe[f] = "armed" /\ res[f] = "none" /\ terminal[f] = "no" /\ ~upstream[f]
      /\ Count(up[f], "chunk") = 0 /\ Count(queue[f], "chunk") = 0
      /\ Extras(up[f]) = 0 /\ Extras(queue[f]) = 0 /\ Len(queue[f]) = 0
  BY <1>g, EmptyCounts DEF IInv, FetchInv, Life, Asks, Before
<1>f. FetchInv(f)'
  <2>0. FetchInv(f)
    BY DEF IInv
  <2>n. Parts(f)
    BY PartsOK
  <2>1. Life(f)'
    BY <1>v, <1>g, <1>k, <2>0, <2>n, EmptyCounts DEF FetchInv, Life, Before, Parts
  <2>2. Flow(f)'
    BY <1>v, <1>g, <1>k, <1>s, <1>i, <2>0, <2>n DEF FetchInv, Flow, Parts
  <2>3. Asks(f)'
    BY <1>v, <1>g, <1>k, <1>s, <1>i, <2>0, <2>n, EmptyCounts DEF FetchInv, Life, Asks, Before, Parts
  <2>5. Heads(f)'
    BY <1>v, <1>g, <1>k, <1>s, <1>i, <2>0, <2>n, EmptyCounts DEF FetchInv, Life, Asks, Heads, Before, Parts
  <2>6. Spare(f)'
    BY <1>v, <1>k, <2>0, <2>n DEF FetchInv, Spare, Parts
  <2>4. Seen(f)'
    BY <1>v, <1>g, <1>k, <1>o, <2>0, NoneAssumption DEF FetchInv, Life, Seen, Only, IInv, Types
  <2> QED BY <2>1, <2>2, <2>3, <2>4, <2>5, <2>6 DEF FetchInv
<1> QED BY <1>t, <1>o, <1>f, OneFetch

--------------------------------------------------------------------------------
(* The steps of the embedder. *)

LastFrames == {"end", "error", "refused"}

\* what one frame of the embedder changes, and when it may say it
Says(f, m) ==
  /\ Serves(f) /\ Post(f, m)
  /\ m = "head" => host[f] = "serving"
  /\ m = "chunk" /\ port[f] \in Crediting => balance[f] > 0
  /\ m = "refused" => ~upstream[f]
  /\ host'[f] = IF m \in LastFrames THEN "over" ELSE IF m = "head" THEN "answering" ELSE host[f]
  /\ balance'[f] = IF m = "chunk" /\ port[f] \in Crediting THEN balance[f] - 1 ELSE balance[f]
  /\ free'[f] = IF m \in Plain THEN free[f] + 1 ELSE free[f]
  /\ UNCHANGED <<channel, pc, res, port, waiters, queue, terminal, probe, down, upstream>>

LEMMA SaysKeeps ==
  ASSUME IInv, NEW f \in Fetches, NEW m \in Frames, Says(f, m), Types',
         \A g \in Fetches : g # f => host'[g] = host[g] /\ balance'[g] = balance[g] /\ free'[g] = free[g]
  PROVE  IInv'
<1>0. Types /\ Parts(f) /\ FetchInv(f)
  BY PartsOK DEF IInv
<1>1. Post(f, m)
  BY DEF Says
<1>2. \A g \in Fetches : g # f => up'[g] = up[g]
  BY <1>0, <1>1, Posted
<1>3. /\ Count(up'[f], "head") = Count(up[f], "head") + (IF m = "head" THEN 1 ELSE 0)
      /\ Count(up'[f], "chunk") = Count(up[f], "chunk") + (IF m = "chunk" THEN 1 ELSE 0)
      /\ Count(up'[f], "refused") = Count(up[f], "refused") + (IF m = "refused" THEN 1 ELSE 0)
  BY <1>0, <1>1, Posted
<1>4. Extras(up'[f]) = Extras(up[f]) + (IF m \in Plain THEN 1 ELSE 0)
  BY <1>0, <1>1, Posted
<1>5. /\ pc' = pc /\ res' = res /\ port' = port /\ waiters' = waiters /\ queue' = queue
      /\ terminal' = terminal /\ probe' = probe /\ down' = down /\ upstream' = upstream
      /\ alive' = alive /\ host[f] \in {"serving", "answering"} /\ port[f] \in alive
  BY DEF Says, Serves, channel
<1>6. port[f] # None /\ host'[f] # "none"
  BY <1>0, <1>5, NoneAssumption DEF Types, None, Says, LastFrames
<1>7. Only(f)
  BY <1>2, <1>5 DEF Only
<1>8. Life(f)'
  BY <1>0, <1>5, <1>6 DEF FetchInv, Life
<1>9. Flow(f)'
  <2>1. /\ balance[f] \in Nat /\ Due(down[f]) \in Nat /\ Count(up[f], "chunk") \in Nat
        /\ Count(queue[f], "chunk") \in Nat /\ Credit \in Nat
    BY <1>0 DEF Parts
  <2>2. CASE port[f] \in Crediting
    <3>1. /\ terminal[f] # "bytes" /\ Count(queue[f], "chunk") <= 2 * Credit
          /\ balance[f] + Due(down[f]) + Count(up[f], "chunk") + Count(queue[f], "chunk") <= Credit
      BY <1>0, <2>2 DEF FetchInv, Flow
    <3>2. balance'[f] = IF m = "chunk" THEN balance[f] - 1 ELSE balance[f]
      BY <2>2 DEF Says
    <3>3. Count(up'[f], "chunk") = Count(up[f], "chunk") + (IF m = "chunk" THEN 1 ELSE 0)
      BY <1>3
    <3>4. balance'[f] + Due(down[f]) + Count(up'[f], "chunk") + Count(queue[f], "chunk") <= Credit
      BY <2>1, <3>1, <3>2, <3>3
    <3> QED BY <1>5, <2>2, <3>1, <3>4 DEF Flow
  <2>3. CASE port[f] \notin Crediting
    <3>1. balance'[f] = balance[f]
      BY <2>3 DEF Says
    <3> QED BY <1>0, <1>5, <2>3, <3>1 DEF FetchInv, Flow
  <2> QED BY <2>2, <2>3
<1>10. Asks(f)'
  <2>1. Count(down[f], "fetch") \in Nat /\ Count(up[f], "refused") \in Nat
    BY <1>0 DEF Parts
  <2>2. /\ Count(down[f], "fetch") <= 0 /\ Count(up[f], "refused") = 0
        /\ ~(f \notin Safe /\ res[f] = "null")
    BY <1>0, <1>5, <2>1 DEF FetchInv, Asks
  <2>3. Count(up'[f], "refused") >= 1 => m = "refused"
    BY <1>3, <2>2
  <2>4. m = "refused" => ~upstream[f] /\ host'[f] = "over"
    BY DEF Says, LastFrames
  <2> QED BY <1>5, <1>6, <2>1, <2>2, <2>3, <2>4 DEF Asks
<1>11. Heads(f)'
  <2>1. Count(up[f], "head") \in Nat
    BY <1>0 DEF Parts
  <2>2. m = "head" => host[f] = "serving" /\ host'[f] = "answering"
    BY DEF Says, LastFrames
  <2>3. m # "head" => host'[f] \in {host[f], "over"}
    BY DEF Says, LastFrames
  <2>4. Heads(f)
    BY <1>0 DEF FetchInv
  <2>5. CASE m = "head"
    <3>1. Count(up[f], "head") = 0 /\ pc[f] # "streaming"
      BY <2>1, <2>2, <2>4, <2>5 DEF Heads
    <3> QED BY <1>3, <1>5, <2>2, <2>5, <3>1 DEF Heads
  <2>6. CASE m # "head"
    <3>1. Count(up'[f], "head") = Count(up[f], "head")
      BY <1>3, <2>1, <2>6
    <3> QED BY <1>5, <2>1, <2>3, <2>4, <2>6, <3>1 DEF Heads
  <2> QED BY <2>5, <2>6
<1>12. Spare(f)'
  <2>1. Extras(up[f]) \in Nat /\ Extras(queue[f]) \in Nat /\ free[f] \in Nat /\ Credit \in Nat
    BY <1>0 DEF Parts
  <2>2. free'[f] = free[f] + (IF m \in Plain THEN 1 ELSE 0)
    BY <2>1 DEF Says
  <2>3. Spare(f)
    BY <1>0 DEF FetchInv
  <2>4. Extras(up'[f]) + (IF terminal[f] = "no" THEN Extras(queue[f]) ELSE 0) <= free'[f]
    BY <1>4, <2>1, <2>2, <2>3 DEF Spare
  <2>5. Credit + free[f] > FrameLimit => Credit + free'[f] > FrameLimit
    BY <2>1, <2>2, CreditAssumption
  <2> QED BY <1>5, <2>3, <2>4, <2>5 DEF Spare
<1>13. Seen(f)'
  BY <1>0, <1>5 DEF FetchInv, Seen
<1> QED BY <1>7, <1>8, <1>9, <1>10, <1>11, <1>12, <1>13, OneFetch DEF FetchInv

LEMMA HostRefusesKeeps == ASSUME IInv, NEW f \in Fetches, HostRefuses(f) PROVE IInv'
<1>1. "refused" \in Frames /\ "refused" \in Plain
  BY DEF Frames, Plain
<1>2. Types /\ Post(f, "refused")
  BY DEF IInv, HostRefuses, PostFree
<1>3. up' \in [Fetches -> Seq(Frames)]
  BY <1>1, <1>2, Posted
<1>4. Types'
  BY <1>2, <1>3, CreditAssumption DEF Types, HostRefuses, PostFree, Serves, channel, link, remote
<1>5. Says(f, "refused")
  BY <1>1, <1>2 DEF Types, Says, LastFrames, HostRefuses, PostFree, Serves, channel, link, remote
<1>6. \A g \in Fetches : g # f => host'[g] = host[g] /\ balance'[g] = balance[g] /\ free'[g] = free[g]
  BY <1>2 DEF Types, HostRefuses, PostFree, remote
<1> QED BY <1>1, <1>4, <1>5, <1>6, SaysKeeps

LEMMA HostAnswersKeeps == ASSUME IInv, NEW f \in Fetches, HostAnswers(f) PROVE IInv'
<1>1. "head" \in Frames /\ "head" \notin Plain
  BY DEF Frames, Plain
<1>2. Types /\ Post(f, "head")
  BY DEF IInv, HostAnswers
<1>3. up' \in [Fetches -> Seq(Frames)]
  BY <1>1, <1>2, Posted
<1>4. Types'
  BY <1>2, <1>3, CreditAssumption DEF Types, HostAnswers, Serves, channel, link, remote
<1>5. Says(f, "head")
  BY <1>1, <1>2 DEF Types, Says, LastFrames, HostAnswers, Serves, channel, link, remote
<1>6. \A g \in Fetches : g # f => host'[g] = host[g] /\ balance'[g] = balance[g] /\ free'[g] = free[g]
  BY <1>2 DEF Types, HostAnswers, remote
<1> QED BY <1>1, <1>4, <1>5, <1>6, SaysKeeps

LEMMA HostSendsKeeps == ASSUME IInv, NEW f \in Fetches, HostSends(f) PROVE IInv'
<1>0. Types /\ Serves(f) /\ host[f] = "answering"
  BY DEF IInv, HostSends
<1>1. "chunk" \in Frames /\ "empty" \in Frames /\ "chunk" \notin Plain /\ "empty" \in Plain
  BY DEF Frames, Plain
<1>2. UNCHANGED <<channel, pc, res, port, waiters, queue, terminal, probe, down, host, upstream>>
      /\ sent' \in [Fetches -> Nat]
  BY <1>0 DEF HostSends, Types
<1>3. CASE /\ port[f] \in Crediting => balance[f] > 0
           /\ Post(f, "chunk") /\ UNCHANGED free
           /\ balance' = [balance EXCEPT ![f] = IF port[f] \in Crediting THEN @ - 1 ELSE @]
  <2>1. up' \in [Fetches -> Seq(Frames)]
    BY <1>0, <1>1, <1>3, Posted
  <2>2. balance' \in [Fetches -> Nat]
    BY <1>0, <1>3 DEF Types
  <2>3. Types'
    BY <1>0, <1>2, <1>3, <2>1, <2>2 DEF Types, channel
  <2>4. Says(f, "chunk")
    BY <1>0, <1>1, <1>2, <1>3 DEF Types, Says, LastFrames
  <2>5. \A g \in Fetches : g # f => host'[g] = host[g] /\ balance'[g] = balance[g] /\ free'[g] = free[g]
    BY <1>0, <1>2, <1>3 DEF Types
  <2> QED BY <1>1, <2>3, <2>4, <2>5, SaysKeeps
<1>4. CASE PostFree(f, "empty") /\ UNCHANGED balance
  <2>1. up' \in [Fetches -> Seq(Frames)]
    BY <1>0, <1>1, <1>4, Posted DEF PostFree
  <2>2. Types'
    <3>1. free' \in [Fetches -> Nat] /\ balance' = balance
      BY <1>0, <1>4 DEF Types, PostFree
    <3> QED BY <1>0, <1>2, <2>1, <3>1 DEF Types, channel
  <2>3. Says(f, "empty")
    BY <1>0, <1>1, <1>2, <1>4 DEF Types, PostFree, Says, LastFrames
  <2>4. \A g \in Fetches : g # f => host'[g] = host[g] /\ balance'[g] = balance[g] /\ free'[g] = free[g]
    BY <1>0, <1>2, <1>4 DEF Types, PostFree
  <2> QED BY <1>1, <2>2, <2>3, <2>4, SaysKeeps
<1> QED BY <1>3, <1>4 DEF HostSends

LEMMA HostBreaksProtocolKeeps == ASSUME IInv, NEW f \in Fetches, HostBreaksProtocol(f) PROVE IInv'
<1>0. Types
  BY DEF IInv
<1>1. PICK m \in {"bad", "stray"} : PostFree(f, m)
  BY DEF HostBreaksProtocol
<1>2. m \in Frames /\ m \in Plain /\ m \notin LastFrames /\ m \notin {"head", "chunk", "refused"}
  BY DEF Frames, Plain, LastFrames
<1>3. up' \in [Fetches -> Seq(Frames)]
  BY <1>0, <1>1, <1>2, Posted DEF PostFree
<1>4. Types'
  <2>1. free' \in [Fetches -> Nat] /\ sent' \in [Fetches -> Nat]
    BY <1>0, <1>1, CreditAssumption DEF Types, PostFree, HostBreaksProtocol
  <2> QED BY <1>0, <1>3, <2>1 DEF Types, HostBreaksProtocol, channel
<1>5. Says(f, m)
  BY <1>0, <1>1, <1>2 DEF Types, Says, HostBreaksProtocol, PostFree
<1>6. \A g \in Fetches : g # f => host'[g] = host[g] /\ balance'[g] = balance[g] /\ free'[g] = free[g]
  BY <1>0, <1>1 DEF Types, HostBreaksProtocol, PostFree
<1> QED BY <1>2, <1>4, <1>5, <1>6, SaysKeeps

LEMMA HostEndsKeeps == ASSUME IInv, NEW f \in Fetches, HostEnds(f) PROVE IInv'
<1>0. Types
  BY DEF IInv
<1>1. PICK m \in {"end", "error"} : PostFree(f, m)
  BY DEF HostEnds
<1>2. m \in Frames /\ m \in Plain /\ m \in LastFrames /\ m \notin {"head", "chunk", "refused"}
  BY DEF Frames, Plain, LastFrames
<1>3. up' \in [Fetches -> Seq(Frames)]
  BY <1>0, <1>1, <1>2, Posted DEF PostFree
<1>4. Types'
  <2>1. free' \in [Fetches -> Nat] /\ host' = [host EXCEPT ![f] = "over"]
    BY <1>0, <1>1 DEF Types, PostFree, HostEnds
  <2> QED BY <1>0, <1>3, <2>1 DEF Types, HostEnds, channel
<1>5. Says(f, m)
  BY <1>0, <1>1, <1>2 DEF Types, Says, HostEnds, PostFree
<1>6. \A g \in Fetches : g # f => host'[g] = host[g] /\ balance'[g] = balance[g] /\ free'[g] = free[g]
  BY <1>0, <1>1 DEF Types, HostEnds, PostFree
<1> QED BY <1>2, <1>4, <1>5, <1>6, SaysKeeps

LEMMA HostReceivesKeeps == ASSUME IInv, NEW f \in Fetches, HostReceives(f) PROVE IInv'
<1>0. Types /\ Parts(f) /\ FetchInv(f)
  BY PartsOK DEF IInv
<1> DEFINE m == Head(down[f])
<1>1. down[f] \in Seq(Orders) /\ down[f] # <<>> /\ port[f] \in alive
  BY <1>0 DEF Types, HostReceives
<1>2. m \in Orders /\ Tail(down[f]) \in Seq(Orders)
  BY <1>1, HeadTailProperties
<1>3. /\ down'[f] = Tail(down[f]) /\ down' \in [Fetches -> Seq(Orders)]
      /\ \A g \in Fetches : g # f => down'[g] = down[g]
  BY <1>0, <1>2 DEF Types, HostReceives
<1>4. /\ pc' = pc /\ res' = res /\ port' = port /\ waiters' = waiters /\ queue' = queue
      /\ terminal' = terminal /\ probe' = probe /\ up' = up /\ upstream' = upstream
      /\ alive' = alive /\ sent' = sent /\ free' = free /\ hostPort' = hostPort /\ backoff' = backoff
  BY DEF HostReceives, channel
<1>5. /\ host'[f] = IF m = "fetch" THEN "serving" ELSE IF m = "cancel" THEN "over" ELSE host[f]
      /\ balance'[f] = balance[f] + (IF m = "grant" THEN Credit ELSE IF m = "credit" THEN 1 ELSE 0)
      /\ \A g \in Fetches : g # f => host'[g] = host[g] /\ balance'[g] = balance[g] /\ free'[g] = free[g]
  BY <1>0 DEF Types, HostReceives
<1>6. Types'
  <2>1. host' \in [Fetches -> {"none", "serving", "answering", "over"}]
    BY <1>0, <1>2 DEF Types, HostReceives
  <2>2. balance' \in [Fetches -> Nat]
    BY <1>0, CreditAssumption DEF Types, HostReceives
  <2> QED BY <1>0, <1>3, <1>4, <2>1, <2>2 DEF Types
<1>7. Only(f)
  BY <1>3, <1>4, <1>5 DEF Only
<1> HIDE DEF m
<1>8. /\ Count(down[f], "fetch") = Count(down'[f], "fetch") + (IF m = "fetch" THEN 1 ELSE 0)
      /\ Count(down[f], "grant") = Count(down'[f], "grant") + (IF m = "grant" THEN 1 ELSE 0)
      /\ Count(down[f], "credit") = Count(down'[f], "credit") + (IF m = "credit" THEN 1 ELSE 0)
  BY <1>1, <1>3, CountTail DEF m
<1>9. /\ Count(down'[f], "fetch") \in Nat /\ Count(down'[f], "grant") \in Nat
      /\ Count(down'[f], "credit") \in Nat
  BY <1>2, <1>3, CountType
<1>10. /\ port[f] # None /\ Credit \in Nat
  BY <1>0, <1>1, NoneAssumption DEF Types, None, Parts
<1>11. Due(down[f]) = Due(down'[f])
                        + (IF m = "grant" THEN Credit ELSE IF m = "credit" THEN 1 ELSE 0)
  <2> DEFINE owed == Credit * Count(down'[f], "grant")
  <2>1. owed \in Nat
    BY <1>9, <1>10
  <2>2. Due(down'[f]) = owed + Count(down'[f], "credit")
    BY DEF Due
  <2>3. CASE m = "grant"
    <3>1. Count(down[f], "grant") = Count(down'[f], "grant") + 1 /\ m # "credit"
      BY <1>8, <2>3
    <3>2. Credit * Count(down[f], "grant") = owed + Credit
      BY <3>1, <1>9, <1>10
    <3>3. Count(down[f], "credit") = Count(down'[f], "credit")
      BY <1>8, <1>9, <3>1
    <3> HIDE DEF owed
    <3> QED BY <2>1, <2>2, <2>3, <3>2, <3>3, <1>9, <1>10 DEF Due
  <2>4. CASE m # "grant"
    <3>1. Count(down[f], "grant") = Count(down'[f], "grant")
      BY <1>8, <1>9, <2>4
    <3>2. Credit * Count(down[f], "grant") = owed
      BY <3>1
    <3>3. Count(down[f], "credit") = Count(down'[f], "credit") + (IF m = "credit" THEN 1 ELSE 0)
      BY <1>8
    <3> HIDE DEF owed
    <3> QED BY <2>1, <2>2, <2>4, <3>2, <3>3, <1>9, <1>10 DEF Due
  <2> QED BY <2>3, <2>4
<1>12. Life(f)'
  BY <1>0, <1>4, <1>10 DEF FetchInv, Life
<1>13. Flow(f)'
  <2>1. Due(down'[f]) \in Nat
    BY <1>9, <1>10 DEF Due
  <2>2. /\ balance[f] \in Nat /\ Count(up[f], "chunk") \in Nat /\ Count(queue[f], "chunk") \in Nat
    BY <1>0 DEF Parts
  <2>3. CASE port[f] \in Crediting
    <3>1. /\ terminal[f] # "bytes" /\ Count(queue[f], "chunk") <= 2 * Credit
          /\ balance[f] + Due(down[f]) + Count(up[f], "chunk") + Count(queue[f], "chunk") <= Credit
      BY <1>0, <2>3 DEF FetchInv, Flow
    <3>2. balance'[f] + Due(down'[f]) = balance[f] + Due(down[f]) /\ balance'[f] \in Nat
      BY <1>5, <1>10, <1>11, <2>1, <2>2
    <3>3. Due(down[f]) \in Nat
      BY <1>0 DEF Parts
    <3>4. balance'[f] + Due(down'[f]) + Count(up[f], "chunk") + Count(queue[f], "chunk") <= Credit
      BY <2>1, <2>2, <3>1, <3>2, <3>3
    <3> QED BY <1>4, <2>3, <3>1, <3>4 DEF Flow
  <2>4. CASE port[f] \notin Crediting
    <3>1. balance[f] = 0 /\ Count(down[f], "grant") = 0 /\ Count(down[f], "credit") = 0
      BY <1>0, <2>4 DEF FetchInv, Flow
    <3>2. Count(down'[f], "grant") = 0 /\ Count(down'[f], "credit") = 0 /\ m # "grant" /\ m # "credit"
      BY <1>8, <1>9, <3>1
    <3>3. balance'[f] = 0
      BY <1>5, <3>1, <3>2
    <3> QED BY <1>0, <1>4, <2>4, <3>2, <3>3 DEF FetchInv, Flow
  <2> QED BY <2>3, <2>4
<1>14. m = "fetch" => host[f] = "none"
  <2>1. Count(down[f], "fetch") <= (IF host[f] = "none" THEN 1 ELSE 0)
    BY <1>0 DEF FetchInv, Asks
  <2> QED BY <1>8, <1>9, <2>1
<1>15. Asks(f)'
  <2>1. /\ Count(down[f], "fetch") <= (IF host[f] = "none" THEN 1 ELSE 0)
        /\ Count(down[f], "fetch") >= 1 => m = "fetch"
    BY <1>0, <1>1 DEF FetchInv, Asks, m
  <2>2. Count(down'[f], "fetch") = 0
    BY <1>8, <1>9, <1>14, <2>1
  <2>3. host'[f] = "none" => host[f] = "none"
    BY <1>5
  <2>4. Count(up[f], "refused") >= 1 => host'[f] = "over"
    BY <1>0, <1>5, <1>14 DEF FetchInv, Asks
  <2>5. f \notin Safe /\ res[f] = "null" =>
          host'[f] \in {"none", "over"} /\ Count(down'[f], "fetch") = 0
    BY <1>0, <1>5, <1>8, <1>9 DEF FetchInv, Asks
  <2> QED BY <1>0, <1>4, <2>2, <2>3, <2>4, <2>5 DEF FetchInv, Asks
<1>16. Heads(f)'
  <2>1. Count(up[f], "head") \in Nat
    BY <1>0 DEF Parts
  <2>2. host'[f] \in {"none", "serving"} => host[f] \in {"none", "serving"}
    BY <1>5, <1>14
  <2>3. host[f] \in {"answering", "over"} => host'[f] \in {"answering", "over"}
    BY <1>5, <1>14
  <2> QED BY <1>0, <1>4, <2>1, <2>2, <2>3 DEF FetchInv, Heads
<1>17. Spare(f)'
  BY <1>0, <1>4 DEF FetchInv, Spare
<1>18. Seen(f)'
  BY <1>0, <1>4 DEF FetchInv, Seen
<1> QED BY <1>6, <1>7, <1>12, <1>13, <1>15, <1>16, <1>17, <1>18, OneFetch DEF FetchInv

--------------------------------------------------------------------------------
(* A frame arrives at the worker. *)

\* the counts without the frame that arrived
Arrives(f, m) ==
  /\ m = Head(up[f]) /\ up[f] # <<>> /\ up' = [up EXCEPT ![f] = Tail(@)]
  /\ UNCHANGED <<hostPort, alive, backoff, port, probe, host, balance, sent, free, upstream>>

LEMMA Arrived ==
  ASSUME IInv, NEW f \in Fetches, NEW m, Arrives(f, m)
  PROVE  /\ m \in Frames /\ up' \in [Fetches -> Seq(Frames)]
         /\ \A g \in Fetches : g # f => up'[g] = up[g]
         /\ Count(up'[f], "head") \in Nat /\ Count(up'[f], "chunk") \in Nat
         /\ Count(up'[f], "refused") \in Nat /\ Extras(up'[f]) \in Nat
         /\ Count(up[f], "head") = Count(up'[f], "head") + (IF m = "head" THEN 1 ELSE 0)
         /\ Count(up[f], "chunk") = Count(up'[f], "chunk") + (IF m = "chunk" THEN 1 ELSE 0)
         /\ Count(up[f], "refused") = Count(up'[f], "refused") + (IF m = "refused" THEN 1 ELSE 0)
         /\ Extras(up[f]) = Extras(up'[f]) + (IF m \in Plain THEN 1 ELSE 0)
<1>1. up[f] \in Seq(Frames) /\ up[f] # <<>> /\ up \in [Fetches -> Seq(Frames)]
  BY DEF IInv, Types, Arrives
<1>2. m \in Frames /\ Tail(up[f]) \in Seq(Frames)
  BY <1>1, HeadTailProperties DEF Arrives
<1>3. up'[f] = Tail(up[f]) /\ up' \in [Fetches -> Seq(Frames)] /\ \A g \in Fetches : g # f => up'[g] = up[g]
  BY <1>1, <1>2 DEF Arrives
<1>4. /\ Count(up'[f], "head") \in Nat /\ Count(up'[f], "chunk") \in Nat
      /\ Count(up'[f], "refused") \in Nat
  BY <1>2, <1>3, CountType
<1>5. /\ Count(up[f], "head") = Count(up'[f], "head") + (IF m = "head" THEN 1 ELSE 0)
      /\ Count(up[f], "chunk") = Count(up'[f], "chunk") + (IF m = "chunk" THEN 1 ELSE 0)
      /\ Count(up[f], "refused") = Count(up'[f], "refused") + (IF m = "refused" THEN 1 ELSE 0)
  BY <1>1, <1>3, CountTail DEF Arrives
<1>6. Extras(up'[f]) \in Nat
  BY <1>2, <1>3, OccurringType DEF Extras
<1>7. Extras(up[f]) = Extras(up'[f]) + (IF m \in Plain THEN 1 ELSE 0)
  BY <1>1, <1>3, OccurringTail DEF Arrives, Extras
<1> QED BY <1>2, <1>3, <1>4, <1>5, <1>6, <1>7

\* a frame that nobody waits for
LEMMA FrameDroppedKeeps ==
  ASSUME IInv, NEW f \in Fetches, NEW m, Arrives(f, m), f \notin waiters,
         UNCHANGED <<pc, res, waiters, queue, terminal, down>>
  PROVE  IInv'
<1>0. Types /\ Parts(f) /\ FetchInv(f)
  BY PartsOK DEF IInv
<1>1. /\ up' \in [Fetches -> Seq(Frames)] /\ \A g \in Fetches : g # f => up'[g] = up[g]
      /\ Count(up'[f], "head") \in Nat /\ Count(up'[f], "chunk") \in Nat
      /\ Count(up'[f], "refused") \in Nat
      /\ Count(up'[f], "head") <= Count(up[f], "head")
      /\ Count(up'[f], "chunk") <= Count(up[f], "chunk")
      /\ Count(up'[f], "refused") <= Count(up[f], "refused")
      /\ Extras(up'[f]) \in Nat /\ Extras(up'[f]) <= Extras(up[f])
  BY Arrived
<1>2. Types'
  BY <1>0, <1>1 DEF Types, Arrives
<1>3. Only(f)
  BY <1>1 DEF Only, Arrives
<1>4. /\ pc' = pc /\ res' = res /\ port' = port /\ waiters' = waiters /\ queue' = queue
      /\ terminal' = terminal /\ probe' = probe /\ down' = down /\ upstream' = upstream
      /\ alive' = alive /\ host' = host /\ balance' = balance /\ free' = free /\ up[f] # <<>>
  BY DEF Arrives
<1>5. Life(f)' /\ Seen(f)'
  BY <1>0, <1>4 DEF FetchInv, Life, Seen
<1>6. Flow(f)'
  <2>1. /\ balance[f] \in Nat /\ Due(down[f]) \in Nat /\ Count(up[f], "chunk") \in Nat
        /\ Count(queue[f], "chunk") \in Nat /\ Credit \in Nat
    BY <1>0 DEF Parts
  <2>2. port[f] \in Crediting =>
          balance[f] + Due(down[f]) + Count(up[f], "chunk") + Count(queue[f], "chunk") <= Credit
    BY <1>0 DEF FetchInv, Flow
  <2>3. port[f] \in Crediting =>
          balance[f] + Due(down[f]) + Count(up'[f], "chunk") + Count(queue[f], "chunk") <= Credit
    BY <1>1, <2>1, <2>2
  <2> QED BY <1>0, <1>4, <2>3 DEF FetchInv, Flow
<1>7. Asks(f)'
  <2>1. Count(up'[f], "refused") >= 1 => Count(up[f], "refused") >= 1
    BY SMTT(30), <1>0, <1>1 DEF Parts
  <2>2. host[f] # "none"
    BY <1>0, <1>4 DEF FetchInv, Asks
  <2> QED BY <1>0, <1>4, <2>1, <2>2 DEF FetchInv, Asks
<1>8. Heads(f)'
  <2>1. Count(up[f], "head") \in Nat
    BY <1>0 DEF Parts
  <2> QED BY <1>0, <1>1, <1>4, <2>1 DEF FetchInv, Heads
<1>9. Spare(f)'
  <2>1. Spare(f) /\ Extras(up[f]) \in Nat /\ Extras(queue[f]) \in Nat /\ free[f] \in Nat
    BY <1>0 DEF FetchInv, Parts
  <2>2. Extras(up'[f]) + (IF terminal[f] = "no" THEN Extras(queue[f]) ELSE 0) <= free[f]
    BY <1>1, <2>1 DEF Spare
  <2> QED BY <1>4, <2>1, <2>2 DEF Spare
<1> QED BY <1>2, <1>3, <1>5, <1>6, <1>7, <1>8, <1>9, OneFetch DEF FetchInv

\* the head of the answer: the stream begins
LEMMA FrameStartsKeeps ==
  ASSUME IInv, NEW f \in Fetches, Arrives(f, "head"), f \in waiters, pc[f] = "awaiting",
         pc' = [pc EXCEPT ![f] = "streaming"],
         UNCHANGED <<res, waiters, queue, terminal, down>>
  PROVE  IInv'
<1>0. Types /\ Parts(f) /\ FetchInv(f)
  BY PartsOK DEF IInv
<1>1. /\ up' \in [Fetches -> Seq(Frames)] /\ \A g \in Fetches : g # f => up'[g] = up[g]
      /\ Count(up'[f], "head") \in Nat /\ Extras(up'[f]) \in Nat
      /\ Count(up[f], "head") = Count(up'[f], "head") + 1
  BY Arrived
<1>2. /\ Count(up'[f], "chunk") \in Nat /\ Count(up'[f], "refused") \in Nat
      /\ Count(up[f], "chunk") = Count(up'[f], "chunk") + 0
      /\ Count(up[f], "refused") = Count(up'[f], "refused") + 0
      /\ Extras(up[f]) = Extras(up'[f]) + 0
  BY Arrived DEF Plain
<1>3. /\ Count(up'[f], "chunk") = Count(up[f], "chunk")
      /\ Count(up'[f], "refused") = Count(up[f], "refused")
      /\ Extras(up'[f]) = Extras(up[f])
  BY <1>1, <1>2
<1>4. Types'
  BY <1>0, <1>1 DEF Types, Arrives
<1>5. Only(f)
  BY <1>0, <1>1 DEF Types, Only, Arrives
<1>6. /\ res' = res /\ port' = port /\ waiters' = waiters /\ queue' = queue
      /\ terminal' = terminal /\ probe' = probe /\ down' = down /\ upstream' = upstream
      /\ alive' = alive /\ host' = host /\ balance' = balance /\ free' = free /\ up[f] # <<>>
      /\ pc'[f] = "streaming"
  BY <1>0 DEF Arrives, Types
<1>7. Life(f)'
  BY <1>0, <1>6 DEF FetchInv, Life, Before
<1>8. Flow(f)' /\ Spare(f)' /\ Seen(f)'
  BY <1>0, <1>3, <1>6 DEF FetchInv, Flow, Spare, Seen
<1>9. Asks(f)'
  BY <1>0, <1>3, <1>6 DEF FetchInv, Asks
<1>10. Heads(f)'
  <2>1. Count(up[f], "head") <= (IF host[f] \in {"none", "serving"} THEN 0 ELSE 1)
    BY <1>0 DEF FetchInv, Heads
  <2>2. host[f] \notin {"none", "serving"} /\ Count(up'[f], "head") = 0
    BY <1>1, <2>1
  <2>3. host[f] \in {"answering", "over"}
    BY <1>0, <2>2 DEF Parts
  <2> QED BY <1>6, <2>2, <2>3 DEF Heads
<1> QED BY <1>4, <1>5, <1>7, <1>8, <1>9, <1>10, OneFetch DEF FetchInv

\* the first frame ends the fetch
LEMMA FrameEndsKeeps ==
  ASSUME IInv, NEW f \in Fetches, NEW m, Arrives(f, m), pc[f] = "awaiting",
         NEW r \in {"null", "unknown", "complete"}, End(f, r), Cleanup(f),
         Tell(f, "cancel") \/ UNCHANGED down, UNCHANGED terminal,
         f \notin Safe /\ r = "null" => m = "refused"
  PROVE  IInv'
<1>0. Types /\ Parts(f) /\ FetchInv(f)
  BY PartsOK DEF IInv
<1>1. /\ up' \in [Fetches -> Seq(Frames)] /\ \A g \in Fetches : g # f => up'[g] = up[g]
      /\ Count(up'[f], "head") \in Nat /\ Count(up'[f], "chunk") \in Nat
      /\ Count(up'[f], "refused") \in Nat
      /\ Count(up'[f], "head") <= Count(up[f], "head")
      /\ Count(up'[f], "chunk") <= Count(up[f], "chunk")
      /\ Count(up'[f], "refused") <= Count(up[f], "refused")
      /\ Extras(up'[f]) \in Nat /\ Extras(up'[f]) <= Extras(up[f])
      /\ m = "refused" => Count(up[f], "refused") >= 1
  BY Arrived
<1>2. /\ queue' \in [Fetches -> Seq(Frames)] /\ waiters' \subseteq Fetches
      /\ queue'[f] = <<>> /\ f \notin waiters'
      /\ \A g \in Fetches : g # f => queue'[g] = queue[g] /\ (g \in waiters' <=> g \in waiters)
  BY <1>0, Cleaned
<1>3. /\ down' \in [Fetches -> Seq(Orders)]
      /\ \A g \in Fetches : g # f => down'[g] = down[g]
      /\ Due(down'[f]) = Due(down[f])
      /\ Count(down'[f], "fetch") = Count(down[f], "fetch")
      /\ Count(down'[f], "grant") = Count(down[f], "grant")
      /\ Count(down'[f], "credit") = Count(down[f], "credit")
      /\ Count(down[f], "fetch") >= 1 => down'[f][1] = down[f][1]
  <2>1. CASE Tell(f, "cancel")
    BY <1>0, <2>1, ToldCancel
  <2>2. CASE UNCHANGED down
    BY <1>0, <2>2 DEF Types
  <2> QED BY <2>1, <2>2
<1>4. Types'
  BY <1>0, <1>1, <1>2, <1>3 DEF Types, Arrives, End
<1>5. Only(f)
  BY <1>0, <1>1, <1>2, <1>3 DEF Types, Only, Arrives, End
<1>6. /\ pc'[f] = "ended" /\ res'[f] = r /\ port' = port /\ terminal' = terminal /\ host' = host
      /\ balance' = balance /\ free' = free /\ upstream' = upstream /\ probe' = probe
      /\ up[f] # <<>>
  BY <1>0 DEF Types, Arrives, End
<1>7. f \notin Safe /\ r = "null" =>
        ~upstream[f] /\ host[f] = "over" /\ Count(down[f], "fetch") = 0
  <2>1. Count(down[f], "fetch") \in Nat
    BY <1>0 DEF Parts
  <2> QED BY <1>0, <1>1, <2>1 DEF FetchInv, Asks
<1>8. Ends(f)
  BY <1>1, <1>2, <1>3, <1>6, <1>7 DEF Ends
<1> QED BY <1>4, <1>5, <1>8, EndsKeeps

LEMMA UnitsAreChunks == \A q : Units(q) = Count(q, "chunk")
  BY DEF Units, Count

\* a frame of the stream joins the queue
LEMMA FrameQueuedKeeps ==
  ASSUME IInv, NEW f \in Fetches, NEW m, Arrives(f, m), f \in waiters, pc[f] = "streaming",
         CutBy(queue[f], m) = "no", queue' = [queue EXCEPT ![f] = Append(@, m)],
         UNCHANGED <<pc, res, waiters, terminal, down>>
  PROVE  IInv'
<1>0. Types /\ Parts(f) /\ FetchInv(f)
  BY PartsOK DEF IInv
<1>1. /\ m \in Frames
      /\ up' \in [Fetches -> Seq(Frames)] /\ \A g \in Fetches : g # f => up'[g] = up[g]
      /\ Count(up'[f], "head") \in Nat /\ Count(up'[f], "chunk") \in Nat
      /\ Count(up'[f], "refused") \in Nat /\ Extras(up'[f]) \in Nat
      /\ Count(up[f], "head") = Count(up'[f], "head") + (IF m = "head" THEN 1 ELSE 0)
      /\ Count(up[f], "chunk") = Count(up'[f], "chunk") + (IF m = "chunk" THEN 1 ELSE 0)
      /\ Count(up[f], "refused") = Count(up'[f], "refused") + (IF m = "refused" THEN 1 ELSE 0)
      /\ Extras(up[f]) = Extras(up'[f]) + (IF m \in Plain THEN 1 ELSE 0)
  BY Arrived
<1>2. /\ queue[f] \in Seq(Frames) /\ queue'[f] = Append(queue[f], m)
      /\ queue' \in [Fetches -> Seq(Frames)]
      /\ \A g \in Fetches : g # f => queue'[g] = queue[g]
  BY <1>0, <1>1 DEF Types
<1>3. /\ Len(queue'[f]) = Len(queue[f]) + 1 /\ Len(queue[f]) \in Nat
      /\ Count(queue'[f], "chunk") = Count(queue[f], "chunk") + (IF m = "chunk" THEN 1 ELSE 0)
      /\ Extras(queue'[f]) = Extras(queue[f]) + (IF m \in Plain THEN 1 ELSE 0)
  BY <1>1, <1>2, CountAppend, OccurringAppend DEF Extras
<1>4. /\ Count(queue[f], "chunk") \in Nat /\ Extras(queue[f]) \in Nat
      /\ Count(up[f], "head") \in Nat /\ Extras(up[f]) \in Nat /\ free[f] \in Nat
      /\ FrameLimit \in Nat
  BY <1>0 DEF Parts
<1>5. ~OverBytes(queue[f], m) /\ ~(Len(queue[f]) >= FrameLimit)
  <2>1. m # "bad" /\ ~OverBytes(queue[f], m)
    BY DEF CutBy
  <2> QED BY <2>1 DEF CutBy
<1>6. Types'
  BY <1>0, <1>1, <1>2 DEF Types, Arrives
<1>7. Only(f)
  BY <1>1, <1>2 DEF Only, Arrives
<1>8. /\ pc' = pc /\ res' = res /\ port' = port /\ waiters' = waiters /\ terminal' = terminal
      /\ probe' = probe /\ down' = down /\ upstream' = upstream
      /\ alive' = alive /\ host' = host /\ balance' = balance /\ free' = free /\ up[f] # <<>>
  BY DEF Arrives
<1>9. m # "head"
  <2>1. Count(up[f], "head") = 0
    BY <1>0 DEF FetchInv, Heads
  <2> QED BY <1>1, <2>1
<1>10. (IF m = "chunk" THEN 1 ELSE 0) + (IF m \in Plain THEN 1 ELSE 0) = 1
  BY <1>1, <1>9 DEF Frames, Plain
<1>11. Life(f)' /\ Seen(f)'
  BY <1>0, <1>8 DEF FetchInv, Life, Seen, Before
<1>12. Flow(f)'
  <2>1. balance[f] \in Nat /\ Due(down[f]) \in Nat /\ Credit \in Nat
    BY <1>0 DEF Parts
  <2>2. Count(queue'[f], "chunk") <= 2 * Credit
    <3>1. ~(Count(queue[f], "chunk") + (IF m = "chunk" THEN 1 ELSE 0) > 2 * Credit)
      BY <1>5, UnitsAreChunks DEF OverBytes
    <3> QED BY <1>3, <1>4, <2>1, <3>1
  <2>3. port[f] \in Crediting =>
          balance[f] + Due(down[f]) + Count(up[f], "chunk") + Count(queue[f], "chunk") <= Credit
    BY <1>0 DEF FetchInv, Flow
  <2>4. Count(up'[f], "chunk") + Count(queue'[f], "chunk") = Count(up[f], "chunk") + Count(queue[f], "chunk")
    BY <1>1, <1>3, <1>4
  <2>5. Count(queue'[f], "chunk") \in Nat
    BY <1>3, <1>4
  <2>6. port[f] \in Crediting =>
          balance[f] + Due(down[f]) + Count(up'[f], "chunk") + Count(queue'[f], "chunk") <= Credit
    <3>1. /\ Count(up[f], "chunk") \in Nat /\ Count(up'[f], "chunk") \in Nat
          /\ Count(queue[f], "chunk") \in Nat
      BY <1>0, <1>1 DEF Parts
    <3>2. CASE port[f] \in Crediting
      BY <2>1, <2>3, <2>4, <2>5, <3>1, <3>2
    <3> QED BY <3>2
  <2> QED BY <1>0, <1>8, <2>2, <2>6 DEF FetchInv, Flow
<1>13. Asks(f)'
  <2>1. Count(up'[f], "refused") >= 1 => Count(up[f], "refused") >= 1
    BY <1>1
  <2>2. host[f] # "none"
    BY <1>0, <1>8 DEF FetchInv, Asks
  <2> QED BY <1>0, <1>8, <2>1, <2>2 DEF FetchInv, Asks
<1>14. Heads(f)'
  <2>1. Count(up'[f], "head") = Count(up[f], "head")
    BY <1>1, <1>9
  <2> QED BY <1>0, <1>8, <2>1 DEF FetchInv, Heads
<1>15. Spare(f)'
  <2>1. Spare(f) /\ terminal[f] = "no"
    BY <1>0 DEF FetchInv, Life
  <2>2. Extras(up'[f]) + Extras(queue'[f]) = Extras(up[f]) + Extras(queue[f])
    BY <1>1, <1>3, <1>4
  <2>3. Extras(up'[f]) + Extras(queue'[f]) <= free[f]
    BY <2>1, <2>2 DEF Spare
  <2>4. Len(queue'[f]) <= Count(queue'[f], "chunk") + Extras(queue'[f])
    <3>1. Len(queue[f]) <= Count(queue[f], "chunk") + Extras(queue[f])
      BY <2>1 DEF Spare
    <3>2. Count(queue'[f], "chunk") + Extras(queue'[f]) = Count(queue[f], "chunk") + Extras(queue[f]) + 1
      BY <1>3, <1>4, <1>10
    <3> QED BY <1>3, <1>4, <3>1, <3>2
  <2>5. Len(queue'[f]) <= FrameLimit
    BY <1>3, <1>4, <1>5
  <2> QED BY <1>8, <2>1, <2>3, <2>4, <2>5 DEF Spare
<1> QED BY <1>6, <1>7, <1>11, <1>12, <1>13, <1>14, <1>15, OneFetch DEF FetchInv

\* an invalid frame, or one beyond a limit, closes the queue
LEMMA FrameClosesKeeps ==
  ASSUME IInv, NEW f \in Fetches, NEW m, Arrives(f, m), f \in waiters, pc[f] = "streaming",
         CutBy(queue[f], m) # "no", CloseQueue(f, CutBy(queue[f], m)),
         UNCHANGED <<pc, res>>
  PROVE  IInv'
<1>0. Types /\ Parts(f) /\ FetchInv(f)
  BY PartsOK DEF IInv
<1>1. /\ up' \in [Fetches -> Seq(Frames)] /\ \A g \in Fetches : g # f => up'[g] = up[g]
      /\ Count(up'[f], "head") \in Nat /\ Count(up'[f], "chunk") \in Nat
      /\ Count(up'[f], "refused") \in Nat
      /\ Count(up'[f], "head") <= Count(up[f], "head")
      /\ Count(up[f], "chunk") = Count(up'[f], "chunk") + (IF m = "chunk" THEN 1 ELSE 0)
      /\ Count(up'[f], "refused") <= Count(up[f], "refused")
      /\ Extras(up'[f]) \in Nat /\ Extras(up[f]) = Extras(up'[f]) + (IF m \in Plain THEN 1 ELSE 0)
      /\ m \in Frames
  BY Arrived
<1>2. /\ down' \in [Fetches -> Seq(Orders)]
      /\ \A g \in Fetches : g # f => down'[g] = down[g]
      /\ Due(down'[f]) = Due(down[f])
      /\ Count(down'[f], "fetch") = Count(down[f], "fetch")
      /\ Count(down'[f], "grant") = Count(down[f], "grant")
      /\ Count(down'[f], "credit") = Count(down[f], "credit")
      /\ Count(down[f], "fetch") >= 1 => down'[f][1] = down[f][1]
  BY <1>0, ToldCancel DEF CloseQueue
<1>3. "error" \in Frames /\ <<"error">> \in Seq(Frames)
  BY DEF Frames, Plain
<1>4. /\ queue'[f] = <<"error">> /\ queue' \in [Fetches -> Seq(Frames)]
      /\ terminal'[f] = CutBy(queue[f], m) /\ terminal' \in [Fetches -> {"no", "bytes", "frames", "bad"}]
      /\ f \notin waiters' /\ waiters' \subseteq Fetches
      /\ \A g \in Fetches : g # f => /\ queue'[g] = queue[g] /\ terminal'[g] = terminal[g]
                                     /\ g \in waiters' <=> g \in waiters
  <2>1. CutBy(queue[f], m) \in {"no", "bytes", "frames", "bad"}
    BY DEF CutBy
  <2> QED BY <1>0, <1>3, <2>1 DEF CloseQueue, Types
<1>5. Count(queue'[f], "chunk") = 0 /\ Len(queue'[f]) = 1
  <2>0. <<>> \in Seq(Frames)
    OBVIOUS
  <2>1. <<"error">> = Append(<<>>, "error")
    OBVIOUS
  <2>2. \A x : Count(Append(<<>>, "error"), x) = Count(<<>>, x) + (IF "error" = x THEN 1 ELSE 0)
    BY <1>3, <2>0, CountAppend
  <2> QED BY <1>4, <2>1, <2>2, EmptyCounts
<1>6. Types'
  BY <1>0, <1>1, <1>2, <1>4 DEF Types, Arrives
<1>7. Only(f)
  BY <1>1, <1>2, <1>4 DEF Only, Arrives
<1>8. /\ pc' = pc /\ res' = res /\ port' = port
      /\ probe' = probe /\ upstream' = upstream
      /\ alive' = alive /\ host' = host /\ balance' = balance /\ free' = free /\ up[f] # <<>>
  BY DEF Arrives
<1>9. /\ balance[f] \in Nat /\ Due(down[f]) \in Nat /\ Credit \in Nat /\ Credit >= 1
      /\ Count(queue[f], "chunk") \in Nat /\ Count(up[f], "chunk") \in Nat
      /\ Count(up[f], "head") \in Nat /\ Count(up[f], "refused") \in Nat
  BY <1>0 DEF Parts
<1>10. port[f] \in Crediting =>
         /\ balance[f] + Due(down[f]) + Count(up[f], "chunk") + Count(queue[f], "chunk") <= Credit
         /\ ~OverBytes(queue[f], m)
  <2> SUFFICES ASSUME port[f] \in Crediting
               PROVE  /\ balance[f] + Due(down[f]) + Count(up[f], "chunk") + Count(queue[f], "chunk") <= Credit
                      /\ ~OverBytes(queue[f], m)
    OBVIOUS
  <2>1. balance[f] + Due(down[f]) + Count(up[f], "chunk") + Count(queue[f], "chunk") <= Credit
    BY <1>0 DEF FetchInv, Flow
  <2>2. ASSUME OverBytes(queue[f], m) PROVE FALSE
    <3>1. Count(queue[f], "chunk") + (IF m = "chunk" THEN 1 ELSE 0) > 2 * Credit
      BY <2>2, UnitsAreChunks DEF OverBytes
    <3>2. (IF m = "chunk" THEN 1 ELSE 0) <= Count(up[f], "chunk")
      BY <1>1, <1>9
    <3> QED BY <1>9, <2>1, <3>1, <3>2
  <2> QED BY <2>1, <2>2
<1>11. Life(f)' /\ Seen(f)'
  BY <1>0, <1>4, <1>8 DEF FetchInv, Life, Seen, Before
<1>12. Flow(f)'
  <2>1. port[f] \in Crediting =>
          balance[f] + Due(down'[f]) + Count(up'[f], "chunk") + Count(queue'[f], "chunk") <= Credit
    BY SMTT(30), <1>1, <1>2, <1>5, <1>9, <1>10
  <2>2. port[f] \in Crediting => terminal'[f] # "bytes"
    BY <1>4, <1>10 DEF CutBy
  <2>3. port[f] \notin Crediting =>
          balance[f] = 0 /\ Count(down'[f], "grant") = 0 /\ Count(down'[f], "credit") = 0
    BY <1>0, <1>2 DEF FetchInv, Flow
  <2>4. Count(queue'[f], "chunk") <= 2 * Credit
    BY <1>5, <1>9
  <2> QED BY <1>8, <2>1, <2>2, <2>3, <2>4 DEF Flow
<1>13. Asks(f)'
  <2>1. Count(up'[f], "refused") >= 1 => Count(up[f], "refused") >= 1
    BY <1>1, <1>9
  <2>2. host[f] # "none"
    BY <1>0, <1>8 DEF FetchInv, Asks
  <2> QED BY <1>0, <1>2, <1>8, <2>1, <2>2 DEF FetchInv, Asks
<1>14. Heads(f)'
  <2>1. Count(up'[f], "head") <= (IF host[f] \in {"none", "serving"} THEN 0 ELSE 1)
    BY <1>0, <1>1, <1>9 DEF FetchInv, Heads
  <2>2. host[f] \in {"answering", "over"} /\ Count(up'[f], "head") = 0
    BY <1>0, <1>1, <1>9 DEF FetchInv, Heads
  <2> QED BY <1>8, <2>1, <2>2 DEF Heads
<1>15. Spare(f)'
  <2>1. /\ Spare(f) /\ terminal[f] = "no" /\ Extras(up[f]) \in Nat /\ Extras(queue[f]) \in Nat
        /\ free[f] \in Nat /\ Len(queue[f]) \in Nat /\ FrameLimit \in Nat /\ FrameLimit >= 1
    BY <1>0 DEF FetchInv, Life, Parts
  <2>2. Extras(up[f]) + Extras(queue[f]) <= free[f]
    BY <2>1 DEF Spare
  <2>3. Len(queue[f]) <= Count(queue[f], "chunk") + Extras(queue[f])
    BY <2>1 DEF Spare
  <2>4. terminal'[f] # "no" /\ Extras(up'[f]) <= free[f]
    BY <1>1, <1>4, <2>1, <2>2
  <2>5. ASSUME port[f] \in Crediting, terminal'[f] = "frames" PROVE Credit + free[f] > FrameLimit
    <3>1. m # "bad" /\ Len(queue[f]) >= FrameLimit
      BY <1>4, <2>5 DEF CutBy
    <3>2. m # "head"
      <4>1. Count(up[f], "head") = 0
        BY <1>0 DEF FetchInv, Heads
      <4> QED BY <4>1, Arrived
    <3>3. (IF m = "chunk" THEN 1 ELSE 0) + (IF m \in Plain THEN 1 ELSE 0) = 1
      BY <1>1, <3>2 DEF Frames, Plain
    <3>4. Count(up'[f], "chunk") + (IF m = "chunk" THEN 1 ELSE 0) + Count(queue[f], "chunk") <= Credit
      BY <1>1, <1>9, <1>10, <2>5
    <3>5. Extras(up'[f]) + (IF m \in Plain THEN 1 ELSE 0) + Extras(queue[f]) <= free[f]
      BY <1>1, <2>1, <2>2
    <3> DEFINE c == IF m = "chunk" THEN 1 ELSE 0
               e == IF m \in Plain THEN 1 ELSE 0
    <3>6. c \in Nat /\ e \in Nat /\ c + e = 1
      BY <3>3
    <3>n. /\ Count(up'[f], "chunk") \in Nat /\ Extras(up'[f]) \in Nat
          /\ Count(queue[f], "chunk") \in Nat /\ Extras(queue[f]) \in Nat /\ free[f] \in Nat
          /\ Len(queue[f]) \in Nat /\ FrameLimit \in Nat /\ Credit \in Nat
      BY <1>1, <1>9, <2>1
    <3>x. Count(up'[f], "chunk") + c + Count(queue[f], "chunk") <= Credit
      BY <3>4
    <3>y. Extras(up'[f]) + e + Extras(queue[f]) <= free[f]
      BY <3>5
    <3> HIDE DEF c, e
    <3>7. Count(queue[f], "chunk") + c <= Credit /\ Extras(queue[f]) + e <= free[f]
      BY <3>n, <3>6, <3>x, <3>y
    <3> QED BY <2>3, <3>n, <3>1, <3>6, <3>7
  <2>6. Extras(up'[f]) + (IF terminal'[f] = "no" THEN Extras(queue'[f]) ELSE 0) <= free'[f]
    BY <1>1, <1>8, <2>1, <2>4
  <2>7. Len(queue'[f]) <= FrameLimit
    BY <1>5, <2>1
  <2> QED BY <1>8, <2>4, <2>5, <2>6, <2>7 DEF Spare
<1> QED BY <1>6, <1>7, <1>11, <1>12, <1>13, <1>14, <1>15, OneFetch DEF FetchInv

LEMMA FrameKeeps == ASSUME IInv, NEW f \in Fetches, Frame(f) PROVE IInv'
<1> DEFINE m == Head(up[f])
<1>1. Arrives(f, m)
  BY DEF Frame, Arrives, channel, remote
<1>2. CASE f \notin waiters /\ UNCHANGED <<pc, res, waiters, queue, terminal, down>>
  BY <1>1, <1>2, FrameDroppedKeeps
<1>3. CASE f \in waiters /\ pc[f] = "awaiting" /\ FirstFrame(f, m) /\ UNCHANGED terminal
  <2>1. CASE m = "head" /\ pc' = [pc EXCEPT ![f] = "streaming"] /\ UNCHANGED <<res, waiters, queue, down>>
    BY <1>1, <1>3, <2>1, FrameStartsKeeps
  <2>2. CASE m = "head" /\ End(f, "complete") /\ Cleanup(f) /\ Tell(f, "cancel")
    BY <1>1, <1>3, <2>2, FrameEndsKeeps
  <2>3. CASE m = "refused" /\ End(f, "null") /\ Cleanup(f) /\ UNCHANGED down
    BY <1>1, <1>3, <2>3, FrameEndsKeeps
  <2>4. CASE /\ m \in {"error", "bad", "stray", "chunk", "empty", "end"}
             /\ End(f, AfterDispatch(f)) /\ Cleanup(f) /\ (Tell(f, "cancel") \/ UNCHANGED down)
    <3>1. AfterDispatch(f) \in {"null", "unknown", "complete"} /\ (f \notin Safe => AfterDispatch(f) # "null")
      BY DEF AfterDispatch
    <3> HIDE DEF m
    <3> QED BY <1>1, <1>3, <2>4, <3>1, FrameEndsKeeps
  <2> HIDE DEF m
  <2> QED BY <1>3, <2>1, <2>2, <2>3, <2>4 DEF FirstFrame
<1>4. CASE /\ f \in waiters /\ pc[f] = "streaming" /\ UNCHANGED <<pc, res>>
           /\ CutBy(queue[f], m) # "no" /\ CloseQueue(f, CutBy(queue[f], m))
  BY <1>1, <1>4, FrameClosesKeeps
<1>5. CASE /\ f \in waiters /\ pc[f] = "streaming" /\ UNCHANGED <<pc, res>>
           /\ CutBy(queue[f], m) = "no"
           /\ queue' = [queue EXCEPT ![f] = Append(@, m)] /\ UNCHANGED <<waiters, terminal, down>>
  BY <1>1, <1>5, FrameQueuedKeeps
<1> QED BY <1>2, <1>3, <1>4, <1>5 DEF Frame

--------------------------------------------------------------------------------
(* The steps of no single fetch, and the theorems. *)

LEMMA RegisterKeeps == ASSUME IInv, NEW p \in Ports, Register(p) PROVE IInv'
<1>1. Types'
  BY DEF IInv, Types, Register, link, remote
<1>2. ASSUME NEW f \in Fetches PROVE FetchInv(f)'
  <2>1. FetchInv(f) /\ Types
    BY DEF IInv
  <2>2. /\ res' = res /\ port' = port /\ waiters' = waiters /\ queue' = queue
        /\ terminal' = terminal /\ probe' = probe /\ down' = down /\ up' = up
        /\ host' = host /\ balance' = balance /\ free' = free /\ upstream' = upstream
        /\ alive' = alive \cup {p} /\ port[f] # p
    BY DEF Register, link, remote
  <2>3. pc'[f] = IF pc[f] = "parked" THEN "go" ELSE pc[f]
    BY DEF Register
  <2>4. Life(f)'
    BY <2>1, <2>2, <2>3 DEF FetchInv, Life, Before
  <2>5. Flow(f)' /\ Asks(f)' /\ Spare(f)'
    BY <2>1, <2>2 DEF FetchInv, Flow, Asks, Spare
  <2>6. Heads(f)'
    BY <2>1, <2>2, <2>3 DEF FetchInv, Heads
  <2>7. Seen(f)'
    BY <2>1, <2>2 DEF FetchInv, Seen
  <2> QED BY <2>4, <2>5, <2>6, <2>7 DEF FetchInv
<1> QED BY <1>1, <1>2 DEF IInv

\* every fetch stands where it stood, and no port has come alive
LEMMA StillKeeps ==
  ASSUME IInv, alive' \subseteq alive, backoff' \in BOOLEAN,
         UNCHANGED <<hostPort, pc, res, port, waiters, queue, terminal, probe, down, up,
                     host, balance, sent, free, upstream>>
  PROVE  IInv'
<1>1. Types'
  BY DEF IInv, Types
<1>2. ASSUME NEW f \in Fetches PROVE FetchInv(f)'
  <2>1. FetchInv(f)
    BY DEF IInv
  <2>2. Life(f)' /\ Flow(f)'
    BY <2>1 DEF FetchInv, Life, Flow
  <2>3. Asks(f)' /\ Heads(f)' /\ Spare(f)'
    BY <2>1 DEF FetchInv, Asks, Heads, Spare
  <2>4. Seen(f)'
    BY <2>1 DEF FetchInv, Seen
  <2> QED BY <2>2, <2>3, <2>4 DEF FetchInv
<1> QED BY <1>1, <1>2 DEF IInv

LEMMA InitHolds == Init => IInv
<1> SUFFICES ASSUME Init PROVE IInv
  OBVIOUS
<1>1. Types
  <2>1. <<>> \in Seq(Frames) /\ <<>> \in Seq(Orders)
    OBVIOUS
  <2> QED BY <2>1 DEF Init, Types
<1>2. ASSUME NEW f \in Fetches PROVE FetchInv(f)
  BY EmptyCounts, CreditAssumption, SetsAssumption, NoneAssumption
     DEF Init, FetchInv, Life, Flow, Asks, Heads, Spare, Seen, Before, None
<1> QED BY <1>1, <1>2 DEF IInv

LEMMA NextKeeps == IInv /\ [Next]_vars => IInv'
<1> SUFFICES ASSUME IInv, [Next]_vars PROVE IInv'
  OBVIOUS
<1>1. ASSUME NEW f \in Fetches, Worker(f) PROVE IInv'
  <2>1. CASE Begin(f) \/ Asked(f) \/ ParkDeadline(f)
    BY <2>1, BeginKeeps, AskedKeeps, ParkDeadlineKeeps
  <2>2. CASE NotCarried(f) \/ Send(f) \/ SendThrows(f)
    BY <2>2, NotCarriedKeeps, SendKeeps, SendThrowsKeeps
  <2>3. CASE Frame(f) \/ Pull(f)
    BY <2>3, FrameKeeps, PullKeeps
  <2>4. CASE Abort(f) \/ HeaderDeadline(f)
    BY <2>4, AbortKeeps, HeaderDeadlineKeeps
  <2>5. CASE ProbeFires(f) \/ ProbeLooks(f) \/ ProbeConcludes(f)
    BY <2>5, ProbeFiresKeeps, ProbeLooksKeeps, ProbeConcludesKeeps
  <2> QED BY <1>1, <2>1, <2>2, <2>3, <2>4, <2>5 DEF Worker
<1>2. ASSUME NEW f \in Fetches, Embedder(f) PROVE IInv'
  BY <1>2, HostReceivesKeeps, HostForwardsKeeps, HostRefusesKeeps, HostAnswersKeeps,
     HostSendsKeeps, HostEndsKeeps, HostBreaksProtocolKeeps DEF Embedder
<1>3. ASSUME NEW p \in Ports, Register(p) PROVE IInv'
  BY <1>3, RegisterKeeps
<1>4. ASSUME NEW p \in Ports, PageDies(p) PROVE IInv'
  <2>1. /\ alive' \subseteq alive /\ backoff' \in BOOLEAN
        /\ UNCHANGED <<hostPort, pc, res, port, waiters, queue, terminal, probe, down, up,
                       host, balance, sent, free, upstream>>
    BY <1>4 DEF IInv, Types, PageDies, link, remote
  <2> QED BY <2>1, StillKeeps
<1>5. CASE BackoffEnds
  <2>1. /\ alive' \subseteq alive /\ backoff' \in BOOLEAN
        /\ UNCHANGED <<hostPort, pc, res, port, waiters, queue, terminal, probe, down, up,
                       host, balance, sent, free, upstream>>
    BY <1>5 DEF IInv, Types, BackoffEnds, link, remote
  <2> QED BY <2>1, StillKeeps
<1>6. CASE UNCHANGED vars
  <2>1. /\ alive' \subseteq alive /\ backoff' \in BOOLEAN
        /\ UNCHANGED <<hostPort, pc, res, port, waiters, queue, terminal, probe, down, up,
                       host, balance, sent, free, upstream>>
    BY <1>6 DEF IInv, Types, vars
  <2> QED BY <2>1, StillKeeps
<1> QED BY <1>1, <1>2, <1>3, <1>4, <1>5, <1>6 DEF Next

LEMMA Inductive == Spec => []IInv
  BY InitHolds, NextKeeps, PTL DEF Spec

\* Every variable keeps its type, a fetch never holds more unread frames than the limit
\* nor more unread chunks than two grants, and no embedder more than one grant of credit.
THEOREM TypeCorrect == Spec => []TypeOK
<1>1. IInv => TypeOK
  <2> SUFFICES ASSUME IInv PROVE TypeOK
    OBVIOUS
  <2>1. ASSUME NEW f \in Fetches
        PROVE  Len(queue[f]) <= FrameLimit /\ Units(queue[f]) <= 2 * Credit /\ balance[f] \in 0..Credit
    <3>0. Parts(f) /\ FetchInv(f)
      BY PartsOK DEF IInv
    <3>1. /\ balance[f] \in Nat /\ Due(down[f]) \in Nat /\ Credit \in Nat /\ Credit >= 1
          /\ Count(up[f], "chunk") \in Nat /\ Count(queue[f], "chunk") \in Nat
      BY <3>0 DEF Parts
    <3>2. balance[f] <= Credit
      <4>1. CASE port[f] \in Crediting
        <5>1. balance[f] + Due(down[f]) + Count(up[f], "chunk") + Count(queue[f], "chunk") <= Credit
          BY <3>0, <4>1 DEF FetchInv, Flow
        <5> QED BY <3>1, <5>1
      <4>2. CASE port[f] \notin Crediting
        BY <3>0, <3>1, <4>2 DEF FetchInv, Flow
      <4> QED BY <4>1, <4>2
    <3>3. Count(queue[f], "chunk") <= 2 * Credit
      BY <3>0 DEF FetchInv, Flow
    <3>4. Units(queue[f]) <= 2 * Credit
      BY <3>3, UnitsAreChunks
    <3>5. Len(queue[f]) <= FrameLimit
      BY <3>0 DEF FetchInv, Spare
    <3> QED BY <3>1, <3>2, <3>4, <3>5
  <2>2. balance \in [Fetches -> 0..Credit]
    BY <2>1 DEF IInv, Types
  <2> QED BY <2>1, <2>2 DEF IInv, Types, TypeOK
<1> QED BY <1>1, Inductive, PTL

\* A stream that is paced by credit is never cut off by the limit on unread bytes, and by
\* the limit on frames only when the chunks of a grant with the frames that cost none
\* exceed it; and a waiter is in the map exactly as long as its fetch or stream lives.
THEOREM StreamKept == Spec => []StreamIsKept
<1>1. IInv => StreamIsKept
  <2> SUFFICES ASSUME IInv PROVE StreamIsKept
    OBVIOUS
  <2>1. PacedNeverCutOff
    BY DEF IInv, FetchInv, Flow, Spare, PacedNeverCutOff
  <2>2. WaitersAreLive
    BY DEF IInv, Types, FetchInv, Life, WaitersAreLive
  <2> QED BY <2>1, <2>2 DEF StreamIsKept
<1> QED BY <1>1, Inductive, PTL

\* A write that ended null, which the caller sends again, was not sent to the
\* destination by the embedder and never will be.
THEOREM Undelivered == Spec => []FallbackIsUndelivered
<1>1. IInv => FallbackIsUndelivered
  <2> SUFFICES ASSUME IInv, NEW f \in Fetches \ Safe, res[f] = "null"
               PROVE  ~upstream[f] /\ ~Serves(f) /\ \A i \in 1..Len(down[f]) : down[f][i] # "fetch"
    BY DEF FallbackIsUndelivered
  <2>1. ~upstream[f] /\ host[f] \in {"none", "over"} /\ Count(down[f], "fetch") = 0
    BY DEF IInv, FetchInv, Asks
  <2>2. down[f] \in Seq(Orders)
    BY DEF IInv, Types
  <2>3. \A i \in 1..Len(down[f]) : down[f][i] # "fetch"
    BY <2>1, <2>2, CountZero
  <2> QED BY <2>1, <2>3 DEF Serves
<1> QED BY <1>1, Inductive, PTL

\* The probe drops a registration only when its page is gone, whatever registers
\* while it looks.
THEOREM ChannelKept == Spec => LiveChannelKept
<1> DEFINE Kept == hostPort # None /\ hostPort' = None => hostPort \notin alive
<1>1. ASSUME IInv, [Next]_vars PROVE Kept
  <2> SUFFICES ASSUME hostPort # None, hostPort' = None PROVE hostPort \notin alive
    OBVIOUS
  <2>1. ~UNCHANGED hostPort
    OBVIOUS
  <2>2. PICK f \in Fetches : ProbeConcludes(f)
    <3>1. ASSUME NEW p \in Ports, Register(p) PROVE FALSE
      BY <3>1, NoneAssumption DEF Register, None
    <3>2. ASSUME NEW p \in Ports, PageDies(p) PROVE FALSE
      BY <2>1, <3>2 DEF PageDies
    <3>3. ASSUME BackoffEnds PROVE FALSE
      BY <2>1, <3>3 DEF BackoffEnds
    <3>4. ASSUME NEW f \in Fetches, Embedder(f) PROVE FALSE
      BY <2>1, <3>4 DEF Embedder, HostReceives, HostForwards, HostRefuses, HostAnswers, HostSends,
                        HostEnds, HostBreaksProtocol, channel
    <3>5. ASSUME NEW f \in Fetches, Worker(f) PROVE ProbeConcludes(f)
      BY <2>1, <3>5 DEF Worker, Begin, Asked, ParkDeadline, NotCarried, Send, SendThrows, Frame, Pull,
                        Abort, HeaderDeadline, ProbeFires, ProbeLooks, channel
    <3>6. ~UNCHANGED vars
      BY <2>1 DEF vars
    <3> QED BY <1>1, <3>1, <3>2, <3>3, <3>4, <3>5, <3>6 DEF Next
  <2>3. hostPort = port[f] /\ probe[f] = "sawNone"
    BY <2>1, <2>2 DEF ProbeConcludes, DropsPort
  <2> QED BY <1>1, <2>2, <2>3 DEF IInv, FetchInv, Seen
<1>2. Spec => [][Kept]_vars
  BY <1>1, Inductive, PTL DEF Spec
<1> QED BY <1>2 DEF LiveChannelKept

--------------------------------------------------------------------------------
(* The sockets that ride the port (WsRelay).  The invariant says of each    *)
(* what the worker and the page hold before it is opened (Unopened), that   *)
(* both registries forget it together and its page is owed one close (Once),*)
(* what its wire is (Wire) and what its bufferedAmount counts (Owing).      *)

Ops == {"wsOpen", "text", "blob", "close"}
Events == {"open", "message", "drain", "error", "close"}
WireFrames == {"wsRelay", "text", "blob", "wsClose"}
Answers == {"wsOpen", "wsData", "wsClose", "wsError"}

Payload == {"text", "blob"}

\* the worker has not handled the constructor's message yet
Fresh(s) ==
  page[s].st = Unborn \/ (toWorker[s] # <<>> /\ Head(toWorker[s]) = "wsOpen")

Unopened(s) ==
  /\ page[s].st = Unborn => toWorker[s] = <<>>
  /\ \A i \in 1..Len(toWorker[s]) : toWorker[s][i] = "wsOpen" => i = 1
  /\ Fresh(s) =>
       /\ page[s].st \in {Unborn, Connecting, Closing} /\ page[s].closes = 0
       /\ bridge[s] = "none" /\ onWire[s] = <<>> /\ toPage[s] = <<>>

\* both registries forget a socket together, and its page is then owed a close
Once(s) ==
  /\ bridge[s] = "none" <=> conn[s] = "none"
  /\ ~Fresh(s) => page[s].closes + Occurring(toPage[s], {"close"})
                    = IF bridge[s] = "none" THEN 1 ELSE 0

Wire(s) ==
  /\ conn[s] # "none" => onWire[s] # <<>>
  /\ \A i \in 1..Len(onWire[s]) :
       /\ onWire[s][i] = "wsRelay" <=> i = 1
       /\ onWire[s][i] = "wsClose" => i = Len(onWire[s]) /\ conn[s] \notin Alive

Owing(s) ==
  /\ page[s].owed <= sends[s]
  /\ page[s].st \in {Unborn, Connecting} =>
       /\ page[s].owed = 0
       /\ Occurring(toWorker[s], Payload) = 0 /\ Occurring(toPage[s], {"drain"}) = 0
  /\ page[s].st = Open /\ bridge[s] # "none" =>
       page[s].owed = Occurring(toWorker[s], Payload) + Occurring(toPage[s], {"drain"})

Sock(s) == Unopened(s) /\ Once(s) /\ Wire(s) /\ Owing(s)
SInv == SocketsTypeOK /\ \A s \in Socks : Sock(s)

LEMMA ConcatIsAppend ==
  ASSUME NEW T, NEW q \in Seq(T), NEW a \in T, NEW b \in T
  PROVE  /\ q \o <<>> = q
         /\ q \o <<a>> = Append(q, a)
         /\ q \o <<a, b>> = Append(Append(q, a), b)
<1>1. q \o <<>> = q
  OBVIOUS
<1>2. q \o <<a>> = Append(q, a)
  OBVIOUS
<1>3. q \o <<a, b>> = Append(Append(q, a), b)
  OBVIOUS
<1> QED BY <1>1, <1>2, <1>3

LEMMA SockTypes ==
  ASSUME SocketsTypeOK, NEW s \in Socks
  PROVE  /\ page[s] \in [st: Unborn..Closed, owed: 0..MaxSends, closes: Nat]
         /\ page[s].st \in Unborn..Closed /\ page[s].owed \in 0..MaxSends /\ page[s].closes \in Nat
         /\ toWorker[s] \in Seq(Ops) /\ toPage[s] \in Seq(Events)
         /\ onWire[s] \in Seq(WireFrames) /\ back[s] \in Seq(Answers)
         /\ bridge[s] \in {"none", "conn", "ready"}
         /\ conn[s] \in {"none", "conn", "open", "closing"}
         /\ blobs[s] \in Nat /\ sends[s] \in 0..MaxSends
         /\ \A S : /\ Occurring(toWorker[s], S) \in Nat
                   /\ Occurring(toPage[s], S) \in Nat
<1>1. /\ page[s] \in [st: Unborn..Closed, owed: 0..MaxSends, closes: Nat]
      /\ toWorker[s] \in Seq(Ops) /\ toPage[s] \in Seq(Events)
      /\ onWire[s] \in Seq(WireFrames) /\ back[s] \in Seq(Answers)
      /\ bridge[s] \in {"none", "conn", "ready"}
      /\ conn[s] \in {"none", "conn", "open", "closing"}
      /\ blobs[s] \in Nat /\ sends[s] \in 0..MaxSends
  BY DEF SocketsTypeOK, Ops, Events, WireFrames, Answers
<1>2. \A S : Occurring(toWorker[s], S) \in Nat /\ Occurring(toPage[s], S) \in Nat
  BY <1>1, OccurringType
<1> QED BY <1>1, <1>2

\* nothing of the socket changes that the invariant speaks of
Same(s) ==
  /\ page'[s] = page[s] /\ toWorker'[s] = toWorker[s] /\ toPage'[s] = toPage[s]
  /\ bridge'[s] = bridge[s] /\ conn'[s] = conn[s] /\ onWire'[s] = onWire[s]
  /\ sends'[s] = sends[s]

LEMMA SameKeeps == ASSUME NEW s, Sock(s), Same(s) PROVE Sock(s)'
<1>1. Fresh(s)' <=> Fresh(s)
  BY DEF Same, Fresh
<1>2. Unopened(s)'
  BY <1>1 DEF Sock, Same, Unopened
<1>3. Once(s)'
  BY <1>1 DEF Sock, Same, Once
<1>4. Wire(s)'
  BY DEF Sock, Same, Wire
<1>5. Owing(s)'
  BY DEF Sock, Same, Owing
<1> QED BY <1>2, <1>3, <1>4, <1>5 DEF Sock

LEMMA OneSock ==
  ASSUME SInv, SocketsTypeOK', NEW s \in Socks, Sock(s)',
         \A g \in Socks : g # s => Same(g)
  PROVE  SInv'
<1>1. ASSUME NEW g \in Socks, g # s PROVE Sock(g)'
  BY <1>1, SameKeeps DEF SInv
<1> QED BY <1>1 DEF SInv

\* the worker takes the first message of the socket's port
LEMMA Read ==
  ASSUME SInv, NEW s \in Socks, toWorker[s] # <<>>,
         page'[s].st = page[s].st, toWorker'[s] = Tail(toWorker[s])
  PROVE  /\ Unopened(s)' /\ ~Fresh(s)'
         /\ Occurring(toWorker[s], Payload)
              = Occurring(toWorker'[s], Payload) + (IF Head(toWorker[s]) \in Payload THEN 1 ELSE 0)
         /\ Occurring(toWorker'[s], Payload) \in Nat
<1>1. Unopened(s) /\ toWorker[s] \in Seq(Ops)
  BY SockTypes DEF SInv, Sock
<1>2. page'[s].st # Unborn
  BY <1>1 DEF Unopened
<1>3. /\ toWorker'[s] \in Seq(Ops) /\ Len(toWorker'[s]) = Len(toWorker[s]) - 1
      /\ \A i \in 1..Len(toWorker'[s]) : toWorker'[s][i] = toWorker[s][i + 1] /\ i + 1 \in 1..Len(toWorker[s])
      /\ Len(toWorker[s]) \in Nat
  BY <1>1, HeadTailProperties
<1>4. \A i \in 1..Len(toWorker'[s]) : toWorker'[s][i] # "wsOpen"
  BY <1>1, <1>3 DEF Unopened
<1>5. ~Fresh(s)'
  <2>1. SUFFICES ASSUME toWorker'[s] # <<>> PROVE Head(toWorker'[s]) # "wsOpen"
    BY <1>2 DEF Fresh
  <2>2. Head(toWorker'[s]) = toWorker'[s][1] /\ 1 \in 1..Len(toWorker'[s])
    BY <1>3, <2>1, HeadTailProperties, EmptySeq
  <2> QED BY <1>4, <2>2
<1>6. Unopened(s)'
  BY <1>2, <1>4, <1>5 DEF Unopened
<1>7. Occurring(toWorker[s], Payload)
        = Occurring(toWorker'[s], Payload) + (IF Head(toWorker[s]) \in Payload THEN 1 ELSE 0)
  BY <1>1, OccurringTail
<1>8. Occurring(toWorker'[s], Payload) \in Nat
  BY <1>3, OccurringType
<1> QED BY <1>5, <1>6, <1>7, <1>8

LEMMA Numbers ==
  ASSUME SInv, NEW s \in Socks
  PROVE  /\ page[s].closes \in Nat /\ page[s].owed \in Nat /\ sends[s] \in Nat
         /\ Occurring(toPage[s], {"close"}) \in Nat
         /\ Occurring(toPage[s], {"drain"}) \in Nat
         /\ Occurring(toWorker[s], Payload) \in Nat
         /\ Unopened(s) /\ Once(s) /\ Wire(s) /\ Owing(s)
<1>1. SocketsTypeOK /\ Sock(s)
  BY DEF SInv
<1>2. /\ Occurring(toPage[s], {"close"}) \in Nat
      /\ Occurring(toPage[s], {"drain"}) \in Nat
      /\ Occurring(toWorker[s], Payload) \in Nat
  BY <1>1, SockTypes
<1>3. page[s].closes \in Nat /\ page[s].owed \in 0..MaxSends /\ sends[s] \in 0..MaxSends
  BY <1>1, SockTypes
<1> QED BY <1>1, <1>2, <1>3, SocketBounds DEF Sock

\* the worker acts on a socket; its page does not, and no payload is taken
Quiet(s) ==
  /\ page'[s] = page[s] /\ sends'[s] = sends[s]
  /\ Unopened(s)' /\ ~Fresh(s)' /\ ~Fresh(s)
  /\ Occurring(toWorker'[s], Payload) = Occurring(toWorker[s], Payload)

Tells(s, closes, drains) ==
  /\ Occurring(toPage'[s], {"close"}) = Occurring(toPage[s], {"close"}) + closes
  /\ Occurring(toPage'[s], {"drain"}) = Occurring(toPage[s], {"drain"}) + drains

\* a handler that ends nothing
LEMMA Idles ==
  ASSUME SInv, NEW s \in Socks, Quiet(s), Tells(s, 0, 0), onWire'[s] = onWire[s],
         bridge[s] # "none", bridge'[s] # "none", conn'[s] # "none",
         conn'[s] \in Alive => conn[s] \in Alive
  PROVE  Sock(s)'
<1>1. Unopened(s)'
  BY DEF Quiet
<1>2. Once(s)'
  BY Numbers DEF Once, Quiet, Tells
<1>3. Wire(s)'
  BY Numbers DEF Wire, Once
<1>4. Owing(s)'
  BY Numbers DEF Owing, Quiet, Tells
<1> QED BY <1>1, <1>2, <1>3, <1>4 DEF Sock

\* a handler that ends the socket
LEMMA Finishes ==
  ASSUME SInv, NEW s \in Socks, Quiet(s), Tells(s, 1, 0), onWire'[s] = onWire[s],
         bridge[s] # "none", bridge'[s] = "none", conn'[s] = "none"
  PROVE  Sock(s)'
<1>1. Unopened(s)'
  BY DEF Quiet
<1>2. Once(s)'
  BY Numbers DEF Once, Quiet, Tells
<1>3. Wire(s)'
  BY Numbers DEF Wire, Once, Alive
<1>4. Owing(s)'
  BY Numbers DEF Owing, Quiet, Tells
<1> QED BY <1>1, <1>2, <1>3, <1>4 DEF Sock

\* a frame is posted while the connection is alive
LEMMA Wired ==
  ASSUME SInv, NEW s \in Socks, conn[s] \in Alive, NEW m \in {"text", "blob", "wsClose"},
         onWire'[s] = Append(onWire[s], m), conn'[s] # "none",
         conn'[s] \in Alive => m # "wsClose"
  PROVE  Wire(s)'
<1>1. /\ onWire[s] \in Seq(WireFrames) /\ onWire[s] # <<>> /\ Wire(s)
      /\ conn[s] # "none"
  BY SockTypes DEF SInv, Sock, Wire, Alive
<1>2. /\ Len(onWire'[s]) = Len(onWire[s]) + 1 /\ Len(onWire[s]) \in Nat
      /\ onWire'[s][Len(onWire[s]) + 1] = m
      /\ \A i \in 1..Len(onWire[s]) : onWire'[s][i] = onWire[s][i]
      /\ Len(onWire[s]) # 0
  BY <1>1, EmptySeq, AppendProperties DEF WireFrames
<1>3. \A i \in 1..Len(onWire[s]) : onWire[s][i] # "wsClose"
  BY <1>1 DEF Wire
<1>4. onWire'[s] # <<>>
  BY <1>2
<1>5. ASSUME NEW i \in 1..Len(onWire'[s])
      PROVE  /\ onWire'[s][i] = "wsRelay" <=> i = 1
             /\ onWire'[s][i] = "wsClose" => i = Len(onWire'[s]) /\ conn'[s] \notin Alive
  <2>1. CASE i = Len(onWire[s]) + 1
    BY <1>2, <2>1
  <2>2. CASE i \in 1..Len(onWire[s])
    BY <1>1, <1>2, <1>3, <2>2 DEF Wire
  <2> QED BY <1>2, <2>1, <2>2
<1> QED BY <1>4, <1>5 DEF Wire

\* a handler that starts the close handshake
LEMMA ShutsDown ==
  ASSUME SInv, NEW s \in Socks, Quiet(s), Tells(s, 0, 0), conn[s] \in Alive,
         onWire'[s] = Append(onWire[s], "wsClose"),
         bridge[s] # "none", bridge'[s] = bridge[s], conn'[s] = "closing"
  PROVE  Sock(s)'
<1>1. Unopened(s)'
  BY DEF Quiet
<1>2. Once(s)'
  BY Numbers DEF Once, Quiet, Tells
<1>3. Wire(s)'
  BY Wired DEF Alive
<1>4. Owing(s)'
  BY Numbers DEF Owing, Quiet, Tells
<1> QED BY <1>1, <1>2, <1>3, <1>4 DEF Sock

\* a handler that takes a payload
LEMMA Drains ==
  ASSUME SInv, NEW s \in Socks, page'[s] = page[s], sends'[s] = sends[s],
         Unopened(s)', ~Fresh(s)', ~Fresh(s), Tells(s, 0, 1),
         Occurring(toWorker[s], Payload) = Occurring(toWorker'[s], Payload) + 1,
         Occurring(toWorker'[s], Payload) \in Nat,
         bridge[s] # "none", bridge'[s] = bridge[s], conn'[s] = conn[s],
         \/ onWire'[s] = onWire[s]
         \/ conn[s] \in Alive /\ onWire'[s] = Append(onWire[s], "text")
  PROVE  Sock(s)'
<1>1. Once(s)'
  BY Numbers DEF Once, Tells
<1>2. Wire(s)'
  <2>1. CASE onWire'[s] = onWire[s]
    BY <2>1 DEF SInv, Sock, Wire
  <2>2. CASE conn[s] \in Alive /\ onWire'[s] = Append(onWire[s], "text")
    BY <2>2, Wired DEF Alive
  <2> QED BY <2>1, <2>2
<1>3. Owing(s)'
  <2>1. page[s].st \notin {Unborn, Connecting}
    BY Numbers DEF Owing
  <2>2. ASSUME page[s].st = Open
        PROVE  page[s].owed = Occurring(toWorker'[s], Payload) + Occurring(toPage'[s], {"drain"})
    BY <2>2, Numbers DEF Owing, Tells
  <2>3. page[s].owed <= sends[s]
    BY Numbers DEF Owing
  <2> QED BY <2>1, <2>2, <2>3 DEF Owing
<1> QED BY <1>1, <1>2, <1>3 DEF Sock

--------------------------------------------------------------------------------
(* The records that the handlers make. *)

Ended(r) ==
  /\ r.bridge = "none" /\ r.conn = "none" /\ r.frames = <<>>
  /\ r.events \in {<<"close">>, <<"error", "close">>}
Idle(r, s) ==
  /\ r.bridge # "none" /\ r.conn # "none" /\ r.frames = <<>>
  /\ r.bridge \in {"conn", "ready"} /\ r.conn \in {"conn", "open", "closing"}
  /\ r.conn \in Alive => conn[s] \in Alive
  /\ r.events \in {<<>>, <<"open">>, <<"message">>}
Shutting(r, s) ==
  /\ conn[s] \in Alive /\ r.bridge = bridge[s] /\ r.conn = "closing"
  /\ r.frames = <<"wsClose">> /\ r.events = <<>>

LEMMA AppendOnce == \A e, g : Append(<<>>, e) = <<e>> /\ Append(<<e>>, g) = <<e, g>>
<1> TAKE e, g
<1>1. Append(<<>>, e) = <<e>>
  OBVIOUS
<1>2. Append(<<e>>, g) = <<e, g>>
  <2>1. <<e>> \in Seq({e, g}) /\ <<e, g>> \in Seq({e, g}) /\ Append(<<e>>, g) \in Seq({e, g})
    OBVIOUS
  <2>2. /\ Len(Append(<<e>>, g)) = 2 /\ Len(<<e, g>>) = 2
        /\ Append(<<e>>, g)[1] = e /\ Append(<<e>>, g)[2] = g
    OBVIOUS
  <2>3. \A i \in 1..Len(Append(<<e>>, g)) : Append(<<e>>, g)[i] = <<e, g>>[i]
    BY <2>2
  <2>4. Len(Append(<<e>>, g)) = Len(<<e, g>>)
    BY <2>2
  <2> QED BY <2>1, <2>3, <2>4, SeqEqual
<1> QED BY <1>1, <1>2

LEMMA EchoedEnds == ASSUME NEW s, bridge[s] # "none" PROVE Ended(Echoed(State(s)))
BY AppendOnce DEF Ended, Echoed, EndSocket, Forgotten, State, Posts

LEMMA ErrsEnds == ASSUME NEW s, bridge[s] # "none" PROVE Ended(Errs(State(s)))
BY AppendOnce DEF Ended, Errs, EndSocket, Forgotten, State, Posts, Closes, Alive

LEMMA ShutDoes ==
  ASSUME SInv, NEW s \in Socks, bridge[s] # "none"
  PROVE  \/ Ended(Shut(State(s)))
         \/ Idle(Shut(State(s)), s)
         \/ Shutting(Shut(State(s)), s)
<1>1. /\ bridge[s] \in {"conn", "ready"} /\ conn[s] \in {"conn", "open", "closing"}
  BY Numbers, SockTypes DEF SInv, Once
<1>2. CASE conn[s] \in Alive /\ ~socketPort
  <2>1. Ended(EndSocket(Forgotten(State(s)), TRUE))
    BY EchoedEnds DEF Echoed
  <2> QED BY <1>2, <2>1 DEF Shut, State
<1>3. CASE conn[s] \in Alive /\ socketPort
  <2>1. Shut(State(s)) = [State(s) EXCEPT !.conn = "closing", !.frames = Append(@, "wsClose")]
    BY <1>3 DEF Shut, State, Closes
  <2> QED BY <1>3, <2>1, AppendOnce DEF Shutting, State
<1>4. CASE conn[s] \notin Alive
  <2>1. Shut(State(s)) = State(s)
    BY <1>4 DEF Shut, State, Closes
  <2> QED BY <1>1, <1>4, <2>1 DEF Idle, State
<1> QED BY <1>2, <1>3, <1>4

LEMMA AnsweredDoes ==
  ASSUME SInv, NEW s \in Socks, bridge[s] # "none", NEW m \in Answers
  PROVE  Ended(Answered(State(s), m)) \/ Idle(Answered(State(s), m), s)
<1>1. /\ bridge[s] \in {"conn", "ready"} /\ conn[s] \in {"conn", "open", "closing"}
  BY Numbers, SockTypes DEF SInv, Once
<1>2. CASE m = "wsOpen"
  <2>1. Answered(State(s), m)
          = Posts([State(s) EXCEPT !.bridge = "ready", !.conn = IF @ = "conn" THEN "open" ELSE @], "open")
    BY <1>1, <1>2 DEF Answered, State
  <2>2. Idle(Answered(State(s), m), s)
    BY <1>1, <2>1, AppendOnce DEF Idle, State, Posts, Alive
  <2> QED BY <2>2
<1>3. CASE m = "wsData"
  <2>1. Answered(State(s), m) = Posts(State(s), "message")
    BY <1>1, <1>3 DEF Answered, State
  <2>2. Idle(Answered(State(s), m), s)
    BY <1>1, <2>1, AppendOnce DEF Idle, State, Posts
  <2> QED BY <2>2
<1>4. CASE m = "wsClose"
  BY <1>4, EchoedEnds DEF Answered
<1>5. CASE m = "wsError"
  BY <1>5, ErrsEnds DEF Answered
<1> QED BY <1>2, <1>3, <1>4, <1>5 DEF Answers

LEMMA SendsDrains ==
  ASSUME NEW s, NEW kind
  PROVE  /\ Sends(State(s), kind).bridge = bridge[s]
         /\ Sends(State(s), kind).conn = conn[s]
         /\ Sends(State(s), kind).events = <<"drain">>
         /\ \/ Sends(State(s), kind).frames = <<>>
            \/ conn[s] \in Alive /\ Sends(State(s), kind).frames = <<"text">>
<1>1. CASE kind = "text" /\ conn[s] \in Alive /\ socketPort
  <2>1. Sends(State(s), kind) = Posts([State(s) EXCEPT !.frames = Append(@, "text")], "drain")
    BY <1>1 DEF Sends, State
  <2> QED BY <1>1, <2>1, AppendOnce DEF State, Posts
<1>2. CASE ~(kind = "text" /\ conn[s] \in Alive /\ socketPort)
  <2>1. Sends(State(s), kind) = Posts(State(s), "drain")
    BY <1>2 DEF Sends, State
  <2> QED BY <2>1, AppendOnce DEF State, Posts
<1> QED BY <1>1, <1>2

LEMMA Concats ==
  ASSUME NEW T, NEW q \in Seq(T), NEW e \in Seq(T)
  PROVE  q \o e \in Seq(T)
OBVIOUS

\* what Becomes leaves of the socket and of the others
LEMMA Became ==
  ASSUME SInv, NEW s \in Socks, NEW r, Becomes(s, r),
         r.bridge \in {"none", "conn", "ready"},
         r.conn \in {"none", "conn", "open", "closing"},
         r.frames \in Seq(WireFrames), r.events \in Seq(Events)
  PROVE  /\ toPage' \in [Socks -> Seq(Events)]
         /\ onWire' \in [Socks -> Seq(WireFrames)]
         /\ bridge' \in [Socks -> {"none", "conn", "ready"}]
         /\ conn' \in [Socks -> {"none", "conn", "open", "closing"}]
         /\ bridge'[s] = r.bridge /\ conn'[s] = r.conn
         /\ onWire'[s] = onWire[s] \o r.frames /\ toPage'[s] = toPage[s] \o r.events
         /\ \A g \in Socks : g # s => /\ toPage'[g] = toPage[g] /\ onWire'[g] = onWire[g]
                                      /\ bridge'[g] = bridge[g] /\ conn'[g] = conn[g]
<1>1. /\ toPage \in [Socks -> Seq(Events)] /\ onWire \in [Socks -> Seq(WireFrames)]
      /\ bridge \in [Socks -> {"none", "conn", "ready"}]
      /\ conn \in [Socks -> {"none", "conn", "open", "closing"}]
  BY DEF SInv, SocketsTypeOK, Events, WireFrames
<1>2. onWire[s] \o r.frames \in Seq(WireFrames) /\ toPage[s] \o r.events \in Seq(Events)
  BY <1>1, Concats
<1>3. /\ bridge' = [bridge EXCEPT ![s] = r.bridge]
      /\ conn' = [conn EXCEPT ![s] = r.conn]
      /\ onWire' = [onWire EXCEPT ![s] = @ \o r.frames]
      /\ toPage' = [toPage EXCEPT ![s] = @ \o r.events]
  BY DEF Becomes
<1>4. toPage' \in [Socks -> Seq(Events)] /\ onWire' \in [Socks -> Seq(WireFrames)]
  BY <1>1, <1>2, <1>3
<1> QED BY <1>1, <1>3, <1>4

\* the counts of what a handler tells the page
LEMMA TellsBy ==
  ASSUME SInv, NEW s \in Socks
  PROVE  /\ toPage'[s] = toPage[s] \o <<>> => Tells(s, 0, 0)
         /\ \A e \in {"open", "message"} : toPage'[s] = toPage[s] \o <<e>> => Tells(s, 0, 0)
         /\ toPage'[s] = toPage[s] \o <<"drain">> => Tells(s, 0, 1)
         /\ toPage'[s] = toPage[s] \o <<"close">> => Tells(s, 1, 0)
         /\ toPage'[s] = toPage[s] \o <<"error", "close">> => Tells(s, 1, 0)
<1>1. toPage[s] \in Seq(Events)
  BY SockTypes DEF SInv
<1>2. \A e \in Events : \A S :
        /\ toPage[s] \o <<e>> \in Seq(Events)
        /\ Occurring(toPage[s] \o <<e>>, S) = Occurring(toPage[s], S) + (IF e \in S THEN 1 ELSE 0)
  <2> TAKE e \in Events
  <2> TAKE S
  <2>1. toPage[s] \o <<e>> = Append(toPage[s], e)
    BY <1>1, ConcatIsAppend
  <2>2. Append(toPage[s], e) \in Seq(Events)
    BY <1>1
  <2>3. Occurring(Append(toPage[s], e), S) = Occurring(toPage[s], S) + (IF e \in S THEN 1 ELSE 0)
    BY <1>1, OccurringAppend
  <2> QED BY <2>1, <2>2, <2>3
<1>3. toPage[s] \o <<>> = toPage[s]
  BY <1>1
<1>4. toPage[s] \o <<"error", "close">> = Append(toPage[s] \o <<"error">>, "close")
  BY <1>1 DEF Events
<1>5. \A S : Occurring(toPage[s] \o <<"error", "close">>, S)
               = Occurring(toPage[s] \o <<"error">>, S) + (IF "close" \in S THEN 1 ELSE 0)
  <2> TAKE S
  <2>1. toPage[s] \o <<"error">> \in Seq(Events) /\ "close" \in Events
    BY <1>2 DEF Events
  <2>2. Occurring(Append(toPage[s] \o <<"error">>, "close"), S)
          = Occurring(toPage[s] \o <<"error">>, S) + (IF "close" \in S THEN 1 ELSE 0)
    BY <2>1, OccurringAppend
  <2> QED BY <1>4, <2>2
<1>6. Occurring(toPage[s], {"close"}) \in Nat /\ Occurring(toPage[s], {"drain"}) \in Nat
  BY Numbers
<1>7. toPage'[s] = toPage[s] \o <<>> => Tells(s, 0, 0)
  BY <1>3, <1>6 DEF Tells
<1>8. \A e \in {"open", "message"} : toPage'[s] = toPage[s] \o <<e>> => Tells(s, 0, 0)
  BY <1>2, <1>6 DEF Tells, Events
<1>9. /\ toPage'[s] = toPage[s] \o <<"drain">> => Tells(s, 0, 1)
      /\ toPage'[s] = toPage[s] \o <<"close">> => Tells(s, 1, 0)
  BY <1>2, <1>6 DEF Tells, Events
<1>10. toPage'[s] = toPage[s] \o <<"error", "close">> => Tells(s, 1, 0)
  <2>1. /\ Occurring(toPage[s] \o <<"error">>, {"close"}) = Occurring(toPage[s], {"close"})
        /\ Occurring(toPage[s] \o <<"error">>, {"drain"}) = Occurring(toPage[s], {"drain"})
    BY <1>2, <1>6 DEF Events
  <2>2. /\ Occurring(toPage[s] \o <<"error", "close">>, {"close"}) = Occurring(toPage[s], {"close"}) + 1
        /\ Occurring(toPage[s] \o <<"error", "close">>, {"drain"}) = Occurring(toPage[s], {"drain"})
    BY <1>5, <1>6, <2>1
  <2> QED BY <1>6, <2>2 DEF Tells
<1> QED BY <1>7, <1>8, <1>9, <1>10

--------------------------------------------------------------------------------
(* The worker's steps. *)

\* what no step of the worker touches
Aside ==
  /\ page' = page /\ sends' = sends
  /\ blobs' \in [Socks -> Nat]
  /\ back' \in [Socks -> Seq(Answers)]

\* whichever of the three a handler makes of a socket, the invariant holds on
LEMMA Handled ==
  ASSUME SInv, NEW s \in Socks, NEW r, Becomes(s, r), Aside,
         toWorker' \in [Socks -> Seq(Ops)],
         \A g \in Socks : g # s => toWorker'[g] = toWorker[g],
         Unopened(s)', ~Fresh(s)', ~Fresh(s), bridge[s] # "none",
         Occurring(toWorker'[s], Payload) = Occurring(toWorker[s], Payload),
         Ended(r) \/ Idle(r, s) \/ Shutting(r, s)
  PROVE  SInv'
<1>1. /\ r.bridge \in {"none", "conn", "ready"} /\ r.conn \in {"none", "conn", "open", "closing"}
      /\ r.frames \in Seq(WireFrames) /\ r.events \in Seq(Events)
  <2>1. bridge[s] \in {"none", "conn", "ready"}
    BY SockTypes DEF SInv
  <2>0. /\ <<>> \in Seq(WireFrames) /\ <<"wsClose">> \in Seq(WireFrames) /\ <<>> \in Seq(Events)
        /\ \A e \in Events : <<e>> \in Seq(Events) /\ \A g \in Events : <<e, g>> \in Seq(Events)
    BY DEF WireFrames
  <2>5. "close" \in Events /\ "error" \in Events /\ "open" \in Events /\ "message" \in Events
    BY DEF Events
  <2>2. CASE Ended(r)
    BY <2>0, <2>2, <2>5 DEF Ended
  <2>3. CASE Idle(r, s)
    BY <2>0, <2>3, <2>5 DEF Idle
  <2>4. CASE Shutting(r, s)
    BY <2>0, <2>1, <2>4 DEF Shutting
  <2> QED BY <2>2, <2>3, <2>4
<1>2. /\ toPage' \in [Socks -> Seq(Events)]
      /\ onWire' \in [Socks -> Seq(WireFrames)]
      /\ bridge' \in [Socks -> {"none", "conn", "ready"}]
      /\ conn' \in [Socks -> {"none", "conn", "open", "closing"}]
      /\ bridge'[s] = r.bridge /\ conn'[s] = r.conn
      /\ onWire'[s] = onWire[s] \o r.frames /\ toPage'[s] = toPage[s] \o r.events
      /\ \A g \in Socks : g # s => /\ toPage'[g] = toPage[g] /\ onWire'[g] = onWire[g]
                                   /\ bridge'[g] = bridge[g] /\ conn'[g] = conn[g]
  BY <1>1, Became
<1>3. SocketsTypeOK'
  BY <1>2 DEF SInv, SocketsTypeOK, Aside, Ops, Events, WireFrames, Answers
<1>4. \A g \in Socks : g # s => Same(g)
  BY <1>2 DEF Same, Aside
<1>5. Quiet(s)
  BY DEF Quiet, Aside
<1>6. onWire[s] \in Seq(WireFrames) /\ onWire[s] \o <<>> = onWire[s]
      /\ onWire[s] \o <<"wsClose">> = Append(onWire[s], "wsClose")
  <2>1. onWire[s] \in Seq(WireFrames) /\ "wsClose" \in WireFrames
    BY SockTypes DEF SInv, WireFrames
  <2> QED BY <2>1, ConcatIsAppend
<1>7. CASE Ended(r)
  <2>1. Tells(s, 1, 0)
    BY <1>2, <1>7, TellsBy DEF Ended
  <2>2. Sock(s)'
    BY <1>2, <1>5, <1>6, <1>7, <2>1, Finishes DEF Ended
  <2> QED BY <1>3, <1>4, <2>2, OneSock
<1>8. CASE Idle(r, s)
  <2>1. Tells(s, 0, 0)
    BY <1>2, <1>8, TellsBy DEF Idle
  <2>2. Sock(s)'
    BY <1>2, <1>5, <1>6, <1>8, <2>1, Idles DEF Idle
  <2> QED BY <1>3, <1>4, <2>2, OneSock
<1>9. CASE Shutting(r, s)
  <2>1. Tells(s, 0, 0)
    BY <1>2, <1>9, TellsBy DEF Shutting
  <2>2. Sock(s)'
    BY <1>2, <1>5, <1>6, <1>9, <2>1, ShutsDown DEF Shutting
  <2> QED BY <1>3, <1>4, <2>2, OneSock
<1> QED BY <1>7, <1>8, <1>9

LEMMA HeldIsOpened ==
  ASSUME SInv, NEW s \in Socks
  PROVE  bridge[s] # "none" => ~Fresh(s) /\ conn[s] # "none"
BY Numbers DEF Unopened, Once

LEMMA NextUpReads ==
  ASSUME SInv, NEW s \in Socks, NEW ops, NextUp(s, ops)
  PROVE  /\ toWorker[s] # <<>> /\ Head(toWorker[s]) \in ops
         /\ toWorker'[s] = Tail(toWorker[s])
         /\ toWorker' \in [Socks -> Seq(Ops)]
         /\ \A g \in Socks : g # s => toWorker'[g] = toWorker[g]
<1>1. toWorker \in [Socks -> Seq(Ops)] /\ toWorker[s] # <<>>
  BY DEF SInv, SocketsTypeOK, Ops, NextUp
<1>2. Tail(toWorker[s]) \in Seq(Ops)
  BY <1>1
<1> QED BY <1>1, <1>2 DEF NextUp

LEMMA AsideTyped ==
  ASSUME SInv, page' = page, sends' = sends, UNCHANGED <<blobs, back>>
  PROVE  Aside
BY DEF SInv, SocketsTypeOK, Aside, Answers

LEMMA FallbackKeeps == ASSUME SInv, NEW s \in Socks, FallbackFires(s) PROVE SInv'
<1>1. Aside
  BY AsideTyped DEF FallbackFires, hostSide
<1>2. toWorker' = toWorker /\ toWorker \in [Socks -> Seq(Ops)]
  BY DEF FallbackFires, SInv, SocketsTypeOK, Ops
<1>3. bridge[s] # "none" /\ ~Fresh(s)
  BY Numbers, HeldIsOpened DEF Once, FallbackFires
<1>4. Unopened(s)' /\ ~Fresh(s)'
  BY <1>1, <1>2, <1>3, Numbers DEF Unopened, Fresh, Aside
<1>5. Becomes(s, Echoed(State(s))) /\ Ended(Echoed(State(s)))
  BY <1>3, EchoedEnds DEF FallbackFires
<1> QED BY <1>1, <1>2, <1>3, <1>4, <1>5, Handled

\* a handler that makes the record of the present state changes nothing
LEMMA StateStays ==
  ASSUME SInv, NEW s \in Socks, Becomes(s, State(s))
  PROVE  UNCHANGED <<toPage, bridge, conn, onWire>>
<1>1. /\ toPage \in [Socks -> Seq(Events)] /\ onWire \in [Socks -> Seq(WireFrames)]
      /\ bridge \in [Socks -> {"none", "conn", "ready"}]
      /\ conn \in [Socks -> {"none", "conn", "open", "closing"}]
  BY DEF SInv, SocketsTypeOK, Events, WireFrames
<1>2. toPage[s] \o <<>> = toPage[s] /\ onWire[s] \o <<>> = onWire[s]
  BY <1>1
<1>3. /\ bridge' = [bridge EXCEPT ![s] = bridge[s]] /\ conn' = [conn EXCEPT ![s] = conn[s]]
      /\ onWire' = [onWire EXCEPT ![s] = onWire[s]]
      /\ toPage' = [toPage EXCEPT ![s] = toPage[s]]
  BY <1>2 DEF Becomes, State
<1>4. toPage' = toPage /\ onWire' = onWire
  BY <1>1, <1>3
<1> QED BY <1>1, <1>3, <1>4

\* a message for a socket that the bridge no longer has
LEMMA Dropped ==
  ASSUME SInv, NEW s \in Socks, Aside, bridge[s] = "none",
         toWorker[s] # <<>>, Head(toWorker[s]) # "wsOpen",
         toWorker'[s] = Tail(toWorker[s]),
         toWorker' \in [Socks -> Seq(Ops)],
         \A g \in Socks : g # s => toWorker'[g] = toWorker[g],
         UNCHANGED <<toPage, bridge, conn, onWire>>
  PROVE  SInv'
<1>1. /\ Unopened(s)' /\ ~Fresh(s)'
      /\ Occurring(toWorker'[s], Payload) \in Nat
      /\ Occurring(toWorker'[s], Payload) <= Occurring(toWorker[s], Payload)
  <2>1. page'[s].st = page[s].st
    BY DEF Aside
  <2>2. /\ Unopened(s)' /\ ~Fresh(s)'
        /\ Occurring(toWorker[s], Payload)
             = Occurring(toWorker'[s], Payload) + (IF Head(toWorker[s]) \in Payload THEN 1 ELSE 0)
        /\ Occurring(toWorker'[s], Payload) \in Nat
    BY <2>1, Read
  <2>3. Occurring(toWorker'[s], Payload) <= Occurring(toWorker[s], Payload)
    BY <2>2
  <2> QED BY <2>2, <2>3
<1>2. ~Fresh(s)
  BY Numbers DEF Fresh, Unopened
<1>3. Once(s)'
  BY <1>1, <1>2, Numbers DEF Once, Aside
<1>4. Wire(s)'
  BY Numbers DEF Wire
<1>5. Owing(s)'
  BY <1>1, Numbers DEF Owing, Aside
<1>6. \A g \in Socks : g # s => Same(g)
  BY DEF Same, Aside
<1>7. SocketsTypeOK'
  BY DEF SInv, SocketsTypeOK, Aside, Ops, Answers
<1> QED BY <1>1, <1>3, <1>4, <1>5, <1>6, <1>7, OneSock DEF Sock

LEMMA BridgeClosesKeeps == ASSUME SInv, NEW s \in Socks, BridgeCloses(s) PROVE SInv'
<1>1. Aside
  BY AsideTyped DEF BridgeCloses, hostSide
<1>2. /\ toWorker[s] # <<>> /\ Head(toWorker[s]) \in {"close"}
      /\ toWorker'[s] = Tail(toWorker[s])
      /\ toWorker' \in [Socks -> Seq(Ops)]
      /\ \A g \in Socks : g # s => toWorker'[g] = toWorker[g]
  BY NextUpReads DEF BridgeCloses
<1>3. /\ Unopened(s)' /\ ~Fresh(s)'
      /\ Occurring(toWorker'[s], Payload) = Occurring(toWorker[s], Payload)
  <2>1. Head(toWorker[s]) \notin Payload /\ page'[s].st = page[s].st
    BY <1>1, <1>2 DEF Aside, Payload
  <2>2. /\ Unopened(s)' /\ ~Fresh(s)'
        /\ Occurring(toWorker[s], Payload)
             = Occurring(toWorker'[s], Payload) + (IF Head(toWorker[s]) \in Payload THEN 1 ELSE 0)
        /\ Occurring(toWorker'[s], Payload) \in Nat
    BY <1>2, <2>1, Read
  <2>3. Occurring(toWorker'[s], Payload) = Occurring(toWorker[s], Payload)
    BY <2>1, <2>2
  <2> QED BY <2>2, <2>3
<1>4. CASE bridge[s] # "none"
  <2>1. Becomes(s, Shut(State(s)))
    BY <1>4 DEF BridgeCloses
  <2> QED BY <1>1, <1>2, <1>3, <1>4, <2>1, Handled, ShutDoes, HeldIsOpened
<1>5. CASE bridge[s] = "none"
  <2>1. Becomes(s, State(s))
    BY <1>5 DEF BridgeCloses
  <2>2. UNCHANGED <<toPage, bridge, conn, onWire>>
    BY <1>5, StateStays DEF BridgeCloses
  <2> QED BY <1>1, <1>2, <1>5, <2>2, Dropped
<1> QED BY <1>4, <1>5

LEMMA BridgeSendsKeeps == ASSUME SInv, NEW s \in Socks, BridgeSends(s) PROVE SInv'
<1>1. /\ toWorker[s] # <<>> /\ Head(toWorker[s]) \in Payload
      /\ toWorker'[s] = Tail(toWorker[s])
      /\ toWorker' \in [Socks -> Seq(Ops)]
      /\ \A g \in Socks : g # s => toWorker'[g] = toWorker[g]
  BY NextUpReads DEF BridgeSends, Payload
<1>2. page' = page /\ sends' = sends /\ back' = back
  BY DEF BridgeSends, hostSide
<1>3. CASE bridge[s] = "none"
  <2>1. UNCHANGED <<toPage, bridge, conn, onWire, blobs>>
    BY <1>3 DEF BridgeSends
  <2>2. Aside
    BY <1>2, <2>1, AsideTyped
  <2>3. Head(toWorker[s]) # "wsOpen"
    BY <1>1 DEF Payload
  <2> QED BY <1>1, <1>3, <2>1, <2>2, <2>3, Dropped
<1>4. CASE bridge[s] # "none"
  <2> DEFINE r == Sends(State(s), Head(toWorker[s]))
  <2>1. /\ Becomes(s, r)
        /\ blobs' = [blobs EXCEPT ![s] = @ + IF Head(toWorker[s]) = "blob" /\ conn[s] \in Alive THEN 1 ELSE 0]
    BY <1>4 DEF BridgeSends
  <2>2. /\ r.bridge = bridge[s] /\ r.conn = conn[s] /\ r.events = <<"drain">>
        /\ \/ r.frames = <<>>
           \/ conn[s] \in Alive /\ r.frames = <<"text">>
    BY SendsDrains
  <2> HIDE DEF r
  <2>3. /\ r.bridge \in {"none", "conn", "ready"} /\ r.conn \in {"none", "conn", "open", "closing"}
        /\ r.frames \in Seq(WireFrames) /\ r.events \in Seq(Events)
    <3>1. /\ <<>> \in Seq(WireFrames) /\ <<"text">> \in Seq(WireFrames) /\ <<"drain">> \in Seq(Events)
      BY DEF WireFrames, Events
    <3> QED BY <2>2, <3>1, SockTypes DEF SInv
  <2>4. /\ toPage' \in [Socks -> Seq(Events)]
        /\ onWire' \in [Socks -> Seq(WireFrames)]
        /\ bridge' \in [Socks -> {"none", "conn", "ready"}]
        /\ conn' \in [Socks -> {"none", "conn", "open", "closing"}]
        /\ bridge'[s] = r.bridge /\ conn'[s] = r.conn
        /\ onWire'[s] = onWire[s] \o r.frames /\ toPage'[s] = toPage[s] \o r.events
        /\ \A g \in Socks : g # s => /\ toPage'[g] = toPage[g] /\ onWire'[g] = onWire[g]
                                     /\ bridge'[g] = bridge[g] /\ conn'[g] = conn[g]
    BY <2>1, <2>3, Became
  <2>5. blobs' \in [Socks -> Nat]
    BY <2>1 DEF SInv, SocketsTypeOK
  <2>6. SocketsTypeOK'
    BY <1>1, <1>2, <2>4, <2>5 DEF SInv, SocketsTypeOK, Ops, Events, WireFrames
  <2>7. \A g \in Socks : g # s => Same(g)
    BY <1>1, <1>2, <2>4 DEF Same
  <2>8. Tells(s, 0, 1)
    BY <2>2, <2>4, TellsBy
  <2>9. \/ onWire'[s] = onWire[s]
        \/ conn[s] \in Alive /\ onWire'[s] = Append(onWire[s], "text")
    <3>1. onWire[s] \in Seq(WireFrames) /\ "text" \in WireFrames
      BY SockTypes DEF SInv, WireFrames
    <3>2. onWire[s] \o <<>> = onWire[s] /\ onWire[s] \o <<"text">> = Append(onWire[s], "text")
      BY <3>1, ConcatIsAppend
    <3>3. CASE r.frames = <<>>
      BY <2>4, <3>2, <3>3
    <3>4. CASE conn[s] \in Alive /\ r.frames = <<"text">>
      BY <2>4, <3>2, <3>4
    <3> QED BY <2>2, <3>3, <3>4
  <2>10. /\ Unopened(s)' /\ ~Fresh(s)'
         /\ Occurring(toWorker[s], Payload) = Occurring(toWorker'[s], Payload) + 1
         /\ Occurring(toWorker'[s], Payload) \in Nat
    <3>1. page'[s].st = page[s].st
      BY <1>2
    <3> QED BY <1>1, <3>1, Read
  <2>11. ~Fresh(s) /\ page'[s] = page[s] /\ sends'[s] = sends[s] /\ bridge'[s] = bridge[s] /\ conn'[s] = conn[s]
    BY <1>2, <1>4, <2>2, <2>4, HeldIsOpened
  <2>12. Sock(s)'
    BY <1>4, <2>8, <2>9, <2>10, <2>11, Drains
  <2> QED BY <2>6, <2>7, <2>12, OneSock
<1> QED BY <1>3, <1>4

LEMMA BlobConvertsKeeps == ASSUME SInv, NEW s \in Socks, BlobConverts(s) PROVE SInv'
<1>1. /\ blobs[s] > 0 /\ blobs' = [blobs EXCEPT ![s] = @ - 1]
      /\ UNCHANGED <<page, toWorker, toPage, bridge, conn, sends, back>>
  BY DEF BlobConverts, hostSide
<1>2. blobs' \in [Socks -> Nat]
  BY <1>1 DEF SInv, SocketsTypeOK
<1>3. CASE conn[s] \in Alive /\ socketPort
  <2>1. onWire' = [onWire EXCEPT ![s] = Append(@, "blob")]
    BY <1>3 DEF BlobConverts
  <2>2. /\ onWire \in [Socks -> Seq(WireFrames)] /\ onWire[s] \in Seq(WireFrames)
        /\ Append(onWire[s], "blob") \in Seq(WireFrames)
    BY DEF SInv, SocketsTypeOK, WireFrames
  <2>3. /\ onWire' \in [Socks -> Seq(WireFrames)] /\ onWire'[s] = Append(onWire[s], "blob")
        /\ \A g \in Socks : g # s => onWire'[g] = onWire[g]
    BY <2>1, <2>2
  <2>4. SocketsTypeOK'
    BY <1>1, <1>2, <2>3 DEF SInv, SocketsTypeOK, WireFrames
  <2>5. Wire(s)'
    BY <1>1, <1>3, <2>3, Wired DEF Alive
  <2>6. ~Fresh(s)
    BY <1>3, HeldIsOpened, Numbers DEF Once, Alive
  <2>7. Unopened(s)' /\ Once(s)'
    BY <1>1, <2>6, Numbers DEF Unopened, Once, Fresh
  <2>8. Owing(s)'
    BY <1>1, Numbers DEF Owing
  <2>9. \A g \in Socks : g # s => Same(g)
    BY <1>1, <2>3 DEF Same
  <2> QED BY <2>4, <2>5, <2>7, <2>8, <2>9, OneSock DEF Sock
<1>4. CASE ~(conn[s] \in Alive /\ socketPort)
  <2>1. onWire' = onWire
    BY <1>4 DEF BlobConverts
  <2>2. SocketsTypeOK'
    BY <1>1, <1>2, <2>1 DEF SInv, SocketsTypeOK
  <2>3. \A g \in Socks : Same(g)
    BY <1>1, <2>1 DEF Same
  <2> QED BY <2>2, <2>3, SameKeeps DEF SInv
<1> QED BY <1>3, <1>4

LEMMA RelayHearsKeeps == ASSUME SInv, NEW s \in Socks, RelayHears(s) PROVE SInv'
<1>1. /\ back[s] # <<>> /\ back' = [back EXCEPT ![s] = Tail(@)]
      /\ UNCHANGED <<page, toWorker, blobs, sends>>
      /\ back \in [Socks -> Seq(Answers)] /\ back[s] \in Seq(Answers)
  BY DEF RelayHears, SInv, SocketsTypeOK, Answers
<1>2. Tail(back[s]) \in Seq(Answers) /\ Head(back[s]) \in Answers
  BY <1>1
<1>3. Aside /\ toWorker' \in [Socks -> Seq(Ops)]
  BY <1>1, <1>2 DEF Aside, SInv, SocketsTypeOK, Ops
<1>4. CASE conn[s] = "none"
  <2>1. UNCHANGED <<toPage, bridge, conn, onWire>>
    BY <1>4, StateStays DEF RelayHears
  <2>2. SocketsTypeOK'
    BY <1>3, <2>1 DEF SInv, SocketsTypeOK, Aside, Answers, Ops
  <2>3. \A g \in Socks : Same(g)
    BY <1>1, <2>1 DEF Same
  <2> QED BY <2>2, <2>3, SameKeeps DEF SInv
<1>5. CASE conn[s] # "none"
  <2>1. bridge[s] # "none" /\ ~Fresh(s)
    BY <1>5, HeldIsOpened, Numbers DEF Once
  <2>2. Becomes(s, Answered(State(s), Head(back[s])))
    BY <1>5 DEF RelayHears
  <2>3. Unopened(s)' /\ ~Fresh(s)'
    BY <1>1, <2>1, Numbers DEF Unopened, Fresh
  <2>4. Ended(Answered(State(s), Head(back[s]))) \/ Idle(Answered(State(s), Head(back[s])), s)
    BY <1>2, <2>1, AnsweredDoes
  <2> QED BY <1>1, <1>3, <2>1, <2>2, <2>3, <2>4, Handled
<1> QED BY <1>4, <1>5

\* what holds of a socket whose constructor's message is next
LEMMA Opening ==
  ASSUME SInv, NEW s \in Socks, NextUp(s, {"wsOpen"}), page' = page, sends' = sends
  PROVE  /\ Unopened(s)' /\ ~Fresh(s)'
         /\ page[s].closes = 0 /\ bridge[s] = "none" /\ conn[s] = "none"
         /\ onWire[s] = <<>> /\ toPage[s] = <<>> /\ page[s].st # Open
         /\ page[s].owed <= sends[s]
         /\ page[s].st \in {Unborn, Connecting} =>
              page[s].owed = 0 /\ Occurring(toWorker'[s], Payload) = 0
<1>1. /\ toWorker[s] # <<>> /\ Head(toWorker[s]) \in {"wsOpen"}
      /\ toWorker'[s] = Tail(toWorker[s])
  BY NextUpReads
<1>2. Fresh(s)
  BY <1>1 DEF Fresh
<1>3. /\ page[s].closes = 0 /\ bridge[s] = "none" /\ conn[s] = "none"
      /\ onWire[s] = <<>> /\ toPage[s] = <<>> /\ page[s].st # Open
      /\ page[s].owed <= sends[s]
      /\ page[s].st \in {Unborn, Connecting} =>
           page[s].owed = 0 /\ Occurring(toWorker[s], Payload) = 0
  BY <1>2, Numbers DEF Unopened, Once, Owing, Unborn, Connecting, Open, Closing
<1>4. /\ Unopened(s)' /\ ~Fresh(s)'
      /\ Occurring(toWorker[s], Payload)
           = Occurring(toWorker'[s], Payload) + (IF Head(toWorker[s]) \in Payload THEN 1 ELSE 0)
      /\ Occurring(toWorker'[s], Payload) \in Nat
  BY <1>1, Read
<1>5. Occurring(toWorker[s], Payload) = 0 => Occurring(toWorker'[s], Payload) = 0
  BY <1>4
<1> QED BY <1>3, <1>4, <1>5

LEMMA OpensKeeps == ASSUME SInv, NEW s \in Socks, Opens(s) PROVE SInv'
<1> DEFINE r == [bridge |-> "conn", conn |-> "conn", frames |-> <<"wsRelay">>, events |-> <<>>]
<1>1. /\ NextUp(s, {"wsOpen"}) /\ Becomes(s, r)
      /\ UNCHANGED <<page, blobs, sends, back>>
  BY DEF Opens, hostSide
<1>2. /\ Unopened(s)' /\ ~Fresh(s)'
      /\ page[s].closes = 0 /\ onWire[s] = <<>> /\ toPage[s] = <<>> /\ page[s].st # Open
      /\ page[s].owed <= sends[s]
      /\ page[s].st \in {Unborn, Connecting} =>
           page[s].owed = 0 /\ Occurring(toWorker'[s], Payload) = 0
  BY <1>1, Opening
<1>3. /\ r.bridge \in {"none", "conn", "ready"} /\ r.conn \in {"none", "conn", "open", "closing"}
      /\ r.frames \in Seq(WireFrames) /\ r.events \in Seq(Events)
      /\ r.bridge = "conn" /\ r.conn = "conn" /\ r.frames = <<"wsRelay">> /\ r.events = <<>>
  BY DEF WireFrames
<1> HIDE DEF r
<1>4. /\ toPage' \in [Socks -> Seq(Events)]
      /\ onWire' \in [Socks -> Seq(WireFrames)]
      /\ bridge' \in [Socks -> {"none", "conn", "ready"}]
      /\ conn' \in [Socks -> {"none", "conn", "open", "closing"}]
      /\ bridge'[s] = r.bridge /\ conn'[s] = r.conn
      /\ onWire'[s] = onWire[s] \o r.frames /\ toPage'[s] = toPage[s] \o r.events
      /\ \A g \in Socks : g # s => /\ toPage'[g] = toPage[g] /\ onWire'[g] = onWire[g]
                                   /\ bridge'[g] = bridge[g] /\ conn'[g] = conn[g]
  BY <1>1, <1>3, Became
<1>5. onWire'[s] = <<"wsRelay">> /\ toPage'[s] = <<>>
  BY <1>2, <1>3, <1>4
<1>6. /\ toWorker' \in [Socks -> Seq(Ops)]
      /\ \A g \in Socks : g # s => toWorker'[g] = toWorker[g]
  BY <1>1, NextUpReads
<1>7. SocketsTypeOK'
  BY <1>1, <1>4, <1>6 DEF SInv, SocketsTypeOK, Ops, Events, WireFrames
<1>8. \A g \in Socks : g # s => Same(g)
  BY <1>1, <1>4, <1>6 DEF Same
<1>9. Once(s)'
  <2>1. Occurring(toPage'[s], {"close"}) = 0
    BY <1>5, OccurringEmpty
  <2>2. page'[s].closes + Occurring(toPage'[s], {"close"}) = 0
    BY <1>1, <1>2, <2>1
  <2> QED BY <1>3, <1>4, <2>2 DEF Once
<1>10. Wire(s)'
  <2>1. conn'[s] = "conn"
    BY <1>3, <1>4
  <2> QED BY <1>5, <2>1 DEF Wire
<1>11. Owing(s)'
  <2>1. Occurring(toPage'[s], {"drain"}) = 0
    BY <1>5, OccurringEmpty
  <2> QED BY <1>1, <1>2, <2>1 DEF Owing
<1> QED BY <1>2, <1>7, <1>8, <1>9, <1>10, <1>11, OneSock DEF Sock

LEMMA RefusesKeeps == ASSUME SInv, NEW s \in Socks, Refuses(s) PROVE SInv'
<1> DEFINE r == [State(s) EXCEPT !.events = <<"error", "close">>]
<1>1. /\ NextUp(s, {"wsOpen"}) /\ Becomes(s, r)
      /\ UNCHANGED <<page, blobs, sends, back>>
  BY DEF Refuses, hostSide
<1>2. /\ Unopened(s)' /\ ~Fresh(s)'
      /\ page[s].closes = 0 /\ bridge[s] = "none" /\ conn[s] = "none"
      /\ onWire[s] = <<>> /\ toPage[s] = <<>> /\ page[s].st # Open
      /\ page[s].owed <= sends[s]
      /\ page[s].st \in {Unborn, Connecting} =>
           page[s].owed = 0 /\ Occurring(toWorker'[s], Payload) = 0
  BY <1>1, Opening
<1>3. /\ r.bridge \in {"none", "conn", "ready"} /\ r.conn \in {"none", "conn", "open", "closing"}
      /\ r.frames \in Seq(WireFrames) /\ r.events \in Seq(Events)
      /\ r.bridge = "none" /\ r.conn = "none" /\ r.frames = <<>> /\ r.events = <<"error", "close">>
  BY <1>2 DEF WireFrames, State, Events
<1> HIDE DEF r
<1>4. /\ toPage' \in [Socks -> Seq(Events)]
      /\ onWire' \in [Socks -> Seq(WireFrames)]
      /\ bridge' \in [Socks -> {"none", "conn", "ready"}]
      /\ conn' \in [Socks -> {"none", "conn", "open", "closing"}]
      /\ bridge'[s] = r.bridge /\ conn'[s] = r.conn
      /\ onWire'[s] = onWire[s] \o r.frames /\ toPage'[s] = toPage[s] \o r.events
      /\ \A g \in Socks : g # s => /\ toPage'[g] = toPage[g] /\ onWire'[g] = onWire[g]
                                   /\ bridge'[g] = bridge[g] /\ conn'[g] = conn[g]
  BY <1>1, <1>3, Became
<1>5. onWire'[s] = <<>> /\ Tells(s, 1, 0)
  <2>1. onWire'[s] = <<>> \o <<>> /\ toPage'[s] = toPage[s] \o <<"error", "close">>
    BY <1>2, <1>3, <1>4
  <2>2. Tells(s, 1, 0)
    BY <2>1, TellsBy
  <2> QED BY <2>1, <2>2
<1>6. /\ toWorker' \in [Socks -> Seq(Ops)]
      /\ \A g \in Socks : g # s => toWorker'[g] = toWorker[g]
  BY <1>1, NextUpReads
<1>7. SocketsTypeOK'
  BY <1>1, <1>4, <1>6 DEF SInv, SocketsTypeOK, Ops, Events, WireFrames
<1>8. \A g \in Socks : g # s => Same(g)
  BY <1>1, <1>4, <1>6 DEF Same
<1>9. Occurring(toPage'[s], {"close"}) = 1 /\ Occurring(toPage'[s], {"drain"}) = 0
  <2>1. Occurring(toPage[s], {"close"}) = 0 /\ Occurring(toPage[s], {"drain"}) = 0
    BY <1>2, OccurringEmpty
  <2> QED BY <1>5, <2>1 DEF Tells
<1>10. Once(s)'
  <2>1. page'[s].closes + Occurring(toPage'[s], {"close"}) = 1
    BY <1>1, <1>2, <1>9
  <2> QED BY <1>3, <1>4, <2>1 DEF Once
<1>11. Wire(s)'
  BY <1>3, <1>4, <1>5 DEF Wire
<1>12. Owing(s)'
  BY <1>1, <1>2, <1>9 DEF Owing
<1> QED BY <1>2, <1>7, <1>8, <1>10, <1>11, <1>12, OneSock DEF Sock

LEMMA ReRegistersKeeps == ASSUME SInv, ReRegisters PROVE SInv'
<1> DEFINE swept == [s \in Socks |-> IF conn[s] = "none" THEN State(s) ELSE Errs(State(s))]
<1>1. /\ bridge' = [s \in Socks |-> swept[s].bridge]
      /\ conn' = [s \in Socks |-> swept[s].conn]
      /\ toPage' = [s \in Socks |-> toPage[s] \o swept[s].events]
      /\ UNCHANGED <<page, toWorker, blobs, onWire, sends, back>>
  BY DEF ReRegisters, hostSide
<1>2. ASSUME NEW s \in Socks, conn[s] = "none"
      PROVE  Same(s)
  <2>1. swept[s] = State(s)
    BY <1>2
  <2>2. toPage[s] \o <<>> = toPage[s]
    BY SockTypes DEF SInv
  <2>3. swept[s].bridge = bridge[s] /\ swept[s].conn = conn[s] /\ swept[s].events = <<>>
    BY <2>1 DEF State
  <2>4. /\ bridge'[s] = swept[s].bridge /\ conn'[s] = swept[s].conn
        /\ toPage'[s] = toPage[s] \o swept[s].events
    BY <1>1
  <2> HIDE DEF swept
  <2> QED BY <1>1, <2>2, <2>3, <2>4 DEF Same
<1>3. ASSUME NEW s \in Socks, conn[s] # "none"
      PROVE  /\ bridge'[s] = "none" /\ conn'[s] = "none"
             /\ Tells(s, 1, 0) /\ toPage'[s] \in Seq(Events) /\ bridge[s] # "none"
  <2>1. bridge[s] # "none"
    BY <1>3, Numbers DEF Once
  <2>2. swept[s] = Errs(State(s)) /\ Ended(Errs(State(s)))
    BY <1>3, <2>1, ErrsEnds
  <2>3. /\ bridge'[s] = swept[s].bridge /\ conn'[s] = swept[s].conn
        /\ toPage'[s] = toPage[s] \o swept[s].events
    BY <1>1
  <2> HIDE DEF swept
  <2>4. /\ bridge'[s] = "none" /\ conn'[s] = "none"
        /\ \/ toPage'[s] = toPage[s] \o <<"close">>
           \/ toPage'[s] = toPage[s] \o <<"error", "close">>
    BY <2>2, <2>3 DEF Ended
  <2>5. <<"close">> \in Seq(Events) /\ <<"error", "close">> \in Seq(Events)
    BY DEF Events
  <2>6. toPage[s] \in Seq(Events)
    BY SockTypes DEF SInv
  <2>7. toPage'[s] \in Seq(Events)
    BY <2>4, <2>5, <2>6, Concats
  <2> QED BY <2>1, <2>4, <2>7, TellsBy
<1>4. ASSUME NEW s \in Socks
      PROVE  /\ toPage'[s] \in Seq(Events)
             /\ bridge'[s] \in {"none", "conn", "ready"}
             /\ conn'[s] \in {"none", "conn", "open", "closing"}
             /\ Sock(s)'
  <2>1. CASE conn[s] = "none"
    BY <1>2, <2>1, SockTypes, SameKeeps DEF Same, SInv
  <2>2. CASE conn[s] # "none"
    <3>1. page'[s] = page[s] /\ toWorker'[s] = toWorker[s] /\ sends'[s] = sends[s] /\ onWire'[s] = onWire[s]
      BY <1>1
    <3>2. ~Fresh(s)
      BY <1>3, <2>2, HeldIsOpened
    <3>3. Unopened(s)' /\ ~Fresh(s)'
      BY <3>1, <3>2, Numbers DEF Unopened, Fresh
    <3>4. Quiet(s)
      BY <3>1, <3>2, <3>3 DEF Quiet
    <3>5. Sock(s)'
      BY <1>3, <2>2, <3>1, <3>4, Finishes
    <3> QED BY <1>3, <2>2, <3>5
  <2> QED BY <2>1, <2>2
<1>5. DOMAIN toPage' = Socks /\ DOMAIN bridge' = Socks /\ DOMAIN conn' = Socks
      /\ toPage' = [s \in Socks |-> toPage'[s]] /\ bridge' = [s \in Socks |-> bridge'[s]]
      /\ conn' = [s \in Socks |-> conn'[s]]
  BY <1>1
<1> HIDE DEF swept
<1>6. /\ toPage' \in [Socks -> Seq(Events)]
      /\ bridge' \in [Socks -> {"none", "conn", "ready"}]
      /\ conn' \in [Socks -> {"none", "conn", "open", "closing"}]
  BY <1>4, <1>5
<1>7. SocketsTypeOK'
  BY <1>1, <1>6 DEF SInv, SocketsTypeOK, Events
<1> QED BY <1>4, <1>7 DEF SInv

--------------------------------------------------------------------------------
(* The page's steps, the host's and the port's. *)

\* the page posts a message
LEMMA Mailed ==
  ASSUME SInv, NEW s \in Socks, NEW m \in {"text", "blob", "close"},
         toWorker' = [toWorker EXCEPT ![s] = Append(@, m)],
         page[s].st # Unborn, page'[s].st # Unborn,
         page'[s].st # page[s].st => page'[s].st = Closing,
         page'[s].closes = page[s].closes,
         UNCHANGED <<bridge, onWire, toPage>>
  PROVE  /\ toWorker' \in [Socks -> Seq(Ops)]
         /\ \A g \in Socks : g # s => toWorker'[g] = toWorker[g]
         /\ Fresh(s)' <=> Fresh(s)
         /\ Unopened(s)'
         /\ m \in Payload =>
              Occurring(toWorker'[s], Payload) = Occurring(toWorker[s], Payload) + 1
<1>1. /\ toWorker \in [Socks -> Seq(Ops)] /\ toWorker[s] \in Seq(Ops) /\ m \in Ops
  BY DEF SInv, SocketsTypeOK, Ops
<1>2. /\ toWorker' \in [Socks -> Seq(Ops)] /\ toWorker'[s] = Append(toWorker[s], m)
      /\ \A g \in Socks : g # s => toWorker'[g] = toWorker[g]
  BY <1>1
<1>3. /\ Len(toWorker'[s]) = Len(toWorker[s]) + 1 /\ Len(toWorker[s]) \in Nat
      /\ toWorker'[s][Len(toWorker[s]) + 1] = m
      /\ \A i \in 1..Len(toWorker[s]) : toWorker'[s][i] = toWorker[s][i]
      /\ toWorker'[s] # <<>> /\ Head(toWorker'[s]) = toWorker'[s][1]
  BY <1>1, <1>2
<1>4. toWorker[s] # <<>> => Head(toWorker[s]) = toWorker[s][1] /\ 1 \in 1..Len(toWorker[s])
  BY <1>1, <1>3, EmptySeq
<1>5. toWorker[s] = <<>> => Head(toWorker'[s]) = m
  BY <1>3
<1>6. Fresh(s)' <=> Fresh(s)
  BY <1>3, <1>4, <1>5 DEF Fresh
<1>7. Unopened(s)'
  <2>1. ASSUME NEW i \in 1..Len(toWorker'[s]), toWorker'[s][i] = "wsOpen" PROVE i = 1
    BY <1>3, <2>1, Numbers DEF Unopened
  <2> QED BY <1>6, <2>1, Numbers DEF Unopened
<1>8. ASSUME m \in Payload
      PROVE  Occurring(toWorker'[s], Payload) = Occurring(toWorker[s], Payload) + 1
  <2>1. Occurring(Append(toWorker[s], m), Payload)
          = Occurring(toWorker[s], Payload) + (IF m \in Payload THEN 1 ELSE 0)
    BY <1>1, OccurringAppend
  <2> QED BY <1>2, <1>8, <2>1
<1> QED BY <1>2, <1>6, <1>7, <1>8

LEMMA PageOpensKeeps == ASSUME SInv, NEW s \in Socks, PageOpens(s) PROVE SInv'
<1>1. /\ page[s].st = Unborn /\ page' = [page EXCEPT ![s].st = Connecting]
      /\ toWorker' = [toWorker EXCEPT ![s] = <<"wsOpen">>]
      /\ UNCHANGED <<toPage, bridge, conn, onWire, blobs, sends, back>>
  BY DEF PageOpens, worker, hostSide
<1>2. /\ page \in [Socks -> [st: Unborn..Closed, owed: 0..MaxSends, closes: Nat]]
      /\ toWorker \in [Socks -> Seq(Ops)] /\ <<"wsOpen">> \in Seq(Ops)
  BY DEF SInv, SocketsTypeOK, Ops
<1>3. Connecting \in Unborn..Closed
  BY DEF Connecting, Unborn, Closed
<1>4. /\ page' \in [Socks -> [st: Unborn..Closed, owed: 0..MaxSends, closes: Nat]]
      /\ page'[s].st = Connecting /\ page'[s].owed = page[s].owed /\ page'[s].closes = page[s].closes
      /\ \A g \in Socks : g # s => page'[g] = page[g]
  BY <1>1, <1>2, <1>3
<1>5. /\ toWorker' \in [Socks -> Seq(Ops)] /\ toWorker'[s] = <<"wsOpen">>
      /\ \A g \in Socks : g # s => toWorker'[g] = toWorker[g]
  BY <1>1, <1>2
<1>6. SocketsTypeOK'
  BY <1>1, <1>4, <1>5 DEF SInv, SocketsTypeOK, Ops
<1>7. \A g \in Socks : g # s => Same(g)
  BY <1>1, <1>4, <1>5 DEF Same
<1>8. Fresh(s) /\ Fresh(s)'
  BY <1>1, <1>5 DEF Fresh
<1>9. Unopened(s)'
  <2>1. \A i \in 1..Len(toWorker'[s]) : i = 1
    BY <1>5
  <2>2. page'[s].st # Unborn
    BY <1>4 DEF Connecting, Unborn
  <2> QED BY <1>1, <1>4, <1>8, <2>1, <2>2, Numbers DEF Unopened
<1>10. Once(s)' /\ Wire(s)'
  BY <1>1, <1>8, Numbers DEF Once, Wire
<1>11. Owing(s)'
  <2>1. toWorker'[s] = Append(<<>>, "wsOpen") /\ <<>> \in Seq(Ops) /\ "wsOpen" \in Ops
    BY <1>5, AppendOnce DEF Ops
  <2>2. Occurring(toWorker'[s], Payload) = Occurring(<<>>, Payload) + (IF "wsOpen" \in Payload THEN 1 ELSE 0)
    <3>1. Occurring(Append(<<>>, "wsOpen"), Payload)
            = Occurring(<<>>, Payload) + (IF "wsOpen" \in Payload THEN 1 ELSE 0)
      BY <2>1, OccurringAppend
    <3> QED BY <2>1, <3>1
  <2>3. Occurring(toWorker'[s], Payload) = 0
    BY <2>2, OccurringEmpty DEF Payload
  <2> QED BY <1>1, <1>4, <2>3, Numbers DEF Owing, Connecting, Open
<1> QED BY <1>6, <1>7, <1>9, <1>10, <1>11, OneSock DEF Sock

LEMMA PageClosesKeeps == ASSUME SInv, NEW s \in Socks, PageCloses(s) PROVE SInv'
<1>1. /\ page[s].st \in {Connecting, Open} /\ page' = [page EXCEPT ![s].st = Closing]
      /\ toWorker' = [toWorker EXCEPT ![s] = Append(@, "close")]
      /\ UNCHANGED <<toPage, bridge, conn, onWire, blobs, sends, back>>
  BY DEF PageCloses, worker, hostSide
<1>2. page \in [Socks -> [st: Unborn..Closed, owed: 0..MaxSends, closes: Nat]]
  BY DEF SInv, SocketsTypeOK
<1>3. Closing \in Unborn..Closed
  BY DEF Closing, Unborn, Closed
<1>4. /\ page' \in [Socks -> [st: Unborn..Closed, owed: 0..MaxSends, closes: Nat]]
      /\ page'[s].st = Closing /\ page'[s].owed = page[s].owed /\ page'[s].closes = page[s].closes
      /\ \A g \in Socks : g # s => page'[g] = page[g]
  BY <1>1, <1>2, <1>3
<1>5. page[s].st # Unborn /\ page'[s].st # Unborn
  BY <1>1, <1>4 DEF Connecting, Open, Closing, Unborn
<1>6. /\ toWorker' \in [Socks -> Seq(Ops)]
      /\ \A g \in Socks : g # s => toWorker'[g] = toWorker[g]
      /\ Fresh(s)' <=> Fresh(s)
      /\ Unopened(s)'
  <2>1. /\ page'[s].st # page[s].st => page'[s].st = Closing
        /\ page'[s].closes = page[s].closes
        /\ UNCHANGED <<bridge, onWire, toPage>>
        /\ "close" \in {"text", "blob", "close"}
    BY <1>1, <1>4
  <2> QED BY <1>1, <1>5, <2>1, Mailed
<1>7. SocketsTypeOK'
  BY <1>1, <1>4, <1>6 DEF SInv, SocketsTypeOK, Ops
<1>8. \A g \in Socks : g # s => Same(g)
  BY <1>1, <1>4, <1>6 DEF Same
<1>9. Once(s)' /\ Wire(s)'
  BY <1>1, <1>4, <1>6, Numbers DEF Once, Wire
<1>10. Owing(s)'
  BY <1>1, <1>4, Numbers DEF Owing, Closing, Unborn, Connecting, Open
<1> QED BY <1>6, <1>7, <1>8, <1>9, <1>10, OneSock DEF Sock

LEMMA PageSendsKeeps ==
  ASSUME SInv, NEW s \in Socks, NEW kind \in {"text", "blob"}, PageSends(s, kind)
  PROVE  SInv'
<1>1. /\ sends[s] < MaxSends /\ sends' = [sends EXCEPT ![s] = @ + 1]
      /\ page[s].st >= Open /\ page' = [page EXCEPT ![s].owed = @ + 1]
      /\ toWorker' = IF page[s].st = Open THEN [toWorker EXCEPT ![s] = Append(@, kind)] ELSE toWorker
      /\ UNCHANGED <<toPage, bridge, conn, onWire, blobs, back>>
  BY DEF PageSends, worker, hostSide
<1>2. /\ page \in [Socks -> [st: Unborn..Closed, owed: 0..MaxSends, closes: Nat]]
      /\ sends \in [Socks -> 0..MaxSends] /\ toWorker \in [Socks -> Seq(Ops)]
  BY DEF SInv, SocketsTypeOK, Ops
<1>3. /\ page[s].owed \in Nat /\ sends[s] \in Nat /\ page[s].owed <= sends[s]
      /\ page[s].st \in Unborn..Closed
  BY Numbers, <1>2 DEF Owing
<1>4. page[s].owed + 1 \in 0..MaxSends /\ sends[s] + 1 \in 0..MaxSends
  BY <1>1, <1>3, SocketBounds
<1>5. /\ sends' \in [Socks -> 0..MaxSends] /\ sends'[s] = sends[s] + 1
      /\ \A g \in Socks : g # s => sends'[g] = sends[g]
  BY <1>1, <1>2, <1>4
<1>6. /\ page' \in [Socks -> [st: Unborn..Closed, owed: 0..MaxSends, closes: Nat]]
      /\ page'[s].st = page[s].st /\ page'[s].owed = page[s].owed + 1 /\ page'[s].closes = page[s].closes
      /\ \A g \in Socks : g # s => page'[g] = page[g]
  BY <1>1, <1>2, <1>4
<1>7. page[s].st \notin {Unborn, Connecting}
  BY <1>1, <1>3 DEF Open, Unborn, Connecting, Closed
<1>8. /\ toWorker' \in [Socks -> Seq(Ops)]
      /\ \A g \in Socks : g # s => toWorker'[g] = toWorker[g]
      /\ Fresh(s)' <=> Fresh(s)
      /\ Unopened(s)'
      /\ page[s].st = Open =>
           Occurring(toWorker'[s], Payload) = Occurring(toWorker[s], Payload) + 1
  <2>1. CASE page[s].st = Open
    <3>1. /\ toWorker' \in [Socks -> Seq(Ops)]
          /\ \A g \in Socks : g # s => toWorker'[g] = toWorker[g]
          /\ Fresh(s)' <=> Fresh(s)
          /\ Unopened(s)'
          /\ kind \in Payload =>
               Occurring(toWorker'[s], Payload) = Occurring(toWorker[s], Payload) + 1
      <4>1. /\ page'[s].st # page[s].st => page'[s].st = Closing
            /\ page[s].st # Unborn /\ page'[s].st # Unborn
            /\ page'[s].closes = page[s].closes
            /\ UNCHANGED <<bridge, onWire, toPage>>
            /\ kind \in {"text", "blob", "close"}
        BY <1>1, <1>6, <1>7
      <4>2. toWorker' = [toWorker EXCEPT ![s] = Append(@, kind)]
        BY <1>1, <2>1
      <4> QED BY <4>1, <4>2, Mailed
    <3>2. kind \in Payload
      BY DEF Payload
    <3> QED BY <3>1, <3>2
  <2>2. CASE page[s].st # Open
    BY <1>1, <1>2, <1>6, <2>2, Numbers DEF Fresh, Unopened
  <2> QED BY <2>1, <2>2
<1>9. SocketsTypeOK'
  BY <1>1, <1>5, <1>6, <1>8 DEF SInv, SocketsTypeOK, Ops
<1>10. \A g \in Socks : g # s => Same(g)
  BY <1>1, <1>5, <1>6, <1>8 DEF Same
<1>11. Once(s)' /\ Wire(s)'
  BY <1>1, <1>6, <1>8, Numbers DEF Once, Wire
<1>12. Owing(s)'
  <2>1. page'[s].owed <= sends'[s]
    BY <1>3, <1>5, <1>6
  <2>2. ASSUME page[s].st = Open, bridge[s] # "none"
        PROVE  page'[s].owed = Occurring(toWorker'[s], Payload) + Occurring(toPage'[s], {"drain"})
    <3>1. page[s].owed = Occurring(toWorker[s], Payload) + Occurring(toPage[s], {"drain"})
      BY <2>2, Numbers DEF Owing
    <3>2. Occurring(toWorker'[s], Payload) = Occurring(toWorker[s], Payload) + 1 /\ toPage' = toPage
      BY <1>1, <1>8, <2>2
    <3> QED BY <1>6, <3>1, <3>2, Numbers
  <2> QED BY <1>1, <1>6, <1>7, <2>1, <2>2 DEF Owing
<1> QED BY <1>8, <1>9, <1>10, <1>11, <1>12, OneSock DEF Sock

\* what an event makes of the page's half
Reacts(p, ev) ==
  CASE ev = "open"  -> IF p.st >= Closing THEN p ELSE [p EXCEPT !.st = Open]
    [] ev = "drain" -> [p EXCEPT !.owed = IF @ > 0 THEN @ - 1 ELSE 0]
    [] ev = "error" -> [p EXCEPT !.st = Closed]
    [] ev = "close" -> [p EXCEPT !.st = Closed, !.closes = @ + 1]
    [] OTHER        -> p

LEMMA Reaction ==
  ASSUME NEW p \in [st: Unborn..Closed, owed: 0..MaxSends, closes: Nat], NEW ev \in Events
  PROVE  /\ Reacts(p, ev) \in [st: Unborn..Closed, owed: 0..MaxSends, closes: Nat]
         /\ ev = "open" => /\ Reacts(p, ev).owed = p.owed /\ Reacts(p, ev).closes = p.closes
                           /\ \/ Reacts(p, ev).st = p.st /\ p.st >= Closing
                              \/ Reacts(p, ev).st = Open /\ p.st < Closing
         /\ ev = "drain" => /\ Reacts(p, ev).st = p.st /\ Reacts(p, ev).closes = p.closes
                            /\ Reacts(p, ev).owed = IF p.owed > 0 THEN p.owed - 1 ELSE 0
         /\ ev = "error" => /\ Reacts(p, ev).st = Closed /\ Reacts(p, ev).closes = p.closes
                            /\ Reacts(p, ev).owed = p.owed
         /\ ev = "close" => /\ Reacts(p, ev).st = Closed /\ Reacts(p, ev).closes = p.closes + 1
                            /\ Reacts(p, ev).owed = p.owed
         /\ ev = "message" => Reacts(p, ev) = p
<1> USE SocketBounds DEF Unborn, Connecting, Open, Closing, Closed
<1>1. CASE ev = "open"
  BY <1>1 DEF Reacts
<1>2. CASE ev = "drain"
  BY <1>2 DEF Reacts
<1>3. CASE ev = "error"
  BY <1>3 DEF Reacts
<1>4. CASE ev = "close"
  <2>1. Reacts(p, ev) = [p EXCEPT !.st = Closed, !.closes = @ + 1]
    BY <1>4 DEF Reacts
  <2>2. p.closes + 1 \in Nat /\ Closed \in Unborn..Closed
    OBVIOUS
  <2>3. Reacts(p, ev) = [st |-> Closed, owed |-> p.owed, closes |-> p.closes + 1]
    BY <2>1
  <2> QED BY <1>4, <2>2, <2>3
<1>5. CASE ev = "message"
  BY <1>5 DEF Reacts
<1> QED BY <1>1, <1>2, <1>3, <1>4, <1>5 DEF Events

LEMMA PageHearsKeeps == ASSUME SInv, NEW s \in Socks, PageHears(s) PROVE SInv'
<1> DEFINE ev == Head(toPage[s])
           q == Reacts(page[s], ev)
<1>1. /\ toPage[s] # <<>> /\ toPage' = [toPage EXCEPT ![s] = Tail(@)]
      /\ page' = [page EXCEPT ![s] = q]
      /\ UNCHANGED <<toWorker, bridge, conn, onWire, blobs, sends, back>>
  BY DEF PageHears, worker, hostSide, Reacts
<1>2. /\ page \in [Socks -> [st: Unborn..Closed, owed: 0..MaxSends, closes: Nat]]
      /\ toPage \in [Socks -> Seq(Events)] /\ toPage[s] \in Seq(Events)
  BY DEF SInv, SocketsTypeOK, Events
<1>3. ev \in Events /\ Tail(toPage[s]) \in Seq(Events)
  BY <1>1, <1>2
<1>4. page[s] \in [st: Unborn..Closed, owed: 0..MaxSends, closes: Nat]
  BY <1>2
<1>5. /\ q \in [st: Unborn..Closed, owed: 0..MaxSends, closes: Nat]
      /\ ev = "open" => /\ q.owed = page[s].owed /\ q.closes = page[s].closes
                        /\ \/ q.st = page[s].st /\ page[s].st >= Closing
                           \/ q.st = Open /\ page[s].st < Closing
      /\ ev = "drain" => /\ q.st = page[s].st /\ q.closes = page[s].closes
                         /\ q.owed = IF page[s].owed > 0 THEN page[s].owed - 1 ELSE 0
      /\ ev = "error" => q.st = Closed /\ q.closes = page[s].closes /\ q.owed = page[s].owed
      /\ ev = "close" => q.st = Closed /\ q.closes = page[s].closes + 1 /\ q.owed = page[s].owed
      /\ ev = "message" => q = page[s]
  BY <1>3, <1>4, Reaction
<1>6. \A S : Occurring(toPage[s], S) = Occurring(Tail(toPage[s]), S) + (IF ev \in S THEN 1 ELSE 0)
  BY <1>1, <1>2, OccurringTail
<1>7. Occurring(Tail(toPage[s]), {"close"}) \in Nat /\ Occurring(Tail(toPage[s]), {"drain"}) \in Nat
  BY <1>3, OccurringType
<1> HIDE DEF q, ev
<1>8. /\ toPage' \in [Socks -> Seq(Events)] /\ toPage'[s] = Tail(toPage[s])
      /\ \A g \in Socks : g # s => toPage'[g] = toPage[g]
  BY <1>1, <1>2, <1>3
<1>9. /\ page' \in [Socks -> [st: Unborn..Closed, owed: 0..MaxSends, closes: Nat]]
      /\ page'[s] = q
      /\ \A g \in Socks : g # s => page'[g] = page[g]
  BY <1>1, <1>2, <1>5
<1>10. SocketsTypeOK'
  BY <1>1, <1>8, <1>9 DEF SInv, SocketsTypeOK, Events
<1>11. \A g \in Socks : g # s => Same(g)
  BY <1>1, <1>8, <1>9 DEF Same
<1>12. ~Fresh(s)
  BY <1>1, Numbers DEF Unopened
<1>13. page[s].st # Unborn /\ q.st # Unborn /\ page[s].st \in Unborn..Closed
  <2>1. page[s].st # Unborn /\ page[s].st \in Unborn..Closed
    BY <1>4, <1>12 DEF Fresh
  <2> QED BY <1>3, <1>5, <2>1 DEF Events, Unborn, Open, Closed
<1>14. Unopened(s)' /\ ~Fresh(s)'
  BY <1>1, <1>9, <1>12, <1>13, Numbers DEF Unopened, Fresh
<1>15. q.closes + Occurring(toPage'[s], {"close"})
         = page[s].closes + Occurring(toPage[s], {"close"})
  <2>1. page[s].closes \in Nat
    BY Numbers
  <2>2. CASE ev = "close"
    <3>1. Occurring(toPage[s], {"close"}) = Occurring(Tail(toPage[s]), {"close"}) + 1
      BY <1>6, <2>2
    <3>2. q.closes = page[s].closes + 1
      BY <1>5, <2>2
    <3>3. Occurring(toPage'[s], {"close"}) = Occurring(Tail(toPage[s]), {"close"})
      BY <1>8
    <3>4. \A a, b \in Nat : (a + 1) + b = a + (b + 1)
      OBVIOUS
    <3>5. (page[s].closes + 1) + Occurring(Tail(toPage[s]), {"close"})
            = page[s].closes + (Occurring(Tail(toPage[s]), {"close"}) + 1)
      BY <1>7, <2>1, <3>4
    <3> QED BY <3>1, <3>2, <3>3, <3>5
  <2>3. CASE ev # "close"
    <3>1. Occurring(toPage[s], {"close"}) = Occurring(Tail(toPage[s]), {"close"}) + 0
      BY <1>6, <2>3
    <3>2. q.closes = page[s].closes
      BY <1>3, <1>5, <2>3 DEF Events
    <3> QED BY <1>7, <1>8, <2>1, <3>1, <3>2
  <2> QED BY <2>2, <2>3
<1>16. Once(s)' /\ Wire(s)'
  BY <1>1, <1>9, <1>12, <1>15, Numbers DEF Once, Wire
<1>17. page[s].owed \in Nat /\ sends[s] \in Nat /\ page[s].owed <= sends[s]
  BY Numbers DEF Owing
<1>18. q.owed <= sends[s]
  <2>1. CASE ev = "drain"
    BY <1>5, <1>17, <2>1
  <2>2. CASE ev # "drain"
    BY <1>3, <1>5, <1>17, <2>2 DEF Events
  <2> QED BY <2>1, <2>2
<1>19. CASE ev = "drain"
  <2>1. Occurring(toPage[s], {"drain"}) = Occurring(Tail(toPage[s]), {"drain"}) + 1
    BY <1>6, <1>19
  <2>2. page[s].st \notin {Unborn, Connecting}
    BY <1>7, <2>1, Numbers DEF Owing
  <2>3. ASSUME page[s].st = Open, bridge[s] # "none"
        PROVE  q.owed = Occurring(toWorker[s], Payload) + Occurring(toPage'[s], {"drain"})
    <3>1. page[s].owed = Occurring(toWorker[s], Payload) + Occurring(toPage[s], {"drain"})
      BY <2>3, Numbers DEF Owing
    <3>2. Occurring(toWorker[s], Payload) \in Nat
      BY Numbers
    <3>3. q.owed = page[s].owed - 1
      BY <1>5, <1>7, <1>19, <2>1, <3>1, <3>2
    <3> QED BY <1>7, <1>8, <2>1, <3>1, <3>2, <3>3
  <2>4. q.st = page[s].st
    BY <1>5, <1>19
  <2>5. Owing(s)'
    BY <1>1, <1>9, <1>18, <2>2, <2>3, <2>4 DEF Owing
  <2> QED BY <1>10, <1>11, <1>14, <1>16, <2>5, OneSock DEF Sock
<1>20. CASE ev # "drain"
  <2>1. Occurring(toPage'[s], {"drain"}) = Occurring(toPage[s], {"drain"})
    <3>1. Occurring(toPage[s], {"drain"}) = Occurring(Tail(toPage[s]), {"drain"}) + 0
      BY <1>6, <1>20
    <3> QED BY <1>7, <1>8, <3>1
  <2>2. q.owed = page[s].owed
    BY <1>3, <1>5, <1>20 DEF Events
  <2>3. \/ q.st = page[s].st
        \/ q.st = Open /\ page[s].st = Connecting
        \/ q.st = Closed
    <3>1. CASE ev = "open"
      BY <1>5, <1>13, <3>1 DEF Unborn, Connecting, Open, Closing, Closed
    <3>2. CASE ev # "open"
      BY <1>3, <1>5, <1>20, <3>2 DEF Events
    <3> QED BY <3>1, <3>2
  <2>4. CASE q.st = page[s].st
    <3>1. Owing(s)'
      BY <1>1, <1>9, <2>1, <2>2, <2>4, Numbers DEF Owing
    <3> QED BY <1>10, <1>11, <1>14, <1>16, <3>1, OneSock DEF Sock
  <2>5. CASE q.st = Open /\ page[s].st = Connecting
    <3>1. /\ page[s].owed = 0 /\ Occurring(toWorker[s], Payload) = 0
          /\ Occurring(toPage[s], {"drain"}) = 0
      BY <2>5, Numbers DEF Owing
    <3>2. q.st \notin {Unborn, Connecting}
      BY <2>5 DEF Open, Unborn, Connecting
    <3>3. Owing(s)'
      BY <1>1, <1>9, <1>18, <2>1, <2>2, <3>1, <3>2 DEF Owing
    <3> QED BY <1>10, <1>11, <1>14, <1>16, <3>3, OneSock DEF Sock
  <2>6. CASE q.st = Closed
    <3>1. q.st \notin {Unborn, Connecting, Open}
      BY <2>6 DEF Open, Unborn, Connecting, Closed
    <3>2. Owing(s)'
      BY <1>1, <1>9, <1>18, <3>1 DEF Owing
    <3> QED BY <1>10, <1>11, <1>14, <1>16, <3>2, OneSock DEF Sock
  <2> QED BY <2>3, <2>4, <2>5, <2>6
<1> QED BY <1>19, <1>20

\* the host's steps and the port's change nothing but the frames on their way back
LEMMA BeyondKeeps ==
  ASSUME SInv, UNCHANGED <<page, toWorker, toPage, bridge, conn, onWire, blobs, sends>>,
         back' \in [Socks -> Seq(Answers)]
  PROVE  SInv'
<1>1. SocketsTypeOK'
  BY DEF SInv, SocketsTypeOK, Answers
<1>2. \A s \in Socks : Same(s)
  BY DEF Same
<1> QED BY <1>1, <1>2, SameKeeps DEF SInv

LEMMA BackAppends ==
  ASSUME SInv, NEW s \in Socks, NEW m \in Answers, back' = [back EXCEPT ![s] = Append(@, m)]
  PROVE  back' \in [Socks -> Seq(Answers)]
<1>1. back \in [Socks -> Seq(Answers)]
  BY DEF SInv, SocketsTypeOK, Answers
<1>2. Append(back[s], m) \in Seq(Answers)
  BY <1>1
<1> QED BY <1>1, <1>2

LEMMA HostHearsKeeps == ASSUME SInv, NEW s \in Socks, HostHears(s) PROVE SInv'
<1>1. UNCHANGED <<page, toWorker, toPage, bridge, conn, onWire, blobs, sends>>
  BY DEF HostHears, worker
<1>2. \/ back' = back
      \/ \E m \in {"wsOpen", "wsError", "wsClose"} : back' = [back EXCEPT ![s] = Append(@, m)]
  BY DEF HostHears
<1>3. back' \in [Socks -> Seq(Answers)]
  <2>1. CASE back' = back
    BY <2>1 DEF SInv, SocketsTypeOK, Answers
  <2>2. CASE \E m \in {"wsOpen", "wsError", "wsClose"} : back' = [back EXCEPT ![s] = Append(@, m)]
    BY <2>2, BackAppends DEF Answers
  <2> QED BY <1>2, <2>1, <2>2
<1> QED BY <1>1, <1>3, BeyondKeeps

LEMMA HostSpeaksKeeps == ASSUME SInv, NEW s \in Socks, HostSpeaks(s) PROVE SInv'
<1>1. UNCHANGED <<page, toWorker, toPage, bridge, conn, onWire, blobs, sends>>
  BY DEF HostSpeaks, worker
<1>2. \E m \in {"wsData", "wsClose", "wsError"} : back' = [back EXCEPT ![s] = Append(@, m)]
  BY DEF HostSpeaks
<1>3. back' \in [Socks -> Seq(Answers)]
  BY <1>2, BackAppends DEF Answers
<1> QED BY <1>1, <1>3, BeyondKeeps

LEMMA PortDropsKeeps == ASSUME SInv, PortDrops PROVE SInv'
<1>1. UNCHANGED <<page, toWorker, toPage, bridge, conn, onWire, blobs, sends>> /\ back' = back
  BY DEF PortDrops, hostSide
<1>2. back' \in [Socks -> Seq(Answers)]
  BY <1>1 DEF SInv, SocketsTypeOK, Answers
<1> QED BY <1>1, <1>2, BeyondKeeps

LEMMA SocketsInitHolds == SocketsInit => SInv
<1> SUFFICES ASSUME SocketsInit PROVE SInv
  OBVIOUS
<1>1. /\ Unborn \in Unborn..Closed /\ 0 \in 0..MaxSends
      /\ <<>> \in Seq(Ops) /\ <<>> \in Seq(Events) /\ <<>> \in Seq(WireFrames) /\ <<>> \in Seq(Answers)
  BY SocketBounds DEF Unborn, Closed
<1>2. SocketsTypeOK
  BY <1>1 DEF SocketsInit, SocketsTypeOK, Ops, Events, WireFrames, Answers
<1>3. ASSUME NEW s \in Socks PROVE Sock(s)
  <2>1. /\ page[s].st = Unborn /\ page[s].owed = 0 /\ page[s].closes = 0
        /\ toWorker[s] = <<>> /\ toPage[s] = <<>> /\ bridge[s] = "none" /\ conn[s] = "none"
        /\ onWire[s] = <<>> /\ sends[s] = 0
    BY DEF SocketsInit
  <2>2. Fresh(s)
    BY <2>1 DEF Fresh
  <2>3. Unopened(s) /\ Once(s) /\ Wire(s)
    BY <2>1, <2>2 DEF Unopened, Once, Wire
  <2>4. Occurring(toWorker[s], Payload) = 0 /\ Occurring(toPage[s], {"drain"}) = 0
    BY <2>1, OccurringEmpty
  <2>5. Owing(s)
    BY <2>1, <2>4 DEF Owing, Unborn, Open
  <2> QED BY <2>3, <2>5 DEF Sock
<1> QED BY <1>2, <1>3 DEF SInv

LEMMA SocketsNextKeeps == SInv /\ [SocketsNext]_socketVars => SInv'
<1> SUFFICES ASSUME SInv, [SocketsNext]_socketVars PROVE SInv'
  OBVIOUS
<1>1. CASE UNCHANGED socketVars
  <2>1. UNCHANGED <<page, toWorker, toPage, bridge, conn, onWire, blobs, sends>> /\ back' = back
    BY <1>1 DEF socketVars
  <2>2. back' \in [Socks -> Seq(Answers)]
    BY <2>1 DEF SInv, SocketsTypeOK, Answers
  <2> QED BY <2>1, <2>2, BeyondKeeps
<1>2. ASSUME NEW s \in Socks, NEW kind \in {"text", "blob"}, PageSends(s, kind) PROVE SInv'
  BY <1>2, PageSendsKeeps
<1>3. ASSUME NEW s \in Socks, PageOpens(s) \/ PageCloses(s) \/ PageHears(s) PROVE SInv'
  BY <1>3, PageOpensKeeps, PageClosesKeeps, PageHearsKeeps
<1>4. ASSUME NEW s \in Socks,
             Opens(s) \/ Refuses(s) \/ BridgeSends(s) \/ BridgeCloses(s) \/ BlobConverts(s)
      PROVE  SInv'
  BY <1>4, OpensKeeps, RefusesKeeps, BridgeSendsKeeps, BridgeClosesKeeps, BlobConvertsKeeps
<1>5. ASSUME NEW s \in Socks,
             FallbackFires(s) \/ RelayHears(s) \/ HostHears(s) \/ HostSpeaks(s)
      PROVE  SInv'
  BY <1>5, FallbackKeeps, RelayHearsKeeps, HostHearsKeeps, HostSpeaksKeeps
<1>6. CASE ReRegisters \/ PortDrops
  BY <1>6, ReRegistersKeeps, PortDropsKeeps
<1> QED BY <1>1, <1>2, <1>3, <1>4, <1>5, <1>6 DEF SocketsNext

LEMMA SocketsInductive == SocketsSpec => []SInv
BY SocketsInitHolds, SocketsNextKeeps, PTL DEF SocketsSpec

LEMMA SocketSound == SInv => SocketEndsOnce
<1> SUFFICES ASSUME SInv PROVE SocketEndsOnce
  OBVIOUS
<1>1. ASSUME NEW s \in Socks
      PROVE  /\ page[s].closes + Occurring(toPage[s], {"close"}) <= 1
             /\ bridge[s] = "none" => conn[s] \in {"none", "closing"}
  <2>1. CASE Fresh(s)
    <3>1. page[s].closes = 0 /\ toPage[s] = <<>>
      BY <2>1, Numbers DEF Unopened
    <3>2. Occurring(toPage[s], {"close"}) = 0
      BY <3>1, OccurringEmpty
    <3> QED BY <3>1, <3>2, Numbers DEF Once
  <2>2. CASE ~Fresh(s)
    <3>1. page[s].closes + Occurring(toPage[s], {"close"}) \in {0, 1}
      BY <2>2, Numbers DEF Once
    <3> QED BY <3>1, Numbers DEF Once
  <2> QED BY <2>1, <2>2
<1>2. ClosedOnce
  BY <1>1 DEF ClosedOnce
<1>3. WireEndsWithClose
  <2> SUFFICES ASSUME NEW s \in Socks, NEW i \in DOMAIN onWire[s]
               PROVE  /\ onWire[s][i] = "wsClose" => i = Len(onWire[s])
                      /\ (onWire[s][i] = "wsRelay") = (i = 1)
    BY DEF WireEndsWithClose
  <2>1. i \in 1..Len(onWire[s])
    BY SockTypes DEF SInv
  <2>2. /\ onWire[s][i] = "wsClose" => i = Len(onWire[s])
        /\ onWire[s][i] = "wsRelay" <=> i = 1
    BY <2>1, Numbers DEF Wire
  <2> QED BY <2>2
<1>4. BufferedIsOwed
  <2> SUFFICES ASSUME NEW s \in Socks, page[s].st = Open, bridge[s] = "ready"
               PROVE  page[s].owed = Occurring(toWorker[s], {"text", "blob"})
                                     + Occurring(toPage[s], {"drain"})
    BY DEF BufferedIsOwed
  <2> QED BY Numbers DEF Owing, Payload
<1> QED BY <1>2, <1>3, <1>4 DEF SocketEndsOnce

\* WsRelay: its variables keep their types; no page counts more buffered frames
\* than it sent (wsbridge.ts, bootstrap/ws.ts).
THEOREM SocketsTyped == SocketsSpec => []SocketsTypeOK
<1>1. SInv => SocketsTypeOK
  BY DEF SInv
<1> QED BY <1>1, SocketsInductive, PTL

\* WsRelay: whatever races for a socket, its page hears of one close, its wire ends
\* with its close frame, and its bufferedAmount is what was not acknowledged.
THEOREM EndsOnce == SocketsSpec => []SocketEndsOnce
BY SocketSound, SocketsInductive, PTL
=============================================================================
