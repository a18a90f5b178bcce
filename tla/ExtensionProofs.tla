---------------------------- MODULE ExtensionProofs ----------------------------
(***************************************************************************)
(* Proofs about extensions, for any number of permissions, calls, pages,   *)
(* tokens, frames, keys and ends of the worker: the grants of the          *)
(* permissions API agree with the record (ExtPermissions), pages and their *)
(* ports agree with the worker (ExtPages), what a storage area answers is  *)
(* in its store (ExtStorage), and what the control plane acknowledges stays *)
(* done (ControlPlane).                                                    *)
(***************************************************************************)
EXTENDS ExtPages, ExtPermissions, ExtStorage, ControlPlane, FiniteSetTheorems,
        FunctionTheorems, SequenceTheorems, TLAPS

--------------------------------------------------------------------------------
(* Permissions.  QuietViewIsRecord is not inductive: it says nothing while a *)
(* call is under way.  What carries it over is which call will have the last *)
(* word: the last one that changed the record holds the record's array, and  *)
(* copies are made, and become the view, in the order of the calls.          *)

\* Calls go on in their order, those that were refused aside.
Queue ==
  /\ \A i \in 1..Len(requests) :
       /\ requests[i].array \in 0..Len(arrays)
       /\ requests[i].at \in {"granted", "copied"} => requests[i].array # 0
       /\ requests[i].at = "refused" => requests[i].array = 0
  /\ \A i, j \in 1..Len(requests) :
       i < j /\ requests[i].array # 0 /\ requests[j].array # 0 =>
         /\ requests[j].at = "done" => requests[i].at = "done"
         /\ requests[j].at = "copied" => requests[i].at # "granted"

\* Nobody has read the view before the first call.
FirstView == view = NoView => requests = <<>> /\ Len(arrays) = 1

\* The last call that changed the record has the record's array, copies it and leaves the
\* view at it.
LatestIs(l) ==
  /\ \A j \in 1..Len(requests) : j > l => requests[j].array = 0
  /\ l = 0 => view \in {NoView, Record}
  /\ l > 0 => /\ requests[l].array = Len(arrays)
              /\ requests[l].at = "copied" => requests[l].after = Record
              /\ requests[l].at = "done" => view = Record
Latest == \E l \in 0..Len(requests) : LatestIs(l)

\* A call that is alone began with all that was announced.
Effect(c) ==
  IF c.array = 0 THEN c.prior ELSE IF c.op = "grant" THEN c.prior \cup c.asked ELSE c.prior \ c.asked
Settled == \A i \in 1..Len(requests) : requests[i].at = "done"
Alone ==
  ~overlapped =>
    /\ \A i \in 1..Len(requests) : i < Len(requests) => requests[i].at = "done"
    /\ Settled => announced = Count(Record)
    /\ ~Settled => /\ announced = Count(requests[Len(requests)].prior)
                   /\ Record = Effect(requests[Len(requests)])

Written == writes = 0 /\ ~failed => saved = Record

PermissionIInv == PermissionTypeOK /\ Queue /\ FirstView /\ Latest /\ Alone /\ Written

LEMMA PermissionFacts ==
  ASSUME PermissionIInv
  PROVE  /\ PermissionTypeOK /\ Queue /\ FirstView /\ Latest /\ Alone /\ Written
         /\ arrays \in Seq(Granted) /\ Len(arrays) \in Nat \ {0} /\ Record \in Granted
         /\ requests \in Seq(ApiCalls) /\ Len(requests) \in Nat
         /\ \A i \in 1..Len(requests) : requests[i] \in ApiCalls
         /\ view \in Granted \cup {NoView} /\ NoView \notin Granted
<1>1. PermissionTypeOK /\ Queue /\ FirstView /\ Latest /\ Alone /\ Written
  BY DEF PermissionIInv
<1>2. arrays \in Seq(Granted) /\ Len(arrays) \in Nat \ {0} /\ arrays[Len(arrays)] \in Granted
  BY <1>1 DEF PermissionTypeOK
<1>3. requests \in Seq(ApiCalls) /\ Len(requests) \in Nat
  BY <1>1 DEF PermissionTypeOK
<1>4. \A i \in 1..Len(requests) : requests[i] \in ApiCalls  BY <1>3
<1>5. view \in Granted \cup {NoView} /\ NoView \notin Granted
  BY <1>1, ViewAssumption DEF PermissionTypeOK, NoView, Granted
<1> QED  BY <1>1, <1>2, <1>3, <1>4, <1>5 DEF Record

\* nothing is under way exactly when every call is done
LEMMA QuietIsSettled ==
  ASSUME PermissionIInv
  PROVE  Underway \in Nat /\ (Underway = 0 <=> Settled)
<1> DEFINE S == {i \in 1..Len(requests) : requests[i].at # "done"}
<1>1. IsFiniteSet(1..Len(requests))  BY PermissionFacts, FS_Interval
<1>2. IsFiniteSet(S)  BY <1>1, FS_Subset
<1>3. Cardinality(S) \in Nat /\ (Cardinality(S) = 0 <=> S = {})  BY <1>2, FS_CardinalityType, FS_EmptySet
<1>4. S = {} <=> Settled  BY DEF Settled
<1> QED  BY <1>3, <1>4 DEF Underway

\* what the API answers is a set of permissions; quiet, it is the record's
LEMMA SeenFacts ==
  ASSUME PermissionIInv
  PROVE  /\ Seen \in Granted
         /\ view = NoView => Seen = Record
         /\ Settled => Seen = Record
<1>1. arrays[context] \in Granted /\ context \in 1..Len(arrays)  BY PermissionFacts DEF PermissionTypeOK
<1>2. ASSUME view = NoView PROVE Seen = Record
  <2>1. Len(arrays) = 1  BY <1>2, PermissionFacts DEF FirstView
  <2>2. context = 1  BY <1>1, <2>1
  <2> QED  BY <1>2, <2>1, <2>2 DEF Seen, Record
<1>3. Seen \in Granted  BY <1>1, PermissionFacts DEF Seen
<1>4. ASSUME Settled, view # NoView PROVE view = Record
  <2>1. PICK l \in 0..Len(requests) : LatestIs(l)  BY PermissionFacts DEF Latest
  <2>2. CASE l = 0  BY <1>4, <2>1, <2>2 DEF LatestIs
  <2>3. CASE l > 0  BY <1>4, <2>1, <2>3 DEF LatestIs, Settled
  <2> QED  BY <2>1, <2>2, <2>3, PermissionFacts
<1> QED  BY <1>2, <1>3, <1>4 DEF Seen

LEMMA PermissionStart == PermissionInit => PermissionIInv
<1> SUFFICES ASSUME PermissionInit PROVE PermissionIInv  OBVIOUS
<1>1. /\ arrays = <<Required>> /\ view = NoView /\ requests = <<>> /\ writes = 0 /\ saved = Required
      /\ context = 1 /\ registered = 0 /\ announced = Count(Required) /\ overlapped = FALSE
      /\ judged = "passed" /\ failed = FALSE /\ ends = 0
  BY DEF PermissionInit, Starting
<1>2. /\ Required \in Granted /\ arrays \in Seq(Granted) /\ Len(arrays) = 1 /\ arrays # <<>>
      /\ Record = Required
  BY <1>1 DEF Granted, Record
<1>3. requests \in Seq(ApiCalls) /\ Len(requests) = 0  BY <1>1
<1>4. announced \in [Required \cup Optional -> Int]  BY <1>1 DEF Count
<1>b. /\ Len(requests) <= MaxCalls /\ writes \in 0..MaxPuts /\ context \in 1..Len(arrays)
      /\ registered \in 0..Len(arrays) /\ ends \in 0..MaxEnds
  BY <1>1, <1>2, <1>3, PermissionsAssumption
<1>5. PermissionTypeOK  BY <1>1, <1>2, <1>3, <1>4, <1>b DEF PermissionTypeOK
<1>6. Queue /\ FirstView  BY <1>1, <1>2, <1>3 DEF Queue, FirstView
<1>7. Latest  BY <1>1, <1>3 DEF Latest, LatestIs
<1>8. Alone /\ Written  BY <1>1, <1>2, <1>3 DEF Alone, Settled, Written
<1> QED  BY <1>5, <1>6, <1>7, <1>8 DEF PermissionIInv

\* a worker ends, and the next one starts from the stored record
LEMMA EndsKeeps ==
  ASSUME PermissionIInv, WorkerEnds
  PROVE  PermissionIInv'
<1>1. /\ arrays' = <<saved>> /\ view' = NoView /\ requests' = <<>> /\ writes' = 0 /\ saved' = saved
      /\ context' = 1 /\ registered' = 0 /\ announced' = Count(saved) /\ overlapped' = FALSE
      /\ judged' = "passed" /\ failed' = failed /\ ends' = ends + 1 /\ ends < MaxEnds
  BY DEF WorkerEnds
<1>0. PermissionTypeOK  BY PermissionFacts
<1>2. /\ saved \in Granted /\ arrays' \in Seq(Granted) /\ Len(arrays') = 1 /\ arrays' # <<>>
      /\ Record' = saved
  BY <1>0, <1>1 DEF PermissionTypeOK, Record
<1>3. requests' \in Seq(ApiCalls) /\ Len(requests') = 0  BY <1>1
<1>4. announced' \in [Required \cup Optional -> Int]  BY <1>1 DEF Count
<1>b. /\ Len(requests') <= MaxCalls /\ writes' \in 0..MaxPuts /\ context' \in 1..Len(arrays')
      /\ registered' \in 0..Len(arrays') /\ ends' \in 0..MaxEnds
  <2>1. ends \in 0..MaxEnds  BY <1>0 DEF PermissionTypeOK
  <2> QED  BY <1>1, <1>2, <1>3, <2>1, PermissionsAssumption
<1>5. PermissionTypeOK'
  BY <1>0, <1>1, <1>2, <1>3, <1>4, <1>b DEF PermissionTypeOK
<1>6. Queue' /\ FirstView'  BY <1>1, <1>2, <1>3 DEF Queue, FirstView
<1>7. Latest'  BY <1>1, <1>3 DEF Latest, LatestIs
<1>8. Alone' /\ Written'  BY <1>1, <1>2, <1>3 DEF Alone, Settled, Written, Count
<1> QED  BY <1>5, <1>6, <1>7, <1>8 DEF PermissionIInv

\* what leaves the calls, the record and the view alone
LEMMA UnmovedKeeps ==
  ASSUME PermissionIInv, PermissionTypeOK', Written',
         UNCHANGED <<arrays, view, requests, announced, overlapped>>
  PROVE  PermissionIInv'
<1>1. Record' = Record /\ Settled' = Settled  BY DEF Record, Settled
<1>2. Queue' /\ FirstView'  BY PermissionFacts DEF Queue, FirstView
<1>3. Latest'  BY <1>1, PermissionFacts DEF Latest, LatestIs
<1>4. Alone'  BY <1>1, PermissionFacts DEF Alone
<1> QED  BY <1>2, <1>3, <1>4 DEF PermissionIInv

\* writes, boots, registrations and judgements
LEMMA AsideKeeps ==
  ASSUME PermissionIInv, Stores \/ Boot \/ Registers \/ Judge
  PROVE  PermissionIInv'
<1>0. PermissionTypeOK /\ Record \in Granted /\ Len(arrays) \in Nat \ {0}  BY PermissionFacts
<1>1. UNCHANGED <<arrays, view, requests, announced, overlapped>>
  BY DEF Stores, Boot, Registers, Judge
<1>2. PermissionTypeOK'
  <2>1. CASE Stores
    <3>1. /\ writes' = writes - 1 /\ writes > 0 /\ writes \in 0..MaxPuts
          /\ saved' \in {saved, Record} /\ (failed' = failed \/ failed' = TRUE)
          /\ UNCHANGED <<context, registered, judged, ends>>
      BY <1>0, <2>1 DEF Stores, PermissionTypeOK
    <3>2. writes' \in 0..MaxPuts  BY <3>1, PermissionsAssumption
    <3> QED  BY <1>0, <1>1, <3>1, <3>2 DEF PermissionTypeOK
  <2>2. CASE Boot  BY <1>0, <1>1, <2>2 DEF Boot, PermissionTypeOK
  <2>3. CASE Registers  BY <1>0, <1>1, <2>3 DEF Registers, PermissionTypeOK
  <2>4. CASE Judge  BY <1>0, <1>1, <2>4 DEF Judge, PermissionTypeOK
  <2> QED  BY <2>1, <2>2, <2>3, <2>4
<1>3. Written'
  <2>1. CASE Stores  BY <1>1, <2>1 DEF Stores, Written, Record
  <2>2. CASE Boot \/ Registers \/ Judge
    BY <1>1, <2>2, PermissionFacts DEF Boot, Registers, Judge, Written, Record
  <2> QED  BY <2>1, <2>2
<1> QED  BY <1>1, <1>2, <1>3, UnmovedKeeps

\* a call that goes on
LEMMA CallStep ==
  ASSUME PermissionIInv, NEW i \in 1..Len(requests), NEW c \in ApiCalls,
         requests' = [requests EXCEPT ![i] = c]
  PROVE  /\ requests' \in Seq(ApiCalls) /\ Len(requests') = Len(requests) /\ requests'[i] = c
         /\ \A j \in 1..Len(requests) : j # i => requests'[j] = requests[j]
<1>1. requests \in Seq(ApiCalls)  BY PermissionFacts
<1> QED  BY <1>1

\* a call that is made
LEMMA CallAdded ==
  ASSUME PermissionIInv, NEW c \in ApiCalls, requests' = Append(requests, c)
  PROVE  /\ requests' \in Seq(ApiCalls) /\ Len(requests') = Len(requests) + 1
         /\ requests'[Len(requests) + 1] = c
         /\ \A j \in 1..Len(requests) : requests'[j] = requests[j]
<1>1. requests \in Seq(ApiCalls)  BY PermissionFacts
<1> QED  BY <1>1

LEMMA CopiesKeeps ==
  ASSUME PermissionIInv, NEW i \in 1..Len(requests), Copies(i)
  PROVE  PermissionIInv'
<1>0. /\ PermissionTypeOK /\ Queue /\ FirstView /\ Alone /\ Written /\ Len(arrays) \in Nat \ {0}
      /\ requests[i] \in ApiCalls /\ Len(requests) \in Nat /\ arrays \in Seq(Granted)
  BY PermissionFacts
<1> DEFINE y == [requests[i] EXCEPT !.after = arrays[requests[i].array], !.at = "copied"]
<1>1. /\ requests[i].at = "granted" /\ \A j \in 1..(i - 1) : requests[j].at # "granted"
      /\ UNCHANGED <<arrays, view, writes, saved, context, registered, announced, overlapped,
                     failed, judged, ends>>
  BY DEF Copies, First
<1>2. requests' = [requests EXCEPT ![i] = y]  BY DEF Copies
<1>3. requests[i].array \in 1..Len(arrays) /\ arrays[requests[i].array] \in Granted
  BY <1>0, <1>1 DEF Queue
<1>4. /\ y \in ApiCalls /\ y.at = "copied" /\ y.array = requests[i].array /\ y.prior = requests[i].prior
      /\ y.asked = requests[i].asked /\ y.op = requests[i].op /\ y.after = arrays[requests[i].array]
  BY <1>0, <1>3 DEF ApiCalls
<1> HIDE DEF y
<1>5. /\ requests' \in Seq(ApiCalls) /\ Len(requests') = Len(requests) /\ requests'[i] = y
      /\ \A j \in 1..Len(requests) : j # i => requests'[j] = requests[j]
  BY <1>2, <1>4, CallStep
<1>6. Record' = Record  BY <1>1 DEF Record
<1>7. PermissionTypeOK'  BY <1>0, <1>1, <1>5 DEF PermissionTypeOK
<1>8. Queue'
  <2>1. \A j \in 1..Len(requests) : requests'[j].array = requests[j].array  BY <1>4, <1>5
  <2>2. \A j \in 1..Len(requests') :
          /\ requests'[j].array \in 0..Len(arrays')
          /\ requests'[j].at \in {"granted", "copied"} => requests'[j].array # 0
          /\ requests'[j].at = "refused" => requests'[j].array = 0
    BY <1>0, <1>1, <1>3, <1>4, <1>5 DEF Queue
  <2>3. ASSUME NEW a \in 1..Len(requests'), NEW b \in 1..Len(requests'), a < b,
               requests'[a].array # 0, requests'[b].array # 0
        PROVE  /\ requests'[b].at = "done" => requests'[a].at = "done"
               /\ requests'[b].at = "copied" => requests'[a].at # "granted"
    <3>1. /\ requests[b].at = "done" => requests[a].at = "done"
          /\ requests[b].at = "copied" => requests[a].at # "granted"
      BY <1>0, <1>5, <2>1, <2>3 DEF Queue
    <3>2. CASE a = i  BY <1>1, <1>4, <1>5, <2>3, <3>1, <3>2
    <3>3. CASE b = i
      <4>1. requests[a].at # "granted"  BY <1>1, <2>3, <3>3
      <4> QED  BY <1>4, <1>5, <2>3, <3>3, <4>1
    <3>4. CASE a # i /\ b # i  BY <1>5, <3>1, <3>4
    <3> QED  BY <3>2, <3>3, <3>4
  <2> QED  BY <2>2, <2>3 DEF Queue
<1>9. view # NoView  BY <1>0 DEF FirstView
<1>10. Latest'
  <2>1. PICK l \in 0..Len(requests) : LatestIs(l)  BY PermissionFacts DEF Latest
  <2>2. i <= l  BY <1>3, <2>1 DEF LatestIs
  <2>3. CASE i = l
    <3>1. y.after = Record  BY <1>4, <2>1, <2>3 DEF LatestIs, Record
    <3>2. LatestIs(l)'  BY <1>1, <1>4, <1>5, <1>6, <2>1, <2>3, <3>1 DEF LatestIs
    <3> QED  BY <1>5, <3>2 DEF Latest
  <2>4. CASE i # l
    <3>1. LatestIs(l)'  BY <1>1, <1>5, <1>6, <2>1, <2>2, <2>4 DEF LatestIs
    <3> QED  BY <1>5, <3>1 DEF Latest
  <2> QED  BY <2>3, <2>4
<1>11. Alone'
  <2> SUFFICES ASSUME ~overlapped PROVE Alone'  BY <1>1 DEF Alone
  <2>1. i = Len(requests) /\ ~Settled  BY <1>0, <1>1 DEF Alone, Settled
  <2>2. ~Settled'  BY <1>4, <1>5, <2>1 DEF Settled
  <2>3. /\ announced = Count(requests[i].prior) /\ Record = Effect(requests[i])
        /\ \A j \in 1..Len(requests) : j < Len(requests) => requests[j].at = "done"
    BY <1>0, <2>1 DEF Alone
  <2>4. Effect(y) = Effect(requests[i])  BY <1>4 DEF Effect
  <2> QED  BY <1>1, <1>4, <1>5, <1>6, <2>1, <2>2, <2>3, <2>4 DEF Alone
<1>12. Written'  BY <1>0, <1>1, <1>6 DEF Written
<1> QED  BY <1>1, <1>7, <1>8, <1>9, <1>10, <1>11, <1>12 DEF PermissionIInv, FirstView

\* what the listeners of a lone call are told makes up the difference
LEMMA ToldIsEffect ==
  ASSUME PermissionIInv, NEW c \in ApiCalls, c.after = Effect(c), c.array # 0,
         NEW f, f = [p \in Required \cup Optional |->
                IF c.op = "grant" THEN Count(c.prior)[p] + Count(Delta(c))[p]
                                  ELSE Count(c.prior)[p] - Count(Delta(c))[p]]
  PROVE  f = Count(c.after)
<1>1. c.asked \subseteq Required \cup Optional  BY DEF ApiCalls, Granted
<1>2. ASSUME NEW p \in Required \cup Optional PROVE f[p] = Count(c.after)[p]
  <2>1. Count(c.prior)[p] = (IF p \in c.prior THEN 1 ELSE 0)  BY DEF Count
  <2>2. Count(Delta(c))[p] = (IF p \in Delta(c) THEN 1 ELSE 0)  BY DEF Count
  <2>3. Count(c.after)[p] = (IF p \in c.after THEN 1 ELSE 0)  BY DEF Count
  <2>4. CASE c.op = "grant"
    <3>1. p \in c.after <=> p \in c.prior \/ p \in c.asked  BY <2>4 DEF Effect
    <3>2. p \in Delta(c) <=> p \in c.asked /\ p \notin c.prior  BY <2>4, <3>1 DEF Delta
    <3> QED  BY <2>1, <2>2, <2>3, <2>4, <3>1, <3>2
  <2>5. CASE c.op # "grant"
    <3>1. p \in c.after <=> p \in c.prior /\ p \notin c.asked  BY <2>5 DEF Effect
    <3>2. p \in Delta(c) <=> p \in c.asked /\ p \in c.prior  BY <2>5, <3>1 DEF Delta
    <3> QED  BY <2>1, <2>2, <2>3, <2>5, <3>1, <3>2
  <2> QED  BY <2>4, <2>5
<1>3. Count(c.after) = [p \in Required \cup Optional |-> Count(c.after)[p]]  BY DEF Count
<1>4. f = [p \in Required \cup Optional |-> f[p]]  OBVIOUS
<1> QED  BY <1>2, <1>3, <1>4

LEMMA EndsCallKeeps ==
  ASSUME PermissionIInv, NEW i \in 1..Len(requests), Ends(i)
  PROVE  PermissionIInv'
<1>0. /\ PermissionTypeOK /\ Queue /\ FirstView /\ Alone /\ Written /\ Len(arrays) \in Nat \ {0}
      /\ requests[i] \in ApiCalls /\ Len(requests) \in Nat /\ NoView \notin Granted
  BY PermissionFacts
<1> DEFINE y == [requests[i] EXCEPT !.at = "done"]
<1>1. /\ requests[i].at = "copied" /\ \A j \in 1..(i - 1) : requests[j].at # "copied"
      /\ view' = requests[i].after
      /\ UNCHANGED <<arrays, writes, saved, context, registered, overlapped, failed, judged, ends>>
  BY DEF Ends, First
<1>2. requests' = [requests EXCEPT ![i] = y]  BY DEF Ends
<1>3. requests[i].array \in 1..Len(arrays)  BY <1>0, <1>1 DEF Queue
<1>4. /\ y \in ApiCalls /\ y.at = "done" /\ y.array = requests[i].array
      /\ requests[i].after \in Granted
  BY <1>0 DEF ApiCalls
<1> HIDE DEF y
<1>5. /\ requests' \in Seq(ApiCalls) /\ Len(requests') = Len(requests) /\ requests'[i] = y
      /\ \A j \in 1..Len(requests) : j # i => requests'[j] = requests[j]
  BY <1>2, <1>4, CallStep
<1>6. Record' = Record  BY <1>1 DEF Record
<1>a. announced' = [p \in Required \cup Optional |->
        IF requests[i].op = "grant" THEN announced[p] + Count(Delta(requests[i]))[p]
                                    ELSE announced[p] - Count(Delta(requests[i]))[p]]
  <2>1. DOMAIN announced = Required \cup Optional  BY <1>0 DEF PermissionTypeOK
  <2> QED  BY <2>1 DEF Ends
<1>b. announced' \in [Required \cup Optional -> Int]
  <2>1. \A p \in Required \cup Optional :
          announced[p] \in Int /\ Count(Delta(requests[i]))[p] \in Int
    BY <1>0 DEF PermissionTypeOK, Count
  <2> QED  BY <1>a, <2>1
<1>7. PermissionTypeOK'  BY <1>0, <1>1, <1>4, <1>5, <1>b DEF PermissionTypeOK
<1>8. Queue'
  <2>1. \A j \in 1..Len(requests) : requests'[j].array = requests[j].array  BY <1>4, <1>5
  <2>2. \A j \in 1..Len(requests') :
          /\ requests'[j].array \in 0..Len(arrays')
          /\ requests'[j].at \in {"granted", "copied"} => requests'[j].array # 0
          /\ requests'[j].at = "refused" => requests'[j].array = 0
    BY <1>0, <1>1, <1>3, <1>4, <1>5 DEF Queue
  <2>3. ASSUME NEW a \in 1..Len(requests'), NEW b \in 1..Len(requests'), a < b,
               requests'[a].array # 0, requests'[b].array # 0
        PROVE  /\ requests'[b].at = "done" => requests'[a].at = "done"
               /\ requests'[b].at = "copied" => requests'[a].at # "granted"
    <3>1. /\ requests[b].at = "done" => requests[a].at = "done"
          /\ requests[b].at = "copied" => requests[a].at # "granted"
          /\ requests[a].array # 0 /\ requests[a] \in ApiCalls
      BY <1>0, <1>5, <2>1, <2>3, PermissionFacts DEF Queue
    <3>2. CASE a = i  BY <1>1, <1>4, <1>5, <2>3, <3>1, <3>2
    <3>3. CASE b = i
      <4>1. requests[a].at # "copied"  BY <1>1, <2>3, <3>3
      <4>2. requests[a].at # "granted"  BY <1>1, <3>1, <3>3
      <4>3. requests[a].at # "refused"  BY <1>0, <1>5, <2>3, <3>1 DEF Queue
      <4>4. requests[a].at = "done"  BY <3>1, <4>1, <4>2, <4>3 DEF ApiCalls
      <4> QED  BY <1>4, <1>5, <2>3, <3>3, <4>4
    <3>4. CASE a # i /\ b # i  BY <1>5, <3>1, <3>4
    <3> QED  BY <3>2, <3>3, <3>4
  <2> QED  BY <2>2, <2>3 DEF Queue
<1>9. view' # NoView  BY <1>0, <1>1, <1>4
<1>10. Latest'
  <2>1. PICK l \in 0..Len(requests) : LatestIs(l)  BY PermissionFacts DEF Latest
  <2>2. i <= l  BY <1>3, <2>1 DEF LatestIs
  <2>3. CASE i = l
    <3>1. view' = Record  BY <1>1, <2>1, <2>3 DEF LatestIs
    <3>2. LatestIs(l)'  BY <1>1, <1>4, <1>5, <1>6, <2>1, <2>3, <3>1 DEF LatestIs
    <3> QED  BY <1>5, <3>2 DEF Latest
  <2>4. CASE i # l
    <3>1. requests[l].array # 0 /\ requests[i].array # 0 /\ i < l /\ l \in 1..Len(requests)
      BY <1>0, <1>3, <2>1, <2>2, <2>4 DEF LatestIs
    <3>2. requests[l].at # "done"  BY <1>0, <1>1, <3>1 DEF Queue
    <3>3. requests'[l] = requests[l]  BY <1>5, <2>4, <3>1
    <3>4. \A j \in 1..Len(requests') : j > l => requests'[j].array = 0
      BY <1>5, <2>1, <2>2, <2>4 DEF LatestIs
    <3>5. LatestIs(l)'  BY <1>1, <1>6, <2>1, <3>1, <3>2, <3>3, <3>4 DEF LatestIs
    <3> QED  BY <1>5, <3>5 DEF Latest
  <2> QED  BY <2>3, <2>4
<1>11. Alone'
  <2> SUFFICES ASSUME ~overlapped PROVE Alone'  BY <1>1 DEF Alone
  <2>1. i = Len(requests) /\ ~Settled  BY <1>0, <1>1 DEF Alone, Settled
  <2>2. /\ announced = Count(requests[i].prior) /\ Record = Effect(requests[i])
        /\ \A j \in 1..Len(requests) : j < Len(requests) => requests[j].at = "done"
    BY <1>0, <2>1 DEF Alone
  <2>3. requests[i].after = Record
    <3>1. PICK l \in 0..Len(requests) : LatestIs(l)  BY PermissionFacts DEF Latest
    <3>2. l = i  BY <1>3, <2>1, <3>1 DEF LatestIs
    <3> QED  BY <1>1, <3>1, <3>2 DEF LatestIs
  <2>4. announced' = Count(requests[i].after)
    <3>1. requests[i].array # 0  BY <1>3
    <3> QED  BY <1>0, <1>a, <2>2, <2>3, <3>1, ToldIsEffect
  <2>5. Settled' /\ \A j \in 1..Len(requests') : requests'[j].at = "done"
    BY <1>4, <1>5, <2>1, <2>2 DEF Settled
  <2> QED  BY <1>5, <1>6, <2>3, <2>4, <2>5 DEF Alone
<1>12. Written'  BY <1>0, <1>1, <1>6 DEF Written
<1> QED  BY <1>7, <1>8, <1>9, <1>10, <1>11, <1>12 DEF PermissionIInv, FirstView

LEMMA RefusedKeeps ==
  ASSUME PermissionIInv, NEW i \in 1..Len(requests), Refused(i)
  PROVE  PermissionIInv'
<1>0. /\ PermissionTypeOK /\ Queue /\ FirstView /\ Alone /\ Written /\ Len(arrays) \in Nat \ {0}
      /\ requests[i] \in ApiCalls /\ Len(requests) \in Nat
  BY PermissionFacts
<1> DEFINE y == [requests[i] EXCEPT !.at = "done"]
<1>1. /\ requests[i].at = "refused"
      /\ UNCHANGED <<arrays, view, writes, saved, context, registered, announced, overlapped,
                     failed, judged, ends>>
  BY DEF Refused, First
<1>2. requests' = [requests EXCEPT ![i] = y]  BY DEF Refused
<1>3. requests[i].array = 0  BY <1>0, <1>1 DEF Queue
<1>4. y \in ApiCalls /\ y.at = "done" /\ y.array = 0  BY <1>0, <1>3 DEF ApiCalls
<1> HIDE DEF y
<1>5. /\ requests' \in Seq(ApiCalls) /\ Len(requests') = Len(requests) /\ requests'[i] = y
      /\ \A j \in 1..Len(requests) : j # i => requests'[j] = requests[j]
  BY <1>2, <1>4, CallStep
<1>6. Record' = Record  BY <1>1 DEF Record
<1>7. PermissionTypeOK'  BY <1>0, <1>1, <1>5 DEF PermissionTypeOK
<1>8. Queue'  BY <1>0, <1>1, <1>4, <1>5 DEF Queue
<1>9. view # NoView  BY <1>0 DEF FirstView
<1>10. Latest'
  <2>1. PICK l \in 0..Len(requests) : LatestIs(l)  BY PermissionFacts DEF Latest
  <2>2. l # i  BY <1>0, <1>3, <2>1 DEF LatestIs
  <2>3. LatestIs(l)'  BY <1>1, <1>4, <1>5, <1>6, <2>1, <2>2 DEF LatestIs
  <2> QED  BY <1>5, <2>3 DEF Latest
<1>11. Alone'
  <2> SUFFICES ASSUME ~overlapped PROVE Alone'  BY <1>1 DEF Alone
  <2>1. i = Len(requests) /\ ~Settled  BY <1>0, <1>1 DEF Alone, Settled
  <2>2. /\ announced = Count(requests[i].prior) /\ Record = requests[i].prior
        /\ \A j \in 1..Len(requests) : j < Len(requests) => requests[j].at = "done"
    BY <1>0, <1>3, <2>1 DEF Alone, Effect
  <2>3. Settled' /\ \A j \in 1..Len(requests') : requests'[j].at = "done"
    BY <1>4, <1>5, <2>1, <2>2 DEF Settled
  <2> QED  BY <1>1, <1>5, <1>6, <2>2, <2>3 DEF Alone
<1>12. Written'  BY <1>0, <1>1, <1>6 DEF Written
<1> QED  BY <1>1, <1>7, <1>8, <1>9, <1>10, <1>11, <1>12 DEF PermissionIInv, FirstView

\* a call is made: it changes the record at once, or is refused
LEMMA GoesKeeps ==
  ASSUME PermissionIInv, NEW c \in ApiCalls, Goes(c), c.prior = Seen, arrays' \in Seq(Granted),
         IF c.array = 0 THEN c.at = "refused" /\ UNCHANGED <<arrays, writes>>
         ELSE /\ c.at = "granted" /\ c.array = Len(arrays') /\ writes' = writes + 1
              /\ Len(arrays') >= Len(arrays)
              /\ Record' = IF c.op = "grant" THEN Record \cup c.asked ELSE Record \ c.asked,
         UNCHANGED <<saved, context, registered, announced, failed, judged, ends>>
  PROVE  PermissionIInv'
<1>0. /\ PermissionTypeOK /\ Queue /\ FirstView /\ Alone /\ Written /\ Len(arrays) \in Nat \ {0}
      /\ Len(requests) \in Nat /\ NoView \notin Granted
      /\ arrays # <<>> /\ Underway \in Nat
  BY PermissionFacts, QuietIsSettled DEF PermissionTypeOK
<1>n. PICK n \in Nat : n = Len(requests) + 1  BY <1>0
<1>1. /\ requests' = Append(requests, c) /\ view' = Seen /\ Len(requests) < MaxCalls
      /\ writes < MaxPuts /\ overlapped' = (overlapped \/ Underway > 0)
  BY DEF Goes
<1>2. /\ requests' \in Seq(ApiCalls) /\ Len(requests') = n /\ requests'[n] = c
      /\ \A j \in 1..Len(requests) : requests'[j] = requests[j]
  BY <1>1, <1>n, CallAdded
<1>3. Len(arrays') \in Nat \ {0} /\ Len(arrays') >= Len(arrays) /\ arrays' # <<>>
  <2>1. Len(arrays') >= Len(arrays)
    <3>1. CASE c.array = 0  BY <1>0, <3>1
    <3>2. CASE c.array # 0  BY <3>2
    <3> QED  BY <3>1, <3>2
  <2>2. Len(arrays') \in Nat  OBVIOUS
  <2>3. Len(arrays') # 0  BY <1>0, <2>1, <2>2
  <2> QED  BY <2>1, <2>2, <2>3
<1>4. Seen \in Granted /\ view' # NoView  BY <1>0, <1>1, SeenFacts
<1>5. PermissionTypeOK'
  <2>1. writes' \in 0..MaxPuts  BY <1>0, <1>1, PermissionsAssumption DEF PermissionTypeOK
  <2>2. Len(requests') <= MaxCalls  BY <1>0, <1>1, <1>n, <1>2, PermissionsAssumption
  <2>3. context' \in 1..Len(arrays') /\ registered' \in 0..Len(arrays')
    BY <1>0, <1>3 DEF PermissionTypeOK
  <2>4. overlapped' \in BOOLEAN  BY <1>1
  <2> QED  BY <1>0, <1>1, <1>2, <1>3, <1>4, <2>1, <2>2, <2>3, <2>4 DEF PermissionTypeOK
<1>6. Queue'
  <2>1. ASSUME NEW j \in 1..Len(requests')
        PROVE  /\ requests'[j].array \in 0..Len(arrays')
               /\ requests'[j].at \in {"granted", "copied"} => requests'[j].array # 0
               /\ requests'[j].at = "refused" => requests'[j].array = 0
    <3>1. CASE j = n  BY <1>n, <1>2, <1>3, <3>1
    <3>2. CASE j # n
      <4>1. j \in 1..Len(requests) /\ requests'[j] = requests[j]  BY <1>0, <1>n, <1>2, <3>2
      <4>2. requests[j].array \in 0..Len(arrays)  BY <1>0, <4>1 DEF Queue
      <4>3. requests[j].array \in 0..Len(arrays')  BY <1>0, <1>3, <4>2
      <4> QED  BY <1>0, <4>1, <4>3 DEF Queue
    <3> QED  BY <3>1, <3>2
  <2>2. ASSUME NEW a \in 1..Len(requests'), NEW b \in 1..Len(requests'), a < b,
               requests'[a].array # 0, requests'[b].array # 0
        PROVE  /\ requests'[b].at = "done" => requests'[a].at = "done"
               /\ requests'[b].at = "copied" => requests'[a].at # "granted"
    <3>1. CASE b = n
      <4>1. c.at = "granted"  BY <1>2, <2>2, <3>1
      <4> QED  BY <1>2, <3>1, <4>1
    <3>2. CASE b # n
      <4>1. /\ a \in 1..Len(requests) /\ requests'[a] = requests[a]
            /\ b \in 1..Len(requests) /\ requests'[b] = requests[b]
        BY <1>0, <1>n, <1>2, <2>2, <3>2
      <4> QED  BY <1>0, <2>2, <4>1 DEF Queue
    <3> QED  BY <3>1, <3>2
  <2> QED  BY <2>1, <2>2 DEF Queue
<1>7. Latest'
  <2>1. PICK l \in 0..Len(requests) : LatestIs(l)  BY PermissionFacts DEF Latest
  <2>2. CASE c.array # 0
    <3>1. LatestIs(n)'  BY <1>0, <1>n, <1>2, <2>2 DEF LatestIs
    <3> QED  BY <1>0, <1>n, <1>2, <3>1 DEF Latest
  <2>3. CASE c.array = 0
    <3>1. Record' = Record  BY <2>3 DEF Record
    <3>2. view' = view \/ view' = Record  BY <1>1, SeenFacts DEF Seen
    <3>3. \A j \in 1..Len(requests') : j > l => requests'[j].array = 0
      BY <1>0, <1>n, <1>2, <2>1, <2>3 DEF LatestIs
    <3>4. LatestIs(l)'
      <4>1. CASE l = 0  BY <2>1, <3>1, <3>2, <3>3, <4>1 DEF LatestIs
      <4>2. CASE l > 0
        <5>1. l \in 1..Len(requests) /\ requests'[l] = requests[l]  BY <1>2, <4>2
        <5>2. requests # <<>>  BY <1>0, <5>1
        <5>3. view' = view  BY <1>0, <1>1, <5>2 DEF Seen, FirstView
        <5> QED  BY <2>1, <2>3, <3>1, <3>3, <5>1, <5>3 DEF LatestIs
      <4> QED  BY <4>1, <4>2
    <3> QED  BY <1>0, <1>n, <1>2, <3>4 DEF Latest
  <2> QED  BY <2>2, <2>3
<1>8. Alone'
  <2> SUFFICES ASSUME ~overlapped' PROVE Alone'  BY DEF Alone
  <2>1. ~overlapped /\ Underway = 0
    <3>1. ~overlapped /\ ~(Underway > 0)  BY <1>1
    <3> QED  BY <1>0, <3>1
  <2>2. Settled  BY <2>1, QuietIsSettled
  <2>3. announced = Count(Record) /\ Seen = Record  BY <1>0, <2>1, <2>2, SeenFacts DEF Alone
  <2>4. \A j \in 1..Len(requests') : j < Len(requests') => requests'[j].at = "done"
    BY <1>0, <1>n, <1>2, <2>2 DEF Settled
  <2>5. c.at # "done"  OBVIOUS
  <2>6. ~Settled'  BY <1>0, <1>n, <1>2, <2>5 DEF Settled
  <2>7. Record' = Effect(c)
    <3>1. CASE c.array = 0  BY <2>3, <3>1 DEF Effect, Record
    <3>2. CASE c.array # 0  BY <2>3, <3>2 DEF Effect
    <3> QED  BY <3>1, <3>2
  <2>8. announced' = Count(c.prior)  BY <2>3 DEF Count
  <2> QED  BY <1>n, <1>2, <2>4, <2>6, <2>7, <2>8 DEF Alone
<1>9. Written'
  <2>1. CASE c.array = 0  BY <1>0, <2>1 DEF Written, Record
  <2>2. CASE c.array # 0
    <3>1. writes' # 0  BY <1>0, <2>2 DEF PermissionTypeOK
    <3> QED  BY <3>1 DEF Written
  <2> QED  BY <2>1, <2>2
<1> QED  BY <1>4, <1>5, <1>6, <1>7, <1>8, <1>9 DEF PermissionIInv, FirstView

LEMMA RequestKeeps ==
  ASSUME PermissionIInv, NEW ps \in Granted, Request(ps)
  PROVE  PermissionIInv'
<1>0. /\ arrays \in Seq(Granted) /\ Len(arrays) \in Nat \ {0} /\ Record \in Granted
      /\ Seen \in Granted /\ {} \in Granted
  BY PermissionFacts, SeenFacts DEF Granted
<1>1. UNCHANGED <<saved, context, registered, announced, failed, judged, ends>>  BY DEF Request
<1>2. CASE ps \subseteq Optional
  <2> DEFINE c == [op |-> "grant", asked |-> ps, prior |-> Seen, array |-> Len(arrays),
                   after |-> {}, at |-> "granted"]
  <2>1. Goes(c) /\ arrays' = [arrays EXCEPT ![Len(arrays)] = @ \cup ps] /\ writes' = writes + 1
    BY <1>2 DEF Request
  <2>2. /\ c \in ApiCalls /\ c.prior = Seen /\ c.array = Len(arrays) /\ c.at = "granted"
        /\ c.op = "grant" /\ c.asked = ps
    BY <1>0 DEF ApiCalls
  <2> HIDE DEF c
  <2>3. Record \cup ps \in Granted  BY <1>0 DEF Granted
  <2>4. arrays' = [arrays EXCEPT ![Len(arrays)] = Record \cup ps]  BY <2>1 DEF Record
  <2>5. arrays' \in Seq(Granted) /\ Len(arrays') = Len(arrays) /\ arrays'[Len(arrays)] = Record \cup ps
    BY <1>0, <2>3, <2>4
  <2>6. Record' = Record \cup ps  BY <2>5 DEF Record
  <2>7. c.array # 0 /\ c.array = Len(arrays') /\ Len(arrays') >= Len(arrays)  BY <1>0, <2>2, <2>5
  <2> QED  BY <1>1, <2>1, <2>2, <2>5, <2>6, <2>7, GoesKeeps
<1>3. CASE ~(ps \subseteq Optional)
  <2> DEFINE c == [op |-> "grant", asked |-> ps, prior |-> Seen, array |-> 0,
                   after |-> {}, at |-> "refused"]
  <2>1. Goes(c) /\ UNCHANGED <<arrays, writes>>  BY <1>3 DEF Request
  <2>2. c \in ApiCalls /\ c.prior = Seen /\ c.array = 0 /\ c.at = "refused"
    BY <1>0 DEF ApiCalls
  <2> HIDE DEF c
  <2> QED  BY <1>0, <1>1, <2>1, <2>2, GoesKeeps
<1> QED  BY <1>2, <1>3

LEMMA RemoveKeeps ==
  ASSUME PermissionIInv, NEW ps \in Granted, Removes(ps)
  PROVE  PermissionIInv'
<1>0. /\ arrays \in Seq(Granted) /\ Len(arrays) \in Nat \ {0} /\ Record \in Granted
      /\ Seen \in Granted /\ {} \in Granted
  BY PermissionFacts, SeenFacts DEF Granted
<1> DEFINE c == [op |-> "revoke", asked |-> ps, prior |-> Seen, array |-> Len(arrays) + 1,
                 after |-> {}, at |-> "granted"]
<1>1. /\ Goes(c) /\ arrays' = Append(arrays, Record \ ps) /\ writes' = writes + 1
      /\ UNCHANGED <<saved, context, registered, announced, failed, judged, ends>>
  BY DEF Removes
<1>2. /\ c \in ApiCalls /\ c.prior = Seen /\ c.array = Len(arrays) + 1 /\ c.at = "granted"
      /\ c.op = "revoke" /\ c.asked = ps
  BY <1>0 DEF ApiCalls
<1> HIDE DEF c
<1>3. Record \ ps \in Granted  BY <1>0 DEF Granted
<1>4. arrays' \in Seq(Granted) /\ Len(arrays') = Len(arrays) + 1 /\ arrays'[Len(arrays) + 1] = Record \ ps
  BY <1>0, <1>1, <1>3
<1>5. Record' = Record \ ps  BY <1>4 DEF Record
<1>6. c.op # "grant" /\ c.array # 0 /\ Len(arrays') >= Len(arrays)  BY <1>0, <1>2, <1>4
<1> QED  BY <1>1, <1>2, <1>4, <1>5, <1>6, GoesKeeps

LEMMA PermissionStep == PermissionIInv /\ [PermissionNext]_permissionVars => PermissionIInv'
<1> SUFFICES ASSUME PermissionIInv, [PermissionNext]_permissionVars PROVE PermissionIInv'
  OBVIOUS
<1>1. ASSUME NEW ps \in SUBSET (Required \cup Optional) \ {{}}, Request(ps) \/ Removes(ps)
      PROVE  PermissionIInv'
  <2>1. ps \in Granted  BY DEF Granted
  <2> QED  BY <1>1, <2>1, RequestKeeps, RemoveKeeps
<1>2. ASSUME NEW i \in 1..Len(requests), Copies(i) \/ Ends(i) \/ Refused(i)
      PROVE  PermissionIInv'
  BY <1>2, CopiesKeeps, EndsCallKeeps, RefusedKeeps
<1>3. CASE Stores \/ Boot \/ Registers \/ Judge  BY <1>3, AsideKeeps
<1>4. CASE WorkerEnds  BY <1>4, EndsKeeps
<1>5. CASE UNCHANGED permissionVars
  <2>1. PermissionTypeOK'  BY <1>5, PermissionFacts DEF permissionVars, PermissionTypeOK
  <2>2. Written'  BY <1>5, PermissionFacts DEF permissionVars, Written, Record
  <2> QED  BY <1>5, <2>1, <2>2, UnmovedKeeps DEF permissionVars
<1> QED  BY <1>1, <1>2, <1>3, <1>4, <1>5 DEF PermissionNext

\* For any permissions, however many calls and restarts: the inductive invariant holds.
THEOREM PermissionsInductive == PermissionSpec => []PermissionIInv
  BY PermissionStart, PermissionStep, PTL DEF PermissionSpec

\* advanced-permissions.ts, #522, for any set of permissions and any number of calls that
\* overlap: with no call under way the API answers with the record's grants, with no write
\* under way so does the store, and what the events told adds up to the record as long as
\* no two calls overlapped.
THEOREM GrantsSound == PermissionSpec => []GrantsAgree
<1>1. ASSUME PermissionIInv PROVE GrantsAgree
  <2>0. PermissionTypeOK /\ Alone /\ Written  BY <1>1, PermissionFacts
  <2>1. Underway = 0 <=> Settled  BY <1>1, QuietIsSettled
  <2>2. Settled /\ view # NoView => view = Record  BY <1>1, SeenFacts DEF Seen
  <2>3. QuietViewIsRecord  BY <2>0, <2>1, <2>2 DEF QuietViewIsRecord, Written
  <2>4. EventsAddUp  BY <2>0, <2>1 DEF EventsAddUp, Alone
  <2> QED  BY <2>0, <2>3, <2>4 DEF GrantsAgree
<1> QED  BY <1>1, PermissionsInductive, PTL

--------------------------------------------------------------------------------
(* Pages and ports.  PortEndsAgree speaks of silence on both channels.  While *)
(* something is under way, the frame that tells of an end is among it.        *)

\* A page that nothing opened has nothing; a token that granted a page is one of those minted.
Opened ==
  \A p \in Pages : page[p] = None => by[p] = 0 /\ clients[p] = "" /\ end[p] = "none"

Waits(frames, f) == \E i \in 1..Len(frames) : frames[i] = f

\* A port that was never connected is empty on both sides.
Unconnected(p) ==
  /\ end[p] = "none" <=> bridge[p] = "none"
  /\ bridge[p] \in {"none", "waking"} => toPage[p] = <<>> /\ posted[p] = 0 /\ got[p] = 0
  /\ end[p] = "none" => toSw[p] = <<>>

\* What ends the worker's side tells the page, and the other way round: the frame that says
\* so is under way until the other end has closed.
Closing(p) ==
  /\ bridge[p] \in {"waking", "linked"} /\ Live(p) /\ end[p] = "closed" => Waits(toSw[p], "d")
  /\ end[p] = "open" => ~Waits(toSw[p], "d")
  /\ bridge[p] = "linked" => ~Waits(toPage[p], "d") /\ ~Waits(toPage[p], "err")
  /\ bridge[p] = "dead" /\ end[p] = "open" => Waits(toPage[p], "d") \/ Waits(toPage[p], "err")

\* What was posted arrived, is under way, or came after the page's end had closed.
Delivered(p) ==
  /\ got[p] + Posted(toPage[p]) <= posted[p]
  /\ end[p] = "open" => posted[p] = got[p] + Posted(toPage[p])

Ports == \A p \in Pages : Unconnected(p) /\ Closing(p) /\ Delivered(p)

PageIInv == PageTypeOK /\ TokensOpenTheirPage /\ Opened /\ Ports

Frames == {"ok", "refused", "err", "m", "d"}

LEMMA PostedIsNat ==
  ASSUME NEW s \in Seq(Frames)
  PROVE  Posted(s) \in Nat /\ IsFiniteSet({i \in 1..Len(s) : s[i] = "m"})
<1>1. IsFiniteSet(1..Len(s))  BY FS_Interval
<1>2. IsFiniteSet({i \in 1..Len(s) : s[i] = "m"})  BY <1>1, FS_Subset
<1> QED  BY <1>2, FS_CardinalityType DEF Posted

LEMMA PostedEmpty == Posted(<<>>) = 0
<1>1. {i \in 1..Len(<<>>) : <<>>[i] = "m"} = {}  OBVIOUS
<1> QED  BY <1>1, FS_EmptySet DEF Posted

LEMMA PostedAppend ==
  ASSUME NEW s \in Seq(Frames), NEW f \in Frames
  PROVE  Posted(Append(s, f)) = Posted(s) + (IF f = "m" THEN 1 ELSE 0)
<1> DEFINE A == {i \in 1..Len(s) : s[i] = "m"}
           B == {i \in 1..Len(Append(s, f)) : Append(s, f)[i] = "m"}
<1>0. Posted(s) = Cardinality(A) /\ Posted(Append(s, f)) = Cardinality(B)  BY DEF Posted
<1>1. IsFiniteSet(A) /\ Cardinality(A) \in Nat  BY PostedIsNat, FS_CardinalityType
<1>2. /\ Len(Append(s, f)) = Len(s) + 1 /\ Len(s) \in Nat
      /\ Append(s, f)[Len(s) + 1] = f
      /\ \A i \in 1..Len(s) : Append(s, f)[i] = s[i]
  OBVIOUS
<1>3. CASE f = "m"
  <2>1. B = A \cup {Len(s) + 1} /\ Len(s) + 1 \notin A  BY <1>2, <1>3
  <2> HIDE DEF A, B
  <2> QED  BY <1>0, <1>1, <1>3, <2>1, FS_AddElement
<1>4. CASE f # "m"
  <2>1. B = A  BY <1>2, <1>4
  <2> HIDE DEF A, B
  <2> QED  BY <1>0, <1>1, <1>4, <2>1
<1> QED  BY <1>3, <1>4

LEMMA PostedTail ==
  ASSUME NEW s \in Seq(Frames), s # <<>>
  PROVE  Posted(s) = Posted(Tail(s)) + (IF Head(s) = "m" THEN 1 ELSE 0)
<1> DEFINE A == {i \in 1..Len(s) : s[i] = "m"}
           B == {i \in 1..Len(Tail(s)) : Tail(s)[i] = "m"}
           C == A \ {1}
           g == [i \in B |-> i + 1]
<1>0. Len(s) \in Nat /\ Len(s) >= 1  BY EmptySeq
<1>1. /\ Tail(s) \in Seq(Frames) /\ Len(Tail(s)) = Len(s) - 1 /\ Head(s) = s[1]
      /\ \A i \in 1..(Len(s) - 1) : Tail(s)[i] = s[i + 1]
  BY <1>0, HeadTailProperties
<1>2. IsFiniteSet(A) /\ Cardinality(A) \in Nat /\ IsFiniteSet(B) /\ Cardinality(B) \in Nat
  BY <1>1, PostedIsNat, FS_CardinalityType
<1>3. g \in Bijection(B, C)
  <2>1. \A i \in B : i + 1 \in C  BY <1>0, <1>1
  <2>2. \A j \in C : j - 1 \in B /\ g[j - 1] = j  BY <1>0, <1>1
  <2>3. g \in [B -> C]  BY <2>1
  <2>4. \A i, j \in B : g[i] = g[j] => i = j  BY <1>0, <1>1
  <2>5. \A j \in C : \E i \in B : g[i] = j  BY <2>2
  <2> HIDE DEF B, C, g
  <2> QED  BY <2>3, <2>4, <2>5, Fun_IsBij
<1>4. Cardinality(B) = Cardinality(C)
  <2>1. ExistsBijection(B, C)  BY <1>3 DEF ExistsBijection
  <2>2. IsFiniteSet(C)  BY <1>2, FS_Subset
  <2> QED  BY <1>2, <2>1, <2>2, FS_Bijection
<1>5. 1 \in A <=> Head(s) = "m"  BY <1>0, <1>1
<1>6. Cardinality(C) = IF 1 \in A THEN Cardinality(A) - 1 ELSE Cardinality(A)
  BY <1>2, FS_RemoveElement
<1>7. Posted(s) = Cardinality(A) /\ Posted(Tail(s)) = Cardinality(B)  BY DEF Posted
<1> HIDE DEF A, B, C, g
<1> QED  BY <1>2, <1>4, <1>5, <1>6, <1>7

\* what waits on a channel
LEMMA WaitsEmpty == \A f : ~Waits(<<>>, f)
  BY DEF Waits

LEMMA WaitsAppend ==
  ASSUME NEW T, NEW s \in Seq(T), NEW e \in T
  PROVE  \A f : Waits(Append(s, e), f) <=> Waits(s, f) \/ e = f
<1>1. /\ Len(Append(s, e)) = Len(s) + 1 /\ Len(s) \in Nat
      /\ Append(s, e)[Len(s) + 1] = e
      /\ \A i \in 1..Len(s) : Append(s, e)[i] = s[i]
  OBVIOUS
<1> QED  BY <1>1 DEF Waits

LEMMA WaitsTail ==
  ASSUME NEW T, NEW s \in Seq(T), s # <<>>
  PROVE  \A f : Waits(s, f) <=> Waits(Tail(s), f) \/ Head(s) = f
<1>0. Len(s) \in Nat /\ Len(s) >= 1  BY EmptySeq
<1>1. /\ Len(Tail(s)) = Len(s) - 1 /\ Head(s) = s[1]
      /\ \A i \in 1..(Len(s) - 1) : Tail(s)[i] = s[i + 1]
  BY <1>0, HeadTailProperties
<1> SUFFICES ASSUME NEW f PROVE Waits(s, f) <=> Waits(Tail(s), f) \/ Head(s) = f
  OBVIOUS
<1>2. ASSUME NEW i \in 1..Len(s), s[i] = f PROVE Waits(Tail(s), f) \/ Head(s) = f
  <2>1. CASE i = 1  BY <1>1, <1>2, <2>1
  <2>2. CASE i # 1
    <3>1. i - 1 \in 1..Len(Tail(s)) /\ Tail(s)[i - 1] = f  BY <1>0, <1>1, <1>2, <2>2
    <3> QED  BY <3>1 DEF Waits
  <2> QED  BY <2>1, <2>2
<1>3. ASSUME NEW i \in 1..Len(Tail(s)), Tail(s)[i] = f PROVE Waits(s, f)
  <2>1. i + 1 \in 1..Len(s) /\ s[i + 1] = f  BY <1>0, <1>1, <1>3
  <2> QED  BY <2>1 DEF Waits
<1>4. Head(s) = f => Waits(s, f)
  <2>1. 1 \in 1..Len(s)  BY <1>0
  <2> QED  BY <1>1, <2>1 DEF Waits
<1> QED  BY <1>2, <1>3, <1>4 DEF Waits

LEMMA PageFacts ==
  ASSUME PageIInv
  PROVE  /\ PageTypeOK /\ TokensOpenTheirPage /\ Opened /\ Ports
         /\ minted \in Seq(Tokens) /\ Len(minted) \in Nat
         /\ \A k \in 1..Len(minted) : minted[k] \in Tokens
<1>1. PageTypeOK /\ TokensOpenTheirPage /\ Opened /\ Ports  BY DEF PageIInv
<1>2. minted \in Seq(Tokens)  BY <1>1 DEF PageTypeOK
<1> QED  BY <1>1, <1>2

\* the port of one page
LEMMA PortFacts ==
  ASSUME PageIInv, NEW p \in Pages
  PROVE  /\ Unconnected(p) /\ Closing(p) /\ Delivered(p)
         /\ page[p] = None => by[p] = 0 /\ clients[p] = "" /\ end[p] = "none"
         /\ toPage[p] \in Seq(Frames) /\ toSw[p] \in Seq({"p", "d"})
         /\ Posted(toPage[p]) \in Nat
<1>1. /\ Unconnected(p) /\ Closing(p) /\ Delivered(p)
      /\ page[p] = None => by[p] = 0 /\ clients[p] = "" /\ end[p] = "none"
  BY PageFacts DEF Ports, Opened
<1>2. toPage[p] \in Seq(Frames) /\ toSw[p] \in Seq({"p", "d"})
  BY PageFacts DEF PageTypeOK, Frames
<1>3. Posted(toPage[p]) \in Nat  BY <1>2, PostedIsNat
<1> QED  BY <1>1, <1>2, <1>3

LEMMA PortNumbers ==
  ASSUME PageIInv, NEW p \in Pages
  PROVE  posted[p] \in 0..MaxPosts /\ got[p] \in 0..MaxPosts
  BY PageFacts DEF PageTypeOK

LEMMA PageStart == PageInit => PageIInv
<1> SUFFICES ASSUME PageInit PROVE PageIInv  OBVIOUS
<1>0. /\ enabled = Exts /\ minted = <<>> /\ tokens = {} /\ kills = 0
      /\ page = [p \in Pages |-> None] /\ clients = [p \in Pages |-> ""]
      /\ end = [p \in Pages |-> "none"] /\ bridge = [p \in Pages |-> "none"]
      /\ toPage = [p \in Pages |-> <<>>] /\ toSw = [p \in Pages |-> <<>>]
      /\ background = [x \in Exts |-> FALSE] /\ silent = [p \in Pages |-> FALSE]
  BY DEF PageInit
<1>1. by = [p \in Pages |-> 0] /\ posted = [p \in Pages |-> 0] /\ got = [p \in Pages |-> 0]
  BY DEF PageInit
<1>2. minted \in Seq(Tokens) /\ Len(minted) = 0
  <2>1. minted = <<>>  BY <1>0
  <2> QED  BY <2>1
<1>3. Len(minted) <= MaxTokens /\ tokens \subseteq 1..Len(minted) /\ kills \in 0..MaxKills
  <2>1. 0 <= MaxTokens /\ 0 \in 0..MaxKills  BY PagesAssumption
  <2> QED  BY <1>0, <1>2, <2>1
<1>4. /\ by \in [Pages -> 0..Len(minted)]
      /\ posted \in [Pages -> 0..MaxPosts] /\ got \in [Pages -> 0..MaxPosts]
  <2>1. 0 \in 0..MaxPosts /\ 0 \in 0..Len(minted)  BY <1>2, PagesAssumption
  <2> QED  BY <1>1, <2>1
<1>5. PageTypeOK
  <2>1. page \in [Pages -> {None, Gone} \cup [ext : Exts, path : Paths]]  BY <1>0
  <2>2. clients \in [Pages -> Exts \cup {""}]  BY <1>0
  <2>3. end \in [Pages -> {"none", "open", "closed"}]  BY <1>0
  <2>4. bridge \in [Pages -> {"none", "waking", "linked", "refused", "dead", "lost"}]
    BY <1>0
  <2>5. toPage \in [Pages -> Seq({"ok", "refused", "err", "m", "d"})]
    <3>1. <<>> \in Seq({"ok", "refused", "err", "m", "d"})  OBVIOUS
    <3> QED  BY <1>0, <3>1
  <2>6. toSw \in [Pages -> Seq({"p", "d"})]
    <3>1. <<>> \in Seq({"p", "d"})  OBVIOUS
    <3> QED  BY <1>0, <3>1
  <2>7. background \in [Exts -> BOOLEAN] /\ silent \in [Pages -> BOOLEAN]  BY <1>0
  <2>8. enabled \subseteq Exts  BY <1>0
  <2> QED  BY <1>2, <1>3, <1>4, <2>1, <2>2, <2>3, <2>4, <2>5, <2>6, <2>7, <2>8 DEF PageTypeOK
<1>6. TokensOpenTheirPage /\ Opened  BY DEF PageInit, TokensOpenTheirPage, Opened, Live
<1>7. ASSUME NEW p \in Pages PROVE Unconnected(p) /\ Closing(p) /\ Delivered(p)
  <2>1. /\ end[p] = "none" /\ bridge[p] = "none" /\ toPage[p] = <<>> /\ toSw[p] = <<>>
        /\ posted[p] = 0 /\ got[p] = 0
    BY DEF PageInit
  <2>2. Delivered(p)  BY <2>1, PostedEmpty DEF Delivered
  <2> QED  BY <2>1, <2>2 DEF Unconnected, Closing
<1> QED  BY <1>5, <1>6, <1>7 DEF PageIInv, Ports

\* what a step of the navigations leaves alone
LEMMA PortsUnmoved ==
  ASSUME PageIInv, UNCHANGED portVars, PageTypeOK', TokensOpenTheirPage', Opened',
         \A p \in Pages : page[p] = Gone \/ page[p] = None \/ page'[p] = page[p],
         \A p \in Pages : page[p] = Gone => page'[p] = Gone
  PROVE  PageIInv'
<1>1. ASSUME NEW p \in Pages PROVE (Unconnected(p) /\ Closing(p) /\ Delivered(p))'
  <2>1. Unconnected(p) /\ Closing(p) /\ Delivered(p) /\ (page[p] = None => end[p] = "none")
    BY PortFacts
  <2>2. (Unconnected(p) /\ Delivered(p))'  BY <2>1 DEF Unconnected, Delivered, Posted, portVars
  <2>3. Live(p)' /\ end[p] # "none" => Live(p)  BY <2>1 DEF Live
  <2>4. Closing(p)'  BY <2>1, <2>3 DEF Closing, Waits, portVars
  <2> QED  BY <2>2, <2>4
<1> QED  BY <1>1 DEF PageIInv, Ports

\* what a step of one page's port leaves alone
LEMMA PortStep ==
  ASSUME PageIInv, PageTypeOK', NEW p \in Pages, page[p] # None,
         UNCHANGED <<minted, by, clients>>,
         page' = page \/ page' = [page EXCEPT ![p] = Gone],
         \A q \in Pages \ {p} :
           /\ end'[q] = end[q] /\ bridge'[q] = bridge[q] /\ toPage'[q] = toPage[q]
           /\ toSw'[q] = toSw[q] /\ posted'[q] = posted[q] /\ got'[q] = got[q],
         Unconnected(p)', Closing(p)', Delivered(p)'
  PROVE  PageIInv'
<1>1. page \in [Pages -> {None, Gone} \cup [ext : Exts, path : Paths]]
  BY PageFacts DEF PageTypeOK
<1>2. \A q \in Pages : page'[q] = page[q] \/ (q = p /\ page'[q] = Gone)  BY <1>1
<1>3. None # Gone  BY DEF None, Gone
<1>4. TokensOpenTheirPage'
  BY <1>2, PageFacts DEF TokensOpenTheirPage, Live
<1>5. Opened'  BY <1>2, <1>3, PageFacts DEF Opened
<1>6. ASSUME NEW q \in Pages \ {p} PROVE (Unconnected(q) /\ Closing(q) /\ Delivered(q))'
  <2>1. Unconnected(q) /\ Closing(q) /\ Delivered(q)  BY PortFacts
  <2>2. page'[q] = page[q]  BY <1>2
  <2>3. /\ end'[q] = end[q] /\ bridge'[q] = bridge[q] /\ toPage'[q] = toPage[q]
        /\ toSw'[q] = toSw[q] /\ posted'[q] = posted[q] /\ got'[q] = got[q]
    OBVIOUS
  <2>4. Unconnected(q)'  BY <2>1, <2>3 DEF Unconnected
  <2>5. Closing(q)'  BY <2>1, <2>2, <2>3 DEF Closing, Live, Waits
  <2>6. Delivered(q)'  BY <2>1, <2>3 DEF Delivered, Posted
  <2> QED  BY <2>4, <2>5, <2>6
<1> QED  BY <1>4, <1>5, <1>6 DEF PageIInv, Ports

LEMMA NavigationTypes ==
  ASSUME PageIInv, UNCHANGED <<portVars, kills>>,
         enabled' \subseteq Exts, minted' \in Seq(Tokens), Len(minted') <= MaxTokens,
         tokens' \subseteq 1..Len(minted'),
         page' \in [Pages -> {None, Gone} \cup [ext : Exts, path : Paths]],
         clients' \in [Pages -> Exts \cup {""}], by' \in [Pages -> 0..Len(minted')],
         background' \in [Exts -> BOOLEAN]
  PROVE  PageTypeOK'
<1>1. PageTypeOK  BY PageFacts
<1>2. /\ end' = end /\ bridge' = bridge /\ toPage' = toPage /\ toSw' = toSw
      /\ posted' = posted /\ got' = got /\ silent' = silent /\ kills' = kills
  BY DEF portVars
<1> QED  BY <1>1, <1>2 DEF PageTypeOK

LEMMA SetEnabledKeeps ==
  ASSUME PageIInv, NEW x \in Exts, SetEnabled(x) PROVE PageIInv'
<1>1. UNCHANGED <<minted, tokens, page, by, clients, background, portVars, kills>>
  BY DEF SetEnabled
<1>2. PageTypeOK /\ TokensOpenTheirPage /\ Opened  BY PageFacts
<1>3. enabled' \subseteq Exts  BY <1>2 DEF SetEnabled, PageTypeOK
<1>4. PageTypeOK'
  <2>1. /\ minted \in Seq(Tokens) /\ Len(minted) <= MaxTokens /\ tokens \subseteq 1..Len(minted)
        /\ page \in [Pages -> {None, Gone} \cup [ext : Exts, path : Paths]]
        /\ clients \in [Pages -> Exts \cup {""}] /\ by \in [Pages -> 0..Len(minted)]
        /\ background \in [Exts -> BOOLEAN]
    BY <1>2 DEF PageTypeOK
  <2>2. /\ minted' = minted /\ tokens' = tokens /\ page' = page /\ clients' = clients
        /\ by' = by /\ background' = background /\ UNCHANGED <<portVars, kills>>
    BY <1>1
  <2> QED  BY <1>3, <2>1, <2>2, NavigationTypes
<1>5. TokensOpenTheirPage' /\ Opened'
  BY <1>1, <1>2 DEF TokensOpenTheirPage, Opened, Live, portVars
<1> QED  BY <1>1, <1>4, <1>5, PortsUnmoved DEF portVars

LEMMA IdleTerminateKeeps ==
  ASSUME PageIInv, NEW x \in Exts, IdleTerminate(x) PROVE PageIInv'
<1>1. UNCHANGED <<enabled, minted, tokens, page, by, clients, portVars, kills>>
  BY DEF IdleTerminate
<1>2. PageTypeOK /\ TokensOpenTheirPage /\ Opened  BY PageFacts
<1>3. background' \in [Exts -> BOOLEAN]  BY <1>2 DEF IdleTerminate, PageTypeOK
<1>4. PageTypeOK'
  <2>1. /\ minted \in Seq(Tokens) /\ Len(minted) <= MaxTokens /\ tokens \subseteq 1..Len(minted)
        /\ page \in [Pages -> {None, Gone} \cup [ext : Exts, path : Paths]]
        /\ clients \in [Pages -> Exts \cup {""}] /\ by \in [Pages -> 0..Len(minted)]
        /\ enabled \subseteq Exts
    BY <1>2 DEF PageTypeOK
  <2>2. /\ minted' = minted /\ tokens' = tokens /\ page' = page /\ clients' = clients
        /\ by' = by /\ enabled' = enabled /\ UNCHANGED <<portVars, kills>>
    BY <1>1
  <2> QED  BY <1>3, <2>1, <2>2, NavigationTypes
<1>5. TokensOpenTheirPage' /\ Opened'
  BY <1>1, <1>2 DEF TokensOpenTheirPage, Opened, Live, portVars
<1> QED  BY <1>1, <1>4, <1>5, PortsUnmoved DEF portVars

\* the tokens there ever were stay what they are, and where they lead
LEMMA MintedKeeps ==
  ASSUME PageIInv, minted' \in Seq(Tokens), Len(minted) <= Len(minted'), Len(minted') <= MaxTokens,
         \A k \in 1..Len(minted) :
           minted'[k].ext = minted[k].ext /\ minted'[k].path = minted[k].path,
         tokens' \subseteq 1..Len(minted'),
         UNCHANGED <<enabled, page, by, clients, background, portVars, kills>>
  PROVE  PageIInv'
<1>1. PageTypeOK /\ TokensOpenTheirPage /\ Opened /\ Len(minted) \in Nat  BY PageFacts
<1>2. /\ page \in [Pages -> {None, Gone} \cup [ext : Exts, path : Paths]]
      /\ clients \in [Pages -> Exts \cup {""}] /\ by \in [Pages -> 0..Len(minted)]
      /\ enabled \subseteq Exts /\ background \in [Exts -> BOOLEAN]
  BY <1>1 DEF PageTypeOK
<1>3. by \in [Pages -> 0..Len(minted)] /\ Len(minted) \in Nat /\ Len(minted') \in Nat
  <2>1. by \in [Pages -> 0..Len(minted)]  BY <1>2
  <2>2. Len(minted) \in Nat  BY <1>1
  <2> QED  BY <2>1, <2>2
<1>4. by \in [Pages -> 0..Len(minted')]  BY <1>3
<1>5. /\ page' = page /\ clients' = clients /\ by' = by /\ background' = background
      /\ enabled' = enabled /\ UNCHANGED <<portVars, kills>> /\ end' = end
  BY DEF portVars
<1>6. PageTypeOK'  BY <1>2, <1>4, <1>5, NavigationTypes
<1>7. TokensOpenTheirPage'
  <2>1. ASSUME NEW p \in Pages, Live(p), by[p] # 0
        PROVE  /\ minted'[by[p]].ext = minted[by[p]].ext
               /\ minted'[by[p]].path = minted[by[p]].path
    <3>1. by[p] \in 1..Len(minted)  BY <1>3, <2>1
    <3> QED  BY <3>1
  <2>2. \A p \in Pages : Live(p)' <=> Live(p)  BY <1>5 DEF Live
  <2>3. ASSUME NEW p \in Pages
        PROVE  /\ Live(p) /\ by[p] # 0 =>
                    page[p] = [ext |-> minted'[by[p]].ext, path |-> minted'[by[p]].path]
               /\ clients[p] # "" /\ Live(p) => page[p].ext = clients[p]
    <3>1. Live(p) /\ by[p] # 0 => page[p] = [ext |-> minted[by[p]].ext, path |-> minted[by[p]].path]
      BY <1>1 DEF TokensOpenTheirPage
    <3>2. clients[p] # "" /\ Live(p) => page[p].ext = clients[p]  BY <1>1 DEF TokensOpenTheirPage
    <3> QED  BY <2>1, <3>1, <3>2
  <2> QED  BY <1>5, <2>2, <2>3 DEF TokensOpenTheirPage
<1>8. Opened'  BY <1>1, <1>5 DEF Opened
<1> QED  BY <1>5, <1>6, <1>7, <1>8, PortsUnmoved

LEMMA MintKeeps ==
  ASSUME PageIInv, NEW x \in Exts, NEW path \in Paths, Mint(x, path) PROVE PageIInv'
<1> DEFINE t == [ext |-> x, path |-> path, fresh |-> TRUE]
<1>1. /\ minted \in Seq(Tokens) /\ Len(minted) \in Nat /\ tokens \subseteq 1..Len(minted)
  BY PageFacts DEF PageTypeOK
<1>2. t \in Tokens  BY DEF Tokens
<1>3. /\ minted' = Append(minted, t) /\ Len(minted) < MaxTokens
      /\ tokens' = tokens \cup {Len(minted')}
      /\ UNCHANGED <<enabled, page, by, clients, background, portVars, kills>>
  BY DEF Mint
<1> HIDE DEF t
<1>4. /\ minted' \in Seq(Tokens) /\ Len(minted') = Len(minted) + 1
      /\ \A k \in 1..Len(minted) : minted'[k] = minted[k]
  BY <1>1, <1>2, <1>3
<1>5. Len(minted) <= Len(minted') /\ Len(minted') <= MaxTokens  BY <1>1, <1>3, <1>4, PagesAssumption
<1>6. tokens' \subseteq 1..Len(minted')
  <2>1. 1..Len(minted) \subseteq 1..(Len(minted) + 1) /\ Len(minted) + 1 \in 1..(Len(minted) + 1)
    BY <1>1
  <2>2. tokens' = tokens \cup {Len(minted) + 1}  BY <1>3, <1>4
  <2> QED  BY <1>1, <1>4, <2>1, <2>2
<1> QED  BY <1>3, <1>4, <1>5, <1>6, MintedKeeps

LEMMA ExpireKeeps ==
  ASSUME PageIInv, NEW k \in 1..Len(minted), Expire(k) PROVE PageIInv'
<1> DEFINE t == [minted[k] EXCEPT !.fresh = FALSE]
<1>1. /\ minted \in Seq(Tokens) /\ Len(minted) \in Nat /\ tokens \subseteq 1..Len(minted)
      /\ Len(minted) <= MaxTokens /\ minted[k] \in Tokens
  BY PageFacts DEF PageTypeOK
<1>2. t \in Tokens /\ t.ext = minted[k].ext /\ t.path = minted[k].path  BY <1>1 DEF Tokens
<1>3. /\ minted' = [minted EXCEPT ![k] = t] /\ tokens' = tokens
      /\ UNCHANGED <<enabled, page, by, clients, background, portVars, kills>>
  BY DEF Expire
<1> HIDE DEF t
<1>4. /\ minted' \in Seq(Tokens) /\ Len(minted') = Len(minted)
      /\ minted'[k] = t /\ \A j \in 1..Len(minted) : j # k => minted'[j] = minted[j]
  BY <1>1, <1>2, <1>3
<1>5. \A j \in 1..Len(minted) :
        minted'[j].ext = minted[j].ext /\ minted'[j].path = minted[j].path
  BY <1>2, <1>4
<1>6. Len(minted) <= Len(minted') /\ Len(minted') <= MaxTokens /\ tokens' \subseteq 1..Len(minted')
  BY <1>1, <1>3, <1>4
<1> QED  BY <1>3, <1>4, <1>5, <1>6, MintedKeeps

LEMMA NavigateKeeps ==
  ASSUME PageIInv, NEW p \in Pages, NEW x \in Exts, NEW path \in Paths, NEW k \in 0..MaxTokens,
         NEW from, Navigate(p, x, path, k, from)
  PROVE  PageIInv'
<1>1. /\ PageTypeOK /\ TokensOpenTheirPage /\ Opened /\ Len(minted) \in Nat
      /\ by[p] = 0 /\ clients[p] = "" /\ end[p] = "none"
  BY PageFacts DEF Navigate, Opened
<1>2. /\ page \in [Pages -> {None, Gone} \cup [ext : Exts, path : Paths]]
      /\ clients \in [Pages -> Exts \cup {""}] /\ by \in [Pages -> 0..Len(minted)]
      /\ enabled \subseteq Exts /\ background \in [Exts -> BOOLEAN]
      /\ minted \in Seq(Tokens) /\ Len(minted) <= MaxTokens /\ tokens \subseteq 1..Len(minted)
  BY <1>1 DEF PageTypeOK
<1>3. PICK granted \in BOOLEAN :
        /\ granted = (Good(k, x, path) \/ (from \in Pages /\ clients[from] = x))
        /\ page' = [page EXCEPT ![p] = IF granted THEN [ext |-> x, path |-> path] ELSE @]
        /\ clients' = [clients EXCEPT ![p] = IF granted THEN x ELSE @]
        /\ by' = [by EXCEPT ![p] = IF granted /\ Good(k, x, path) THEN k ELSE 0]
  BY DEF Navigate
<1>4. /\ page[p] = None /\ tokens' \subseteq tokens
      /\ enabled' = enabled /\ minted' = minted /\ background' = background
      /\ UNCHANGED <<portVars, kills>> /\ end' = end
  BY DEF Navigate, Checked, portVars
<1>5. /\ Good(k, x, path) => minted[k].ext = x /\ minted[k].path = path
      /\ Good(k, x, path) => k \in 1..Len(minted)
  BY <1>2 DEF Good
<1>6. [ext |-> x, path |-> path] \in [ext : Exts, path : Paths]  OBVIOUS
<1>7. [ext |-> x, path |-> path] # None /\ [ext |-> x, path |-> path] # Gone
  BY NamesAssumption DEF None, Gone
<1>8. PageTypeOK'
  <2>1. page' \in [Pages -> {None, Gone} \cup [ext : Exts, path : Paths]]  BY <1>2, <1>3, <1>6
  <2>2. clients' \in [Pages -> Exts \cup {""}]  BY <1>2, <1>3
  <2>3. by' \in [Pages -> 0..Len(minted)]
    <3>1. CASE granted /\ Good(k, x, path)
      <4>1. k \in 0..Len(minted)
        <5>1. k \in 1..Len(minted)  BY <1>5, <3>1
        <5> QED  BY <5>1
      <4> QED  BY <1>2, <1>3, <3>1, <4>1
    <3>2. CASE ~(granted /\ Good(k, x, path))
      <4>1. 0 \in 0..Len(minted)
        <5>1. Len(minted) \in Nat  BY <1>1
        <5> QED  BY <5>1
      <4> QED  BY <1>2, <1>3, <3>2, <4>1
    <3> QED  BY <3>1, <3>2
  <2>4. tokens' \subseteq 1..Len(minted)  BY <1>2, <1>4
  <2> QED  BY <1>2, <1>4, <2>1, <2>2, <2>3, <2>4, NavigationTypes
<1>9. \A q \in Pages \ {p} : page'[q] = page[q] /\ clients'[q] = clients[q] /\ by'[q] = by[q]
  BY <1>2, <1>3
<1>10. CASE granted
  <2>1. page'[p] = [ext |-> x, path |-> path] /\ clients'[p] = x  BY <1>2, <1>3, <1>10
  <2>2. by'[p] = IF Good(k, x, path) THEN k ELSE 0  BY <1>2, <1>3, <1>10
  <2>3. page'[p].ext = x
    <3>1. page'[p] = [ext |-> x, path |-> path]  BY <2>1
    <3> QED  BY <3>1
  <2>4. by'[p] # 0 => page'[p] = [ext |-> minted[by'[p]].ext, path |-> minted[by'[p]].path]
    BY <1>5, <2>1, <2>2
  <2>5. TokensOpenTheirPage'
    <3>1. ASSUME NEW q \in Pages
          PROVE  /\ Live(q)' /\ by'[q] # 0 =>
                      page'[q] = [ext |-> minted'[by'[q]].ext, path |-> minted'[by'[q]].path]
                 /\ clients'[q] # "" /\ Live(q)' => page'[q].ext = clients'[q]
      <4>1. CASE q = p  BY <1>4, <2>1, <2>3, <2>4, <4>1
      <4>2. CASE q # p  BY <1>1, <1>4, <1>9, <4>2 DEF TokensOpenTheirPage, Live
      <4> QED  BY <4>1, <4>2
    <3> QED  BY <3>1 DEF TokensOpenTheirPage
  <2>6. Opened'
    <3>1. ASSUME NEW q \in Pages, page'[q] = None
          PROVE  by'[q] = 0 /\ clients'[q] = "" /\ end'[q] = "none"
      <4>1. q # p  BY <1>7, <2>1, <3>1
      <4> QED  BY <1>1, <1>4, <1>9, <3>1, <4>1 DEF Opened
    <3> QED  BY <3>1 DEF Opened
  <2>7. \A q \in Pages : page[q] = Gone \/ page[q] = None \/ page'[q] = page[q]  BY <1>4, <1>9
  <2>8. \A q \in Pages : page[q] = Gone => page'[q] = Gone
    <3>1. None # Gone  BY DEF None, Gone
    <3> QED  BY <1>4, <1>9, <3>1
  <2> QED  BY <1>4, <1>8, <2>5, <2>6, <2>7, <2>8, PortsUnmoved
<1>11. CASE ~granted
  <2>1. page'[p] = page[p] /\ clients'[p] = clients[p] /\ by'[p] = 0  BY <1>2, <1>3, <1>11
  <2>2. \A q \in Pages : page'[q] = page[q] /\ clients'[q] = clients[q] /\ by'[q] = by[q]
    BY <1>1, <1>9, <2>1
  <2>3. TokensOpenTheirPage' /\ Opened'
    BY <1>1, <1>4, <2>2 DEF TokensOpenTheirPage, Opened, Live
  <2> QED  BY <1>4, <1>8, <2>2, <2>3, PortsUnmoved
<1> QED  BY <1>10, <1>11

\* the worker ends: every port it had is lost
LEMMA KillKeeps == ASSUME PageIInv, Kill PROVE PageIInv'
<1>1. PageTypeOK /\ TokensOpenTheirPage /\ Opened  BY PageFacts
<1>2. /\ clients' = [q \in Pages |-> ""] /\ background' = [x \in Exts |-> FALSE]
      /\ bridge' = [q \in Pages |-> IF bridge[q] = "none" THEN "none" ELSE "lost"]
      /\ toSw' = [q \in Pages |-> <<>>] /\ tokens' = {}
  BY DEF Kill
<1>3. UNCHANGED <<enabled, minted, page, by, end, toPage, posted, got, silent>>  BY DEF Kill
<1>4. kills' \in 0..MaxKills
  <2>1. kills \in 0..MaxKills  BY <1>1 DEF PageTypeOK
  <2>2. kills < MaxKills /\ kills' = kills + 1  BY DEF Kill
  <2> QED  BY <2>1, <2>2, PagesAssumption
<1>5. PageTypeOK'
  <2>1. clients' \in [Pages -> Exts \cup {""}] /\ background' \in [Exts -> BOOLEAN]  BY <1>2
  <2>2. bridge' \in [Pages -> {"none", "waking", "linked", "refused", "dead", "lost"}]  BY <1>2
  <2>3. toSw' \in [Pages -> Seq({"p", "d"})]
    <3>1. <<>> \in Seq({"p", "d"})  OBVIOUS
    <3> QED  BY <1>2, <3>1
  <2>4. tokens' \subseteq 1..Len(minted')  BY <1>2
  <2> QED  BY <1>1, <1>3, <1>4, <2>1, <2>2, <2>3, <2>4 DEF PageTypeOK
<1>6. TokensOpenTheirPage' /\ Opened'
  BY <1>1, <1>2, <1>3 DEF TokensOpenTheirPage, Opened, Live
<1>7. ASSUME NEW q \in Pages PROVE (Unconnected(q) /\ Closing(q) /\ Delivered(q))'
  <2>1. Unconnected(q) /\ Closing(q) /\ Delivered(q)  BY PortFacts
  <2>2. toSw'[q] = <<>> /\ bridge'[q] = (IF bridge[q] = "none" THEN "none" ELSE "lost")  BY <1>2
  <2>3. Unconnected(q)'  BY <1>3, <2>1, <2>2 DEF Unconnected
  <2>4. ~Waits(toSw'[q], "d")  BY <2>2, WaitsEmpty
  <2>5. bridge'[q] \notin {"waking", "linked", "dead"}  BY <2>2
  <2>6. Closing(q)'  BY <2>4, <2>5 DEF Closing
  <2>7. Delivered(q)'  BY <1>3, <2>1 DEF Delivered, Posted
  <2> QED  BY <2>3, <2>6, <2>7
<1> QED  BY <1>5, <1>6, <1>7 DEF PageIInv, Ports

\* the page whose port it is, is there
LEMMA PortIsLive ==
  ASSUME PageIInv, NEW p \in Pages, end[p] # "none" \/ bridge[p] # "none" \/ toPage[p] # <<>> \/ toSw[p] # <<>>
  PROVE  page[p] # None
<1>1. Unconnected(p) /\ (page[p] = None => end[p] = "none")  BY PortFacts
<1> QED  BY <1>1 DEF Unconnected

LEMMA PortTypes ==
  ASSUME PageIInv, UNCHANGED <<enabled, minted, tokens, by, clients, kills>>,
         page' \in [Pages -> {None, Gone} \cup [ext : Exts, path : Paths]],
         end' \in [Pages -> {"none", "open", "closed"}],
         bridge' \in [Pages -> {"none", "waking", "linked", "refused", "dead", "lost"}],
         toPage' \in [Pages -> Seq(Frames)], toSw' \in [Pages -> Seq({"p", "d"})],
         background' \in [Exts -> BOOLEAN], silent' \in [Pages -> BOOLEAN],
         posted' \in [Pages -> 0..MaxPosts], got' \in [Pages -> 0..MaxPosts]
  PROVE  PageTypeOK'
<1>1. PageTypeOK  BY PageFacts
<1> QED  BY <1>1 DEF PageTypeOK, Frames

LEMMA TypesAre ==
  ASSUME PageIInv
  PROVE  /\ page \in [Pages -> {None, Gone} \cup [ext : Exts, path : Paths]]
         /\ end \in [Pages -> {"none", "open", "closed"}]
         /\ bridge \in [Pages -> {"none", "waking", "linked", "refused", "dead", "lost"}]
         /\ toPage \in [Pages -> Seq(Frames)] /\ toSw \in [Pages -> Seq({"p", "d"})]
         /\ background \in [Exts -> BOOLEAN] /\ silent \in [Pages -> BOOLEAN]
         /\ posted \in [Pages -> 0..MaxPosts] /\ got \in [Pages -> 0..MaxPosts]
<1>1. PageTypeOK  BY PageFacts
<1> QED  BY <1>1 DEF PageTypeOK, Frames

\* a frame more, or one less
LEMMA AppendTypes ==
  ASSUME NEW T, NEW chan \in [Pages -> Seq(T)], NEW p \in Pages, NEW f \in T
  PROVE  [chan EXCEPT ![p] = Append(@, f)] \in [Pages -> Seq(T)]
<1>1. Append(chan[p], f) \in Seq(T)  OBVIOUS
<1> QED  BY <1>1

LEMMA TailTypes ==
  ASSUME NEW T, NEW chan \in [Pages -> Seq(T)], NEW p \in Pages, chan[p] # <<>>
  PROVE  [chan EXCEPT ![p] = Tail(@)] \in [Pages -> Seq(T)]
<1>1. Tail(chan[p]) \in Seq(T)  BY HeadTailProperties
<1> QED  BY <1>1

LEMMA LeaveKeeps == ASSUME PageIInv, NEW p \in Pages, Leave(p) PROVE PageIInv'
<1>1. UNCHANGED <<enabled, minted, tokens, by, clients, bridge, toPage, toSw, background,
                  posted, got, silent, kills>>
  BY DEF Leave
<1>2. /\ page' = [page EXCEPT ![p] = Gone] /\ page[p] # None
      /\ end' = [end EXCEPT ![p] = IF end[p] = "open" THEN "closed" ELSE end[p]]
  BY DEF Leave, Live
<1>3. page' \in [Pages -> {None, Gone} \cup [ext : Exts, path : Paths]]  BY <1>2, TypesAre
<1>4. end' \in [Pages -> {"none", "open", "closed"}]  BY <1>2, TypesAre
<1>5. PageTypeOK'  BY <1>1, <1>3, <1>4, TypesAre, PortTypes
<1>6. Unconnected(p) /\ Closing(p) /\ Delivered(p)  BY PortFacts
<1>7. page'[p] = Gone /\ end'[p] = (IF end[p] = "open" THEN "closed" ELSE end[p])
  BY <1>2, TypesAre
<1>8. ~Live(p)' /\ end'[p] # "open"  BY <1>7 DEF Live
<1>9. Unconnected(p)'  BY <1>1, <1>6, <1>7 DEF Unconnected
<1>10. Closing(p)'  BY <1>1, <1>6, <1>8 DEF Closing, Waits
<1>11. Delivered(p)'  BY <1>1, <1>6, <1>8 DEF Delivered, Posted
<1>12. \A q \in Pages \ {p} : end'[q] = end[q]  BY <1>2, TypesAre
<1>13. \A q \in Pages \ {p} :
         /\ end'[q] = end[q] /\ bridge'[q] = bridge[q] /\ toPage'[q] = toPage[q]
         /\ toSw'[q] = toSw[q] /\ posted'[q] = posted[q] /\ got'[q] = got[q]
  BY <1>1, <1>12
<1> QED  BY <1>1, <1>2, <1>5, <1>9, <1>10, <1>11, <1>13, PortStep

LEMMA ConnectKeeps == ASSUME PageIInv, NEW p \in Pages, Connect(p) PROVE PageIInv'
<1>1. UNCHANGED <<enabled, minted, tokens, page, by, clients, toSw, background, posted, got,
                  silent, kills>>
  BY DEF Connect
<1>2. page[p] # None /\ end[p] = "none" /\ end' = [end EXCEPT ![p] = "open"]
  BY DEF Connect, Live
<1>3. Unconnected(p) /\ Closing(p) /\ Delivered(p)  BY PortFacts
<1>4. toPage[p] = <<>> /\ toSw[p] = <<>> /\ posted[p] = 0 /\ got[p] = 0
  BY <1>2, <1>3 DEF Unconnected
<1>5. end' \in [Pages -> {"none", "open", "closed"}] /\ end'[p] = "open"
  BY <1>2, TypesAre
<1>6. ~Waits(toSw'[p], "d")  BY <1>1, <1>4, WaitsEmpty
<1>7. CASE bridge' = [bridge EXCEPT ![p] = "waking"] /\ toPage' = toPage
  <2>1. bridge' \in [Pages -> {"none", "waking", "linked", "refused", "dead", "lost"}]
    BY <1>7, TypesAre
  <2>2. bridge'[p] = "waking"  BY <1>7, TypesAre
  <2>3. PageTypeOK'  BY <1>1, <1>5, <1>7, <2>1, TypesAre, PortTypes
  <2>4. Unconnected(p)'  BY <1>1, <1>4, <1>5, <1>7, <2>2 DEF Unconnected
  <2>5. Closing(p)'  BY <1>5, <1>6, <2>2 DEF Closing
  <2>6. Delivered(p)'
    <3>1. Posted(toPage'[p]) = 0  BY <1>4, <1>7, PostedEmpty
    <3>2. posted'[p] = 0 /\ got'[p] = 0  BY <1>1, <1>4
    <3> QED  BY <3>1, <3>2 DEF Delivered
  <2>7. \A q \in Pages \ {p} : end'[q] = end[q] /\ bridge'[q] = bridge[q]
    BY <1>2, <1>7, TypesAre
  <2>8. \A q \in Pages \ {p} :
          /\ end'[q] = end[q] /\ bridge'[q] = bridge[q] /\ toPage'[q] = toPage[q]
          /\ toSw'[q] = toSw[q] /\ posted'[q] = posted[q] /\ got'[q] = got[q]
    BY <1>1, <1>7, <2>7
  <2> QED  BY <1>1, <1>2, <2>3, <2>4, <2>5, <2>6, <2>8, PortStep
<1>8. CASE bridge' = [bridge EXCEPT ![p] = "refused"] /\ Tells(p, "refused")
  <2>1. bridge' \in [Pages -> {"none", "waking", "linked", "refused", "dead", "lost"}]
    BY <1>8, TypesAre
  <2>2. bridge'[p] = "refused"  BY <1>8, TypesAre
  <2>3. toPage' = [toPage EXCEPT ![p] = Append(@, "refused")]  BY <1>8 DEF Tells
  <2>4. "refused" \in Frames /\ "refused" # "m"  BY DEF Frames
  <2>5. toPage' \in [Pages -> Seq(Frames)]  BY <2>3, <2>4, TypesAre, AppendTypes
  <2>6. toPage'[p] = Append(toPage[p], "refused")  BY <2>3, TypesAre
  <2>7. PageTypeOK'  BY <1>1, <1>5, <2>1, <2>5, TypesAre, PortTypes
  <2>8. Unconnected(p)'  BY <1>5, <2>2 DEF Unconnected
  <2>9. Closing(p)'  BY <1>5, <1>6, <2>2 DEF Closing
  <2>10. Delivered(p)'
    <3>1. toPage[p] \in Seq(Frames)  BY PortFacts
    <3>2. Posted(toPage'[p]) = Posted(toPage[p]) + 0  BY <2>4, <2>6, <3>1, PostedAppend
    <3>3. Posted(toPage[p]) = 0  BY <1>4, PostedEmpty
    <3>4. posted'[p] = 0 /\ got'[p] = 0  BY <1>1, <1>4
    <3> QED  BY <3>2, <3>3, <3>4 DEF Delivered
  <2>11. \A q \in Pages \ {p} : end'[q] = end[q] /\ bridge'[q] = bridge[q]
    BY <1>2, <1>8, TypesAre
  <2>12. \A q \in Pages \ {p} : toPage'[q] = toPage[q]  BY <2>3, TypesAre
  <2>13. \A q \in Pages \ {p} :
           /\ end'[q] = end[q] /\ bridge'[q] = bridge[q] /\ toPage'[q] = toPage[q]
           /\ toSw'[q] = toSw[q] /\ posted'[q] = posted[q] /\ got'[q] = got[q]
    BY <1>1, <2>11, <2>12
  <2> QED  BY <1>1, <1>2, <2>7, <2>8, <2>9, <2>10, <2>13, PortStep
<1> QED  BY <1>7, <1>8 DEF Connect

\* the worker's side of one port moves on and tells the page so, with a frame
LEMMA BridgeKeeps ==
  ASSUME PageIInv, NEW p \in Pages, NEW b \in {"linked", "dead"}, NEW f \in {"ok", "err", "d"},
         bridge[p] \in {"waking", "linked"}, bridge' = [bridge EXCEPT ![p] = b], Tells(p, f),
         f = "ok" <=> b = "linked", b = "linked" => bridge[p] = "waking",
         UNCHANGED <<enabled, minted, tokens, page, by, clients, end, posted, got, kills>>,
         toSw' \in [Pages -> Seq({"p", "d"})],
         \A q \in Pages \ {p} : toSw'[q] = toSw[q],
         toSw'[p] = toSw[p] \/ (end[p] # "open" /\ b = "dead"),
         background' \in [Exts -> BOOLEAN], silent' \in [Pages -> BOOLEAN]
  PROVE  PageIInv'
<1>1. Unconnected(p) /\ Closing(p) /\ Delivered(p) /\ toPage[p] \in Seq(Frames)
  BY PortFacts
<1>2. end[p] # "none" /\ page[p] # None  BY <1>1, PortIsLive DEF Unconnected
<1>3. toPage' = [toPage EXCEPT ![p] = Append(@, f)]  BY DEF Tells
<1>4. f \in Frames /\ f # "m"  BY DEF Frames
<1>5. toPage' \in [Pages -> Seq(Frames)]  BY <1>3, <1>4, TypesAre, AppendTypes
<1>6. toPage'[p] = Append(toPage[p], f)  BY <1>3, TypesAre
<1>7. bridge' \in [Pages -> {"none", "waking", "linked", "refused", "dead", "lost"}]
  BY TypesAre
<1>8. bridge'[p] = b  BY TypesAre
<1>9. PageTypeOK'  BY <1>5, <1>7, TypesAre, PortTypes
<1>10. Unconnected(p)'  BY <1>2, <1>8 DEF Unconnected
<1>11. \A g : Waits(toPage'[p], g) <=> Waits(toPage[p], g) \/ f = g
  BY <1>1, <1>4, <1>6, WaitsAppend
<1>12. Closing(p)'
  <2>1. b = "linked" /\ Live(p)' /\ end'[p] = "closed" => Waits(toSw'[p], "d")
    <3>1. Live(p)' <=> Live(p)  BY DEF Live
    <3> QED  BY <1>1, <3>1 DEF Closing
  <2>2. end'[p] = "open" => ~Waits(toSw'[p], "d")  BY <1>1 DEF Closing
  <2>3. b = "linked" => ~Waits(toPage'[p], "d") /\ ~Waits(toPage'[p], "err")
    <3>1. ASSUME b = "linked" PROVE toPage[p] = <<>>  BY <1>1, <3>1 DEF Unconnected
    <3> QED  BY <1>11, <3>1, WaitsEmpty
  <2>4. b = "dead" => Waits(toPage'[p], "d") \/ Waits(toPage'[p], "err")  BY <1>11
  <2> QED  BY <1>8, <2>1, <2>2, <2>3, <2>4 DEF Closing
<1>13. Delivered(p)'
  <2>1. Posted(toPage'[p]) = Posted(toPage[p]) + 0  BY <1>1, <1>4, <1>6, PostedAppend
  <2>2. Posted(toPage[p]) \in Nat  BY PortFacts
  <2>3. Posted(toPage'[p]) = Posted(toPage[p])  BY <2>1, <2>2
  <2> QED  BY <1>1, <2>3 DEF Delivered
<1>14. \A q \in Pages \ {p} : bridge'[q] = bridge[q] /\ toPage'[q] = toPage[q]
  BY <1>3, TypesAre
<1>15. \A q \in Pages \ {p} :
         /\ end'[q] = end[q] /\ bridge'[q] = bridge[q] /\ toPage'[q] = toPage[q]
         /\ toSw'[q] = toSw[q] /\ posted'[q] = posted[q] /\ got'[q] = got[q]
  BY <1>14
<1> QED  BY <1>2, <1>9, <1>10, <1>12, <1>13, <1>15, PortStep

LEMMA LinkKeeps == ASSUME PageIInv, NEW p \in Pages, Link(p) PROVE PageIInv'
<1>1. /\ bridge[p] = "waking" /\ bridge' = [bridge EXCEPT ![p] = "linked"] /\ Tells(p, "ok")
      /\ UNCHANGED <<enabled, minted, tokens, page, by, clients, end, toSw, posted, got, kills>>
  BY DEF Link
<1>2. silent' \in [Pages -> BOOLEAN]
  <2>1. silent' = silent \/ silent' = [silent EXCEPT ![p] = TRUE]  BY DEF Link
  <2> QED  BY <2>1, TypesAre
<1>3. background' \in [Exts -> BOOLEAN]
  <2>1. background' = [background EXCEPT ![clients[p]] = TRUE]  BY DEF Link
  <2> QED  BY <2>1, TypesAre
<1>4. toSw' \in [Pages -> Seq({"p", "d"})] /\ toSw' = toSw  BY <1>1, TypesAre
<1> QED  BY <1>1, <1>2, <1>3, <1>4, BridgeKeeps

LEMMA WakeFailsKeeps == ASSUME PageIInv, NEW p \in Pages, WakeFails(p) PROVE PageIInv'
<1>1. /\ bridge[p] = "waking" /\ bridge' = [bridge EXCEPT ![p] = "dead"] /\ Tells(p, "err")
      /\ UNCHANGED <<enabled, minted, tokens, page, by, clients, end, toSw, background, posted,
                     got, silent, kills>>
  BY DEF WakeFails
<1>2. /\ toSw' \in [Pages -> Seq({"p", "d"})] /\ toSw' = toSw
      /\ background' \in [Exts -> BOOLEAN] /\ silent' \in [Pages -> BOOLEAN]
  BY <1>1, TypesAre
<1> QED  BY <1>1, <1>2, BridgeKeeps

LEMMA DisconnectsKeeps == ASSUME PageIInv, NEW p \in Pages, Disconnects(p) PROVE PageIInv'
<1>1. /\ bridge[p] = "linked" /\ bridge' = [bridge EXCEPT ![p] = "dead"] /\ Tells(p, "d")
      /\ UNCHANGED <<enabled, minted, tokens, page, by, clients, end, toSw, background, posted,
                     got, silent, kills>>
  BY DEF Disconnects
<1>2. /\ toSw' \in [Pages -> Seq({"p", "d"})] /\ toSw' = toSw
      /\ background' \in [Exts -> BOOLEAN] /\ silent' \in [Pages -> BOOLEAN]
  BY <1>1, TypesAre
<1> QED  BY <1>1, <1>2, BridgeKeeps

LEMMA PagePostsKeeps == ASSUME PageIInv, NEW p \in Pages, PagePosts(p) PROVE PageIInv'
<1>1. UNCHANGED <<enabled, minted, tokens, page, by, clients, end, bridge, toPage, background,
                  posted, got, silent, kills>>
  BY DEF PagePosts
<1>2. end[p] = "open" /\ toSw' = [toSw EXCEPT ![p] = Append(@, "p")]
  BY DEF PagePosts, Sends
<1>3. toSw' \in [Pages -> Seq({"p", "d"})]  BY <1>2, TypesAre, AppendTypes
<1>4. toSw'[p] = Append(toSw[p], "p")  BY <1>2, TypesAre
<1>5. Unconnected(p) /\ Closing(p) /\ Delivered(p) /\ toSw[p] \in Seq({"p", "d"})
  BY PortFacts
<1>6. ~Waits(toSw'[p], "d")
  <2>1. Waits(toSw'[p], "d") <=> Waits(toSw[p], "d") \/ "p" = "d"  BY <1>4, <1>5, WaitsAppend
  <2> QED  BY <1>2, <1>5, <2>1 DEF Closing
<1>7. PageTypeOK'  BY <1>1, <1>3, TypesAre, PortTypes
<1>8. Unconnected(p)'  BY <1>1, <1>2, <1>5 DEF Unconnected
<1>9. Closing(p)'  BY <1>1, <1>2, <1>5, <1>6 DEF Closing, Waits
<1>10. Delivered(p)'  BY <1>1, <1>5 DEF Delivered, Posted
<1>11. page[p] # None  BY <1>2, PortIsLive
<1>12. \A q \in Pages \ {p} : toSw'[q] = toSw[q]  BY <1>2, TypesAre
<1>13. \A q \in Pages \ {p} :
         /\ end'[q] = end[q] /\ bridge'[q] = bridge[q] /\ toPage'[q] = toPage[q]
         /\ toSw'[q] = toSw[q] /\ posted'[q] = posted[q] /\ got'[q] = got[q]
  BY <1>1, <1>12
<1> QED  BY <1>1, <1>7, <1>8, <1>9, <1>10, <1>11, <1>13, PortStep

LEMMA PageEndsKeeps == ASSUME PageIInv, NEW p \in Pages, PageEnds(p) PROVE PageIInv'
<1>1. UNCHANGED <<enabled, minted, tokens, page, by, clients, bridge, toPage, background,
                  posted, got, silent, kills>>
  BY DEF PageEnds
<1>2. /\ end[p] = "open" /\ end' = [end EXCEPT ![p] = "closed"]
      /\ toSw' = [toSw EXCEPT ![p] = Append(@, "d")]
  BY DEF PageEnds, Sends
<1>3. /\ toSw' \in [Pages -> Seq({"p", "d"})] /\ end' \in [Pages -> {"none", "open", "closed"}]
  BY <1>2, TypesAre, AppendTypes
<1>4. toSw'[p] = Append(toSw[p], "d") /\ end'[p] = "closed"  BY <1>2, TypesAre
<1>5. Unconnected(p) /\ Closing(p) /\ Delivered(p) /\ toSw[p] \in Seq({"p", "d"})
  BY PortFacts
<1>6. Waits(toSw'[p], "d")
  <2>1. Waits(toSw'[p], "d") <=> Waits(toSw[p], "d") \/ "d" = "d"  BY <1>4, <1>5, WaitsAppend
  <2> QED  BY <2>1
<1>7. PageTypeOK'  BY <1>1, <1>3, TypesAre, PortTypes
<1>8. Unconnected(p)'  BY <1>1, <1>2, <1>4, <1>5 DEF Unconnected
<1>9. Closing(p)'  BY <1>1, <1>4, <1>5, <1>6 DEF Closing, Waits
<1>10. Delivered(p)'  BY <1>1, <1>4, <1>5 DEF Delivered, Posted
<1>11. page[p] # None  BY <1>2, PortIsLive
<1>12. \A q \in Pages \ {p} : toSw'[q] = toSw[q] /\ end'[q] = end[q]  BY <1>2, TypesAre
<1>13. \A q \in Pages \ {p} :
         /\ end'[q] = end[q] /\ bridge'[q] = bridge[q] /\ toPage'[q] = toPage[q]
         /\ toSw'[q] = toSw[q] /\ posted'[q] = posted[q] /\ got'[q] = got[q]
  BY <1>1, <1>12
<1> QED  BY <1>1, <1>7, <1>8, <1>9, <1>10, <1>11, <1>13, PortStep

LEMMA PostsKeeps == ASSUME PageIInv, NEW p \in Pages, Posts(p) PROVE PageIInv'
<1>1. UNCHANGED <<enabled, minted, tokens, page, by, clients, end, bridge, toSw, background,
                  got, silent, kills>>
  BY DEF Posts
<1>2. /\ bridge[p] = "linked" /\ posted[p] < MaxPosts
      /\ posted' = [posted EXCEPT ![p] = posted[p] + 1]
      /\ toPage' = [toPage EXCEPT ![p] = Append(@, "m")]
  BY DEF Posts, Tells
<1>3. "m" \in Frames  BY DEF Frames
<1>4. toPage' \in [Pages -> Seq(Frames)]  BY <1>2, <1>3, TypesAre, AppendTypes
<1>5. toPage'[p] = Append(toPage[p], "m")  BY <1>2, TypesAre
<1>6. posted[p] \in 0..MaxPosts /\ got[p] \in 0..MaxPosts  BY PortNumbers
<1>7. posted' \in [Pages -> 0..MaxPosts] /\ posted'[p] = posted[p] + 1
  <2>1. posted[p] + 1 \in 0..MaxPosts  BY <1>2, <1>6, PagesAssumption
  <2>2. posted \in [Pages -> 0..MaxPosts]  BY TypesAre
  <2>3. posted' = [posted EXCEPT ![p] = posted[p] + 1]  BY <1>2
  <2> QED  BY <2>1, <2>2, <2>3
<1>8. Unconnected(p) /\ Closing(p) /\ Delivered(p) /\ toPage[p] \in Seq(Frames)
  BY PortFacts
<1>9. PageTypeOK'  BY <1>1, <1>4, <1>7, TypesAre, PortTypes
<1>10. Unconnected(p)'  BY <1>1, <1>2, <1>8 DEF Unconnected
<1>11. \A g : Waits(toPage'[p], g) <=> Waits(toPage[p], g) \/ "m" = g
  BY <1>3, <1>5, <1>8, WaitsAppend
<1>12. Closing(p)'
  <2>1. Live(p)' <=> Live(p)  BY <1>1 DEF Live
  <2>2. /\ bridge'[p] = "linked" /\ end'[p] = end[p] /\ toSw'[p] = toSw[p]
        /\ ~Waits(toPage'[p], "d") /\ ~Waits(toPage'[p], "err")
    BY <1>1, <1>2, <1>8, <1>11 DEF Closing
  <2>3. (end[p] = "open" => ~Waits(toSw[p], "d")) /\ (Live(p) /\ end[p] = "closed" => Waits(toSw[p], "d"))
    BY <1>2, <1>8 DEF Closing
  <2> QED  BY <2>1, <2>2, <2>3 DEF Closing
<1>13. Delivered(p)'
  <2>1. Posted(toPage'[p]) = Posted(toPage[p]) + 1  BY <1>3, <1>5, <1>8, PostedAppend
  <2>2. Posted(toPage[p]) \in Nat  BY PortFacts
  <2>3. got'[p] = got[p] /\ end'[p] = end[p]  BY <1>1
  <2>4. /\ got[p] + Posted(toPage[p]) <= posted[p]
        /\ end[p] = "open" => posted[p] = got[p] + Posted(toPage[p])
    BY <1>8 DEF Delivered
  <2>5. got[p] + (Posted(toPage[p]) + 1) <= posted[p] + 1  BY <1>6, <2>2, <2>4
  <2>6. end[p] = "open" => posted[p] + 1 = got[p] + (Posted(toPage[p]) + 1)  BY <1>6, <2>2, <2>4
  <2> QED  BY <1>7, <2>1, <2>3, <2>5, <2>6 DEF Delivered
<1>14. page[p] # None  BY <1>2, PortIsLive
<1>15. \A q \in Pages \ {p} : toPage'[q] = toPage[q] /\ posted'[q] = posted[q]  BY <1>2, TypesAre
<1>16. \A q \in Pages \ {p} :
         /\ end'[q] = end[q] /\ bridge'[q] = bridge[q] /\ toPage'[q] = toPage[q]
         /\ toSw'[q] = toSw[q] /\ posted'[q] = posted[q] /\ got'[q] = got[q]
  BY <1>1, <1>15
<1> QED  BY <1>1, <1>9, <1>10, <1>12, <1>13, <1>14, <1>16, PortStep

\* a frame leaves the channel to the worker
LEMMA HearsKeeps == ASSUME PageIInv, NEW p \in Pages, Hears(p) PROVE PageIInv'
<1>1. UNCHANGED <<enabled, minted, tokens, page, by, clients, end, background, posted, got,
                  silent, kills>>
  BY DEF Hears
<1>2. /\ toSw[p] # <<>> /\ bridge[p] \in {"linked", "dead"}
      /\ toSw' = [toSw EXCEPT ![p] = Tail(@)]
  BY DEF Hears
<1>3. toSw' \in [Pages -> Seq({"p", "d"})]  BY <1>2, TypesAre, TailTypes
<1>4. toSw'[p] = Tail(toSw[p])  BY <1>2, TypesAre
<1>5. Unconnected(p) /\ Closing(p) /\ Delivered(p) /\ toSw[p] \in Seq({"p", "d"})
  BY PortFacts
<1>6. \A f : Waits(toSw[p], f) <=> Waits(toSw'[p], f) \/ Head(toSw[p]) = f
  BY <1>2, <1>4, <1>5, WaitsTail
<1>7. page[p] # None /\ end[p] # "none"  BY <1>2, <1>5, PortIsLive DEF Unconnected
<1>8. \A q \in Pages \ {p} : toSw'[q] = toSw[q]  BY <1>2, TypesAre
<1>9. background' \in [Exts -> BOOLEAN] /\ silent' \in [Pages -> BOOLEAN]  BY <1>1, TypesAre
<1>10. CASE bridge[p] = "linked" /\ Head(toSw[p]) = "d"
  <2>1. end[p] # "open"  BY <1>5, <1>6, <1>10 DEF Closing
  <2>2. bridge' = [bridge EXCEPT ![p] = "dead"] /\ (toPage' = toPage \/ Tells(p, "d"))
    BY <1>10 DEF Hears
  <2>3. CASE Tells(p, "d")
    BY <1>1, <1>3, <1>8, <1>9, <1>10, <2>1, <2>2, <2>3, BridgeKeeps
  <2>4. CASE toPage' = toPage
    <3>1. bridge' \in [Pages -> {"none", "waking", "linked", "refused", "dead", "lost"}]
      BY <2>2, TypesAre
    <3>2. bridge'[p] = "dead" /\ \A q \in Pages \ {p} : bridge'[q] = bridge[q]
      BY <2>2, TypesAre
    <3>3. PageTypeOK'  BY <1>1, <1>3, <2>4, <3>1, TypesAre, PortTypes
    <3>4. Unconnected(p)'  BY <1>1, <1>7, <3>2 DEF Unconnected
    <3>5. Closing(p)'  BY <1>1, <2>1, <3>2 DEF Closing
    <3>6. Delivered(p)'  BY <1>1, <1>5, <2>4 DEF Delivered, Posted
    <3>7. \A q \in Pages \ {p} :
            /\ end'[q] = end[q] /\ bridge'[q] = bridge[q] /\ toPage'[q] = toPage[q]
            /\ toSw'[q] = toSw[q] /\ posted'[q] = posted[q] /\ got'[q] = got[q]
      BY <1>1, <1>8, <2>4, <3>2
    <3> QED  BY <1>1, <1>7, <3>3, <3>4, <3>5, <3>6, <3>7, PortStep
  <2> QED  BY <2>2, <2>3, <2>4
<1>11. CASE ~(bridge[p] = "linked" /\ Head(toSw[p]) = "d")
  <2>1. bridge' = bridge /\ toPage' = toPage  BY <1>11 DEF Hears
  <2>2. PageTypeOK'  BY <1>1, <1>3, <2>1, TypesAre, PortTypes
  <2>3. Unconnected(p)'  BY <1>1, <1>2, <1>5, <1>7, <2>1 DEF Unconnected
  <2>4. Closing(p)'
    <3>1. Live(p)' <=> Live(p)  BY <1>1 DEF Live
    <3>2. ASSUME bridge[p] = "linked", Live(p), end[p] = "closed" PROVE Waits(toSw'[p], "d")
      <4>1. Waits(toSw[p], "d")  BY <1>5, <3>2 DEF Closing
      <4> QED  BY <1>6, <1>11, <3>2, <4>1
    <3>3. end[p] = "open" => ~Waits(toSw'[p], "d")  BY <1>5, <1>6 DEF Closing
    <3>4. /\ bridge[p] = "linked" => ~Waits(toPage[p], "d") /\ ~Waits(toPage[p], "err")
          /\ bridge[p] = "dead" /\ end[p] = "open" => Waits(toPage[p], "d") \/ Waits(toPage[p], "err")
      BY <1>5 DEF Closing
    <3>5. bridge'[p] = bridge[p] /\ toPage'[p] = toPage[p] /\ end'[p] = end[p] /\ bridge[p] # "waking"
      BY <1>1, <1>2, <2>1
    <3> QED  BY <3>1, <3>2, <3>3, <3>4, <3>5 DEF Closing
  <2>5. Delivered(p)'  BY <1>1, <1>5, <2>1 DEF Delivered, Posted
  <2>6. \A q \in Pages \ {p} :
          /\ end'[q] = end[q] /\ bridge'[q] = bridge[q] /\ toPage'[q] = toPage[q]
          /\ toSw'[q] = toSw[q] /\ posted'[q] = posted[q] /\ got'[q] = got[q]
    BY <1>1, <1>8, <2>1
  <2> QED  BY <1>1, <1>7, <2>2, <2>3, <2>4, <2>5, <2>6, PortStep
<1> QED  BY <1>10, <1>11

\* a frame leaves the channel to the page
LEMMA PageHearsKeeps == ASSUME PageIInv, NEW p \in Pages, PageHears(p) PROVE PageIInv'
<1>1. UNCHANGED <<enabled, minted, tokens, page, by, clients, bridge, toSw, background, posted,
                  silent, kills>>
  BY DEF PageHears
<1>2. PICK f : f = Head(toPage[p])  OBVIOUS
<1>3. /\ toPage[p] # <<>> /\ toPage' = [toPage EXCEPT ![p] = Tail(@)]
      /\ end' = [end EXCEPT ![p] = IF end[p] = "open" /\ f \in {"d", "err"} THEN "closed" ELSE end[p]]
  BY <1>2 DEF PageHears
<1>4. got' = [got EXCEPT ![p] = IF f = "m" /\ end[p] = "open" THEN got[p] + 1 ELSE got[p]]
  BY <1>2 DEF PageHears
<1>5. toPage' \in [Pages -> Seq(Frames)] /\ end' \in [Pages -> {"none", "open", "closed"}]
  BY <1>3, TypesAre, TailTypes
<1>6. /\ toPage'[p] = Tail(toPage[p])
      /\ end'[p] = (IF end[p] = "open" /\ f \in {"d", "err"} THEN "closed" ELSE end[p])
  BY <1>3, TypesAre
<1>7. Unconnected(p) /\ Closing(p) /\ Delivered(p) /\ toPage[p] \in Seq(Frames)
  BY PortFacts
<1>8. \A g : Waits(toPage[p], g) <=> Waits(toPage'[p], g) \/ f = g
  BY <1>2, <1>3, <1>6, <1>7, WaitsTail
<1>9. page[p] # None /\ end[p] # "none" /\ bridge[p] \notin {"none", "waking"}
  BY <1>3, <1>7, PortIsLive DEF Unconnected
<1>10. /\ Posted(toPage[p]) = Posted(toPage'[p]) + (IF f = "m" THEN 1 ELSE 0)
       /\ Posted(toPage'[p]) \in Nat
  <2>1. Tail(toPage[p]) \in Seq(Frames)  BY <1>3, <1>7, HeadTailProperties
  <2>2. Posted(toPage'[p]) \in Nat  BY <1>6, <2>1, PostedIsNat
  <2> QED  BY <1>2, <1>3, <1>6, <1>7, <2>2, PostedTail
<1>11. posted[p] \in 0..MaxPosts /\ got[p] \in 0..MaxPosts  BY PortNumbers
<1>12. /\ got[p] + Posted(toPage[p]) <= posted[p]
       /\ end[p] = "open" => posted[p] = got[p] + Posted(toPage[p])
  BY <1>7 DEF Delivered
<1>13. PICK n \in 0..MaxPosts :
         /\ n = (IF f = "m" /\ end[p] = "open" THEN got[p] + 1 ELSE got[p])
         /\ n + Posted(toPage'[p]) <= posted[p]
         /\ end[p] = "open" => posted[p] = n + Posted(toPage'[p])
  <2>1. CASE f = "m" /\ end[p] = "open"
    <3>1. got[p] + 1 \in 0..MaxPosts  BY <1>10, <1>11, <1>12, <2>1, PagesAssumption
    <3>2. got[p] + 1 + Posted(toPage'[p]) = posted[p]  BY <1>10, <1>11, <1>12, <2>1
    <3> QED  BY <1>10, <1>11, <2>1, <3>1, <3>2
  <2>2. CASE f = "m" /\ end[p] # "open"
    <3>1. got[p] + Posted(toPage'[p]) <= posted[p]  BY <1>10, <1>11, <1>12, <2>2
    <3> QED  BY <1>11, <2>2, <3>1
  <2>3. CASE f # "m"
    <3>1. Posted(toPage'[p]) = Posted(toPage[p])  BY <1>10, <2>3
    <3> QED  BY <1>11, <1>12, <2>3, <3>1
  <2> QED  BY <2>1, <2>2, <2>3
<1>14. got' \in [Pages -> 0..MaxPosts] /\ got'[p] = n
  <2>1. got' = [got EXCEPT ![p] = n]  BY <1>4, <1>13
  <2>2. got \in [Pages -> 0..MaxPosts]  BY TypesAre
  <2> QED  BY <1>13, <2>1, <2>2
<1>15. PageTypeOK'  BY <1>1, <1>5, <1>14, TypesAre, PortTypes
<1>16. Unconnected(p)'  BY <1>1, <1>6, <1>7, <1>9 DEF Unconnected
<1>17. Closing(p)'
  <2>1. Live(p)' <=> Live(p)  BY <1>1 DEF Live
  <2>2. bridge'[p] = bridge[p] /\ toSw'[p] = toSw[p] /\ bridge[p] # "waking"  BY <1>1, <1>9
  <2>3. ASSUME bridge[p] = "linked", Live(p), end'[p] = "closed" PROVE Waits(toSw[p], "d")
    <3>1. ~Waits(toPage[p], "d") /\ ~Waits(toPage[p], "err")  BY <1>7, <2>3 DEF Closing
    <3>2. f \notin {"d", "err"}  BY <1>8, <3>1
    <3>3. end[p] = "closed"  BY <1>6, <2>3, <3>2
    <3> QED  BY <1>7, <2>3, <3>3 DEF Closing
  <2>4. end'[p] = "open" => ~Waits(toSw[p], "d")  BY <1>6, <1>7 DEF Closing
  <2>5. bridge[p] = "linked" => ~Waits(toPage'[p], "d") /\ ~Waits(toPage'[p], "err")
    BY <1>7, <1>8 DEF Closing
  <2>6. ASSUME bridge[p] = "dead", end'[p] = "open"
        PROVE  Waits(toPage'[p], "d") \/ Waits(toPage'[p], "err")
    <3>1. end[p] = "open" /\ f \notin {"d", "err"}  BY <1>6, <2>6
    <3>2. Waits(toPage[p], "d") \/ Waits(toPage[p], "err")  BY <1>7, <2>6, <3>1 DEF Closing
    <3> QED  BY <1>8, <3>1, <3>2
  <2> QED  BY <2>1, <2>2, <2>3, <2>4, <2>5, <2>6 DEF Closing
<1>18. Delivered(p)'
  <2>1. posted'[p] = posted[p] /\ (end'[p] = "open" => end[p] = "open")  BY <1>1, <1>6
  <2> QED  BY <1>13, <1>14, <2>1 DEF Delivered
<1>19. \A q \in Pages \ {p} : toPage'[q] = toPage[q] /\ end'[q] = end[q]  BY <1>3, TypesAre
<1>20. \A q \in Pages \ {p} : got'[q] = got[q]  BY <1>4, TypesAre
<1>21. \A q \in Pages \ {p} :
         /\ end'[q] = end[q] /\ bridge'[q] = bridge[q] /\ toPage'[q] = toPage[q]
         /\ toSw'[q] = toSw[q] /\ posted'[q] = posted[q] /\ got'[q] = got[q]
  BY <1>1, <1>19, <1>20
<1> QED  BY <1>1, <1>9, <1>15, <1>16, <1>17, <1>18, <1>21, PortStep

LEMMA PageStutters == ASSUME PageIInv, UNCHANGED pageVars PROVE PageIInv'
<1>1. /\ enabled' = enabled /\ minted' = minted /\ tokens' = tokens /\ page' = page /\ by' = by
      /\ clients' = clients /\ background' = background /\ kills' = kills /\ end' = end
      /\ UNCHANGED portVars
  BY DEF pageVars, portVars
<1>2. PageTypeOK'
  <2>1. PageTypeOK  BY PageFacts
  <2> QED  BY <2>1, <1>1 DEF PageTypeOK, portVars
<1>3. TokensOpenTheirPage' /\ Opened'
  BY <1>1, PageFacts DEF TokensOpenTheirPage, Opened, Live
<1> QED  BY <1>1, <1>2, <1>3, PortsUnmoved

LEMMA PageStep == PageIInv /\ [PageNext]_pageVars => PageIInv'
<1> SUFFICES ASSUME PageIInv, [PageNext]_pageVars PROVE PageIInv'  OBVIOUS
<1>1. ASSUME NEW x \in Exts,
             SetEnabled(x) \/ IdleTerminate(x) \/ \E path \in Paths : Mint(x, path)
      PROVE  PageIInv'
  BY <1>1, SetEnabledKeeps, IdleTerminateKeeps, MintKeeps
<1>2. ASSUME NEW k \in 1..Len(minted), Expire(k) PROVE PageIInv'  BY <1>2, ExpireKeeps
<1>3. ASSUME NEW p \in Pages, NEW x \in Exts, NEW path \in Paths, NEW k \in 0..MaxTokens,
             NEW from, Navigate(p, x, path, k, from)
      PROVE  PageIInv'
  BY <1>3, NavigateKeeps
<1>4. ASSUME NEW p \in Pages,
             Leave(p) \/ Connect(p) \/ Link(p) \/ WakeFails(p) \/ PagePosts(p) \/ PageEnds(p)
      PROVE  PageIInv'
  BY <1>4, LeaveKeeps, ConnectKeeps, LinkKeeps, WakeFailsKeeps, PagePostsKeeps, PageEndsKeeps
<1>5. ASSUME NEW p \in Pages, Posts(p) \/ Disconnects(p) \/ Hears(p) \/ PageHears(p)
      PROVE  PageIInv'
  BY <1>5, PostsKeeps, DisconnectsKeeps, HearsKeeps, PageHearsKeeps
<1>6. CASE Kill  BY <1>6, KillKeeps
<1>7. CASE UNCHANGED pageVars  BY <1>7, PageStutters
<1> QED  BY <1>1, <1>2, <1>3, <1>4, <1>5, <1>6, <1>7 DEF PageNext

\* For any extensions and pages, and any number of tokens, frames and ends of the worker:
\* the inductive invariant holds.
THEOREM PagesInductive == PageSpec => []PageIInv
  BY PageStart, PageStep, PTL DEF PageSpec

\* serve.ts and pagebridge.ts, #40 and #560, for any extensions and pages: a token opens the
\* page it was minted for and no other, a registered client is a page of its extension, the
\* two ends of a port agree once nothing is under way, and an open page has got, or will,
\* what was posted to it.
THEOREM PagesAgree == PageSpec => []PagesAndPortsAgree
<1>1. ASSUME PageIInv PROVE PagesAndPortsAgree
  <2>1. PageTypeOK /\ TokensOpenTheirPage  BY <1>1, PageFacts
  <2>2. PortEndsAgree
    <3>1. ASSUME NEW p \in Pages, Live(p), toPage[p] = <<>>, toSw[p] = <<>>,
                 bridge[p] \in {"linked", "dead"}
          PROVE  (end[p] = "open") <=> (bridge[p] = "linked")
      <4>1. Unconnected(p) /\ Closing(p)  BY <1>1, PortFacts
      <4>2. \A f : ~Waits(toPage[p], f) /\ ~Waits(toSw[p], f)  BY <3>1, WaitsEmpty
      <4>3. end[p] \in {"none", "open", "closed"}  BY <1>1, TypesAre
      <4>4. end[p] \in {"open", "closed"}  BY <3>1, <4>1, <4>3 DEF Unconnected
      <4>5. CASE bridge[p] = "linked"  BY <3>1, <4>1, <4>2, <4>4, <4>5 DEF Closing
      <4>6. CASE bridge[p] = "dead"  BY <3>1, <4>1, <4>2, <4>6 DEF Closing
      <4> QED  BY <3>1, <4>5, <4>6
    <3> QED  BY <3>1 DEF PortEndsAgree
  <2>3. PostsArrive
    <3>1. \A p \in Pages : Delivered(p)  BY <1>1, PortFacts
    <3> QED  BY <3>1 DEF PostsArrive, Delivered
  <2> QED  BY <2>1, <2>2, <2>3 DEF PagesAndPortsAgree
<1> QED  BY <1>1, PagesInductive, PTL

--------------------------------------------------------------------------------
(* A storage area.  StorageIsKept is not inductive: when a put ends well, the *)
(* record gets what that put carries, which is what the memory has only if no *)
(* later write of the key is on its way; and while calls are under way the    *)
(* count says nothing.  So: after each put of a key, itself or a later one    *)
(* carries what the memory has, each put is the one its call waits for, and   *)
(* the count stays exact until a call has changed something.                  *)

AreaValues == [by : AreaCalls \cup {0}, size : Sizes \cup {0}]
AreaItems == [key : Keys, size : Sizes \cup {0}]
AreaPuts == [by : AreaCalls, key : Keys, val : AreaValues]
AccessSteps == {"free", "opening", "going", "putting", "done", "thrown", "lost"}
Accesses ==
  [op : {"none", "set", "remove"}, items : Seq(AreaItems), wrote : SUBSET (Keys \X AreaValues),
   step : AccessSteps]
AreaTypeOK ==
  /\ mem \in [Keys -> AreaValues] /\ records \in [Keys -> AreaValues]
  /\ accesses \in [AreaCalls -> Accesses] /\ putting \in Seq(AreaPuts)
  /\ unwritten \subseteq Keys /\ doubt \in BOOLEAN

\* Each put under way is the one put of a call that waits for it, with the item it is for.
PutsAreWaitedFor ==
  /\ \A i \in 1..Len(putting) : accesses[putting[i].by].step = "putting"
  /\ \A i, j \in 1..Len(putting) : putting[i].by = putting[j].by => i = j
  /\ \A c \in AreaCalls : accesses[c].step = "putting" => accesses[c].items # <<>>

\* After each put of a key, itself or a later one carries what the memory has.
LastPutIsMemory ==
  \A i \in 1..Len(putting) : \E j \in i..Len(putting) :
    putting[j].key = putting[i].key /\ putting[j].val = mem[putting[i].key]

KeptInStore(k) ==
  mem[k] # records[k] =>
    k \in unwritten \/ \E i \in 1..Len(putting) : putting[i].key = k /\ putting[i].val = mem[k]
MemoryIsKept == \A k \in Keys : KeptInStore(k)

\* The count is exact also while calls are under way that changed nothing yet.
CountIsExact ==
  ~doubt /\ (\A c \in AreaCalls : Under(c) => accesses[c].wrote = {}) => bytesInUse = Bytes(mem)

AreaIInv == AreaTypeOK /\ PutsAreWaitedFor /\ LastPutIsMemory /\ MemoryIsKept /\ CountIsExact

LEMMA AreaFacts ==
  ASSUME AreaIInv
  PROVE  /\ AreaTypeOK /\ PutsAreWaitedFor /\ LastPutIsMemory /\ MemoryIsKept /\ CountIsExact
         /\ mem \in [Keys -> AreaValues] /\ records \in [Keys -> AreaValues]
         /\ accesses \in [AreaCalls -> Accesses] /\ putting \in Seq(AreaPuts)
         /\ unwritten \subseteq Keys /\ doubt \in BOOLEAN
BY DEF AreaIInv, AreaTypeOK

LEMMA AccessParts ==
  ASSUME NEW a \in Accesses
  PROVE  /\ a.op \in {"none", "set", "remove"} /\ a.items \in Seq(AreaItems)
         /\ a.wrote \subseteq Keys \X AreaValues
         /\ a.step \in AccessSteps
BY DEF Accesses

\* what an action makes of one call
LEMMA Throwing ==
  ASSUME NEW a \in Accesses
  PROVE  /\ [a EXCEPT !.step = "thrown", !.items = <<>>] \in Accesses
         /\ [a EXCEPT !.step = "thrown", !.items = <<>>].step = "thrown"
         /\ [a EXCEPT !.step = "thrown", !.items = <<>>].items = <<>>
<1> DEFINE none == <<>>
<1>1. none \in Seq(AreaItems)  OBVIOUS
<1> HIDE DEF none
<1>2. /\ [a EXCEPT !.step = "thrown", !.items = none] \in Accesses
      /\ [a EXCEPT !.step = "thrown", !.items = none].step = "thrown"
      /\ [a EXCEPT !.step = "thrown", !.items = none].items = none
  BY <1>1 DEF Accesses, AccessSteps
<1> QED  BY <1>2 DEF none

LEMMA Putting ==
  ASSUME NEW a \in Accesses, NEW w \in SUBSET (Keys \X AreaValues)
  PROVE  /\ [a EXCEPT !.step = "putting", !.wrote = w] \in Accesses
         /\ [a EXCEPT !.step = "putting", !.wrote = w].step = "putting"
         /\ [a EXCEPT !.step = "putting", !.wrote = w].items = a.items
         /\ [a EXCEPT !.step = "putting", !.wrote = w].wrote = w
BY DEF Accesses, AccessSteps

\* one call changes, the others stay
OnlyChanges(c, a) == accesses' = [accesses EXCEPT ![c] = a]
LEMMA Changed ==
  ASSUME accesses \in [AreaCalls -> Accesses], NEW c \in AreaCalls, NEW a \in Accesses, OnlyChanges(c, a)
  PROVE  /\ accesses' \in [AreaCalls -> Accesses] /\ accesses'[c] = a
         /\ \A b \in AreaCalls : b # c => accesses'[b] = accesses[b]
BY DEF OnlyChanges

LEMMA ThrowsFacts ==
  ASSUME AreaIInv, NEW c \in AreaCalls, Throws(c)
  PROVE  /\ accesses' \in [AreaCalls -> Accesses]
         /\ accesses'[c].step = "thrown" /\ accesses'[c].items = <<>>
         /\ \A b \in AreaCalls : b # c => accesses'[b] = accesses[b]
         /\ doubt' \in BOOLEAN /\ (~doubt' => ~doubt /\ accesses[c].wrote = {})
<1>1. accesses \in [AreaCalls -> Accesses] /\ accesses[c] \in Accesses /\ doubt \in BOOLEAN
  BY AreaFacts
<1> DEFINE a == [accesses[c] EXCEPT !.step = "thrown", !.items = <<>>]
<1>3. a \in Accesses /\ a.step = "thrown" /\ a.items = <<>>  BY <1>1, Throwing
<1>4. OnlyChanges(c, a)  BY <1>1 DEF Throws, OnlyChanges
<1> HIDE DEF a
<1>5. accesses' \in [AreaCalls -> Accesses] /\ accesses'[c] = a
      /\ \A b \in AreaCalls : b # c => accesses'[b] = accesses[b]
  BY <1>1, <1>3, <1>4, Changed
<1>6. doubt' = (doubt \/ accesses[c].wrote # {})  BY DEF Throws
<1> QED  BY <1>1, <1>3, <1>5, <1>6

\* a call that is not putting changes nothing about the puts under way
LEMMA PutsStay ==
  ASSUME AreaIInv, NEW c \in AreaCalls, putting' = putting, mem' = mem, records' = records,
         unwritten' = unwritten, accesses[c].step # "putting", accesses'[c].step # "putting",
         \A b \in AreaCalls : b # c => accesses'[b] = accesses[b]
  PROVE  PutsAreWaitedFor' /\ LastPutIsMemory' /\ MemoryIsKept'
<1>1. \A i \in 1..Len(putting) : putting[i].by \in AreaCalls /\ putting[i].by # c
  <2> TAKE i \in 1..Len(putting)
  <2>1. putting[i] \in AreaPuts  BY AreaFacts
  <2>2. putting[i].by \in AreaCalls  BY <2>1 DEF AreaPuts
  <2> QED  BY <2>2, AreaFacts DEF PutsAreWaitedFor
<1>2. PutsAreWaitedFor'  BY <1>1, AreaFacts DEF PutsAreWaitedFor
<1>3. LastPutIsMemory'  BY AreaFacts DEF LastPutIsMemory
<1>4. MemoryIsKept'  BY AreaFacts DEF MemoryIsKept, KeptInStore
<1> QED  BY <1>2, <1>3, <1>4

\* the count stays exact over a step of a call that changes no memory and, once the call
\* is over, tells whether it changed any
LEMMA CountStays ==
  ASSUME AreaIInv, NEW c \in AreaCalls, mem' = mem, bytesInUse' = bytesInUse,
         \A b \in AreaCalls : b # c => accesses'[b] = accesses[b],
         ~doubt' => ~doubt,
         ~doubt' /\ (Under(c)' => accesses'[c].wrote = {}) /\ Under(c) => accesses[c].wrote = {}
  PROVE  CountIsExact'
<1> SUFFICES ASSUME ~doubt', \A b \in AreaCalls : Under(b)' => accesses'[b].wrote = {}
             PROVE  bytesInUse' = Bytes(mem)'
  BY DEF CountIsExact
<1>1. \A b \in AreaCalls : b # c => (Under(b)' <=> Under(b))  BY DEF Under
<1>2. \A b \in AreaCalls : Under(b) => accesses[b].wrote = {}  BY <1>1
<1>3. bytesInUse = Bytes(mem)  BY <1>2, AreaFacts DEF CountIsExact
<1>4. Bytes(mem)' = Bytes(mem)  OBVIOUS
<1> QED  BY <1>3, <1>4

LEMMA AreaStart == AreaInit => AreaIInv
<1> SUFFICES ASSUME AreaInit PROVE AreaIInv  OBVIOUS
<1>1. /\ mem = [k \in Keys |-> Absent] /\ records = mem /\ bytesInUse = Bytes(records)
      /\ accesses = [c \in AreaCalls |-> Idle] /\ putting = <<>> /\ unwritten = {} /\ doubt = FALSE
  BY DEF AreaInit
<1>2. Absent \in AreaValues  BY DEF Absent, AreaValues
<1> DEFINE none == <<>>
<1>3. none \in Seq(AreaItems) /\ putting \in Seq(AreaPuts) /\ Len(putting) = 0  BY <1>1
<1> HIDE DEF none
<1>4. [op |-> "none", items |-> none, step |-> "free", wrote |-> {}] \in Accesses
  BY <1>3 DEF Accesses, AccessSteps
<1>5. Idle \in Accesses /\ Idle.step = "free" BY <1>4 DEF Idle, none
<1>6. AreaTypeOK  BY <1>1, <1>2, <1>3, <1>5 DEF AreaTypeOK
<1>7. PutsAreWaitedFor /\ LastPutIsMemory /\ MemoryIsKept
  BY <1>1, <1>3, <1>5 DEF PutsAreWaitedFor, LastPutIsMemory, MemoryIsKept, KeptInStore
<1>9. CountIsExact  BY <1>1 DEF CountIsExact
<1> QED  BY <1>6, <1>7, <1>9 DEF AreaIInv

\* a call begins
LEMMA Asking ==
  ASSUME NEW items \in Seq(AreaItems)
  PROVE  /\ [Idle EXCEPT !.op = "set", !.items = items, !.step = "opening"] \in Accesses
         /\ [Idle EXCEPT !.op = "set", !.items = items, !.step = "opening"].step = "opening"
         /\ [Idle EXCEPT !.op = "remove", !.step = "opening", !.items = items] \in Accesses
         /\ [Idle EXCEPT !.op = "remove", !.step = "opening", !.items = items].step = "opening"
BY DEF Accesses, AccessSteps, Idle

LEMMA ListsAreSeqs == ASSUME NEW S, NEW l \in Lists(S) PROVE l \in Seq(S)
BY DEF Lists

LEMMA KeysAreItems ==
  ASSUME NEW l \in Lists(Keys)
  PROVE  [i \in 1..Len(l) |-> [key |-> l[i], size |-> 0]] \in Seq(AreaItems)
<1>1. l \in Seq(Keys) /\ Len(l) \in Nat /\ \A i \in 1..Len(l) : l[i] \in Keys  BY ListsAreSeqs
<1>2. \A i \in 1..Len(l) : [key |-> l[i], size |-> 0] \in AreaItems  BY <1>1 DEF AreaItems
<1> QED  BY <1>1, <1>2

LEMMA AsksKeeps ==
  ASSUME AreaIInv, NEW c \in AreaCalls, Asks(c)
  PROVE  AreaIInv'
<1>1. /\ accesses[c].step = "free" /\ mem' = mem /\ records' = records /\ putting' = putting
      /\ bytesInUse' = bytesInUse /\ unwritten' = unwritten /\ doubt' = doubt
  BY DEF Asks
<1>2. \E a \in Accesses : a.step = "opening" /\ OnlyChanges(c, a)
  <2>1. CASE \E items \in Lists(Items) :
               accesses' = [accesses EXCEPT ![c] = [Idle EXCEPT !.op = "set", !.items = items,
                                                        !.step = "opening"]]
    <3>1. PICK items \in Lists(Items) :
            accesses' = [accesses EXCEPT ![c] = [Idle EXCEPT !.op = "set", !.items = items,
                                                        !.step = "opening"]]  BY <2>1
    <3>2. items \in Seq(Items)  BY ListsAreSeqs
    <3>3. Items \subseteq AreaItems  BY DEF Items, AreaItems
    <3>4. items \in Seq(AreaItems)  BY <3>2, <3>3
    <3> QED  BY <3>1, <3>4, Asking DEF OnlyChanges
  <2>2. CASE \E keys \in Lists(Keys) :
          accesses' = [accesses EXCEPT ![c] = [Idle EXCEPT !.op = "remove", !.step = "opening",
            !.items = [i \in 1..Len(keys) |-> [key |-> keys[i], size |-> 0]]]]
    <3>1. PICK keys \in Lists(Keys) :
          accesses' = [accesses EXCEPT ![c] = [Idle EXCEPT !.op = "remove", !.step = "opening",
            !.items = [i \in 1..Len(keys) |-> [key |-> keys[i], size |-> 0]]]]  BY <2>2
    <3> DEFINE t == [i \in 1..Len(keys) |-> [key |-> keys[i], size |-> 0]]
    <3>2. t \in Seq(AreaItems)  BY KeysAreItems
    <3>3. accesses' = [accesses EXCEPT ![c] = [Idle EXCEPT !.op = "remove", !.step = "opening",
                                                        !.items = t]]  BY <3>1
    <3> HIDE DEF t
    <3> QED  BY <3>2, <3>3, Asking DEF OnlyChanges
  <2> QED  BY <2>1, <2>2 DEF Asks
<1>3. PICK a \in Accesses : a.step = "opening" /\ OnlyChanges(c, a)  BY <1>2
<1>4. accesses' \in [AreaCalls -> Accesses] /\ accesses'[c] = a
      /\ \A b \in AreaCalls : b # c => accesses'[b] = accesses[b]
  BY <1>3, Changed, AreaFacts
<1>5. AreaTypeOK'  BY <1>1, <1>4, AreaFacts DEF AreaTypeOK
<1>6. PutsAreWaitedFor' /\ LastPutIsMemory' /\ MemoryIsKept'  BY <1>1, <1>3, <1>4, PutsStay
<1>7. CountIsExact'  BY <1>1, <1>3, <1>4, CountStays DEF Under
<1> QED  BY <1>5, <1>6, <1>7 DEF AreaIInv

\* the database is there, or the call is refused
LEMMA DbOpenedKeeps ==
  ASSUME AreaIInv, NEW c \in AreaCalls, DbOpened(c)
  PROVE  AreaIInv'
<1>1. /\ accesses[c].step = "opening" /\ mem' = mem /\ records' = records /\ putting' = putting
      /\ bytesInUse' = bytesInUse /\ unwritten' = unwritten
  BY DEF DbOpened
<1>2. /\ accesses' \in [AreaCalls -> Accesses]
      /\ \A b \in AreaCalls : b # c => accesses'[b] = accesses[b]
      /\ accesses'[c].step # "putting"
      /\ doubt' \in BOOLEAN /\ (~doubt' => ~doubt)
      /\ ~doubt' /\ (Under(c)' => accesses'[c].wrote = {}) /\ Under(c) => accesses[c].wrote = {}
  <2>1. CASE Throws(c)  BY <2>1, ThrowsFacts
  <2>2. CASE accesses' = [accesses EXCEPT ![c].step = "going"] /\ doubt' = doubt
    <3>1. accesses \in [AreaCalls -> Accesses] /\ accesses[c] \in Accesses /\ doubt \in BOOLEAN
      BY AreaFacts
    <3> DEFINE a == [accesses[c] EXCEPT !.step = "going"]
    <3>2. OnlyChanges(c, a)  BY <2>2, <3>1 DEF OnlyChanges
    <3>3. a \in Accesses /\ a.step = "going"  BY <3>1 DEF Accesses, AccessSteps
    <3> HIDE DEF a
    <3>4. accesses' \in [AreaCalls -> Accesses] /\ accesses'[c] = a
          /\ \A b \in AreaCalls : b # c => accesses'[b] = accesses[b]
      BY <3>1, <3>2, <3>3, Changed
    <3>5. ~Under(c)  BY <1>1 DEF Under
    <3> QED  BY <2>2, <3>1, <3>3, <3>4, <3>5
  <2> QED  BY <2>1, <2>2 DEF DbOpened
<1>5. AreaTypeOK'  BY <1>1, <1>2, AreaFacts DEF AreaTypeOK
<1>6. PutsAreWaitedFor' /\ LastPutIsMemory' /\ MemoryIsKept'  BY <1>1, <1>2, PutsStay
<1>7. CountIsExact'  BY <1>1, <1>2, CountStays
<1> QED  BY <1>5, <1>6, <1>7 DEF AreaIInv

LEMMA AppendParts ==
  ASSUME NEW S, NEW s \in Seq(S), NEW e \in S
  PROVE  /\ Append(s, e) \in Seq(S) /\ Len(s) \in Nat /\ Len(Append(s, e)) = Len(s) + 1
         /\ \A i \in 1..Len(s) : Append(s, e)[i] = s[i]
         /\ Append(s, e)[Len(s) + 1] = e
OBVIOUS

LEMMA TailParts ==
  ASSUME NEW S, NEW s \in Seq(S), s # <<>>
  PROVE  /\ Tail(s) \in Seq(S) /\ Len(s) \in Nat \ {0} /\ Len(Tail(s)) = Len(s) - 1
         /\ Head(s) = s[1] /\ Head(s) \in S
         /\ \A i \in 1..Len(Tail(s)) : Tail(s)[i] = s[i + 1]
OBVIOUS

\* a call changes the memory of a key and makes its put
LEMMA WritesKeeps ==
  ASSUME AreaIInv, NEW c \in AreaCalls, NEW key \in Keys, NEW val \in AreaValues,
         accesses[c].step = "going", accesses[c].items # <<>>, Writes(c, key, val),
         records' = records, unwritten' = unwritten, doubt' = doubt
  PROVE  AreaIInv'
<1> DEFINE p == [by |-> c, key |-> key, val |-> val]
           w == accesses[c].wrote \cup {<<key, val>>}
           a == [accesses[c] EXCEPT !.step = "putting", !.wrote = w]
<1>0. /\ accesses \in [AreaCalls -> Accesses] /\ accesses[c] \in Accesses
      /\ putting \in Seq(AreaPuts) /\ mem \in [Keys -> AreaValues]
  BY AreaFacts
<1>1. p \in AreaPuts /\ p.by = c /\ p.key = key /\ p.val = val  BY DEF AreaPuts
<1>2. OnlyChanges(c, a)  BY <1>0 DEF Writes, OnlyChanges
<1>3. w \in SUBSET (Keys \X AreaValues) /\ w # {}
  <2>1. accesses[c].wrote \subseteq Keys \X AreaValues  BY <1>0, AccessParts
  <2>2. <<key, val>> \in Keys \X AreaValues  OBVIOUS
  <2> QED  BY <2>1, <2>2
<1>4. mem' = [mem EXCEPT ![key] = val] /\ putting' = Append(putting, p)  BY DEF Writes
<1> HIDE DEF p, w
<1>5. a \in Accesses /\ a.step = "putting" /\ a.items = accesses[c].items /\ a.wrote = w
  BY <1>0, <1>3, Putting
<1> HIDE DEF a
<1>6. accesses' \in [AreaCalls -> Accesses] /\ accesses'[c] = a
      /\ \A b \in AreaCalls : b # c => accesses'[b] = accesses[b]
  BY <1>0, <1>2, <1>5, Changed
<1>7. /\ putting' \in Seq(AreaPuts) /\ Len(putting) \in Nat /\ Len(putting') = Len(putting) + 1
      /\ \A i \in 1..Len(putting) : putting'[i] = putting[i]
      /\ putting'[Len(putting) + 1] = p
  BY <1>0, <1>1, <1>4, AppendParts
<1>8. mem' \in [Keys -> AreaValues] /\ mem'[key] = val /\ \A k \in Keys : k # key => mem'[k] = mem[k]
  BY <1>0, <1>4
<1>9. AreaTypeOK'  BY <1>6, <1>7, <1>8, AreaFacts DEF AreaTypeOK
<1>10. \A i \in 1..Len(putting) : putting[i] \in AreaPuts /\ putting[i].by \in AreaCalls
                                  /\ putting[i].by # c /\ putting[i].key \in Keys
  <2> TAKE i \in 1..Len(putting)
  <2>1. putting[i] \in AreaPuts  BY <1>0
  <2>2. putting[i].by \in AreaCalls /\ putting[i].key \in Keys  BY <2>1 DEF AreaPuts
  <2> QED  BY <2>1, <2>2, AreaFacts DEF PutsAreWaitedFor
<1>11. PutsAreWaitedFor'
  <2>1. \A i \in 1..Len(putting)' : i \in 1..Len(putting) \/ i = Len(putting) + 1  BY <1>7
  <2>2. \A i \in 1..Len(putting)' : accesses[putting[i].by].step' = "putting"
    <3> TAKE i \in 1..Len(putting)'
    <3>1. CASE i \in 1..Len(putting)
      <4>1. putting'[i] = putting[i] /\ accesses'[putting[i].by] = accesses[putting[i].by]
        BY <3>1, <1>6, <1>7, <1>10
      <4> QED  BY <3>1, <4>1, AreaFacts DEF PutsAreWaitedFor
    <3>2. CASE i = Len(putting) + 1  BY <3>2, <1>1, <1>5, <1>6, <1>7
    <3> QED  BY <2>1, <3>1, <3>2
  <2>3. \A i, j \in 1..Len(putting)' : putting'[i].by = putting'[j].by => i = j
    <3>1. \A i, j \in 1..Len(putting) : putting[i].by = putting[j].by => i = j
      BY AreaFacts DEF PutsAreWaitedFor
    <3> QED  BY <2>1, <3>1, <1>1, <1>7, <1>10
  <2>4. \A b \in AreaCalls : accesses'[b].step = "putting" => accesses'[b].items # <<>>
    BY <1>5, <1>6, AreaFacts DEF PutsAreWaitedFor
  <2> QED  BY <2>2, <2>3, <2>4 DEF PutsAreWaitedFor
<1>12. LastPutIsMemory'
  <2> SUFFICES ASSUME NEW i \in 1..Len(putting)'
               PROVE  \E j \in i..Len(putting)' : putting'[j].key = putting'[i].key
                                               /\ putting'[j].val = mem'[putting'[i].key]
    BY DEF LastPutIsMemory
  <2>1. CASE putting'[i].key = key
    <3>1. Len(putting) + 1 \in i..Len(putting)'  BY <1>7
    <3> QED  BY <2>1, <3>1, <1>1, <1>7, <1>8
  <2>2. CASE putting'[i].key # key
    <3>1. i \in 1..Len(putting)  BY <2>2, <1>1, <1>7
    <3>2. PICK j \in i..Len(putting) : putting[j].key = putting[i].key
                                       /\ putting[j].val = mem[putting[i].key]
      BY <3>1, AreaFacts DEF LastPutIsMemory
    <3>3. j \in 1..Len(putting) /\ j \in i..Len(putting)'  BY <3>1, <1>7
    <3> QED  BY <2>2, <3>1, <3>2, <3>3, <1>7, <1>8, <1>10
  <2> QED  BY <2>1, <2>2
<1>13. MemoryIsKept'
  <2> SUFFICES ASSUME NEW k \in Keys, mem'[k] # records'[k], k \notin unwritten'
               PROVE  \E i \in 1..Len(putting)' : putting'[i].key = k /\ putting'[i].val = mem'[k]
    BY DEF MemoryIsKept, KeptInStore
  <2>1. CASE k = key
    <3>1. Len(putting) + 1 \in 1..Len(putting)'  BY <1>7
    <3> QED  BY <2>1, <3>1, <1>1, <1>7, <1>8
  <2>2. CASE k # key
    <3>1. mem[k] # records[k] /\ k \notin unwritten  BY <2>2, <1>8
    <3>2. PICK i \in 1..Len(putting) : putting[i].key = k /\ putting[i].val = mem[k]
      BY <3>1, AreaFacts DEF MemoryIsKept, KeptInStore
    <3>3. i \in 1..Len(putting)'  BY <1>7
    <3> QED  BY <2>2, <3>2, <3>3, <1>7, <1>8
  <2> QED  BY <2>1, <2>2
<1>14. CountIsExact'
  <2>1. Under(c)' /\ accesses'[c].wrote # {}  BY <1>3, <1>5, <1>6 DEF Under
  <2> QED  BY <2>1 DEF CountIsExact
<1> QED  BY <1>9, <1>11, <1>12, <1>13, <1>14 DEF AreaIInv

\* the next item of a set
LEMMA SetsKeeps ==
  ASSUME AreaIInv, NEW c \in AreaCalls, Sets(c)
  PROVE  AreaIInv'
<1> DEFINE it == Head(accesses[c].items)
           val == [by |-> c, size |-> it.size]
<1>1. /\ accesses[c].step = "going" /\ accesses[c].items # <<>>
      /\ records' = records /\ bytesInUse' = bytesInUse /\ unwritten' = unwritten
  BY DEF Sets
<1>2. it \in AreaItems
  <2>1. accesses[c] \in Accesses  BY AreaFacts
  <2>2. accesses[c].items \in Seq(AreaItems)  BY <2>1, AccessParts
  <2> QED  BY <1>1, <2>2, TailParts
<1>3. it.key \in Keys /\ val \in AreaValues  BY <1>2 DEF AreaItems, AreaValues
<1>4. CASE Throws(c) /\ mem' = mem /\ putting' = putting
  <2>1. /\ accesses' \in [AreaCalls -> Accesses]
        /\ \A b \in AreaCalls : b # c => accesses'[b] = accesses[b]
        /\ accesses'[c].step = "thrown"
        /\ doubt' \in BOOLEAN /\ (~doubt' => ~doubt /\ accesses[c].wrote = {})
    BY <1>4, ThrowsFacts
  <2>2. AreaTypeOK'  BY <1>1, <1>4, <2>1, AreaFacts DEF AreaTypeOK
  <2>3. PutsAreWaitedFor' /\ LastPutIsMemory' /\ MemoryIsKept'  BY <1>1, <1>4, <2>1, PutsStay
  <2>4. CountIsExact'  BY <1>1, <1>4, <2>1, CountStays
  <2> QED  BY <2>2, <2>3, <2>4 DEF AreaIInv
<1>5. CASE Writes(c, it.key, val) /\ doubt' = doubt  BY <1>1, <1>3, <1>5, WritesKeeps
<1> QED  BY <1>4, <1>5 DEF Sets

\* the next key of a removal
LEMMA DeletesKeeps ==
  ASSUME AreaIInv, NEW c \in AreaCalls, Deletes(c)
  PROVE  AreaIInv'
<1> DEFINE key == Head(accesses[c].items).key
<1>1. /\ accesses[c].step = "going" /\ accesses[c].items # <<>>
      /\ records' = records /\ bytesInUse' = bytesInUse /\ unwritten' = unwritten /\ doubt' = doubt
  BY DEF Deletes
<1>0. accesses \in [AreaCalls -> Accesses] /\ accesses[c] \in Accesses /\ doubt \in BOOLEAN
  BY AreaFacts
<1>2. /\ accesses[c].items \in Seq(AreaItems) /\ Head(accesses[c].items) \in AreaItems
      /\ Tail(accesses[c].items) \in Seq(AreaItems)
  BY <1>0, <1>1, AccessParts, TailParts
<1>3. key \in Keys /\ Absent \in AreaValues  BY <1>2 DEF AreaItems, AreaValues, Absent
<1>4. CASE accesses' = [accesses EXCEPT ![c].items = Tail(@)] /\ mem' = mem /\ putting' = putting
  <2> DEFINE t == Tail(accesses[c].items)
             a == [accesses[c] EXCEPT !.items = t]
  <2>1. OnlyChanges(c, a)  BY <1>0, <1>4 DEF OnlyChanges
  <2>2. t \in Seq(AreaItems)  BY <1>2
  <2> HIDE DEF t
  <2>3. a \in Accesses /\ a.step = accesses[c].step /\ a.wrote = accesses[c].wrote
    BY <1>0, <2>2 DEF Accesses
  <2> HIDE DEF a
  <2>4. accesses' \in [AreaCalls -> Accesses] /\ accesses'[c] = a
        /\ \A b \in AreaCalls : b # c => accesses'[b] = accesses[b]
    BY <1>0, <2>1, <2>3, Changed
  <2>5. AreaTypeOK'  BY <1>1, <1>4, <2>4, AreaFacts DEF AreaTypeOK
  <2>6. PutsAreWaitedFor' /\ LastPutIsMemory' /\ MemoryIsKept'  BY <1>1, <1>4, <2>3, <2>4, PutsStay
  <2>7. Under(c)' <=> Under(c)  BY <2>3, <2>4 DEF Under
  <2>8. CountIsExact'  BY <1>0, <1>1, <1>4, <2>3, <2>4, <2>7, CountStays
  <2> QED  BY <2>5, <2>6, <2>8 DEF AreaIInv
<1>5. CASE Writes(c, key, Absent)  BY <1>1, <1>3, <1>5, WritesKeeps
<1> QED  BY <1>4, <1>5 DEF Deletes

\* the first put ends, well or not
LEMMA PutEndsKeeps ==
  ASSUME AreaIInv, NEW ok \in BOOLEAN, PutEnds(ok)
  PROVE  AreaIInv'
<1> DEFINE p == Head(putting)
<1>0. /\ accesses \in [AreaCalls -> Accesses] /\ putting \in Seq(AreaPuts)
      /\ mem \in [Keys -> AreaValues] /\ records \in [Keys -> AreaValues] /\ doubt \in BOOLEAN
  BY AreaFacts
<1>1. /\ putting # <<>> /\ putting' = Tail(putting) /\ mem' = mem /\ bytesInUse' = bytesInUse
  BY DEF PutEnds
<1>2. /\ putting' \in Seq(AreaPuts) /\ Len(putting) \in Nat \ {0} /\ Len(putting') = Len(putting) - 1
      /\ p = putting[1] /\ p \in AreaPuts
      /\ \A i \in 1..Len(putting') : putting'[i] = putting[i + 1]
  BY <1>0, <1>1, TailParts
<1>a. p.by \in AreaCalls /\ p.key \in Keys /\ p.val \in AreaValues  BY <1>2 DEF AreaPuts
<1>c. PICK c \in AreaCalls : c = p.by  BY <1>a
<1>3. c \in AreaCalls /\ p.key \in Keys /\ p.val \in AreaValues  BY <1>a
<1>4. accesses[c].step = "putting" /\ accesses[c].items # <<>>
  <2>1. 1 \in 1..Len(putting)  BY <1>2
  <2> QED  BY <2>1, <1>2, <1>c, AreaFacts DEF PutsAreWaitedFor
<1>5. accesses[c] \in Accesses /\ accesses[c].items \in Seq(AreaItems)
      /\ Tail(accesses[c].items) \in Seq(AreaItems)
  BY <1>0, <1>3, <1>4, AccessParts, TailParts
<1>6. ok => /\ records' = [records EXCEPT ![p.key] = p.val] /\ unwritten' = unwritten \ {p.key}
            /\ accesses' = [accesses EXCEPT ![c].step = "going", ![c].items = Tail(@)]
            /\ doubt' = doubt
  BY <1>c DEF PutEnds
<1>7. ~ok => Throws(c) /\ unwritten' = unwritten \cup {p.key} /\ records' = records
  BY <1>c DEF PutEnds
<1> HIDE DEF p
<1>8. /\ accesses' \in [AreaCalls -> Accesses] /\ accesses'[c].step \in {"going", "thrown"}
      /\ \A b \in AreaCalls : b # c => accesses'[b] = accesses[b]
      /\ doubt' \in BOOLEAN /\ (~doubt' => ~doubt)
      /\ ~doubt' /\ (Under(c)' => accesses'[c].wrote = {}) /\ Under(c) => accesses[c].wrote = {}
  <2>1. CASE ok
    <3> DEFINE t == Tail(accesses[c].items)
               a == [accesses[c] EXCEPT !.step = "going", !.items = t]
    <3>1. OnlyChanges(c, a)  BY <2>1, <1>0, <1>3, <1>5, <1>6 DEF OnlyChanges
    <3>2. t \in Seq(AreaItems)  BY <1>5
    <3> HIDE DEF t
    <3>3. a \in Accesses /\ a.step = "going" /\ a.wrote = accesses[c].wrote
      BY <1>5, <3>2 DEF Accesses, AccessSteps
    <3> HIDE DEF a
    <3>4. accesses' \in [AreaCalls -> Accesses] /\ accesses'[c] = a
          /\ \A b \in AreaCalls : b # c => accesses'[b] = accesses[b]
      BY <1>0, <1>3, <3>1, <3>3, Changed
    <3>5. Under(c)'  BY <3>3, <3>4 DEF Under
    <3> QED  BY <2>1, <1>0, <1>6, <3>3, <3>4, <3>5
  <2>2. CASE ~ok  BY <2>2, <1>3, <1>7, ThrowsFacts
  <2> QED  BY <2>1, <2>2
<1>9. records' \in [Keys -> AreaValues] /\ unwritten' \subseteq Keys
      /\ (ok => records'[p.key] = p.val) /\ \A k \in Keys : k # p.key => records'[k] = records[k]
  BY <1>0, <1>3, <1>6, <1>7, AreaFacts
<1>10. AreaTypeOK'  BY <1>0, <1>1, <1>2, <1>8, <1>9 DEF AreaTypeOK
<1>11. \A i \in 1..Len(putting') : i + 1 \in 1..Len(putting) /\ putting[i + 1].by \in AreaCalls
                                  /\ putting[i + 1].by # c
  <2> TAKE i \in 1..Len(putting')
  <2>1. i + 1 \in 1..Len(putting) /\ i + 1 # 1 /\ 1 \in 1..Len(putting)  BY <1>2
  <2>2. putting[i + 1] \in AreaPuts  BY <1>0, <2>1
  <2>3. putting[i + 1].by \in AreaCalls  BY <2>2 DEF AreaPuts
  <2>4. putting[i + 1].by # putting[1].by  BY <2>1, AreaFacts DEF PutsAreWaitedFor
  <2> QED  BY <2>1, <2>3, <2>4, <1>2, <1>c
<1>12. PutsAreWaitedFor'
  <2>1. \A i \in 1..Len(putting)' : accesses[putting[i].by].step' = "putting"
    <3> TAKE i \in 1..Len(putting)'
    <3>1. putting'[i] = putting[i + 1] /\ accesses'[putting[i + 1].by] = accesses[putting[i + 1].by]
      BY <1>2, <1>8, <1>11
    <3> QED  BY <3>1, <1>11, AreaFacts DEF PutsAreWaitedFor
  <2>2. \A i, j \in 1..Len(putting)' : putting'[i].by = putting'[j].by => i = j
    <3> TAKE i, j \in 1..Len(putting)'
    <3>1. putting[i + 1].by = putting[j + 1].by => i + 1 = j + 1
      BY <1>11, AreaFacts DEF PutsAreWaitedFor
    <3> QED  BY <3>1, <1>2
  <2>3. \A b \in AreaCalls : accesses'[b].step = "putting" => accesses'[b].items # <<>>
    BY <1>8, AreaFacts DEF PutsAreWaitedFor
  <2> QED  BY <2>1, <2>2, <2>3 DEF PutsAreWaitedFor
<1>13. LastPutIsMemory'
  <2> SUFFICES ASSUME NEW i \in 1..Len(putting)'
               PROVE  \E j \in i..Len(putting)' : putting'[j].key = putting'[i].key
                                               /\ putting'[j].val = mem'[putting'[i].key]
    BY DEF LastPutIsMemory
  <2>1. PICK j \in (i + 1)..Len(putting) : putting[j].key = putting[i + 1].key
                                     /\ putting[j].val = mem[putting[i + 1].key]
    BY <1>11, AreaFacts DEF LastPutIsMemory
  <2>2. j - 1 \in i..Len(putting)' /\ j - 1 \in 1..Len(putting)' /\ (j - 1) + 1 = j  BY <1>2
  <2>3. putting'[j - 1] = putting[j] /\ putting'[i] = putting[i + 1]  BY <2>2, <1>2
  <2> QED  BY <2>1, <2>2, <2>3, <1>1
\* a put that is not the first one is still under way afterwards
<1>14. ASSUME NEW k \in Keys, NEW i \in 1..Len(putting), putting[i].key = k, putting[i].val = mem[k], i # 1
       PROVE  \E j \in 1..Len(putting)' : putting'[j].key = k /\ putting'[j].val = mem'[k]
  <2>1. i - 1 \in 1..Len(putting)' /\ (i - 1) + 1 = i  BY <1>2, <1>14
  <2>2. putting'[i - 1] = putting[i]  BY <2>1, <1>2
  <2> QED  BY <2>1, <2>2, <1>1, <1>14
<1>15. MemoryIsKept'
  <2> SUFFICES ASSUME NEW k \in Keys, mem'[k] # records'[k], k \notin unwritten'
               PROVE  \E i \in 1..Len(putting)' : putting'[i].key = k /\ putting'[i].val = mem'[k]
    BY DEF MemoryIsKept, KeptInStore
  <2>1. CASE k = p.key
    <3>1. ok  BY <2>1, <1>7
    <3>2. records'[k] = p.val /\ 1 \in 1..Len(putting)  BY <2>1, <3>1, <1>2, <1>9
    <3>3. PICK i \in 1..Len(putting) : putting[i].key = k /\ putting[i].val = mem[k]
      <4>1. PICK i \in 1..Len(putting) : putting[i].key = putting[1].key
                                         /\ putting[i].val = mem[putting[1].key]
        BY <3>2, AreaFacts DEF LastPutIsMemory
      <4> QED  BY <4>1, <2>1, <1>2
    <3>4. i # 1  BY <2>1, <3>2, <3>3, <1>1, <1>2
    <3> QED  BY <3>3, <3>4, <1>14
  <2>2. CASE k # p.key
    <3>1. mem[k] # records[k] /\ k \notin unwritten  BY <2>2, <1>1, <1>6, <1>7, <1>9
    <3>2. PICK i \in 1..Len(putting) : putting[i].key = k /\ putting[i].val = mem[k]
      BY <3>1, AreaFacts DEF MemoryIsKept, KeptInStore
    <3>3. i # 1  BY <2>2, <3>2, <1>2
    <3> QED  BY <3>2, <3>3, <1>14
  <2> QED  BY <2>1, <2>2
<1>16. CountIsExact'  BY <1>1, <1>3, <1>8, CountStays
<1> QED  BY <1>10, <1>12, <1>13, <1>15, <1>16 DEF AreaIInv

\* a call ends with a recount
LEMMA CallEndsKeeps ==
  ASSUME AreaIInv, NEW c \in AreaCalls, CallEnds(c)
  PROVE  AreaIInv'
<1>1. /\ accesses[c].step = "going" /\ accesses' = [accesses EXCEPT ![c].step = "done"]
      /\ bytesInUse' = Bytes(mem) /\ doubt' = FALSE
      /\ mem' = mem /\ records' = records /\ putting' = putting /\ unwritten' = unwritten
  BY DEF CallEnds
<1> DEFINE a == [accesses[c] EXCEPT !.step = "done"]
<1>2. accesses \in [AreaCalls -> Accesses] /\ accesses[c] \in Accesses  BY AreaFacts
<1>3. OnlyChanges(c, a)  BY <1>1, <1>2 DEF OnlyChanges
<1>4. a \in Accesses /\ a.step = "done"  BY <1>2 DEF Accesses, AccessSteps
<1> HIDE DEF a
<1>5. accesses' \in [AreaCalls -> Accesses] /\ accesses'[c] = a
      /\ \A b \in AreaCalls : b # c => accesses'[b] = accesses[b]
  BY <1>2, <1>3, <1>4, Changed
<1>6. AreaTypeOK'  BY <1>1, <1>5, AreaFacts DEF AreaTypeOK
<1>7. PutsAreWaitedFor' /\ LastPutIsMemory' /\ MemoryIsKept'  BY <1>1, <1>4, <1>5, PutsStay
<1>8. Bytes(mem)' = Bytes(mem)  BY <1>1
<1>9. CountIsExact'  BY <1>1, <1>8 DEF CountIsExact
<1> QED  BY <1>6, <1>7, <1>9 DEF AreaIInv

\* the worker ends and the next one loads what the store has
LEMMA RestartsKeeps ==
  ASSUME AreaIInv, Restarts
  PROVE  AreaIInv'
<1>1. /\ mem' = records /\ bytesInUse' = Bytes(records) /\ records' = records
      /\ accesses' = [c \in AreaCalls |-> IF accesses[c].step \in {"free", "done", "thrown"}
                               THEN accesses[c] ELSE [accesses[c] EXCEPT !.step = "lost"]]
      /\ putting' = <<>> /\ unwritten' = {} /\ doubt' = FALSE
  BY DEF Restarts
<1>2. accesses \in [AreaCalls -> Accesses]  BY AreaFacts
<1>3. \A c \in AreaCalls : accesses'[c] \in Accesses /\ accesses'[c].step # "putting"
  <2> TAKE c \in AreaCalls
  <2>1. accesses[c] \in Accesses  BY <1>2
  <2>2. [accesses[c] EXCEPT !.step = "lost"] \in Accesses
        /\ [accesses[c] EXCEPT !.step = "lost"].step = "lost"
    BY <2>1 DEF Accesses, AccessSteps
  <2>3. accesses'[c] = IF accesses[c].step \in {"free", "done", "thrown"}
                       THEN accesses[c] ELSE [accesses[c] EXCEPT !.step = "lost"]
    BY <1>1
  <2> QED  BY <2>1, <2>2, <2>3
<1>4. accesses' \in [AreaCalls -> Accesses]  BY <1>1, <1>3
<1>5. putting' \in Seq(AreaPuts) /\ Len(putting') = 0  BY <1>1
<1>6. AreaTypeOK'  BY <1>1, <1>4, <1>5, AreaFacts DEF AreaTypeOK
<1>7. PutsAreWaitedFor' /\ LastPutIsMemory'  BY <1>3, <1>5 DEF PutsAreWaitedFor, LastPutIsMemory
<1>8. MemoryIsKept'  BY <1>1 DEF MemoryIsKept, KeptInStore
<1>9. Bytes(mem)' = Bytes(records)  BY <1>1
<1>10. CountIsExact'  BY <1>1, <1>9 DEF CountIsExact
<1> QED  BY <1>6, <1>7, <1>8, <1>10 DEF AreaIInv

LEMMA AreaStutters ==
  ASSUME AreaIInv, UNCHANGED <<mem, records, bytesInUse, accesses, putting, unwritten, doubt>>
  PROVE  AreaIInv'
<1>1. AreaTypeOK'  BY AreaFacts DEF AreaTypeOK
<1>2. PutsAreWaitedFor' /\ LastPutIsMemory'  BY AreaFacts DEF PutsAreWaitedFor, LastPutIsMemory
<1>3. MemoryIsKept'  BY AreaFacts DEF MemoryIsKept, KeptInStore
<1>4. Bytes(mem)' = Bytes(mem) /\ \A c \in AreaCalls : Under(c)' <=> Under(c)  BY DEF Under
<1>5. CountIsExact'  BY <1>4, AreaFacts DEF CountIsExact
<1> QED  BY <1>1, <1>2, <1>3, <1>5 DEF AreaIInv

\* The inductive invariant of a storage area (extensions/storage.ts): each put is the one
\* its call waits for, the last put of a key carries what the memory has, and the count is
\* exact while no call that is under way has changed anything.
THEOREM AreaInductive == AreaSpec => []AreaIInv
<1>1. ASSUME AreaIInv, [AreaNext]_areaVars PROVE AreaIInv'
  <2>1. CASE UNCHANGED areaVars  BY <1>1, <2>1, AreaStutters DEF areaVars
  <2>2. CASE \E c \in AreaCalls : Asks(c) \/ DbOpened(c) \/ Sets(c) \/ Deletes(c) \/ CallEnds(c)
    <3>1. PICK c \in AreaCalls : Asks(c) \/ DbOpened(c) \/ Sets(c) \/ Deletes(c) \/ CallEnds(c)
      BY <2>2
    <3> QED
      BY <1>1, <3>1, AsksKeeps, DbOpenedKeeps, SetsKeeps, DeletesKeeps, CallEndsKeeps
  <2>3. CASE \E ok \in BOOLEAN : PutEnds(ok)  BY <1>1, <2>3, PutEndsKeeps
  <2>4. CASE WindowPasses  BY <1>1, <2>4, AreaStutters DEF WindowPasses
  <2>5. CASE Restarts  BY <1>1, <2>5, RestartsKeeps
  <2> QED  BY <1>1, <2>1, <2>2, <2>3, <2>4, <2>5 DEF AreaNext
<1> QED  BY <1>1, AreaStart, PTL DEF AreaSpec

\* Whatever calls overlap, whichever puts fail and whenever the worker ends: what a storage
\* area answers is in its store unless its put is under way or failed, and with no call
\* under way its quota is held against an exact count.
THEOREM StorageKept == AreaSpec => []StorageIsKept
<1>1. AreaIInv => StorageIsKept
  <2> SUFFICES ASSUME AreaIInv PROVE StorageIsKept  OBVIOUS
  <2>1. \A k \in Keys : KeptInStore(k)  BY AreaFacts DEF MemoryIsKept
  <2>2. ~doubt /\ (\A c \in AreaCalls : ~Under(c)) => bytesInUse = Bytes(mem)
    BY AreaFacts DEF CountIsExact
  <2> QED  BY <2>1, <2>2 DEF StorageIsKept, KeptInStore
<1> QED  BY <1>1, AreaInductive, PTL

--------------------------------------------------------------------------------
(* The control plane.  AcksAreDurable is not inductive: a message is          *)
(* acknowledged by the end of a write that was asked for long before, while   *)
(* others write, and the store is what that write collected.  What carries it *)
(* over is that each message whose work is done waits for one write of its    *)
(* own, which is in the chain, and that the jar is rid of its old cookies     *)
(* before that write is asked for, so what the write collects is rid of them; *)
(* and that the jar is loaded once in a worker's life, so that past the load  *)
(* nothing brings them back.                                                  *)

AllTypes == {"none"} \cup Preflight \cup PageMessages \cup JarMessages \cup OtherMessages
EarlySteps == {"free", "sent", "done", "lost"}
ControlSteps == EarlySteps \cup {"handling", "transport", "decrypting", "writing", "wiping"}
Sayings == {"ok", "refused", "failed", "closed", "open"}
Sendings ==
  [from : Senders \cup {NoSender}, type : AllTypes, step : ControlSteps,
   said : {<<>>} \cup {<<x>> : x \in Sayings}, unsaved : BOOLEAN,
   early : BOOLEAN]

Cookies == {"old", "new", "imported"}

\* A message is answered when it is over and not before, and waits where its type may.
Whole(m) ==
  /\ m.step # "done" => m.said = <<>>
  /\ m.step = "done" => (m.said = <<>> <=> m.type = "spa404")
  /\ m.step = "writing" => m.type \in JarMessages
  /\ m.step = "wiping" => m.type = "teardown"
  /\ m.step = "decrypting" => m.type = "importSession"
  /\ m.step = "transport" => m.type = "wsOpen"

ControlTypeOK ==
  /\ sendings \in [ControlCalls -> Sendings] /\ chain \in Seq(ControlCalls \cup {0})
  /\ jar \in SUBSET Cookies /\ disk \in SUBSET Cookies
  /\ snap \in (SUBSET Cookies) \cup {{"none"}} /\ open \in BOOLEAN
  /\ load \in (SUBSET Cookies) \cup {ToRead, Loaded}

\* Nothing is handled before the boot.
OpenFirst == ~open => \A k \in ControlCalls : sendings[k].step \in EarlySteps

\* Each write that a message waits for is the one write of that message.
WritesAreAsked ==
  /\ \A i \in 1..Len(chain) : chain[i] # 0 => sendings[chain[i]].step = "writing"
  /\ \A i, j \in 1..Len(chain) : chain[i] = chain[j] /\ chain[i] # 0 => i = j

\* While a message that came after the load waits for its write the memory is rid of what it
\* removed, and so is the snapshot that this write has collected.
WaitsOnTime(m) == m.step = "writing" /\ ~m.early
JarIsRid == (\E k \in ControlCalls : WaitsOnTime(sendings[k])) => "old" \notin jar /\ load = Loaded
SnapshotIsRid ==
  snap # {"none"} => /\ chain # <<>>
                     /\ Head(chain) # 0 /\ ~sendings[Head(chain)].early => "old" \notin snap

\* A message whose write did not fail and which no load overtook, answered or about to be.
Acked(m) ==
  /\ m.type \in JarMessages /\ ~m.unsaved /\ ~m.early
  /\ m.said = <<"ok">> \/ m.step = "wiping"
AcksAreKept ==
  (\E k \in ControlCalls : Acked(sendings[k])) => "old" \notin disk \cup jar \cup snap \cup load

ControlIInv ==
  /\ ControlTypeOK /\ (\A k \in ControlCalls : Whole(sendings[k])) /\ OpenFirst
  /\ WritesAreAsked /\ JarIsRid /\ SnapshotIsRid /\ AcksAreKept

LEMMA ControlFacts ==
  ASSUME ControlIInv
  PROVE  /\ \A k \in ControlCalls : Whole(sendings[k]) /\ sendings[k] \in Sendings
         /\ ControlTypeOK /\ OpenFirst /\ WritesAreAsked /\ JarIsRid /\ SnapshotIsRid /\ AcksAreKept
         /\ sendings \in [ControlCalls -> Sendings] /\ chain \in Seq(ControlCalls \cup {0})
         /\ Len(chain) \in Nat /\ \A i \in 1..Len(chain) : chain[i] \in ControlCalls \cup {0}
         /\ jar \in SUBSET Cookies /\ disk \in SUBSET Cookies
         /\ snap \in (SUBSET Cookies) \cup {{"none"}} /\ open \in BOOLEAN
         /\ load \in (SUBSET Cookies) \cup {ToRead, Loaded}
BY DEF ControlIInv, ControlTypeOK

LEMMA AppendFacts ==
  ASSUME NEW S, NEW s \in Seq(S), NEW e \in S
  PROVE  /\ Append(s, e) \in Seq(S) /\ Len(s) \in Nat /\ Len(Append(s, e)) = Len(s) + 1
         /\ \A i \in 1..Len(s) : Append(s, e)[i] = s[i]
         /\ Append(s, e)[Len(s) + 1] = e /\ Append(s, e) # <<>>
         /\ s # <<>> => Head(Append(s, e)) = Head(s)
<1>1. /\ Append(s, e) \in Seq(S) /\ Len(s) \in Nat /\ Len(Append(s, e)) = Len(s) + 1
      /\ \A i \in 1..Len(s) : Append(s, e)[i] = s[i]
      /\ Append(s, e)[Len(s) + 1] = e /\ Append(s, e) # <<>>
  OBVIOUS
<1>2. ASSUME s # <<>> PROVE Head(Append(s, e)) = Head(s)
  <2>1. 1 \in 1..Len(s) /\ Head(s) = s[1]  BY <1>2
  <2>2. Head(Append(s, e)) = Append(s, e)[1]  BY <1>1
  <2> QED  BY <1>1, <2>1, <2>2
<1> QED  BY <1>1, <1>2

\* the first write of the chain, if a message waits for it
LEMMA HeadWaits ==
  ASSUME ControlIInv, chain # <<>>, Head(chain) # 0
  PROVE  Head(chain) \in ControlCalls /\ sendings[Head(chain)].step = "writing"
<1>1. chain \in Seq(ControlCalls \cup {0})  BY ControlFacts
<1>2. 1 \in 1..Len(chain) /\ Head(chain) = chain[1] /\ Head(chain) \in ControlCalls \cup {0}
  BY <1>1
<1> QED  BY <1>2, ControlFacts DEF WritesAreAsked

\* a write that nobody waits for joins the chain, or none does
LEMMA FlushKeeps ==
  ASSUME ControlIInv, chain' = chain \/ chain' = Flush, snap' = snap,
         \A k \in ControlCalls : sendings[k].step = "writing" =>
           sendings'[k].step = "writing" /\ sendings'[k].early = sendings[k].early
  PROVE  chain' \in Seq(ControlCalls \cup {0}) /\ WritesAreAsked' /\ SnapshotIsRid'
<1>0. chain \in Seq(ControlCalls \cup {0}) /\ Len(chain) \in Nat
      /\ \A i \in 1..Len(chain) : chain[i] \in ControlCalls \cup {0}
  BY ControlFacts
<1>h. chain # <<>> /\ Head(chain) # 0 => sendings'[Head(chain)].early = sendings[Head(chain)].early
  BY HeadWaits
<1>1. CASE chain' = chain
  <2>1. \A i \in 1..Len(chain) : chain[i] # 0 => sendings'[chain[i]].step = "writing"
    BY <1>0, ControlFacts DEF WritesAreAsked
  <2>2. WritesAreAsked'  BY <1>1, <2>1, ControlFacts DEF WritesAreAsked
  <2>3. SnapshotIsRid'  BY <1>h, <1>1, ControlFacts DEF SnapshotIsRid
  <2> QED  BY <1>0, <1>1, <2>2, <2>3
<1>2. CASE chain' = Flush
  <2>1. /\ chain' \in Seq(ControlCalls \cup {0}) /\ Len(chain') = Len(chain) + 1
        /\ \A i \in 1..Len(chain) : chain'[i] = chain[i]
        /\ chain'[Len(chain) + 1] = 0 /\ chain' # <<>>
        /\ chain # <<>> => Head(chain') = Head(chain)
    BY <1>0, <1>2, AppendFacts DEF Flush
  <2>2. \A i \in 1..Len(chain') : chain'[i] # 0 => i \in 1..Len(chain) /\ chain'[i] = chain[i]
    BY <1>0, <2>1
  <2>3. \A i \in 1..Len(chain) : chain[i] # 0 => sendings'[chain[i]].step = "writing"
    BY <1>0, ControlFacts DEF WritesAreAsked
  <2>4. \A i \in 1..Len(chain)' : chain'[i] # 0 => sendings'[chain'[i]].step = "writing"
    BY <2>2, <2>3
  <2>5. \A i, j \in 1..Len(chain)' : chain'[i] = chain'[j] /\ chain'[i] # 0 => i = j
    <3> SUFFICES ASSUME NEW i \in 1..Len(chain)', NEW j \in 1..Len(chain)',
                        chain'[i] = chain'[j], chain'[i] # 0
                 PROVE  i = j
      OBVIOUS
    <3>1. i \in 1..Len(chain) /\ j \in 1..Len(chain) /\ chain[i] = chain[j] /\ chain[i] # 0
      BY <2>2
    <3> QED  BY <3>1, ControlFacts DEF WritesAreAsked
  <2>6. WritesAreAsked'  BY <2>4, <2>5 DEF WritesAreAsked
  <2>7. SnapshotIsRid'  BY <1>h, <2>1, ControlFacts DEF SnapshotIsRid
  <2> QED  BY <2>1, <2>6, <2>7
<1> QED  BY <1>1, <1>2

\* what an action makes of one message
OneMoves(k, m) == sendings' = [sendings EXCEPT ![k] = m]
LEMMA Moved ==
  ASSUME ControlIInv, NEW k \in ControlCalls, NEW m \in Sendings, OneMoves(k, m)
  PROVE  /\ sendings' \in [ControlCalls -> Sendings] /\ sendings'[k] = m
         /\ \A j \in ControlCalls : j # k => sendings'[j] = sendings[j]
BY ControlFacts DEF OneMoves

\* An action that leaves the jar alone and moves one message, which waits for no write, to
\* where it does not wait for one either and is acknowledged only if it was about to be.
LEMMA MovesKeeps ==
  ASSUME ControlIInv, NEW k \in ControlCalls, NEW m \in Sendings, OneMoves(k, m),
         Whole(m), sendings[k].step # "writing", m.step # "writing",
         Acked(m) => Acked(sendings[k]),
         open' = open, ~open => m.step \in EarlySteps,
         jar' = jar, load' = load, disk' = disk, snap' = snap, chain' = chain \/ chain' = Flush
  PROVE  ControlIInv'
<1>1. /\ sendings' \in [ControlCalls -> Sendings] /\ sendings'[k] = m
      /\ \A j \in ControlCalls : j # k => sendings'[j] = sendings[j]
  BY Moved
<1>2. chain' \in Seq(ControlCalls \cup {0}) /\ WritesAreAsked' /\ SnapshotIsRid'
  BY <1>1, FlushKeeps
<1>3. ControlTypeOK'  BY <1>1, <1>2, ControlFacts DEF ControlTypeOK
<1>4. \A j \in ControlCalls : Whole(sendings[j])'
  <2> TAKE j \in ControlCalls
  <2>1. Whole(sendings[j])  BY ControlFacts
  <2> QED  BY <1>1, <2>1 DEF Whole
<1>5. OpenFirst'  BY <1>1, ControlFacts DEF OpenFirst
<1>6. JarIsRid'  BY <1>1, ControlFacts DEF JarIsRid, WaitsOnTime
<1>7. AcksAreKept'
  <2>1. \A j \in ControlCalls : Acked(sendings[j])' => Acked(sendings[j])  BY <1>1 DEF Acked
  <2> QED  BY <2>1, ControlFacts DEF AcksAreKept
<1> QED  BY <1>2, <1>3, <1>4, <1>5, <1>6, <1>7 DEF ControlIInv

\* a message that was not answered before gets its one answer
LEMMA Saying ==
  ASSUME NEW m \in Sendings, m.said = <<>>, NEW what \in Sayings
  PROVE  /\ [m EXCEPT !.from = NoSender, !.said = Append(m.said, what), !.step = "done"] \in Sendings
         /\ [m EXCEPT !.said = Append(m.said, what), !.step = "done"] \in Sendings
         /\ [m EXCEPT !.from = NoSender, !.said = Append(m.said, what), !.step = "done"].said = <<what>>
         /\ [m EXCEPT !.said = Append(m.said, what), !.step = "done"].said = <<what>>
<1>1. Append(m.said, what) = <<what>>  BY DEF Sendings
<1> DEFINE t == <<what>>
<1>2. t \in {<<>>} \cup {<<x>> : x \in Sayings}  OBVIOUS
<1> HIDE DEF t
<1>3. /\ [m EXCEPT !.from = NoSender, !.said = t, !.step = "done"] \in Sendings
      /\ [m EXCEPT !.said = t, !.step = "done"] \in Sendings
      /\ [m EXCEPT !.from = NoSender, !.said = t, !.step = "done"].said = t
      /\ [m EXCEPT !.said = t, !.step = "done"].said = t
  BY <1>2 DEF Sendings, ControlSteps, EarlySteps
<1>4. Append(m.said, what) = t  BY <1>1 DEF t
<1> QED  BY <1>3, <1>4 DEF t

LEMMA SendingParts ==
  ASSUME NEW m \in Sendings
  PROVE  /\ m.type \in AllTypes /\ m.step \in ControlSteps /\ m.unsaved \in BOOLEAN
         /\ m.early \in BOOLEAN
         /\ \A s \in ControlSteps : /\ [m EXCEPT !.step = s] \in Sendings
                                    /\ [m EXCEPT !.step = s].step = s
                                    /\ [m EXCEPT !.step = s].type = m.type
                                    /\ [m EXCEPT !.step = s].said = m.said
                                    /\ [m EXCEPT !.step = s].unsaved = m.unsaved
                                    /\ [m EXCEPT !.step = s].early = m.early
BY DEF Sendings

\* a handler ends with an answer
LEMMA AnswersKeeps ==
  ASSUME ControlIInv, NEW k \in ControlCalls, NEW what \in Sayings, Answers(k, what), open,
         sendings[k].step \in {"sent", "handling", "transport"}, sendings[k].type # "spa404",
         sendings[k].type \in JarMessages => what # "ok",
         open' = open, jar' = jar, load' = load, disk' = disk, snap' = snap
  PROVE  ControlIInv'
<1>1. sendings[k] \in Sendings /\ Whole(sendings[k]) /\ sendings \in [ControlCalls -> Sendings]
  BY ControlFacts
<1>2. sendings[k].said = <<>>  BY <1>1 DEF Whole
<1> DEFINE m == [sendings[k] EXCEPT !.from = NoSender, !.said = Append(sendings[k].said, what),
                                    !.step = "done"]
<1>3. m \in Sendings /\ m.said = <<what>>  BY <1>1, <1>2, Saying
<1>4. m.step = "done" /\ m.type = sendings[k].type  BY <1>1 DEF Sendings
<1>5. OneMoves(k, m)  BY <1>1 DEF Answers, OneMoves
<1>6. chain' = Flush  BY DEF Answers
<1> HIDE DEF m
<1>7. <<what>> # <<>> /\ (what # "ok" => <<what>> # <<"ok">>)  OBVIOUS
<1>8. Whole(m)  BY <1>3, <1>4, <1>7 DEF Whole
<1>9. ~Acked(m)  BY <1>3, <1>4, <1>7 DEF Acked
<1> QED  BY <1>3, <1>4, <1>5, <1>6, <1>8, <1>9, MovesKeeps

\* a message goes on without an answer
LEMMA GoesOnKeeps ==
  ASSUME ControlIInv, NEW k \in ControlCalls, NEW s \in ControlSteps,
         sendings' = [sendings EXCEPT ![k].step = s],
         sendings[k].step \notin {"writing", "done"}, s \notin {"writing", "wiping"},
         s = "done" => sendings[k].type = "spa404",
         s = "transport" => sendings[k].type = "wsOpen",
         s = "decrypting" => sendings[k].type = "importSession",
         open \/ s \in EarlySteps,
         open' = open, jar' = jar, load' = load, disk' = disk, snap' = snap, chain' = chain \/ chain' = Flush
  PROVE  ControlIInv'
<1>1. sendings[k] \in Sendings /\ Whole(sendings[k]) /\ sendings \in [ControlCalls -> Sendings]
  BY ControlFacts
<1> DEFINE m == [sendings[k] EXCEPT !.step = s]
<1>2. /\ m \in Sendings /\ m.step = s /\ m.type = sendings[k].type
      /\ m.said = sendings[k].said /\ m.unsaved = sendings[k].unsaved
  BY <1>1, SendingParts
<1>3. OneMoves(k, m)  BY <1>1 DEF OneMoves
<1> HIDE DEF m
<1>4. sendings[k].said = <<>>  BY <1>1 DEF Whole
<1>5. Whole(m)  BY <1>2, <1>4 DEF Whole
<1>6. ~Acked(m)  BY <1>2, <1>4 DEF Acked
<1> QED  BY <1>2, <1>3, <1>5, <1>6, MovesKeeps

LEMMA SubmitsKeeps ==
  ASSUME ControlIInv, NEW k \in ControlCalls, Submits(k)
  PROVE  ControlIInv'
<1>1. /\ sendings[k].step = "free" /\ open' = open /\ jar' = jar /\ load' = load /\ disk' = disk /\ snap' = snap
      /\ chain' = chain
  BY DEF Submits
<1>2. PICK s \in Senders :
        \E type \in Preflight \cup PageMessages \cup JarMessages \cup OtherMessages :
          sendings' = [sendings EXCEPT ![k] = [Unsent EXCEPT !.from = s, !.type = type, !.step = "sent"]]
  BY DEF Submits
<1>3. PICK type \in Preflight \cup PageMessages \cup JarMessages \cup OtherMessages :
        sendings' = [sendings EXCEPT ![k] = [Unsent EXCEPT !.from = s, !.type = type, !.step = "sent"]]
  BY <1>2
<1> DEFINE m == [Unsent EXCEPT !.from = s, !.type = type, !.step = "sent"]
<1>4. m \in Sendings /\ m.step = "sent" /\ m.said = <<>>
  BY DEF Unsent, Sendings, AllTypes, ControlSteps, EarlySteps
<1>5. OneMoves(k, m)  BY <1>3 DEF OneMoves
<1> HIDE DEF m
<1>6. Whole(m) /\ ~Acked(m)  BY <1>4 DEF Whole, Acked
<1>7. m.step \in EarlySteps  BY <1>4 DEF EarlySteps
<1> QED  BY <1>1, <1>4, <1>5, <1>6, <1>7, MovesKeeps

LEMMA DiagnosesKeeps ==
  ASSUME ControlIInv, NEW k \in ControlCalls, Diagnoses(k)
  PROVE  ControlIInv'
<1>1. /\ sendings[k].step = "sent" /\ sendings[k].type \in Preflight
      /\ open' = open /\ jar' = jar /\ load' = load /\ disk' = disk /\ snap' = snap /\ chain' = chain
  BY DEF Diagnoses
<1>2. PICK what \in Sayings :
        sendings' = [sendings EXCEPT ![k].from = NoSender, ![k].said = Append(@, what),
                                     ![k].step = "done"]
  BY DEF Diagnoses, Sayings
<1>3. sendings[k] \in Sendings /\ Whole(sendings[k]) /\ sendings \in [ControlCalls -> Sendings]
  BY ControlFacts
<1>4. sendings[k].said = <<>>  BY <1>1, <1>3 DEF Whole
<1> DEFINE m == [sendings[k] EXCEPT !.from = NoSender, !.said = Append(sendings[k].said, what),
                                    !.step = "done"]
<1>5. m \in Sendings /\ m.said = <<what>>  BY <1>3, <1>4, Saying
<1>6. m.step = "done" /\ m.type = sendings[k].type  BY <1>3 DEF Sendings
<1>7. OneMoves(k, m)  BY <1>2, <1>3 DEF OneMoves
<1> HIDE DEF m
<1>8. <<what>> # <<>>  OBVIOUS
<1>9. m.type # "spa404" /\ m.type \notin JarMessages
  BY <1>1, <1>6 DEF Preflight, JarMessages
<1>10. Whole(m) /\ ~Acked(m)  BY <1>5, <1>6, <1>8, <1>9 DEF Whole, Acked
<1>11. m.step \in EarlySteps  BY <1>6 DEF EarlySteps
<1> QED  BY <1>1, <1>5, <1>6, <1>7, <1>10, <1>11, MovesKeeps

LEMMA GatesKeeps ==
  ASSUME ControlIInv, NEW k \in ControlCalls, Gates(k)
  PROVE  ControlIInv'
<1>1. /\ open /\ sendings[k].step = "sent"
      /\ open' = open /\ jar' = jar /\ load' = load /\ disk' = disk /\ snap' = snap
  BY DEF Gates
<1>2. ASSUME NEW from \in Senders \cup {NoSender}, chain' = chain,
             sendings' = [sendings EXCEPT ![k].step = "handling", ![k].from = from]
      PROVE  ControlIInv'
  <2>1. sendings[k] \in Sendings /\ Whole(sendings[k]) /\ sendings \in [ControlCalls -> Sendings]
    BY ControlFacts
  <2> DEFINE m == [sendings[k] EXCEPT !.step = "handling", !.from = from]
  <2>2. m \in Sendings /\ m.step = "handling" /\ m.said = sendings[k].said
    BY <2>1 DEF Sendings, ControlSteps
  <2>3. OneMoves(k, m)  BY <1>2, <2>1 DEF OneMoves
  <2> HIDE DEF m
  <2>4. m.said = <<>>  BY <1>1, <2>1, <2>2 DEF Whole
  <2>5. Whole(m) /\ ~Acked(m)  BY <2>2, <2>4 DEF Whole, Acked
  <2> QED  BY <1>1, <1>2, <2>2, <2>3, <2>5, MovesKeeps
<1>3. CASE ~Passes(k) /\ Answers(k, "refused")
  <2>1. sendings[k].type # "spa404"  BY <1>3 DEF Passes, PageMessages
  <2>2. "refused" \in Sayings  BY DEF Sayings
  <2> QED  BY <1>1, <1>3, <2>1, <2>2, AnswersKeeps
<1>4. sendings[k].from \in Senders \cup {NoSender}
  <2>1. sendings[k] \in Sendings  BY ControlFacts
  <2> QED  BY <2>1 DEF Sendings
<1> QED  BY <1>2, <1>3, <1>4 DEF Gates

\* a message that is handled comes after the boot
LEMMA HandledIsOpen ==
  ASSUME ControlIInv, NEW k \in ControlCalls, sendings[k].step \notin EarlySteps
  PROVE  open
BY ControlFacts DEF OpenFirst

LEMMA AtOnceKeeps ==
  ASSUME ControlIInv, NEW k \in ControlCalls, AtOnce(k),
         sendings[k].type \in {"mint", "config", "extPage"}
  PROVE  ControlIInv'
<1>1. /\ sendings[k].step = "handling"
      /\ open' = open /\ jar' = jar /\ load' = load /\ disk' = disk /\ snap' = snap
  BY DEF AtOnce
<1>2. open  BY <1>1, HandledIsOpen DEF EarlySteps
<1>3. PICK what \in Sayings : Answers(k, what)  BY DEF AtOnce, Sayings
<1>4. sendings[k].type # "spa404" /\ sendings[k].type \notin JarMessages  BY DEF JarMessages
<1> QED  BY <1>1, <1>2, <1>3, <1>4, AnswersKeeps

LEMMA TakesRelayKeeps ==
  ASSUME ControlIInv, NEW k \in ControlCalls, TakesRelay(k)
  PROVE  ControlIInv'
<1>1. /\ sendings[k].step = "handling"
      /\ open' = open /\ jar' = jar /\ load' = load /\ disk' = disk /\ snap' = snap
  BY DEF TakesRelay
<1>2. open  BY <1>1, HandledIsOpen DEF EarlySteps
<1>3. CASE sendings[k].type = "relayRegister" /\ Answers(k, "ok")
  <2>1. sendings[k].type # "spa404" /\ sendings[k].type \notin JarMessages /\ "ok" \in Sayings
    BY <1>3 DEF JarMessages, Sayings
  <2> QED  BY <1>1, <1>2, <1>3, <2>1, AnswersKeeps
<1>4. CASE /\ sendings[k].type = "spa404"
           /\ sendings' = [sendings EXCEPT ![k].step = "done"] /\ chain' = Flush
  <2>1. "done" \in ControlSteps  BY DEF ControlSteps, EarlySteps
  <2> QED  BY <1>1, <1>2, <1>4, <2>1, GoesOnKeeps
<1> QED  BY <1>3, <1>4 DEF TakesRelay

LEMMA ReadsCookiesKeeps ==
  ASSUME ControlIInv, NEW k \in ControlCalls, ReadsCookies(k)
  PROVE  ControlIInv'
<1>1. /\ sendings[k].step = "handling" /\ sendings[k].type = "docCookie"
      /\ open' = open /\ jar' = jar /\ load' = load /\ disk' = disk /\ snap' = snap
  BY DEF ReadsCookies
<1>2. open  BY <1>1, HandledIsOpen DEF EarlySteps
<1>3. PICK what \in Sayings : Answers(k, what)  BY DEF ReadsCookies, Sayings
<1>4. sendings[k].type # "spa404" /\ sendings[k].type \notin JarMessages  BY <1>1 DEF JarMessages
<1> QED  BY <1>1, <1>2, <1>3, <1>4, AnswersKeeps

LEMMA OpensSocketKeeps ==
  ASSUME ControlIInv, NEW k \in ControlCalls, OpensSocket(k)
  PROVE  ControlIInv'
<1>1. /\ sendings[k].type = "wsOpen" /\ sendings[k].step \in {"handling", "transport"}
      /\ open' = open /\ jar' = jar /\ load' = load /\ disk' = disk /\ snap' = snap
  BY DEF OpensSocket
<1>2. open  BY <1>1, HandledIsOpen DEF EarlySteps
<1>3. sendings[k].type # "spa404" /\ sendings[k].type \notin JarMessages  BY <1>1 DEF JarMessages
<1>4. CASE \E what \in Sayings : Answers(k, what)
  BY <1>1, <1>2, <1>3, <1>4, AnswersKeeps
<1>5. CASE sendings' = [sendings EXCEPT ![k].step = "transport"] /\ chain' = chain
  <2>1. "transport" \in ControlSteps  BY DEF ControlSteps
  <2> QED  BY <1>1, <1>2, <1>5, <2>1, GoesOnKeeps
<1> QED  BY <1>4, <1>5 DEF OpensSocket, Sayings

LEMMA PairFacts ==
  ASSUME NEW S, NEW s \in Seq(S), NEW d \in S, NEW e \in S
  PROVE  /\ s \o <<d, e>> \in Seq(S) /\ Len(s) \in Nat /\ Len(s \o <<d, e>>) = Len(s) + 2
         /\ \A i \in 1..Len(s) : (s \o <<d, e>>)[i] = s[i]
         /\ (s \o <<d, e>>)[Len(s) + 1] = d /\ (s \o <<d, e>>)[Len(s) + 2] = e
         /\ s \o <<d, e>> # <<>> /\ (s # <<>> => Head(s \o <<d, e>>) = Head(s))
<1> DEFINE t == <<d, e>>
<1>1. t \in Seq(S) /\ Len(t) = 2 /\ t[1] = d /\ t[2] = e  OBVIOUS
<1> HIDE DEF t
<1>2. /\ s \o t \in Seq(S) /\ Len(s) \in Nat /\ Len(s \o t) = Len(s) + 2
      /\ \A i \in 1..Len(s) : (s \o t)[i] = s[i]
      /\ (s \o t)[Len(s) + 1] = t[1] /\ (s \o t)[Len(s) + 2] = t[2]
  <2>a. /\ s \o t \in Seq(S) /\ Len(s \o t) = Len(s) + Len(t)
        /\ \A i \in 1..Len(s) + Len(t) : (s \o t)[i] = IF i <= Len(s) THEN s[i] ELSE t[i - Len(s)]
    BY <1>1, ConcatProperties, Zenon
  <2>b. Len(s) \in Nat  OBVIOUS
  <2>1. /\ s \o t \in Seq(S) /\ Len(s \o t) = Len(s) + Len(t) /\ Len(s) \in Nat
        /\ \A i \in 1..Len(s) + Len(t) : (s \o t)[i] = IF i <= Len(s) THEN s[i] ELSE t[i - Len(s)]
    BY <2>a, <2>b
  <2>2. Len(s) + 1 \in 1..Len(s) + Len(t) /\ Len(s) + 2 \in 1..Len(s) + Len(t)
        /\ ~(Len(s) + 1 <= Len(s)) /\ ~(Len(s) + 2 <= Len(s))
        /\ Len(s) + 1 - Len(s) = 1 /\ Len(s) + 2 - Len(s) = 2
    BY <1>1, <2>1
  <2>3. (s \o t)[Len(s) + 1] = t[1]  BY <2>1, <2>2
  <2>4. (s \o t)[Len(s) + 2] = t[2]  BY <2>1, <2>2
  <2>5. \A i \in 1..Len(s) : i \in 1..Len(s) + Len(t) /\ i <= Len(s)  BY <1>1, <2>1
  <2> QED  BY <1>1, <2>1, <2>3, <2>4, <2>5
<1>3. s \o t # <<>>  BY <1>2
<1>4. ASSUME s # <<>> PROVE Head(s \o t) = Head(s)
  <2>1. 1 \in 1..Len(s) /\ Head(s) = s[1]  BY <1>4
  <2>2. Head(s \o t) = (s \o t)[1]  BY <1>2
  <2> QED  BY <1>2, <2>1, <2>2
<1> QED  BY <1>1, <1>2, <1>3, <1>4 DEF t

\* a message changes the jar and asks for its write
LEMMA ChangesKeeps ==
  ASSUME ControlIInv, NEW k \in ControlCalls, NEW to \in SUBSET {"imported"}, Changes(k, to), open,
         sendings[k].step \in {"handling", "decrypting"}, sendings[k].type \in JarMessages,
         open' = open, load' = load, disk' = disk, snap' = snap
  PROVE  ControlIInv'
<1>1. /\ sendings[k] \in Sendings /\ Whole(sendings[k]) /\ sendings \in [ControlCalls -> Sendings]
      /\ chain \in Seq(ControlCalls \cup {0}) /\ k # 0
  BY ControlFacts, ControlAssumption
<1> DEFINE m == [sendings[k] EXCEPT !.step = "writing", !.early = load # Loaded]
<1>2. OneMoves(k, m) /\ jar' = to /\ chain' = chain \o <<k, 0>>
  BY <1>1 DEF Changes, OneMoves
<1>3. /\ m \in Sendings /\ m.step = "writing" /\ m.type = sendings[k].type
      /\ m.said = sendings[k].said /\ (m.early <=> load # Loaded)
  BY <1>1 DEF Sendings, ControlSteps
<1> HIDE DEF m
<1>4. m.said = <<>>  BY <1>1, <1>3 DEF Whole
<1>5. /\ sendings' \in [ControlCalls -> Sendings] /\ sendings'[k] = m
      /\ \A j \in ControlCalls : j # k => sendings'[j] = sendings[j]
  BY <1>2, <1>3, Moved
<1>6. /\ chain' \in Seq(ControlCalls \cup {0}) /\ Len(chain) \in Nat /\ Len(chain') = Len(chain) + 2
      /\ \A i \in 1..Len(chain) : chain'[i] = chain[i]
      /\ chain'[Len(chain) + 1] = k /\ chain'[Len(chain) + 2] = 0
      /\ chain' # <<>> /\ (chain # <<>> => Head(chain') = Head(chain))
  <2>1. k \in ControlCalls \cup {0} /\ 0 \in ControlCalls \cup {0}  OBVIOUS
  <2> QED  BY <1>1, <1>2, <2>1, PairFacts
<1>7. "old" \notin jar' /\ jar' \in SUBSET Cookies  BY <1>2 DEF Cookies
<1>8. ControlTypeOK'  BY <1>5, <1>6, <1>7, ControlFacts DEF ControlTypeOK
<1>9. \A j \in ControlCalls : Whole(sendings[j])'
  <2> TAKE j \in ControlCalls
  <2>1. Whole(sendings[j])  BY ControlFacts
  <2> QED  BY <1>3, <1>4, <1>5, <2>1 DEF Whole
<1>10. OpenFirst'  BY DEF OpenFirst
<1>11. \A i \in 1..Len(chain') : \/ i \in 1..Len(chain) /\ chain'[i] = chain[i] /\ chain[i] # k
                                 \/ i = Len(chain) + 1 /\ chain'[i] = k
                                 \/ chain'[i] = 0
  <2> TAKE i \in 1..Len(chain')
  <2>1. i \in 1..Len(chain) \/ i = Len(chain) + 1 \/ i = Len(chain) + 2  BY <1>6
  <2>2. ASSUME i \in 1..Len(chain), chain[i] = k PROVE FALSE
    <3>1. sendings[chain[i]].step = "writing"
      BY <2>2, <1>1, ControlFacts DEF WritesAreAsked
    <3> QED  BY <2>2, <3>1
  <2>3. CASE i \in 1..Len(chain)
    <3>1. chain[i] # k  BY <2>2, <2>3
    <3>2. chain'[i] = chain[i]  BY <1>6, <2>3
    <3> QED  BY <2>3, <3>1, <3>2
  <2>4. CASE i = Len(chain) + 1  BY <1>6, <2>4
  <2>5. CASE i = Len(chain) + 2  BY <1>6, <2>5
  <2> QED  BY <2>1, <2>3, <2>4, <2>5
<1>12. WritesAreAsked'
  <2>1. \A i \in 1..Len(chain)' : chain'[i] # 0 => sendings'[chain'[i]].step = "writing"
    <3> SUFFICES ASSUME NEW i \in 1..Len(chain)', chain'[i] # 0
                 PROVE  sendings'[chain'[i]].step = "writing"
      OBVIOUS
    <3>1. CASE i \in 1..Len(chain) /\ chain'[i] = chain[i] /\ chain[i] # k
      <4>1. chain[i] \in ControlCalls /\ sendings[chain[i]].step = "writing"
        BY <3>1, ControlFacts DEF WritesAreAsked
      <4> QED  BY <3>1, <4>1, <1>5
    <3>2. CASE chain'[i] = k  BY <3>2, <1>3, <1>5
    <3> QED  BY <3>1, <3>2, <1>11
  <2>2. \A i, j \in 1..Len(chain)' : chain'[i] = chain'[j] /\ chain'[i] # 0 => i = j
    <3> SUFFICES ASSUME NEW i \in 1..Len(chain)', NEW j \in 1..Len(chain)',
                        chain'[i] = chain'[j], chain'[i] # 0
                 PROVE  i = j
      OBVIOUS
    <3>1. CASE chain'[i] = k  BY <3>1, <1>1, <1>11
    <3>2. CASE chain'[i] # k
      <4>1. i \in 1..Len(chain) /\ j \in 1..Len(chain) /\ chain[i] = chain[j] /\ chain[i] # 0
        BY <3>2, <1>11
      <4> QED  BY <4>1, ControlFacts DEF WritesAreAsked
    <3> QED  BY <3>1, <3>2
  <2> QED  BY <2>1, <2>2 DEF WritesAreAsked
<1>13. JarIsRid'  BY <1>3, <1>5, <1>7, ControlFacts DEF JarIsRid, WaitsOnTime
<1>14. SnapshotIsRid'
  <2>1. chain # <<>> /\ Head(chain) # 0 => Head(chain) \in ControlCalls /\ Head(chain) # k
    BY HeadWaits
  <2> QED  BY <1>5, <1>6, <2>1, ControlFacts DEF SnapshotIsRid
<1>15. AcksAreKept'
  <2>1. ~Acked(m)  BY <1>3, <1>4 DEF Acked
  <2>2. \A j \in ControlCalls : Acked(sendings[j])' => Acked(sendings[j])
    BY <1>5, <2>1 DEF Acked
  <2> QED  BY <1>7, <2>2, ControlFacts DEF AcksAreKept
<1> QED  BY <1>8, <1>9, <1>10, <1>12, <1>13, <1>14, <1>15 DEF ControlIInv

LEMMA ClearsJarKeeps ==
  ASSUME ControlIInv, NEW k \in ControlCalls, ClearsJar(k)
  PROVE  ControlIInv'
<1>1. /\ sendings[k].step = "handling" /\ sendings[k].type = "clearJar"
      /\ open' = open /\ load' = load /\ disk' = disk /\ snap' = snap
  BY DEF ClearsJar
<1>2. open  BY <1>1, HandledIsOpen DEF EarlySteps
<1>3. sendings[k].type # "spa404" /\ sendings[k].type \in JarMessages  BY <1>1 DEF JarMessages
<1>4. CASE Changes(k, {})  BY <1>1, <1>2, <1>3, <1>4, ChangesKeeps
<1>5. CASE Answers(k, "refused") /\ jar' = jar
  <2>1. "refused" \in Sayings  BY DEF Sayings
  <2> QED  BY <1>1, <1>2, <1>3, <1>5, <2>1, AnswersKeeps
<1> QED  BY <1>4, <1>5 DEF ClearsJar

LEMMA DecryptsKeeps ==
  ASSUME ControlIInv, NEW k \in ControlCalls, Decrypts(k)
  PROVE  ControlIInv'
<1>1. /\ sendings[k].step = "handling" /\ sendings[k].type = "importSession"
      /\ open' = open /\ jar' = jar /\ load' = load /\ disk' = disk /\ snap' = snap
  BY DEF Decrypts
<1>2. open  BY <1>1, HandledIsOpen DEF EarlySteps
<1>3. CASE sendings' = [sendings EXCEPT ![k].step = "decrypting"] /\ chain' = Flush
  <2>1. "decrypting" \in ControlSteps  BY DEF ControlSteps
  <2> QED  BY <1>1, <1>2, <1>3, <2>1, GoesOnKeeps
<1>4. CASE Answers(k, "refused")
  <2>1. "refused" \in Sayings  BY DEF Sayings
  <2> QED  BY <1>1, <1>2, <1>4, <2>1, AnswersKeeps
<1> QED  BY <1>3, <1>4 DEF Decrypts

LEMMA DecryptedKeeps ==
  ASSUME ControlIInv, NEW k \in ControlCalls, Decrypted(k)
  PROVE  ControlIInv'
<1>1. /\ sendings[k].step = "decrypting" /\ open' = open /\ load' = load /\ disk' = disk /\ snap' = snap
  BY DEF Decrypted
<1>2. open  BY <1>1, HandledIsOpen DEF EarlySteps
<1>3. sendings[k] \in Sendings /\ Whole(sendings[k]) /\ sendings \in [ControlCalls -> Sendings]
  BY ControlFacts
<1>4. sendings[k].type = "importSession" /\ sendings[k].said = <<>>  BY <1>1, <1>3 DEF Whole
<1>5. CASE Changes(k, {"imported"})
  <2>1. sendings[k].type \in JarMessages  BY <1>4 DEF JarMessages
  <2> QED  BY <1>1, <1>2, <1>5, <2>1, ChangesKeeps
<1>6. CASE /\ sendings' = [sendings EXCEPT ![k].said = Append(@, "refused"), ![k].step = "done"]
           /\ jar' = jar /\ chain' = chain
  <2> DEFINE m == [sendings[k] EXCEPT !.said = Append(sendings[k].said, "refused"), !.step = "done"]
  <2>1. "refused" \in Sayings  BY DEF Sayings
  <2>2. m \in Sendings /\ m.said = <<"refused">>  BY <1>3, <1>4, <2>1, Saying
  <2>3. m.step = "done" /\ m.type = sendings[k].type  BY <1>3 DEF Sendings
  <2>4. OneMoves(k, m)  BY <1>3, <1>6 DEF OneMoves
  <2> HIDE DEF m
  <2>5. <<"refused">> # <<>> /\ <<"refused">> # <<"ok">>  OBVIOUS
  <2>6. Whole(m) /\ ~Acked(m)  BY <1>4, <2>2, <2>3, <2>5 DEF Whole, Acked
  <2> QED  BY <1>1, <1>2, <1>6, <2>2, <2>3, <2>4, <2>6, MovesKeeps
<1> QED  BY <1>5, <1>6 DEF Decrypted

LEMMA TearsDownKeeps ==
  ASSUME ControlIInv, NEW k \in ControlCalls, TearsDown(k)
  PROVE  ControlIInv'
<1>1. /\ sendings[k].step = "handling" /\ sendings[k].type = "teardown" /\ Changes(k, {})
      /\ open' = open /\ load' = load /\ disk' = disk /\ snap' = snap
  BY DEF TearsDown
<1>2. open  BY <1>1, HandledIsOpen DEF EarlySteps
<1>3. sendings[k].type \in JarMessages  BY <1>1 DEF JarMessages
<1> QED  BY <1>1, <1>2, <1>3, ChangesKeeps

LEMMA WipesKeeps ==
  ASSUME ControlIInv, NEW k \in ControlCalls, Wipes(k)
  PROVE  ControlIInv'
<1>1. /\ sendings[k].step = "wiping" /\ open' = open /\ jar' = jar /\ load' = load /\ disk' = disk /\ snap' = snap
      /\ chain' = chain
  BY DEF Wipes
<1>2. open  BY <1>1, HandledIsOpen DEF EarlySteps
<1>3. sendings[k] \in Sendings /\ Whole(sendings[k]) /\ sendings \in [ControlCalls -> Sendings]
  BY ControlFacts
<1>4. sendings[k].type = "teardown" /\ sendings[k].said = <<>>  BY <1>1, <1>3 DEF Whole
<1>5. CASE sendings' = [sendings EXCEPT ![k].said = Append(@, "ok"), ![k].step = "done"]
  <2> DEFINE m == [sendings[k] EXCEPT !.said = Append(sendings[k].said, "ok"), !.step = "done"]
  <2>1. "ok" \in Sayings  BY DEF Sayings
  <2>2. m \in Sendings /\ m.said = <<"ok">>  BY <1>3, <1>4, <2>1, Saying
  <2>3. /\ m.step = "done" /\ m.type = sendings[k].type /\ m.unsaved = sendings[k].unsaved
        /\ m.early = sendings[k].early
    BY <1>3 DEF Sendings
  <2>4. OneMoves(k, m)  BY <1>3, <1>5 DEF OneMoves
  <2> HIDE DEF m
  <2>5. <<"ok">> # <<>>  OBVIOUS
  <2>6. Whole(m)  BY <1>4, <2>2, <2>3, <2>5 DEF Whole
  <2>7. Acked(m) => Acked(sendings[k])  BY <1>1, <2>3 DEF Acked
  <2> QED  BY <1>1, <1>2, <2>2, <2>3, <2>4, <2>6, <2>7, MovesKeeps
<1>6. CASE sendings' = [sendings EXCEPT ![k].step = "lost"]
  <2>1. "lost" \in ControlSteps  BY DEF ControlSteps, EarlySteps
  <2> QED  BY <1>1, <1>2, <1>6, <2>1, GoesOnKeeps
<1> QED  BY <1>5, <1>6 DEF Wipes

LEMMA ControlStart == ControlInit => ControlIInv
<1> SUFFICES ASSUME ControlInit PROVE ControlIInv  OBVIOUS
<1>1. /\ open = FALSE /\ jar = {} /\ disk = {"old"} /\ chain = <<>> /\ snap = {"none"}
      /\ load = ToRead
      /\ sendings = [k \in ControlCalls |-> Unsent]
  BY DEF ControlInit
<1>2. Unsent \in Sendings /\ Unsent.step = "free" /\ Unsent.said = <<>>
  BY DEF Unsent, Sendings, AllTypes, ControlSteps, EarlySteps
<1>3. chain \in Seq(ControlCalls \cup {0}) /\ Len(chain) = 0  BY <1>1
<1>4. ControlTypeOK  BY <1>1, <1>2, <1>3 DEF ControlTypeOK, Cookies
<1>5. \A k \in ControlCalls : Whole(sendings[k])  BY <1>1, <1>2 DEF Whole
<1>6. OpenFirst  BY <1>1, <1>2 DEF OpenFirst, EarlySteps
<1>7. WritesAreAsked /\ SnapshotIsRid  BY <1>1, <1>3 DEF WritesAreAsked, SnapshotIsRid
<1>8. JarIsRid  BY <1>1, <1>2 DEF JarIsRid, WaitsOnTime
<1>9. <<>> # <<"ok">>  OBVIOUS
<1>10. AcksAreKept  BY <1>1, <1>2, <1>9 DEF AcksAreKept, Acked
<1> QED  BY <1>4, <1>5, <1>6, <1>7, <1>8, <1>10 DEF ControlIInv

\* An action that moves no message and leaves the store alone keeps what is said of messages.
LEMMA StillKeeps ==
  ASSUME ControlIInv, sendings' = sendings, disk' = disk
  PROVE  /\ \A k \in ControlCalls : Whole(sendings[k])'
         /\ \A k \in ControlCalls : Acked(sendings[k])' <=> Acked(sendings[k])
<1>1. \A k \in ControlCalls : Whole(sendings[k])'
  <2> TAKE k \in ControlCalls
  <2>1. Whole(sendings[k])  BY ControlFacts
  <2> QED  BY <2>1 DEF Whole
<1>2. \A k \in ControlCalls : Acked(sendings[k])' <=> Acked(sendings[k])  BY DEF Acked
<1> QED  BY <1>1, <1>2

LEMMA BootsKeeps ==
  ASSUME ControlIInv, Boots
  PROVE  ControlIInv'
<1>1. /\ ~open /\ open' = TRUE /\ jar' \in {disk, {}} /\ load' = Loaded
      /\ sendings' = sendings /\ disk' = disk /\ chain' = chain /\ snap' = snap
  BY DEF Boots
<1>2. chain' \in Seq(ControlCalls \cup {0}) /\ WritesAreAsked' /\ SnapshotIsRid'
  BY <1>1, FlushKeeps
<1>3. ControlTypeOK'  BY <1>1, <1>2, ControlFacts DEF ControlTypeOK
<1>4. OpenFirst'  BY <1>1 DEF OpenFirst
<1>5. \A k \in ControlCalls : sendings[k].step # "writing"
  BY <1>1, ControlFacts DEF OpenFirst, EarlySteps
<1>6. JarIsRid'  BY <1>1, <1>5 DEF JarIsRid, WaitsOnTime
<1>7. AcksAreKept'  BY <1>1, StillKeeps, ControlFacts DEF AcksAreKept, Loaded
<1>8. \A k \in ControlCalls : Whole(sendings[k])'  BY <1>1, StillKeeps
<1> QED  BY <1>2, <1>3, <1>4, <1>6, <1>7, <1>8 DEF ControlIInv

LEMMA BootsLateKeeps ==
  ASSUME ControlIInv, BootsLate
  PROVE  ControlIInv'
<1>1. /\ ~open /\ open' = TRUE /\ jar' = jar /\ load' \in {ToRead, disk}
      /\ sendings' = sendings /\ disk' = disk /\ chain' = chain /\ snap' = snap
  BY DEF BootsLate
<1>2. chain' \in Seq(ControlCalls \cup {0}) /\ WritesAreAsked' /\ SnapshotIsRid'
  BY <1>1, FlushKeeps
<1>3. ControlTypeOK'  BY <1>1, <1>2, ControlFacts DEF ControlTypeOK
<1>4. OpenFirst'  BY <1>1 DEF OpenFirst
<1>5. \A k \in ControlCalls : sendings[k].step # "writing"
  BY <1>1, ControlFacts DEF OpenFirst, EarlySteps
<1>6. JarIsRid'  BY <1>1, <1>5 DEF JarIsRid, WaitsOnTime
<1>7. AcksAreKept'
  <2>0. "old" \notin ToRead  BY DEF ToRead
  <2>1. "old" \in load' => "old" \in disk  BY <1>1, <2>0
  <2>2. \A k \in ControlCalls : Acked(sendings[k])' <=> Acked(sendings[k])  BY <1>1, StillKeeps
  <2> QED  BY <1>1, <2>1, <2>2, ControlFacts DEF AcksAreKept
<1>8. \A k \in ControlCalls : Whole(sendings[k])'  BY <1>1, StillKeeps
<1> QED  BY <1>2, <1>3, <1>4, <1>6, <1>7, <1>8 DEF ControlIInv

\* the load reads the store while no message of this life counts on what it removed
LEMMA LoadReadsKeeps ==
  ASSUME ControlIInv, LoadReads
  PROVE  ControlIInv'
<1>1. /\ open' = open /\ jar' = jar /\ load = ToRead /\ load' \in {disk, Loaded}
      /\ sendings' = sendings /\ disk' = disk /\ chain' = chain /\ snap' = snap
  BY DEF LoadReads
<1>2. chain' \in Seq(ControlCalls \cup {0}) /\ WritesAreAsked' /\ SnapshotIsRid'
  BY <1>1, FlushKeeps
<1>3. ControlTypeOK'  BY <1>1, <1>2, ControlFacts DEF ControlTypeOK
<1>4. load # Loaded  BY <1>1 DEF ToRead, Loaded
<1>5. OpenFirst' /\ JarIsRid'  BY <1>1, <1>4, ControlFacts DEF OpenFirst, JarIsRid
<1>6. AcksAreKept'  BY <1>1, StillKeeps, ControlFacts DEF AcksAreKept, Loaded
<1>7. \A k \in ControlCalls : Whole(sendings[k])'  BY <1>1, StillKeeps
<1> QED  BY <1>2, <1>3, <1>5, <1>6, <1>7 DEF ControlIInv

\* and puts what it read in the place of what the memory had
LEMMA LoadLandsKeeps ==
  ASSUME ControlIInv, LoadLands
  PROVE  ControlIInv'
<1>1. /\ open' = open /\ load \notin {ToRead, Loaded} /\ jar' = load /\ load' = Loaded
      /\ sendings' = sendings /\ disk' = disk /\ chain' = chain /\ snap' = snap
  BY DEF LoadLands
<1>2. chain' \in Seq(ControlCalls \cup {0}) /\ WritesAreAsked' /\ SnapshotIsRid'
  BY <1>1, FlushKeeps
<1>3. ControlTypeOK'  BY <1>1, <1>2, ControlFacts DEF ControlTypeOK
<1>4. OpenFirst' /\ JarIsRid'  BY <1>1, ControlFacts DEF OpenFirst, JarIsRid
<1>5. AcksAreKept'  BY <1>1, StillKeeps, ControlFacts DEF AcksAreKept, Loaded
<1>6. \A k \in ControlCalls : Whole(sendings[k])'  BY <1>1, StillKeeps
<1> QED  BY <1>2, <1>3, <1>4, <1>5, <1>6 DEF ControlIInv

LEMMA AdmitsKeeps ==
  ASSUME ControlIInv, Admits
  PROVE  ControlIInv'
<1>1. /\ open' = open /\ jar' = jar \cup {"new"} /\ load' = load
      /\ sendings' = sendings /\ disk' = disk /\ chain' = chain /\ snap' = snap
  BY DEF Admits
<1>2. chain' \in Seq(ControlCalls \cup {0}) /\ WritesAreAsked' /\ SnapshotIsRid'
  BY <1>1, FlushKeeps
<1>3. jar' \in SUBSET Cookies  BY <1>1, ControlFacts DEF Cookies
<1>4. ControlTypeOK'  BY <1>1, <1>2, <1>3, ControlFacts DEF ControlTypeOK
<1>5. "old" \in jar' => "old" \in jar  BY <1>1
<1>6. OpenFirst' /\ JarIsRid'  BY <1>1, <1>5, ControlFacts DEF OpenFirst, JarIsRid
<1>7. AcksAreKept'  BY <1>1, <1>5, StillKeeps, ControlFacts DEF AcksAreKept
<1>8. \A k \in ControlCalls : Whole(sendings[k])'  BY <1>1, StillKeeps
<1> QED  BY <1>2, <1>4, <1>6, <1>7, <1>8 DEF ControlIInv

LEMMA TimerKeeps ==
  ASSUME ControlIInv, TimerFires
  PROVE  ControlIInv'
<1>1. /\ open' = open /\ jar' = jar /\ load' = load /\ chain' = Flush
      /\ sendings' = sendings /\ disk' = disk /\ snap' = snap
  BY DEF TimerFires
<1>2. chain' \in Seq(ControlCalls \cup {0}) /\ WritesAreAsked' /\ SnapshotIsRid'
  BY <1>1, FlushKeeps
<1>4. ControlTypeOK'  BY <1>1, <1>2, ControlFacts DEF ControlTypeOK
<1>6. OpenFirst' /\ JarIsRid'  BY <1>1, ControlFacts DEF OpenFirst, JarIsRid
<1>7. AcksAreKept'  BY <1>1, StillKeeps, ControlFacts DEF AcksAreKept
<1>8. \A k \in ControlCalls : Whole(sendings[k])'  BY <1>1, StillKeeps
<1> QED  BY <1>2, <1>4, <1>6, <1>7, <1>8 DEF ControlIInv

\* a write collects the jar in its turn
LEMMA CollectsKeeps ==
  ASSUME ControlIInv, Collects
  PROVE  ControlIInv'
<1>1. /\ open' = open /\ jar' = jar /\ load' = load /\ chain' = chain /\ chain # <<>> /\ snap' = jar
      /\ sendings' = sendings /\ disk' = disk
  BY DEF Collects
<1>2. ControlTypeOK'  BY <1>1, ControlFacts DEF ControlTypeOK
<1>3. WritesAreAsked' /\ OpenFirst' /\ JarIsRid'
  BY <1>1, ControlFacts DEF WritesAreAsked, OpenFirst, JarIsRid
<1>4. SnapshotIsRid'
  <2> SUFFICES ASSUME Head(chain) # 0, ~sendings[Head(chain)].early PROVE "old" \notin jar
    BY <1>1 DEF SnapshotIsRid
  <2>1. Head(chain) \in ControlCalls /\ sendings[Head(chain)].step = "writing"  BY <1>1, HeadWaits
  <2> QED  BY <2>1, ControlFacts DEF JarIsRid, WaitsOnTime
<1>5. AcksAreKept'  BY <1>1, StillKeeps, ControlFacts DEF AcksAreKept
<1>6. \A k \in ControlCalls : Whole(sendings[k])'  BY <1>1, StillKeeps
<1> QED  BY <1>2, <1>3, <1>4, <1>5, <1>6 DEF ControlIInv

LEMMA ControlEndsKeeps ==
  ASSUME ControlIInv, ControlEnds
  PROVE  ControlIInv'
<1>1. /\ open' = FALSE /\ jar' = {} /\ chain' = <<>> /\ snap' = {"none"} /\ disk' = disk
      /\ load' = ToRead
      /\ sendings' = [k \in ControlCalls |-> IF sendings[k].step \in {"free", "done"} THEN sendings[k]
                                             ELSE [Unsent EXCEPT !.step = "lost"]]
  BY DEF ControlEnds
<1>2. \A k \in ControlCalls :
        /\ sendings'[k] \in Sendings /\ Whole(sendings[k])' /\ sendings'[k].step \in EarlySteps
        /\ Acked(sendings[k])' => Acked(sendings[k])
  <2> TAKE k \in ControlCalls
  <2>0. sendings[k] \in Sendings /\ Whole(sendings[k])  BY ControlFacts
  <2>1. CASE sendings[k].step \in {"free", "done"}
    <3>1. sendings'[k] = sendings[k]  BY <1>1, <2>1
    <3> QED  BY <2>0, <2>1, <3>1 DEF Whole, Acked, EarlySteps
  <2>2. CASE sendings[k].step \notin {"free", "done"}
    <3> DEFINE m == [Unsent EXCEPT !.step = "lost"]
    <3>1. sendings'[k] = m  BY <1>1, <2>2
    <3>3. m \in Sendings /\ m.step = "lost" /\ m.said = <<>>
      BY DEF Unsent, Sendings, AllTypes, ControlSteps, EarlySteps
    <3> HIDE DEF m
    <3>4. <<>> # <<"ok">>  OBVIOUS
    <3>5. Whole(m) /\ ~Acked(m) /\ m.step \in EarlySteps
      BY <3>3, <3>4 DEF Whole, Acked, EarlySteps
    <3> QED  BY <3>1, <3>3, <3>5 DEF Whole, Acked
  <2> QED  BY <2>1, <2>2
<1>3. sendings' \in [ControlCalls -> Sendings]  BY <1>1, <1>2
<1>4. chain' \in Seq(ControlCalls \cup {0}) /\ Len(chain') = 0  BY <1>1
<1>5. ControlTypeOK'  BY <1>1, <1>3, <1>4, ControlFacts DEF ControlTypeOK, Cookies
<1>6. OpenFirst'  BY <1>2 DEF OpenFirst
<1>7. WritesAreAsked' /\ SnapshotIsRid' /\ JarIsRid'
  <2>1. \A k \in ControlCalls : ~WaitsOnTime(sendings[k])'  BY <1>2 DEF WaitsOnTime, EarlySteps
  <2> QED  BY <1>1, <1>4, <2>1 DEF WritesAreAsked, SnapshotIsRid, JarIsRid
<1>8. AcksAreKept'  BY <1>1, <1>2, ControlFacts DEF AcksAreKept, ToRead
<1> QED  BY <1>2, <1>5, <1>6, <1>7, <1>8 DEF ControlIInv

\* the chain without its head
LEMMA ChainMovesOn ==
  ASSUME ControlIInv, chain # <<>>, chain' = Tail(chain),
         \A k \in ControlCalls : k # Head(chain) => sendings'[k] = sendings[k]
  PROVE  /\ chain' \in Seq(ControlCalls \cup {0}) /\ WritesAreAsked'
         /\ Head(chain) \in ControlCalls \cup {0}
         /\ Head(chain) # 0 => sendings[Head(chain)].step = "writing"
<1>0. chain \in Seq(ControlCalls \cup {0})  BY ControlFacts
<1>1. /\ chain' \in Seq(ControlCalls \cup {0}) /\ Len(chain) \in Nat \ {0}
      /\ Len(chain') = Len(chain) - 1 /\ Head(chain) = chain[1]
      /\ \A i \in 1..Len(chain') : chain'[i] = chain[i + 1]
  BY <1>0
<1>2. 1 \in 1..Len(chain) /\ chain[1] \in ControlCalls \cup {0}  BY <1>0, <1>1
<1>3. \A i \in 1..Len(chain') : /\ i + 1 \in 1..Len(chain) /\ chain[i + 1] \in ControlCalls \cup {0}
                                /\ chain[i + 1] # 0 => chain[i + 1] # Head(chain)
  <2> TAKE i \in 1..Len(chain')
  <2>1. i + 1 \in 1..Len(chain) /\ i + 1 # 1  BY <1>1
  <2>2. chain[i + 1] \in ControlCalls \cup {0}  BY <1>0, <2>1
  <2>3. chain[i + 1] # 0 => chain[i + 1] # chain[1]
    BY <1>2, <2>1, ControlFacts DEF WritesAreAsked
  <2> QED  BY <1>1, <2>1, <2>2, <2>3
<1>4. \A i \in 1..Len(chain)' : chain'[i] # 0 => sendings'[chain'[i]].step = "writing"
  <2> SUFFICES ASSUME NEW i \in 1..Len(chain)', chain'[i] # 0
               PROVE  sendings'[chain'[i]].step = "writing"
    OBVIOUS
  <2>1. chain'[i] = chain[i + 1] /\ chain[i + 1] \in ControlCalls /\ chain[i + 1] # Head(chain)
    BY <1>1, <1>3
  <2>2. sendings[chain[i + 1]].step = "writing"
    BY <1>3, <2>1, ControlFacts DEF WritesAreAsked
  <2> QED  BY <2>1, <2>2
<1>5. \A i, j \in 1..Len(chain)' : chain'[i] = chain'[j] /\ chain'[i] # 0 => i = j
  <2> SUFFICES ASSUME NEW i \in 1..Len(chain)', NEW j \in 1..Len(chain)',
                      chain'[i] = chain'[j], chain'[i] # 0
               PROVE  i = j
    OBVIOUS
  <2>1. i + 1 \in 1..Len(chain) /\ j + 1 \in 1..Len(chain) /\ chain[i + 1] = chain[j + 1]
        /\ chain[i + 1] # 0
    BY <1>1, <1>3
  <2>2. i + 1 = j + 1  BY <2>1, ControlFacts DEF WritesAreAsked
  <2> QED  BY <1>1, <2>2
<1>6. WritesAreAsked'  BY <1>4, <1>5 DEF WritesAreAsked
<1>7. Head(chain) # 0 => sendings[Head(chain)].step = "writing"
  BY <1>1, <1>2, ControlFacts DEF WritesAreAsked
<1> QED  BY <1>1, <1>2, <1>6, <1>7

\* the message whose write has ended
AfterWrite(m, ok) ==
  [m EXCEPT !.unsaved = ~ok,
            !.said = IF m.type = "teardown" THEN m.said ELSE Append(m.said, "ok"),
            !.step = IF m.type = "teardown" THEN "wiping" ELSE "done"]

LEMMA AfterWriteFacts ==
  ASSUME NEW m \in Sendings, Whole(m), m.step = "writing", NEW ok \in BOOLEAN
  PROVE  /\ AfterWrite(m, ok) \in Sendings /\ Whole(AfterWrite(m, ok))
         /\ AfterWrite(m, ok).step # "writing" /\ (~ok => ~Acked(AfterWrite(m, ok)))
<1>1. m.said = <<>> /\ m.type \in JarMessages  BY DEF Whole
<1> DEFINE said == IF m.type = "teardown" THEN m.said ELSE Append(m.said, "ok")
           step == IF m.type = "teardown" THEN "wiping" ELSE "done"
           a == [m EXCEPT !.unsaved = ~ok, !.said = said, !.step = step]
<1>2. Append(m.said, "ok") = <<"ok">>  BY <1>1
<1>3. said \in {<<>>} \cup {<<x>> : x \in Sayings}  BY <1>1, <1>2 DEF Sayings
<1>4. step \in ControlSteps  BY DEF ControlSteps, EarlySteps
<1>5. /\ m.type = "teardown" => said = <<>> /\ step = "wiping"
      /\ m.type # "teardown" => said = <<"ok">> /\ step = "done"
  BY <1>1, <1>2
<1>6. (~ok) \in BOOLEAN  OBVIOUS
<1> HIDE DEF said, step
<1>7. a \in Sendings /\ a.said = said /\ a.step = step /\ a.type = m.type /\ a.unsaved = ~ok
  BY <1>3, <1>4, <1>6 DEF Sendings
<1>8. AfterWrite(m, ok) = a  BY DEF AfterWrite, said, step
<1> HIDE DEF a
<1>9. <<"ok">> # <<>> /\ m.type # "spa404"  BY <1>1 DEF JarMessages
<1>10. Whole(a)
  <2>1. CASE m.type = "teardown"  BY <1>1, <1>5, <1>7, <2>1 DEF Whole
  <2>2. CASE m.type # "teardown"  BY <1>5, <1>7, <1>9, <2>2 DEF Whole
  <2> QED  BY <2>1, <2>2
<1>11. a.step # "writing" /\ (~ok => ~Acked(a))  BY <1>5, <1>7 DEF Acked
<1> QED  BY <1>7, <1>8, <1>10, <1>11

\* a write ends, and is acknowledged whether it went well or not
LEMMA JarWrittenKeeps ==
  ASSUME ControlIInv, NEW ok \in BOOLEAN, JarWritten(ok)
  PROVE  ControlIInv'
<1>1. /\ snap # {"none"} /\ snap' = {"none"} /\ chain' = Tail(chain)
      /\ disk' = (IF ok THEN snap ELSE disk) /\ open' = open /\ jar' = jar /\ load' = load
  BY DEF JarWritten
<1>2. /\ chain # <<>>
      /\ Head(chain) # 0 /\ ~sendings[Head(chain)].early => "old" \notin snap
  BY <1>1, ControlFacts DEF SnapshotIsRid
<1>3. disk' \in SUBSET Cookies /\ ("old" \in disk' => "old" \in disk \cup snap)
  BY <1>1, ControlFacts
<1>4. "old" \notin snap'  BY <1>1
<1>5. CASE Head(chain) = 0
  <2>1. sendings' = sendings  BY <1>5 DEF JarWritten
  <2>2. chain' \in Seq(ControlCalls \cup {0}) /\ WritesAreAsked'
    BY <1>1, <1>2, <2>1, ChainMovesOn
  <2>3. ControlTypeOK'  BY <1>1, <1>3, <2>1, <2>2, ControlFacts DEF ControlTypeOK
  <2>4. \A k \in ControlCalls : Whole(sendings[k])'
    <3> TAKE k \in ControlCalls
    <3>1. Whole(sendings[k])  BY ControlFacts
    <3> QED  BY <2>1, <3>1 DEF Whole
  <2>5. OpenFirst' /\ JarIsRid' /\ SnapshotIsRid'
    BY <1>1, <2>1, ControlFacts DEF OpenFirst, JarIsRid, SnapshotIsRid
  <2>6. \A k \in ControlCalls : Acked(sendings[k])' => Acked(sendings[k])  BY <2>1 DEF Acked
  <2>7. AcksAreKept'  BY <1>1, <1>3, <1>4, <2>6, ControlFacts DEF AcksAreKept
  <2> QED  BY <2>2, <2>3, <2>4, <2>5, <2>7 DEF ControlIInv
<1>6. CASE Head(chain) # 0
  <2>0. Head(chain) \in ControlCalls
    <3>1. chain \in Seq(ControlCalls \cup {0})  BY ControlFacts
    <3>2. Head(chain) \in ControlCalls \cup {0}  BY <1>2, <3>1
    <3> QED  BY <1>6, <3>2
  <2> PICK w \in ControlCalls : w = Head(chain)  BY <2>0
  <2>1. /\ sendings[w] \in Sendings /\ Whole(sendings[w]) /\ sendings \in [ControlCalls -> Sendings]
    BY ControlFacts
  <2> DEFINE m == AfterWrite(sendings[w], ok)
  <2>2. OneMoves(w, m)  BY <1>6, <2>1 DEF JarWritten, OneMoves, AfterWrite
  <2>3. sendings[w].step = "writing"  BY <1>2, <1>6, HeadWaits
  <2>4. m \in Sendings /\ Whole(m) /\ m.step # "writing" /\ (~ok => ~Acked(m))
    BY <2>1, <2>3, AfterWriteFacts
  <2>e. m.early = sendings[w].early  BY <2>1 DEF AfterWrite, Sendings
  <2> HIDE DEF m
  <2>5. /\ sendings' \in [ControlCalls -> Sendings] /\ sendings'[w] = m
        /\ \A k \in ControlCalls : k # w => sendings'[k] = sendings[k]
    BY <2>2, <2>4, Moved
  <2>6. chain' \in Seq(ControlCalls \cup {0}) /\ WritesAreAsked'
    BY <1>1, <1>2, <2>5, ChainMovesOn
  <2>7. ControlTypeOK'  BY <1>1, <1>3, <2>5, <2>6, ControlFacts DEF ControlTypeOK
  <2>8. \A k \in ControlCalls : Whole(sendings[k])'
    <3> TAKE k \in ControlCalls
    <3>1. Whole(sendings[k])  BY ControlFacts
    <3> QED  BY <2>4, <2>5, <3>1 DEF Whole
  <2>9. open  BY <2>3, HandledIsOpen DEF EarlySteps
  <2>10. ~sendings[w].early => "old" \notin jar /\ load = Loaded
    BY <2>3, ControlFacts DEF JarIsRid, WaitsOnTime
  <2>11. OpenFirst' /\ JarIsRid' /\ SnapshotIsRid'
    <3>1. \A k \in ControlCalls : WaitsOnTime(sendings[k])' => WaitsOnTime(sendings[k])  BY <2>4, <2>5 DEF WaitsOnTime
    <3> QED  BY <1>1, <2>9, <3>1, ControlFacts DEF OpenFirst, JarIsRid, SnapshotIsRid
  <2>12. AcksAreKept'
    <3>1. CASE ok /\ ~sendings[w].early
      <4>1. "old" \notin disk'  BY <1>1, <1>2, <1>6, <3>1
      <4>2. "old" \notin load'  BY <1>1, <2>10, <3>1 DEF Loaded
      <4> QED  BY <1>1, <1>4, <2>10, <3>1, <4>1, <4>2 DEF AcksAreKept
    <3>2. CASE ~ok \/ sendings[w].early
      <4>1. ~Acked(m)  BY <2>4, <2>e, <3>2 DEF Acked
      <4>2. \A k \in ControlCalls : Acked(sendings[k])' => Acked(sendings[k])
        BY <2>5, <4>1 DEF Acked
      <4> QED  BY <1>1, <1>3, <1>4, <4>2, ControlFacts DEF AcksAreKept
    <3> QED  BY <3>1, <3>2
  <2> QED  BY <2>6, <2>7, <2>8, <2>11, <2>12 DEF ControlIInv
<1> QED  BY <1>5, <1>6

LEMMA ControlStutters ==
  ASSUME ControlIInv, UNCHANGED controlVars
  PROVE  ControlIInv'
<1>1. /\ sendings' = sendings /\ chain' = chain /\ jar' = jar /\ disk' = disk /\ snap' = snap
      /\ open' = open /\ load' = load
  BY DEF controlVars
<1>2. chain' \in Seq(ControlCalls \cup {0}) /\ WritesAreAsked' /\ SnapshotIsRid'
  BY <1>1, FlushKeeps
<1>3. ControlTypeOK'  BY <1>1, <1>2, ControlFacts DEF ControlTypeOK
<1>4. OpenFirst' /\ JarIsRid'  BY <1>1, ControlFacts DEF OpenFirst, JarIsRid
<1>5. AcksAreKept'  BY <1>1, StillKeeps, ControlFacts DEF AcksAreKept
<1>6. \A k \in ControlCalls : Whole(sendings[k])'  BY <1>1, StillKeeps
<1> QED  BY <1>2, <1>3, <1>4, <1>5, <1>6 DEF ControlIInv

\* The inductive invariant of the control plane (control.ts): a message that changed the
\* jar waits for one write of the chain; if it came after the load of the jar, neither the
\* memory nor what its write collected has what it removed from the change to its
\* acknowledgement, and no load brings it back.
THEOREM ControlInductive == ControlSpec => []ControlIInv
<1>1. ASSUME ControlIInv, [ControlNext]_controlVars PROVE ControlIInv'
  <2>1. CASE UNCHANGED controlVars  BY <1>1, <2>1, ControlStutters
  <2>2. ASSUME NEW k \in ControlCalls,
               \/ Submits(k) \/ Diagnoses(k) \/ Gates(k) \/ Mints(k) \/ Applies(k) \/ TakesRelay(k)
               \/ ReadsCookies(k) \/ OpensSocket(k) \/ ClearsJar(k) \/ Decrypts(k) \/ Decrypted(k)
               \/ TearsDown(k) \/ Wipes(k)
        PROVE  ControlIInv'
    <3>1. CASE Mints(k) \/ Applies(k)
      <4>1. AtOnce(k) /\ sendings[k].type \in {"mint", "config", "extPage"}
        BY <3>1 DEF Mints, Applies
      <4> QED  BY <1>1, <4>1, AtOnceKeeps
    <3>2. CASE Submits(k) \/ Diagnoses(k) \/ Gates(k)
      BY <1>1, <3>2, SubmitsKeeps, DiagnosesKeeps, GatesKeeps
    <3>3. CASE TakesRelay(k) \/ ReadsCookies(k) \/ OpensSocket(k)
      BY <1>1, <3>3, TakesRelayKeeps, ReadsCookiesKeeps, OpensSocketKeeps
    <3>4. CASE ClearsJar(k) \/ Decrypts(k) \/ Decrypted(k)
      BY <1>1, <3>4, ClearsJarKeeps, DecryptsKeeps, DecryptedKeeps
    <3>5. CASE TearsDown(k) \/ Wipes(k)  BY <1>1, <3>5, TearsDownKeeps, WipesKeeps
    <3> QED  BY <2>2, <3>1, <3>2, <3>3, <3>4, <3>5
  <2>3. CASE Boots \/ Admits \/ TimerFires  BY <1>1, <2>3, BootsKeeps, AdmitsKeeps, TimerKeeps
  <2>6. CASE BootsLate \/ LoadReads \/ LoadLands
    BY <1>1, <2>6, BootsLateKeeps, LoadReadsKeeps, LoadLandsKeeps
  <2>4. CASE Collects \/ ControlEnds  BY <1>1, <2>4, CollectsKeeps, ControlEndsKeeps
  <2>5. CASE \E ok \in BOOLEAN : JarWritten(ok)  BY <1>1, <2>5, JarWrittenKeeps
  <2> QED  BY <1>1, <2>1, <2>2, <2>3, <2>4, <2>5, <2>6 DEF ControlNext
<1> QED  BY <1>1, ControlStart, PTL DEF ControlSpec

\* Whatever messages overlap, whichever writes fail and whenever the worker ends: what an
\* acknowledged message removed is neither in the memory nor in the store (#254), unless the
\* message came while the jar was still being loaded, past the boot deadline; and a message
\* that is over was answered once (#250).
THEOREM AcksSound == ControlSpec => []AcksAreSound
<1>1. ControlIInv => AcksAreSound
  <2> SUFFICES ASSUME ControlIInv PROVE AcksAreSound  OBVIOUS
  <2>1. AcksAreDurable  BY ControlFacts DEF AcksAreDurable, AcksAreKept, Acked
  <2>2. AnsweredOnce
    <3> SUFFICES ASSUME NEW k \in ControlCalls
                 PROVE  /\ Len(sendings[k].said) <= 1
                        /\ sendings[k].step = "done" =>
                             Len(sendings[k].said) = IF sendings[k].type = "spa404" THEN 0 ELSE 1
      BY DEF AnsweredOnce
    <3>1. Whole(sendings[k]) /\ sendings[k].said \in {<<>>} \cup {<<x>> : x \in Sayings}
      BY ControlFacts DEF Sendings
    <3>2. CASE sendings[k].said = <<>>  BY <3>1, <3>2 DEF Whole
    <3>3. CASE sendings[k].said \in {<<x>> : x \in Sayings}
      <4>1. Len(sendings[k].said) = 1 /\ sendings[k].said # <<>>  BY <3>3
      <4> QED  BY <3>1, <4>1 DEF Whole
    <3> QED  BY <3>1, <3>2, <3>3
  <2> QED  BY <2>1, <2>2 DEF AcksAreSound
<1> QED  BY <1>1, ControlInductive, PTL
================================================================================
