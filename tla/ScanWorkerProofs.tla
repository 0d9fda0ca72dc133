-------------------------- MODULE ScanWorkerProofs --------------------------
(* Theorems of ScanWorker, for any number of processes, projects, scans    *)
(* and messages and any limit.                                             *)
EXTENDS ScanWorker, FiniteSetTheorems, SequenceTheorems, TLAPS

(* A task that a process took knows it, and one that waits is in the queue *)
(* of its process and project, once.                                       *)
Placed ==
  /\ \A m \in Msg : Live(m) => on[m] \in Proc
  /\ \A p \in Proc, j \in Project :
       /\ \A i \in 1 .. Len(waiting[p][j]) :
            pc[waiting[p][j][i]] = "waiting" /\ on[waiting[p][j][i]] = p /\ project(waiting[p][j][i]) = j
       /\ \A i, k \in 1 .. Len(waiting[p][j]) : waiting[p][j][i] = waiting[p][j][k] => i = k

(* Once the only message of a scan has settled it, its task writes no more. *)
Settled ==
  \A m \in Msg : (SentOnce(scanOf[m]) /\ status[scanOf[m]] \in {"completed", "failed"}) =>
    pc[m] \in {"attesting", "signing", "ended", "lost"}

(* Rows are settled or set to running by tasks only. *)
IInv == TypeOK /\ Placed /\ PermitsAccounted /\ RunningIsWorkedOn /\ Settled

-----------------------------------------------------------------------------
LEMMA HoldersFinite ==
  ASSUME NEW p, NEW j
  PROVE  /\ IsFiniteSet(Holders(p, j)) /\ Cardinality(Holders(p, j)) \in Nat
         /\ \A m \in Holders(p, j) :
              /\ Cardinality(Holders(p, j) \ {m}) = Cardinality(Holders(p, j)) - 1
              /\ Cardinality(Holders(p, j)) >= 1
         /\ \A m \in Msg \ Holders(p, j) :
              Cardinality(Holders(p, j) \cup {m}) = Cardinality(Holders(p, j)) + 1
  <1>1. IsFiniteSet(Holders(p, j))
    BY FS_Subset, ConstantsAssumption DEF Holders
  <1>2. Cardinality(Holders(p, j)) \in Nat
    BY <1>1, FS_CardinalityType
  <1>3. ASSUME NEW m \in Holders(p, j)
        PROVE  /\ Cardinality(Holders(p, j) \ {m}) = Cardinality(Holders(p, j)) - 1
               /\ Cardinality(Holders(p, j)) >= 1
    <2>1. IsFiniteSet(Holders(p, j) \ {m})
          /\ Cardinality(Holders(p, j) \ {m}) = Cardinality(Holders(p, j)) - 1
      BY <1>1, FS_RemoveElement
    <2>2. Cardinality(Holders(p, j) \ {m}) \in Nat
      BY <2>1, FS_CardinalityType
    <2> QED
      BY <1>2, <2>1, <2>2
  <1>4. ASSUME NEW m \in Msg \ Holders(p, j)
        PROVE  Cardinality(Holders(p, j) \cup {m}) = Cardinality(Holders(p, j)) + 1
    BY <1>1, FS_AddElement
  <1> QED
    BY <1>1, <1>2, <1>3, <1>4

(* A task that leaves passes its permit on or gives it back. *)
LEMMA LeaveKeeps ==
  ASSUME TypeOK, Placed, PermitsAccounted, NEW m \in Msg, pc[m] \in Inside, Leave(m), on' = on
  PROVE  /\ permits' \in [Proc -> [Project -> 0 .. Limit]]
         /\ waiting' \in [Proc -> [Project -> Seq(Msg)]]
         /\ pc' \in [Msg -> Inside \cup {"unsent", "sent", "loading", "waiting", "ended", "lost"}]
         /\ Placed' /\ PermitsAccounted'
         /\ pc'[m] = "ended"
         /\ \A n \in Msg \ {m} : pc'[n] = pc[n] \/ (pc[n] = "waiting" /\ pc'[n] = "holding")
  <1>0. PICK p, j, q : p = on[m] /\ j = project(m) /\ q = waiting[on[m]][project(m)]
    OBVIOUS
  <1>1. p \in Proc /\ j \in Project /\ q \in Seq(Msg) /\ q = waiting[p][j]
    BY <1>0, ConstantsAssumption DEF Placed, Live, project, TypeOK
  <1>2. m \in Holders(p, j)
    BY <1>0 DEF Holders
  <1>3. permits[p][j] \in 0 .. Limit /\ permits[p][j] + Cardinality(Holders(p, j)) = Limit
    BY <1>1 DEF TypeOK, PermitsAccounted
  <1>4. CASE q = <<>>
    <2>1. /\ permits' = [permits EXCEPT ![p][j] = permits[p][j] + 1]
          /\ pc' = [pc EXCEPT ![m] = "ended"] /\ waiting' = waiting
      BY <1>0, <1>4 DEF Leave
    <2>2. pc'[m] = "ended" /\ \A n \in Msg \ {m} : pc'[n] = pc[n]
      BY <2>1 DEF TypeOK
    <2>3. permits[p][j] + 1 \in 0 .. Limit
      <3>1. PICK c : c = Cardinality(Holders(p, j))
        OBVIOUS
      <3>2. c \in Nat /\ c >= 1
        BY <3>1, <1>2, HoldersFinite
      <3> QED
        BY <3>1, <3>2, <1>3, ConstantsAssumption
    <2>4. permits' \in [Proc -> [Project -> 0 .. Limit]]
      BY <1>1, <2>1, <2>3 DEF TypeOK
    <2>5. /\ permits'[p][j] = permits[p][j] + 1
          /\ \A p1 \in Proc, j1 \in Project : <<p1, j1>> # <<p, j>> => permits'[p1][j1] = permits[p1][j1]
      BY <1>1, <2>1 DEF TypeOK
    <2>6. Holders(p, j)' = Holders(p, j) \ {m}
      BY <2>2, <1>0 DEF Holders, Inside
    <2>7. \A p1 \in Proc, j1 \in Project : <<p1, j1>> # <<p, j>> => Holders(p1, j1)' = Holders(p1, j1)
      BY <2>2, <1>0 DEF Holders
    <2>8. PermitsAccounted'
      <3> SUFFICES ASSUME NEW p1 \in Proc, NEW j1 \in Project
                   PROVE  /\ permits'[p1][j1] + Cardinality(Holders(p1, j1)') = Limit
                          /\ waiting'[p1][j1] # <<>> => permits'[p1][j1] = 0
        BY DEF PermitsAccounted
      <3>1. CASE <<p1, j1>> = <<p, j>>
        <4>1. permits'[p][j] + Cardinality(Holders(p, j)') = Limit
          BY <1>2, <1>3, <2>5, <2>6, HoldersFinite
        <4> QED
          BY <3>1, <4>1, <2>1, <1>1, <1>4
      <3>2. CASE <<p1, j1>> # <<p, j>>
        BY <3>2, <2>1, <2>5, <2>7 DEF PermitsAccounted
      <3> QED
        BY <3>1, <3>2
    <2>9. Placed'
      <3>1. \A n \in Msg : Live(n)' => on'[n] \in Proc
        BY <2>2 DEF Placed, Live, Inside
      <3>2. \A p1 \in Proc, j1 \in Project : \A i \in 1 .. Len(waiting[p1][j1]) :
              waiting[p1][j1][i] \in Msg /\ waiting[p1][j1][i] # m
        BY DEF TypeOK, Placed, Inside
      <3> QED
        BY <2>1, <2>2, <3>1, <3>2 DEF Placed
    <2> QED
      BY <2>1, <2>2, <2>4, <2>8, <2>9 DEF TypeOK
  <1>5. CASE q # <<>>
    <2>0. PICK h : h = Head(q)
      OBVIOUS
    <2>1. /\ waiting' = [waiting EXCEPT ![p][j] = Tail(q)]
          /\ pc' = [pc EXCEPT ![m] = "ended", ![h] = "holding"] /\ permits' = permits
      BY <1>0, <1>5, <2>0 DEF Leave
    <2>2. /\ h = q[1] /\ Len(q) >= 1 /\ h \in Msg /\ Tail(q) \in Seq(Msg) /\ Len(Tail(q)) = Len(q) - 1
          /\ \A i \in 1 .. Len(Tail(q)) : Tail(q)[i] = q[i + 1] /\ i + 1 \in 1 .. Len(q)
      BY <1>1, <1>5, <2>0, HeadTailProperties
    <2>3. pc[h] = "waiting" /\ on[h] = p /\ project(h) = j /\ h # m
      BY <1>1, <2>2 DEF Placed, Inside
    <2>4. /\ pc'[m] = "ended" /\ pc'[h] = "holding"
          /\ \A n \in Msg \ {m, h} : pc'[n] = pc[n]
      BY <2>1, <2>2, <2>3 DEF TypeOK
    <2>5. /\ waiting'[p][j] = Tail(q)
          /\ \A p1 \in Proc, j1 \in Project : <<p1, j1>> # <<p, j>> => waiting'[p1][j1] = waiting[p1][j1]
          /\ waiting' \in [Proc -> [Project -> Seq(Msg)]]
      BY <1>1, <2>1, <2>2 DEF TypeOK
    <2>6. Holders(p, j)' = (Holders(p, j) \ {m}) \cup {h}
      BY <2>2, <2>3, <2>4, <1>0 DEF Holders, Inside
    <2>7. \A p1 \in Proc, j1 \in Project : <<p1, j1>> # <<p, j>> => Holders(p1, j1)' = Holders(p1, j1)
      BY <2>3, <2>4, <1>0 DEF Holders
    <2>8. Cardinality(Holders(p, j)') = Cardinality(Holders(p, j))
      <3>1. h \notin Holders(p, j)
        BY <2>3 DEF Holders, Inside
      <3>2. IsFiniteSet(Holders(p, j) \ {m}) /\ Cardinality(Holders(p, j) \ {m}) = Cardinality(Holders(p, j)) - 1
        BY <1>2, HoldersFinite, FS_Subset
      <3>3. Cardinality((Holders(p, j) \ {m}) \cup {h}) = Cardinality(Holders(p, j) \ {m}) + 1
        BY <3>1, <3>2, FS_AddElement
      <3> QED
        BY <2>6, <3>2, <3>3, HoldersFinite
    <2>9. PermitsAccounted'
      <3> SUFFICES ASSUME NEW p1 \in Proc, NEW j1 \in Project
                   PROVE  /\ permits'[p1][j1] + Cardinality(Holders(p1, j1)') = Limit
                          /\ waiting'[p1][j1] # <<>> => permits'[p1][j1] = 0
        BY DEF PermitsAccounted
      <3>1. CASE <<p1, j1>> = <<p, j>>
        BY <3>1, <1>1, <1>3, <1>5, <2>1, <2>8 DEF PermitsAccounted
      <3>2. CASE <<p1, j1>> # <<p, j>>
        BY <3>2, <2>1, <2>5, <2>7 DEF PermitsAccounted
      <3> QED
        BY <3>1, <3>2
    <2>10. Placed'
      <3>1. \A n \in Msg : Live(n)' => on'[n] \in Proc
        BY <2>3, <2>4, <1>1 DEF Placed, Live, Inside
      <3>2. ASSUME NEW p1 \in Proc, NEW j1 \in Project
            PROVE  /\ \A i \in 1 .. Len(waiting'[p1][j1]) :
                        /\ pc'[waiting'[p1][j1][i]] = "waiting" /\ on'[waiting'[p1][j1][i]] = p1
                        /\ project(waiting'[p1][j1][i]) = j1
                   /\ \A i, k \in 1 .. Len(waiting'[p1][j1]) : waiting'[p1][j1][i] = waiting'[p1][j1][k] => i = k
        <4>1. CASE <<p1, j1>> = <<p, j>>
          <5>1. \A i \in 1 .. Len(Tail(q)) : Tail(q)[i] = q[i + 1] /\ q[i + 1] \in Msg /\ q[i + 1] # h /\ q[i + 1] # m
            BY <1>1, <2>2, <2>3 DEF Placed, Inside
          <5>2. \A i \in 1 .. Len(Tail(q)) : pc'[Tail(q)[i]] = "waiting" /\ on'[Tail(q)[i]] = p /\ project(Tail(q)[i]) = j
            <6>1. \A i \in 1 .. Len(q) : pc[q[i]] = "waiting" /\ on[q[i]] = p /\ project(q[i]) = j
              BY <1>1 DEF Placed
            <6>2. \A i \in 1 .. Len(Tail(q)) : pc[q[i + 1]] = "waiting" /\ on[q[i + 1]] = p /\ project(q[i + 1]) = j
              BY <6>1, <2>2
            <6> QED
              BY <5>1, <6>2, <2>4
          <5>3. \A i, k \in 1 .. Len(Tail(q)) : Tail(q)[i] = Tail(q)[k] => i = k
            <6> SUFFICES ASSUME NEW i \in 1 .. Len(Tail(q)), NEW k \in 1 .. Len(Tail(q)), Tail(q)[i] = Tail(q)[k]
                         PROVE  i = k
              OBVIOUS
            <6>1. i + 1 \in 1 .. Len(q) /\ k + 1 \in 1 .. Len(q) /\ q[i + 1] = q[k + 1]
              BY <2>2
            <6>2. i + 1 = k + 1
              BY <6>1, <1>1 DEF Placed
            <6> QED
              BY <6>2
          <5>4. p1 = p /\ j1 = j /\ waiting'[p1][j1] = Tail(q)
            BY <4>1, <2>5
          <5>5. PICK w : w = Tail(q)
            OBVIOUS
          <5>6. \A i \in 1 .. Len(w) : pc'[w[i]] = "waiting" /\ on'[w[i]] = p1 /\ project(w[i]) = j1
            BY <5>2, <5>4, <5>5
          <5>7. \A i, k \in 1 .. Len(w) : w[i] = w[k] => i = k
            BY <5>3, <5>5
          <5>8. waiting'[p1][j1] = w
            BY <5>4, <5>5
          <5> QED
            BY <5>6, <5>7, <5>8
        <4>2. CASE <<p1, j1>> # <<p, j>>
          <5>1. \A i \in 1 .. Len(waiting[p1][j1]) : waiting[p1][j1][i] \in Msg /\ waiting[p1][j1][i] # h /\ waiting[p1][j1][i] # m
            <6>1. \A i \in 1 .. Len(waiting[p1][j1]) : waiting[p1][j1][i] \in Msg
              BY DEF TypeOK
            <6>2. \A i \in 1 .. Len(waiting[p1][j1]) : waiting[p1][j1][i] # m
              BY DEF Placed, Inside
            <6>3. \A i \in 1 .. Len(waiting[p1][j1]) : waiting[p1][j1][i] # h
              BY <4>2, <2>3 DEF Placed
            <6> QED
              BY <6>1, <6>2, <6>3
          <5>2. /\ \A i \in 1 .. Len(waiting[p1][j1]) :
                     pc[waiting[p1][j1][i]] = "waiting" /\ on[waiting[p1][j1][i]] = p1 /\ project(waiting[p1][j1][i]) = j1
                /\ \A i, k \in 1 .. Len(waiting[p1][j1]) : waiting[p1][j1][i] = waiting[p1][j1][k] => i = k
            BY DEF Placed
          <5>3. waiting'[p1][j1] = waiting[p1][j1]
            BY <4>2, <2>5
          <5> QED
            BY <5>1, <5>2, <5>3, <2>4
        <4> QED
          BY <4>1, <4>2
      <3> QED
        BY <3>1, <3>2 DEF Placed
    <2> QED
      BY <2>1, <2>2, <2>3, <2>4, <2>5, <2>9, <2>10 DEF TypeOK, Inside
  <1> QED
    BY <1>4, <1>5

-----------------------------------------------------------------------------
(* A task that stays within the semaphore, or outside of it. *)
LEMMA InsideMoves ==
  ASSUME TypeOK, Placed, PermitsAccounted, NEW m \in Msg, NEW next \in Inside, pc[m] \in Inside,
         pc' = [pc EXCEPT ![m] = next], UNCHANGED <<on, permits, waiting>>
  PROVE  /\ pc' \in [Msg -> Inside \cup {"unsent", "sent", "loading", "waiting", "ended", "lost"}]
         /\ Placed' /\ PermitsAccounted'
         /\ pc'[m] = next /\ \A n \in Msg \ {m} : pc'[n] = pc[n]
  <1>1. pc'[m] = next /\ \A n \in Msg \ {m} : pc'[n] = pc[n]
    BY DEF TypeOK
  <1>2. \A p, j : Holders(p, j)' = Holders(p, j)
    BY <1>1 DEF Holders
  <1>3. PermitsAccounted'
    BY <1>2 DEF PermitsAccounted
  <1>4. \A n \in Msg : Live(n)' => on'[n] \in Proc
    BY <1>1 DEF Placed, Live
  <1>5. \A p \in Proc, j \in Project : \A i \in 1 .. Len(waiting[p][j]) :
          waiting[p][j][i] \in Msg /\ waiting[p][j][i] # m
    BY DEF TypeOK, Placed, Inside
  <1>6. Placed'
    BY <1>1, <1>4, <1>5 DEF Placed
  <1> QED
    BY <1>1, <1>3, <1>6 DEF TypeOK

Outside == {"unsent", "sent", "loading", "ended"}

LEMMA OutsideMoves ==
  ASSUME TypeOK, Placed, PermitsAccounted, NEW m \in Msg, NEW next \in Outside, pc[m] \in Outside,
         pc' = [pc EXCEPT ![m] = next], UNCHANGED <<permits, waiting>>,
         \/ on' = on /\ next # "loading"
         \/ \E p \in Proc : on' = [on EXCEPT ![m] = p]
  PROVE  /\ pc' \in [Msg -> Inside \cup {"unsent", "sent", "loading", "waiting", "ended", "lost"}]
         /\ on' \in [Msg -> Proc \cup {None}]
         /\ Placed' /\ PermitsAccounted'
         /\ pc'[m] = next /\ \A n \in Msg \ {m} : pc'[n] = pc[n]
  <1>1. pc'[m] = next /\ \A n \in Msg \ {m} : pc'[n] = pc[n] /\ on'[n] = on[n]
    BY DEF TypeOK
  <1>2. on' \in [Msg -> Proc \cup {None}] /\ (next = "loading" => on'[m] \in Proc)
    BY DEF TypeOK
  <1>3. \A p, j : Holders(p, j)' = Holders(p, j)
    BY <1>1 DEF Holders, Outside, Inside
  <1>4. PermitsAccounted'
    BY <1>3 DEF PermitsAccounted
  <1>5. \A n \in Msg : Live(n)' => on'[n] \in Proc
    BY <1>1, <1>2 DEF Placed, Live, Outside, Inside
  <1>6. \A p \in Proc, j \in Project : \A i \in 1 .. Len(waiting[p][j]) :
          waiting[p][j][i] \in Msg /\ waiting[p][j][i] # m
    BY DEF TypeOK, Placed, Outside
  <1>7. Placed'
    BY <1>1, <1>5, <1>6 DEF Placed
  <1>8. pc' \in [Msg -> Inside \cup {"unsent", "sent", "loading", "waiting", "ended", "lost"}]
    BY DEF TypeOK, Outside
  <1> QED
    BY <1>1, <1>2, <1>4, <1>7, <1>8

LEMMA AcquireKeeps ==
  ASSUME TypeOK, Placed, PermitsAccounted, NEW m \in Msg, Acquire(m)
  PROVE  /\ pc' \in [Msg -> Inside \cup {"unsent", "sent", "loading", "waiting", "ended", "lost"}]
         /\ permits' \in [Proc -> [Project -> 0 .. Limit]]
         /\ Placed' /\ PermitsAccounted'
         /\ pc'[m] = "holding" /\ \A n \in Msg \ {m} : pc'[n] = pc[n]
  <1>0. PICK p, j : p = on[m] /\ j = project(m)
    OBVIOUS
  <1>1. p \in Proc /\ j \in Project /\ pc[m] = "loading"
    <2>1. pc[m] = "loading"
      BY DEF Acquire, InTime
    <2>2. p \in Proc
      BY <1>0, <2>1 DEF Placed, Live
    <2> QED
      BY <1>0, <2>1, <2>2, ConstantsAssumption DEF project
  <1>2. /\ permits[p][j] > 0 /\ waiting[p][j] = <<>> /\ permits[p][j] \in 0 .. Limit
        /\ permits' = [permits EXCEPT ![p][j] = permits[p][j] - 1]
        /\ pc' = [pc EXCEPT ![m] = "holding"] /\ UNCHANGED <<on, waiting>>
    BY <1>0, <1>1 DEF Acquire, Free, TypeOK
  <1>3. pc'[m] = "holding" /\ \A n \in Msg \ {m} : pc'[n] = pc[n]
    BY <1>2 DEF TypeOK
  <1>4. permits[p][j] - 1 \in 0 .. Limit
    BY <1>2, ConstantsAssumption
  <1>5. permits' \in [Proc -> [Project -> 0 .. Limit]]
    BY <1>1, <1>2, <1>4 DEF TypeOK
  <1>6. /\ permits'[p][j] = permits[p][j] - 1
        /\ \A p1 \in Proc, j1 \in Project : <<p1, j1>> # <<p, j>> => permits'[p1][j1] = permits[p1][j1]
    BY <1>1, <1>2 DEF TypeOK
  <1>7. m \notin Holders(p, j) /\ Holders(p, j)' = Holders(p, j) \cup {m}
    BY <1>0, <1>1, <1>2, <1>3 DEF Holders, Inside
  <1>8. \A p1 \in Proc, j1 \in Project : <<p1, j1>> # <<p, j>> => Holders(p1, j1)' = Holders(p1, j1)
    BY <1>0, <1>1, <1>2, <1>3 DEF Holders, Inside
  <1>9. PermitsAccounted'
    <2> SUFFICES ASSUME NEW p1 \in Proc, NEW j1 \in Project
                 PROVE  /\ permits'[p1][j1] + Cardinality(Holders(p1, j1)') = Limit
                        /\ waiting'[p1][j1] # <<>> => permits'[p1][j1] = 0
      BY DEF PermitsAccounted
    <2>1. CASE <<p1, j1>> = <<p, j>>
      <3>1. PICK c, d : c = Cardinality(Holders(p, j)) /\ d = Cardinality(Holders(p, j)')
        OBVIOUS
      <3>2. c \in Nat /\ d = c + 1 /\ permits[p][j] + c = Limit
        BY <1>1, <1>7, <3>1, HoldersFinite DEF PermitsAccounted
      <3>3. permits'[p][j] + d = Limit
        BY <1>2, <1>6, <3>2
      <3> QED
        BY <2>1, <3>1, <3>3, <1>2
    <2>2. CASE <<p1, j1>> # <<p, j>>
      BY <2>2, <1>2, <1>6, <1>8 DEF PermitsAccounted
    <2> QED
      BY <2>1, <2>2
  <1>10. Placed'
    <2>1. \A n \in Msg : Live(n)' => on'[n] \in Proc
      BY <1>0, <1>1, <1>2, <1>3 DEF Placed, Live
    <2>2. \A p1 \in Proc, j1 \in Project : \A i \in 1 .. Len(waiting[p1][j1]) :
            waiting[p1][j1][i] \in Msg /\ waiting[p1][j1][i] # m
      BY <1>1 DEF TypeOK, Placed
    <2> QED
      BY <1>2, <1>3, <2>1, <2>2 DEF Placed
  <1> QED
    BY <1>2, <1>3, <1>5, <1>9, <1>10 DEF TypeOK, Inside

LEMMA WaitKeeps ==
  ASSUME TypeOK, Placed, PermitsAccounted, NEW m \in Msg, Wait(m)
  PROVE  /\ pc' \in [Msg -> Inside \cup {"unsent", "sent", "loading", "waiting", "ended", "lost"}]
         /\ waiting' \in [Proc -> [Project -> Seq(Msg)]]
         /\ Placed' /\ PermitsAccounted'
         /\ pc'[m] = "waiting" /\ \A n \in Msg \ {m} : pc'[n] = pc[n]
  <1>0. PICK p, j, q : p = on[m] /\ j = project(m) /\ q = waiting[on[m]][project(m)]
    OBVIOUS
  <1>1. p \in Proc /\ j \in Project /\ pc[m] = "loading" /\ q \in Seq(Msg) /\ q = waiting[p][j]
    <2>1. pc[m] = "loading"
      BY DEF Wait, InTime
    <2>2. p \in Proc
      BY <1>0, <2>1 DEF Placed, Live
    <2>3. j \in Project
      BY <1>0, ConstantsAssumption DEF project
    <2> QED
      BY <1>0, <2>1, <2>2, <2>3 DEF TypeOK
  <1>2. /\ ~(permits[p][j] > 0 /\ q = <<>>) /\ permits[p][j] \in 0 .. Limit
        /\ waiting' = [waiting EXCEPT ![p][j] = Append(q, m)]
        /\ pc' = [pc EXCEPT ![m] = "waiting"] /\ UNCHANGED <<on, permits>>
    BY <1>0, <1>1 DEF Wait, Free, TypeOK
  <1>3. pc'[m] = "waiting" /\ \A n \in Msg \ {m} : pc'[n] = pc[n]
    BY <1>2 DEF TypeOK
  <1>4. /\ Append(q, m) \in Seq(Msg) /\ Len(Append(q, m)) = Len(q) + 1 /\ Len(q) \in Nat
        /\ \A i \in 1 .. Len(q) : Append(q, m)[i] = q[i]
        /\ Append(q, m)[Len(q) + 1] = m
    BY <1>1, AppendProperties
  <1>5. /\ waiting'[p][j] = Append(q, m) /\ waiting' \in [Proc -> [Project -> Seq(Msg)]]
        /\ \A p1 \in Proc, j1 \in Project : <<p1, j1>> # <<p, j>> => waiting'[p1][j1] = waiting[p1][j1]
    BY <1>1, <1>2, <1>4 DEF TypeOK
  <1>6. \A p1, j1 : Holders(p1, j1)' = Holders(p1, j1)
    BY <1>1, <1>2, <1>3 DEF Holders, Inside
  <1>7. permits[p][j] = 0
    BY <1>1, <1>2 DEF PermitsAccounted
  <1>8. PermitsAccounted'
    <2> SUFFICES ASSUME NEW p1 \in Proc, NEW j1 \in Project
                 PROVE  /\ permits'[p1][j1] + Cardinality(Holders(p1, j1)') = Limit
                        /\ waiting'[p1][j1] # <<>> => permits'[p1][j1] = 0
      BY DEF PermitsAccounted
    <2>1. CASE <<p1, j1>> = <<p, j>>
      BY <2>1, <1>1, <1>2, <1>6, <1>7 DEF PermitsAccounted
    <2>2. CASE <<p1, j1>> # <<p, j>>
      BY <2>2, <1>2, <1>5, <1>6 DEF PermitsAccounted
    <2> QED
      BY <2>1, <2>2
  <1>9. \A p1 \in Proc, j1 \in Project : \A i \in 1 .. Len(waiting[p1][j1]) :
          /\ waiting[p1][j1][i] \in Msg /\ waiting[p1][j1][i] # m
          /\ pc[waiting[p1][j1][i]] = "waiting" /\ on[waiting[p1][j1][i]] = p1 /\ project(waiting[p1][j1][i]) = j1
    BY <1>1 DEF TypeOK, Placed
  <1>10. Placed'
    <2>1. \A n \in Msg : Live(n)' => on'[n] \in Proc
      BY <1>0, <1>1, <1>2, <1>3 DEF Placed, Live
    <2>2. ASSUME NEW p1 \in Proc, NEW j1 \in Project
          PROVE  /\ \A i \in 1 .. Len(waiting'[p1][j1]) :
                      /\ pc'[waiting'[p1][j1][i]] = "waiting" /\ on'[waiting'[p1][j1][i]] = p1
                      /\ project(waiting'[p1][j1][i]) = j1
                 /\ \A i, k \in 1 .. Len(waiting'[p1][j1]) : waiting'[p1][j1][i] = waiting'[p1][j1][k] => i = k
      <3>1. CASE <<p1, j1>> # <<p, j>>
        <4>1. waiting'[p1][j1] = waiting[p1][j1]
          BY <3>1, <1>5
        <4>2. \A i, k \in 1 .. Len(waiting[p1][j1]) : waiting[p1][j1][i] = waiting[p1][j1][k] => i = k
          BY DEF Placed
        <4> QED
          BY <4>1, <4>2, <1>2, <1>3, <1>9
      <3>2. CASE <<p1, j1>> = <<p, j>>
        <4>1. p1 = p /\ j1 = j /\ waiting'[p1][j1] = Append(q, m)
          BY <3>2, <1>5
        <4>2. \A i \in 1 .. Len(q) : q[i] \in Msg /\ q[i] # m /\ pc[q[i]] = "waiting" /\ on[q[i]] = p /\ project(q[i]) = j
          BY <1>1, <1>9
        <4>3. \A i, k \in 1 .. Len(q) : q[i] = q[k] => i = k
          BY <1>1 DEF Placed
        <4>4. \A i \in 1 .. Len(q) + 1 :
                pc'[Append(q, m)[i]] = "waiting" /\ on'[Append(q, m)[i]] = p /\ project(Append(q, m)[i]) = j
          <5> SUFFICES ASSUME NEW i \in 1 .. Len(q) + 1
                       PROVE  pc'[Append(q, m)[i]] = "waiting" /\ on'[Append(q, m)[i]] = p /\ project(Append(q, m)[i]) = j
            OBVIOUS
          <5>1. CASE i = Len(q) + 1
            BY <5>1, <1>0, <1>2, <1>3, <1>4
          <5>2. CASE i \in 1 .. Len(q)
            BY <5>2, <4>2, <1>2, <1>3, <1>4
          <5> QED
            BY <5>1, <5>2, <1>4
        <4>5. \A i, k \in 1 .. Len(q) + 1 : Append(q, m)[i] = Append(q, m)[k] => i = k
          <5> SUFFICES ASSUME NEW i \in 1 .. Len(q) + 1, NEW k \in 1 .. Len(q) + 1, Append(q, m)[i] = Append(q, m)[k]
                       PROVE  i = k
            OBVIOUS
          <5>1. i \in 1 .. Len(q) \/ i = Len(q) + 1
            BY <1>4
          <5>2. k \in 1 .. Len(q) \/ k = Len(q) + 1
            BY <1>4
          <5> QED
            BY <5>1, <5>2, <4>2, <4>3, <1>4
        <4> QED
          BY <4>1, <4>4, <4>5, <1>4
      <3> QED
        BY <3>1, <3>2
    <2> QED
      BY <2>1, <2>2 DEF Placed
  <1> QED
    BY <1>2, <1>3, <1>5, <1>8, <1>10 DEF TypeOK

LEMMA CrashKeeps ==
  ASSUME TypeOK, Placed, PermitsAccounted, NEW p \in Proc, Crash(p)
  PROVE  /\ TypeOK' /\ Placed' /\ PermitsAccounted'
         /\ \A m \in Msg : pc'[m] = pc[m] \/ (on[m] = p /\ pc'[m] = "lost")
  <1>1. \A m \in Msg : pc'[m] = IF on[m] = p /\ Live(m) THEN "lost" ELSE pc[m]
    BY DEF Crash
  <1>2. pc' \in [Msg -> Inside \cup {"unsent", "sent", "loading", "waiting", "ended", "lost"}]
    BY DEF Crash, TypeOK
  <1>3. /\ permits' = [permits EXCEPT ![p] = [j \in Project |-> Limit]]
        /\ waiting' = [waiting EXCEPT ![p] = [j \in Project |-> <<>>]]
        /\ on' = on
    BY DEF Crash
  <1>4. /\ \A j \in Project : permits'[p][j] = Limit /\ waiting'[p][j] = <<>>
        /\ \A p1 \in Proc \ {p} : permits'[p1] = permits[p1] /\ waiting'[p1] = waiting[p1]
    BY <1>3 DEF TypeOK
  <1>5. TypeOK'
    <2>1. <<>> \in Seq(Msg) /\ Limit \in 0 .. Limit
      BY ConstantsAssumption
    <2>2. permits' \in [Proc -> [Project -> 0 .. Limit]]
      BY <1>3, <2>1 DEF TypeOK
    <2>3. waiting' \in [Proc -> [Project -> Seq(Msg)]]
      BY <1>3, <2>1 DEF TypeOK
    <2>4. crashes' \in 0 .. MaxCrashes
      BY ConstantsAssumption DEF Crash, TypeOK
    <2>5. orphaned' \subseteq Scan
      BY ConstantsAssumption DEF Crash, TypeOK
    <2>6. UNCHANGED <<status, overdue, on>>
      BY DEF Crash
    <2> QED
      BY <1>2, <2>2, <2>3, <2>4, <2>5, <2>6 DEF TypeOK
  <1>6. \A j \in Project : Holders(p, j)' = {}
    BY <1>1, <1>3 DEF Holders, Live, Inside
  <1>7. \A p1 \in Proc \ {p}, j \in Project : Holders(p1, j)' = Holders(p1, j)
    BY <1>1, <1>3 DEF Holders, Live, Inside
  <1>8. PermitsAccounted'
    <2> SUFFICES ASSUME NEW p1 \in Proc, NEW j1 \in Project
                 PROVE  /\ permits'[p1][j1] + Cardinality(Holders(p1, j1)') = Limit
                        /\ waiting'[p1][j1] # <<>> => permits'[p1][j1] = 0
      BY DEF PermitsAccounted
    <2>1. CASE p1 = p
      <3>1. Holders(p1, j1)' = {}
        BY <2>1, <1>6
      <3>2. Cardinality({}) = 0
        BY FS_EmptySet
      <3>3. Cardinality(Holders(p1, j1)') = 0
        BY <3>1, <3>2
      <3> QED
        BY <2>1, <1>4, <3>3, ConstantsAssumption
    <2>2. CASE p1 # p
      BY <2>2, <1>4, <1>7 DEF PermitsAccounted
    <2> QED
      BY <2>1, <2>2
  <1>9. Placed'
    <2>1. \A m \in Msg : Live(m)' => on'[m] \in Proc
      BY <1>1, <1>3 DEF Placed, Live
    <2>2. ASSUME NEW p1 \in Proc, NEW j1 \in Project
          PROVE  /\ \A i \in 1 .. Len(waiting'[p1][j1]) :
                      /\ pc'[waiting'[p1][j1][i]] = "waiting" /\ on'[waiting'[p1][j1][i]] = p1
                      /\ project(waiting'[p1][j1][i]) = j1
                 /\ \A i, k \in 1 .. Len(waiting'[p1][j1]) : waiting'[p1][j1][i] = waiting'[p1][j1][k] => i = k
      <3>1. CASE p1 = p
        <4>1. waiting'[p1][j1] = <<>> /\ 1 .. Len(<<>>) = {}
          BY <3>1, <1>4
        <4> QED
          BY <4>1
      <3>2. CASE p1 # p
        <4>1. waiting'[p1][j1] = waiting[p1][j1]
          BY <3>2, <1>4
        <4>2. \A i \in 1 .. Len(waiting[p1][j1]) : waiting[p1][j1][i] \in Msg
          BY DEF TypeOK
        <4>3. \A i \in 1 .. Len(waiting[p1][j1]) :
                pc[waiting[p1][j1][i]] = "waiting" /\ on[waiting[p1][j1][i]] = p1 /\ project(waiting[p1][j1][i]) = j1
          BY DEF Placed
        <4>4. \A i, k \in 1 .. Len(waiting[p1][j1]) : waiting[p1][j1][i] = waiting[p1][j1][k] => i = k
          BY DEF Placed
        <4> QED
          BY <3>2, <4>1, <4>2, <4>3, <4>4, <1>1, <1>3
      <3> QED
        BY <3>1, <3>2
    <2> QED
      BY <2>1, <2>2 DEF Placed
  <1> QED
    BY <1>1, <1>5, <1>8, <1>9

-----------------------------------------------------------------------------
(* How a step of one task bears on the rows.  The others stay where they   *)
(* are, but for one that may be woken.                                     *)
OthersStay(m) == \A n \in Msg \ {m} : pc'[n] = pc[n] \/ (pc[n] = "waiting" /\ pc'[n] = "holding")

LEMMA NoRowWritten ==
  ASSUME IInv, NEW m \in Msg, OthersStay(m), status' = status, orphaned \subseteq orphaned',
         pc[m] \in {"working", "failing"} =>
           pc'[m] \in {"working", "failing"} \/ scanOf[m] \in orphaned',
         pc[m] \in {"attesting", "signing", "ended", "lost"} => pc'[m] \in {"attesting", "signing", "ended", "lost"}
  PROVE  RunningIsWorkedOn' /\ Settled'
  <1>1. RunningIsWorkedOn'
    BY DEF IInv, RunningIsWorkedOn, OthersStay
  <1>2. Settled'
    BY DEF IInv, Settled, OthersStay, SentOnce
  <1> QED
    BY <1>1, <1>2

LEMMA RowWritten ==
  ASSUME IInv, NEW m \in Msg, NEW value \in {"running", "completed", "failed"},
         OthersStay(m), orphaned' = orphaned, status' = [status EXCEPT ![scanOf[m]] = value],
         value = "running" => pc'[m] = "working",
         value # "running" => pc'[m] \in {"attesting", "ended"}
  PROVE  RunningIsWorkedOn' /\ Settled'
  <1>1. scanOf[m] \in Scan /\ status'[scanOf[m]] = value /\ \A s \in Scan \ {scanOf[m]} : status'[s] = status[s]
    BY ConstantsAssumption DEF IInv, TypeOK
  <1>2. RunningIsWorkedOn'
    <2> SUFFICES ASSUME NEW s \in Scan, status'[s] = "running", s \notin orphaned
                 PROVE  \E n \in Msg : scanOf[n] = s /\ pc'[n] \in {"working", "failing"}
      BY DEF RunningIsWorkedOn
    <2>1. CASE s = scanOf[m]
      BY <1>1, <2>1
    <2>2. CASE s # scanOf[m]
      BY <1>1, <2>2 DEF IInv, RunningIsWorkedOn, OthersStay
    <2> QED
      BY <2>1, <2>2
  <1>3. Settled'
    <2> SUFFICES ASSUME NEW n \in Msg, SentOnce(scanOf[n]), status'[scanOf[n]] \in {"completed", "failed"}
                 PROVE  pc'[n] \in {"attesting", "signing", "ended", "lost"}
      BY DEF Settled, SentOnce
    <2>1. CASE n = m
      BY <1>1, <2>1
    <2>2. CASE n # m
      <3>1. scanOf[n] # scanOf[m]
        BY <2>2 DEF SentOnce
      <3>2. status[scanOf[n]] \in {"completed", "failed"}
        BY <1>1, <3>1, ConstantsAssumption
      <3> QED
        BY <2>2, <3>2 DEF IInv, Settled, OthersStay
    <2> QED
      BY <2>1, <2>2
  <1> QED
    BY <1>2, <1>3

-----------------------------------------------------------------------------
LEMMA InitIInv == Init => IInv
  <1> SUFFICES ASSUME Init PROVE IInv
    OBVIOUS
  <1>1. <<>> \in Seq(Msg) /\ Len(<<>>) = 0 /\ 1 .. 0 = {} /\ Limit \in 0 .. Limit /\ 0 \in 0 .. MaxCrashes
    BY ConstantsAssumption
  <1>2. TypeOK
    BY <1>1 DEF Init, TypeOK
  <1>3. Placed
    <2>1. \A m \in Msg : ~Live(m)
      BY DEF Init, Live, Inside
    <2>2. \A p \in Proc, j \in Project : waiting[p][j] = <<>>
      BY DEF Init
    <2>3. \A p \in Proc, j \in Project : 1 .. Len(waiting[p][j]) = {}
      BY <1>1, <2>2
    <2> QED
      BY <2>1, <2>3 DEF Placed
  <1>4. PermitsAccounted
    <2> SUFFICES ASSUME NEW p \in Proc, NEW j \in Project
                 PROVE  permits[p][j] + Cardinality(Holders(p, j)) = Limit /\ waiting[p][j] = <<>>
      BY DEF PermitsAccounted
    <2>1. Holders(p, j) = {} /\ permits[p][j] = Limit /\ waiting[p][j] = <<>>
      BY DEF Init, Holders, Inside
    <2>2. Cardinality({}) = 0
      BY FS_EmptySet
    <2>3. Cardinality(Holders(p, j)) = 0
      BY <2>1, <2>2
    <2> QED
      BY <2>1, <2>3, ConstantsAssumption
  <1>5. RunningIsWorkedOn /\ Settled
    BY ConstantsAssumption DEF Init, RunningIsWorkedOn, Settled
  <1> QED
    BY <1>2, <1>3, <1>4, <1>5 DEF IInv

(* The steps of the broker. *)
LEMMA BrokerKeeps ==
  ASSUME IInv, NEW m \in Msg, Send(m) \/ \E p \in Proc : Receive(m, p)
  PROVE  IInv'
  <1>1. /\ UNCHANGED <<status, overdue, permits, waiting, crashes, orphaned>>
        /\ pc[m] \in {"unsent", "sent"}
    BY DEF Send, Receive, semaphores
  <1>2. PICK next \in {"sent", "loading"} :
          /\ pc' = [pc EXCEPT ![m] = next]
          /\ (on' = on /\ next # "loading") \/ \E p \in Proc : on' = [on EXCEPT ![m] = p]
    BY DEF Send, Receive
  <1>3. /\ pc' \in [Msg -> Inside \cup {"unsent", "sent", "loading", "waiting", "ended", "lost"}]
        /\ on' \in [Msg -> Proc \cup {None}]
        /\ Placed' /\ PermitsAccounted'
        /\ pc'[m] = next /\ \A n \in Msg \ {m} : pc'[n] = pc[n]
    BY <1>1, <1>2, OutsideMoves DEF IInv, Outside
  <1>4. TypeOK'
    BY <1>1, <1>3 DEF IInv, TypeOK
  <1>5. RunningIsWorkedOn' /\ Settled'
    BY <1>1, <1>3, NoRowWritten DEF OthersStay
  <1> QED
    BY <1>3, <1>4, <1>5 DEF IInv

(* The steps of a task before it holds a permit. *)
LEMMA EntryKeeps ==
  ASSUME IInv, NEW m \in Msg, RowMissing(m) \/ LoadFails(m) \/ TimeOut(m) \/ Acquire(m) \/ Wait(m)
  PROVE  IInv'
  <1>0. pc[m] = "loading" /\ scanOf[m] \in Scan
    BY ConstantsAssumption DEF RowMissing, LoadFails, TimeOut, Acquire, Wait, InTime
  <1>1. CASE RowMissing(m) \/ LoadFails(m) \/ TimeOut(m)
    <2>1. /\ UNCHANGED <<overdue, on, permits, waiting, crashes, orphaned>>
          /\ pc' = [pc EXCEPT ![m] = "ended"]
      BY <1>1 DEF RowMissing, LoadFails, TimeOut, semaphores
    <2>2. /\ pc' \in [Msg -> Inside \cup {"unsent", "sent", "loading", "waiting", "ended", "lost"}]
          /\ Placed' /\ PermitsAccounted'
          /\ pc'[m] = "ended" /\ \A n \in Msg \ {m} : pc'[n] = pc[n]
      BY <1>0, <2>1, OutsideMoves DEF IInv, Outside
    <2>3. TypeOK'
      BY <1>1, <2>1, <2>2 DEF IInv, TypeOK, RowMissing, LoadFails, TimeOut
    <2>4. RunningIsWorkedOn' /\ Settled'
      <3>1. OthersStay(m)
        BY <2>2 DEF OthersStay
      <3>2. CASE RowMissing(m) \/ LoadFails(m)
        <4>1. status' = status
          BY <3>2 DEF RowMissing, LoadFails
        <4> QED
          BY <1>0, <2>1, <2>2, <3>1, <4>1, NoRowWritten
      <3>3. CASE TimeOut(m)
        <4>1. status' = [status EXCEPT ![scanOf[m]] = "failed"]
          BY <3>3 DEF TimeOut
        <4> QED
          BY <2>1, <2>2, <3>1, <4>1, RowWritten
      <3> QED
        BY <1>1, <3>2, <3>3
    <2> QED
      BY <2>2, <2>3, <2>4 DEF IInv
  <1>2. CASE Acquire(m)
    <2>1. UNCHANGED <<status, overdue, on, waiting, crashes, orphaned>>
      BY <1>2 DEF Acquire
    <2>2. /\ pc' \in [Msg -> Inside \cup {"unsent", "sent", "loading", "waiting", "ended", "lost"}]
          /\ permits' \in [Proc -> [Project -> 0 .. Limit]]
          /\ Placed' /\ PermitsAccounted'
          /\ pc'[m] = "holding" /\ \A n \in Msg \ {m} : pc'[n] = pc[n]
      BY <1>2, AcquireKeeps DEF IInv
    <2>3. TypeOK'
      BY <2>1, <2>2 DEF IInv, TypeOK
    <2>4. RunningIsWorkedOn' /\ Settled'
      BY <1>0, <2>1, <2>2, NoRowWritten DEF OthersStay
    <2> QED
      BY <2>2, <2>3, <2>4 DEF IInv
  <1>3. CASE Wait(m)
    <2>1. UNCHANGED <<status, overdue, on, permits, crashes, orphaned>>
      BY <1>3 DEF Wait
    <2>2. /\ pc' \in [Msg -> Inside \cup {"unsent", "sent", "loading", "waiting", "ended", "lost"}]
          /\ waiting' \in [Proc -> [Project -> Seq(Msg)]]
          /\ Placed' /\ PermitsAccounted'
          /\ pc'[m] = "waiting" /\ \A n \in Msg \ {m} : pc'[n] = pc[n]
      BY <1>3, WaitKeeps DEF IInv
    <2>3. TypeOK'
      BY <2>1, <2>2 DEF IInv, TypeOK
    <2>4. RunningIsWorkedOn' /\ Settled'
      BY <1>0, <2>1, <2>2, NoRowWritten DEF OthersStay
    <2> QED
      BY <2>2, <2>3, <2>4 DEF IInv
  <1> QED
    BY <1>1, <1>2, <1>3

(* The steps of a task that keeps its permit. *)
LEMMA HoldingKeeps ==
  ASSUME IInv, NEW m \in Msg, StillQueued(m) \/ Start(m) \/ Finish(m) \/ WorkFails(m) \/ RunCosign(m)
  PROVE  IInv'
  <1>1. PICK next \in {"checked", "working", "attesting", "signing", "failing"} : pc' = [pc EXCEPT ![m] = next]
    BY DEF StillQueued, Start, Finish, WorkFails, RunCosign
  <1>2. pc[m] \in Inside /\ UNCHANGED <<overdue, on, permits, waiting, crashes, orphaned>>
    BY DEF StillQueued, Start, Finish, WorkFails, RunCosign, semaphores, Inside
  <1>3. /\ pc' \in [Msg -> Inside \cup {"unsent", "sent", "loading", "waiting", "ended", "lost"}]
        /\ Placed' /\ PermitsAccounted'
        /\ pc'[m] = next /\ \A n \in Msg \ {m} : pc'[n] = pc[n]
    <2>1. next \in Inside
      BY DEF Inside
    <2> QED
      BY <1>1, <1>2, <2>1, InsideMoves DEF IInv
  <1>4. scanOf[m] \in Scan /\ OthersStay(m)
    BY <1>3, ConstantsAssumption DEF OthersStay
  <1>5. TypeOK'
    <2>1. status' \in [Scan -> {"absent", "queued", "running", "completed", "failed"}]
      BY DEF IInv, TypeOK, StillQueued, Start, Finish, WorkFails, RunCosign
    <2> QED
      BY <1>2, <1>3, <2>1 DEF IInv, TypeOK
  <1>6. RunningIsWorkedOn' /\ Settled'
    <2>1. CASE StillQueued(m) \/ WorkFails(m) \/ RunCosign(m)
      <3>1. /\ status' = status /\ pc[m] \in {"holding", "working", "attesting"}
            /\ pc[m] = "working" => pc'[m] = "failing"
            /\ pc[m] = "attesting" => pc'[m] = "signing"
        BY <2>1, <1>3 DEF StillQueued, WorkFails, RunCosign, IInv, TypeOK
      <3> QED
        BY <1>2, <1>4, <3>1, NoRowWritten
    <2>2. CASE Start(m)
      <3>1. status' = [status EXCEPT ![scanOf[m]] = "running"] /\ pc'[m] = "working"
        BY <2>2 DEF Start, IInv, TypeOK
      <3> QED
        BY <1>2, <1>4, <3>1, RowWritten
    <2>3. CASE Finish(m)
      <3>1. status' = [status EXCEPT ![scanOf[m]] = "completed"] /\ pc'[m] = "attesting"
        BY <2>3 DEF Finish, IInv, TypeOK
      <3> QED
        BY <1>2, <1>4, <3>1, RowWritten
    <2> QED
      BY <2>1, <2>2, <2>3
  <1> QED
    BY <1>3, <1>5, <1>6 DEF IInv

(* The steps that leave the semaphore. *)
LEMMA LeavingKeeps ==
  ASSUME IInv, NEW m \in Msg, Skip(m) \/ StartFails(m) \/ MarkFailed(m) \/ MarkFails(m) \/ Attest(m) \/ CosignExits(m)
  PROVE  IInv'
  <1>1. /\ Leave(m) /\ pc[m] \in Inside
        /\ UNCHANGED <<overdue, on, crashes>>
    BY DEF Skip, StartFails, MarkFailed, MarkFails, Attest, CosignExits, Inside
  <1>2. /\ permits' \in [Proc -> [Project -> 0 .. Limit]]
        /\ waiting' \in [Proc -> [Project -> Seq(Msg)]]
        /\ pc' \in [Msg -> Inside \cup {"unsent", "sent", "loading", "waiting", "ended", "lost"}]
        /\ Placed' /\ PermitsAccounted' /\ pc'[m] = "ended"
    BY <1>1, LeaveKeeps DEF IInv
  <1>3. OthersStay(m)
    BY <1>1, LeaveKeeps DEF IInv, OthersStay
  <1>4. scanOf[m] \in Scan
    BY ConstantsAssumption
  <1>5. TypeOK'
    <2>1. status' \in [Scan -> {"absent", "queued", "running", "completed", "failed"}]
      BY DEF IInv, TypeOK, Skip, StartFails, MarkFailed, MarkFails, Attest, CosignExits
    <2>2. orphaned' \subseteq Scan
      BY <1>4 DEF IInv, TypeOK, Skip, StartFails, MarkFailed, MarkFails, Attest, CosignExits
    <2> QED
      BY <1>1, <1>2, <2>1, <2>2 DEF IInv, TypeOK
  <1>6. RunningIsWorkedOn' /\ Settled'
    <2>1. CASE MarkFailed(m)
      <3>1. status' = [status EXCEPT ![scanOf[m]] = "failed"] /\ orphaned' = orphaned
        BY <2>1 DEF MarkFailed
      <3> QED
        BY <1>2, <1>3, <3>1, RowWritten
    <2>2. CASE MarkFails(m)
      <3>1. status' = status /\ orphaned' = orphaned \cup {scanOf[m]}
        BY <2>2 DEF MarkFails
      <3> QED
        BY <1>2, <1>3, <3>1, NoRowWritten
    <2>3. CASE Skip(m) \/ StartFails(m) \/ Attest(m) \/ CosignExits(m)
      <3>1. status' = status /\ orphaned' = orphaned /\ pc[m] \notin {"working", "failing"}
        BY <2>3 DEF Skip, StartFails, Attest, CosignExits
      <3> QED
        BY <1>2, <1>3, <3>1, NoRowWritten
    <2> QED
      BY <2>1, <2>2, <2>3
  <1> QED
    BY <1>2, <1>5, <1>6 DEF IInv

LEMMA DyingKeeps ==
  ASSUME IInv, NEW p \in Proc, Crash(p)
  PROVE  IInv'
  <1>1. /\ TypeOK' /\ Placed' /\ PermitsAccounted'
        /\ \A m \in Msg : pc'[m] = pc[m] \/ (on[m] = p /\ pc'[m] = "lost")
    BY CrashKeeps DEF IInv
  <1>2. /\ status' = status
        /\ orphaned' = orphaned \cup {scanOf[m] : m \in {n \in Msg : on[n] = p /\ pc[n] \in {"working", "failing"}}}
    BY DEF Crash
  <1>3. RunningIsWorkedOn'
    BY <1>1, <1>2 DEF IInv, RunningIsWorkedOn
  <1>4. Settled'
    BY <1>1, <1>2 DEF IInv, Settled, SentOnce
  <1> QED
    BY <1>1, <1>3, <1>4 DEF IInv

LEMMA NextKeeps ==
  ASSUME IInv, [Next]_vars
  PROVE  IInv'
  <1>1. ASSUME NEW s \in Scan, Create(s) \/ Age(s)
        PROVE  IInv'
    <2>1. UNCHANGED <<pc, on, permits, waiting, crashes, orphaned>>
      BY <1>1 DEF Create, Age, semaphores
    <2>2. TypeOK'
      BY <1>1, <2>1 DEF IInv, TypeOK, Create, Age
    <2>3. Placed' /\ PermitsAccounted'
      BY <2>1 DEF IInv, Placed, PermitsAccounted, Live, Holders
    <2>4. \A t \in Scan : status'[t] = status[t] \/ status'[t] = "queued"
      BY <1>1 DEF IInv, TypeOK, Create, Age
    <2>5. RunningIsWorkedOn'
      BY <2>1, <2>4 DEF IInv, RunningIsWorkedOn
    <2>6. Settled'
      BY <2>1, <2>4, ConstantsAssumption DEF IInv, Settled, SentOnce
    <2> QED
      BY <2>2, <2>3, <2>5, <2>6 DEF IInv
  <1>2. ASSUME NEW m \in Msg, Send(m) \/ \E p \in Proc : Receive(m, p)
        PROVE  IInv'
    BY <1>2, BrokerKeeps
  <1>3. ASSUME NEW m \in Msg, Step(m)
        PROVE  IInv'
    BY <1>3, EntryKeeps, HoldingKeeps, LeavingKeeps DEF Step
  <1>6. ASSUME NEW m \in Msg, CosignExits(m)
        PROVE  IInv'
    BY <1>6, LeavingKeeps
  <1>4. ASSUME NEW p \in Proc, Crash(p)
        PROVE  IInv'
    BY <1>4, DyingKeeps
  <1>5. CASE UNCHANGED vars
    <2>1. UNCHANGED <<status, overdue, pc, on, permits, waiting, crashes, orphaned>>
      BY <1>5 DEF vars
    <2>2. TypeOK' /\ RunningIsWorkedOn' /\ Settled'
      BY <2>1 DEF IInv, TypeOK, RunningIsWorkedOn, Settled, SentOnce
    <2>3. \A p \in Proc, j \in Project : Holders(p, j)' = Holders(p, j)
      BY <2>1 DEF Holders
    <2>4. Placed' /\ PermitsAccounted'
      BY <2>1, <2>3 DEF IInv, Placed, PermitsAccounted, Live
    <2> QED
      BY <2>2, <2>4 DEF IInv
  <1> QED
    BY <1>1, <1>2, <1>3, <1>4, <1>5, <1>6 DEF Next

-----------------------------------------------------------------------------
(* The invariant the theorems below rest on holds in every reachable state *)
(* of the workers: permits, queues, rows and tasks agree.                  *)
THEOREM InductiveInvariant == Spec => []IInv
  BY InitIInv, NextKeeps, PTL DEF Spec

(* Every variable of the worker has its type always; with permits in 0 ..  *)
(* Limit, no path through run_scan gives a permit back twice.              *)
THEOREM TypeCorrect == Spec => []TypeOK
  BY InductiveInvariant, PTL DEF IInv

(* Whatever way tasks end, early return, failed commit, failed work or     *)
(* crash, no permit of a project's semaphore is lost or doubled, and none  *)
(* is free while a task waits for one.                                     *)
THEOREM PermitsKept == Spec => []PermitsAccounted
  BY InductiveInvariant, PTL DEF IInv

(* A scan whose row says running is worked on, but for crashes and failed  *)
(* commits: every other way out of run_scan writes the outcome.            *)
THEOREM RunningWorkedOn == Spec => []RunningIsWorkedOn
  BY InductiveInvariant, PTL DEF IInv

(* Completed or failed is final for a scan that was sent once: no later    *)
(* step of run_scan, its attestation included, rewrites the row.           *)
THEOREM OutcomeFinal == Spec => OutcomeStands
  <1>1. ASSUME IInv, [Next]_vars, NEW s \in Scan, SentOnce(s), status[s] \in {"completed", "failed"}
        PROVE  status'[s] = status[s]
    <2>1. \A m \in Msg : scanOf[m] = s => pc[m] \in {"attesting", "signing", "ended", "lost"}
      BY <1>1 DEF IInv, Settled
    <2>2. ASSUME NEW t \in Scan, Create(t) \/ Age(t)
          PROVE  status'[s] = status[s]
      BY <1>1, <2>2 DEF IInv, TypeOK, Create, Age
    <2>3. ASSUME NEW m \in Msg, Send(m) \/ (\E p \in Proc : Receive(m, p))
          PROVE  status'[s] = status[s]
      BY <2>3 DEF Send, Receive
    <2>4. ASSUME NEW m \in Msg, Step(m)
          PROVE  status'[s] = status[s]
      <3>1. CASE scanOf[m] = s
        BY <2>1, <2>4, <3>1 DEF Step, RowMissing, LoadFails, TimeOut, Acquire, Wait, InTime, Skip, StillQueued,
             Start, StartFails, Finish, WorkFails, MarkFailed, MarkFails, Attest, RunCosign
      <3>2. CASE scanOf[m] # s
        BY <1>1, <2>4, <3>2 DEF IInv, TypeOK, Step, RowMissing, LoadFails, TimeOut, Acquire, Wait, Skip, StillQueued,
             Start, StartFails, Finish, WorkFails, MarkFailed, MarkFails, Attest, RunCosign
      <3> QED
        BY <3>1, <3>2
    <2>7. ASSUME NEW m \in Msg, CosignExits(m)
          PROVE  status'[s] = status[s]
      BY <2>7 DEF CosignExits
    <2>5. ASSUME NEW p \in Proc, Crash(p)
          PROVE  status'[s] = status[s]
      BY <2>5 DEF Crash
    <2>6. CASE UNCHANGED vars
      BY <2>6 DEF vars
    <2> QED
      BY <1>1, <2>2, <2>3, <2>4, <2>5, <2>6, <2>7 DEF Next
  <1>2. IInv /\ [Next]_vars =>
          [\A s \in Scan : (SentOnce(s) /\ status[s] \in {"completed", "failed"}) => status'[s] = status[s]]_vars
    BY <1>1
  <1> QED
    BY <1>2, InductiveInvariant, PTL DEF Spec, OutcomeStands
=============================================================================
