--------------------------- MODULE ScanWalkProofs ---------------------------
(***************************************************************************)
(* Proofs about ScanWalk, for every tree, option set, scanner set and pool *)
(* size: the type invariant, the exclusive ownership of jobs and result    *)
(* slots, the completeness of what is collected, that no slot is written   *)
(* twice, and that the scan implements the safety part of the sequential   *)
(* specification.                                                          *)
(*                                                                         *)
(* The first half is about who holds what (IInv) and never opens a job or  *)
(* a result; the second is about what is in them (Data), by induction over *)
(* the order of the entries and of the scanners.                           *)
(***************************************************************************)
EXTENDS ScanWalk, TLAPS, SequenceTheorems, WellFoundedInduction, FiniteSetTheorems

(* Nothing of the pool exists before the walk has ended. *)
BeforePool ==
  pc = "walk" => /\ \A w \in Workers : worker[w] = "off"
                 /\ queue = <<>> /\ next = 1 /\ results = <<>>

AfterPool == pc # "walk" => Len(results) = Len(jobs) /\ worker[1] # "off"

(* Position 0 is only planned for a file that has a language scanner. *)
Planned ==
  /\ \A i \in Jobs : 0 \in jobs[i].scanners => Tree[jobs[i].entry].scanner # NoScanner
  /\ \A w \in Workers : worker[w] = "scan" => todo[w] \subseteq jobs[job[w]].scanners

(* What is in the channel, in a worker's hands or in a slot was enqueued,  *)
(* and what was enqueued is in one of those places.                        *)
Enqueued ==
  /\ \A w \in Workers : Busy(w) => job[w] \in Jobs /\ job[w] < next
  /\ \A k \in 1 .. Len(queue) : queue[k] < next
  /\ \A i \in Jobs : Stored(i) => i < next

NoneLost ==
  \A i \in Jobs : i < next =>
    (\E k \in 1 .. Len(queue) : queue[k] = i) \/ Held(i) \/ Stored(i)

Shutdown ==
  /\ closed => pc \in {"wait", "done"}
  /\ pc \in {"wait", "done"} => closed
  /\ closed => next = Len(jobs) + 1
  /\ \A w \in Workers : worker[w] = "exited" => closed /\ queue = <<>>
  /\ pc = "done" => \A w \in Workers : worker[w] \in {"off", "exited"}

IInv == TypeOK /\ OneOwner /\ BeforePool /\ AfterPool /\ Planned /\ Enqueued /\ NoneLost /\ Shutdown

-----------------------------------------------------------------------------
LEMMA UnsetIsNoResult == \A r \in JobResult : r # Unset
  BY DEF JobResult, Unset

LEMMA NumWorkersBounds ==
  ASSUME NEW n \in Nat PROVE NumWorkers(n) \in Nat /\ NumWorkers(n) >= 1
  BY PoolAssumption DEF NumWorkers, AtMost

(* What the assumptions say of a single entry. *)
LEMMA EntryType ==
  ASSUME NEW i \in Entries
  PROVE  /\ Tree[i].last \in i .. Len(Tree)
         /\ Tree[i].scanner \in Scanner \cup {NoScanner}
<1>1. Tree[i] \in Entry
  BY TreeAssumption DEF Entries
<1>2. Tree[i].scanner \in Scanner \cup {NoScanner}
  BY <1>1 DEF Entry
<1> QED BY <1>2, TreeAssumption

LEMMA ScannersForType ==
  ASSUME NEW i \in Entries, NEW p
  PROVE  /\ ScannersFor(i, p) \in SUBSET Position
         /\ 0 \in ScannersFor(i, p) => Tree[i].scanner # NoScanner
  BY ScannersAssumption DEF ScannersFor, UniversalsFor, Position

LEMMA RunType ==
  ASSUME NEW i \in Entries, NEW k \in Position, k = 0 => Tree[i].scanner # NoScanner
  PROVE  RunOf(i, k) \in Run
<1>1. ScannerAt(i, k) \in Scanner
  BY EntryType, ScannersAssumption DEF ScannerAt, Position
<1>2. Emits[ScannerAt(i, k)][i] \in Outcome
  BY <1>1, ScannersAssumption
<1> QED BY <1>1, <1>2 DEF RunOf, Run

LEMMA InitIInv == Init => IInv
<1> SUFFICES ASSUME Init PROVE IInv OBVIOUS
<1> USE DEF Init
<1>1. /\ jobs \in Seq(Job) /\ walkErrors \in Seq(Entries) /\ queue \in Seq(Jobs)
      /\ results \in Seq(JobResult \cup {Unset})
  BY EmptySeq
<1>2. Len(jobs) = 0
  BY EmptySeq
<1>3. runs \in [Workers -> Seq(Run)]
  <2>1. <<>> \in Seq(Run) BY EmptySeq
  <2> QED BY <2>1
<1>4. pos \in 1 .. (Len(Tree) + 1) /\ next \in 1 .. (Len(jobs) + 1) /\ tooLarge \in Nat
  BY <1>2, TreeAssumption
<1>5. TypeOK
  <2>1. /\ worker \in [Workers -> {"off", "receive", "read", "scan", "exited"}]
        /\ job \in [Workers -> Nat] /\ todo \in [Workers -> SUBSET Position]
    OBVIOUS
  <2> QED BY <2>1, <1>1, <1>3, <1>4 DEF TypeOK
<1>6. OneOwner /\ BeforePool /\ AfterPool /\ Planned
  BY <1>2 DEF OneOwner, BeforePool, AfterPool, Planned, Busy, Stored, Jobs, Held
<1>7. Enqueued /\ NoneLost
  BY <1>2, EmptySeq DEF Enqueued, NoneLost, Busy, Jobs
<1>8. Shutdown
  <2>1. closed = FALSE /\ pc = "walk" /\ \A w \in Workers : worker[w] = "off"
    OBVIOUS
  <2> QED BY <2>1 DEF Shutdown
<1> QED BY <1>5, <1>6, <1>7, <1>8 DEF IInv

-----------------------------------------------------------------------------
(* The walk: the pool does not exist yet. *)

WalkStep == VisitError \/ VisitDir \/ PassFile \/ SkipTooLarge \/ AddJob

LEMMA WalkTypes == ASSUME IInv, WalkStep PROVE TypeOK'
<1> USE DEF IInv
<1>1. pos \in Entries /\ pos' \in 1 .. (Len(Tree) + 1)
  <2>1. pos \in Entries
    BY DEF WalkStep, VisitError, VisitDir, PassFile, SkipTooLarge, AddJob, Visiting, TypeOK, Entries
  <2>2. Tree[pos].last \in pos .. Len(Tree)
    BY <2>1, EntryType
  <2>3. pos' = pos + 1 \/ pos' = Tree[pos].last + 1
    BY DEF WalkStep, VisitError, VisitDir, PassFile, SkipTooLarge, AddJob
  <2> QED BY <2>1, <2>2, <2>3, TreeAssumption DEF Entries
<1>2. walkErrors' \in Seq(Entries) /\ tooLarge' \in Nat
  <2>1. CASE VisitError
    BY <1>1, <2>1, AppendProperties DEF VisitError, TypeOK
  <2>2. CASE tooLarge' = tooLarge + 1 /\ walkErrors' = walkErrors
    BY <2>2 DEF TypeOK
  <2>3. CASE UNCHANGED <<walkErrors, tooLarge>>
    BY <2>3 DEF TypeOK
  <2> QED BY <2>1, <2>2, <2>3 DEF WalkStep, VisitDir, PassFile, SkipTooLarge, AddJob
<1>3. jobs' \in Seq(Job) /\ Len(jobs') >= Len(jobs)
  <2>1. CASE AddJob
    <3>1. [entry |-> pos, scanners |-> ScannersFor(pos, opts.passes)] \in Job
      BY <1>1, ScannersForType DEF Job
    <3> QED BY <2>1, <3>1, AppendProperties DEF AddJob, TypeOK
  <2>2. CASE jobs' = jobs
    BY <2>2 DEF TypeOK
  <2> QED BY <2>1, <2>2 DEF WalkStep, VisitError, VisitDir, PassFile, SkipTooLarge
<1>4. /\ pc = "walk"
      /\ UNCHANGED <<opts, pc, next, queue, closed, worker, job, todo, runs, results>>
  BY DEF WalkStep, VisitError, VisitDir, PassFile, SkipTooLarge, AddJob, Visiting,
         chanVars, workerVars
<1>5. queue' \in Seq(Jobs')
  BY <1>4, EmptySeq DEF BeforePool
<1>6. next' \in 1 .. (Len(jobs') + 1)
  BY <1>4, <1>3 DEF TypeOK
<1> QED BY <1>1, <1>2, <1>3, <1>4, <1>5, <1>6 DEF TypeOK

LEMMA WalkIInv == ASSUME IInv, WalkStep PROVE IInv'
<1> USE DEF IInv
<1>1. TypeOK'
  BY WalkTypes
<1>2. /\ pc = "walk" /\ pos \in Entries
      /\ UNCHANGED <<opts, pc, next, queue, closed, worker, job, todo, runs, results>>
  BY DEF WalkStep, VisitError, VisitDir, PassFile, SkipTooLarge, AddJob, Visiting,
         chanVars, workerVars, TypeOK, Entries
<1>3. /\ \A w \in Workers : worker'[w] = "off"
      /\ queue' = <<>> /\ next' = 1 /\ results' = <<>> /\ ~ closed'
  BY <1>2 DEF BeforePool, Shutdown
<1>4. (OneOwner /\ BeforePool /\ AfterPool /\ Enqueued /\ NoneLost /\ Shutdown)'
  BY <1>1, <1>2, <1>3
     DEF OneOwner, BeforePool, AfterPool, Enqueued, NoneLost, Shutdown, Busy, Stored, Held, Jobs, TypeOK
<1>5. Planned'
  <2>1. CASE AddJob
    <3>1. ASSUME NEW i \in 1 .. Len(jobs') PROVE
            0 \in jobs'[i].scanners => Tree[jobs'[i].entry].scanner # NoScanner
      <4>1. CASE i \in Jobs
        BY <2>1, <4>1, AppendProperties DEF AddJob, Planned, Jobs, TypeOK
      <4>2. CASE i = Len(jobs) + 1
        <5>1. jobs'[i] = [entry |-> pos, scanners |-> ScannersFor(pos, opts.passes)]
          BY <2>1, <4>2, AppendProperties DEF AddJob, TypeOK
        <5> QED BY <5>1, <1>2, ScannersForType
      <4> QED BY <2>1, <4>1, <4>2, AppendProperties DEF AddJob, Jobs, TypeOK
    <3> QED BY <3>1, <1>3 DEF Planned, Jobs
  <2>2. CASE jobs' = jobs
    BY <2>2, <1>2 DEF Planned, Jobs
  <2> QED BY <2>1, <2>2 DEF WalkStep, VisitError, VisitDir, PassFile, SkipTooLarge
<1> QED BY <1>1, <1>3, <1>4, <1>5

-----------------------------------------------------------------------------
(* The scanning goroutine, after the walk. *)

LEMMA StartPoolIInv == ASSUME IInv, StartPool PROVE IInv'
<1> USE DEF IInv
<1>1. NumWorkers(Len(jobs)) >= 1 /\ NumWorkers(Len(jobs)) \in Nat /\ 1 \in Workers
  BY NumWorkersBounds, PoolAssumption DEF TypeOK, Workers
<1>2. /\ results' \in Seq({Unset}) /\ Len(results') = Len(jobs)
      /\ \A i \in Jobs : results'[i] = Unset
  <2>1. results' = [i \in 1 .. Len(jobs) |-> Unset] /\ Len(jobs) \in Nat
    BY DEF StartPool, Jobs, TypeOK
  <2> QED BY <2>1, IsASeq DEF Jobs
<1>3. TypeOK'
  <2>1. results' \in Seq(JobResult \cup {Unset})
    BY <1>2, SeqMonotonic
  <2>2. worker' \in [Workers -> {"off", "receive", "read", "scan", "exited"}]
    BY DEF StartPool
  <2> QED BY <2>1, <2>2 DEF StartPool, TypeOK, walkVars, chanVars, Jobs
<1>4. /\ pc = "walk" /\ pc' = "enqueue" /\ worker'[1] = "receive"
      /\ UNCHANGED <<jobs, next, queue, closed, job, todo>>
      /\ \A w \in Workers : worker'[w] \in {"off", "receive"}
  BY <1>1 DEF StartPool, chanVars
<1>5. queue = <<>> /\ next = 1 /\ ~ closed
  BY <1>4 DEF BeforePool, Shutdown
<1>6. (\A w \in Workers : ~ Busy(w))' /\ (\A i \in Jobs : ~ Stored(i))'
  BY <1>2, <1>4 DEF Busy, Stored, Jobs
<1>7. (OneOwner /\ BeforePool /\ AfterPool /\ Planned)'
  BY <1>2, <1>4, <1>5, <1>6 DEF OneOwner, BeforePool, AfterPool, Planned, Busy, Jobs
<1>8. (Enqueued /\ NoneLost)'
  BY <1>3, <1>4, <1>5, <1>6 DEF Enqueued, NoneLost, Jobs, TypeOK
<1>9. Shutdown'
  BY <1>4, <1>5 DEF Shutdown
<1> QED BY <1>3, <1>7, <1>8, <1>9

LEMMA CloseIInv == ASSUME IInv, Close PROVE IInv'
<1> USE DEF IInv
<1>1. TypeOK'
  BY DEF Close, TypeOK, walkVars, workerVars, Jobs
<1>2. (OneOwner /\ BeforePool /\ AfterPool /\ Planned /\ Enqueued /\ NoneLost)'
  BY DEF Close, walkVars, workerVars, OneOwner, BeforePool, AfterPool, Planned, Enqueued, NoneLost,
         Busy, Stored, Held, Jobs
<1>3. Shutdown'
  <2>1. pc' = "wait" /\ closed' /\ UNCHANGED <<jobs, next, worker>>
    BY DEF Close, workerVars
  <2>2. next = Len(jobs) + 1
    BY DEF Close, TypeOK
  <2>3. ~ closed /\ \A w \in Workers : worker[w] # "exited"
    BY DEF Close, Shutdown
  <2> QED BY <2>1, <2>2, <2>3 DEF Shutdown
<1> QED BY <1>1, <1>2, <1>3

LEMMA CollectIInv == ASSUME IInv, Collect PROVE IInv'
<1> USE DEF IInv
<1>1. TypeOK'
  BY DEF Collect, TypeOK, walkVars, chanVars, workerVars, Jobs
<1>2. (OneOwner /\ BeforePool /\ AfterPool /\ Planned /\ Enqueued /\ NoneLost)'
  BY DEF Collect, chanVars, workerVars, OneOwner, BeforePool, AfterPool, Planned, Enqueued, NoneLost,
         Busy, Stored, Held, Jobs
<1>3. Shutdown'
  BY DEF Collect, chanVars, workerVars, Shutdown
<1> QED BY <1>1, <1>2, <1>3

LEMMA EnqueueIInv == ASSUME IInv, Enqueue PROVE IInv'
<1> USE DEF IInv
<1>1. /\ next \in Jobs /\ next' = next + 1 /\ queue' = Append(queue, next)
      /\ pc = "enqueue" /\ pc' = "enqueue" /\ closed' = closed
      /\ UNCHANGED <<jobs, worker, job, todo, results>> /\ Len(jobs) \in Nat
  BY DEF Enqueue, workerVars, TypeOK, Jobs
<1>2. /\ queue' \in Seq(Jobs) /\ Len(queue') = Len(queue) + 1 /\ Len(queue) \in Nat
      /\ \A k \in 1 .. Len(queue) : queue'[k] = queue[k] /\ queue[k] \in Jobs
      /\ queue'[Len(queue) + 1] = next
  BY <1>1, AppendProperties DEF TypeOK
<1>3. TypeOK'
  BY <1>1, <1>2 DEF Enqueue, TypeOK, walkVars, workerVars, Jobs
<1>4. ~ Held(next) /\ ~ Stored(next) /\ \A k \in 1 .. Len(queue) : queue[k] # next
  BY <1>1, <1>2 DEF Enqueued, Held, Jobs
<1>5. \A i : (Held(i)' <=> Held(i)) /\ (Stored(i)' <=> Stored(i))
  BY <1>1 DEF Held, Busy, Stored
<1>6. OneOwner'
  <2>1. ASSUME NEW k \in 1 .. Len(queue'), NEW l \in 1 .. Len(queue'), queue'[k] = queue'[l]
        PROVE  k = l
    BY <1>2, <1>4, <2>1 DEF OneOwner
  <2>2. ASSUME NEW k \in 1 .. Len(queue')
        PROVE  ~ Held(queue[k])' /\ ~ Stored(queue[k])'
    BY <1>2, <1>4, <1>5 DEF OneOwner
  <2>3. /\ \A v, w \in Workers : Busy(v)' /\ Busy(w)' /\ job'[v] = job'[w] => v = w
        /\ \A w \in Workers : Busy(w)' => ~ Stored(job[w])'
    BY <1>1, <1>5 DEF OneOwner, Busy
  <2> QED BY <2>1, <2>2, <2>3 DEF OneOwner
<1>7. (BeforePool /\ AfterPool /\ Planned)'
  BY <1>1 DEF BeforePool, AfterPool, Planned, Jobs
<1>8. Enqueued'
  BY <1>1, <1>2, <1>5 DEF Enqueued, Busy, Jobs
<1>9. NoneLost'
  <2> SUFFICES ASSUME NEW i \in Jobs, i < next + 1
               PROVE  (\E k \in 1 .. Len(queue') : queue'[k] = i) \/ Held(i)' \/ Stored(i)'
    BY <1>1 DEF NoneLost, Jobs
  <2>1. CASE i = next
    BY <1>2, <2>1
  <2>2. CASE i < next
    BY <1>2, <1>5, <2>2 DEF NoneLost
  <2> QED BY <2>1, <2>2, <1>1 DEF Jobs
<1>10. Shutdown'
  BY <1>1 DEF Shutdown
<1> QED BY <1>3, <1>6, <1>7, <1>8, <1>9, <1>10

-----------------------------------------------------------------------------
(* The workers *)

LEMMA ReceiveIInv == ASSUME IInv, NEW w \in Workers, Receive(w) PROVE IInv'
<1> USE DEF IInv
<1>1. /\ worker[w] = "receive" /\ queue # <<>> /\ queue' = Tail(queue)
      /\ job' = [job EXCEPT ![w] = Head(queue)] /\ worker' = [worker EXCEPT ![w] = "read"]
      /\ UNCHANGED <<pc, jobs, next, closed, todo, results>>
      /\ job \in [Workers -> Nat]
      /\ worker \in [Workers -> {"off", "receive", "read", "scan", "exited"}]
  BY DEF Receive, TypeOK
<1>2. /\ Len(queue) \in Nat \ {0} /\ Len(queue') = Len(queue) - 1
      /\ queue' \in Seq(Jobs) /\ Head(queue) = queue[1]
      /\ \A k \in 1 .. Len(queue') : queue'[k] = queue[k + 1]
      /\ \A k \in 1 .. Len(queue) : queue[k] \in Jobs
  BY <1>1, HeadTailProperties, EmptySeq, LenProperties, ElementOfSeq DEF TypeOK
<1>3. queue[1] \in Jobs /\ queue[1] \in Nat
  BY <1>2 DEF Jobs
<1>4. TypeOK'
  BY <1>1, <1>2, <1>3 DEF Receive, TypeOK, walkVars, Jobs
<1>5. /\ \A v \in Workers \ {w} : worker'[v] = worker[v] /\ job'[v] = job[v]
      /\ worker'[w] = "read" /\ job'[w] = queue[1] /\ ~ Busy(w)
  BY <1>1, <1>2 DEF Busy
<1>6. \A i : Stored(i)' <=> Stored(i)
  BY <1>1 DEF Stored
<1>7. ~ Held(queue[1]) /\ ~ Stored(queue[1])
  BY <1>2 DEF OneOwner
<1>8. OneOwner'
  <2>1. ASSUME NEW u \in Workers, NEW v \in Workers, Busy(u)', Busy(v)', job'[u] = job'[v]
        PROVE  u = v
    BY <1>5, <1>7, <2>1 DEF OneOwner, Held, Busy
  <2>2. ASSUME NEW k \in 1 .. Len(queue'), NEW l \in 1 .. Len(queue'), queue'[k] = queue'[l]
        PROVE  k = l
    BY <1>2, <2>2 DEF OneOwner
  <2>3. ASSUME NEW k \in 1 .. Len(queue')
        PROVE  ~ Held(queue[k])' /\ ~ Stored(queue[k])'
    <3>1. queue'[k] # queue[1] /\ ~ Held(queue'[k]) /\ ~ Stored(queue'[k])
      <4>1. k + 1 \in 1 .. Len(queue) /\ 1 \in 1 .. Len(queue) /\ k + 1 # 1
        BY <1>2
      <4> QED BY <1>2, <4>1 DEF OneOwner
    <3> QED BY <1>5, <1>6, <3>1 DEF Held, Busy
  <2>4. ASSUME NEW v \in Workers, Busy(v)' PROVE ~ Stored(job[v])'
    BY <1>5, <1>6, <1>7, <2>4 DEF OneOwner, Busy
  <2> QED BY <2>1, <2>2, <2>3, <2>4 DEF OneOwner
<1>9. (BeforePool /\ AfterPool)'
  BY <1>1, <1>5 DEF BeforePool, AfterPool
<1>10. Planned'
  BY <1>1, <1>5 DEF Planned, Jobs
<1>11. Enqueued'
  <2>1. queue[1] < next
    BY <1>2 DEF Enqueued
  <2>2. \A k \in 1 .. Len(queue') : queue'[k] < next'
    BY <1>1, <1>2 DEF Enqueued
  <2>3. \A v \in Workers : Busy(v)' => job'[v] \in Jobs' /\ job'[v] < next'
    BY <1>1, <1>3, <1>5, <2>1 DEF Enqueued, Busy, Jobs
  <2> QED BY <1>1, <1>6, <2>2, <2>3 DEF Enqueued, Jobs
<1>12. NoneLost'
  <2> SUFFICES ASSUME NEW i \in Jobs, i < next
               PROVE  (\E k \in 1 .. Len(queue') : queue'[k] = i) \/ Held(i)' \/ Stored(i)'
    BY <1>1 DEF NoneLost, Jobs
  <2>1. CASE \E k \in 1 .. Len(queue) : queue[k] = i
    <3> PICK k \in 1 .. Len(queue) : queue[k] = i BY <2>1
    <3>1. CASE k = 1
      BY <1>5, <3>1 DEF Held, Busy
    <3>2. CASE k > 1
      <4>1. k - 1 \in 1 .. Len(queue') /\ queue'[k - 1] = i
        BY <1>2, <3>2
      <4> QED BY <4>1
    <3> QED BY <3>1, <3>2
  <2>2. CASE Held(i)
    BY <1>5, <2>2 DEF Held, Busy
  <2>3. CASE Stored(i)
    BY <1>6, <2>3
  <2> QED BY <2>1, <2>2, <2>3 DEF NoneLost
<1>13. Shutdown'
  <2>1. pc # "done" /\ \A v \in Workers : worker[v] # "exited"
    BY <1>1 DEF Shutdown
  <2> QED BY <1>1, <1>5, <2>1 DEF Shutdown
<1> QED BY <1>4, <1>8, <1>9, <1>10, <1>11, <1>12, <1>13

(* A worker that leaves its file, whatever the file's end, writes its own  *)
(* empty slot.                                                             *)
LEMMA StoreTypes ==
  ASSUME IInv, NEW w \in Workers, Busy(w), NEW status \in {"unreadable", "output", "run"},
         NEW ran \in Seq(Run), StoreResult(w, status, ran)
  PROVE  /\ TypeOK'
         /\ job[w] \in Jobs /\ job[w] \in DOMAIN results
         /\ \A i \in Jobs : Stored(i)' <=> Stored(i) \/ i = job[w]
         /\ \A i \in Jobs \ {job[w]} : results'[i] = results[i]
<1> USE DEF IInv
<1> DEFINE r == [entry |-> jobs[job[w]].entry, status |-> status, runs |-> ran]
<1>1. job[w] \in Jobs /\ pc # "walk" /\ Len(jobs) \in Nat /\ jobs \in Seq(Job)
  BY DEF Enqueued, BeforePool, Busy, TypeOK
<1>2. r \in JobResult
  <2>1. jobs[job[w]] \in Job
    BY <1>1 DEF Jobs
  <2> QED BY <2>1 DEF JobResult, Job
<1>3. r # Unset
  BY <1>2, UnsetIsNoResult
<1>4. /\ results \in Seq(JobResult \cup {Unset}) /\ Len(results) = Len(jobs)
      /\ DOMAIN results = Jobs
  BY <1>1 DEF AfterPool, TypeOK, Jobs
<1>5. results' = [results EXCEPT ![job[w]] = r]
  BY DEF StoreResult
<1>6. /\ results' \in Seq(JobResult \cup {Unset}) /\ DOMAIN results' = Jobs
      /\ results'[job[w]] = r /\ \A i \in Jobs \ {job[w]} : results'[i] = results[i]
  BY <1>1, <1>2, <1>4, <1>5, ExceptSeq
<1>7. /\ worker' \in [Workers -> {"off", "receive", "read", "scan", "exited"}]
      /\ runs' \in [Workers -> Seq(Run)]
  BY EmptySeq DEF StoreResult, TypeOK
<1>8. TypeOK'
  BY <1>6, <1>7 DEF StoreResult, TypeOK, walkVars, chanVars, Jobs
<1>9. \A i \in Jobs : Stored(i)' <=> Stored(i) \/ i = job[w]
  BY <1>3, <1>4, <1>6 DEF Stored
<1> QED BY <1>1, <1>4, <1>6, <1>8, <1>9

LEMMA StoreIInv ==
  ASSUME IInv, NEW w \in Workers, Busy(w), NEW status \in {"unreadable", "output", "run"},
         NEW ran \in Seq(Run), StoreResult(w, status, ran)
  PROVE  IInv'
<1> USE DEF IInv
<1>1. /\ TypeOK' /\ job[w] \in Jobs
      /\ \A i \in Jobs : Stored(i)' <=> Stored(i) \/ i = job[w]
  BY StoreTypes
<1>2. /\ worker' = [worker EXCEPT ![w] = "receive"]
      /\ UNCHANGED <<pc, jobs, next, queue, closed, job, todo>>
      /\ worker \in [Workers -> {"off", "receive", "read", "scan", "exited"}]
  BY DEF StoreResult, chanVars, TypeOK
<1>3. /\ \A v \in Workers \ {w} : worker'[v] = worker[v]
      /\ worker'[w] = "receive"
  BY <1>2
<1>4. \A v \in Workers : Busy(v)' <=> Busy(v) /\ v # w
  BY <1>3 DEF Busy
<1>5. \A i \in Jobs \ {job[w]} : Held(i)' <=> Held(i)
  BY <1>2, <1>4 DEF Held
<1>6. ~ Held(job[w])'
  BY <1>2, <1>4 DEF Held, OneOwner
<1>7. \A k \in 1 .. Len(queue) : queue[k] \in Jobs \ {job[w]}
  <2>1. queue \in Seq(Jobs) BY DEF TypeOK
  <2>2. \A k \in 1 .. Len(queue) : queue[k] \in Jobs /\ queue[k] # job[w]
    BY <2>1 DEF OneOwner, Held
  <2> QED BY <2>2
<1>8. OneOwner'
  <2>1. ASSUME NEW u \in Workers, NEW v \in Workers, Busy(u)', Busy(v)', job'[u] = job'[v]
        PROVE  u = v
    BY <1>2, <1>4, <2>1 DEF OneOwner
  <2>2. \A k, l \in 1 .. Len(queue') : queue'[k] = queue'[l] => k = l
    BY <1>2 DEF OneOwner
  <2>3. ASSUME NEW k \in 1 .. Len(queue)
        PROVE  ~ Held(queue[k])' /\ ~ Stored(queue[k])'
    <3>1. ~ Held(queue[k]) /\ ~ Stored(queue[k]) /\ queue'[k] = queue[k]
      BY <1>2 DEF OneOwner
    <3> DEFINE i == queue[k]
    <3>2. ~ Held(i) /\ ~ Stored(i) /\ i \in Jobs \ {job[w]}
      BY <3>1, <1>7
    <3> QED BY <3>1, <3>2, <1>1, <1>2, <1>4 DEF Held, Stored
  <2>4. ASSUME NEW v \in Workers, Busy(v)' PROVE ~ Stored(job[v])'
    <3>1. Busy(v) /\ v # w /\ job[v] # job[w] /\ job[v] \in Jobs /\ job'[v] = job[v]
      BY <1>2, <1>4, <2>4 DEF OneOwner, Enqueued
    <3>2. results'[job[v]] = results[job[v]] /\ ~ Stored(job[v])
      BY <3>1, StoreTypes DEF OneOwner
    <3> QED BY <3>1, <3>2, <1>1 DEF Stored
  <2> QED BY <2>1, <2>2, <2>3, <2>4, <1>2 DEF OneOwner
<1>9. (BeforePool /\ AfterPool)'
  <2>1. pc # "walk" /\ Len(results') = Len(results)
    BY DEF BeforePool, Busy, StoreResult, AfterPool, TypeOK
  <2> QED BY <1>2, <1>3, <2>1 DEF BeforePool, AfterPool
<1>10. Planned'
  BY <1>2, <1>3 DEF Planned, Jobs
<1>11. Enqueued'
  <2>1. \A i \in Jobs : Stored(i)' => i < next
    BY <1>1 DEF Enqueued
  <2> QED BY <1>2, <1>4, <2>1 DEF Enqueued, Jobs
<1>12. NoneLost'
  <2> SUFFICES ASSUME NEW i \in Jobs, i < next
               PROVE  (\E k \in 1 .. Len(queue) : queue[k] = i) \/ Held(i)' \/ Stored(i)'
    BY <1>2 DEF NoneLost, Jobs
  <2>1. CASE i = job[w]
    BY <1>1, <2>1
  <2>2. CASE i # job[w]
    BY <1>1, <1>5, <2>2 DEF NoneLost
  <2> QED BY <2>1, <2>2
<1>13. Shutdown'
  <2>1. pc # "done"
    BY DEF Shutdown, Busy
  <2> QED BY <1>2, <1>3, <2>1 DEF Shutdown
<1> QED BY <1>1, <1>8, <1>9, <1>10, <1>11, <1>12, <1>13

LEMMA ExitIInv == ASSUME IInv, NEW w \in Workers, Exit(w) PROVE IInv'
<1> USE DEF IInv
<1>1. /\ worker[w] = "receive" /\ queue = <<>> /\ closed
      /\ worker' = [worker EXCEPT ![w] = "exited"]
      /\ UNCHANGED <<pc, jobs, next, queue, closed, job, todo, results>>
      /\ worker \in [Workers -> {"off", "receive", "read", "scan", "exited"}]
  BY DEF Exit, chanVars, TypeOK
<1>2. /\ \A v \in Workers \ {w} : worker'[v] = worker[v]
      /\ worker'[w] = "exited"
      /\ \A v \in Workers : Busy(v)' <=> Busy(v)
  BY <1>1 DEF Busy
<1>3. TypeOK'
  BY <1>1 DEF Exit, TypeOK, walkVars, chanVars, Jobs
<1>4. \A i : (Held(i)' <=> Held(i)) /\ (Stored(i)' <=> Stored(i))
  BY <1>1, <1>2 DEF Held, Stored
<1>5. (OneOwner /\ Enqueued /\ NoneLost)'
  BY <1>1, <1>2, <1>4 DEF OneOwner, Enqueued, NoneLost, Jobs
<1>6. (BeforePool /\ AfterPool /\ Planned)'
  BY <1>1, <1>2 DEF BeforePool, AfterPool, Planned, Jobs
<1>7. Shutdown'
  BY <1>1, <1>2 DEF Shutdown
<1> QED BY <1>3, <1>5, <1>6, <1>7

LEMMA ReadIInv == ASSUME IInv, NEW w \in Workers, Read(w) PROVE IInv'
<1> USE DEF IInv
<1>1. /\ worker[w] = "read" /\ worker' = [worker EXCEPT ![w] = "scan"]
      /\ todo' = [todo EXCEPT ![w] = jobs[job[w]].scanners]
      /\ UNCHANGED <<pc, jobs, next, queue, closed, job, results>>
      /\ worker \in [Workers -> {"off", "receive", "read", "scan", "exited"}]
      /\ todo \in [Workers -> SUBSET Position]
  BY DEF Read, chanVars, TypeOK
<1>2. /\ \A v \in Workers \ {w} : worker'[v] = worker[v] /\ todo'[v] = todo[v]
      /\ worker'[w] = "scan" /\ todo'[w] = jobs[job[w]].scanners
      /\ \A v \in Workers : Busy(v)' <=> Busy(v)
  BY <1>1 DEF Busy
<1>3. TypeOK'
  <2>1. jobs \in Seq(Job) /\ job[w] \in Jobs
    BY <1>1 DEF Enqueued, Busy, TypeOK
  <2>2. jobs[job[w]] \in Job
    BY <2>1 DEF Jobs
  <2>3. jobs[job[w]].scanners \in SUBSET Position
    BY <2>2 DEF Job
  <2> QED BY <1>1, <2>3 DEF Read, TypeOK, walkVars, chanVars, Jobs
<1>4. \A i : (Held(i)' <=> Held(i)) /\ (Stored(i)' <=> Stored(i))
  BY <1>1, <1>2 DEF Held, Stored
<1>5. (OneOwner /\ Enqueued /\ NoneLost)'
  BY <1>1, <1>2, <1>4 DEF OneOwner, Enqueued, NoneLost, Jobs
<1>6. (BeforePool /\ AfterPool)'
  BY <1>1, <1>2 DEF BeforePool, AfterPool
<1>7. Planned'
  BY <1>1, <1>2 DEF Planned, Jobs
<1>8. Shutdown'
  BY <1>1, <1>2 DEF Shutdown
<1> QED BY <1>3, <1>5, <1>6, <1>7, <1>8

LEMMA ScanIInv == ASSUME IInv, NEW w \in Workers, Scan(w) PROVE IInv'
<1> USE DEF IInv
<1> PICK k \in todo[w] :
      /\ runs' = [runs EXCEPT ![w] = Append(@, RunOf(jobs[job[w]].entry, k))]
      /\ todo' = [todo EXCEPT ![w] = @ \ {k}]
  BY DEF Scan
<1>1. /\ worker[w] = "scan" /\ UNCHANGED <<opts, pc, walkVars, jobs, chanVars, worker, job, results>>
  BY DEF Scan
<1>2. jobs[job[w]].entry \in Entries /\ RunOf(jobs[job[w]].entry, k) \in Run
  <2>1. job[w] \in Jobs
    BY <1>1 DEF Enqueued, Busy
  <2>2. k \in Position /\ (k = 0 => Tree[jobs[job[w]].entry].scanner # NoScanner)
    BY <1>1, <2>1 DEF Planned, TypeOK
  <2>3. jobs[job[w]] \in Job
    BY <2>1 DEF TypeOK, Jobs
  <2>4. jobs[job[w]].entry \in Entries
    BY <2>3 DEF Job
  <2> QED BY <2>2, <2>4, RunType
<1>3. TypeOK'
  <2>1. runs' \in [Workers -> Seq(Run)]
    BY <1>2, AppendProperties DEF TypeOK
  <2>2. todo' \in [Workers -> SUBSET Position]
    BY DEF TypeOK
  <2> QED BY <1>1, <2>1, <2>2 DEF TypeOK, walkVars, chanVars, Jobs
<1>4. (OneOwner /\ BeforePool /\ AfterPool /\ Enqueued /\ NoneLost /\ Shutdown)'
  BY <1>1 DEF chanVars, OneOwner, BeforePool, AfterPool, Enqueued, NoneLost, Shutdown, Busy, Stored, Held, Jobs
<1>5. Planned'
  BY <1>1 DEF Planned, Jobs, TypeOK
<1> QED BY <1>3, <1>4, <1>5

LEMMA WorkIInv == ASSUME IInv, NEW w \in Workers, Work(w) PROVE IInv'
<1>1. CASE Receive(w) BY <1>1, ReceiveIInv
<1>2. CASE Exit(w) BY <1>2, ExitIInv
<1>3. CASE ReadFails(w)
  BY <1>3, StoreIInv, EmptySeq DEF ReadFails, Busy
<1>4. CASE SkipOutput(w)
  BY <1>4, StoreIInv, EmptySeq DEF SkipOutput, Busy
<1>5. CASE Read(w) BY <1>5, ReadIInv
<1>6. CASE Scan(w) BY <1>6, ScanIInv
<1>7. CASE Store(w)
  BY <1>7, StoreIInv DEF Store, Busy, IInv, TypeOK
<1> QED BY <1>1, <1>2, <1>3, <1>4, <1>5, <1>6, <1>7 DEF Work

LEMMA NextIInv == IInv /\ [Next]_vars => IInv'
<1> SUFFICES ASSUME IInv, [Next]_vars PROVE IInv' OBVIOUS
<1>1. CASE VisitError \/ VisitDir \/ PassFile \/ SkipTooLarge \/ AddJob
  BY <1>1, WalkIInv DEF WalkStep
<1>2. CASE StartPool BY <1>2, StartPoolIInv
<1>3. CASE Enqueue BY <1>3, EnqueueIInv
<1>4. CASE Close BY <1>4, CloseIInv
<1>5. CASE Collect BY <1>5, CollectIInv
<1>6. ASSUME NEW w \in Workers, Work(w) PROVE IInv'
  BY <1>6, WorkIInv
<1>7. CASE UNCHANGED vars
  <2>1. TypeOK' BY <1>7 DEF IInv, vars, walkVars, chanVars, workerVars, TypeOK, Jobs
  <2>2. (OneOwner /\ BeforePool /\ AfterPool /\ Planned)'
    BY <1>7 DEF IInv, vars, chanVars, workerVars, OneOwner, BeforePool, AfterPool, Planned, Busy, Stored, Held, Jobs
  <2>3. (Enqueued /\ NoneLost /\ Shutdown)'
    BY <1>7 DEF IInv, vars, chanVars, workerVars, Enqueued, NoneLost, Shutdown, Busy, Stored, Held, Jobs
  <2> QED BY <2>1, <2>2, <2>3 DEF IInv
<1> QED BY <1>1, <1>2, <1>3, <1>4, <1>5, <1>6, <1>7 DEF Next, Main

THEOREM InductiveInvariant == Spec => []IInv
<1> QED BY InitIInv, NextIInv, PTL DEF Spec

-----------------------------------------------------------------------------
(* Every variable of the scan keeps its type, for every tree and pool size *)
(* (ScanDirWithOptions).                                                   *)
THEOREM TypeCorrect == Spec => []TypeOK
<1>1. IInv => TypeOK BY DEF IInv
<1> QED BY <1>1, InductiveInvariant, PTL

(* No job is ever held by two workers, nor taken again once its slot is    *)
(* written: jobs[idx] and results[idx] need no lock.                       *)
THEOREM ExclusiveOwnership == Spec => []OneOwner
<1>1. IInv => OneOwner BY DEF IInv
<1> QED BY <1>1, InductiveInvariant, PTL

(* When wg.Wait lets the collector pass, every slot holds a result.        *)
THEOREM CompleteCollection == Spec => []CollectedComplete
<1>1. IInv => CollectedComplete
  <2> SUFFICES ASSUME IInv, pc = "done"
               PROVE  (\A w \in Workers : ~ Busy(w)) /\ \A i \in Jobs : Stored(i)
    BY DEF CollectedComplete
  <2>1. \A w \in Workers : worker[w] \in {"off", "exited"}
    BY DEF IInv, Shutdown
  <2>2. \A w \in Workers : ~ Busy(w)
    BY <2>1 DEF Busy
  <2>3. queue = <<>> /\ next = Len(jobs) + 1
    <3>1. 1 \in Workers /\ worker[1] = "exited"
      BY <2>1, PoolAssumption DEF IInv, AfterPool, Workers
    <3> QED BY <3>1 DEF IInv, Shutdown
  <2>4. ASSUME NEW i \in Jobs PROVE Stored(i)
    <3>1. Len(queue) = 0 /\ i < next /\ ~ Held(i)
      BY <2>2, <2>3, EmptySeq DEF IInv, TypeOK, Jobs, Held
    <3> QED BY <3>1 DEF IInv, NoneLost
  <2> QED BY <2>2, <2>4
<1> QED BY <1>1, InductiveInvariant, PTL

(* A result in its slot is never overwritten by a later step. *)
THEOREM WrittenOnce == Spec => SlotsWrittenOnce
<1> DEFINE Kept == \A i \in Jobs : Stored(i) => results'[i] = results[i]
<1>1. ASSUME IInv, [Next]_vars PROVE [Kept]_vars
  <2>1. ASSUME NEW w \in Workers, NEW status \in {"unreadable", "output", "run"},
               NEW ran \in Seq(Run), Busy(w), StoreResult(w, status, ran)
        PROVE  Kept
    <3>1. \A i \in Jobs \ {job[w]} : results'[i] = results[i]
      BY <1>1, <2>1, StoreTypes
    <3> QED BY <1>1, <2>1, <3>1 DEF IInv, OneOwner
  <2>2. CASE UNCHANGED results BY <2>2
  <2>3. CASE StartPool
    BY <1>1, <2>3, EmptySeq DEF IInv, StartPool, BeforePool, Stored, Jobs
  <2>4. ASSUME NEW w \in Workers, Work(w), ~ UNCHANGED results PROVE Kept
    <3>1. CASE ReadFails(w)
      BY <3>1, <2>1, EmptySeq DEF ReadFails, Busy
    <3>2. CASE SkipOutput(w)
      BY <3>2, <2>1, EmptySeq DEF SkipOutput, Busy
    <3>3. CASE Store(w)
      BY <1>1, <3>3, <2>1 DEF Store, Busy, IInv, TypeOK
    <3> QED BY <2>4, <3>1, <3>2, <3>3 DEF Work, Receive, Exit, Read, Scan
  <2>5. CASE Main /\ ~ StartPool
    BY <2>2, <2>5 DEF Main, VisitError, VisitDir, PassFile, SkipTooLarge, AddJob, Enqueue, Close, Collect, workerVars
  <2>6. CASE UNCHANGED vars
    BY <2>6
  <2> QED BY <1>1, <2>2, <2>3, <2>4, <2>5, <2>6 DEF Next
<1> QED BY <1>1, InductiveInvariant, PTL DEF Spec, SlotsWrittenOnce

-----------------------------------------------------------------------------
(* InOrder, unfolded once and for all. *)

LEMMA Induct ==
  ASSUME NEW S \in SUBSET Nat, 0 \in S, \A n \in S : n + 1 \in S
  PROVE  S = Nat
<1> SUFFICES ASSUME Nat \ S # {} PROVE FALSE
  OBVIOUS
<1>1. PICK m \in Nat \ S : \A n \in Nat \ S : ~ (<<n, m>> \in OpToRel(<, Nat))
  BY NatLessThanWellFounded, WFMin
<1>2. \A n \in Nat \ S : ~ (n < m)
  BY <1>1 DEF OpToRel
<1>3. m # 0 /\ m - 1 \in Nat /\ m - 1 \in S
  BY <1>2
<1> QED BY <1>3

Step(S, f, k) == IF k - 1 \in S THEN Append(f[k - 1], k - 1) ELSE f[k - 1]

Ascends(S, n, f) ==
  f = [k \in 0 .. n |-> IF k = 0 THEN <<>>
                        ELSE IF k - 1 \in S THEN Append(f[k - 1], k - 1) ELSE f[k - 1]]

LEMMA AscendsAt ==
  ASSUME NEW S, NEW n \in Nat, NEW f, Ascends(S, n, f)
  PROVE  f[0] = <<>> /\ \A k \in 1 .. n : f[k] = Step(S, f, k)
<1>1. \A k \in 0 .. n : f[k] = IF k = 0 THEN <<>>
                        ELSE IF k - 1 \in S THEN Append(f[k - 1], k - 1) ELSE f[k - 1]
  BY DEF Ascends
<1> QED BY <1>1 DEF Step

LEMMA AscendsExists ==
  ASSUME NEW S, NEW n \in Nat
  PROVE  \E f : Ascends(S, n, f)
<1> DEFINE Good == {m \in Nat : \E f : Ascends(S, m, f)}
           Body(f, k) == IF k = 0 THEN <<>>
                         ELSE IF k - 1 \in S THEN Append(f[k - 1], k - 1) ELSE f[k - 1]
<1>1. 0 \in Good
  <2> DEFINE h == [k \in 0 .. 0 |-> <<>>]
  <2>1. h = [k \in 0 .. 0 |-> Body(h, k)]
    OBVIOUS
  <2>2. Ascends(S, 0, h)
    BY <2>1 DEF Ascends
  <2> HIDE DEF h
  <2> QED BY <2>2
<1>2. ASSUME NEW m \in Good PROVE m + 1 \in Good
  <2>1. PICK f : Ascends(S, m, f)
    OBVIOUS
  <2> DEFINE h == [k \in 0 .. (m + 1) |-> Body(f, k)]
  <2>2. ASSUME NEW k \in 0 .. m PROVE h[k] = f[k]
    <3>1. f[k] = Body(f, k)
      BY <2>1 DEF Ascends
    <3>2. k \in 0 .. (m + 1)
      OBVIOUS
    <3>3. h[k] = Body(f, k)
      BY <3>2
    <3> QED BY <3>1, <3>3
  <2>3. ASSUME NEW k \in 0 .. (m + 1) PROVE Body(f, k) = Body(h, k)
    <3>1. CASE k = 0
      BY <3>1
    <3>2. CASE k # 0
      <4>1. k - 1 \in 0 .. m
        BY <3>2
      <4>2. h[k - 1] = f[k - 1]
        BY <2>2, <4>1
      <4> HIDE DEF h
      <4> QED BY <4>2
    <3> QED BY <3>1, <3>2
  <2>4. h = [k \in 0 .. (m + 1) |-> Body(h, k)]
    BY <2>3
  <2>5. Ascends(S, m + 1, h)
    BY <2>4 DEF Ascends
  <2> HIDE DEF h
  <2> QED BY <2>5
<1>3. Good = Nat
  <2> HIDE DEF Good
  <2>1. Good \in SUBSET Nat
    BY DEF Good
  <2> QED BY <1>1, <1>2, <2>1, Induct
<1> QED BY <1>3

LEMMA AscendsAgree ==
  ASSUME NEW S, NEW m \in Nat, NEW n \in Nat, NEW f, NEW g,
         Ascends(S, m, f), Ascends(S, n, g)
  PROVE  \A k \in Nat : k <= m /\ k <= n => f[k] = g[k]
<1> DEFINE Good == {k \in Nat : k <= m /\ k <= n => f[k] = g[k]}
<1>1. 0 \in Good
  <2>1. f[0] = <<>> /\ g[0] = <<>>
    BY AscendsAt
  <2> QED BY <2>1
<1>2. ASSUME NEW k \in Good PROVE k + 1 \in Good
  <2> SUFFICES ASSUME k + 1 <= m, k + 1 <= n PROVE f[k + 1] = g[k + 1]
    OBVIOUS
  <2>1. f[k] = g[k] /\ k + 1 \in 1 .. m /\ k + 1 \in 1 .. n /\ (k + 1) - 1 = k
    OBVIOUS
  <2>2. f[k + 1] = Step(S, f, k + 1) /\ g[k + 1] = Step(S, g, k + 1)
    BY <2>1, AscendsAt
  <2>3. Step(S, f, k + 1) = Step(S, g, k + 1)
    BY <2>1 DEF Step
  <2> QED BY <2>2, <2>3
<1>3. Good = Nat
  <2> HIDE DEF Good
  <2>1. Good \in SUBSET Nat
    BY DEF Good
  <2> QED BY <1>1, <1>2, <2>1, Induct
<1> QED BY <1>3

LEMMA InOrderIs ==
  ASSUME NEW S, NEW n \in Nat
  PROVE  \E f : Ascends(S, n, f) /\ InOrder(S, n) = f[n]
<1>1. InOrder(S, n) = (CHOOSE f : Ascends(S, n, f))[n]
  BY DEF InOrder, Ascends
<1> QED BY <1>1, AscendsExists

(* The recursion, as equations. *)
LEMMA InOrderNone == \A S : InOrder(S, 0) = <<>>
<1> TAKE S
<1>1. PICK f : Ascends(S, 0, f) /\ InOrder(S, 0) = f[0]
  BY InOrderIs
<1> QED BY <1>1, AscendsAt

LEMMA InOrderNext ==
  ASSUME NEW S, NEW n \in Nat
  PROVE  InOrder(S, n + 1) = IF n \in S THEN Append(InOrder(S, n), n) ELSE InOrder(S, n)
<1>1. PICK f : Ascends(S, n, f) /\ InOrder(S, n) = f[n]
  BY InOrderIs
<1>2. PICK g : Ascends(S, n + 1, g) /\ InOrder(S, n + 1) = g[n + 1]
  BY InOrderIs
<1>3. f[n] = g[n]
  BY <1>1, <1>2, AscendsAgree
<1>4. n + 1 \in 1 .. (n + 1) /\ (n + 1) - 1 = n
  OBVIOUS
<1>5. g[n + 1] = Step(S, g, n + 1)
  BY <1>2, <1>4, AscendsAt
<1> QED BY <1>1, <1>2, <1>3, <1>4, <1>5 DEF Step

(* Its members are those of the set, all of them. *)
LEMMA InOrderHas ==
  ASSUME NEW S \in SUBSET Nat, NEW n \in Nat
  PROVE  /\ InOrder(S, n) \in Seq(S)
         /\ \A i \in S : i < n => \E k \in 1 .. Len(InOrder(S, n)) : InOrder(S, n)[k] = i
<1> DEFINE Has(m) == /\ InOrder(S, m) \in Seq(S)
                     /\ \A i \in S : i < m => \E k \in 1 .. Len(InOrder(S, m)) : InOrder(S, m)[k] = i
           Good == {m \in Nat : Has(m)}
<1>1. 0 \in Good
  <2>1. InOrder(S, 0) \in Seq(S)
    BY InOrderNone, EmptySeq
  <2>2. \A i \in S : ~ (i < 0)
    OBVIOUS
  <2> QED BY <2>1, <2>2
<1>2. ASSUME NEW m \in Good PROVE m + 1 \in Good
  <2>1. Has(m) /\ m \in Nat
    OBVIOUS
  <2> HIDE DEF Good
  <2>2. CASE m \notin S
    <3>1. InOrder(S, m + 1) = InOrder(S, m)
      BY <2>1, <2>2, InOrderNext
    <3>2. \A i \in S : i < m + 1 => i < m
      BY <2>1, <2>2
    <3>3. Has(m + 1)
      BY <2>1, <3>1, <3>2
    <3> QED BY <2>1, <3>3 DEF Good
  <2>3. CASE m \in S
    <3> DEFINE s == InOrder(S, m)
               t == InOrder(S, m + 1)
    <3>1. t = Append(s, m) /\ s \in Seq(S)
      BY <2>1, <2>3, InOrderNext
    <3> HIDE DEF s, t
    <3>2. /\ t \in Seq(S) /\ Len(t) = Len(s) + 1 /\ Len(s) \in Nat
          /\ \A k \in 1 .. Len(s) : t[k] = s[k]
          /\ t[Len(s) + 1] = m
      BY <3>1, <2>3, AppendProperties
    <3>3. ASSUME NEW i \in S, i < m + 1 PROVE \E k \in 1 .. Len(t) : t[k] = i
      <4>1. CASE i = m
        <5>1. Len(s) + 1 \in 1 .. Len(t)
          BY <3>2
        <5> QED BY <3>2, <4>1, <5>1
      <4>2. CASE i # m
        <5>1. i < m
          BY <2>1, <3>3, <4>2
        <5>2. PICK k \in 1 .. Len(s) : s[k] = i
          BY <2>1, <5>1 DEF s
        <5>3. k \in 1 .. Len(t)
          BY <3>2
        <5> QED BY <3>2, <5>2, <5>3
      <4> QED BY <4>1, <4>2
    <3>4. Has(m + 1)
      BY <3>2, <3>3 DEF t
    <3> QED BY <2>1, <3>4 DEF Good
  <2> QED BY <2>2, <2>3
<1>3. Good = Nat
  <2> HIDE DEF Good
  <2>1. Good \in SUBSET Nat
    BY DEF Good
  <2> QED BY <1>1, <1>2, <2>1, Induct
<1> QED BY <1>3

(* Numbers outside the set make no difference. *)
LEMMA InOrderGap ==
  ASSUME NEW S, NEW m \in Nat, NEW n \in Nat, m <= n, \A i \in m .. (n - 1) : i \notin S
  PROVE  InOrder(S, n) = InOrder(S, m)
<1> DEFINE Good == {d \in Nat : m + d <= n => InOrder(S, m + d) = InOrder(S, m)}
<1>1. 0 \in Good
  OBVIOUS
<1>2. ASSUME NEW d \in Good PROVE d + 1 \in Good
  <2> SUFFICES ASSUME m + (d + 1) <= n PROVE InOrder(S, m + (d + 1)) = InOrder(S, m)
    OBVIOUS
  <2>1. /\ d \in Nat /\ m + d \in m .. (n - 1) /\ m + d <= n /\ m + (d + 1) = (m + d) + 1
        /\ m + d \in Nat
    OBVIOUS
  <2>2. InOrder(S, m + d) = InOrder(S, m)
    BY <2>1
  <2>3. InOrder(S, (m + d) + 1) = InOrder(S, m + d)
    BY <2>1, InOrderNext
  <2> QED BY <2>1, <2>2, <2>3
<1>3. Good = Nat
  <2> HIDE DEF Good
  <2>1. Good \in SUBSET Nat
    BY DEF Good
  <2> QED BY <1>1, <1>2, <2>1, Induct
<1>4. n - m \in Nat /\ m + (n - m) = n
  OBVIOUS
<1>5. n - m \in Good
  BY <1>3, <1>4
<1> QED BY <1>4, <1>5
-----------------------------------------------------------------------------
(* The data, which make the report: what the walk has made of the entries  *)
(* before pos (a pruned subtree contributes nothing, because nothing in it *)
(* is Reachable), what each worker has made of its file, and what is in    *)
(* the slots.                                                              *)
JobOf(i) == [entry |-> i, scanners |-> ScannersFor(i, opts.passes)]

Walked ==
  /\ pc # "walk" => pos = Len(Tree) + 1
  /\ pos <= Len(Tree) => Reachable(pos, opts)
  /\ walkErrors = InOrder(Unreadable(opts), pos)
  /\ tooLarge = Cardinality({i \in Oversized(opts) : i < pos})
  /\ jobs = [k \in 1 .. Len(InOrder(Chosen(opts), pos)) |-> JobOf(InOrder(Chosen(opts), pos)[k])]

(* The scanners below position n have run, those from n on are to run.     *)
RunsBelow(i, S, n) == [k \in 1 .. Len(InOrder(S, n)) |-> RunOf(i, InOrder(S, n)[k])]

Split(w, n) ==
  /\ todo[w] = {p \in jobs[job[w]].scanners : n <= p}
  /\ runs[w] = RunsBelow(jobs[job[w]].entry, jobs[job[w]].scanners, n)

Partway(w) ==
  /\ worker[w] = "scan" =>
       /\ File(w).read = "ok" /\ ~ IsScannerOutput(File(w))
       /\ \E n \in 0 .. (Len(Universals) + 1) : Split(w, n)
  /\ worker[w] # "scan" => runs[w] = <<>>

AsReference(i) ==
  Stored(i) => /\ results[i] = ResultOf(jobs[i].entry, opts)
               /\ Tree[jobs[i].entry].read # "blocks"

Data == Walked /\ (\A w \in Workers : Partway(w)) /\ (\A i \in Jobs : AsReference(i))

(* The walk *)

LEMMA StepsOver ==
  ASSUME NEW i \in Entries, NEW o, Reachable(i, o)
  PROVE  /\ ~ (Tree[i].kind = "dir" /\ i # 1 /\ SkipDir(i, o)) => Reachable(i + 1, o)
         /\ Reachable(Tree[i].last + 1, o)
         /\ Tree[i].kind = "dir" /\ i # 1 /\ SkipDir(i, o) =>
              \A j \in (i + 1) .. Tree[i].last : ~ Reachable(j, o)
<1>1. i \in Nat /\ i >= 1 /\ Len(Tree) \in Nat
  BY TreeAssumption DEF Entries
<1>2. Tree[i].last \in Nat /\ i <= Tree[i].last /\ Tree[i].last <= Len(Tree)
  BY <1>1, EntryType
<1>3. \A d \in 2 .. (i - 1) : Tree[d].kind = "dir" /\ i <= Tree[d].last => ~ SkipDir(d, o)
  BY DEF Reachable
<1>4. \A d \in 2 .. Tree[i].last : d \in Entries /\ Tree[d].last \in Nat /\ d <= Tree[d].last
  BY <1>1, <1>2, EntryType DEF Entries
<1>5. ASSUME ~ (Tree[i].kind = "dir" /\ i # 1 /\ SkipDir(i, o)) PROVE Reachable(i + 1, o)
  <2> SUFFICES ASSUME NEW d \in 2 .. i, Tree[d].kind = "dir", i + 1 <= Tree[d].last
               PROVE  ~ SkipDir(d, o)
    BY <1>1 DEF Reachable
  <2>1. CASE d = i
    BY <1>5, <2>1
  <2>2. CASE d # i
    <3>1. d \in 2 .. (i - 1)
      BY <1>1, <2>2
    <3>2. i <= Tree[d].last
      BY <1>1, <1>2, <1>4
    <3> QED BY <1>3, <3>1, <3>2
  <2> QED BY <2>1, <2>2
<1>6. Reachable(Tree[i].last + 1, o)
  <2> SUFFICES ASSUME NEW d \in 2 .. Tree[i].last, Tree[d].kind = "dir", Tree[i].last + 1 <= Tree[d].last
               PROVE  ~ SkipDir(d, o)
    BY <1>2 DEF Reachable
  <2>1. CASE d \in 2 .. (i - 1)
    <3>1. i <= Tree[d].last
      BY <1>1, <1>2, <1>4
    <3> QED BY <1>3, <2>1, <3>1
  <2>2. CASE d \notin 2 .. (i - 1)
    <3>1. d \in i .. Tree[i].last
      BY <1>1, <1>2, <2>2
    <3>2. Tree[d].last <= Tree[i].last
      BY <3>1, TreeAssumption
    <3> QED BY <1>2, <1>4, <3>2
  <2> QED BY <2>1, <2>2
<1>7. ASSUME Tree[i].kind = "dir", i # 1, SkipDir(i, o), NEW j \in (i + 1) .. Tree[i].last
      PROVE  ~ Reachable(j, o)
  <2>1. i \in 2 .. (j - 1) /\ j <= Tree[i].last
    BY <1>1, <1>2, <1>7
  <2> QED BY <1>7, <2>1 DEF Reachable
<1> QED BY <1>5, <1>6, <1>7

(* One call of WalkDir's callback moves past the entry and, when that is a *)
(* pruned directory, past what is below it: nothing Reachable is skipped.  *)
LEMMA Stride ==
  ASSUME IInv, Walked, WalkStep
  PROVE  /\ pos \in Entries /\ Reachable(pos, opts)
         /\ pos' \in (pos + 1) .. (Len(Tree) + 1) /\ Reachable(pos', opts)
         /\ \A j \in (pos + 1) .. (pos' - 1) : ~ Reachable(j, opts)
         /\ pc = "walk" /\ opts' = opts /\ pc' = "walk"
<1>1. pos \in Entries /\ Reachable(pos, opts) /\ pos \in Nat /\ Len(Tree) \in Nat
  <2>1. pos \in Entries /\ pos <= Len(Tree)
    BY TreeAssumption
       DEF WalkStep, VisitError, VisitDir, PassFile, SkipTooLarge, AddJob, Visiting, TypeOK, IInv, Entries
  <2> QED BY <2>1, TreeAssumption DEF Walked, Entries
<1>2. Tree[pos].last \in Nat /\ pos <= Tree[pos].last /\ Tree[pos].last <= Len(Tree)
  BY <1>1, EntryType
<1>3. pc = "walk" /\ opts' = opts /\ pc' = "walk"
  BY DEF WalkStep, VisitError, VisitDir, PassFile, SkipTooLarge, AddJob, Visiting
<1>4. CASE Tree[pos].kind = "dir" /\ pos # 1 /\ SkipDir(pos, opts)
  <2>1. pos' = Tree[pos].last + 1
    BY <1>4 DEF WalkStep, VisitError, VisitDir, PassFile, SkipTooLarge, AddJob, Visiting
  <2>2. pos' - 1 = Tree[pos].last /\ pos' \in (pos + 1) .. (Len(Tree) + 1)
    BY <1>1, <1>2, <2>1
  <2> QED BY <1>1, <1>3, <1>4, <2>1, <2>2, StepsOver
<1>5. CASE ~ (Tree[pos].kind = "dir" /\ pos # 1 /\ SkipDir(pos, opts))
  <2>1. pos' = pos + 1
    BY <1>5 DEF WalkStep, VisitError, VisitDir, PassFile, SkipTooLarge, AddJob, Visiting
  <2>2. (pos + 1) .. (pos' - 1) = {} /\ pos' \in (pos + 1) .. (Len(Tree) + 1)
    BY <1>1, <2>1, <1>2
  <2> QED BY <1>1, <1>3, <1>5, <2>1, <2>2, StepsOver
<1> QED BY <1>4, <1>5

LEMMA StrideInOrder ==
  ASSUME IInv, Walked, WalkStep, NEW S, \A i \in S : Reachable(i, opts)
  PROVE  InOrder(S, pos') = IF pos \in S THEN Append(InOrder(S, pos), pos) ELSE InOrder(S, pos)
<1>1. /\ pos \in Nat /\ pos + 1 \in Nat /\ pos' \in Nat /\ pos + 1 <= pos'
      /\ \A j \in (pos + 1) .. (pos' - 1) : ~ Reachable(j, opts)
  BY Stride, TreeAssumption DEF Entries
<1>2. \A j \in (pos + 1) .. (pos' - 1) : j \notin S
  BY <1>1
<1>3. InOrder(S, pos') = InOrder(S, pos + 1)
  BY <1>1, <1>2, InOrderGap
<1> QED BY <1>1, <1>3, InOrderNext

(* What the callback does with an entry is what the reference says of it.  *)
LEMMA Judged ==
  ASSUME IInv, pos \in Entries, Reachable(pos, opts)
  PROVE  /\ Tree[pos].kind = "error" <=> pos \in Unreadable(opts)
         /\ pos \in Oversized(opts) <=> Tree[pos].kind = "file" /\ ~ Passed(pos) /\ OverCap(pos)
         /\ pos \in Chosen(opts) <=> Tree[pos].kind = "file" /\ ~ Passed(pos) /\ ~ OverCap(pos)
<1>1. Tree[pos].lstat \in Nat
  <2>1. Tree[pos] \in Entry
    BY TreeAssumption DEF Entries
  <2> QED BY <2>1 DEF Entry
<1>2. opts.fast \in BOOLEAN /\ opts.stagedOnly \in BOOLEAN
  <2>1. opts \in Option
    BY OptionsAssumption DEF IInv, TypeOK
  <2> QED BY <2>1 DEF Option
<1>3. (Tree[pos].lstat <= FastMax) <=> ~ (Tree[pos].lstat > FastMax)
  BY <1>1, FastMaxAssumption
<1>4. Wanted(pos, opts) <=> Tree[pos].kind = "file" /\ ~ Passed(pos)
  BY <1>2, <1>3, Zenon DEF Wanted, Passed
<1>5. TooLarge(pos, opts) <=> OverCap(pos)
  BY DEF TooLarge, OverCap
<1> QED BY <1>4, <1>5 DEF Unreadable, Oversized, Chosen

LEMMA WalkWalked == ASSUME IInv, Walked, WalkStep PROVE Walked'
<1> DEFINE Chose(n) == InOrder(Chosen(opts), n)
<1>1. /\ pos \in Entries /\ Reachable(pos, opts)
      /\ pos' \in (pos + 1) .. (Len(Tree) + 1) /\ Reachable(pos', opts)
      /\ \A j \in (pos + 1) .. (pos' - 1) : ~ Reachable(j, opts)
      /\ pc = "walk" /\ opts' = opts /\ pc' = "walk"
  BY Stride
<1>2. pos \in Nat /\ pos' \in Nat /\ Len(Tree) \in Nat /\ pos < pos'
  BY <1>1, TreeAssumption DEF Entries
<1>3. /\ \A i \in Unreadable(opts) : Reachable(i, opts) /\ i \in Nat
      /\ \A i \in Oversized(opts) : Reachable(i, opts) /\ i \in Nat
      /\ \A i \in Chosen(opts) : Reachable(i, opts) /\ i \in Nat
  BY DEF Unreadable, Oversized, Chosen, Wanted, Entries
<1>4. walkErrors' = InOrder(Unreadable(opts), pos')
  <2>1. InOrder(Unreadable(opts), pos') =
          IF pos \in Unreadable(opts) THEN Append(walkErrors, pos) ELSE walkErrors
    BY <1>3, StrideInOrder DEF Walked
  <2>2. pos \in Unreadable(opts) <=> VisitError
    BY <1>1, Judged DEF WalkStep, VisitError, VisitDir, PassFile, SkipTooLarge, AddJob, Visiting
  <2> QED BY <2>1, <2>2 DEF WalkStep, VisitError, VisitDir, PassFile, SkipTooLarge, AddJob
<1>5. tooLarge' = Cardinality({i \in Oversized(opts) : i < pos'})
  <2> DEFINE T(n) == {i \in Oversized(opts) : i < n}
  <2>1. IsFiniteSet(T(pos)) /\ pos \notin T(pos)
    <3>1. T(pos) \in SUBSET Entries /\ IsFiniteSet(Entries)
      <4>1. IsFiniteSet(1 .. Len(Tree))
        BY <1>2, FS_Interval
      <4> QED BY <4>1 DEF Oversized, Entries
    <3> QED BY <1>2, <3>1, FS_Subset
  <2>2. ASSUME NEW i \in Oversized(opts) PROVE i < pos' <=> i < pos \/ i = pos
    <3>1. i \in Nat /\ i \notin (pos + 1) .. (pos' - 1)
      BY <1>1, <1>3
    <3> DEFINE n == pos
               m == pos'
    <3>2. n \in Nat /\ m \in Nat /\ n < m /\ i \in Nat /\ i \notin (n + 1) .. (m - 1)
      BY <1>2, <3>1
    <3> HIDE DEF n, m
    <3>3. i < m <=> i < n \/ i = n
      BY <3>2
    <3> QED BY <3>3 DEF n, m
  <2>3. CASE SkipTooLarge
    <3>1. pos \in Oversized(opts)
      BY <1>1, <2>3, Judged DEF SkipTooLarge, Visiting
    <3>2. T(pos') = T(pos) \cup {pos}
      BY <2>2, <3>1
    <3>3. Cardinality(T(pos')) = Cardinality(T(pos)) + 1
      BY <2>1, <3>2, FS_AddElement
    <3> QED BY <2>3, <3>3 DEF SkipTooLarge, Walked
  <2>4. CASE ~ SkipTooLarge
    <3>1. pos \notin Oversized(opts)
      BY <1>1, <2>4, Judged DEF WalkStep, VisitError, VisitDir, PassFile, AddJob, Visiting
    <3>2. T(pos') = T(pos)
      BY <2>2, <3>1
    <3>3. tooLarge' = tooLarge
      BY <2>4 DEF WalkStep, VisitError, VisitDir, PassFile, AddJob
    <3> QED BY <3>2, <3>3 DEF Walked
  <2> QED BY <2>3, <2>4
<1>6. jobs' = [k \in 1 .. Len(Chose(pos')) |-> JobOf(Chose(pos')[k])]
  <2>1. Chose(pos') = IF pos \in Chosen(opts) THEN Append(Chose(pos), pos) ELSE Chose(pos)
    BY <1>3, StrideInOrder
  <2>2. jobs = [k \in 1 .. Len(Chose(pos)) |-> JobOf(Chose(pos)[k])]
    BY DEF Walked
  <2>3. Chose(pos) \in Seq(Chosen(opts)) /\ Len(Chose(pos)) \in Nat
    <3>1. Chosen(opts) \in SUBSET Nat
      BY <1>3
    <3> QED BY <1>2, <3>1, InOrderHas
  <2> HIDE DEF Chose
  <2>4. CASE AddJob
    <3>1. pos \in Chosen(opts)
      BY <1>1, <2>4, Judged DEF AddJob, Visiting
    <3>2. jobs' = Append(jobs, JobOf(pos))
      BY <2>4 DEF AddJob, JobOf
    <3>3. /\ Len(Chose(pos')) = Len(Chose(pos)) + 1
          /\ \A k \in 1 .. Len(Chose(pos)) : Chose(pos')[k] = Chose(pos)[k]
          /\ Chose(pos')[Len(Chose(pos)) + 1] = pos
      BY <2>1, <2>3, <3>1, AppendProperties
    <3>4. /\ jobs \in Seq(Job) /\ JobOf(pos) \in Job
      BY <1>1, ScannersForType DEF IInv, TypeOK, JobOf, Job
    <3>5. Len(jobs) = Len(Chose(pos))
      BY <2>2, <2>3, <3>4
    <3>6. /\ jobs' \in Seq(Job) /\ Len(jobs') = Len(jobs) + 1
          /\ \A k \in 1 .. Len(jobs) : jobs'[k] = jobs[k]
          /\ jobs'[Len(jobs) + 1] = JobOf(pos)
      BY <3>2, <3>4, AppendProperties
    <3>7. ASSUME NEW k \in 1 .. (Len(jobs) + 1) PROVE jobs'[k] = JobOf(Chose(pos')[k])
      <4>1. CASE k = Len(jobs) + 1
        BY <3>3, <3>5, <3>6, <4>1
      <4>2. CASE k \in 1 .. Len(jobs)
        BY <2>2, <3>3, <3>5, <3>6, <4>2
      <4> QED BY <2>3, <3>5, <4>1, <4>2
    <3>8. jobs' = [k \in 1 .. Len(jobs') |-> jobs'[k]]
      BY <3>6
    <3> QED BY <3>3, <3>5, <3>6, <3>7, <3>8
  <2>5. CASE ~ AddJob
    <3>1. pos \notin Chosen(opts)
      BY <1>1, <2>5, Judged DEF WalkStep, VisitError, VisitDir, PassFile, SkipTooLarge, Visiting
    <3>2. jobs' = jobs
      BY <2>5 DEF WalkStep, VisitError, VisitDir, PassFile, SkipTooLarge
    <3> QED BY <2>1, <2>2, <3>1, <3>2
  <2> QED BY <2>4, <2>5
<1>7. \A i : JobOf(i)' = JobOf(i)
  BY <1>1 DEF JobOf
<1> QED BY <1>1, <1>4, <1>5, <1>6, <1>7 DEF Walked

-----------------------------------------------------------------------------
(* The workers *)

LEMMA MapAppend ==
  ASSUME NEW T, NEW s \in Seq(T), NEW x, x \in T, NEW i
  PROVE  [k \in 1 .. Len(Append(s, x)) |-> RunOf(i, Append(s, x)[k])]
         = Append([k \in 1 .. Len(s) |-> RunOf(i, s[k])], RunOf(i, x))
<1> DEFINE t == Append(s, x)
           a == [k \in 1 .. Len(s) |-> RunOf(i, s[k])]
           R == {RunOf(i, y) : y \in T}
<1>1. /\ Len(t) = Len(s) + 1 /\ Len(s) \in Nat
      /\ \A k \in 1 .. Len(s) : t[k] = s[k] /\ s[k] \in T
      /\ t[Len(s) + 1] = x
  BY AppendProperties
<1>2. a \in Seq(R) /\ Len(a) = Len(s) /\ RunOf(i, x) \in R
  <2>1. \A k \in 1 .. Len(s) : RunOf(i, s[k]) \in R
    BY <1>1
  <2> QED BY <1>1, <2>1, IsASeq
<1>3. /\ Append(a, RunOf(i, x)) \in Seq(R) /\ Len(Append(a, RunOf(i, x))) = Len(s) + 1
      /\ \A k \in 1 .. Len(s) : Append(a, RunOf(i, x))[k] = a[k]
      /\ Append(a, RunOf(i, x))[Len(s) + 1] = RunOf(i, x)
  BY <1>2, AppendProperties
<1>4. ASSUME NEW k \in 1 .. (Len(s) + 1) PROVE Append(a, RunOf(i, x))[k] = RunOf(i, t[k])
  <2>1. CASE k = Len(s) + 1
    BY <1>1, <1>3, <2>1
  <2>2. CASE k # Len(s) + 1
    <3>1. k \in 1 .. Len(s)
      BY <1>1, <2>2
    <3>2. a[k] = RunOf(i, s[k])
      BY <3>1
    <3> HIDE DEF a
    <3> QED BY <1>1, <1>3, <3>1, <3>2
  <2> QED BY <2>1, <2>2
<1> HIDE DEF a, t, R
<1>5. Append(a, RunOf(i, x)) = [k \in 1 .. (Len(s) + 1) |-> RunOf(i, t[k])]
  <2> DEFINE b == Append(a, RunOf(i, x))
  <2>1. b \in Seq(R) /\ Len(b) = Len(s) + 1
    BY <1>3
  <2> HIDE DEF b
  <2>2. b = [k \in 1 .. (Len(s) + 1) |-> b[k]]
    BY <2>1
  <2>3. Append(a, RunOf(i, x)) = [k \in 1 .. (Len(s) + 1) |-> Append(a, RunOf(i, x))[k]]
    BY <2>2 DEF b
  <2> QED BY <1>4, <2>3
<1> QED BY <1>1, <1>5 DEF a, t

(* A job is a chosen file with the scanners planned for it. *)
LEMMA JobIs ==
  ASSUME IInv, Walked, NEW k \in Jobs
  PROVE  /\ jobs[k].entry \in Entries /\ jobs[k].scanners \in SUBSET Position
         /\ jobs[k].scanners = ScannersFor(jobs[k].entry, opts.passes)
<1> DEFINE files == InOrder(Chosen(opts), pos)
<1>1. jobs[k] \in Job
  BY DEF IInv, TypeOK, Jobs
<1>2. jobs = [l \in 1 .. Len(files) |-> JobOf(files[l])]
  BY DEF Walked
<1>3. DOMAIN jobs = Jobs
  BY DEF IInv, TypeOK, Jobs
<1>4. jobs[k] = JobOf(files[k])
  <2> HIDE DEF files
  <2> QED BY <1>2, <1>3
<1> QED BY <1>1, <1>4 DEF JobOf, Job

LEMMA KeepsPartway ==
  ASSUME NEW v, Partway(v), jobs' = jobs, job'[v] = job[v], todo'[v] = todo[v],
         runs'[v] = runs[v], worker'[v] = worker[v]
  PROVE  Partway(v)'
  BY DEF Partway, Split, File

(* Running the first scanner still to run moves the split past it. *)
LEMMA ScanSplits ==
  ASSUME IInv, Walked, NEW w \in Workers, Partway(w), Scan(w)
  PROVE  Partway(w)'
<1> DEFINE S == jobs[job[w]].scanners
           i == jobs[job[w]].entry
<1>1. PICK k \in todo[w] :
        /\ \A l \in todo[w] : k <= l
        /\ runs' = [runs EXCEPT ![w] = Append(@, RunOf(i, k))]
        /\ todo' = [todo EXCEPT ![w] = @ \ {k}]
  BY DEF Scan
<1>2. worker[w] = "scan" /\ worker' = worker /\ jobs' = jobs /\ job' = job
  BY DEF Scan
<1>3. /\ File(w).read = "ok" /\ ~ IsScannerOutput(File(w))
  BY <1>2 DEF Partway
<1>4. PICK n \in 0 .. (Len(Universals) + 1) : Split(w, n)
  BY <1>2 DEF Partway
<1>5. S \in SUBSET Position /\ Len(Universals) \in Nat /\ S \in SUBSET Nat
  <2>1. job[w] \in Jobs
    BY <1>2 DEF IInv, Enqueued, Busy
  <2> QED BY <2>1, JobIs, ScannersAssumption DEF Position
<1>6. /\ todo'[w] = todo[w] \ {k} /\ runs'[w] = Append(runs[w], RunOf(i, k))
  BY <1>1 DEF IInv, TypeOK
<1>7. todo[w] = {p \in S : n <= p} /\ runs[w] = RunsBelow(i, S, n)
  BY <1>4 DEF Split
<1> HIDE DEF S, i
<1>8. k \in S /\ k \in Nat /\ n \in Nat /\ n <= k /\ k + 1 \in 0 .. (Len(Universals) + 1)
  <2>1. k \in S /\ n <= k
    BY <1>1, <1>7
  <2>2. k \in 0 .. Len(Universals)
    BY <1>5, <2>1 DEF Position
  <2> QED BY <1>5, <2>1, <2>2
<1>9. \A p \in n .. (k - 1) : p \notin S
  BY <1>1, <1>7, <1>8
<1>10. InOrder(S, k) = InOrder(S, n)
  BY <1>8, <1>9, InOrderGap
<1>11. InOrder(S, k + 1) = Append(InOrder(S, n), k)
  BY <1>8, <1>10, InOrderNext
<1>12. runs'[w] = RunsBelow(i, S, k + 1)
  <2>1. InOrder(S, n) \in Seq(S)
    BY <1>5, <1>8, InOrderHas
  <2> QED BY <1>6, <1>7, <1>8, <1>11, <2>1, MapAppend DEF RunsBelow
<1>13. todo'[w] = {p \in S : k + 1 <= p}
  <2>1. ASSUME NEW p \in S PROVE n <= p /\ p # k <=> k + 1 <= p
    <3>1. p \in Nat /\ (n <= p => k <= p)
      BY <1>1, <1>5, <1>7, <2>1
    <3> QED BY <1>8, <3>1
  <2> QED BY <1>6, <1>7, <2>1
<1>14. Split(w, k + 1)'
  BY <1>2, <1>12, <1>13 DEF Split, S, i, RunsBelow
<1>15. (File(w).read = "ok" /\ ~ IsScannerOutput(File(w)))'
  BY <1>2, <1>3 DEF File, IsScannerOutput
<1>16. worker'[w] = "scan"
  BY <1>2
<1> QED BY <1>8, <1>14, <1>15, <1>16 DEF Partway

LEMMA ReadSplits ==
  ASSUME IInv, Walked, NEW w \in Workers, Partway(w), Read(w)
  PROVE  Partway(w)'
<1> DEFINE S == jobs[job[w]].scanners
           i == jobs[job[w]].entry
<1>1. /\ worker[w] = "read" /\ File(w).read = "ok" /\ ~ IsScannerOutput(File(w))
      /\ worker'[w] = "scan" /\ todo'[w] = S
      /\ jobs' = jobs /\ job' = job /\ runs' = runs
  BY DEF Read, IInv, TypeOK
<1>2. S \in SUBSET Position /\ Len(Universals) \in Nat
  <2>1. job[w] \in Jobs
    BY <1>1 DEF IInv, Enqueued, Busy
  <2> QED BY <2>1, JobIs, ScannersAssumption
<1>3. runs[w] = <<>>
  BY <1>1 DEF Partway
<1> HIDE DEF S, i
<1>4. S = {p \in S : 0 <= p}
  <2>1. \A p \in Position : 0 <= p
    BY <1>2 DEF Position
  <2> QED BY <1>2, <2>1
<1>5. RunsBelow(i, S, 0) = <<>>
  <2>1. Len(InOrder(S, 0)) = 0
    BY InOrderNone
  <2> QED BY <2>1 DEF RunsBelow
<1>6. Split(w, 0)'
  BY <1>1, <1>3, <1>4, <1>5 DEF Split, S, i, RunsBelow
<1>7. (File(w).read = "ok" /\ ~ IsScannerOutput(File(w)))'
  BY <1>1 DEF File, IsScannerOutput
<1>8. 0 \in 0 .. (Len(Universals) + 1)
  BY <1>2
<1> QED BY <1>1, <1>6, <1>7, <1>8 DEF Partway

(* A worker without scanners left has run all those of its file.           *)
LEMMA AllRun ==
  ASSUME IInv, Walked, NEW w \in Workers, Partway(w), worker[w] = "scan", todo[w] = {}
  PROVE  /\ File(w).read # "blocks"
         /\ [entry |-> jobs[job[w]].entry, status |-> "run", runs |-> runs[w]]
            = ResultOf(jobs[job[w]].entry, opts)
<1> DEFINE S == jobs[job[w]].scanners
           i == jobs[job[w]].entry
           N == Len(Universals) + 1
<1>1. /\ File(w).read = "ok" /\ ~ IsScannerOutput(File(w))
  BY DEF Partway
<1>2. PICK n \in 0 .. N : Split(w, n)
  BY DEF Partway
<1>3. S \in SUBSET Position /\ Len(Universals) \in Nat /\ S = ScannersFor(i, opts.passes)
  <2>1. job[w] \in Jobs
    BY DEF IInv, Enqueued, Busy
  <2> QED BY <2>1, JobIs, ScannersAssumption
<1>4. {p \in S : n <= p} = {} /\ runs[w] = RunsBelow(i, S, n)
  BY <1>2 DEF Split
<1>5. Tree[i].read = "ok" /\ ~ (Tree[i].ext = "json" /\ Tree[i].scannerOutput)
  BY <1>1 DEF File, IsScannerOutput
<1> HIDE DEF S, i
<1>6. n \in Nat /\ N \in Nat /\ n <= N
  BY <1>3
<1>7. \A p \in n .. (N - 1) : p \notin S
  BY <1>4, <1>6
<1>8. InOrder(S, N) = InOrder(S, n)
  BY <1>6, <1>7, InOrderGap
<1>9. ResultOf(i, opts).runs = RunsBelow(i, S, N)
  BY <1>3, <1>5 DEF ResultOf, RunsBelow
<1>10. ResultOf(i, opts) = [entry |-> i, status |-> "run", runs |-> RunsBelow(i, S, N)]
  BY <1>3, <1>5 DEF ResultOf, RunsBelow
<1>11. runs[w] = RunsBelow(i, S, N)
  BY <1>4, <1>8 DEF RunsBelow
<1> QED BY <1>1, <1>10, <1>11 DEF i

(* What a worker stores is the reference's result of its file. *)
LEMMA StoresReference ==
  ASSUME IInv, Walked, NEW w \in Workers, Partway(w),
         NEW status \in {"unreadable", "output", "run"}, NEW ran \in Seq(Run),
         Busy(w), StoreResult(w, status, ran), File(w).read # "blocks",
         [entry |-> jobs[job[w]].entry, status |-> status, runs |-> ran]
           = ResultOf(jobs[job[w]].entry, opts),
         \A k \in Jobs : AsReference(k)
  PROVE  (\A k \in Jobs : AsReference(k))'
<1>1. /\ job[w] \in Jobs /\ job[w] \in DOMAIN results
      /\ \A k \in Jobs : Stored(k)' <=> Stored(k) \/ k = job[w]
      /\ \A k \in Jobs \ {job[w]} : results'[k] = results[k]
  BY StoreTypes
<1>2. opts' = opts /\ jobs' = jobs /\ Jobs' = Jobs
  BY DEF StoreResult, Jobs
<1>3. results'[job[w]] = [entry |-> jobs[job[w]].entry, status |-> status, runs |-> ran]
  <2>1. results' = [results EXCEPT ![job[w]] =
                     [entry |-> jobs[job[w]].entry, status |-> status, runs |-> ran]]
    BY DEF StoreResult
  <2> QED BY <1>1, <2>1, ExceptSeq DEF IInv, TypeOK
<1>4. ASSUME NEW k \in Jobs, Stored(k)'
      PROVE  results'[k] = ResultOf(jobs[k].entry, opts) /\ Tree[jobs[k].entry].read # "blocks"
  <2>1. CASE k = job[w]
    BY <1>3, <2>1 DEF File
  <2>2. CASE k # job[w]
    BY <1>1, <1>4, <2>2 DEF AsReference
  <2> QED BY <2>1, <2>2
<1>5. \A k : ResultOf(jobs[k].entry, opts)' = ResultOf(jobs[k].entry, opts)
  BY <1>2
<1> QED BY <1>2, <1>4, <1>5 DEF AsReference

LEMMA StoreData ==
  ASSUME IInv, Data, NEW w \in Workers, ReadFails(w) \/ SkipOutput(w) \/ Store(w)
  PROVE  (\A k \in Jobs : AsReference(k))'
<1>1. job[w] \in Jobs
  BY DEF IInv, Enqueued, Busy, ReadFails, SkipOutput, Store
<1>2. jobs[job[w]].entry \in Entries
  BY <1>1, JobIs DEF Data
<1>3. CASE ReadFails(w)
  <2>1. /\ File(w).read = "fails" /\ Busy(w) /\ StoreResult(w, "unreadable", <<>>)
    BY <1>3 DEF ReadFails, Busy
  <2>2. [entry |-> jobs[job[w]].entry, status |-> "unreadable", runs |-> <<>>]
          = ResultOf(jobs[job[w]].entry, opts)
    BY <2>1 DEF ResultOf, File
  <2> QED BY <2>1, <2>2, StoresReference, EmptySeq DEF Data
<1>4. CASE SkipOutput(w)
  <2>1. /\ File(w).read = "ok" /\ IsScannerOutput(File(w)) /\ Busy(w)
        /\ StoreResult(w, "output", <<>>)
    BY <1>4 DEF SkipOutput, Busy
  <2>2. [entry |-> jobs[job[w]].entry, status |-> "output", runs |-> <<>>]
          = ResultOf(jobs[job[w]].entry, opts)
    BY <2>1 DEF ResultOf, File, IsScannerOutput
  <2> QED BY <2>1, <2>2, StoresReference, EmptySeq DEF Data
<1>5. CASE Store(w)
  <2>1. /\ worker[w] = "scan" /\ todo[w] = {} /\ Busy(w) /\ StoreResult(w, "run", runs[w])
        /\ runs[w] \in Seq(Run)
    BY <1>5 DEF Store, Busy, IInv, TypeOK
  <2>2. /\ File(w).read # "blocks"
        /\ [entry |-> jobs[job[w]].entry, status |-> "run", runs |-> runs[w]]
            = ResultOf(jobs[job[w]].entry, opts)
    BY <2>1, AllRun DEF Data
  <2> QED BY <2>1, <2>2, StoresReference DEF Data
<1> QED BY <1>3, <1>4, <1>5

LEMMA WorkData == ASSUME IInv, Data, NEW w \in Workers, Work(w) PROVE Data'
<1>1. /\ jobs' = jobs /\ Jobs' = Jobs
      /\ UNCHANGED <<opts, pc, pos, walkErrors, tooLarge>>
  BY DEF Work, Receive, Exit, ReadFails, SkipOutput, Read, Scan, Store, StoreResult, walkVars, Jobs
<1>2. Walked'
  BY <1>1 DEF Data, Walked, JobOf
<1>3. ASSUME NEW v \in Workers, v # w PROVE Partway(v)'
  <2>1. /\ job'[v] = job[v] /\ todo'[v] = todo[v] /\ runs'[v] = runs[v] /\ worker'[v] = worker[v]
    BY <1>3 DEF IInv, TypeOK, Work, Receive, Exit, ReadFails, SkipOutput, Read, Scan, Store, StoreResult
  <2> QED BY <1>1, <2>1, KeepsPartway DEF Data
<1>4. Partway(w)'
  <2>1. CASE Receive(w) \/ Exit(w)
    <3>1. worker'[w] # "scan" /\ runs' = runs /\ runs[w] = <<>>
      BY <2>1 DEF Receive, Exit, Data, Partway, IInv, TypeOK
    <3> QED BY <3>1 DEF Partway
  <2>2. CASE ReadFails(w) \/ SkipOutput(w) \/ Store(w)
    <3>1. worker'[w] # "scan" /\ runs'[w] = <<>>
      BY <2>2 DEF ReadFails, SkipOutput, Store, StoreResult, IInv, TypeOK
    <3> QED BY <3>1 DEF Partway
  <2>3. CASE Read(w)
    BY <2>3, ReadSplits DEF Data
  <2>4. CASE Scan(w)
    BY <2>4, ScanSplits DEF Data
  <2> QED BY <2>1, <2>2, <2>3, <2>4 DEF Work
<1>5. (\A k \in Jobs : AsReference(k))'
  <2>1. CASE ReadFails(w) \/ SkipOutput(w) \/ Store(w)
    BY <2>1, StoreData
  <2>2. CASE Receive(w) \/ Exit(w) \/ Read(w) \/ Scan(w)
    <3>1. results' = results
      BY <2>2 DEF Receive, Exit, Read, Scan
    <3> QED BY <1>1, <3>1 DEF Data, AsReference, Stored
  <2> QED BY <2>1, <2>2 DEF Work
<1> QED BY <1>2, <1>3, <1>4, <1>5 DEF Data

-----------------------------------------------------------------------------
(* The scanning goroutine, and the whole. *)

LEMMA InitData == Init => Data
<1> SUFFICES ASSUME Init PROVE Data OBVIOUS
<1>1. IInv
  BY InitIInv
<1>2. /\ pc = "walk" /\ pos = 1 /\ jobs = <<>> /\ walkErrors = <<>> /\ tooLarge = 0
      /\ results = <<>> /\ \A w \in Workers : worker[w] = "off" /\ runs[w] = <<>>
  BY DEF Init
<1>3. ASSUME NEW S, \A i \in S : i # 0 PROVE InOrder(S, 1) = <<>>
  <2>1. InOrder(S, 0 + 1) = InOrder(S, 0)
    BY <1>3, InOrderNext
  <2> QED BY <2>1, InOrderNone
<1>4. /\ \A i \in Unreadable(opts) : i # 0 /\ i >= 1
      /\ \A i \in Oversized(opts) : i # 0 /\ ~ (i < 1)
      /\ \A i \in Chosen(opts) : i # 0 /\ i >= 1
  BY TreeAssumption DEF Unreadable, Oversized, Chosen, Entries
<1>5. Walked
  <2>1. walkErrors = InOrder(Unreadable(opts), pos)
    BY <1>2, <1>3, <1>4
  <2>2. tooLarge = Cardinality({i \in Oversized(opts) : i < pos})
    <3>1. {i \in Oversized(opts) : i < 1} = {}
      BY <1>4
    <3> QED BY <1>2, <3>1, FS_EmptySet
  <2>3. jobs = [k \in 1 .. Len(InOrder(Chosen(opts), pos)) |-> JobOf(InOrder(Chosen(opts), pos)[k])]
    <3>1. InOrder(Chosen(opts), pos) = <<>>
      BY <1>2, <1>3, <1>4
    <3> QED BY <1>2, <3>1
  <2>4. Reachable(pos, opts)
    BY <1>2 DEF Reachable
  <2> QED BY <1>2, <2>1, <2>2, <2>3, <2>4 DEF Walked
<1>6. \A w \in Workers : Partway(w)
  BY <1>2 DEF Partway
<1>7. \A i \in Jobs : AsReference(i)
  BY <1>2 DEF Jobs
<1> QED BY <1>5, <1>6, <1>7 DEF Data

LEMMA WalkData == ASSUME IInv, Data, WalkStep PROVE Data'
<1>1. Walked'
  BY WalkWalked DEF Data
<1>2. /\ UNCHANGED <<worker, runs, results>> /\ pc = "walk"
  BY DEF WalkStep, VisitError, VisitDir, PassFile, SkipTooLarge, AddJob, Visiting, workerVars
<1>3. results = <<>> /\ \A w \in Workers : worker[w] = "off"
  BY <1>2 DEF IInv, BeforePool
<1>4. (\A w \in Workers : Partway(w))'
  BY <1>2, <1>3 DEF Data, Partway
<1>5. (\A i \in Jobs : AsReference(i))'
  BY <1>2, <1>3 DEF AsReference, Stored
<1> QED BY <1>1, <1>4, <1>5 DEF Data

LEMMA MainData == ASSUME IInv, Data, StartPool \/ Enqueue \/ Close \/ Collect PROVE Data'
<1>1. /\ jobs' = jobs /\ Jobs' = Jobs
      /\ UNCHANGED <<opts, pos, walkErrors, tooLarge, job, todo, runs>>
  BY DEF StartPool, Enqueue, Close, Collect, walkVars, workerVars, Jobs
<1>2. pc # "walk" \/ pos > Len(Tree)
  BY DEF StartPool, Enqueue, Close, Collect
<1>3. pos = Len(Tree) + 1
  BY <1>2, TreeAssumption DEF Data, Walked, IInv, TypeOK
<1>4. Walked'
  BY <1>1, <1>3 DEF Data, Walked, JobOf
<1>5. CASE StartPool
  <2>1. /\ results' = [i \in Jobs |-> Unset] /\ pc = "walk"
        /\ \A w \in Workers : worker'[w] # "scan" /\ worker[w] = "off"
    BY <1>5 DEF StartPool, IInv, BeforePool
  <2>2. (\A w \in Workers : Partway(w))'
    BY <1>1, <2>1 DEF Data, Partway
  <2>3. (\A i \in Jobs : AsReference(i))'
    BY <1>1, <2>1 DEF AsReference, Stored
  <2> QED BY <1>4, <2>2, <2>3 DEF Data
<1>6. CASE Enqueue \/ Close \/ Collect
  <2>1. UNCHANGED <<worker, results>>
    BY <1>6 DEF Enqueue, Close, Collect, workerVars
  <2>2. ASSUME NEW w \in Workers PROVE Partway(w)'
    BY <1>1, <2>1, KeepsPartway DEF Data
  <2>3. (\A i \in Jobs : AsReference(i))'
    BY <1>1, <2>1 DEF Data, AsReference, Stored
  <2> QED BY <1>4, <2>2, <2>3 DEF Data
<1> QED BY <1>5, <1>6

LEMMA NextData == IInv /\ Data /\ [Next]_vars => Data'
<1> SUFFICES ASSUME IInv, Data, [Next]_vars PROVE Data' OBVIOUS
<1>1. CASE WalkStep
  BY <1>1, WalkData
<1>2. CASE StartPool \/ Enqueue \/ Close \/ Collect
  BY <1>2, MainData
<1>3. ASSUME NEW w \in Workers, Work(w) PROVE Data'
  BY <1>3, WorkData
<1>4. CASE UNCHANGED vars
  <2>1. /\ jobs' = jobs /\ Jobs' = Jobs
        /\ UNCHANGED <<opts, pc, pos, walkErrors, tooLarge, job, todo, runs, worker, results>>
    BY <1>4 DEF vars, walkVars, workerVars, Jobs
  <2>2. Walked'
    BY <2>1 DEF Data, Walked, JobOf
  <2>3. ASSUME NEW w \in Workers PROVE Partway(w)'
    BY <2>1, KeepsPartway DEF Data
  <2>4. (\A i \in Jobs : AsReference(i))'
    BY <2>1 DEF Data, AsReference, Stored
  <2> QED BY <2>2, <2>3, <2>4 DEF Data
<1> QED BY <1>1, <1>2, <1>3, <1>4 DEF Next, Main, WalkStep

(* The walk, the workers and the slots agree with the reference in every   *)
(* reachable state, for every tree, option set and pool size.              *)
THEOREM DataAsReference == Spec => []Data
<1> QED BY InitIInv, NextIInv, InitData, NextData, PTL DEF Spec

(* When wg.Wait returns, the slots are those of the reference.             *)
LEMMA CollectsReference ==
  ASSUME IInv, Data, Collect
  PROVE  opts \notin Hanging /\ report' = SequentialReport[opts]
<1> DEFINE files == InOrder(Chosen(opts), pos)
<1>1. /\ pc = "wait" /\ \A w \in Workers : worker[w] \in {"off", "exited"}
      /\ report' = ReportOf(walkErrors, tooLarge, results)
  BY DEF Collect
<1>2. /\ pos = Len(Tree) + 1 /\ Len(Tree) \in Nat /\ pos \in Nat
      /\ walkErrors = InOrder(Unreadable(opts), pos)
      /\ tooLarge = Cardinality({i \in Oversized(opts) : i < pos})
      /\ jobs = [k \in 1 .. Len(files) |-> JobOf(files[k])]
  BY <1>1, TreeAssumption DEF Data, Walked
<1>3. \A i \in Entries : i \in Nat /\ i < pos
  BY <1>2 DEF Entries
<1>4. Chosen(opts) \in SUBSET Nat /\ \A i \in Chosen(opts) \cup Oversized(opts) : i < pos
  BY <1>3 DEF Chosen, Oversized
<1>5. /\ files \in Seq(Chosen(opts)) /\ Len(files) \in Nat
      /\ \A i \in Chosen(opts) : \E k \in 1 .. Len(files) : files[k] = i
  <2>1. /\ files \in Seq(Chosen(opts))
        /\ \A i \in Chosen(opts) : i < pos => \E k \in 1 .. Len(files) : files[k] = i
    BY <1>2, <1>4, InOrderHas
  <2> HIDE DEF files
  <2> QED BY <1>4, <2>1
<1>6. {i \in Oversized(opts) : i < pos} = Oversized(opts)
  BY <1>4
<1>7. /\ Len(jobs) = Len(files) /\ \A k \in 1 .. Len(files) : jobs[k].entry = files[k]
  <2> HIDE DEF files
  <2>1. jobs \in Seq(Job)
    BY DEF IInv, TypeOK
  <2>2. Len(jobs) = Len(files)
    BY <1>2, <1>5, <2>1
  <2>3. ASSUME NEW k \in 1 .. Len(files) PROVE jobs[k].entry = files[k]
    <3>1. jobs[k] = JobOf(files[k])
      BY <1>2
    <3> QED BY <3>1 DEF JobOf
  <2> QED BY <2>2, <2>3
<1>8. ASSUME NEW i \in Jobs PROVE Stored(i)
  <2>1. 1 \in Workers /\ worker[1] = "exited"
    BY <1>1, PoolAssumption DEF IInv, AfterPool, Workers
  <2>2. queue = <<>> /\ next = Len(jobs) + 1
    BY <2>1 DEF IInv, Shutdown
  <2>3. \A w \in Workers : ~ Busy(w)
    BY <1>1 DEF Busy
  <2>4. Len(queue) = 0 /\ i < next /\ ~ Held(i)
    BY <2>2, <2>3, EmptySeq DEF IInv, TypeOK, Jobs, Held
  <2> QED BY <2>4 DEF IInv, NoneLost
<1>9. /\ results \in Seq(JobResult \cup {Unset}) /\ Len(results) = Len(files)
  BY <1>1, <1>7 DEF IInv, TypeOK, AfterPool
<1>10. ASSUME NEW k \in 1 .. Len(files)
       PROVE  results[k] = ResultOf(files[k], opts) /\ Tree[files[k]].read # "blocks"
  <2>1. k \in Jobs
    BY <1>7 DEF Jobs
  <2> QED BY <1>7, <1>8, <2>1 DEF Data, AsReference
<1>11. opts \notin Hanging
  <2>1. ASSUME NEW i \in Chosen(opts) PROVE Tree[i].read # "blocks"
    BY <1>5, <1>10
  <2> QED BY <2>1 DEF Hanging
<1>12. results = [k \in 1 .. Len(files) |-> ResultOf(files[k], opts)]
  <2> HIDE DEF files
  <2>1. results = [k \in 1 .. Len(files) |-> results[k]]
    BY <1>9
  <2> QED BY <1>10, <2>1
<1>13. opts \in Options
  BY DEF IInv, TypeOK
<1>14. SequentialReport[opts] = ReportOf(walkErrors, tooLarge, results)
  BY <1>2, <1>6, <1>12, <1>13, Zenon DEF SequentialReport, InWalkOrder
<1> QED BY <1>1, <1>11, <1>14

(* The scan implements the safety part of the sequential specification:    *)
(* whatever the tree, the options, the pool size and the interleaving, the *)
(* only report ScanDirWithOptions can end with is the one a single         *)
(* goroutine would produce, and none while a file it must read never       *)
(* answers.                                                                *)
THEOREM RefinesSequentialScan == Spec => Sequential!Safety
<1>1. Init => Sequential!Init
  BY DEF Init, Sequential!Init
<1>2. ASSUME IInv, Data, [Next]_vars
      PROVE  [Sequential!Finish]_(Sequential!vars)
  <2>1. CASE Collect
    <3>1. pc = "wait" /\ pc' = "done" /\ opts' = opts
      BY <2>1 DEF Collect
    <3> QED BY <1>2, <2>1, <3>1, CollectsReference DEF Sequential!Finish
  <2>2. CASE UNCHANGED <<opts, report>> /\ (pc' = "done" <=> pc = "done")
    BY <2>2 DEF Sequential!vars
  <2>3. CASE WalkStep \/ StartPool \/ Enqueue \/ Close
    <3>1. UNCHANGED <<opts, report>> /\ pc # "done" /\ pc' # "done"
      BY <2>3 DEF WalkStep, VisitError, VisitDir, PassFile, SkipTooLarge, AddJob, Visiting,
                  StartPool, Enqueue, Close
    <3> QED BY <2>2, <3>1
  <2>4. ASSUME NEW w \in Workers, Work(w) PROVE UNCHANGED <<opts, report, pc>>
    BY <2>4 DEF Work, Receive, Exit, ReadFails, SkipOutput, Read, Scan, Store, StoreResult
  <2>5. CASE UNCHANGED vars
    <3>1. UNCHANGED <<opts, report, pc>>
      BY <2>5 DEF vars
    <3> QED BY <2>2, <3>1
  <2> QED BY <1>2, <2>1, <2>2, <2>3, <2>4, <2>5 DEF Next, Main, WalkStep
<1> QED BY <1>1, <1>2, InductiveInvariant, DataAsReference, PTL DEF Spec, Sequential!Safety
=============================================================================
