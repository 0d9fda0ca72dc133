------------------------------ MODULE ScanWalk ------------------------------
(***************************************************************************)
(* ScanDirWithOptions (cli/internal/scanner/walker.go): one goroutine      *)
(* walks the tree and builds the jobs, starts a pool of workers, enqueues  *)
(* the job indexes, waits for the pool and assembles the report.  Workers  *)
(* take indexes from the channel, read the file, run its scanners one      *)
(* after the other and store the result in the slot of the job.            *)
(***************************************************************************)
EXTENDS ScanTree

CONSTANTS
  NumCPU,     \* runtime.NumCPU()
  PoolCap     \* the cap of 8 workers

ASSUME PoolAssumption == NumCPU \in Nat \ {0} /\ PoolCap \in Nat \ {0}

VARIABLES
  opts,        \* ScanOptions and passes of this scan
  pc,          \* the scanning goroutine: "walk", "enqueue", "wait", "done"
  pos,         \* the next entry WalkDir calls back on
  jobs,        \* jobs: sequence of [entry, scanners]
  walkErrors,  \* walkErrors: the entries that failed
  tooLarge,    \* skippedTooLarge
  next,        \* the next index to enqueue
  queue,       \* jobCh
  closed,      \* close(jobCh) was called
  worker,      \* per worker: "off", "receive", "read", "scan", "exited"
  job,         \* per worker: the index it took from the channel
  todo,        \* per worker: the positions of the scanners still to run
  runs,        \* per worker: the scanner runs made on its file so far
  results,     \* results[idx], or Unset
  report

walkVars   == <<pos, walkErrors, tooLarge>>
chanVars   == <<next, queue, closed>>
workerVars == <<worker, job, todo, runs, results>>
vars == <<opts, pc, walkVars, jobs, chanVars, workerVars, report>>

Workers == 1 .. PoolCap
Jobs == 1 .. Len(jobs)
Unset == [unset |-> TRUE]
NoReport == [errors |-> <<>>, findings |-> <<>>, progress |-> <<>>, pending |-> TRUE]

Init ==
  /\ opts \in Options
  /\ pc = "walk" /\ pos = 1 /\ jobs = <<>> /\ walkErrors = <<>> /\ tooLarge = 0
  /\ next = 1 /\ queue = <<>> /\ closed = FALSE
  /\ worker = [w \in Workers |-> "off"]
  /\ job = [w \in Workers |-> 0]
  /\ todo = [w \in Workers |-> {}]
  /\ runs = [w \in Workers |-> <<>>]
  /\ results = <<>>
  /\ report = NoReport

-----------------------------------------------------------------------------
(* The walk *)

Visiting(kind) == pc = "walk" /\ pos <= Len(Tree) /\ Tree[pos].kind = kind

VisitError ==
  /\ Visiting("error")
  /\ walkErrors' = Append(walkErrors, pos)
  /\ pos' = pos + 1
  /\ UNCHANGED <<opts, pc, tooLarge, jobs, chanVars, workerVars, report>>

(* The root is never skipped; SkipDir prunes the whole subtree. *)
VisitDir ==
  /\ Visiting("dir")
  /\ pos' = IF pos # 1 /\ SkipDir(pos, opts) THEN Tree[pos].last + 1 ELSE pos + 1
  /\ UNCHANGED <<opts, pc, walkErrors, tooLarge, jobs, chanVars, workerVars, report>>

(* The early returns of the callback for a file, in their order.  The      *)
(* allow-set of staged files only exists when the list is not empty.       *)
Passed(i) ==
  \/ opts.stagedOnly /\ opts.fileList # {} /\ i \notin opts.fileList
  \/ SkipFile(i, opts)
  \/ Tree[i].ext = "output"
  \/ Tree[i].scanner = NoScanner /\ Universals = <<>>
  \/ opts.fast /\ Tree[i].lstat > FastMax

OverCap(i) == opts.maxFileSize > 0 /\ Tree[i].lstat > opts.maxFileSize

PassFile ==
  /\ Visiting("file") /\ Passed(pos)
  /\ pos' = pos + 1
  /\ UNCHANGED <<opts, pc, walkErrors, tooLarge, jobs, chanVars, workerVars, report>>

SkipTooLarge ==
  /\ Visiting("file") /\ ~ Passed(pos) /\ OverCap(pos)
  /\ tooLarge' = tooLarge + 1
  /\ pos' = pos + 1
  /\ UNCHANGED <<opts, pc, walkErrors, jobs, chanVars, workerVars, report>>

AddJob ==
  /\ Visiting("file") /\ ~ Passed(pos) /\ ~ OverCap(pos)
  /\ jobs' = Append(jobs, [entry |-> pos, scanners |-> ScannersFor(pos, opts.passes)])
  /\ pos' = pos + 1
  /\ UNCHANGED <<opts, pc, walkErrors, tooLarge, chanVars, workerVars, report>>

-----------------------------------------------------------------------------
(* The pool *)

AtMost(m, n) == IF m < n THEN m ELSE n

NumWorkers(n) == LET w == AtMost(AtMost(NumCPU, PoolCap), n)
                 IN  IF w < 1 THEN 1 ELSE w

(* Mutant of StartPool: one worker whatever the number of jobs. *)
StartOneWorker ==
  /\ pc = "walk" /\ pos > Len(Tree)
  /\ results' = [i \in Jobs |-> Unset]
  /\ worker' = [worker EXCEPT ![1] = "receive"]
  /\ pc' = "enqueue"
  /\ UNCHANGED <<opts, walkVars, jobs, chanVars, job, todo, runs, report>>

StartPool ==
  /\ pc = "walk" /\ pos > Len(Tree)
  /\ results' = [i \in Jobs |-> Unset]
  /\ worker' = [w \in Workers |-> IF w <= NumWorkers(Len(jobs)) THEN "receive" ELSE "off"]
  /\ pc' = "enqueue"
  /\ UNCHANGED <<opts, walkVars, jobs, chanVars, job, todo, runs, report>>

(* Mutant of Enqueue: the loop runs one index too far. *)
EnqueueOneMore ==
  /\ pc = "enqueue" /\ next <= Len(jobs) + 1
  /\ Len(queue) < Len(jobs)
  /\ queue' = Append(queue, next)
  /\ next' = next + 1
  /\ UNCHANGED <<opts, pc, walkVars, jobs, closed, workerVars, report>>

(* jobCh has room for every index: the send blocks only when it is full. *)
Enqueue ==
  /\ pc = "enqueue" /\ next <= Len(jobs)
  /\ Len(queue) < Len(jobs)
  /\ queue' = Append(queue, next)
  /\ next' = next + 1
  /\ UNCHANGED <<opts, pc, walkVars, jobs, closed, workerVars, report>>

Close ==
  /\ pc = "enqueue" /\ next > Len(jobs)
  /\ closed' = TRUE
  /\ pc' = "wait"
  /\ UNCHANGED <<opts, walkVars, jobs, next, queue, workerVars, report>>

(* Mutant of Collect: wg.Add inside the goroutine, Wait returns at once. *)
CollectEarly ==
  /\ pc = "wait"
  /\ report' = ReportOf(walkErrors, tooLarge, SelectSeq(results, LAMBDA r : r # Unset))
  /\ pc' = "done"
  /\ UNCHANGED <<opts, walkVars, jobs, chanVars, workerVars>>

(* wg.Wait() has returned. *)
Collect ==
  /\ pc = "wait"
  /\ \A w \in Workers : worker[w] \in {"off", "exited"}
  /\ report' = ReportOf(walkErrors, tooLarge, results)
  /\ pc' = "done"
  /\ UNCHANGED <<opts, walkVars, jobs, chanVars, workerVars>>

-----------------------------------------------------------------------------
(* A worker *)

(* Mutant of Receive: the index is looked at and stays in the channel. *)
Peek(w) ==
  /\ worker[w] = "receive" /\ queue # <<>>
  /\ job' = [job EXCEPT ![w] = Head(queue)]
  /\ worker' = [worker EXCEPT ![w] = "read"]
  /\ UNCHANGED <<opts, pc, walkVars, jobs, chanVars, todo, runs, results, report>>

Receive(w) ==
  /\ worker[w] = "receive" /\ queue # <<>>
  /\ job' = [job EXCEPT ![w] = Head(queue)]
  /\ queue' = Tail(queue)
  /\ worker' = [worker EXCEPT ![w] = "read"]
  /\ UNCHANGED <<opts, pc, walkVars, jobs, next, closed, todo, runs, results, report>>

Exit(w) ==
  /\ worker[w] = "receive" /\ queue = <<>> /\ closed
  /\ worker' = [worker EXCEPT ![w] = "exited"]
  /\ UNCHANGED <<opts, pc, walkVars, jobs, chanVars, job, todo, runs, results, report>>

(* The file the worker holds. *)
File(w) == Tree[jobs[job[w]].entry]

StoreResult(w, status, ran) ==
  /\ results' = [results EXCEPT ![job[w]] =
                   [entry |-> jobs[job[w]].entry, status |-> status, runs |-> ran]]
  /\ worker' = [worker EXCEPT ![w] = "receive"]
  /\ runs' = [runs EXCEPT ![w] = <<>>]
  /\ UNCHANGED <<opts, pc, walkVars, jobs, chanVars, job, todo, report>>

ReadFails(w) ==
  /\ worker[w] = "read" /\ File(w).read = "fails"
  /\ StoreResult(w, "unreadable", <<>>)

IsScannerOutput(f) == f.ext = "json" /\ f.scannerOutput

SkipOutput(w) ==
  /\ worker[w] = "read" /\ File(w).read = "ok" /\ IsScannerOutput(File(w))
  /\ StoreResult(w, "output", <<>>)

Read(w) ==
  /\ worker[w] = "read" /\ File(w).read = "ok" /\ ~ IsScannerOutput(File(w))
  /\ worker' = [worker EXCEPT ![w] = "scan"]
  /\ todo' = [todo EXCEPT ![w] = jobs[job[w]].scanners]
  /\ UNCHANGED <<opts, pc, walkVars, jobs, chanVars, job, runs, results, report>>

(* The language scanner, then each universal: a failure is recorded and    *)
(* the next scanner runs all the same.                                     *)
Scan(w) ==
  /\ worker[w] = "scan"
  /\ \E k \in todo[w] :
       /\ \A l \in todo[w] : k <= l
       /\ runs' = [runs EXCEPT ![w] = Append(@, RunOf(jobs[job[w]].entry, k))]
       /\ todo' = [todo EXCEPT ![w] = @ \ {k}]
  /\ UNCHANGED <<opts, pc, walkVars, jobs, chanVars, worker, job, results, report>>

(* Mutant of Store: the first failing scanner ends the file. *)
StoreOnFailure(w) ==
  /\ worker[w] = "scan"
  /\ \/ todo[w] = {}
     \/ \E k \in 1 .. Len(runs[w]) : ~ runs[w][k].outcome.ok
  /\ StoreResult(w, "run", runs[w])

Store(w) ==
  /\ worker[w] = "scan" /\ todo[w] = {}
  /\ StoreResult(w, "run", runs[w])

-----------------------------------------------------------------------------
Main == VisitError \/ VisitDir \/ PassFile \/ SkipTooLarge \/ AddJob
        \/ StartPool \/ Enqueue \/ Close \/ Collect

Work(w) == Receive(w) \/ Exit(w) \/ ReadFails(w) \/ SkipOutput(w) \/ Read(w) \/ Scan(w) \/ Store(w)

Next == Main \/ \E w \in Workers : Work(w)

(* Every goroutine that can run is eventually run. *)
Fairness == WF_vars(Main) /\ \A w \in Workers : WF_vars(Work(w))

Spec == Init /\ [][Next]_vars /\ Fairness

-----------------------------------------------------------------------------
Job == [entry : Entries, scanners : SUBSET Position]

TypeOK ==
  /\ opts \in Options
  /\ pc \in {"walk", "enqueue", "wait", "done"}
  /\ pos \in 1 .. (Len(Tree) + 1)
  /\ jobs \in Seq(Job)
  /\ walkErrors \in Seq(Entries)
  /\ tooLarge \in Nat
  /\ next \in 1 .. (Len(jobs) + 1)
  /\ queue \in Seq(Jobs)
  /\ closed \in BOOLEAN
  /\ worker \in [Workers -> {"off", "receive", "read", "scan", "exited"}]
  /\ job \in [Workers -> Nat]
  /\ todo \in [Workers -> SUBSET Position]
  /\ runs \in [Workers -> Seq(Run)]
  /\ results \in Seq(JobResult \cup {Unset})

(* The data the workers share without a lock (jobs[idx], results[idx]) is  *)
(* safe because every enqueued index has one owner: it waits in the        *)
(* channel once, or one worker holds it, or its slot was written.          *)
Busy(w) == worker[w] \in {"read", "scan"}
Stored(i) == i \in DOMAIN results /\ results[i] # Unset
Held(i) == \E w \in Workers : Busy(w) /\ job[w] = i

OneOwner ==
  /\ \A v, w \in Workers : Busy(v) /\ Busy(w) /\ job[v] = job[w] => v = w
  /\ \A k, l \in 1 .. Len(queue) : queue[k] = queue[l] => k = l
  /\ \A k \in 1 .. Len(queue) : ~ Held(queue[k]) /\ ~ Stored(queue[k])
  /\ \A w \in Workers : Busy(w) => ~ Stored(job[w])

(* The report is assembled from a complete result set: no worker is still  *)
(* running and no slot is empty once wg.Wait has let the collector pass.   *)
CollectedComplete ==
  pc = "done" => /\ \A w \in Workers : ~ Busy(w)
                 /\ \A i \in Jobs : Stored(i)

(* A result, once in its slot, is never overwritten. *)
SlotsWrittenOnce ==
  [][\A i \in Jobs : Stored(i) => results'[i] = results[i]]_vars

(* Whatever the pool size and the interleaving, the scan ends with the one *)
(* report the sequential specification gives ("Output is deterministic"),  *)
(* and it does end unless a file it reads never answers.                   *)
Sequential == INSTANCE ScanReport WITH
  Report <- SequentialReport,
  phase  <- IF pc = "done" THEN "done" ELSE "scanning"
ImplementsSequentialScan == Sequential!Spec

(* A file that never answers costs one worker, not the scan of the others: *)
(* while fewer such files than workers are in the jobs, every other job    *)
(* gets its result.                                                        *)
Blocking == {i \in Jobs : Tree[jobs[i].entry].read = "blocks"}

OthersStillScanned ==
  (pc = "enqueue" /\ Cardinality(Blocking) < NumWorkers(Len(jobs)))
    ~> (\A i \in Jobs \ Blocking : Stored(i))

=============================================================================
