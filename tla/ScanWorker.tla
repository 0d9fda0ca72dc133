----------------------------- MODULE ScanWorker -----------------------------
(***************************************************************************)
(* The scan worker (backend/app/workers/scan_worker.py): processes take    *)
(* messages from a Redis list, each is a run of run_scan, an asyncio task  *)
(* that interleaves with the others of its process at every await.  The    *)
(* limit per project is a semaphore in the memory of one process; the      *)
(* state of a scan is its row, which every task writes without looking.    *)
(***************************************************************************)
EXTENDS Integers, Sequences, FiniteSets, FiniteSetsExt

CONSTANTS
  Msg, Scan, Project, Proc,
  scanOf,      \* the scan a message names; several may name one
  projectOf,
  Limit,       \* MAX_CONCURRENT_SCANS_PER_PROJECT
  Signing,     \* the processes with CRADAR_SIGNING_ENABLED set
  MaxCrashes,  \* bound
  None

ASSUME ConstantsAssumption ==
  /\ scanOf \in [Msg -> Scan] /\ projectOf \in [Scan -> Project]
  /\ IsFiniteSet(Msg)
  /\ Limit \in Nat \ {0} /\ MaxCrashes \in Nat
  /\ Signing \subseteq Proc /\ None \notin Proc

VARIABLES
  status,      \* Scan.status; "absent" while the row is not committed
  overdue,     \* scans created more than QUEUE_TIMEOUT_SECONDS ago
  pc,          \* where the task of a message is
  on,          \* the process that took it
  permits,     \* free permits of the project's semaphore in a process
  waiting,     \* tasks queued on that semaphore, first come first served
  crashes,
  orphaned       \* history: scans left running by a crash or a failed commit

vars == <<status, overdue, pc, on, permits, waiting, crashes, orphaned>>
semaphores == <<permits, waiting>>

project(m) == projectOf[scanOf[m]]

(* Tasks within "async with semaphore". *)
Inside == {"holding", "checked", "working", "attesting", "signing", "failing"}
Live(m) == pc[m] \in Inside \cup {"loading", "waiting"}
Holders(p, j) == {m \in Msg : pc[m] \in Inside /\ on[m] = p /\ project(m) = j}

Init ==
  /\ status \in [Scan -> {"absent", "queued"}]
  /\ overdue = {}
  /\ pc = [m \in Msg |-> "unsent"]
  /\ on = [m \in Msg |-> None]
  /\ permits = [p \in Proc |-> [j \in Project |-> Limit]]
  /\ waiting = [p \in Proc |-> [j \in Project |-> <<>>]]
  /\ crashes = 0
  /\ orphaned = {}

-----------------------------------------------------------------------------
(* The service that creates the row and sends the message, in either       *)
(* order, time, and the broker, which forgets a message it hands out.      *)
Create(s) ==
  /\ status[s] = "absent"
  /\ status' = [status EXCEPT ![s] = "queued"]
  /\ UNCHANGED <<overdue, pc, on, semaphores, crashes, orphaned>>

Send(m) ==
  /\ pc[m] = "unsent"
  /\ pc' = [pc EXCEPT ![m] = "sent"]
  /\ UNCHANGED <<status, overdue, on, semaphores, crashes, orphaned>>

Age(s) ==
  /\ s \notin overdue
  /\ overdue' = overdue \cup {s}
  /\ UNCHANGED <<status, pc, on, semaphores, crashes, orphaned>>

Receive(m, p) ==
  /\ pc[m] = "sent"
  /\ pc' = [pc EXCEPT ![m] = "loading"]
  /\ on' = [on EXCEPT ![m] = p]
  /\ UNCHANGED <<status, overdue, semaphores, crashes, orphaned>>

-----------------------------------------------------------------------------
(* Until the semaphore. *)
RowMissing(m) ==
  /\ pc[m] = "loading" /\ status[scanOf[m]] = "absent"
  /\ pc' = [pc EXCEPT ![m] = "ended"]
  /\ UNCHANGED <<status, overdue, on, semaphores, crashes, orphaned>>

(* The row cannot be read, or its time-out cannot be committed. *)
LoadFails(m) ==
  /\ pc[m] = "loading" /\ status[scanOf[m]] # "absent"
  /\ pc' = [pc EXCEPT ![m] = "ended"]
  /\ UNCHANGED <<status, overdue, on, semaphores, crashes, orphaned>>

(* The age is checked here only, and whatever the status is. *)
TimeOut(m) ==
  /\ pc[m] = "loading" /\ status[scanOf[m]] # "absent" /\ scanOf[m] \in overdue
  /\ status' = [status EXCEPT ![scanOf[m]] = "failed"]
  /\ pc' = [pc EXCEPT ![m] = "ended"]
  /\ UNCHANGED <<overdue, on, semaphores, crashes, orphaned>>

Free(p, j) == permits[p][j] > 0 /\ waiting[p][j] = <<>>
InTime(m) == pc[m] = "loading" /\ status[scanOf[m]] # "absent" /\ scanOf[m] \notin overdue

Acquire(m) ==
  /\ InTime(m) /\ Free(on[m], project(m))
  /\ permits' = [permits EXCEPT ![on[m]][project(m)] = @ - 1]
  /\ pc' = [pc EXCEPT ![m] = "holding"]
  /\ UNCHANGED <<status, overdue, on, waiting, crashes, orphaned>>

Wait(m) ==
  /\ InTime(m) /\ ~Free(on[m], project(m))
  /\ waiting' = [waiting EXCEPT ![on[m]][project(m)] = Append(@, m)]
  /\ pc' = [pc EXCEPT ![m] = "waiting"]
  /\ UNCHANGED <<status, overdue, on, permits, crashes, orphaned>>

-----------------------------------------------------------------------------
(* Mutant: a permit handed over is counted as free as well. *)
LeaveTwice(m) ==
  LET queue == waiting[on[m]][project(m)]
  IN /\ permits' = [permits EXCEPT ![on[m]][project(m)] = @ + 1]
     /\ \/ queue = <<>> /\ pc' = [pc EXCEPT ![m] = "ended"] /\ UNCHANGED waiting
        \/ /\ queue # <<>>
           /\ waiting' = [waiting EXCEPT ![on[m]][project(m)] = Tail(@)]
           /\ pc' = [pc EXCEPT ![m] = "ended", ![Head(queue)] = "holding"]

(* Mutant: nobody is woken. *)
LeaveUnnoticed(m) ==
  /\ permits' = [permits EXCEPT ![on[m]][project(m)] = @ + 1]
  /\ pc' = [pc EXCEPT ![m] = "ended"]
  /\ UNCHANGED waiting

(* Leaving the semaphore: the permit goes to the first that waits. *)
Leave(m) ==
  LET queue == waiting[on[m]][project(m)]
  IN \/ /\ queue = <<>>
        /\ permits' = [permits EXCEPT ![on[m]][project(m)] = @ + 1]
        /\ pc' = [pc EXCEPT ![m] = "ended"]
        /\ UNCHANGED waiting
     \/ /\ queue # <<>>
        /\ waiting' = [waiting EXCEPT ![on[m]][project(m)] = Tail(@)]
        /\ pc' = [pc EXCEPT ![m] = "ended", ![Head(queue)] = "holding"]
        /\ UNCHANGED permits

(* Mutant: the early return forgets the permit. *)
SkipHolding(m) ==
  /\ pc[m] = "holding" /\ status[scanOf[m]] # "queued"
  /\ pc' = [pc EXCEPT ![m] = "ended"]
  /\ UNCHANGED <<status, overdue, on, semaphores, crashes, orphaned>>

Skip(m) ==
  /\ pc[m] = "holding" /\ status[scanOf[m]] # "queued"
  /\ Leave(m)
  /\ UNCHANGED <<status, overdue, on, crashes, orphaned>>

StillQueued(m) ==
  /\ pc[m] = "holding" /\ status[scanOf[m]] = "queued"
  /\ pc' = [pc EXCEPT ![m] = "checked"]
  /\ UNCHANGED <<status, overdue, on, semaphores, crashes, orphaned>>

Start(m) ==
  /\ pc[m] = "checked"
  /\ status' = [status EXCEPT ![scanOf[m]] = "running"]
  /\ pc' = [pc EXCEPT ![m] = "working"]
  /\ UNCHANGED <<overdue, on, semaphores, crashes, orphaned>>

(* The refresh or the commit fails, outside the try: the task ends, the row stays. *)
StartFails(m) ==
  /\ pc[m] \in {"holding", "checked"}
  /\ Leave(m)
  /\ UNCHANGED <<status, overdue, on, crashes, orphaned>>

Finish(m) ==
  /\ pc[m] = "working"
  /\ status' = [status EXCEPT ![scanOf[m]] = "completed"]
  /\ pc' = [pc EXCEPT ![m] = "attesting"]
  /\ UNCHANGED <<overdue, on, semaphores, crashes, orphaned>>

(* The work or the commit of its result raises. *)
WorkFails(m) ==
  /\ pc[m] = "working"
  /\ pc' = [pc EXCEPT ![m] = "failing"]
  /\ UNCHANGED <<status, overdue, on, semaphores, crashes, orphaned>>

(* Mutant: the failure is logged, not stored. *)
LogFailure(m) ==
  /\ pc[m] = "failing"
  /\ Leave(m)
  /\ UNCHANGED <<status, overdue, on, crashes, orphaned>>

MarkFailed(m) ==
  /\ pc[m] = "failing"
  /\ status' = [status EXCEPT ![scanOf[m]] = "failed"]
  /\ Leave(m)
  /\ UNCHANGED <<overdue, on, crashes, orphaned>>

(* That commit may raise too, a failed one leaves the session unusable. *)
MarkFails(m) ==
  /\ pc[m] = "failing"
  /\ orphaned' = orphaned \cup {scanOf[m]}
  /\ Leave(m)
  /\ UNCHANGED <<status, overdue, on, crashes>>

(* Mutant: an attestation that fails is caught by run_scan. *)
AttestOrFail(m) ==
  /\ pc[m] = "attesting"
  /\ pc' = [pc EXCEPT ![m] = "failing"]
  /\ UNCHANGED <<status, overdue, on, semaphores, crashes, orphaned>>

(* Signing is off, or cosign cannot be started: _maybe_create_attestation  *)
(* catches its errors.                                                     *)
Attest(m) ==
  /\ pc[m] = "attesting"
  /\ Leave(m)
  /\ UNCHANGED <<status, overdue, on, crashes, orphaned>>

(* Awaits proc.communicate() under the semaphore, without a time-out. *)
RunCosign(m) ==
  /\ pc[m] = "attesting" /\ on[m] \in Signing
  /\ pc' = [pc EXCEPT ![m] = "signing"]
  /\ UNCHANGED <<status, overdue, on, semaphores, crashes, orphaned>>

(* Of cosign, signed or not: it need not come. *)
CosignExits(m) ==
  /\ pc[m] = "signing"
  /\ Leave(m)
  /\ UNCHANGED <<status, overdue, on, crashes, orphaned>>

(* A process dies with its tasks and semaphores; its successor starts new. *)
Crash(p) ==
  /\ crashes < MaxCrashes
  /\ crashes' = crashes + 1
  /\ pc' = [m \in Msg |-> IF on[m] = p /\ Live(m) THEN "lost" ELSE pc[m]]
  /\ permits' = [permits EXCEPT ![p] = [j \in Project |-> Limit]]
  /\ waiting' = [waiting EXCEPT ![p] = [j \in Project |-> <<>>]]
  /\ orphaned' = orphaned \cup {scanOf[m] : m \in {n \in Msg : on[n] = p /\ pc[n] \in {"working", "failing"}}}
  /\ UNCHANGED <<status, overdue, on>>

Step(m) ==
  \/ RowMissing(m) \/ LoadFails(m) \/ TimeOut(m) \/ Acquire(m) \/ Wait(m)
  \/ Skip(m) \/ StillQueued(m) \/ Start(m) \/ StartFails(m)
  \/ Finish(m) \/ WorkFails(m) \/ MarkFailed(m) \/ MarkFails(m) \/ Attest(m) \/ RunCosign(m)

Next ==
  \/ \E s \in Scan : Create(s) \/ Age(s)
  \/ \E m \in Msg : Send(m) \/ Step(m) \/ CosignExits(m) \/ \E p \in Proc : Receive(m, p)
  \/ \E p \in Proc : Crash(p)

(* The event loop runs every task that can run, the work (a sleep) returns *)
(* and the database answers; nothing is assumed of cosign.                 *)
Fairness == \A m \in Msg : WF_vars(Step(m))

Spec == Init /\ [][Next]_vars /\ Fairness

-----------------------------------------------------------------------------
TypeOK ==
  /\ status \in [Scan -> {"absent", "queued", "running", "completed", "failed"}]
  /\ overdue \subseteq Scan
  /\ pc \in [Msg -> Inside \cup {"unsent", "sent", "loading", "waiting", "ended", "lost"}]
  /\ on \in [Msg -> Proc \cup {None}]
  /\ permits \in [Proc -> [Project -> 0 .. Limit]]
  /\ waiting \in [Proc -> [Project -> Seq(Msg)]]
  /\ crashes \in 0 .. MaxCrashes
  /\ orphaned \subseteq Scan

(* Whatever way a task ends, in each process the permits in hand and the   *)
(* free ones of a project make Limit, and none is free while a task waits. *)
PermitsAccounted ==
  \A p \in Proc, j \in Project :
    /\ permits[p][j] + Cardinality(Holders(p, j)) = Limit
    /\ waiting[p][j] # <<>> => permits[p][j] = 0

(* A row says running only while a task works on the scan, unless a crash  *)
(* or a failed commit left it so.                                          *)
RunningIsWorkedOn ==
  \A s \in Scan : (status[s] = "running" /\ s \notin orphaned) =>
    \E m \in Msg : scanOf[m] = s /\ pc[m] \in {"working", "failing"}

SentOnce(s) == \A m, n \in Msg : scanOf[m] = s /\ scanOf[n] = s => m = n

(* The outcome of a scan stands, if one message was sent for it. *)
OutcomeStands ==
  [][\A s \in Scan : (SentOnce(s) /\ status[s] \in {"completed", "failed"}) => status'[s] = status[s]]_vars

(* All that may keep a task that a process took from its end is cosign:    *)
(* its own, or one that never exits behind each permit it might be given.  *)
KeptByCosign(m) ==
  \/ pc[m] = "signing"
  \/ /\ pc[m] = "waiting"
     /\ Cardinality({n \in Holders(on[m], project(m)) : pc[n] = "signing"}) = Limit

(* Each other task ends, or dies with its process. *)
TasksEnd == \A m \in Msg : Live(m) ~> (~Live(m) \/ KeptByCosign(m))
=============================================================================
