-------------------------- MODULE ScanCommandProofs --------------------------
(* Theorems of ScanCommand, for any number of runs with any command lines, *)
(* any findings, any trees and any baseline at first.                      *)
EXTENDS ScanCommand, TLAPS, SequenceTheorems, WellFoundedInduction

Functions ==
  /\ DOMAIN seen = Proc /\ DOMAIN found = Proc /\ DOMAIN merged = Proc
  /\ DOMAIN read = Proc /\ DOMAIN written = Proc

(* A run whose own tool is missing, and how far it comes.                  *)
Misses(p) ==
  /\ opt[p].target = "dir" /\ Explicit(opt[p])
  /\ \/ 2 \in Passes(opt[p]) /\ "opengrep" \notin tools
     \/ 3 \in Passes(opt[p]) /\ "yr" \notin tools
Stopped(p) ==
  /\ pc[p] \in {"flags", "walk", "pass2", "done", "killed"}
  /\ pc[p] \in {"walk", "pass2"} => 2 \in Passes(opt[p]) /\ "opengrep" \notin tools
  /\ written[p] = 0 /\ exit[p] # 0

Uploaded(p) ==
  /\ pc[p] \in {"gate", "done", "killed"}
  /\ opt[p].push /\ written[p] = Len(Destinations(opt[p]))
  /\ exit[p] = 3 => opt[p].failOn \notin DOMAIN SeverityRank \cup {""}

(* What a stage of one run knows of the stages before it.                  *)
Stage(p) ==
  /\ pc[p] \in {"open", "save", "rename"} => opt[p].update
  /\ pc[p] \notin {"save", "rename"} => fd[p] = None
  /\ pc[p] \in {"validate", "push", "gate"} => written[p] = Len(Destinations(opt[p]))
  /\ pc[p] = "push" => opt[p].push
  /\ p \in portal => Uploaded(p)
  /\ temp[p] # {} => Live(p) \/ pc[p] = "killed"
  /\ Misses(p) => Stopped(p) /\ p \notin portal

(* A run that saved does not change what it found any more: what is in an  *)
(* inode stays what its author would save.                                 *)
Settled(p) == opt[p].update /\ pc[p] \in {"rename", "write", "validate", "push", "gate", "done", "killed"}
Whole(c) == c \in (Baselines \ {Torn}) \cup {Saved(q) : q \in {r \in Proc : Settled(r)}}
Contents == \A i \in Inode : content[i] = Torn \/ Whole(content[i])
Reads == \A p \in Proc : read[p] = Unread \/ Whole(read[p])

IInv == TypeOK /\ Functions /\ (\A p \in Proc : Stage(p)) /\ Contents /\ Reads

-----------------------------------------------------------------------------
(* Only the run that moves changes what belongs to it.                     *)
OthersStay(p) ==
  /\ UNCHANGED <<opt, tools>>
  /\ \A q \in Proc \ {p} :
       /\ pc'[q] = pc[q] /\ exit'[q] = exit[q] /\ temp'[q] = temp[q] /\ written'[q] = written[q]
       /\ fd'[q] = fd[q] /\ seen'[q] = seen[q] /\ found'[q] = found[q] /\ read'[q] = read[q]
       /\ q \in portal' <=> q \in portal

LEMMA StagesKept ==
  ASSUME NEW p \in Proc, \A q \in Proc : Stage(q), OthersStay(p), Stage(p)'
  PROVE  \A q \in Proc : Stage(q)'
  <1>1. ASSUME NEW q \in Proc, q # p
        PROVE  Stage(q)'
    <2>1. /\ opt' = opt /\ tools' = tools /\ pc'[q] = pc[q] /\ exit'[q] = exit[q] /\ temp'[q] = temp[q]
          /\ written'[q] = written[q] /\ fd'[q] = fd[q] /\ (q \in portal') = (q \in portal)
      BY <1>1 DEF OthersStay
    <2>2. Uploaded(q)' <=> Uploaded(q)
      BY <2>1 DEF Uploaded
    <2>3. Misses(q)' <=> Misses(q)
      BY <2>1 DEF Misses
    <2>4. Stopped(q)' <=> Stopped(q)
      BY <2>1 DEF Stopped
    <2>5. Live(q)' <=> Live(q)
      BY <2>1 DEF Live
    <2> QED
      BY <2>1, <2>2, <2>3, <2>4, <2>5 DEF Stage
  <1> QED
    BY <1>1

(* A whole baseline stays one while its author only goes on from there.    *)
LEMMA WholeKept ==
  ASSUME NEW p \in Proc, OthersStay(p), NEW c, Whole(c),
         Settled(p) => Settled(p)' /\ found'[p] = found[p] /\ seen'[p] = seen[p]
  PROVE  Whole(c)'
  <1>1. CASE c \in Baselines \ {Torn}
    BY <1>1 DEF Whole
  <1>2. ASSUME NEW q \in Proc, Settled(q), c = Saved(q)
        PROVE  Whole(c)'
    <2>1. Settled(q)' /\ found'[q] = found[q] /\ seen'[q] = seen[q] /\ opt' = opt
      BY <1>2 DEF OthersStay, Settled
    <2>2. Saved(q)' = Saved(q)
      BY <2>1 DEF Saved
    <2> QED
      BY <1>2, <2>1, <2>2 DEF Whole
  <1> QED
    BY <1>1, <1>2 DEF Whole

LEMMA FilesKept ==
  ASSUME NEW p \in Proc, OthersStay(p), Contents, Reads, UNCHANGED content,
         read'[p] = read[p] \/ Whole(read'[p]),
         Settled(p) => Settled(p)' /\ found'[p] = found[p] /\ seen'[p] = seen[p]
  PROVE  Contents' /\ Reads'
  <1>1. Contents'
    BY WholeKept DEF Contents
  <1>2. ASSUME NEW q \in Proc
        PROVE  (read[q] = Unread \/ Whole(read[q]))'
    <2>1. PICK c : c = read'[q]
      OBVIOUS
    <2>2. c = Unread \/ Whole(c)
      BY <2>1 DEF OthersStay, Reads
    <2>3. c = Unread \/ Whole(c)'
      BY <2>2, WholeKept
    <2> QED
      BY <2>1, <2>3 DEF Whole, Unread
  <1> QED
    BY <1>1, <1>2 DEF Reads

(* The two ways on from a stage. *)
LEMMA ContinueDoes ==
  ASSUME TypeOK, NEW p \in Proc, NEW s \in Stages \ {"done"}, Continue(p, s), pc[p] # "done"
  PROVE  /\ pc' \in [Proc -> Stages] /\ exit' \in [Proc -> Codes \cup {None}]
         /\ temp' \in [Proc -> SUBSET {"yara rules", "pass 2 rules"}]
         /\ pc'[p] = s /\ exit' = exit /\ temp' = temp /\ exit[p] = None
         /\ \A q \in Proc \ {p} : pc'[q] = pc[q]
         /\ \A q \in Proc : (pc'[q] = "done") <=> (exit'[q] # None)
  BY DEF TypeOK, Continue, Go

LEMMA ReturnDoes ==
  ASSUME TypeOK, NEW p \in Proc, NEW code \in Codes, Return(p, code)
  PROVE  /\ pc' \in [Proc -> Stages] /\ exit' \in [Proc -> Codes \cup {None}]
         /\ temp' \in [Proc -> SUBSET {"yara rules", "pass 2 rules"}]
         /\ pc'[p] = "done" /\ exit'[p] = code /\ temp'[p] = {}
         /\ \A q \in Proc \ {p} : pc'[q] = pc[q] /\ exit'[q] = exit[q] /\ temp'[q] = temp[q]
         /\ \A q \in Proc : (pc'[q] = "done") <=> (exit'[q] # None)
  <1>1. pc' = [pc EXCEPT ![p] = "done"] /\ exit' = [exit EXCEPT ![p] = code] /\ temp' = [temp EXCEPT ![p] = {}]
    BY DEF Return, Go
  <1>2. code # None
    BY ConstantsAssumption DEF Codes
  <1> QED
    BY <1>1, <1>2 DEF TypeOK, Stages

LEMMA EitherDoes ==
  ASSUME TypeOK, NEW p \in Proc, pc[p] # "done", NEW code \in Codes, NEW s \in Stages \ {"done"},
         Return(p, code) \/ Continue(p, s)
  PROVE  /\ \A q \in Proc \ {p} : pc'[q] = pc[q] /\ exit'[q] = exit[q] /\ temp'[q] = temp[q]
         /\ (pc'[p] = "done" /\ temp'[p] = {}) \/ pc'[p] = s
  <1>1. CASE Return(p, code)
    BY <1>1, ReturnDoes
  <1>2. CASE Continue(p, s)
    BY <1>2, ContinueDoes
  <1> QED
    BY <1>1, <1>2

(* A step after which only the stage, the code and the directories differ. *)
LEMMA StageOnly ==
  ASSUME IInv, NEW p \in Proc, pc[p] \notin {"done", "killed"},
         UNCHANGED <<world, fileState, portal, opt, scanState, written>>,
         \/ \E s \in Stages \ {"done"} : Continue(p, s)
         \/ \E code \in Codes : Return(p, code)
  PROVE  /\ TypeOK' /\ Functions' /\ OthersStay(p) /\ fd' = fd /\ written' = written /\ portal' = portal
         /\ (Settled(p) => Settled(p)') => Contents' /\ Reads'
  <1>1. TypeOK' /\ OthersStay(p)
    BY ContinueDoes, ReturnDoes DEF IInv, TypeOK, OthersStay, world, fileState, scanState
  <1>2. Functions'
    BY DEF IInv, Functions, scanState
  <1>3. (Settled(p) => Settled(p)') => Contents' /\ Reads'
    BY <1>1, FilesKept DEF IInv, fileState, scanState
  <1> QED
    BY <1>1, <1>2, <1>3 DEF fileState

LEMMA Combine ==
  ASSUME IInv, NEW p \in Proc, TypeOK', Functions', OthersStay(p), Stage(p)', Contents', Reads'
  PROVE  IInv'
  BY StagesKept DEF IInv

(* The first check that fails has an exit code that is not 0. *)
LEMMA FlagCodes ==
  ASSUME NEW o
  PROVE  /\ DOMAIN FlagChecks(o) = 1..9
         /\ \A i \in 1..9 : FlagChecks(o)[i][2] \in {1, 3, 4}
         /\ FlagChecks(o)[4][1] <=> 3 \in Passes(o) /\ Explicit(o) /\ "yr" \notin tools
  <1>1. DOMAIN FlagChecks(o) = 1..9
    BY DEF FlagChecks
  <1>2. \A i \in 1..9 : FlagChecks(o)[i][2] \in {1, 3, 4}
    BY DEF FlagChecks
  <1>3. FlagChecks(o)[4] = <<3 \in Passes(o) /\ Explicit(o) /\ "yr" \notin tools, 4>>
    BY DEF FlagChecks
  <1>4. FlagChecks(o)[4][1] = (3 \in Passes(o) /\ Explicit(o) /\ "yr" \notin tools)
    BY <1>3
  <1> QED
    BY <1>1, <1>2, <1>4

LEMMA FirstFailing ==
  ASSUME NEW S \in SUBSET (1..9), S # {}
  PROVE  Min(S) \in S
  <1>1. \E i \in S : \A j \in S : i <= j
    <2>1. CASE \E i \in S : i <= 3
      <3>1. (1 \in S \/ 2 \in S \/ 3 \in S) /\ \A j \in S : j \in Nat /\ j >= 1
        BY <2>1
      <3> QED
        BY <3>1
    <2>2. CASE (\E i \in S : i <= 6) /\ \A i \in S : i >= 4
      <3>1. 4 \in S \/ 5 \in S \/ 6 \in S
        BY <2>2
      <3> QED
        BY <2>2, <3>1
    <2>3. CASE \A i \in S : i >= 7
      <3>1. PICK i \in S : i \in 1..9 /\ i >= 7
        BY <2>3
      <3>2. i = 7 \/ i = 8 \/ i = 9
        BY <3>1
      <3> QED
        BY <2>3, <3>1, <3>2
    <2> QED
      BY <2>1, <2>2, <2>3
  <1> QED
    BY <1>1 DEF Min

LEMMA ChecksFlags ==
  ASSUME IInv, NEW p \in Proc, CheckFlags(p)
  PROVE  IInv'
  <1> DEFINE failing == Failing(FlagChecks(opt[p]))
  <1>1. UNCHANGED <<world, fileState, portal, opt, scanState, written>> /\ pc[p] = "flags"
    BY DEF CheckFlags
  <1>2. Stage(p)
    BY DEF IInv
  <1>3. CASE failing # {}
    <2>1. PICK code \in {1, 3, 4} : Return(p, code)
      BY <1>3, FlagCodes, FirstFailing DEF CheckFlags, Failing
    <2>2. TypeOK' /\ Functions' /\ OthersStay(p) /\ Contents' /\ Reads' /\ fd' = fd /\ written' = written /\ portal' = portal
      BY <1>1, <2>1, StageOnly DEF Codes, Settled
    <2>3. pc'[p] = "done" /\ exit'[p] = code /\ temp'[p] = {}
      BY <2>1, ReturnDoes DEF Codes, IInv
    <2>4. Stage(p)'
      <3>1. p \notin portal /\ fd[p] = None /\ (Misses(p) => written[p] = 0)
        BY <1>1, <1>2 DEF Stage, Uploaded, Stopped
      <3>2. Misses(p)' <=> Misses(p)
        BY <2>2 DEF Misses, OthersStay
      <3> QED
        BY <2>2, <2>3, <3>1, <3>2 DEF Stage, Stopped
    <2> QED
      BY <2>2, <2>4, Combine
  <1>4. CASE failing = {}
    <2>1. Continue(p, "walk")
      BY <1>4 DEF CheckFlags
    <2>2. TypeOK' /\ Functions' /\ OthersStay(p) /\ Contents' /\ Reads' /\ fd' = fd /\ written' = written /\ portal' = portal
      BY <1>1, <2>1, StageOnly DEF Stages, Settled
    <2>3. pc'[p] = "walk" /\ exit' = exit /\ temp' = temp
      BY <1>1, <2>1, ContinueDoes DEF Stages, IInv
    <2>4. ~(3 \in Passes(opt[p]) /\ Explicit(opt[p]) /\ "yr" \notin tools)
      BY <1>4, FlagCodes DEF Failing
    <2>5. Stage(p)'
      BY <1>1, <1>2, <2>2, <2>3, <2>4 DEF Stage, Stopped, Misses, OthersStay, Uploaded, Live
    <2> QED
      BY <2>2, <2>5, Combine
  <1> QED
    BY <1>3, <1>4

LEMMA Walks ==
  ASSUME IInv, NEW p \in Proc, Walk(p)
  PROVE  IInv'
  <1>1. /\ UNCHANGED <<world, fileState, portal, opt, found, read, written, exit>> /\ pc[p] = "walk"
        /\ seen' = [seen EXCEPT ![p].walk = Walked(opt[p], tree)]
        /\ merged' = [merged EXCEPT ![p] = WalkFindings(opt[p], Walked(opt[p], tree))]
        /\ temp' = [temp EXCEPT ![p] = temp[p] \cup {"yara rules"}]
        /\ pc' = [pc EXCEPT ![p] = "pass2"]
    BY DEF Walk, Go
  <1>2. TypeOK'
    BY <1>1 DEF IInv, TypeOK, world, fileState, Stages
  <1>3. Functions' /\ OthersStay(p)
    BY <1>1 DEF IInv, TypeOK, Functions, OthersStay, world, fileState
  <1>4. Stage(p)'
    BY <1>1 DEF IInv, TypeOK, Stage, Stopped, Misses, Uploaded, Live, world, fileState
  <1>5. Contents' /\ Reads'
    BY <1>1, <1>3, FilesKept DEF IInv, Settled, fileState
  <1> QED
    BY <1>2, <1>3, <1>4, <1>5, Combine

LEMMA FailsImage ==
  ASSUME IInv, NEW p \in Proc, ImageFails(p)
  PROVE  IInv'
  <1>1. UNCHANGED <<world, fileState, portal, opt, scanState, written>> /\ pc[p] = "walk" /\ Return(p, 1)
    BY DEF ImageFails
  <1>2. TypeOK' /\ Functions' /\ OthersStay(p) /\ Contents' /\ Reads' /\ fd' = fd /\ written' = written /\ portal' = portal
    BY <1>1, StageOnly DEF Codes, Settled
  <1>3. pc'[p] = "done" /\ exit'[p] = 1 /\ temp'[p] = {}
    BY <1>1, ReturnDoes DEF Codes, IInv
  <1>4. Stage(p)'
    <2>1. p \notin portal /\ fd[p] = None /\ (Misses(p) => written[p] = 0)
      BY <1>1 DEF IInv, Stage, Uploaded, Stopped
    <2>2. Misses(p)' <=> Misses(p)
      BY <1>2 DEF Misses, OthersStay
    <2> QED
      BY <1>2, <1>3, <2>1, <2>2 DEF Stage, Stopped
  <1> QED
    BY <1>2, <1>4, Combine

(* Pass 2 does not run, fails or hangs. *)
LEMMA WithoutPass2 ==
  ASSUME IInv, NEW p \in Proc, NoPass2(p) \/ MissingOpengrep(p) \/ Pass2Fails(p)
  PROVE  IInv'
  <1>1. UNCHANGED <<world, fileState, portal, opt, scanState, written>> /\ pc[p] = "pass2" /\ Stage(p)
    BY DEF NoPass2, MissingOpengrep, Pass2Fails, Pass2Runs, IInv
  <1>2. CASE Continue(p, "select") /\ ~Misses(p)
    <2>1. TypeOK' /\ Functions' /\ OthersStay(p) /\ Contents' /\ Reads' /\ fd' = fd /\ written' = written /\ portal' = portal
      BY <1>1, <1>2, StageOnly DEF Stages, Settled
    <2>2. pc'[p] = "select" /\ exit' = exit /\ temp' = temp
      BY <1>1, <1>2, ContinueDoes DEF Stages, IInv
    <2>3. Stage(p)'
      BY <1>1, <1>2, <2>1, <2>2 DEF Stage, Misses, OthersStay, Uploaded, Live
    <2> QED
      BY <2>1, <2>3, Combine
  <1>3. CASE Return(p, 4)
    <2>1. TypeOK' /\ Functions' /\ OthersStay(p) /\ Contents' /\ Reads' /\ fd' = fd /\ written' = written /\ portal' = portal
      BY <1>1, <1>3, StageOnly DEF Codes, Settled
    <2>2. pc'[p] = "done" /\ exit'[p] = 4 /\ temp'[p] = {}
      BY <1>3, ReturnDoes DEF Codes, IInv
    <2>3. Stage(p)'
      BY <1>1, <2>1, <2>2 DEF Stage, Stopped, Misses, OthersStay, Uploaded
    <2> QED
      BY <2>1, <2>3, Combine
  <1>4. (Continue(p, "select") /\ ~Misses(p)) \/ Return(p, 4)
    BY <1>1 DEF NoPass2, MissingOpengrep, Pass2Fails, Pass2Runs, Stage, Stopped, Misses
  <1> QED
    BY <1>2, <1>3, <1>4

LEMMA HangsInPass2 ==
  ASSUME IInv, NEW p \in Proc, Pass2Hangs(p)
  PROVE  IInv'
  <1>1. /\ UNCHANGED <<world, fileState, portal, opt, scanState, written, exit>>
        /\ pc[p] = "pass2" /\ "opengrep" \in tools
        /\ pc' = [pc EXCEPT ![p] = "hung"]
        /\ temp' = [temp EXCEPT ![p] = temp[p] \cup {"pass 2 rules"}]
    BY DEF Pass2Hangs, Pass2Runs, Go
  <1>2. TypeOK' /\ Functions' /\ OthersStay(p)
    BY <1>1 DEF IInv, TypeOK, Functions, OthersStay, world, fileState, scanState, Stages
  <1>3. Stage(p)'
    BY <1>1 DEF IInv, TypeOK, Stage, Stopped, Misses, Uploaded, Live, world, fileState
  <1>4. Contents' /\ Reads'
    BY <1>1, <1>2, FilesKept DEF IInv, Settled, fileState, scanState
  <1> QED
    BY <1>2, <1>3, <1>4, Combine

LEMMA RunsPass2 ==
  ASSUME IInv, NEW p \in Proc, Pass2(p)
  PROVE  IInv'
  <1>1. /\ UNCHANGED <<world, fileState, portal, opt, found, read, written>>
        /\ pc[p] = "pass2" /\ "opengrep" \in tools /\ Continue(p, "select")
        /\ \E a : seen' = [seen EXCEPT ![p].pass2 = a]
        /\ \E a : merged' = [merged EXCEPT ![p] = a]
    BY DEF Pass2, Pass2Runs
  <1>2. /\ pc' \in [Proc -> Stages] /\ pc'[p] = "select" /\ exit' = exit /\ temp' = temp
        /\ \A q \in Proc \ {p} : pc'[q] = pc[q]
        /\ \A q \in Proc : (pc'[q] = "done") <=> (exit'[q] # None)
    BY <1>1, ContinueDoes DEF Stages, IInv
  <1>3. TypeOK' /\ Functions' /\ OthersStay(p)
    BY <1>1, <1>2 DEF IInv, TypeOK, Functions, OthersStay, world, fileState
  <1>4. Stage(p)'
    BY <1>1, <1>2 DEF IInv, Stage, Stopped, Misses, Uploaded, Live, world, fileState
  <1>5. Contents' /\ Reads'
    BY <1>1, <1>3, FilesKept DEF IInv, Settled, fileState
  <1> QED
    BY <1>3, <1>4, <1>5, Combine

LEMMA Filters ==
  ASSUME IInv, NEW p \in Proc, ApplyFilters(p)
  PROVE  IInv'
  <1>1. /\ UNCHANGED <<world, fileState, portal, opt, seen, merged, read, written>> /\ pc[p] = "select"
        /\ \E a : found' \in {found, [found EXCEPT ![p] = a]}
        /\ \/ Return(p, 3)
           \/ Continue(p, "open") /\ opt[p].update
           \/ Continue(p, "suppress")
    BY DEF ApplyFilters
  <1>2. /\ \A q \in Proc \ {p} : pc'[q] = pc[q] /\ exit'[q] = exit[q] /\ temp'[q] = temp[q]
        /\ \/ pc'[p] = "done" /\ temp'[p] = {}
           \/ pc'[p] = "open" /\ opt[p].update
           \/ pc'[p] = "suppress"
    <2>1. 3 \in Codes /\ "open" \in Stages \ {"done"} /\ "suppress" \in Stages \ {"done"} /\ TypeOK /\ pc[p] # "done"
      BY <1>1 DEF Codes, Stages, IInv
    <2>2. CASE Return(p, 3)
      BY <2>1, <2>2, ReturnDoes
    <2>3. CASE Continue(p, "open") /\ opt[p].update
      BY <2>1, <2>3, EitherDoes
    <2>4. CASE Continue(p, "suppress")
      BY <2>1, <2>4, EitherDoes
    <2> QED
      BY <1>1, <2>2, <2>3, <2>4
  <1>3. TypeOK'
    BY <1>1, ContinueDoes, ReturnDoes DEF IInv, TypeOK, world, fileState, Codes, Stages
  <1>4. Functions' /\ OthersStay(p)
    BY <1>1, <1>2 DEF IInv, Functions, OthersStay, world, fileState
  <1>5. p \notin portal /\ fd[p] = None /\ ~Misses(p) /\ exit[p] = None
    BY <1>1 DEF IInv, TypeOK, Stage, Uploaded, Stopped
  <1>7. Stage(p)'
    <2>1. ~Misses(p)' /\ p \notin portal' /\ fd'[p] = None /\ opt' = opt
      BY <1>1, <1>5 DEF Misses, world, fileState
    <2> QED
      BY <1>2, <2>1 DEF Stage, Live
  <1>8. Contents' /\ Reads'
    BY <1>1, <1>4, FilesKept DEF IInv, Settled, fileState
  <1> QED
    BY <1>3, <1>4, <1>7, <1>8, Combine

(* The baseline that is read is what an inode holds: whole, or the run     *)
(* ends here.                                                              *)
LEMMA Suppresses ==
  ASSUME IInv, NEW p \in Proc, Suppress(p)
  PROVE  IInv'
  <1>1. /\ UNCHANGED <<world, fileState, portal, opt, seen, merged, written>> /\ pc[p] = "suppress"
        /\ \E a : found' \in {found, [found EXCEPT ![p] = a]}
        /\ Continue(p, "write") \/ Return(p, 1)
        /\ \/ read' = read
           \/ base # None /\ content[base] # Torn /\ read' = [read EXCEPT ![p] = content[base]]
    BY DEF Suppress
  <1>2. /\ \A q \in Proc \ {p} : pc'[q] = pc[q] /\ exit'[q] = exit[q] /\ temp'[q] = temp[q]
        /\ (pc'[p] = "done" /\ temp'[p] = {}) \/ pc'[p] = "write"
    <2>1. 1 \in Codes /\ "write" \in Stages \ {"done"} /\ TypeOK /\ pc[p] # "done"
      BY <1>1 DEF Codes, Stages, IInv
    <2> QED
      BY <1>1, <2>1, EitherDoes
  <1>3. TypeOK'
    BY <1>1, ContinueDoes, ReturnDoes DEF IInv, TypeOK, world, fileState, Codes, Stages
  <1>4. Functions' /\ OthersStay(p)
    BY <1>1, <1>2 DEF IInv, Functions, OthersStay, world, fileState
  <1>5. p \notin portal /\ fd[p] = None /\ ~Misses(p)
    BY <1>1 DEF IInv, Stage, Uploaded, Stopped
  <1>7. Stage(p)'
    <2>1. ~Misses(p)' /\ p \notin portal' /\ fd'[p] = None
      BY <1>1, <1>5 DEF Misses, world, fileState
    <2> QED
      BY <1>2, <2>1 DEF Stage, Live
  <1>8. read'[p] = read[p] \/ Whole(read'[p])
    <2>1. base # None => base \in Inode
      BY DEF IInv, TypeOK
    <2>2. base # None => content[base] = Torn \/ Whole(content[base])
      BY <2>1 DEF IInv, Contents
    <2>3. read' = read \/ (read'[p] = content[base] /\ base # None /\ content[base] # Torn)
      BY <1>1 DEF IInv, Functions
    <2> QED
      BY <2>2, <2>3 DEF Whole
  <1>9. Contents' /\ Reads'
    BY <1>1, <1>4, <1>8, FilesKept DEF IInv, Settled, fileState
  <1> QED
    BY <1>3, <1>4, <1>7, <1>9, Combine

LEMMA OpensTmp ==
  ASSUME IInv, NEW p \in Proc, OpenTmp(p)
  PROVE  IInv'
  <1>1. /\ UNCHANGED <<world, base, portal, opt, scanState, written>> /\ pc[p] = "open"
        /\ tmp' = IF tmp = None THEN AnyOf(FreeInodes) ELSE tmp
        /\ content' = [content EXCEPT ![tmp'] = Torn]
        /\ fd' = [fd EXCEPT ![p] = tmp']
        /\ Continue(p, "save")
    BY DEF OpenTmp
  <1>2. Stage(p) /\ fd[p] = None /\ fd \in [Proc -> Inode \cup {None}] /\ base \in Inode \cup {None}
    BY <1>1 DEF IInv, TypeOK, Stage
  <1>3. tmp' \in Inode
    <2>1. CASE tmp = None
      <3>1. FreeInodes # {}
        BY <1>2, <2>1, InodeAssumption DEF FreeInodes
      <3>2. AnyOf(FreeInodes) \in FreeInodes
        BY <3>1 DEF AnyOf
      <3> QED
        BY <1>1, <2>1, <3>2 DEF FreeInodes
    <2>2. CASE tmp # None
      BY <1>1, <2>2 DEF IInv, TypeOK
    <2> QED
      BY <2>1, <2>2
  <1>4. /\ pc'[p] = "save" /\ exit' = exit /\ temp' = temp /\ pc' \in [Proc -> Stages]
        /\ \A q \in Proc \ {p} : pc'[q] = pc[q]
        /\ \A q \in Proc : (pc'[q] = "done") <=> (exit'[q] # None)
    BY <1>1, ContinueDoes DEF Stages, IInv
  <1>5. TypeOK'
    BY <1>1, <1>3, <1>4 DEF IInv, TypeOK, world
  <1>6. Functions' /\ OthersStay(p)
    BY <1>1, <1>2, <1>4 DEF IInv, Functions, OthersStay, world, scanState
  <1>7. Stage(p)'
    <2>1. p \notin portal /\ ~Misses(p) /\ opt[p].update
      BY <1>1, <1>2 DEF Stage, Uploaded, Stopped
    <2>2. ~Misses(p)' /\ p \notin portal' /\ opt' = opt
      BY <1>1, <2>1 DEF Misses, world
    <2> QED
      BY <1>4, <2>1, <2>2 DEF Stage, Live
  <1>8. Contents'
    <2>1. ASSUME NEW i \in Inode
          PROVE  (content[i] = Torn \/ Whole(content[i]))'
      <3>1. PICK c : c = content'[i]
        OBVIOUS
      <3>2. c = Torn \/ Whole(c)
        BY <1>1, <3>1 DEF IInv, TypeOK, Contents
      <3>3. c = Torn \/ Whole(c)'
        BY <1>1, <1>6, <3>2, WholeKept DEF Settled
      <3> QED
        BY <3>1, <3>3 DEF Whole
    <2> QED
      BY <2>1 DEF Contents
  <1>9. Reads'
    <2>1. ASSUME NEW q \in Proc
          PROVE  (read[q] = Unread \/ Whole(read[q]))'
      <3>1. PICK c : c = read[q]
        OBVIOUS
      <3>2. c = Unread \/ Whole(c)
        BY <3>1 DEF IInv, Reads
      <3>3. c = Unread \/ Whole(c)'
        BY <1>1, <1>6, <3>2, WholeKept DEF Settled
      <3> QED
        BY <1>1, <3>1, <3>3 DEF Whole, Unread, scanState
    <2> QED
      BY <2>1 DEF Reads
  <1> QED
    BY <1>5, <1>6, <1>7, <1>8, <1>9, Combine

(* What a run writes is what it found, or torn by another's bytes. *)
LEMMA WritesTmp ==
  ASSUME IInv, NEW p \in Proc, WriteTmp(p)
  PROVE  IInv'
  <1>1. /\ UNCHANGED <<world, base, tmp, fd, portal, opt, scanState, written>> /\ pc[p] = "save"
        /\ content' \in {[content EXCEPT ![fd[p]] = Saved(p)], [content EXCEPT ![fd[p]] = Torn]}
        /\ Continue(p, "rename")
    BY DEF WriteTmp
  <1>2. Stage(p)
    BY DEF IInv
  <1>3. /\ pc'[p] = "rename" /\ exit' = exit /\ temp' = temp /\ pc' \in [Proc -> Stages]
        /\ \A q \in Proc \ {p} : pc'[q] = pc[q]
        /\ \A q \in Proc : (pc'[q] = "done") <=> (exit'[q] # None)
    BY <1>1, ContinueDoes DEF Stages, IInv
  <1>4. TypeOK'
    BY <1>1, <1>3 DEF IInv, TypeOK, world
  <1>5. Functions' /\ OthersStay(p)
    BY <1>1, <1>3 DEF IInv, Functions, OthersStay, world, scanState
  <1>6. p \notin portal /\ ~Misses(p) /\ opt[p].update
    BY <1>1, <1>2 DEF Stage, Uploaded, Stopped
  <1>7. Stage(p)'
    <2>1. ~Misses(p)' /\ p \notin portal' /\ opt' = opt
      BY <1>1, <1>6 DEF Misses, world
    <2> QED
      BY <1>3, <1>6, <2>1 DEF Stage, Live
  <1>8. Whole(Saved(p))'
    <2>1. Settled(p)'
      BY <1>1, <1>3, <1>6 DEF Settled
    <2> QED
      BY <2>1 DEF Whole
  <1>9. Saved(p)' = Saved(p)
    BY <1>1 DEF Saved, scanState
  <1>10. Contents'
    <2>1. ASSUME NEW i \in Inode
          PROVE  (content[i] = Torn \/ Whole(content[i]))'
      <3>1. content'[i] \in {content[i], Saved(p), Torn}
        BY <1>1 DEF IInv, TypeOK
      <3>2. CASE content'[i] = content[i]
        <4>1. PICK c : c = content[i]
          OBVIOUS
        <4>2. c = Torn \/ Whole(c)'
          BY <1>1, <1>5, <4>1, WholeKept DEF Settled, IInv, Contents
        <4> QED
          BY <3>2, <4>1, <4>2 DEF Whole
      <3>3. CASE content'[i] = Saved(p)
        BY <1>8, <1>9, <3>3 DEF Whole
      <3> QED
        BY <3>1, <3>2, <3>3
    <2> QED
      BY <2>1 DEF Contents
  <1>11. Reads'
    <2>1. ASSUME NEW q \in Proc
          PROVE  (read[q] = Unread \/ Whole(read[q]))'
      <3>1. PICK c : c = read[q]
        OBVIOUS
      <3>2. c = Unread \/ Whole(c)
        BY <3>1 DEF IInv, Reads
      <3>3. c = Unread \/ Whole(c)'
        BY <1>1, <1>5, <3>2, WholeKept DEF Settled
      <3> QED
        BY <1>1, <3>1, <3>3 DEF Whole, Unread, scanState
    <2> QED
      BY <2>1 DEF Reads
  <1> QED
    BY <1>4, <1>5, <1>7, <1>10, <1>11, Combine

(* A save that fails, and the rename, which may move what another opened. *)
LEMMA FailsSave ==
  ASSUME IInv, NEW p \in Proc, SaveFails(p)
  PROVE  IInv'
  <1>1. /\ UNCHANGED <<world, base, tmp, content, portal, opt, scanState, written>> /\ pc[p] \in {"open", "save"}
        /\ fd' = [fd EXCEPT ![p] = None] /\ Return(p, 1)
    BY DEF SaveFails
  <1>2. /\ pc' \in [Proc -> Stages] /\ exit' \in [Proc -> Codes \cup {None}]
        /\ temp' \in [Proc -> SUBSET {"yara rules", "pass 2 rules"}]
        /\ pc'[p] = "done" /\ exit'[p] = 1 /\ temp'[p] = {}
        /\ \A q \in Proc \ {p} : pc'[q] = pc[q] /\ exit'[q] = exit[q] /\ temp'[q] = temp[q]
        /\ \A q \in Proc : (pc'[q] = "done") <=> (exit'[q] # None)
    BY <1>1, ReturnDoes DEF Codes, IInv
  <1>3. TypeOK' /\ fd'[p] = None
    BY <1>1, <1>2 DEF IInv, TypeOK, world
  <1>4. Functions' /\ OthersStay(p)
    BY <1>1, <1>2 DEF IInv, TypeOK, Functions, OthersStay, world, scanState
  <1>5. p \notin portal /\ ~Misses(p)
    BY <1>1 DEF IInv, Stage, Uploaded, Stopped
  <1>6. Stage(p)'
    <2>1. ~Misses(p)' /\ p \notin portal'
      BY <1>1, <1>5 DEF Misses, world
    <2> QED
      BY <1>2, <1>3, <2>1 DEF Stage
  <1>7. Contents' /\ Reads'
    BY <1>1, <1>4, FilesKept DEF IInv, Settled, scanState
  <1> QED
    BY <1>3, <1>4, <1>6, <1>7, Combine

LEMMA Renames ==
  ASSUME IInv, NEW p \in Proc, Rename(p)
  PROVE  IInv'
  <1>1. /\ UNCHANGED <<world, content, portal, opt, scanState, written>> /\ pc[p] = "rename"
        /\ fd' = [fd EXCEPT ![p] = None]
        /\ \/ Return(p, 1) /\ UNCHANGED <<base, tmp>>
           \/ Continue(p, "write") /\ base' = tmp /\ tmp' = None
    BY DEF Rename
  <1>2. /\ \A q \in Proc \ {p} : pc'[q] = pc[q] /\ exit'[q] = exit[q] /\ temp'[q] = temp[q]
        /\ (pc'[p] = "done" /\ temp'[p] = {}) \/ pc'[p] = "write"
    <2>1. 1 \in Codes /\ "write" \in Stages \ {"done"} /\ TypeOK /\ pc[p] # "done"
      BY <1>1 DEF Codes, Stages, IInv
    <2> QED
      BY <1>1, <2>1, EitherDoes
  <1>3. TypeOK' /\ fd'[p] = None
    BY <1>1, ContinueDoes, ReturnDoes DEF IInv, TypeOK, world, Codes, Stages
  <1>4. Functions' /\ OthersStay(p)
    BY <1>1, <1>2 DEF IInv, TypeOK, Functions, OthersStay, world, scanState
  <1>5. p \notin portal /\ ~Misses(p)
    BY <1>1 DEF IInv, Stage, Uploaded, Stopped
  <1>6. Stage(p)'
    <2>1. ~Misses(p)' /\ p \notin portal'
      BY <1>1, <1>5 DEF Misses, world
    <2> QED
      BY <1>2, <1>3, <2>1 DEF Stage, Live
  <1>7. Contents' /\ Reads'
    BY <1>1, <1>2, <1>4, FilesKept DEF IInv, Settled, scanState
  <1> QED
    BY <1>3, <1>4, <1>6, <1>7, Combine

LEMMA StopsBeforeOutputs ==
  ASSUME IInv, NEW p \in Proc, BeforeOutputs(p)
  PROVE  IInv'
  <1>1. UNCHANGED <<world, fileState, portal, opt, scanState, written>> /\ pc[p] = "write" /\ Return(p, 1)
    BY DEF BeforeOutputs
  <1>2. pc'[p] = "done" /\ temp'[p] = {}
    BY <1>1, ReturnDoes DEF Codes, IInv
  <1>3. TypeOK' /\ Functions' /\ OthersStay(p) /\ Contents' /\ Reads' /\ fd' = fd /\ portal' = portal
    BY <1>1, <1>2, StageOnly DEF Codes, Settled
  <1>4. Stage(p)'
    <2>1. p \notin portal /\ ~Misses(p) /\ fd[p] = None
      BY <1>1 DEF IInv, Stage, Uploaded, Stopped
    <2>2. ~Misses(p)'
      BY <1>3, <2>1 DEF Misses, OthersStay
    <2> QED
      BY <1>2, <1>3, <2>1, <2>2 DEF Stage
  <1> QED
    BY <1>3, <1>4, Combine

LEMMA WritesOutputs ==
  ASSUME IInv, NEW p \in Proc, WriteOutputs(p)
  PROVE  IInv'
  <1>1. /\ UNCHANGED <<world, fileState, portal, opt, scanState>> /\ pc[p] = "write"
        /\ \E n \in 0..Len(Destinations(opt[p])) :
             /\ written' = [written EXCEPT ![p] = n]
             /\ \/ n = Len(Destinations(opt[p])) /\ Continue(p, AfterOutputs(opt[p]))
                \/ Return(p, 1) \/ Return(p, 3)
    BY DEF WriteOutputs
  <1>2. AfterOutputs(opt[p]) \in {"validate", "push", "gate"} /\ (AfterOutputs(opt[p]) = "push" => opt[p].push)
    BY DEF AfterOutputs, AfterValidation
  <1>3. 1 \in Codes /\ 3 \in Codes /\ AfterOutputs(opt[p]) \in Stages \ {"done"} /\ TypeOK /\ pc[p] # "done"
    BY <1>1, <1>2 DEF Codes, Stages, IInv
  <1>4. /\ \A q \in Proc \ {p} : pc'[q] = pc[q] /\ exit'[q] = exit[q] /\ temp'[q] = temp[q]
        /\ \/ pc'[p] = "done" /\ temp'[p] = {}
           \/ pc'[p] = AfterOutputs(opt[p]) /\ written'[p] = Len(Destinations(opt[p]))
    <2>1. CASE Return(p, 1) \/ Return(p, 3)
      BY <1>3, <2>1, ReturnDoes
    <2>2. CASE Continue(p, AfterOutputs(opt[p])) /\ written' = [written EXCEPT ![p] = Len(Destinations(opt[p]))]
      BY <1>3, <2>2, ContinueDoes DEF IInv, Functions
    <2> QED
      BY <1>1, <2>1, <2>2
  <1>5. TypeOK'
    BY <1>1, <1>3, ContinueDoes, ReturnDoes DEF TypeOK, world, fileState
  <1>6. Functions' /\ OthersStay(p)
    BY <1>1, <1>4 DEF IInv, Functions, OthersStay, world, fileState, scanState
  <1>7. Stage(p)'
    <2>1. p \notin portal /\ ~Misses(p) /\ fd[p] = None
      BY <1>1 DEF IInv, Stage, Uploaded, Stopped
    <2>2. ~Misses(p)' /\ p \notin portal' /\ fd'[p] = None /\ opt' = opt
      BY <1>1, <2>1 DEF Misses, world, fileState
    <2> QED
      BY <1>2, <1>4, <2>2 DEF Stage, Live
  <1>8. Contents' /\ Reads'
    BY <1>1, <1>2, <1>4, <1>6, FilesKept DEF IInv, Settled, fileState, scanState
  <1> QED
    BY <1>5, <1>6, <1>7, <1>8, Combine

LEMMA ValidatesDocument ==
  ASSUME IInv, NEW p \in Proc, Validate(p)
  PROVE  IInv'
  <1>1. /\ UNCHANGED <<world, fileState, portal, opt, scanState, written>> /\ pc[p] = "validate"
        /\ Continue(p, AfterValidation(opt[p])) \/ Return(p, 3)
    BY DEF Validate
  <1>2. AfterValidation(opt[p]) \in {"push", "gate"} /\ (AfterValidation(opt[p]) = "push" => opt[p].push)
    BY DEF AfterValidation
  <1>3. 3 \in Codes /\ AfterValidation(opt[p]) \in Stages \ {"done"} /\ TypeOK /\ pc[p] # "done"
    BY <1>1, <1>2 DEF Codes, Stages, IInv
  <1>4. (pc'[p] = "done" /\ temp'[p] = {}) \/ pc'[p] = AfterValidation(opt[p])
    BY <1>1, <1>3, EitherDoes
  <1>5. TypeOK' /\ Functions' /\ OthersStay(p) /\ Contents' /\ Reads' /\ fd' = fd /\ written' = written /\ portal' = portal
    BY <1>1, <1>2, <1>3, <1>4, StageOnly DEF Settled
  <1>6. Stage(p)'
    <2>1. p \notin portal /\ ~Misses(p) /\ fd[p] = None /\ written[p] = Len(Destinations(opt[p]))
      BY <1>1 DEF IInv, Stage, Uploaded, Stopped
    <2>2. ~Misses(p)' /\ opt' = opt
      BY <1>5, <2>1 DEF Misses, OthersStay
    <2> QED
      BY <1>2, <1>4, <1>5, <2>1, <2>2 DEF Stage, Live
  <1> QED
    BY <1>5, <1>6, Combine

(* Nothing is pushed before it was written, nor after a validation that    *)
(* failed.                                                                 *)
LEMMA Pushes ==
  ASSUME IInv, NEW p \in Proc, Push(p)
  PROVE  IInv'
  <1>1. /\ UNCHANGED <<world, fileState, opt, scanState, written>> /\ pc[p] = "push"
        /\ portal' \in {portal, portal \cup {p}}
        /\ Continue(p, "gate") \/ Return(p, 1)
    BY DEF Push
  <1>2. 1 \in Codes /\ "gate" \in Stages \ {"done"} /\ TypeOK /\ pc[p] # "done"
    BY <1>1 DEF Codes, Stages, IInv
  <1>3. /\ \A q \in Proc \ {p} : pc'[q] = pc[q] /\ exit'[q] = exit[q] /\ temp'[q] = temp[q]
        /\ (pc'[p] = "done" /\ temp'[p] = {}) \/ pc'[p] = "gate"
    BY <1>1, <1>2, EitherDoes
  <1>4. exit'[p] # 3
    <2>1. CASE Continue(p, "gate")
      BY <1>2, <2>1, ContinueDoes, ConstantsAssumption
    <2>2. CASE Return(p, 1)
      <3>1. exit'[p] = 1
        BY <1>2, <2>2, ReturnDoes
      <3> QED
        BY <3>1
    <2> QED
      BY <1>1, <2>1, <2>2
  <1>5. TypeOK'
    BY <1>1, <1>2, ContinueDoes, ReturnDoes DEF TypeOK, world, fileState
  <1>6. Functions' /\ OthersStay(p)
    BY <1>1, <1>3 DEF IInv, Functions, OthersStay, world, fileState, scanState
  <1>7. Stage(p)'
    <2>1. ~Misses(p) /\ fd[p] = None /\ written[p] = Len(Destinations(opt[p])) /\ opt[p].push
      BY <1>1 DEF IInv, Stage, Uploaded, Stopped
    <2>2. ~Misses(p)' /\ fd'[p] = None /\ opt' = opt /\ written' = written
      BY <1>1, <2>1 DEF Misses, world, fileState
    <2> QED
      BY <1>3, <1>4, <2>1, <2>2 DEF Stage, Live, Uploaded
  <1>8. Contents' /\ Reads'
    BY <1>1, <1>3, <1>6, FilesKept DEF IInv, Settled, fileState, scanState
  <1> QED
    BY <1>5, <1>6, <1>7, <1>8, Combine

LEMMA Gates ==
  ASSUME IInv, NEW p \in Proc, CheckFailOn(p)
  PROVE  IInv'
  <1>1. /\ UNCHANGED <<world, fileState, portal, opt, scanState, written>> /\ pc[p] = "gate"
        /\ Return(p, GateCode(opt[p], found[p]))
    BY DEF CheckFailOn
  <1>0. PICK code : code = GateCode(opt[p], found[p])
    OBVIOUS
  <1>2. code \in {0, 1, 3} /\ (code = 3 => opt[p].failOn \notin DOMAIN SeverityRank \cup {""})
    <2>1. CASE opt[p].failOn \in DOMAIN SeverityRank \cup {""}
      <3>1. GateCode(opt[p], found[p]) = 0 \/ GateCode(opt[p], found[p]) = 1
        BY <2>1 DEF GateCode
      <3>2. code = 0 \/ code = 1
        BY <1>0, <3>1, Zenon
      <3>3. code \in {0, 1, 3} /\ code # 3
        BY <3>2
      <3> QED
        BY <3>3
    <2>2. CASE opt[p].failOn \notin DOMAIN SeverityRank \cup {""}
      <3>1. GateCode(opt[p], found[p]) = 3
        BY <2>2 DEF GateCode
      <3> QED
        BY <1>0, <2>2, <3>1
    <2> QED
      BY <2>1, <2>2
  <1>3. pc'[p] = "done" /\ temp'[p] = {} /\ exit'[p] = code
    BY <1>0, <1>1, <1>2, ReturnDoes DEF Codes, IInv
  <1>4. TypeOK' /\ Functions' /\ OthersStay(p) /\ Contents' /\ Reads' /\ fd' = fd /\ written' = written /\ portal' = portal
    BY <1>0, <1>1, <1>2, <1>3, StageOnly DEF Settled, Codes
  <1>5. Stage(p)'
    <2>1. ~Misses(p) /\ fd[p] = None /\ (p \in portal => opt[p].push /\ written[p] = Len(Destinations(opt[p])))
      BY <1>1 DEF IInv, Stage, Uploaded, Stopped
    <2>2. ~Misses(p)' /\ opt' = opt
      BY <1>4, <2>1 DEF Misses, OthersStay
    <2> QED
      BY <1>2, <1>3, <1>4, <2>1, <2>2 DEF Stage, Uploaded
  <1> QED
    BY <1>4, <1>5, Combine

LEMMA Kills ==
  ASSUME IInv, NEW p \in Proc, Kill(p)
  PROVE  IInv'
  <1>1. /\ UNCHANGED <<world, base, tmp, content, portal, opt, scanState, written, temp, exit>>
        /\ pc[p] \notin {"flags", "done", "killed"}
        /\ pc' = [pc EXCEPT ![p] = "killed"] /\ fd' = [fd EXCEPT ![p] = None]
    BY DEF Kill, Live, Go
  <1>2. TypeOK' /\ Functions' /\ OthersStay(p) /\ pc'[p] = "killed" /\ fd'[p] = None
    BY <1>1 DEF IInv, TypeOK, Functions, OthersStay, world, scanState, Stages
  <1>3. Stage(p)'
    <2>1. Stage(p)
      BY DEF IInv
    <2>2. /\ Misses(p)' <=> Misses(p)
          /\ opt' = opt /\ written' = written /\ portal' = portal /\ exit' = exit /\ temp' = temp
      BY <1>1 DEF Misses, world
    <2> QED
      BY <1>2, <2>1, <2>2 DEF Stage, Uploaded, Stopped
  <1>4. Contents' /\ Reads'
    BY <1>1, <1>2, FilesKept DEF IInv, Settled, scanState
  <1> QED
    BY <1>2, <1>3, <1>4, Combine

LEMMA Idles ==
  ASSUME IInv, Edit \/ UNCHANGED vars
  PROVE  IInv'
  <1>1. /\ UNCHANGED <<tools, fileState, portal, pc, opt, scanState, written, temp, exit>>
        /\ tree' \in Trees /\ edits' \in 0..MaxEdits
    <2>1. CASE Edit
      <3>1. tree' \in Trees /\ edits' = edits + 1 /\ edits < MaxEdits /\ edits \in 0..MaxEdits /\ MaxEdits \in Nat
        BY <2>1, ConstantsAssumption DEF Edit, IInv, TypeOK
      <3> QED
        BY <2>1, <3>1 DEF Edit
    <2>2. CASE UNCHANGED vars
      BY <2>2 DEF vars, world, IInv, TypeOK
    <2> QED
      BY <2>1, <2>2
  <1>2. TypeOK' /\ Functions'
    BY <1>1 DEF IInv, TypeOK, Functions, fileState, scanState
  <1>3. ASSUME NEW p \in Proc
        PROVE  Stage(p)'
    BY <1>1 DEF IInv, Stage, Uploaded, Misses, Stopped, Live, fileState
  <1>4. ASSUME NEW c, Whole(c)
        PROVE  Whole(c)'
    BY <1>1, <1>4 DEF Whole, Settled, Saved, scanState
  <1>5. Contents'
    BY <1>1, <1>4 DEF IInv, Contents, fileState, Whole, Settled, Saved, scanState
  <1>6. Reads'
    BY <1>1, <1>4 DEF IInv, Reads, Whole, Settled, Saved, scanState
  <1> QED
    BY <1>2, <1>3, <1>5, <1>6 DEF IInv

LEMMA Starts == Init => IInv
  <1> SUFFICES ASSUME Init PROVE IInv
    OBVIOUS
  <1>1. base \in Inode \cup {None}
    BY InodeAssumption DEF Init, AnyOf
  <1>2. TypeOK /\ Functions
    BY <1>1, ConstantsAssumption DEF Init, TypeOK, Functions, Stages
  <1>3. ASSUME NEW p \in Proc
        PROVE  Stage(p)
    BY ConstantsAssumption DEF Init, Stage, Stopped
  <1>4. Contents
    <2>1. \A b \in Baselines : b = Torn \/ Whole(b)
      BY DEF Whole
    <2> QED
      BY <2>1 DEF Init, Contents
  <1>5. Reads
    BY DEF Init, Reads
  <1> QED
    BY <1>2, <1>3, <1>4, <1>5 DEF IInv

(* Whatever runs, in whatever order, are edited, killed or fail.           *)
THEOREM Inductive == Spec => []IInv
  <1>1. IInv /\ [Next]_vars => IInv'
    BY ChecksFlags, Walks, FailsImage, WithoutPass2, HangsInPass2, RunsPass2, Filters, Suppresses, OpensTmp,
       WritesTmp, FailsSave, Renames, StopsBeforeOutputs, WritesOutputs, ValidatesDocument, Pushes, Gates, Kills,
       Idles DEF Next, Step
  <1> QED
    BY <1>1, Starts, PTL DEF Spec

(* Type correctness; a run has an exit code exactly when it is done.       *)
THEOREM TypeCorrect == Spec => []TypeOK
  BY Inductive, PTL DEF IInv

(* --deep and --passes never fall back in silence: a directory scan whose  *)
(* tool is missing writes, saves and pushes nothing and does not exit 0.   *)
THEOREM MissingIsLoud == Spec => []MissingToolIsLoud
  <1>1. IInv => MissingToolIsLoud
    <2> SUFFICES ASSUME IInv PROVE MissingToolIsLoud
      OBVIOUS
    <2>1. ASSUME NEW p \in Proc, Misses(p)
          PROVE  exit[p] # 0 /\ written[p] = 0 /\ p \notin portal /\ pc[p] \notin {"open", "save", "rename"}
      BY <2>1 DEF IInv, Stage, Stopped
    <2> QED
      BY <2>1 DEF MissingToolIsLoud, Misses
  <1> QED
    BY <1>1, Inductive, PTL

(* However many updates rename one another's temporary file, a run applies *)
(* only a baseline that some run wrote as a whole (Load refuses others).   *)
THEOREM WholeIsRead == Spec => []ReadsWholeBaselines
  <1>1. IInv => ReadsWholeBaselines
    BY DEF IInv, Reads, Whole, Settled, ReadsWholeBaselines
  <1> QED
    BY <1>1, Inductive, PTL

(* The push comes after every destination and after the validation.        *)
THEOREM PushedLast == Spec => []PushedWasWritten
  <1>1. IInv => PushedWasWritten
    BY DEF IInv, TypeOK, Stage, Uploaded, PushedWasWritten
  <1> QED
    BY <1>1, Inductive, PTL

(* Every return of runScan removes the directories of unpacked rules.      *)
THEOREM TempsAreRemoved == Spec => []TempsRemoved
  <1>1. IInv => TempsRemoved
    BY DEF IInv, Stage, TempsRemoved
  <1> QED
    BY <1>1, Inductive, PTL

-----------------------------------------------------------------------------
(***************************************************************************)
(* Sequences: what FlattenSeq returns is defined by recursion along the    *)
(* sequence, and its facts by induction, from the well-foundedness of <.   *)
(***************************************************************************)
LEMMA Least ==
  ASSUME NEW S \in SUBSET Nat, S # {}
  PROVE  \E m \in S : \A n \in S : m <= n
  <1>1. PICK m \in S : \A n \in S : ~ (<<n, m>> \in OpToRel(<, Nat))
    BY NatLessThanWellFounded, WFMin
  <1>2. \A n \in S : ~ (n < m)
    BY <1>1 DEF OpToRel
  <1> QED
    BY <1>2

LEMMA Induct ==
  ASSUME NEW S \in SUBSET Nat, 0 \in S, \A n \in S : n + 1 \in S
  PROVE  S = Nat
  <1> SUFFICES ASSUME Nat \ S # {} PROVE FALSE
    OBVIOUS
  <1>1. PICK m \in Nat \ S : \A n \in Nat \ S : m <= n
    BY Least
  <1>2. m # 0 /\ m - 1 \in Nat /\ m - 1 \in S
    BY <1>1
  <1> QED
    BY <1>2

LEMMA InRange ==
  ASSUME NEW S, NEW s \in Seq(S)
  PROVE  /\ Len(s) \in Nat /\ DOMAIN s = 1..Len(s) /\ ToSet(s) \subseteq S
         /\ \A i \in DOMAIN s : s[i] \in ToSet(s) /\ s[i] \in S
         /\ \A x \in ToSet(s) : \E i \in DOMAIN s : s[i] = x
  BY DEF ToSet

LEMMA ConcatHas ==
  ASSUME NEW S, NEW s \in Seq(S), NEW t \in Seq(S)
  PROVE  s \o t \in Seq(S) /\ ToSet(s \o t) = ToSet(s) \cup ToSet(t)
  <1>1. /\ s \o t \in Seq(S) /\ Len(s \o t) = Len(s) + Len(t)
        /\ \A i \in 1..Len(s) : (s \o t)[i] = s[i]
        /\ \A i \in 1..Len(t) : (s \o t)[Len(s) + i] = t[i]
    BY ConcatProperties
  <1>2. Len(s) \in Nat /\ Len(t) \in Nat /\ DOMAIN s = 1..Len(s) /\ DOMAIN t = 1..Len(t)
    OBVIOUS
  <1>3. DOMAIN (s \o t) = 1..(Len(s) + Len(t))
    BY <1>1
  <1>4. ASSUME NEW x \in ToSet(s) PROVE x \in ToSet(s \o t)
    <2>1. PICK i \in 1..Len(s) : x = s[i]
      BY <1>2 DEF ToSet
    <2>2. i \in DOMAIN (s \o t) /\ (s \o t)[i] = x
      BY <1>1, <1>2, <1>3, <2>1
    <2> QED
      BY <2>2 DEF ToSet
  <1>5. ASSUME NEW x \in ToSet(t) PROVE x \in ToSet(s \o t)
    <2>1. PICK i \in 1..Len(t) : x = t[i]
      BY <1>2 DEF ToSet
    <2>2. Len(s) + i \in DOMAIN (s \o t) /\ (s \o t)[Len(s) + i] = x
      BY <1>1, <1>2, <1>3, <2>1
    <2> QED
      BY <2>2 DEF ToSet
  <1>6. ASSUME NEW x \in ToSet(s \o t) PROVE x \in ToSet(s) \cup ToSet(t)
    <2>1. PICK i \in 1..(Len(s) + Len(t)) : x = (s \o t)[i]
      BY <1>3 DEF ToSet
    <2>2. CASE i \in 1..Len(s)
      BY <1>1, <1>2, <2>1, <2>2 DEF ToSet
    <2>3. CASE i \notin 1..Len(s)
      <3>1. i - Len(s) \in 1..Len(t) /\ Len(s) + (i - Len(s)) = i
        BY <1>2, <2>3
      <3>2. x = t[i - Len(s)]
        BY <1>1, <2>1, <3>1
      <3> QED
        BY <1>2, <3>1, <3>2 DEF ToSet
    <2> QED
      BY <2>2, <2>3
  <1> QED
    BY <1>1, <1>4, <1>5, <1>6

Flattens(seqs, n, g) == g = [i \in 1..n |-> IF i = 1 THEN seqs[i] ELSE g[i-1] \o seqs[i]]

LEMMA FlattensExists ==
  ASSUME NEW seqs, NEW n \in Nat
  PROVE  \E g : Flattens(seqs, n, g)
  <1> DEFINE Good == {m \in Nat : \E g : Flattens(seqs, m, g)}
  <1>1. 0 \in Good
    <2> DEFINE h == [i \in 1..0 |-> 0]
    <2>1. h = [i \in 1..0 |-> IF i = 1 THEN seqs[i] ELSE h[i-1] \o seqs[i]]
      OBVIOUS
    <2> QED
      BY <2>1 DEF Flattens
  <1>2. ASSUME NEW m \in Good PROVE m + 1 \in Good
    <2>1. PICK g : Flattens(seqs, m, g)
      OBVIOUS
    <2> DEFINE h == [i \in 1..(m + 1) |-> IF i = 1 THEN seqs[i] ELSE g[i-1] \o seqs[i]]
    <2>2. ASSUME NEW i \in 1..m PROVE h[i] = g[i]
      <3>1. i \in 1..(m + 1)
        OBVIOUS
      <3>2. h[i] = IF i = 1 THEN seqs[i] ELSE g[i-1] \o seqs[i]
        BY <3>1
      <3>3. g[i] = IF i = 1 THEN seqs[i] ELSE g[i-1] \o seqs[i]
        BY <2>1 DEF Flattens
      <3> QED
        BY <3>2, <3>3
    <2>3. h = [i \in 1..(m + 1) |-> IF i = 1 THEN seqs[i] ELSE h[i-1] \o seqs[i]]
      <3>1. ASSUME NEW i \in 1..(m + 1)
            PROVE  (IF i = 1 THEN seqs[i] ELSE g[i-1] \o seqs[i]) = (IF i = 1 THEN seqs[i] ELSE h[i-1] \o seqs[i])
        <4>1. CASE i = 1
          BY <4>1
        <4>2. CASE i # 1
          <5>1. i - 1 \in 1..m
            BY <4>2
          <5>2. h[i-1] = g[i-1]
            BY <2>2, <5>1
          <5> QED
            BY <5>2
        <4> QED
          BY <4>1, <4>2
      <3> QED
        BY <3>1
    <2>4. Flattens(seqs, m + 1, h)
      BY <2>3 DEF Flattens
    <2> HIDE DEF h
    <2> QED
      BY <2>4
  <1>3. Good = Nat
    BY <1>1, <1>2, Induct
  <1> QED
    BY <1>3

LEMMA FlattenIs ==
  ASSUME NEW seqs, Len(seqs) # 0
  PROVE  FlattenSeq(seqs) = (CHOOSE g : Flattens(seqs, Len(seqs), g))[Len(seqs)]
  BY DEF FlattenSeq, Flattens

(* A flattened sequence has the members of its parts, and no others.       *)
LEMMA FlattenHas ==
  ASSUME NEW S, NEW seqs \in Seq(Seq(S))
  PROVE  /\ FlattenSeq(seqs) \in Seq(S)
         /\ \A x : x \in ToSet(FlattenSeq(seqs)) <=> \E i \in DOMAIN seqs : x \in ToSet(seqs[i])
  <1>0. Len(seqs) \in Nat /\ DOMAIN seqs = 1..Len(seqs) /\ \A i \in 1..Len(seqs) : seqs[i] \in Seq(S)
    OBVIOUS
  <1>1. CASE Len(seqs) = 0
    <2>1. FlattenSeq(seqs) = seqs /\ seqs = <<>> /\ DOMAIN seqs = {}
      BY <1>0, <1>1 DEF FlattenSeq
    <2> QED
      BY <2>1 DEF ToSet
  <1>2. CASE Len(seqs) # 0
    <2> DEFINE n == Len(seqs)
               g == CHOOSE h : Flattens(seqs, n, h)
               Has(i) == /\ g[i] \in Seq(S)
                         /\ \A x : x \in ToSet(g[i]) <=> \E j \in 1..i : x \in ToSet(seqs[j])
               Good == {m \in Nat : m + 1 <= n => Has(m + 1)}
    <2>1. Flattens(seqs, n, g)
      BY <1>0, FlattensExists
    <2>2. FlattenSeq(seqs) = g[n]
      BY <1>2, FlattenIs
    <2> HIDE DEF g
    <2>3. \A i \in 1..n : g[i] = IF i = 1 THEN seqs[i] ELSE g[i-1] \o seqs[i]
      BY <2>1 DEF Flattens
    <2>4. 0 \in Good
      <3>1. 1 \in 1..n /\ g[1] = seqs[1] /\ seqs[1] \in Seq(S)
        BY <1>0, <1>2, <2>3
      <3>2. \A j \in 1..1 : j = 1
        OBVIOUS
      <3>3. Has(1)
        BY <3>1, <3>2
      <3> QED
        BY <3>3
    <2>5. ASSUME NEW m \in Good PROVE m + 1 \in Good
      <3>1. m \in Nat
        OBVIOUS
      <3>2. SUFFICES ASSUME (m + 1) + 1 <= n PROVE Has((m + 1) + 1)
        BY <3>1
      <3>3. /\ (m + 1) + 1 \in 1..n /\ (m + 1) + 1 # 1 /\ ((m + 1) + 1) - 1 = m + 1 /\ m + 1 <= n
        BY <1>0, <3>1, <3>2
      <3>4. Has(m + 1)
        BY <3>3
      <3>5. g[(m + 1) + 1] = g[m + 1] \o seqs[(m + 1) + 1] /\ seqs[(m + 1) + 1] \in Seq(S)
        BY <1>0, <2>3, <3>3
      <3>6. /\ g[(m + 1) + 1] \in Seq(S)
            /\ ToSet(g[(m + 1) + 1]) = ToSet(g[m + 1]) \cup ToSet(seqs[(m + 1) + 1])
        BY <3>4, <3>5, ConcatHas
      <3>7. 1..((m + 1) + 1) = (1..(m + 1)) \cup {(m + 1) + 1}
        BY <3>1
      <3>8. \A x : x \in ToSet(g[(m + 1) + 1]) <=> \E j \in 1..((m + 1) + 1) : x \in ToSet(seqs[j])
        BY <3>4, <3>6, <3>7
      <3> QED
        BY <3>6, <3>8
    <2> HIDE DEF Has
    <2>6. Good = Nat
      <3>1. Good \in SUBSET Nat
        OBVIOUS
      <3> HIDE DEF Good
      <3> QED
        BY <2>4, <2>5, <3>1, Induct
    <2>7. PICK m \in Nat : m + 1 = n
      <3>1. n - 1 \in Nat /\ (n - 1) + 1 = n
        BY <1>0, <1>2
      <3> QED
        BY <3>1
    <2>8. Has(n)
      <3>1. m \in Good
        BY <2>6, <2>7
      <3>2. m + 1 <= n
        BY <2>7
      <3> QED
        BY <2>7, <3>1, <3>2
    <2> QED
      BY <1>0, <2>2, <2>8 DEF Has
  <1> QED
    BY <1>1, <1>2

LEMMA KeepHas ==
  ASSUME NEW S, NEW s \in Seq(S), NEW kept
  PROVE  Keep(s, kept) \in Seq(S) /\ ToSet(Keep(s, kept)) = ToSet(s) \cap kept
  <1> DEFINE parts == [i \in DOMAIN s |-> IF s[i] \in kept THEN <<s[i]>> ELSE <<>>]
  <1>0. Len(s) \in Nat /\ DOMAIN s = 1..Len(s) /\ \A i \in DOMAIN s : s[i] \in S
    OBVIOUS
  <1>1. parts \in Seq(Seq(S))
    <2>1. \A i \in DOMAIN s : parts[i] \in Seq(S)
      BY <1>0
    <2>2. parts \in [1..Len(s) -> Seq(S)]
      BY <1>0, <2>1
    <2> HIDE DEF parts
    <2> QED
      BY <1>0, <2>2, SeqDef
  <1>2. \A i \in DOMAIN s : \A x : x \in ToSet(parts[i]) <=> x = s[i] /\ s[i] \in kept
    <2> SUFFICES ASSUME NEW i \in DOMAIN s PROVE \A x : x \in ToSet(parts[i]) <=> x = s[i] /\ s[i] \in kept
      OBVIOUS
    <2>1. CASE s[i] \in kept
      <3>1. parts[i] = <<s[i]>> /\ DOMAIN <<s[i]>> = {1} /\ <<s[i]>>[1] = s[i]
        BY <2>1
      <3> QED
        BY <2>1, <3>1 DEF ToSet
    <2>2. CASE s[i] \notin kept
      <3>1. parts[i] = <<>> /\ DOMAIN <<>> = {}
        BY <2>2
      <3> QED
        BY <2>2, <3>1 DEF ToSet
    <2> QED
      BY <2>1, <2>2
  <1>3. DOMAIN parts = DOMAIN s
    OBVIOUS
  <1>4. Keep(s, kept) = FlattenSeq(parts)
    BY DEF Keep
  <1> HIDE DEF parts
  <1>5. Keep(s, kept) \in Seq(S) /\ \A x : x \in ToSet(Keep(s, kept)) <=> \E i \in DOMAIN s : x \in ToSet(parts[i])
    BY <1>1, <1>3, <1>4, FlattenHas
  <1>6. \A x : x \in ToSet(s) <=> \E i \in DOMAIN s : x = s[i]
    BY DEF ToSet
  <1>7. ASSUME NEW x
        PROVE  x \in ToSet(Keep(s, kept)) <=> x \in ToSet(s) \cap kept
    <2>1. x \in ToSet(Keep(s, kept)) <=> \E i \in DOMAIN s : x \in ToSet(parts[i])
      BY <1>5
    <2>2. (\E i \in DOMAIN s : x \in ToSet(parts[i])) <=> \E i \in DOMAIN s : x = s[i] /\ s[i] \in kept
      BY <1>2
    <2>3. (\E i \in DOMAIN s : x = s[i] /\ s[i] \in kept) <=> x \in ToSet(s) /\ x \in kept
      BY <1>6
    <2> QED
      BY <2>1, <2>2, <2>3
  <1> QED
    BY <1>5, <1>7

-----------------------------------------------------------------------------
(* What the operators on findings return. *)
LEMMA ConfidenceType ==
  ASSUME NEW f \in Finding
  PROVE  Confidence(f) \in 0..3
  <1>1. f.conf \in {"unset", "low", "medium", "high"}
    BY DEF Finding
  <1>2. \A c \in {"unset", "low", "medium", "high"} : ConfidenceRank[c] \in 0..3
    BY DEF ConfidenceRank
  <1> QED
    BY <1>1, <1>2 DEF Confidence

LEMMA SurestExists ==
  ASSUME NEW all \in Seq(Finding), Len(all) # 0
  PROVE  \E i \in DOMAIN all :
           \A j \in DOMAIN all :
             \/ Confidence(all[j]) < Confidence(all[i])
             \/ Confidence(all[j]) = Confidence(all[i]) /\ i <= j
  <1>1. DOMAIN all = 1..Len(all) /\ Len(all) \in Nat /\ 1 \in DOMAIN all
    OBVIOUS
  <1>2. \A i \in DOMAIN all : Confidence(all[i]) \in 0..3
    BY ConfidenceType
  <1> DEFINE Unsure == {3 - Confidence(all[i]) : i \in DOMAIN all}
  <1>3. Unsure \in SUBSET Nat /\ Unsure # {}
    BY <1>1, <1>2
  <1>4. PICK u \in Unsure : \A v \in Unsure : u <= v
    BY <1>3, Least
  <1> DEFINE Sure == {i \in DOMAIN all : 3 - Confidence(all[i]) = u}
  <1>5. Sure \in SUBSET Nat /\ Sure # {}
    BY <1>1, <1>4
  <1>6. PICK i \in Sure : \A j \in Sure : i <= j
    BY <1>5, Least
  <1>7. i \in DOMAIN all /\ 3 - Confidence(all[i]) = u
    BY <1>6
  <1>8. ASSUME NEW j \in DOMAIN all
        PROVE  \/ Confidence(all[j]) < Confidence(all[i])
               \/ Confidence(all[j]) = Confidence(all[i]) /\ i <= j
    <2>1. u <= 3 - Confidence(all[j])
      BY <1>4
    <2>2. 3 - Confidence(all[j]) = u => i <= j
      BY <1>6
    <2>3. Confidence(all[j]) \in 0..3 /\ Confidence(all[i]) \in 0..3
      BY <1>2, <1>7
    <2> QED
      BY <1>7, <2>1, <2>2, <2>3
  <1> QED
    BY <1>7, <1>8

(* A merge keeps the key, and takes the severity and the confidence of one *)
(* of the findings, of which none is surer.                                *)
LEMMA MergeIs ==
  ASSUME NEW f \in Finding, NEW others \in Seq(Finding)
  PROVE  /\ Merge(f, others) \in Finding /\ Key(Merge(f, others)) = Key(f)
         /\ \E h \in {f} \cup ToSet(others) :
              /\ Merge(f, others).sev = h.sev
              /\ \A x \in {f} \cup ToSet(others) : Confidence(h) >= Confidence(x)
  <1> DEFINE all == <<f>> \o others
             surest == CHOOSE i \in DOMAIN all :
                         \A j \in DOMAIN all :
                           \/ Confidence(all[j]) < Confidence(all[i])
                           \/ Confidence(all[j]) = Confidence(all[i]) /\ i <= j
             named == {i \in DOMAIN all : all[i].rule # ""}
             rule == IF named = {} THEN "" ELSE all[Min(named)].rule
             m == [f EXCEPT !.conf = all[surest].conf, !.sev = all[surest].sev, !.rule = rule]
  <1>1. <<f>> \in Seq(Finding) /\ ToSet(<<f>>) = {f} /\ Len(<<f>>) = 1
    <2>1. DOMAIN <<f>> = {1} /\ <<f>>[1] = f
      OBVIOUS
    <2> QED
      BY <2>1 DEF ToSet
  <1>2. all \in Seq(Finding) /\ ToSet(all) = {f} \cup ToSet(others)
    <2>1. PICK one \in Seq(Finding) : one = <<f>>
      BY <1>1
    <2>2. one \o others \in Seq(Finding) /\ ToSet(one \o others) = ToSet(one) \cup ToSet(others)
      BY ConcatHas
    <2> QED
      BY <1>1, <2>1, <2>2
  <1>3. Len(all) = 1 + Len(others) /\ Len(others) \in Nat
    BY <1>1, ConcatProperties
  <1>4. Merge(f, others) = m
    BY DEF Merge
  <1>5. DOMAIN all = 1..Len(all) /\ \A i \in DOMAIN all : all[i] \in Finding
    BY <1>2
  <1> HIDE DEF all
  <1>6. /\ surest \in DOMAIN all
        /\ \A j \in DOMAIN all :
             \/ Confidence(all[j]) < Confidence(all[surest])
             \/ Confidence(all[j]) = Confidence(all[surest]) /\ surest <= j
    <2>1. Len(all) # 0
      BY <1>3
    <2>2. \E i \in DOMAIN all :
            \A j \in DOMAIN all :
              \/ Confidence(all[j]) < Confidence(all[i])
              \/ Confidence(all[j]) = Confidence(all[i]) /\ i <= j
      BY <1>2, <2>1, SurestExists
    <2> QED
      BY <2>2
  <1> HIDE DEF surest
  <1>7. rule \in STRING
    <2>1. ASSUME named # {} PROVE all[Min(named)].rule \in STRING
      <3>1. \A i \in DOMAIN all : i \in Nat
        BY <1>3, <1>5
      <3>2. named \in SUBSET Nat
        BY <3>1, Zenon
      <3>3. Min(named) \in named
        BY <2>1, <3>2, Least DEF Min
      <3> QED
        BY <1>5, <3>3 DEF Finding
    <2>2. ASSUME named = {} PROVE "" \in STRING
      <3>1. 1 \in DOMAIN all
        BY <1>3, <1>5
      <3>2. all[1].rule = "" /\ all[1] \in Finding
        BY <1>5, <2>2, <3>1
      <3> QED
        BY <3>2 DEF Finding
    <2> HIDE DEF named
    <2> QED
      BY <2>1, <2>2
  <1> HIDE DEF rule
  <1>8. all[surest] \in Finding
    BY <1>5, <1>6
  <1>9. m \in Finding /\ m.sev = all[surest].sev /\ m.file = f.file /\ m.line = f.line /\ m.name = f.name
    BY <1>7, <1>8 DEF Finding
  <1>10. all[surest] \in {f} \cup ToSet(others)
    BY <1>2, <1>6 DEF ToSet
  <1>11. ASSUME NEW x \in {f} \cup ToSet(others)
         PROVE  Confidence(all[surest]) >= Confidence(x)
    <2>1. PICK j \in DOMAIN all : x = all[j]
      BY <1>2 DEF ToSet
    <2>2. Confidence(all[j]) \in 0..3 /\ Confidence(all[surest]) \in 0..3
      BY <1>5, <1>8, ConfidenceType
    <2> QED
      BY <1>6, <2>1, <2>2
  <1>12. Key(m) = Key(f)
    BY <1>9 DEF Key
  <1> HIDE DEF m
  <1> QED
    BY <1>4, <1>9, <1>10, <1>11, <1>12

(* After the merge of two passes every finding has one with its key whose  *)
(* severity is that of a finding at least as sure.                         *)
LEMMA DeduplicateCovers ==
  ASSUME NEW pass1 \in Seq(Finding), NEW pass2 \in Seq(Finding)
  PROVE  /\ DeduplicateFindings(pass1, pass2) \in Seq(Finding)
         /\ \A f \in ToSet(pass1) \cup ToSet(pass2) :
              \E g \in ToSet(DeduplicateFindings(pass1, pass2)), h \in ToSet(pass1) \cup ToSet(pass2) :
                Key(g) = Key(f) /\ Key(h) = Key(f) /\ g.sev = h.sev /\ Confidence(h) >= Confidence(f)
  <1> DEFINE first == [i \in DOMAIN pass1 |->
                         IF LastOfKey(pass1, i) THEN Merge(pass1[i], Of(pass2, Key(pass1[i]))) ELSE pass1[i]]
             parts == [i \in DOMAIN pass2 |->
                         IF IsNewKey(pass1, pass2, i) THEN <<Merge(pass2[i], Of(pass2, Key(pass2[i])))>> ELSE <<>>]
             all == ToSet(pass1) \cup ToSet(pass2)
             result == DeduplicateFindings(pass1, pass2)
             Covered(f) == \E g \in ToSet(result), h \in all :
                             Key(g) = Key(f) /\ Key(h) = Key(f) /\ g.sev = h.sev /\ Confidence(h) >= Confidence(f)
  <1>1. /\ Len(pass1) \in Nat /\ DOMAIN pass1 = 1..Len(pass1) /\ \A i \in DOMAIN pass1 : pass1[i] \in Finding
        /\ Len(pass2) \in Nat /\ DOMAIN pass2 = 1..Len(pass2) /\ \A i \in DOMAIN pass2 : pass2[i] \in Finding
    OBVIOUS
  <1>2. ASSUME NEW key
        PROVE  /\ Of(pass2, key) \in Seq(Finding)
               /\ \A x : x \in ToSet(Of(pass2, key)) <=> x \in ToSet(pass2) /\ Key(x) = key
    BY KeepHas DEF Of
  <1>3. ASSUME NEW f \in Finding, f \in all
        PROVE  LET m == Merge(f, Of(pass2, Key(f)))
               IN /\ m \in Finding
                  /\ m \in ToSet(result) =>
                       \A x : x = f \/ (x \in ToSet(pass2) /\ Key(x) = Key(f)) => Covered(x)
    <2> DEFINE m == Merge(f, Of(pass2, Key(f)))
    <2>1. Of(pass2, Key(f)) \in Seq(Finding)
      BY <1>2
    <2>2. m \in Finding /\ Key(m) = Key(f)
      BY <2>1, MergeIs
    <2>3. PICK h \in {f} \cup ToSet(Of(pass2, Key(f))) :
            /\ m.sev = h.sev
            /\ \A x \in {f} \cup ToSet(Of(pass2, Key(f))) : Confidence(h) >= Confidence(x)
      BY <2>1, MergeIs
    <2> HIDE DEF m
    <2>4. h \in all /\ Key(h) = Key(f)
      BY <1>2, <1>3, <2>3
    <2>5. ASSUME m \in ToSet(result), NEW x, x = f \/ (x \in ToSet(pass2) /\ Key(x) = Key(f))
          PROVE  Covered(x)
      <3>1. x \in {f} \cup ToSet(Of(pass2, Key(f))) /\ Key(x) = Key(f)
        BY <1>2, <2>5
      <3>2. Confidence(h) >= Confidence(x)
        BY <2>3, <3>1
      <3> QED
        BY <2>2, <2>3, <2>4, <2>5, <3>1, <3>2
    <2> QED
      BY <2>2, <2>5 DEF m
  <1>4. first \in Seq(Finding) /\ \A i \in DOMAIN pass1 : first[i] \in ToSet(first)
    <2>1. ASSUME NEW i \in DOMAIN pass1 PROVE first[i] \in Finding
      <3>1. pass1[i] \in Finding /\ pass1[i] \in all
        BY <1>1 DEF ToSet
      <3>2. Merge(pass1[i], Of(pass2, Key(pass1[i]))) \in Finding
        BY <1>3, <3>1
      <3> QED
        BY <3>1, <3>2
    <2>2. first \in [1..Len(pass1) -> Finding] /\ DOMAIN first = DOMAIN pass1
      BY <1>1, <2>1
    <2> HIDE DEF first
    <2> QED
      BY <1>1, <2>2, SeqDef DEF ToSet
  <1>5. parts \in Seq(Seq(Finding))
    <2>1. ASSUME NEW i \in DOMAIN pass2 PROVE parts[i] \in Seq(Finding)
      <3>1. pass2[i] \in Finding /\ pass2[i] \in all
        BY <1>1 DEF ToSet
      <3>2. Merge(pass2[i], Of(pass2, Key(pass2[i]))) \in Finding
        BY <1>3, <3>1
      <3>3. CASE IsNewKey(pass1, pass2, i)
        <4>1. parts[i] = <<Merge(pass2[i], Of(pass2, Key(pass2[i])))>>
          BY <3>3
        <4> QED
          BY <3>2, <4>1
      <3>4. CASE ~IsNewKey(pass1, pass2, i)
        BY <3>4
      <3> QED
        BY <3>3, <3>4
    <2>2. parts \in [1..Len(pass2) -> Seq(Finding)]
      BY <1>1, <2>1
    <2> HIDE DEF parts
    <2> QED
      BY <1>1, <2>2, SeqDef
  <1>6. /\ result = first \o FlattenSeq(parts) /\ DOMAIN parts = DOMAIN pass2
        /\ \A i \in DOMAIN pass1 : LastOfKey(pass1, i) => first[i] = Merge(pass1[i], Of(pass2, Key(pass1[i])))
        /\ \A i \in DOMAIN pass1 : ~LastOfKey(pass1, i) => first[i] = pass1[i]
        /\ \A i \in DOMAIN pass2 : IsNewKey(pass1, pass2, i) => parts[i] = <<Merge(pass2[i], Of(pass2, Key(pass2[i])))>>
    BY DEF DeduplicateFindings
  <1> HIDE DEF first, parts, result
  <1>7. /\ FlattenSeq(parts) \in Seq(Finding)
        /\ \A x : x \in ToSet(FlattenSeq(parts)) <=> \E i \in DOMAIN parts : x \in ToSet(parts[i])
    BY <1>5, FlattenHas
  <1>8. result \in Seq(Finding) /\ ToSet(result) = ToSet(first) \cup ToSet(FlattenSeq(parts))
    BY <1>4, <1>6, <1>7, ConcatHas
  <1>9. ASSUME NEW i \in DOMAIN pass1, LastOfKey(pass1, i), NEW x,
               x = pass1[i] \/ (x \in ToSet(pass2) /\ Key(x) = Key(pass1[i]))
        PROVE  Covered(x)
    <2>1. pass1[i] \in Finding /\ pass1[i] \in all
      BY <1>1 DEF ToSet
    <2>2. Merge(pass1[i], Of(pass2, Key(pass1[i]))) \in ToSet(result)
      BY <1>4, <1>6, <1>8, <1>9
    <2> QED
      BY <1>3, <1>9, <2>1, <2>2
  <1>10. ASSUME NEW i \in DOMAIN pass2, IsNewKey(pass1, pass2, i), NEW x, x \in ToSet(pass2), Key(x) = Key(pass2[i])
         PROVE  Covered(x)
    <2>1. pass2[i] \in Finding /\ pass2[i] \in all
      BY <1>1 DEF ToSet
    <2> DEFINE m == Merge(pass2[i], Of(pass2, Key(pass2[i])))
    <2>2. m \in ToSet(parts[i])
      <3>1. parts[i] = <<m>>
        BY <1>6, <1>10
      <3>2. DOMAIN <<m>> = {1} /\ <<m>>[1] = m
        OBVIOUS
      <3> HIDE DEF m
      <3> QED
        BY <3>1, <3>2 DEF ToSet
    <2>3. m \in ToSet(result)
      BY <1>6, <1>7, <1>8, <2>2
    <2> QED
      BY <1>3, <1>10, <2>1, <2>3
  <1>11. ASSUME NEW i \in DOMAIN pass1 PROVE Covered(pass1[i])
    <2>1. CASE LastOfKey(pass1, i)
      BY <1>9, <2>1
    <2>2. CASE ~LastOfKey(pass1, i)
      <3>1. pass1[i] \in ToSet(result) /\ pass1[i] \in all /\ pass1[i] \in Finding
        BY <1>1, <1>4, <1>6, <1>8, <2>2 DEF ToSet
      <3>2. Confidence(pass1[i]) >= Confidence(pass1[i])
        BY <3>1, ConfidenceType
      <3> QED
        BY <3>1, <3>2
    <2> QED
      BY <2>1, <2>2
  <1>12. ASSUME NEW i \in DOMAIN pass2 PROVE Covered(pass2[i])
    <2>1. pass2[i] \in ToSet(pass2)
      BY DEF ToSet
    <2>2. CASE \E j \in DOMAIN pass1 : Key(pass1[j]) = Key(pass2[i])
      <3> DEFINE Same == {n \in Nat : \E j \in DOMAIN pass1 : n = Len(pass1) - j /\ Key(pass1[j]) = Key(pass2[i])}
      <3>1. Same \in SUBSET Nat /\ Same # {}
        <4>1. PICK j \in DOMAIN pass1 : Key(pass1[j]) = Key(pass2[i])
          BY <2>2
        <4>2. Len(pass1) - j \in Nat
          BY <1>1
        <4>3. Len(pass1) - j \in Same
          BY <4>1, <4>2
        <4> QED
          BY <4>3
      <3>2. PICK n \in Same : \A k \in Same : n <= k
        BY <3>1, Least
      <3>3. PICK j \in DOMAIN pass1 : n = Len(pass1) - j /\ Key(pass1[j]) = Key(pass2[i])
        BY <3>2
      <3>4. ASSUME NEW k \in DOMAIN pass1, Key(pass1[k]) = Key(pass1[j]) PROVE k <= j
        <4>1. Len(pass1) - k \in Same
          BY <1>1, <3>3, <3>4
        <4>2. Len(pass1) - j <= Len(pass1) - k
          BY <3>2, <3>3, <4>1
        <4> QED
          BY <1>1, <4>2
      <3>5. LastOfKey(pass1, j)
        BY <3>4 DEF LastOfKey
      <3> QED
        BY <1>9, <2>1, <3>3, <3>5
    <2>3. CASE \A j \in DOMAIN pass1 : Key(pass1[j]) # Key(pass2[i])
      <3> DEFINE Same == {j \in DOMAIN pass2 : Key(pass2[j]) = Key(pass2[i])}
      <3>1. Same \in SUBSET Nat /\ Same # {}
        BY <1>1
      <3>2. PICK j \in Same : \A k \in Same : j <= k
        BY <3>1, Least
      <3>3. FirstOfKey(pass2, j) /\ Key(pass2[j]) = Key(pass2[i]) /\ j \in DOMAIN pass2
        BY <3>2 DEF FirstOfKey
      <3>4. IsNewKey(pass1, pass2, j)
        BY <2>3, <3>3 DEF IsNewKey
      <3> QED
        BY <1>10, <2>1, <3>3, <3>4
    <2> QED
      BY <2>2, <2>3
  <1>13. ASSUME NEW f \in all PROVE Covered(f)
    <2>1. CASE f \in ToSet(pass1)
      BY <1>11, <2>1 DEF ToSet
    <2>2. CASE f \in ToSet(pass2)
      BY <1>12, <2>2 DEF ToSet
    <2> QED
      BY <2>1, <2>2
  <1> QED
    BY <1>8, <1>13 DEF result

-----------------------------------------------------------------------------
(***************************************************************************)
(* What a run has found, and what the baselines acknowledge.               *)
(***************************************************************************)
(* What a run that looked at this has found, before the filters. *)
MergedFor(o, p, s) ==
  LET walked == WalkFindings(o, s.walk)
  IN IF s.pass2 = None THEN walked ELSE DeduplicateFindings(walked, Pass2Findings(o, p, s.pass2))

(* How far a run is: it read no baseline yet, it has merged what it found, *)
(* it has filtered it.                                                     *)
Early(p) == pc[p] \in {"flags", "walk", "pass2", "hung", "select", "suppress", "open", "save", "rename"}
Chosen(p) ==
  \/ pc[p] \in {"suppress", "open", "save", "rename", "write", "validate", "push", "gate"}
  \/ exit[p] = 0
  \/ pc[p] = "done" /\ read[p] # Unread
Looked(p) == pc[p] \in {"pass2", "select"} \/ Chosen(p)

Knows(p) ==
  /\ pc[p] \in {"flags", "walk", "pass2"} => seen[p].pass2 = None
  /\ Early(p) => read[p] = Unread
  /\ Looked(p) => seen[p].walk \subseteq Site /\ merged[p] = MergedFor(opt[p], p, seen[p])
  /\ Chosen(p) =>
       ToSet(found[p]) = {f \in ToSet(merged[p]) : Selected(f, opt[p]) /\ ~Acknowledged(f, read[p].fps)}
  /\ exit[p] = 0 => GateCode(opt[p], found[p]) = 0

(* A baseline that was saved here acknowledges all that its author found.  *)
Right(c) ==
  \/ c \in Baselines \ {Torn}
  \/ \E p \in Proc : c.fps = FingerprintsOf(Select(MergedFor(c.by, p, c.seen), c.by))

LooksType ==
  /\ seen \in [Proc -> [walk : (SUBSET Site) \cup {None}, pass2 : (SUBSET Site) \cup {None}]]
  /\ merged \in [Proc -> Seq(Finding)] /\ found \in [Proc -> Seq(Finding)]
  /\ DOMAIN read = Proc /\ opt \in Commands

Knowledge ==
  /\ LooksType
  /\ \A p \in Proc : Knows(p)
  /\ \A i \in Inode : content[i] = Torn \/ Right(content[i])
  /\ \A p \in Proc : read[p] = Unread \/ Right(read[p])

LEMMA FindsType ==
  /\ Site = 1..Len(finds[1]) /\ Len(finds[1]) \in Nat
  /\ \A pass \in 1..3, i \in Site : finds[pass][i] \in Seq(Finding)
  BY FindingsAssumption DEF Site

LEMMA PassType ==
  ASSUME NEW f \in [Site -> Seq(Finding)]
  PROVE  FlattenSeq(f) \in Seq(Finding)
  <1>1. f \in [1..Len(finds[1]) -> Seq(Finding)] /\ Len(finds[1]) \in Nat
    BY FindsType
  <1>2. f \in Seq(Seq(Finding))
    BY <1>1, SeqDef
  <1> QED
    BY <1>2, FlattenHas

LEMMA MergedType ==
  ASSUME NEW o, NEW p \in Proc, NEW s
  PROVE  /\ WalkFindings(o, s.walk) \in Seq(Finding)
         /\ Pass2Findings(o, p, s.pass2) \in Seq(Finding)
         /\ MergedFor(o, p, s) \in Seq(Finding)
  <1>1. WalkFindings(o, s.walk) \in Seq(Finding)
    <2> DEFINE f == [i \in Site |-> IF i \in s.walk
                       THEN finds[1][i] \o (IF RunsYara(o) THEN finds[3][i] ELSE <<>>) ELSE <<>>]
    <2>1. ASSUME NEW i \in Site PROVE f[i] \in Seq(Finding)
      <3>1. finds[1][i] \in Seq(Finding) /\ finds[3][i] \in Seq(Finding) /\ <<>> \in Seq(Finding)
        BY FindsType
      <3>2. finds[1][i] \o finds[3][i] \in Seq(Finding) /\ finds[1][i] \o <<>> \in Seq(Finding)
        BY <3>1, ConcatProperties
      <3> QED
        BY <3>1, <3>2
    <2>2. f \in [Site -> Seq(Finding)]
      BY <2>1
    <2>3. WalkFindings(o, s.walk) = FlattenSeq(f)
      BY DEF WalkFindings
    <2> HIDE DEF f
    <2> QED
      BY <2>2, <2>3, PassType
  <1>2. Found(2, s.pass2) \in Seq(Finding)
    <2> DEFINE f == [i \in Site |-> IF i \in s.pass2 THEN finds[2][i] ELSE <<>>]
    <2>1. f \in [Site -> Seq(Finding)]
      BY FindsType
    <2>2. Found(2, s.pass2) = FlattenSeq(f)
      BY DEF Found
    <2> HIDE DEF f
    <2> QED
      BY <2>1, <2>2, PassType
  <1>3. Pass2Findings(o, p, s.pass2) \in Seq(Finding)
    <2> DEFINE raw == Found(2, s.pass2)
               f == [i \in DOMAIN raw |-> [raw[i] EXCEPT !.file.under = Pass2Under(o, p)]]
    <2>1. raw \in Seq(Finding) /\ Len(raw) \in Nat /\ DOMAIN raw = 1..Len(raw) /\ \A i \in DOMAIN raw : raw[i] \in Finding
      BY <1>2
    <2> HIDE DEF raw
    <2>2. Pass2Under(o, p) \in {"", "target"} \cup Proc
      BY DEF Pass2Under
    <2>3. ASSUME NEW g \in Finding, NEW under \in {"", "target"} \cup Proc
          PROVE  [g EXCEPT !.file.under = under] \in Finding
      BY DEF Finding
    <2>4. \A i \in DOMAIN raw : f[i] \in Finding
      BY <2>1, <2>2, <2>3
    <2>5. f \in [1..Len(raw) -> Finding]
      BY <2>1, <2>4
    <2>6. Pass2Findings(o, p, s.pass2) = f
      BY DEF Pass2Findings, raw
    <2> HIDE DEF f
    <2> QED
      BY <2>1, <2>5, <2>6, SeqDef
  <1> QED
    BY <1>1, <1>3, DeduplicateCovers DEF MergedFor

LEMMA SelectHas ==
  ASSUME NEW s \in Seq(Finding), NEW o
  PROVE  Select(s, o) \in Seq(Finding) /\ ToSet(Select(s, o)) = {f \in ToSet(s) : Selected(f, o)}
  BY KeepHas DEF Select

LEMMA ApplyHas ==
  ASSUME NEW s \in Seq(Finding), NEW fps
  PROVE  /\ ApplyBaseline(s, fps) \in Seq(Finding)
         /\ ToSet(ApplyBaseline(s, fps)) = {f \in ToSet(s) : ~Acknowledged(f, fps)}
  BY KeepHas DEF ApplyBaseline

LEMMA ToolsFixed ==
  ASSUME UNCHANGED tools
  PROVE  /\ \A o, p, s : MergedFor(o, p, s)' = MergedFor(o, p, s)
         /\ \A c : Right(c)' <=> Right(c)
  BY DEF MergedFor, WalkFindings, RunsYara, Right

(* A step of one run leaves alone what others found.                       *)
LookStay(p) ==
  /\ UNCHANGED <<opt, tools>>
  /\ \A q \in Proc \ {p} :
       /\ pc'[q] = pc[q] /\ exit'[q] = exit[q] /\ seen'[q] = seen[q]
       /\ found'[q] = found[q] /\ merged'[q] = merged[q] /\ read'[q] = read[q]

LEMMA KnowledgeKept ==
  ASSUME Knowledge, NEW p \in Proc, LookStay(p), LooksType', Knows(p)',
         \A i \in Inode : content'[i] = Torn \/ Right(content'[i]),
         read'[p] = Unread \/ Right(read'[p])
  PROVE  Knowledge'
  <1>1. UNCHANGED tools
    BY DEF LookStay
  <1>2. ASSUME NEW q \in Proc, q # p
        PROVE  Knows(q)'
    <2>1. /\ opt' = opt /\ pc'[q] = pc[q] /\ exit'[q] = exit[q] /\ seen'[q] = seen[q]
          /\ found'[q] = found[q] /\ merged'[q] = merged[q] /\ read'[q] = read[q]
      BY <1>2 DEF LookStay
    <2>2. Knows(q)
      BY DEF Knowledge
    <2>3. MergedFor(opt[q], q, seen[q])' = MergedFor(opt[q], q, seen[q])
      BY <1>1, <2>1 DEF MergedFor, WalkFindings, RunsYara
    <2>4. (Early(q)' <=> Early(q)) /\ (Looked(q)' <=> Looked(q)) /\ (Chosen(q)' <=> Chosen(q))
      BY <2>1 DEF Early, Looked, Chosen
    <2> QED
      BY <2>1, <2>2, <2>3, <2>4 DEF Knows
  <1>3. ASSUME NEW i \in Inode
        PROVE  (content[i] = Torn \/ Right(content[i]))'
    <2>1. PICK c : c = content'[i]
      OBVIOUS
    <2>2. c = Torn \/ Right(c)'
      BY <1>1, <2>1, ToolsFixed
    <2> QED
      BY <2>1, <2>2 DEF Right
  <1>4. ASSUME NEW q \in Proc
        PROVE  (read[q] = Unread \/ Right(read[q]))'
    <2>1. PICK c : c = read'[q]
      OBVIOUS
    <2>2. c = Unread \/ Right(c)
      BY <2>1 DEF LookStay, Knowledge
    <2>3. c = Unread \/ Right(c)'
      BY <1>1, <2>2, ToolsFixed
    <2> QED
      BY <2>1, <2>3 DEF Right, Unread
  <1> QED
    BY <1>2, <1>3, <1>4 DEF Knowledge

ChosenStages == {"suppress", "open", "save", "rename", "write", "validate", "push", "gate"}

(* A step that finds, filters and reads nothing.                           *)
GoesOn(p) ==
  \/ pc[p] = "flags" /\ pc'[p] = "walk" /\ exit'[p] = None
  \/ pc[p] = "pass2" /\ pc'[p] \in {"select", "hung"} /\ exit'[p] = None
  \/ /\ pc[p] \in ChosenStages /\ pc'[p] \in ChosenStages \ {"suppress"} /\ exit'[p] = None
     /\ pc'[p] \in {"open", "save", "rename"} => pc[p] \in {"open", "save"}
  \/ pc'[p] = "killed" /\ exit'[p] = None
  \/ pc'[p] = "done" /\ exit'[p] \in {1, 3, 4}
  \/ pc[p] = "gate" /\ pc'[p] = "done" /\ exit'[p] = GateCode(opt[p], found[p])

LEMMA KnowsOnward ==
  ASSUME TypeOK, Knowledge, NEW p \in Proc, pc[p] \notin {"done", "killed"},
         UNCHANGED <<opt, tools, scanState>>, GoesOn(p)
  PROVE  LooksType' /\ Knows(p)'
  <1>1. Knows(p) /\ exit[p] = None
    BY DEF Knowledge, TypeOK
  <1>2. /\ opt' = opt /\ tools' = tools /\ seen' = seen /\ found' = found /\ merged' = merged /\ read' = read
    BY DEF scanState
  <1>3. MergedFor(opt[p], p, seen[p])' = MergedFor(opt[p], p, seen[p])
    BY <1>2 DEF MergedFor, WalkFindings, RunsYara
  <1>4. None # 0
    BY ConstantsAssumption
  <1>5. /\ pc'[p] \in {"flags", "walk", "pass2"} => pc[p] \in {"flags", "walk", "pass2"}
        /\ Early(p)' => Early(p)
    BY DEF GoesOn, Early, ChosenStages
  <1>6. Chosen(p)' => Chosen(p)
    <2>1. CASE pc'[p] = "done" /\ exit'[p] \in {1, 3, 4}
      <3>1. Chosen(p)' => read[p] # Unread
        BY <1>2, <2>1 DEF Chosen
      <3>2. read[p] # Unread => ~Early(p)
        BY <1>1 DEF Knows
      <3>3. pc[p] \in Stages \ {"done", "killed"}
        BY DEF TypeOK
      <3>4. ~Early(p) => Chosen(p)
        BY <3>3 DEF Early, Chosen, Stages
      <3> QED
        BY <3>1, <3>2, <3>4
    <2>2. CASE ~(pc'[p] = "done" /\ exit'[p] \in {1, 3, 4})
      BY <1>4, <2>2 DEF Chosen, GoesOn, ChosenStages
    <2> QED
      BY <2>1, <2>2
  <1>7. Looked(p)' => Looked(p)
    BY <1>6 DEF Looked, GoesOn, ChosenStages, Chosen
  <1>8. exit'[p] = 0 => GateCode(opt[p], found[p]) = 0
    BY <1>4 DEF GoesOn
  <1>9. Knows(p)'
    BY <1>1, <1>2, <1>3, <1>5, <1>6, <1>7, <1>8 DEF Knows, GateCode
  <1>10. LooksType'
    BY <1>2 DEF Knowledge, LooksType
  <1> QED
    BY <1>9, <1>10

LEMMA GoesOnKeeps ==
  ASSUME TypeOK, Knowledge, NEW p \in Proc, pc[p] \notin {"done", "killed"},
         UNCHANGED <<opt, tools, scanState>>, GoesOn(p),
         \A q \in Proc \ {p} : pc'[q] = pc[q] /\ exit'[q] = exit[q],
         \A i \in Inode : content'[i] = content[i] \/ content'[i] = Torn \/ Right(content'[i])
  PROVE  Knowledge'
  <1>1. LooksType' /\ Knows(p)'
    BY KnowsOnward
  <1>2. LookStay(p)
    BY DEF LookStay, scanState
  <1>3. \A i \in Inode : content'[i] = Torn \/ Right(content'[i])
    BY DEF Knowledge
  <1>4. read'[p] = Unread \/ Right(read'[p])
    BY DEF Knowledge, scanState
  <1> QED
    BY <1>1, <1>2, <1>3, <1>4, KnowledgeKept

(* The steps that go on, one after the other. *)
Quiet(p) ==
  /\ pc[p] \notin {"done", "killed"}
  /\ UNCHANGED <<opt, tools, scanState>> /\ GoesOn(p)
  /\ \A q \in Proc \ {p} : pc'[q] = pc[q] /\ exit'[q] = exit[q]

LEMMA Returns ==
  ASSUME TypeOK, NEW p \in Proc, NEW code \in {1, 3, 4}, Return(p, code),
         pc[p] \notin {"done", "killed"}, UNCHANGED <<opt, tools, scanState>>
  PROVE  Quiet(p)
  <1>1. /\ pc'[p] = "done" /\ exit'[p] = code
        /\ \A q \in Proc \ {p} : pc'[q] = pc[q] /\ exit'[q] = exit[q]
    BY ReturnDoes DEF Codes
  <1> QED
    BY <1>1 DEF Quiet, GoesOn

LEMMA Continues ==
  ASSUME TypeOK, NEW p \in Proc, NEW s \in Stages \ {"done"}, Continue(p, s),
         pc[p] \notin {"done", "killed"}, UNCHANGED <<opt, tools, scanState>>,
         \/ pc[p] = "flags" /\ s = "walk"
         \/ pc[p] = "pass2" /\ s \in {"select", "hung"}
         \/ /\ pc[p] \in ChosenStages /\ s \in ChosenStages \ {"suppress"}
            /\ s \in {"open", "save", "rename"} => pc[p] \in {"open", "save"}
  PROVE  Quiet(p)
  <1>1. /\ pc'[p] = s /\ exit'[p] = None
        /\ \A q \in Proc \ {p} : pc'[q] = pc[q] /\ exit'[q] = exit[q]
    BY ContinueDoes
  <1> QED
    BY <1>1 DEF Quiet, GoesOn

LEMMA BeforeWalkQuiet ==
  ASSUME TypeOK, NEW p \in Proc, CheckFlags(p) \/ ImageFails(p)
  PROVE  Quiet(p) /\ content' = content
  <1>1. CASE CheckFlags(p)
    <2> DEFINE failing == Failing(FlagChecks(opt[p]))
    <2>1. pc[p] = "flags" /\ UNCHANGED <<opt, tools, scanState, content>>
      BY <1>1 DEF CheckFlags, world, fileState
    <2>2. CASE failing # {}
      <3>1. PICK code \in {1, 3, 4} : Return(p, code)
        BY <1>1, <2>2, FlagCodes, FirstFailing DEF CheckFlags, Failing
      <3> QED
        BY <2>1, <3>1, Returns
    <2>3. CASE failing = {}
      <3>1. Continue(p, "walk") /\ "walk" \in Stages \ {"done"}
        BY <1>1, <2>3 DEF CheckFlags, Stages
      <3> QED
        BY <2>1, <3>1, Continues
    <2> QED
      BY <2>2, <2>3
  <1>2. CASE ImageFails(p)
    <2>1. pc[p] = "walk" /\ UNCHANGED <<opt, tools, scanState, content>> /\ Return(p, 1)
      BY <1>2 DEF ImageFails, world, fileState
    <2> QED
      BY <2>1, Returns
  <1> QED
    BY <1>1, <1>2

LEMMA WithoutPass2Quiet ==
  ASSUME TypeOK, NEW p \in Proc, NoPass2(p) \/ MissingOpengrep(p) \/ Pass2Fails(p) \/ Pass2Hangs(p)
  PROVE  Quiet(p) /\ content' = content
  <1>1. pc[p] = "pass2" /\ UNCHANGED <<opt, tools, scanState, content>>
    BY DEF NoPass2, MissingOpengrep, Pass2Fails, Pass2Hangs, Pass2Runs, world, fileState
  <1>2. CASE Continue(p, "select")
    <2>1. "select" \in Stages \ {"done"}
      BY DEF Stages
    <2> QED
      BY <1>1, <1>2, <2>1, Continues
  <1>3. CASE Return(p, 4)
    BY <1>1, <1>3, Returns
  <1>4. CASE Pass2Hangs(p)
    <2>1. pc' = [pc EXCEPT ![p] = "hung"] /\ exit' = exit
      BY <1>4 DEF Pass2Hangs, Go
    <2>2. pc'[p] = "hung" /\ exit'[p] = None /\ \A q \in Proc \ {p} : pc'[q] = pc[q] /\ exit'[q] = exit[q]
      BY <1>1, <2>1 DEF TypeOK
    <2> QED
      BY <1>1, <2>2 DEF Quiet, GoesOn
  <1> QED
    BY <1>2, <1>3, <1>4 DEF NoPass2, MissingOpengrep, Pass2Fails

LEMMA SavingQuiet ==
  ASSUME TypeOK, NEW p \in Proc, OpenTmp(p) \/ WriteTmp(p) \/ SaveFails(p) \/ Rename(p)
  PROVE  Quiet(p) /\ \A i \in Inode : content'[i] \in {content[i], Torn, Saved(p)}
  <1>1. pc[p] \in {"open", "save", "rename"} /\ UNCHANGED <<opt, tools, scanState>>
    BY DEF OpenTmp, WriteTmp, SaveFails, Rename, world
  <1>2. \A i \in Inode : content'[i] \in {content[i], Torn, Saved(p)}
    BY DEF OpenTmp, WriteTmp, SaveFails, Rename, TypeOK
  <1>3. "save" \in Stages \ {"done"} /\ "rename" \in Stages \ {"done"} /\ "write" \in Stages \ {"done"}
    BY DEF Stages
  <1>4. CASE OpenTmp(p)
    BY <1>1, <1>2, <1>3, <1>4, Continues DEF OpenTmp, ChosenStages
  <1>5. CASE WriteTmp(p)
    BY <1>1, <1>2, <1>3, <1>5, Continues DEF WriteTmp, ChosenStages
  <1>6. CASE SaveFails(p)
    BY <1>1, <1>2, <1>6, Returns DEF SaveFails
  <1>7. CASE Rename(p)
    <2>1. pc[p] = "rename" /\ (Return(p, 1) \/ Continue(p, "write"))
      BY <1>7 DEF Rename
    <2> QED
      BY <1>1, <1>2, <1>3, <2>1, Returns, Continues DEF ChosenStages
  <1> QED
    BY <1>4, <1>5, <1>6, <1>7

LEMMA OutputsQuiet ==
  ASSUME TypeOK, NEW p \in Proc, BeforeOutputs(p) \/ WriteOutputs(p) \/ Validate(p) \/ Push(p)
  PROVE  Quiet(p) /\ content' = content
  <1>1. pc[p] \in {"write", "validate", "push"} /\ UNCHANGED <<opt, tools, scanState, content>>
    BY DEF BeforeOutputs, WriteOutputs, Validate, Push, world, fileState
  <1>2. /\ AfterOutputs(opt[p]) \in {"validate", "push", "gate"} /\ AfterValidation(opt[p]) \in {"push", "gate"}
    BY DEF AfterOutputs, AfterValidation
  <1>3. PICK s \in {"validate", "push", "gate"} : Continue(p, s) \/ Return(p, 1) \/ Return(p, 3)
    <2>1. CASE BeforeOutputs(p)
      BY <2>1 DEF BeforeOutputs
    <2>2. CASE WriteOutputs(p)
      BY <1>2, <2>2 DEF WriteOutputs
    <2>3. CASE Validate(p)
      BY <1>2, <2>3 DEF Validate
    <2>4. CASE Push(p)
      BY <2>4 DEF Push
    <2> QED
      BY <2>1, <2>2, <2>3, <2>4
  <1>4. s \in Stages \ {"done"}
    BY DEF Stages
  <1> QED
    BY <1>1, <1>3, <1>4, Returns, Continues DEF ChosenStages

LEMMA EndsQuiet ==
  ASSUME TypeOK, NEW p \in Proc, CheckFailOn(p) \/ Kill(p)
  PROVE  Quiet(p) /\ content' = content
  <1>1. CASE CheckFailOn(p)
    <2>1. pc[p] = "gate" /\ UNCHANGED <<opt, tools, scanState, content>>
      BY <1>1 DEF CheckFailOn, world, fileState
    <2>2. pc' = [pc EXCEPT ![p] = "done"] /\ exit' = [exit EXCEPT ![p] = GateCode(opt[p], found[p])]
      BY <1>1 DEF CheckFailOn, Return, Go
    <2>3. /\ pc'[p] = "done" /\ exit'[p] = GateCode(opt[p], found[p])
          /\ \A q \in Proc \ {p} : pc'[q] = pc[q] /\ exit'[q] = exit[q]
      BY <2>2 DEF TypeOK
    <2> QED
      BY <2>1, <2>3 DEF Quiet, GoesOn
  <1>2. CASE Kill(p)
    <2>1. pc[p] \notin {"done", "killed"} /\ UNCHANGED <<opt, tools, scanState, content, exit>>
      BY <1>2 DEF Kill, Live, world
    <2>2. pc' = [pc EXCEPT ![p] = "killed"]
      BY <1>2 DEF Kill, Go
    <2>3. /\ pc'[p] = "killed" /\ exit'[p] = None
          /\ \A q \in Proc \ {p} : pc'[q] = pc[q] /\ exit'[q] = exit[q]
      BY <2>1, <2>2 DEF TypeOK
    <2> QED
      BY <2>1, <2>3 DEF Quiet, GoesOn
  <1> QED
    BY <1>1, <1>2

(* What a run saves is right: it has read no baseline before.              *)
LEMMA SavesRight ==
  ASSUME Knowledge, NEW p \in Proc, pc[p] = "save"
  PROVE  Right(Saved(p))
  <1>1. /\ Knows(p) /\ Chosen(p) /\ Looked(p) /\ Early(p)
    BY DEF Knowledge, Chosen, Looked, Early
  <1>2. read[p].fps = {}
    BY <1>1 DEF Knows, Unread
  <1>3. /\ merged[p] = MergedFor(opt[p], p, seen[p])
        /\ ToSet(found[p]) = {f \in ToSet(merged[p]) : Selected(f, opt[p]) /\ ~Acknowledged(f, read[p].fps)}
    BY <1>1 DEF Knows
  <1>4. ToSet(found[p]) = {f \in ToSet(merged[p]) : Selected(f, opt[p])}
    BY <1>2, <1>3 DEF Acknowledged
  <1>5. ToSet(Select(merged[p], opt[p])) = ToSet(found[p])
    BY <1>4, SelectHas DEF Knowledge, LooksType
  <1>6. FingerprintsOf(found[p]) = FingerprintsOf(Select(MergedFor(opt[p], p, seen[p]), opt[p]))
    BY <1>3, <1>5 DEF FingerprintsOf
  <1> QED
    BY <1>6 DEF Right, Saved

LEMMA QuietKeeps ==
  ASSUME TypeOK, Knowledge, NEW p \in Proc,
         \/ CheckFlags(p) \/ ImageFails(p) \/ NoPass2(p) \/ MissingOpengrep(p) \/ Pass2Fails(p) \/ Pass2Hangs(p)
         \/ OpenTmp(p) \/ WriteTmp(p) \/ SaveFails(p) \/ Rename(p)
         \/ BeforeOutputs(p) \/ WriteOutputs(p) \/ Validate(p) \/ Push(p) \/ CheckFailOn(p) \/ Kill(p)
  PROVE  Knowledge'
  <1>1. CASE Quiet(p) /\ \A i \in Inode : content'[i] = content[i] \/ content'[i] = Torn \/ Right(content'[i])
    BY <1>1, GoesOnKeeps DEF Quiet
  <1>2. CASE WriteTmp(p)
    <2>1. Right(Saved(p))
      BY <1>2, SavesRight DEF WriteTmp
    <2>2. \A i \in Inode : content'[i] = content[i] \/ content'[i] = Torn \/ Right(content'[i])
      BY <1>2, <2>1, SavingQuiet
    <2> QED
      BY <1>1, <1>2, <2>2, SavingQuiet
  <1>3. CASE OpenTmp(p) \/ SaveFails(p) \/ Rename(p)
    <2>1. \A i \in Inode : content'[i] = content[i] \/ content'[i] = Torn
      BY <1>3 DEF OpenTmp, SaveFails, Rename, TypeOK
    <2> QED
      BY <1>1, <1>3, <2>1, SavingQuiet
  <1> QED
    BY <1>1, <1>2, <1>3, BeforeWalkQuiet, WithoutPass2Quiet, OutputsQuiet, EndsQuiet

(* The walk, pass 2, the filters and the baseline.                         *)
LEMMA WalkFinds ==
  ASSUME TypeOK, Knowledge, NEW p \in Proc, Walk(p)
  PROVE  Knowledge'
  <1> DEFINE files == Walked(opt[p], tree)
  <1>1. /\ UNCHANGED <<opt, tools, content, found, read, exit>> /\ pc[p] = "walk"
        /\ seen' = [seen EXCEPT ![p].walk = files]
        /\ merged' = [merged EXCEPT ![p] = WalkFindings(opt[p], files)]
        /\ pc' = [pc EXCEPT ![p] = "pass2"]
    BY DEF Walk, Go, world, fileState
  <1>2. files \in SUBSET Site
    BY ConstantsAssumption DEF Walked, TypeOK
  <1> HIDE DEF files
  <1>3. Knows(p) /\ LooksType /\ pc \in [Proc -> Stages] /\ exit[p] = None
    BY <1>1 DEF Knowledge, TypeOK
  <1>4. /\ seen'[p].walk = files /\ seen'[p].pass2 = seen[p].pass2 /\ seen'[p].pass2 = None /\ read[p] = Unread
        /\ merged'[p] = WalkFindings(opt[p], files) /\ pc'[p] = "pass2"
    BY <1>1, <1>3 DEF LooksType, Knows, Early
  <1>5. WalkFindings(opt[p], seen'[p].walk) \in Seq(Finding)
    BY MergedType
  <1>6. LooksType'
    BY <1>1, <1>2, <1>3, <1>4, <1>5 DEF LooksType
  <1>7. LookStay(p)
    BY <1>1, <1>3 DEF LookStay, LooksType
  <1>8. merged'[p] = MergedFor(opt[p], p, seen'[p])
    BY <1>4 DEF MergedFor
  <1>9. MergedFor(opt[p], p, seen[p])' = MergedFor(opt[p], p, seen'[p])
    BY <1>1 DEF MergedFor, WalkFindings, RunsYara
  <1>10. ~Chosen(p)'
    BY <1>1, <1>3, <1>4, ConstantsAssumption DEF Chosen
  <1>11. Knows(p)'
    BY <1>1, <1>2, <1>3, <1>4, <1>8, <1>9, <1>10, ConstantsAssumption DEF Knows
  <1>12. /\ \A i \in Inode : content'[i] = Torn \/ Right(content'[i])
         /\ read'[p] = Unread \/ Right(read'[p])
    BY <1>1 DEF Knowledge
  <1> QED
    BY <1>6, <1>7, <1>11, <1>12, KnowledgeKept

LEMMA Pass2Finds ==
  ASSUME TypeOK, Knowledge, NEW p \in Proc, Pass2(p)
  PROVE  Knowledge'
  <1> DEFINE files == Pass2Files(opt[p], tree)
  <1>1. /\ UNCHANGED <<opt, tools, content, found, read>> /\ pc[p] = "pass2"
        /\ seen' = [seen EXCEPT ![p].pass2 = files]
        /\ merged' = [merged EXCEPT ![p] = DeduplicateFindings(merged[p], Pass2Findings(opt[p], p, files))]
        /\ Continue(p, "select")
    BY DEF Pass2, Pass2Runs, world, fileState
  <1>2. files \in SUBSET Site /\ files # None
    BY ConstantsAssumption DEF Pass2Files, TypeOK
  <1> HIDE DEF files
  <1>3. Knows(p) /\ LooksType /\ pc \in [Proc -> Stages] /\ exit[p] = None
    BY <1>1 DEF Knowledge, TypeOK
  <1>4. /\ seen'[p].walk = seen[p].walk /\ seen[p].pass2 = None /\ seen'[p].pass2 = files
        /\ read[p] = Unread /\ seen[p].walk \subseteq Site
        /\ merged[p] = MergedFor(opt[p], p, seen[p])
    BY <1>1, <1>3 DEF LooksType, Knows, Early, Looked
  <1>5. /\ pc'[p] = "select" /\ exit' = exit
        /\ \A q \in Proc \ {p} : pc'[q] = pc[q]
    BY <1>1, ContinueDoes DEF Stages
  <1>6. merged[p] = WalkFindings(opt[p], seen[p].walk)
    BY <1>4 DEF MergedFor
  <1>7. merged'[p] = DeduplicateFindings(WalkFindings(opt[p], seen[p].walk), Pass2Findings(opt[p], p, files))
    BY <1>1, <1>3, <1>6 DEF LooksType
  <1>8. merged'[p] = MergedFor(opt[p], p, seen'[p])
    BY <1>2, <1>4, <1>7 DEF MergedFor
  <1>9. merged'[p] \in Seq(Finding)
    BY <1>8, MergedType
  <1>10. LooksType'
    BY <1>1, <1>2, <1>3, <1>4, <1>9 DEF LooksType
  <1>11. LookStay(p)
    BY <1>1, <1>3, <1>5 DEF LookStay, LooksType
  <1>12. MergedFor(opt[p], p, seen[p])' = MergedFor(opt[p], p, seen'[p])
    BY <1>1 DEF MergedFor, WalkFindings, RunsYara
  <1>13. ~Chosen(p)'
    BY <1>1, <1>3, <1>5, ConstantsAssumption DEF Chosen
  <1>14. Knows(p)'
    BY <1>1, <1>3, <1>4, <1>5, <1>8, <1>12, <1>13, ConstantsAssumption DEF Knows
  <1>15. /\ \A i \in Inode : content'[i] = Torn \/ Right(content'[i])
         /\ read'[p] = Unread \/ Right(read'[p])
    BY <1>1 DEF Knowledge
  <1> QED
    BY <1>10, <1>11, <1>14, <1>15, KnowledgeKept

LEMMA FiltersFinds ==
  ASSUME TypeOK, Knowledge, NEW p \in Proc, ApplyFilters(p)
  PROVE  Knowledge'
  <1>1. UNCHANGED <<opt, tools, content, seen, merged, read>> /\ pc[p] = "select"
    BY DEF ApplyFilters, world, fileState
  <1>2. CASE Return(p, 3) /\ UNCHANGED found
    <2>1. Quiet(p)
      BY <1>1, <1>2, Returns DEF scanState
    <2> QED
      BY <1>1, <2>1, GoesOnKeeps DEF Quiet
  <1>3. CASE found' = [found EXCEPT ![p] = Select(merged[p], opt[p])] /\ (Continue(p, "open") \/ Continue(p, "suppress"))
    <2>1. Knows(p) /\ LooksType /\ exit[p] = None
      BY <1>1 DEF Knowledge, TypeOK
    <2>2. /\ pc'[p] \in {"open", "suppress"} /\ exit' = exit
          /\ \A q \in Proc \ {p} : pc'[q] = pc[q]
      BY <1>1, <1>3, ContinueDoes DEF Stages
    <2>3. /\ read[p] = Unread /\ seen[p].walk \subseteq Site
          /\ merged[p] = MergedFor(opt[p], p, seen[p])
      BY <1>1, <2>1 DEF Knows, Early, Looked
    <2>4. found'[p] = Select(merged[p], opt[p]) /\ merged[p] \in Seq(Finding)
      BY <1>3, <2>1 DEF LooksType
    <2>5. found'[p] \in Seq(Finding) /\ ToSet(found'[p]) = {f \in ToSet(merged[p]) : Selected(f, opt[p])}
      BY <2>4, SelectHas
    <2>6. \A f : ~Acknowledged(f, read[p].fps)
      BY <2>3 DEF Acknowledged, Unread
    <2>7. LooksType'
      BY <1>1, <1>3, <2>1, <2>4, <2>5 DEF LooksType
    <2>8. LookStay(p)
      BY <1>1, <1>3, <2>1, <2>2 DEF LookStay, LooksType
    <2>9. MergedFor(opt[p], p, seen[p])' = MergedFor(opt[p], p, seen[p])
      BY <1>1 DEF MergedFor, WalkFindings, RunsYara
    <2>10. ToSet(found'[p]) = {f \in ToSet(merged[p]) : Selected(f, opt[p]) /\ ~Acknowledged(f, read[p].fps)}
      BY <2>5, <2>6
    <2>11. Knows(p)'
      BY <1>1, <2>1, <2>2, <2>3, <2>9, <2>10, ConstantsAssumption DEF Knows
    <2>12. /\ \A i \in Inode : content'[i] = Torn \/ Right(content'[i])
           /\ read'[p] = Unread \/ Right(read'[p])
      BY <1>1 DEF Knowledge
    <2> QED
      BY <2>7, <2>8, <2>11, <2>12, KnowledgeKept
  <1> QED
    BY <1>2, <1>3 DEF ApplyFilters

LEMMA SuppressFinds ==
  ASSUME TypeOK, Knowledge, NEW p \in Proc, Suppress(p)
  PROVE  Knowledge'
  <1>1. UNCHANGED <<opt, tools, content, seen, merged>> /\ pc[p] = "suppress"
    BY DEF Suppress, world, fileState
  <1>2. CASE Return(p, 1) /\ UNCHANGED <<found, read>>
    <2>1. Quiet(p)
      BY <1>1, <1>2, Returns DEF scanState
    <2> QED
      BY <1>1, <2>1, GoesOnKeeps DEF Quiet
  <1>3. CASE Continue(p, "write") /\ UNCHANGED <<found, read>>
    <2>1. "write" \in Stages \ {"done"}
      BY DEF Stages
    <2>2. Quiet(p)
      BY <1>1, <1>3, <2>1, Continues DEF scanState, ChosenStages
    <2> QED
      BY <1>1, <2>2, GoesOnKeeps DEF Quiet
  <1>4. CASE /\ base # None /\ content[base] # Torn
             /\ read' = [read EXCEPT ![p] = content[base]]
             /\ found' = [found EXCEPT ![p] = ApplyBaseline(found[p], content[base].fps)]
             /\ Continue(p, "write")
    <2>1. Knows(p) /\ LooksType /\ exit[p] = None /\ base \in Inode
      BY <1>1, <1>4 DEF Knowledge, TypeOK
    <2>2. /\ pc'[p] = "write" /\ exit' = exit
          /\ \A q \in Proc \ {p} : pc'[q] = pc[q]
      BY <1>1, <1>4, ContinueDoes DEF Stages
    <2>3. Right(content[base])
      BY <1>4, <2>1 DEF Knowledge
    <2>4. read'[p] = content[base] /\ found'[p] = ApplyBaseline(found[p], content[base].fps)
      BY <1>4, <2>1 DEF LooksType
    <2>5. /\ read[p] = Unread /\ seen[p].walk \subseteq Site
          /\ merged[p] = MergedFor(opt[p], p, seen[p])
          /\ ToSet(found[p]) = {f \in ToSet(merged[p]) : Selected(f, opt[p]) /\ ~Acknowledged(f, read[p].fps)}
      BY <1>1, <2>1 DEF Knows, Early, Looked, Chosen
    <2>6. \A f : ~Acknowledged(f, read[p].fps)
      BY <2>5 DEF Acknowledged, Unread
    <2>7. /\ found'[p] \in Seq(Finding)
          /\ ToSet(found'[p]) = {f \in ToSet(found[p]) : ~Acknowledged(f, content[base].fps)}
      BY <2>1, <2>4, ApplyHas DEF LooksType
    <2>8. ToSet(found'[p]) = {f \in ToSet(merged[p]) : Selected(f, opt[p]) /\ ~Acknowledged(f, read'[p].fps)}
      BY <2>4, <2>5, <2>6, <2>7
    <2>9. LooksType'
      BY <1>1, <1>4, <2>1, <2>4, <2>7 DEF LooksType
    <2>10. LookStay(p)
      BY <1>1, <1>4, <2>1, <2>2 DEF LookStay, LooksType
    <2>11. MergedFor(opt[p], p, seen[p])' = MergedFor(opt[p], p, seen[p])
      BY <1>1 DEF MergedFor, WalkFindings, RunsYara
    <2>12. Knows(p)'
      BY <1>1, <2>1, <2>2, <2>5, <2>8, <2>11, ConstantsAssumption DEF Knows, Early
    <2>13. /\ \A i \in Inode : content'[i] = Torn \/ Right(content'[i])
           /\ read'[p] = Unread \/ Right(read'[p])
      BY <1>1, <2>3, <2>4 DEF Knowledge
    <2> QED
      BY <2>9, <2>10, <2>12, <2>13, KnowledgeKept
  <1> QED
    BY <1>2, <1>3, <1>4 DEF Suppress

LEMMA IdleKnows ==
  ASSUME TypeOK, Knowledge, Edit \/ UNCHANGED vars
  PROVE  Knowledge'
  <1>1. UNCHANGED <<tools, content, pc, opt, seen, found, merged, read, exit>>
    BY DEF Edit, vars, world, fileState, scanState
  <1>2. ASSUME NEW q \in Proc
        PROVE  Knows(q)'
    <2>1. MergedFor(opt[q], q, seen[q])' = MergedFor(opt[q], q, seen[q])
      BY <1>1 DEF MergedFor, WalkFindings, RunsYara
    <2>2. Knows(q)
      BY DEF Knowledge
    <2> QED
      BY <1>1, <2>1, <2>2 DEF Knows, Early, Looked, Chosen
  <1>3. ASSUME NEW i \in Inode
        PROVE  (content[i] = Torn \/ Right(content[i]))'
    <2>1. PICK c : c = content[i]
      OBVIOUS
    <2>2. c = Torn \/ Right(c)'
      BY <1>1, <2>1, ToolsFixed DEF Knowledge
    <2> QED
      BY <1>1, <2>1, <2>2 DEF Right
  <1>4. ASSUME NEW q \in Proc
        PROVE  (read[q] = Unread \/ Right(read[q]))'
    <2>1. PICK c : c = read[q]
      OBVIOUS
    <2>2. c = Unread \/ Right(c)'
      BY <1>1, <2>1, ToolsFixed DEF Knowledge
    <2> QED
      BY <1>1, <2>1, <2>2 DEF Right, Unread
  <1>5. LooksType'
    BY <1>1 DEF Knowledge, LooksType
  <1> QED
    BY <1>2, <1>3, <1>4, <1>5 DEF Knowledge

LEMMA StartsKnowing == Init => Knowledge
  <1> SUFFICES ASSUME Init PROVE Knowledge
    OBVIOUS
  <1>1. LooksType
    <2>1. <<>> \in Seq(Finding)
      OBVIOUS
    <2>2. seen \in [Proc -> [walk : (SUBSET Site) \cup {None}, pass2 : (SUBSET Site) \cup {None}]]
      <3>1. [walk |-> None, pass2 |-> None] \in [walk : (SUBSET Site) \cup {None}, pass2 : (SUBSET Site) \cup {None}]
        OBVIOUS
      <3>2. seen = [p \in Proc |-> [walk |-> None, pass2 |-> None]]
        BY DEF Init
      <3> QED
        BY <3>1, <3>2, Zenon
    <2>3. merged \in [Proc -> Seq(Finding)] /\ found \in [Proc -> Seq(Finding)]
      BY <2>1 DEF Init
    <2> QED
      BY <2>2, <2>3 DEF Init, LooksType
  <1>2. ASSUME NEW p \in Proc
        PROVE  Knows(p)
    BY ConstantsAssumption DEF Init, Knows, Early, Looked, Chosen
  <1>3. ASSUME NEW i \in Inode
        PROVE  content[i] = Torn \/ Right(content[i])
    BY DEF Init, Right
  <1>4. ASSUME NEW p \in Proc
        PROVE  read[p] = Unread
    BY DEF Init
  <1> QED
    BY <1>1, <1>2, <1>3, <1>4 DEF Knowledge

(* Two runs of one scope find the same in the same files and keep the same.*)
LEMMA ScopeDecides ==
  ASSUME NEW o1, NEW o2, Scope(o1) = Scope(o2), o2.target = "dir", NEW p1, NEW p2, NEW s
  PROVE  /\ MergedFor(o1, p1, s) = MergedFor(o2, p2, s)
         /\ \A f : Selected(f, o1) <=> Selected(f, o2)
  <1>1. /\ o1.target = o2.target /\ Passes(o1) = Passes(o2) /\ o1.dot = o2.dot
        /\ o1.rules = o2.rules /\ o1.disable = o2.disable /\ o1.include = o2.include
        /\ o1.categories = o2.categories /\ o1.experimental = o2.experimental /\ o1.noisy = o2.noisy
        /\ o1.assetTypes = o2.assetTypes /\ o1.excludeTypes = o2.excludeTypes
    BY DEF Scope
  <1>2. RunsYara(o1) <=> RunsYara(o2)
    BY <1>1 DEF RunsYara
  <1>3. WalkFindings(o1, s.walk) = WalkFindings(o2, s.walk)
    BY <1>2 DEF WalkFindings
  <1>4. Pass2Under(o1, p1) = Pass2Under(o2, p2)
    BY <1>1 DEF Pass2Under
  <1>5. Pass2Findings(o1, p1, s.pass2) = Pass2Findings(o2, p2, s.pass2)
    BY <1>4 DEF Pass2Findings
  <1>6. \A f : Selected(f, o1) <=> Selected(f, o2)
    BY <1>1 DEF Selected, KeptByRules, KeptByAsset, IsDefaultKeep, InCategories
  <1> QED
    BY <1>3, <1>5, <1>6 DEF MergedFor

(* What a run found is what the scanners it used report on the files it    *)
(* looked at, merged, selected and not acknowledged; and a baseline saved  *)
(* by a run acknowledges all that run found.                               *)
THEOREM Known == Spec => []Knowledge
  <1>1. TypeOK /\ Knowledge /\ [Next]_vars => Knowledge'
    BY QuietKeeps, WalkFinds, Pass2Finds, FiltersFinds, SuppressFinds, IdleKnows DEF Next, Step
  <1> QED
    BY <1>1, StartsKnowing, TypeCorrect, PTL DEF Spec

LEMMA CodesDiffer ==
  ASSUME NEW code, code = 0
  PROVE  code # 1 /\ code # 3
  OBVIOUS

LEMMA GateCloses ==
  ASSUME NEW o, o.failOn # "", NEW findings, GateCode(o, findings) = 0
  PROVE  \A i \in DOMAIN findings : ~AtOrAbove(findings[i], o.failOn)
  <1>1. PICK code : code = GateCode(o, findings)
    OBVIOUS
  <1>2. code # 1 /\ code # 3
    BY <1>1, CodesDiffer, Zenon
  <1> QED
    BY <1>1, <1>2, Zenon DEF GateCode

(* Exit code 0 under --fail-on: nothing at the threshold was reported that *)
(* no surer finding, no filter and no acknowledgement speaks for (the gate *)
(* of runScan after everything that takes findings away).                  *)
THEOREM GateIsSound == Spec => []GateSound
  <1>1. Knowledge => GateSound
    <2> SUFFICES ASSUME Knowledge, NEW p \in Proc, exit[p] = 0, opt[p].failOn # "",
                        NEW f \in Reported(p), AtOrAbove(f, opt[p].failOn)
                 PROVE  Excused(p, f)
      BY DEF GateSound
    <2> DEFINE o == opt[p]
               walked == WalkFindings(o, seen[p].walk)
               second == Pass2Findings(o, p, seen[p].pass2)
    <2>1. /\ merged[p] = MergedFor(o, p, seen[p])
          /\ ToSet(found[p]) = {g \in ToSet(merged[p]) : Selected(g, o) /\ ~Acknowledged(g, read[p].fps)}
          /\ GateCode(o, found[p]) = 0
      BY DEF Knowledge, Knows, Looked, Chosen
    <2>2. walked \in Seq(Finding) /\ second \in Seq(Finding)
      BY MergedType
    <2>3. ASSUME NEW g \in ToSet(merged[p]), Key(g) = Key(f), AtOrAbove(g, o.failOn)
          PROVE  Excused(p, f)
      <3>1. g \notin ToSet(found[p])
        <4> SUFFICES ASSUME g \in ToSet(found[p]) PROVE FALSE
          OBVIOUS
        <4>1. \E i \in DOMAIN found[p] : AtOrAbove(found[p][i], o.failOn)
          BY <2>3 DEF ToSet
        <4> QED
          BY <2>1, <4>1, GateCloses
      <3>2. ~Selected(g, o) \/ Acknowledged(g, read[p].fps)
        BY <2>1, <3>1
      <3> QED
        BY <2>3, <3>2 DEF Excused
    <2>4. CASE seen[p].pass2 = None
      <3>1. f \in ToSet(merged[p])
        BY <2>1, <2>4 DEF Reported, MergedFor
      <3> QED
        BY <2>3, <3>1
    <2>5. CASE seen[p].pass2 # None
      <3>1. Reported(p) = ToSet(walked) \cup ToSet(second) /\ merged[p] = DeduplicateFindings(walked, second)
        BY <2>1, <2>5 DEF Reported, MergedFor
      <3> HIDE DEF walked, second
      <3>2. PICK g \in ToSet(merged[p]), h \in Reported(p) :
              Key(g) = Key(f) /\ Key(h) = Key(f) /\ g.sev = h.sev /\ Confidence(h) >= Confidence(f)
        BY <2>2, <3>1, DeduplicateCovers
      <3>3. CASE AtOrAbove(h, o.failOn)
        <4>1. AtOrAbove(g, o.failOn)
          BY <3>2, <3>3 DEF AtOrAbove
        <4> QED
          BY <2>3, <3>2, <4>1
      <3>4. CASE ~AtOrAbove(h, o.failOn)
        BY <3>2, <3>4 DEF Excused
      <3> QED
        BY <3>3, <3>4
    <2> QED
      BY <2>4, <2>5
  <1> QED
    BY <1>1, Known, PTL

(* What --update-baseline acknowledged stays so: a later run of the same   *)
(* scope over the same files reports inventory only, whichever updates,    *)
(* kills and edits came between the two (BuildFromSecurityFindings, Apply).*)
THEOREM StaysAcknowledged == Spec => []AcknowledgedStaysSo
  <1>1. TypeOK /\ Knowledge => AcknowledgedStaysSo
    <2> SUFFICES ASSUME TypeOK, Knowledge, NEW p \in Proc,
                        SameScope(p), read[p].seen = seen[p], opt[p].target = "dir", Filtered(p),
                        NEW i \in DOMAIN found[p], IsSuppressible(found[p][i])
                 PROVE  FALSE
      BY DEF AcknowledgedStaysSo
    <2> DEFINE f == found[p][i]
               c == read[p]
    <2>1. c # Unread /\ Scope(c.by) = Scope(opt[p]) /\ Right(c)
      BY DEF SameScope, Knowledge
    <2>2. Chosen(p) /\ Looked(p)
      BY <2>1 DEF Filtered, Chosen, Looked
    <2>3. /\ seen[p].walk \subseteq Site /\ merged[p] = MergedFor(opt[p], p, seen[p])
          /\ ToSet(found[p]) = {g \in ToSet(merged[p]) : Selected(g, opt[p]) /\ ~Acknowledged(g, c.fps)}
      BY <2>2 DEF Knowledge, Knows
    <2>4. f \in ToSet(merged[p]) /\ Selected(f, opt[p]) /\ ~Acknowledged(f, c.fps)
      <3>1. f \in ToSet(found[p])
        BY DEF ToSet
      <3> QED
        BY <2>3, <3>1
    <2>5. CASE c \in Baselines \ {Torn}
      BY <2>3, <2>5, BaselinesAssumption
    <2>6. CASE \E q \in Proc : c.fps = FingerprintsOf(Select(MergedFor(c.by, q, c.seen), c.by))
      <3>1. PICK q \in Proc : c.fps = FingerprintsOf(Select(MergedFor(c.by, q, c.seen), c.by))
        BY <2>6
      <3>2. MergedFor(c.by, q, c.seen) = merged[p] /\ (Selected(f, c.by) <=> Selected(f, opt[p]))
        BY <2>1, <2>3, ScopeDecides
      <3>3. f \in ToSet(Select(MergedFor(c.by, q, c.seen), c.by))
        <4>1. MergedFor(c.by, q, c.seen) \in Seq(Finding)
          BY MergedType
        <4> QED
          BY <2>4, <3>2, <4>1, SelectHas
      <3>4. Fingerprint(f) \in c.fps
        BY <3>1, <3>3 DEF FingerprintsOf
      <3> QED
        BY <2>4, <3>4 DEF Acknowledged
    <2> QED
      BY <2>1, <2>5, <2>6 DEF Right
  <1> QED
    BY <1>1, TypeCorrect, Known, PTL
=============================================================================
