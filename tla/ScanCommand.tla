---------------------------- MODULE ScanCommand ----------------------------
(***************************************************************************)
(* Runs of "cradar scan" (cmd/scan.go) over one tree: each is a process    *)
(* that goes through the stages of runScan in order, returns early with an *)
(* exit code or is killed, while the tree is edited and other runs read    *)
(* and rewrite the same baseline file.  What the scanners find on a file   *)
(* is a constant; ScanWalk and ImageExtract model how they come to look.   *)
(***************************************************************************)
EXTENDS Findings

CONSTANTS
  Proc,
  Commands,    \* the command lines the runs may have, functions on Proc
  ImageSites,  \* files of the container image
  finds,       \* finds[pass]: what a pass finds in each file, a sequence of sequences
  Trees,       \* the contents the tree may have
  Toolsets,    \* what may be installed of opengrep and yr
  Baselines,   \* contents the baseline file may have at first, or Torn
  Inode,
  MaxEdits,    \* bound
  Torn, None

(* The files with findings, in the order of the walk. *)
Site == DOMAIN finds[1]

Finding == [rule : STRING, file : [under : {"", "target"} \cup Proc, path : Nat], line : Nat, name : STRING,
            sev : STRING, conf : {"unset", "low", "medium", "high"}, cat : STRING,
            maturity : STRING, enabled : BOOLEAN, noise : STRING, asset : STRING,
            sig : STRING, odd : BOOLEAN]

ASSUME ConstantsAssumption ==
  /\ ImageSites \subseteq Site
  /\ Trees \subseteq SUBSET Site /\ Toolsets \subseteq SUBSET {"opengrep", "yr"}
  /\ MaxEdits \in Nat
  /\ None \notin Inode /\ Torn # None
  /\ None \notin {0, 1, 3, 4} /\ \A files \in SUBSET Site : None # files

ASSUME FindingsAssumption ==
  \A pass \in 1..3 : finds[pass] \in Seq(Seq(Finding)) /\ DOMAIN finds[pass] = Site

(* Only the runs save what is found in these files: a baseline that is     *)
(* there at first was made of others.                                      *)
ASSUME BaselinesAssumption ==
  \A b \in Baselines \ {Torn} : b.seen.walk \notin SUBSET Site

(* A new file always gets an inode. *)
ASSUME InodeAssumption ==
  /\ Inode # {}
  /\ \A p \in Proc, used \in [Proc -> Inode \cup {None}], b \in Inode \cup {None} :
       used[p] = None => Inode \ ({b, None} \cup {used[q] : q \in Proc}) # {}

VARIABLES
  tree, edits,
  tools,       \* which of opengrep and yr are installed
  base, tmp,   \* the inode behind the baseline file and behind its .tmp
  content,     \* of an inode: Torn, or what a save wrote
  portal,      \* runs whose upload arrived
  pc, opt,
  fd,          \* the inode a run has open for writing
  seen,        \* the tree as the walk and as pass 2 saw it, None if it did not look
  found,       \* result.Findings
  merged,      \* the same before the filters
  read,        \* the baseline the run applies
  written,     \* how many of the outputs were written
  temp,        \* the run's temporary directories
  exit         \* the exit code

scanState == <<seen, found, merged, read>>
fileState == <<base, tmp, content, fd>>
world == <<tree, edits, tools>>
vars == <<world, fileState, portal, pc, opt, scanState, written, temp, exit>>

Live(p) == pc[p] \notin {"flags", "done", "killed"}

Unread == [fps |-> {}, by |-> None, seen |-> None]

(* Which inode is free does not matter. *)
AnyOf(inodes) == CHOOSE i \in inodes : TRUE

Init ==
  /\ tree \in Trees /\ edits = 0
  /\ tools \in Toolsets
  /\ \/ base = None /\ content = [i \in Inode |-> Torn]
     \/ /\ base = AnyOf(Inode)
        /\ \E b \in Baselines : content = [i \in Inode |-> IF i = base THEN b ELSE Torn]
  /\ tmp = None
  /\ portal = {}
  /\ pc = [p \in Proc |-> "flags"]
  /\ opt \in Commands
  /\ fd = [p \in Proc |-> None]
  /\ seen = [p \in Proc |-> [walk |-> None, pass2 |-> None]]
  /\ found = [p \in Proc |-> <<>>] /\ merged = [p \in Proc |-> <<>>]
  /\ read = [p \in Proc |-> Unread]
  /\ written = [p \in Proc |-> 0]
  /\ temp = [p \in Proc |-> {}]
  /\ exit = [p \in Proc |-> None]

-----------------------------------------------------------------------------
Go(p, stage) == pc' = [pc EXCEPT ![p] = stage]

(* A return of runScan: the deferred clean-ups run, main sets the code. *)
Return(p, code) ==
  /\ Go(p, "done")
  /\ exit' = [exit EXCEPT ![p] = code]
  /\ temp' = [temp EXCEPT ![p] = {}]

Continue(p, stage) == Go(p, stage) /\ UNCHANGED <<exit, temp>>

(* --fast and --deep stand for lists of passes; --deep and --passes make   *)
(* the tools of a pass required.                                           *)
Passes(o) == CASE o.mode = "fast"    -> {1}
               [] o.mode = "deep"    -> {1, 2, 3}
               [] o.mode = "default" -> {1, 2}
               [] OTHER              -> o.passes
Explicit(o) == o.mode \in {"deep", "passes"}

(* The checks before the scan, in their order, with their exit codes. *)
FlagChecks(o) == <<
  <<o.target \in {"none", "both"}, 1>>,
  <<"asset-type" \in o.bad, 3>>,
  <<"passes" \in o.bad /\ o.mode = "passes", 1>>,
  <<3 \in Passes(o) /\ Explicit(o) /\ "yr" \notin tools, 4>>,
  <<"size" \in o.bad, 3>>,
  <<"yara-rules-dir" \in o.bad /\ 3 \in Passes(o), 4>>,
  <<"ast-rules-dir" \in o.bad /\ 1 \in Passes(o), 4>>,
  <<o.target = "dir" /\ "path" \in o.bad, 3>>,
  <<o.target = "dir" /\ o.staged # None /\ "git" \in o.bad, 1>> >>

Failing(checks) == {i \in DOMAIN checks : checks[i][1]}

CheckFlags(p) ==
  /\ pc[p] = "flags"
  /\ LET failing == Failing(FlagChecks(opt[p]))
     IN IF failing # {} THEN Return(p, FlagChecks(opt[p])[Min(failing)][2])
        ELSE Continue(p, "walk")
  /\ UNCHANGED <<world, fileState, portal, opt, scanState, written>>

(* An empty list of staged files filters nothing; the listed paths start   *)
(* at the root of the repository, the compared ones at the target.         *)
Walked(o, files) ==
  IF o.target = "image" THEN ImageSites
  ELSE IF o.staged \in {None, {}} THEN files
  ELSE IF o.atRoot THEN files \cap o.staged ELSE {}

Found(pass, files) == FlattenSeq([i \in Site |-> IF i \in files THEN finds[pass][i] ELSE <<>>])

(* The scanners of the languages run whatever the passes are. *)
RunsYara(o) == 3 \in Passes(o) /\ "yr" \in tools
WalkFindings(o, files) ==
  FlattenSeq([i \in Site |->
    IF i \in files THEN finds[1][i] \o (IF RunsYara(o) THEN finds[3][i] ELSE <<>>) ELSE <<>>])

(* The registry is built first, and YARA-X unpacks its embedded rules then *)
(* whether pass 3 is asked for or not.  An image may not resolve.          *)
Walk(p) ==
  /\ pc[p] = "walk"
  /\ LET files == Walked(opt[p], tree)
     IN /\ seen' = [seen EXCEPT ![p].walk = files]
        /\ merged' = [merged EXCEPT ![p] = WalkFindings(opt[p], files)]
  /\ temp' = [temp EXCEPT ![p] = @ \cup {"yara rules"}]
  /\ Go(p, "pass2")
  /\ UNCHANGED <<world, fileState, portal, opt, found, read, written, exit>>

ImageFails(p) ==
  /\ pc[p] = "walk" /\ opt[p].target = "image"
  /\ Return(p, 1)
  /\ UNCHANGED <<world, fileState, portal, opt, scanState, written>>

(* Pass 2 looks at the whole target, again, staged or not.  It is skipped  *)
(* without opengrep, or refuses: only a directory scan knows of required.  *)
SkipMissing(p) ==     \* mutant: never required
  /\ pc[p] = "pass2" /\ 2 \in Passes(opt[p]) /\ "opengrep" \notin tools
  /\ Continue(p, "select")
  /\ UNCHANGED <<world, fileState, portal, opt, scanState, written>>

MissingOpengrep(p) ==
  /\ pc[p] = "pass2" /\ 2 \in Passes(opt[p]) /\ "opengrep" \notin tools
  /\ IF opt[p].target = "dir" /\ Explicit(opt[p]) THEN Return(p, 4) ELSE Continue(p, "select")
  /\ UNCHANGED <<world, fileState, portal, opt, scanState, written>>

NoPass2(p) ==
  /\ pc[p] = "pass2" /\ 2 \notin Passes(opt[p])
  /\ Continue(p, "select")
  /\ UNCHANGED <<world, fileState, portal, opt, scanState, written>>

Pass2Runs(p) == pc[p] = "pass2" /\ 2 \in Passes(opt[p]) /\ "opengrep" \in tools

Pass2Files(o, files) == IF o.target = "image" THEN ImageSites ELSE files

(* OpenGrep reports paths that start with what it was given, the walk      *)
(* paths below it.  An image is unpacked in a directory of the run's own.  *)
Pass2Under(o, p) == IF o.target = "image" THEN p ELSE IF o.dot THEN "" ELSE "target"
Pass2Findings(o, p, files) ==
  LET raw == Found(2, files)
  IN [i \in DOMAIN raw |-> [raw[i] EXCEPT !.file.under = Pass2Under(o, p)]]

Pass2(p) ==
  /\ Pass2Runs(p)
  /\ LET files == Pass2Files(opt[p], tree)
     IN /\ seen' = [seen EXCEPT ![p].pass2 = files]
        /\ merged' = [merged EXCEPT ![p] = DeduplicateFindings(@, Pass2Findings(opt[p], p, files))]
  /\ Continue(p, "select")
  /\ UNCHANGED <<world, fileState, portal, opt, found, read, written>>

(* Any other error of pass 2 is noted in the report and the scan goes on. *)
Pass2Fails(p) ==
  /\ Pass2Runs(p)
  /\ Continue(p, "select")
  /\ UNCHANGED <<world, fileState, portal, opt, scanState, written>>

(* The subprocess has no time-out. *)
Pass2Hangs(p) ==
  /\ Pass2Runs(p)
  /\ Go(p, "hung")
  /\ temp' = [temp EXCEPT ![p] = @ \cup {"pass 2 rules"}]
  /\ UNCHANGED <<world, fileState, portal, opt, scanState, written, exit>>

-----------------------------------------------------------------------------
ApplyFilters(p) ==
  /\ pc[p] = "select"
  /\ IF "category" \in opt[p].bad THEN Return(p, 3) /\ UNCHANGED found
     ELSE /\ found' = [found EXCEPT ![p] = Select(merged[p], opt[p])]
          /\ Continue(p, IF opt[p].update THEN "open" ELSE "suppress")
  /\ UNCHANGED <<world, fileState, portal, opt, seen, merged, read, written>>

(* A missing file is no baseline, one that does not parse is an error.     *)
SuppressSilently(p) ==     \* mutant: a file that does not parse ends the run without an error
  /\ pc[p] = "suppress" /\ Continue(p, IF base # None /\ content[base] = Torn THEN "done" ELSE "write")
  /\ UNCHANGED <<world, fileState, portal, opt, scanState, written>>
SuppressTorn(p) ==         \* mutant: it is read as what could be parsed of it
  /\ pc[p] = "suppress" /\ base # None
  /\ read' = [read EXCEPT ![p] = IF content[base] = Torn THEN [fps |-> {}, by |-> opt[p], seen |-> None]
                                ELSE content[base]]
  /\ Continue(p, "write")
  /\ UNCHANGED <<world, fileState, portal, opt, seen, found, merged, written>>

Suppress(p) ==
  /\ pc[p] = "suppress"
  /\ IF opt[p].noBaseline \/ base = None
     THEN Continue(p, "write") /\ UNCHANGED <<found, read>>
     ELSE IF content[base] = Torn
     THEN Return(p, 1) /\ UNCHANGED <<found, read>>
     ELSE /\ read' = [read EXCEPT ![p] = content[base]]
          /\ found' = [found EXCEPT ![p] = ApplyBaseline(@, content[base].fps)]
          /\ Continue(p, "write")
  /\ UNCHANGED <<world, fileState, portal, opt, seen, merged, written>>

(* --update-baseline: Save opens path.tmp, one name for every run, which   *)
(* empties it, writes, and renames.  The findings stay as they are.        *)
FreeInodes == Inode \ ({base, tmp} \cup {fd[q] : q \in Proc})
OpenTmp(p) ==
  /\ pc[p] = "open"
  /\ tmp' = IF tmp = None THEN AnyOf(FreeInodes) ELSE tmp
  /\ content' = [content EXCEPT ![tmp'] = Torn]
  /\ fd' = [fd EXCEPT ![p] = tmp']
  /\ Continue(p, "save")
  /\ UNCHANGED <<world, base, portal, opt, scanState, written>>

Saved(p) == [fps |-> FingerprintsOf(found[p]), by |-> opt[p], seen |-> seen[p]]

(* Over what another run wrote to the same inode only a longer text is whole. *)
WriteTmp(p) ==
  /\ pc[p] = "save"
  /\ \E c \in {Saved(p)} \cup
       (IF content[fd[p]] \in {Torn, Saved(p)} THEN {} ELSE {Torn}) :
          content' = [content EXCEPT ![fd[p]] = c]
  /\ Continue(p, "rename")
  /\ UNCHANGED <<world, base, tmp, fd, portal, opt, scanState, written>>

SaveFails(p) ==
  /\ pc[p] \in {"open", "save"}
  /\ fd' = [fd EXCEPT ![p] = None]
  /\ Return(p, 1)
  /\ UNCHANGED <<world, base, tmp, content, portal, opt, scanState, written>>

Rename(p) ==
  /\ pc[p] = "rename"
  /\ IF tmp = None THEN Return(p, 1) /\ UNCHANGED <<base, tmp>>
     ELSE base' = tmp /\ tmp' = None /\ Continue(p, "write")
  /\ fd' = [fd EXCEPT ![p] = None]
  /\ UNCHANGED <<world, content, portal, opt, scanState, written>>

-----------------------------------------------------------------------------
(* The format of a destination: --format if there is one destination, the  *)
(* extension, the configuration, CycloneDX (text on a terminal).           *)
Destinations(o) == IF o.outputs = <<>> THEN <<"">> ELSE o.outputs
Format(o, ext) ==
  IF o.format # "" /\ Len(o.outputs) <= 1 THEN o.format
  ELSE IF ext # "" THEN ext
  ELSE IF o.config # "" THEN o.config
  ELSE IF o.outputs = <<>> /\ o.terminal THEN "text" ELSE "cyclonedx"
Formats == {"cyclonedx", "sarif", "text", "table", "pdf", "sonarqube"}
FormatOf(o, i) == Format(o, Destinations(o)[i])

Validates(o) == o.validate /\ \E i \in DOMAIN Destinations(o) : FormatOf(o, i) = "cyclonedx"

AfterValidation(o) == IF o.push THEN "push" ELSE "gate"
AfterOutputs(o) == IF Validates(o) THEN "validate" ELSE AfterValidation(o)

OutsideEnums(p) == \E i \in DOMAIN found[p] : found[p][i].odd

(* writeOutputs stops at the first destination that fails and leaves the   *)
(* earlier ones written.                                                   *)
BeforeOutputs(p) ==
  /\ pc[p] = "write"
  /\ \/ opt[p].strict /\ OutsideEnums(p)
     \/ "baseline" \in opt[p].bad
  /\ Return(p, 1)
  /\ UNCHANGED <<world, fileState, portal, opt, scanState, written>>

WriteWhatWorks(p) ==     \* mutant: a destination that fails is left out
  /\ pc[p] = "write" /\ \E n \in 0..Len(Destinations(opt[p])) : written' = [written EXCEPT ![p] = n]
  /\ Continue(p, AfterOutputs(opt[p]))
  /\ UNCHANGED <<world, fileState, portal, opt, scanState>>

WriteOutputs(p) ==
  /\ pc[p] = "write"
  /\ ~(opt[p].strict /\ OutsideEnums(p)) /\ "baseline" \notin opt[p].bad
  /\ \E n \in 0..Len(Destinations(opt[p])) :
       /\ \A i \in 1..n : FormatOf(opt[p], i) \in Formats
       /\ written' = [written EXCEPT ![p] = n]
       /\ IF n = Len(Destinations(opt[p])) THEN Continue(p, AfterOutputs(opt[p]))
          ELSE Return(p, IF FormatOf(opt[p], n + 1) \in Formats THEN 1 ELSE 3)
  /\ UNCHANGED <<world, fileState, portal, opt, scanState>>

(* What the converter makes of a value outside the enumerations is not     *)
(* known here, so that a document may be invalid or not.                   *)
Validate(p) ==
  /\ pc[p] = "validate"
  /\ Continue(p, AfterValidation(opt[p])) \/ Return(p, 3)
  /\ UNCHANGED <<world, fileState, portal, opt, scanState, written>>

(* One request without a retry: it may arrive and its answer be lost. *)
Push(p) ==
  /\ pc[p] = "push"
  /\ \/ "project" \notin opt[p].bad /\ portal' = portal \cup {p} /\ Continue(p, "gate")
     \/ "project" \notin opt[p].bad /\ portal' = portal \cup {p} /\ Return(p, 1)
     \/ UNCHANGED portal /\ Return(p, 1)
  /\ UNCHANGED <<world, fileState, opt, scanState, written>>

(* --fail-on comes last. *)
GateCode(o, findings) ==
  IF o.failOn = "" THEN 0
  ELSE IF o.failOn \notin DOMAIN SeverityRank THEN 3
  ELSE IF \E i \in DOMAIN findings : AtOrAbove(findings[i], o.failOn) THEN 1 ELSE 0

CheckFailOn(p) ==
  /\ pc[p] = "gate"
  /\ Return(p, GateCode(opt[p], found[p]))
  /\ UNCHANGED <<world, fileState, portal, opt, scanState, written>>

-----------------------------------------------------------------------------
(* A killed run leaves its temporary directories and files behind. *)
Kill(p) ==
  /\ Live(p)
  /\ Go(p, "killed")
  /\ fd' = [fd EXCEPT ![p] = None]
  /\ UNCHANGED <<world, base, tmp, content, portal, opt, scanState, written, temp, exit>>

Edit ==
  /\ edits < MaxEdits
  /\ tree' \in Trees \ {tree}
  /\ edits' = edits + 1
  /\ UNCHANGED <<tools, fileState, portal, pc, opt, scanState, written, temp, exit>>

Step(p) ==
  \/ ImageFails(p) \/ Walk(p)
  \/ NoPass2(p) \/ MissingOpengrep(p) \/ Pass2Fails(p) \/ Pass2Hangs(p) \/ Pass2(p)
  \/ ApplyFilters(p) \/ Suppress(p) \/ OpenTmp(p) \/ WriteTmp(p) \/ SaveFails(p) \/ Rename(p)
  \/ BeforeOutputs(p) \/ WriteOutputs(p) \/ Validate(p) \/ Push(p) \/ CheckFailOn(p)

Next == Edit \/ \E p \in Proc : CheckFlags(p) \/ Kill(p) \/ Step(p)

(* A run that can go on does; nothing makes it start, or the tree change.  *)
Spec == Init /\ [][Next]_vars

-----------------------------------------------------------------------------
Codes == {0, 1, 3, 4}
Stages == {"flags", "walk", "pass2", "hung", "select", "suppress", "open", "save",
           "rename", "write", "validate", "push", "gate", "done", "killed"}

(* Type invariant. *)
TypeOK ==
  /\ tree \in Trees /\ edits \in 0..MaxEdits /\ tools \in Toolsets
  /\ base \in Inode \cup {None} /\ tmp \in Inode \cup {None}
  /\ DOMAIN content = Inode
  /\ portal \subseteq Proc
  /\ pc \in [Proc -> Stages]
  /\ fd \in [Proc -> Inode \cup {None}]
  /\ temp \in [Proc -> SUBSET {"yara rules", "pass 2 rules"}]
  /\ exit \in [Proc -> Codes \cup {None}]
  /\ \A p \in Proc : (pc[p] = "done") <=> (exit[p] # None)

(* What the scanners the run used find in the files it undertook to look   *)
(* at, in the state the tree was in when they looked.                      *)
Reported(p) ==
  ToSet(WalkFindings(opt[p], seen[p].walk)) \cup
  (IF seen[p].pass2 = None THEN {} ELSE ToSet(Pass2Findings(opt[p], p, seen[p].pass2)))

(* Why a finding may be missing at the gate: a scanner at least as sure    *)
(* calls the same thing less severe, or the user does not want to hear of  *)
(* the finding it was merged into, or has acknowledged that one.           *)
Excused(p, f) ==
  \/ \E g \in Reported(p) :
       Key(g) = Key(f) /\ ~AtOrAbove(g, opt[p].failOn) /\ Confidence(g) >= Confidence(f)
  \/ \E g \in ToSet(merged[p]) :
       /\ Key(g) = Key(f)
       /\ \/ ~Selected(g, opt[p])
          \/ Acknowledged(g, read[p].fps)

(* The gate is sound: exit code 0 under --fail-on means that no scanner    *)
(* that ran reported anything at or above the threshold, up to what the    *)
(* user deselected or acknowledged (the last lines of runScan against      *)
(* everything that takes findings away before them).                       *)
GateSound ==
  \A p \in Proc :
    exit[p] = 0 /\ opt[p].failOn # "" =>
      \A f \in Reported(p) : AtOrAbove(f, opt[p].failOn) => Excused(p, f)

(* A tool that was asked for by name and is missing stops a directory scan *)
(* with a code of its own, before any output (runPass2, the check of yr).  *)
MissingToolIsLoud ==
  \A p \in Proc :
    LET o == opt[p]
        missing == \/ 2 \in Passes(o) /\ "opengrep" \notin tools
                   \/ 3 \in Passes(o) /\ "yr" \notin tools
    IN o.target = "dir" /\ Explicit(o) /\ missing =>
         exit[p] # 0 /\ written[p] = 0 /\ p \notin portal /\ pc[p] \notin {"open", "save", "rename"}

(* Two runs of one scope look at, and keep, the same things. *)
Scope(o) == [target |-> o.target, passes |-> Passes(o), staged |-> o.staged, atRoot |-> o.atRoot,
             dot |-> o.dot, rules |-> o.rules, disable |-> o.disable, include |-> o.include,
             categories |-> o.categories, experimental |-> o.experimental, noisy |-> o.noisy,
             assetTypes |-> o.assetTypes, excludeTypes |-> o.excludeTypes]
SameScope(p) == read[p] # Unread /\ Scope(read[p].by) = Scope(opt[p])
Filtered(p) == pc[p] \in {"write", "validate", "push", "gate", "done"}

(* After an update, a run of the same scope over the same files reports    *)
(* nothing but inventory: what was acknowledged stays acknowledged.        *)
AcknowledgedStaysSo ==
  \A p \in Proc :
    SameScope(p) /\ read[p].seen = seen[p] /\ opt[p].target = "dir" /\ Filtered(p) =>
      \A i \in DOMAIN found[p] : ~IsSuppressible(found[p][i])

(* A run applies only what some update wrote as a whole, never the torn    *)
(* file two of them can leave (Load against Save's shared path.tmp).       *)
ReadsWholeBaselines ==
  \A p \in Proc :
    read[p] # Unread =>
      read[p] \in (Baselines \ {Torn}) \cup {Saved(q) : q \in {r \in Proc : opt[r].update}}

(* What reaches the portal was written to every destination first and is   *)
(* not pushed when the document is invalid: after a push exit code 3 is    *)
(* about --fail-on only.                                                   *)
PushedWasWritten ==
  \A p \in portal :
    /\ opt[p].push /\ written[p] = Len(Destinations(opt[p]))
    /\ exit[p] = 3 => opt[p].failOn \notin DOMAIN SeverityRank \cup {""}

(* The directories of unpacked rules outlive a run only if it was killed   *)
(* or waits for OpenGrep.                                                  *)
TempsRemoved ==
  \A p \in Proc : temp[p] # {} => Live(p) \/ pc[p] = "killed"

=============================================================================
