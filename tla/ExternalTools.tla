--------------------------- MODULE ExternalTools ---------------------------
(***************************************************************************)
(* "cradar install-tools" (tools/installer.go) and pass 3 of scans that    *)
(* run the yr it installs (scanner/yarax).  OpenGrep is moved into place,  *)
(* yr is unpacked into place; scans look for yr in several places, more    *)
(* than once, and run it once for each file with several workers.          *)
(***************************************************************************)
EXTENDS Integers, FiniteSets, Sequences, SequencesExt

CONSTANTS
  Installer, Scan, File,
  Forced,      \* installers with --force
  Places,     \* where a scan looks for yr, in this order
  ToolsDir,   \* the one the installers write to
  Workers,
  First,      \* what yr may be at first in each place
  Absent, Torn, None

Whole == [data |-> "whole", exec |-> TRUE]

ASSUME ConstantsAssumption ==
  /\ Forced \subseteq Installer
  /\ Places \in Seq(ToSet(Places)) /\ Len(Places) <= 4     \* cradar's directory, two for tools, the PATH
  /\ ToolsDir \in ToSet(Places) /\ Workers \in Nat \ {0}
  /\ First \subseteq {Absent, Whole}
  /\ Absent \notin [data : {"part", "bad", "whole"}, exec : BOOLEAN] /\ None \notin ToSet(Places)
  /\ None \notin {"skipped", "error", "scanned", "complete"} /\ None \notin {0, 1, 4}
  /\ None \notin {"usable", "empty", "failed"}
  /\ Absent \notin {"part", "bad", "whole"} /\ Torn \notin {"part", "bad", "whole", Absent}

(* How a scan is called: whether it asks for pass 3, and the directories    *)
(* of rules that --yara-rules-dir and CRADAR_YARA_RULES_DIR name; empty is  *)
(* one without rules in it, or that is not there.                          *)
Call == [asked : BOOLEAN, flag : {None, "usable", "empty"}, env : {None, "usable", "empty"}]

Data == {"whole", "part", "bad"}   \* bad: not what the release's digest says

VARIABLES
  opengrep,   \* in ToolsDir: Absent or its data; it is executable from the start
  yr,         \* in each place: Absent or [data, exec]
  ipc, tool, down, fd, clobbered, failed, icode,
  call, spc, runner,
  rules,      \* the directory the scanner keeps; "failed": no path
  unpacked,   \* the memo of the embedded rules
  todo, running, staged, answer, told, scode

installer == <<ipc, tool, down, fd, clobbered, failed, icode>>
scan == <<call, spc, runner, rules, unpacked, todo, running, staged, answer, told, scode>>
vars == <<opengrep, yr, installer, scan>>

Executable(f) == f # Absent /\ f.exec

(* The first place with an executable file: what it holds is not looked at. *)
Lookup ==
  LET here == {i \in DOMAIN Places : Executable(yr[Places[i]])}
  IN IF here = {} THEN None ELSE Places[CHOOSE i \in here : \A j \in here : i <= j]

Init ==
  /\ opengrep \in {Absent, "whole"}
  /\ yr \in [ToSet(Places) -> First]
  /\ ipc = [i \in Installer |-> "choose"] /\ tool = [i \in Installer |-> "opengrep"]
  /\ down = [i \in Installer |-> Absent]
  /\ fd = [i \in Installer |-> FALSE] /\ clobbered = [i \in Installer |-> FALSE]
  /\ failed = [i \in Installer |-> FALSE] /\ icode = [i \in Installer |-> None]
  /\ call \in [Scan -> Call]
  /\ spc = [s \in Scan |-> "check"] /\ runner = [s \in Scan |-> None]
  /\ rules = [s \in Scan |-> None] /\ unpacked = [s \in Scan |-> None] /\ todo = [s \in Scan |-> File]
  /\ running = [s \in Scan |-> {}] /\ staged = [s \in Scan |-> {}]
  /\ answer = [s \in Scan |-> [f \in File |-> None]]
  /\ told = [s \in Scan |-> None] /\ scode = [s \in Scan |-> None]

-----------------------------------------------------------------------------
(* Installed means that there is a file, executable or not. *)
IsInstalled(t) == IF t = "opengrep" THEN opengrep # Absent ELSE yr[ToolsDir] # Absent

At(i, step) == ipc' = [ipc EXCEPT ![i] = step]

(* OpenGrep first, then yr, each on its own; an error of either shows in   *)
(* the exit code.  A return removes the download.                          *)
NextToolForgetting(i, error) ==     \* mutant: the exit code is that of the last tool
  /\ failed' = [failed EXCEPT ![i] = error] /\ down' = [down EXCEPT ![i] = Absent]
  /\ IF tool[i] = "opengrep"
     THEN tool' = [tool EXCEPT ![i] = "yr"] /\ At(i, "choose") /\ UNCHANGED icode
     ELSE At(i, "done") /\ icode' = [icode EXCEPT ![i] = IF error THEN 1 ELSE 0] /\ UNCHANGED tool

NextTool(i, error) ==
  /\ failed' = [failed EXCEPT ![i] = @ \/ error]
  /\ down' = [down EXCEPT ![i] = Absent]
  /\ IF tool[i] = "opengrep"
     THEN tool' = [tool EXCEPT ![i] = "yr"] /\ At(i, "choose") /\ UNCHANGED icode
     ELSE At(i, "done") /\ icode' = [icode EXCEPT ![i] = IF failed'[i] THEN 1 ELSE 0] /\ UNCHANGED tool

ChooseTool(i) ==
  /\ ipc[i] = "choose"
  /\ IF i \notin Forced /\ IsInstalled(tool[i]) THEN NextTool(i, FALSE)
     ELSE At(i, "fetch") /\ UNCHANGED <<tool, down, failed, icode>>
  /\ UNCHANGED <<opengrep, yr, fd, clobbered, scan>>

(* Metadata and asset over HTTPS: an answer, good or not, or an error.  No *)
(* request has a time-out.                                                 *)
Download(i) ==
  /\ ipc[i] = "fetch"
  /\ \/ /\ \E d \in {"whole", "bad"} : down' = [down EXCEPT ![i] = d]
        /\ At(i, "verify") /\ UNCHANGED <<tool, failed, icode>>
     \/ NextTool(i, TRUE)
     \/ At(i, "hung") /\ UNCHANGED <<tool, down, failed, icode>>
  /\ UNCHANGED <<opengrep, yr, fd, clobbered, scan>>

VerifyNothing(i) ==     \* mutant: the digest is not compared
  /\ ipc[i] = "verify" /\ At(i, "place")
  /\ UNCHANGED <<opengrep, yr, tool, down, failed, icode, fd, clobbered, scan>>

Verify(i) ==
  /\ ipc[i] = "verify"
  /\ IF down[i] = "whole" THEN At(i, "place") /\ UNCHANGED <<tool, down, failed, icode>>
     ELSE NextTool(i, TRUE)
  /\ UNCHANGED <<opengrep, yr, fd, clobbered, scan>>

PlaceInPlace(i) ==      \* mutant: copied, not moved
  /\ ipc[i] = "place" /\ tool[i] = "opengrep"
  /\ \/ opengrep # "part" /\ opengrep' = "part" /\ UNCHANGED <<ipc, tool, down, failed, icode>>
     \/ opengrep = "part" /\ opengrep' = down[i] /\ NextTool(i, FALSE)
  /\ UNCHANGED <<yr, fd, clobbered, scan>>

(* chmod and rename of the download itself. *)
PlaceOpenGrep(i) ==
  /\ ipc[i] = "place" /\ tool[i] = "opengrep"
  /\ \/ opengrep' = down[i] /\ NextTool(i, FALSE)
     \/ UNCHANGED opengrep /\ NextTool(i, TRUE)
  /\ UNCHANGED <<yr, fd, clobbered, scan>>

Busy == \E s \in Scan : runner[s] = ToolsDir /\ running[s] # {}

(* os.Create empties the file that is there, which keeps its mode, also    *)
(* under another installer's feet.  A running program cannot be opened.    *)
CreateYrAnew(i) ==     \* mutant: the old file is removed first
  /\ ipc[i] = "place" /\ tool[i] = "yr"
  /\ yr' = [yr EXCEPT ![ToolsDir] = [data |-> "part", exec |-> FALSE]]
  /\ fd' = [fd EXCEPT ![i] = TRUE] /\ At(i, "copy")
  /\ UNCHANGED <<opengrep, tool, down, clobbered, failed, icode, scan>>

CreateYr(i) ==
  /\ ipc[i] = "place" /\ tool[i] = "yr"
  /\ \/ /\ ~Busy
        /\ yr' = [yr EXCEPT ![ToolsDir] = [data |-> "part", exec |-> Executable(@)]]
        /\ fd' = [fd EXCEPT ![i] = TRUE]
        /\ clobbered' = [j \in Installer |-> IF j = i THEN FALSE ELSE clobbered[j] \/ fd[j]]
        /\ At(i, "copy") /\ UNCHANGED <<tool, down, failed, icode>>
     \/ NextTool(i, TRUE) /\ UNCHANGED <<yr, fd, clobbered>>
  /\ UNCHANGED <<opengrep, scan>>

(* The bytes are the same for everyone: only what was emptied and not      *)
(* written again is missing.  A failed copy leaves what it has written.    *)
CopyYr(i) ==
  /\ ipc[i] = "copy"
  /\ fd' = [fd EXCEPT ![i] = FALSE]
  /\ \/ /\ yr' = [yr EXCEPT ![ToolsDir].data = IF clobbered[i] THEN @ ELSE down[i]]
        /\ At(i, "chmod") /\ UNCHANGED <<tool, down, failed, icode>>
     \/ NextTool(i, TRUE) /\ UNCHANGED yr
  /\ UNCHANGED <<opengrep, clobbered, scan>>

ChmodYr(i) ==
  /\ ipc[i] = "chmod"
  /\ \/ yr' = [yr EXCEPT ![ToolsDir].exec = TRUE] /\ NextTool(i, FALSE)
     \/ UNCHANGED yr /\ NextTool(i, TRUE)
  /\ UNCHANGED <<opengrep, fd, clobbered, scan>>

KillInstaller(i) ==
  /\ ipc[i] \notin {"done", "killed"}
  /\ At(i, "killed") /\ fd' = [fd EXCEPT ![i] = FALSE]
  /\ UNCHANGED <<opengrep, yr, tool, down, clobbered, failed, icode, scan>>

-----------------------------------------------------------------------------
(* With pass 3 asked for, by --deep or --passes, a missing yr ends the scan *)
(* and then a directory of the flag without rules; the environment's is not *)
(* looked at.  The directories do not change under a scan.                 *)
CheckYr(s) ==
  /\ spc[s] = "check"
  /\ IF call[s].asked /\ (Lookup = None \/ call[s].flag = "empty")
     THEN spc' = [spc EXCEPT ![s] = "done"] /\ scode' = [scode EXCEPT ![s] = 4]
     ELSE spc' = [spc EXCEPT ![s] = "new"] /\ UNCHANGED scode
  /\ UNCHANGED <<opengrep, yr, installer, call, runner, rules, unpacked, todo, running, staged, answer, told>>

(* The embedded rules are unpacked once; a failure is remembered. *)
Unpack(s) ==
  IF unpacked[s] # None THEN UNCHANGED unpacked
  ELSE \E u \in {"usable", "failed"} : unpacked' = [unpacked EXCEPT ![s] = u]

(* The scanner keeps the place it found, and the directory of the flag, of *)
(* the environment, or of the embedded rules.                              *)
Named(s) == IF call[s].flag # None THEN call[s].flag ELSE call[s].env
NewScanner(s) ==
  /\ spc[s] = "new"
  /\ runner' = [runner EXCEPT ![s] = Lookup]
  /\ IF Named(s) # None THEN rules' = [rules EXCEPT ![s] = Named(s)] /\ UNCHANGED unpacked
     ELSE Unpack(s) /\ rules' = [rules EXCEPT ![s] = unpacked'[s]]
  /\ spc' = [spc EXCEPT ![s] = "walk"]
  /\ UNCHANGED <<opengrep, yr, installer, call, todo, running, staged, answer, told, scode>>

Answer(s, f, a) == answer' = [answer EXCEPT ![s][f] = a]

(* The walker hands files to pass 3 of a scan that asked for it only.      *)
(* There a file is passed over without a word when yr or rules are not     *)
(* there; that the directory is empty is seen after the bytes are staged,  *)
(* which may fail.                                                         *)
SkipFile(s, f) ==
  /\ spc[s] = "walk" /\ f \in todo[s]
  /\ todo' = [todo EXCEPT ![s] = @ \ {f}]
  /\ \/ (call[s].asked => runner[s] = None \/ rules[s] # "usable") /\ Answer(s, f, "skipped")
     \/ call[s].asked /\ runner[s] # None /\ rules[s] = "empty" /\ Answer(s, f, "error")
  /\ UNCHANGED <<opengrep, yr, installer, call, spc, runner, rules, unpacked, running, staged, told, scode>>

(* The bytes go to a temporary file unless the path opens where cradar was *)
(* started; what does not hold the whole program or is open for writing    *)
(* does not run.                                                           *)
Runs(s) == yr[runner[s]].data = "whole" /\ ~(runner[s] = ToolsDir /\ \E i \in Installer : fd[i])
RunFile(s, f) ==
  /\ spc[s] = "walk" /\ f \in todo[s]
  /\ call[s].asked /\ runner[s] # None /\ rules[s] = "usable"
  /\ Cardinality(running[s]) < Workers
  /\ todo' = [todo EXCEPT ![s] = @ \ {f}]
  /\ IF Runs(s)
     THEN /\ running' = [running EXCEPT ![s] = @ \cup {f}]
          /\ \E files \in {{}, {f}} : staged' = [staged EXCEPT ![s] = @ \cup files]
          /\ UNCHANGED answer
     ELSE Answer(s, f, "error") /\ UNCHANGED <<running, staged>>
  /\ UNCHANGED <<opengrep, yr, installer, call, spc, runner, rules, unpacked, told, scode>>

(* yr answers, fails, or is stopped after 90 seconds. *)
EndFileTimedOut(s, f) ==    \* mutant: a time-out leaves the file without an answer
  /\ f \in running[s] /\ running' = [running EXCEPT ![s] = @ \ {f}]
  /\ staged' = [staged EXCEPT ![s] = @ \ {f}]
  /\ \E a \in {"scanned", "error", "timed out"} : Answer(s, f, a)
  /\ UNCHANGED <<opengrep, yr, installer, call, spc, runner, rules, unpacked, todo, told, scode>>
EndFileWaiting(s, f) ==     \* mutant: without a time limit
  /\ f \in running[s] /\ UNCHANGED vars

EndFile(s, f) ==
  /\ f \in running[s]
  /\ running' = [running EXCEPT ![s] = @ \ {f}]
  /\ staged' = [staged EXCEPT ![s] = @ \ {f}]
  /\ \E a \in {"scanned", "error"} : Answer(s, f, a)
  /\ UNCHANGED <<opengrep, yr, installer, call, spc, runner, rules, unpacked, todo, told, scode>>

AnnounceAnyway(s) ==     \* mutant: that there are no rules is not told
  /\ spc[s] = "walk" /\ todo[s] = {} /\ running[s] = {}
  /\ IF ~call[s].asked THEN UNCHANGED told
     ELSE told' = [told EXCEPT ![s] = IF Lookup = None THEN "skipped" ELSE "complete"]
  /\ spc' = [spc EXCEPT ![s] = "done"] /\ scode' = [scode EXCEPT ![s] = 0]
  /\ UNCHANGED <<opengrep, yr, installer, call, runner, rules, unpacked, todo, running, staged, answer>>

(* What who asked for pass 3 is told comes from a new look for yr and from *)
(* RulesDir(): the environment's path, whatever is there, or the embedded  *)
(* rules, which are unpacked now if they were not; never the flag.         *)
Announce(s) ==
  /\ spc[s] = "walk" /\ todo[s] = {} /\ running[s] = {}
  /\ IF ~call[s].asked THEN UNCHANGED <<told, unpacked>>
     ELSE IF Lookup = None THEN told' = [told EXCEPT ![s] = "skipped"] /\ UNCHANGED unpacked
     ELSE IF call[s].env # None THEN told' = [told EXCEPT ![s] = "complete"] /\ UNCHANGED unpacked
     ELSE Unpack(s) /\ told' = [told EXCEPT ![s] = IF unpacked'[s] = "failed" THEN "skipped" ELSE "complete"]
  /\ spc' = [spc EXCEPT ![s] = "done"] /\ scode' = [scode EXCEPT ![s] = 0]
  /\ UNCHANGED <<opengrep, yr, installer, call, runner, rules, todo, running, staged, answer>>

InstallStep(i) ==
  \/ ChooseTool(i) \/ Download(i) \/ Verify(i) \/ PlaceOpenGrep(i)
  \/ CreateYr(i) \/ CopyYr(i) \/ ChmodYr(i)
ScanStep(s) ==
  \/ CheckYr(s) \/ NewScanner(s) \/ Announce(s)
  \/ \E f \in File : SkipFile(s, f) \/ RunFile(s, f) \/ EndFile(s, f)

Next ==
  \/ \E i \in Installer : InstallStep(i) \/ KillInstaller(i)
  \/ \E s \in Scan : ScanStep(s)

(* A process that can go on does. *)
Spec == Init /\ [][Next]_vars /\ \A s \in Scan : WF_vars(ScanStep(s))

-----------------------------------------------------------------------------
Answers == {None, "skipped", "error", "scanned"}

(* Type invariant. *)
TypeOK ==
  /\ opengrep \in Data \cup {Absent}
  /\ yr \in [ToSet(Places) -> [data : Data, exec : BOOLEAN] \cup {Absent}]
  /\ ipc \in [Installer -> {"choose", "fetch", "hung", "verify", "place", "copy", "chmod", "done", "killed"}]
  /\ tool \in [Installer -> {"opengrep", "yr"}]
  /\ down \in [Installer -> {Absent, "whole", "bad"}]
  /\ fd \in [Installer -> BOOLEAN] /\ clobbered \in [Installer -> BOOLEAN]
  /\ failed \in [Installer -> BOOLEAN] /\ icode \in [Installer -> {None, 0, 1}]
  /\ spc \in [Scan -> {"check", "new", "walk", "done"}]
  /\ call \in [Scan -> Call]
  /\ runner \in [Scan -> ToSet(Places) \cup {None}]
  /\ rules \in [Scan -> {None, "usable", "empty", "failed"}]
  /\ unpacked \in [Scan -> {None, "usable", "failed"}]
  /\ todo \in [Scan -> SUBSET File] /\ running \in [Scan -> SUBSET File]
  /\ staged \in [Scan -> SUBSET File] /\ answer \in [Scan -> [File -> Answers]]
  /\ told \in [Scan -> {None, "skipped", "complete"}] /\ scode \in [Scan -> {None, 0, 4}]

(* Whatever installers do and wherever they die, OpenGrep is replaced only *)
(* by a download that has the digest of the release.                       *)
OpenGrepFile == INSTANCE AtomicFile WITH
  file <- IF opengrep \in {"part", "bad"} THEN Torn ELSE opengrep
OpenGrepReplaced == OpenGrepFile!Spec

(* Nothing that fails the digest is ever put where a scan could run it.    *)
OnlyVerified == opengrep # "bad" /\ \A p \in ToSet(Places) : yr[p] # Absent => yr[p].data # "bad"

(* The directory of the environment has no rules, which nobody looks at.   *)
Overlooked(s) == call[s].flag = None /\ call[s].env = "empty"

(* A scan that asked for pass 3 answers for every file, unless the embedded *)
(* rules could not be unpacked or the environment names a directory without *)
(* rules: an installer at work makes errors, never silence (the comment at *)
(* the explicit check: "should not silently downgrade").                   *)
NeverSilent ==
  \A s \in Scan : call[s].asked =>
    \A f \in File : answer[s][f] = "skipped" => rules[s] = "failed" \/ Overlooked(s)

(* Who asked for pass 3 hears that it was skipped only if no file was      *)
(* scanned, but with the flag, which the announcement does not know; and   *)
(* that it is complete only if no file was passed over, but with an empty  *)
(* directory in the environment.                                           *)
ToldTheTruth ==
  \A s \in Scan :
    /\ told[s] = "skipped" /\ call[s].flag = None => \A f \in File : answer[s][f] # "scanned"
    /\ told[s] = "complete" /\ ~Overlooked(s) => \A f \in File : answer[s][f] \in {"scanned", "error"}

(* An installer that reports success leaves OpenGrep and a yr that is at   *)
(* least there, and whole unless an installer that wrote it in place broke *)
(* off or is still at it.                                                  *)
BrokeOff == \E i \in Installer : fd[i] \/ ipc[i] = "killed" \/ failed[i]
SuccessMeansInstalled ==
  \A i \in Installer : icode[i] = 0 =>
    /\ opengrep = "whole"
    /\ yr[ToolsDir] # Absent
    /\ yr[ToolsDir].data = "part" => BrokeOff

(* Downloads and staged copies do not outlive what made them, except the   *)
(* download of an installer that was killed.                               *)
TempsRemoved ==
  /\ \A i \in Installer : ipc[i] = "done" => down[i] = Absent
  /\ \A s \in Scan : staged[s] \subseteq running[s]

(* Every scan ends, whatever yr does. *)
ScansEnd == \A s \in Scan : <>(spc[s] = "done")
=============================================================================
