------------------------------ MODULE ScanTree ------------------------------
(***************************************************************************)
(* What a directory scan works on: the tree the walk meets, the registered *)
(* scanners, the options of one scan, and the report it ends with          *)
(* (cli/internal/scanner: walker.go, registry.go, ignore/ignore.go).       *)
(*                                                                         *)
(* Tree lists the calls filepath.WalkDir would make if nothing were        *)
(* pruned, in its order.  Entry 1 is the scan root; the entries below a    *)
(* directory i are i+1 .. Tree[i].last.  A directory that cannot be read   *)
(* is followed by an entry of kind "error": the second call WalkDir makes. *)
(***************************************************************************)
EXTENDS Integers, Sequences, FiniteSets, SequencesExt, TLC

CONSTANTS
  Tree,        \* the sequence of entries
  Options,     \* the ScanOptions and pass selections a scan may be given
  Scanner,     \* names of scanners
  NoScanner,   \* registry.ForExtension's nil
  Universals,  \* registry.Universals(), in registration order
  PassOf,      \* PassAware.Pass(), 0 for a scanner that is not PassAware
  Emits,       \* what ScanFile of each scanner answers for each entry
  FastMax      \* maxFastFileSize

Entries == 1 .. Len(Tree)

(* rank is the entry's position in the string order of paths, which is     *)
(* not the walk order; lstat is the size d.Info() reports (of the link     *)
(* itself when the entry is a symbolic link, 0 when Info fails), size what *)
(* os.ReadFile would bring into memory.                                    *)
Entry ==
  [kind : {"dir", "file", "error"}, last : Nat, rank : Nat,
   name : {"plain", "vendor", "build", "asset"},
   git : {"none", "ignore"}, cradar : {"none", "ignore", "keep"},
   ext : {"plain", "json", "output"}, lstat : Nat, size : Nat,
   read : {"ok", "fails", "blocks"}, scannerOutput : BOOLEAN,
   scanner : Scanner \cup {NoScanner}]

Option ==
  [fast : BOOLEAN, stagedOnly : BOOLEAN, fileList : SUBSET Nat, maxFileSize : Nat,
   passes : SUBSET Nat, defaults : BOOLEAN, gitignore : BOOLEAN]

Outcome == [ok : BOOLEAN, lines : Seq(Nat)]

ASSUME TreeAssumption ==
  /\ Tree \in Seq(Entry) /\ Len(Tree) > 0
  /\ \A i \in Entries : Tree[i].last \in i .. Len(Tree)
  /\ \A i \in Entries : \A j \in i .. Tree[i].last : Tree[j].last <= Tree[i].last
ASSUME OptionsAssumption == Options \subseteq Option
ASSUME ScannersAssumption ==
  /\ NoScanner \notin Scanner
  /\ Universals \in Seq(Scanner)
  /\ PassOf \in [Scanner -> Nat]
  /\ Emits \in [Scanner -> [Entries -> Outcome]]
ASSUME FastMaxAssumption == FastMax \in Nat

-----------------------------------------------------------------------------
(* ignore.Matcher.  A layer that re-includes a path ("keep", a negated     *)
(* pattern) answers the same as one that does not mention it.              *)
SkipDir(i, o) ==
  \/ o.defaults /\ \/ Tree[i].name = "vendor"
                   \/ Tree[i].name = "build" /\ 3 \notin o.passes
  \/ o.gitignore /\ Tree[i].git = "ignore"
  \/ Tree[i].cradar = "ignore"

SkipFile(i, o) ==
  \/ o.defaults /\ Tree[i].name = "asset"
  \/ o.gitignore /\ Tree[i].git = "ignore"
  \/ Tree[i].cradar = "ignore"

(* The scanners of a job, by position: 0 is the scanner of the extension,  *)
(* k the k-th universal.                                                   *)
Position == 0 .. Len(Universals)

ScannerAt(i, k) == IF k = 0 THEN Tree[i].scanner ELSE Universals[k]

(* filterUniversalsForPasses *)
UniversalsFor(passes) ==
  {k \in Position \ {0} : PassOf[Universals[k]] \in passes \cup {0}}

ScannersFor(i, passes) ==
  (IF Tree[i].scanner = NoScanner THEN {} ELSE {0}) \cup UniversalsFor(passes)

-----------------------------------------------------------------------------
(* scanJobResult: the outcome of every scanner run on the file, in order,  *)
(* or the reason why none ran.  Its findings, its errors and its scanned   *)
(* flag are read off the runs.                                             *)
Run == [at : Position, by : Scanner, outcome : Outcome]
RunOf(i, k) ==
  [at |-> k, by |-> ScannerAt(i, k), outcome |-> Emits[ScannerAt(i, k)][i]]
JobResult == [entry : Entries, status : {"unreadable", "output", "run"}, runs : Seq(Run)]

FindingsOf(r) ==
  LET Located(run) == [k \in 1 .. Len(run.outcome.lines) |->
        [file |-> r.entry, line |-> run.outcome.lines[k], by |-> run.by]]
  IN  FlattenSeq([k \in 1 .. Len(r.runs) |->
        IF r.runs[k].outcome.ok THEN Located(r.runs[k]) ELSE <<>>])

ErrorsOf(r) ==
  LET Failed(run) == ~ run.outcome.ok
      bad == SelectSeq(r.runs, Failed)
  IN  IF r.status = "unreadable"
      THEN <<[what |-> "read", on |-> r.entry]>>
      ELSE [k \in 1 .. Len(bad) |-> [what |-> bad[k].by, on |-> r.entry]]

(* A file whose language scanner fails still counts as scanned; one whose  *)
(* universals all fail does not.                                           *)
Scanned(r) ==
  \E k \in 1 .. Len(r.runs) : r.runs[k].outcome.ok \/ r.runs[k].at = 0

LocationLess(f, g) ==
  \/ Tree[f.file].rank < Tree[g.file].rank
  \/ f.file = g.file /\ f.line < g.line

(* Phase 3 of ScanDirWithOptions: walk errors, the skipped-for-size line,  *)
(* then every result in job order; findings sorted by location, FIND-n     *)
(* being the position in that sequence.  sort.Slice is a deterministic     *)
(* function of the sequence it sorts; SortSeq stands for it.               *)
ReportOf(walkErrors, tooLarge, results) ==
  LET Each(Op(_)) == FlattenSeq([k \in 1 .. Len(results) |-> Op(results[k])])
      scanned == SelectSeq(results, Scanned)
  IN  [errors   |-> [k \in 1 .. Len(walkErrors) |-> [what |-> "walk", on |-> walkErrors[k]]]
                    \o (IF tooLarge > 0 THEN <<[what |-> "too large", on |-> tooLarge]>> ELSE <<>>)
                    \o Each(ErrorsOf),
       findings |-> SortSeq(Each(FindingsOf), LocationLess),
       progress |-> [k \in 1 .. Len(scanned) |-> scanned[k].entry]]

-----------------------------------------------------------------------------
(* The reference: which files a scan reads, as a property of each entry    *)
(* instead of a walk, and the report a single goroutine would produce.     *)

(* No directory strictly between the root and entry i is pruned. *)
Reachable(i, o) ==
  \A d \in 2 .. (i - 1) :
    Tree[d].kind = "dir" /\ i <= Tree[d].last => ~ SkipDir(d, o)

(* The file would be scanned, were it not for its size. *)
Wanted(i, o) ==
  /\ Tree[i].kind = "file"
  /\ Reachable(i, o) /\ ~ SkipFile(i, o)
  /\ o.stagedOnly /\ o.fileList # {} => i \in o.fileList
  /\ Tree[i].ext # "output"
  /\ Tree[i].scanner # NoScanner \/ Universals # <<>>
  /\ o.fast => Tree[i].lstat <= FastMax

TooLarge(i, o) == o.maxFileSize > 0 /\ Tree[i].lstat > o.maxFileSize

Chosen(o) == {i \in Entries : Wanted(i, o) /\ ~ TooLarge(i, o)}

Unreadable(o) == {i \in Entries : Tree[i].kind = "error" /\ Reachable(i, o)}

Oversized(o) == {i \in Entries : Wanted(i, o) /\ TooLarge(i, o)}

(* The members of a set of numbers below n, in ascending order: entries in *)
(* the order of the walk, scanners in the order they run.                  *)
InOrder(S, n) ==
  LET below[k \in 0 .. n] ==
        IF k = 0 THEN <<>>
        ELSE IF k - 1 \in S THEN Append(below[k - 1], k - 1) ELSE below[k - 1]
  IN  below[n]

InWalkOrder(S) == InOrder(S, Len(Tree) + 1)

ResultOf(i, o) ==
  LET order  == InOrder(ScannersFor(i, o.passes), Len(Universals) + 1)
      status == IF Tree[i].read = "fails" THEN "unreadable"
                ELSE IF Tree[i].ext = "json" /\ Tree[i].scannerOutput THEN "output"
                ELSE "run"
  IN  [entry |-> i, status |-> status,
       runs |-> IF status # "run" THEN <<>>
                ELSE [k \in 1 .. Len(order) |-> RunOf(i, order[k])]]

SequentialReport == [o \in Options |->
  LET files == InWalkOrder(Chosen(o))
  IN  ReportOf(InWalkOrder(Unreadable(o)), Cardinality(Oversized(o)),
               [k \in 1 .. Len(files) |-> ResultOf(files[k], o)])]

(* The options under which the scan reads a file that never answers. *)
Hanging == {o \in Options : \E i \in Chosen(o) : Tree[i].read = "blocks"}
=============================================================================
