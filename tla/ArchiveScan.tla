---------------------------- MODULE ArchiveScan ----------------------------
(***************************************************************************)
(* ScanFile and scanArchive (cli/internal/scanner/binary/jar.go): the      *)
(* entries of an archive are read one after the other and nested archives  *)
(* are scanned in place, all within one shared budget of bytes and         *)
(* entries and a cap on the nesting.  The recursion is a stack of the      *)
(* archives being read and the entry each of them is at.                   *)
(***************************************************************************)
EXTENDS Integers, Sequences, FiniteSets, FiniteSetsExt

CONSTANTS
  Archive,        \* archives; one of them may hold itself, at any depth
  Corrupt,        \* those zip.NewReader refuses
  Contents,       \* what the archives may hold
  Depths,         \* what NewJARScannerWithDepth is called with
  DefaultDepth,   \* maxArchiveDepth
  MaxBytes,       \* maxArchiveTotalBytes
  MaxEntries,     \* maxArchiveEntries
  MaxEntryBytes   \* maxArchiveEntryBytes

Entry == [kind : {"dir", "file", "archive"}, size : Nat, readable : BOOLEAN, inner : Archive]

ASSUME ArchiveAssumption ==
  Corrupt \subseteq Archive /\ Contents \subseteq [Archive -> Seq(Entry)]
ASSUME LimitsAssumption ==
  /\ Depths \subseteq Int /\ DefaultDepth \in Nat
  /\ MaxBytes \in Nat /\ MaxEntries \in Nat /\ MaxEntryBytes \in Nat

VARIABLES
  maxDepth,     \* the cap of this scanner
  content,      \* the entries of every archive
  top,          \* the archive given to ScanFile
  stack,        \* calls of scanArchive: [archive, pos]
  bytesLeft, entriesLeft, truncated,   \* archiveBudget
  outcome,      \* "called", "scanning", "failed" or "done"
  read          \* history: paths of the entries read whole and charged

budget == <<bytesLeft, entriesLeft, truncated>>
input == <<maxDepth, content, top>>
vars == <<input, stack, budget, outcome, read>>

(* NewJARScannerWithDepth *)
CapFor(depth) == IF depth < 0 THEN DefaultDepth ELSE depth

Init ==
  /\ \E depth \in Depths : maxDepth = CapFor(depth)
  /\ content \in Contents /\ top \in Archive
  /\ stack = <<>>
  /\ bytesLeft = MaxBytes /\ entriesLeft = MaxEntries /\ truncated = FALSE
  /\ outcome = "called"
  /\ read = {}

-----------------------------------------------------------------------------
Frame == stack[Len(stack)]
Here == content[Frame.archive][Frame.pos]
Path == [k \in 1 .. Len(stack) |-> stack[k].pos]

Scanning == outcome = "scanning" /\ stack # <<>>
More == Frame.pos <= Len(content[Frame.archive])

Advanced(s) == [s EXCEPT ![Len(s)].pos = @ + 1]

(* An archive is left: its caller goes on with its own next entry. *)
Return ==
  /\ stack' = IF Len(stack) = 1 THEN <<>> ELSE Advanced(SubSeq(stack, 1, Len(stack) - 1))
  /\ outcome' = IF Len(stack) = 1 THEN "done" ELSE outcome

OpenTop ==
  /\ outcome = "called"
  /\ IF top \in Corrupt
     THEN outcome' = "failed" /\ stack' = stack
     ELSE outcome' = "scanning" /\ stack' = <<[archive |-> top, pos |-> 1]>>
  /\ UNCHANGED <<input, budget, read>>

EndOfArchive ==
  /\ Scanning /\ ~ More
  /\ Return
  /\ UNCHANGED <<input, budget, read>>

SkipDirectory ==
  /\ Scanning /\ More /\ Here.kind = "dir"
  /\ stack' = Advanced(stack)
  /\ UNCHANGED <<input, budget, outcome, read>>

AtEntry == Scanning /\ More /\ Here.kind # "dir"
Exhausted == entriesLeft <= 0 \/ bytesLeft <= 0

(* The rest of this archive is given up; the callers find out themselves.  *)
StopAtLimit ==
  /\ AtEntry /\ Exhausted
  /\ truncated' = TRUE
  /\ Return
  /\ UNCHANGED <<input, bytesLeft, entriesLeft, read>>

-----------------------------------------------------------------------------
(* One entry within the budget *)

\* Mutant: what is left of the budget does not limit the read.
EntryCapOnly == MaxEntryBytes

Limit == IF bytesLeft < MaxEntryBytes THEN bytesLeft ELSE MaxEntryBytes

Try == AtEntry /\ ~ Exhausted /\ entriesLeft' = entriesLeft - 1

(* Open or Read fail; the entry is passed over. *)
Unreadable ==
  /\ Try /\ ~ Here.readable
  /\ stack' = Advanced(stack)
  /\ UNCHANGED <<input, bytesLeft, truncated, outcome, read>>

\* Mutant: an entry that is too large is passed over like an unreadable one.
TooLargeSilently ==
  /\ Try /\ Here.readable /\ Here.size > Limit
  /\ stack' = Advanced(stack)
  /\ UNCHANGED <<input, bytesLeft, truncated, outcome, read>>

(* Limit + 1 bytes are decompressed to find out, none are charged. *)
TooLarge ==
  /\ Try /\ Here.readable /\ Here.size > Limit
  /\ truncated' = TRUE
  /\ stack' = Advanced(stack)
  /\ UNCHANGED <<input, bytesLeft, outcome, read>>

ReadWhole ==
  /\ Try /\ Here.readable /\ Here.size <= Limit
  /\ bytesLeft' = bytesLeft - Here.size
  /\ read' = read \cup {Path}
  /\ UNCHANGED <<input, outcome>>

(* An entry routed to one of the scanners, or to none. *)
ScanEntry ==
  /\ ReadWhole /\ Here.kind = "file"
  /\ stack' = Advanced(stack)
  /\ UNCHANGED truncated

\* Mutant: one level too many.
TooDeepLate == Len(stack) > maxDepth + 1

(* depth + 1 > s.maxDepth, where the top-level archive is at depth 0. *)
TooDeep == Len(stack) > maxDepth

CutAtDepth ==
  /\ ReadWhole /\ Here.kind = "archive" /\ TooDeep
  /\ truncated' = TRUE
  /\ stack' = Advanced(stack)

SkipCorrupt ==
  /\ ReadWhole /\ Here.kind = "archive" /\ ~ TooDeep /\ Here.inner \in Corrupt
  /\ stack' = Advanced(stack)
  /\ UNCHANGED truncated

\* Mutant: the caller has moved on before the nested archive is scanned.
DescendAhead ==
  /\ ReadWhole /\ Here.kind = "archive" /\ ~ TooDeep /\ Here.inner \notin Corrupt
  /\ stack' = Append(Advanced(stack), [archive |-> Here.inner, pos |-> 1])
  /\ UNCHANGED truncated

Descend ==
  /\ ReadWhole /\ Here.kind = "archive" /\ ~ TooDeep /\ Here.inner \notin Corrupt
  /\ stack' = Append(stack, [archive |-> Here.inner, pos |-> 1])
  /\ UNCHANGED truncated

-----------------------------------------------------------------------------
Next ==
  \/ OpenTop \/ EndOfArchive \/ SkipDirectory \/ StopAtLimit
  \/ Unreadable \/ TooLarge \/ ScanEntry \/ CutAtDepth \/ SkipCorrupt \/ Descend

Spec == Init /\ [][Next]_vars

-----------------------------------------------------------------------------
(* Neither part of the budget goes below zero, and the recursion stays     *)
(* within the depth cap, an archive that holds itself included.            *)
TypeOK ==
  /\ maxDepth \in Nat
  /\ content \in [Archive -> Seq(Entry)] /\ top \in Archive
  /\ stack \in Seq([archive : Archive, pos : Nat \ {0}])
  /\ Len(stack) <= maxDepth + 1
  /\ bytesLeft \in 0 .. MaxBytes /\ entriesLeft \in 0 .. MaxEntries
  /\ truncated \in BOOLEAN
  /\ outcome \in {"called", "scanning", "failed", "done"}
  /\ read \subseteq Seq(Nat \ {0})

(* Where a path of positions leads, without limits. *)
ArchiveAt(p) ==
  LET at[k \in 1 .. Len(p)] == IF k = 1 THEN top ELSE content[at[k - 1]][p[k - 1]].inner
  IN  at
EntryAt(p) == content[ArchiveAt(p)[Len(p)]][p[Len(p)]]

Opens(e) == e.kind = "archive" /\ e.readable /\ e.inner \notin Corrupt

(* Paths to the entries of the archives the scan opens, one level further  *)
(* than it goes.                                                           *)
PathsOfLength ==
  LET paths[n \in 1 .. maxDepth + 2] ==
        IF n = 1 THEN {<<i>> : i \in 1 .. Len(content[top])}
        ELSE UNION {{Append(p, i) : i \in 1 .. Len(content[EntryAt(p).inner])} :
                      p \in {q \in paths[n - 1] : Opens(EntryAt(q))}}
  IN  paths

Paths == UNION {PathsOfLength[n] : n \in 1 .. maxDepth + 2}

(* A nested archive beyond the depth cap is read but not looked into.      *)
Inspected(p) == p \in read /\ (EntryAt(p).kind = "archive" => Len(p) <= maxDepth)

(* A scan that does not say that it is partial has inspected every         *)
(* readable entry at every depth, and one that says so left something out. *)
CoverageFlagged ==
  outcome = "done" =>
    IF truncated THEN \E p \in Paths : EntryAt(p).kind # "dir" /\ ~ Inspected(p)
                 ELSE \A p \in Paths : EntryAt(p).kind # "dir" /\ EntryAt(p).readable => Inspected(p)

=============================================================================
