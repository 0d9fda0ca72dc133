---------------------------- MODULE ImageExtract ----------------------------
(***************************************************************************)
(* ExtractToDir (cli/internal/container/materialize.go): the layers of an  *)
(* image are applied one after the other onto a directory, under a byte    *)
(* budget, while layerOf records which layer wrote each path.              *)
(*                                                                         *)
(* The image is not fixed beforehand: each step reads any tar entry that   *)
(* the next position of the current layer may hold, and image remembers    *)
(* what was read.                                                          *)
(***************************************************************************)
EXTENDS Integers, Sequences, FiniteSets, Functions

CONSTANTS
  Path,          \* cleaned relative paths an entry may name
  Above,         \* the proper ancestors of each path
  NumLayers,
  Size,          \* values of hdr.Size
  FileCap,       \* containerMaxFileBytes
  MaxTotal,      \* maxTotalBytes
  Entries,       \* the tar entries a layer may hold
  MaxEntries,    \* bound: entries read per layer
  None           \* no file at a path, no layer recorded for a path

Layer == 1 .. NumLayers
File == [by : Layer, bytes : Nat]
Entry == [type : {"file", "whiteout", "opaque", "other", "unsafe"}, path : Path, size : Size]

ASSUME PathsAssumption ==
  /\ IsFiniteSet(Path)   \* the entries of an image name finitely many paths
  /\ Above \in [Path -> SUBSET Path]
  /\ \A p \in Path : p \notin Above[p]
  /\ \A p \in Path : \A q \in Above[p] : Above[q] \subseteq Above[p]
ASSUME BudgetAssumption ==
  /\ NumLayers \in Nat /\ MaxEntries \in Nat /\ Size \subseteq Nat
  /\ FileCap \in Nat /\ MaxTotal \in Nat \ {0}
ASSUME EntriesAssumption == Entries \subseteq Entry
ASSUME NoneAssumption == None \notin Layer /\ None \notin File

VARIABLES
  pc,         \* "layer": the outer loop, "entries": the inner loop, "done"
  layer,      \* the layer being applied, counted from 1
  files,      \* regular files in the directory: who wrote them and their size
  dirs,       \* directories in it
  layerOf,    \* layerOf, None where the map has no key
  total,      \* total
  errs,       \* extractErrs, each as [what, layer]
  image       \* history: the entries read, in order

vars == <<pc, layer, files, dirs, layerOf, total, errs, image>>

Init ==
  /\ pc = IF NumLayers = 0 THEN "done" ELSE "layer"
  /\ layer = 1
  /\ files = [p \in Path |-> None]
  /\ dirs = {}
  /\ layerOf = [p \in Path |-> None]
  /\ total = 0
  /\ errs = {}
  /\ image = <<>>

Report(what) == errs' = errs \cup {[what |-> what, layer |-> layer]}

-----------------------------------------------------------------------------
(* The loop over the layers *)

NextLayer == layer' = layer + 1 /\ pc' = IF layer = NumLayers THEN "done" ELSE "layer"

OpenLayer ==
  /\ pc = "layer"
  /\ pc' = "entries"
  /\ UNCHANGED <<layer, files, dirs, layerOf, total, errs, image>>

UncompressFails ==
  /\ pc = "layer"
  /\ Report("uncompress")
  /\ NextLayer
  /\ UNCHANGED <<files, dirs, layerOf, total, image>>

EndOfLayer ==
  /\ pc = "entries"
  /\ NextLayer
  /\ UNCHANGED <<files, dirs, layerOf, total, errs, image>>

TarFails ==
  /\ pc = "entries"
  /\ Report("tar")
  /\ NextLayer
  /\ UNCHANGED <<files, dirs, layerOf, total, image>>

-----------------------------------------------------------------------------
(* One tar entry *)

ReadThisLayer == Cardinality({k \in 1 .. Len(image) : image[k].layer = layer})

(* tr.Next returns e. *)
Reads(e) ==
  /\ pc = "entries" /\ ReadThisLayer < MaxEntries
  /\ image' = Append(image, [entry |-> e, layer |-> layer])

(* sanitizeEntryPath refuses the name. *)
Unsafe(e) ==
  /\ Reads(e) /\ e.type = "unsafe"
  /\ Report("unsafe")
  /\ UNCHANGED <<pc, layer, files, dirs, layerOf, total>>

(* An opaque marker, a non-regular entry, or a file above the cap.  *)
Ignored(e) == e.type \in {"opaque", "other"} \/ (e.type = "file" /\ e.size > FileCap)

Ignore(e) ==
  /\ Reads(e) /\ Ignored(e)
  /\ UNCHANGED <<pc, layer, files, dirs, layerOf, total, errs>>

Subtree(p) == {q \in Path : q = p \/ p \in Above[q]}

\* Mutant: the key is blanked instead of deleted.
WhiteoutBlanks(e) ==
  /\ Reads(e) /\ e.type = "whiteout"
  /\ files' = [q \in Path |-> IF q \in Subtree(e.path) THEN None ELSE files[q]]
  /\ dirs' = dirs \ Subtree(e.path)
  /\ layerOf' = [layerOf EXCEPT ![e.path] = 0]
  /\ UNCHANGED <<pc, layer, total, errs>>

\* Mutant: os.Remove, which does not delete a directory that holds files.
WhiteoutKeepsTrees(e) ==
  /\ Reads(e) /\ e.type = "whiteout"
  /\ files' = [files EXCEPT ![e.path] = None]
  /\ layerOf' = [layerOf EXCEPT ![e.path] = None]
  /\ UNCHANGED <<pc, layer, dirs, total, errs>>

(* os.RemoveAll(victim), then delete(layerOf, victim): one key. *)
Whiteout(e) ==
  /\ Reads(e) /\ e.type = "whiteout"
  /\ files' = [q \in Path |-> IF q \in Subtree(e.path) THEN None ELSE files[q]]
  /\ dirs' = dirs \ Subtree(e.path)
  /\ layerOf' = [layerOf EXCEPT ![e.path] = None]
  /\ UNCHANGED <<pc, layer, total, errs>>

Extractable(e) == e.type = "file" /\ e.size <= FileCap

\* Mutant: the budget is checked without the entry about to be written.
OverBudgetLate(e) == total > MaxTotal

OverBudget(e) == total + e.size > MaxTotal

BudgetHit(e) ==
  /\ Reads(e) /\ Extractable(e) /\ OverBudget(e)
  /\ Report("budget")
  /\ pc' = "done"
  /\ UNCHANGED <<layer, files, dirs, layerOf, total>>

Affordable(e) == Extractable(e) /\ ~ OverBudget(e)

(* os.MkdirAll fails on an ancestor that is a file, os.OpenFile on a       *)
(* target that is a directory.                                             *)
Blocked(p) == p \in dirs \/ \E q \in Above[p] : files[q] # None

WriteBlocked(e) ==
  /\ Reads(e) /\ Affordable(e) /\ Blocked(e.path)
  /\ Report("write")
  /\ UNCHANGED <<pc, layer, files, dirs, layerOf, total>>

(* The truncated target is removed. *)
CopyFails(e) ==
  /\ Reads(e) /\ Affordable(e) /\ ~ Blocked(e.path)
  /\ dirs' = dirs \cup Above[e.path]
  /\ files' = [files EXCEPT ![e.path] = None]
  /\ Report("write")
  /\ UNCHANGED <<pc, layer, layerOf, total>>

(* The target stays, neither counted nor recorded. *)
CloseFails(e) ==
  /\ Reads(e) /\ Affordable(e) /\ ~ Blocked(e.path)
  /\ dirs' = dirs \cup Above[e.path]
  /\ files' = [files EXCEPT ![e.path] = [by |-> layer, bytes |-> e.size]]
  /\ Report("write")
  /\ UNCHANGED <<pc, layer, layerOf, total>>

\* Mutant: the first writer of a path keeps it.
WriteFirstWins(e) ==
  /\ Reads(e) /\ Affordable(e) /\ ~ Blocked(e.path)
  /\ dirs' = dirs \cup Above[e.path]
  /\ files' = [files EXCEPT ![e.path] = [by |-> layer, bytes |-> e.size]]
  /\ total' = total + e.size
  /\ layerOf' = [layerOf EXCEPT ![e.path] = IF @ = None THEN layer ELSE @]
  /\ UNCHANGED <<pc, layer, errs>>

Write(e) ==
  /\ Reads(e) /\ Affordable(e) /\ ~ Blocked(e.path)
  /\ dirs' = dirs \cup Above[e.path]
  /\ files' = [files EXCEPT ![e.path] = [by |-> layer, bytes |-> e.size]]
  /\ total' = total + e.size
  /\ layerOf' = [layerOf EXCEPT ![e.path] = layer]
  /\ UNCHANGED <<pc, layer, errs>>

-----------------------------------------------------------------------------
ApplyEntry(e) ==
  Unsafe(e) \/ Ignore(e) \/ Whiteout(e) \/ BudgetHit(e) \/ WriteBlocked(e)
    \/ CopyFails(e) \/ CloseFails(e) \/ Write(e)

Next ==
  \/ OpenLayer \/ UncompressFails \/ EndOfLayer \/ TarFails
  \/ \E e \in Entries : ApplyEntry(e)

Spec == Init /\ [][Next]_vars

-----------------------------------------------------------------------------
TypeOK ==
  /\ pc \in {"layer", "entries", "done"}
  /\ layer \in 1 .. (NumLayers + 1) /\ (pc # "done" => layer \in Layer)
  /\ files \in [Path -> File \cup {None}]
  /\ dirs \subseteq Path
  /\ layerOf \in [Path -> Layer \cup {None}]
  /\ total \in Nat
  /\ errs \subseteq [what : {"uncompress", "tar", "unsafe", "budget", "write"}, layer : Layer]
  /\ image \in Seq([entry : Entry, layer : Layer])

(* The directory is a tree: no path is both, and above a file there are    *)
(* only directories, whatever order the layers write and delete in.        *)
TreeShape ==
  \A p \in Path :
    /\ p \in dirs => files[p] = None
    /\ files[p] # None \/ p \in dirs => Above[p] \subseteq dirs

WriteError(l) == [what |-> "write", layer |-> l] \in errs

(* Provenance: the layer recorded for a file is the one that wrote the     *)
(* bytes the scanners will see, or that layer reported a write error (a    *)
(* close that fails leaves the bytes on disk and records nothing).         *)
FilesAttributed ==
  \A p \in Path :
    files[p] # None /\ layerOf[p] # files[p].by => WriteError(files[p].by)

Bytes == [p \in Path |-> IF files[p] = None THEN 0 ELSE files[p].bytes]

OnDisk == FoldFunction(+, 0, Bytes)

(* The counter stays within the budget, and bounds what is on the disk as  *)
(* long as no write failed: overwritten and deleted files are never given  *)
(* back to it.                                                             *)
DiskWithinBudget ==
  /\ total <= MaxTotal
  /\ (\A l \in Layer : ~ WriteError(l)) => OnDisk <= total

-----------------------------------------------------------------------------
(* The union of the layers, read off the entries: the last file entry of a *)
(* path, unless a later layer deletes the path or a directory above it.    *)
Deletes(k, p) ==
  image[k].entry.type = "whiteout" /\ p \in Subtree(image[k].entry.path)

WrittenBy(k, p) == image[k].entry.type = "file" /\ image[k].entry.path = p

Survives(k, p) ==
  /\ WrittenBy(k, p)
  /\ \A l \in (k + 1) .. Len(image) :
       ~ WrittenBy(l, p) /\ (Deletes(l, p) => image[l].layer = image[k].layer)

Union == [p \in Path |->
  IF \E k \in 1 .. Len(image) : Survives(k, p)
  THEN LET k == CHOOSE k \in 1 .. Len(image) : Survives(k, p)
       IN  [by |-> image[k].layer, bytes |-> image[k].entry.size]
  ELSE None]

(* Regular images: nothing failed, every file was small enough and no      *)
(* layer deletes what it wrote itself.                                     *)
Regular ==
  /\ errs = {}
  /\ \A k \in 1 .. Len(image) : ~ Ignored(image[k].entry)
  /\ \A k, l \in 1 .. Len(image) :
       k < l /\ image[k].layer = image[l].layer
         => \A p \in Path : ~ (WrittenBy(k, p) /\ Deletes(l, p))

(* For a regular image the directory is the union of its layers. *)
ExtractsUnion == pc = "done" /\ Regular => files = Union

=============================================================================
