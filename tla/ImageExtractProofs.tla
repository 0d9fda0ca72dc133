------------------------- MODULE ImageExtractProofs -------------------------
(***************************************************************************)
(* Proofs about ImageExtract, for every set of paths, image, cap and       *)
(* budget: the type invariant, the shape of the directory, the provenance  *)
(* map, the budget counter, and that a regular image is extracted to the   *)
(* union of its layers.                                                    *)
(***************************************************************************)
EXTENDS ImageExtract, TLAPS, SequenceTheorems, FiniteSetTheorems,
        WellFoundedInduction

Read == 1 .. Len(image)

(* The file of a path is the one entry of the image that survives, at      *)
(* every step of the extraction.                                           *)
Matches(p) ==
  \/ files[p] = None /\ \A k \in Read : ~ Survives(k, p)
  \/ \E k \in Read :
       Survives(k, p) /\ files[p] = [by |-> image[k].layer, bytes |-> image[k].entry.size]

IInv == TypeOK /\ TreeShape /\ FilesAttributed /\ DiskWithinBudget

-----------------------------------------------------------------------------
(* What the assumptions say of an entry. *)
LEMMA EntryType ==
  ASSUME NEW e \in Entries PROVE e \in Entry /\ e.path \in Path /\ e.size \in Nat
  BY EntriesAssumption, BudgetAssumption DEF Entry

(* What reading an entry does to the history. *)
LEMMA ReadsAppends ==
  ASSUME TypeOK, NEW e \in Entries, Reads(e)
  PROVE  /\ layer \in Layer
         /\ image' \in Seq([entry : Entry, layer : Layer])
         /\ Len(image) \in Nat /\ Len(image') = Len(image) + 1
         /\ \A k \in Read : image'[k] = image[k]
         /\ image'[Len(image) + 1] = [entry |-> e, layer |-> layer]
<1>1. layer \in Layer
  BY DEF TypeOK, Reads
<1>2. [entry |-> e, layer |-> layer] \in [entry : Entry, layer : Layer]
  BY <1>1, EntryType
<1>3. image \in Seq([entry : Entry, layer : Layer])
  BY DEF TypeOK
<1> QED BY <1>1, <1>2, <1>3, AppendProperties DEF Reads, Read

(* An error is recorded for the current layer. *)
LEMMA ReportRecords ==
  ASSUME TypeOK, layer \in Layer, NEW what \in {"uncompress", "tar", "unsafe", "budget", "write"},
         Report(what)
  PROVE  /\ errs' \subseteq [what : {"uncompress", "tar", "unsafe", "budget", "write"}, layer : Layer]
         /\ errs \subseteq errs'
         /\ [what |-> what, layer |-> layer] \in errs'
BY DEF TypeOK, Report

(* The next layer is a layer, or there is none. *)
LEMMA NextLayerType ==
  ASSUME TypeOK, layer \in Layer, NextLayer
  PROVE  /\ pc' \in {"layer", "entries", "done"}
         /\ layer' \in 1 .. (NumLayers + 1) /\ (pc' # "done" => layer' \in Layer)
BY BudgetAssumption DEF TypeOK, NextLayer, Layer

-----------------------------------------------------------------------------
LEMMA InitTypeOK == Init => TypeOK
<1> SUFFICES ASSUME Init PROVE TypeOK
  OBVIOUS
<1>1. layer \in 1 .. (NumLayers + 1) /\ (pc # "done" => layer \in Layer)
  BY BudgetAssumption DEF Init, Layer
<1> QED BY <1>1, EmptySeq DEF Init, TypeOK

LEMMA TypeOKStep == ASSUME TypeOK, [Next]_vars PROVE TypeOK'
<1>1. CASE OpenLayer
  BY <1>1 DEF OpenLayer, TypeOK
<1>2. CASE UncompressFails
  <2>1. layer \in Layer
    BY <1>2 DEF UncompressFails, TypeOK
  <2> QED BY <1>2, <2>1, NextLayerType, ReportRecords DEF UncompressFails, TypeOK
<1>3. CASE EndOfLayer
  <2>1. layer \in Layer
    BY <1>3 DEF EndOfLayer, TypeOK
  <2> QED BY <1>3, <2>1, NextLayerType DEF EndOfLayer, TypeOK
<1>4. CASE TarFails
  <2>1. layer \in Layer
    BY <1>4 DEF TarFails, TypeOK
  <2> QED BY <1>4, <2>1, NextLayerType, ReportRecords DEF TarFails, TypeOK
<1>5. ASSUME NEW e \in Entries, ApplyEntry(e) PROVE TypeOK'
  <2>1. Reads(e)
    BY <1>5 DEF ApplyEntry, Unsafe, Ignore, Whiteout, BudgetHit, WriteBlocked, CopyFails, CloseFails, Write
  <2>2. layer \in Layer /\ image' \in Seq([entry : Entry, layer : Layer])
    BY <2>1, ReadsAppends
  <2>3. CASE Unsafe(e)
    BY <2>2, <2>3, ReportRecords DEF Unsafe, TypeOK
  <2>4. CASE Ignore(e)
    BY <2>2, <2>4 DEF Ignore, TypeOK
  <2>5. CASE Whiteout(e)
    BY <2>2, <2>5, EntryType DEF Whiteout, TypeOK
  <2>6. CASE BudgetHit(e)
    BY <2>2, <2>6, ReportRecords DEF BudgetHit, TypeOK
  <2>7. CASE WriteBlocked(e)
    BY <2>2, <2>7, ReportRecords DEF WriteBlocked, TypeOK
  <2>8. dirs \cup Above[e.path] \subseteq Path
    BY EntryType, PathsAssumption DEF TypeOK
  <2>9. [by |-> layer, bytes |-> e.size] \in File
    BY <2>2, EntryType DEF File
  <2>10. CASE CopyFails(e)
    BY <2>2, <2>8, <2>10, EntryType, ReportRecords DEF CopyFails, TypeOK
  <2>11. CASE CloseFails(e)
    BY <2>2, <2>8, <2>9, <2>11, EntryType, ReportRecords DEF CloseFails, TypeOK
  <2>12. CASE Write(e)
    BY <2>2, <2>8, <2>9, <2>12, EntryType DEF Write, TypeOK
  <2> QED BY <1>5, <2>3, <2>4, <2>5, <2>6, <2>7, <2>10, <2>11, <2>12 DEF ApplyEntry
<1>6. CASE UNCHANGED vars
  BY <1>6 DEF vars, TypeOK
<1> QED BY <1>1, <1>2, <1>3, <1>4, <1>5, <1>6 DEF Next

-----------------------------------------------------------------------------
(* Adding the ancestors of a path that is not blocked, and a file or       *)
(* nothing at the path itself, keeps the directory a tree.                 *)
LEMMA PutKeepsTree ==
  ASSUME TypeOK, TreeShape, NEW p \in Path, ~ Blocked(p), NEW f,
         dirs' = dirs \cup Above[p], files' = [files EXCEPT ![p] = f]
  PROVE  TreeShape'
<1>1. ASSUME NEW q \in Path, q \in dirs' PROVE files'[q] = None
  BY <1>1, PathsAssumption DEF TypeOK, TreeShape, Blocked
<1>2. ASSUME NEW q \in Path, files'[q] # None \/ q \in dirs' PROVE Above[q] \subseteq dirs'
  BY <1>2, PathsAssumption DEF TypeOK, TreeShape
<1> QED BY <1>1, <1>2 DEF TreeShape

LEMMA TreeShapeStep == ASSUME TypeOK, TreeShape, [Next]_vars PROVE TreeShape'
<1>1. CASE UNCHANGED <<files, dirs>>
  BY <1>1 DEF TreeShape
<1>2. ASSUME NEW e \in Entries, Whiteout(e) PROVE TreeShape'
  <2>1. ASSUME NEW p \in Path, NEW q \in Above[p], p \notin Subtree(e.path)
        PROVE  q \in Path /\ q \notin Subtree(e.path)
    BY <2>1, PathsAssumption DEF Subtree
  <2>2. \A p \in Path : p \in dirs' => files'[p] = None
    BY <1>2 DEF Whiteout, TreeShape
  <2>3. ASSUME NEW p \in Path, files'[p] # None \/ p \in dirs' PROVE Above[p] \subseteq dirs'
    BY <1>2, <2>1, <2>3 DEF Whiteout, TreeShape
  <2> QED BY <2>2, <2>3 DEF TreeShape
<1>3. ASSUME NEW e \in Entries, CopyFails(e) \/ CloseFails(e) \/ Write(e) PROVE TreeShape'
  BY <1>3, PutKeepsTree, EntryType DEF CopyFails, CloseFails, Write
<1> QED BY <1>1, <1>2, <1>3
    DEF Next, OpenLayer, UncompressFails, EndOfLayer, TarFails, ApplyEntry,
        Unsafe, Ignore, BudgetHit, WriteBlocked, vars

LEMMA FilesAttributedStep ==
  ASSUME TypeOK, FilesAttributed, [Next]_vars PROVE FilesAttributed'
<1>1. errs \subseteq errs'
  BY DEF Next, OpenLayer, UncompressFails, EndOfLayer, TarFails, ApplyEntry, Unsafe, Ignore,
         Whiteout, BudgetHit, WriteBlocked, CopyFails, CloseFails, Write, Report, vars
<1>2. CASE UNCHANGED <<files, layerOf>>
  BY <1>1, <1>2 DEF FilesAttributed, WriteError
<1>3. ASSUME NEW e \in Entries, Whiteout(e) PROVE FilesAttributed'
  BY <1>1, <1>3, EntryType DEF Whiteout, Subtree, TypeOK, FilesAttributed, WriteError
<1>4. ASSUME NEW e \in Entries, CopyFails(e) PROVE FilesAttributed'
  BY <1>1, <1>4, EntryType DEF CopyFails, TypeOK, FilesAttributed, WriteError
<1>5. ASSUME NEW e \in Entries, CloseFails(e) PROVE FilesAttributed'
  <2>1. WriteError(layer)'
    BY <1>5 DEF CloseFails, WriteError, Report
  <2>2. \A p \in Path : files'[p] # None /\ layerOf'[p] # files'[p].by => [what |-> "write", layer |-> files'[p].by] \in errs'
    BY <1>1, <1>5, <2>1, EntryType DEF CloseFails, Report, TypeOK, FilesAttributed, WriteError
  <2> QED BY <2>2 DEF FilesAttributed, WriteError
<1>6. ASSUME NEW e \in Entries, Write(e) PROVE FilesAttributed'
  BY <1>1, <1>6, EntryType DEF Write, TypeOK, FilesAttributed, WriteError
<1> QED BY <1>2, <1>3, <1>4, <1>5, <1>6
    DEF Next, OpenLayer, UncompressFails, EndOfLayer, TarFails, ApplyEntry,
        Unsafe, Ignore, BudgetHit, WriteBlocked, vars

(* A non-empty set of naturals has a least element, hence induction.       *)
LEMMA Least ==
  ASSUME NEW S \in SUBSET Nat, S # {}
  PROVE  \E m \in S : \A n \in S : m <= n
<1>1. PICK m \in S : \A n \in S : ~ (<<n, m>> \in OpToRel(<, Nat))
  BY NatLessThanWellFounded, WFMin
<1>2. \A n \in S : ~ (n < m)
  BY <1>1 DEF OpToRel
<1> QED BY <1>2

LEMMA Induct ==
  ASSUME NEW S \in SUBSET Nat, 0 \in S, \A n \in S : n + 1 \in S
  PROVE  S = Nat
<1> SUFFICES ASSUME Nat \ S # {} PROVE FALSE OBVIOUS
<1>1. PICK m \in Nat \ S : \A n \in Nat \ S : m <= n BY Least
<1>2. m # 0 /\ m - 1 \in Nat /\ m - 1 \in S BY <1>1
<1> QED BY <1>2

-----------------------------------------------------------------------------
(* The sum of a byte count over the paths, along the path FoldFunction     *)
(* takes out of the set at each turn.                                      *)
Pick(s) == CHOOSE p \in s : TRUE
SumOf(b) == FoldFunction(+, 0, b)

(* g is the sum of b over the sets of at most n paths. *)
Adds(b, g, n) ==
  \A s \in SUBSET Path : Cardinality(s) <= n =>
    g[s] = IF s = {} THEN 0 ELSE b[Pick(s)] + g[s \ {Pick(s)}]

LEMMA PickSmaller ==
  ASSUME NEW s \in SUBSET Path, s # {}
  PROVE  /\ Pick(s) \in s /\ s \ {Pick(s)} \in SUBSET Path
         /\ Cardinality(s) \in Nat /\ Cardinality(s \ {Pick(s)}) = Cardinality(s) - 1
<1>1. Pick(s) \in s BY DEF Pick
<1>2. IsFiniteSet(s) BY PathsAssumption, FS_Subset
<1> QED BY <1>1, <1>2, FS_RemoveElement, FS_CardinalityType

LEMMA CardNat == ASSUME NEW s \in SUBSET Path PROVE Cardinality(s) \in Nat
BY PathsAssumption, FS_Subset, FS_CardinalityType

LEMMA CardZero == ASSUME NEW s \in SUBSET Path, Cardinality(s) = 0 PROVE s = {}
BY PathsAssumption, FS_Subset, FS_EmptySet

(* The recursion of the fold has a solution, so the fold satisfies it. *)
LEMMA SumExists ==
  ASSUME NEW b \in [Path -> Nat]
  PROVE  \E g \in [SUBSET Path -> Nat] :
           g = [s \in SUBSET Path |-> IF s = {} THEN 0 ELSE b[Pick(s)] + g[s \ {Pick(s)}]]
<1> DEFINE Good == {n \in Nat : \E g \in [SUBSET Path -> Nat] : Adds(b, g, n)}
<1>1. 0 \in Good
  <2>1. Adds(b, [s \in SUBSET Path |-> 0], 0)
    BY CardZero, CardNat DEF Adds
  <2> QED BY <2>1
<1>2. ASSUME NEW n \in Good PROVE n + 1 \in Good
  <2>1. PICK g \in [SUBSET Path -> Nat] : Adds(b, g, n) OBVIOUS
  <2> DEFINE h == [s \in SUBSET Path |-> IF s = {} THEN 0 ELSE b[Pick(s)] + g[s \ {Pick(s)}]]
  <2>2. h \in [SUBSET Path -> Nat]
    <3>1. ASSUME NEW s \in SUBSET Path, s # {} PROVE b[Pick(s)] + g[s \ {Pick(s)}] \in Nat
       BY <3>1, PickSmaller, <2>1
    <3> QED BY <3>1
  <2>3. ASSUME NEW s \in SUBSET Path, Cardinality(s) <= n PROVE h[s] = g[s]
    BY <2>1, <2>3 DEF Adds
  <2>4. ASSUME NEW s \in SUBSET Path, Cardinality(s) <= n + 1, s # {} 
        PROVE h[s] = b[Pick(s)] + h[s \ {Pick(s)}]
    <3>1. h[s] = b[Pick(s)] + g[s \ {Pick(s)}] BY <2>4
    <3>2. s \ {Pick(s)} \in SUBSET Path /\ Cardinality(s \ {Pick(s)}) <= n BY <2>4, PickSmaller
    <3> QED BY <3>1, <3>2, <2>3
  <2>5. h[{}] = 0 OBVIOUS
  <2>6. Adds(b, h, n + 1) BY <2>4, <2>5 DEF Adds
  <2> HIDE DEF h
  <2> QED BY <2>2, <2>6
<1>3. Good = Nat BY <1>1, <1>2, Induct
<1>4. Cardinality(Path) \in Nat BY CardNat
<1>5. PICK g \in [SUBSET Path -> Nat] : Adds(b, g, Cardinality(Path)) BY <1>3, <1>4
<1>6. \A s \in SUBSET Path : Cardinality(s) <= Cardinality(Path) BY PathsAssumption, FS_Subset
<1>7. \A s \in SUBSET Path : g[s] = IF s = {} THEN 0 ELSE b[Pick(s)] + g[s \ {Pick(s)}]
  BY <1>5, <1>6 DEF Adds
<1>8. g = [s \in SUBSET Path |-> g[s]] OBVIOUS
<1> QED BY <1>7, <1>8

SumMap(b) == CHOOSE g : g = [s \in SUBSET Path |-> IF s = {} THEN 0 ELSE b[Pick(s)] + g[s \ {Pick(s)}]]

LEMMA SumMapIs ==
  ASSUME NEW b \in [Path -> Nat]
  PROVE SumMap(b) = [s \in SUBSET Path |-> IF s = {} THEN 0 ELSE b[Pick(s)] + SumMap(b)[s \ {Pick(s)}]]
BY SumExists DEF SumMap

LEMMA SumOfIs ==
  ASSUME NEW b \in [Path -> Nat]
  PROVE SumOf(b) = SumMap(b)[Path]
<1>1. DOMAIN b = Path OBVIOUS
<1> QED BY <1>1 DEF SumOf, SumMap, FoldFunction, FoldFunctionOnSet, MapThenFoldSet, Pick

(* Taking bytes away everywhere but at p, where at most d are added, adds  *)
(* at most d to the sum.                                                   *)
LEMMA SumGrows ==
  ASSUME NEW b \in [Path -> Nat], NEW c \in [Path -> Nat], NEW d \in Nat, NEW p \in Path,
         \A q \in Path : q # p => c[q] <= b[q], c[p] <= b[p] + d
  PROVE  SumOf(b) \in Nat /\ SumOf(c) \in Nat /\ SumOf(c) <= SumOf(b) + d
<1> DEFINE B == SumMap(b) C == SumMap(c)
<1>1. ASSUME NEW s \in SUBSET Path, s # {} PROVE B[s] = b[Pick(s)] + B[s \ {Pick(s)}] /\ C[s] = c[Pick(s)] + C[s \ {Pick(s)}]
  BY SumMapIs, <1>1
<1>2. B[{}] = 0 /\ C[{}] = 0 BY SumMapIs
<1> DEFINE Below(s) == B[s] \in Nat /\ C[s] \in Nat /\ C[s] <= B[s] + (IF p \in s THEN d ELSE 0)
           Good == {n \in Nat : \A s \in SUBSET Path : Cardinality(s) <= n => Below(s)}
<1> HIDE DEF B, C
<1>3. 0 \in Good BY <1>2, CardZero, CardNat
<1>4. ASSUME NEW n \in Good PROVE n + 1 \in Good
  <2>0. n \in Nat /\ Below({}) BY <1>2
  <2>1. ASSUME NEW s \in SUBSET Path, Cardinality(s) <= n + 1, s # {} PROVE Below(s)
    <3> DEFINE r == s \ {Pick(s)}
    <3>1. r \in SUBSET Path /\ Cardinality(r) <= n /\ Pick(s) \in Path /\ Pick(s) \in s BY <2>1, PickSmaller
    <3>2. Below(r) BY <3>1
    <3>3. b[Pick(s)] \in Nat /\ c[Pick(s)] \in Nat BY <3>1
    <3>6. B[s] = b[Pick(s)] + B[r] /\ C[s] = c[Pick(s)] + C[r] BY <1>1, <2>1
    <3> HIDE DEF r
    <3>4. CASE Pick(s) = p
       <4>1. p \in s /\ p \notin r BY <3>1, <3>4 DEF r
       <4>2. B[r] \in Nat /\ C[r] \in Nat /\ C[r] <= B[r] BY <3>2, <4>1
       <4> QED BY <3>6, <3>3, <3>4, <4>1, <4>2
    <3>5. CASE Pick(s) # p 
       <4>1. c[Pick(s)] <= b[Pick(s)] BY <3>5, <3>1
       <4>2. p \in s <=> p \in r BY <3>5 DEF r
       <4>3. C[r] <= B[r] + (IF p \in s THEN d ELSE 0) BY <3>2, <4>2
       <4> QED BY <3>2, <3>3, <3>6, <4>1, <4>3
    <3> QED BY <3>4, <3>5
  <2> HIDE DEF Below
  <2>2. \A s \in SUBSET Path : Cardinality(s) <= n + 1 => Below(s) BY <2>0, <2>1
  <2> QED BY <2>0, <2>2
<1>5. Good = Nat 
  <2> HIDE DEF Below
  <2> QED BY <1>3, <1>4, Induct
<1>6. Below(Path) BY <1>5, CardNat
<1> QED BY <1>6, SumOfIs DEF B, C
(* Nothing on the disk: the sum is zero. *)
LEMMA SumZero ==
  ASSUME NEW b \in [Path -> Nat], \A p \in Path : b[p] = 0 PROVE SumOf(b) = 0
<1> DEFINE B == SumMap(b)
           Good == {n \in Nat : \A s \in SUBSET Path : Cardinality(s) <= n => B[s] = 0}
<1>1. ASSUME NEW s \in SUBSET Path, s # {} PROVE B[s] = b[Pick(s)] + B[s \ {Pick(s)}]
  BY SumMapIs, <1>1
<1>2. B[{}] = 0
  BY SumMapIs
<1> HIDE DEF B
<1>3. 0 \in Good
  BY <1>2, CardZero, CardNat
<1>4. ASSUME NEW n \in Good PROVE n + 1 \in Good
  <2>1. ASSUME NEW s \in SUBSET Path, Cardinality(s) <= n + 1, s # {} PROVE B[s] = 0
    <3>1. s \ {Pick(s)} \in SUBSET Path /\ Cardinality(s \ {Pick(s)}) <= n /\ Pick(s) \in Path
      BY <2>1, PickSmaller
    <3>2. B[s \ {Pick(s)}] = 0
      BY <3>1
    <3> QED BY <1>1, <2>1, <3>1, <3>2
  <2>2. n \in Nat /\ \A s \in SUBSET Path : Cardinality(s) <= n + 1 => B[s] = 0
    BY <1>2, <2>1
  <2> QED BY <2>2
<1>5. Good = Nat
  BY <1>3, <1>4, Induct
<1>6. B[Path] = 0
  BY <1>5, CardNat
<1> QED BY <1>6, SumOfIs DEF B

-----------------------------------------------------------------------------
(* What is on the disk is counted, until a write fails. *)
LEMMA BytesType == ASSUME TypeOK PROVE Bytes \in [Path -> Nat]
BY DEF TypeOK, Bytes, File

LEMMA DiskStep ==
  ASSUME TypeOK, TypeOK', DiskWithinBudget, [Next]_vars PROVE DiskWithinBudget'
<1> DEFINE Clean == \A l \in Layer : ~ WriteError(l)
<1>1. Clean' => Clean
  BY DEF Next, OpenLayer, UncompressFails, EndOfLayer, TarFails, ApplyEntry, Unsafe, Ignore,
         Whiteout, BudgetHit, WriteBlocked, CopyFails, CloseFails, Write, Report, vars, WriteError
<1>2. Bytes \in [Path -> Nat] /\ Bytes' \in [Path -> Nat]
  <2>1. Bytes \in [Path -> Nat]
    BY BytesType
  <2>2. Bytes' \in [Path -> Nat]
    BY DEF TypeOK, Bytes, File
  <2> QED BY <2>1, <2>2
<1>3. OnDisk = SumOf(Bytes) /\ OnDisk' = SumOf(Bytes')
  BY DEF OnDisk, SumOf, FoldFunction, FoldFunctionOnSet, MapThenFoldSet
<1>4. CASE UNCHANGED <<files, total>>
  <2>1. Bytes' = Bytes
    BY <1>4 DEF Bytes
  <2>2. OnDisk' = OnDisk
    BY <1>3, <2>1
  <2> QED BY <1>1, <1>4, <2>2 DEF DiskWithinBudget
<1>5. ASSUME NEW e \in Entries, Whiteout(e) PROVE DiskWithinBudget'
  <2>1. \A q \in Path : Bytes'[q] <= Bytes[q]
    BY <1>2, <1>5 DEF Whiteout, Bytes
  <2>2. e.path \in Path /\ Bytes'[e.path] <= Bytes[e.path] + 0
    BY <1>2, <2>1, EntryType
  <2>3. SumOf(Bytes') <= SumOf(Bytes) + 0 /\ SumOf(Bytes') \in Nat /\ SumOf(Bytes) \in Nat
    BY <1>2, <2>1, <2>2, SumGrows
  <2> QED BY <1>1, <1>3, <1>5, <2>3 DEF Whiteout, DiskWithinBudget, TypeOK
<1>6. ASSUME NEW e \in Entries, CopyFails(e) \/ CloseFails(e) PROVE DiskWithinBudget'
  <2>1. layer \in Layer /\ WriteError(layer)'
    BY <1>6 DEF CopyFails, CloseFails, Reads, TypeOK, WriteError, Report
  <2>2. ~ Clean'
    BY <2>1, <1>6 DEF WriteError, CopyFails, CloseFails
  <2> QED BY <1>6, <2>2 DEF CopyFails, CloseFails, DiskWithinBudget
<1>7. ASSUME NEW e \in Entries, Write(e) PROVE DiskWithinBudget'
  <2>1. e.path \in Path /\ e.size \in Nat
    BY EntryType
  <2>2. /\ \A q \in Path : q # e.path => Bytes'[q] = Bytes[q]
        /\ Bytes'[e.path] = e.size
    <3>1. files' = [files EXCEPT ![e.path] = [by |-> layer, bytes |-> e.size]]
      BY <1>7 DEF Write
    <3>2. [by |-> layer, bytes |-> e.size] # None
      BY <1>7, <2>1, NoneAssumption DEF Write, Reads, TypeOK, File
    <3> QED BY <2>1, <3>1, <3>2 DEF Bytes, TypeOK
  <2>3. /\ \A q \in Path : q # e.path => Bytes'[q] <= Bytes[q]
        /\ Bytes'[e.path] <= Bytes[e.path] + e.size
    BY <1>2, <2>1, <2>2
  <2>4. SumOf(Bytes') <= SumOf(Bytes) + e.size /\ SumOf(Bytes') \in Nat /\ SumOf(Bytes) \in Nat
    BY <1>2, <2>1, <2>3, SumGrows
  <2>5. total' = total + e.size /\ total' <= MaxTotal
    BY <1>7, <2>1, BudgetAssumption DEF Write, Affordable, OverBudget, TypeOK
  <2> QED BY <1>1, <1>3, <2>1, <2>4, <2>5 DEF DiskWithinBudget, TypeOK
<1> QED BY <1>4, <1>5, <1>6, <1>7
    DEF Next, OpenLayer, UncompressFails, EndOfLayer, TarFails, ApplyEntry,
        Unsafe, Ignore, BudgetHit, WriteBlocked, vars

LEMMA InitDisk == Init => DiskWithinBudget
<1> SUFFICES ASSUME Init PROVE DiskWithinBudget
  OBVIOUS
<1>1. Bytes \in [Path -> Nat] /\ \A p \in Path : Bytes[p] = 0
  BY DEF Init, Bytes
<1>2. OnDisk = 0
  BY <1>1, SumZero DEF OnDisk, SumOf
<1> QED BY <1>2, BudgetAssumption DEF Init, DiskWithinBudget

(* The type invariant, the tree, the provenance map and the budget hold of *)
(* every extraction.                                                       *)
THEOREM InductiveInvariant == Spec => []IInv
<1>1. Init => IInv
  BY InitTypeOK, InitDisk DEF Init, IInv, TreeShape, FilesAttributed
<1>2. IInv /\ [Next]_vars => IInv'
  BY TypeOKStep, TreeShapeStep, FilesAttributedStep, DiskStep DEF IInv
<1> QED BY <1>1, <1>2, PTL DEF Spec

(* ExtractToDir is type correct. *)
THEOREM TypeCorrect == Spec => []TypeOK
<1>1. IInv => TypeOK BY DEF IInv
<1> QED BY <1>1, InductiveInvariant, PTL

(* Whatever the layers write and delete, and whichever writes fail, the    *)
(* extraction directory stays a tree.                                      *)
THEOREM AlwaysATree == Spec => []TreeShape
<1>1. IInv => TreeShape BY DEF IInv
<1> QED BY <1>1, InductiveInvariant, PTL

(* layerOf names the layer that wrote a file, unless that layer reported a *)
(* write error.                                                            *)
THEOREM Provenance == Spec => []FilesAttributed
<1>1. IInv => FilesAttributed BY DEF IInv
<1> QED BY <1>1, InductiveInvariant, PTL

(* The counter never passes the extraction budget, and until a write       *)
(* fails it bounds what is on the disk, so that the budget bounds it too.  *)
THEOREM BudgetKept == Spec => []DiskWithinBudget
<1>1. IInv => DiskWithinBudget BY DEF IInv
<1> QED BY <1>1, InductiveInvariant, PTL

-----------------------------------------------------------------------------
(* At most one entry of the image survives for a path. *)
LEMMA SurvivorUnique ==
  ASSUME TypeOK, NEW p \in Path, NEW k \in Read, NEW l \in Read, Survives(k, p), Survives(l, p)
  PROVE  k = l
<1>1. Len(image) \in Nat
  BY DEF TypeOK
<1>2. ASSUME NEW i \in Read, NEW j \in Read, Survives(i, p), WrittenBy(j, p) PROVE ~ (i < j)
  BY <1>1, <1>2 DEF Survives, Read
<1> QED BY <1>1, <1>2 DEF Survives, Read

(* An image that is regular after a step was regular before it, and the    *)
(* entry just read is not one that is ignored or that deletes what its own *)
(* layer wrote.                                                            *)
LEMMA RegularBefore ==
  ASSUME TypeOK, NEW e \in Entries, Reads(e), errs \subseteq errs', Regular'
  PROVE  /\ Regular /\ ~ Ignored(e)
         /\ \A k \in Read, p \in Path :
              image[k].layer = layer /\ WrittenBy(k, p)
                => ~ (e.type = "whiteout" /\ p \in Subtree(e.path))
<1> DEFINE n == Len(image) + 1
<1>1. /\ n \in 1 .. Len(image') /\ Read \subseteq 1 .. Len(image') /\ n \notin Read
      /\ \A k \in Read : image'[k] = image[k] /\ k < n
      /\ image'[n] = [entry |-> e, layer |-> layer]
  BY ReadsAppends DEF Read
<1>2. /\ errs' = {}
      /\ \A k \in 1 .. Len(image') : ~ Ignored(image'[k].entry)
      /\ \A k, l \in 1 .. Len(image') :
           k < l /\ image'[k].layer = image'[l].layer
             => \A p \in Path : ~ (/\ image'[k].entry.type = "file" /\ image'[k].entry.path = p
                                   /\ image'[l].entry.type = "whiteout" /\ p \in Subtree(image'[l].entry.path))
  BY DEF Regular, Ignored, WrittenBy, Deletes, Subtree
<1>3. ~ Ignored(e)
  BY <1>1, <1>2
<1>4. \A k \in Read : ~ Ignored(image[k].entry)
  BY <1>1, <1>2
<1>5. \A k, l \in Read :
        k < l /\ image[k].layer = image[l].layer
          => \A p \in Path : ~ (WrittenBy(k, p) /\ Deletes(l, p))
  BY <1>1, <1>2 DEF WrittenBy, Deletes
<1>6. \A k \in Read, p \in Path :
        image[k].layer = layer /\ WrittenBy(k, p)
          => ~ (e.type = "whiteout" /\ p \in Subtree(e.path))
  BY <1>1, <1>2 DEF WrittenBy
<1> QED BY <1>2, <1>3, <1>4, <1>5, <1>6 DEF Regular, Read

(* Which entries survive after e has been read. *)
LEMMA SurvivesStep ==
  ASSUME TypeOK, NEW e \in Entries, Reads(e), NEW p \in Path,
         NEW n \in Nat, n = Len(image) + 1
  PROVE  /\ \A k \in Read :
              Survives(k, p)' <=>
                /\ Survives(k, p)
                /\ ~ (e.type = "file" /\ e.path = p)
                /\ e.type = "whiteout" /\ p \in Subtree(e.path) => layer = image[k].layer
         /\ Survives(n, p)' <=> e.type = "file" /\ e.path = p
<1>1. /\ Len(image') = n /\ Len(image) \in Nat
      /\ \A k \in Read : image'[k] = image[k]
      /\ image'[n] = [entry |-> e, layer |-> layer]
  BY ReadsAppends
<1>2. \A k \in Read : (k + 1) .. n = ((k + 1) .. Len(image)) \cup {n}
  BY <1>1 DEF Read
<1>3. \A k \in Read : (k + 1) .. Len(image) \subseteq Read /\ n \notin (k + 1) .. Len(image)
  BY <1>1 DEF Read
<1>4. \A k \in Read : /\ WrittenBy(k, p)' <=> WrittenBy(k, p)
                      /\ Deletes(k, p)' <=> Deletes(k, p)
  BY <1>1 DEF WrittenBy, Deletes, Subtree
<1>5. /\ WrittenBy(n, p)' <=> e.type = "file" /\ e.path = p
      /\ Deletes(n, p)' <=> e.type = "whiteout" /\ p \in Subtree(e.path)
  BY <1>1 DEF WrittenBy, Deletes, Subtree
<1>6. ASSUME NEW k \in Read
      PROVE  Survives(k, p)' <=>
               /\ Survives(k, p)
               /\ ~ (e.type = "file" /\ e.path = p)
               /\ e.type = "whiteout" /\ p \in Subtree(e.path) => layer = image[k].layer
  <2>1. Survives(k, p)' <=>
          /\ WrittenBy(k, p)'
          /\ \A l \in (k + 1) .. n :
               ~ WrittenBy(l, p)' /\ (Deletes(l, p)' => image'[l].layer = image'[k].layer)
    BY <1>1 DEF Survives
  <2>2. Survives(k, p)' <=>
          /\ WrittenBy(k, p)
          /\ \A l \in (k + 1) .. Len(image) :
               ~ WrittenBy(l, p) /\ (Deletes(l, p) => image[l].layer = image[k].layer)
          /\ ~ WrittenBy(n, p)' /\ (Deletes(n, p)' => layer = image[k].layer)
    BY <1>1, <1>2, <1>3, <1>4, <2>1
  <2> QED BY <1>5, <2>2 DEF Survives
<1>7. Survives(n, p)' <=> WrittenBy(n, p)'
  <2>1. (n + 1) .. Len(image') = {}
    BY <1>1
  <2> QED BY <2>1 DEF Survives
<1> QED BY <1>5, <1>6, <1>7

LEMMA MatchesStep ==
  ASSUME IInv, Regular => \A p \in Path : Matches(p), [Next]_vars, Regular', NEW p \in Path
  PROVE  Matches(p)'
<1>1. CASE UNCHANGED <<files, errs, image>>
  <2>1. Regular
    BY <1>1 DEF Regular, Ignored, WrittenBy, Deletes, Subtree
  <2> QED BY <1>1, <2>1 DEF Matches, Read, Survives, WrittenBy, Deletes, Subtree
<1>2. ASSUME NEW what, Report(what) PROVE FALSE
  BY <1>2 DEF Report, Regular
<1>3. ASSUME NEW e \in Entries, Ignore(e) \/ Whiteout(e) \/ Write(e) PROVE Matches(p)'
  <2>1. TypeOK /\ Reads(e) /\ errs \subseteq errs'
    BY <1>3 DEF Ignore, Whiteout, Write, IInv
  <2>2. /\ Regular /\ ~ Ignored(e) /\ Matches(p)
        /\ \A k \in Read, q \in Path :
              image[k].layer = layer /\ WrittenBy(k, q)
                => ~ (e.type = "whiteout" /\ q \in Subtree(e.path))
    BY <2>1, RegularBefore
  <2>n. PICK n \in Nat : n = Len(image) + 1
    BY <2>1, ReadsAppends
  <2>3. /\ n \in Read' /\ Read' = Read \cup {n}
        /\ \A k \in Read : image'[k] = image[k]
        /\ image'[n] = [entry |-> e, layer |-> layer]
    BY <2>1, <2>n, ReadsAppends DEF Read
  <2>4. /\ \A k \in Read :
             Survives(k, p)' <=>
                /\ Survives(k, p)
                /\ ~ (e.type = "file" /\ e.path = p)
                /\ e.type = "whiteout" /\ p \in Subtree(e.path) => layer = image[k].layer
        /\ Survives(n, p)' <=> e.type = "file" /\ e.path = p
    BY <2>1, <2>n, SurvivesStep
  <2>5. CASE Whiteout(e) /\ p \in Subtree(e.path)
    <3>1. files'[p] = None
      BY <2>5 DEF Whiteout
    <3>2. \A k \in Read' : ~ Survives(k, p)'
      BY <2>2, <2>3, <2>4, <2>5 DEF Whiteout, Survives
    <3> QED BY <3>1, <3>2 DEF Matches
  <2>6. CASE Write(e) /\ p = e.path
    <3>1. files'[p] = [by |-> layer, bytes |-> e.size]
      BY <2>1, <2>6 DEF Write, TypeOK
    <3>2. Survives(n, p)'
      BY <2>4, <2>6 DEF Write, Affordable, Extractable
    <3> QED BY <2>3, <3>1, <3>2 DEF Matches
  <2>7. CASE (Whiteout(e) /\ p \notin Subtree(e.path)) \/ (Write(e) /\ p # e.path)
    <3>1. files'[p] = files[p]
      BY <2>1, <2>7 DEF Whiteout, Write, TypeOK
    <3>2. /\ \A k \in Read : Survives(k, p)' <=> Survives(k, p)
          /\ ~ Survives(n, p)'
      BY <2>4, <2>7 DEF Whiteout, Write, Affordable, Extractable
    <3>3. CASE files[p] = None /\ \A k \in Read : ~ Survives(k, p)
      BY <2>3, <3>1, <3>2, <3>3 DEF Matches
    <3>4. ASSUME NEW k \in Read, Survives(k, p),
                 files[p] = [by |-> image[k].layer, bytes |-> image[k].entry.size]
          PROVE  Matches(p)'
      BY <2>3, <3>1, <3>2, <3>4 DEF Matches
    <3> QED BY <2>2, <3>3, <3>4 DEF Matches
  <2> QED BY <1>3, <2>2, <2>5, <2>6, <2>7 DEF Ignore
<1> QED BY <1>1, <1>2, <1>3
    DEF Next, OpenLayer, UncompressFails, EndOfLayer, TarFails, ApplyEntry,
        Unsafe, BudgetHit, WriteBlocked, CopyFails, CloseFails, vars

(* When extraction ends, the directory holds exactly the union of the      *)
(* layers, for every image whose entries were all applied and that does    *)
(* not delete within a layer what the same layer wrote.                    *)
THEOREM UnionExtracted == Spec => []ExtractsUnion
<1> DEFINE J == IInv /\ (Regular => \A p \in Path : Matches(p))
<1>1. Init => (Regular => \A p \in Path : Matches(p))
  BY DEF Init, Matches, Read
<1>2. IInv /\ J /\ [Next]_vars => (Regular => \A p \in Path : Matches(p))'
  BY MatchesStep
<1>3. J => ExtractsUnion
  <2> SUFFICES ASSUME IInv, \A p \in Path : Matches(p) PROVE files = Union
    BY DEF ExtractsUnion
  <2>1. ASSUME NEW p \in Path PROVE files[p] = Union[p]
    <3>1. CASE files[p] = None /\ \A k \in Read : ~ Survives(k, p)
      BY <3>1 DEF Union, Read
    <3>2. ASSUME NEW k \in Read, Survives(k, p),
                 files[p] = [by |-> image[k].layer, bytes |-> image[k].entry.size]
          PROVE  files[p] = Union[p]
      <4>1. k = CHOOSE l \in 1 .. Len(image) : Survives(l, p)
        BY <3>2, SurvivorUnique DEF Read, IInv
      <4> QED BY <3>2, <4>1 DEF Union, Read
    <3> QED BY <2>1, <3>1, <3>2 DEF Matches
  <2>2. files = [p \in Path |-> files[p]]
    BY DEF IInv, TypeOK
  <2> QED BY <2>1, <2>2 DEF Union
<1> QED BY <1>1, <1>2, <1>3, InductiveInvariant, PTL DEF Spec
=============================================================================
