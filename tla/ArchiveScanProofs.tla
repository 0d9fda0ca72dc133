------------------------- MODULE ArchiveScanProofs -------------------------
(***************************************************************************)
(* The budget, the nesting cap and the coverage of ArchiveScan, for every  *)
(* archive, also one that holds itself, and every choice of limits.        *)
(***************************************************************************)
EXTENDS ArchiveScan, TLAPS, SequenceTheorems, WellFoundedInduction

FrameType == [archive : Archive, pos : Nat \ {0}]

(* The current frame and, when there is one, the current entry. *)
LEMMA HereType ==
  ASSUME TypeOK, Scanning
  PROVE  /\ Len(stack) \in Nat /\ Len(stack) >= 1
         /\ Frame \in FrameType
         /\ More => Here \in Entry
<1>1. stack \in Seq(FrameType)
  BY DEF TypeOK, FrameType
<1>2. Len(stack) \in Nat /\ Len(stack) >= 1
  BY <1>1, EmptySeq DEF Scanning
<1>3. Frame \in FrameType
  BY <1>1, <1>2, ElementOfSeq DEF Frame
<1>4. content[Frame.archive] \in Seq(Entry) /\ Frame.pos \in Nat \ {0}
  BY <1>3 DEF TypeOK, FrameType
<1>5. More => Here \in Entry
  BY <1>4, ElementOfSeq DEF More, Here
<1> QED BY <1>2, <1>3, <1>5

(* The loop moves on to the next entry of the current archive. *)
LEMMA AdvancedType ==
  ASSUME NEW s \in Seq(FrameType), Len(s) >= 1
  PROVE  Advanced(s) \in Seq(FrameType) /\ Len(Advanced(s)) = Len(s)
<1>1. Len(s) \in 1 .. Len(s) /\ Len(s) \in Nat
  OBVIOUS
<1>2. s[Len(s)] \in FrameType
  BY <1>1, ElementOfSeq
<1>3. [s[Len(s)] EXCEPT !.pos = @ + 1] \in FrameType
  BY <1>2 DEF FrameType
<1>4. Advanced(s) = [s EXCEPT ![Len(s)] = [s[Len(s)] EXCEPT !.pos = @ + 1]]
  BY DEF Advanced
<1> QED BY <1>1, <1>3, <1>4, ExceptSeq

LEMMA ReturnType ==
  ASSUME TypeOK, Scanning, Return
  PROVE  /\ stack' \in Seq(FrameType) /\ Len(stack') <= maxDepth + 1
         /\ outcome' \in {"called", "scanning", "failed", "done"}
<1>1. stack \in Seq(FrameType) /\ Len(stack) \in Nat /\ Len(stack) >= 1 /\ Len(stack) <= maxDepth + 1
  BY HereType DEF TypeOK, FrameType
<1>2. maxDepth \in Nat
  BY DEF TypeOK
<1>3. CASE Len(stack) = 1
  BY <1>2, <1>3, EmptySeq DEF Return
<1>4. CASE Len(stack) # 1
  <2>0. 1 \in Int /\ Len(stack) - 1 \in Int /\ Len(stack) - 1 >= 1
    <3>1. ASSUME NEW n \in Nat, n >= 1, n # 1 PROVE 1 \in Int /\ n - 1 \in Int /\ n - 1 >= 1
      BY <3>1
    <3>2. Len(stack) \in Nat /\ Len(stack) >= 1
      BY <1>1
    <3> QED BY <1>4, <3>1, <3>2
  <2> DEFINE callers == SubSeq(stack, 1, Len(stack) - 1)
  <2>1. callers \in Seq(FrameType) /\ Len(callers) = Len(stack) - 1
    <3>2. \A i \in 1 .. Len(stack) - 1 : i \in 1 .. Len(stack)
      BY <1>1
    <3>3. \A i \in 1 .. Len(stack) - 1 : stack[i] \in FrameType
      BY <1>1, <3>2, ElementOfSeq
    <3> QED BY <2>0, <3>3, SubSeqProperties
  <2>2. stack' = Advanced(callers)
    BY <1>4 DEF Return
  <2>3. stack' \in Seq(FrameType) /\ Len(stack') = Len(stack) - 1
    <3>1. Len(callers) >= 1
      BY <1>1, <1>4, <2>1
    <3> HIDE DEF callers
    <3> QED BY <2>1, <2>2, <3>1, AdvancedType
  <2> QED BY <1>1, <1>2, <1>4, <2>3 DEF Return, TypeOK
<1>5. outcome' \in {"called", "scanning", "failed", "done"}
  BY DEF Return, TypeOK
<1> QED BY <1>3, <1>4, <1>5

(* The bytes and the entry taken from the budget were there. *)
LEMMA TryType ==
  ASSUME TypeOK, Try
  PROVE  /\ Here \in Entry /\ entriesLeft' \in 0 .. MaxEntries
         /\ Limit \in Nat /\ Limit <= bytesLeft
         /\ stack \in Seq(FrameType) /\ Len(stack) \in Nat /\ Len(stack) >= 1 /\ Scanning
<1>1. Scanning /\ Here \in Entry
  BY HereType DEF Try, AtEntry
<1>2. entriesLeft' \in 0 .. MaxEntries
  BY LimitsAssumption DEF Try, Exhausted, TypeOK
<1>3. Limit \in Nat /\ Limit <= bytesLeft
  BY LimitsAssumption DEF Limit, TypeOK
<1> QED BY <1>1, <1>2, <1>3, HereType DEF TypeOK, FrameType

LEMMA ReadWholeType ==
  ASSUME TypeOK, ReadWhole
  PROVE  /\ bytesLeft' \in 0 .. MaxBytes
         /\ read' \subseteq Seq(Nat \ {0})
<1>1. Here.size \in Nat /\ Here.size <= bytesLeft
  <2>1. Here \in Entry /\ Limit \in Nat /\ Limit <= bytesLeft /\ Here.size <= Limit
    BY TryType DEF ReadWhole
  <2>2. Here.size \in Nat /\ bytesLeft \in Nat
    BY <2>1 DEF Entry, TypeOK
  <2> QED BY <2>1, <2>2
<1>2. bytesLeft' \in 0 .. MaxBytes
  BY <1>1, LimitsAssumption DEF ReadWhole, TypeOK
<1>3. Path \in Seq(Nat \ {0})
  <2>1. stack \in Seq(FrameType) /\ Len(stack) \in Nat
    BY TryType DEF ReadWhole
  <2>2. ASSUME NEW k \in 1 .. Len(stack) PROVE stack[k].pos \in Nat \ {0}
    <3>1. stack[k] \in FrameType
      BY <2>1, ElementOfSeq
    <3> QED BY <3>1 DEF FrameType
  <2> QED BY <2>1, <2>2, IsASeq DEF Path
<1> QED BY <1>2, <1>3 DEF ReadWhole, TypeOK

-----------------------------------------------------------------------------
LEMMA TypeOKStep == ASSUME TypeOK, [Next]_vars PROVE TypeOK'
<1> USE DEF budget, input
<1>1. maxDepth \in Nat
  BY DEF TypeOK
<1>2. CASE OpenTop
  <2>1. <<[archive |-> top, pos |-> 1]>> \in Seq(FrameType)
    BY DEF TypeOK, FrameType
  <2>2. stack' \in Seq(FrameType) /\ Len(stack') <= maxDepth + 1
    <3>1. CASE top \in Corrupt
      BY <1>2, <3>1 DEF OpenTop, TypeOK, FrameType
    <3>2. CASE top \notin Corrupt
      <4>1. stack' = <<[archive |-> top, pos |-> 1]>>
        BY <1>2, <3>2 DEF OpenTop
      <4>2. Len(stack') = 1
        BY <4>1
      <4> QED BY <1>1, <2>1, <4>1, <4>2
    <3> QED BY <3>1, <3>2
  <2>3. outcome' \in {"called", "scanning", "failed", "done"}
    BY <1>2 DEF OpenTop
  <2>4. UNCHANGED <<input, bytesLeft, entriesLeft, truncated, read>>
    BY <1>2 DEF OpenTop
  <2> QED BY <2>2, <2>3, <2>4 DEF TypeOK, FrameType
<1>3. CASE EndOfArchive
  BY <1>3, ReturnType DEF EndOfArchive, TypeOK, FrameType
<1>4. CASE SkipDirectory
  <2>1. stack' \in Seq(FrameType) /\ Len(stack') = Len(stack)
    BY <1>4, HereType, AdvancedType DEF SkipDirectory, TypeOK, FrameType
  <2> QED BY <1>4, <2>1 DEF SkipDirectory, TypeOK, FrameType
<1>5. CASE StopAtLimit
  BY <1>5, ReturnType DEF StopAtLimit, AtEntry, TypeOK, FrameType
<1>6. ASSUME Try, stack' = Advanced(stack)
      PROVE  stack' \in Seq(FrameType) /\ Len(stack') <= maxDepth + 1
  BY <1>6, TryType, AdvancedType DEF TypeOK
<1>7. CASE Unreadable
  BY <1>6, <1>7, TryType DEF Unreadable, TypeOK, FrameType
<1>8. CASE TooLarge
  <2>1. Try /\ stack' = Advanced(stack) /\ truncated' = TRUE
    BY <1>8 DEF TooLarge
  <2>2. stack' \in Seq(FrameType) /\ Len(stack') <= maxDepth + 1 /\ entriesLeft' \in 0 .. MaxEntries
    BY <1>6, <2>1, TryType
  <2> QED BY <1>8, <2>1, <2>2 DEF TooLarge, TypeOK, FrameType
<1>9. ASSUME ReadWhole, stack' = Advanced(stack), truncated' \in BOOLEAN PROVE TypeOK'
  <2>1. Try /\ UNCHANGED <<input, outcome>>
    BY <1>9 DEF ReadWhole
  <2> QED BY <1>6, <1>9, <2>1, TryType, ReadWholeType DEF TypeOK, FrameType
<1>10. CASE ScanEntry \/ CutAtDepth \/ SkipCorrupt
  BY <1>9, <1>10 DEF ScanEntry, CutAtDepth, SkipCorrupt, TypeOK
<1>11. CASE Descend
  <2>1. Try /\ UNCHANGED <<input, outcome>> /\ UNCHANGED truncated
    BY <1>11 DEF Descend, ReadWhole
  <2>2. [archive |-> Here.inner, pos |-> 1] \in FrameType
    BY <2>1, TryType DEF Entry, FrameType
  <2>3. stack' \in Seq(FrameType) /\ Len(stack') = Len(stack) + 1
    BY <1>11, <2>1, <2>2, TryType, AppendProperties DEF Descend
  <2>4. Len(stack') <= maxDepth + 1
    BY <1>1, <1>11, <2>1, <2>3, TryType DEF Descend, TooDeep
  <2>5. ReadWhole
    BY <1>11 DEF Descend
  <2> QED BY <2>1, <2>3, <2>4, <2>5, TryType, ReadWholeType DEF TypeOK, FrameType
<1>12. CASE UNCHANGED vars
  BY <1>12 DEF vars, TypeOK
<1> QED BY <1>2, <1>3, <1>4, <1>5, <1>7, <1>8, <1>10, <1>11, <1>12 DEF Next

(* Neither the bytes nor the entries left ever go below zero, and at most  *)
(* maxDepth + 1 archives are open at once.                                 *)
THEOREM BudgetAndDepthKept == Spec => []TypeOK
<1>1. Init => TypeOK
  <2> SUFFICES ASSUME Init PROVE TypeOK
    OBVIOUS
  <2>1. maxDepth \in Nat
    BY LimitsAssumption DEF Init, CapFor
  <2>2. stack \in Seq(FrameType) /\ Len(stack) <= maxDepth + 1
    BY <2>1, EmptySeq DEF Init
  <2>3. bytesLeft \in 0 .. MaxBytes /\ entriesLeft \in 0 .. MaxEntries
    BY LimitsAssumption DEF Init
  <2>4. content \in [Archive -> Seq(Entry)] /\ top \in Archive
    BY ArchiveAssumption DEF Init
  <2> QED BY <2>1, <2>2, <2>3, <2>4 DEF Init, TypeOK, FrameType
<1>2. TypeOK /\ [Next]_vars => TypeOK'
  BY TypeOKStep
<1> QED BY <1>1, <1>2, PTL DEF Spec

-----------------------------------------------------------------------------
(* Coverage                                                                *)

(* A path of entries, each of which but the last is an archive that opens. *)
IsPath(p) ==
  /\ p \in Seq(Nat \ {0}) /\ Len(p) >= 1
  /\ \A k \in 1 .. Len(p) : p[k] \in 1 .. Len(content[ArchiveAt(p)[k]])
  /\ \A k \in 1 .. Len(p) - 1 : Opens(content[ArchiveAt(p)[k]][p[k]])

(* The scan has read what is behind the positions on its stack: an entry   *)
(* before one of them, what is below such an entry, and the archives it is *)
(* in.                                                                     *)
Along(s, p, k) == \A j \in 1 .. k : p[j] = s[j].pos

Behind(s, p) ==
  \/ \E k \in 1 .. Len(s) : k <= Len(p) /\ Along(s, p, k - 1) /\ p[k] < s[k].pos
  \/ Len(p) < Len(s) /\ Along(s, p, Len(p))

Passed(p) == outcome = "done" \/ Behind(stack, p)

(* Every archive on the stack is the entry its caller is at. *)
Chained ==
  /\ outcome # "scanning" => stack = <<>>
  /\ outcome = "called" => read = {} /\ truncated = FALSE
  /\ stack # <<>> => stack[1].archive = top
  /\ \A k \in 1 .. Len(stack) - 1 :
       LET e == content[stack[k].archive][stack[k].pos] IN
       /\ stack[k].pos <= Len(content[stack[k].archive])
       /\ Opens(e) /\ stack[k + 1].archive = e.inner

(* Paths with a path's own conditions in place of the recursion. *)
Walked(p) == IsPath(p) /\ Len(p) <= maxDepth + 2
LeftOut(p) == EntryAt(p).kind # "dir" /\ ~ Inspected(p)
Wanted(p) == EntryAt(p).kind # "dir" /\ EntryAt(p).readable

(* Coverage so far: every wanted entry that was passed was inspected, or   *)
(* the scan has said that it is partial and passed one it left out.        *)
Covered ==
  /\ \A p \in read : Passed(p)
  /\ truncated => \E p : Walked(p) /\ Passed(p) /\ LeftOut(p)
  /\ ~ truncated => \A p : Walked(p) /\ Passed(p) /\ Wanted(p) => Inspected(p)

(* The archives along a path and the paths of a scan, as functions of what *)
(* the scan was given.                                                     *)
Leads(c, t, p, n, g) ==
  g = [k \in 1 .. n |-> IF k = 1 THEN t ELSE c[g[k - 1]][p[k - 1]].inner]

At(c, t, p) == CHOOSE g : Leads(c, t, p, Len(p), g)

Positions == Seq(Nat \ {0})

LEMMA AtIs == ASSUME NEW p PROVE ArchiveAt(p) = At(content, top, p)
BY DEF ArchiveAt, At, Leads

LEMMA InputKept ==
  ASSUME UNCHANGED input
  PROVE  /\ \A p : ArchiveAt(p)' = ArchiveAt(p) /\ EntryAt(p)' = EntryAt(p)
         /\ \A p : IsPath(p)' <=> IsPath(p)
<1>1. ASSUME NEW p PROVE ArchiveAt(p)' = ArchiveAt(p)
  <2>1. ArchiveAt(p)' = At(content', top', p)
    BY DEF ArchiveAt, At, Leads
  <2> QED BY <2>1, AtIs DEF input
<1>2. ASSUME NEW p PROVE EntryAt(p)' = EntryAt(p) /\ (IsPath(p)' <=> IsPath(p))
  BY <1>1 DEF EntryAt, IsPath, input
<1> QED BY <1>1, <1>2

(* A non-empty set of naturals has a least element, hence induction.       *)
LEMMA Least ==
  ASSUME NEW S \in SUBSET Nat, S # {}
  PROVE  \E m \in S : \A n \in S : m <= n
<1>1. PICK m \in S : \A n \in S : ~ (<<n, m>> \in OpToRel(<, Nat))
  BY NatLessThanWellFounded, WFMin
<1>2. \A n \in S : ~ (n < m)
  BY <1>1 DEF OpToRel
<1> QED BY <1>2

LEMMA Induct ==
  ASSUME NEW S \in SUBSET Nat, 0 \in S, \A n \in S : n + 1 \in S
  PROVE  S = Nat
<1> SUFFICES ASSUME Nat \ S # {} PROVE FALSE
  OBVIOUS
<1>1. PICK m \in Nat \ S : \A n \in Nat \ S : m <= n
  BY Least
<1>2. m # 0 /\ m - 1 \in Nat /\ m - 1 \in S
  BY <1>1
<1> QED BY <1>2

(* The recursion along a path has a solution. *)
LEMMA AtExists ==
  ASSUME NEW c, NEW t, NEW p, NEW n \in Nat
  PROVE  \E g : Leads(c, t, p, n, g)
<1> DEFINE Good == {m \in Nat : \E g : Leads(c, t, p, m, g)}
<1>1. 0 \in Good
  <2> DEFINE h == [k \in 1 .. 0 |-> 0]
  <2>1. h = [k \in 1 .. 0 |-> IF k = 1 THEN t ELSE c[h[k - 1]][p[k - 1]].inner]
    OBVIOUS
  <2> QED BY <2>1 DEF Leads
<1>2. ASSUME NEW m \in Good PROVE m + 1 \in Good
  <2>1. PICK g : Leads(c, t, p, m, g)
    OBVIOUS
  <2> DEFINE h == [k \in 1 .. m + 1 |-> IF k = 1 THEN t ELSE c[g[k - 1]][p[k - 1]].inner]
  <2>2. ASSUME NEW k \in 1 .. m PROVE h[k] = g[k]
    <3>1. k \in 1 .. m + 1
      OBVIOUS
    <3>2. h[k] = IF k = 1 THEN t ELSE c[g[k - 1]][p[k - 1]].inner
      BY <3>1
    <3>3. g[k] = IF k = 1 THEN t ELSE c[g[k - 1]][p[k - 1]].inner
      BY <2>1 DEF Leads
    <3> QED BY <3>2, <3>3
  <2>3. h = [k \in 1 .. m + 1 |-> IF k = 1 THEN t ELSE c[h[k - 1]][p[k - 1]].inner]
    <3>1. ASSUME NEW k \in 1 .. m + 1
          PROVE  (IF k = 1 THEN t ELSE c[g[k - 1]][p[k - 1]].inner) = (IF k = 1 THEN t ELSE c[h[k - 1]][p[k - 1]].inner)
      <4>1. CASE k = 1
        BY <4>1
      <4>2. CASE k # 1
        <5>1. k - 1 \in 1 .. m
          BY <4>2
        <5>2. h[k - 1] = g[k - 1]
          BY <2>2, <5>1
        <5> QED BY <5>2
      <4> QED BY <4>1, <4>2
    <3> QED BY <3>1
  <2>4. Leads(c, t, p, m + 1, h)
    BY <2>3 DEF Leads
  <2> HIDE DEF h
  <2> QED BY <2>4
<1>3. Good = Nat
  BY <1>1, <1>2, Induct
<1> QED BY <1>3

LEMMA AtUnfolds ==
  ASSUME NEW p \in Positions
  PROVE  /\ Len(p) >= 1 => ArchiveAt(p)[1] = top
         /\ \A k \in 1 .. Len(p) - 1 : ArchiveAt(p)[k + 1] = content[ArchiveAt(p)[k]][p[k]].inner
<1>1. Len(p) \in Nat
  BY DEF Positions
<1> DEFINE a == ArchiveAt(p)
<1>2. Leads(content, top, p, Len(p), a)
  BY <1>1, AtIs, AtExists DEF At
<1>3. a = [k \in 1 .. Len(p) |-> IF k = 1 THEN top ELSE content[a[k - 1]][p[k - 1]].inner]
  BY <1>2 DEF Leads
<1> HIDE DEF a
<1>4. Len(p) >= 1 => a[1] = top
  BY <1>1, <1>3
<1>5. ASSUME NEW k \in 1 .. Len(p) - 1 PROVE a[k + 1] = content[a[k]][p[k]].inner
  <2>1. k + 1 \in 1 .. Len(p) /\ k + 1 # 1 /\ (k + 1) - 1 = k
    BY <1>1
  <2> QED BY <1>3, <2>1
<1> QED BY <1>4, <1>5 DEF a

(* Paths that begin alike lead to the same archives. *)
LEMMA AtAgrees ==
  ASSUME NEW p \in Positions, NEW q \in Positions, NEW m \in Nat,
         m + 1 <= Len(p), m + 1 <= Len(q), \A k \in 1 .. m : p[k] = q[k]
  PROVE  \A k \in 1 .. m + 1 : ArchiveAt(p)[k] = ArchiveAt(q)[k]
<1> DEFINE Good == {n \in Nat : n <= m => \A k \in 1 .. n + 1 : ArchiveAt(p)[k] = ArchiveAt(q)[k]}
<1>0. Len(p) \in Nat /\ Len(q) \in Nat
  BY DEF Positions
<1>1. 0 \in Good
  BY <1>0, AtUnfolds
<1>2. ASSUME NEW n \in Good PROVE n + 1 \in Good
  <2>0. n \in Nat
    OBVIOUS
  <2>1. SUFFICES ASSUME n + 1 <= m PROVE ArchiveAt(p)[n + 2] = ArchiveAt(q)[n + 2]
    BY <2>0
  <2>2. n + 1 \in 1 .. m /\ n + 1 \in 1 .. Len(p) - 1 /\ n + 1 \in 1 .. Len(q) - 1 /\ (n + 1) + 1 = n + 2
    BY <1>0, <2>0, <2>1
  <2>3. ArchiveAt(p)[n + 1] = ArchiveAt(q)[n + 1] /\ p[n + 1] = q[n + 1]
    BY <2>0, <2>1, <2>2
  <2>4. ArchiveAt(p)[n + 2] = content[ArchiveAt(p)[n + 1]][p[n + 1]].inner
    BY <2>2, AtUnfolds
  <2>5. ArchiveAt(q)[n + 2] = content[ArchiveAt(q)[n + 1]][q[n + 1]].inner
    BY <2>2, AtUnfolds
  <2> QED BY <2>3, <2>4, <2>5
<1>3. Good = Nat
  BY <1>1, <1>2, Induct
<1>4. m \in Good
  BY <1>3
<1> QED BY <1>4

(* A path is made longer by an entry of the archive its last entry is.     *)
LEMMA PathExtends ==
  ASSUME NEW q \in Positions, Len(q) >= 1, NEW i \in Nat \ {0}, NEW p, p = Append(q, i)
  PROVE  IsPath(p) <=> IsPath(q) /\ Opens(EntryAt(q)) /\ i \in 1 .. Len(content[EntryAt(q).inner])
<1> DEFINE n == Len(q)
<1>1. /\ p \in Positions /\ n \in Nat /\ Len(p) = n + 1 /\ p[n + 1] = i
      /\ \A k \in 1 .. n : p[k] = q[k]
  BY AppendProperties DEF Positions
<1>2. \A k \in 1 .. n : ArchiveAt(p)[k] = ArchiveAt(q)[k]
  <2>1. PICK m \in Nat : m + 1 = n
    BY <1>1
  <2>2. m + 1 <= Len(p) /\ m + 1 <= Len(q) /\ \A k \in 1 .. m : p[k] = q[k]
    BY <1>1, <2>1
  <2>3. \A k \in 1 .. m + 1 : ArchiveAt(p)[k] = ArchiveAt(q)[k]
    BY <1>1, <2>2, AtAgrees
  <2> QED BY <2>1, <2>3
<1> HIDE DEF n
<1>3. n \in 1 .. n /\ n \in 1 .. Len(p) - 1 /\ 1 .. Len(p) = 1 .. n \cup {n + 1}
  BY <1>1 DEF n
<1>4. ArchiveAt(p)[n + 1] = EntryAt(q).inner
  BY <1>1, <1>2, <1>3, AtUnfolds DEF EntryAt, n
<1>5. content[ArchiveAt(p)[n]][p[n]] = EntryAt(q)
  BY <1>1, <1>2, <1>3 DEF EntryAt, n
<1>6. 1 .. Len(p) - 1 = 1 .. n - 1 \cup {n}
  BY <1>1, <1>3 DEF n
<1>7. \A k \in 1 .. n - 1 : k \in 1 .. n
  BY <1>1
<1>8. (\A k \in 1 .. Len(p) : p[k] \in 1 .. Len(content[ArchiveAt(p)[k]]))
        <=> /\ \A k \in 1 .. n : q[k] \in 1 .. Len(content[ArchiveAt(q)[k]])
            /\ i \in 1 .. Len(content[EntryAt(q).inner])
  <2>1. \A k \in 1 .. n : p[k] \in 1 .. Len(content[ArchiveAt(p)[k]]) <=> q[k] \in 1 .. Len(content[ArchiveAt(q)[k]])
    BY <1>1, <1>2
  <2>2. p[n + 1] \in 1 .. Len(content[ArchiveAt(p)[n + 1]]) <=> i \in 1 .. Len(content[EntryAt(q).inner])
    BY <1>1, <1>4
  <2> QED BY <1>3, <2>1, <2>2
<1>9. (\A k \in 1 .. Len(p) - 1 : Opens(content[ArchiveAt(p)[k]][p[k]]))
        <=> /\ \A k \in 1 .. n - 1 : Opens(content[ArchiveAt(q)[k]][q[k]])
            /\ Opens(EntryAt(q))
  BY <1>1, <1>2, <1>5, <1>6, <1>7
<1> QED BY <1>1, <1>3, <1>8, <1>9 DEF IsPath, Positions, n

(* The recursion that collects the paths has a solution. *)
Lists(n, g) ==
  g = [m \in 1 .. n |->
         IF m = 1 THEN {<<i>> : i \in 1 .. Len(content[top])}
         ELSE UNION {{Append(p, i) : i \in 1 .. Len(content[EntryAt(p).inner])} :
                       p \in {q \in g[m - 1] : Opens(EntryAt(q))}}]

(* The paths one entry longer than those in s. *)
Longer(s) ==
  UNION {{Append(p, i) : i \in 1 .. Len(content[EntryAt(p).inner])} :
                p \in {q \in s : Opens(EntryAt(q))}}

LEMMA ListsExist == ASSUME NEW n \in Nat PROVE \E g : Lists(n, g)
<1> DEFINE Good == {m \in Nat : \E g : Lists(m, g)}
           First == {<<i>> : i \in 1 .. Len(content[top])}
<1>0. \A m, g : Lists(m, g) <=> g = [k \in 1 .. m |-> IF k = 1 THEN First ELSE Longer(g[k - 1])]
  BY DEF Lists, Longer
<1> HIDE DEF First
<1>1. 0 \in Good
  <2> DEFINE h == [k \in 1 .. 0 |-> 0]
  <2>1. h = [k \in 1 .. 0 |-> IF k = 1 THEN First ELSE Longer(h[k - 1])]
    OBVIOUS
  <2>2. Lists(0, h)
    BY <1>0, <2>1
  <2> QED BY <2>2
<1>2. ASSUME NEW m \in Good PROVE m + 1 \in Good
  <2>1. PICK g : Lists(m, g)
    OBVIOUS
  <2> DEFINE h == [k \in 1 .. m + 1 |-> IF k = 1 THEN First ELSE Longer(g[k - 1])]
  <2>2. ASSUME NEW k \in 1 .. m PROVE h[k] = g[k]
    <3>1. k \in 1 .. m + 1
      OBVIOUS
    <3>2. h[k] = IF k = 1 THEN First ELSE Longer(g[k - 1])
      BY <3>1
    <3>3. g = [l \in 1 .. m |-> IF l = 1 THEN First ELSE Longer(g[l - 1])]
      BY <1>0, <2>1
    <3>4. g[k] = IF k = 1 THEN First ELSE Longer(g[k - 1])
      BY <3>3
    <3> QED BY <3>2, <3>4
  <2>3. h = [k \in 1 .. m + 1 |-> IF k = 1 THEN First ELSE Longer(h[k - 1])]
    <3>1. ASSUME NEW k \in 1 .. m + 1, k # 1 PROVE h[k - 1] = g[k - 1]
      <4>1. k - 1 \in 1 .. m
        BY <3>1
      <4> QED BY <2>2, <4>1
    <3>2. ASSUME NEW k \in 1 .. m + 1
          PROVE  (IF k = 1 THEN First ELSE Longer(g[k - 1])) = (IF k = 1 THEN First ELSE Longer(h[k - 1]))
      BY <3>1
    <3> QED BY <3>2
  <2>4. Lists(m + 1, h)
    BY <1>0, <2>3
  <2> HIDE DEF h
  <2> QED BY <2>4
<1>3. Good = Nat
  BY <1>1, <1>2, Induct
<1> QED BY <1>3

(* Paths are the paths that can be walked, up to one level below the cap.  *)
LEMMA PathsAre ==
  ASSUME TypeOK
  PROVE  \A p : p \in Paths <=> IsPath(p) /\ Len(p) <= maxDepth + 2
<1>0. maxDepth \in Nat /\ maxDepth + 2 \in Nat
  BY DEF TypeOK
<1> DEFINE N == maxDepth + 2
           P == PathsOfLength
<1>1. Lists(N, P)
  <2>1. P = CHOOSE g : Lists(N, g)
    BY DEF PathsOfLength, Lists
  <2>2. \E g : Lists(N, g)
    BY <1>0, ListsExist
  <2> HIDE DEF P
  <2> QED BY <2>1, <2>2
<1>2. P[1] = {<<i>> : i \in 1 .. Len(content[top])}
  BY <1>0, <1>1 DEF Lists
<1>3. ASSUME NEW n \in 1 .. N - 1
      PROVE  P[n + 1] = Longer(P[n])
  <2>1. n + 1 \in 1 .. N /\ n + 1 # 1 /\ (n + 1) - 1 = n
    BY <1>0
  <2> QED BY <1>1, <2>1 DEF Lists, Longer
<1> HIDE DEF P
<1> DEFINE Right(n) == \A p : p \in P[n] <=> IsPath(p) /\ Len(p) = n
           Good == {n \in Nat : n + 1 <= N => Right(n + 1)}
<1>4. Right(1)
  <2>1. ASSUME NEW p \in P[1] PROVE IsPath(p) /\ Len(p) = 1
    <3>1. PICK i \in 1 .. Len(content[top]) : p = <<i>>
      BY <1>2, <2>1
    <3>2. p \in Positions /\ Len(p) = 1 /\ p[1] = i
      BY <3>1 DEF Positions
    <3>3. ArchiveAt(p)[1] = top
      BY <3>2, AtUnfolds
    <3> QED BY <3>1, <3>2, <3>3 DEF IsPath, Positions
  <2>2. ASSUME NEW p, IsPath(p), Len(p) = 1 PROVE p \in P[1]
    <3>1. p \in Positions /\ p = <<p[1]>>
      BY <2>2 DEF IsPath, Positions
    <3>2. p[1] \in 1 .. Len(content[top])
      BY <2>2, <3>1, AtUnfolds DEF IsPath
    <3> QED BY <1>2, <3>1, <3>2
  <2> QED BY <2>1, <2>2
<1>5. ASSUME NEW n \in Nat, n + 2 <= N, Right(n + 1) PROVE Right(n + 2)
  <2>1. n + 1 \in 1 .. N - 1 /\ (n + 1) + 1 = n + 2
    BY <1>0, <1>5
  <2>2. P[n + 2] = Longer(P[n + 1])
    BY <1>3, <2>1
  <2>3. ASSUME NEW p \in P[n + 2] PROVE IsPath(p) /\ Len(p) = n + 2
    <3>1. PICK q \in P[n + 1] : Opens(EntryAt(q)) /\ \E i \in 1 .. Len(content[EntryAt(q).inner]) : p = Append(q, i)
      BY <2>2, <2>3 DEF Longer
    <3>2. PICK i \in 1 .. Len(content[EntryAt(q).inner]) : p = Append(q, i)
      BY <3>1
    <3>3. IsPath(q) /\ Len(q) = n + 1 /\ Len(q) >= 1 /\ q \in Positions /\ i \in Nat \ {0}
      BY <1>5 DEF IsPath, Positions
    <3>4. Len(p) = n + 2
      BY <3>2, <3>3, AppendProperties DEF Positions
    <3> QED BY <3>1, <3>2, <3>3, <3>4, PathExtends
  <2>4. ASSUME NEW p, IsPath(p), Len(p) = n + 2 PROVE p \in P[n + 2]
    <3> DEFINE q == SubSeq(p, 1, n + 1)
               i == p[n + 2]
    <3>1. p \in Positions /\ i \in Nat \ {0} /\ \A k \in 1 .. n + 1 : p[k] \in Nat \ {0}
      BY <2>4 DEF IsPath, Positions
    <3>2. q \in Positions /\ Len(q) = n + 1 /\ \A k \in 1 .. n + 1 : q[k] = p[k]
      <4>1. 1 \in Int /\ n + 1 \in Int /\ 1 <= n + 1 /\ (n + 1) - 1 + 1 = n + 1 /\ \A k \in 1 .. n + 1 : 1 + k - 1 = k
        OBVIOUS
      <4> QED BY <3>1, <4>1, SubSeqProperties DEF Positions
    <3> HIDE DEF q, i
    <3>3. p = Append(q, i)
      <4>1. Append(q, i) \in Seq(Nat \ {0}) /\ Len(Append(q, i)) = n + 2
            /\ \A k \in 1 .. n + 2 : Append(q, i)[k] = p[k]
        BY <3>1, <3>2, AppendProperties DEF Positions, i
      <4> QED BY <2>4, <3>1, <4>1, SeqEqual DEF Positions
    <3>4. IsPath(q) /\ Opens(EntryAt(q)) /\ i \in 1 .. Len(content[EntryAt(q).inner])
      <4>1. Len(q) >= 1
        BY <3>2
      <4> QED BY <2>4, <3>1, <3>2, <3>3, <4>1, PathExtends
    <3>5. q \in P[n + 1]
      BY <1>5, <3>2, <3>4
    <3> QED BY <2>2, <3>3, <3>4, <3>5 DEF Longer
  <2> QED BY <2>3, <2>4
<1>6. 0 \in Good
  BY <1>4
<1>7. ASSUME NEW n \in Good PROVE n + 1 \in Good
  <2> HIDE DEF Right
  <2>1. n \in Nat /\ (n + 1) + 1 = n + 2
    OBVIOUS
  <2>2. n + 2 <= N => Right(n + 1)
    BY <1>0, <2>1
  <2> QED BY <1>5, <2>1, <2>2
<1>8. Good = Nat
  <2>1. Good \in SUBSET Nat
    OBVIOUS
  <2> HIDE DEF Good
  <2> QED BY <2>1, <1>6, <1>7, Induct
<1>9. ASSUME NEW n \in 1 .. N PROVE Right(n)
  <2> HIDE DEF Right
  <2>1. n - 1 \in Nat /\ (n - 1) + 1 = n /\ n <= N
    BY <1>0
  <2>2. n - 1 \in Good
    <3> HIDE DEF Good
    <3> QED BY <1>8, <2>1
  <2> QED BY <2>1, <2>2
<1>10. ASSUME NEW p, IsPath(p) PROVE Len(p) \in Nat /\ Len(p) >= 1
  BY <1>10 DEF IsPath
<1> QED BY <1>0, <1>9, <1>10 DEF Paths, P

-----------------------------------------------------------------------------
(* The archives on the stack are those along every path that begins with   *)
(* their positions.                                                        *)
LEMMA StackAlong ==
  ASSUME TypeOK, Chained, NEW p \in Positions, NEW m \in 1 .. Len(stack),
         m <= Len(p), Along(stack, p, m - 1)
  PROVE  \A k \in 1 .. m : ArchiveAt(p)[k] = stack[k].archive
<1>1. Len(stack) \in Nat /\ Len(p) \in Nat /\ stack # <<>>
  BY EmptySeq DEF TypeOK, Positions
<1> DEFINE Good == {n \in Nat : n + 1 <= m => ArchiveAt(p)[n + 1] = stack[n + 1].archive}
<1>2. 0 \in Good
  BY <1>1, AtUnfolds DEF Chained
<1>3. ASSUME NEW n \in Good PROVE n + 1 \in Good
  <2>1. SUFFICES ASSUME (n + 1) + 1 <= m PROVE ArchiveAt(p)[(n + 1) + 1] = stack[(n + 1) + 1].archive
    OBVIOUS
  <2>2. n + 1 \in 1 .. Len(p) - 1 /\ n + 1 \in 1 .. Len(stack) - 1 /\ n + 1 \in 1 .. m - 1
    BY <1>1, <2>1
  <2>3. ArchiveAt(p)[n + 1] = stack[n + 1].archive
    BY <2>1
  <2>4. ArchiveAt(p)[(n + 1) + 1] = content[stack[n + 1].archive][stack[n + 1].pos].inner
    BY <2>2, <2>3, AtUnfolds DEF Along
  <2> QED BY <2>2, <2>4 DEF Chained
<1>4. Good = Nat
  BY <1>2, <1>3, Induct
<1>5. ASSUME NEW k \in 1 .. m PROVE ArchiveAt(p)[k] = stack[k].archive
  <2>1. k - 1 \in Nat /\ (k - 1) + 1 = k /\ k <= m
    OBVIOUS
  <2>2. k - 1 \in Good
    <3> HIDE DEF Good
    <3> QED BY <1>4, <2>1
  <2> QED BY <2>1, <2>2
<1> QED BY <1>5

(* While there is an entry to read, the path to it is one of the paths,    *)
(* leads to that entry, and has not been passed.                           *)
LEMMA PathIs ==
  ASSUME TypeOK, Chained, Scanning
  PROVE  /\ Path \in Positions /\ Len(Path) = Len(stack)
         /\ \A k \in 1 .. Len(stack) : Path[k] = stack[k].pos
         /\ ~ Passed(Path)
         /\ Path[Len(Path)] = Frame.pos /\ ArchiveAt(Path)[Len(Path)] = Frame.archive
         /\ More => Walked(Path) /\ EntryAt(Path) = Here
<1> DEFINE L == Len(stack)
<1>1. L \in Nat /\ L >= 1 /\ L <= maxDepth + 1 /\ maxDepth \in Nat
  BY HereType DEF TypeOK
<1>2. \A k \in 1 .. L : stack[k] \in FrameType /\ stack[k].pos \in Nat \ {0}
  <2>1. stack \in Seq(FrameType)
    BY DEF TypeOK, FrameType
  <2>2. \A k \in 1 .. L : stack[k] \in FrameType
    BY <2>1, ElementOfSeq
  <2> QED BY <2>2 DEF FrameType
<1>3. Path \in Positions /\ Len(Path) = L /\ \A k \in 1 .. L : Path[k] = stack[k].pos
  BY <1>1, <1>2, IsASeq DEF Path, Positions
<1>4. ~ Passed(Path)
  BY <1>1, <1>2, <1>3 DEF Passed, Behind, Scanning
<1>5. \A k \in 1 .. L : ArchiveAt(Path)[k] = stack[k].archive
  <2>1. L \in 1 .. L /\ Along(stack, Path, L - 1) /\ L <= Len(Path)
    BY <1>1, <1>3 DEF Along
  <2> QED BY <1>3, <2>1, StackAlong
<1>6. ASSUME More PROVE Walked(Path) /\ EntryAt(Path) = Here
  <2>1. L \in 1 .. L
    BY <1>1
  <2>2. EntryAt(Path) = Here
    BY <1>3, <1>5, <2>1 DEF EntryAt, Here, Frame
  <2>3. ASSUME NEW k \in 1 .. L PROVE Path[k] \in 1 .. Len(content[ArchiveAt(Path)[k]])
    <3>1. Path[k] = stack[k].pos /\ ArchiveAt(Path)[k] = stack[k].archive /\ stack[k].pos \in Nat \ {0}
      BY <1>2, <1>3, <1>5
    <3>2. stack[k].pos <= Len(content[stack[k].archive])
      <4>1. CASE k = L
        BY <1>6, <4>1 DEF More, Frame
      <4>2. CASE k # L
        <5>1. k \in 1 .. L - 1
          BY <1>1, <4>2
        <5> QED BY <5>1 DEF Chained
      <4> QED BY <4>1, <4>2
    <3>3. Len(content[stack[k].archive]) \in Nat
      BY <1>2 DEF TypeOK, FrameType
    <3> QED BY <3>1, <3>2, <3>3
  <2>4. ASSUME NEW k \in 1 .. L - 1 PROVE Opens(content[ArchiveAt(Path)[k]][Path[k]])
    <3>1. k \in 1 .. L
      BY <1>1
    <3> QED BY <1>3, <1>5, <3>1 DEF Chained
  <2> QED BY <1>1, <1>3, <2>2, <2>3, <2>4 DEF IsPath, Walked, Positions
<1>7. Path[Len(Path)] = Frame.pos /\ ArchiveAt(Path)[Len(Path)] = Frame.archive
  <2>1. L \in 1 .. L
    BY <1>1
  <2> QED BY <1>3, <1>5, <2>1 DEF Frame
<1> QED BY <1>3, <1>4, <1>6, <1>7

(* The paths through the current entry, itself included: no other entry is *)
(* below it unless it is an archive that opens.                            *)
LEMMA BelowHere ==
  ASSUME TypeOK, Chained, Scanning, NEW p, IsPath(p), Len(stack) < Len(p), Along(stack, p, Len(stack))
  PROVE  More /\ Opens(Here)
<1> DEFINE L == Len(stack)
<1>1. L \in Nat /\ L >= 1 /\ Len(p) \in Nat /\ p \in Positions /\ L \in 1 .. L
  BY HereType DEF IsPath, Positions
<1>2. Along(stack, p, L - 1)
  BY <1>1 DEF Along
<1>3. ArchiveAt(p)[L] = stack[L].archive
  BY <1>1, <1>2, StackAlong
<1>4. p[L] = stack[L].pos /\ L \in 1 .. Len(p) - 1 /\ L \in 1 .. Len(p)
  BY <1>1 DEF Along
<1> QED BY <1>1, <1>3, <1>4 DEF IsPath, More, Frame, Here

(* The loop moves on: only the position in the last frame changes. *)
LEMMA AdvancedFrames ==
  ASSUME NEW s \in Seq(FrameType), Len(s) >= 1
  PROVE  /\ Len(Advanced(s)) = Len(s)
         /\ \A k \in 1 .. Len(s) :
              /\ Advanced(s)[k].archive = s[k].archive
              /\ Advanced(s)[k].pos = IF k = Len(s) THEN s[Len(s)].pos + 1 ELSE s[k].pos
<1> DEFINE L == Len(s)
           f == [s[L] EXCEPT !.pos = @ + 1]
<1>1. L \in 1 .. L
  OBVIOUS
<1>2. s[L] \in FrameType
  BY <1>1, ElementOfSeq
<1>3. f \in FrameType /\ f.pos = s[L].pos + 1 /\ f.archive = s[L].archive
  BY <1>2 DEF FrameType
<1>4. Advanced(s) = [s EXCEPT ![L] = f]
  BY DEF Advanced
<1> HIDE DEF f
<1>5. Len(Advanced(s)) = L /\ \A k \in 1 .. L : Advanced(s)[k] = IF k = L THEN f ELSE s[k]
  BY <1>1, <1>3, <1>4, ExceptSeq
<1> QED BY <1>3, <1>5

(* Moving on to the next entry passes the current one and what is below.   *)
LEMMA BehindAdvanced ==
  ASSUME NEW s \in Seq(FrameType), Len(s) >= 1, NEW p \in Positions
  PROVE  Behind(Advanced(s), p) <=> Behind(s, p) \/ (Len(s) <= Len(p) /\ Along(s, p, Len(s)))
<1> DEFINE L == Len(s)
           t == Advanced(s)
<1>1. L \in Nat /\ L >= 1 /\ L \in 1 .. L /\ L - 1 \in 0 .. L - 1 /\ Len(p) \in Nat
      /\ \A k \in 1 .. Len(p) : p[k] \in Nat
  BY DEF Positions
<1>2. s[L] \in FrameType /\ s[L].pos \in Nat
  <2>1. s[L] \in FrameType
    BY <1>1, ElementOfSeq
  <2> QED BY <2>1 DEF FrameType
<1>3. Len(t) = L /\ \A k \in 1 .. L : t[k].pos = IF k = L THEN s[L].pos + 1 ELSE s[k].pos
  BY AdvancedFrames
<1> HIDE DEF L, t
<1>4. ASSUME NEW k \in 0 .. L - 1 PROVE Along(t, p, k) <=> Along(s, p, k)
  <2>1. \A j \in 1 .. k : j \in 1 .. L /\ j # L
    BY <1>1
  <2> QED BY <1>3, <2>1 DEF Along
<1>5. Along(s, p, L) <=> Along(s, p, L - 1) /\ p[L] = s[L].pos
  <2>1. 1 .. L = 1 .. L - 1 \cup {L}
    BY <1>1
  <2> QED BY <2>1 DEF Along
<1> DEFINE Old(k) == k <= Len(p) /\ Along(s, p, k - 1) /\ p[k] < s[k].pos
           New(k) == k <= Len(p) /\ Along(t, p, k - 1) /\ p[k] < t[k].pos
<1>6. ASSUME NEW k \in 1 .. L, k # L PROVE New(k) <=> Old(k)
  <2>1. k - 1 \in 0 .. L - 1
    BY <1>1
  <2> QED BY <1>3, <1>4, <1>6, <2>1
<1>7. New(L) <=> Old(L) \/ (L <= Len(p) /\ Along(s, p, L))
  <2>1. (Along(t, p, L - 1) <=> Along(s, p, L - 1)) /\ t[L].pos = s[L].pos + 1
    BY <1>1, <1>3, <1>4
  <2>2. L <= Len(p) => (p[L] < s[L].pos + 1 <=> p[L] < s[L].pos \/ p[L] = s[L].pos)
    <3>1. L <= Len(p) => p[L] \in Nat
      BY <1>1
    <3> QED BY <1>2, <3>1
  <2> QED BY <1>5, <2>1, <2>2
<1>8. (Len(p) < Len(t) /\ Along(t, p, Len(p))) <=> (Len(p) < L /\ Along(s, p, Len(p)))
  BY <1>1, <1>3, <1>4
<1> HIDE DEF Old, New
<1>9. (\E k \in 1 .. L : New(k)) <=> (\E k \in 1 .. L : Old(k)) \/ (L <= Len(p) /\ Along(s, p, L))
  BY <1>1, <1>6, <1>7
<1> QED BY <1>3, <1>8, <1>9 DEF Behind, Old, New, L, t

(* Leaving an archive passes everything below the entry it was opened as.  *)
LEMMA BehindCallers ==
  ASSUME NEW s \in Seq(FrameType), Len(s) >= 2, NEW p \in Positions
  PROVE  LET callers == SubSeq(s, 1, Len(s) - 1) IN
         /\ callers \in Seq(FrameType) /\ Len(callers) = Len(s) - 1
         /\ \A k \in 1 .. Len(s) - 1 : callers[k] = s[k]
         /\ Behind(s, p) <=>
              \/ Behind(callers, p)
              \/ Len(p) = Len(s) - 1 /\ Along(s, p, Len(p))
              \/ Len(s) <= Len(p) /\ Along(s, p, Len(s) - 1) /\ p[Len(s)] < s[Len(s)].pos
         /\ Along(callers, p, Len(s) - 1) <=> Along(s, p, Len(s) - 1)
<1> DEFINE L == Len(s)
           c == SubSeq(s, 1, L - 1)
<1>1. L \in Nat /\ L >= 2 /\ Len(p) \in Nat
  BY DEF Positions
<1>2. c \in Seq(FrameType) /\ Len(c) = L - 1 /\ \A k \in 1 .. L - 1 : c[k] = s[k]
  <2>1. 1 \in Int /\ L - 1 \in Int /\ 1 <= L - 1 /\ (L - 1) - 1 + 1 = L - 1 /\ \A k \in 1 .. L - 1 : 1 + k - 1 = k /\ k \in 1 .. L
    BY <1>1
  <2>2. \A k \in 1 .. L - 1 : s[k] \in FrameType
    BY <2>1, ElementOfSeq
  <2> QED BY <2>1, <2>2, SubSeqProperties
<1> HIDE DEF L, c
<1>3. ASSUME NEW k \in 0 .. L - 1 PROVE Along(c, p, k) <=> Along(s, p, k)
  <2>1. \A j \in 1 .. k : j \in 1 .. L - 1
    BY <1>1
  <2> QED BY <1>2, <2>1 DEF Along
<1> DEFINE Old(k) == k <= Len(p) /\ Along(s, p, k - 1) /\ p[k] < s[k].pos
           New(k) == k <= Len(p) /\ Along(c, p, k - 1) /\ p[k] < c[k].pos
<1>4. ASSUME NEW k \in 1 .. L - 1 PROVE New(k) <=> Old(k)
  <2>1. k - 1 \in 0 .. L - 1
    BY <1>1
  <2> QED BY <1>2, <1>3, <2>1
<1>5. 1 .. L = 1 .. L - 1 \cup {L}
  BY <1>1
<1>6. (\E k \in 1 .. L : Old(k)) <=> (\E k \in 1 .. L - 1 : New(k)) \/ Old(L)
  <2> HIDE DEF Old, New
  <2> QED BY <1>4, <1>5
<1>7. (Len(p) < L /\ Along(s, p, Len(p)))
        <=> (Len(p) < L - 1 /\ Along(c, p, Len(p))) \/ (Len(p) = L - 1 /\ Along(s, p, Len(p)))
  BY <1>1, <1>3
<1>8. Along(c, p, L - 1) <=> Along(s, p, L - 1)
  BY <1>1, <1>3
<1>9. Behind(s, p) <=> (\E k \in 1 .. L : Old(k)) \/ (Len(p) < L /\ Along(s, p, Len(p)))
  BY DEF Behind, L
<1>10. Behind(c, p) <=> (\E k \in 1 .. L - 1 : New(k)) \/ (Len(p) < L - 1 /\ Along(c, p, Len(p)))
  BY <1>2 DEF Behind
<1>11. Old(L) <=> L <= Len(p) /\ Along(s, p, L - 1) /\ p[L] < s[L].pos
  OBVIOUS
<1> HIDE DEF Old, New
<1>12. Behind(s, p) <=>
         \/ Behind(c, p)
         \/ Len(p) = L - 1 /\ Along(s, p, Len(p))
         \/ L <= Len(p) /\ Along(s, p, L - 1) /\ p[L] < s[L].pos
  BY <1>6, <1>7, <1>9, <1>10, <1>11
<1> QED BY <1>2, <1>8, <1>12 DEF L, c

-----------------------------------------------------------------------------
(* What each way of moving the stack passes. *)
LEMMA NextEntry ==
  ASSUME TypeOK, Chained, Scanning, stack' = Advanced(stack), UNCHANGED <<input, outcome>>
  PROVE  /\ Chained'
         /\ \A p \in Positions : Passed(p) => Passed(p)'
         /\ \A p : p = Path => Passed(p)'
         /\ ~ (More /\ Opens(Here)) => \A p : IsPath(p) /\ Passed(p)' => Passed(p) \/ p = Path
<1> DEFINE L == Len(stack)
<1>1. stack \in Seq(FrameType) /\ L \in Nat /\ L >= 1 /\ outcome = "scanning"
  BY HereType DEF TypeOK, FrameType, Scanning
<1>2. \A p \in Positions : Passed(p)' <=> Passed(p) \/ (L <= Len(p) /\ Along(stack, p, L))
  BY <1>1, BehindAdvanced DEF Passed
<1>3. Path \in Positions /\ Len(Path) = L /\ \A k \in 1 .. L : Path[k] = stack[k].pos
  BY PathIs
<1>4. ASSUME NEW p, p = Path PROVE Passed(p)'
  BY <1>1, <1>2, <1>3, <1>4 DEF Along
<1>5. ASSUME ~ (More /\ Opens(Here)), NEW p, IsPath(p), Passed(p)' PROVE Passed(p) \/ p = Path
  <2>1. p \in Positions /\ Len(p) \in Nat
    BY <1>5 DEF IsPath, Positions
  <2>2. SUFFICES ASSUME L <= Len(p), Along(stack, p, L) PROVE p = Path
    BY <1>2, <1>5, <2>1
  <2>3. Len(p) = L
    BY <1>1, <1>5, <2>1, <2>2, BelowHere
  <2>4. \A k \in 1 .. Len(p) : p[k] = Path[k]
    BY <1>3, <2>2, <2>3 DEF Along
  <2> QED BY <1>3, <2>1, <2>3, <2>4, SeqEqual DEF Positions
<1>6. Chained'
  <2>1. Len(stack') = L /\ \A k \in 1 .. L : stack'[k].archive = stack[k].archive
    BY <1>1, AdvancedFrames
  <2>2. \A k \in 1 .. L - 1 : stack'[k].pos = stack[k].pos /\ k \in 1 .. L /\ k + 1 \in 1 .. L
    BY <1>1, AdvancedFrames
  <2>3. stack # <<>> /\ 1 \in 1 .. L
    BY <1>1, EmptySeq
  <2>4. stack'[1].archive = top'
    BY <2>1, <2>3 DEF Chained, input
  <2>5. ASSUME NEW k \in 1 .. L - 1
        PROVE  LET e == content[stack'[k].archive][stack'[k].pos] IN
               stack'[k].pos <= Len(content[stack'[k].archive]) /\ Opens(e) /\ stack'[k + 1].archive = e.inner
    BY <2>1, <2>2 DEF Chained
  <2> QED BY <1>1, <2>1, <2>4, <2>5 DEF Chained, input, Opens
<1> QED BY <1>2, <1>4, <1>5, <1>6

LEMMA NextOfCaller ==
  ASSUME TypeOK, Chained, Scanning, Return, UNCHANGED input
  PROVE  /\ Chained'
         /\ \A p \in Positions : Passed(p) => Passed(p)'
         /\ \A p : p = Path => Passed(p)'
         /\ ~ More => \A p : IsPath(p) /\ Passed(p)' => Passed(p)
<1> DEFINE L == Len(stack)
<1>1. stack \in Seq(FrameType) /\ L \in Nat /\ L >= 1 /\ outcome = "scanning" /\ stack # <<>>
  BY HereType DEF TypeOK, FrameType, Scanning
<1>2. Path \in Positions /\ Len(Path) = L /\ \A k \in 1 .. L : Path[k] = stack[k].pos
  BY PathIs
<1>3. ASSUME ~ More, NEW p, IsPath(p), L <= Len(p), Along(stack, p, L - 1) PROVE p[L] < stack[L].pos
  <2>1. p \in Positions /\ L \in 1 .. L /\ L \in 1 .. Len(p)
    BY <1>1, <1>3 DEF IsPath, Positions
  <2>2. ArchiveAt(p)[L] = stack[L].archive
    BY <1>3, <2>1, StackAlong
  <2>3. p[L] \in 1 .. Len(content[stack[L].archive])
    BY <1>3, <2>1, <2>2 DEF IsPath
  <2>4. stack[L] \in FrameType
    BY <2>1, HereType DEF Frame
  <2>5. Len(content[stack[L].archive]) \in Nat /\ stack[L].pos \in Nat
    BY <2>4 DEF TypeOK, FrameType
  <2>6. ~ (stack[L].pos <= Len(content[stack[L].archive]))
    BY <1>3 DEF More, Frame
  <2> QED BY <2>3, <2>5, <2>6
<1>4. CASE L = 1
  <2>1. stack' = <<>> /\ outcome' = "done"
    BY <1>4 DEF Return
  <2>2. \A p : Passed(p)'
    BY <2>1 DEF Passed
  <2>3. Chained'
    BY <2>1, EmptySeq DEF Chained
  <2>4. ASSUME ~ More, NEW p, IsPath(p) PROVE Passed(p)
    <3>1. 1 <= Len(p) /\ Along(stack, p, 0)
      BY <2>4 DEF IsPath, Along
    <3>2. p[1] < stack[1].pos
      BY <1>3, <1>4, <2>4, <3>1
    <3> QED BY <1>1, <1>4, <3>1, <3>2 DEF Passed, Behind
  <2> QED BY <2>2, <2>3, <2>4
<1>5. CASE L # 1
  <2> DEFINE c == SubSeq(stack, 1, L - 1)
  <2>1. L >= 2
    <3>1. ASSUME NEW n \in Nat, n >= 1, n # 1 PROVE n >= 2
      BY <3>1
    <3> HIDE DEF L
    <3> QED BY <1>1, <1>5, <3>1
  <2>2. stack' = Advanced(c) /\ outcome' = outcome
    BY <1>5 DEF Return
  <2>3. /\ c \in Seq(FrameType) /\ Len(c) = L - 1
        /\ \A k \in 1 .. L - 1 : c[k] = stack[k]
        /\ \A p \in Positions :
             /\ Behind(stack, p) <=>
                  \/ Behind(c, p)
                  \/ Len(p) = L - 1 /\ Along(stack, p, Len(p))
                  \/ L <= Len(p) /\ Along(stack, p, L - 1) /\ p[L] < stack[L].pos
             /\ Along(c, p, L - 1) <=> Along(stack, p, L - 1)
    BY <1>1, <1>2, <2>1, BehindCallers
  <2> HIDE DEF c
  <2>4. \A p \in Positions : Passed(p)' <=> Behind(c, p) \/ (L - 1 <= Len(p) /\ Along(stack, p, L - 1))
    BY <1>1, <2>1, <2>2, <2>3, BehindAdvanced DEF Passed
  <2>5. ASSUME NEW p \in Positions PROVE Passed(p) <=> Behind(stack, p)
    BY <1>1 DEF Passed
  <2>6. ASSUME NEW p \in Positions, Passed(p) PROVE Passed(p)'
    <3>1. Len(p) \in Nat
      BY DEF Positions
    <3> QED BY <1>1, <2>3, <2>4, <2>5, <2>6, <3>1
  <2>7. ASSUME NEW p, p = Path PROVE Passed(p)'
    <3>1. L - 1 <= Len(p) /\ Along(stack, p, L - 1)
      BY <1>1, <1>2, <2>7 DEF Along
    <3> QED BY <1>2, <2>4, <2>7, <3>1
  <2>8. ASSUME ~ More, NEW p, IsPath(p), Passed(p)' PROVE Passed(p)
    <3>1. p \in Positions /\ Len(p) \in Nat
      BY <2>8 DEF IsPath, Positions
    <3>2. CASE Behind(c, p)
      BY <2>3, <2>5, <3>1, <3>2
    <3>3. CASE Along(stack, p, L - 1) /\ Len(p) = L - 1
      BY <2>3, <2>5, <3>1, <3>3
    <3>4. CASE Along(stack, p, L - 1) /\ L <= Len(p)
      <4>1. p[L] < stack[L].pos
        BY <1>3, <2>8, <3>4
      <4> QED BY <2>3, <2>5, <3>1, <3>4, <4>1
    <3> QED BY <1>1, <2>4, <2>8, <3>1, <3>2, <3>3, <3>4
  <2>9. Chained'
    <3>1. Len(stack') = L - 1 /\ L - 1 >= 1 /\ \A k \in 1 .. L - 1 : stack'[k].archive = stack[k].archive
      <4>1. L - 1 >= 1
        BY <1>1, <2>1
      <4> QED BY <2>2, <2>3, <4>1, AdvancedFrames
    <3>2. \A k \in 1 .. (L - 1) - 1 : stack'[k].pos = stack[k].pos /\ k \in 1 .. L - 1 /\ k + 1 \in 1 .. L - 1
      <4>1. L - 1 >= 1 /\ \A k \in 1 .. (L - 1) - 1 : k # L - 1 /\ k \in 1 .. L - 1 /\ k + 1 \in 1 .. L - 1
        BY <1>1, <2>1
      <4>2. \A k \in 1 .. L - 1 : k # L - 1 => stack'[k].pos = c[k].pos
        BY <2>2, <2>3, <4>1, AdvancedFrames
      <4> QED BY <2>3, <4>1, <4>2
    <3>3. stack'[1].archive = top'
      BY <1>1, <3>1 DEF Chained, input
    <3>4. ASSUME NEW k \in 1 .. (L - 1) - 1
          PROVE  LET e == content[stack'[k].archive][stack'[k].pos] IN
                 stack'[k].pos <= Len(content[stack'[k].archive]) /\ Opens(e) /\ stack'[k + 1].archive = e.inner
      <4>1. k \in 1 .. L - 1
        BY <1>1
      <4> QED BY <3>1, <3>2, <4>1 DEF Chained
    <3> QED BY <1>1, <2>2, <3>1, <3>3, <3>4 DEF Chained, input, Opens
  <2> QED BY <2>6, <2>7, <2>8, <2>9
<1> QED BY <1>4, <1>5

LEMMA FirstOfNested ==
  ASSUME TypeOK, Chained, Scanning, More, Opens(Here), UNCHANGED <<input, outcome>>,
         stack' = Append(stack, [archive |-> Here.inner, pos |-> 1])
  PROVE  /\ Chained'
         /\ \A p \in Positions : Passed(p) => Passed(p)'
         /\ \A p : p = Path => Passed(p)'
         /\ \A p : IsPath(p) /\ Passed(p)' => Passed(p) \/ p = Path
<1> DEFINE L == Len(stack)
           f == [archive |-> Here.inner, pos |-> 1]
<1>1. stack \in Seq(FrameType) /\ L \in Nat /\ L >= 1 /\ outcome = "scanning" /\ stack # <<>>
  BY HereType DEF TypeOK, FrameType, Scanning
<1>2. f \in FrameType
  BY HereType DEF Entry, FrameType
<1>3. /\ stack' \in Seq(FrameType) /\ Len(stack') = L + 1 /\ stack'[L + 1] = f
      /\ \A k \in 1 .. L : stack'[k] = stack[k]
  BY <1>1, <1>2, AppendProperties
<1>4. f.pos = 1 /\ f.archive = Here.inner
  OBVIOUS
<1> HIDE DEF f
<1>5. Path \in Positions /\ Len(Path) = L /\ \A k \in 1 .. L : Path[k] = stack[k].pos
  BY PathIs
<1>6. SubSeq(stack', 1, (L + 1) - 1) = stack
  <2>1. (L + 1) - 1 = L /\ 1 \in Int /\ L \in Int /\ L - 1 + 1 = L /\ 1 <= L /\ \A k \in 1 .. L : 1 + k - 1 = k
    BY <1>1
  <2>2. \A k \in 1 .. L : stack'[k] \in FrameType
    BY <1>1, <1>3, ElementOfSeq
  <2>3. /\ SubSeq(stack', 1, L) \in Seq(FrameType) /\ Len(SubSeq(stack', 1, L)) = L
        /\ \A k \in 1 .. L : SubSeq(stack', 1, L)[k] = stack[k]
    BY <1>3, <2>1, <2>2, SubSeqProperties
  <2> QED BY <1>1, <2>1, <2>3, SeqEqual
<1>7. ASSUME NEW p \in Positions PROVE Passed(p)' <=> Passed(p) \/ (Len(p) = L /\ Along(stack, p, L))
  <2>1. Len(p) \in Nat /\ \A k \in 1 .. Len(p) : p[k] \in Nat \ {0}
    BY DEF Positions
  <2>2. Behind(stack', p) <=>
          \/ Behind(stack, p)
          \/ Len(p) = L /\ Along(stack', p, Len(p))
          \/ L + 1 <= Len(p) /\ Along(stack', p, L) /\ p[L + 1] < stack'[L + 1].pos
    <3>1. Len(stack') >= 2 /\ Len(stack') - 1 = L
      BY <1>1, <1>3
    <3>2. Behind(stack', p) <=>
            \/ Behind(SubSeq(stack', 1, Len(stack') - 1), p)
            \/ Len(p) = Len(stack') - 1 /\ Along(stack', p, Len(p))
            \/ Len(stack') <= Len(p) /\ Along(stack', p, Len(stack') - 1) /\ p[Len(stack')] < stack'[Len(stack')].pos
      BY <1>3, <3>1, BehindCallers
    <3> QED BY <1>3, <1>6, <3>1, <3>2
  <2>3. L + 1 <= Len(p) => ~ (p[L + 1] < stack'[L + 1].pos)
    BY <1>1, <1>3, <1>4, <2>1
  <2>4. Along(stack', p, L) <=> Along(stack, p, L)
    BY <1>3 DEF Along
  <2> QED BY <1>1, <2>2, <2>3, <2>4 DEF Passed
<1>8. ASSUME NEW p, p = Path PROVE Passed(p)'
  BY <1>5, <1>7, <1>8 DEF Along
<1>9. ASSUME NEW p, IsPath(p), Passed(p)' PROVE Passed(p) \/ p = Path
  <2>1. p \in Positions
    BY <1>9 DEF IsPath, Positions
  <2>2. ASSUME Len(p) = L, Along(stack, p, L) PROVE p = Path
    BY <1>5, <2>1, <2>2, SeqEqual DEF Along, Positions
  <2> QED BY <1>7, <1>9, <2>1, <2>2
<1>10. Chained'
  <2>1. stack'[1].archive = top'
    BY <1>1, <1>3 DEF Chained, input
  <2>2. ASSUME NEW k \in 1 .. L
        PROVE  LET e == content[stack'[k].archive][stack'[k].pos] IN
               stack'[k].pos <= Len(content[stack'[k].archive]) /\ Opens(e) /\ stack'[k + 1].archive = e.inner
    <3>1. CASE k = L
      BY <1>3, <1>4, <3>1 DEF Here, More, Frame
    <3>2. CASE k # L
      <4>1. k \in 1 .. L - 1 /\ k + 1 \in 1 .. L
        BY <1>1, <3>2
      <4> QED BY <1>3, <4>1 DEF Chained
    <3> QED BY <3>1, <3>2
  <2>3. Len(stack') - 1 = L
    BY <1>1, <1>3
  <2> QED BY <1>1, <2>1, <2>2, <2>3 DEF Chained, input, Opens
<1> QED BY <1>7, <1>8, <1>9, <1>10

(* What a step owes to the coverage: it passes no wanted entry that is not *)
(* read, except one that it says it left out.                              *)
LEMMA CoveredBy ==
  ASSUME TypeOK, Chained, Covered, Scanning, UNCHANGED input,
         \A p \in Positions : Passed(p) => Passed(p)',
         \A p : p = Path => Passed(p)',
         read' \in {read, read \cup {Path}},
         truncated' \in BOOLEAN, truncated => truncated',
         truncated' => truncated \/ (More /\ Here.kind # "dir"
                                     /\ (Path \notin read' \/ (Here.kind = "archive" /\ Len(stack) > maxDepth))),
         ~ truncated' => \A p : Walked(p) /\ Passed(p)' /\ Wanted(p) =>
                           Passed(p) \/ (p = Path /\ p \in read' /\ (Here.kind = "archive" => Len(stack) <= maxDepth))
  PROVE  Covered'
<1>1. /\ Path \in Positions /\ Len(Path) = Len(stack) /\ ~ Passed(Path)
      /\ More => Walked(Path) /\ EntryAt(Path) = Here
  BY PathIs
<1>2. \A p : EntryAt(p)' = EntryAt(p) /\ (Walked(p)' <=> Walked(p)) /\ (Wanted(p)' <=> Wanted(p))
  <2>1. \A p : EntryAt(p)' = EntryAt(p) /\ (IsPath(p)' <=> IsPath(p))
    BY InputKept
  <2> QED BY <2>1 DEF Walked, Wanted, input
<1>3. \A p : Inspected(p)' <=> p \in read' /\ (EntryAt(p).kind = "archive" => Len(p) <= maxDepth)
  BY <1>2 DEF Inspected, input
<1>4. \A p : Passed(p) => (Inspected(p)' <=> Inspected(p))
  BY <1>1, <1>3 DEF Inspected
<1>5. \A p : IsPath(p) => p \in Positions
  BY DEF IsPath, Positions
<1>6. \A p \in read' : Passed(p)'
  <2>1. \A p \in read : p \in Positions /\ Passed(p)
    BY DEF Covered, TypeOK, Positions
  <2> QED BY <2>1
<1>7. ASSUME truncated' PROVE \E p : Walked(p)' /\ Passed(p)' /\ LeftOut(p)'
  <2>1. CASE truncated
    <3>1. PICK p : Walked(p) /\ Passed(p) /\ LeftOut(p)
      BY <2>1 DEF Covered
    <3>2. LeftOut(p)'
      BY <1>2, <1>4, <3>1 DEF LeftOut
    <3> QED BY <1>2, <1>5, <3>1, <3>2 DEF Walked
  <2>2. CASE ~ truncated
    <3>1. PICK p : p = Path
      OBVIOUS
    <3>2. More /\ Here.kind # "dir" /\ (p \notin read' \/ (Here.kind = "archive" /\ Len(stack) > maxDepth))
      BY <1>7, <2>2, <3>1
    <3>3. Walked(p) /\ EntryAt(p) = Here /\ Len(p) = Len(stack)
      BY <1>1, <3>1, <3>2
    <3>4. Len(stack) \in Nat /\ maxDepth \in Nat
      BY HereType DEF TypeOK
    <3>5. LeftOut(p)'
      BY <1>2, <1>3, <3>2, <3>3, <3>4 DEF LeftOut
    <3> QED BY <1>2, <3>1, <3>3, <3>5
  <2> QED BY <2>1, <2>2
<1>8. ASSUME ~ truncated', NEW p, Walked(p)', Passed(p)', Wanted(p)' PROVE Inspected(p)'
  <2>1. Walked(p) /\ Wanted(p) /\ ~ truncated
    BY <1>2, <1>8
  <2>2. CASE Passed(p)
    BY <1>4, <2>1, <2>2 DEF Covered
  <2>3. CASE p = Path /\ p \in read' /\ (Here.kind = "archive" => Len(stack) <= maxDepth)
    <3>1. Len(p) = Len(stack) /\ (More => EntryAt(p) = Here)
      BY <1>1, <2>3
    <3>2. More
      <4>1. p[Len(p)] \in 1 .. Len(content[ArchiveAt(p)[Len(p)]])
        BY <2>1 DEF Walked, IsPath
      <4>2. p[Len(p)] = Frame.pos /\ ArchiveAt(p)[Len(p)] = Frame.archive
        BY <2>3, PathIs
      <4>3. Frame.pos \in Nat
        BY HereType DEF FrameType
      <4>4. content[Frame.archive] \in Seq(Entry)
        BY HereType DEF FrameType, TypeOK
      <4> QED BY <4>1, <4>2, <4>3, <4>4 DEF More
    <3> QED BY <1>3, <2>3, <3>1, <3>2
  <2> QED BY <1>8, <2>1, <2>2, <2>3
<1> QED BY <1>6, <1>7, <1>8 DEF Covered

-----------------------------------------------------------------------------
(* The inductive invariant, and its preservation by each action. *)
IInv == TypeOK /\ Chained /\ Covered

LEMMA CoverageStep == ASSUME IInv, [Next]_vars PROVE Chained' /\ Covered'
<1> USE DEF IInv
<1>1. CASE OpenTop
  <2>1. outcome = "called" /\ stack = <<>> /\ read' = {} /\ truncated' = FALSE /\ UNCHANGED input
    BY <1>1 DEF OpenTop, Chained, budget
  <2>2. CASE top \in Corrupt
    <3>1. outcome' = "failed" /\ stack' = <<>>
      BY <1>1, <2>1, <2>2 DEF OpenTop
    <3>2. ASSUME NEW p, IsPath(p)' PROVE ~ Passed(p)'
      BY <3>1, <3>2 DEF Passed, Behind, IsPath
    <3> QED BY <2>1, <3>1, <3>2, EmptySeq DEF Chained, Covered, Walked
  <2>3. CASE top \notin Corrupt
    <3>1. outcome' = "scanning" /\ stack' = <<[archive |-> top, pos |-> 1]>>
      BY <1>1, <2>3 DEF OpenTop
    <3>2. Len(stack') = 1 /\ stack'[1].pos = 1 /\ stack'[1].archive = top'
      BY <2>1, <3>1 DEF input
    <3>3. ASSUME NEW p, IsPath(p)' PROVE ~ Passed(p)'
      <4>1. p[1] \in Nat \ {0} /\ Len(p) \in Nat /\ Len(p) >= 1
        BY <3>3 DEF IsPath
      <4> QED BY <3>1, <3>2, <4>1 DEF Passed, Behind
    <3> QED BY <2>1, <3>1, <3>2, <3>3 DEF Chained, Covered, Walked
  <2> QED BY <2>2, <2>3
<1>2. CASE EndOfArchive
  <2>1. Scanning /\ ~ More /\ Return /\ UNCHANGED <<input, truncated, read>>
    BY <1>2 DEF EndOfArchive, budget
  <2>2. Chained' /\ (\A p \in Positions : Passed(p) => Passed(p)') /\ (\A p : p = Path => Passed(p)')
        /\ \A p : IsPath(p) /\ Passed(p)' => Passed(p)
    BY <2>1, NextOfCaller
  <2> QED BY <2>1, <2>2, CoveredBy DEF Walked, TypeOK
<1>3. CASE StopAtLimit
  <2>1. Scanning /\ More /\ Here.kind # "dir" /\ Return /\ truncated' = TRUE /\ UNCHANGED <<input, read>>
    BY <1>3 DEF StopAtLimit, AtEntry
  <2>2. Chained' /\ (\A p \in Positions : Passed(p) => Passed(p)') /\ (\A p : p = Path => Passed(p)')
    BY <2>1, NextOfCaller
  <2>3. Path \notin read'
    BY <2>1, PathIs DEF Covered
  <2> QED BY <2>1, <2>2, <2>3, CoveredBy DEF Walked, TypeOK
<1>4. ASSUME Scanning, More, stack' = Advanced(stack), UNCHANGED <<input, outcome, truncated>>, ~ Opens(Here),
             read' \in {read, read \cup {Path}},
             Here.kind = "dir" \/ ~ Here.readable \/ (Path \in read' /\ (Here.kind = "archive" => Len(stack) <= maxDepth))
      PROVE  Chained' /\ Covered'
  <2>1. Chained' /\ (\A p \in Positions : Passed(p) => Passed(p)') /\ (\A p : p = Path => Passed(p)')
        /\ \A p : IsPath(p) /\ Passed(p)' => Passed(p) \/ p = Path
    BY <1>4, NextEntry
  <2>2. EntryAt(Path) = Here
    BY <1>4, PathIs
  <2>3. ASSUME NEW p, Walked(p), Passed(p)', Wanted(p)
        PROVE  Passed(p) \/ (p = Path /\ p \in read' /\ (Here.kind = "archive" => Len(stack) <= maxDepth))
    BY <1>4, <2>1, <2>2, <2>3 DEF Walked, Wanted
  <2> QED BY <1>4, <2>1, <2>3, CoveredBy DEF TypeOK
<1>5. ASSUME Scanning, More, Here.kind # "dir", stack' = Advanced(stack), UNCHANGED <<input, outcome>>,
             truncated' = TRUE, read' \in {read, read \cup {Path}},
             Path \notin read' \/ (Here.kind = "archive" /\ Len(stack) > maxDepth)
      PROVE  Chained' /\ Covered'
  <2>1. Chained' /\ (\A p \in Positions : Passed(p) => Passed(p)') /\ (\A p : p = Path => Passed(p)')
    BY <1>5, NextEntry
  <2> QED BY <1>5, <2>1, CoveredBy
<1>6. CASE SkipDirectory
  BY <1>4, <1>6 DEF SkipDirectory, budget, Opens
<1>7. CASE Unreadable
  BY <1>4, <1>7 DEF Unreadable, Try, AtEntry, Opens
<1>8. CASE TooLarge
  <2>1. Path \notin read'
    BY <1>8, PathIs DEF TooLarge, Try, AtEntry, Covered
  <2> QED BY <1>5, <1>8, <2>1 DEF TooLarge, Try, AtEntry
<1>9. CASE ScanEntry
  <2>1. Here.kind # "archive"
    BY <1>9 DEF ScanEntry
  <2> QED BY <1>4, <1>9, <2>1 DEF ScanEntry, ReadWhole, Try, AtEntry, Opens
<1>10. CASE CutAtDepth
  <2>1. Here.kind # "dir" /\ Len(stack) > maxDepth
    BY <1>10 DEF CutAtDepth, TooDeep
  <2> QED BY <1>5, <1>10, <2>1 DEF CutAtDepth, ReadWhole, Try, AtEntry
<1>11. ASSUME ~ TooDeep, Scanning PROVE Len(stack) <= maxDepth
  BY <1>11, HereType DEF TooDeep, TypeOK
<1>12. CASE SkipCorrupt
  <2>1. Len(stack) <= maxDepth /\ ~ Opens(Here)
    BY <1>11, <1>12 DEF SkipCorrupt, ReadWhole, Try, AtEntry, Opens
  <2> QED BY <1>4, <1>12, <2>1 DEF SkipCorrupt, ReadWhole, Try, AtEntry
<1>13. CASE Descend
  <2>1. /\ Scanning /\ More /\ Opens(Here) /\ Len(stack) <= maxDepth /\ UNCHANGED <<input, outcome, truncated>>
        /\ stack' = Append(stack, [archive |-> Here.inner, pos |-> 1]) /\ read' = read \cup {Path}
    BY <1>11, <1>13 DEF Descend, ReadWhole, Try, AtEntry, Opens
  <2>2. Chained' /\ (\A p \in Positions : Passed(p) => Passed(p)') /\ (\A p : p = Path => Passed(p)')
        /\ \A p : IsPath(p) /\ Passed(p)' => Passed(p) \/ p = Path
    BY <2>1, FirstOfNested
  <2>3. ASSUME NEW p, Walked(p), Passed(p)', Wanted(p)
        PROVE  Passed(p) \/ (p = Path /\ p \in read' /\ (Here.kind = "archive" => Len(stack) <= maxDepth))
    BY <2>1, <2>2, <2>3 DEF Walked
  <2> QED BY <2>1, <2>2, <2>3, CoveredBy DEF TypeOK
<1>14. CASE UNCHANGED vars
  <2>1. UNCHANGED <<input, stack, outcome, truncated, read>>
    BY <1>14 DEF vars, budget
  <2>2. \A p : EntryAt(p)' = EntryAt(p) /\ (IsPath(p)' <=> IsPath(p))
    BY <2>1, InputKept
  <2>3. Chained'
    BY <2>1 DEF Chained, input, Opens
  <2>4. \A p : /\ Walked(p)' <=> Walked(p)
               /\ Passed(p)' <=> Passed(p)
               /\ LeftOut(p)' <=> LeftOut(p)
               /\ Wanted(p)' <=> Wanted(p)
               /\ Inspected(p)' <=> Inspected(p)
    BY <2>1, <2>2 DEF Walked, Passed, Behind, Along, LeftOut, Wanted, Inspected, input
  <2> QED BY <2>1, <2>3, <2>4 DEF Covered
<1> QED BY <1>1, <1>2, <1>3, <1>6, <1>7, <1>8, <1>9, <1>10, <1>12, <1>13, <1>14 DEF Next

(* The stack is chained and the coverage kept at every step of a scan. *)
THEOREM InductiveInvariant == Spec => []IInv
<1>1. Init => Chained /\ Covered
  <2> SUFFICES ASSUME Init PROVE Chained /\ Covered
    OBVIOUS
  <2>1. stack = <<>> /\ outcome = "called" /\ truncated = FALSE /\ read = {}
    BY DEF Init
  <2>2. ASSUME NEW p, IsPath(p) PROVE ~ Passed(p)
    BY <2>1, <2>2 DEF Passed, Behind, IsPath
  <2> QED BY <2>1, <2>2, EmptySeq DEF Chained, Covered, Walked
<1>2. Init /\ TypeOK => IInv
  BY <1>1 DEF IInv
<1>3. IInv /\ [Next]_vars /\ TypeOK' => IInv'
  BY CoverageStep DEF IInv
<1> QED BY <1>2, <1>3, BudgetAndDepthKept, PTL DEF Spec

(* A scan that does not say that it is partial has inspected every         *)
(* readable entry of every archive down to the depth cap, and one that     *)
(* says so has left an entry out.                                          *)
THEOREM PartialScansSaySo == Spec => []CoverageFlagged
<1>1. IInv => CoverageFlagged
  <2> SUFFICES ASSUME IInv, outcome = "done"
               PROVE  IF truncated THEN \E p \in Paths : EntryAt(p).kind # "dir" /\ ~ Inspected(p)
                      ELSE \A p \in Paths : EntryAt(p).kind # "dir" /\ EntryAt(p).readable => Inspected(p)
    BY DEF CoverageFlagged
  <2>1. \A p : p \in Paths <=> Walked(p)
    BY PathsAre DEF IInv, Walked
  <2>2. \A p : Passed(p)
    BY DEF Passed
  <2> QED BY <2>1, <2>2 DEF IInv, Covered, LeftOut, Wanted
<1> QED BY <1>1, InductiveInvariant, PTL
=============================================================================
