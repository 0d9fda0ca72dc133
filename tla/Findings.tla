------------------------------ MODULE Findings ------------------------------
(***************************************************************************)
(* What the scan command does to lists of findings between the scanners    *)
(* and the report: the merge of two passes (opengrep/dedup.go), the        *)
(* fingerprint (scanner/fingerprint), the rule and asset filters           *)
(* (rulefilter/filter.go, cmd/asset_type_filter.go), the baseline of       *)
(* acknowledged findings (baseline/baseline.go) and the --fail-on gate.    *)
(*                                                                         *)
(* A finding is a record; rule "" is no rule, and maturity "" marks a      *)
(* finding without the metadata of a rule, as the scanners of pass 1 emit. *)
(* file is a path and what it is under; sig is what the normalised snippet *)
(* keeps of the code.                                                      *)
(***************************************************************************)
EXTENDS Integers, Sequences, FiniteSets, SequencesExt, FiniteSetsExt

(* The members of findings that are in kept, in their order. *)
Keep(findings, kept) ==
  FlattenSeq([i \in DOMAIN findings |-> IF findings[i] \in kept THEN <<findings[i]>> ELSE <<>>])

SeverityRank == [info |-> 0, low |-> 1, medium |-> 2, high |-> 3, critical |-> 4]
ConfidenceRank == [unset |-> 0, low |-> 1, medium |-> 2, high |-> 3]

(* --fail-on: a severity the table does not know never counts. *)
AtOrAbove(f, threshold) ==
  f.sev \in DOMAIN SeverityRank /\ SeverityRank[f.sev] >= SeverityRank[threshold]

-----------------------------------------------------------------------------
(* Two findings are one when they name the same thing on the same line.    *)
(* Of duplicates the severity follows the highest confidence, the earliest *)
(* of equals, and the rule is the first one's that has any.                *)
Key(f) == <<f.file, f.line, f.name>>
Confidence(f) == ConfidenceRank[f.conf]

MergeConfidence(f, others) ==     \* mutant: the severity stays
  [f EXCEPT !.conf = IF \E i \in DOMAIN others : Confidence(others[i]) > Confidence(f) THEN "high" ELSE @]

Merge(f, others) ==
  LET all   == <<f>> \o others
      surest == CHOOSE i \in DOMAIN all :
                  \A j \in DOMAIN all :
                    \/ Confidence(all[j]) < Confidence(all[i])
                    \/ Confidence(all[j]) = Confidence(all[i]) /\ i <= j
      named == {i \in DOMAIN all : all[i].rule # ""}
  IN [f EXCEPT !.conf = all[surest].conf,
               !.sev  = all[surest].sev,
               !.rule = IF named = {} THEN "" ELSE all[Min(named)].rule]

Of(findings, key) == Keep(findings, {g \in ToSet(findings) : Key(g) = key})

(* Findings of pass 2 go into the last one of pass 1 with their key; those *)
(* with a new key follow, one for each.                                    *)
LastOfKey(findings, i) == \A j \in DOMAIN findings : Key(findings[j]) = Key(findings[i]) => j <= i
FirstOfKey(findings, i) == \A j \in DOMAIN findings : Key(findings[j]) = Key(findings[i]) => i <= j
IsNewKey(pass1, pass2, i) ==
  FirstOfKey(pass2, i) /\ \A j \in DOMAIN pass1 : Key(pass1[j]) # Key(pass2[i])

DeduplicateFindings(pass1, pass2) ==
  [i \in DOMAIN pass1 |->
     IF LastOfKey(pass1, i) THEN Merge(pass1[i], Of(pass2, Key(pass1[i]))) ELSE pass1[i]]
  \o FlattenSeq([i \in DOMAIN pass2 |->
       IF IsNewKey(pass1, pass2, i) THEN <<Merge(pass2[i], Of(pass2, Key(pass2[i])))>> ELSE <<>>])

(* Numbers, strings and variables of the snippet are normalised away. *)
Fingerprint(f) == <<f.rule, f.file, f.sig>>

-----------------------------------------------------------------------------
(* The rule filter decides on the finding with defaults filled in and      *)
(* keeps the finding as it was.                                            *)
Normalize(f) ==
  IF f.maturity # "" THEN f
  ELSE [f EXCEPT !.cat = IF @ = "" THEN "security" ELSE @,
                 !.maturity = "stable",
                 !.noise = IF @ = "" THEN "low" ELSE @,
                 !.enabled = TRUE]

IsDefaultKeep(f, o) ==
  \/ f.rule \in o.include
  \/ /\ f.maturity = "experimental" => o.experimental
     /\ f.noise = "high" => o.noisy
     /\ f.enabled \/ f.noise = "high"

HasAssetIdentity(f) == f.asset \in {"algorithm", "protocol", "certificate", "material"}

InCategories(f, o) ==
  \/ o.categories = {}
  \/ f.cat \in o.categories
  \/ "inventory" \in o.categories /\ HasAssetIdentity(f)

KeptByRules(orig, o) ==
  LET f == Normalize(orig)
  IN /\ IF o.rules # {} THEN f.rule \in o.rules \cup o.include ELSE IsDefaultKeep(f, o)
     /\ InCategories(f, o)
     /\ f.rule \notin o.disable

KeptByAsset(f, o) ==
  /\ o.assetTypes # {} => f.asset \in o.assetTypes
  /\ f.asset \notin o.excludeTypes

Selected(f, o) == KeptByRules(f, o) /\ KeptByAsset(f, o)
Select(findings, o) == Keep(findings, {f \in ToSet(findings) : Selected(f, o)})

-----------------------------------------------------------------------------
(* The baseline acknowledges fingerprints of findings; inventory is never  *)
(* suppressed.                                                             *)
IsSuppressible(f) == f.cat # "inventory"
SecurityFingerprints(findings) ==     \* mutant: those without a category are left out
  {Fingerprint(f) : f \in {g \in ToSet(findings) : g.cat = "security"}}
FingerprintsOf(findings) ==
  {Fingerprint(f) : f \in {g \in ToSet(findings) : IsSuppressible(g)}}

Acknowledged(f, fps) == IsSuppressible(f) /\ Fingerprint(f) \in fps
ApplyBaseline(findings, fps) == Keep(findings, {f \in ToSet(findings) : ~Acknowledged(f, fps)})
=============================================================================
