---------------------------- MODULE LanguageScan ----------------------------
(***************************************************************************)
(* Pass 1 over a source file that is edited between scans: the registry is *)
(* built with the tables of the scan's rules directory (AstRules), and the *)
(* scanner of the file's language reports what its detectors find (one     *)
(* module for each language).  Where a detector asks a Go map, any order   *)
(* may answer.                                                             *)
(***************************************************************************)
EXTENDS AstRules, GoRules, KotlinRules, JavaScriptRules, CppRules, RustRules, PhpRules, CSharpRules, RubyRules, LineRules, PythonRules

CONSTANTS Languages,    \* the languages of the files
          Statements,   \* for each language statements, [use, needs, ..], that a file may have
          Assignments,  \* for each language sequences of assignments that a file may have
          MaxUses,      \* statements of a file
          MaxEdits      \* edits of a file

ASSUME LanguagesAssumption == Languages \subseteq SupportedLanguages \cup {"dart"}
(* Statements stand below the first line, each at a place of its own.      *)
ASSUME StatementsAssumption ==
  \A l \in Languages :
    /\ IsFiniteSet(Statements[l])
    /\ \A s, r \in Statements[l] :
         /\ DOMAIN s.use = {"at", "kind", "to", "on", "fn", "args"}
         /\ s.use.at \in Nat \ {0, 1} /\ (s.use.at = r.use.at => s.use = r.use)
ASSUME AssignmentsAssumption ==
  \A l \in Languages : \A assigns \in Assignments[l] :
    /\ assigns \in Seq({assigns[k] : k \in DOMAIN assigns})
    /\ \A k \in DOMAIN assigns : assigns[k].names \in Seq(STRING) \ {<<>>} /\ 1 \in DOMAIN assigns[k].values

VARIABLES lang, file, report,
          outcome,      \* "none", "report", or "panic": the process died
          before,       \* the last report and what it was made of
          edits
vars == <<rules, lang, file, report, outcome, before, edits>>

Uses(l) == {s.use : s \in Statements[l]}
FileOf(statements, assigns) ==
  [imports |-> UNION {s.needs : s \in statements}, assigns |-> assigns, uses |-> {s.use : s \in statements}]
StatementsOf(f) == {s \in Statements[lang] : s.use \in f.uses}

(* The tables of a language as its detectors have them.                    *)
BinaryTables == [java |-> JavaEmbedded, go |-> GoEmbedded, kotlin |-> KotlinEmbedded, ruby |-> RubyEmbedded, rust |-> RustEmbedded,
                 cpp |-> CppEmbedded, csharp |-> CSharpEmbedded, php |-> PhpEmbedded, javascript |-> JsEmbedded,
                 python |-> PythonEmbedded, swift |-> SwiftEmbedded]
SetTables == {"classes", "sm2", "secp", "bls", "mcrypt", "random", "tier2"}
TablesOf(l, a) ==
  IF a.from = "binary" THEN BinaryTables[l]
  ELSE [n \in DOMAIN BinaryTables[l] |->
          IF n \in a.defines THEN BinaryTables[l][n] ELSE IF n \in SetTables THEN {} ELSE <<>>]

Reports(l, f, a) ==
  CASE l = "go"         -> {GoScan(f, as, TablesOf(l, a)) : as \in Aliases(f)}
    [] l = "java"       -> {JavaScan(f, TablesOf(l, a))}
    [] l = "kotlin"     -> {KotlinScan(f, TablesOf(l, a))}
    [] l = "javascript" -> {JsScan(f, TablesOf(l, a))}
    [] l = "cpp"        -> {CppScan(f, TablesOf(l, a))}
    [] l = "rust"       -> {RustScan(f, TablesOf(l, a), pick) : pick \in Picks(f)}
    [] l = "php"        -> {PhpScan(f, TablesOf(l, a), pick) : pick \in PhpPicks(f)}
    [] l = "csharp"     -> {CSharpScan(f, TablesOf(l, a))}
    [] l = "ruby"       -> {RubyScan(f, TablesOf(l, a), pick) : pick \in RubyPicks(f)}
    [] l = "python"     -> {PythonScan(f, TablesOf(l, a), pick) : pick \in PythonPicks(f)}
    [] l = "swift"      -> {SwiftScan(f, TablesOf(l, a), pick) : pick \in LinePicks(f)}
    [] l = "dart"       -> {DartScan(f, pick) : pick \in LinePicks(f)}
Panics(l, f) == \/ l = "java" /\ JavaPanics(f)
                \/ l = "javascript" /\ JsPanics(f)

RulesOf(l)  == IF l \in SupportedLanguages THEN dir[l] ELSE Absent
Overridden(l) == l \in SupportedLanguages /\ Loads(l, dir)
ActiveOf(l) == IF l \in SupportedLanguages THEN active[l] ELSE Embedded
Nothing == [file |-> [imports |-> {}, assigns |-> <<>>, uses |-> {}], rules |-> Absent, tables |-> Embedded, report |-> {}, again |-> FALSE]

LInit ==
  /\ Init
  /\ lang \in Languages
  /\ \E chosen \in SUBSET Statements[lang], assigns \in Assignments[lang] :
       Cardinality(chosen) \in 1..MaxUses /\ file = FileOf(chosen, assigns)
  /\ report = {}
  /\ outcome = "none"
  /\ before = Nothing
  /\ edits = 0

(* The command, or an earlier one of the process, comes to its tables.     *)
Prepare ==
  /\ outcome = "none"
  /\ \/ \E d \in Dirs \cup {None} : Rewrite(d) \/ \E c \in Commands : Refuse(c, d) \/ Accept(c, d)
     \/ Build
  /\ UNCHANGED <<lang, file, report, outcome, before, edits>>

ScanFile ==
  /\ outcome = "none" /\ stage = "built"
  /\ IF Panics(lang, file) THEN report' = {} /\ outcome' = "panic"
     ELSE report' \in Reports(lang, file, ActiveOf(lang)) /\ outcome' = "report"
  /\ UNCHANGED <<rules, lang, file, before, edits>>

(* Someone adds a statement or takes one away, and scans again.            *)
Edit ==
  /\ outcome = "report" /\ edits < MaxEdits
  /\ Unload
  /\ \E s \in Statements[lang] :
       LET now == IF s.use \in file.uses THEN StatementsOf(file) \ {s} ELSE StatementsOf(file) \cup {s}
       IN file' = FileOf(now, file.assigns)
  /\ before' = [file |-> file, rules |-> RulesOf(lang), tables |-> ActiveOf(lang), report |-> report, again |-> TRUE]
  /\ report' = {} /\ outcome' = "none" /\ edits' = edits + 1
  /\ UNCHANGED lang

(* The same file is scanned again.                                         *)
Again ==
  /\ outcome = "report" /\ edits < MaxEdits
  /\ Unload
  /\ before' = [file |-> file, rules |-> RulesOf(lang), tables |-> ActiveOf(lang), report |-> report, again |-> TRUE]
  /\ report' = {} /\ outcome' = "none" /\ edits' = edits + 1
  /\ UNCHANGED <<lang, file>>

LNext == Prepare \/ ScanFile \/ Edit \/ Again
LSpec == LInit /\ [][LNext]_vars
-----------------------------------------------------------------------------

ReportOn(r, s) == {x \in r : x.at = s.use.at}
Alarming(x) == x.sev \in {"high", "critical"}

(* Where a statement is not read as it is written: of a Go package that    *)
(* the file imports twice only one name is known; in Swift and Dart a name *)
(* can have its letters in a word.                                         *)
Assigned(f) == {f.assigns[k].names[1] : k \in DOMAIN f.assigns}
ImportedTwice(f, s) == \E i \in s.needs : Cardinality(Names(f, i.path)) > 1
NameInside(f, s) == \E w \in Words(s.use), n \in Assigned(f) : w # n /\ Inside(n, w)
Obscured(f, s) == \/ lang = "go" /\ ImportedTwice(f, s)
                  \/ lang \in {"swift", "dart"} /\ NameInside(f, s)

(* A weak algorithm in its plainest form is reported as high or worse, in  *)
(* every language, whatever else stands in the file, unless the directory  *)
(* of this scan has a file of the language that loads: one that does not,  *)
(* or one of an earlier directory, takes no row away.  What is not weak    *)
(* sets off no alarm, with whatever tables.                                *)
PlainIsReported(s) == s.truth = "weak" => \E x \in ReportOn(report, s) : Alarming(x)
AlarmsAreRight ==
  outcome = "report" => \A s \in StatementsOf(file) :
    /\ s.truth = "fine" => ~\E x \in ReportOn(report, s) : Alarming(x)
    /\ ~Overridden(lang) => PlainIsReported(s) \/ Obscured(file, s)

(* A key size in the report was written for that key: in the statement, or *)
(* in one on the variable that holds the generator, by itself or by name;  *)
(* the name of some algorithms and curves tells it.                        *)
NamedSizes ==
  [name \in {"aes-128-ecb", "aes-256-gcm", "des-ede3-cbc", "Aes128Gcm", "Aes256Gcm", "secp256r1", "secp384r1"} |->
     CASE name \in {"aes-128-ecb", "Aes128Gcm"} -> 128 [] name \in {"aes-256-gcm", "Aes256Gcm", "secp256r1"} -> 256
       [] name = "des-ede3-cbc" -> 168 [] name = "secp384r1" -> 384]
Tells(text) == {Atoi(text)} \cup {NamedSizes[n] : n \in {text, Lower(text)} \cap DOMAIN NamedSizes}
Given(f, n) ==
  UNION {LET a == f.assigns[k] IN {a.values[i] : i \in {i \in DOMAIN a.names \cap DOMAIN a.values : a.names[i] = n}} : k \in DOMAIN f.assigns}
Known(f, arg) == Tells(arg.text) \cup UNION {Tells(v.text) : v \in Given(f, arg.text)}
WrittenIn(f, u) ==
  UNION {Known(f, a) \cup (IF a.kind = "object" THEN UNION {Known(f, a.props[p]) : p \in DOMAIN a.props} ELSE {}) :
           a \in {u.args[i] : i \in DOMAIN u.args}}
WrittenFor(f, u) == Tells(u.fn) \cup WrittenIn(f, u) \cup UNION {WrittenIn(f, c) : c \in {c \in f.uses : u.to # "" /\ c.on = <<u.to>>}}
(* Ruby takes digits from anywhere; Go takes the wrong value of several    *)
(* that are assigned at once, when a target is not an identifier.          *)
Aligned(f) == \A k \in DOMAIN f.assigns : \A i \in DOMAIN f.assigns[k].names : f.assigns[k].names[i] # ""
SizesAreOwn ==
  lang # "ruby" /\ (lang = "go" => Aligned(file)) =>
    \A s \in StatementsOf(file) : \A x \in ReportOn(report, s) : x.size # 0 => x.size \in WrittenFor(file, s.use)

(* A name that is given one literal, and nothing else, reads as that       *)
(* literal: the finding is the same, less sure at most.                    *)
Read(f, arg) ==
  IF arg.kind = "identifier" /\ Cardinality(Given(f, arg.text)) = 1 THEN CHOOSE v \in Given(f, arg.text) : TRUE ELSE arg
ReadThrough(f, arg) == IF arg.kind = "object" THEN [arg EXCEPT !.props = [p \in DOMAIN @ |-> Read(f, @[p])]] ELSE Read(f, arg)
Inlined(f) == [f EXCEPT !.uses = {[u EXCEPT !.args = [i \in DOMAIN @ |-> ReadThrough(f, @[i])]] : u \in @}]
Certain(r) == {[x EXCEPT !.conf = "high"] : x \in r}

(* What is reported of a statement is of that statement: with the same     *)
(* rules of the language, whatever was loaded in between, an edit of other *)
(* statements changes nothing, unless it touches the statement's variable, *)
(* an import of a name in the statement, or a package that a detector asks *)
(* for in the whole file.  Where a map's order decides, what is reported   *)
(* could have been reported before the edit.                               *)
Switches ==
  [l \in SupportedLanguages \cup {"dart"} |->
     CASE l = "go"         -> {"schnorr", "bls12-381", "bls12381", "bls"}
       [] l = "javascript" -> JsNobleSecp \cup JsNobleBLS
       [] l = "rust"       -> {"aes_gcm", "rsa"}
       [] l = "python"     -> SchnorrModules \cup {r.token : r \in PythonEmbedded.tier2}
       [] OTHER            -> {}]
NamesOf(u) == {u.fn} \cup {u.on[k] : k \in DOMAIN u.on}
BearsOn(l, i, u) == {i.path, i.last, i.as} \cap (NamesOf(u) \cup Switches[l]) # {}
ImportsOf(l, f, u) == {i \in f.imports : \E j \in f.imports : j.path = i.path /\ BearsOn(l, j, u)}
OnVariable(f, u) == {v \in f.uses : u.to # "" /\ (v.to = u.to \/ v.on = <<u.to>>)}
Untouched(l, f, g, u) ==
  u \in f.uses \cap g.uses /\ ImportsOf(l, f, u) = ImportsOf(l, g, u) /\ OnVariable(f, u) = OnVariable(g, u)
EditsAreLocal ==
  outcome = "report" /\ before.again /\ RulesOf(lang) = before.rules =>
    \A s \in StatementsOf(file) : Untouched(lang, file, before.file, s.use) =>
      \E r \in Reports(lang, before.file, before.tables) : ReportOn(report, s) = ReportOn(r, s)

(* The walker promises that output is deterministic, and fuzz tests that   *)
(* no input makes a scanner panic.                                         *)
OutputIsDeterministic ==
  outcome = "report" /\ before.again /\ file = before.file /\ RulesOf(lang) = before.rules => report = before.report
NeverPanics == outcome # "panic"
=============================================================================
