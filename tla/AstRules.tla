------------------------------ MODULE AstRules ------------------------------
(***************************************************************************)
(* The detection tables of pass 1 (scanner/astrules) and where they come   *)
(* from: the binary, or a directory with a file for some of the languages. *)
(* The active tables are variables of the language packages; each          *)
(* construction of a registry sets all of them anew (scannerinit).         *)
(*                                                                         *)
(* A file is absent, does not parse, or defines some of its language's     *)
(* tables: those take the place of all that the binary has.                *)
(***************************************************************************)
EXTENDS FiniteSets

CONSTANT Dirs         \* directories: for each language what its file is

VARIABLES dir,        \* what the directory holds
          checked,    \* that it was looked through, and has not changed since
          active,     \* for each language the tables in use
          stage       \* "idle", "accepted", "built", or "refused"
rules == <<dir, checked, active, stage>>

(* The tables of which a file must define one.                             *)
JavaRequired   == {"classes", "families"}
GoRequired     == {"tls", "sm2"}
KotlinRequired == {"classes", "families"}
RubyRequired   == {"ciphers", "digests"}
RustRequired   == {"digests", "aesGcm"}
CppRequired    == {"asym", "methods", "versions"}
CSharpRequired == {"factories", "engines", "digests", "protocols"}
PhpRequired    == {"openssl", "hashes"}
JsRequired     == {"hash", "cipher"}
PythonRequired == {"hashes", "ciphers", "cryptoHashes", "pycryptoImports"}
SwiftRequired  == {"algorithms"}
Required == [java |-> JavaRequired, go |-> GoRequired, kotlin |-> KotlinRequired, ruby |-> RubyRequired, rust |-> RustRequired,
             cpp |-> CppRequired, csharp |-> CSharpRequired, php |-> PhpRequired, javascript |-> JsRequired,
             python |-> PythonRequired, swift |-> SwiftRequired]
SupportedLanguages == DOMAIN Required

Absent     == [is |-> "absent", defines |-> {}]
Malformed  == [is |-> "malformed", defines |-> {}]
File(defs) == [is |-> "file", defines |-> defs]
Contents   == [is : {"absent", "malformed", "file"}, defines : SUBSET STRING]
None         == [l \in SupportedLanguages |-> Absent]

ASSUME DirsAssumption == Dirs \subseteq [SupportedLanguages -> Contents]

Embedded     == [from |-> "binary", defines |-> {}]
External(defs) == [from |-> "directory", defines |-> defs]
Loads(l, d)  == d[l].is = "file" /\ d[l].defines \cap Required[l] # {}
Load(l, d)   == IF Loads(l, d) THEN External(d[l].defines) ELSE Embedded
Tables       == [from : {"binary", "directory"}, defines : SUBSET STRING]

Init == /\ dir = None /\ checked = FALSE
        /\ active = [l \in SupportedLanguages |-> Embedded]
        /\ stage = "idle"

(* What --ast-rules-dir names is looked through before anything is scanned *)
(* when pass 1 is among the passes that were asked for; what only the      *)
(* environment names is not.  The scanners of pass 1 run in any case.      *)
ValidateFirstOnly(d) ==      \* mutant: only that there is a file
  \E l \in SupportedLanguages : d[l] # Absent
ValidateRulesDir(d) ==
  /\ \E l \in SupportedLanguages : d[l] # Absent
  /\ \A l \in SupportedLanguages : d[l] = Absent \/ Loads(l, d)
Commands == [how : {"flag", "env", "none"}, pass1 : BOOLEAN]
Looks(c) == c.how = "flag" /\ c.pass1

Refuse(c, d) ==
  /\ stage \in {"idle", "built"}
  /\ Looks(c) /\ ~ValidateRulesDir(d)
  /\ dir' = d /\ checked' = FALSE /\ stage' = "refused"
  /\ UNCHANGED active
Accept(c, d) ==
  /\ stage \in {"idle", "built"}
  /\ c.how = "none" => d = None
  /\ Looks(c) => ValidateRulesDir(d)
  /\ dir' = d /\ checked' = Looks(c) /\ stage' = "accepted"
  /\ UNCHANGED active

(* Someone replaces or removes the files before they are loaded.           *)
Rewrite(d) ==
  /\ stage = "accepted" /\ dir # None
  /\ dir' = d /\ checked' = FALSE
  /\ UNCHANGED <<active, stage>>

(* A file that does not load leaves its language to the binary's tables.   *)
ApplyKeeping(l, d) ==        \* mutant: the tables of before are kept
  IF d[l] = Absent \/ Loads(l, d) THEN Load(l, d) ELSE active[l]
ApplyExternalRules(l, d) == Load(l, d)
Build ==
  /\ stage = "accepted"
  /\ active' = [l \in SupportedLanguages |-> ApplyExternalRules(l, dir)]
  /\ stage' = "built"
  /\ UNCHANGED <<dir, checked>>
Unload == stage = "built" /\ stage' = "idle" /\ UNCHANGED <<dir, checked, active>>

TypeOK ==
  /\ dir \in Dirs \cup {None} /\ checked \in BOOLEAN
  /\ active \in [SupportedLanguages -> Tables]
  /\ stage \in {"idle", "accepted", "built", "refused"}

(* A directory that was looked through, and is loaded as it was then, is   *)
(* used file by file: what the look lets pass does not fall back to the    *)
(* binary's tables unnoticed.                                              *)
CheckedIsUsed ==
  stage = "built" /\ checked =>
    \A l \in SupportedLanguages : dir[l] # Absent => active[l] = External(dir[l].defines)
=============================================================================
