----------------------------- MODULE MCScanWalk -----------------------------
(* A small tree with one entry per case of the walk, two workers.          *)
EXTENDS ScanWalk

Base == [kind |-> "file", last |-> 1, rank |-> 1, name |-> "plain", git |-> "none",
         cradar |-> "none", ext |-> "plain", lstat |-> 1, size |-> 1, read |-> "ok",
         scannerOutput |-> FALSE, scanner |-> "go"]

MCTree ==
  << [Base EXCEPT !.kind = "dir", !.last = 12],
     [Base EXCEPT !.kind = "dir", !.last = 4, !.name = "build"],
     [Base EXCEPT !.last = 3, !.rank = 9, !.scanner = NoScanner],
     [Base EXCEPT !.last = 4, !.rank = 8],
     [Base EXCEPT !.kind = "dir", !.last = 6, !.git = "ignore"],
     [Base EXCEPT !.kind = "error", !.last = 6],
     [Base EXCEPT !.last = 7, !.rank = 3, !.ext = "json", !.scannerOutput = TRUE],
     [Base EXCEPT !.last = 8, !.rank = 7, !.lstat = 3, !.size = 0, !.read = "blocks",
                  !.name = "asset", !.cradar = "keep"],
     [Base EXCEPT !.last = 9, !.rank = 6, !.lstat = 1, !.size = 9],
     [Base EXCEPT !.last = 10, !.rank = 5, !.lstat = 5, !.size = 5, !.read = "fails"],
     [Base EXCEPT !.last = 11, !.rank = 4],
     [Base EXCEPT !.last = 12, !.rank = 2, !.cradar = "ignore"] >>

(* Entry 8 is a pipe nobody writes to; it is only read when the          *)
(* built-in skip list is off and no size cap applies.                      *)
Plain == [fast |-> FALSE, stagedOnly |-> FALSE, fileList |-> {}, maxFileSize |-> 0,
          passes |-> {1, 2}, defaults |-> TRUE, gitignore |-> TRUE]

MCOptions ==
  { Plain,
    [Plain EXCEPT !.passes = {3}],
    [Plain EXCEPT !.defaults = FALSE, !.gitignore = FALSE, !.maxFileSize = 2],
    [Plain EXCEPT !.defaults = FALSE],
    [Plain EXCEPT !.fast = TRUE, !.gitignore = FALSE],
    [Plain EXCEPT !.stagedOnly = TRUE, !.fileList = {8, 9, 10, 12}],
    [Plain EXCEPT !.stagedOnly = TRUE] }

MCScanner == {"go", "regex", "yara-x"}
MCUniversals == <<"regex", "yara-x">>
MCPassOf == [s \in MCScanner |-> IF s = "yara-x" THEN 3 ELSE 0]

(* The language scanner fails on 9, the regex scanner on 3 and 9; 4 and 11 *)
(* have findings out of line order.                                        *)
MCEmits == [s \in MCScanner |-> [i \in Entries |->
  [ok |-> ~ ((s = "go" /\ i = 9) \/ (s = "regex" /\ i \in {3, 9})),
   lines |-> IF s = "go" /\ i \in {4, 11} THEN <<7, 2>>
             ELSE IF s = "regex" /\ i \in {7, 11} THEN <<5>>
             ELSE IF s = "yara-x" /\ i \in {3, 9} THEN <<1>> ELSE <<>>]]]
=============================================================================
