--------------------------- MODULE MCScanCommand ---------------------------
(* Three files: one where the passes agree on a place, one whose findings  *)
(* differ in what the filters look at, one found by its binary signature.  *)
EXTENDS ScanCommand

CONSTANTS updater, checker

F == [rule |-> "", file |-> [under |-> "", path |-> 1], line |-> 1, name |-> "md5", sev |-> "medium", conf |-> "high",
      cat |-> "", maturity |-> "", enabled |-> FALSE, noise |-> "", asset |-> "algorithm",
      sig |-> "hash", odd |-> FALSE]
R == [F EXCEPT !.rule = "weak-hash", !.maturity = "stable", !.enabled = TRUE, !.noise = "low",
      !.cat = "security", !.conf = "low", !.sev = "critical"]
MCFinds == <<
  << <<F>>, <<[F EXCEPT !.file.path = 2, !.rule = "go-rsa", !.sig = "rsa", !.name = "rsa", !.sev = "high"],
              [F EXCEPT !.file.path = 2, !.line = 2, !.conf = "medium", !.odd = TRUE]>>, <<>> >>,
  << <<R>>, <<[R EXCEPT !.file.path = 2, !.line = 2, !.conf = "high"],
              [R EXCEPT !.file.path = 2, !.rule = "og-rsa", !.name = "rsa"],
              [R EXCEPT !.file.path = 2, !.rule = "new", !.maturity = "experimental", !.name = "new", !.line = 3],
              [R EXCEPT !.file.path = 2, !.rule = "asset", !.cat = "inventory", !.sev = "info",
                        !.name = "aes", !.line = 4]>>, <<>> >>,
  << <<>>, <<>>, <<[R EXCEPT !.file.path = 3, !.rule = "yara", !.asset = "library", !.sev = "high",
                             !.cat = "security", !.name = "openssl"]>> >> >>

Plain == [target |-> "dir", mode |-> "default", passes |-> {}, staged |-> None, atRoot |-> TRUE,
          dot |-> TRUE, bad |-> {}, rules |-> {}, disable |-> {}, include |-> {},
          categories |-> {}, experimental |-> FALSE, noisy |-> FALSE, assetTypes |-> {},
          excludeTypes |-> {}, update |-> FALSE, noBaseline |-> FALSE, strict |-> FALSE,
          outputs |-> <<>>, format |-> "", config |-> "", terminal |-> FALSE, validate |-> FALSE,
          push |-> FALSE, failOn |-> "high"]
Hook == [Plain EXCEPT !.mode = "fast", !.staged = {2}, !.failOn = "critical"]
Image == [Plain EXCEPT !.target = "image", !.mode = "deep"]

Update == [Plain EXCEPT !.update = TRUE, !.failOn = ""]
Broken == [Plain EXCEPT !.bad = {"path"}]
Deep == [Plain EXCEPT !.mode = "deep", !.experimental = TRUE, !.failOn = "critical"]
StagedSecurity == [Plain EXCEPT !.staged = {2}, !.categories = {"security"}]

Together == {
  <<Update, Plain>>,
  <<[Deep EXCEPT !.update = TRUE], Deep>>,
  <<[StagedSecurity EXCEPT !.update = TRUE], StagedSecurity>>}
Alone == {
  Hook, [Hook EXCEPT !.staged = {}, !.noBaseline = TRUE],
  [Plain EXCEPT !.dot = FALSE, !.disable = {"weak-hash"}, !.excludeTypes = {"library"}],
  [Plain EXCEPT !.mode = "passes", !.passes = {1, 3}, !.strict = TRUE, !.rules = {"go-rsa"}, !.include = {"yara"}],
  [Plain EXCEPT !.outputs = <<"cyclonedx", "sarif", "xml">>, !.categories = {"inventory"}],
  [Plain EXCEPT !.outputs = <<"sarif", "">>, !.validate = TRUE, !.push = TRUE],
  [Plain EXCEPT !.push = TRUE, !.bad = {"project"}, !.format = "sarif", !.validate = TRUE],
  [Plain EXCEPT !.failOn = "severe", !.terminal = TRUE],
  [Plain EXCEPT !.bad = {"category"}], [Plain EXCEPT !.bad = {"baseline"}],
  [Plain EXCEPT !.mode = "passes", !.bad = {"passes"}],
  [Plain EXCEPT !.mode = "passes", !.passes = {1, 2}, !.failOn = "critical"],
  Image, [Image EXCEPT !.mode = "default", !.failOn = ""]}

MCCommands == {[p \in {updater, checker} |-> IF p = updater THEN c[1] ELSE c[2]] :
                 c \in Together \cup {<<Broken, c>> : c \in Alone}}
MCTrees == {{1, 2, 3}, {2}}
MCToolsets == {{}, {"opengrep", "yr"}}
MCBaselines == {Torn, [fps |-> {Fingerprint(MCFinds[1][i][j]) : <<i, j>> \in {<<1, 1>>, <<2, 1>>, <<2, 2>>}}
                           \cup {[Fingerprint(F) EXCEPT ![1] = "gone"]},
                 by |-> Update, seen |-> [walk |-> {0, 1, 2, 3}, pass2 |-> None]]}

=============================================================================
