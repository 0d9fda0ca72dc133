----------------------------- MODULE SourceFile -----------------------------
(***************************************************************************)
(* A source file as the detectors of pass 1 see it, and what they share.   *)
(*                                                                         *)
(* imports are the import declarations, [path, as].  assigns are the       *)
(* assignments in the order of the text, [names, values]: a name "" is a   *)
(* target that is not an identifier.  uses are the calls, references and   *)
(* constructions that a query can match, [at, kind, to, on, fn, args]: on  *)
(* is the path of what is called upon, <<"forge", "md", "md5">>, to the     *)
(* name the result is assigned to, and at the place in the file.  args are *)
(* literals, identifiers, objects (or keywords) with named properties,     *)
(* lists, constructions, or anything else.  Values are text, as the syntax *)
(* tree has them.                                                          *)
(***************************************************************************)
EXTENDS Integers, Sequences, FiniteSets, TLC

Lit(text)  == [kind |-> "literal", text |-> text, props |-> <<>>]
Num(text)  == [kind |-> "number", text |-> text, props |-> <<>>]
Var(name)  == [kind |-> "identifier", text |-> name, props |-> <<>>]
Expr       == [kind |-> "expression", text |-> "", props |-> <<>>]
Obj(props) == [kind |-> "object", text |-> "", props |-> props]
Cons(class) == [kind |-> "new", text |-> class, props |-> <<>>]
Array(args) == [kind |-> "array", text |-> "", props |-> args]
Inner(fn)  == [kind |-> "call", text |-> fn, props |-> <<>>]

Literal(arg)  == arg.kind \in {"literal", "number"}
Arg(use, n)   == IF n \in DOMAIN use.args THEN use.args[n] ELSE Expr
Prop(arg, p)  == IF arg.kind = "object" /\ p \in DOMAIN arg.props THEN arg.props[p] ELSE Expr

(* What a search of the text of a use comes upon.                          *)
Words(u) == {u.fn} \cup {u.args[i].text : i \in DOMAIN u.args}

(* strconv.Atoi: 0 stands for "no number", as it does for the detectors.   *)
Numerals ==
  [text \in {"1", "8", "12", "128", "256", "1000", "1024", "2048", "4096", "600000"} |->
     CASE text = "1" -> 1       [] text = "8" -> 8       [] text = "12" -> 12     [] text = "128" -> 128   [] text = "256" -> 256
       [] text = "1000" -> 1000 [] text = "1024" -> 1024 [] text = "2048" -> 2048 [] text = "4096" -> 4096 [] text = "600000" -> 600000]
Atoi(text) == IF text \in DOMAIN Numerals THEN Numerals[text] ELSE 0

(* Lower case, of the words that are met in another.                       *)
Lowered == ("MD5" :> "md5") @@ ("SHA1" :> "sha1") @@ ("SHA-1" :> "sha-1") @@ ("SHA-256" :> "sha-256") @@ ("RSA" :> "rsa")
           @@ ("AES-GCM" :> "aes-gcm") @@ ("DES" :> "des") @@ ("AES-256-GCM" :> "aes-256-gcm") @@ ("AES-128-ECB" :> "aes-128-ecb")
Lower(text) == IF text \in DOMAIN Lowered THEN Lowered[text] ELSE text

(* The last literal assigned to a single identifier, anywhere in the file. *)
LastOfKinds(f, kinds) ==
  LET to(n) == {k \in DOMAIN f.assigns : f.assigns[k].names = <<n>> /\ f.assigns[k].values[1].kind \in kinds}
  IN [n \in {n \in {f.assigns[k].names[1] : k \in DOMAIN f.assigns} : n # "" /\ to(n) # {}} |->
        f.assigns[CHOOSE k \in to(n) : \A j \in to(n) : j <= k].values[1].text]
LastLiterals(f) == LastOfKinds(f, {"literal", "number"})

(* Constants are text that was assigned to a name.  A detector is given    *)
(* "" when it cannot tell, and is less sure of what came through a name.   *)
Unknown == [text |-> "", conf |-> "low"]
Resolve(consts, arg) ==
  IF Literal(arg) THEN [text |-> arg.text, conf |-> "high"]
  ELSE IF arg.kind = "identifier" /\ arg.text \in DOMAIN consts THEN [text |-> consts[arg.text], conf |-> "medium"]
  ELSE Unknown

(* What is reported of one use.  rule is what the rule's name is made of.  *)
Found(use, name, size, sev, conf, rule) ==
  [at |-> use.at, name |-> name, size |-> size, sev |-> sev, conf |-> conf, rule |-> rule]
Sure(use, name, sev, rule) == Found(use, name, 0, sev, "high", rule)
Maybe(cond, finding) == IF cond THEN {finding} ELSE {}

(* Rows of a table: the name and the severity of what is found.            *)
Info(name)   == [name |-> name, sev |-> "info"]
Low(name)    == [name |-> name, sev |-> "low"]
Medium(name) == [name |-> name, sev |-> "medium"]
High(name)   == [name |-> name, sev |-> "high"]
Critical(name) == [name |-> name, sev |-> "critical"]

Calls(f, path, fns) == {u \in f.uses : u.kind = "call" /\ u.on = path /\ u.fn \in fns}
Plain(f, fns) == Calls(f, <<>>, fns)
RowsOf(uses, rows) == UNION {{Sure(u, rows[w].name, rows[w].sev, <<w>>) : w \in {u.fn} \cap DOMAIN rows} : u \in uses}
Latest(uses)   == CHOOSE u \in uses : \A v \in uses : v.at <= u.at
Earliest(uses) == CHOOSE u \in uses : \A v \in uses : u.at <= v.at
News(f, classes) == {u \in f.uses : u.kind = "new" /\ u.fn \in classes}

(* Severities that the scanners of most languages repeat.                  *)
HashSeverity(family) == IF family \in {"md5", "sha1"} THEN "high" ELSE "info"
FamilySeverity(family, mode) == IF family \in {"des", "3des", "rc4"} THEN "high" ELSE "info"   \* mutant: whatever the mode
RSASeverity(family, size) == IF family = "rsa" /\ size \in 1..2047 THEN "high" ELSE "info"
CipherSeverity(family, mode) == IF family \in {"des", "3des", "rc4"} \/ mode = "ecb" THEN "high" ELSE "info"

(* The minimum work of a password hash, the same for every language.       *)
CheckKDFIterations(algorithm, n) ==
  IF \/ algorithm = "pbkdf2" /\ n \in 1..99999
     \/ algorithm = "bcrypt" /\ n \in 1..9
  THEN "medium" ELSE "info"
=============================================================================
