------------------------------ MODULE RubyRules -----------------------------
(***************************************************************************)
(* The detectors of Ruby (scanner/ruby).  They search the text of every    *)
(* call, constant and assignment of the tree, so that a statement is read  *)
(* as often as its parts contain one another: kind tells which part a use  *)
(* is, and to is part of the text of an assignment.                        *)
(***************************************************************************)
EXTENDS SourceFile

RubyConsts(f) == LastLiterals(f)
RubyEmbedded == [ciphers |-> ("aes-256-gcm" :> <<"aes", "gcm">>) @@ ("aes-128-ecb" :> <<"aes", "ecb">>)
                             @@ ("des-cbc" :> <<"des", "cbc">>) @@ ("rc4" :> <<"rc4", "">>),
                 digests |-> [sha256 |-> "sha-256", sha1 |-> "sha1", md5 |-> "md5"]]

RubyNodes(f) == {u \in f.uses : u.kind \in {"call", "scope", "assignment"}}
About(f, module) == {u \in RubyNodes(f) : u.on = module}
Makes(u) == u.fn \in {"new", "generate"}
Quoted(u) == LET q == {i \in DOMAIN u.args : u.args[i].kind = "literal"} IN IF q = {} THEN "" ELSE u.args[CHOOSE i \in q : TRUE].text

(* The algorithm of a cipher is the argument, or the first quoted text.    *)
RubyCipherName(f, u) ==
  LET given == IF u.kind = "call" THEN Resolve(RubyConsts(f), Arg(u, 1)).text ELSE ""
  IN IF given # "" THEN given ELSE Quoted(u)
RubyCipher(f, t) ==
  UNION {LET a == Lower(RubyCipherName(f, u)) c == IF a \in DOMAIN t.ciphers THEN t.ciphers[a] ELSE <<a, "">>
         IN Maybe(a # "", Sure(u, c[1], CipherSeverity(c[1], c[2]), <<"cipher", a>>)) : u \in About(f, <<"OpenSSL", "Cipher">>)}

(* The class of a digest stands as the function: methods do not matter.    *)
(* It is any of the names the text contains, in the order of a Go map,  *)
(* pick; the name of a variable is in the text of its assignment.     *)
RubyMentions(u) == {Lower(w) : w \in Words(u) \cup (IF u.kind = "assignment" THEN {u.to} ELSE {})}
RubyPicks(f) ==
  {pick \in [f.uses -> UNION {RubyMentions(u) : u \in f.uses}] : \A u \in f.uses : pick[u] \in RubyMentions(u)}
RubyOpenSSLDigest(f, t, pick) ==
  UNION {LET known == RubyMentions(u) \cap DOMAIN t.digests
             algo  == IF known = {} THEN Lower(Quoted(u)) ELSE IF pick[u] \in known THEN pick[u] ELSE CHOOSE n \in known : TRUE
             fam   == IF algo \in DOMAIN t.digests THEN t.digests[algo] ELSE algo
         IN Maybe(algo # "", Sure(u, fam, HashSeverity(fam), <<"openssl-digest", algo>>)) : u \in About(f, <<"OpenSSL", "Digest">>)}
RubyDigest(f) ==
  UNION {LET known == {u.fn} \cap {"sha256", "sha1", "md5"} fam == RubyEmbedded.digests[CHOOSE n \in known : TRUE]
         IN Maybe(known # {}, Sure(u, fam, HashSeverity(fam), <<"digest", fam>>)) :
           u \in About(f, <<"Digest">>) \cup About(f, <<"OpenSSL", "Digest">>)}

(* The size of a key is the first number in the text, be it a part of the  *)
(* variable's name.                                                        *)
DigitsOf == ("key1" :> 1) @@ ("rsa2048" :> 2048)
RubyFirstNumber(u) ==
  IF u.kind = "assignment" /\ u.to \in DOMAIN DigitsOf THEN DigitsOf[u.to] ELSE Atoi(Arg(u, 1).text)
RubyPKey(f) ==
  (UNION {{Found(u, alg, RubyFirstNumber(u), "info", "high", <<"pkey", alg>>) :
            u \in {u \in About(f, <<"OpenSSL", "PKey", alg>>) : Makes(u)}} : alg \in {"RSA", "DSA"}})
  \cup {Sure(u, "EC", "info", <<"pkey", "EC">>) : u \in {u \in About(f, <<"OpenSSL", "PKey", "EC">>) : Makes(u)}}
RubySSL(f) == {Sure(u, "TLS", "info", <<"ssl">>) : u \in {u \in About(f, <<"OpenSSL", "SSL", "SSLContext">>) : u.fn = "new"}}
RubyBCrypt(f) == {Sure(u, "bcrypt", "info", <<"bcrypt">>) : u \in {u \in About(f, <<"BCrypt", "Password">>) : u.fn \in {"create", "new"}}}

RubyScan(f, t, pick) ==
  UNION {RubyCipher(f, t), RubyOpenSSLDigest(f, t, pick), RubyPKey(f), RubySSL(f), RubyBCrypt(f), RubyDigest(f)}
=============================================================================
