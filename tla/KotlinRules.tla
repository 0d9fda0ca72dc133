----------------------------- MODULE KotlinRules ----------------------------
(***************************************************************************)
(* The detectors of Kotlin (scanner/kotlin).  Kotlin is read with the      *)
(* grammar of Java, where what Kotlin writes without "new" is a call: the  *)
(* detectors of constructions see a file only as far as it has Java's new. *)
(* What the two scanners do alike is JavaRules'.                           *)
(***************************************************************************)
EXTENDS JavaRules

(* The literals that the tree knows, overwritten by lines "val n = ...".   *)
KotlinConsts(f) == LastLiterals(f)

KotlinEmbedded ==
  [JavaEmbedded EXCEPT
     !.classes = {"Cipher", "MessageDigest", "KeyPairGenerator", "KeyGenerator", "Mac", "Signature", "SSLContext", "KeyAgreement"},
     !.asymmetric = [SM2Engine |-> "sm2", IESEngine |-> "ecies", GOST3410Signer |-> "gost"]]

(* Factories, each one finding: no hash inside of another.                 *)
KotlinSeverity(class, fam) == IF class = "MessageDigest" THEN HashSeverity(fam) ELSE "info"
KotlinMade(f, t, class, u, size) ==
  LET fam == JavaFamily(t, Named(f, u).text)
  IN Found(u, fam, size, KotlinSeverity(class, fam), Named(f, u).conf, <<class, Named(f, u).text>>)
KotlinOne(f, t, class) == {KotlinMade(f, t, class, u, 0) : u \in JavaInstances(f, t, class)}
KotlinCipher(f, t) ==
  {LET p == ParseJCAAlgorithm(Named(f, u).text)
   IN Found(u, JavaFamily(t, p.alg), 0, JavaCipherSeverity(t, p), Named(f, u).conf, <<"cipher", p.alg, p.mode>>) :
     u \in JavaInstances(f, t, "Cipher")}
KotlinDigest(f, t) == KotlinOne(f, t, "MessageDigest")
KotlinMac(f, t) ==
  {Found(u, "hmac", 0, "info", Named(f, u).conf, <<"mac", Named(f, u).text>>) : u \in JavaInstances(f, t, "Mac")}
KotlinSignature(f, t) ==
  {LET s == Named(f, u)
   IN Found(u, JavaFamily(t, ParseSignatureAlgorithm(s.text)[2]), 0, "info", s.conf, <<"signature", s.text>>) :
     u \in JavaInstances(f, t, "Signature")}
KotlinKeyAgreement(f, t) == KotlinOne(f, t, "KeyAgreement")
KotlinSSLContext(f, t) == JavaSSLContext(f, t)

(* Sizes come from the text of the calls on a generator's variable, with   *)
(* one argument, with the size second, with it first, the later reading    *)
(* over the earlier; only a generator declared before the call counts.     *)
KotlinSizeOf(f, call, i) ==
  LET arg == Arg(call, i) IN Atoi(IF arg.kind = "number" THEN arg.text ELSE Resolve(KotlinConsts(f), arg).text)
KotlinInitSize(f, call) ==
  IF Len(call.args) > 1 /\ KotlinSizeOf(f, call, 1) = 0 THEN KotlinSizeOf(f, call, 2) ELSE KotlinSizeOf(f, call, 1)
KotlinKeySize(f, t, class, u) ==
  LET decls(c) == {v \in JavaInstances(f, t, class) : v.to # "" /\ c.on = <<v.to>> /\ v.at <= c.at}
      calls == {c \in f.uses : /\ c.kind = "call" /\ c.fn = JavaInit(class) /\ KotlinInitSize(f, c) > 0
                               /\ u \in decls(c) /\ \A v \in decls(c) : v.at <= u.at}
  IN IF calls = {} THEN 0 ELSE KotlinInitSize(f, Latest(calls))
KotlinSized(f, t, class) ==
  {KotlinMade(f, t, class, u, KotlinKeySize(f, t, class, u)) : u \in JavaInstances(f, t, class)}
KotlinKeyPairGenerator(f, t) == KotlinSized(f, t, "KeyPairGenerator")
KotlinKeyGenerator(f, t) == KotlinSized(f, t, "KeyGenerator")

KotlinJCA(f, t) ==
  UNION {KotlinCipher(f, t), KotlinDigest(f, t), KotlinMac(f, t), KotlinSignature(f, t), KotlinKeyAgreement(f, t),
         KotlinSSLContext(f, t), KotlinKeyPairGenerator(f, t), KotlinKeyGenerator(f, t)}
KotlinSecretKeySpec(f, t) == JavaSecretKeySpec(f, t)
KotlinPBEKeySpec(f) == JavaPBEKeySpec(f)

(* Bouncy Castle: engines, modes and digests only after new, what is       *)
(* asymmetric only without.                                                *)
KotlinBouncyCastle(f, t) == JavaBouncyCastle(f, [t EXCEPT !.asymmetric = <<>>])
KotlinBouncyCastleAsymmetric(f, t) ==
  {Sure(u, t.asymmetric[u.fn], "medium", <<"bc", u.fn>>) : u \in {u \in f.uses : u.kind = "call" /\ u.fn \in DOMAIN t.asymmetric}}

KotlinScan(f, t) ==
  UNION {KotlinJCA(f, t), KotlinSecretKeySpec(f, t), KotlinPBEKeySpec(f), KotlinBouncyCastle(f, t),
         KotlinBouncyCastleAsymmetric(f, t)}
=============================================================================
