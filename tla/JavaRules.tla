------------------------------ MODULE JavaRules -----------------------------
(***************************************************************************)
(* The detectors of Java (scanner/java): the factories of the JCA, which   *)
(* are named by the text they are given, the classes of Bouncy Castle, and *)
(* the protocols of JSSE.  Nothing asks what the file imports.             *)
(***************************************************************************)
EXTENDS SourceFile

JavaConsts(f) == LastLiterals(f)

(* A transformation, "DES/ECB/PKCS5Padding", and a signature, "MD5withRSA" *)
(* by their parts: those of the words that are met.                        *)
Parts(alg, mode, padding, inner) == [alg |-> alg, mode |-> mode, padding |-> padding, inner |-> inner]
JcaSpecs == ("AES/ECB/PKCS5Padding" :> Parts("AES", "ecb", "pkcs5padding", ""))
            @@ ("AES/GCM/NoPadding" :> Parts("AES", "gcm", "nopadding", ""))
            @@ ("DESede/CBC/PKCS5Padding" :> Parts("DESede", "cbc", "pkcs5padding", ""))
            @@ ("RSA/ECB/PKCS1Padding" :> Parts("RSA", "ecb", "pkcs1padding", ""))
            @@ ("RSA/NONE/OAEPWithSHA-1AndMGF1Padding" :> Parts("RSA", "none", "oaep", "SHA-1"))
ParseJCAAlgorithm(spec) == IF spec \in DOMAIN JcaSpecs THEN JcaSpecs[spec] ELSE Parts(spec, "", "", "")
Signatures == ("MD5withRSA" :> <<"MD5", "RSA">>) @@ ("SHA256withECDSA" :> <<"SHA256", "ECDSA">>)
ParseSignatureAlgorithm(spec) == IF spec \in DOMAIN Signatures THEN Signatures[spec] ELSE <<"", spec>>
HmacHash   == ("HmacMD5" :> "MD5") @@ ("HmacSHA256" :> "SHA256")
Pbkdf2Hash == ("PBKDF2WithHmacSHA1" :> "SHA1") @@ ("PBKDF2WithHmacSHA256" :> "SHA256")

(* The tables that can be replaced, with some of their rows.               *)
JavaEmbedded ==
  [classes  |-> {"Cipher", "MessageDigest", "KeyPairGenerator", "KeyGenerator", "Mac", "Signature", "SSLContext",
                 "KeyAgreement", "SecretKeyFactory"},
   families |-> ("AES" :> "aes") @@ ("DES" :> "des") @@ ("DESede" :> "3des") @@ ("RC4" :> "rc4") @@ ("RSA" :> "rsa")
                @@ ("EC" :> "ec") @@ ("ECDSA" :> "ecdsa") @@ ("ECDH" :> "ecdh") @@ ("MD5" :> "md5") @@ ("SHA-1" :> "sha1")
                @@ ("SHA1" :> "sha1") @@ ("SHA-256" :> "sha-256") @@ ("SHA256" :> "sha-256"),
   engines  |-> [AESEngine |-> "aes", DESEngine |-> "des", DESedeEngine |-> "3des", RC4Engine |-> "rc4", RSAEngine |-> "rsa"],
   asymmetric |-> [SM2Engine |-> "sm2", IESEngine |-> "ecies", GOST3410Signer |-> "gost", ECMQVBasicAgreement |-> "ecmqv"],
   modes    |-> [CBCBlockCipher |-> "cbc", GCMBlockCipher |-> "gcm"],
   digests  |-> [SHA256Digest |-> "sha-256", SHA1Digest |-> "sha1", MD5Digest |-> "md5"],
   protocols |-> ("SSL" :> "high") @@ ("TLSv1" :> "high") @@ ("TLSv1.1" :> "high") @@ ("TLS" :> "info") @@ ("TLSv1.2" :> "info")]
JavaFamily(t, alg) == IF alg \in DOMAIN t.families THEN t.families[alg] ELSE Lower(alg)

(* X.getInstance(text), of a class the tables know.                        *)
JavaInstances(f, t, class) ==
  {u \in Calls(f, <<class>>, {"getInstance"}) : class \in t.classes /\ Resolve(JavaConsts(f), Arg(u, 1)).text # ""}
Named(f, u) == Resolve(JavaConsts(f), Arg(u, 1))
(* A hash that is part of something else is a finding of its own.          *)
InnerHash(f, t, u, hash) ==
  Maybe(hash # "", Found(u, JavaFamily(t, hash), 0, HashSeverity(JavaFamily(t, hash)), Named(f, u).conf, <<"hash", hash>>))

JavaCipherSeverity(t, p) ==
  LET sev == CipherSeverity(JavaFamily(t, p.alg), p.mode)
  IN IF p.padding = "pkcs1padding" /\ p.alg = "RSA" /\ sev = "info" THEN "medium" ELSE sev
JavaCipher(f, t) ==
  UNION {LET p == ParseJCAAlgorithm(Named(f, u).text)
         IN {Found(u, JavaFamily(t, p.alg), 0, JavaCipherSeverity(t, p), Named(f, u).conf, <<"cipher", p.alg, p.mode>>)}
            \cup InnerHash(f, t, u, p.inner) : u \in JavaInstances(f, t, "Cipher")}
JavaDigest(f, t) ==
  {LET fam == JavaFamily(t, Named(f, u).text)
   IN Found(u, fam, 0, HashSeverity(fam), Named(f, u).conf, <<"digest", Named(f, u).text>>) : u \in JavaInstances(f, t, "MessageDigest")}
JavaMac(f, t) ==
  UNION {{Found(u, "hmac", 0, "info", Named(f, u).conf, <<"mac", Named(f, u).text>>)}
         \cup InnerHash(f, t, u, IF Named(f, u).text \in DOMAIN HmacHash THEN HmacHash[Named(f, u).text] ELSE "") :
           u \in JavaInstances(f, t, "Mac")}

(* The name of a signature is put together as "MD5 with RSA" and taken     *)
(* apart again, which leaves the hash with the blank.                      *)
JavaSignatureHash(spec) == LET hash == ParseSignatureAlgorithm(spec)[1] IN IF hash = "" THEN "" ELSE hash \o " "
JavaSignature(f, t) ==
  UNION {LET fam == JavaFamily(t, ParseSignatureAlgorithm(Named(f, u).text)[2])
         IN {Found(u, fam, 0, "info", Named(f, u).conf, <<"signature", Named(f, u).text>>)}
            \cup InnerHash(f, t, u, JavaSignatureHash(Named(f, u).text)) : u \in JavaInstances(f, t, "Signature")}
JavaKeyAgreement(f, t) ==
  {Found(u, JavaFamily(t, Named(f, u).text), 0, "info", Named(f, u).conf, <<"keyagreement", Named(f, u).text>>) :
     u \in JavaInstances(f, t, "KeyAgreement")}
JavaSSLContext(f, t) ==
  {LET p == Named(f, u).text
   IN Found(u, p, 0, IF p \in DOMAIN t.protocols THEN t.protocols[p] ELSE "info", Named(f, u).conf, <<"sslcontext", p>>) :
     u \in JavaInstances(f, t, "SSLContext")}
JavaSecretKeyFactory(f, t) ==
  UNION {LET p == Named(f, u).text
         IN {Found(u, "PBKDF2", 0, "info", Named(f, u).conf, <<"secretkeyfactory">>)} \cup InnerHash(f, t, u, Pbkdf2Hash[p]) :
           u \in {u \in JavaInstances(f, t, "SecretKeyFactory") : Named(f, u).text \in DOMAIN Pbkdf2Hash}}

(* The size of a key comes with a later call on the generator's variable:  *)
(* of several generators of that name, the last declared before the call,  *)
(* or else the first; of several calls the last that tells a size.         *)
JavaInit(class) == IF class = "KeyPairGenerator" THEN "initialize" ELSE "init"
JavaInitSize(f, call) ==
  LET size(n) == Atoi(Resolve(JavaConsts(f), Arg(call, n)).text) IN IF size(1) > 0 THEN size(1) ELSE size(2)
JavaReceiver(f, t, class, call) ==
  LET same   == {u \in JavaInstances(f, t, class) : u.to # "" /\ call.on = <<u.to>>}
      before == {u \in same : u.at <= call.at}
  IN IF before # {} THEN Latest(before) ELSE Earliest(same)
JavaKeySize(f, t, class, u) ==
  LET calls == {c \in f.uses : /\ c.kind = "call" /\ c.fn = JavaInit(class) /\ u.to # "" /\ c.on = <<u.to>>
                               /\ JavaInitSize(f, c) > 0 /\ JavaReceiver(f, t, class, c) = u}
  IN IF calls = {} THEN 0 ELSE JavaInitSize(f, Latest(calls))
JavaKeyGenerator(f, t, class) ==
  {Found(u, JavaFamily(t, Named(f, u).text), JavaKeySize(f, t, class, u), "info", Named(f, u).conf, <<class, Named(f, u).text>>) :
     u \in JavaInstances(f, t, class)}

JavaSecretKeySpec(f, t) ==
  UNION {LET a == Resolve(JavaConsts(f), Arg(u, 2))
         IN Maybe(a.text # "", Found(u, JavaFamily(t, a.text), 0, "info", a.conf, <<"secretkeyspec", a.text>>)) :
           u \in News(f, {"SecretKeySpec"})}
JavaJCA(f, t) ==
  UNION {JavaCipher(f, t), JavaDigest(f, t), JavaMac(f, t), JavaSignature(f, t), JavaKeyAgreement(f, t), JavaSSLContext(f, t),
         JavaSecretKeyFactory(f, t), JavaKeyGenerator(f, t, "KeyPairGenerator"), JavaKeyGenerator(f, t, "KeyGenerator"),
         JavaSecretKeySpec(f, t)}

(* Bouncy Castle: engines, what is asymmetric, modes around an engine that *)
(* is made in their arguments, digests.                                    *)
InnerEngine(t, u) ==
  LET inner == {i \in DOMAIN u.args : u.args[i].kind = "new" /\ u.args[i].text \in DOMAIN t.engines}
  IN IF inner = {} THEN "unknown" ELSE t.engines[u.args[CHOOSE i \in inner : \A j \in inner : i <= j].text]
JavaBouncyCastle(f, t) ==
  UNION {{Sure(u, t.engines[u.fn], CipherSeverity(t.engines[u.fn], ""), <<"bc-engine", u.fn>>) : u \in News(f, DOMAIN t.engines)},
         {Sure(u, t.asymmetric[u.fn], "medium", <<"bc", u.fn>>) : u \in News(f, DOMAIN t.asymmetric)},
         {Sure(u, InnerEngine(t, u), CipherSeverity(InnerEngine(t, u), t.modes[u.fn]), <<"bc-mode", t.modes[u.fn]>>) :
            u \in News(f, DOMAIN t.modes)},
         {Sure(u, t.digests[u.fn], HashSeverity(t.digests[u.fn]), <<"bc-digest", u.fn>>) : u \in News(f, DOMAIN t.digests)}}

(* Protocols and suites are looked for in the text of the arguments:       *)
(* "TLSv1" is in "TLSv1.2" as well, and "DES" in "3DES".                   *)
VersionsIn(text) == IF text \in {"TLSv1.1", "TLSv1.2"} THEN {text, "TLSv1"} ELSE {text} \cap {"SSLv3", "TLSv1"}
VersionSeverity(v) == IF v \in {"SSLv3", "TLSv1"} THEN "critical" ELSE IF v = "TLSv1.1" THEN "high" ELSE "info"
SuiteTokens == ("TLS_RSA_WITH_3DES_EDE_CBC_SHA" :> {"3des", "des"}) @@ ("TLS_AES_256_GCM_SHA384" :> {"aes"})
TextsOf(u) == UNION {IF a.kind = "array" THEN {a.props[i].text : i \in DOMAIN a.props} ELSE {a.text} : a \in {u.args[i] : i \in DOMAIN u.args}}
JavaVersions(f) ==
  UNION {{Sure(u, v, VersionSeverity(v), <<u.fn, v>>) : v \in UNION {VersionsIn(text) : text \in TextsOf(u)}} :
           u \in {u \in f.uses : u.kind = "call" /\ u.fn \in {"setProtocols", "setEnabledProtocols"}}}
JavaSuites(f) ==
  UNION {{Found(u, c, 0, CipherSeverity(c, ""), "medium", <<"ciphersuite", c>>) :
            c \in UNION {SuiteTokens[text] : text \in TextsOf(u) \cap DOMAIN SuiteTokens}} :
           u \in {u \in f.uses : u.kind = "call" /\ u.fn = "setEnabledCipherSuites"}}
JavaSSL(f) == JavaVersions(f) \cup JavaSuites(f)

JavaPBEKeySpec(f) ==
  {Sure(u, "PBKDF2", CheckKDFIterations("pbkdf2", Atoi(Resolve(JavaConsts(f), Arg(u, 3)).text)), <<"pbekeyspec">>) :
     u \in News(f, {"PBEKeySpec"})}

(* A curve is looked up without the constants: an identifier goes through  *)
(* a nil pointer.                                                          *)
CurveSizes == [secp256r1 |-> 256, secp384r1 |-> 384]
JavaCurve(f) ==
  {Found(u, "ec", IF Arg(u, 1).text \in DOMAIN CurveSizes THEN CurveSizes[Arg(u, 1).text] ELSE 0, "info", "high", <<"ec-curve", Arg(u, 1).text>>) :
     u \in {u \in News(f, {"ECGenParameterSpec"}) : Literal(Arg(u, 1))}}
JavaPanics(f) == \E u \in News(f, {"ECGenParameterSpec"}) : Arg(u, 1).kind = "identifier"

JavaScan(f, t) == JavaJCA(f, t) \cup JavaBouncyCastle(f, t) \cup JavaSSL(f) \cup JavaPBEKeySpec(f) \cup JavaCurve(f)
=============================================================================
