-------------------------- MODULE JavaScriptRules ---------------------------
(***************************************************************************)
(* The detectors of JavaScript and TypeScript (scanner/javascript).  The   *)
(* objects crypto, jwt and forge are recognised by their name, whatever    *)
(* the file imports; only the @noble packages need an import.              *)
(***************************************************************************)
EXTENDS SourceFile

JsConsts(f) == LastLiterals(f)
JsHashSeverity(family) == HashSeverity(family)
JsCipherSeverity(family, mode) == CipherSeverity(family, mode)

(* The tables that can be replaced: of each kind of token its family, the  *)
(* mode and the size that its name tells.  A token they do not have is its *)
(* own family.                                                             *)
Token(family, mode, size) == [family |-> family, mode |-> mode, size |-> size]
JsHashes  == ("md5" :> Token("md5", "", 0)) @@ ("sha1" :> Token("sha1", "", 0)) @@ ("sha256" :> Token("sha-256", "", 0))
JsCiphers ==
  [token \in {"aes-128-ecb", "aes-256-gcm", "des-ede3-cbc", "rc4"} |->
     CASE token = "aes-128-ecb"  -> Token("aes", "ecb", 128)  [] token = "aes-256-gcm" -> Token("aes", "gcm", 256)
       [] token = "des-ede3-cbc" -> Token("3des", "cbc", 168) [] token = "rc4"         -> Token("rc4", "", 0)]
JsForgeHashes  == ("md5" :> Token("md5", "", 0)) @@ ("sha256" :> Token("sha-256", "", 0))
JsForgeCiphers == ("aes-ecb" :> Token("aes", "ecb", 0)) @@ ("aes-gcm" :> Token("aes", "gcm", 0)) @@ ("3des-cbc" :> Token("3des", "cbc", 0))
JsWebCrypto    == ("aes-gcm" :> Token("aes", "gcm", 0)) @@ ("rsa-oaep" :> Token("rsa", "", 0)) @@ ("ecdsa" :> Token("ecdsa", "", 0))
JsWebHashes    == ("sha-1" :> Token("sha1", "", 0)) @@ ("sha-256" :> Token("sha-256", "", 0))
JsNobleSecp    == {"@noble/secp256k1", "@noble/curves"}
JsNobleBLS     == {"@noble/bls12-381", "@chainsafe/bls"}
JsEmbedded == [hash |-> JsHashes, cipher |-> JsCiphers, forgeHash |-> JsForgeHashes, forgeCipher |-> JsForgeCiphers,
               web |-> JsWebCrypto, webHash |-> JsWebHashes, secp |-> JsNobleSecp, bls |-> JsNobleBLS]
Look(table, token) == IF token \in DOMAIN table THEN table[token] ELSE Token(token, "", 0)

(* require("crypto"), under the name crypto.  hash is named by the first   *)
(* argument; without one there is nothing to report, but for what is no    *)
(* less an asset: a MAC, a curve, a key derivation of an unknown hash.     *)
JsHash(f, t) ==
  UNION {LET a == Resolve(JsConsts(f), Arg(u, 1)) h == Look(t.hash, Lower(a.text))
         IN Maybe(a.text # "", Found(u, h.family, 0, JsHashSeverity(h.family), a.conf, <<u.fn, Lower(a.text)>>)) :
           u \in Calls(f, <<"crypto">>, {"createHash"})}
JsHmac(f, t) ==
  {LET a == Resolve(JsConsts(f), Arg(u, 1))
   IN Found(u, "HMAC", 0, "info", a.conf, <<u.fn, Lower(a.text)>>) : u \in Calls(f, <<"crypto">>, {"createHmac"})}
JsCipher(f, t) ==
  UNION {LET a == Resolve(JsConsts(f), Arg(u, 1)) c == Look(t.cipher, Lower(a.text))
         IN Maybe(a.text # "", Found(u, c.family, c.size, JsCipherSeverity(c.family, c.mode), a.conf, <<u.fn, Lower(a.text)>>)) :
           u \in Calls(f, <<"crypto">>, {"createCipher", "createCipheriv", "createDecipher", "createDecipheriv"})}
JsIntProp(consts, arg, p) == IF Prop(arg, p).kind = "literal" THEN 0 ELSE Atoi(Resolve(consts, Prop(arg, p)).text)
JsKeyPair(f) ==
  UNION {LET a    == Resolve(JsConsts(f), Arg(u, 1))
             size == JsIntProp(JsConsts(f), Arg(u, 2), "modulusLength")
         IN Maybe(a.text # "",
                  Found(u, Lower(a.text), size, RSASeverity(Lower(a.text), size), a.conf, <<u.fn, Lower(a.text)>>)) :
           u \in Calls(f, <<"crypto">>, {"generateKeyPair", "generateKeyPairSync"})}
JsDiffieHellman(f) == {Sure(u, "DH", "info", <<u.fn>>) : u \in Calls(f, <<"crypto">>, {"createDiffieHellman"})}
JsECDH(f) ==
  {Found(u, "ECDH", 0, "info", Resolve(JsConsts(f), Arg(u, 1)).conf, <<u.fn>>) : u \in Calls(f, <<"crypto">>, {"createECDH"})}
JsPBKDF2(f) ==
  {Found(u, "PBKDF2", 0, CheckKDFIterations("pbkdf2", Atoi(Resolve(JsConsts(f), Arg(u, 3)).text)),
         Resolve(JsConsts(f), Arg(u, 5)).conf, <<u.fn>>) : u \in Calls(f, <<"crypto">>, {"pbkdf2", "pbkdf2Sync"})}
JsScrypt(f) == {Sure(u, "Scrypt", "info", <<u.fn>>) : u \in Calls(f, <<"crypto">>, {"scrypt", "scryptSync"})}
JsNodeCrypto(f, t) ==
  UNION {JsHash(f, t), JsHmac(f, t), JsCipher(f, t), JsKeyPair(f), JsDiffieHellman(f), JsECDH(f), JsPBKDF2(f), JsScrypt(f)}

(* jsonwebtoken: the algorithm to sign with, and each of those accepted.   *)
(* Of an array only the literals are read.                                 *)
JsTokens(f, u) ==
  IF u.fn = "sign" THEN {Resolve(JsConsts(f), Prop(Arg(u, 3), "algorithm")).text} \ {""}
  ELSE LET a == Prop(Arg(u, 3), "algorithms")
       IN IF a.kind = "array" THEN {a.props[i].text : i \in {i \in DOMAIN a.props : a.props[i].kind = "literal"}} ELSE {}
JsJWT(f) ==
  UNION {{Sure(u, alg, IF alg = "none" THEN "critical" ELSE "info", <<u.fn, alg>>) : alg \in JsTokens(f, u)} :
           u \in Calls(f, <<"jwt">>, {"sign", "verify"})}

(* node-forge, whose objects are paths from forge.                         *)
JsForgeMd(f, t) ==
  {Sure(u, t.forgeHash[u.on[3]].family, JsHashSeverity(t.forgeHash[u.on[3]].family), <<"md", u.on[3]>>) :
     u \in UNION {Calls(f, <<"forge", "md", algo>>, {"create"}) : algo \in DOMAIN t.forgeHash}}
JsForgeCipher(f, t) ==
  UNION {LET a == Resolve(JsConsts(f), Arg(u, 1)) c == Look(t.forgeCipher, Lower(a.text))
         IN Maybe(a.text # "", Found(u, c.family, 0, JsCipherSeverity(c.family, c.mode), a.conf, <<u.fn, Lower(a.text)>>)) :
           u \in Calls(f, <<"forge", "cipher">>, {"createCipher"})}
JsForgeRSA(f) ==
  {LET size == JsIntProp(JsConsts(f), Arg(u, 1), "bits")
   IN Found(u, "RSA", size, RSASeverity("rsa", size), "high", <<"forge", u.fn>>) :
     u \in Calls(f, <<"forge", "pki", "rsa">>, {"generateKeyPair"})}
JsForgeHMAC(f) == {Sure(u, "HMAC", "info", <<"forge", "hmac">>) : u \in Calls(f, <<"forge", "hmac">>, {"create"})}

(* crypto.subtle: the algorithm is an object's name; of a digest it may be *)
(* text.                                                                   *)
JsName(f, u) == Resolve(JsConsts(f), Prop(Arg(u, 1), "name")).text
JsWebEncrypt(f, t) ==
  UNION {LET a == JsName(f, u) c == Look(t.web, Lower(a))
         IN Maybe(a # "", Sure(u, c.family, JsCipherSeverity(c.family, c.mode), <<u.fn, Lower(a)>>)) :
           u \in Calls(f, <<"crypto", "subtle">>, {"encrypt", "decrypt"})}
JsDigestName(f, u) ==
  LET text == Resolve(JsConsts(f), Arg(u, 1)) IN IF text.text # "" THEN text ELSE [text |-> JsName(f, u), conf |-> "high"]
JsWebDigest(f, t) ==
  UNION {LET a == JsDigestName(f, u) h == Look(t.webHash, Lower(a.text))
         IN Maybe(a.text # "", Found(u, h.family, 0, JsHashSeverity(h.family), a.conf, <<u.fn, Lower(a.text)>>)) :
           u \in Calls(f, <<"crypto", "subtle">>, {"digest"})}

(* The size of a generated key is read without the constants: the lookup   *)
(* of an identifier goes through a nil pointer.                            *)
JsNumber(arg) == IF arg.kind = "number" THEN Atoi(arg.text) ELSE 0
JsModulus(u) == Prop(Arg(u, 1), "modulusLength")
JsLength(u)  == Prop(Arg(u, 1), "length")
JsWebSize(u) == IF JsNumber(JsModulus(u)) # 0 THEN JsNumber(JsModulus(u)) ELSE JsNumber(JsLength(u))
JsWebGenerateKey(f, t) ==
  UNION {LET a == JsName(f, u) k == Look(t.web, Lower(a)) size == JsWebSize(u)
         IN Maybe(a # "", Found(u, k.family, size, RSASeverity(k.family, size), "high", <<u.fn, Lower(a)>>)) :
           u \in Calls(f, <<"crypto", "subtle">>, {"generateKey"})}
JsPanics(f) ==
  \E u \in Calls(f, <<"crypto", "subtle">>, {"generateKey"}) :
    /\ JsName(f, u) # ""
    /\ \/ JsModulus(u).kind = "identifier"
       \/ JsNumber(JsModulus(u)) = 0 /\ JsLength(u).kind = "identifier"

(* @noble: uses count when one of the packages is imported, under any name *)
JsSources(f) == {i.path : i \in f.imports}
JsSchnorrFns == {"sign", "signAsync", "verify", "verifyAsync", "getPublicKey"}
JsBlsFns == {"sign", "verify", "verifyBatch", "verifyMultiple", "aggregateSignatures", "aggregatePublicKeys", "getPublicKey"}
JsNoble(f, t) ==
  {Sure(u, "Schnorr", "info", <<"schnorr", u.fn>>) :
     u \in {u \in f.uses : /\ JsSources(f) \cap t.secp # {} /\ u.kind = "call" /\ u.fn \in JsSchnorrFns
                           /\ u.on # <<>> /\ u.on[Len(u.on)] = "schnorr"}}
  \cup {Sure(u, "BLS12-381", "info", <<"bls", u.fn>>) :
          u \in IF JsSources(f) \cap t.bls # {} THEN Calls(f, <<"bls">>, JsBlsFns) ELSE {}}

JsScan(f, t) ==
  UNION {JsNodeCrypto(f, t), JsJWT(f), JsForgeMd(f, t), JsForgeCipher(f, t), JsForgeRSA(f), JsForgeHMAC(f),
         JsWebEncrypt(f, t), JsWebDigest(f, t), JsWebGenerateKey(f, t), JsNoble(f, t)}
=============================================================================
