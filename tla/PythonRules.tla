----------------------------- MODULE PythonRules ----------------------------
(***************************************************************************)
(* The detectors of Python (scanner/python).  The standard modules and the *)
(* modules of cryptography are recognised by the name of the object, other *)
(* packages by the names that a from-import brought in.  An import is      *)
(* [path, last, as]: "from path import last as as", or just "import path". *)
(***************************************************************************)
EXTENDS SourceFile

PythonConsts(f) == LastLiterals(f)

PythonEmbedded ==
  [hashes |-> [md5 |-> "md5", sha1 |-> "sha1", sha256 |-> "sha-256", sha512 |-> "sha-512"],
   ciphers |-> [AES |-> "aes", TripleDES |-> "3des", ARC4 |-> "rc4", ChaCha20 |-> "chacha20"],
   modes |-> ("modes.ECB" :> "ecb") @@ ("modes.CBC" :> "cbc") @@ ("modes.GCM" :> "gcm"),
   cryptoHashes |-> [SHA256 |-> "sha-256", SHA1 |-> "sha1", MD5 |-> "md5"],
   kdfs |-> [PBKDF2HMAC |-> Info("PBKDF2-HMAC"), HKDF |-> Info("HKDF"), Scrypt |-> Info("Scrypt")],
   protocols |-> [PROTOCOL_TLS |-> Info("TLS"), PROTOCOL_TLSv1 |-> High("TLS 1.0"), PROTOCOL_SSLv3 |-> High("SSL 3.0")],
   versions |-> [TLSv1 |-> High("TLS 1.0"), TLSv1_1 |-> High("TLS 1.1"), TLSv1_2 |-> Info("TLS 1.2")],
   pycryptoImports |-> [AES |-> "aes", DES |-> "des", DES3 |-> "3des", ARC4 |-> "rc4", MD5 |-> "md5", SHA256 |-> "sha-256", RSA |-> "rsa"],
   pycryptoCiphers |-> [AES |-> "aes", DES |-> "des", DES3 |-> "3des", ARC4 |-> "rc4"],
   pycryptoHashes |-> [MD5 |-> "md5", SHA1 |-> "sha1", SHA256 |-> "sha-256"],
   pycryptoModes |-> ("AES.MODE_ECB" :> "ecb") @@ ("AES.MODE_GCM" :> "gcm"),
   aead |-> [AESGCM |-> Info("AES-GCM"), ChaCha20Poly1305 |-> Info("ChaCha20-Poly1305")],
   random |-> {"randint", "random", "choice"},
   bls |-> {"Sign", "Verify"},
   tier2 |-> {[token |-> "gmssl", on |-> <<"sm2">>, fn |-> "CryptSM2", name |-> "SM2"],
              [token |-> "phe", on |-> <<>>, fn |-> "generate_paillier_keypair", name |-> "Paillier"]}]

(* A text of another kind than a literal stands for itself.                *)
PythonText(f, arg) ==
  IF Literal(arg) \/ arg.kind = "identifier" THEN Resolve(PythonConsts(f), arg) ELSE [text |-> arg.text, conf |-> "low"]
PythonInt(f, arg) == IF arg.kind \in {"number", "identifier"} THEN Atoi(Resolve(PythonConsts(f), arg).text) ELSE 0
Keyword(u, p) == Prop(Arg(u, Len(u.args)), p)
Family(families, name) == IF name \in DOMAIN families THEN families[name] ELSE name

(* hashlib: the functions by name, new and pbkdf2_hmac by an argument.     *)
PythonHashlib(f, t) ==
  {Sure(u, t.hashes[u.fn], HashSeverity(t.hashes[u.fn]), <<"hashlib", u.fn>>) : u \in Calls(f, <<"hashlib">>, DOMAIN t.hashes)}
PythonHashlibNew(f, t) ==
  UNION {LET a == PythonText(f, Arg(u, 1)) fam == Family(t.hashes, Lower(a.text))
         IN Maybe(a.text # "", Found(u, fam, 0, HashSeverity(fam), a.conf, <<"hashlib-new", Lower(a.text)>>)) :
           u \in Calls(f, <<"hashlib">>, {"new"})}
PythonPBKDF2(f) ==
  {Found(u, "PBKDF2-HMAC", 0, CheckKDFIterations("pbkdf2", PythonInt(f, Arg(u, 4))), PythonText(f, Arg(u, 1)).conf, <<u.fn>>) :
     u \in Calls(f, <<"hashlib">>, {"pbkdf2_hmac"})}

(* cryptography: the mode of a cipher is in the call that encloses it, and *)
(* belongs to the words of the use.                                        *)
PythonCiphers(f, t) ==
  {LET modes == Words(u) \cap DOMAIN t.modes
       mode == IF modes = {} THEN "" ELSE t.modes[CHOOSE m \in modes : TRUE]
   IN Sure(u, t.ciphers[u.fn], CipherSeverity(t.ciphers[u.fn], mode), <<"cipher", u.fn, mode>>) :
     u \in Calls(f, <<"algorithms">>, DOMAIN t.ciphers)}
PythonCryptoHashes(f, t) ==
  {Sure(u, t.cryptoHashes[u.fn], HashSeverity(t.cryptoHashes[u.fn]), <<"hashes", u.fn>>) :
     u \in Calls(f, <<"hashes">>, DOMAIN t.cryptoHashes)}
PythonKeySize(f, u) == PythonInt(f, Keyword(u, "key_size"))
PythonAsymmetric(f) ==
  {Found(u, "RSA", PythonKeySize(f, u), RSASeverity("rsa", PythonKeySize(f, u)), "high", <<"rsa">>) :
     u \in Calls(f, <<"rsa">>, {"generate_private_key"})}
  \cup {Sure(u, "EC", "info", <<"ec">>) : u \in Calls(f, <<"ec">>, {"generate_private_key"})}
  \cup {Found(u, "DH", PythonKeySize(f, u), "info", "high", <<"dh">>) : u \in Calls(f, <<"dh">>, {"generate_parameters"})}
  \cup {Found(u, "DSA", PythonInt(f, Arg(u, 1)), "medium", "high", <<"dsa">>) : u \in Calls(f, <<"dsa">>, {"generate_private_key"})}
PythonEd25519(f) ==
  UNION {{Sure(u, "Ed25519", "info", <<"ed25519">>), Sure(u, "SHA-512", "info", <<"ed25519", "hash">>)} :
           u \in Calls(f, <<"Ed25519PrivateKey">>, {"generate"})}
PythonX25519(f) == {Sure(u, "X25519", "info", <<"x25519">>) : u \in Calls(f, <<"X25519PrivateKey">>, {"generate"})}
(* The hash inside of a key derivation is a finding of its own.            *)
KDFHash == ("hashes.SHA1()" :> "sha1") @@ ("hashes.SHA256()" :> "sha-256")
PythonKDFs(f, t) ==
  UNION {LET hash == Keyword(u, "algorithm").text
         IN {Sure(u, t.kdfs[u.fn].name, "info", <<"kdf", u.fn>>)}
            \cup {Sure(u, KDFHash[h], HashSeverity(KDFHash[h]), <<"kdf-hash", u.fn>>) : h \in {hash} \cap DOMAIN KDFHash} :
           u \in Plain(f, DOMAIN t.kdfs)}
PythonCryptography(f, t) ==
  UNION {PythonCiphers(f, t), PythonCryptoHashes(f, t), PythonAsymmetric(f), PythonKDFs(f, t),
         PythonEd25519(f), PythonX25519(f)}

(* ssl: a context of a protocol, a version, a certificate not asked for.   *)
PythonSSLContext(f, t) ==
  UNION {RowsOf({[u EXCEPT !.fn = p] : p \in Words(u) \cap DOMAIN t.protocols}, t.protocols) : u \in Calls(f, <<"ssl">>, {"SSLContext"})}
PythonTLSVersion(f, t) == RowsOf({u \in f.uses : u.on = <<"ssl", "TLSVersion">>}, t.versions)
PythonCertNone(f) ==
  {Sure(u, "Certificate Validation Disabled", "critical", <<"cert-none">>) : u \in {u \in f.uses : u.on = <<"ssl">> /\ u.fn = "CERT_NONE"}}
PythonWrapSocket(f) == {Sure(u, "ssl.wrap_socket", "medium", <<"wrap-socket">>) : u \in Calls(f, <<"ssl">>, {"wrap_socket"})}
PythonSSL(f, t) == UNION {PythonSSLContext(f, t), PythonTLSVersion(f, t), PythonCertNone(f), PythonWrapSocket(f)}

(* The names a module brings in are the ones it gives them, not the ones   *)
(* that the file calls them by; only BLS knows these as well.              *)
Froms(f, paths) == {i \in f.imports : i.path \in paths /\ i.last # ""}
ImportedNames(f, paths) == {i.last : i \in Froms(f, paths)}
ImportAliases(f, paths) == {i.as : i \in Froms(f, paths)} \ {""}
ModuleTokens(f) == {i.path : i \in f.imports} \cup {i.last : i \in f.imports}
PlainImport(f, path) == \E i \in f.imports : i.path = path /\ i.last = ""

(* PyCryptodome reports the import itself, at its place at, and a use.     *)
PyCrypto == {"Crypto.Cipher", "Crypto.Hash", "Crypto.PublicKey"}
BrokenFamilies == {"des", "3des", "rc4", "md5", "sha1"}
PyCryptodome(f, t) ==
  {LET fam == t.pycryptoImports[i.last]
   IN [at |-> 0, name |-> fam, size |-> 0, sev |-> IF fam \in BrokenFamilies THEN "high" ELSE "info", conf |-> "high",
       rule |-> <<"pycrypto-import", i.last>>] : i \in {i \in Froms(f, PyCrypto) : i.as = "" /\ i.last \in DOMAIN t.pycryptoImports}}
PyCryptodomeUses(f) == UNION {Calls(f, <<n>>, {"new"}) : n \in ImportedNames(f, PyCrypto)}
PyCryptodomeUsage(f, t) ==
  {LET modes == Words(u) \cap DOMAIN t.pycryptoModes
       mode  == IF modes = {} THEN "" ELSE t.pycryptoModes[CHOOSE m \in modes : TRUE]
   IN Sure(u, t.pycryptoCiphers[u.on[1]], CipherSeverity(t.pycryptoCiphers[u.on[1]], mode), <<"pycrypto", u.on[1], mode>>) :
     u \in {u \in PyCryptodomeUses(f) : u.on[1] \in DOMAIN t.pycryptoCiphers}}
  \cup {Sure(u, t.pycryptoHashes[u.on[1]], HashSeverity(t.pycryptoHashes[u.on[1]]), <<"pycrypto", u.on[1]>>) :
          u \in {u \in PyCryptodomeUses(f) : u.on[1] \in DOMAIN t.pycryptoHashes \ DOMAIN t.pycryptoCiphers}}
PycaAEAD(f, t) ==
  RowsOf(Plain(f, DOMAIN t.aead \cap ImportedNames(f, {"cryptography.hazmat.primitives.ciphers.aead"})), t.aead)

(* random is weak where the name of a variable or a function around the    *)
(* call speaks of a secret.                                                *)
SecurityContext == {"token", "password", "key"}
PythonWeakRandom(f, t) ==
  {Found(u, "Weak PRNG (random)", 0, "high", "medium", <<"random", u.fn>>) :
     u \in {u \in Calls(f, <<"random">>, t.random) : PlainImport(f, "random") /\ u.to \in SecurityContext}}

(* The hash of an HMAC is any hashlib function the text of the arguments   *)
(* has, in the order of a Go map: pick; or a quoted one; or a constant.    *)
HashlibRef == ("hashlib.md5" :> "md5") @@ ("hashlib.sha1" :> "sha1") @@ ("hashlib.sha256" :> "sha256")
PythonPicks(f) == {pick \in [f.uses -> UNION {Words(u) : u \in f.uses}] : \A u \in f.uses : pick[u] \in Words(u)}
QuotedHashes == <<"sha256", "sha512", "sha1", "md5">>
PythonHMACHash(f, t, pick, u) ==
  LET refs   == Words(u) \cap {r \in DOMAIN HashlibRef : HashlibRef[r] \in DOMAIN t.hashes}
      quoted == {i \in DOMAIN QuotedHashes : QuotedHashes[i] \in DOMAIN t.hashes /\ \E k \in DOMAIN u.args : u.args[k] = Lit(QuotedHashes[i])}
      named  == IF Keyword(u, "digestmod").kind = "identifier" THEN Resolve(PythonConsts(f), Keyword(u, "digestmod")) ELSE Unknown
  IN IF refs # {} THEN [text |-> t.hashes[HashlibRef[IF pick[u] \in refs THEN pick[u] ELSE CHOOSE r \in refs : TRUE]], conf |-> "high"]
     ELSE IF quoted # {} THEN [text |-> t.hashes[QuotedHashes[CHOOSE i \in quoted : \A j \in quoted : i <= j]], conf |-> "high"]
     ELSE named
HashFamily(hash) == Family([md5 |-> "md5", sha1 |-> "sha1", sha256 |-> "sha-256"], Lower(hash))
PythonInnerHash(u, hash) ==
  LET fam == HashFamily(hash.text) IN Maybe(hash.text # "", Found(u, fam, 0, HashSeverity(fam), hash.conf, <<"hmac-hash">>))
PythonHMAC(f, t, pick) ==
  UNION {LET hash == PythonHMACHash(f, t, pick, u)
         IN {Found(u, "HMAC", 0, "info", hash.conf, <<"hmac", hash.text>>)} \cup PythonInnerHash(u, hash) : u \in Calls(f, <<"hmac">>, {"new"})}

PythonPKCS1v15(f) ==
  {Sure(u, "RSA-PKCS1v15", "medium", <<"pkcs1v15">>) : u \in Calls(f, <<"padding">>, {"PKCS1v15"}) \cup Plain(f, {"PKCS1v15"})}
PythonFernet(f) ==
  {Sure(u, u.fn, "info", <<"fernet">>) : u \in Plain(f, {"Fernet", "MultiFernet"})}
  \cup {Sure(u, "Fernet", "info", <<"fernet">>) : u \in Calls(f, <<"Fernet">>, {"generate_key"})}
PythonMACs(f) == {Sure(u, u.fn, "info", <<"mac">>) : u \in Plain(f, {"CMAC", "Poly1305"})}
BLSModules == {"py_ecc.bls", "py_ecc", "blspy"}
PythonBLS(f, t) ==
  {Sure(u, "BLS12-381", "info", <<"bls", u.fn>>) :
     u \in UNION {Calls(f, <<n>>, t.bls) : n \in ImportedNames(f, BLSModules) \cup ImportAliases(f, BLSModules)}}
SchnorrModules == {"coincurve", "secp256k1"}
PythonSchnorr(f) ==
  {Sure(u, "Schnorr", "info", <<"schnorr", u.fn>>) :
     u \in {u \in f.uses : /\ Froms(f, SchnorrModules) # {} \/ \E m \in SchnorrModules : PlainImport(f, m)
                           /\ u.kind = "call" /\ u.on # <<>> /\ u.fn \in {"sign_schnorr", "verify_schnorr"}}}
PythonTier2(f, t) ==
  UNION {{Sure(u, r.name, "medium", <<"tier2", r.name>>) : u \in Calls(f, r.on, {r.fn})} :
           r \in {r \in t.tier2 : r.token \in ModuleTokens(f)}}

PythonScan(f, t, pick) ==
  UNION {PythonHashlib(f, t), PythonHashlibNew(f, t), PythonPBKDF2(f), PythonCryptography(f, t), PythonSSL(f, t), PyCryptodome(f, t),
         PyCryptodomeUsage(f, t), PycaAEAD(f, t), PythonWeakRandom(f, t), PythonHMAC(f, t, pick), PythonPKCS1v15(f),
         PythonFernet(f), PythonMACs(f), PythonBLS(f, t), PythonSchnorr(f), PythonTier2(f, t)}
=============================================================================
