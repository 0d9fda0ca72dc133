------------------------------ MODULE GoRules -------------------------------
(***************************************************************************)
(* The detectors of Go source (scanner/golang).  A package is recognised   *)
(* by its import path and its uses by the name it was imported under; as   *)
(* gives that name for each path.                                          *)
(***************************************************************************)
EXTENDS SourceFile

XCrypto == "golang.org/x/crypto/"

(* Of a package imported under two names the scanner takes either: it asks *)
(* a Go map.                                                               *)
Name(i) == IF i.as = "" THEN i.last ELSE i.as
Names(f, path) == {Name(i) : i \in {i \in f.imports : i.path = path}}
Aliases(f) ==
  {as \in [{i.path : i \in f.imports} -> {Name(i) : i \in f.imports}] : \A path \in DOMAIN as : as[path] \in Names(f, path)}

(* The last literal assigned to a name anywhere in the file.  Targets that *)
(* are not identifiers are left out of the names and not of the values:    *)
(* the value of a name is counted among the identifiers.                   *)
GoTarget(a, j) == Cardinality({h \in 1..j : a.names[h] # ""})
GoAssigned(f, n) ==
  {p \in (DOMAIN f.assigns) \X (1..2) :
     LET a == f.assigns[p[1]] IN
       /\ n # "" /\ \E j \in DOMAIN a.names : a.names[j] = n /\ GoTarget(a, j) = p[2]
       /\ p[2] \in DOMAIN a.values /\ Literal(a.values[p[2]])}
GoConsts(f) ==
  LET names == UNION {{a.names[i] : i \in DOMAIN a.names} : a \in {f.assigns[k] : k \in DOMAIN f.assigns}}
  IN [n \in {m \in names : GoAssigned(f, m) # {}} |->
        LET last == CHOOSE p \in GoAssigned(f, n) : \A q \in GoAssigned(f, n) : q[1] < p[1] \/ (q[1] = p[1] /\ q[2] <= p[2])
        IN f.assigns[last[1]].values[last[2]].text]

CallsOf(f, alias, fns) == Calls(f, <<alias>>, fns)

(* Every call of a function of the rows, of an imported package.           *)
GoRows(f, as, path, rows) ==
  IF path \notin DOMAIN as THEN {}
  ELSE {Sure(u, rows[u.fn].name, rows[u.fn].sev, <<path, u.fn>>) : u \in CallsOf(f, as[path], DOMAIN rows)}

GoAES(f, as)    == GoRows(f, as, "crypto/aes", [NewCipher |-> Info("AES")])
GoCipher(f, as) == GoRows(f, as, "crypto/cipher",
  [NewGCM |-> Info("AES-GCM"), NewCBCEncrypter |-> Info("AES-CBC"), NewCBCDecrypter |-> Info("AES-CBC"),
   NewCTR |-> Info("AES-CTR"), NewOFB |-> Info("AES-OFB"), NewCFBEncrypter |-> Info("AES-CFB")])
GoDES(f, as)    == GoRows(f, as, "crypto/des", [NewCipher |-> High("DES"), NewTripleDESCipher |-> High("3DES")])
GoMD5(f, as)    == GoRows(f, as, "crypto/md5", [New |-> High("MD5"), Sum |-> High("MD5")])
GoRC4(f, as)    == GoRows(f, as, "crypto/rc4", [NewCipher |-> High("RC4")])
GoSHA1(f, as)   == GoRows(f, as, "crypto/sha1", [New |-> High("SHA-1"), Sum |-> High("SHA-1")])
GoSHA256(f, as) == GoRows(f, as, "crypto/sha256", [New |-> Info("SHA-256"), Sum256 |-> Info("SHA-256"), New224 |-> Info("SHA-224")])
GoSHA512(f, as) == GoRows(f, as, "crypto/sha512", [New |-> Info("SHA-512"), Sum512 |-> Info("SHA-512"), New384 |-> Info("SHA-384")])
GoHMAC(f, as)   == GoRows(f, as, "crypto/hmac", [New |-> Info("HMAC")])
GoDSA(f, as)    == GoRows(f, as, "crypto/dsa", [GenerateParameters |-> Info("DSA"), GenerateKey |-> Info("DSA")])
GoECDSA(f, as)  == GoRows(f, as, "crypto/ecdsa", [GenerateKey |-> Info("ECDSA"), Sign |-> Info("ECDSA")])
GoECDH(f, as)   == GoRows(f, as, "crypto/ecdh",
  [P256 |-> Info("ECDH-P256"), P384 |-> Info("ECDH-P384"), P521 |-> Info("ECDH-P521"), X25519 |-> Info("ECDH-X25519")])
GoEd25519(f, as) == GoRows(f, as, "crypto/ed25519", [GenerateKey |-> Info("Ed25519"), Sign |-> Info("Ed25519")])
GoX509(f, as)   == GoRows(f, as, "crypto/x509", [ParseCertificate |-> Info("X.509"), ParseCertificates |-> Info("X.509"),
                                               ParseCertificatePEM |-> Info("X.509")])

(* A key of RSA has the size of the second argument, and is not held       *)
(* against the program however short it is.                                *)
GoRSAKeySize(f, u) == Atoi(Resolve(GoConsts(f), Arg(u, 2)).text)
GoRSA(f, as) ==
  LET path == "crypto/rsa" IN
  GoRows(f, as, path, [EncryptPKCS1v15 |-> Medium("RSA"), DecryptPKCS1v15 |-> Medium("RSA"), SignPKCS1v15 |-> Medium("RSA"),
                       EncryptOAEP |-> Info("RSA"), DecryptOAEP |-> Info("RSA"), SignPSS |-> Info("RSA")])
  \cup (IF path \notin DOMAIN as THEN {}
        ELSE {Found(u, "RSA", GoRSAKeySize(f, u), "info", "high", <<path, u.fn>>) : u \in CallsOf(f, as[path], {"GenerateKey"})})

(* Two tables can be replaced from outside: of protocol versions, which    *)
(* are references, and of SM2.                                             *)
GoEmbedded == [tls |-> [VersionTLS10 |-> High("TLS 1.0"), VersionTLS11 |-> High("TLS 1.1"), VersionTLS12 |-> Info("TLS 1.2"),
                        VersionTLS13 |-> Info("TLS 1.3"), VersionSSL30 |-> High("SSL 3.0")],
               sm2 |-> {"GenerateKey", "Encrypt", "Decrypt", "Sign", "Verify"}]
GoTLS(f, as, t) ==
  LET path == "crypto/tls" IN
  IF path \notin DOMAIN as THEN {}
  ELSE {Sure(u, t.tls[u.fn].name, t.tls[u.fn].sev, <<path, u.fn>>) :
          u \in {u \in f.uses : u.on = <<as[path]>> /\ u.fn \in DOMAIN t.tls}}
GoSM2(f, as, t) == GoRows(f, as, "github.com/tjfoc/gmsm/sm2", [fn \in t.sm2 |-> Medium("SM2")])

GoChaCha20Poly1305(f, as) == GoRows(f, as, XCrypto \o "chacha20poly1305", [New |-> Info("ChaCha20-Poly1305"), NewX |-> Info("ChaCha20-Poly1305")])
GoNaCl(f, as)   == GoRows(f, as, XCrypto \o "nacl/box", [Seal |-> Info("NaCl-Box"), Open |-> Info("NaCl-Box"), GenerateKey |-> Info("NaCl-Box")])
                   \cup GoRows(f, as, XCrypto \o "nacl/secretbox", [Seal |-> Info("NaCl-SecretBox"), Open |-> Info("NaCl-SecretBox")])
GoArgon2(f, as) == GoRows(f, as, XCrypto \o "argon2", [IDKey |-> Info("Argon2"), Key |-> Info("Argon2")])
GoScrypt(f, as) == GoRows(f, as, XCrypto \o "scrypt", [Key |-> Info("scrypt")])
GoHKDF(f, as)   == GoRows(f, as, XCrypto \o "hkdf", [New |-> Info("HKDF")])
GoSSH(f, as)    == GoRows(f, as, XCrypto \o "ssh", [ParsePrivateKey |-> Info("SSH"), ParseAuthorizedKey |-> Info("SSH"),
                                                         NewClientConn |-> Info("SSH"), Dial |-> Info("SSH")])
GoBcrypt(f, as) ==
  LET path == XCrypto \o "bcrypt" IN
  GoRows(f, as, path, [CompareHashAndPassword |-> Info("bcrypt")])
  \cup (IF path \notin DOMAIN as THEN {}
        ELSE {Sure(u, "bcrypt", CheckKDFIterations("bcrypt", Atoi(Resolve(GoConsts(f), Arg(u, 2)).text)), <<path, u.fn>>) :
                u \in CallsOf(f, as[path], {"GenerateFromPassword"})})

(* Packages that ship under several module paths go by their last part; of *)
(* several such imports one is taken.                                      *)
GoRowsOfAny(f, as, lasts, rows) ==
  LET paths == {i.path : i \in {i \in f.imports : i.last \in lasts}}
  IN IF paths = {} THEN {} ELSE GoRows(f, as, CHOOSE path \in paths : TRUE, rows)
GoSchnorr(f, as) == GoRowsOfAny(f, as, {"schnorr"}, [fn \in {"Sign", "Verify", "NewSignature", "ParseSignature"} |-> Info("Schnorr")])
GoBLS(f, as)     == GoRowsOfAny(f, as, {"bls12-381", "bls12381", "bls"},
  [fn \in {"Sign", "Verify", "SignatureFromBytes", "AggregateSignatures", "RandKey", "NewG1", "NewG2"} |-> Info("BLS12-381")])

GoXCrypto(f, as) == GoChaCha20Poly1305(f, as) \cup GoNaCl(f, as) \cup GoArgon2(f, as) \cup GoBcrypt(f, as)
                    \cup GoScrypt(f, as) \cup GoSSH(f, as) \cup GoHKDF(f, as)
GoScan(f, as, t) ==
  UNION {GoAES(f, as), GoCipher(f, as), GoDES(f, as), GoMD5(f, as), GoRC4(f, as), GoSHA1(f, as), GoSHA256(f, as),
         GoSHA512(f, as), GoHMAC(f, as), GoRSA(f, as), GoDSA(f, as), GoECDSA(f, as), GoECDH(f, as), GoEd25519(f, as),
         GoTLS(f, as, t), GoX509(f, as), GoXCrypto(f, as), GoSchnorr(f, as), GoBLS(f, as), GoSM2(f, as, t)}
=============================================================================
