------------------------------ MODULE RustRules -----------------------------
(***************************************************************************)
(* The detectors of Rust (scanner/rust).  They search the whole text of    *)
(* each call, of which the calls inside are a part, for the names of       *)
(* algorithms, and take one of those they come upon: which one, of several *)
(* the order of a Go map says.  pick is that order's answer for each call. *)
(***************************************************************************)
EXTENDS SourceFile

RustConsts(f) == LastLiterals(f)
RustUses(f, crate) == \E i \in f.imports : i.path = crate
RustCalls(f) == {u \in f.uses : u.kind = "call"}

Picks(f) == {pick \in [f.uses -> UNION {Words(u) : u \in f.uses}] : \A u \in f.uses : pick[u] \in Words(u)}
Picked(pick, u, names) == IF pick[u] \in names THEN pick[u] ELSE CHOOSE n \in names : TRUE

(* A call with one of the words: what it is about if its text tells, or    *)
(* else just that it is one.                                               *)
Unsure(name) == [name |-> name, conf |-> "medium"]
RustOneOf(f, pick, calls, rows, otherwise) ==
  {LET known == Words(u) \cap DOMAIN rows IN
     IF known = {} THEN Found(u, otherwise.name, 0, "info", otherwise.conf, <<otherwise.name>>)
     ELSE LET n == Picked(pick, u, known) IN Sure(u, rows[n].name, rows[n].sev, <<rows[n].name>>) :
       u \in {u \in RustCalls(f) : Words(u) \cap calls # {}}}

RustEmbedded == [digests |-> [SHA256 |-> Info("SHA-256"), SHA384 |-> Info("SHA-384"), SHA512 |-> Info("SHA-512"),
                              SHA1 |-> High("SHA-1")],
                 aesGcm  |-> [Aes256Gcm |-> 256, Aes128Gcm |-> 128]]
RustRingDigest(f, t, pick) ==
  RustOneOf(f, pick, {"digest::digest(", "digest::Context::new("}, t.digests, Unsure("ring-digest"))
RustRingAEAD(f, pick) ==
  RustOneOf(f, pick, {"UnboundKey::new(", "LessSafeKey::new(", "SealingKey::", "OpeningKey::"},
            [AES_128_GCM |-> Info("AES-128-GCM"), AES_256_GCM |-> Info("AES-256-GCM"), CHACHA20_POLY1305 |-> Info("ChaCha20-Poly1305")],
            Unsure("ring-aead"))
RustRingAgreement(f, pick) ==
  RustOneOf(f, pick, {"EphemeralPrivateKey::generate(", "agree_ephemeral("},
            [X25519 |-> Info("X25519"), ECDH_P256 |-> Info("ECDH-P256"), ECDH_P384 |-> Info("ECDH-P384")], Unsure("ring-agreement"))
RustRingPBKDF2(f) ==
  {Sure(u, "PBKDF2", "info", <<"pbkdf2">>) : u \in {u \in RustCalls(f) : Words(u) \cap {"pbkdf2::derive(", "pbkdf2::verify("} # {}}}
RustSignatures == [ED25519 |-> Info("Ed25519"), ECDSA_P256_SHA256_ASN1 |-> Info("ECDSA-P256-SHA256"),
                   RSA_PKCS1_SHA256 |-> Info("RSA-PKCS1-SHA256"), RSA_PSS_SHA256 |-> Info("RSA-PSS-SHA256")]
RustRingSignature(f, pick) ==
  RustOneOf(f, pick, {"Ed25519KeyPair::"}, RustSignatures, [name |-> "Ed25519", conf |-> "high"])
  \cup RustOneOf(f, pick, {"EcdsaKeyPair::"}, RustSignatures, Unsure("ECDSA"))
  \cup RustOneOf(f, pick, {"RsaKeyPair::"}, RustSignatures, Unsure("RSA"))

(* The suites of rustls are looked for in the whole file, and reported at  *)
(* its first line.                                                         *)
RustSuites == [TLS13_AES_256_GCM_SHA384 |-> "AES-256-GCM", TLS13_AES_128_GCM_SHA256 |-> "AES-128-GCM"]
RustRustls(f) ==
  {Sure(u, "TLS", "info", <<"rustls">>) : u \in {u \in RustCalls(f) : Words(u) \cap {"ClientConfig::builder(", "ServerConfig::builder("} # {}}}
  \cup {[at |-> 1, name |-> RustSuites[w], size |-> 0, sev |-> "info", conf |-> "medium", rule |-> <<"rustls", w>>] :
          w \in (UNION {Words(u) : u \in f.uses}) \cap DOMAIN RustSuites}

RustDigestNames == [sha256 |-> Info("SHA-256"), sha1 |-> High("SHA-1"), md5 |-> High("MD5")]
RustCipherNames == [aes_256_cbc |-> Info("AES-256-CBC"), aes_256_gcm |-> Info("AES-256-GCM"), des_cbc |-> High("DES-CBC"),
                    des_ecb |-> High("DES-ECB"), rc4 |-> High("RC4")]
RustKnown(f, pick, marker, rows) ==
  {LET n == Picked(pick, u, Words(u) \cap DOMAIN rows) IN Sure(u, rows[n].name, rows[n].sev, <<marker, rows[n].name>>) :
     u \in {u \in RustCalls(f) : marker \in Words(u) /\ Words(u) \cap DOMAIN rows # {}}}
RustOpenSSL(f, pick) ==
  RustKnown(f, pick, "MessageDigest::", RustDigestNames) \cup RustKnown(f, pick, "Cipher::", RustCipherNames)
  \cup UNION {{Sure(u, "TLS", "info", <<"openssl-tls">>) : w \in Words(u) \cap {"SslConnector::builder("}}
              \cup {Sure(u, "RSA", "info", <<"openssl-rsa">>) : w \in Words(u) \cap {"Rsa::generate(", "PKey::from_rsa("}}
              \cup {Found(u, "openssl-sign", 0, "info", "medium", <<"openssl-sign">>) : w \in Words(u) \cap {"Signer::new(", "Verifier::new("}} :
                u \in RustCalls(f)}

(* The crates of RustCrypto, only of a file that uses them.                *)
RustCryptoAEAD(f, t, pick) ==
  IF ~RustUses(f, "aes_gcm") THEN {}
  ELSE {LET n == Picked(pick, u, Words(u) \cap DOMAIN t.aesGcm) IN Found(u, "AES-GCM", t.aesGcm[n], "info", "high", <<n>>) :
          u \in {u \in RustCalls(f) : Words(u) \cap DOMAIN t.aesGcm # {}}}
RustKeySize(f, u) == Atoi(Resolve(RustConsts(f), Arg(u, Len(u.args))).text)
RustCryptoRSA(f) ==
  IF ~RustUses(f, "rsa") THEN {}
  ELSE {Found(u, "RSA", RustKeySize(f, u), "info", "high", <<"RsaPrivateKey">>) :
          u \in {u \in RustCalls(f) : "RsaPrivateKey::new(" \in Words(u)}}

RustScan(f, t, pick) ==
  UNION {RustRingDigest(f, t, pick), RustRingAEAD(f, pick), RustRingAgreement(f, pick), RustRingPBKDF2(f),
         RustRingSignature(f, pick), RustRustls(f), RustOpenSSL(f, pick), RustCryptoAEAD(f, t, pick), RustCryptoRSA(f)}
=============================================================================
