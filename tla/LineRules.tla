------------------------------ MODULE LineRules -----------------------------
(***************************************************************************)
(* The detectors of Swift and Dart (scanner/swift, scanner/dart), which    *)
(* have no grammar and read line by line: a use is a line, its words what  *)
(* the patterns look for, in the order of the line.  The names that the    *)
(* file gives to literals are replaced first, wherever their letters       *)
(* stand: in the middle of a word as well, and in what another name was    *)
(* replaced by.  They come from a Go map, for each line in an order of its *)
(* own: pick.                                                              *)
(***************************************************************************)
EXTENDS SourceFile

(* The first literal given to a name.                                      *)
LineConsts(f) ==
  LET to(n) == {k \in DOMAIN f.assigns : f.assigns[k].names = <<n>> /\ Literal(f.assigns[k].values[1])}
  IN [n \in {n \in {f.assigns[k].names[1] : k \in DOMAIN f.assigns} : n # "" /\ to(n) # {}} |->
        f.assigns[CHOOSE k \in to(n) : \A j \in to(n) : k <= j].values[1].text]

Orders(f) ==
  LET names == DOMAIN LineConsts(f) places == 1..Cardinality(names)
  IN {order \in [places -> names] : \A i, j \in places : i # j => order[i] # order[j]}
LinePicks(f) == [f.uses -> Orders(f)]

(* What is left of a word that is replaced in part is looked for by none,  *)
(* but for the mode of a cipher: that is then another one.                 *)
Inside(n, w) == \E i \in 1..(Len(w) - Len(n) + 1) : SubSeq(w, i, i + Len(n) - 1) = n
OtherMode == "AESMode.*"
Replace(consts, w, n) ==
  IF w = n THEN consts[n]
  ELSE IF ~Inside(n, w) THEN w
  ELSE IF w \in {"AESMode.ecb", "AESMode.gcm"} /\ ~Inside(n, "AESMode.") THEN OtherMode ELSE ""
ResolveLine(consts, order, w) ==
  LET text[k \in 0..Len(order)] == IF k = 0 THEN w ELSE Replace(consts, text[k - 1], order[k]) IN text[Len(order)]
FileWords(f, u, pick) ==     \* mutant: of the whole text
  UNION {{ResolveLine(LineConsts(f), pick[u], w) : w \in Words(v)} : v \in f.uses}
LineWords(f, u, pick) == {ResolveLine(LineConsts(f), pick[u], w) : w \in Words(u)}
Lines(f) == {u \in f.uses : u.kind = "line"}
LineRows(f, rows, pick) ==
  UNION {{Sure(u, rows[w].name, rows[w].sev, <<w>>) : w \in LineWords(f, u, pick) \cap DOMAIN rows} : u \in Lines(f)}

SwiftCryptoKit ==
  ("AES.GCM.seal" :> Info("AES-GCM")) @@ ("ChaChaPoly.seal" :> Info("ChaChaPoly")) @@ ("SHA256.hash" :> Info("SHA-256"))
  @@ ("HMAC<SHA256>" :> Info("HMAC-SHA256")) @@ ("P256.Signing" :> Info("P256-Signing"))
  @@ ("P256.KeyAgreement" :> Info("P256-KeyAgreement")) @@ ("Curve25519.Signing" :> Info("Curve25519-Signing"))
  @@ ("Curve25519.KeyAgreement" :> Info("Curve25519-KeyAgreement")) @@ ("SymmetricKey(" :> Info("SymmetricKey"))
SwiftCommonCrypto ==
  ("CCHmac(" :> Info("CCHmac")) @@ ("CC_SHA256(" :> Info("CC_SHA256")) @@ ("CC_SHA512(" :> Info("CC_SHA512"))
  @@ ("CC_SHA1(" :> High("CC_SHA1")) @@ ("CC_MD5(" :> High("CC_MD5")) @@ ("CCKeyDerivationPBKDF(" :> Info("CCKeyDerivationPBKDF"))
SwiftSecurity == ("SecKeyCreateRandomKey(" :> Info("SecKeyCreateRandomKey")) @@ ("SecCertificateCreateWithData(" :> Info("SecCertificate"))
                 @@ ("NWProtocolTLS" :> Info("TLS"))

(* What CCCrypt encrypts with, the first constant of the same line tells.  *)
SwiftEmbedded == [algorithms |-> [kCCAlgorithmDES |-> High("CCCrypt-DES"), kCCAlgorithm3DES |-> High("CCCrypt-3DES"),
                                  kCCAlgorithmRC4 |-> High("CCCrypt-RC4"), kCCAlgorithmAES |-> Info("CCCrypt-AES")]]
SwiftCCCrypt(f, t, pick) ==
  {LET word(i) == ResolveLine(LineConsts(f), pick[u], u.args[i].text)
       named == {i \in DOMAIN u.args : word(i) \in DOMAIN t.algorithms}
       row   == IF named = {} THEN Info("CCCrypt") ELSE t.algorithms[word(CHOOSE i \in named : \A j \in named : i <= j)]
   IN Sure(u, row.name, row.sev, <<"cccrypt", row.name>>) : u \in {u \in Lines(f) : "CCCrypt(" \in LineWords(f, u, pick)}}
SwiftScan(f, t, pick) ==
  UNION {LineRows(f, SwiftCryptoKit, pick), LineRows(f, SwiftCommonCrypto, pick), LineRows(f, SwiftSecurity, pick), SwiftCCCrypt(f, t, pick)}

(* The rules of Dart are built in.  The mode of a cipher is taken down; no *)
(* mode is held against it.                                                *)
DartPatterns ==
  ("sha256.convert" :> Info("SHA-256")) @@ ("sha512.convert" :> Info("SHA-512")) @@ ("sha1.convert" :> High("SHA-1"))
  @@ ("md5.convert" :> High("MD5")) @@ ("Hmac(sha256" :> Info("HMAC-SHA256")) @@ ("Hmac(sha1" :> High("HMAC-SHA1"))
  @@ ("AESEngine(" :> Info("AES")) @@ ("RSAEngine(" :> Info("RSA")) @@ ("SHA1Digest(" :> High("SHA-1"))
  @@ ("MD5Digest(" :> High("MD5")) @@ ("PBKDF2KeyDerivator(" :> Info("PBKDF2")) @@ ("ECKeyGenerator(" :> Info("ECDSA"))
  @@ ("Scrypt(" :> Info("scrypt")) @@ ("FortunaRandom(" :> Info("FortunaRandom")) @@ ("DESEngine(" :> High("DES"))
  @@ ("RC4Engine(" :> High("RC4")) @@ ("SecureSocket" :> Info("TLS"))
DartModes == ("AESMode.ecb" :> "AES-ECB") @@ ("AESMode.gcm" :> "AES-GCM") @@ (OtherMode :> "AES-*")
DartEncrypt(f, pick) ==
  {LET words == LineWords(f, u, pick) mode == words \cap DOMAIN DartModes
   IN Sure(u, IF mode = {} THEN "AES" ELSE DartModes[CHOOSE m \in mode : TRUE], "info",
           <<IF "Encrypter(" \in words THEN "encrypter" ELSE "aes">>) :
     u \in {u \in Lines(f) : LineWords(f, u, pick) \cap {"Encrypter(", "AES(key"} # {}}}
DartScan(f, pick) == LineRows(f, DartPatterns, pick) \cup DartEncrypt(f, pick)
=============================================================================
