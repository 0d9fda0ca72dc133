------------------------------ MODULE PhpRules ------------------------------
(***************************************************************************)
(* The detectors of PHP (scanner/php): calls of global functions, by their *)
(* name alone.  Some read a value, some search the text of the arguments   *)
(* for a constant and take the first that a Go map comes upon: pick.       *)
(***************************************************************************)
EXTENDS SourceFile

PhpConsts(f) == LastLiterals(f)
(* What is neither a literal nor a variable stands for its own text.       *)
PhpValue(f, arg) ==
  IF Literal(arg) \/ arg.kind = "identifier" THEN Resolve(PhpConsts(f), arg) ELSE [text |-> arg.text, conf |-> "low"]
PhpTable(table, key) == IF key \in DOMAIN table THEN table[key] ELSE key

PhpEmbedded ==
  [openssl |-> [openssl_encrypt |-> 2, openssl_decrypt |-> 2, openssl_seal |-> 5],
   methods |-> ("aes-128-ecb" :> <<"aes", "ecb">>) @@ ("aes-256-gcm" :> <<"aes", "gcm">>) @@ ("des-cbc" :> <<"des", "cbc">>)
               @@ ("rc4" :> <<"rc4", "">>),
   hashes |-> ("md5" :> "md5") @@ ("sha1" :> "sha1") @@ ("sha256" :> "sha-256"),
   passwords |-> [PASSWORD_BCRYPT |-> "bcrypt", PASSWORD_ARGON2I |-> "Argon2i", PASSWORD_ARGON2ID |-> "Argon2id"],
   sodium |-> [sodium_crypto_secretbox |-> Info("XSalsa20-Poly1305"), sodium_crypto_sign |-> Info("Ed25519"),
               sodium_crypto_pwhash |-> Info("Argon2id")],
   mcrypt |-> {"mcrypt_encrypt", "mcrypt_decrypt", "mcrypt_ecb", "mcrypt_module_open"}]

PhpMethod(t, method) == IF method \in DOMAIN t.methods THEN t.methods[method] ELSE <<method, "">>
PhpOpenSSLCipher(f, t) ==
  {LET a == PhpValue(f, Arg(u, t.openssl[u.fn]))
       m == PhpMethod(t, Lower(a.text))
   IN IF a.text = "" THEN Found(u, "unknown algorithm", 0, "info", "low", <<u.fn>>)
      ELSE Found(u, m[1], 0, CipherSeverity(m[1], m[2]), a.conf, <<u.fn, Lower(a.text)>>) :
     u \in Plain(f, DOMAIN t.openssl)}

(* A key pair is described by an array, read as text.                      *)
PhpKeyTypes == [OPENSSL_KEYTYPE_EC |-> "ec", OPENSSL_KEYTYPE_DSA |-> "dsa", OPENSSL_KEYTYPE_RSA |-> "rsa"]
PhpKeyPair(f) ==
  {LET type == Prop(Arg(u, 1), "private_key_type").text
   IN Found(u, IF type \in DOMAIN PhpKeyTypes THEN PhpKeyTypes[type] ELSE "rsa", Atoi(Prop(Arg(u, 1), "private_key_bits").text),
            "info", "medium", <<u.fn>>) : u \in Plain(f, {"openssl_pkey_new"})}
PhpSignHashes == [OPENSSL_ALGO_SHA1 |-> "sha1", OPENSSL_ALGO_SHA256 |-> "sha-256", OPENSSL_ALGO_MD5 |-> "md5"]
PhpSign(f) ==
  {LET known == Words(u) \cap DOMAIN PhpSignHashes
   IN Found(u, "rsa", 0, "info", IF known = {} THEN "medium" ELSE "high", <<u.fn>>) : u \in Plain(f, {"openssl_sign"})}

PhpHash(f, t) ==
  UNION {LET a == PhpValue(f, Arg(u, 1)) fam == PhpTable(t.hashes, Lower(a.text))
         IN Maybe(a.text # "", Found(u, fam, 0, HashSeverity(fam), a.conf, <<u.fn, Lower(a.text)>>)) : u \in Plain(f, {"hash"})}
PhpHMAC(f, t) ==
  {LET a == PhpValue(f, Arg(u, 1))
   IN Found(u, "HMAC-" \o PhpTable(t.hashes, Lower(a.text)), 0, "info", a.conf, <<u.fn>>) : u \in Plain(f, {"hash_hmac"})}
PhpPBKDF2(f, t) ==
  {LET a == PhpValue(f, Arg(u, 1))
   IN Found(u, "PBKDF2-" \o PhpTable(t.hashes, Lower(a.text)), 0,
            CheckKDFIterations("pbkdf2", Atoi(PhpValue(f, Arg(u, 4)).text)), a.conf, <<u.fn>>) : u \in Plain(f, {"hash_pbkdf2"})}

(* The name of one constant is in the name of another.                     *)
PhpWords(u) == Words(u) \cup (IF "PASSWORD_ARGON2ID" \in Words(u) THEN {"PASSWORD_ARGON2I"} ELSE {})
PhpPicks(f) == {pick \in [f.uses -> UNION {PhpWords(u) : u \in f.uses}] : \A u \in f.uses : pick[u] \in PhpWords(u)}
PhpPassword(f, t, pick) ==
  {LET known == PhpWords(u) \cap DOMAIN t.passwords IN
     IF known = {} THEN Found(u, "unknown algorithm", 0, "info", "low", <<u.fn>>)
     ELSE Sure(u, t.passwords[IF pick[u] \in known THEN pick[u] ELSE CHOOSE n \in known : TRUE], "info", <<u.fn>>) :
       u \in Plain(f, {"password_hash"})}
  \cup {Sure(u, "password_verify", "info", <<u.fn>>) : u \in Plain(f, {"password_verify"})}

PhpSodium(f, t) == RowsOf(Plain(f, DOMAIN t.sodium), t.sodium)
(* All of mcrypt is broken, whatever it is given.                          *)
PhpMcrypt(f, t) == {Sure(u, "mcrypt-" \o PhpValue(f, Arg(u, 1)).text, "high", <<u.fn>>) : u \in Plain(f, t.mcrypt)}

PhpScan(f, t, pick) ==
  UNION {PhpOpenSSLCipher(f, t), PhpKeyPair(f), PhpSign(f), PhpHash(f, t), PhpHMAC(f, t), PhpPBKDF2(f, t),
         PhpPassword(f, t, pick), PhpSodium(f, t), PhpMcrypt(f, t)}
=============================================================================
