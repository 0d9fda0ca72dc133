------------------------------ MODULE CppRules ------------------------------
(***************************************************************************)
(* The detectors of C and C++ (scanner/cpp): calls of the functions of     *)
(* OpenSSL, libsodium and mbedTLS, by their name alone.                    *)
(***************************************************************************)
EXTENDS SourceFile

(* A name stands for the literal or the other name last given to it, by an *)
(* initializer, an assignment or a #define.                                *)
CppConsts(f) == LastOfKinds(f, {"literal", "number", "identifier"})
(* f(...) and ns::f(...), not the method o.f(...).                         *)
CppCalls(f, fns) == Plain(f, fns) \cup Calls(f, <<"::">>, fns)
CppRows(f, rows) == RowsOf(CppCalls(f, DOMAIN rows), rows)
CppText(f, arg) == IF arg.text \in DOMAIN CppConsts(f) THEN CppConsts(f)[arg.text] ELSE arg.text
CppInt(f, u, n) == LET arg == Arg(u, n) IN IF Atoi(arg.text) # 0 THEN Atoi(arg.text) ELSE Atoi(CppText(f, arg))

(* The generic interface tells that something is encrypted, not with what. *)
CppEVP(f) ==
  CppRows(f, [fn \in {"EVP_EncryptInit", "EVP_EncryptInit_ex"} |-> Info("EVP-Encrypt")])
  \cup CppRows(f, [fn \in {"EVP_DecryptInit", "EVP_DecryptInit_ex"} |-> Info("EVP-Decrypt")])
  \cup CppRows(f, [fn \in {"EVP_DigestInit", "EVP_DigestInit_ex"} |-> Info("EVP-Digest")])
  \cup CppRows(f, [EVP_DigestSignInit |-> Info("EVP-DigestSign"), EVP_DigestVerifyInit |-> Info("EVP-DigestVerify")])
CppHash(f) ==
  CppRows(f, [fn \in {"SHA256", "SHA256_Init", "SHA256_Update", "SHA256_Final"} |-> Info("SHA-256")])
  \cup CppRows(f, [fn \in {"SHA512", "SHA512_Init", "SHA512_Update", "SHA512_Final"} |-> Info("SHA-512")])
  \cup CppRows(f, [fn \in {"MD5", "MD5_Init", "MD5_Update", "MD5_Final"} |-> High("MD5")])
  \cup CppRows(f, [fn \in {"SHA1", "SHA1_Init", "SHA1_Update", "SHA1_Final"} |-> High("SHA-1")])
CppRSA(f) ==
  {Found(u, "RSA", CppInt(f, u, IF u.fn = "RSA_generate_key" THEN 1 ELSE 2), "info", "high", <<u.fn>>) :
     u \in CppCalls(f, {"RSA_generate_key", "RSA_generate_key_ex"})}
  \cup {Found(u, "EVP-PKEY", 0, "info", "medium", <<u.fn>>) : u \in CppCalls(f, {"EVP_PKEY_CTX_new_id"})}
CppAES(f) ==
  {Found(u, "AES", CppInt(f, u, 2), "info", "high", <<u.fn>>) : u \in CppCalls(f, {"AES_set_encrypt_key", "AES_set_decrypt_key"})}
  \cup CppRows(f, [fn \in {"AES_encrypt", "AES_decrypt"} |-> Medium("AES-ECB")])
  \cup CppRows(f, [fn \in {"DES_set_key", "DES_ecb_encrypt", "DES_ncbc_encrypt"} |-> High("DES")])
  \cup CppRows(f, [fn \in {"RC4", "RC4_set_key"} |-> High("RC4")])
CppHMAC(f) == CppRows(f, [fn \in {"HMAC", "HMAC_Init", "HMAC_Init_ex", "HMAC_Update", "HMAC_Final"} |-> Info("HMAC")])
CppKDF(f)  == CppRows(f, [fn \in {"PKCS5_PBKDF2_HMAC", "PKCS5_PBKDF2_HMAC_SHA1"} |-> Info("PBKDF2")])
CppPEM(f)  == CppRows(f, [fn \in {"PEM_read_PrivateKey", "PEM_read_bio_PrivateKey", "PEM_write_PrivateKey",
                                  "PEM_write_bio_PrivateKey"} |-> Info("PEM-PrivateKey")])

(* The tables that can be replaced.                                        *)
CppEmbedded ==
  [asym |-> [DSA_generate_key |-> Info("DSA"), DH_generate_key |-> Info("DH"), EC_KEY_generate_key |-> Info("EC"),
             ECDSA_sign |-> Info("ECDSA"), ECDH_compute_key |-> Info("ECDH")],
   methods |-> [TLS_method |-> Info("TLS"), TLSv1_method |-> High("TLS 1.0"), TLSv1_2_method |-> Info("TLS 1.2"),
                SSLv23_method |-> High("SSL 2.0/3.0"), SSLv3_method |-> High("SSL 3.0")],
   versions |-> [TLS1_VERSION |-> High("TLS 1.0"), TLS1_1_VERSION |-> High("TLS 1.1"), TLS1_2_VERSION |-> Info("TLS 1.2"),
                 SSL3_VERSION |-> High("SSL 3.0")]]
CppAsymmetric(f, t) == CppRows(f, t.asym)

(* The method of a context is read where it is called; a method that was   *)
(* put into a variable is just TLS.  Of the versions set, a minimum may be *)
(* given by a name, a maximum may not.                                     *)
CppContexts(f, t) ==
  {LET m == Arg(u, 1).text IN
     IF m \in DOMAIN t.methods THEN Sure(u, t.methods[m].name, t.methods[m].sev, <<"ssl-ctx", m>>)
     ELSE Found(u, "TLS", 0, "info", "medium", <<"ssl-ctx">>) : u \in CppCalls(f, {"SSL_CTX_new"})}
CppVersions(f, t) ==
  UNION {{Sure(u, t.versions[w].name, t.versions[w].sev, <<u.fn, w>>) : w \in {Arg(u, 2).text} \cap DOMAIN t.versions} :
           u \in CppCalls(f, {"SSL_CTX_set_min_proto_version", "SSL_CTX_set_max_proto_version"})}
CppNamedVersions(f, t) ==
  UNION {{Found(u, t.versions[w].name, 0, t.versions[w].sev, "medium", <<u.fn, w>>) :
            w \in (IF Arg(u, 2).text \in DOMAIN t.versions THEN {} ELSE {CppText(f, Arg(u, 2))}) \cap DOMAIN t.versions} :
           u \in CppCalls(f, {"SSL_CTX_set_min_proto_version"})}
CppSSL(f, t) == CppContexts(f, t) \cup CppVersions(f, t) \cup CppNamedVersions(f, t)

CppLibsodium(f) ==
  CppRows(f, [fn \in {"crypto_secretbox", "crypto_secretbox_easy", "crypto_secretbox_open_easy"} |-> Info("XSalsa20-Poly1305")])
  \cup CppRows(f, [fn \in {"crypto_box", "crypto_box_easy", "crypto_box_open_easy", "crypto_box_keypair"} |->
                     Info("Curve25519-XSalsa20-Poly1305")])
  \cup CppRows(f, [fn \in {"crypto_sign", "crypto_sign_detached", "crypto_sign_open", "crypto_sign_verify_detached",
                           "crypto_sign_keypair", "crypto_sign_ed25519_keypair"} |-> Info("Ed25519")])
  \cup CppRows(f, [fn \in {"crypto_aead_xchacha20poly1305_ietf_encrypt", "crypto_aead_xchacha20poly1305_ietf_decrypt",
                           "crypto_aead_chacha20poly1305_ietf_encrypt", "crypto_aead_chacha20poly1305_ietf_decrypt",
                           "crypto_aead_chacha20poly1305_encrypt", "crypto_aead_chacha20poly1305_decrypt"} |->
                     Info("ChaCha20-Poly1305")])
  \cup CppRows(f, [crypto_aead_aes256gcm_encrypt |-> Info("AES-256-GCM"), crypto_aead_aes256gcm_decrypt |-> Info("AES-256-GCM")])
  \cup CppRows(f, [fn \in {"crypto_pwhash", "crypto_pwhash_str", "crypto_pwhash_str_verify"} |-> Info("Argon2")])
CppMbedTLS(f) ==
  CppRows(f, [fn \in {"mbedtls_aes_init", "mbedtls_aes_setkey_enc", "mbedtls_aes_setkey_dec",
                           "mbedtls_aes_crypt_ecb", "mbedtls_aes_crypt_cbc"} |-> Info("AES")])
  \cup CppRows(f, [fn \in {"mbedtls_rsa_init", "mbedtls_rsa_gen_key", "mbedtls_rsa_pkcs1_encrypt", "mbedtls_rsa_pkcs1_decrypt",
                           "mbedtls_rsa_pkcs1_sign", "mbedtls_rsa_pkcs1_verify"} |-> Info("RSA")])
  \cup CppRows(f, [fn \in {"mbedtls_sha256_init", "mbedtls_sha256_starts", "mbedtls_sha256_update",
                           "mbedtls_sha256_finish", "mbedtls_sha256"} |-> Info("SHA-256")])
  \cup CppRows(f, [fn \in {"mbedtls_ssl_init", "mbedtls_ssl_setup", "mbedtls_ssl_config_defaults"} |-> Info("TLS")])

CppScan(f, t) ==
  UNION {CppEVP(f), CppHash(f), CppRSA(f), CppAsymmetric(f, t), CppAES(f), CppHMAC(f), CppKDF(f), CppPEM(f), CppSSL(f, t),
         CppLibsodium(f), CppMbedTLS(f)}
=============================================================================
