--------------------------- MODULE MCLanguageScan ---------------------------
(***************************************************************************)
(* Files of one to three statements for each of the twelve languages.      *)
(* truth says what a statement is, for whoever reads it: "weak" in the     *)
(* plainest form of a broken algorithm, "fine", "either" where the code    *)
(* leaves it to a map's order, "" where nothing is claimed.                *)
(***************************************************************************)
EXTENDS LanguageScan

S(truth, needs, use) == [use |-> use, needs |-> needs, truth |-> truth]
Use(at, kind, to, on, fn, args) == [at |-> at, kind |-> kind, to |-> to, on |-> on, fn |-> fn, args |-> args]
C(at, on, fn, args) == Use(at, "call", "", on, fn, args)
F(at, fn, args)     == Use(at, "call", "", <<>>, fn, args)
N(at, class, args)  == Use(at, "new", "", <<>>, class, args)
L(at, fn, args)     == Use(at, "line", "", <<>>, fn, args)
I(path, last, as)   == {[path |-> path, last |-> last, as |-> as]}
A(name, value)      == [names |-> <<name>>, values |-> <<value>>]
Both(n1, v1, n2, v2) == [names |-> <<n1, n2>>, values |-> <<v1, v2>>]

GoStatements ==
  {S("weak", I("crypto/md5", "md5", ""), C(2, <<"md5">>, "New", <<>>)),
   S("weak", I("crypto/md5", "md5", "h"), C(3, <<"h">>, "Sum", <<Expr>>)),
   S("fine", I("crypto/sha256", "sha256", ""), C(4, <<"sha256">>, "Sum256", <<Expr>>)),
   S("weak", I("crypto/des", "des", "d"), C(5, <<"d">>, "NewCipher", <<Expr>>)),
   S("fine", I("crypto/aes", "aes", ""), C(6, <<"aes">>, "NewCipher", <<Expr>>)),
   S("", I("crypto/rsa", "rsa", ""), C(7, <<"rsa">>, "GenerateKey", <<Expr, Num("1024")>>)),
   S("", I("crypto/rsa", "rsa", ""), C(8, <<"rsa">>, "GenerateKey", <<Expr, Var("size")>>)),
   S("weak", I("crypto/tls", "tls", ""), Use(9, "ref", "", <<"tls">>, "VersionTLS10", <<>>)),
   S("", I(XCrypto \o "bcrypt", "bcrypt", ""), C(10, <<"bcrypt">>, "GenerateFromPassword", <<Expr, Var("cost")>>))}
JavaStatements ==
  {S("weak", {}, C(2, <<"MessageDigest">>, "getInstance", <<Lit("MD5")>>)),
   S("", {}, C(3, <<"MessageDigest">>, "getInstance", <<Var("alg")>>)),
   S("weak", {}, C(4, <<"Cipher">>, "getInstance", <<Lit("AES/ECB/PKCS5Padding")>>)),
   S("fine", {}, C(5, <<"Cipher">>, "getInstance", <<Lit("AES/GCM/NoPadding")>>)),
   S("fine", {}, Use(6, "call", "g", <<"KeyPairGenerator">>, "getInstance", <<Lit("RSA")>>)),
   S("fine", {}, Use(7, "call", "k", <<"KeyGenerator">>, "getInstance", <<Lit("AES")>>)),
   S("", {}, C(8, <<"g">>, "initialize", <<Num("1024")>>)),
   S("", {}, C(9, <<"k">>, "init", <<Var("size")>>)),
   S("weak", {}, N(10, "DESEngine", <<>>)),
   S("", {}, N(11, "ECGenParameterSpec", <<Var("alg")>>)),
   S("fine", {}, N(12, "PBEKeySpec", <<Expr, Expr, Var("size")>>))}
KotlinStatements ==
  {S("weak", {}, C(2, <<"MessageDigest">>, "getInstance", <<Lit("MD5")>>)),
   S("", {}, C(3, <<"Cipher">>, "getInstance", <<Var("alg")>>)),
   S("weak", {}, C(4, <<"Cipher">>, "getInstance", <<Lit("DESede/CBC/PKCS5Padding")>>)),
   S("fine", {}, Use(5, "call", "g", <<"KeyPairGenerator">>, "getInstance", <<Lit("RSA")>>)),
   S("fine", {}, Use(6, "call", "k", <<"KeyGenerator">>, "getInstance", <<Lit("AES")>>)),
   S("", {}, C(7, <<"g">>, "initialize", <<Var("size")>>)),
   S("", {}, C(8, <<"k">>, "init", <<Num("256")>>)),
   S("fine", {}, C(9, <<"Mac">>, "getInstance", <<Lit("HmacSHA256")>>))}
JsStatements ==
  {S("weak", {}, C(2, <<"crypto">>, "createHash", <<Lit("md5")>>)),
   S("", {}, C(3, <<"crypto">>, "createHash", <<Var("alg")>>)),
   S("weak", {}, C(4, <<"crypto">>, "createCipheriv", <<Lit("aes-128-ecb"), Expr, Expr>>)),
   S("fine", {}, C(5, <<"crypto">>, "createCipheriv", <<Lit("aes-256-gcm"), Expr, Expr>>)),
   S("", {}, C(6, <<"crypto">>, "generateKeyPairSync", <<Lit("rsa"), Obj([modulusLength |-> Var("size")])>>)),
   S("weak", {}, C(7, <<"forge", "md", "md5">>, "create", <<>>)),
   S("weak", {}, C(8, <<"jwt">>, "sign", <<Expr, Expr, Obj([algorithm |-> Lit("none")])>>)),
   S("", {}, C(9, <<"crypto", "subtle">>, "generateKey", <<Obj([name |-> Lit("RSA-OAEP"), modulusLength |-> Num("1024")])>>)),
   S("", {}, C(10, <<"crypto", "subtle">>, "generateKey", <<Obj([name |-> Lit("AES-GCM"), length |-> Var("size")])>>)),
   S("fine", I("@noble/curves", "curves", ""), C(11, <<"schnorr">>, "sign", <<Expr>>))}
CppStatements ==
  {S("weak", {}, F(2, "MD5", <<Expr>>)),
   S("weak", {}, C(3, <<"::">>, "SHA1", <<Expr>>)),
   S("fine", {}, F(4, "SHA256", <<Expr>>)),
   S("", {}, F(5, "RSA_generate_key", <<Num("1024"), Expr>>)),
   S("", {}, F(6, "RSA_generate_key_ex", <<Expr, Var("size")>>)),
   S("weak", {}, F(7, "SSL_CTX_new", <<Inner("SSLv3_method")>>)),
   S("weak", {}, F(8, "SSL_CTX_set_min_proto_version", <<Expr, Var("TLS1_VERSION")>>)),
   S("", {}, F(9, "SSL_CTX_set_min_proto_version", <<Expr, Var("alg")>>)),
   S("weak", {}, F(10, "DES_ecb_encrypt", <<Expr>>))}
RustStatements ==
  {S("weak", {}, F(2, "digest::digest(", <<Var("SHA1")>>)),
   S("either", {}, F(3, "digest::digest(", <<Var("SHA256"), Var("SHA1")>>)),
   S("fine", {}, F(4, "digest::digest(", <<Var("SHA256")>>)),
   S("weak", {}, F(5, "MessageDigest::", <<Var("md5")>>)),
   S("weak", {}, F(6, "Cipher::", <<Var("des_ecb")>>)),
   S("fine", I("aes_gcm", "", ""), F(7, "Aes256Gcm", <<>>)),
   S("", I("rsa", "", ""), F(8, "RsaPrivateKey::new(", <<Expr, Num("1024")>>)),
   S("", I("rsa", "", ""), F(9, "RsaPrivateKey::new(", <<Expr, Var("size")>>)),
   S("fine", {}, F(10, "ClientConfig::builder(", <<Var("TLS13_AES_256_GCM_SHA384")>>))}
PhpStatements ==
  {S("weak", {}, F(2, "hash", <<Lit("md5"), Expr>>)),
   S("", {}, F(3, "hash", <<Var("alg"), Expr>>)),
   S("weak", {}, F(4, "openssl_encrypt", <<Expr, Lit("des-cbc")>>)),
   S("fine", {}, F(5, "openssl_encrypt", <<Expr, Lit("aes-256-gcm")>>)),
   S("", {}, F(6, "openssl_pkey_new", <<Obj([private_key_bits |-> Num("1024")])>>)),
   S("either", {}, F(7, "password_hash", <<Expr, Var("PASSWORD_ARGON2ID")>>)),
   S("fine", {}, F(8, "password_hash", <<Expr, Var("PASSWORD_BCRYPT")>>)),
   S("weak", {}, F(9, "mcrypt_encrypt", <<Expr>>)),
   S("", {}, F(10, "hash_pbkdf2", <<Lit("sha256"), Expr, Expr, Var("size")>>))}
CSharpStatements ==
  {S("weak", {}, C(2, <<"MD5">>, "Create", <<>>)),
   S("weak", {}, C(3, <<"DES">>, "Create", <<>>)),
   S("fine", {}, Use(4, "call", "g", <<"Aes">>, "Create", <<>>)),
   S("", {}, Use(5, "set", "", <<"g">>, "KeySize", <<Num("128")>>)),
   S("fine", {}, Use(6, "call", "k", <<"RSA">>, "Create", <<>>)),
   S("", {}, Use(7, "set", "", <<"k">>, "KeySize", <<Var("size")>>)),
   S("", {}, C(8, <<"RSA">>, "Create", <<Num("1024")>>)),
   S("weak", {}, N(9, "MD5Digest", <<>>)),
   S("weak", {}, Use(10, "ref", "", <<"CipherMode">>, "ECB", <<>>))}
RubyStatements ==
  {S("weak", {}, Use(2, "scope", "", <<"Digest">>, "md5", <<>>)),
   S("weak", {}, C(3, <<"OpenSSL", "Digest">>, "sha1", <<>>)),
   S("either", {}, Use(4, "assignment", "sha1", <<"OpenSSL", "Digest">>, "sha256", <<>>)),
   S("weak", {}, C(5, <<"OpenSSL", "Cipher">>, "new", <<Lit("AES-128-ECB")>>)),
   S("fine", {}, C(6, <<"OpenSSL", "Cipher">>, "new", <<Lit("AES-256-GCM")>>)),
   S("", {}, C(7, <<"OpenSSL", "Cipher">>, "new", <<Var("alg")>>)),
   S("", {}, Use(8, "assignment", "key1", <<"OpenSSL", "PKey", "RSA">>, "new", <<Num("2048")>>)),
   S("fine", {}, C(9, <<"BCrypt", "Password">>, "create", <<Expr>>))}
PythonStatements ==
  {S("weak", {}, C(2, <<"hashlib">>, "md5", <<Expr>>)),
   S("", {}, C(3, <<"hashlib">>, "new", <<Var("alg")>>)),
   S("weak", {}, C(4, <<"algorithms">>, "AES", <<Expr, Var("modes.ECB")>>)),
   S("fine", {}, C(5, <<"algorithms">>, "AES", <<Expr, Var("modes.GCM")>>)),
   S("", {}, C(6, <<"rsa">>, "generate_private_key", <<Obj([key_size |-> Var("size")])>>)),
   S("either", {}, C(7, <<"hmac">>, "new", <<Var("hashlib.sha256"), Expr, Var("hashlib.sha1")>>)),
   S("weak", I("Crypto.Cipher", "DES", ""), C(8, <<"DES">>, "new", <<Expr>>)),
   S("", I("Crypto.Cipher", "AES", "A"), C(9, <<"A">>, "new", <<Expr, Var("AES.MODE_ECB")>>)),
   S("fine", {}, C(13, <<"algorithms">>, "ChaCha20", <<Expr>>)),
   S("weak", {}, Use(10, "ref", "", <<"ssl">>, "CERT_NONE", <<>>)),
   S("weak", I("random", "", ""), Use(11, "call", "token", <<"random">>, "randint", <<>>)),
   S("fine", I("cryptography.hazmat.primitives.ciphers.aead", "AESGCM", ""), F(12, "AESGCM", <<Expr>>))}
SwiftStatements ==
  {S("weak", {}, L(2, "CC_MD5(", <<Expr>>)),
   S("weak", {}, L(3, "CCCrypt(", <<Var("kCCAlgorithmDES")>>)),
   S("fine", {}, L(4, "CCCrypt(", <<Var("kCCAlgorithmAES")>>)),
   S("fine", {}, L(5, "SHA256.hash", <<Expr>>)),
   S("fine", {}, L(6, "AES.GCM.seal", <<Expr>>)),
   S("", {}, L(7, "CCCrypt(", <<Var("alg")>>))}
DartStatements ==
  {S("weak", {}, L(2, "md5.convert", <<Expr>>)),
   S("weak", {}, L(3, "sha1.convert", <<Expr>>)),
   S("fine", {}, L(4, "sha256.convert", <<Expr>>)),
   S("weak", {}, L(5, "DESEngine(", <<Expr>>)),
   S("", {}, L(6, "AES(key", <<Var("AESMode.ecb")>>)),
   S("fine", {}, L(7, "RSAEngine(", <<Expr>>))}

MCLanguages == {"go", "java", "kotlin", "javascript", "cpp", "rust", "php", "csharp", "ruby", "python", "swift", "dart"}
MCStatements ==
  [go |-> GoStatements, java |-> JavaStatements, kotlin |-> KotlinStatements, javascript |-> JsStatements, cpp |-> CppStatements,
   rust |-> RustStatements, php |-> PhpStatements, csharp |-> CSharpStatements, ruby |-> RubyStatements, python |-> PythonStatements,
   swift |-> SwiftStatements, dart |-> DartStatements]

Named2(alg1, alg2) == {<<>>, <<A("size", Num("1024")), A("alg", Lit(alg1))>>, <<A("alg", Lit(alg1)), A("alg", Lit(alg2))>>}
MCAssignments ==
  [l \in MCLanguages |->
     CASE l = "go"      -> {<<>>, <<A("size", Num("1024")), A("cost", Num("8"))>>, <<A("size", Num("2048")), Both("cost", Num("8"), "size", Num("4096"))>>}
       [] l = "java"    -> Named2("MD5", "SHA-256")
       [] l = "kotlin"  -> Named2("AES/ECB/PKCS5Padding", "AES/GCM/NoPadding")
       [] l = "cpp"     -> {<<>>, <<A("size", Num("1024")), A("alg", Var("TLS1_VERSION"))>>}
       [] l = "ruby"    -> Named2("rc4", "AES-256-GCM")
       [] l = "swift"   -> {<<>>, <<A("i", Num("1"))>>, <<A("C", Num("1")), A("alg", Lit("kCCAlgorithmDES"))>>,
                           <<A("i", Num("1")), A("alg", Lit("kCCAlgorithmDES"))>>}
       [] l = "dart"    -> {<<>>, <<A("c", Num("1"))>>, <<A("i", Num("1")), A("m", Num("8"))>>}
       [] OTHER         -> Named2("md5", "sha256")]

(* Directories: some tables of Java and PHP, with nothing of Kotlin's; a   *)
(* file that does not parse; a file with none of the tables that count.    *)
MCDirs == {[None EXCEPT !["java"] = File({"classes"}), !["php"] = File({"hashes", "openssl"})],
           [None EXCEPT !["java"] = File({"families"}), !["php"] = Malformed],
           [None EXCEPT !["go"] = File({})]}
=============================================================================
