----------------------------- MODULE CSharpRules ----------------------------
(***************************************************************************)
(* The detectors of C# (scanner/csharp): the factories of .NET and the     *)
(* engines of Bouncy Castle in the tree of Java's grammar, and expressions *)
(* that are looked for line by line.                                       *)
(***************************************************************************)
EXTENDS SourceFile

CSharpConsts(f) == LastLiterals(f)
CSharpEmbedded ==
  [factories |-> [Aes |-> Info("AES"), TripleDES |-> High("3DES"), DES |-> High("DES"), RSA |-> Info("RSA"), DSA |-> Info("DSA"),
                  ECDsa |-> Info("ECDSA"), SHA256 |-> Info("SHA-256"), SHA1 |-> High("SHA-1"), MD5 |-> High("MD5")],
   engines |-> [AesEngine |-> "aes", DesEngine |-> "des", RC4Engine |-> "rc4", DESedeEngine |-> "3des"],
   digests |-> [Sha256Digest |-> "sha-256", MD5Digest |-> "md5", Sha1Digest |-> "sha1"],
   protocols |-> [Tls |-> High("TLSv1.0"), Tls11 |-> High("TLSv1.1"), Tls12 |-> Info("TLSv1.2"), Tls13 |-> Info("TLSv1.3")]]

(* X.Create(), with the size of an RSA key as the argument.  The size of   *)
(* any key can be set later, on the variable the key was last assigned to. *)
SupportsKeySize == {"RSA", "Aes", "TripleDES", "DES", "DSA", "ECDsa", "ECDiffieHellman"}
CSharpFactories(f, t) == UNION {Calls(f, <<class>>, {"Create"}) : class \in DOMAIN t.factories}
CSharpCreateSize(f, u) == IF u.on = <<"RSA">> THEN Atoi(Resolve(CSharpConsts(f), Arg(u, 1)).text) ELSE 0
CSharpReceivers(f, t) ==
  {u \in CSharpFactories(f, t) : u.to # "" /\ CSharpCreateSize(f, u) = 0 /\ u.on[1] \in SupportsKeySize}
CSharpAssigned(f, set) == Atoi(Resolve(CSharpConsts(f), Arg(set, 1)).text)
AnyKeySize(f, t, u) ==       \* mutant: the size set on any variable
  LET sets == {s \in f.uses : s.kind = "set" /\ s.fn = "KeySize" /\ CSharpAssigned(f, s) > 0}
  IN IF sets = {} THEN CSharpCreateSize(f, u) ELSE CSharpAssigned(f, CHOOSE s \in sets : TRUE)
CSharpKeySize(f, t, u) ==
  LET decls(s) == {v \in CSharpReceivers(f, t) : s.on = <<v.to>> /\ v.at <= s.at}
      sets == {s \in f.uses : /\ s.kind = "set" /\ s.fn = "KeySize" /\ CSharpAssigned(f, s) > 0
                              /\ u \in decls(s) /\ \A v \in decls(s) : v.at <= u.at}
  IN IF sets = {} THEN CSharpCreateSize(f, u) ELSE CSharpAssigned(f, Latest(sets))
CSharpDotNet(f, t) ==
  {LET row == t.factories[u.on[1]] IN Found(u, row.name, CSharpKeySize(f, t, u), row.sev, "high", <<"dotnet", u.on[1]>>) :
     u \in CSharpFactories(f, t)}

CSharpCipherSeverity(family) == IF family \in {"des", "3des", "rc4"} THEN "high" ELSE "info"
CSharpBouncyCastle(f, t) ==
  {Sure(u, t.engines[u.fn], CSharpCipherSeverity(t.engines[u.fn]), <<"bc-engine", u.fn>>) : u \in News(f, DOMAIN t.engines)}
  \cup {Sure(u, t.digests[u.fn], HashSeverity(t.digests[u.fn]), <<"bc-digest", u.fn>>) : u \in News(f, DOMAIN t.digests)}

(* Line by line; not all of the keyed hashes are known, and how often a    *)
(* password is hashed is not looked at.                                    *)
CSharpRefs(f, class, names) == {u \in f.uses : u.kind = "ref" /\ u.on = <<class>> /\ u.fn \in names}
CSharpHMAC(f) == {Sure(u, u.fn, "info", <<"hmac", u.fn>>) : u \in News(f, {"HMACSHA256", "HMACSHA384", "HMACSHA512"})}
CSharpSsl(f, t) ==
  {Sure(u, t.protocols[u.fn].name, t.protocols[u.fn].sev, <<"ssl", u.fn>>) :
     u \in CSharpRefs(f, "SslProtocols", {"Tls", "Tls11", "Tls12", "Tls13"} \cap DOMAIN t.protocols)}
CSharpRegex(f, t) ==
  UNION {CSharpHMAC(f), CSharpSsl(f, t),
         {Sure(u, "PBKDF2", "info", <<"rfc2898">>) : u \in News(f, {"Rfc2898DeriveBytes"})},
         {Sure(u, "ECB Mode", "high", <<"ecb">>) : u \in CSharpRefs(f, "CipherMode", {"ECB"})},
         {Sure(u, "RSA-PKCS1v15", "medium", <<"pkcs1v15">>) : u \in CSharpRefs(f, "RSAEncryptionPadding", {"Pkcs1"})}}

CSharpScan(f, t) == UNION {CSharpDotNet(f, t), CSharpBouncyCastle(f, t), CSharpRegex(f, t)}
=============================================================================
