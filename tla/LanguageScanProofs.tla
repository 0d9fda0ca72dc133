------------------------- MODULE LanguageScanProofs -------------------------
(***************************************************************************)
(* Theorems of LanguageScan: for any statements, assignments and           *)
(* directories of rules, however long files are edited.                    *)
(***************************************************************************)
EXTENDS LanguageScan, TLAPS, FiniteSetTheorems, WellFoundedInduction

(* A file as the instance makes them.                                      *)
WellPlaced(f) ==
  /\ IsFiniteSet(f.uses)
  /\ \A u, v \in f.uses : u.at \in Nat \ {0, 1} /\ (u.at = v.at => u = v)
  /\ f.assigns \in Seq({f.assigns[k] : k \in DOMAIN f.assigns})
  /\ \A k \in DOMAIN f.assigns : f.assigns[k].names \in Seq(STRING) \ {<<>>} /\ 1 \in DOMAIN f.assigns[k].values

-----------------------------------------------------------------------------
(* The last of the naturals, of the uses, of the assignments to a name.    *)

LEMMA Induct ==
  ASSUME NEW S \in SUBSET Nat, 0 \in S, \A n \in S : n + 1 \in S
  PROVE  S = Nat
  <1> SUFFICES ASSUME Nat \ S # {} PROVE FALSE
    OBVIOUS
  <1>1. PICK m \in Nat \ S : \A n \in Nat \ S : ~ (<<n, m>> \in OpToRel(<, Nat))
    BY NatLessThanWellFounded, WFMin
  <1>2. \A n \in Nat \ S : ~ (n < m)
    BY <1>1 DEF OpToRel
  <1>3. m # 0 /\ m - 1 \in Nat /\ m - 1 \in S
    BY <1>2
  <1> QED
    BY <1>3

LEMMA Highest ==
  ASSUME NEW S, IsFiniteSet(S), S # {}, NEW w \in [S -> Nat]
  PROVE  \E k \in S : \A j \in S : w[j] <= w[k]
  <1> DEFINE P == {n \in Nat : \A T \in SUBSET S : Cardinality(T) = n /\ T # {} => \E k \in T : \A j \in T : w[j] <= w[k]}
  <1>0. \A T \in SUBSET S : IsFiniteSet(T)
    BY FS_Subset
  <1>1. 0 \in P
    BY <1>0, FS_EmptySet
  <1>2. ASSUME NEW n \in P PROVE n + 1 \in P
    <2>0. n \in Nat
      OBVIOUS
    <2> SUFFICES ASSUME NEW T \in SUBSET S, Cardinality(T) = n + 1, T # {}
                 PROVE  \E k \in T : \A j \in T : w[j] <= w[k]
      BY <2>0
    <2>1. PICK a \in T : TRUE
      OBVIOUS
    <2>2. Cardinality(T \ {a}) = Cardinality(T) - 1
      BY <2>1, <1>0, FS_RemoveElement
    <2>3. CASE T \ {a} = {}
      <3>1. \A j \in T : j = a
        BY <2>3
      <3> QED
        BY <2>1, <3>1
    <2>4. CASE T \ {a} # {}
      <3>1. PICK k \in T \ {a} : \A j \in T \ {a} : w[j] <= w[k]
        BY <2>0, <2>2, <2>4
      <3>2. CASE w[a] <= w[k]
        BY <3>1, <3>2
      <3>3. CASE ~(w[a] <= w[k])
        BY <2>1, <3>1, <3>3
      <3> QED
        BY <3>2, <3>3
    <2> QED
      BY <2>3, <2>4
  <1> HIDE DEF P
  <1>3. P = Nat
    BY <1>1, <1>2, Induct DEF P
  <1> QED
    BY <1>3, FS_CardinalityType DEF P

LEMMA LatestIs ==
  ASSUME NEW S, IsFiniteSet(S), S # {}, \A u \in S : u.at \in Nat
  PROVE  Latest(S) \in S
  <1> DEFINE w == [u \in S |-> u.at]
  <1>1. \E u \in S : \A v \in S : w[v] <= w[u]
    BY Highest
  <1>2. \E u \in S : \A v \in S : v.at <= u.at
    BY <1>1
  <1> QED
    BY <1>2 DEF Latest

LEMMA FirstIsGiven ==
  ASSUME NEW f, NEW k \in DOMAIN f.assigns, NEW n, f.assigns[k].names = <<n>>, 1 \in DOMAIN f.assigns[k].values
  PROVE  f.assigns[k].values[1] \in Given(f, n)
  <1> DEFINE a == f.assigns[k]
  <1>1. 1 \in DOMAIN a.names /\ a.names[1] = n
    OBVIOUS
  <1>2. a.values[1] \in {a.values[i] : i \in {i \in DOMAIN a.names \cap DOMAIN a.values : a.names[i] = n}}
    BY <1>1
  <1> QED
    BY <1>2 DEF Given

(* What a name reads as was given to it; "" is no name.                    *)
LEMMA LastIsGiven ==
  ASSUME NEW f, WellPlaced(f), NEW kinds, NEW n \in DOMAIN LastOfKinds(f, kinds)
  PROVE  n # "" /\ \E v \in Given(f, n) : LastOfKinds(f, kinds)[n] = v.text
  <1> DEFINE to == {k \in DOMAIN f.assigns : f.assigns[k].names = <<n>> /\ f.assigns[k].values[1].kind \in kinds}
             last == CHOOSE k \in to : \A j \in to : j <= k
             w == [k \in to |-> k]
  <1>1. n # "" /\ to # {} /\ LastOfKinds(f, kinds)[n] = f.assigns[last].values[1].text
    BY DEF LastOfKinds
  <1>2. DOMAIN f.assigns = 1..Len(f.assigns) /\ Len(f.assigns) \in Nat
    BY DEF WellPlaced
  <1>3. IsFiniteSet(to) /\ w \in [to -> Nat]
    <2>1. IsFiniteSet(1..Len(f.assigns)) /\ to \subseteq 1..Len(f.assigns)
      BY <1>2, FS_Interval
    <2> QED
      BY <2>1, FS_Subset
  <1>4. \E k \in to : \A j \in to : w[j] <= w[k]
    BY <1>1, <1>3, Highest
  <1>5. \E k \in to : \A j \in to : j <= k
    BY <1>4
  <1>6. last \in to
    BY <1>5
  <1>7. last \in DOMAIN f.assigns /\ f.assigns[last].names = <<n>> /\ 1 \in DOMAIN f.assigns[last].values
    BY <1>6 DEF WellPlaced
  <1> HIDE DEF last
  <1> QED
    BY <1>1, <1>7, FirstIsGiven

-----------------------------------------------------------------------------
(* Sizes.  What a detector resolves tells no more than what is written: in *)
(* the argument, or where its name was given a value.                      *)

LEMMA NoText == Atoi("") = 0
  BY DEF Atoi, Numerals

LEMMA AtoiTells == \A text : Atoi(text) \in Tells(text)
  BY DEF Tells

LEMMA GivenIsKnown ==
  ASSUME NEW f, NEW arg, NEW v \in Given(f, arg.text)
  PROVE  Tells(v.text) \subseteq Known(f, arg)
  BY DEF Known

LEMMA ResolvedIsKnown ==
  ASSUME NEW f, WellPlaced(f), NEW kinds, NEW arg, Resolve(LastOfKinds(f, kinds), arg).text # ""
  PROVE  Tells(Resolve(LastOfKinds(f, kinds), arg).text) \subseteq Known(f, arg)
  <1> DEFINE C == LastOfKinds(f, kinds)
  <1>1. CASE Literal(arg)
    BY <1>1 DEF Resolve, Known
  <1>2. CASE ~Literal(arg) /\ arg.kind = "identifier" /\ arg.text \in DOMAIN C
    <2>1. Resolve(C, arg).text = C[arg.text]
      BY <1>2 DEF Resolve
    <2>2. \E v \in Given(f, arg.text) : C[arg.text] = v.text
      BY <1>2, LastIsGiven
    <2> QED
      BY <2>1, <2>2, GivenIsKnown
  <1>3. CASE ~Literal(arg) /\ ~(arg.kind = "identifier" /\ arg.text \in DOMAIN C)
    BY <1>3 DEF Resolve, Unknown
  <1> QED
    BY <1>1, <1>2, <1>3

LEMMA KnownIsWritten ==
  ASSUME NEW f, NEW u, NEW n \in DOMAIN u.args
  PROVE  Known(f, Arg(u, n)) \subseteq WrittenIn(f, u)
  <1>1. Arg(u, n) \in {u.args[i] : i \in DOMAIN u.args}
    BY DEF Arg
  <1> QED
    BY <1>1 DEF WrittenIn

(* An argument, or a named property of one.                                *)
LEMMA ArgumentIsWritten ==
  ASSUME NEW f, WellPlaced(f), NEW kinds, NEW u, NEW n, Resolve(LastOfKinds(f, kinds), Arg(u, n)).text # ""
  PROVE  Tells(Resolve(LastOfKinds(f, kinds), Arg(u, n)).text) \subseteq WrittenIn(f, u)
  <1>1. n \in DOMAIN u.args
    BY DEF Arg, Expr, Resolve, Unknown, Literal
  <1> QED
    BY <1>1, ResolvedIsKnown, KnownIsWritten

LEMMA PropertyOfArgument ==
  ASSUME NEW f, NEW u, NEW n, NEW p, Prop(Arg(u, n), p) # Expr
  PROVE  Known(f, Prop(Arg(u, n), p)) \subseteq WrittenIn(f, u)
  <1>1. Arg(u, n).kind = "object" /\ p \in DOMAIN Arg(u, n).props /\ Prop(Arg(u, n), p) = Arg(u, n).props[p]
    BY DEF Prop
  <1>2. n \in DOMAIN u.args
    BY <1>1 DEF Arg, Expr
  <1>3. Arg(u, n) \in {u.args[i] : i \in DOMAIN u.args}
    BY <1>2 DEF Arg
  <1> QED
    BY <1>1, <1>3 DEF WrittenIn

LEMMA PropertyIsWritten ==
  ASSUME NEW f, WellPlaced(f), NEW kinds, NEW u, NEW n, NEW p, Resolve(LastOfKinds(f, kinds), Prop(Arg(u, n), p)).text # ""
  PROVE  Tells(Resolve(LastOfKinds(f, kinds), Prop(Arg(u, n), p)).text) \subseteq WrittenIn(f, u)
  <1>1. Prop(Arg(u, n), p) # Expr
    <2>1. Resolve(LastOfKinds(f, kinds), Expr).text = ""
      BY DEF Expr, Resolve, Unknown, Literal
    <2> QED
      BY <2>1
  <1> QED
    BY <1>1, ResolvedIsKnown, PropertyOfArgument

(* A number, of an argument or of a property.                              *)
LEMMA NumberIsWritten ==
  ASSUME NEW f, WellPlaced(f), NEW kinds, NEW u, NEW n, Atoi(Resolve(LastOfKinds(f, kinds), Arg(u, n)).text) # 0
  PROVE  Atoi(Resolve(LastOfKinds(f, kinds), Arg(u, n)).text) \in WrittenIn(f, u)
  BY ArgumentIsWritten, AtoiTells, NoText

LEMMA NumberOfProperty ==
  ASSUME NEW f, WellPlaced(f), NEW kinds, NEW u, NEW n, NEW p, Atoi(Resolve(LastOfKinds(f, kinds), Prop(Arg(u, n), p)).text) # 0
  PROVE  Atoi(Resolve(LastOfKinds(f, kinds), Prop(Arg(u, n), p)).text) \in WrittenIn(f, u)
  BY PropertyIsWritten, AtoiTells, NoText

(* In the statement, or in one on the variable that holds the generator.   *)
LEMMA WrittenHere == ASSUME NEW f, NEW u PROVE WrittenIn(f, u) \subseteq WrittenFor(f, u)
  BY DEF WrittenFor

LEMMA WrittenOnVariable ==
  ASSUME NEW f, NEW u, NEW c \in f.uses, u.to # "", c.on = <<u.to>>
  PROVE  WrittenIn(f, c) \subseteq WrittenFor(f, u)
  BY DEF WrittenFor
-----------------------------------------------------------------------------
(* Findings.  Most of them have no size.                                   *)
NoSize(x) == x.size = 0
Of(x, u, size) == x.at = u.at /\ x.size = size
Own(f, x) == NoSize(x) \/ \E u \in f.uses : u.at = x.at /\ x.size \in WrittenFor(f, u)

LEMMA HasNone == \A u, name, sev, rule, x : x = Sure(u, name, sev, rule) => NoSize(x)
  BY DEF Sure, Found, NoSize
LEMMA HasZero == \A u, name, sev, conf, rule, x : x = Found(u, name, 0, sev, conf, rule) => NoSize(x)
  BY DEF Found, NoSize
LEMMA HasSize == \A u, name, size, sev, conf, rule, x : x = Found(u, name, size, sev, conf, rule) => Of(x, u, size)
  BY DEF Found, Of
LEMMA MaybeNone ==
  \A cond, u, name, sev, rule, y, x : y = Maybe(cond, Sure(u, name, sev, rule)) /\ x \in y => NoSize(x)
  BY DEF Maybe, Sure, Found, NoSize
LEMMA MaybeZero ==
  \A cond, u, name, sev, conf, rule, y, x : y = Maybe(cond, Found(u, name, 0, sev, conf, rule)) /\ x \in y => NoSize(x)
  BY DEF Maybe, Found, NoSize
LEMMA MaybeSize ==
  \A cond, u, name, size, sev, conf, rule, y, x : y = Maybe(cond, Found(u, name, size, sev, conf, rule)) /\ x \in y => Of(x, u, size)
  BY DEF Maybe, Found, Of
LEMMA RowsNone == \A uses, rows, x : x \in RowsOf(uses, rows) => NoSize(x)
  BY HasNone, Zenon DEF RowsOf
LEMMA OwnIs ==
  ASSUME NEW f, NEW u \in f.uses, NEW size, size # 0 => size \in WrittenFor(f, u), NEW x, Of(x, u, size)
  PROVE  Own(f, x)
  BY DEF Own, Of, NoSize

-----------------------------------------------------------------------------
(* Java                                                                    *)

LEMMA JavaInnerHash == \A f, t, u, hash, x : x \in InnerHash(f, t, u, hash) => NoSize(x)
  BY MaybeZero, Zenon DEF InnerHash
LEMMA JavaCipherNone == \A f, t, x : x \in JavaCipher(f, t) => NoSize(x)
  BY HasZero, JavaInnerHash, Zenon DEF JavaCipher
LEMMA JavaDigestNone == \A f, t, x : x \in JavaDigest(f, t) => NoSize(x)
  BY HasZero, Zenon DEF JavaDigest
LEMMA JavaMacNone == \A f, t, x : x \in JavaMac(f, t) => NoSize(x)
  BY HasZero, JavaInnerHash, Zenon DEF JavaMac
LEMMA JavaSignatureNone == \A f, t, x : x \in JavaSignature(f, t) => NoSize(x)
  BY HasZero, JavaInnerHash, Zenon DEF JavaSignature
LEMMA JavaKeyAgreementNone == \A f, t, x : x \in JavaKeyAgreement(f, t) => NoSize(x)
  BY HasZero, Zenon DEF JavaKeyAgreement
LEMMA JavaSSLContextNone == \A f, t, x : x \in JavaSSLContext(f, t) => NoSize(x)
  BY HasZero, Zenon DEF JavaSSLContext
LEMMA JavaSecretKeyFactoryNone == \A f, t, x : x \in JavaSecretKeyFactory(f, t) => NoSize(x)
  BY HasZero, JavaInnerHash, Zenon DEF JavaSecretKeyFactory
LEMMA JavaSecretKeySpecNone == \A f, t, x : x \in JavaSecretKeySpec(f, t) => NoSize(x)
  BY MaybeZero, Zenon DEF JavaSecretKeySpec
LEMMA JavaPBEKeySpecNone == \A f, x : x \in JavaPBEKeySpec(f) => NoSize(x)
  BY HasNone, Zenon DEF JavaPBEKeySpec

LEMMA JavaBouncyCastleNone == \A f, t, x : x \in JavaBouncyCastle(f, t) => NoSize(x)
  <1> SUFFICES ASSUME NEW f, NEW t, NEW x \in JavaBouncyCastle(f, t) PROVE NoSize(x)
    OBVIOUS
  <1>1. \/ x \in {Sure(u, t.engines[u.fn], CipherSeverity(t.engines[u.fn], ""), <<"bc-engine", u.fn>>) : u \in News(f, DOMAIN t.engines)}
        \/ x \in {Sure(u, t.asymmetric[u.fn], "medium", <<"bc", u.fn>>) : u \in News(f, DOMAIN t.asymmetric)}
        \/ x \in {Sure(u, InnerEngine(t, u), CipherSeverity(InnerEngine(t, u), t.modes[u.fn]), <<"bc-mode", t.modes[u.fn]>>) :
                    u \in News(f, DOMAIN t.modes)}
        \/ x \in {Sure(u, t.digests[u.fn], HashSeverity(t.digests[u.fn]), <<"bc-digest", u.fn>>) : u \in News(f, DOMAIN t.digests)}
    BY Zenon DEF JavaBouncyCastle
  <1> QED
    BY <1>1, HasNone, Zenon

LEMMA JavaSSLNone == \A f, x : x \in JavaSSL(f) => NoSize(x)
  <1>1. \A f, x : x \in JavaVersions(f) => NoSize(x)
    BY SMT DEF JavaVersions, Sure, Found, NoSize
  <1>2. \A f, x : x \in JavaSuites(f) => NoSize(x)
    BY SMT DEF JavaSuites, Found, NoSize, CipherSeverity
  <1> QED
    BY <1>1, <1>2 DEF JavaSSL

LEMMA JavaSizeIsWritten ==
  ASSUME NEW f, WellPlaced(f), NEW c \in f.uses, JavaInitSize(f, c) # 0
  PROVE  JavaInitSize(f, c) \in WrittenIn(f, c)
  BY NumberIsWritten DEF JavaInitSize, JavaConsts, LastLiterals

LEMMA JavaKeySizeIsOwn ==
  ASSUME NEW f, WellPlaced(f), NEW t, NEW class, NEW u, JavaKeySize(f, t, class, u) # 0
  PROVE  JavaKeySize(f, t, class, u) \in WrittenFor(f, u)
  <1> DEFINE calls == {c \in f.uses : /\ c.kind = "call" /\ c.fn = JavaInit(class) /\ u.to # "" /\ c.on = <<u.to>>
                                      /\ JavaInitSize(f, c) > 0 /\ JavaReceiver(f, t, class, c) = u}
  <1>1. calls # {} /\ JavaKeySize(f, t, class, u) = JavaInitSize(f, Latest(calls))
    BY DEF JavaKeySize
  <1>2. IsFiniteSet(calls) /\ \A c \in calls : c.at \in Nat
    BY FS_Subset DEF WellPlaced
  <1>3. Latest(calls) \in calls
    BY <1>1, <1>2, LatestIs
  <1>4. JavaInitSize(f, Latest(calls)) \in WrittenIn(f, Latest(calls))
    BY <1>1, <1>3, JavaSizeIsWritten
  <1>5. WrittenIn(f, Latest(calls)) \subseteq WrittenFor(f, u)
    BY <1>3, WrittenOnVariable
  <1> QED
    BY <1>1, <1>4, <1>5

LEMMA InstancesAreUses == ASSUME NEW f, NEW t, NEW class PROVE JavaInstances(f, t, class) \subseteq f.uses
  BY Zenon DEF JavaInstances, Calls

LEMMA JavaKeyGeneratorOwn ==
  ASSUME NEW f, WellPlaced(f), NEW t, NEW class, NEW x \in JavaKeyGenerator(f, t, class)
  PROVE  Own(f, x)
  <1>1. PICK u \in JavaInstances(f, t, class) : Of(x, u, JavaKeySize(f, t, class, u))
    BY HasSize, Zenon DEF JavaKeyGenerator
  <1>2. u \in f.uses
    BY InstancesAreUses
  <1> QED
    BY <1>1, <1>2, JavaKeySizeIsOwn, OwnIs

LEMMA JavaCurveOwn ==
  ASSUME NEW f, NEW x \in JavaCurve(f)
  PROVE  Own(f, x)
  <1> DEFINE size(u) == IF Arg(u, 1).text \in DOMAIN CurveSizes THEN CurveSizes[Arg(u, 1).text] ELSE 0
  <1>1. PICK u \in {u \in News(f, {"ECGenParameterSpec"}) : Literal(Arg(u, 1))} : Of(x, u, size(u))
    BY HasSize, Zenon DEF JavaCurve
  <1>2. u \in f.uses /\ Literal(Arg(u, 1))
    BY <1>1, Zenon DEF News
  <1>3. ASSUME size(u) # 0 PROVE size(u) \in WrittenFor(f, u)
    <2>1. Arg(u, 1).text \in DOMAIN CurveSizes /\ size(u) = CurveSizes[Arg(u, 1).text]
      BY <1>3
    <2>2. 1 \in DOMAIN u.args
      BY <1>2 DEF Arg, Expr, Literal
    <2>3. Tells(Arg(u, 1).text) \subseteq WrittenIn(f, u)
      BY <2>2 DEF WrittenIn, Known, Arg
    <2>4. CurveSizes[Arg(u, 1).text] \in Tells(Arg(u, 1).text)
      <3>1. \A name \in DOMAIN CurveSizes : name \in DOMAIN NamedSizes /\ NamedSizes[name] = CurveSizes[name]
        BY DEF CurveSizes, NamedSizes
      <3> QED
        BY <2>1, <3>1 DEF Tells
    <2> QED
      BY <2>1, <2>3, <2>4, WrittenHere
  <1> QED
    BY <1>1, <1>2, <1>3, OwnIs

LEMMA JavaOwn == ASSUME NEW f, WellPlaced(f), NEW t, NEW x \in JavaScan(f, t) PROVE Own(f, x)
  <1>1. \/ x \in JavaJCA(f, t) \/ x \in JavaBouncyCastle(f, t) \/ x \in JavaSSL(f) \/ x \in JavaPBEKeySpec(f) \/ x \in JavaCurve(f)
    BY SMT DEF JavaScan
  <1>2. ASSUME x \in JavaJCA(f, t) PROVE Own(f, x)
    <2>1. \/ x \in JavaKeyGenerator(f, t, "KeyPairGenerator") \/ x \in JavaKeyGenerator(f, t, "KeyGenerator")
          \/ NoSize(x)
      BY <1>2, JavaCipherNone, JavaDigestNone, JavaMacNone, JavaSignatureNone, JavaKeyAgreementNone, JavaSSLContextNone,
         JavaSecretKeyFactoryNone, JavaSecretKeySpecNone, Zenon DEF JavaJCA
    <2> QED
      BY <2>1, JavaKeyGeneratorOwn DEF Own
  <1> QED
    BY <1>1, <1>2, JavaBouncyCastleNone, JavaSSLNone, JavaPBEKeySpecNone, JavaCurveOwn DEF Own

-----------------------------------------------------------------------------
(* Kotlin                                                                  *)

LEMMA KotlinOneNone == \A f, t, class, x : x \in KotlinOne(f, t, class) => NoSize(x)
  BY HasZero, Zenon DEF KotlinOne, KotlinMade
LEMMA KotlinCipherNone == \A f, t, x : x \in KotlinCipher(f, t) => NoSize(x)
  BY HasZero, Zenon DEF KotlinCipher
LEMMA KotlinMacNone == \A f, t, x : x \in KotlinMac(f, t) => NoSize(x)
  BY HasZero, Zenon DEF KotlinMac
LEMMA KotlinSignatureNone == \A f, t, x : x \in KotlinSignature(f, t) => NoSize(x)
  BY HasZero, Zenon DEF KotlinSignature
LEMMA KotlinAsymmetricNone == \A f, t, x : x \in KotlinBouncyCastleAsymmetric(f, t) => NoSize(x)
  BY HasNone, Zenon DEF KotlinBouncyCastleAsymmetric

LEMMA KotlinSizeIsWritten ==
  ASSUME NEW f, WellPlaced(f), NEW c, KotlinInitSize(f, c) # 0
  PROVE  KotlinInitSize(f, c) \in WrittenIn(f, c)
  <1>1. ASSUME NEW i, KotlinSizeOf(f, c, i) # 0 PROVE KotlinSizeOf(f, c, i) \in WrittenIn(f, c)
    <2>1. KotlinSizeOf(f, c, i) = Atoi(Resolve(LastOfKinds(f, {"literal", "number"}), Arg(c, i)).text)
      BY DEF KotlinSizeOf, KotlinConsts, LastLiterals, Resolve, Literal
    <2> QED
      BY <1>1, <2>1, NumberIsWritten
  <1> QED
    BY <1>1 DEF KotlinInitSize

LEMMA KotlinKeySizeIsOwn ==
  ASSUME NEW f, WellPlaced(f), NEW t, NEW class, NEW u, KotlinKeySize(f, t, class, u) # 0
  PROVE  KotlinKeySize(f, t, class, u) \in WrittenFor(f, u)
  <1> DEFINE decls(c) == {v \in JavaInstances(f, t, class) : v.to # "" /\ c.on = <<v.to>> /\ v.at <= c.at}
             calls == {c \in f.uses : /\ c.kind = "call" /\ c.fn = JavaInit(class) /\ KotlinInitSize(f, c) > 0
                                      /\ u \in decls(c) /\ \A v \in decls(c) : v.at <= u.at}
  <1>1. calls # {} /\ KotlinKeySize(f, t, class, u) = KotlinInitSize(f, Latest(calls))
    BY DEF KotlinKeySize
  <1>2. IsFiniteSet(calls) /\ \A c \in calls : c.at \in Nat
    BY FS_Subset DEF WellPlaced
  <1>3. Latest(calls) \in calls
    BY <1>1, <1>2, LatestIs
  <1> DEFINE c == Latest(calls)
  <1>4. c \in f.uses /\ u.to # "" /\ c.on = <<u.to>>
    BY <1>3
  <1> HIDE DEF c
  <1>5. WrittenIn(f, c) \subseteq WrittenFor(f, u)
    BY <1>4, WrittenOnVariable
  <1>6. KotlinKeySize(f, t, class, u) = KotlinInitSize(f, c)
    BY <1>1 DEF c
  <1> QED
    BY <1>5, <1>6, KotlinSizeIsWritten

LEMMA KotlinSizedOwn ==
  ASSUME NEW f, WellPlaced(f), NEW t, NEW class, NEW x \in KotlinSized(f, t, class)
  PROVE  Own(f, x)
  <1>1. PICK u \in JavaInstances(f, t, class) : Of(x, u, KotlinKeySize(f, t, class, u))
    BY HasSize, Zenon DEF KotlinSized, KotlinMade
  <1>2. u \in f.uses
    BY InstancesAreUses
  <1> QED
    BY <1>1, <1>2, KotlinKeySizeIsOwn, OwnIs

LEMMA KotlinOwn == ASSUME NEW f, WellPlaced(f), NEW t, NEW x \in KotlinScan(f, t) PROVE Own(f, x)
  <1>1. \/ x \in KotlinJCA(f, t) \/ x \in KotlinSecretKeySpec(f, t) \/ x \in KotlinPBEKeySpec(f)
        \/ x \in KotlinBouncyCastle(f, t) \/ x \in KotlinBouncyCastleAsymmetric(f, t)
    BY SMT DEF KotlinScan
  <1>2. ASSUME x \in KotlinJCA(f, t) PROVE Own(f, x)
    <2>1. \/ x \in KotlinKeyPairGenerator(f, t) \/ x \in KotlinKeyGenerator(f, t)
          \/ x \in KotlinDigest(f, t) \/ x \in KotlinKeyAgreement(f, t) \/ x \in KotlinSSLContext(f, t) \/ NoSize(x)
      <3>1. \/ x \in KotlinCipher(f, t) \/ x \in KotlinDigest(f, t) \/ x \in KotlinMac(f, t) \/ x \in KotlinSignature(f, t)
            \/ x \in KotlinKeyAgreement(f, t) \/ x \in KotlinSSLContext(f, t)
            \/ x \in KotlinKeyPairGenerator(f, t) \/ x \in KotlinKeyGenerator(f, t)
        BY <1>2 DEF KotlinJCA
      <3> QED
        BY <3>1, KotlinCipherNone, KotlinMacNone, KotlinSignatureNone
    <2>2. \/ x \in KotlinSized(f, t, "KeyPairGenerator") \/ x \in KotlinSized(f, t, "KeyGenerator") \/ NoSize(x)
      BY <2>1, KotlinOneNone, JavaSSLContextNone
      DEF KotlinDigest, KotlinKeyAgreement, KotlinSSLContext, KotlinKeyPairGenerator, KotlinKeyGenerator
    <2> QED
      BY <2>2, KotlinSizedOwn DEF Own
  <1>3. NoSize(x) \/ x \in KotlinJCA(f, t)
    BY <1>1, JavaSecretKeySpecNone, JavaPBEKeySpecNone, JavaBouncyCastleNone, KotlinAsymmetricNone, Zenon
    DEF KotlinSecretKeySpec, KotlinPBEKeySpec, KotlinBouncyCastle
  <1> QED
    BY <1>2, <1>3 DEF Own

-----------------------------------------------------------------------------
(* C#                                                                      *)

LEMMA FactoriesAreUses == ASSUME NEW f, NEW t PROVE CSharpFactories(f, t) \subseteq f.uses
  BY Zenon DEF CSharpFactories, Calls

LEMMA CSharpKeySizeIsOwn ==
  ASSUME NEW f, WellPlaced(f), NEW t, NEW u, CSharpKeySize(f, t, u) # 0
  PROVE  CSharpKeySize(f, t, u) \in WrittenFor(f, u)
  <1> DEFINE decls(s) == {v \in CSharpReceivers(f, t) : s.on = <<v.to>> /\ v.at <= s.at}
             sets == {s \in f.uses : /\ s.kind = "set" /\ s.fn = "KeySize" /\ CSharpAssigned(f, s) > 0
                                     /\ u \in decls(s) /\ \A v \in decls(s) : v.at <= u.at}
  <1>1. CASE sets = {}
    <2>1. CSharpKeySize(f, t, u) = CSharpCreateSize(f, u)
      BY <1>1 DEF CSharpKeySize
    <2> QED
      BY <2>1, NumberIsWritten, WrittenHere DEF CSharpCreateSize, CSharpConsts, LastLiterals
  <1>2. CASE sets # {}
    <2>1. CSharpKeySize(f, t, u) = CSharpAssigned(f, Latest(sets))
      BY <1>2 DEF CSharpKeySize
    <2>2. IsFiniteSet(sets) /\ \A s \in sets : s.at \in Nat
      BY FS_Subset DEF WellPlaced
    <2>3. Latest(sets) \in sets
      BY <1>2, <2>2, LatestIs
    <2> DEFINE s == Latest(sets)
    <2>4. s \in f.uses /\ u.to # "" /\ s.on = <<u.to>>
      BY <2>3 DEF CSharpReceivers
    <2> HIDE DEF s
    <2>5. WrittenIn(f, s) \subseteq WrittenFor(f, u)
      BY <2>4, WrittenOnVariable
    <2>6. CSharpKeySize(f, t, u) = CSharpAssigned(f, s)
      BY <2>1 DEF s
    <2> QED
      BY <2>5, <2>6, NumberIsWritten DEF CSharpAssigned, CSharpConsts, LastLiterals
  <1> QED
    BY <1>1, <1>2

LEMMA CSharpDotNetOwn ==
  ASSUME NEW f, WellPlaced(f), NEW t, NEW x \in CSharpDotNet(f, t)
  PROVE  Own(f, x)
  <1>1. PICK u \in CSharpFactories(f, t) : Of(x, u, CSharpKeySize(f, t, u))
    BY HasSize, Zenon DEF CSharpDotNet
  <1>2. u \in f.uses
    BY FactoriesAreUses
  <1> QED
    BY <1>1, <1>2, CSharpKeySizeIsOwn, OwnIs

LEMMA CSharpBouncyCastleNone == \A f, t, x : x \in CSharpBouncyCastle(f, t) => NoSize(x)
  BY HasNone, Zenon DEF CSharpBouncyCastle
LEMMA CSharpHMACNone == \A f, x : x \in CSharpHMAC(f) => NoSize(x)
  BY HasNone, Zenon DEF CSharpHMAC
LEMMA CSharpSslNone == \A f, t, x : x \in CSharpSsl(f, t) => NoSize(x)
  BY HasNone, Zenon DEF CSharpSsl
LEMMA CSharpRegexNone == \A f, t, x : x \in CSharpRegex(f, t) => NoSize(x)
  BY HasNone, CSharpHMACNone, CSharpSslNone, Zenon DEF CSharpRegex

LEMMA CSharpOwn == ASSUME NEW f, WellPlaced(f), NEW t, NEW x \in CSharpScan(f, t) PROVE Own(f, x)
  <1>1. x \in CSharpDotNet(f, t) \/ NoSize(x)
    BY CSharpBouncyCastleNone, CSharpRegexNone, Zenon DEF CSharpScan
  <1> QED
    BY <1>1, CSharpDotNetOwn DEF Own

-----------------------------------------------------------------------------
(* JavaScript and TypeScript: the name of a cipher tells a size as well.   *)

JsTables(t) == t.cipher = JsCiphers \/ t.cipher = <<>>

LEMMA JsCipherTells ==
  ASSUME NEW t, JsTables(t), NEW text, Look(t.cipher, Lower(text)).size # 0
  PROVE  Look(t.cipher, Lower(text)).size \in Tells(text)
  <1>1. Lower(text) \in DOMAIN t.cipher /\ Look(t.cipher, Lower(text)).size = t.cipher[Lower(text)].size
    BY DEF Look, Token
  <1>2. t.cipher = JsCiphers
    BY <1>1 DEF JsTables
  <1>3. \A name \in DOMAIN JsCiphers : JsCiphers[name].size # 0 => name \in DOMAIN NamedSizes /\ NamedSizes[name] = JsCiphers[name].size
    BY DEF JsCiphers, NamedSizes, Token
  <1> QED
    BY <1>1, <1>2, <1>3 DEF Tells

LEMMA JsCipherOwn ==
  ASSUME NEW f, WellPlaced(f), NEW t, JsTables(t), NEW x \in JsCipher(f, t)
  PROVE  Own(f, x)
  <1> DEFINE text(u) == Resolve(JsConsts(f), Arg(u, 1)).text
             calls == Calls(f, <<"crypto">>, {"createCipher", "createCipheriv", "createDecipher", "createDecipheriv"})
  <1>1. PICK u \in calls : text(u) # "" /\ Of(x, u, Look(t.cipher, Lower(text(u))).size)
    BY HasSize DEF JsCipher, Maybe
  <1>2. u \in f.uses
    BY <1>1, Zenon DEF Calls
  <1>3. Tells(text(u)) \subseteq WrittenFor(f, u)
    BY <1>1, ArgumentIsWritten, WrittenHere DEF JsConsts, LastLiterals
  <1> QED
    BY <1>1, <1>2, <1>3, JsCipherTells, OwnIs

LEMMA JsIntIsWritten ==
  ASSUME NEW f, WellPlaced(f), NEW u, NEW n, NEW p, JsIntProp(JsConsts(f), Arg(u, n), p) # 0
  PROVE  JsIntProp(JsConsts(f), Arg(u, n), p) \in WrittenFor(f, u)
  BY NumberOfProperty, WrittenHere DEF JsIntProp, JsConsts, LastLiterals

LEMMA JsKeyPairOwn ==
  ASSUME NEW f, WellPlaced(f), NEW x \in JsKeyPair(f)
  PROVE  Own(f, x)
  <1>1. PICK u \in Calls(f, <<"crypto">>, {"generateKeyPair", "generateKeyPairSync"}) :
          Of(x, u, JsIntProp(JsConsts(f), Arg(u, 2), "modulusLength"))
    BY MaybeSize, Zenon DEF JsKeyPair
  <1>2. u \in f.uses
    BY <1>1, Zenon DEF Calls
  <1> QED
    BY <1>1, <1>2, JsIntIsWritten, OwnIs

LEMMA JsForgeRSAOwn ==
  ASSUME NEW f, WellPlaced(f), NEW x \in JsForgeRSA(f)
  PROVE  Own(f, x)
  <1>1. PICK u \in Calls(f, <<"forge", "pki", "rsa">>, {"generateKeyPair"}) : Of(x, u, JsIntProp(JsConsts(f), Arg(u, 1), "bits"))
    BY HasSize, Zenon DEF JsForgeRSA
  <1>2. u \in f.uses
    BY <1>1, Zenon DEF Calls
  <1> QED
    BY <1>1, <1>2, JsIntIsWritten, OwnIs

LEMMA JsNumberIsWritten ==
  ASSUME NEW f, NEW u, NEW p, JsNumber(Prop(Arg(u, 1), p)) # 0
  PROVE  JsNumber(Prop(Arg(u, 1), p)) \in WrittenFor(f, u)
  <1> DEFINE arg == Prop(Arg(u, 1), p)
  <1>1. arg # Expr /\ JsNumber(arg) = Atoi(arg.text)
    <2>1. arg.kind = "number" /\ JsNumber(arg) = Atoi(arg.text)
      BY DEF JsNumber
    <2>2. Expr.kind # "number"
      BY DEF Expr
    <2> QED
      BY <2>1, <2>2
  <1>2. Atoi(arg.text) \in Known(f, arg)
    BY AtoiTells DEF Known
  <1> QED
    BY <1>1, <1>2, PropertyOfArgument, WrittenHere

LEMMA JsWebGenerateKeyOwn ==
  ASSUME NEW f, WellPlaced(f), NEW t, NEW x \in JsWebGenerateKey(f, t)
  PROVE  Own(f, x)
  <1>1. PICK u \in Calls(f, <<"crypto", "subtle">>, {"generateKey"}) : Of(x, u, JsWebSize(u))
    BY MaybeSize, Zenon DEF JsWebGenerateKey
  <1>2. u \in f.uses
    BY <1>1, Zenon DEF Calls
  <1>3. JsWebSize(u) # 0 => JsWebSize(u) \in WrittenFor(f, u)
    BY JsNumberIsWritten DEF JsWebSize, JsModulus, JsLength
  <1> QED
    BY <1>1, <1>2, <1>3, OwnIs

LEMMA JsHashNone == \A f, t, x : x \in JsHash(f, t) => NoSize(x)
  BY MaybeZero, Zenon DEF JsHash
LEMMA JsHmacNone == \A f, t, x : x \in JsHmac(f, t) => NoSize(x)
  BY HasZero, Zenon DEF JsHmac
LEMMA JsDiffieHellmanNone == \A f, x : x \in JsDiffieHellman(f) => NoSize(x)
  BY HasNone, Zenon DEF JsDiffieHellman
LEMMA JsECDHNone == \A f, x : x \in JsECDH(f) => NoSize(x)
  BY HasZero, Zenon DEF JsECDH
LEMMA JsPBKDF2None == \A f, x : x \in JsPBKDF2(f) => NoSize(x)
  BY HasZero, Zenon DEF JsPBKDF2
LEMMA JsScryptNone == \A f, x : x \in JsScrypt(f) => NoSize(x)
  BY HasNone, Zenon DEF JsScrypt
LEMMA JsJWTNone == \A f, x : x \in JsJWT(f) => NoSize(x)
  BY SMT DEF JsJWT, Sure, Found, NoSize
LEMMA JsForgeMdNone == \A f, t, x : x \in JsForgeMd(f, t) => NoSize(x)
  BY HasNone, Zenon DEF JsForgeMd
LEMMA JsForgeCipherNone == \A f, t, x : x \in JsForgeCipher(f, t) => NoSize(x)
  BY MaybeZero, Zenon DEF JsForgeCipher
LEMMA JsForgeHMACNone == \A f, x : x \in JsForgeHMAC(f) => NoSize(x)
  BY HasNone, Zenon DEF JsForgeHMAC
LEMMA JsWebEncryptNone == \A f, t, x : x \in JsWebEncrypt(f, t) => NoSize(x)
  BY MaybeNone, Zenon DEF JsWebEncrypt
LEMMA JsWebDigestNone == \A f, t, x : x \in JsWebDigest(f, t) => NoSize(x)
  BY MaybeZero, Zenon DEF JsWebDigest
LEMMA JsNobleNone == \A f, t, x : x \in JsNoble(f, t) => NoSize(x)
  BY HasNone, Zenon DEF JsNoble

LEMMA JsOwn == ASSUME NEW f, WellPlaced(f), NEW t, JsTables(t), NEW x \in JsScan(f, t) PROVE Own(f, x)
  <1>1. x \in JsNodeCrypto(f, t) => x \in JsCipher(f, t) \/ x \in JsKeyPair(f) \/ NoSize(x)
    BY JsHashNone, JsHmacNone, JsDiffieHellmanNone, JsECDHNone, JsPBKDF2None, JsScryptNone, Zenon DEF JsNodeCrypto
  <1>2. x \in JsNodeCrypto(f, t) \/ x \in JsForgeRSA(f) \/ x \in JsWebGenerateKey(f, t) \/ NoSize(x)
    BY JsJWTNone, JsForgeMdNone, JsForgeCipherNone, JsForgeHMACNone, JsWebEncryptNone, JsWebDigestNone, JsNobleNone, Zenon
    DEF JsScan
  <1> QED
    BY <1>1, <1>2, JsCipherOwn, JsKeyPairOwn, JsForgeRSAOwn, JsWebGenerateKeyOwn DEF Own

-----------------------------------------------------------------------------
(* C and C++: a number may stand for itself or come through a name.        *)

LEMMA CppLastIsGiven ==
  ASSUME NEW f, WellPlaced(f), NEW n \in DOMAIN CppConsts(f)
  PROVE  n # "" /\ \E v \in Given(f, n) : CppConsts(f)[n] = v.text
  <1>1. PICK kinds : CppConsts(f) = LastOfKinds(f, kinds)
    BY DEF CppConsts
  <1>2. n \in DOMAIN LastOfKinds(f, kinds)
    BY <1>1
  <1>3. n # "" /\ \E v \in Given(f, n) : LastOfKinds(f, kinds)[n] = v.text
    BY <1>2, LastIsGiven
  <1> QED
    BY <1>1, <1>3

LEMMA CppIntIsWritten ==
  ASSUME NEW f, WellPlaced(f), NEW u, NEW n, CppInt(f, u, n) # 0
  PROVE  CppInt(f, u, n) \in WrittenIn(f, u)
  <1> DEFINE arg == Arg(u, n)
  <1>1. n \in DOMAIN u.args
    <2> SUFFICES ASSUME n \notin DOMAIN u.args PROVE FALSE
      OBVIOUS
    <2>1. arg.text = ""
      BY DEF Arg, Expr
    <2>2. "" \notin DOMAIN CppConsts(f)
      BY CppLastIsGiven
    <2> QED
      BY <2>1, <2>2, NoText DEF CppInt, CppText
  <1>2. CASE Atoi(arg.text) # 0
    BY <1>1, <1>2, AtoiTells, KnownIsWritten DEF CppInt, Known
  <1>3. CASE Atoi(arg.text) = 0
    <2>1. arg.text \in DOMAIN CppConsts(f) /\ CppInt(f, u, n) = Atoi(CppConsts(f)[arg.text])
      BY <1>3 DEF CppInt, CppText
    <2>2. \E v \in Given(f, arg.text) : CppConsts(f)[arg.text] = v.text
      BY <2>1, CppLastIsGiven
    <2>3. CppInt(f, u, n) \in Known(f, arg)
      BY <2>1, <2>2, AtoiTells, GivenIsKnown
    <2> QED
      BY <1>1, <2>3, KnownIsWritten
  <1> QED
    BY <1>2, <1>3

LEMMA CppCallsAreUses == ASSUME NEW f, NEW fns PROVE CppCalls(f, fns) \subseteq f.uses
  BY Zenon DEF CppCalls, Plain, Calls
LEMMA CppRowsNone == \A f, rows, x : x \in CppRows(f, rows) => NoSize(x)
  BY RowsNone, Zenon DEF CppRows

LEMMA CppRSAOwn ==
  ASSUME NEW f, WellPlaced(f), NEW x \in CppRSA(f)
  PROVE  Own(f, x)
  <1>1. NoSize(x) \/ \E u \in CppCalls(f, {"RSA_generate_key", "RSA_generate_key_ex"}) :
                       Of(x, u, CppInt(f, u, IF u.fn = "RSA_generate_key" THEN 1 ELSE 2))
    BY HasSize, HasZero, Zenon DEF CppRSA
  <1> QED
    BY <1>1, CppCallsAreUses, CppIntIsWritten, WrittenHere, OwnIs DEF Own

LEMMA CppAESOwn ==
  ASSUME NEW f, WellPlaced(f), NEW x \in CppAES(f)
  PROVE  Own(f, x)
  <1>1. NoSize(x) \/ \E u \in CppCalls(f, {"AES_set_encrypt_key", "AES_set_decrypt_key"}) : Of(x, u, CppInt(f, u, 2))
    BY HasSize, CppRowsNone, Zenon DEF CppAES
  <1> QED
    BY <1>1, CppCallsAreUses, CppIntIsWritten, WrittenHere, OwnIs DEF Own

LEMMA CppEVPNone == \A f, x : x \in CppEVP(f) => NoSize(x)
  BY CppRowsNone, Zenon DEF CppEVP
LEMMA CppHashNone == \A f, x : x \in CppHash(f) => NoSize(x)
  BY CppRowsNone, Zenon DEF CppHash
LEMMA CppLibsodiumNone == \A f, x : x \in CppLibsodium(f) => NoSize(x)
  BY CppRowsNone, Zenon DEF CppLibsodium
LEMMA CppMbedTLSNone == \A f, x : x \in CppMbedTLS(f) => NoSize(x)
  BY CppRowsNone, Zenon DEF CppMbedTLS
LEMMA CppSSLNone == \A f, t, x : x \in CppSSL(f, t) => NoSize(x)
  <1>1. \A f, t, x : x \in CppContexts(f, t) => NoSize(x)
    BY HasNone, HasZero, Zenon DEF CppContexts
  <1>2. \A f, t, x : x \in CppVersions(f, t) => NoSize(x)
    BY SMT DEF CppVersions, Sure, Found, NoSize
  <1>3. \A f, t, x : x \in CppNamedVersions(f, t) => NoSize(x)
    BY SMT DEF CppNamedVersions, Found, NoSize
  <1> QED
    BY <1>1, <1>2, <1>3 DEF CppSSL

LEMMA CppOwn == ASSUME NEW f, WellPlaced(f), NEW t, NEW x \in CppScan(f, t) PROVE Own(f, x)
  <1>1. \/ x \in CppRSA(f) \/ x \in CppAES(f) \/ x \in CppEVP(f) \/ x \in CppHash(f) \/ x \in CppLibsodium(f) \/ x \in CppMbedTLS(f)
        \/ x \in CppSSL(f, t) \/ x \in CppAsymmetric(f, t) \/ x \in CppHMAC(f) \/ x \in CppKDF(f) \/ x \in CppPEM(f)
    BY DEF CppScan
  <1>2. x \in CppAsymmetric(f, t) \/ x \in CppHMAC(f) \/ x \in CppKDF(f) \/ x \in CppPEM(f) => NoSize(x)
    BY CppRowsNone, Zenon DEF CppAsymmetric, CppHMAC, CppKDF, CppPEM
  <1> QED
    BY <1>1, <1>2, CppRSAOwn, CppAESOwn, CppEVPNone, CppHashNone, CppLibsodiumNone, CppMbedTLSNone, CppSSLNone DEF Own

-----------------------------------------------------------------------------
(* PHP: the size of a key pair stands in an array.                         *)

LEMMA PhpKeyPairOwn ==
  ASSUME NEW f, NEW x \in PhpKeyPair(f)
  PROVE  Own(f, x)
  <1> DEFINE bits(u) == Prop(Arg(u, 1), "private_key_bits")
  <1>1. PICK u \in Plain(f, {"openssl_pkey_new"}) : Of(x, u, Atoi(bits(u).text))
    BY HasSize, Zenon DEF PhpKeyPair
  <1>2. u \in f.uses
    BY <1>1, Zenon DEF Plain, Calls
  <1>3. Atoi(bits(u).text) # 0 => bits(u) # Expr
    <2>1. Expr.text = ""
      BY DEF Expr
    <2> QED
      BY <2>1, NoText
  <1>4. Atoi(bits(u).text) \in Known(f, bits(u))
    BY AtoiTells DEF Known
  <1>5. Atoi(bits(u).text) # 0 => Atoi(bits(u).text) \in WrittenFor(f, u)
    BY <1>3, <1>4, PropertyOfArgument, WrittenHere
  <1> QED
    BY <1>1, <1>2, <1>5, OwnIs

LEMMA PhpOpenSSLCipherNone == \A f, t, x : x \in PhpOpenSSLCipher(f, t) => NoSize(x)
  BY HasZero, Zenon DEF PhpOpenSSLCipher
LEMMA PhpSignNone == \A f, x : x \in PhpSign(f) => NoSize(x)
  BY HasZero, Zenon DEF PhpSign
LEMMA PhpHashNone == \A f, t, x : x \in PhpHash(f, t) => NoSize(x)
  BY MaybeZero, Zenon DEF PhpHash
LEMMA PhpHMACNone == \A f, t, x : x \in PhpHMAC(f, t) => NoSize(x)
  BY HasZero, Zenon DEF PhpHMAC
LEMMA PhpPBKDF2None == \A f, t, x : x \in PhpPBKDF2(f, t) => NoSize(x)
  BY HasZero, Zenon DEF PhpPBKDF2
LEMMA PhpPasswordNone == \A f, t, pick, x : x \in PhpPassword(f, t, pick) => NoSize(x)
  BY HasZero, HasNone, Zenon DEF PhpPassword
LEMMA PhpSodiumNone == \A f, t, x : x \in PhpSodium(f, t) => NoSize(x)
  BY RowsNone, Zenon DEF PhpSodium
LEMMA PhpMcryptNone == \A f, t, x : x \in PhpMcrypt(f, t) => NoSize(x)
  BY HasNone, Zenon DEF PhpMcrypt

LEMMA PhpOwn == ASSUME NEW f, NEW t, NEW pick, NEW x \in PhpScan(f, t, pick) PROVE Own(f, x)
  <1>1. x \in PhpKeyPair(f) \/ NoSize(x)
    BY PhpOpenSSLCipherNone, PhpSignNone, PhpHashNone, PhpHMACNone, PhpPBKDF2None, PhpPasswordNone, PhpSodiumNone,
       PhpMcryptNone, Zenon DEF PhpScan
  <1> QED
    BY <1>1, PhpKeyPairOwn DEF Own

-----------------------------------------------------------------------------
(* Swift and Dart know no sizes.                                           *)

LEMMA LineRowsNone == \A f, rows, p, x : x \in LineRows(f, rows, p) => NoSize(x)
  BY SMT DEF LineRows, Sure, Found, NoSize
LEMMA SwiftOwn == ASSUME NEW f, NEW t, NEW p, NEW x \in SwiftScan(f, t, p) PROVE Own(f, x)
  <1>1. x \in SwiftCCCrypt(f, t, p) => NoSize(x)
    BY HasNone, Zenon DEF SwiftCCCrypt
  <1>2. \/ x \in LineRows(f, SwiftCryptoKit, p) \/ x \in LineRows(f, SwiftCommonCrypto, p)
        \/ x \in LineRows(f, SwiftSecurity, p) \/ x \in SwiftCCCrypt(f, t, p)
    BY SMT DEF SwiftScan
  <1> QED
    BY <1>1, <1>2, LineRowsNone DEF Own
LEMMA DartOwn == ASSUME NEW f, NEW p, NEW x \in DartScan(f, p) PROVE Own(f, x)
  <1>1. x \in DartEncrypt(f, p) => NoSize(x)
    BY HasNone, Zenon DEF DartEncrypt
  <1> QED
    BY <1>1, LineRowsNone, Zenon DEF DartScan, Own

-----------------------------------------------------------------------------
(* Python                                                                  *)

LEMMA PythonIntIsWritten ==
  ASSUME NEW f, WellPlaced(f), NEW u, NEW n, PythonInt(f, Arg(u, n)) # 0
  PROVE  PythonInt(f, Arg(u, n)) \in WrittenIn(f, u)
  BY NumberIsWritten DEF PythonInt, PythonConsts, LastLiterals
LEMMA PythonKeySizeIsWritten ==
  ASSUME NEW f, WellPlaced(f), NEW u, PythonKeySize(f, u) # 0
  PROVE  PythonKeySize(f, u) \in WrittenIn(f, u)
  BY NumberOfProperty DEF PythonKeySize, PythonInt, Keyword, PythonConsts, LastLiterals

LEMMA PythonAsymmetricOwn ==
  ASSUME NEW f, WellPlaced(f), NEW x \in PythonAsymmetric(f)
  PROVE  Own(f, x)
  <1>1. \/ NoSize(x)
        \/ \E u \in Calls(f, <<"rsa">>, {"generate_private_key"}) : Of(x, u, PythonKeySize(f, u))
        \/ \E u \in Calls(f, <<"dh">>, {"generate_parameters"}) : Of(x, u, PythonKeySize(f, u))
        \/ \E u \in Calls(f, <<"dsa">>, {"generate_private_key"}) : Of(x, u, PythonInt(f, Arg(u, 1)))
    BY HasNone, HasSize, Zenon DEF PythonAsymmetric
  <1>2. \/ NoSize(x)
        \/ \E u \in f.uses : Of(x, u, PythonKeySize(f, u)) \/ Of(x, u, PythonInt(f, Arg(u, 1)))
    BY <1>1, Zenon DEF Calls
  <1> QED
    BY <1>2, PythonKeySizeIsWritten, PythonIntIsWritten, WrittenHere, OwnIs DEF Own

LEMMA RecordNone ==
  \A at, name, sev, conf, rule, x :
    x = [at |-> at, name |-> name, size |-> 0, sev |-> sev, conf |-> conf, rule |-> rule] => NoSize(x)
  BY DEF NoSize
LEMMA PythonHashlibNone == \A f, t, x : x \in PythonHashlib(f, t) => NoSize(x)
  BY HasNone, Zenon DEF PythonHashlib
LEMMA PythonHashlibNewNone == \A f, t, x : x \in PythonHashlibNew(f, t) => NoSize(x)
  BY MaybeZero, Zenon DEF PythonHashlibNew
LEMMA PythonPBKDF2None == \A f, x : x \in PythonPBKDF2(f) => NoSize(x)
  BY HasZero, Zenon DEF PythonPBKDF2
LEMMA PythonCiphersNone == \A f, t, x : x \in PythonCiphers(f, t) => NoSize(x)
  BY HasNone, Zenon DEF PythonCiphers
LEMMA PythonCryptoHashesNone == \A f, t, x : x \in PythonCryptoHashes(f, t) => NoSize(x)
  BY HasNone, Zenon DEF PythonCryptoHashes
LEMMA PythonEd25519None == \A f, x : x \in PythonEd25519(f) => NoSize(x)
  BY HasNone, Zenon DEF PythonEd25519
LEMMA PythonX25519None == \A f, x : x \in PythonX25519(f) => NoSize(x)
  BY HasNone, Zenon DEF PythonX25519
LEMMA PythonKDFsNone == \A f, t, x : x \in PythonKDFs(f, t) => NoSize(x)
  BY SMT DEF PythonKDFs, Sure, Found, NoSize
LEMMA PythonSSLContextNone == \A f, t, x : x \in PythonSSLContext(f, t) => NoSize(x)
  BY SMT DEF PythonSSLContext, RowsOf, Sure, Found, NoSize
LEMMA PythonTLSVersionNone == \A f, t, x : x \in PythonTLSVersion(f, t) => NoSize(x)
  BY RowsNone, Zenon DEF PythonTLSVersion
LEMMA PythonCertNoneNone == \A f, x : x \in PythonCertNone(f) => NoSize(x)
  BY HasNone, Zenon DEF PythonCertNone
LEMMA PythonWrapSocketNone == \A f, x : x \in PythonWrapSocket(f) => NoSize(x)
  BY HasNone, Zenon DEF PythonWrapSocket
LEMMA PyCryptodomeNone == \A f, t, x : x \in PyCryptodome(f, t) => NoSize(x)
  BY RecordNone, Zenon DEF PyCryptodome
LEMMA PyCryptodomeUsageNone == \A f, t, x : x \in PyCryptodomeUsage(f, t) => NoSize(x)
  BY HasNone, Zenon DEF PyCryptodomeUsage
LEMMA PycaAEADNone == \A f, t, x : x \in PycaAEAD(f, t) => NoSize(x)
  BY RowsNone, Zenon DEF PycaAEAD
LEMMA PythonWeakRandomNone == \A f, t, x : x \in PythonWeakRandom(f, t) => NoSize(x)
  BY HasZero, Zenon DEF PythonWeakRandom
LEMMA PythonInnerHashNone == \A u, hash, x : x \in PythonInnerHash(u, hash) => NoSize(x)
  BY MaybeZero, Zenon DEF PythonInnerHash
LEMMA PythonHMACNone == \A f, t, pick, x : x \in PythonHMAC(f, t, pick) => NoSize(x)
  BY HasZero, PythonInnerHashNone, Zenon DEF PythonHMAC
LEMMA PythonPKCS1v15None == \A f, x : x \in PythonPKCS1v15(f) => NoSize(x)
  BY HasNone, Zenon DEF PythonPKCS1v15
LEMMA PythonFernetNone == \A f, x : x \in PythonFernet(f) => NoSize(x)
  BY HasNone, Zenon DEF PythonFernet
LEMMA PythonMACsNone == \A f, x : x \in PythonMACs(f) => NoSize(x)
  BY HasNone, Zenon DEF PythonMACs
LEMMA PythonBLSNone == \A f, t, x : x \in PythonBLS(f, t) => NoSize(x)
  BY HasNone, Zenon DEF PythonBLS
LEMMA PythonSchnorrNone == \A f, x : x \in PythonSchnorr(f) => NoSize(x)
  BY HasNone, Zenon DEF PythonSchnorr
LEMMA PythonTier2None == \A f, t, x : x \in PythonTier2(f, t) => NoSize(x)
  BY SMT DEF PythonTier2, Calls, Sure, Found, NoSize

LEMMA PythonOwn == ASSUME NEW f, WellPlaced(f), NEW t, NEW pick, NEW x \in PythonScan(f, t, pick) PROVE Own(f, x)
  <1>1. x \in PythonSSL(f, t) => NoSize(x)
    BY PythonSSLContextNone, PythonTLSVersionNone, PythonCertNoneNone, PythonWrapSocketNone, Zenon DEF PythonSSL
  <1>2. x \in PythonCryptography(f, t) => x \in PythonAsymmetric(f) \/ NoSize(x)
    BY PythonCiphersNone, PythonCryptoHashesNone, PythonKDFsNone, PythonEd25519None, PythonX25519None, Zenon DEF PythonCryptography
  <1>3. \/ x \in PythonHashlib(f, t) \/ x \in PythonHashlibNew(f, t) \/ x \in PythonPBKDF2(f) \/ x \in PythonCryptography(f, t)
        \/ x \in PythonSSL(f, t) \/ x \in PyCryptodome(f, t) \/ x \in PyCryptodomeUsage(f, t) \/ x \in PycaAEAD(f, t)
        \/ x \in PythonWeakRandom(f, t) \/ x \in PythonHMAC(f, t, pick) \/ x \in PythonPKCS1v15(f) \/ x \in PythonFernet(f)
        \/ x \in PythonMACs(f) \/ x \in PythonBLS(f, t) \/ x \in PythonSchnorr(f) \/ x \in PythonTier2(f, t)
    BY DEF PythonScan
  <1> QED
    BY <1>1, <1>2, <1>3, PythonAsymmetricOwn, PythonHashlibNone, PythonHashlibNewNone, PythonPBKDF2None, PyCryptodomeNone,
       PyCryptodomeUsageNone, PycaAEADNone, PythonWeakRandomNone, PythonHMACNone, PythonPKCS1v15None, PythonFernetNone,
       PythonMACsNone, PythonBLSNone, PythonSchnorrNone, PythonTier2None DEF Own

-----------------------------------------------------------------------------
(* Go: of names that are assigned together each is given its own value, as *)
(* long as every target is a name.                                         *)

LEMMA DomainOf == \A S : \A s \in Seq(S) : DOMAIN s = 1..Len(s) /\ Len(s) \in Nat
  OBVIOUS
LEMMA Counting == ASSUME NEW n \in Nat PROVE IsFiniteSet(1..n) /\ Cardinality(1..n) = n
  BY FS_Interval

LEMMA Below == ASSUME NEW n \in Nat, NEW k \in 1..n PROVE k \in Nat /\ 1..k \subseteq 1..n
  <1>1. k \in Nat /\ k <= n
    OBVIOUS
  <1>2. ASSUME NEW h \in 1..k PROVE h \in 1..n
    BY <1>1
  <1> QED
    BY <1>1, <1>2

LEMMA GoTargetIs ==
  ASSUME NEW a, a.names \in Seq(STRING), \A i \in DOMAIN a.names : a.names[i] # "", NEW j \in DOMAIN a.names
  PROVE  GoTarget(a, j) = j
  <1>1. DOMAIN a.names = 1..Len(a.names) /\ Len(a.names) \in Nat
    BY DomainOf, Zenon
  <1>2. j \in Nat /\ 1..j \subseteq DOMAIN a.names
    BY <1>1, Below, Zenon
  <1>3. {h \in 1..j : a.names[h] # ""} = 1..j
    BY <1>2, Zenon
  <1> QED
    BY <1>2, <1>3, Counting DEF GoTarget

LEMMA GoConstIsGiven ==
  ASSUME NEW f, WellPlaced(f), Aligned(f), NEW n \in DOMAIN GoConsts(f)
  PROVE  \E v \in Given(f, n) : GoConsts(f)[n] = v.text
  <1> DEFINE all == GoAssigned(f, n)
             last == CHOOSE p \in all : \A q \in all : q[1] < p[1] \/ (q[1] = p[1] /\ q[2] <= p[2])
             w == [p \in all |-> 2 * p[1] + p[2]]
  <1>1. all # {} /\ GoConsts(f)[n] = f.assigns[last[1]].values[last[2]].text
    BY DEF GoConsts
  <1>2. DOMAIN f.assigns = 1..Len(f.assigns) /\ Len(f.assigns) \in Nat
    BY DEF WellPlaced
  <1>30. all \subseteq (1..Len(f.assigns)) \X (1..2)
    BY <1>2 DEF GoAssigned
  <1>3. \A p \in all : p[1] \in 1..Len(f.assigns) /\ p[2] \in 1..2
    BY <1>30
  <1>4. IsFiniteSet(all)
    <2>1. IsFiniteSet(1..Len(f.assigns)) /\ IsFiniteSet(1..2)
      <3>1. PICK n2 \in Nat : n2 = 2
        OBVIOUS
      <3> QED
        BY <1>2, <3>1, Counting
    <2>2. IsFiniteSet((1..Len(f.assigns)) \X (1..2))
      BY <2>1, FS_Product
    <2> QED
      BY <1>30, <2>2, FS_Subset
  <1>5. w \in [all -> Nat]
    BY <1>2, <1>3
  <1>6. PICK p \in all : \A q \in all : w[q] <= w[p]
    BY <1>1, <1>4, <1>5, Highest
  <1>7. \A q \in all : q[1] < p[1] \/ (q[1] = p[1] /\ q[2] <= p[2])
    <2> SUFFICES ASSUME NEW q \in all PROVE q[1] < p[1] \/ (q[1] = p[1] /\ q[2] <= p[2])
      OBVIOUS
    <2>1. 2 * q[1] + q[2] <= 2 * p[1] + p[2]
      BY <1>6
    <2> QED
      BY <1>2, <1>3, <2>1
  <1>8. last \in all
    BY <1>7
  <1> HIDE DEF last
  <1> DEFINE a == f.assigns[last[1]]
  <1>9. PICK j \in DOMAIN a.names : a.names[j] = n /\ GoTarget(a, j) = last[2]
    BY <1>8 DEF GoAssigned
  <1>10. last[1] \in DOMAIN f.assigns /\ last[2] \in DOMAIN a.values
    BY <1>8 DEF GoAssigned
  <1>11. j = last[2]
    BY <1>9, <1>10, GoTargetIs DEF Aligned, WellPlaced
  <1>12. a.values[j] \in {a.values[i] : i \in {i \in DOMAIN a.names \cap DOMAIN a.values : a.names[i] = n}}
    BY <1>9, <1>10, <1>11
  <1>13. a.values[j] \in Given(f, n)
    BY <1>10, <1>12 DEF Given
  <1> QED
    BY <1>1, <1>11, <1>13

LEMMA GoKeySizeIsWritten ==
  ASSUME NEW f, WellPlaced(f), Aligned(f), NEW u, GoRSAKeySize(f, u) # 0
  PROVE  GoRSAKeySize(f, u) \in WrittenFor(f, u)
  <1> DEFINE arg == Arg(u, 2)
  <1>1. 2 \in DOMAIN u.args
    <2> SUFFICES ASSUME 2 \notin DOMAIN u.args PROVE FALSE
      OBVIOUS
    <2>1. Resolve(GoConsts(f), arg).text = ""
      BY DEF Arg, Expr, Resolve, Unknown, Literal
    <2> QED
      BY <2>1, NoText DEF GoRSAKeySize
  <1>2. CASE Literal(arg)
    <2>1. GoRSAKeySize(f, u) = Atoi(arg.text)
      BY <1>2 DEF GoRSAKeySize, Resolve
    <2> QED
      BY <1>1, <2>1, AtoiTells, KnownIsWritten, WrittenHere DEF Known
  <1>3. CASE ~Literal(arg)
    <2>1. arg.text \in DOMAIN GoConsts(f) /\ GoRSAKeySize(f, u) = Atoi(GoConsts(f)[arg.text])
      BY <1>3, NoText DEF GoRSAKeySize, Resolve, Unknown
    <2>2. PICK v \in Given(f, arg.text) : GoConsts(f)[arg.text] = v.text
      BY <2>1, GoConstIsGiven
    <2> QED
      BY <1>1, <2>1, <2>2, AtoiTells, GivenIsKnown, KnownIsWritten, WrittenHere
  <1> QED
    BY <1>2, <1>3

LEMMA GoRowsNone == \A f, as, path, rows, x : x \in GoRows(f, as, path, rows) => NoSize(x)
  BY HasNone, Zenon DEF GoRows
LEMMA GoRowsOfAnyNone == \A f, as, lasts, rows, x : x \in GoRowsOfAny(f, as, lasts, rows) => NoSize(x)
  BY GoRowsNone, Zenon DEF GoRowsOfAny
LEMMA GoTLSNone == \A f, as, t, x : x \in GoTLS(f, as, t) => NoSize(x)
  BY HasNone, Zenon DEF GoTLS
LEMMA GoBcryptNone == \A f, as, x : x \in GoBcrypt(f, as) => NoSize(x)
  BY HasNone, GoRowsNone, Zenon DEF GoBcrypt
LEMMA GoXCryptoNone == \A f, as, x : x \in GoXCrypto(f, as) => NoSize(x)
  <1>1. \A f, as, x : (\/ x \in GoChaCha20Poly1305(f, as) \/ x \in GoNaCl(f, as) \/ x \in GoArgon2(f, as)
                       \/ x \in GoScrypt(f, as) \/ x \in GoSSH(f, as) \/ x \in GoHKDF(f, as)) => NoSize(x)
    BY GoRowsNone, Zenon DEF GoChaCha20Poly1305, GoNaCl, GoArgon2, GoScrypt, GoSSH, GoHKDF
  <1> QED
    BY <1>1, GoBcryptNone, Zenon DEF GoXCrypto

LEMMA GoRSAOwn ==
  ASSUME NEW f, WellPlaced(f), Aligned(f), NEW as, NEW x \in GoRSA(f, as)
  PROVE  Own(f, x)
  <1>1. NoSize(x) \/ \E alias : \E u \in CallsOf(f, alias, {"GenerateKey"}) : Of(x, u, GoRSAKeySize(f, u))
    BY GoRowsNone, HasSize, Zenon DEF GoRSA
  <1>2. NoSize(x) \/ \E u \in f.uses : Of(x, u, GoRSAKeySize(f, u))
    BY <1>1, Zenon DEF CallsOf, Calls
  <1> QED
    BY <1>2, GoKeySizeIsWritten, OwnIs DEF Own

LEMMA GoOwn == ASSUME NEW f, WellPlaced(f), Aligned(f), NEW as, NEW t, NEW x \in GoScan(f, as, t) PROVE Own(f, x)
  <1>1. \/ x \in GoAES(f, as) \/ x \in GoCipher(f, as) \/ x \in GoDES(f, as) \/ x \in GoMD5(f, as) \/ x \in GoRC4(f, as)
        \/ x \in GoSHA1(f, as) \/ x \in GoSHA256(f, as) \/ x \in GoSHA512(f, as) \/ x \in GoHMAC(f, as) \/ x \in GoRSA(f, as)
        \/ x \in GoDSA(f, as) \/ x \in GoECDSA(f, as) \/ x \in GoECDH(f, as) \/ x \in GoEd25519(f, as) \/ x \in GoTLS(f, as, t)
        \/ x \in GoX509(f, as) \/ x \in GoXCrypto(f, as) \/ x \in GoSchnorr(f, as) \/ x \in GoBLS(f, as) \/ x \in GoSM2(f, as, t)
    BY DEF GoScan
  <1>2. (\/ x \in GoAES(f, as) \/ x \in GoCipher(f, as) \/ x \in GoDES(f, as) \/ x \in GoMD5(f, as) \/ x \in GoRC4(f, as)
         \/ x \in GoSHA1(f, as) \/ x \in GoSHA256(f, as) \/ x \in GoSHA512(f, as) \/ x \in GoHMAC(f, as)) => NoSize(x)
    BY GoRowsNone, Zenon DEF GoAES, GoCipher, GoDES, GoMD5, GoRC4, GoSHA1, GoSHA256, GoSHA512, GoHMAC
  <1>3. (\/ x \in GoDSA(f, as) \/ x \in GoECDSA(f, as) \/ x \in GoECDH(f, as) \/ x \in GoEd25519(f, as) \/ x \in GoX509(f, as)
         \/ x \in GoSM2(f, as, t)) => NoSize(x)
    BY GoRowsNone, Zenon DEF GoDSA, GoECDSA, GoECDH, GoEd25519, GoX509, GoSM2
  <1>4. x \in GoSchnorr(f, as) \/ x \in GoBLS(f, as) => NoSize(x)
    BY GoRowsOfAnyNone, Zenon DEF GoSchnorr, GoBLS
  <1> QED
    BY <1>1, <1>2, <1>3, <1>4, GoTLSNone, GoXCryptoNone, GoRSAOwn DEF Own

-----------------------------------------------------------------------------
(* Rust: the words of a call name some sizes.                              *)

RustTables(t) == t.aesGcm = RustEmbedded.aesGcm \/ t.aesGcm = <<>>

LEMMA RustOneOfNone == \A f, pick, calls, rows, otherwise, x : x \in RustOneOf(f, pick, calls, rows, otherwise) => NoSize(x)
  BY HasNone, HasZero, Zenon DEF RustOneOf
LEMMA RustKnownNone == \A f, pick, marker, rows, x : x \in RustKnown(f, pick, marker, rows) => NoSize(x)
  BY HasNone, Zenon DEF RustKnown
LEMMA RustRingPBKDF2None == \A f, x : x \in RustRingPBKDF2(f) => NoSize(x)
  BY HasNone, Zenon DEF RustRingPBKDF2
LEMMA RustRustlsNone == \A f, x : x \in RustRustls(f) => NoSize(x)
  BY HasNone, RecordNone, Zenon DEF RustRustls
LEMMA RustOpenSSLNone == \A f, pick, x : x \in RustOpenSSL(f, pick) => NoSize(x)
  BY SMT, RustKnownNone DEF RustOpenSSL, Sure, Found, NoSize

LEMMA RustKeySizeIsWritten ==
  ASSUME NEW f, WellPlaced(f), NEW u, RustKeySize(f, u) # 0
  PROVE  RustKeySize(f, u) \in WrittenIn(f, u)
  BY NumberIsWritten DEF RustKeySize, RustConsts, LastLiterals

LEMMA WordIsWritten ==
  ASSUME NEW f, NEW u, NEW w \in Words(u)
  PROVE  Tells(w) \subseteq WrittenFor(f, u)
  <1>1. CASE w = u.fn
    BY <1>1 DEF WrittenFor
  <1>2. CASE \E i \in DOMAIN u.args : w = u.args[i].text
    <2>1. PICK i \in DOMAIN u.args : w = u.args[i].text
      BY <1>2
    <2>2. Known(f, u.args[i]) \subseteq WrittenIn(f, u)
      BY DEF WrittenIn
    <2> QED
      BY <2>1, <2>2, WrittenHere DEF Known
  <1> QED
    BY <1>1, <1>2 DEF Words

LEMMA RustAEADOwn ==
  ASSUME NEW f, NEW t, RustTables(t), NEW pick, NEW x \in RustCryptoAEAD(f, t, pick)
  PROVE  Own(f, x)
  <1> DEFINE n(u) == Picked(pick, u, Words(u) \cap DOMAIN t.aesGcm)
  <1>1. PICK u \in {u \in RustCalls(f) : Words(u) \cap DOMAIN t.aesGcm # {}} : Of(x, u, t.aesGcm[n(u)])
    BY HasSize, Zenon DEF RustCryptoAEAD
  <1>2. u \in f.uses /\ Words(u) \cap DOMAIN t.aesGcm # {}
    BY <1>1, Zenon DEF RustCalls
  <1>3. n(u) \in Words(u) \cap DOMAIN t.aesGcm
    BY <1>2 DEF Picked
  <1>4. \A name \in DOMAIN t.aesGcm : t.aesGcm[name] \in Tells(name)
    <2>1. ASSUME NEW name \in DOMAIN t.aesGcm PROVE name \in DOMAIN NamedSizes /\ NamedSizes[name] = t.aesGcm[name]
      BY DEF RustTables, RustEmbedded, NamedSizes
    <2> QED
      BY <2>1 DEF Tells
  <1>5. t.aesGcm[n(u)] \in WrittenFor(f, u)
    BY <1>3, <1>4, WordIsWritten
  <1> QED
    BY <1>1, <1>2, <1>5, OwnIs

LEMMA RustRSAOwn ==
  ASSUME NEW f, WellPlaced(f), NEW x \in RustCryptoRSA(f)
  PROVE  Own(f, x)
  <1>1. PICK u \in RustCalls(f) : Of(x, u, RustKeySize(f, u))
    BY HasSize, Zenon DEF RustCryptoRSA
  <1>2. u \in f.uses
    BY Zenon DEF RustCalls
  <1> QED
    BY <1>1, <1>2, RustKeySizeIsWritten, WrittenHere, OwnIs

LEMMA RustOwn == ASSUME NEW f, WellPlaced(f), NEW t, RustTables(t), NEW pick, NEW x \in RustScan(f, t, pick) PROVE Own(f, x)
  <1>1. \/ x \in RustRingDigest(f, t, pick) \/ x \in RustRingAEAD(f, pick) \/ x \in RustRingAgreement(f, pick)
        \/ x \in RustRingPBKDF2(f) \/ x \in RustRingSignature(f, pick) \/ x \in RustRustls(f) \/ x \in RustOpenSSL(f, pick)
        \/ x \in RustCryptoAEAD(f, t, pick) \/ x \in RustCryptoRSA(f)
    BY DEF RustScan
  <1>2. (\/ x \in RustRingDigest(f, t, pick) \/ x \in RustRingAEAD(f, pick) \/ x \in RustRingAgreement(f, pick)
         \/ x \in RustRingSignature(f, pick)) => NoSize(x)
    BY RustOneOfNone, Zenon DEF RustRingDigest, RustRingAEAD, RustRingAgreement, RustRingSignature
  <1> QED
    BY <1>1, <1>2, RustRingPBKDF2None, RustRustlsNone, RustOpenSSLNone, RustAEADOwn, RustRSAOwn DEF Own
-----------------------------------------------------------------------------
(* Whatever directory the tables come from, a size in them is the one that *)
(* its name tells.                                                         *)

LEMMA SizedTables == ASSUME NEW a PROVE JsTables(TablesOf("javascript", a)) /\ RustTables(TablesOf("rust", a))
  <1>1. BinaryTables["javascript"] = JsEmbedded /\ BinaryTables["rust"] = RustEmbedded
    BY DEF BinaryTables
  <1>2. "cipher" \in DOMAIN JsEmbedded /\ JsEmbedded["cipher"] = JsCiphers /\ "aesGcm" \in DOMAIN RustEmbedded
    BY DEF JsEmbedded, RustEmbedded
  <1>3. "cipher" \notin SetTables /\ "aesGcm" \notin SetTables
    BY DEF SetTables
  <1> QED
    BY <1>1, <1>2, <1>3 DEF TablesOf, JsTables, RustTables

(* The findings of a language whose sizes are taken from where they belong.*)
Attributed(l, f) == l # "ruby" /\ (l = "go" => Aligned(f))

LEMMA ScanIsOwn ==
  ASSUME NEW l \in Languages, NEW f, WellPlaced(f), Attributed(l, f), NEW a, NEW r \in Reports(l, f, a), NEW x \in r
  PROVE  Own(f, x)
  <1>1. l \in SupportedLanguages \cup {"dart"} /\ l # "ruby"
    BY LanguagesAssumption DEF Attributed
  <1>2. \/ l = "java" \/ l = "go" \/ l = "kotlin" \/ l = "rust" \/ l = "cpp" \/ l = "csharp" \/ l = "php" \/ l = "javascript"
        \/ l = "python" \/ l = "swift" \/ l = "dart"
    BY <1>1 DEF SupportedLanguages, Required
  <1>3. CASE l = "go"
    <2>1. PICK as : r = GoScan(f, as, TablesOf(l, a))
      BY <1>3 DEF Reports
    <2> QED
      BY <1>3, <2>1, GoOwn DEF Attributed
  <1>4. CASE l = "java"
    <2>1. r = JavaScan(f, TablesOf(l, a))
      BY <1>4 DEF Reports
    <2> QED
      BY <2>1, JavaOwn
  <1>5. CASE l = "kotlin"
    <2>1. r = KotlinScan(f, TablesOf(l, a))
      BY <1>5 DEF Reports
    <2> QED
      BY <2>1, KotlinOwn
  <1>6. CASE l = "javascript"
    <2>1. r = JsScan(f, TablesOf(l, a))
      BY <1>6 DEF Reports
    <2> QED
      BY <1>6, <2>1, JsOwn, SizedTables
  <1>7. CASE l = "cpp"
    <2>1. r = CppScan(f, TablesOf(l, a))
      BY <1>7 DEF Reports
    <2> QED
      BY <2>1, CppOwn
  <1>8. CASE l = "rust"
    <2>1. PICK pick : r = RustScan(f, TablesOf(l, a), pick)
      BY <1>8 DEF Reports
    <2> QED
      BY <1>8, <2>1, RustOwn, SizedTables
  <1>9. CASE l = "php"
    <2>1. PICK pick : r = PhpScan(f, TablesOf(l, a), pick)
      BY <1>9 DEF Reports
    <2> QED
      BY <2>1, PhpOwn
  <1>10. CASE l = "csharp"
    <2>1. r = CSharpScan(f, TablesOf(l, a))
      BY <1>10 DEF Reports
    <2> QED
      BY <2>1, CSharpOwn
  <1>11. CASE l = "python"
    <2>1. PICK pick : r = PythonScan(f, TablesOf(l, a), pick)
      BY <1>11 DEF Reports
    <2> QED
      BY <2>1, PythonOwn
  <1>12. CASE l = "swift"
    <2>1. PICK p \in LinePicks(f) : r = SwiftScan(f, TablesOf(l, a), p)
      BY <1>12 DEF Reports
    <2> QED
      BY <2>1, SwiftOwn
  <1>13. CASE l = "dart"
    <2>1. PICK p \in LinePicks(f) : r = DartScan(f, p)
      BY <1>13 DEF Reports
    <2> QED
      BY <2>1, DartOwn
  <1> QED
    BY <1>2, <1>3, <1>4, <1>5, <1>6, <1>7, <1>8, <1>9, <1>10, <1>11, <1>12, <1>13

-----------------------------------------------------------------------------
(* A file is made of statements of its language, however it is edited, and *)
(* what is reported of it is of it: an edit takes the report away.         *)
FileIn(l, f) == \E chosen \in SUBSET Statements[l], assigns \in Assignments[l] : f = FileOf(chosen, assigns)
SizesInv == lang \in Languages /\ FileIn(lang, file) /\ (Attributed(lang, file) => \A x \in report : Own(file, x))

LEMMA FilesArePlaced == ASSUME NEW l \in Languages, NEW f, FileIn(l, f) PROVE WellPlaced(f)
  <1>1. PICK chosen \in SUBSET Statements[l], assigns \in Assignments[l] : f = FileOf(chosen, assigns)
    BY DEF FileIn
  <1>2. f.uses = {s.use : s \in chosen} /\ f.assigns = assigns
    BY <1>1 DEF FileOf
  <1>3. IsFiniteSet(f.uses)
    <2>1. IsFiniteSet(chosen)
      BY StatementsAssumption, FS_Subset
    <2> DEFINE use == [s \in chosen |-> s.use]
    <2>2. use \in Surjection(chosen, f.uses)
      BY <1>2 DEF Surjection
    <2> QED
      BY <2>1, <2>2, FS_Surjection
  <1>4. \A u, v \in f.uses : u.at \in Nat \ {0, 1} /\ (u.at = v.at => u = v)
    BY <1>2, StatementsAssumption
  <1>5. /\ assigns \in Seq({assigns[k] : k \in DOMAIN assigns})
        /\ \A k \in DOMAIN assigns : assigns[k].names \in Seq(STRING) \ {<<>>} /\ 1 \in DOMAIN assigns[k].values
    BY AssignmentsAssumption, Zenon
  <1> QED
    BY <1>2, <1>3, <1>4, <1>5 DEF WellPlaced

LEMMA SizesStart == LInit => SizesInv
  BY DEF LInit, SizesInv, FileIn

LEMMA SizesKept == SizesInv /\ [LNext]_vars => SizesInv'
  <1> SUFFICES ASSUME SizesInv, [LNext]_vars PROVE SizesInv'
    OBVIOUS
  <1>1. CASE Prepare
    BY <1>1 DEF Prepare, SizesInv
  <1>2. CASE ScanFile
    <2>1. lang' = lang /\ file' = file /\ (report' = {} \/ report' \in Reports(lang, file, ActiveOf(lang)))
      BY <1>2 DEF ScanFile
    <2>2. WellPlaced(file)
      BY FilesArePlaced DEF SizesInv
    <2>3. Attributed(lang, file) => \A x \in report' : Own(file, x)
      BY <2>1, <2>2, ScanIsOwn DEF SizesInv
    <2> QED
      BY <2>1, <2>3 DEF SizesInv
  <1>3. CASE Edit
    <2>1. report' = {} /\ lang' = lang /\ \E now \in SUBSET Statements[lang] : file' = FileOf(now, file.assigns)
      <3>1. \A S : \A s \in Statements[lang] : StatementsOf(file) \ {s} \in SUBSET Statements[lang]
                                             /\ StatementsOf(file) \cup {s} \in SUBSET Statements[lang]
        BY DEF StatementsOf
      <3> QED
        BY <1>3, <3>1 DEF Edit
    <2>2. file.assigns \in Assignments[lang]
      BY DEF SizesInv, FileIn, FileOf
    <2>3. FileIn(lang, file')
      BY <2>1, <2>2 DEF FileIn
    <2> QED
      BY <2>1, <2>3 DEF SizesInv
  <1>4. CASE Again
    BY <1>4 DEF Again, SizesInv
  <1>5. CASE UNCHANGED vars
    BY <1>5 DEF vars, SizesInv
  <1> QED
    BY <1>1, <1>2, <1>3, <1>4, <1>5 DEF LNext

(* A key size in a report was written for that key: in its statement, in   *)
(* one on the variable that holds the generator, or in the name of the     *)
(* algorithm; whatever else the file has, whatever directory the tables    *)
(* came from and whatever a Go map answers (the key size extraction of     *)
(* every scanner of pass 1 but that of Ruby).                              *)
THEOREM SizesBelong == LSpec => []SizesAreOwn
  <1>1. SizesInv => SizesAreOwn
    <2> SUFFICES ASSUME SizesInv, Attributed(lang, file), NEW s \in StatementsOf(file), NEW x \in ReportOn(report, s), x.size # 0
                 PROVE  x.size \in WrittenFor(file, s.use)
      BY DEF SizesAreOwn, Attributed
    <2>1. s.use \in file.uses /\ x \in report /\ x.at = s.use.at
      BY DEF StatementsOf, ReportOn
    <2>2. PICK u \in file.uses : u.at = x.at /\ x.size \in WrittenFor(file, u)
      BY <2>1 DEF SizesInv, Own, NoSize
    <2>3. u = s.use
      BY <2>1, <2>2, FilesArePlaced DEF WellPlaced, SizesInv
    <2> QED
      BY <2>2, <2>3
  <1> QED
    BY <1>1, SizesStart, SizesKept, PTL DEF LSpec

-----------------------------------------------------------------------------
(* Two files beside each other, which give the same values to their names  *)
(* and have the use u in common; nothing else stands at its place.  What   *)
(* the one reports at that place is carried to the other.                  *)
At(x, u) == x.at = u.at
Beside(f, g, u) ==
  /\ f.assigns = g.assigns /\ u \in f.uses /\ u \in g.uses
  /\ u.at \notin {0, 1} /\ \A v \in f.uses \cup g.uses : "at" \in DOMAIN v
  /\ \A v \in f.uses \cup g.uses : v.at = u.at => v = u
  /\ OnVariable(f, u) = OnVariable(g, u)
Carried(A, B, u) == \A x \in A : At(x, u) => x \in B

LEMMA BesideIsSymmetric == \A f, g, u : Beside(f, g, u) => Beside(g, f, u)
  BY DEF Beside

LEMMA OnlyOne == \A f, g, u : Beside(f, g, u) => \A v \in f.uses : \A x : At(x, u) /\ At(x, v) => v = u /\ u \in g.uses
  BY DEF At, Beside

LEMMA FoundAt == \A u, name, size, sev, conf, rule, x : x = Found(u, name, size, sev, conf, rule) => At(x, u)
  BY DEF Found, At

LEMMA SureAt == \A u, name, sev, rule, x : x = Sure(u, name, sev, rule) => At(x, u)
  BY DEF Sure, Found, At

LEMMA MaybeAt ==
  \A cond, u, name, size, sev, conf, rule, y, x : y = Maybe(cond, Found(u, name, size, sev, conf, rule)) /\ x \in y => At(x, u)
  BY DEF Maybe, Found, At

LEMMA MaybeSureAt ==
  \A cond, u, name, sev, rule, y, x : y = Maybe(cond, Sure(u, name, sev, rule)) /\ x \in y => At(x, u)
  BY DEF Maybe, Sure, Found, At

LEMMA Joined == \A A, B, C, D, u : Carried(A, B, u) /\ Carried(C, D, u) => Carried(A \cup C, B \cup D, u)
  BY DEF Carried

LEMMA CallsStay ==
  \A f, g, u : Beside(f, g, u) => \A path, fns : \A v \in Calls(f, path, fns) : \A x :
    At(x, u) /\ At(x, v) => v = u /\ u \in Calls(g, path, fns)
  BY OnlyOne, SMT DEF Calls

LEMMA PlainStay ==
  \A f, g, u : Beside(f, g, u) => \A fns : \A v \in Plain(f, fns) : \A x :
    At(x, u) /\ At(x, v) => v = u /\ u \in Plain(g, fns)
  BY CallsStay, Zenon DEF Plain

LEMMA NewsStay ==
  \A f, g, u : Beside(f, g, u) => \A classes : \A v \in News(f, classes) : \A x :
    At(x, u) /\ At(x, v) => v = u /\ u \in News(g, classes)
  BY OnlyOne, SMT DEF News

LEMMA SameValues == \A f, g, u : Beside(f, g, u) => LastLiterals(f) = LastLiterals(g)
  BY DEF LastLiterals, LastOfKinds, Beside

LEMMA SameOnVariable ==
  \A f, g, u : Beside(f, g, u) /\ u.to # "" => \A v : v.to = u.to \/ v.on = <<u.to>> => (v \in f.uses <=> v \in g.uses)
  BY DEF Beside, OnVariable

(* An import that bears on the use is in both files.                       *)
LEMMA SameImport ==
  ASSUME NEW l, NEW f, NEW g, NEW u, ImportsOf(l, f, u) = ImportsOf(l, g, u), NEW i, BearsOn(l, i, u)
  PROVE  i \in f.imports <=> i \in g.imports
  <1>1. \A h : i \in ImportsOf(l, h, u) <=> i \in h.imports
    BY DEF ImportsOf
  <1> QED
    BY <1>1

LEMMA Bearing ==
  \A l, i, u, n : (i.path = n \/ i.last = n \/ i.as = n) /\ (n = u.fn \/ u.on = <<n>> \/ n \in Switches[l]) => BearsOn(l, i, u)
  BY DEF BearsOn, NamesOf

-----------------------------------------------------------------------------
(* Java                                                                    *)
LEMMA InstancesStay ==
  ASSUME NEW f, NEW g, NEW u, Beside(f, g, u), NEW t, NEW class, NEW v \in JavaInstances(f, t, class), NEW x, At(x, u), At(x, v)
  PROVE  v = u /\ u \in JavaInstances(g, t, class)
  <1>1. v \in Calls(f, <<class>>, {"getInstance"}) /\ class \in t.classes /\ Resolve(LastLiterals(f), Arg(v, 1)).text # ""
    BY Zenon DEF JavaInstances, JavaConsts
  <1>2. v = u /\ u \in Calls(g, <<class>>, {"getInstance"})
    BY <1>1, CallsStay
  <1> QED
    BY <1>1, <1>2, SameValues DEF JavaInstances, JavaConsts

LEMMA SameNamed == \A f, g, u : Beside(f, g, u) => \A v : Named(f, v) = Named(g, v)
  BY SameValues DEF Named, JavaConsts

LEMMA InnerHashAt == \A f, t, u, hash, x : x \in InnerHash(f, t, u, hash) => At(x, u)
  BY MaybeAt, Zenon DEF InnerHash

LEMMA SameInnerHash ==
  ASSUME NEW f, NEW g, NEW u, Beside(f, g, u), NEW t, NEW v, NEW hash
  PROVE  InnerHash(f, t, v, hash) = InnerHash(g, t, v, hash)
  BY SameNamed DEF InnerHash

LEMMA JavaDigestStays == ASSUME NEW f, NEW g, NEW u, Beside(f, g, u), NEW t PROVE Carried(JavaDigest(f, t), JavaDigest(g, t), u)
  BY InstancesStay, SameNamed, FoundAt, SMT DEF JavaDigest, Carried

LEMMA JavaKeyAgreementStays == ASSUME NEW f, NEW g, NEW u, Beside(f, g, u), NEW t PROVE Carried(JavaKeyAgreement(f, t), JavaKeyAgreement(g, t), u)
  BY InstancesStay, SameNamed, FoundAt, SMT DEF JavaKeyAgreement, Carried

LEMMA JavaSSLContextStays == ASSUME NEW f, NEW g, NEW u, Beside(f, g, u), NEW t PROVE Carried(JavaSSLContext(f, t), JavaSSLContext(g, t), u)
  BY InstancesStay, SameNamed, FoundAt, SMT DEF JavaSSLContext, Carried

LEMMA JavaCipherStays == ASSUME NEW f, NEW g, NEW u, Beside(f, g, u), NEW t PROVE Carried(JavaCipher(f, t), JavaCipher(g, t), u)
  BY InstancesStay, SameNamed, InnerHashAt, SameInnerHash, FoundAt, SMT DEF JavaCipher, Carried

LEMMA JavaSignatureStays == ASSUME NEW f, NEW g, NEW u, Beside(f, g, u), NEW t PROVE Carried(JavaSignature(f, t), JavaSignature(g, t), u)
  BY InstancesStay, SameNamed, InnerHashAt, SameInnerHash, FoundAt, SMT DEF JavaSignature, Carried

LEMMA JavaSecretKeyFactoryStays == ASSUME NEW f, NEW g, NEW u, Beside(f, g, u), NEW t PROVE Carried(JavaSecretKeyFactory(f, t), JavaSecretKeyFactory(g, t), u)
  BY InstancesStay, SameNamed, InnerHashAt, SameInnerHash, FoundAt, SMT DEF JavaSecretKeyFactory, Carried

LEMMA JavaPBEKeySpecStays == ASSUME NEW f, NEW g, NEW u, Beside(f, g, u) PROVE Carried(JavaPBEKeySpec(f), JavaPBEKeySpec(g), u)
  BY NewsStay, SameValues, SureAt, SMT DEF JavaPBEKeySpec, JavaConsts, Carried

LEMMA JavaCurveStays == ASSUME NEW f, NEW g, NEW u, Beside(f, g, u) PROVE Carried(JavaCurve(f), JavaCurve(g), u)
  BY NewsStay, FoundAt, SMT DEF JavaCurve, Carried

LEMMA JavaMacStays == ASSUME NEW f, NEW g, NEW u, Beside(f, g, u), NEW t PROVE Carried(JavaMac(f, t), JavaMac(g, t), u)
  <1> DEFINE hash(text) == IF text \in DOMAIN HmacHash THEN HmacHash[text] ELSE ""
             of(h, v)   == {Found(v, "hmac", 0, "info", Named(h, v).conf, <<"mac", Named(h, v).text>>)} \cup InnerHash(h, t, v, hash(Named(h, v).text))
  <1>1. \A h, v : \A x \in of(h, v) : At(x, v)
    BY InnerHashAt, FoundAt, Zenon
  <1>2. of(f, u) = of(g, u)
    <2>1. Named(f, u) = Named(g, u)
      BY SameNamed
    <2> HIDE DEF hash
    <2>2. \A text : InnerHash(f, t, u, hash(text)) = InnerHash(g, t, u, hash(text))
      BY SameInnerHash
    <2> QED
      BY <2>1, <2>2
  <1>3. \A h, x : x \in JavaMac(h, t) <=> \E v \in JavaInstances(h, t, "Mac") : x \in of(h, v)
    BY Zenon DEF JavaMac
  <1> HIDE DEF of
  <1> QED
    BY <1>1, <1>2, <1>3, InstancesStay, SMT DEF Carried

LEMMA JavaSecretKeySpecStays == ASSUME NEW f, NEW g, NEW u, Beside(f, g, u), NEW t PROVE Carried(JavaSecretKeySpec(f, t), JavaSecretKeySpec(g, t), u)
  <1> DEFINE a(h, v)  == Resolve(JavaConsts(h), Arg(v, 2))
             of(h, v) == Maybe(a(h, v).text # "", Found(v, JavaFamily(t, a(h, v).text), 0, "info", a(h, v).conf, <<"secretkeyspec", a(h, v).text>>))
  <1>1. \A h, v, x : x \in of(h, v) => At(x, v)
    <2>1. \A h, v, x : of(h, v) = Maybe(a(h, v).text # "", Found(v, JavaFamily(t, a(h, v).text), 0, "info", a(h, v).conf, <<"secretkeyspec", a(h, v).text>>))
      OBVIOUS
    <2> HIDE DEF of, a
    <2> QED
      BY <2>1, MaybeAt, Zenon
  <1>2. of(f, u) = of(g, u)
    BY SameValues DEF JavaConsts
  <1>3. \A h, x : x \in JavaSecretKeySpec(h, t) <=> \E v \in News(h, {"SecretKeySpec"}) : x \in of(h, v)
    BY Zenon DEF JavaSecretKeySpec
  <1> HIDE DEF of
  <1> QED
    BY <1>1, <1>2, <1>3, NewsStay, SMT DEF Carried

LEMMA JavaBouncyCastleStays ==
  ASSUME NEW f, NEW g, NEW u, Beside(f, g, u), NEW t
  PROVE  Carried(JavaBouncyCastle(f, t), JavaBouncyCastle(g, t), u)
  <1> DEFINE engine(v)     == Sure(v, t.engines[v.fn], CipherSeverity(t.engines[v.fn], ""), <<"bc-engine", v.fn>>)
             asymmetric(v) == Sure(v, t.asymmetric[v.fn], "medium", <<"bc", v.fn>>)
             mode(v)       == Sure(v, InnerEngine(t, v), CipherSeverity(InnerEngine(t, v), t.modes[v.fn]), <<"bc-mode", t.modes[v.fn]>>)
             digest(v)     == Sure(v, t.digests[v.fn], HashSeverity(t.digests[v.fn]), <<"bc-digest", v.fn>>)
  <1>1. \A v, x : x = engine(v) \/ x = asymmetric(v) \/ x = mode(v) \/ x = digest(v) => At(x, v)
    BY SureAt, Zenon
  <1>2. \A h, x : x \in JavaBouncyCastle(h, t) <=>
          \/ \E v \in News(h, DOMAIN t.engines) : x = engine(v)
          \/ \E v \in News(h, DOMAIN t.asymmetric) : x = asymmetric(v)
          \/ \E v \in News(h, DOMAIN t.modes) : x = mode(v)
          \/ \E v \in News(h, DOMAIN t.digests) : x = digest(v)
    BY Zenon DEF JavaBouncyCastle
  <1> HIDE DEF engine, asymmetric, mode, digest
  <1> QED
    BY <1>1, <1>2, NewsStay, SMT DEF Carried

LEMMA JavaSSLStays == ASSUME NEW f, NEW g, NEW u, Beside(f, g, u) PROVE Carried(JavaSSL(f), JavaSSL(g), u)
  <1> DEFINE versions(v) == {Sure(v, p, VersionSeverity(p), <<v.fn, p>>) : p \in UNION {VersionsIn(text) : text \in TextsOf(v)}}
             suites(v)   == {Found(v, c, 0, CipherSeverity(c, ""), "medium", <<"ciphersuite", c>>) :
                               c \in UNION {SuiteTokens[text] : text \in TextsOf(v) \cap DOMAIN SuiteTokens}}
  <1>1. \A v, x : x \in versions(v) \/ x \in suites(v) => At(x, v)
    BY SureAt, FoundAt, Zenon
  <1>2. \A h, x : x \in JavaSSL(h) <=>
          \/ \E v \in h.uses : v.kind = "call" /\ v.fn \in {"setProtocols", "setEnabledProtocols"} /\ x \in versions(v)
          \/ \E v \in h.uses : v.kind = "call" /\ v.fn = "setEnabledCipherSuites" /\ x \in suites(v)
    <2>1. \A h, x : x \in JavaVersions(h) <=>
            \E v \in h.uses : v.kind = "call" /\ v.fn \in {"setProtocols", "setEnabledProtocols"} /\ x \in versions(v)
      BY Zenon DEF JavaVersions
    <2>2. \A h, x : x \in JavaSuites(h) <=> \E v \in h.uses : v.kind = "call" /\ v.fn = "setEnabledCipherSuites" /\ x \in suites(v)
      BY Zenon DEF JavaSuites
    <2> HIDE DEF versions, suites
    <2> QED
      BY <2>1, <2>2 DEF JavaSSL
  <1> HIDE DEF versions, suites
  <1> QED
    BY <1>1, <1>2, OnlyOne, SMT DEF Carried

LEMMA SameInstances ==
  ASSUME NEW f, NEW g, NEW u, Beside(f, g, u), u.to # "", NEW t, NEW class, NEW v, v.to = u.to
  PROVE  v \in JavaInstances(f, t, class) <=> v \in JavaInstances(g, t, class)
  <1>1. v \in f.uses <=> v \in g.uses
    BY SameOnVariable
  <1>2. v \in Calls(f, <<class>>, {"getInstance"}) <=> v \in Calls(g, <<class>>, {"getInstance"})
    BY <1>1, Zenon DEF Calls
  <1>3. JavaConsts(f) = JavaConsts(g)
    BY SameValues DEF JavaConsts
  <1> QED
    BY <1>2, <1>3, Zenon DEF JavaInstances

(* The size of a key comes from calls on its variable, of which both files *)
(* have the same, and the same generators.                                 *)
LEMMA SameJavaKeySize ==
  ASSUME NEW f, NEW g, NEW u, Beside(f, g, u), NEW t, NEW class
  PROVE  JavaKeySize(f, t, class, u) = JavaKeySize(g, t, class, u)
  <1>1. \A v : JavaInitSize(f, v) = JavaInitSize(g, v)
    BY SameValues DEF JavaInitSize, JavaConsts
  <1> SUFFICES ASSUME u.to # "" PROVE JavaKeySize(f, t, class, u) = JavaKeySize(g, t, class, u)
    BY Zenon DEF JavaKeySize
  <1>2. \A v : v.to = u.to \/ v.on = <<u.to>> => (v \in f.uses <=> v \in g.uses)
    BY SameOnVariable
  <1>3. \A v : v.to = u.to => (v \in JavaInstances(f, t, class) <=> v \in JavaInstances(g, t, class))
    BY SameInstances
  <1>4. ASSUME NEW c, c.on = <<u.to>> PROVE JavaReceiver(f, t, class, c) = JavaReceiver(g, t, class, c)
    <2>1. {v \in JavaInstances(f, t, class) : v.to # "" /\ c.on = <<v.to>>} = {v \in JavaInstances(g, t, class) : v.to # "" /\ c.on = <<v.to>>}
      <3>1. \A v : <<v.to>>[1] = v.to
        OBVIOUS
      <3> QED
        BY <1>3, <1>4, <3>1
    <2> QED
      BY <2>1 DEF JavaReceiver
  <1> DEFINE sized(h, c)  == JavaInitSize(h, c) > 0
             counts(h, c) == JavaReceiver(h, t, class, c) = u
             calls(h)     == {c \in h.uses : /\ c.kind = "call" /\ c.fn = JavaInit(class) /\ u.to # "" /\ c.on = <<u.to>>
                                             /\ sized(h, c) /\ counts(h, c)}
  <1>5. \A h : JavaKeySize(h, t, class, u) = IF calls(h) = {} THEN 0 ELSE JavaInitSize(h, Latest(calls(h)))
    BY DEF JavaKeySize
  <1>6. \A c : (sized(f, c) <=> sized(g, c)) /\ (c.on = <<u.to>> => (counts(f, c) <=> counts(g, c)))
    BY <1>1, <1>4
  <1> HIDE DEF sized, counts
  <1>7. calls(f) = calls(g)
    BY <1>2, <1>6, Zenon
  <1> HIDE DEF calls
  <1> QED
    BY <1>1, <1>5, <1>7

LEMMA JavaKeyGeneratorStays ==
  ASSUME NEW f, NEW g, NEW u, Beside(f, g, u), NEW t, NEW class
  PROVE  Carried(JavaKeyGenerator(f, t, class), JavaKeyGenerator(g, t, class), u)
  BY InstancesStay, SameNamed, SameJavaKeySize, FoundAt, SMT DEF JavaKeyGenerator, Carried

LEMMA JavaStays == ASSUME NEW f, NEW g, NEW u, Beside(f, g, u), NEW t PROVE Carried(JavaScan(f, t), JavaScan(g, t), u)
  <1>1. Carried(JavaJCA(f, t), JavaJCA(g, t), u)
    <2>1. \A h, x : x \in JavaJCA(h, t) <=>
            \/ x \in JavaCipher(h, t) \/ x \in JavaDigest(h, t) \/ x \in JavaMac(h, t) \/ x \in JavaSignature(h, t)
            \/ x \in JavaKeyAgreement(h, t) \/ x \in JavaSSLContext(h, t) \/ x \in JavaSecretKeyFactory(h, t)
            \/ x \in JavaKeyGenerator(h, t, "KeyPairGenerator") \/ x \in JavaKeyGenerator(h, t, "KeyGenerator") \/ x \in JavaSecretKeySpec(h, t)
      BY Zenon DEF JavaJCA
    <2> QED
      BY <2>1, JavaCipherStays, JavaDigestStays, JavaMacStays, JavaSignatureStays, JavaKeyAgreementStays, JavaSSLContextStays,
         JavaSecretKeyFactoryStays, JavaSecretKeySpecStays, JavaKeyGeneratorStays DEF Carried
  <1> QED
    BY <1>1, JavaBouncyCastleStays, JavaSSLStays, JavaPBEKeySpecStays, JavaCurveStays, Zenon DEF JavaScan, Carried

-----------------------------------------------------------------------------
(* Kotlin                                                                  *)
LEMMA KotlinMadeAt == \A f, t, class, u, size, x : x = KotlinMade(f, t, class, u, size) => At(x, u)
  BY FoundAt, Zenon DEF KotlinMade

LEMMA SameKotlinMade ==
  ASSUME NEW f, NEW g, NEW u, Beside(f, g, u), NEW t, NEW class, NEW v, NEW size
  PROVE  KotlinMade(f, t, class, v, size) = KotlinMade(g, t, class, v, size)
  BY SameNamed DEF KotlinMade

LEMMA KotlinOneStays ==
  ASSUME NEW f, NEW g, NEW u, Beside(f, g, u), NEW t, NEW class
  PROVE  Carried(KotlinOne(f, t, class), KotlinOne(g, t, class), u)
  BY InstancesStay, SameKotlinMade, KotlinMadeAt, SMT DEF KotlinOne, Carried

LEMMA KotlinCipherStays == ASSUME NEW f, NEW g, NEW u, Beside(f, g, u), NEW t PROVE Carried(KotlinCipher(f, t), KotlinCipher(g, t), u)
  BY InstancesStay, SameNamed, FoundAt, SMT DEF KotlinCipher, Carried

LEMMA KotlinMacStays == ASSUME NEW f, NEW g, NEW u, Beside(f, g, u), NEW t PROVE Carried(KotlinMac(f, t), KotlinMac(g, t), u)
  BY InstancesStay, SameNamed, FoundAt, SMT DEF KotlinMac, Carried

LEMMA KotlinSignatureStays == ASSUME NEW f, NEW g, NEW u, Beside(f, g, u), NEW t PROVE Carried(KotlinSignature(f, t), KotlinSignature(g, t), u)
  BY InstancesStay, SameNamed, FoundAt, SMT DEF KotlinSignature, Carried

LEMMA SameKotlinKeySize ==
  ASSUME NEW f, NEW g, NEW u, Beside(f, g, u), NEW t, NEW class
  PROVE  KotlinKeySize(f, t, class, u) = KotlinKeySize(g, t, class, u)
  <1> DEFINE sized(h, c) == KotlinInitSize(h, c) > 0
             decls(h, c) == {v \in JavaInstances(h, t, class) : v.to # "" /\ c.on = <<v.to>> /\ v.at <= c.at}
             last(D)     == u \in D /\ \A v \in D : v.at <= u.at
             calls(h)    == {c \in h.uses : c.kind = "call" /\ c.fn = JavaInit(class) /\ sized(h, c) /\ last(decls(h, c))}
  <1>1. \A v : KotlinInitSize(f, v) = KotlinInitSize(g, v)
    <2>1. \A v, i : KotlinSizeOf(f, v, i) = KotlinSizeOf(g, v, i)
      BY SameValues DEF KotlinSizeOf, KotlinConsts
    <2> QED
      BY <2>1 DEF KotlinInitSize
  <1>2. \A h : KotlinKeySize(h, t, class, u) = IF calls(h) = {} THEN 0 ELSE KotlinInitSize(h, Latest(calls(h)))
    BY Zenon DEF KotlinKeySize
  <1>3. \A c : sized(f, c) <=> sized(g, c)
    BY <1>1
  <1>4. \A h, c : last(decls(h, c)) => u.to # "" /\ c.on = <<u.to>>
    OBVIOUS
  <1>5. ASSUME u.to # "", NEW c, c.on = <<u.to>> PROVE decls(f, c) = decls(g, c)
    <2>1. \A v : <<v.to>>[1] = v.to
      OBVIOUS
    <2> QED
      BY <1>5, <2>1, SameInstances
  <1>6. u.to # "" => \A c : c.on = <<u.to>> => (c \in f.uses <=> c \in g.uses)
    BY SameOnVariable
  <1> HIDE DEF sized, decls
  <1>7. calls(f) = calls(g)
    <2>1. \A c : last(decls(f, c)) <=> last(decls(g, c))
      BY <1>4, <1>5
    <2> HIDE DEF last
    <2> QED
      BY <1>3, <1>4, <1>6, <2>1, Zenon
  <1> HIDE DEF calls
  <1> QED
    BY <1>1, <1>2, <1>7

LEMMA KotlinSizedStays ==
  ASSUME NEW f, NEW g, NEW u, Beside(f, g, u), NEW t, NEW class
  PROVE  Carried(KotlinSized(f, t, class), KotlinSized(g, t, class), u)
  BY InstancesStay, SameKotlinMade, SameKotlinKeySize, KotlinMadeAt, SMT DEF KotlinSized, Carried

LEMMA KotlinStays == ASSUME NEW f, NEW g, NEW u, Beside(f, g, u), NEW t PROVE Carried(KotlinScan(f, t), KotlinScan(g, t), u)
  <1>1. Carried(KotlinJCA(f, t), KotlinJCA(g, t), u)
    <2>1. \A h, x : x \in KotlinJCA(h, t) <=>
            \/ x \in KotlinCipher(h, t) \/ x \in KotlinOne(h, t, "MessageDigest") \/ x \in KotlinMac(h, t) \/ x \in KotlinSignature(h, t)
            \/ x \in KotlinOne(h, t, "KeyAgreement") \/ x \in JavaSSLContext(h, t)
            \/ x \in KotlinSized(h, t, "KeyPairGenerator") \/ x \in KotlinSized(h, t, "KeyGenerator")
      BY Zenon DEF KotlinJCA, KotlinDigest, KotlinKeyAgreement, KotlinSSLContext, KotlinKeyPairGenerator, KotlinKeyGenerator
    <2> QED
      BY <2>1, KotlinCipherStays, KotlinOneStays, KotlinMacStays, KotlinSignatureStays, JavaSSLContextStays, KotlinSizedStays DEF Carried
  <1>2. Carried(KotlinBouncyCastleAsymmetric(f, t), KotlinBouncyCastleAsymmetric(g, t), u)
    BY OnlyOne, SureAt, SMT DEF KotlinBouncyCastleAsymmetric, Carried
  <1>3. \A h, x : x \in KotlinScan(h, t) <=>
          \/ x \in KotlinJCA(h, t) \/ x \in JavaSecretKeySpec(h, t) \/ x \in JavaPBEKeySpec(h)
          \/ x \in JavaBouncyCastle(h, [t EXCEPT !.asymmetric = <<>>]) \/ x \in KotlinBouncyCastleAsymmetric(h, t)
    BY Zenon DEF KotlinScan, KotlinSecretKeySpec, KotlinPBEKeySpec, KotlinBouncyCastle
  <1> QED
    BY <1>1, <1>2, <1>3, JavaSecretKeySpecStays, JavaPBEKeySpecStays, JavaBouncyCastleStays DEF Carried

-----------------------------------------------------------------------------
(* C#                                                                      *)
LEMMA FactoriesStay ==
  ASSUME NEW f, NEW g, NEW u, Beside(f, g, u), NEW t, NEW v \in CSharpFactories(f, t), NEW x, At(x, u), At(x, v)
  PROVE  v = u /\ u \in CSharpFactories(g, t)
  <1>1. PICK class \in DOMAIN t.factories : v \in Calls(f, <<class>>, {"Create"})
    BY Zenon DEF CSharpFactories
  <1>2. v = u /\ u \in Calls(g, <<class>>, {"Create"})
    BY <1>1, CallsStay
  <1> QED
    BY <1>2, Zenon DEF CSharpFactories

LEMMA SameCreateSize == ASSUME NEW f, NEW g, NEW u, Beside(f, g, u), NEW v PROVE CSharpCreateSize(f, v) = CSharpCreateSize(g, v)
  BY SameValues DEF CSharpCreateSize, CSharpConsts

LEMMA SameCSharpKeySize ==
  ASSUME NEW f, NEW g, NEW u, Beside(f, g, u), NEW t
  PROVE  CSharpKeySize(f, t, u) = CSharpKeySize(g, t, u)
  <1> DEFINE sized(h, s) == CSharpAssigned(h, s) > 0
             decls(h, s) == {v \in CSharpReceivers(h, t) : s.on = <<v.to>> /\ v.at <= s.at}
             last(D)     == u \in D /\ \A v \in D : v.at <= u.at
             sets(h)     == {s \in h.uses : s.kind = "set" /\ s.fn = "KeySize" /\ sized(h, s) /\ last(decls(h, s))}
  <1>1. \A v : CSharpAssigned(f, v) = CSharpAssigned(g, v)
    BY SameValues DEF CSharpAssigned, CSharpConsts
  <1>2. \A h : CSharpKeySize(h, t, u) = IF sets(h) = {} THEN CSharpCreateSize(h, u) ELSE CSharpAssigned(h, Latest(sets(h)))
    BY Zenon DEF CSharpKeySize
  <1>3. \A s : sized(f, s) <=> sized(g, s)
    BY <1>1
  <1>4. \A h, s : last(decls(h, s)) => u.to # "" /\ s.on = <<u.to>>
    BY DEF CSharpReceivers
  <1>5. ASSUME u.to # "", NEW s, s.on = <<u.to>> PROVE decls(f, s) = decls(g, s)
    <2>1. \A v : <<v.to>>[1] = v.to
      OBVIOUS
    <2>2. \A v : v.to = u.to => (v \in CSharpFactories(f, t) <=> v \in CSharpFactories(g, t))
      <3>1. \A h, v : v \in CSharpFactories(h, t) <=> \E class \in DOMAIN t.factories : v \in Calls(h, <<class>>, {"Create"})
        BY Zenon DEF CSharpFactories
      <3>2. \A v : v.to = u.to => \A path, fns : v \in Calls(f, path, fns) <=> v \in Calls(g, path, fns)
        BY <1>5, SameOnVariable, Zenon DEF Calls
      <3> QED
        BY <3>1, <3>2, Zenon
    <2>3. \A v : CSharpCreateSize(f, v) = CSharpCreateSize(g, v)
      BY SameCreateSize
    <2>4. \A v : v.to = u.to => (v \in CSharpReceivers(f, t) <=> v \in CSharpReceivers(g, t))
      BY <2>2, <2>3 DEF CSharpReceivers
    <2> QED
      BY <1>5, <2>1, <2>4
  <1>6. u.to # "" => \A s : s.on = <<u.to>> => (s \in f.uses <=> s \in g.uses)
    BY SameOnVariable
  <1> HIDE DEF sized, decls
  <1>7. sets(f) = sets(g)
    <2>1. \A s : last(decls(f, s)) <=> last(decls(g, s))
      BY <1>4, <1>5
    <2> HIDE DEF last
    <2> QED
      BY <1>3, <1>4, <1>6, <2>1, Zenon
  <1> HIDE DEF sets
  <1> QED
    BY <1>1, <1>2, <1>7, SameCreateSize

LEMMA CSharpDotNetStays == ASSUME NEW f, NEW g, NEW u, Beside(f, g, u), NEW t PROVE Carried(CSharpDotNet(f, t), CSharpDotNet(g, t), u)
  <1> DEFINE of(h, v) == Found(v, t.factories[v.on[1]].name, CSharpKeySize(h, t, v), t.factories[v.on[1]].sev, "high", <<"dotnet", v.on[1]>>)
  <1>1. \A h, v : At(of(h, v), v)
    BY FoundAt, Zenon
  <1>2. of(f, u) = of(g, u)
    BY SameCSharpKeySize
  <1>3. \A h, x : x \in CSharpDotNet(h, t) <=> \E v \in CSharpFactories(h, t) : x = of(h, v)
    BY Zenon DEF CSharpDotNet
  <1> HIDE DEF of
  <1> QED
    BY <1>1, <1>2, <1>3, FactoriesStay, SMT DEF Carried

LEMMA CSharpBouncyCastleStays == ASSUME NEW f, NEW g, NEW u, Beside(f, g, u), NEW t PROVE Carried(CSharpBouncyCastle(f, t), CSharpBouncyCastle(g, t), u)
  <1> DEFINE engine(v) == Sure(v, t.engines[v.fn], CSharpCipherSeverity(t.engines[v.fn]), <<"bc-engine", v.fn>>)
             digest(v) == Sure(v, t.digests[v.fn], HashSeverity(t.digests[v.fn]), <<"bc-digest", v.fn>>)
  <1>1. \A v, x : x = engine(v) \/ x = digest(v) => At(x, v)
    BY SureAt, Zenon
  <1>2. \A h, x : x \in CSharpBouncyCastle(h, t) <=>
          \/ \E v \in News(h, DOMAIN t.engines) : x = engine(v)
          \/ \E v \in News(h, DOMAIN t.digests) : x = digest(v)
    BY Zenon DEF CSharpBouncyCastle
  <1> HIDE DEF engine, digest
  <1> QED
    BY <1>1, <1>2, NewsStay, SMT DEF Carried

LEMMA RefsStay ==
  \A f, g, u : Beside(f, g, u) => \A class, names : \A v \in CSharpRefs(f, class, names) : \A x :
    At(x, u) /\ At(x, v) => v = u /\ u \in CSharpRefs(g, class, names)
  BY OnlyOne, SMT DEF CSharpRefs

LEMMA CSharpHMACStays == ASSUME NEW f, NEW g, NEW u, Beside(f, g, u) PROVE Carried(CSharpHMAC(f), CSharpHMAC(g), u)
  BY NewsStay, SureAt, SMT DEF CSharpHMAC, Carried

LEMMA CSharpSslStays == ASSUME NEW f, NEW g, NEW u, Beside(f, g, u), NEW t PROVE Carried(CSharpSsl(f, t), CSharpSsl(g, t), u)
  <1> DEFINE of(v) == Sure(v, t.protocols[v.fn].name, t.protocols[v.fn].sev, <<"ssl", v.fn>>)
  <1>1. \A v : At(of(v), v)
    BY SureAt, Zenon
  <1>2. \A h, x : x \in CSharpSsl(h, t) <=>
          \E v \in CSharpRefs(h, "SslProtocols", {"Tls", "Tls11", "Tls12", "Tls13"} \cap DOMAIN t.protocols) : x = of(v)
    BY Zenon DEF CSharpSsl
  <1> HIDE DEF of
  <1> QED
    BY <1>1, <1>2, RefsStay, SMT DEF Carried

LEMMA CSharpRegexStays == ASSUME NEW f, NEW g, NEW u, Beside(f, g, u), NEW t PROVE Carried(CSharpRegex(f, t), CSharpRegex(g, t), u)
  <1> DEFINE pbkdf2(v) == Sure(v, "PBKDF2", "info", <<"rfc2898">>)
             ecb(v)    == Sure(v, "ECB Mode", "high", <<"ecb">>)
             pkcs1(v)  == Sure(v, "RSA-PKCS1v15", "medium", <<"pkcs1v15">>)
  <1>1. \A v, x : x = pbkdf2(v) \/ x = ecb(v) \/ x = pkcs1(v) => At(x, v)
    BY SureAt, Zenon
  <1>2. \A h, x : x \in CSharpRegex(h, t) <=>
          \/ x \in CSharpHMAC(h) \/ x \in CSharpSsl(h, t)
          \/ \E v \in News(h, {"Rfc2898DeriveBytes"}) : x = pbkdf2(v)
          \/ \E v \in CSharpRefs(h, "CipherMode", {"ECB"}) : x = ecb(v)
          \/ \E v \in CSharpRefs(h, "RSAEncryptionPadding", {"Pkcs1"}) : x = pkcs1(v)
    BY Zenon DEF CSharpRegex
  <1> HIDE DEF pbkdf2, ecb, pkcs1
  <1> QED
    BY <1>1, <1>2, CSharpHMACStays, CSharpSslStays, NewsStay, RefsStay, SMT DEF Carried

LEMMA CSharpStays == ASSUME NEW f, NEW g, NEW u, Beside(f, g, u), NEW t PROVE Carried(CSharpScan(f, t), CSharpScan(g, t), u)
  BY CSharpDotNetStays, CSharpBouncyCastleStays, CSharpRegexStays, Zenon DEF CSharpScan, Carried

-----------------------------------------------------------------------------
(* JavaScript and TypeScript                                               *)
LEMMA JsHashStays == ASSUME NEW f, NEW g, NEW u, Beside(f, g, u), NEW t PROVE Carried(JsHash(f, t), JsHash(g, t), u)
  <1> DEFINE a(h, v) == Resolve(JsConsts(h), Arg(v, 1))
             tok(h, v) == Look(t.hash, Lower(a(h, v).text))
             of(h, v) == Maybe(a(h, v).text # "", Found(v, tok(h, v).family, 0, JsHashSeverity(tok(h, v).family), a(h, v).conf, <<v.fn, Lower(a(h, v).text)>>))
  <1>1. \A h, x : x \in JsHash(h, t) <=> \E v \in Calls(h, <<"crypto">>, {"createHash"}) : x \in of(h, v)
    BY Zenon DEF JsHash
  <1>2. a(f, u) = a(g, u)
    BY SameValues DEF JsConsts
  <1> HIDE DEF a
  <1>3. of(f, u) = of(g, u)
    BY <1>2
  <1>4. \A h, v, x : x \in of(h, v) => At(x, v)
    <2>1. \A h, v : of(h, v) = Maybe(a(h, v).text # "", Found(v, tok(h, v).family, 0, JsHashSeverity(tok(h, v).family), a(h, v).conf, <<v.fn, Lower(a(h, v).text)>>))
      OBVIOUS
    <2> HIDE DEF of, tok
    <2> QED
      BY <2>1, MaybeAt, Zenon
  <1> HIDE DEF of
  <1> QED
    BY <1>1, <1>3, <1>4, CallsStay, SMT DEF Carried

LEMMA JsHmacStays == ASSUME NEW f, NEW g, NEW u, Beside(f, g, u), NEW t PROVE Carried(JsHmac(f, t), JsHmac(g, t), u)
  <1> DEFINE a(h, v) == Resolve(JsConsts(h), Arg(v, 1))
             of(h, v) == Found(v, "HMAC", 0, "info", a(h, v).conf, <<v.fn, Lower(a(h, v).text)>>)
  <1>1. \A h, x : x \in JsHmac(h, t) <=> \E v \in Calls(h, <<"crypto">>, {"createHmac"}) : x = of(h, v)
    BY Zenon DEF JsHmac
  <1>2. a(f, u) = a(g, u)
    BY SameValues DEF JsConsts
  <1> HIDE DEF a
  <1>3. of(f, u) = of(g, u)
    BY <1>2
  <1>4. \A h, v, x : x = of(h, v) => At(x, v)
    BY FoundAt, Zenon
  <1> HIDE DEF of
  <1> QED
    BY <1>1, <1>3, <1>4, CallsStay, SMT DEF Carried

LEMMA JsCipherStays == ASSUME NEW f, NEW g, NEW u, Beside(f, g, u), NEW t PROVE Carried(JsCipher(f, t), JsCipher(g, t), u)
  <1> DEFINE a(h, v) == Resolve(JsConsts(h), Arg(v, 1))
             tok(h, v) == Look(t.cipher, Lower(a(h, v).text))
             of(h, v) == Maybe(a(h, v).text # "", Found(v, tok(h, v).family, tok(h, v).size, JsCipherSeverity(tok(h, v).family, tok(h, v).mode), a(h, v).conf, <<v.fn, Lower(a(h, v).text)>>))
  <1>1. \A h, x : x \in JsCipher(h, t) <=> \E v \in Calls(h, <<"crypto">>, {"createCipher", "createCipheriv", "createDecipher", "createDecipheriv"}) : x \in of(h, v)
    BY Zenon DEF JsCipher
  <1>2. a(f, u) = a(g, u)
    BY SameValues DEF JsConsts
  <1> HIDE DEF a
  <1>3. of(f, u) = of(g, u)
    BY <1>2
  <1>4. \A h, v, x : x \in of(h, v) => At(x, v)
    <2>1. \A h, v : of(h, v) = Maybe(a(h, v).text # "", Found(v, tok(h, v).family, tok(h, v).size, JsCipherSeverity(tok(h, v).family, tok(h, v).mode), a(h, v).conf, <<v.fn, Lower(a(h, v).text)>>))
      OBVIOUS
    <2> HIDE DEF of, tok
    <2> QED
      BY <2>1, MaybeAt, Zenon
  <1> HIDE DEF of
  <1> QED
    BY <1>1, <1>3, <1>4, CallsStay, SMT DEF Carried

LEMMA JsKeyPairStays == ASSUME NEW f, NEW g, NEW u, Beside(f, g, u) PROVE Carried(JsKeyPair(f), JsKeyPair(g), u)
  <1> DEFINE c(h, v) == JsConsts(h)
             a(h, v) == Resolve(c(h, v), Arg(v, 1))
             size(h, v) == JsIntProp(c(h, v), Arg(v, 2), "modulusLength")
             of(h, v) == Maybe(a(h, v).text # "", Found(v, Lower(a(h, v).text), size(h, v), RSASeverity(Lower(a(h, v).text), size(h, v)), a(h, v).conf, <<v.fn, Lower(a(h, v).text)>>))
  <1>1. \A h, x : x \in JsKeyPair(h) <=> \E v \in Calls(h, <<"crypto">>, {"generateKeyPair", "generateKeyPairSync"}) : x \in of(h, v)
    BY Zenon DEF JsKeyPair
  <1>2. c(f, u) = c(g, u)
    BY SameValues DEF JsConsts
  <1> HIDE DEF c
  <1>3. of(f, u) = of(g, u)
    BY <1>2
  <1>4. \A h, v, x : x \in of(h, v) => At(x, v)
    <2>1. \A h, v : of(h, v) = Maybe(a(h, v).text # "", Found(v, Lower(a(h, v).text), size(h, v), RSASeverity(Lower(a(h, v).text), size(h, v)), a(h, v).conf, <<v.fn, Lower(a(h, v).text)>>))
      OBVIOUS
    <2> HIDE DEF of, a, size
    <2> QED
      BY <2>1, MaybeAt, Zenon
  <1> HIDE DEF of
  <1> QED
    BY <1>1, <1>3, <1>4, CallsStay, SMT DEF Carried

LEMMA JsDiffieHellmanStays == ASSUME NEW f, NEW g, NEW u, Beside(f, g, u) PROVE Carried(JsDiffieHellman(f), JsDiffieHellman(g), u)
  <1> DEFINE of(v) == Sure(v, "DH", "info", <<v.fn>>)
  <1>1. \A v : At(of(v), v)
    BY SureAt, Zenon
  <1>2. \A h, x : x \in JsDiffieHellman(h) <=> \E v \in Calls(h, <<"crypto">>, {"createDiffieHellman"}) : x = of(v)
    BY Zenon DEF JsDiffieHellman
  <1> HIDE DEF of
  <1> QED
    BY <1>1, <1>2, CallsStay, SMT DEF Carried

LEMMA JsECDHStays == ASSUME NEW f, NEW g, NEW u, Beside(f, g, u) PROVE Carried(JsECDH(f), JsECDH(g), u)
  <1> DEFINE a(h, v) == Resolve(JsConsts(h), Arg(v, 1))
             of(h, v) == Found(v, "ECDH", 0, "info", a(h, v).conf, <<v.fn>>)
  <1>1. \A h, x : x \in JsECDH(h) <=> \E v \in Calls(h, <<"crypto">>, {"createECDH"}) : x = of(h, v)
    BY Zenon DEF JsECDH
  <1>2. a(f, u) = a(g, u)
    BY SameValues DEF JsConsts
  <1> HIDE DEF a
  <1>3. of(f, u) = of(g, u)
    BY <1>2
  <1>4. \A h, v, x : x = of(h, v) => At(x, v)
    BY FoundAt, Zenon
  <1> HIDE DEF of
  <1> QED
    BY <1>1, <1>3, <1>4, CallsStay, SMT DEF Carried

LEMMA JsPBKDF2Stays == ASSUME NEW f, NEW g, NEW u, Beside(f, g, u) PROVE Carried(JsPBKDF2(f), JsPBKDF2(g), u)
  <1> DEFINE c(h, v) == JsConsts(h)
             of(h, v) == Found(v, "PBKDF2", 0, CheckKDFIterations("pbkdf2", Atoi(Resolve(c(h, v), Arg(v, 3)).text)), Resolve(c(h, v), Arg(v, 5)).conf, <<v.fn>>)
  <1>1. \A h, x : x \in JsPBKDF2(h) <=> \E v \in Calls(h, <<"crypto">>, {"pbkdf2", "pbkdf2Sync"}) : x = of(h, v)
    BY Zenon DEF JsPBKDF2
  <1>2. c(f, u) = c(g, u)
    BY SameValues DEF JsConsts
  <1> HIDE DEF c
  <1>3. of(f, u) = of(g, u)
    BY <1>2
  <1>4. \A h, v, x : x = of(h, v) => At(x, v)
    BY FoundAt, Zenon
  <1> HIDE DEF of
  <1> QED
    BY <1>1, <1>3, <1>4, CallsStay, SMT DEF Carried

LEMMA JsScryptStays == ASSUME NEW f, NEW g, NEW u, Beside(f, g, u) PROVE Carried(JsScrypt(f), JsScrypt(g), u)
  <1> DEFINE of(v) == Sure(v, "Scrypt", "info", <<v.fn>>)
  <1>1. \A v : At(of(v), v)
    BY SureAt, Zenon
  <1>2. \A h, x : x \in JsScrypt(h) <=> \E v \in Calls(h, <<"crypto">>, {"scrypt", "scryptSync"}) : x = of(v)
    BY Zenon DEF JsScrypt
  <1> HIDE DEF of
  <1> QED
    BY <1>1, <1>2, CallsStay, SMT DEF Carried

LEMMA JsNodeCryptoStays == ASSUME NEW f, NEW g, NEW u, Beside(f, g, u), NEW t PROVE Carried(JsNodeCrypto(f, t), JsNodeCrypto(g, t), u)
  <1>1. \A h, x : x \in JsNodeCrypto(h, t) <=>
          \/ x \in JsHash(h, t) \/ x \in JsHmac(h, t) \/ x \in JsCipher(h, t) \/ x \in JsKeyPair(h)
          \/ x \in JsDiffieHellman(h) \/ x \in JsECDH(h) \/ x \in JsPBKDF2(h) \/ x \in JsScrypt(h)
    BY Zenon DEF JsNodeCrypto
  <1> QED
    BY <1>1, JsHashStays, JsHmacStays, JsCipherStays, JsKeyPairStays, JsDiffieHellmanStays, JsECDHStays, JsPBKDF2Stays,
       JsScryptStays DEF Carried

LEMMA JsJWTStays == ASSUME NEW f, NEW g, NEW u, Beside(f, g, u) PROVE Carried(JsJWT(f), JsJWT(g), u)
  <1> DEFINE of(h, v) == {Sure(v, alg, IF alg = "none" THEN "critical" ELSE "info", <<v.fn, alg>>) : alg \in JsTokens(h, v)}
  <1>1. \A h, v, x : x \in of(h, v) => At(x, v)
    BY SureAt
  <1>2. of(f, u) = of(g, u)
    <2>1. JsTokens(f, u) = JsTokens(g, u)
      BY SameValues DEF JsTokens, JsConsts
    <2> QED
      BY <2>1
  <1>3. \A h : JsJWT(h) = UNION {of(h, v) : v \in Calls(h, <<"jwt">>, {"sign", "verify"})}
    BY DEF JsJWT
  <1> HIDE DEF of
  <1>4. \A h, x : x \in JsJWT(h) <=> \E v \in Calls(h, <<"jwt">>, {"sign", "verify"}) : x \in of(h, v)
    BY <1>3, Zenon
  <1> QED
    BY <1>1, <1>2, <1>4, CallsStay, SMT DEF Carried

LEMMA JsForgeMdStays == ASSUME NEW f, NEW g, NEW u, Beside(f, g, u), NEW t PROVE Carried(JsForgeMd(f, t), JsForgeMd(g, t), u)
  <1> DEFINE of(v) == Sure(v, t.forgeHash[v.on[3]].family, JsHashSeverity(t.forgeHash[v.on[3]].family), <<"md", v.on[3]>>)
             sel(h) == UNION {Calls(h, <<"forge", "md", algo>>, {"create"}) : algo \in DOMAIN t.forgeHash}
  <1>1. \A v : At(of(v), v)
    BY SureAt, Zenon
  <1>2. \A h, x : x \in JsForgeMd(h, t) <=> \E v \in sel(h) : x = of(v)
    BY Zenon DEF JsForgeMd
  <1>3. \A h, v : v \in sel(h) <=> \E algo \in DOMAIN t.forgeHash : v \in Calls(h, <<"forge", "md", algo>>, {"create"})
    BY Zenon
  <1> HIDE DEF of, sel
  <1>4. ASSUME NEW v \in sel(f), NEW x, At(x, u), At(x, v) PROVE v = u /\ u \in sel(g)
    <2>1. PICK algo \in DOMAIN t.forgeHash : v \in Calls(f, <<"forge", "md", algo>>, {"create"})
      BY <1>3, <1>4, Zenon
    <2> QED
      BY <1>3, <1>4, <2>1, CallsStay
  <1> QED
    BY <1>1, <1>2, <1>4, SMT DEF Carried

LEMMA JsForgeCipherStays == ASSUME NEW f, NEW g, NEW u, Beside(f, g, u), NEW t PROVE Carried(JsForgeCipher(f, t), JsForgeCipher(g, t), u)
  <1> DEFINE a(h, v) == Resolve(JsConsts(h), Arg(v, 1))
             tok(h, v) == Look(t.forgeCipher, Lower(a(h, v).text))
             of(h, v) == Maybe(a(h, v).text # "", Found(v, tok(h, v).family, 0, JsCipherSeverity(tok(h, v).family, tok(h, v).mode), a(h, v).conf, <<v.fn, Lower(a(h, v).text)>>))
  <1>1. \A h, x : x \in JsForgeCipher(h, t) <=> \E v \in Calls(h, <<"forge", "cipher">>, {"createCipher"}) : x \in of(h, v)
    BY Zenon DEF JsForgeCipher
  <1>2. a(f, u) = a(g, u)
    BY SameValues DEF JsConsts
  <1> HIDE DEF a
  <1>3. of(f, u) = of(g, u)
    BY <1>2
  <1>4. \A h, v, x : x \in of(h, v) => At(x, v)
    <2>1. \A h, v : of(h, v) = Maybe(a(h, v).text # "", Found(v, tok(h, v).family, 0, JsCipherSeverity(tok(h, v).family, tok(h, v).mode), a(h, v).conf, <<v.fn, Lower(a(h, v).text)>>))
      OBVIOUS
    <2> HIDE DEF of, tok
    <2> QED
      BY <2>1, MaybeAt, Zenon
  <1> HIDE DEF of
  <1> QED
    BY <1>1, <1>3, <1>4, CallsStay, SMT DEF Carried

LEMMA JsForgeRSAStays == ASSUME NEW f, NEW g, NEW u, Beside(f, g, u) PROVE Carried(JsForgeRSA(f), JsForgeRSA(g), u)
  <1> DEFINE size(h, v) == JsIntProp(JsConsts(h), Arg(v, 1), "bits")
             of(h, v) == Found(v, "RSA", size(h, v), RSASeverity("rsa", size(h, v)), "high", <<"forge", v.fn>>)
  <1>1. \A h, x : x \in JsForgeRSA(h) <=> \E v \in Calls(h, <<"forge", "pki", "rsa">>, {"generateKeyPair"}) : x = of(h, v)
    BY Zenon DEF JsForgeRSA
  <1>2. size(f, u) = size(g, u)
    BY SameValues DEF JsConsts, JsIntProp
  <1> HIDE DEF size
  <1>3. of(f, u) = of(g, u)
    BY <1>2
  <1>4. \A h, v, x : x = of(h, v) => At(x, v)
    BY FoundAt, Zenon
  <1> HIDE DEF of
  <1> QED
    BY <1>1, <1>3, <1>4, CallsStay, SMT DEF Carried

LEMMA JsForgeHMACStays == ASSUME NEW f, NEW g, NEW u, Beside(f, g, u) PROVE Carried(JsForgeHMAC(f), JsForgeHMAC(g), u)
  <1> DEFINE of(v) == Sure(v, "HMAC", "info", <<"forge", "hmac">>)
  <1>1. \A v : At(of(v), v)
    BY SureAt, Zenon
  <1>2. \A h, x : x \in JsForgeHMAC(h) <=> \E v \in Calls(h, <<"forge", "hmac">>, {"create"}) : x = of(v)
    BY Zenon DEF JsForgeHMAC
  <1> HIDE DEF of
  <1> QED
    BY <1>1, <1>2, CallsStay, SMT DEF Carried

LEMMA JsWebEncryptStays == ASSUME NEW f, NEW g, NEW u, Beside(f, g, u), NEW t PROVE Carried(JsWebEncrypt(f, t), JsWebEncrypt(g, t), u)
  <1> DEFINE a(h, v) == JsName(h, v)
             c(h, v) == Look(t.web, Lower(a(h, v)))
             of(h, v) == Maybe(a(h, v) # "", Sure(v, c(h, v).family, JsCipherSeverity(c(h, v).family, c(h, v).mode), <<v.fn, Lower(a(h, v))>>))
  <1>1. \A h, x : x \in JsWebEncrypt(h, t) <=> \E v \in Calls(h, <<"crypto", "subtle">>, {"encrypt", "decrypt"}) : x \in of(h, v)
    BY Zenon DEF JsWebEncrypt
  <1>2. a(f, u) = a(g, u)
    BY SameValues DEF JsName, JsConsts
  <1> HIDE DEF a
  <1>3. of(f, u) = of(g, u)
    BY <1>2
  <1>4. \A h, v, x : x \in of(h, v) => At(x, v)
    <2>1. \A h, v : of(h, v) = Maybe(a(h, v) # "", Sure(v, c(h, v).family, JsCipherSeverity(c(h, v).family, c(h, v).mode), <<v.fn, Lower(a(h, v))>>))
      OBVIOUS
    <2> HIDE DEF of, c
    <2> QED
      BY <2>1, MaybeSureAt, Zenon
  <1> HIDE DEF of
  <1> QED
    BY <1>1, <1>3, <1>4, CallsStay, SMT DEF Carried

LEMMA JsWebDigestStays == ASSUME NEW f, NEW g, NEW u, Beside(f, g, u), NEW t PROVE Carried(JsWebDigest(f, t), JsWebDigest(g, t), u)
  <1> DEFINE a(h, v) == JsDigestName(h, v)
             tok(h, v) == Look(t.webHash, Lower(a(h, v).text))
             of(h, v) == Maybe(a(h, v).text # "", Found(v, tok(h, v).family, 0, JsHashSeverity(tok(h, v).family), a(h, v).conf, <<v.fn, Lower(a(h, v).text)>>))
  <1>1. \A h, x : x \in JsWebDigest(h, t) <=> \E v \in Calls(h, <<"crypto", "subtle">>, {"digest"}) : x \in of(h, v)
    BY Zenon DEF JsWebDigest
  <1>2. a(f, u) = a(g, u)
    <2>1. JsConsts(f) = JsConsts(g)
      BY SameValues DEF JsConsts
    <2>2. JsName(f, u) = JsName(g, u)
      BY <2>1 DEF JsName
    <2> QED
      BY <2>1, <2>2, Zenon DEF JsDigestName
  <1> HIDE DEF a
  <1>3. of(f, u) = of(g, u)
    BY <1>2
  <1>4. \A h, v, x : x \in of(h, v) => At(x, v)
    <2>1. \A h, v : of(h, v) = Maybe(a(h, v).text # "", Found(v, tok(h, v).family, 0, JsHashSeverity(tok(h, v).family), a(h, v).conf, <<v.fn, Lower(a(h, v).text)>>))
      OBVIOUS
    <2> HIDE DEF of, tok
    <2> QED
      BY <2>1, MaybeAt, Zenon
  <1> HIDE DEF of
  <1> QED
    BY <1>1, <1>3, <1>4, CallsStay, SMT DEF Carried

LEMMA JsWebGenerateKeyStays == ASSUME NEW f, NEW g, NEW u, Beside(f, g, u), NEW t PROVE Carried(JsWebGenerateKey(f, t), JsWebGenerateKey(g, t), u)
  <1> DEFINE a(h, v) == JsName(h, v)
             k(h, v) == Look(t.web, Lower(a(h, v)))
             of(h, v) == Maybe(a(h, v) # "", Found(v, k(h, v).family, JsWebSize(v), RSASeverity(k(h, v).family, JsWebSize(v)), "high", <<v.fn, Lower(a(h, v))>>))
  <1>1. \A h, x : x \in JsWebGenerateKey(h, t) <=> \E v \in Calls(h, <<"crypto", "subtle">>, {"generateKey"}) : x \in of(h, v)
    BY Zenon DEF JsWebGenerateKey
  <1>2. a(f, u) = a(g, u)
    BY SameValues DEF JsName, JsConsts
  <1> HIDE DEF a
  <1>3. of(f, u) = of(g, u)
    BY <1>2
  <1>4. \A h, v, x : x \in of(h, v) => At(x, v)
    <2>1. \A h, v : of(h, v) = Maybe(a(h, v) # "", Found(v, k(h, v).family, JsWebSize(v), RSASeverity(k(h, v).family, JsWebSize(v)), "high", <<v.fn, Lower(a(h, v))>>))
      OBVIOUS
    <2> HIDE DEF of, k
    <2> QED
      BY <2>1, MaybeAt, Zenon
  <1> HIDE DEF of
  <1> QED
    BY <1>1, <1>3, <1>4, CallsStay, SMT DEF Carried

LEMMA JsNobleStays ==
  ASSUME NEW f, NEW g, NEW u, Beside(f, g, u), NEW t,
         (JsSources(f) \cap t.secp # {}) <=> (JsSources(g) \cap t.secp # {}), (JsSources(f) \cap t.bls # {}) <=> (JsSources(g) \cap t.bls # {})
  PROVE  Carried(JsNoble(f, t), JsNoble(g, t), u)
  <1> DEFINE schnorr(v) == Sure(v, "Schnorr", "info", <<"schnorr", v.fn>>)
             bls(v)     == Sure(v, "BLS12-381", "info", <<"bls", v.fn>>)
             signs(v)   == v.kind = "call" /\ v.fn \in JsSchnorrFns /\ v.on # <<>> /\ v.on[Len(v.on)] = "schnorr"
  <1>1. \A v, x : x = schnorr(v) \/ x = bls(v) => At(x, v)
    BY SureAt, Zenon
  <1>2. \A h, x : x \in JsNoble(h, t) <=>
          \/ JsSources(h) \cap t.secp # {} /\ \E v \in h.uses : signs(v) /\ x = schnorr(v)
          \/ JsSources(h) \cap t.bls # {} /\ \E v \in Calls(h, <<"bls">>, JsBlsFns) : x = bls(v)
    <2> DEFINE first(h)  == {v \in h.uses : JsSources(h) \cap t.secp # {} /\ signs(v)}
               second(h) == IF JsSources(h) \cap t.bls # {} THEN Calls(h, <<"bls">>, JsBlsFns) ELSE {}
    <2>1. \A h, x : x \in JsNoble(h, t) <=> (\E v \in first(h) : x = schnorr(v)) \/ (\E v \in second(h) : x = bls(v))
      BY Zenon DEF JsNoble
    <2> HIDE DEF schnorr, bls, signs
    <2> QED
      BY <2>1, Zenon
  <1> HIDE DEF schnorr, bls, signs
  <1> QED
    BY <1>1, <1>2, OnlyOne, CallsStay, SMT DEF Carried

LEMMA JsStays ==
  ASSUME NEW f, NEW g, NEW u, Beside(f, g, u), NEW t,
         (JsSources(f) \cap t.secp # {}) <=> (JsSources(g) \cap t.secp # {}), (JsSources(f) \cap t.bls # {}) <=> (JsSources(g) \cap t.bls # {})
  PROVE  Carried(JsScan(f, t), JsScan(g, t), u)
  <1>1. \A h, x : x \in JsScan(h, t) <=>
          \/ x \in JsNodeCrypto(h, t) \/ x \in JsJWT(h) \/ x \in JsForgeMd(h, t) \/ x \in JsForgeCipher(h, t) \/ x \in JsForgeRSA(h)
          \/ x \in JsForgeHMAC(h) \/ x \in JsWebEncrypt(h, t) \/ x \in JsWebDigest(h, t) \/ x \in JsWebGenerateKey(h, t) \/ x \in JsNoble(h, t)
    BY SMT DEF JsScan
  <1> QED
    BY <1>1, JsNodeCryptoStays, JsJWTStays, JsForgeMdStays, JsForgeCipherStays, JsForgeRSAStays, JsForgeHMACStays, JsWebEncryptStays,
       JsWebDigestStays, JsWebGenerateKeyStays, JsNobleStays DEF Carried

-----------------------------------------------------------------------------
(* C and C++                                                               *)
LEMMA RowsStay ==
  ASSUME NEW u, NEW A, NEW B, NEW rows, \A v \in A : \A x : At(x, u) /\ At(x, v) => v = u /\ u \in B
  PROVE  Carried(RowsOf(A, rows), RowsOf(B, rows), u)
  <1> DEFINE of(v) == {Sure(v, rows[w].name, rows[w].sev, <<w>>) : w \in {v.fn} \cap DOMAIN rows}
  <1>1. \A v, x : x \in of(v) => At(x, v)
    BY SureAt, Zenon
  <1>2. \A S : RowsOf(S, rows) = UNION {of(v) : v \in S}
    BY DEF RowsOf
  <1> HIDE DEF of
  <1> QED
    BY <1>1, <1>2, SMT DEF Carried

LEMMA CppCallsStay ==
  \A f, g, u : Beside(f, g, u) => \A fns : \A v \in CppCalls(f, fns) : \A x :
    At(x, u) /\ At(x, v) => v = u /\ u \in CppCalls(g, fns)
  BY PlainStay, CallsStay, SMT DEF CppCalls

LEMMA CppRowsStay == ASSUME NEW f, NEW g, NEW u, Beside(f, g, u), NEW rows PROVE Carried(CppRows(f, rows), CppRows(g, rows), u)
  <1>1. \A v \in CppCalls(f, DOMAIN rows) : \A x : At(x, u) /\ At(x, v) => v = u /\ u \in CppCalls(g, DOMAIN rows)
    BY CppCallsStay, Zenon
  <1> QED
    BY <1>1, RowsStay, Zenon DEF CppRows

LEMMA SameCppText == ASSUME NEW f, NEW g, NEW u, Beside(f, g, u), NEW arg PROVE CppText(f, arg) = CppText(g, arg)
  <1>1. CppConsts(f) = CppConsts(g)
    BY DEF CppConsts, LastOfKinds, Beside
  <1> QED
    BY <1>1 DEF CppText

LEMMA SameCppInt == ASSUME NEW f, NEW g, NEW u, Beside(f, g, u), NEW v, NEW n PROVE CppInt(f, v, n) = CppInt(g, v, n)
  BY SameCppText DEF CppInt

LEMMA CppEVPStays == ASSUME NEW f, NEW g, NEW u, Beside(f, g, u) PROVE Carried(CppEVP(f), CppEVP(g), u)
  BY CppRowsStay, Joined, Zenon DEF CppEVP

LEMMA CppHashStays == ASSUME NEW f, NEW g, NEW u, Beside(f, g, u) PROVE Carried(CppHash(f), CppHash(g), u)
  BY CppRowsStay, Joined, Zenon DEF CppHash

LEMMA CppHMACStays == ASSUME NEW f, NEW g, NEW u, Beside(f, g, u) PROVE Carried(CppHMAC(f), CppHMAC(g), u)
  BY CppRowsStay, Joined, Zenon DEF CppHMAC

LEMMA CppKDFStays == ASSUME NEW f, NEW g, NEW u, Beside(f, g, u) PROVE Carried(CppKDF(f), CppKDF(g), u)
  BY CppRowsStay, Joined, Zenon DEF CppKDF

LEMMA CppPEMStays == ASSUME NEW f, NEW g, NEW u, Beside(f, g, u) PROVE Carried(CppPEM(f), CppPEM(g), u)
  BY CppRowsStay, Joined, Zenon DEF CppPEM

LEMMA CppMbedTLSStays == ASSUME NEW f, NEW g, NEW u, Beside(f, g, u) PROVE Carried(CppMbedTLS(f), CppMbedTLS(g), u)
  BY CppRowsStay, Joined, Zenon DEF CppMbedTLS

LEMMA CppLibsodiumStays == ASSUME NEW f, NEW g, NEW u, Beside(f, g, u) PROVE Carried(CppLibsodium(f), CppLibsodium(g), u)
  <1> DEFINE some(h, a, b, c) == CppRows(h, a) \cup CppRows(h, b) \cup CppRows(h, c)
  <1>1. \A a, b, c : Carried(some(f, a, b, c), some(g, a, b, c), u)
    BY CppRowsStay, Joined, Zenon
  <1>2. \A a, b, c, d, e, k : Carried(some(f, a, b, c) \cup CppRows(f, d) \cup CppRows(f, e) \cup CppRows(f, k),
                                       some(g, a, b, c) \cup CppRows(g, d) \cup CppRows(g, e) \cup CppRows(g, k), u)
    <2> HIDE DEF some
    <2> QED
      BY <1>1, CppRowsStay, Joined, Zenon
  <1> QED
    BY <1>2, Zenon DEF CppLibsodium

LEMMA CppAsymmetricStays == ASSUME NEW f, NEW g, NEW u, Beside(f, g, u), NEW t PROVE Carried(CppAsymmetric(f, t), CppAsymmetric(g, t), u)
  BY CppRowsStay, Zenon DEF CppAsymmetric

LEMMA CppRSAStays == ASSUME NEW f, NEW g, NEW u, Beside(f, g, u) PROVE Carried(CppRSA(f), CppRSA(g), u)
  <1> DEFINE rsa(h, v) == Found(v, "RSA", CppInt(h, v, IF v.fn = "RSA_generate_key" THEN 1 ELSE 2), "info", "high", <<v.fn>>)
             pkey(v)   == Found(v, "EVP-PKEY", 0, "info", "medium", <<v.fn>>)
  <1>1. \A h, v, x : x = rsa(h, v) \/ x = pkey(v) => At(x, v)
    BY FoundAt, Zenon
  <1>2. rsa(f, u) = rsa(g, u)
    BY SameCppInt
  <1>3. \A h, x : x \in CppRSA(h) <=>
          \/ \E v \in CppCalls(h, {"RSA_generate_key", "RSA_generate_key_ex"}) : x = rsa(h, v)
          \/ \E v \in CppCalls(h, {"EVP_PKEY_CTX_new_id"}) : x = pkey(v)
    BY Zenon DEF CppRSA
  <1> HIDE DEF rsa, pkey
  <1> QED
    BY <1>1, <1>2, <1>3, CppCallsStay, SMT DEF Carried

LEMMA CppAESStays == ASSUME NEW f, NEW g, NEW u, Beside(f, g, u) PROVE Carried(CppAES(f), CppAES(g), u)
  <1> DEFINE of(h, v) == Found(v, "AES", CppInt(h, v, 2), "info", "high", <<v.fn>>)
             sel(h)   == CppCalls(h, {"AES_set_encrypt_key", "AES_set_decrypt_key"})
             aes(h)   == {of(h, v) : v \in sel(h)}
  <1>1. \A h, v : At(of(h, v), v)
    BY FoundAt, Zenon
  <1>2. of(f, u) = of(g, u)
    BY SameCppInt
  <1>3. \A v \in sel(f) : \A x : At(x, u) /\ At(x, v) => v = u /\ u \in sel(g)
    BY CppCallsStay, Zenon
  <1>4. Carried(aes(f), aes(g), u)
    <2> HIDE DEF of, sel
    <2> QED
      BY <1>1, <1>2, <1>3, SMT DEF Carried
  <1> QED
    BY <1>4, CppRowsStay, Joined, Zenon DEF CppAES

LEMMA CppContextsStay == ASSUME NEW f, NEW g, NEW u, Beside(f, g, u), NEW t PROVE Carried(CppContexts(f, t), CppContexts(g, t), u)
  <1> DEFINE m(v)  == Arg(v, 1).text
             of(v) == IF m(v) \in DOMAIN t.methods THEN Sure(v, t.methods[m(v)].name, t.methods[m(v)].sev, <<"ssl-ctx", m(v)>>)
                      ELSE Found(v, "TLS", 0, "info", "medium", <<"ssl-ctx">>)
  <1>1. \A h, x : x \in CppContexts(h, t) <=> \E v \in CppCalls(h, {"SSL_CTX_new"}) : x = of(v)
    BY Zenon DEF CppContexts
  <1> HIDE DEF m
  <1>2. \A v : At(of(v), v)
    BY SureAt, FoundAt, Zenon
  <1> HIDE DEF of
  <1> QED
    BY <1>1, <1>2, CppCallsStay, SMT DEF Carried

LEMMA CppVersionsStay == ASSUME NEW f, NEW g, NEW u, Beside(f, g, u), NEW t PROVE Carried(CppVersions(f, t), CppVersions(g, t), u)
  <1> DEFINE of(v) == {Sure(v, t.versions[w].name, t.versions[w].sev, <<v.fn, w>>) : w \in {Arg(v, 2).text} \cap DOMAIN t.versions}
             sel(h) == CppCalls(h, {"SSL_CTX_set_min_proto_version", "SSL_CTX_set_max_proto_version"})
  <1>1. \A v, x : x \in of(v) => At(x, v)
    BY SureAt, Zenon
  <1>2. \A v \in sel(f) : \A x : At(x, u) /\ At(x, v) => v = u /\ u \in sel(g)
    BY CppCallsStay, Zenon
  <1>3. \A h : CppVersions(h, t) = UNION {of(v) : v \in sel(h)}
    BY DEF CppVersions
  <1> HIDE DEF of, sel
  <1> QED
    BY <1>1, <1>2, <1>3, SMT DEF Carried

LEMMA CppNamedVersionsStay == ASSUME NEW f, NEW g, NEW u, Beside(f, g, u), NEW t PROVE Carried(CppNamedVersions(f, t), CppNamedVersions(g, t), u)
  <1> DEFINE named(h, v) == (IF Arg(v, 2).text \in DOMAIN t.versions THEN {} ELSE {CppText(h, Arg(v, 2))}) \cap DOMAIN t.versions
             of(h, v)    == {Found(v, t.versions[w].name, 0, t.versions[w].sev, "medium", <<v.fn, w>>) : w \in named(h, v)}
             sel(h)      == CppCalls(h, {"SSL_CTX_set_min_proto_version"})
  <1>1. \A h : CppNamedVersions(h, t) = UNION {of(h, v) : v \in sel(h)}
    BY DEF CppNamedVersions
  <1>2. named(f, u) = named(g, u)
    BY SameCppText
  <1> HIDE DEF named
  <1>3. of(f, u) = of(g, u)
    BY <1>2
  <1>4. \A h, v, x : x \in of(h, v) => At(x, v)
    BY FoundAt, Zenon
  <1>5. \A v \in sel(f) : \A x : At(x, u) /\ At(x, v) => v = u /\ u \in sel(g)
    BY CppCallsStay, Zenon
  <1> HIDE DEF of, sel
  <1> QED
    BY <1>1, <1>3, <1>4, <1>5, SMT DEF Carried

LEMMA CppStays == ASSUME NEW f, NEW g, NEW u, Beside(f, g, u), NEW t PROVE Carried(CppScan(f, t), CppScan(g, t), u)
  <1>1. Carried(CppSSL(f, t), CppSSL(g, t), u)
    BY CppContextsStay, CppVersionsStay, CppNamedVersionsStay, Joined, Zenon DEF CppSSL
  <1>2. \A h, x : x \in CppScan(h, t) <=>
          \/ x \in CppEVP(h) \/ x \in CppHash(h) \/ x \in CppRSA(h) \/ x \in CppAsymmetric(h, t) \/ x \in CppAES(h) \/ x \in CppHMAC(h)
          \/ x \in CppKDF(h) \/ x \in CppPEM(h) \/ x \in CppSSL(h, t) \/ x \in CppLibsodium(h) \/ x \in CppMbedTLS(h)
    BY SMT DEF CppScan
  <1> QED
    BY <1>1, <1>2, CppEVPStays, CppHashStays, CppRSAStays, CppAsymmetricStays, CppAESStays, CppHMACStays, CppKDFStays, CppPEMStays,
       CppLibsodiumStays, CppMbedTLSStays DEF Carried

-----------------------------------------------------------------------------
(* Rust                                                                    *)
LEMMA RustCallsStay == \A f, g, u : Beside(f, g, u) => \A v \in RustCalls(f) : \A x : At(x, u) /\ At(x, v) => v = u /\ u \in RustCalls(g)
  BY OnlyOne, SMT DEF RustCalls

LEMMA RustOneOfStays ==
  ASSUME NEW f, NEW g, NEW u, Beside(f, g, u), NEW p, NEW q, p[u] = q[u], NEW calls, NEW rows, NEW otherwise
  PROVE  Carried(RustOneOf(f, p, calls, rows, otherwise), RustOneOf(g, q, calls, rows, otherwise), u)
  <1> DEFINE known(v) == Words(v) \cap DOMAIN rows
             n(k, v)  == Picked(k, v, known(v))
             of(k, v) == IF known(v) = {} THEN Found(v, otherwise.name, 0, "info", otherwise.conf, <<otherwise.name>>)
                         ELSE Sure(v, rows[n(k, v)].name, rows[n(k, v)].sev, <<rows[n(k, v)].name>>)
             sel(h)   == {v \in RustCalls(h) : Words(v) \cap calls # {}}
  <1>1. \A h, k : RustOneOf(h, k, calls, rows, otherwise) = {of(k, v) : v \in sel(h)}
    BY DEF RustOneOf
  <1>2. n(p, u) = n(q, u)
    BY DEF Picked
  <1> HIDE DEF n
  <1>3. of(p, u) = of(q, u)
    BY <1>2
  <1>4. \A k, v : At(of(k, v), v)
    BY FoundAt, SureAt, Zenon
  <1>5. \A v \in sel(f) : \A x : At(x, u) /\ At(x, v) => v = u /\ u \in sel(g)
    BY RustCallsStay
  <1> HIDE DEF of, sel
  <1> QED
    BY <1>1, <1>3, <1>4, <1>5, SMT DEF Carried

LEMMA RustKnownStays ==
  ASSUME NEW f, NEW g, NEW u, Beside(f, g, u), NEW p, NEW q, p[u] = q[u], NEW marker, NEW rows
  PROVE  Carried(RustKnown(f, p, marker, rows), RustKnown(g, q, marker, rows), u)
  <1> DEFINE n(k, v)  == Picked(k, v, Words(v) \cap DOMAIN rows)
             of(k, v) == Sure(v, rows[n(k, v)].name, rows[n(k, v)].sev, <<marker, rows[n(k, v)].name>>)
             sel(h)   == {v \in RustCalls(h) : marker \in Words(v) /\ Words(v) \cap DOMAIN rows # {}}
  <1>1. \A h, k : RustKnown(h, k, marker, rows) = {of(k, v) : v \in sel(h)}
    BY DEF RustKnown
  <1>2. n(p, u) = n(q, u)
    BY DEF Picked
  <1> HIDE DEF n
  <1>3. of(p, u) = of(q, u)
    BY <1>2
  <1>4. \A k, v : At(of(k, v), v)
    BY SureAt, Zenon
  <1>5. \A v \in sel(f) : \A x : At(x, u) /\ At(x, v) => v = u /\ u \in sel(g)
    BY RustCallsStay
  <1> HIDE DEF of, sel
  <1> QED
    BY <1>1, <1>3, <1>4, <1>5, SMT DEF Carried

LEMMA RustRingPBKDF2Stays == ASSUME NEW f, NEW g, NEW u, Beside(f, g, u) PROVE Carried(RustRingPBKDF2(f), RustRingPBKDF2(g), u)
  <1> DEFINE of(v)  == Sure(v, "PBKDF2", "info", <<"pbkdf2">>)
             sel(h) == {v \in RustCalls(h) : Words(v) \cap {"pbkdf2::derive(", "pbkdf2::verify("} # {}}
  <1>1. \A v : At(of(v), v)
    BY SureAt, Zenon
  <1>2. \A v \in sel(f) : \A x : At(x, u) /\ At(x, v) => v = u /\ u \in sel(g)
    BY RustCallsStay
  <1>3. \A h : RustRingPBKDF2(h) = {of(v) : v \in sel(h)}
    BY DEF RustRingPBKDF2
  <1> HIDE DEF of, sel
  <1> QED
    BY <1>1, <1>2, <1>3, SMT DEF Carried

LEMMA RustRustlsStays == ASSUME NEW f, NEW g, NEW u, Beside(f, g, u) PROVE Carried(RustRustls(f), RustRustls(g), u)
  <1> DEFINE of(v)    == Sure(v, "TLS", "info", <<"rustls">>)
             sel(h)   == {v \in RustCalls(h) : Words(v) \cap {"ClientConfig::builder(", "ServerConfig::builder("} # {}}
             first(h) == {[at |-> 1, name |-> RustSuites[w], size |-> 0, sev |-> "info", conf |-> "medium", rule |-> <<"rustls", w>>] :
                            w \in (UNION {Words(v) : v \in h.uses}) \cap DOMAIN RustSuites}
  <1>1. \A v : At(of(v), v)
    BY SureAt, Zenon
  <1>2. \A v \in sel(f) : \A x : At(x, u) /\ At(x, v) => v = u /\ u \in sel(g)
    BY RustCallsStay
  <1>3. \A h : RustRustls(h) = {of(v) : v \in sel(h)} \cup first(h)
    BY DEF RustRustls
  <1>4. \A h, x : x \in first(h) => ~At(x, u)
    <2>1. \A h, x : x \in first(h) => x.at = 1
      OBVIOUS
    <2> QED
      BY <2>1 DEF At, Beside
  <1> HIDE DEF of, sel, first
  <1> QED
    BY <1>1, <1>2, <1>3, <1>4, SMT DEF Carried

LEMMA RustOpenSSLStays == ASSUME NEW f, NEW g, NEW u, Beside(f, g, u), NEW p, NEW q, p[u] = q[u] PROVE Carried(RustOpenSSL(f, p), RustOpenSSL(g, q), u)
  <1> DEFINE tls(v)  == {Sure(v, "TLS", "info", <<"openssl-tls">>) : w \in Words(v) \cap {"SslConnector::builder("}}
             rsa(v)  == {Sure(v, "RSA", "info", <<"openssl-rsa">>) : w \in Words(v) \cap {"Rsa::generate(", "PKey::from_rsa("}}
             sign(v) == {Found(v, "openssl-sign", 0, "info", "medium", <<"openssl-sign">>) : w \in Words(v) \cap {"Signer::new(", "Verifier::new("}}
             all(h)  == UNION {tls(v) \cup rsa(v) \cup sign(v) : v \in RustCalls(h)}
  <1>1. \A v, x : x \in tls(v) \/ x \in rsa(v) \/ x \in sign(v) => At(x, v)
    BY FoundAt, SureAt, Zenon
  <1>2. \A h, k : RustOpenSSL(h, k) = RustKnown(h, k, "MessageDigest::", RustDigestNames) \cup RustKnown(h, k, "Cipher::", RustCipherNames) \cup all(h)
    BY DEF RustOpenSSL
  <1> HIDE DEF tls, rsa, sign
  <1>3. Carried(all(f), all(g), u)
    BY <1>1, RustCallsStay, SMT DEF Carried
  <1> HIDE DEF all
  <1> QED
    BY <1>2, <1>3, RustKnownStays, Joined, Zenon

LEMMA RustAEADStays ==
  ASSUME NEW f, NEW g, NEW u, Beside(f, g, u), NEW p, NEW q, p[u] = q[u], NEW t, RustUses(f, "aes_gcm") <=> RustUses(g, "aes_gcm")
  PROVE  Carried(RustCryptoAEAD(f, t, p), RustCryptoAEAD(g, t, q), u)
  <1> DEFINE n(k, v)  == Picked(k, v, Words(v) \cap DOMAIN t.aesGcm)
             of(k, v) == Found(v, "AES-GCM", t.aesGcm[n(k, v)], "info", "high", <<n(k, v)>>)
             sel(h)   == {v \in RustCalls(h) : Words(v) \cap DOMAIN t.aesGcm # {}}
  <1>1. \A h, k : RustCryptoAEAD(h, t, k) = IF ~RustUses(h, "aes_gcm") THEN {} ELSE {of(k, v) : v \in sel(h)}
    BY DEF RustCryptoAEAD
  <1>2. n(p, u) = n(q, u)
    BY DEF Picked
  <1> HIDE DEF n
  <1>3. of(p, u) = of(q, u)
    BY <1>2
  <1>4. \A k, v : At(of(k, v), v)
    BY FoundAt, Zenon
  <1>5. \A v \in sel(f) : \A x : At(x, u) /\ At(x, v) => v = u /\ u \in sel(g)
    BY RustCallsStay
  <1> HIDE DEF of, sel
  <1> QED
    BY <1>1, <1>3, <1>4, <1>5, SMT DEF Carried

LEMMA RustRSAStays ==
  ASSUME NEW f, NEW g, NEW u, Beside(f, g, u), RustUses(f, "rsa") <=> RustUses(g, "rsa")
  PROVE  Carried(RustCryptoRSA(f), RustCryptoRSA(g), u)
  <1> DEFINE of(h, v) == Found(v, "RSA", RustKeySize(h, v), "info", "high", <<"RsaPrivateKey">>)
             sel(h)   == {v \in RustCalls(h) : "RsaPrivateKey::new(" \in Words(v)}
  <1>1. \A h : RustCryptoRSA(h) = IF ~RustUses(h, "rsa") THEN {} ELSE {of(h, v) : v \in sel(h)}
    BY DEF RustCryptoRSA
  <1>2. of(f, u) = of(g, u)
    BY SameValues DEF RustKeySize, RustConsts
  <1>3. \A h, v : At(of(h, v), v)
    BY FoundAt, Zenon
  <1>4. \A v \in sel(f) : \A x : At(x, u) /\ At(x, v) => v = u /\ u \in sel(g)
    BY RustCallsStay
  <1> HIDE DEF of, sel
  <1> QED
    BY <1>1, <1>2, <1>3, <1>4, SMT DEF Carried

LEMMA RustStays ==
  ASSUME NEW f, NEW g, NEW u, Beside(f, g, u), NEW p, NEW q, p[u] = q[u], NEW t, \A crate \in {"aes_gcm", "rsa"} : RustUses(f, crate) <=> RustUses(g, crate)
  PROVE  Carried(RustScan(f, t, p), RustScan(g, t, q), u)
  <1>1. Carried(RustRingDigest(f, t, p), RustRingDigest(g, t, q), u)
    BY RustOneOfStays, Zenon DEF RustRingDigest
  <1>2. Carried(RustRingAEAD(f, p), RustRingAEAD(g, q), u)
    BY RustOneOfStays, Zenon DEF RustRingAEAD
  <1>3. Carried(RustRingAgreement(f, p), RustRingAgreement(g, q), u)
    BY RustOneOfStays, Zenon DEF RustRingAgreement
  <1>4. Carried(RustRingSignature(f, p), RustRingSignature(g, q), u)
    BY RustOneOfStays, Joined, Zenon DEF RustRingSignature
  <1>5. \A h, k, x : x \in RustScan(h, t, k) <=>
          \/ x \in RustRingDigest(h, t, k) \/ x \in RustRingAEAD(h, k) \/ x \in RustRingAgreement(h, k) \/ x \in RustRingPBKDF2(h)
          \/ x \in RustRingSignature(h, k) \/ x \in RustRustls(h) \/ x \in RustOpenSSL(h, k) \/ x \in RustCryptoAEAD(h, t, k) \/ x \in RustCryptoRSA(h)
    BY SMT DEF RustScan
  <1>6. Carried(RustCryptoAEAD(f, t, p), RustCryptoAEAD(g, t, q), u) /\ Carried(RustCryptoRSA(f), RustCryptoRSA(g), u)
    BY RustAEADStays, RustRSAStays
  <1> QED
    BY <1>1, <1>2, <1>3, <1>4, <1>5, <1>6, RustRingPBKDF2Stays, RustRustlsStays, RustOpenSSLStays DEF Carried

-----------------------------------------------------------------------------
(* PHP                                                                     *)
LEMMA SamePhpValue == ASSUME NEW f, NEW g, NEW u, Beside(f, g, u), NEW arg PROVE PhpValue(f, arg) = PhpValue(g, arg)
  BY SameValues DEF PhpValue, PhpConsts

LEMMA PhpOpenSSLCipherStays == ASSUME NEW f, NEW g, NEW u, Beside(f, g, u), NEW t PROVE Carried(PhpOpenSSLCipher(f, t), PhpOpenSSLCipher(g, t), u)
  <1> DEFINE a(h, v)  == PhpValue(h, Arg(v, t.openssl[v.fn]))
             m(h, v)  == PhpMethod(t, Lower(a(h, v).text))
             of(h, v) == IF a(h, v).text = "" THEN Found(v, "unknown algorithm", 0, "info", "low", <<v.fn>>)
                         ELSE Found(v, m(h, v)[1], 0, CipherSeverity(m(h, v)[1], m(h, v)[2]), a(h, v).conf, <<v.fn, Lower(a(h, v).text)>>)
             sel(h)   == Plain(h, DOMAIN t.openssl)
  <1>1. \A h : PhpOpenSSLCipher(h, t) = {of(h, v) : v \in sel(h)}
    BY DEF PhpOpenSSLCipher
  <1>2. a(f, u) = a(g, u)
    BY SamePhpValue
  <1> HIDE DEF a
  <1>3. of(f, u) = of(g, u)
    BY <1>2
  <1>4. \A h, v, x : x = of(h, v) => At(x, v)
    BY FoundAt, Zenon
  <1>5. \A v \in sel(f) : \A x : At(x, u) /\ At(x, v) => v = u /\ u \in sel(g)
    BY PlainStay, Zenon
  <1> HIDE DEF of, sel
  <1> QED
    BY <1>1, <1>3, <1>4, <1>5, SMT DEF Carried

LEMMA PhpKeyPairStays == ASSUME NEW f, NEW g, NEW u, Beside(f, g, u) PROVE Carried(PhpKeyPair(f), PhpKeyPair(g), u)
  <1> DEFINE type(v)  == Prop(Arg(v, 1), "private_key_type").text
             fam(v)   == IF type(v) \in DOMAIN PhpKeyTypes THEN PhpKeyTypes[type(v)] ELSE "rsa"
             of(h, v) == Found(v, fam(v), Atoi(Prop(Arg(v, 1), "private_key_bits").text), "info", "medium", <<v.fn>>)
             sel(h)   == Plain(h, {"openssl_pkey_new"})
  <1>1. \A h : PhpKeyPair(h) = {of(h, v) : v \in sel(h)}
    BY DEF PhpKeyPair
  <1> HIDE DEF fam
  <1>2. \A h, v, x : x = of(h, v) => At(x, v)
    BY FoundAt, Zenon
  <1>3. of(f, u) = of(g, u)
    OBVIOUS
  <1>4. \A v \in sel(f) : \A x : At(x, u) /\ At(x, v) => v = u /\ u \in sel(g)
    BY PlainStay, Zenon
  <1> HIDE DEF of, sel
  <1> QED
    BY <1>1, <1>2, <1>3, <1>4, SMT DEF Carried

LEMMA PhpSignStays == ASSUME NEW f, NEW g, NEW u, Beside(f, g, u) PROVE Carried(PhpSign(f), PhpSign(g), u)
  <1> DEFINE conf(v)  == IF Words(v) \cap DOMAIN PhpSignHashes = {} THEN "medium" ELSE "high"
             of(h, v) == Found(v, "rsa", 0, "info", conf(v), <<v.fn>>)
             sel(h)   == Plain(h, {"openssl_sign"})
  <1>1. \A h : PhpSign(h) = {of(h, v) : v \in sel(h)}
    BY DEF PhpSign
  <1> HIDE DEF conf
  <1>2. \A h, v, x : x = of(h, v) => At(x, v)
    BY FoundAt, Zenon
  <1>3. of(f, u) = of(g, u)
    OBVIOUS
  <1>4. \A v \in sel(f) : \A x : At(x, u) /\ At(x, v) => v = u /\ u \in sel(g)
    BY PlainStay, Zenon
  <1> HIDE DEF of, sel
  <1> QED
    BY <1>1, <1>2, <1>3, <1>4, SMT DEF Carried

LEMMA PhpHashStays == ASSUME NEW f, NEW g, NEW u, Beside(f, g, u), NEW t PROVE Carried(PhpHash(f, t), PhpHash(g, t), u)
  <1> DEFINE a(h, v)   == PhpValue(h, Arg(v, 1))
             fam(h, v) == PhpTable(t.hashes, Lower(a(h, v).text))
             of(h, v)  == Maybe(a(h, v).text # "", Found(v, fam(h, v), 0, HashSeverity(fam(h, v)), a(h, v).conf, <<v.fn, Lower(a(h, v).text)>>))
             sel(h)    == Plain(h, {"hash"})
  <1>1. \A h : PhpHash(h, t) = UNION {of(h, v) : v \in sel(h)}
    BY DEF PhpHash
  <1>2. a(f, u) = a(g, u)
    BY SamePhpValue
  <1> HIDE DEF a
  <1>3. of(f, u) = of(g, u)
    BY <1>2
  <1>4. \A h, v, x : x \in of(h, v) => At(x, v)
    <2>1. \A h, v : of(h, v) = Maybe(a(h, v).text # "", Found(v, fam(h, v), 0, HashSeverity(fam(h, v)), a(h, v).conf, <<v.fn, Lower(a(h, v).text)>>))
      OBVIOUS
    <2> HIDE DEF of, a, fam
    <2> QED
      BY <2>1, MaybeAt, Zenon
  <1>5. \A v \in sel(f) : \A x : At(x, u) /\ At(x, v) => v = u /\ u \in sel(g)
    BY PlainStay, Zenon
  <1> HIDE DEF of, sel
  <1> QED
    BY <1>1, <1>3, <1>4, <1>5, SMT DEF Carried

LEMMA PhpHMACStays == ASSUME NEW f, NEW g, NEW u, Beside(f, g, u), NEW t PROVE Carried(PhpHMAC(f, t), PhpHMAC(g, t), u)
  <1> DEFINE a(h, v)  == PhpValue(h, Arg(v, 1))
             of(h, v) == Found(v, "HMAC-" \o PhpTable(t.hashes, Lower(a(h, v).text)), 0, "info", a(h, v).conf, <<v.fn>>)
             sel(h)   == Plain(h, {"hash_hmac"})
  <1>1. \A h : PhpHMAC(h, t) = {of(h, v) : v \in sel(h)}
    BY DEF PhpHMAC
  <1>2. a(f, u) = a(g, u)
    BY SamePhpValue
  <1> HIDE DEF a
  <1>3. of(f, u) = of(g, u)
    BY <1>2
  <1>4. \A h, v, x : x = of(h, v) => At(x, v)
    BY FoundAt, Zenon
  <1>5. \A v \in sel(f) : \A x : At(x, u) /\ At(x, v) => v = u /\ u \in sel(g)
    BY PlainStay, Zenon
  <1> HIDE DEF of, sel
  <1> QED
    BY <1>1, <1>3, <1>4, <1>5, SMT DEF Carried

LEMMA PhpPBKDF2Stays == ASSUME NEW f, NEW g, NEW u, Beside(f, g, u), NEW t PROVE Carried(PhpPBKDF2(f, t), PhpPBKDF2(g, t), u)
  <1> DEFINE a(h, v)  == PhpValue(h, Arg(v, 1))
             n(h, v)  == Atoi(PhpValue(h, Arg(v, 4)).text)
             of(h, v) == Found(v, "PBKDF2-" \o PhpTable(t.hashes, Lower(a(h, v).text)), 0, CheckKDFIterations("pbkdf2", n(h, v)), a(h, v).conf, <<v.fn>>)
             sel(h)   == Plain(h, {"hash_pbkdf2"})
  <1>1. \A h : PhpPBKDF2(h, t) = {of(h, v) : v \in sel(h)}
    BY DEF PhpPBKDF2
  <1>2. a(f, u) = a(g, u)
    BY SamePhpValue
  <1>3. n(f, u) = n(g, u)
    BY SamePhpValue
  <1> HIDE DEF a, n
  <1>4. of(f, u) = of(g, u)
    BY <1>2, <1>3
  <1>5. \A h, v, x : x = of(h, v) => At(x, v)
    BY FoundAt, Zenon
  <1>6. \A v \in sel(f) : \A x : At(x, u) /\ At(x, v) => v = u /\ u \in sel(g)
    BY PlainStay, Zenon
  <1> HIDE DEF of, sel
  <1> QED
    BY <1>1, <1>4, <1>5, <1>6, SMT DEF Carried

LEMMA PhpPasswordStays == ASSUME NEW f, NEW g, NEW u, Beside(f, g, u), NEW t, NEW p, NEW q, p[u] = q[u] PROVE Carried(PhpPassword(f, t, p), PhpPassword(g, t, q), u)
  <1> DEFINE known(v)  == PhpWords(v) \cap DOMAIN t.passwords
             alg(k, v) == t.passwords[IF k[v] \in known(v) THEN k[v] ELSE CHOOSE n \in known(v) : TRUE]
             of(k, v)  == IF known(v) = {} THEN Found(v, "unknown algorithm", 0, "info", "low", <<v.fn>>) ELSE Sure(v, alg(k, v), "info", <<v.fn>>)
             check(v)  == Sure(v, "password_verify", "info", <<v.fn>>)
  <1>1. \A h, k : PhpPassword(h, t, k) = {of(k, v) : v \in Plain(h, {"password_hash"})} \cup {check(v) : v \in Plain(h, {"password_verify"})}
    BY DEF PhpPassword
  <1>2. alg(p, u) = alg(q, u)
    OBVIOUS
  <1> HIDE DEF alg
  <1>3. of(p, u) = of(q, u)
    BY <1>2
  <1>4. \A k, v : At(of(k, v), v) /\ At(check(v), v)
    BY FoundAt, SureAt, Zenon
  <1> HIDE DEF of, check
  <1> QED
    BY <1>1, <1>3, <1>4, PlainStay, SMT DEF Carried

LEMMA PhpSodiumStays == ASSUME NEW f, NEW g, NEW u, Beside(f, g, u), NEW t PROVE Carried(PhpSodium(f, t), PhpSodium(g, t), u)
  <1>1. \A v \in Plain(f, DOMAIN t.sodium) : \A x : At(x, u) /\ At(x, v) => v = u /\ u \in Plain(g, DOMAIN t.sodium)
    BY PlainStay, Zenon
  <1> QED
    BY <1>1, RowsStay, Zenon DEF PhpSodium

LEMMA PhpMcryptStays == ASSUME NEW f, NEW g, NEW u, Beside(f, g, u), NEW t PROVE Carried(PhpMcrypt(f, t), PhpMcrypt(g, t), u)
  <1> DEFINE a(h, v)  == PhpValue(h, Arg(v, 1))
             of(h, v) == Sure(v, "mcrypt-" \o a(h, v).text, "high", <<v.fn>>)
             sel(h)   == Plain(h, t.mcrypt)
  <1>1. \A h : PhpMcrypt(h, t) = {of(h, v) : v \in sel(h)}
    BY DEF PhpMcrypt
  <1>2. a(f, u) = a(g, u)
    BY SamePhpValue
  <1> HIDE DEF a
  <1>3. of(f, u) = of(g, u)
    BY <1>2
  <1>4. \A h, v, x : x = of(h, v) => At(x, v)
    BY SureAt, Zenon
  <1>5. \A v \in sel(f) : \A x : At(x, u) /\ At(x, v) => v = u /\ u \in sel(g)
    BY PlainStay, Zenon
  <1> HIDE DEF of, sel
  <1> QED
    BY <1>1, <1>3, <1>4, <1>5, SMT DEF Carried

LEMMA PhpStays == ASSUME NEW f, NEW g, NEW u, Beside(f, g, u), NEW t, NEW p, NEW q, p[u] = q[u] PROVE Carried(PhpScan(f, t, p), PhpScan(g, t, q), u)
  <1>1. \A h, k, x : x \in PhpScan(h, t, k) <=>
          \/ x \in PhpOpenSSLCipher(h, t) \/ x \in PhpKeyPair(h) \/ x \in PhpSign(h) \/ x \in PhpHash(h, t) \/ x \in PhpHMAC(h, t)
          \/ x \in PhpPBKDF2(h, t) \/ x \in PhpPassword(h, t, k) \/ x \in PhpSodium(h, t) \/ x \in PhpMcrypt(h, t)
    BY SMT DEF PhpScan
  <1>2. Carried(PhpPassword(f, t, p), PhpPassword(g, t, q), u)
    BY PhpPasswordStays
  <1> QED
    BY <1>1, <1>2, PhpOpenSSLCipherStays, PhpKeyPairStays, PhpSignStays, PhpHashStays, PhpHMACStays, PhpPBKDF2Stays, PhpSodiumStays,
       PhpMcryptStays DEF Carried

-----------------------------------------------------------------------------
(* Ruby                                                                    *)
LEMMA AboutStay == \A f, g, u : Beside(f, g, u) => \A module : \A v \in About(f, module) : \A x : At(x, u) /\ At(x, v) => v = u /\ u \in About(g, module)
  BY OnlyOne, SMT DEF About, RubyNodes

LEMMA SameRubyCipherName == ASSUME NEW f, NEW g, NEW u, Beside(f, g, u) PROVE RubyCipherName(f, u) = RubyCipherName(g, u)
  <1> DEFINE given(h) == IF u.kind = "call" THEN Resolve(RubyConsts(h), Arg(u, 1)).text ELSE ""
  <1>1. \A h : RubyCipherName(h, u) = IF given(h) # "" THEN given(h) ELSE Quoted(u)
    BY DEF RubyCipherName
  <1>2. given(f) = given(g)
    BY SameValues DEF RubyConsts
  <1> HIDE DEF given
  <1> QED
    BY <1>1, <1>2

LEMMA RubyCipherStays == ASSUME NEW f, NEW g, NEW u, Beside(f, g, u), NEW t PROVE Carried(RubyCipher(f, t), RubyCipher(g, t), u)
  <1> DEFINE a(h, v)  == Lower(RubyCipherName(h, v))
             c(h, v)  == IF a(h, v) \in DOMAIN t.ciphers THEN t.ciphers[a(h, v)] ELSE <<a(h, v), "">>
             of(h, v) == Maybe(a(h, v) # "", Sure(v, c(h, v)[1], CipherSeverity(c(h, v)[1], c(h, v)[2]), <<"cipher", a(h, v)>>))
             sel(h)   == About(h, <<"OpenSSL", "Cipher">>)
  <1>1. \A h : RubyCipher(h, t) = UNION {of(h, v) : v \in sel(h)}
    BY DEF RubyCipher
  <1>2. a(f, u) = a(g, u)
    BY SameRubyCipherName
  <1> HIDE DEF a
  <1>3. of(f, u) = of(g, u)
    BY <1>2
  <1>4. \A h, v, x : x \in of(h, v) => At(x, v)
    <2>1. \A h, v : of(h, v) = Maybe(a(h, v) # "", Sure(v, c(h, v)[1], CipherSeverity(c(h, v)[1], c(h, v)[2]), <<"cipher", a(h, v)>>))
      OBVIOUS
    <2> HIDE DEF of, a, c
    <2> QED
      BY <2>1, MaybeSureAt, Zenon
  <1>5. \A v \in sel(f) : \A x : At(x, u) /\ At(x, v) => v = u /\ u \in sel(g)
    BY AboutStay, Zenon
  <1> HIDE DEF of, sel
  <1> QED
    BY <1>1, <1>3, <1>4, <1>5, SMT DEF Carried

LEMMA RubyOpenSSLDigestStays == ASSUME NEW f, NEW g, NEW u, Beside(f, g, u), NEW t, NEW p, NEW q, p[u] = q[u] PROVE Carried(RubyOpenSSLDigest(f, t, p), RubyOpenSSLDigest(g, t, q), u)
  <1> DEFINE known(v)   == RubyMentions(v) \cap DOMAIN t.digests
             algo(k, v) == IF known(v) = {} THEN Lower(Quoted(v)) ELSE IF k[v] \in known(v) THEN k[v] ELSE CHOOSE n \in known(v) : TRUE
             fam(k, v)  == IF algo(k, v) \in DOMAIN t.digests THEN t.digests[algo(k, v)] ELSE algo(k, v)
             of(k, v)   == Maybe(algo(k, v) # "", Sure(v, fam(k, v), HashSeverity(fam(k, v)), <<"openssl-digest", algo(k, v)>>))
             sel(h)     == About(h, <<"OpenSSL", "Digest">>)
  <1>1. \A h, k : RubyOpenSSLDigest(h, t, k) = UNION {of(k, v) : v \in sel(h)}
    BY DEF RubyOpenSSLDigest
  <1>2. algo(p, u) = algo(q, u)
    OBVIOUS
  <1> HIDE DEF algo
  <1>3. of(p, u) = of(q, u)
    BY <1>2
  <1>4. \A k, v, x : x \in of(k, v) => At(x, v)
    <2>1. \A k, v : of(k, v) = Maybe(algo(k, v) # "", Sure(v, fam(k, v), HashSeverity(fam(k, v)), <<"openssl-digest", algo(k, v)>>))
      OBVIOUS
    <2> HIDE DEF of, fam
    <2> QED
      BY <2>1, MaybeSureAt, Zenon
  <1>5. \A v \in sel(f) : \A x : At(x, u) /\ At(x, v) => v = u /\ u \in sel(g)
    BY AboutStay, Zenon
  <1> HIDE DEF of, sel
  <1> QED
    BY <1>1, <1>3, <1>4, <1>5, SMT DEF Carried

LEMMA RubyDigestStays == ASSUME NEW f, NEW g, NEW u, Beside(f, g, u) PROVE Carried(RubyDigest(f), RubyDigest(g), u)
  <1> DEFINE known(v) == {v.fn} \cap {"sha256", "sha1", "md5"}
             fam(v)   == RubyEmbedded.digests[CHOOSE n \in known(v) : TRUE]
             of(h, v) == Maybe(known(v) # {}, Sure(v, fam(v), HashSeverity(fam(v)), <<"digest", fam(v)>>))
             sel(h)   == About(h, <<"Digest">>) \cup About(h, <<"OpenSSL", "Digest">>)
  <1>1. \A h : RubyDigest(h) = UNION {of(h, v) : v \in sel(h)}
    BY DEF RubyDigest
  <1>2. \A h, v, x : x \in of(h, v) => At(x, v)
    <2>1. \A h, v : of(h, v) = Maybe(known(v) # {}, Sure(v, fam(v), HashSeverity(fam(v)), <<"digest", fam(v)>>))
      OBVIOUS
    <2> HIDE DEF of, known, fam
    <2> QED
      BY <2>1, MaybeSureAt, Zenon
  <1>3. of(f, u) = of(g, u)
    OBVIOUS
  <1>4. \A v \in sel(f) : \A x : At(x, u) /\ At(x, v) => v = u /\ u \in sel(g)
    BY AboutStay, SMT
  <1> HIDE DEF of, sel
  <1> QED
    BY <1>1, <1>2, <1>3, <1>4, SMT DEF Carried

LEMMA RubyPKeyStays == ASSUME NEW f, NEW g, NEW u, Beside(f, g, u) PROVE Carried(RubyPKey(f), RubyPKey(g), u)
  <1> DEFINE key(v, alg)  == Found(v, alg, RubyFirstNumber(v), "info", "high", <<"pkey", alg>>)
             ec(v)        == Sure(v, "EC", "info", <<"pkey", "EC">>)
             made(h, alg) == {v \in About(h, <<"OpenSSL", "PKey", alg>>) : Makes(v)}
             of(h, alg)   == {key(v, alg) : v \in made(h, alg)}
             ecs(h)       == {ec(v) : v \in made(h, "EC")}
  <1>1. \A v, alg : At(key(v, alg), v) /\ At(ec(v), v)
    BY FoundAt, SureAt, Zenon
  <1>2. \A alg : \A v \in made(f, alg) : \A x : At(x, u) /\ At(x, v) => v = u /\ u \in made(g, alg)
    BY AboutStay, SMT
  <1>3. \A h : RubyPKey(h) = (UNION {of(h, alg) : alg \in {"RSA", "DSA"}}) \cup ecs(h)
    BY DEF RubyPKey
  <1> HIDE DEF key, ec, made
  <1>4. \A alg : Carried(of(f, alg), of(g, alg), u)
    BY <1>1, <1>2, SMT DEF Carried
  <1>5. Carried(ecs(f), ecs(g), u)
    BY <1>1, <1>2, SMT DEF Carried
  <1> HIDE DEF of, ecs
  <1>6. \A h, x : x \in RubyPKey(h) <=> x \in of(h, "RSA") \/ x \in of(h, "DSA") \/ x \in ecs(h)
    BY <1>3, Zenon
  <1> QED
    BY <1>4, <1>5, <1>6, Zenon DEF Carried

LEMMA RubySSLStays == ASSUME NEW f, NEW g, NEW u, Beside(f, g, u) PROVE Carried(RubySSL(f), RubySSL(g), u)
  <1> DEFINE of(h, v) == Sure(v, "TLS", "info", <<"ssl">>)
             sel(h)   == {v \in About(h, <<"OpenSSL", "SSL", "SSLContext">>) : v.fn = "new"}
  <1>1. \A h : RubySSL(h) = {of(h, v) : v \in sel(h)}
    BY DEF RubySSL
  <1>2. \A h, v, x : x = of(h, v) => At(x, v)
    BY SureAt, Zenon
  <1>3. of(f, u) = of(g, u)
    OBVIOUS
  <1>4. \A v \in sel(f) : \A x : At(x, u) /\ At(x, v) => v = u /\ u \in sel(g)
    BY AboutStay, SMT
  <1> HIDE DEF of, sel
  <1> QED
    BY <1>1, <1>2, <1>3, <1>4, SMT DEF Carried

LEMMA RubyBCryptStays == ASSUME NEW f, NEW g, NEW u, Beside(f, g, u) PROVE Carried(RubyBCrypt(f), RubyBCrypt(g), u)
  <1> DEFINE of(h, v) == Sure(v, "bcrypt", "info", <<"bcrypt">>)
             sel(h)   == {v \in About(h, <<"BCrypt", "Password">>) : v.fn \in {"create", "new"}}
  <1>1. \A h : RubyBCrypt(h) = {of(h, v) : v \in sel(h)}
    BY DEF RubyBCrypt
  <1>2. \A h, v, x : x = of(h, v) => At(x, v)
    BY SureAt, Zenon
  <1>3. of(f, u) = of(g, u)
    OBVIOUS
  <1>4. \A v \in sel(f) : \A x : At(x, u) /\ At(x, v) => v = u /\ u \in sel(g)
    BY AboutStay, SMT
  <1> HIDE DEF of, sel
  <1> QED
    BY <1>1, <1>2, <1>3, <1>4, SMT DEF Carried

LEMMA RubyStays == ASSUME NEW f, NEW g, NEW u, Beside(f, g, u), NEW t, NEW p, NEW q, p[u] = q[u] PROVE Carried(RubyScan(f, t, p), RubyScan(g, t, q), u)
  <1>1. \A h, k, x : x \in RubyScan(h, t, k) <=>
          \/ x \in RubyCipher(h, t) \/ x \in RubyOpenSSLDigest(h, t, k) \/ x \in RubyPKey(h) \/ x \in RubySSL(h) \/ x \in RubyBCrypt(h)
          \/ x \in RubyDigest(h)
    BY SMT DEF RubyScan
  <1>2. Carried(RubyOpenSSLDigest(f, t, p), RubyOpenSSLDigest(g, t, q), u)
    BY RubyOpenSSLDigestStays
  <1> QED
    BY <1>1, <1>2, RubyCipherStays, RubyPKeyStays, RubySSLStays, RubyBCryptStays, RubyDigestStays DEF Carried

-----------------------------------------------------------------------------
(* Swift and Dart                                                          *)
LEMMA LinesStay == \A f, g, u : Beside(f, g, u) => \A v \in Lines(f) : \A x : At(x, u) /\ At(x, v) => v = u /\ u \in Lines(g)
  BY OnlyOne, SMT DEF Lines

LEMMA SameLineConsts == \A f, g, u : Beside(f, g, u) => LineConsts(f) = LineConsts(g)
  BY DEF LineConsts, Beside

LEMMA SameWords == ASSUME NEW f, NEW g, NEW u, Beside(f, g, u), NEW p, NEW q, p[u] = q[u] PROVE LineWords(f, u, p) = LineWords(g, u, q)
  <1>1. LineConsts(f) = LineConsts(g)
    BY SameLineConsts
  <1> QED
    BY <1>1 DEF LineWords

LEMMA LineRowsStay == ASSUME NEW f, NEW g, NEW u, Beside(f, g, u), NEW p, NEW q, p[u] = q[u], NEW rows PROVE Carried(LineRows(f, rows, p), LineRows(g, rows, q), u)
  <1> DEFINE of(h, v, k) == {Sure(v, rows[w].name, rows[w].sev, <<w>>) : w \in LineWords(h, v, k) \cap DOMAIN rows}
  <1>1. \A h, k : LineRows(h, rows, k) = UNION {of(h, v, k) : v \in Lines(h)}
    BY DEF LineRows
  <1>2. of(f, u, p) = of(g, u, q)
    BY SameWords
  <1>3. \A h, v, k, x : x \in of(h, v, k) => At(x, v)
    BY SureAt, Zenon
  <1> HIDE DEF of
  <1> QED
    BY <1>1, <1>2, <1>3, LinesStay, SMT DEF Carried

LEMMA SwiftCCCryptStays == ASSUME NEW f, NEW g, NEW u, Beside(f, g, u), NEW p, NEW q, p[u] = q[u], NEW t PROVE Carried(SwiftCCCrypt(f, t, p), SwiftCCCrypt(g, t, q), u)
  <1> DEFINE word(h, v, k, i) == ResolveLine(LineConsts(h), k[v], v.args[i].text)
             named(h, v, k)   == {i \in DOMAIN v.args : word(h, v, k, i) \in DOMAIN t.algorithms}
             first(h, v, k)   == CHOOSE i \in named(h, v, k) : \A j \in named(h, v, k) : i <= j
             row(h, v, k)     == IF named(h, v, k) = {} THEN Info("CCCrypt") ELSE t.algorithms[word(h, v, k, first(h, v, k))]
             of(h, v, k)      == Sure(v, row(h, v, k).name, row(h, v, k).sev, <<"cccrypt", row(h, v, k).name>>)
             sel(h, k)        == {v \in Lines(h) : "CCCrypt(" \in LineWords(h, v, k)}
  <1>1. \A h, k : SwiftCCCrypt(h, t, k) = {of(h, v, k) : v \in sel(h, k)}
    BY DEF SwiftCCCrypt
  <1>2. \A i : word(f, u, p, i) = word(g, u, q, i)
    BY SameLineConsts
  <1> HIDE DEF word
  <1>3. named(f, u, p) = named(g, u, q)
    BY <1>2
  <1> HIDE DEF named
  <1>4. row(f, u, p) = row(g, u, q)
    BY <1>2, <1>3
  <1> HIDE DEF row
  <1>5. of(f, u, p) = of(g, u, q)
    BY <1>4
  <1>6. \A h, v, k : At(of(h, v, k), v)
    BY SureAt, Zenon
  <1>7. \A v \in sel(f, p) : \A x : At(x, u) /\ At(x, v) => v = u /\ u \in sel(g, q)
    <2>1. LineWords(f, u, p) = LineWords(g, u, q)
      BY SameWords
    <2> QED
      BY <2>1, LinesStay
  <1> HIDE DEF of, sel
  <1> QED
    BY <1>1, <1>5, <1>6, <1>7, SMT DEF Carried

LEMMA SwiftStays == ASSUME NEW f, NEW g, NEW u, Beside(f, g, u), NEW p, NEW q, p[u] = q[u], NEW t PROVE Carried(SwiftScan(f, t, p), SwiftScan(g, t, q), u)
  <1>1. \A h, k, x : x \in SwiftScan(h, t, k) <=>
          \/ x \in LineRows(h, SwiftCryptoKit, k) \/ x \in LineRows(h, SwiftCommonCrypto, k)
          \/ x \in LineRows(h, SwiftSecurity, k) \/ x \in SwiftCCCrypt(h, t, k)
    BY SMT DEF SwiftScan
  <1>2. \A rows : Carried(LineRows(f, rows, p), LineRows(g, rows, q), u)
    BY LineRowsStay
  <1>3. Carried(SwiftCCCrypt(f, t, p), SwiftCCCrypt(g, t, q), u)
    BY SwiftCCCryptStays
  <1> QED
    BY <1>1, <1>2, <1>3, Zenon DEF Carried

LEMMA DartEncryptStays == ASSUME NEW f, NEW g, NEW u, Beside(f, g, u), NEW p, NEW q, p[u] = q[u] PROVE Carried(DartEncrypt(f, p), DartEncrypt(g, q), u)
  <1> DEFINE mode(h, v, k) == LineWords(h, v, k) \cap DOMAIN DartModes
             name(h, v, k) == IF mode(h, v, k) = {} THEN "AES" ELSE DartModes[CHOOSE m \in mode(h, v, k) : TRUE]
             rule(h, v, k) == <<IF "Encrypter(" \in LineWords(h, v, k) THEN "encrypter" ELSE "aes">>
             of(h, v, k)   == Sure(v, name(h, v, k), "info", rule(h, v, k))
             sel(h, k)     == {v \in Lines(h) : LineWords(h, v, k) \cap {"Encrypter(", "AES(key"} # {}}
  <1>1. \A h, k : DartEncrypt(h, k) = {of(h, v, k) : v \in sel(h, k)}
    BY DEF DartEncrypt
  <1>2. LineWords(f, u, p) = LineWords(g, u, q)
    BY SameWords
  <1>3. name(f, u, p) = name(g, u, q) /\ rule(f, u, p) = rule(g, u, q)
    BY <1>2
  <1> HIDE DEF name, rule
  <1>4. of(f, u, p) = of(g, u, q)
    BY <1>3
  <1>5. \A h, v, k : At(of(h, v, k), v)
    BY SureAt, Zenon
  <1>6. \A v \in sel(f, p) : \A x : At(x, u) /\ At(x, v) => v = u /\ u \in sel(g, q)
    BY <1>2, LinesStay
  <1> HIDE DEF of, sel
  <1> QED
    BY <1>1, <1>4, <1>5, <1>6, SMT DEF Carried

LEMMA DartStays == ASSUME NEW f, NEW g, NEW u, Beside(f, g, u), NEW p, NEW q, p[u] = q[u] PROVE Carried(DartScan(f, p), DartScan(g, q), u)
  <1>1. Carried(LineRows(f, DartPatterns, p), LineRows(g, DartPatterns, q), u)
    BY LineRowsStay
  <1>2. Carried(DartEncrypt(f, p), DartEncrypt(g, q), u)
    BY DartEncryptStays
  <1> QED
    BY <1>1, <1>2, Joined, Zenon DEF DartScan

-----------------------------------------------------------------------------
(* Python                                                                  *)
LEMMA SamePythonText == ASSUME NEW f, NEW g, NEW u, Beside(f, g, u), NEW arg PROVE PythonText(f, arg) = PythonText(g, arg)
  BY SameValues DEF PythonText, PythonConsts

LEMMA SamePythonInt == ASSUME NEW f, NEW g, NEW u, Beside(f, g, u), NEW arg PROVE PythonInt(f, arg) = PythonInt(g, arg)
  BY SameValues DEF PythonInt, PythonConsts

LEMMA PythonHashlibStays == ASSUME NEW f, NEW g, NEW u, Beside(f, g, u), NEW t PROVE Carried(PythonHashlib(f, t), PythonHashlib(g, t), u)
  <1> DEFINE of(h, v) == Sure(v, t.hashes[v.fn], HashSeverity(t.hashes[v.fn]), <<"hashlib", v.fn>>)
             sel(h)   == Calls(h, <<"hashlib">>, DOMAIN t.hashes)
  <1>1. \A h : PythonHashlib(h, t) = {of(h, v) : v \in sel(h)}
    BY DEF PythonHashlib
  <1>2. \A h, v, x : x = of(h, v) => At(x, v)
    BY SureAt, Zenon
  <1>3. of(f, u) = of(g, u)
    OBVIOUS
  <1>4. \A v \in sel(f) : \A x : At(x, u) /\ At(x, v) => v = u /\ u \in sel(g)
    BY CallsStay, Zenon
  <1> HIDE DEF of, sel
  <1> QED
    BY <1>1, <1>2, <1>3, <1>4, SMT DEF Carried

LEMMA PythonHashlibNewStays == ASSUME NEW f, NEW g, NEW u, Beside(f, g, u), NEW t PROVE Carried(PythonHashlibNew(f, t), PythonHashlibNew(g, t), u)
  <1> DEFINE a(h, v)   == PythonText(h, Arg(v, 1))
             fam(h, v) == Family(t.hashes, Lower(a(h, v).text))
             of(h, v)  == Maybe(a(h, v).text # "", Found(v, fam(h, v), 0, HashSeverity(fam(h, v)), a(h, v).conf, <<"hashlib-new", Lower(a(h, v).text)>>))
             sel(h)    == Calls(h, <<"hashlib">>, {"new"})
  <1>1. \A h : PythonHashlibNew(h, t) = UNION {of(h, v) : v \in sel(h)}
    BY DEF PythonHashlibNew
  <1>2. a(f, u) = a(g, u)
    BY SamePythonText
  <1> HIDE DEF a
  <1>3. of(f, u) = of(g, u)
    BY <1>2
  <1>4. \A h, v, x : x \in of(h, v) => At(x, v)
    <2>1. \A h, v : of(h, v) = Maybe(a(h, v).text # "", Found(v, fam(h, v), 0, HashSeverity(fam(h, v)), a(h, v).conf, <<"hashlib-new", Lower(a(h, v).text)>>))
      OBVIOUS
    <2> HIDE DEF of, a, fam
    <2> QED
      BY <2>1, MaybeAt, Zenon
  <1>5. \A v \in sel(f) : \A x : At(x, u) /\ At(x, v) => v = u /\ u \in sel(g)
    BY CallsStay, Zenon
  <1> HIDE DEF of, sel
  <1> QED
    BY <1>1, <1>3, <1>4, <1>5, SMT DEF Carried

LEMMA PythonPBKDF2Stays == ASSUME NEW f, NEW g, NEW u, Beside(f, g, u) PROVE Carried(PythonPBKDF2(f), PythonPBKDF2(g), u)
  <1> DEFINE n(h, v)  == PythonInt(h, Arg(v, 4))
             a(h, v)  == PythonText(h, Arg(v, 1))
             of(h, v) == Found(v, "PBKDF2-HMAC", 0, CheckKDFIterations("pbkdf2", n(h, v)), a(h, v).conf, <<v.fn>>)
             sel(h)   == Calls(h, <<"hashlib">>, {"pbkdf2_hmac"})
  <1>1. \A h : PythonPBKDF2(h) = {of(h, v) : v \in sel(h)}
    BY DEF PythonPBKDF2
  <1>2. n(f, u) = n(g, u)
    BY SamePythonInt
  <1>3. a(f, u) = a(g, u)
    BY SamePythonText
  <1> HIDE DEF n, a
  <1>4. of(f, u) = of(g, u)
    BY <1>2, <1>3
  <1>5. \A h, v, x : x = of(h, v) => At(x, v)
    BY FoundAt, Zenon
  <1>6. \A v \in sel(f) : \A x : At(x, u) /\ At(x, v) => v = u /\ u \in sel(g)
    BY CallsStay, Zenon
  <1> HIDE DEF of, sel
  <1> QED
    BY <1>1, <1>4, <1>5, <1>6, SMT DEF Carried

LEMMA PythonCiphersStays == ASSUME NEW f, NEW g, NEW u, Beside(f, g, u), NEW t PROVE Carried(PythonCiphers(f, t), PythonCiphers(g, t), u)
  <1> DEFINE modes(v) == Words(v) \cap DOMAIN t.modes
             mode(v)  == IF modes(v) = {} THEN "" ELSE t.modes[CHOOSE m \in modes(v) : TRUE]
             of(h, v) == Sure(v, t.ciphers[v.fn], CipherSeverity(t.ciphers[v.fn], mode(v)), <<"cipher", v.fn, mode(v)>>)
             sel(h)   == Calls(h, <<"algorithms">>, DOMAIN t.ciphers)
  <1>1. \A h : PythonCiphers(h, t) = {of(h, v) : v \in sel(h)}
    BY DEF PythonCiphers
  <1> HIDE DEF mode
  <1>2. \A h, v, x : x = of(h, v) => At(x, v)
    BY SureAt, Zenon
  <1>3. of(f, u) = of(g, u)
    OBVIOUS
  <1>4. \A v \in sel(f) : \A x : At(x, u) /\ At(x, v) => v = u /\ u \in sel(g)
    BY CallsStay, Zenon
  <1> HIDE DEF of, sel
  <1> QED
    BY <1>1, <1>2, <1>3, <1>4, SMT DEF Carried

LEMMA PythonCryptoHashesStays == ASSUME NEW f, NEW g, NEW u, Beside(f, g, u), NEW t PROVE Carried(PythonCryptoHashes(f, t), PythonCryptoHashes(g, t), u)
  <1> DEFINE of(h, v) == Sure(v, t.cryptoHashes[v.fn], HashSeverity(t.cryptoHashes[v.fn]), <<"hashes", v.fn>>)
             sel(h)   == Calls(h, <<"hashes">>, DOMAIN t.cryptoHashes)
  <1>1. \A h : PythonCryptoHashes(h, t) = {of(h, v) : v \in sel(h)}
    BY DEF PythonCryptoHashes
  <1>2. \A h, v, x : x = of(h, v) => At(x, v)
    BY SureAt, Zenon
  <1>3. of(f, u) = of(g, u)
    OBVIOUS
  <1>4. \A v \in sel(f) : \A x : At(x, u) /\ At(x, v) => v = u /\ u \in sel(g)
    BY CallsStay, Zenon
  <1> HIDE DEF of, sel
  <1> QED
    BY <1>1, <1>2, <1>3, <1>4, SMT DEF Carried

LEMMA PythonAsymmetricStays == ASSUME NEW f, NEW g, NEW u, Beside(f, g, u) PROVE Carried(PythonAsymmetric(f), PythonAsymmetric(g), u)
  <1> DEFINE k(h, v)   == PythonKeySize(h, v)
             rsa(h, v) == Found(v, "RSA", k(h, v), RSASeverity("rsa", k(h, v)), "high", <<"rsa">>)
             ec(v)     == Sure(v, "EC", "info", <<"ec">>)
             dh(h, v)  == Found(v, "DH", k(h, v), "info", "high", <<"dh">>)
             n(h, v)   == PythonInt(h, Arg(v, 1))
             dsa(h, v) == Found(v, "DSA", n(h, v), "medium", "high", <<"dsa">>)
             in(h, m, fn) == Calls(h, <<m>>, {fn})
  <1>1. \A h : PythonAsymmetric(h) =
               {rsa(h, v) : v \in in(h, "rsa", "generate_private_key")} \cup {ec(v) : v \in in(h, "ec", "generate_private_key")}
               \cup {dh(h, v) : v \in in(h, "dh", "generate_parameters")} \cup {dsa(h, v) : v \in in(h, "dsa", "generate_private_key")}
    BY DEF PythonAsymmetric
  <1>2. k(f, u) = k(g, u) /\ n(f, u) = n(g, u)
    BY SamePythonInt DEF PythonKeySize
  <1> HIDE DEF k, n
  <1>3. rsa(f, u) = rsa(g, u) /\ dh(f, u) = dh(g, u) /\ dsa(f, u) = dsa(g, u)
    BY <1>2
  <1>4. \A h, v : At(rsa(h, v), v) /\ At(ec(v), v) /\ At(dh(h, v), v) /\ At(dsa(h, v), v)
    BY FoundAt, SureAt, Zenon
  <1>5. \A m, fn : \A v \in in(f, m, fn) : \A x : At(x, u) /\ At(x, v) => v = u /\ u \in in(g, m, fn)
    BY CallsStay, Zenon
  <1> HIDE DEF rsa, ec, dh, dsa, in
  <1> QED
    BY <1>1, <1>3, <1>4, <1>5, SMT DEF Carried

LEMMA PythonEd25519Stays == ASSUME NEW f, NEW g, NEW u, Beside(f, g, u) PROVE Carried(PythonEd25519(f), PythonEd25519(g), u)
  <1> DEFINE of(h, v) == {Sure(v, "Ed25519", "info", <<"ed25519">>), Sure(v, "SHA-512", "info", <<"ed25519", "hash">>)}
             sel(h)   == Calls(h, <<"Ed25519PrivateKey">>, {"generate"})
  <1>1. \A h : PythonEd25519(h) = UNION {of(h, v) : v \in sel(h)}
    BY DEF PythonEd25519
  <1>2. \A h, v, x : x \in of(h, v) => At(x, v)
    BY SureAt, Zenon
  <1>3. of(f, u) = of(g, u)
    OBVIOUS
  <1>4. \A v \in sel(f) : \A x : At(x, u) /\ At(x, v) => v = u /\ u \in sel(g)
    BY CallsStay, Zenon
  <1> HIDE DEF of, sel
  <1> QED
    BY <1>1, <1>2, <1>3, <1>4, SMT DEF Carried

LEMMA PythonX25519Stays == ASSUME NEW f, NEW g, NEW u, Beside(f, g, u) PROVE Carried(PythonX25519(f), PythonX25519(g), u)
  <1> DEFINE of(h, v) == Sure(v, "X25519", "info", <<"x25519">>)
             sel(h)   == Calls(h, <<"X25519PrivateKey">>, {"generate"})
  <1>1. \A h : PythonX25519(h) = {of(h, v) : v \in sel(h)}
    BY DEF PythonX25519
  <1>2. \A h, v, x : x = of(h, v) => At(x, v)
    BY SureAt, Zenon
  <1>3. of(f, u) = of(g, u)
    OBVIOUS
  <1>4. \A v \in sel(f) : \A x : At(x, u) /\ At(x, v) => v = u /\ u \in sel(g)
    BY CallsStay, Zenon
  <1> HIDE DEF of, sel
  <1> QED
    BY <1>1, <1>2, <1>3, <1>4, SMT DEF Carried

LEMMA PythonKDFsStays == ASSUME NEW f, NEW g, NEW u, Beside(f, g, u), NEW t PROVE Carried(PythonKDFs(f, t), PythonKDFs(g, t), u)
  <1> DEFINE hash(v)  == {Keyword(v, "algorithm").text} \cap DOMAIN KDFHash
             of(h, v) == {Sure(v, t.kdfs[v.fn].name, "info", <<"kdf", v.fn>>)}
                          \cup {Sure(v, KDFHash[w], HashSeverity(KDFHash[w]), <<"kdf-hash", v.fn>>) : w \in hash(v)}
             sel(h)   == Plain(h, DOMAIN t.kdfs)
  <1>1. \A h : PythonKDFs(h, t) = UNION {of(h, v) : v \in sel(h)}
    BY DEF PythonKDFs
  <1> HIDE DEF hash
  <1>2. \A h, v, x : x \in of(h, v) => At(x, v)
    BY SureAt, Zenon
  <1>3. of(f, u) = of(g, u)
    OBVIOUS
  <1>4. \A v \in sel(f) : \A x : At(x, u) /\ At(x, v) => v = u /\ u \in sel(g)
    BY PlainStay, Zenon
  <1> HIDE DEF of, sel
  <1> QED
    BY <1>1, <1>2, <1>3, <1>4, SMT DEF Carried

LEMMA PythonCryptographyStays == ASSUME NEW f, NEW g, NEW u, Beside(f, g, u), NEW t PROVE Carried(PythonCryptography(f, t), PythonCryptography(g, t), u)
  <1>1. \A h, x : x \in PythonCryptography(h, t) <=>
          \/ x \in PythonCiphers(h, t) \/ x \in PythonCryptoHashes(h, t) \/ x \in PythonAsymmetric(h) \/ x \in PythonKDFs(h, t)
          \/ x \in PythonEd25519(h) \/ x \in PythonX25519(h)
    BY Zenon DEF PythonCryptography
  <1> QED
    BY <1>1, PythonCiphersStays, PythonCryptoHashesStays, PythonAsymmetricStays, PythonKDFsStays, PythonEd25519Stays, PythonX25519Stays DEF Carried

LEMMA PythonSSLStays == ASSUME NEW f, NEW g, NEW u, Beside(f, g, u), NEW t PROVE Carried(PythonSSL(f, t), PythonSSL(g, t), u)
  <1>1. Carried(PythonSSLContext(f, t), PythonSSLContext(g, t), u)
    <2> DEFINE of(v)  == RowsOf({[v EXCEPT !.fn = p] : p \in Words(v) \cap DOMAIN t.protocols}, t.protocols)
               sel(h) == Calls(h, <<"ssl">>, {"SSLContext"})
    <2>1. \A h : PythonSSLContext(h, t) = UNION {of(v) : v \in sel(h)}
      BY DEF PythonSSLContext
    <2>2. \A v : "at" \in DOMAIN v => \A x \in of(v) : At(x, v)
      BY DEF RowsOf, Sure, Found, At
    <2>3. \A v \in sel(f) : "at" \in DOMAIN v
      BY Zenon DEF Beside, Calls
    <2>4. \A v \in sel(f) : \A x : At(x, u) /\ At(x, v) => v = u /\ u \in sel(g)
      BY CallsStay, Zenon
    <2> HIDE DEF of, sel
    <2> QED
      BY <2>1, <2>2, <2>3, <2>4, SMT DEF Carried
  <1>2. Carried(PythonTLSVersion(f, t), PythonTLSVersion(g, t), u)
    <2> DEFINE sel(h) == {v \in h.uses : v.on = <<"ssl", "TLSVersion">>}
    <2>1. \A v \in sel(f) : \A x : At(x, u) /\ At(x, v) => v = u /\ u \in sel(g)
      BY OnlyOne
    <2> HIDE DEF sel
    <2>2. Carried(RowsOf(sel(f), t.versions), RowsOf(sel(g), t.versions), u)
      BY <2>1, RowsStay, Zenon
    <2> QED
      BY <2>2 DEF PythonTLSVersion, sel
  <1>3. Carried(PythonCertNone(f), PythonCertNone(g), u)
    <2> DEFINE of(v)  == Sure(v, "Certificate Validation Disabled", "critical", <<"cert-none">>)
               sel(h) == {v \in h.uses : v.on = <<"ssl">> /\ v.fn = "CERT_NONE"}
    <2>1. \A h : PythonCertNone(h) = {of(v) : v \in sel(h)}
      BY DEF PythonCertNone
    <2>2. \A v : At(of(v), v)
      BY SureAt, Zenon
    <2>3. \A v \in sel(f) : \A x : At(x, u) /\ At(x, v) => v = u /\ u \in sel(g)
      BY OnlyOne
    <2> HIDE DEF of, sel
    <2> QED
      BY <2>1, <2>2, <2>3, SMT DEF Carried
  <1>4. Carried(PythonWrapSocket(f), PythonWrapSocket(g), u)
    BY CallsStay, SureAt, SMT DEF PythonWrapSocket, Carried
  <1>5. \A h, x : x \in PythonSSL(h, t) <=>
          x \in PythonSSLContext(h, t) \/ x \in PythonTLSVersion(h, t) \/ x \in PythonCertNone(h) \/ x \in PythonWrapSocket(h)
    BY Zenon DEF PythonSSL
  <1> QED
    BY <1>1, <1>2, <1>3, <1>4, <1>5 DEF Carried

LEMMA SamePythonImports ==
  ASSUME NEW f, NEW g, NEW u, ImportsOf("python", f, u) = ImportsOf("python", g, u)
  PROVE  /\ \A n, paths : n = u.fn \/ u.on = <<n>> =>
              (n \in ImportedNames(f, paths) => n \in ImportedNames(g, paths)) /\ (n \in ImportAliases(f, paths) => n \in ImportAliases(g, paths))
         /\ \A n : u.on = <<n>> \/ n \in Switches["python"] => (PlainImport(f, n) => PlainImport(g, n))
         /\ \A paths : paths \subseteq Switches["python"] => (Froms(f, paths) # {} => Froms(g, paths) # {})
         /\ \A n \in Switches["python"] : n \in ModuleTokens(f) => n \in ModuleTokens(g)
  <1>1. \A i, n : (i.path = n \/ i.last = n \/ i.as = n) /\ (n = u.fn \/ u.on = <<n>> \/ n \in Switches["python"]) => (i \in f.imports <=> i \in g.imports)
    BY Bearing, SameImport
  <1>2. \A n, paths : n = u.fn \/ u.on = <<n>> =>
              (n \in ImportedNames(f, paths) => n \in ImportedNames(g, paths)) /\ (n \in ImportAliases(f, paths) => n \in ImportAliases(g, paths))
    BY <1>1, Zenon DEF ImportedNames, ImportAliases, Froms
  <1>3. \A n : u.on = <<n>> \/ n \in Switches["python"] => (PlainImport(f, n) => PlainImport(g, n))
    BY <1>1, Zenon DEF PlainImport
  <1>4. \A paths : paths \subseteq Switches["python"] => (Froms(f, paths) # {} => Froms(g, paths) # {})
    BY <1>1, Zenon DEF Froms
  <1>5. \A n \in Switches["python"] : n \in ModuleTokens(f) => n \in ModuleTokens(g)
    BY <1>1, Zenon DEF ModuleTokens
  <1> QED
    BY <1>2, <1>3, <1>4, <1>5

LEMMA PyCryptodomeStays == ASSUME NEW f, NEW g, NEW u, Beside(f, g, u), NEW t PROVE Carried(PyCryptodome(f, t), PyCryptodome(g, t), u)
  <1> DEFINE fam(i) == t.pycryptoImports[i.last]
             of(i)  == [at |-> 0, name |-> fam(i), size |-> 0, sev |-> IF fam(i) \in BrokenFamilies THEN "high" ELSE "info",
                        conf |-> "high", rule |-> <<"pycrypto-import", i.last>>]
             sel    == {i \in Froms(f, PyCrypto) : i.as = "" /\ i.last \in DOMAIN t.pycryptoImports}
  <1>1. \A x \in PyCryptodome(f, t) : x.at = 0
    <2>1. PyCryptodome(f, t) = {of(i) : i \in sel}
      BY DEF PyCryptodome
    <2>2. \A i : of(i).at = 0
      OBVIOUS
    <2> HIDE DEF of, sel
    <2> QED
      BY <2>1, <2>2
  <1> QED
    BY <1>1 DEF Carried, At, Beside

LEMMA PyCryptodomeUsageStays == ASSUME NEW f, NEW g, NEW u, Beside(f, g, u), NEW t, ImportsOf("python", f, u) = ImportsOf("python", g, u) PROVE Carried(PyCryptodomeUsage(f, t), PyCryptodomeUsage(g, t), u)
  <1> DEFINE modes(v)  == Words(v) \cap DOMAIN t.pycryptoModes
             mode(v)   == IF modes(v) = {} THEN "" ELSE t.pycryptoModes[CHOOSE m \in modes(v) : TRUE]
             cipher(v) == Sure(v, t.pycryptoCiphers[v.on[1]], CipherSeverity(t.pycryptoCiphers[v.on[1]], mode(v)), <<"pycrypto", v.on[1], mode(v)>>)
             digest(v) == Sure(v, t.pycryptoHashes[v.on[1]], HashSeverity(t.pycryptoHashes[v.on[1]]), <<"pycrypto", v.on[1]>>)
             in(h, D)  == {v \in PyCryptodomeUses(h) : v.on[1] \in D}
  <1>1. \A h : PyCryptodomeUsage(h, t) =
               {cipher(v) : v \in in(h, DOMAIN t.pycryptoCiphers)} \cup {digest(v) : v \in in(h, DOMAIN t.pycryptoHashes \ DOMAIN t.pycryptoCiphers)}
    BY DEF PyCryptodomeUsage
  <1> HIDE DEF mode
  <1>2. \A v : At(cipher(v), v) /\ At(digest(v), v)
    BY SureAt, Zenon
  <1>3. \A v \in PyCryptodomeUses(f) : \A x : At(x, u) /\ At(x, v) => v = u /\ u \in PyCryptodomeUses(g)
    <2> SUFFICES ASSUME NEW v \in PyCryptodomeUses(f), NEW x, At(x, u), At(x, v) PROVE v = u /\ u \in PyCryptodomeUses(g)
      OBVIOUS
    <2>1. PICK n \in ImportedNames(f, PyCrypto) : v \in Calls(f, <<n>>, {"new"})
      BY Zenon DEF PyCryptodomeUses
    <2>2. v = u /\ u \in Calls(g, <<n>>, {"new"})
      BY <2>1, CallsStay, Zenon
    <2>3. u.on = <<n>>
      BY <2>2, Zenon DEF Calls
    <2>4. n \in ImportedNames(g, PyCrypto)
      BY <2>1, <2>3, SamePythonImports, Zenon
    <2> QED
      BY <2>2, <2>4, Zenon DEF PyCryptodomeUses
  <1>4. \A D : \A v \in in(f, D) : \A x : At(x, u) /\ At(x, v) => v = u /\ u \in in(g, D)
    BY <1>3, Zenon
  <1> HIDE DEF cipher, digest, in
  <1> QED
    BY <1>1, <1>2, <1>4, SMT DEF Carried

LEMMA PycaAEADStays == ASSUME NEW f, NEW g, NEW u, Beside(f, g, u), NEW t, ImportsOf("python", f, u) = ImportsOf("python", g, u) PROVE Carried(PycaAEAD(f, t), PycaAEAD(g, t), u)
  <1> DEFINE sel(h) == Plain(h, DOMAIN t.aead \cap ImportedNames(h, {"cryptography.hazmat.primitives.ciphers.aead"}))
  <1>1. ASSUME NEW v \in sel(f), NEW x, At(x, u), At(x, v) PROVE v = u /\ u \in sel(g)
    <2>1. v = u /\ u.fn \in DOMAIN t.aead \cap ImportedNames(f, {"cryptography.hazmat.primitives.ciphers.aead"})
      BY <1>1, PlainStay, Zenon DEF Plain, Calls
    <2>2. u.fn \in ImportedNames(g, {"cryptography.hazmat.primitives.ciphers.aead"})
      BY <2>1, SamePythonImports, Zenon
    <2>3. u \in g.uses /\ u.kind = "call" /\ u.on = <<>>
      BY <1>1, <2>1, OnlyOne, Zenon DEF Plain, Calls
    <2> QED
      BY <2>1, <2>2, <2>3, Zenon DEF Plain, Calls
  <1> HIDE DEF sel
  <1>2. Carried(RowsOf(sel(f), t.aead), RowsOf(sel(g), t.aead), u)
    BY <1>1, RowsStay, Zenon
  <1> QED
    BY <1>2 DEF PycaAEAD, sel

LEMMA PythonWeakRandomStays == ASSUME NEW f, NEW g, NEW u, Beside(f, g, u), NEW t, ImportsOf("python", f, u) = ImportsOf("python", g, u) PROVE Carried(PythonWeakRandom(f, t), PythonWeakRandom(g, t), u)
  <1> DEFINE of(v)  == Found(v, "Weak PRNG (random)", 0, "high", "medium", <<"random", v.fn>>)
             sel(h) == {v \in Calls(h, <<"random">>, t.random) : PlainImport(h, "random") /\ v.to \in SecurityContext}
  <1>1. \A h : PythonWeakRandom(h, t) = {of(v) : v \in sel(h)}
    BY DEF PythonWeakRandom
  <1>2. \A v : At(of(v), v)
    BY FoundAt, Zenon
  <1>3. ASSUME NEW v \in sel(f), NEW x, At(x, u), At(x, v) PROVE v = u /\ u \in sel(g)
    <2>1. v = u /\ u \in Calls(g, <<"random">>, t.random)
      BY <1>3, CallsStay, Zenon
    <2>2. PlainImport(g, "random")
      BY <2>1, SamePythonImports, Zenon DEF Calls
    <2> QED
      BY <2>1, <2>2
  <1> HIDE DEF of, sel
  <1> QED
    BY <1>1, <1>2, <1>3, SMT DEF Carried

LEMMA PythonHMACStays == ASSUME NEW f, NEW g, NEW u, Beside(f, g, u), NEW t, NEW p, NEW q, p[u] = q[u] PROVE Carried(PythonHMAC(f, t, p), PythonHMAC(g, t, q), u)
  <1> DEFINE hash(h, k, v) == PythonHMACHash(h, t, k, v)
             of(h, k, v)   == {Found(v, "HMAC", 0, "info", hash(h, k, v).conf, <<"hmac", hash(h, k, v).text>>)} \cup PythonInnerHash(v, hash(h, k, v))
             sel(h)        == Calls(h, <<"hmac">>, {"new"})
  <1>1. \A h, k : PythonHMAC(h, t, k) = UNION {of(h, k, v) : v \in sel(h)}
    BY DEF PythonHMAC
  <1>2. hash(f, p, u) = hash(g, q, u)
    <2> DEFINE refs     == Words(u) \cap {r \in DOMAIN HashlibRef : HashlibRef[r] \in DOMAIN t.hashes}
               quoted   == {i \in DOMAIN QuotedHashes : QuotedHashes[i] \in DOMAIN t.hashes /\ \E k \in DOMAIN u.args : u.args[k] = Lit(QuotedHashes[i])}
               named(h) == IF Keyword(u, "digestmod").kind = "identifier" THEN Resolve(PythonConsts(h), Keyword(u, "digestmod")) ELSE Unknown
               some(k)  == IF k[u] \in refs THEN k[u] ELSE CHOOSE r \in refs : TRUE
               ref(k)   == [text |-> t.hashes[HashlibRef[some(k)]], conf |-> "high"]
               quote    == [text |-> t.hashes[QuotedHashes[CHOOSE i \in quoted : \A j \in quoted : i <= j]], conf |-> "high"]
    <2>1. \A h, k : PythonHMACHash(h, t, k, u) = IF refs # {} THEN ref(k) ELSE IF quoted # {} THEN quote ELSE named(h)
      BY DEF PythonHMACHash
    <2>2. ref(p) = ref(q)
      <3>1. some(p) = some(q)
        OBVIOUS
      <3> QED
        BY <3>1
    <2>3. named(f) = named(g)
      BY SameValues DEF PythonConsts
    <2> HIDE DEF refs, quoted, named, ref, quote
    <2> QED
      BY <2>1, <2>2, <2>3
  <1> HIDE DEF hash
  <1>3. of(f, p, u) = of(g, q, u)
    BY <1>2
  <1>4. \A v, d, x : x \in PythonInnerHash(v, d) => At(x, v)
    BY MaybeAt, Zenon DEF PythonInnerHash
  <1>5. \A h, k, v, x : x \in of(h, k, v) => At(x, v)
    BY <1>4, FoundAt, Zenon
  <1>6. \A v \in sel(f) : \A x : At(x, u) /\ At(x, v) => v = u /\ u \in sel(g)
    BY CallsStay, Zenon
  <1> HIDE DEF of, sel
  <1> QED
    BY <1>1, <1>3, <1>5, <1>6, SMT DEF Carried

LEMMA PythonPKCS1v15Stays == ASSUME NEW f, NEW g, NEW u, Beside(f, g, u) PROVE Carried(PythonPKCS1v15(f), PythonPKCS1v15(g), u)
  <1> DEFINE of(h, v) == Sure(v, "RSA-PKCS1v15", "medium", <<"pkcs1v15">>)
             sel(h)   == Calls(h, <<"padding">>, {"PKCS1v15"}) \cup Plain(h, {"PKCS1v15"})
  <1>1. \A h : PythonPKCS1v15(h) = {of(h, v) : v \in sel(h)}
    BY DEF PythonPKCS1v15
  <1>2. \A h, v, x : x = of(h, v) => At(x, v)
    BY SureAt, Zenon
  <1>3. of(f, u) = of(g, u)
    OBVIOUS
  <1>4. \A v \in sel(f) : \A x : At(x, u) /\ At(x, v) => v = u /\ u \in sel(g)
    BY CallsStay, PlainStay, SMT
  <1> HIDE DEF of, sel
  <1> QED
    BY <1>1, <1>2, <1>3, <1>4, SMT DEF Carried

LEMMA PythonFernetStays == ASSUME NEW f, NEW g, NEW u, Beside(f, g, u) PROVE Carried(PythonFernet(f), PythonFernet(g), u)
  <1> DEFINE of(v)  == Sure(v, v.fn, "info", <<"fernet">>)
             key(v) == Sure(v, "Fernet", "info", <<"fernet">>)
  <1>1. \A h : PythonFernet(h) = {of(v) : v \in Plain(h, {"Fernet", "MultiFernet"})} \cup {key(v) : v \in Calls(h, <<"Fernet">>, {"generate_key"})}
    BY DEF PythonFernet
  <1>2. \A v : At(of(v), v) /\ At(key(v), v)
    BY SureAt, Zenon
  <1> HIDE DEF of, key
  <1> QED
    BY <1>1, <1>2, PlainStay, CallsStay, SMT DEF Carried

LEMMA PythonMACsStays == ASSUME NEW f, NEW g, NEW u, Beside(f, g, u) PROVE Carried(PythonMACs(f), PythonMACs(g), u)
  <1> DEFINE of(h, v) == Sure(v, v.fn, "info", <<"mac">>)
             sel(h)   == Plain(h, {"CMAC", "Poly1305"})
  <1>1. \A h : PythonMACs(h) = {of(h, v) : v \in sel(h)}
    BY DEF PythonMACs
  <1>2. \A h, v, x : x = of(h, v) => At(x, v)
    BY SureAt, Zenon
  <1>3. of(f, u) = of(g, u)
    OBVIOUS
  <1>4. \A v \in sel(f) : \A x : At(x, u) /\ At(x, v) => v = u /\ u \in sel(g)
    BY PlainStay, Zenon
  <1> HIDE DEF of, sel
  <1> QED
    BY <1>1, <1>2, <1>3, <1>4, SMT DEF Carried

LEMMA PythonBLSStays == ASSUME NEW f, NEW g, NEW u, Beside(f, g, u), NEW t, ImportsOf("python", f, u) = ImportsOf("python", g, u) PROVE Carried(PythonBLS(f, t), PythonBLS(g, t), u)
  <1> DEFINE of(v)    == Sure(v, "BLS12-381", "info", <<"bls", v.fn>>)
             names(h) == ImportedNames(h, BLSModules) \cup ImportAliases(h, BLSModules)
             sel(h)   == UNION {Calls(h, <<n>>, t.bls) : n \in names(h)}
  <1>1. \A h : PythonBLS(h, t) = {of(v) : v \in sel(h)}
    BY DEF PythonBLS
  <1>2. \A v : At(of(v), v)
    BY SureAt, Zenon
  <1>3. ASSUME NEW v \in sel(f), NEW x, At(x, u), At(x, v) PROVE v = u /\ u \in sel(g)
    <2>1. PICK n \in names(f) : v \in Calls(f, <<n>>, t.bls)
      BY Zenon
    <2>2. v = u /\ u \in Calls(g, <<n>>, t.bls)
      BY <1>3, <2>1, CallsStay, Zenon
    <2>3. n \in names(g)
      <3>1. u.on = <<n>>
        BY <2>2, Zenon DEF Calls
      <3> QED
        BY <2>1, <3>1, SamePythonImports
    <2> QED
      BY <2>2, <2>3, Zenon
  <1> HIDE DEF of, sel
  <1> QED
    BY <1>1, <1>2, <1>3, SMT DEF Carried

LEMMA PythonSchnorrStays == ASSUME NEW f, NEW g, NEW u, Beside(f, g, u), ImportsOf("python", f, u) = ImportsOf("python", g, u) PROVE Carried(PythonSchnorr(f), PythonSchnorr(g), u)
  <1> DEFINE of(v)   == Sure(v, "Schnorr", "info", <<"schnorr", v.fn>>)
             asks(h) == Froms(h, SchnorrModules) # {} \/ \E m \in SchnorrModules : PlainImport(h, m)
             sel(h)  == {v \in h.uses : asks(h) /\ v.kind = "call" /\ v.on # <<>> /\ v.fn \in {"sign_schnorr", "verify_schnorr"}}
  <1>1. \A h : PythonSchnorr(h) = {of(v) : v \in sel(h)}
    BY DEF PythonSchnorr
  <1>2. \A v : At(of(v), v)
    BY SureAt, Zenon
  <1>3. asks(f) => asks(g)
    <2>1. SchnorrModules \subseteq Switches["python"]
      BY DEF Switches, SupportedLanguages, Required
    <2> QED
      BY <2>1, SamePythonImports
  <1> HIDE DEF asks
  <1>4. \A v \in sel(f) : \A x : At(x, u) /\ At(x, v) => v = u /\ u \in sel(g)
    BY <1>3, OnlyOne
  <1> HIDE DEF of, sel
  <1> QED
    BY <1>1, <1>2, <1>4, SMT DEF Carried

LEMMA PythonTier2Stays ==
  ASSUME NEW f, NEW g, NEW u, Beside(f, g, u), NEW t, \A r \in t.tier2 : r \in PythonEmbedded.tier2, ImportsOf("python", f, u) = ImportsOf("python", g, u)
  PROVE  Carried(PythonTier2(f, t), PythonTier2(g, t), u)
  <1> DEFINE of(r, v) == Sure(v, r.name, "medium", <<"tier2", r.name>>)
             rows(h)  == {r \in t.tier2 : r.token \in ModuleTokens(h)}
             all(h, r) == {of(r, v) : v \in Calls(h, r.on, {r.fn})}
  <1>1. \A h : PythonTier2(h, t) = UNION {all(h, r) : r \in rows(h)}
    BY DEF PythonTier2
  <1>2. \A r, v : At(of(r, v), v)
    BY SureAt, Zenon
  <1>3. \A r \in rows(f) : r \in rows(g)
    <2>1. \A r \in t.tier2 : r.token \in Switches["python"]
      <3>1. Switches["python"] = SchnorrModules \cup {r.token : r \in PythonEmbedded.tier2}
        BY DEF Switches, SupportedLanguages, Required
      <3> QED
        BY <3>1
    <2> QED
      BY <2>1, SamePythonImports
  <1> HIDE DEF of, rows
  <1>4. \A r : Carried(all(f, r), all(g, r), u)
    BY <1>2, CallsStay, SMT DEF Carried
  <1> HIDE DEF all
  <1> QED
    BY <1>1, <1>3, <1>4, SMT DEF Carried

LEMMA PythonStays ==
  ASSUME NEW f, NEW g, NEW u, Beside(f, g, u), NEW t, \A r \in t.tier2 : r \in PythonEmbedded.tier2, NEW p, NEW q, p[u] = q[u], ImportsOf("python", f, u) = ImportsOf("python", g, u)
  PROVE  Carried(PythonScan(f, t, p), PythonScan(g, t, q), u)
  <1>1. \A h, k, x : x \in PythonScan(h, t, k) <=>
          \/ x \in PythonHashlib(h, t) \/ x \in PythonHashlibNew(h, t) \/ x \in PythonPBKDF2(h) \/ x \in PythonCryptography(h, t) \/ x \in PythonSSL(h, t)
          \/ x \in PyCryptodome(h, t) \/ x \in PyCryptodomeUsage(h, t) \/ x \in PycaAEAD(h, t) \/ x \in PythonWeakRandom(h, t) \/ x \in PythonHMAC(h, t, k)
          \/ x \in PythonPKCS1v15(h) \/ x \in PythonFernet(h) \/ x \in PythonMACs(h) \/ x \in PythonBLS(h, t) \/ x \in PythonSchnorr(h) \/ x \in PythonTier2(h, t)
    BY SMT DEF PythonScan
  <1>2. Carried(PythonHMAC(f, t, p), PythonHMAC(g, t, q), u)
    BY PythonHMACStays
  <1>3. /\ Carried(PythonHashlib(f, t), PythonHashlib(g, t), u) /\ Carried(PythonHashlibNew(f, t), PythonHashlibNew(g, t), u)
        /\ Carried(PythonPBKDF2(f), PythonPBKDF2(g), u) /\ Carried(PythonCryptography(f, t), PythonCryptography(g, t), u)
        /\ Carried(PythonSSL(f, t), PythonSSL(g, t), u) /\ Carried(PyCryptodome(f, t), PyCryptodome(g, t), u)
    BY PythonHashlibStays, PythonHashlibNewStays, PythonPBKDF2Stays, PythonCryptographyStays, PythonSSLStays, PyCryptodomeStays
  <1>4. /\ Carried(PyCryptodomeUsage(f, t), PyCryptodomeUsage(g, t), u) /\ Carried(PycaAEAD(f, t), PycaAEAD(g, t), u)
        /\ Carried(PythonWeakRandom(f, t), PythonWeakRandom(g, t), u) /\ Carried(PythonBLS(f, t), PythonBLS(g, t), u)
        /\ Carried(PythonSchnorr(f), PythonSchnorr(g), u) /\ Carried(PythonTier2(f, t), PythonTier2(g, t), u)
    BY PyCryptodomeUsageStays, PycaAEADStays, PythonWeakRandomStays, PythonBLSStays, PythonSchnorrStays, PythonTier2Stays
  <1>5. /\ Carried(PythonPKCS1v15(f), PythonPKCS1v15(g), u) /\ Carried(PythonFernet(f), PythonFernet(g), u) /\ Carried(PythonMACs(f), PythonMACs(g), u)
    BY PythonPKCS1v15Stays, PythonFernetStays, PythonMACsStays
  <1> QED
    BY <1>1, <1>2, <1>3, <1>4, <1>5 DEF Carried

-----------------------------------------------------------------------------
(* Go                                                                      *)
(* Whatever package of the use is meant, the same is in the other file.    *)
Agree(as, bs, u) == \A path : (path \in DOMAIN as /\ u.on = <<as[path]>>) <=> (path \in DOMAIN bs /\ u.on = <<bs[path]>>)
LEMMA AgreeIsSymmetric == \A as, bs, u : Agree(as, bs, u) => Agree(bs, as, u)
  BY DEF Agree

(* The map's order can have been such that the other file means the same   *)
(* packages.                                                               *)
LEMMA NameOfImport == \A h, p, n : n \in Names(h, p) <=> \E i \in h.imports : i.path = p /\ n = Name(i)
  BY Zenon DEF Names

LEMMA AliasesStay ==
  ASSUME NEW f, NEW g, NEW u, ImportsOf("go", f, u) = ImportsOf("go", g, u), NEW as \in Aliases(f)
  PROVE  \E bs \in Aliases(g) : Agree(as, bs, u)
  <1> DEFINE paths   == {i.path : i \in g.imports}
             some(p) == IF p \in DOMAIN as /\ as[p] \in Names(g, p) THEN as[p] ELSE CHOOSE n \in Names(g, p) : TRUE
             bs      == [p \in paths |-> some(p)]
  <1>1. DOMAIN as = {i.path : i \in f.imports} /\ \A p \in DOMAIN as : as[p] \in Names(f, p)
    BY DEF Aliases
  <1>2. \A p \in paths : some(p) \in Names(g, p) /\ some(p) \in {Name(i) : i \in g.imports}
    <2>1. \A p \in paths : \E n : n \in Names(g, p)
      BY DEF Names
    <2>2. \A p \in paths : some(p) \in Names(g, p)
      BY <2>1
    <2> QED
      BY <2>2 DEF Names
  <1>3. bs \in Aliases(g)
    <2> HIDE DEF some
    <2> QED
      BY <1>2 DEF Aliases
  <1>4. \A h, p, n : n \in Names(h, p) <=> \E i \in h.imports : i.path = p /\ n = Name(i)
    BY NameOfImport, Zenon
  <1>5. \A i : u.on = <<Name(i)>> => BearsOn("go", i, u)
    BY Bearing DEF Name
  <1>6. \A i, j : i.path = j.path /\ u.on = <<Name(j)>> /\ j \in f.imports => (i \in f.imports => i \in g.imports)
    BY <1>5, Zenon DEF ImportsOf
  <1>7. ASSUME NEW q, q \in DOMAIN as, u.on = <<as[q]>> PROVE q \in paths /\ some(q) = as[q]
    <2>0. as[q] \in Names(f, q)
      BY <1>1, <1>7
    <2>1. PICK i \in f.imports : i.path = q /\ as[q] = Name(i)
      <3>1. \A n : n \in Names(f, q) => \E i \in f.imports : i.path = q /\ n = Name(i)
        BY <1>4
      <3> QED
        BY <3>1, <2>0, Zenon
    <2>2. i \in g.imports
      BY <1>6, <1>7, <2>1
    <2>3. as[q] \in Names(g, q)
      BY <1>4, <2>1, <2>2
    <2> QED
      BY <1>7, <2>1, <2>2, <2>3
  <1>8. ASSUME NEW q \in paths, u.on = <<some(q)>> PROVE q \in DOMAIN as /\ some(q) = as[q]
    <2> HIDE DEF some
    <2>1. PICK j \in g.imports : j.path = q /\ some(q) = Name(j)
      BY <1>2, <1>4
    <2>2. j \in f.imports
      BY <1>5, <1>8, <2>1, SameImport, Zenon
    <2>3. q \in DOMAIN as
      BY <1>1, <2>1, <2>2
    <2>7. as[q] \in Names(f, q)
      BY <1>1, <2>3
    <2>4. PICK i \in f.imports : i.path = q /\ as[q] = Name(i)
      <3>1. \A n : n \in Names(f, q) => \E i \in f.imports : i.path = q /\ n = Name(i)
        BY <1>4
      <3> QED
        BY <3>1, <2>7, Zenon
    <2>5. i \in g.imports
      BY <1>6, <1>8, <2>1, <2>2, <2>4
    <2>6. as[q] \in Names(g, q)
      BY <1>4, <2>4, <2>5
    <2> QED
      BY <2>3, <2>6 DEF some
  <1> HIDE DEF some, paths
  <1>9. DOMAIN bs = paths /\ \A p \in paths : bs[p] = some(p)
    OBVIOUS
  <1> HIDE DEF bs
  <1>10. Agree(as, bs, u)
    BY <1>7, <1>8, <1>9 DEF Agree
  <1> QED
    BY <1>3, <1>10

LEMMA CallsOfStay ==
  ASSUME NEW f, NEW g, NEW u, Beside(f, g, u), NEW as, NEW bs, Agree(as, bs, u), NEW path \in DOMAIN as, NEW fns, NEW v \in CallsOf(f, as[path], fns), NEW x, At(x, u), At(x, v)
  PROVE  v = u /\ path \in DOMAIN bs /\ u \in CallsOf(g, bs[path], fns)
  <1>1. v = u /\ u \in Calls(g, <<as[path]>>, fns)
    BY CallsStay, Zenon DEF CallsOf
  <1>2. u.on = <<as[path]>>
    BY <1>1, Zenon DEF Calls
  <1>3. path \in DOMAIN bs /\ u.on = <<bs[path]>>
    BY <1>2 DEF Agree
  <1> QED
    BY <1>1, <1>2, <1>3 DEF CallsOf

LEMMA GoRowsStay ==
  ASSUME NEW f, NEW g, NEW u, Beside(f, g, u), NEW as, NEW bs, Agree(as, bs, u), NEW path, NEW rows
  PROVE  Carried(GoRows(f, as, path, rows), GoRows(g, bs, path, rows), u)
  <1> DEFINE of(v) == Sure(v, rows[v.fn].name, rows[v.fn].sev, <<path, v.fn>>)
  <1>1. \A h, cs : GoRows(h, cs, path, rows) = IF path \notin DOMAIN cs THEN {} ELSE {of(v) : v \in CallsOf(h, cs[path], DOMAIN rows)}
    BY DEF GoRows
  <1>2. \A v : At(of(v), v)
    BY SureAt, Zenon
  <1> HIDE DEF of
  <1>3. GoRows(f, as, path, rows) = IF path \notin DOMAIN as THEN {} ELSE {of(v) : v \in CallsOf(f, as[path], DOMAIN rows)}
    BY <1>1
  <1>4. GoRows(g, bs, path, rows) = IF path \notin DOMAIN bs THEN {} ELSE {of(v) : v \in CallsOf(g, bs[path], DOMAIN rows)}
    BY <1>1
  <1>5. ASSUME NEW x \in GoRows(f, as, path, rows), At(x, u) PROVE x \in GoRows(g, bs, path, rows)
    <2>1. path \in DOMAIN as
      BY <1>3, <1>5
    <2>2. PICK v \in CallsOf(f, as[path], DOMAIN rows) : x = of(v)
      BY <1>3, <1>5, <2>1
    <2>3. At(x, v)
      BY <1>2, <2>2
    <2>4. v = u /\ path \in DOMAIN bs /\ u \in CallsOf(g, bs[path], DOMAIN rows)
      BY <1>5, <2>1, <2>3, CallsOfStay
    <2> QED
      BY <1>4, <2>2, <2>4
  <1> QED
    BY <1>5 DEF Carried

LEMMA GoRowsOfAnyStay ==
  ASSUME NEW f, NEW g, NEW u, Beside(f, g, u), ImportsOf("go", f, u) = ImportsOf("go", g, u), NEW as, NEW bs, Agree(as, bs, u), NEW lasts \in SUBSET Switches["go"], NEW rows
  PROVE  Carried(GoRowsOfAny(f, as, lasts, rows), GoRowsOfAny(g, bs, lasts, rows), u)
  <1> DEFINE paths(h) == {i.path : i \in {i \in h.imports : i.last \in lasts}}
  <1>1. \A i : i.last \in lasts => (i \in f.imports <=> i \in g.imports)
    BY Bearing, SameImport
  <1>2. paths(f) = paths(g)
    BY <1>1
  <1> DEFINE some(h) == CHOOSE path \in paths(h) : TRUE
  <1>3. \A h, cs : GoRowsOfAny(h, cs, lasts, rows) = IF paths(h) = {} THEN {} ELSE GoRows(h, cs, some(h), rows)
    BY DEF GoRowsOfAny
  <1> HIDE DEF paths
  <1>6. some(f) = some(g)
    BY <1>2
  <1> HIDE DEF some
  <1>4. CASE paths(f) = {}
    <2>1. GoRowsOfAny(f, as, lasts, rows) = {}
      BY <1>3, <1>4
    <2> QED
      BY <2>1 DEF Carried
  <1>5. CASE paths(f) # {}
    <2>1. GoRowsOfAny(f, as, lasts, rows) = GoRows(f, as, some(f), rows)
      BY <1>3, <1>5
    <2>2. GoRowsOfAny(g, bs, lasts, rows) = GoRows(g, bs, some(f), rows)
      BY <1>2, <1>3, <1>5, <1>6
    <2> QED
      BY <2>1, <2>2, GoRowsStay
  <1> QED
    BY <1>4, <1>5

LEMMA SameGoConsts == ASSUME NEW f, NEW g, NEW u, Beside(f, g, u) PROVE GoConsts(f) = GoConsts(g)
  BY DEF GoConsts, GoAssigned, Beside

LEMMA GoRSAStays == ASSUME NEW f, NEW g, NEW u, Beside(f, g, u), NEW as, NEW bs, Agree(as, bs, u) PROVE Carried(GoRSA(f, as), GoRSA(g, bs), u)
  <1> DEFINE of(h, v)  == Found(v, "RSA", GoRSAKeySize(h, v), "info", "high", <<"crypto/rsa", v.fn>>)
             key(h, cs) == IF "crypto/rsa" \notin DOMAIN cs THEN {} ELSE {of(h, v) : v \in CallsOf(h, cs["crypto/rsa"], {"GenerateKey"})}
  <1>1. of(f, u) = of(g, u)
    BY SameGoConsts DEF GoRSAKeySize
  <1>2. \A h, v : At(of(h, v), v)
    BY FoundAt, Zenon
  <1>3. Carried(key(f, as), key(g, bs), u)
    <2> HIDE DEF of
    <2> SUFFICES ASSUME NEW x \in key(f, as), At(x, u) PROVE x \in key(g, bs)
      BY DEF Carried
    <2>1. "crypto/rsa" \in DOMAIN as /\ \E v \in CallsOf(f, as["crypto/rsa"], {"GenerateKey"}) : x = of(f, v)
      OBVIOUS
    <2>2. PICK v \in CallsOf(f, as["crypto/rsa"], {"GenerateKey"}) : x = of(f, v)
      BY <2>1
    <2>4. At(x, v)
      BY <1>2, <2>2
    <2>3. v = u /\ "crypto/rsa" \in DOMAIN bs /\ u \in CallsOf(g, bs["crypto/rsa"], {"GenerateKey"})
      BY <2>1, <2>4, CallsOfStay
    <2> QED
      BY <1>1, <2>2, <2>3
  <1> QED
    BY <1>3, GoRowsStay, Joined, Zenon DEF GoRSA

LEMMA GoBcryptStays == ASSUME NEW f, NEW g, NEW u, Beside(f, g, u), NEW as, NEW bs, Agree(as, bs, u) PROVE Carried(GoBcrypt(f, as), GoBcrypt(g, bs), u)
  <1> DEFINE path == XCrypto \o "bcrypt"
             of(h, v) == Sure(v, "bcrypt", CheckKDFIterations("bcrypt", Atoi(Resolve(GoConsts(h), Arg(v, 2)).text)), <<path, v.fn>>)
             key(h, cs) == IF path \notin DOMAIN cs THEN {} ELSE {of(h, v) : v \in CallsOf(h, cs[path], {"GenerateFromPassword"})}
  <1>1. of(f, u) = of(g, u)
    BY SameGoConsts
  <1>2. \A h, v : At(of(h, v), v)
    BY SureAt, Zenon
  <1>3. Carried(key(f, as), key(g, bs), u)
    <2> HIDE DEF of, path
    <2> SUFFICES ASSUME NEW x \in key(f, as), At(x, u) PROVE x \in key(g, bs)
      BY DEF Carried
    <2>1. path \in DOMAIN as /\ \E v \in CallsOf(f, as[path], {"GenerateFromPassword"}) : x = of(f, v)
      OBVIOUS
    <2>2. PICK v \in CallsOf(f, as[path], {"GenerateFromPassword"}) : x = of(f, v)
      BY <2>1
    <2>4. At(x, v)
      BY <1>2, <2>2
    <2>3. v = u /\ path \in DOMAIN bs /\ u \in CallsOf(g, bs[path], {"GenerateFromPassword"})
      BY <2>1, <2>4, CallsOfStay
    <2> QED
      BY <1>1, <2>2, <2>3
  <1> QED
    BY <1>3, GoRowsStay, Joined, Zenon DEF GoBcrypt

LEMMA GoTLSStays == ASSUME NEW f, NEW g, NEW u, Beside(f, g, u), NEW as, NEW bs, Agree(as, bs, u), NEW t PROVE Carried(GoTLS(f, as, t), GoTLS(g, bs, t), u)
  <1> DEFINE of(v)      == Sure(v, t.tls[v.fn].name, t.tls[v.fn].sev, <<"crypto/tls", v.fn>>)
             sel(h, cs) == {v \in h.uses : v.on = <<cs["crypto/tls"]>> /\ v.fn \in DOMAIN t.tls}
  <1>1. \A h, cs : GoTLS(h, cs, t) = IF "crypto/tls" \notin DOMAIN cs THEN {} ELSE {of(v) : v \in sel(h, cs)}
    BY DEF GoTLS
  <1>2. \A v : At(of(v), v)
    BY SureAt, Zenon
  <1>3. ASSUME "crypto/tls" \in DOMAIN as, NEW v \in sel(f, as), NEW x, At(x, u), At(x, v)
        PROVE  v = u /\ "crypto/tls" \in DOMAIN bs /\ u \in sel(g, bs)
    <2>1. v = u /\ u \in g.uses
      BY <1>3, OnlyOne
    <2>2. "crypto/tls" \in DOMAIN bs /\ u.on = <<bs["crypto/tls"]>>
      BY <1>3, <2>1 DEF Agree
    <2> QED
      BY <2>1, <2>2
  <1> HIDE DEF of, sel
  <1>4. GoTLS(f, as, t) = IF "crypto/tls" \notin DOMAIN as THEN {} ELSE {of(v) : v \in sel(f, as)}
    BY <1>1
  <1>5. GoTLS(g, bs, t) = IF "crypto/tls" \notin DOMAIN bs THEN {} ELSE {of(v) : v \in sel(g, bs)}
    BY <1>1
  <1>6. ASSUME NEW x \in GoTLS(f, as, t), At(x, u) PROVE x \in GoTLS(g, bs, t)
    <2>1. "crypto/tls" \in DOMAIN as
      BY <1>4, <1>6
    <2>2. PICK v \in sel(f, as) : x = of(v)
      BY <1>4, <1>6, <2>1
    <2>3. At(x, v)
      BY <1>2, <2>2
    <2>4. v = u /\ "crypto/tls" \in DOMAIN bs /\ u \in sel(g, bs)
      BY <1>3, <1>6, <2>1, <2>3
    <2> QED
      BY <1>5, <2>2, <2>4
  <1> QED
    BY <1>6 DEF Carried

LEMMA GoXCryptoStays == ASSUME NEW f, NEW g, NEW u, Beside(f, g, u), NEW as, NEW bs, Agree(as, bs, u) PROVE Carried(GoXCrypto(f, as), GoXCrypto(g, bs), u)
  <1>1. Carried(GoChaCha20Poly1305(f, as), GoChaCha20Poly1305(g, bs), u)
    BY GoRowsStay, Zenon DEF GoChaCha20Poly1305
  <1>2. Carried(GoArgon2(f, as), GoArgon2(g, bs), u)
    BY GoRowsStay, Zenon DEF GoArgon2
  <1>3. Carried(GoScrypt(f, as), GoScrypt(g, bs), u)
    BY GoRowsStay, Zenon DEF GoScrypt
  <1>4. Carried(GoHKDF(f, as), GoHKDF(g, bs), u)
    BY GoRowsStay, Zenon DEF GoHKDF
  <1>5. Carried(GoSSH(f, as), GoSSH(g, bs), u)
    BY GoRowsStay, Zenon DEF GoSSH
  <1>6. Carried(GoNaCl(f, as), GoNaCl(g, bs), u)
    BY GoRowsStay, Joined, Zenon DEF GoNaCl
  <1>7. Carried(GoBcrypt(f, as), GoBcrypt(g, bs), u)
    BY GoBcryptStays
  <1> QED
    BY <1>1, <1>2, <1>3, <1>4, <1>5, <1>6, <1>7, Joined, Zenon DEF GoXCrypto

LEMMA GoStays ==
  ASSUME NEW f, NEW g, NEW u, Beside(f, g, u), ImportsOf("go", f, u) = ImportsOf("go", g, u), NEW as, NEW bs, Agree(as, bs, u), NEW t
  PROVE  Carried(GoScan(f, as, t), GoScan(g, bs, t), u)
  <1>1. Carried(GoAES(f, as), GoAES(g, bs), u)
    BY GoRowsStay, Zenon DEF GoAES
  <1>2. Carried(GoCipher(f, as), GoCipher(g, bs), u)
    BY GoRowsStay, Zenon DEF GoCipher
  <1>3. Carried(GoDES(f, as), GoDES(g, bs), u)
    BY GoRowsStay, Zenon DEF GoDES
  <1>4. Carried(GoMD5(f, as), GoMD5(g, bs), u)
    BY GoRowsStay, Zenon DEF GoMD5
  <1>5. Carried(GoRC4(f, as), GoRC4(g, bs), u)
    BY GoRowsStay, Zenon DEF GoRC4
  <1>6. Carried(GoSHA1(f, as), GoSHA1(g, bs), u)
    BY GoRowsStay, Zenon DEF GoSHA1
  <1>7. Carried(GoSHA256(f, as), GoSHA256(g, bs), u)
    BY GoRowsStay, Zenon DEF GoSHA256
  <1>8. Carried(GoSHA512(f, as), GoSHA512(g, bs), u)
    BY GoRowsStay, Zenon DEF GoSHA512
  <1>9. Carried(GoHMAC(f, as), GoHMAC(g, bs), u)
    BY GoRowsStay, Zenon DEF GoHMAC
  <1>10. Carried(GoDSA(f, as), GoDSA(g, bs), u)
    BY GoRowsStay, Zenon DEF GoDSA
  <1>11. Carried(GoECDSA(f, as), GoECDSA(g, bs), u)
    BY GoRowsStay, Zenon DEF GoECDSA
  <1>12. Carried(GoECDH(f, as), GoECDH(g, bs), u)
    BY GoRowsStay, Zenon DEF GoECDH
  <1>13. Carried(GoEd25519(f, as), GoEd25519(g, bs), u)
    BY GoRowsStay, Zenon DEF GoEd25519
  <1>14. Carried(GoX509(f, as), GoX509(g, bs), u)
    BY GoRowsStay, Zenon DEF GoX509
  <1>15. {"schnorr"} \in SUBSET Switches["go"] /\ {"bls12-381", "bls12381", "bls"} \in SUBSET Switches["go"]
    BY DEF Switches, SupportedLanguages, Required
  <1>16. Carried(GoSchnorr(f, as), GoSchnorr(g, bs), u)
    BY <1>15, GoRowsOfAnyStay, Zenon DEF GoSchnorr
  <1>17. Carried(GoBLS(f, as), GoBLS(g, bs), u)
    BY <1>15, GoRowsOfAnyStay, Zenon DEF GoBLS
  <1>18. Carried(GoSM2(f, as, t), GoSM2(g, bs, t), u)
    BY GoRowsStay, Zenon DEF GoSM2
  <1>19. Carried(GoRSA(f, as), GoRSA(g, bs), u) /\ Carried(GoTLS(f, as, t), GoTLS(g, bs, t), u) /\ Carried(GoXCrypto(f, as), GoXCrypto(g, bs), u)
    BY GoRSAStays, GoTLSStays, GoXCryptoStays
  <1>20. ASSUME NEW x \in GoScan(f, as, t), At(x, u) PROVE x \in GoScan(g, bs, t)
    <2>1. \/ x \in GoAES(f, as) \/ x \in GoCipher(f, as) \/ x \in GoDES(f, as) \/ x \in GoMD5(f, as) \/ x \in GoRC4(f, as) \/ x \in GoSHA1(f, as)
          \/ x \in GoSHA256(f, as) \/ x \in GoSHA512(f, as) \/ x \in GoHMAC(f, as) \/ x \in GoRSA(f, as) \/ x \in GoDSA(f, as) \/ x \in GoECDSA(f, as)
          \/ x \in GoECDH(f, as) \/ x \in GoEd25519(f, as) \/ x \in GoTLS(f, as, t) \/ x \in GoX509(f, as) \/ x \in GoXCrypto(f, as)
          \/ x \in GoSchnorr(f, as) \/ x \in GoBLS(f, as) \/ x \in GoSM2(f, as, t)
      BY <1>20 DEF GoScan
    <2>2. \/ x \in GoAES(g, bs) \/ x \in GoCipher(g, bs) \/ x \in GoDES(g, bs) \/ x \in GoMD5(g, bs) \/ x \in GoRC4(g, bs) \/ x \in GoSHA1(g, bs)
          \/ x \in GoSHA256(g, bs) \/ x \in GoSHA512(g, bs) \/ x \in GoHMAC(g, bs) \/ x \in GoRSA(g, bs) \/ x \in GoDSA(g, bs) \/ x \in GoECDSA(g, bs)
          \/ x \in GoECDH(g, bs) \/ x \in GoEd25519(g, bs) \/ x \in GoTLS(g, bs, t) \/ x \in GoX509(g, bs) \/ x \in GoXCrypto(g, bs)
          \/ x \in GoSchnorr(g, bs) \/ x \in GoBLS(g, bs) \/ x \in GoSM2(g, bs, t)
      BY <1>1, <1>2, <1>3, <1>4, <1>5, <1>6, <1>7, <1>8, <1>9, <1>10, <1>11, <1>12, <1>13, <1>14, <1>16, <1>17, <1>18, <1>19, <1>20, <2>1 DEF Carried
    <2> QED
      BY <2>2 DEF GoScan
  <1> QED
    BY <1>20 DEF Carried

-----------------------------------------------------------------------------
(* What a detector asks for in the whole file stays, and so does what a    *)
(* map's order has decided for the use.                                    *)

LEMMA SwitchesAre ==
  /\ Switches["javascript"] = JsNobleSecp \cup JsNobleBLS
  /\ Switches["rust"] = {"aes_gcm", "rsa"}
  BY DEF Switches, SupportedLanguages, Required

LEMMA AskedForStays ==
  ASSUME NEW l, NEW f, NEW g, NEW u, ImportsOf(l, f, u) = ImportsOf(l, g, u), NEW n \in Switches[l]
  PROVE  (\E i \in f.imports : i.path = n) <=> (\E i \in g.imports : i.path = n)
  <1>1. \A i : i.path = n => BearsOn(l, i, u)
    BY Bearing
  <1> QED
    BY <1>1, SameImport

LEMMA JsAskedForStays ==
  ASSUME NEW f, NEW g, NEW u, ImportsOf("javascript", f, u) = ImportsOf("javascript", g, u), NEW packages \in SUBSET (JsNobleSecp \cup JsNobleBLS)
  PROVE  (JsSources(f) \cap packages # {}) <=> (JsSources(g) \cap packages # {})
  <1>1. \A h : JsSources(h) \cap packages # {} <=> \E n \in packages : \E i \in h.imports : i.path = n
    BY DEF JsSources
  <1>2. \A n \in packages : (\E i \in f.imports : i.path = n) <=> (\E i \in g.imports : i.path = n)
    BY SwitchesAre, AskedForStays
  <1> QED
    BY <1>1, <1>2

LEMMA BoundedTables ==
  ASSUME NEW a
  PROVE  /\ TablesOf("javascript", a).secp \in SUBSET (JsNobleSecp \cup JsNobleBLS)
         /\ TablesOf("javascript", a).bls \in SUBSET (JsNobleSecp \cup JsNobleBLS)
         /\ \A r \in TablesOf("python", a).tier2 : r \in PythonEmbedded.tier2
  <1>1. BinaryTables["javascript"] = JsEmbedded /\ BinaryTables["python"] = PythonEmbedded
    BY DEF BinaryTables
  <1>2. {"secp", "bls"} \subseteq DOMAIN JsEmbedded /\ JsEmbedded["secp"] = JsNobleSecp /\ JsEmbedded["bls"] = JsNobleBLS
    BY DEF JsEmbedded
  <1>3. "tier2" \in DOMAIN PythonEmbedded
    BY DEF PythonEmbedded
  <1>4. {"secp", "bls", "tier2"} \subseteq SetTables
    BY DEF SetTables
  <1> QED
    BY <1>1, <1>2, <1>3, <1>4 DEF TablesOf

(* The other file's picks can agree on the use.                            *)
LEMMA RustPickStays == ASSUME NEW f, NEW g, NEW u \in f.uses \cap g.uses, NEW pick \in Picks(f) PROVE \E q \in Picks(g) : pick[u] = q[u]
  <1> DEFINE q == [v \in g.uses |-> IF v = u THEN pick[u] ELSE v.fn]
  <1>1. \A v : v.fn \in Words(v)
    BY DEF Words
  <1>2. pick[u] \in Words(u)
    BY DEF Picks
  <1>3. \A v \in g.uses : q[v] \in Words(v)
    BY <1>1, <1>2
  <1>4. q \in Picks(g)
    BY <1>3 DEF Picks
  <1> QED
    BY <1>4

LEMMA PythonPickStays == ASSUME NEW f, NEW g, NEW u \in f.uses \cap g.uses, NEW pick \in PythonPicks(f) PROVE \E q \in PythonPicks(g) : pick[u] = q[u]
  <1> DEFINE q == [v \in g.uses |-> IF v = u THEN pick[u] ELSE v.fn]
  <1>1. \A v : v.fn \in Words(v)
    BY DEF Words
  <1>2. pick[u] \in Words(u)
    BY DEF PythonPicks
  <1>3. \A v \in g.uses : q[v] \in Words(v)
    BY <1>1, <1>2
  <1>4. q \in PythonPicks(g)
    BY <1>3 DEF PythonPicks
  <1> QED
    BY <1>4

LEMMA PhpPickStays == ASSUME NEW f, NEW g, NEW u \in f.uses \cap g.uses, NEW pick \in PhpPicks(f) PROVE \E q \in PhpPicks(g) : pick[u] = q[u]
  <1> DEFINE q == [v \in g.uses |-> IF v = u THEN pick[u] ELSE v.fn]
  <1>1. \A v : v.fn \in PhpWords(v)
    BY DEF PhpWords, Words
  <1>2. pick[u] \in PhpWords(u)
    BY DEF PhpPicks
  <1>3. \A v \in g.uses : q[v] \in PhpWords(v)
    BY <1>1, <1>2
  <1>4. q \in PhpPicks(g)
    BY <1>3 DEF PhpPicks
  <1> QED
    BY <1>4

LEMMA RubyPickStays == ASSUME NEW f, NEW g, NEW u \in f.uses \cap g.uses, NEW pick \in RubyPicks(f) PROVE \E q \in RubyPicks(g) : pick[u] = q[u]
  <1> DEFINE q == [v \in g.uses |-> IF v = u THEN pick[u] ELSE Lower(v.fn)]
  <1>1. \A v : Lower(v.fn) \in RubyMentions(v)
    BY DEF RubyMentions, Words
  <1>2. pick[u] \in RubyMentions(u)
    BY DEF RubyPicks
  <1>3. \A v \in g.uses : q[v] \in RubyMentions(v)
    BY <1>1, <1>2
  <1>4. q \in RubyPicks(g)
    BY <1>3 DEF RubyPicks
  <1> QED
    BY <1>4

(* The names of a line can be replaced in the same order.                  *)
LEMMA LinePickStays == ASSUME NEW f, NEW g, NEW u, Beside(f, g, u), NEW pick \in LinePicks(f) PROVE \E q \in LinePicks(g) : pick[u] = q[u]
  <1> DEFINE q == [v \in g.uses |-> pick[u]]
  <1>1. u \in f.uses /\ u \in g.uses
    BY DEF Beside
  <1>2. Orders(f) = Orders(g)
    BY SameLineConsts DEF Orders
  <1>3. q \in LinePicks(g) /\ q[u] = pick[u]
    BY <1>1, <1>2 DEF LinePicks
  <1> QED
    BY <1>3

Same(r, q, u) == Carried(r, q, u) /\ Carried(q, r, u)

LEMMA RustPicksStay ==
  ASSUME NEW f, NEW g, NEW u, Beside(f, g, u), NEW t, \A crate \in {"aes_gcm", "rsa"} : RustUses(f, crate) <=> RustUses(g, crate), NEW pick \in Picks(f)
  PROVE  \E q \in Picks(g) : Same(RustScan(f, t, pick), RustScan(g, t, q), u)
  <1>1. Beside(g, f, u) /\ u \in f.uses \cap g.uses
    BY BesideIsSymmetric DEF Beside
  <1>2. PICK q \in Picks(g) : pick[u] = q[u]
    BY <1>1, RustPickStays
  <1> QED
    BY <1>1, <1>2, RustStays DEF Same

LEMMA PhpPicksStay ==
  ASSUME NEW f, NEW g, NEW u, Beside(f, g, u), NEW t, NEW pick \in PhpPicks(f)
  PROVE  \E q \in PhpPicks(g) : Same(PhpScan(f, t, pick), PhpScan(g, t, q), u)
  <1>1. Beside(g, f, u) /\ u \in f.uses \cap g.uses
    BY BesideIsSymmetric DEF Beside
  <1>2. PICK q \in PhpPicks(g) : pick[u] = q[u]
    BY <1>1, PhpPickStays
  <1> QED
    BY <1>1, <1>2, PhpStays DEF Same

LEMMA RubyPicksStay ==
  ASSUME NEW f, NEW g, NEW u, Beside(f, g, u), NEW t, NEW pick \in RubyPicks(f)
  PROVE  \E q \in RubyPicks(g) : Same(RubyScan(f, t, pick), RubyScan(g, t, q), u)
  <1>1. Beside(g, f, u) /\ u \in f.uses \cap g.uses
    BY BesideIsSymmetric DEF Beside
  <1>2. PICK q \in RubyPicks(g) : pick[u] = q[u]
    BY <1>1, RubyPickStays
  <1> QED
    BY <1>1, <1>2, RubyStays DEF Same

LEMMA PythonPicksStay ==
  ASSUME NEW f, NEW g, NEW u, Beside(f, g, u), NEW t, ImportsOf("python", f, u) = ImportsOf("python", g, u), \A row \in t.tier2 : row \in PythonEmbedded.tier2, NEW pick \in PythonPicks(f)
  PROVE  \E q \in PythonPicks(g) : Same(PythonScan(f, t, pick), PythonScan(g, t, q), u)
  <1>1. Beside(g, f, u) /\ u \in f.uses \cap g.uses
    BY BesideIsSymmetric DEF Beside
  <1>2. PICK q \in PythonPicks(g) : pick[u] = q[u]
    BY <1>1, PythonPickStays
  <1> QED
    BY <1>1, <1>2, PythonStays DEF Same

(* What is reported of the use, in whatever order the maps answer, can be  *)
(* reported of it in the other file.                                       *)
LEMMA ReportsStay ==
  ASSUME NEW l \in Languages, NEW f, NEW g, NEW u, Beside(f, g, u), ImportsOf(l, f, u) = ImportsOf(l, g, u), NEW a, NEW r \in Reports(l, f, a)
  PROVE  \E q \in Reports(l, g, a) : Same(r, q, u)
  <1> DEFINE t == TablesOf(l, a)
  <1>1. Beside(g, f, u)
    BY BesideIsSymmetric
  <1>2. \/ l = "java" \/ l = "go" \/ l = "kotlin" \/ l = "rust" \/ l = "cpp" \/ l = "csharp" \/ l = "php" \/ l = "javascript"
        \/ l = "python" \/ l = "swift" \/ l = "dart" \/ l = "ruby"
    BY LanguagesAssumption DEF SupportedLanguages, Required
  <1>3. CASE l = "go"
    <2>1. PICK as \in Aliases(f) : r = GoScan(f, as, t)
      BY <1>3 DEF Reports
    <2>2. PICK bs \in Aliases(g) : Agree(as, bs, u)
      BY <1>3, AliasesStay
    <2>3. Same(r, GoScan(g, bs, t), u)
      <3> HIDE DEF t
      <3> QED
        BY <1>1, <1>3, <2>1, <2>2, AgreeIsSymmetric, GoStays DEF Same
    <2>4. GoScan(g, bs, t) \in Reports(l, g, a)
      BY <1>3 DEF Reports
    <2> QED
      BY <2>3, <2>4
  <1>8. CASE l = "rust"
    <2>1. PICK p \in Picks(f) : r = RustScan(f, t, p)
      BY <1>8 DEF Reports
    <2>2. \A crate \in {"aes_gcm", "rsa"} : RustUses(f, crate) <=> RustUses(g, crate)
      BY <1>8, SwitchesAre, AskedForStays DEF RustUses
    <2>3. \E q \in Picks(g) : Same(r, RustScan(g, t, q), u)
      <3> HIDE DEF t
      <3> QED
        BY <1>8, <2>1, <2>2, RustPicksStay
    <2> QED
      BY <1>8, <2>3 DEF Reports
  <1>9. CASE l = "php"
    <2>1. PICK p \in PhpPicks(f) : r = PhpScan(f, t, p)
      BY <1>9 DEF Reports
    <2>3. \E q \in PhpPicks(g) : Same(r, PhpScan(g, t, q), u)
      <3> HIDE DEF t
      <3> QED
        BY <1>9, <2>1, PhpPicksStay
    <2> QED
      BY <1>9, <2>3 DEF Reports
  <1>10. CASE l = "ruby"
    <2>1. PICK p \in RubyPicks(f) : r = RubyScan(f, t, p)
      BY <1>10 DEF Reports
    <2>3. \E q \in RubyPicks(g) : Same(r, RubyScan(g, t, q), u)
      <3> HIDE DEF t
      <3> QED
        BY <1>10, <2>1, RubyPicksStay
    <2> QED
      BY <1>10, <2>3 DEF Reports
  <1>11. CASE l = "python"
    <2>1. PICK p \in PythonPicks(f) : r = PythonScan(f, t, p)
      BY <1>11 DEF Reports
    <2>2. \A row \in t.tier2 : row \in PythonEmbedded.tier2
      BY <1>11, BoundedTables
    <2>3. \E q \in PythonPicks(g) : Same(r, PythonScan(g, t, q), u)
      <3> HIDE DEF t
      <3> QED
        BY <1>11, <2>1, <2>2, PythonPicksStay
    <2> QED
      BY <1>11, <2>3 DEF Reports
  <1>6. CASE l = "javascript"
    <2>1. r = JsScan(f, t) /\ JsScan(g, t) \in Reports(l, g, a)
      BY <1>6 DEF Reports
    <2>2. /\ (JsSources(f) \cap t.secp # {}) <=> (JsSources(g) \cap t.secp # {})
          /\ (JsSources(f) \cap t.bls # {}) <=> (JsSources(g) \cap t.bls # {})
      <3>1. t.secp \in SUBSET (JsNobleSecp \cup JsNobleBLS) /\ t.bls \in SUBSET (JsNobleSecp \cup JsNobleBLS)
        BY <1>6, BoundedTables
      <3> HIDE DEF t
      <3> QED
        BY <1>6, <3>1, JsAskedForStays
    <2>3. Same(r, JsScan(g, t), u)
      <3> HIDE DEF t
      <3> QED
        BY <1>1, <2>1, <2>2, JsStays DEF Same
    <2> QED
      BY <2>1, <2>3
  <1>4. CASE l = "java"
    <2>1. r = JavaScan(f, t) /\ JavaScan(g, t) \in Reports(l, g, a)
      BY <1>4 DEF Reports
    <2>2. Same(r, JavaScan(g, t), u)
      <3> HIDE DEF t
      <3> QED
        BY <1>1, <2>1, JavaStays DEF Same
    <2> QED
      BY <2>1, <2>2
  <1>5. CASE l = "kotlin"
    <2>1. r = KotlinScan(f, t) /\ KotlinScan(g, t) \in Reports(l, g, a)
      BY <1>5 DEF Reports
    <2>2. Same(r, KotlinScan(g, t), u)
      <3> HIDE DEF t
      <3> QED
        BY <1>1, <2>1, KotlinStays DEF Same
    <2> QED
      BY <2>1, <2>2
  <1>7. CASE l = "cpp"
    <2>1. r = CppScan(f, t) /\ CppScan(g, t) \in Reports(l, g, a)
      BY <1>7 DEF Reports
    <2>2. Same(r, CppScan(g, t), u)
      <3> HIDE DEF t
      <3> QED
        BY <1>1, <2>1, CppStays DEF Same
    <2> QED
      BY <2>1, <2>2
  <1>12. CASE l = "csharp"
    <2>1. r = CSharpScan(f, t) /\ CSharpScan(g, t) \in Reports(l, g, a)
      BY <1>12 DEF Reports
    <2>2. Same(r, CSharpScan(g, t), u)
      <3> HIDE DEF t
      <3> QED
        BY <1>1, <2>1, CSharpStays DEF Same
    <2> QED
      BY <2>1, <2>2
  <1>13. CASE l = "swift"
    <2>1. PICK p \in LinePicks(f) : r = SwiftScan(f, t, p)
      BY <1>13 DEF Reports
    <2>2. PICK q \in LinePicks(g) : p[u] = q[u]
      BY LinePickStays
    <2>3. Same(r, SwiftScan(g, t, q), u)
      <3> HIDE DEF t
      <3> QED
        BY <1>1, <2>1, <2>2, SwiftStays DEF Same
    <2> QED
      BY <1>13, <2>3 DEF Reports
  <1>14. CASE l = "dart"
    <2>1. PICK p \in LinePicks(f) : r = DartScan(f, p)
      BY <1>14 DEF Reports
    <2>2. PICK q \in LinePicks(g) : p[u] = q[u]
      BY LinePickStays
    <2>3. Same(r, DartScan(g, q), u)
      <3> HIDE DEF t
      <3> QED
        BY <1>1, <2>1, <2>2, DartStays DEF Same
    <2> QED
      BY <1>14, <2>3 DEF Reports
  <1> QED
    BY <1>2, <1>3, <1>4, <1>5, <1>6, <1>7, <1>8, <1>9, <1>10, <1>11, <1>12, <1>13, <1>14

-----------------------------------------------------------------------------
(* The tables: whatever registries one process builds, one after the       *)
(* other, from whatever directories, which may change on the way.          *)
Validated == checked => ValidateRulesDir(dir)

(* A language has what this directory gives it, or the binary's tables.    *)
TablesSet == stage = "built" => \A l \in SupportedLanguages : active[l] = Load(l, dir)

RulesInv == TypeOK /\ TablesSet /\ Validated

(* Of every directory each language gets tables, its own or the binary's.  *)
LEMMA LoadGivesTables ==
  ASSUME NEW d \in Dirs \cup {None}, NEW l \in SupportedLanguages
  PROVE  Load(l, d) \in Tables
  <1>1. d[l] \in Contents
    BY DirsAssumption DEF None, Absent, Contents
  <1> QED
    BY <1>1 DEF Load, External, Embedded, Tables, Contents

(* What the validation accepts loads, language by language: its conditions *)
(* and those of the loading are written in different places.               *)
LEMMA ValidatedLoads ==
  ASSUME NEW d, ValidateRulesDir(d), NEW l \in SupportedLanguages, d[l] # Absent
  PROVE  Load(l, d) = External(d[l].defines)
  BY DEF ValidateRulesDir, Load

LEMMA RulesStart == LInit => RulesInv
  <1> SUFFICES ASSUME Init PROVE RulesInv
    BY DEF LInit
  <1>1. Embedded \in Tables
    BY DEF Embedded, Tables
  <1> QED
    BY <1>1 DEF Init, RulesInv, TypeOK, TablesSet, Validated

LEMMA RulesKept == RulesInv /\ [LNext]_vars => RulesInv'
  <1> SUFFICES ASSUME RulesInv, [LNext]_vars PROVE RulesInv'
    OBVIOUS
  <1> USE DEF RulesInv
  <1>1. ASSUME NEW d \in Dirs \cup {None}, NEW c \in Commands, Refuse(c, d)
        PROVE  RulesInv'
    BY <1>1 DEF Refuse, TypeOK, TablesSet, Validated
  <1>2. ASSUME NEW d \in Dirs \cup {None}, NEW c \in Commands, Accept(c, d)
        PROVE  RulesInv'
    <2>1. dir' = d /\ checked' = Looks(c) /\ stage' = "accepted" /\ active' = active /\ (Looks(c) => ValidateRulesDir(d))
      BY <1>2 DEF Accept
    <2>2. Validated'
      BY <2>1 DEF Validated, ValidateRulesDir, Loads
    <2>3. Looks(c) \in BOOLEAN
      BY DEF Looks, Commands
    <2> QED
      BY <2>1, <2>2, <2>3 DEF TypeOK, TablesSet
  <1>3. ASSUME NEW d \in Dirs \cup {None}, Rewrite(d)
        PROVE  RulesInv'
    BY <1>3 DEF Rewrite, TypeOK, TablesSet, Validated
  <1>4. CASE Build
    <2>1. /\ stage' = "built" /\ dir' = dir /\ checked' = checked
          /\ active' = [l \in SupportedLanguages |-> Load(l, dir)]
      BY <1>4 DEF Build, ApplyExternalRules
    <2>2. TypeOK'
      BY <2>1, LoadGivesTables DEF TypeOK
    <2>3. TablesSet'
      BY <2>1 DEF TablesSet, Load, Loads
    <2>4. Validated'
      BY <2>1 DEF Validated, ValidateRulesDir, Loads
    <2> QED
      BY <2>2, <2>3, <2>4
  <1>5. CASE Unload
    BY <1>5 DEF Unload, TypeOK, TablesSet, Validated, ValidateRulesDir, Loads
  <1>6. CASE UNCHANGED rules
    BY <1>6 DEF rules, TypeOK, TablesSet, Validated, Load, Loads, ValidateRulesDir
  <1> QED
    BY <1>1, <1>2, <1>3, <1>4, <1>5, <1>6 DEF LNext, Prepare, ScanFile, Edit, Again, vars

LEMMA RulesHold == LSpec => []RulesInv
  BY RulesStart, RulesKept, PTL DEF LSpec

(* Type correctness.                                                       *)
THEOREM TypeCorrect == LSpec => []TypeOK
  BY RulesHold, PTL DEF RulesInv

(* A directory that was looked through, and is unchanged when it is loaded, *)
(* is used for every language it has a file for: what ValidateRulesDir      *)
(* lets pass, the Apply functions load.                                     *)
THEOREM CheckedDirectoryIsUsed == LSpec => []CheckedIsUsed
  <1>1. RulesInv => CheckedIsUsed
    BY ValidatedLoads DEF RulesInv, TablesSet, Validated, CheckedIsUsed
  <1> QED
    BY <1>1, RulesHold, PTL

-----------------------------------------------------------------------------
(* The tables of a language depend on its own file, and on nothing else.   *)
TablesFrom(l, x) ==
  IF l \in SupportedLanguages /\ x.is = "file" /\ x.defines \cap Required[l] # {} THEN External(x.defines) ELSE Embedded

LEMMA TablesAreFrom == RulesInv /\ stage = "built" => \A l : ActiveOf(l) = TablesFrom(l, RulesOf(l))
  BY DEF RulesInv, TablesSet, ActiveOf, RulesOf, TablesFrom, Load, Loads

(* What is compared was made of its file, and the file before the edit is  *)
(* made of statements of the same language, over the same assignments; a   *)
(* report is made with the tables that the rules of its scan give.         *)
EditsInv ==
  /\ lang \in Languages /\ FileIn(lang, file)
  /\ outcome = "report" => report \in Reports(lang, file, ActiveOf(lang))
  /\ outcome = "report" => stage = "built"
  /\ before.again => FileIn(lang, before.file) /\ before.file.assigns = file.assigns
  /\ before.again => before.tables = TablesFrom(lang, before.rules)

LEMMA EditsStart == LInit => EditsInv
  BY DEF LInit, EditsInv, FileIn, Nothing

LEMMA EditsKept == RulesInv /\ EditsInv /\ [LNext]_vars => EditsInv'
  <1> SUFFICES ASSUME RulesInv, EditsInv, [LNext]_vars PROVE EditsInv'
    OBVIOUS
  <1>1. CASE Prepare
    <2>1. outcome = "none" /\ UNCHANGED <<lang, file, outcome, before>>
      BY <1>1 DEF Prepare
    <2> QED
      BY <2>1 DEF EditsInv
  <1>2. CASE ScanFile
    <2>1. lang' = lang /\ file' = file /\ before' = before /\ active' = active /\ stage' = stage /\ stage = "built"
      BY <1>2 DEF ScanFile, rules
    <2>2. outcome' = "report" => report' \in Reports(lang, file, ActiveOf(lang))
      BY <1>2 DEF ScanFile
    <2>3. ActiveOf(lang)' = ActiveOf(lang)
      BY <2>1 DEF ActiveOf
    <2> QED
      BY <2>1, <2>2, <2>3 DEF EditsInv
  <1>3. CASE Edit
    <2>1. /\ outcome = "report" /\ outcome' = "none" /\ lang' = lang
          /\ before'.file = file /\ before'.tables = ActiveOf(lang) /\ before'.rules = RulesOf(lang)
      BY <1>3 DEF Edit
    <2>2. \E now \in SUBSET Statements[lang] : file' = FileOf(now, file.assigns)
      <3>1. \A s \in Statements[lang] : StatementsOf(file) \ {s} \in SUBSET Statements[lang]
                                       /\ StatementsOf(file) \cup {s} \in SUBSET Statements[lang]
        BY DEF StatementsOf
      <3> QED
        BY <1>3, <3>1 DEF Edit
    <2>3. file.assigns \in Assignments[lang]
      BY DEF EditsInv, FileIn, FileOf
    <2>4. FileIn(lang, file') /\ file'.assigns = file.assigns
      <3>1. PICK now \in SUBSET Statements[lang] : file' = FileOf(now, file.assigns)
        BY <2>2
      <3>2. FileOf(now, file.assigns).assigns = file.assigns
        BY DEF FileOf
      <3> QED
        BY <2>3, <3>1, <3>2 DEF FileIn
    <2>5. before'.tables = TablesFrom(lang, before'.rules)
      BY <2>1, TablesAreFrom DEF EditsInv
    <2> QED
      BY <2>1, <2>4, <2>5 DEF EditsInv
  <1>4. CASE Again
    <2>1. /\ outcome = "report" /\ outcome' = "none" /\ lang' = lang /\ file' = file
          /\ before'.file = file /\ before'.tables = ActiveOf(lang) /\ before'.rules = RulesOf(lang)
      BY <1>4 DEF Again
    <2>2. before'.tables = TablesFrom(lang, before'.rules)
      BY <2>1, TablesAreFrom DEF EditsInv
    <2> QED
      BY <2>1, <2>2 DEF EditsInv
  <1>5. CASE UNCHANGED vars
    <2>1. UNCHANGED <<lang, file, report, outcome, before, active, stage>>
      BY <1>5 DEF vars, rules
    <2>2. ActiveOf(lang)' = ActiveOf(lang)
      BY <2>1 DEF ActiveOf
    <2> QED
      BY <2>1, <2>2 DEF EditsInv
  <1> QED
    BY <1>1, <1>2, <1>3, <1>4, <1>5 DEF LNext

LEMMA EditsAreBeside ==
  ASSUME NEW l \in Languages, NEW f, NEW g, FileIn(l, f), FileIn(l, g), f.assigns = g.assigns, NEW u, Untouched(l, f, g, u)
  PROVE  Beside(f, g, u)
  <1>1. f.uses \subseteq Uses(l) /\ g.uses \subseteq Uses(l)
    BY DEF FileIn, FileOf, Uses
  <1>2. \A v, w \in Uses(l) : "at" \in DOMAIN v /\ v.at \in Nat \ {0, 1} /\ (v.at = w.at => v = w)
    BY StatementsAssumption, Zenon DEF Uses
  <1>3. u \in f.uses /\ u \in g.uses /\ OnVariable(f, u) = OnVariable(g, u)
    BY DEF Untouched
  <1> QED
    BY <1>1, <1>2, <1>3 DEF Beside

(* An edit of other statements changes nothing of what is reported of one: *)
(* no detector of the twelve languages looks further than the statement,   *)
(* its variable, the imports of its names, the names' values, and the few  *)
(* packages it asks for in the whole file; whatever the tables, the two    *)
(* files, and the answers of the Go maps.                                  *)
THEOREM EditsStayLocal == LSpec => []EditsAreLocal
  <1>1. RulesInv /\ EditsInv => EditsAreLocal
    <2> SUFFICES ASSUME RulesInv, EditsInv, outcome = "report", before.again, RulesOf(lang) = before.rules,
                        NEW s \in StatementsOf(file), Untouched(lang, file, before.file, s.use)
                 PROVE  \E r \in Reports(lang, before.file, before.tables) : ReportOn(report, s) = ReportOn(r, s)
      BY DEF EditsAreLocal
    <2>1. lang \in Languages /\ report \in Reports(lang, file, before.tables)
      <3>1. ActiveOf(lang) = before.tables
        BY TablesAreFrom DEF EditsInv
      <3> QED
        BY <3>1 DEF EditsInv
    <2>2. Beside(file, before.file, s.use)
      BY EditsAreBeside DEF EditsInv
    <2>3. ImportsOf(lang, file, s.use) = ImportsOf(lang, before.file, s.use)
      BY DEF Untouched
    <2>4. PICK r \in Reports(lang, before.file, before.tables) : Same(report, r, s.use)
      BY <2>1, <2>2, <2>3, ReportsStay
    <2>5. ReportOn(report, s) = ReportOn(r, s)
      BY <2>4 DEF Same, Carried, At, ReportOn
    <2> QED
      BY <2>5
  <1> QED
    BY <1>1, RulesHold, EditsStart, EditsKept, PTL DEF LSpec
=============================================================================
