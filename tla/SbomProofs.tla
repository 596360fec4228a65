------------------------------ MODULE SbomProofs ------------------------------
(***************************************************************************)
(* Proofs about Sbom, for any output of cargo metadata: any number of      *)
(* packages and members, under any names and versions.                     *)
(***************************************************************************)
EXTENDS Sbom, TLAPS

\* There is no document, or it is the one build_sbom makes of the metadata.
SInv ==
    /\ metadata \in Metadata
    /\ sbom \in {Pending, Failed, BuildSbom(metadata)}

LEMMA SbomInvariance == Spec => []SInv
<1>1. Init => SInv
  BY DEF Init, SInv
<1>2. SInv /\ [Convert]_vars => SInv'
  <2> SUFFICES ASSUME SInv, [Convert]_vars
               PROVE  SInv'
    OBVIOUS
  <2>1. metadata' = metadata /\ sbom' \in {sbom, Failed, BuildSbom(metadata)}
    BY DEF Convert, vars
  <2>2. BuildSbom(metadata)' = BuildSbom(metadata)
    BY <2>1 DEF BuildSbom, Relationships, RootIds
  <2> QED
    BY <2>1, <2>2 DEF SInv
<1> QED
  BY <1>1, <1>2, PTL DEF Spec

\* What is written is what build_sbom made.
LEMMA WrittenIsBuilt ==
    ASSUME SInv, Written
    PROVE  /\ metadata \in Metadata /\ sbom = BuildSbom(metadata)
           /\ DOMAIN sbom.packages = DOMAIN metadata.packages
           /\ \A i \in DOMAIN metadata.packages :
                 sbom.packages[i].SPDXID = SpdxId(metadata.packages[i])
           /\ sbom.relationships = Relationships(metadata)
BY DEF SInv, Written, BuildSbom, ToSpdx

\* The two functions make the same identifier of a package.
LEMMA RootIdIsPackageId ==
    ASSUME NEW package
    PROVE  RootSpdxId(package) = SpdxId(package)
BY DEF RootSpdxId, SpdxId, Hyphenated

(***************************************************************************)
(* Every link of the document has both its ends in it, although the roots  *)
(* are identified apart from the packages (lines 36, 52-73).               *)
(***************************************************************************)
THEOREM LinksAreClosed == Spec => []TypeOK
<1>1. SInv => TypeOK
  <2> SUFFICES ASSUME SInv, Written, NEW e \in sbom.relationships
               PROVE  e[1] # e[2] /\ {e[1], e[2]} \subseteq IdsOf(sbom)
    BY DEF TypeOK
  <2>1. IdsOf(sbom) = {SpdxId(metadata.packages[i]) : i \in DOMAIN metadata.packages}
    BY WrittenIsBuilt DEF IdsOf
  <2>2. RootIds(metadata) \subseteq IdsOf(sbom)
    BY <2>1, RootIdIsPackageId DEF RootIds
  <2> QED
    BY <2>1, <2>2, WrittenIsBuilt DEF Relationships
<1> QED
  BY <1>1, SbomInvariance, PTL

-----------------------------------------------------------------------------
\* Replacing symbols keeps the length of a text.
LEMMA Replaced ==
    ASSUME NEW S, NEW text \in Seq(S), NEW old \in S, NEW new \in S
    PROVE  /\ Replace(text, old, new) \in Seq(S)
           /\ Len(Replace(text, old, new)) = Len(text)
           /\ \A n \in 1 .. Len(text) :
                 Replace(text, old, new)[n] = IF text[n] = old THEN new ELSE text[n]
<1>1. Replace(text, old, new) =
         [n \in 1 .. Len(text) |-> IF text[n] = old THEN new ELSE text[n]]
  BY DEF Replace
<1>2. \A n \in 1 .. Len(text) : (IF text[n] = old THEN new ELSE text[n]) \in S
  OBVIOUS
<1> QED
  BY <1>1, <1>2

\* Replacing a symbol that does not occur.
LEMMA NothingReplaced ==
    ASSUME NEW S, NEW text \in Seq(S), NEW old \in S, NEW new \in S,
           \A n \in DOMAIN text : text[n] # old
    PROVE  Replace(text, old, new) = text
<1> DEFINE r == Replace(text, old, new)
<1>1. /\ r \in Seq(S) /\ Len(r) = Len(text)
      /\ \A n \in 1 .. Len(text) : r[n] = IF text[n] = old THEN new ELSE text[n]
  BY Replaced
<1>2. DOMAIN text = 1 .. Len(text)
  OBVIOUS
<1> HIDE DEF r
<1>3. \A n \in 1 .. Len(text) : r[n] = text[n]
  BY <1>1, <1>2
<1>4. r = text
  BY <1>1, <1>3
<1> QED
  BY <1>4 DEF r

\* A text without a symbol, and two texts with the symbol between them.
Without(text, h) == \A n \in DOMAIN text : text[n] # h
Joined(a, h, u) == a \o <<h>> \o u

\* The first hyphen of an identifier tells where a text without one ends.
LEMMA FirstHyphen ==
    ASSUME NEW S, NEW h \in S,
           NEW a \in Seq(S), NEW b \in Seq(S), NEW u \in Seq(S), NEW v \in Seq(S),
           Without(a, h), Without(b, h),
           Joined(a, h, u) = Joined(b, h, v)
    PROVE  a = b /\ u = v
<1> DEFINE s == Joined(a, h, u)
           t == Joined(b, h, v)
<1>1. /\ s \in Seq(S) /\ Len(s) = Len(a) + 1 + Len(u)
      /\ \A n \in 1 .. Len(a) : s[n] = a[n]
      /\ s[Len(a) + 1] = h
      /\ \A n \in 1 .. Len(u) : s[Len(a) + 1 + n] = u[n]
  BY DEF Joined
<1>2. /\ t \in Seq(S) /\ Len(t) = Len(b) + 1 + Len(v)
      /\ \A n \in 1 .. Len(b) : t[n] = b[n]
      /\ t[Len(b) + 1] = h
      /\ \A n \in 1 .. Len(v) : t[Len(b) + 1 + n] = v[n]
  BY DEF Joined
<1>3. s = t
  OBVIOUS
<1> HIDE DEF s, t
<1>4. Len(a) \in Nat /\ Len(b) \in Nat /\ Len(u) \in Nat /\ Len(v) \in Nat
  OBVIOUS
<1>5. /\ \A n \in 1 .. Len(a) : a[n] # h
      /\ \A n \in 1 .. Len(b) : b[n] # h
  BY DEF Without
<1>6. Len(a) = Len(b)
  <2>1. CASE Len(a) < Len(b)
    <3>1. Len(a) + 1 \in 1 .. Len(b)
      BY <1>4, <2>1
    <3> QED
      BY <1>1, <1>2, <1>3, <1>5, <3>1
  <2>2. CASE Len(b) < Len(a)
    <3>1. Len(b) + 1 \in 1 .. Len(a)
      BY <1>4, <2>2
    <3> QED
      BY <1>1, <1>2, <1>3, <1>5, <3>1
  <2> QED
    BY <1>4, <2>1, <2>2
<1>7. Len(u) = Len(v)
  BY <1>1, <1>2, <1>3, <1>4, <1>6
<1>8. a = b
  <2>1. \A n \in 1 .. Len(a) : a[n] = b[n]
    BY <1>1, <1>2, <1>3, <1>6
  <2> QED
    BY <1>6, <2>1
<1>9. u = v
  <2>1. \A n \in 1 .. Len(u) : u[n] = v[n]
    BY <1>1, <1>2, <1>3, <1>6, <1>7
  <2> QED
    BY <1>7, <2>1
<1> QED
  BY <1>8, <1>9

\* A text without separators goes into the identifier as it is.
LEMMA PlainKept ==
    ASSUME NEW name \in Seq(Symbols), Plain(name)
    PROVE  Hyphenated(name) = name
<1>1. Replace(name, Underscore, Hyphen) = name
  BY NothingReplaced, SymbolsAssumption DEF Plain
<1>2. Replace(name, Dot, Hyphen) = name
  BY NothingReplaced, SymbolsAssumption DEF Plain
<1> QED
  BY <1>1, <1>2 DEF Hyphenated

\* Two texts that become one by replacing dots differ in dots and hyphens only.
LEMMA UpToDots ==
    ASSUME NEW x \in Seq(Symbols), NEW y \in Seq(Symbols),
           Replace(x, Dot, Hyphen) = Replace(y, Dot, Hyphen),
           NEW n \in DOMAIN x, x[n] # y[n]
    PROVE  {x[n], y[n]} = {Hyphen, Dot}
<1> DEFINE u == Replace(x, Dot, Hyphen)
           v == Replace(y, Dot, Hyphen)
<1>a. Dot \in Symbols /\ Hyphen \in Symbols
  BY SymbolsAssumption
<1>1. /\ Len(u) = Len(x)
      /\ \A k \in 1 .. Len(x) : u[k] = IF x[k] = Dot THEN Hyphen ELSE x[k]
  BY ONLY <1>a, Replaced, x \in Seq(Symbols)
<1>2. /\ Len(v) = Len(y)
      /\ \A k \in 1 .. Len(y) : v[k] = IF y[k] = Dot THEN Hyphen ELSE y[k]
  BY ONLY <1>a, Replaced, y \in Seq(Symbols)
<1>3. u = v
  OBVIOUS
<1> HIDE DEF u, v
<1>4. n \in 1 .. Len(x) /\ n \in 1 .. Len(y)
  BY <1>1, <1>2, <1>3
<1> QED
  BY <1>1, <1>2, <1>3, <1>4

\* The parts of an identifier, for packages with plain names.
LEMMA IdSplits ==
    ASSUME NEW p, NEW q, p.name \in Seq(Symbols), q.name \in Seq(Symbols),
           Version(p) \in Seq(Symbols), Version(q) \in Seq(Symbols),
           Plain(p.name), Plain(q.name), SpdxId(p) = SpdxId(q)
    PROVE  /\ p.name = q.name
           /\ Replace(Version(p), Dot, Hyphen) = Replace(Version(q), Dot, Hyphen)
<1> DEFINE a == p.name
           b == q.name
           u == Replace(Version(p), Dot, Hyphen)
           v == Replace(Version(q), Dot, Hyphen)
<1>1. u \in Seq(Symbols) /\ v \in Seq(Symbols)
  BY Replaced, SymbolsAssumption
<1>2. Hyphenated(a) = a /\ Hyphenated(b) = b
  BY PlainKept
<1>3. Joined(a, Hyphen, u) = Joined(b, Hyphen, v)
  BY <1>2 DEF SpdxId, Joined
<1>4. /\ a \in Seq(Symbols) /\ b \in Seq(Symbols) /\ Hyphen \in Symbols
      /\ Without(a, Hyphen) /\ Without(b, Hyphen)
  BY SymbolsAssumption DEF Plain, Without
<1> HIDE DEF a, b, u, v
<1>5. a = b /\ u = v
  BY <1>1, <1>3, <1>4, FirstHyphen
<1> QED
  BY <1>5 DEF a, b, u, v

(***************************************************************************)
(* Crates whose names have no separators share an identifier only if their *)
(* names are the same, and their versions up to a hyphen for a dot (lines  *)
(* 36, 61).                                                                *)
(***************************************************************************)
THEOREM VersionsAreDistinguished == Spec => []VersionsDistinguished
<1>1. SInv => VersionsDistinguished
  <2> SUFFICES ASSUME SInv, Written,
                      NEW i \in DOMAIN metadata.packages,
                      NEW k \in DOMAIN metadata.packages,
                      sbom.packages[i].SPDXID = sbom.packages[k].SPDXID,
                      Plain(metadata.packages[i].name),
                      Plain(metadata.packages[k].name)
               PROVE  LET p == metadata.packages[i]
                          q == metadata.packages[k]
                      IN  /\ p.name = q.name
                          /\ \A n \in DOMAIN Version(p) :
                                Version(p)[n] # Version(q)[n] =>
                                   {Version(p)[n], Version(q)[n]} = {Hyphen, Dot}
    BY DEF VersionsDistinguished
  <2> DEFINE p == metadata.packages[i]
             q == metadata.packages[k]
  <2>1. /\ p.name \in Seq(Symbols) /\ Version(p) \in Seq(Symbols)
        /\ q.name \in Seq(Symbols) /\ Version(q) \in Seq(Symbols)
    BY WrittenIsBuilt, MetadataAssumption, SymbolsAssumption DEF Version
  <2>2. Plain(p.name) /\ Plain(q.name) /\ SpdxId(p) = SpdxId(q)
    BY WrittenIsBuilt
  <2> HIDE DEF p, q
  <2>3. /\ p.name = q.name
        /\ Replace(Version(p), Dot, Hyphen) = Replace(Version(q), Dot, Hyphen)
    BY <2>1, <2>2, IdSplits
  <2>4. \A n \in DOMAIN Version(p) : Version(p)[n] # Version(q)[n] =>
           {Version(p)[n], Version(q)[n]} = {Hyphen, Dot}
    BY <2>1, <2>3, UpToDots
  <2> QED
    BY <2>3, <2>4 DEF p, q
<1> QED
  BY <1>1, SbomInvariance, PTL
=============================================================================
