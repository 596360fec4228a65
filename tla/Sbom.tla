-------------------------------- MODULE Sbom --------------------------------
(***************************************************************************)
(* tools/cargo_metadata_to_spdx.py: from the output of cargo metadata to   *)
(* the SBOM of a release.                                                  *)
(*                                                                         *)
(* Names and versions are sequences of symbols, because the identifiers    *)
(* the document links its packages with are made of both by replacing      *)
(* separators, and two packages can come out with one identifier.          *)
(***************************************************************************)
EXTENDS Naturals, Sequences

CONSTANTS
    Symbols,   \* what names and versions are made of
    Metadata,  \* the inputs: workspace_members and packages, both in order
    None,      \* a key that is absent, null or empty
    Pending,   \* not converted yet
    Failed     \* ended with an exception

Hyphen     == "-"
Underscore == "_"
Dot        == "."
Unknown    == "UNKNOWN"

ASSUME SymbolsAssumption == {Hyphen, Underscore, Dot, Unknown} \subseteq Symbols

\* A package: id, name, version (None if absent), source, license, checksum.
ASSUME MetadataAssumption ==
    \A m \in Metadata : \A i \in DOMAIN m.packages :
       /\ m.packages[i].name \in Seq(Symbols)
       /\ m.packages[i].version \in Seq(Symbols) \cup {None}

VARIABLES metadata, sbom
vars == <<metadata, sbom>>

\* str.replace of single symbols.
Replace(text, old, new) ==
    [i \in DOMAIN text |-> IF text[i] = old THEN new ELSE text[i]]

Version(package) == IF package.version = None THEN <<Unknown>> ELSE package.version

\* The name in the identifier.
Hyphenated(name) == Replace(Replace(name, Underscore, Hyphen), Dot, Hyphen)

\* Mutant of SpdxId: the version is left out.
SpdxIdNameOnly(package) == Hyphenated(package.name)

\* The SPDXID in package_to_spdx; "SPDXRef-Package-" goes without saying.
SpdxId(package) ==
    Hyphenated(package.name) \o <<Hyphen>>
       \o Replace(Version(package), Dot, Hyphen)

OrNoAssertion(value) == IF value = None THEN "NOASSERTION" ELSE value

\* package_external_ref, which needs a version where it finds a checksum.
RefsFail(package) == package.checksum # None /\ package.version = None
ExternalRefs(package) ==
    IF package.checksum = None THEN {}
    ELSE {[name |-> package.name, version |-> package.version,
           checksum |-> package.checksum]}

\* package_to_spdx
ToSpdx(package) ==
    [SPDXID |-> SpdxId(package), name |-> package.name,
     versionInfo |-> Version(package), externalRefs |-> ExternalRefs(package),
     downloadLocation |-> OrNoAssertion(package.source),
     licenseDeclared |-> OrNoAssertion(package.license)]

\* Mutant of RootSpdxId: the dots of the name stay.
RootSpdxIdDotted(package) ==
    Replace(package.name, Underscore, Hyphen) \o <<Hyphen>>
       \o Replace(Version(package), Dot, Hyphen)

\* The SPDXID of a root, worked out once more in build_sbom.
RootSpdxId(package) ==
    Replace(Replace(package.name, Underscore, Hyphen), Dot, Hyphen) \o <<Hyphen>>
       \o Replace(Version(package), Dot, Hyphen)

\* root_package_ids
RootIds(m) ==
    {RootSpdxId(m.packages[i]) : i \in {k \in DOMAIN m.packages :
        \E n \in DOMAIN m.members : m.members[n] = m.packages[k].id}}

(***************************************************************************)
(* The DEPENDS_ON pairs, as a set: the list is sorted by root and then in  *)
(* the order of the packages, and repeats a pair only for packages that    *)
(* share an identifier.                                                    *)
(***************************************************************************)
Relationships(m) ==
    {e \in RootIds(m) \X {SpdxId(m.packages[i]) : i \in DOMAIN m.packages} :
        e[1] # e[2]}

\* build_sbom
BuildSbom(m) ==
    [packages |-> [i \in DOMAIN m.packages |-> ToSpdx(m.packages[i])],
     relationships |-> Relationships(m)]

Init == metadata \in Metadata /\ sbom = Pending

\* main: an exception leaves no document.
Convert ==
    /\ sbom = Pending
    /\ sbom' = IF \E i \in DOMAIN metadata.packages : RefsFail(metadata.packages[i])
               THEN Failed ELSE BuildSbom(metadata)
    /\ UNCHANGED metadata

Spec == Init /\ [][Convert]_vars
-----------------------------------------------------------------------------
Written == sbom \notin {Pending, Failed}
IdsOf(s) == {s.packages[i].SPDXID : i \in DOMAIN s.packages}

(***************************************************************************)
(* Every link has both its ends among the packages of the document and     *)
(* none ends where it began: the root's identifier, which line 61 works    *)
(* out, is the one that line 36 gave the package.                          *)
(***************************************************************************)
TypeOK ==
    Written => \A e \in sbom.relationships :
                  e[1] # e[2] /\ {e[1], e[2]} \subseteq IdsOf(sbom)

\* A name in which nothing is replaced and no hyphen is.
Plain(name) ==
    \A n \in DOMAIN name : name[n] \notin {Hyphen, Underscore, Dot}

(***************************************************************************)
(* One crate in two versions, as Cargo allows, stays two packages: an      *)
(* identifier is only shared if a hyphen in a name or a version can be     *)
(* read as a separator (lines 36, 61).                                     *)
(***************************************************************************)
VersionsDistinguished ==
    Written =>
       \A i, k \in DOMAIN metadata.packages :
          LET p == metadata.packages[i]
              q == metadata.packages[k]
          IN  /\ sbom.packages[i].SPDXID = sbom.packages[k].SPDXID
              /\ Plain(p.name)
              /\ Plain(q.name)
              => /\ p.name = q.name
                 /\ \A n \in DOMAIN Version(p) : Version(p)[n] # Version(q)[n] =>
                       {Version(p)[n], Version(q)[n]} = {Hyphen, Dot}
=============================================================================
