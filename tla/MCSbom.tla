------------------------------- MODULE MCSbom -------------------------------
(***************************************************************************)
(* A workspace of one or two members with up to two dependencies: crates   *)
(* in two versions, of one name from two sources, without a version, and   *)
(* a pair whose name and version flow into each other (a-1 2 and a 1-2).   *)
(***************************************************************************)
EXTENDS Sbom

Package(id, name, version) ==
    [id |-> id, name |-> name, version |-> version, source |-> None,
     license |-> "MIT", checksum |-> None]

MCSymbols == {Hyphen, Underscore, Dot, Unknown, "n", "c", "a", "s", "b",
              "0", "1", "2"}

Root     == Package("root", <<"n", "_", "c">>, <<"0", ".", "1">>)
Member   == Package("member", <<"n", ".", "c">>, <<"0", ".", "1">>)
Hyphened == Package("hyphen", <<"a", "-", "1">>, <<"2">>)
MCPackages ==
    {Root, Member, Hyphened,
     Package("joined", <<"a">>, <<"1", "-", "2">>),
     Package("dotted", <<"a">>, <<"1", ".", "2">>),
     [Package("registry", <<"s">>, <<"1", ".", "0">>) EXCEPT
        !.source = "registry", !.checksum = "c1"],
     [Package("git", <<"s">>, <<"1", ".", "0">>) EXCEPT !.source = "git"],
     [Package("newer", <<"s">>, <<"2", ".", "0">>) EXCEPT !.license = None],
     Package("unversioned", <<"s">>, None),
     [Package("broken", <<"b">>, None) EXCEPT !.checksum = "c2"]}

MCMembers == {<<>>, <<"root">>, <<"root", "member">>, <<"member", "hyphen">>,
              <<"elsewhere", "git">>}
Distinct(s) == \A i, k \in DOMAIN s : s[i] = s[k] => i = k
MCLists == {s \in UNION {[1 .. n -> MCPackages] : n \in 0 .. 3} : Distinct(s)}
MCMetadata == [members : MCMembers, packages : MCLists]
=============================================================================
