--------------------------- MODULE MCSnykProtect ---------------------------
(* Two copies of one package at two versions and one of another; the first   *)
(* package has a vulnerability with one patch of two diffs and a second one  *)
(* whose patch edits one of the same files; a third package the .snyk file   *)
(* may name is not installed.                                                *)
EXTENDS SnykProtect, TLC

CONSTANTS lodash, axios, nyc, v1, v2, index, lib, vA, vB, vC, vD, dA1, dA2, dB, dC

MCNames     == {lodash, axios, nyc}
MCVersions  == {v1, v2}
MCPaths     == {index, lib}
MCVulns     == {vA, vB, vC, vD}
MCDiffs     == {dA1, dA2, dB, dC}
MCPackageOf == vA :> lodash @@ vB :> lodash @@ vC :> axios @@ vD :> nyc
MCPathOf    == dA1 :> index @@ dA2 :> lib @@ dB :> index @@ dC :> index
MCOffers(v, ver) ==
  CASE v = vA /\ ver = v1 -> <<dA1, dA2>>
    [] v = vA /\ ver = v2 -> <<dA1>>
    [] v = vB /\ ver = v1 -> <<dB>>
    [] v = vC -> <<dC>>
    [] OTHER -> <<>>
MCCatalogue == [r \in MCVulns \X MCVersions |-> MCOffers(r[1], r[2])]
MCInstalled == << [name |-> lodash, version |-> v1],
                  [name |-> lodash, version |-> v2],
                  [name |-> axios,  version |-> v1],
                  [name |-> lodash, version |-> v1] >>
MCLegacyFiles == {<<2, index>>, <<1, lib>>}
(* dA1 rewrites the lines dA1 and dB look for; dA2 and dC only add lines.    *)
MCClashes   == {<<dA1, dA1>>}
MCSnykFiles == {NoSnykFile, BadSnykFile, <<vD>>, <<vA, vB>>, <<vC, vB>>}
=============================================================================
