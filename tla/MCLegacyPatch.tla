-------------------------- MODULE MCLegacyPatch --------------------------
(* Two vulnerabilities of debug, which npm has put in one place for two       *)
(* routes, the second with two diffs; the two of ms share a route; tar stands *)
(* for itself. A text that is cut off early fits no diff.                      *)
EXTENDS LegacyPatch

CONSTANTS debug, ms, tar, vOld, vNew, vMs, byA, byB, byC, byD, uOld, uNew, uMs, uLib,
  early, late

MCDirs  == {debug, ms, tar}
MCIds   == {vOld, vNew, vMs}
MCUrls  == {uOld, uNew, uMs, uLib}
MCRoutes == {byA, byB, byC, byD}
MCEditsOf == [u \in MCUrls |-> CASE u = uNew -> <<2, 1>> [] u = uLib -> <<2>> [] OTHER -> <<1>>]

V(id, route, published, dir, urls, grouped, matches) ==
  [id |-> id, route |-> route, published |-> published, dir |-> dir, urls |-> urls,
   grouped |-> grouped, matches |-> matches]

MCList ==
  << V(vOld, byA, 1, debug, {uOld}, FALSE, TRUE),
     V(vNew, byB, 1, debug, {uMs, uLib}, TRUE, TRUE),
     V(vOld, byC, 1, ms, {uOld}, FALSE, TRUE),
     V(vMs, byC, 2, ms, {uNew}, TRUE, TRUE),
     V(vMs, byD, 1, tar, {uMs}, FALSE, TRUE) >>
MCCuts == {early, late}
MCClashes == {<<uOld, uOld>>, <<uLib, uLib>>} \cup {<<early, u>> : u \in MCUrls}
=============================================================================
