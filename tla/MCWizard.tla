------------------------------ MODULE MCWizard ------------------------------
(* Paths 1 and 2 share a direct dependency, 3 needs another one for        *)
(* development; 4 to 6 share a package that can be patched: 4 and 5 a      *)
(* route, 4 and 6 a vulnerability, 7 has an older one; 8 is patched below  *)
(* the dependency of 2; 9 cannot be helped, 10 is installed anew; of 11    *)
(* only what is below its dependency is.                                   *)
EXTENDS Wizard

CONSTANTS a, b, c, d, e, v1, v2, v3, v4, v5, v6, v7, r1, r2, r3, r4, r5, r6, r7, r8, r9

MCDeps == {a, b, c, d, e}
MCIds == {v1, v2, v3, v4, v5, v6, v7}
MCRoutes == {r1, r2, r3, r4, r5, r6, r7, r8, r9}

V(id, name, dep, route, published, upgradeTo) ==
  [id |-> id, name |-> name, version |-> 1, dep |-> dep, route |-> route, published |-> published,
   depType |-> "prod", fixed |-> FALSE, license |-> FALSE, upgradeTo |-> upgradeTo, reinstall |-> FALSE, deeper |-> FALSE,
   patches |-> {}]
P(versions, modified, urls) == [versions |-> versions, modified |-> modified, urls |-> urls]
Fits == {P({1, 2}, 2, TRUE), P({1}, 1, FALSE), P({2}, 3, FALSE)}

MCList ==
  << V(v1, "x", a, r1, 1, 2),
     V(v2, "y", a, r2, 1, 3),
     [V(v3, "b", b, r3, 1, 2) EXCEPT !.depType = "dev"],
     [V(v4, "z", c, r4, 3, 0) EXCEPT !.patches = Fits],
     [V(v5, "z", c, r4, 2, 0) EXCEPT !.patches = Fits],
     [V(v4, "z", d, r5, 3, 0) EXCEPT !.patches = Fits],
     [V(v5, "z", d, r6, 2, 0) EXCEPT !.patches = Fits],
     [V(v6, "w", a, r7, 1, 0) EXCEPT !.patches = Fits],
     [V(v7, "e", e, r8, 1, 2) EXCEPT !.depType = "extraneous"],
     [V(v2, "d", d, r6, 1, 1) EXCEPT !.reinstall = TRUE, !.patches = Fits],
     [V(v5, "y", a, r9, 1, 0) EXCEPT !.deeper = TRUE, !.patches = Fits] >>

MCBase == [x \in MCDeps |-> 1]
MCProjects == {{}, {1, 2, 3}, {2, 3, 8, 9}, {4, 5, 6}, {4, 7, 9}, {8, 10, 11}}
MCPolicies == {None, [ignore |-> {<<v2, r2>>}, patch |-> {<<v4, r4>>}]}

O(isCI, dryRun, json, yarn) == [isCI |-> isCI, dryRun |-> dryRun, json |-> json, yarn |-> yarn]
MCOptions == {O(FALSE, FALSE, FALSE, FALSE), O(FALSE, TRUE, FALSE, FALSE), O(TRUE, FALSE, FALSE, TRUE), O(FALSE, FALSE, TRUE, FALSE)}
=============================================================================
