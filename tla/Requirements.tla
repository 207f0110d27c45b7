---------------------------- MODULE Requirements ----------------------------
(***************************************************************************)
(* What @snyk/fix makes of a requirements file.  A path is a sequence of   *)
(* names, `.` and `..` among them.  A file has the files it requires, in   *)
(* order, with -r or -c, as they are spelled, and its dependency lines.    *)
(* A remediation pins packages; of the version in a line it only matters   *)
(* how it compares with the one the remediation is for: "old" is that one, *)
(* "prefix" a prefix of it (`p>=1.6` for p@1.6.1), "new" the one to move   *)
(* to.                                                                     *)
(***************************************************************************)
EXTENDS Naturals, Sequences, FiniteSets, SequencesExt

CONSTANTS
  Pkg,      \* vulnerable packages; an issue is named by its package
  Standard, \* those whose name is in the form standardizePackageName gives
  File,     \* normalised paths of the requirements files, from the workspace
  Join(_, _),     \* path.normalize(path.join(directory, path))
  Relative(_, _)  \* path.relative(directory, path)

Version == {"old", "prefix", "other", "new"}
Line    == [name : Pkg, version : Version]
Require == [kind : {"r", "c"}, path : Seq(STRING) \ {<<>>}]
Text    == [requires : Seq(Require), lines : SUBSET Line]
Change  == [pkg : Pkg, from : Version, success : BOOLEAN]

Dir(path) == Front(path)

(* A path that was made relative leads back to its file.                   *)
ASSUME PkgAssumption  == Standard \subseteq Pkg
ASSUME FileAssumption == \A f \in File : f \in Seq(STRING) /\ f # <<>>
ASSUME PathAssumption ==
  \A f, g \in File : Relative(Dir(g), f) \in Seq(STRING) /\ Join(Dir(g), Relative(Dir(g), f)) = f

Names(lines) == {l.name : l \in lines}
Took(pkg, from) == [pkg |-> pkg, from |-> from, success |-> TRUE]

(* generateUpgrades: a line is moved when name@version is a prefix of what *)
(* is pinned.                                                              *)
Upgradable(lines, pins)     == {l \in lines : l.name \in pins /\ l.version \in {"old", "prefix"}}
UpgradeChanges(lines, pins) == {Took(l.name, l.version) : l \in Upgradable(lines, pins)}
Upgraded(lines, pins) ==
  (lines \ Upgradable(lines, pins)) \cup {[l EXCEPT !.version = "new"] : l \in Upgradable(lines, pins)}

(* generatePins: what is not named in the file at all is added to it.      *)
Transitive(lines, pins) == pins \ Names(lines)
PinChanges(lines, pins) == {Took(p, "old") : p \in Transitive(lines, pins)}
Pinned(lines, pins) ==
  Upgraded(lines, pins) \cup {[name |-> p, version |-> "new"] : p \in Transitive(lines, pins)}

(* filterOutAppliedUpgrades: an upgrade of a line with a mere prefix of    *)
(* the version does not count.                                             *)
NotApplied(pins, changes) == {p \in pins : Took(p, "old") \notin changes}

(* selectFileForPinning: the first constraints file, else the file itself. *)
PinFile(path, text) ==
  LET constraints == {i \in DOMAIN text.requires : text.requires[i].kind = "c"}
  IN  IF constraints = {} THEN path ELSE Join(Dir(path), text.requires[Min(constraints)].path)

(* Paths a file requires, and the files it leads to.                       *)
Required(text, path) == {Join(Dir(path), text.requires[i].path) : i \in DOMAIN text.requires}
Closed(texts, S)     == \A f \in S : Required(texts[f], f) \cap File \subseteq S
Reach(texts, path) ==
  {f \in File : \A S \in SUBSET File : {path} \cap File \subseteq S /\ Closed(texts, S) => f \in S}
=============================================================================
