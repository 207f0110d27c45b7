----------------------------- MODULE MCIacTest ------------------------------
(* Two runs in one working directory; a folder with a file of each kind, a *)
(* small one, a plan, one without anything that is known, single files; a  *)
(* bundle of custom rules that also brings rules for Terraform, one        *)
(* without custom rules, one that is no archive.                           *)
EXTENDS IacTest

F(name, type, text, docs) == [name |-> name, type |-> type, depth |-> 1, text |-> text, docs |-> docs]
D(fits, breaks) == [fits |-> fits, breaks |-> breaks, changes |-> <<>>]
Plan(changes) == [fits |-> {"plan"}, breaks |-> {}, changes |-> changes]
C(name, actions, breaks) == [name |-> name, actions |-> actions, breaks |-> breaks]
T(folder, files) == [folder |-> folder, files |-> files, policy |-> [readable |-> TRUE, ignores |-> {}]]

MCSeverity == [low |-> 1, high |-> 3, off |-> 0, own |-> 2]

Main   == F("main.tf", "tf", "ok", <<D({}, {"low", "high", "own"})>>)
Pods   == F("pods.yaml", "yaml", "ok", <<D({"k8s"}, {"high"}), D({}, {"high"}), D({"k8s", "cfn"}, {"low", "off"})>>)
Deep   == [F("deep.tf", "tf", "ok", <<D({}, {"own"})>>) EXCEPT !.depth = 2]
Bad    == F("bad.yaml", "yaml", "broken", <<>>)
Empty  == F("empty.json", "json", "empty", <<>>)
Notes  == F("notes.txt", "other", "unreadable", <<>>)
Values == F("values.yaml", "yaml", "ok", <<D({}, {"high"})>>)
Locked == F("locked.tf", "tf", "unreadable", <<>>)
Planned ==
  F("plan.json", "json", "ok",
    <<Plan(<<C("a", <<"create">>, {"high"}), C("b", <<"no-op">>, {"own"}), C("a", <<"update">>, {"low"}),
             C("c", <<"delete">>, {"high"}), C("d", <<"delete", "create">>, {"own"})>>)>>)

MCTree ==
  [folder  |-> [T(TRUE, {Main, Pods, Deep, Bad, Empty, Notes}) EXCEPT !.policy.ignores = {<<"main.tf", "high">>}],
   small   |-> T(TRUE, {Main, Deep, Bad}),
   plan    |-> T(FALSE, {Planned}),
   file    |-> T(FALSE, {Main}),
   nothing |-> T(TRUE, {Values, Empty}),
   broken  |-> T(FALSE, {Bad}),
   locked  |-> T(TRUE, {Main, Locked}),
   snyk    |-> [T(TRUE, {Main}) EXCEPT !.policy.readable = FALSE]]

MCBundles ==
  [snyk  |-> [readable |-> TRUE, entries |-> <<"cfn", "k8s", "tf">>, rules |-> {"low", "high", "off"}],
   ours  |-> [readable |-> TRUE, entries |-> <<"custom", "tf">>, rules |-> {"own"}],
   empty |-> [readable |-> TRUE, entries |-> <<"tf">>, rules |-> {}],
   text  |-> [readable |-> FALSE, entries |-> <<>>, rules |-> {}]]

Simple(paths) ==
  [paths |-> paths, rules |-> None, registry |-> None, entitled |-> TRUE, depth |-> 2, full |-> FALSE,
   threshold |-> 1, customPolicies |-> <<>>]

First ==
  {[Simple(<<"small", "nothing">>) EXCEPT !.rules = "ours"], [Simple(<<"plan">>) EXCEPT !.registry = "ours"],
   [Simple(<<"folder", "plan">>) EXCEPT !.depth = 1, !.full = TRUE],
   [Simple(<<"plan", "file">>) EXCEPT !.threshold = 3, !.customPolicies = [low |-> 4]],
   [Simple(<<"folder">>) EXCEPT !.customPolicies = [high |-> 0, off |-> 1]],
   Simple(<<"broken", "locked">>), Simple(<<"snyk">>),
   [Simple(<<"file">>) EXCEPT !.rules = "ours", !.entitled = FALSE],
   [Simple(<<"file">>) EXCEPT !.rules = "empty"], [Simple(<<"file">>) EXCEPT !.rules = "text"],
   [Simple(<<"file">>) EXCEPT !.rules = "missing"], [Simple(<<"file">>) EXCEPT !.rules = "ours", !.registry = "ours"]}
MCCommands(p) == IF p = 1 THEN First ELSE {Simple(<<"file">>), [Simple(<<"file">>) EXCEPT !.registry = "empty"]}
=============================================================================
