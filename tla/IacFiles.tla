------------------------------ MODULE IacFiles ------------------------------
(***************************************************************************)
(* `snyk iac test`, what it computes from files and rules: which files are *)
(* read, what of them is evaluated and by which engine, and which issues   *)
(* are shown of what the engines found.  A file is a record of its type,   *)
(* what reading it gives and its documents; a document is the set of rules *)
(* it breaks and the configuration types whose required fields it has.     *)
(* Files and documents are sets: what order they come in decides nothing.  *)
(***************************************************************************)
EXTENDS Integers, Sequences, SequencesExt, FiniteSets

CONSTANTS
  Tree,      \* path -> [folder, policy, files]
  Severity   \* rule -> 0 (none) .. 4 (critical)

Plain  == {"tf", "k8s", "cfn", "arm"}
Engine == Plain \cup {"custom"}
Rule   == DOMAIN Severity

(* makeDirectoryIterator: what is not deeper than asked for, without names *)
(* that start with a period, which Tree leaves out.  A path that is a file *)
(* is that file.                                                           *)
DirectoryFiles(path, depth) == {f \in Tree[path].files : Tree[path].folder => f.depth <= depth}

(* tryLoadFileData reads what has one of the known extensions.             *)
Supported(path, depth) == {f \in DirectoryFiles(path, depth) : f.type \in {"tf", "json", "yaml"}}

LoadFiles(path, depth) ==
  LET files == Supported(path, depth)
  IN  [error |-> IF \E f \in files : f.text = "unreadable" THEN "unreadable"
                 ELSE IF files = {} THEN "nothing" ELSE "none",
       files |-> {f \in files : f.text # "empty"}]

(* A resource is created, read, changed, deleted, replaced or left alone.  *)
ResourceActions ==
  {<<"no-op">>, <<"create">>, <<"read">>, <<"update">>, <<"delete", "create">>, <<"create", "delete">>, <<"delete">>}

ResourceChange == [name : STRING, actions : ResourceActions, breaks : SUBSET Rule]
Document == [fits : SUBSET {"cfn", "k8s", "arm", "plan"}, breaks : SUBSET Rule, changes : Seq(ResourceChange)]

(* Files of a path have different names; one of Terraform is a single      *)
(* document.                                                               *)
ASSUME TreeAssumption ==
  \A path \in DOMAIN Tree :
    /\ \A f, g \in Tree[path].files : f.name = g.name => f = g
    /\ \A f \in Tree[path].files :
         f.text = "ok" => f.docs \in Seq(Document) /\ (f.type = "tf" => Len(f.docs) = 1)

(* VALID_RESOURCE_ACTIONS_FOR_DELTA_SCAN and _FULL_SCAN.                   *)
ValidActions(full) ==
  {<<"create">>, <<"update">>, <<"create", "delete">>, <<"delete", "create">>}
    \cup (IF full THEN {<<"no-op">>} ELSE {})

(* Resources are kept by type and name: of two the plan changes under one  *)
(* name (in different modules) the later one is evaluated.                 *)
ExtractResources(changes, full) ==
  LET kept == {i \in DOMAIN changes : changes[i].actions \in ValidActions(full)}
  IN  UNION {changes[i].breaks : i \in {j \in kept : \A k \in kept : k > j => changes[k].name # changes[j].name}}

Parsed(f, doc, engine, breaks) == [file |-> f.name, doc |-> doc, engine |-> engine, breaks |-> breaks]

(* detectConfigType: the first type whose fields the document has; one     *)
(* that has the fields of none is left out.                                *)
TypeOf(doc) == IF "cfn" \in doc.fits THEN "cfn" ELSE IF "k8s" \in doc.fits THEN "k8s" ELSE "arm"
Known(doc)  == doc.fits \cap {"cfn", "k8s", "arm"} # {}

DetectConfigType(f) ==
  {Parsed(f, IF f.type = "json" \/ TypeOf(f.docs[d]) = "arm" THEN 0 ELSE d, TypeOf(f.docs[d]), f.docs[d].breaks) :
     d \in {x \in DOMAIN f.docs : Known(f.docs[x])}}

(* A Terraform plan is a JSON file with a single document.                 *)
IsTerraformPlan(f) == f.type = "json" /\ Len(f.docs) = 1 /\ "plan" \in f.docs[1].fits

TryParsingTerraformPlan(f, full) == {Parsed(f, 0, "tf", ExtractResources(f.docs[1].changes, full))}

TryParsingTerraformFile(f) == {Parsed(f, 0, "tf", f.docs[1].breaks)}

TryParseIacFile(f, full) ==
  IF f.type = "tf" THEN TryParsingTerraformFile(f)
  ELSE IF IsTerraformPlan(f) THEN TryParsingTerraformPlan(f, full)
  ELSE DetectConfigType(f)

(* parseYAMLOrJSONFileData throws.                                         *)
Unparsable(f) == f.text = "broken"

(* One broken file is an error when it is the only one and else a failure. *)
ParseFiles(files, full) ==
  LET good   == {f \in files : ~Unparsable(f)}
      parsed == UNION {TryParseIacFile(f, full) : f \in good}
  IN  [error  |-> IF good = {} /\ Cardinality(files) = 1 THEN "invalid"
                  ELSE IF parsed = {} THEN "nothing" ELSE "none",
       parsed |-> parsed,
       failed |-> {f.name : f \in files \ good}]

(* With custom rules every file is evaluated by both engines.              *)
Duplicates(parsed) == parsed \cup {[s EXCEPT !.engine = "custom"] : s \in parsed}

(* applyCustomSeverities: the organisation's severity instead of the       *)
(* rule's own.                                                             *)
SeverityOf(rule, customPolicies) ==
  IF rule \in DOMAIN customPolicies THEN customPolicies[rule] ELSE Severity[rule]

(* filterPoliciesBySeverity; without a threshold it is 1 (low).            *)
Shown(severity, threshold) == severity > 0 /\ severity >= threshold

Issue(rule, scan, severity) ==
  [rule |-> rule, doc |-> scan.doc, custom |-> scan.engine = "custom", severity |-> severity]

(* formatScanResult: the issues of one evaluated document.                 *)
FormatScanResult(scan, threshold, customPolicies) ==
  {Issue(r, scan, SeverityOf(r, customPolicies)) :
     r \in {q \in scan.violated : Shown(SeverityOf(q, customPolicies), threshold)}}

(* Mutant of FormatScanResults: one document of a file takes the place of  *)
(* the others.                                                             *)
FormatScanResultsLast(scans, threshold, customPolicies) ==
  [f \in {s.file : s \in scans} |->
     FormatScanResult(CHOOSE s \in scans : s.file = f, threshold, customPolicies)]

(* formatScanResults: one result for a file, with the issues of all its    *)
(* documents by all the engines.                                           *)
FormatScanResults(scans, threshold, customPolicies) ==
  [f \in {s.file : s \in scans} |->
     UNION {FormatScanResult(s, threshold, customPolicies) : s \in {x \in scans : x.file = f}}]

(* filterIgnoredIssues, by the rule and the file the policy names.         *)
FilterIgnoredIssues(ignores, formatted) ==
  [f \in DOMAIN formatted |-> {issue \in formatted[f] : <<f, issue.rule>> \notin ignores}]
=============================================================================
