-------------------------- MODULE IacReportProofs ---------------------------
(***************************************************************************)
(* That what `snyk iac test` shows is what the files break, for any tree,  *)
(* any bundles of rules and any number of runs in one directory.           *)
(***************************************************************************)
EXTENDS IacProofs

-----------------------------------------------------------------------------
(***************************************************************************)
(* What is read and evaluated of a path.                                   *)
(***************************************************************************)
FilesOf(p, path)  == LoadFiles(path, command[p].depth)
ReadOf(p, path)   == ParseFiles(FilesOf(p, path).files, command[p].full)
FailedOf(p, path) == IF Tree[path].folder THEN ReadOf(p, path).failed ELSE {}

EvaluatedOf(p, path) ==
  IF Custom(p) THEN Duplicates(ReadOf(p, path).parsed) ELSE ReadOf(p, path).parsed

IssuesOf(p, path) ==
  FilterIgnoredIssues(Tree[path].policy.ignores,
                      FormatScanResults({Scan(p, s) : s \in EvaluatedOf(p, path)},
                                        command[p].threshold, command[p].customPolicies))

(* Of the current path.                                                    *)
LEMMA OfCurrent ==
  ASSUME NEW p
  PROVE  /\ Loaded(p) = FilesOf(p, Path(p)) /\ Read(p) = ReadOf(p, Path(p))
         /\ Evaluated(p) = EvaluatedOf(p, Path(p)) /\ FilteredIssues(p) = IssuesOf(p, Path(p))
BY DEF Loaded, Read, Evaluated, Scanned, FilteredIssues, FilesOf, ReadOf, EvaluatedOf, IssuesOf

LEMMA LoadedFields ==
  ASSUME NEW path, NEW depth
  PROVE  /\ LoadFiles(path, depth).files = {f \in Supported(path, depth) : f.text # "empty"}
         /\ LoadFiles(path, depth).error = IF \E f \in Supported(path, depth) : f.text = "unreadable" THEN "unreadable"
                                           ELSE IF Supported(path, depth) = {} THEN "nothing" ELSE "none"
BY DEF LoadFiles

GoodOf(files) == {f \in files : ~Unparsable(f)}

LEMMA ParsedFields ==
  ASSUME NEW files, NEW full
  PROVE  /\ ParseFiles(files, full).parsed = UNION {TryParseIacFile(f, full) : f \in GoodOf(files)}
         /\ ParseFiles(files, full).failed = {f.name : f \in files \ GoodOf(files)}
         /\ ParseFiles(files, full).error
              = IF GoodOf(files) = {} /\ Cardinality(files) = 1 THEN "invalid"
                ELSE IF ParseFiles(files, full).parsed = {} THEN "nothing" ELSE "none"
BY DEF ParseFiles, GoodOf

LEMMA ParsedIs ==
  ASSUME NEW f, NEW doc, NEW engine, NEW breaks
  PROVE  /\ Parsed(f, doc, engine, breaks).file = f.name /\ Parsed(f, doc, engine, breaks).doc = doc
         /\ Parsed(f, doc, engine, breaks).engine = engine /\ Parsed(f, doc, engine, breaks).breaks = breaks
BY DEF Parsed

(* Every document is evaluated by the engine of its type.                  *)
LEMMA ParsedOfFile ==
  ASSUME NEW f, NEW full, NEW s \in TryParseIacFile(f, full)
  PROVE  /\ s.file = f.name /\ s.engine \in Plain
         /\ f.type = "tf" => s.breaks = f.docs[1].breaks
         /\ f.type # "tf" /\ IsTerraformPlan(f) => s.breaks = ExtractResources(f.docs[1].changes, full)
         /\ f.type # "tf" /\ ~IsTerraformPlan(f) =>
              \E d \in DOMAIN f.docs : Known(f.docs[d]) /\ s.breaks = f.docs[d].breaks
<1>1. CASE f.type = "tf"
  <2>1. s = Parsed(f, 0, "tf", f.docs[1].breaks)
    BY <1>1 DEF TryParseIacFile, TryParsingTerraformFile
  <2> QED BY <1>1, <2>1, ParsedIs DEF Plain
<1>2. CASE f.type # "tf" /\ IsTerraformPlan(f)
  <2>1. s = Parsed(f, 0, "tf", ExtractResources(f.docs[1].changes, full))
    BY <1>2 DEF TryParseIacFile, TryParsingTerraformPlan
  <2> QED BY <1>2, <2>1, ParsedIs DEF Plain
<1>3. CASE f.type # "tf" /\ ~IsTerraformPlan(f)
  <2>1. PICK d \in DOMAIN f.docs :
          /\ Known(f.docs[d])
          /\ s = Parsed(f, IF f.type = "json" \/ TypeOf(f.docs[d]) = "arm" THEN 0 ELSE d, TypeOf(f.docs[d]), f.docs[d].breaks)
    BY <1>3 DEF TryParseIacFile, DetectConfigType
  <2>2. TypeOf(f.docs[d]) \in Plain
    BY DEF TypeOf, Plain
  <2> QED BY <1>3, <2>1, <2>2, ParsedIs
<1> QED BY <1>1, <1>2, <1>3

(* ...and the other way round.                                             *)
LEMMA FileIsParsed ==
  ASSUME NEW f, NEW full
  PROVE  /\ f.type = "tf" => \E s \in TryParseIacFile(f, full) : s.breaks = f.docs[1].breaks
         /\ f.type # "tf" /\ IsTerraformPlan(f) =>
              \E s \in TryParseIacFile(f, full) : s.breaks = ExtractResources(f.docs[1].changes, full)
         /\ f.type # "tf" /\ ~IsTerraformPlan(f) =>
              \A d \in DOMAIN f.docs : Known(f.docs[d]) => \E s \in TryParseIacFile(f, full) : s.breaks = f.docs[d].breaks
<1>1. ASSUME f.type = "tf" PROVE \E s \in TryParseIacFile(f, full) : s.breaks = f.docs[1].breaks
  <2>1. Parsed(f, 0, "tf", f.docs[1].breaks) \in TryParseIacFile(f, full)
    BY <1>1 DEF TryParseIacFile, TryParsingTerraformFile
  <2> QED BY <2>1, ParsedIs
<1>2. ASSUME f.type # "tf", IsTerraformPlan(f)
      PROVE  \E s \in TryParseIacFile(f, full) : s.breaks = ExtractResources(f.docs[1].changes, full)
  <2>1. Parsed(f, 0, "tf", ExtractResources(f.docs[1].changes, full)) \in TryParseIacFile(f, full)
    BY <1>2 DEF TryParseIacFile, TryParsingTerraformPlan
  <2> QED BY <2>1, ParsedIs
<1>3. ASSUME f.type # "tf", ~IsTerraformPlan(f), NEW d \in DOMAIN f.docs, Known(f.docs[d])
      PROVE  \E s \in TryParseIacFile(f, full) : s.breaks = f.docs[d].breaks
  <2>1. Parsed(f, IF f.type = "json" \/ TypeOf(f.docs[d]) = "arm" THEN 0 ELSE d, TypeOf(f.docs[d]), f.docs[d].breaks)
          \in TryParseIacFile(f, full)
    BY <1>3 DEF TryParseIacFile, DetectConfigType
  <2> QED BY <2>1, ParsedIs
<1> QED BY <1>1, <1>2, <1>3

(* A resource is evaluated when the plan leaves it behind or, in a full    *)
(* scan, finds it.                                                         *)
LEMMA ActionsOfPlan ==
  ASSUME NEW c, c.actions \in ResourceActions, NEW full
  PROVE  c.actions \in ValidActions(full) <=> InPlan(c, full)
<1> DEFINE a == c.actions
<1>1. /\ ToSet(<<"no-op">>) = {"no-op"} /\ ToSet(<<"create">>) = {"create"} /\ ToSet(<<"read">>) = {"read"}
      /\ ToSet(<<"update">>) = {"update"} /\ ToSet(<<"delete">>) = {"delete"}
      /\ ToSet(<<"delete", "create">>) = {"delete", "create"} /\ ToSet(<<"create", "delete">>) = {"create", "delete"}
  BY DEF ToSet
<1>2. InPlan(c, full) <=> {"create", "update"} \cap ToSet(a) # {} \/ (full /\ a = <<"no-op">>)
  BY DEF InPlan
<1>3. /\ <<"create">> \in ValidActions(full) /\ <<"update">> \in ValidActions(full)
      /\ <<"create", "delete">> \in ValidActions(full) /\ <<"delete", "create">> \in ValidActions(full)
      /\ <<"read">> \notin ValidActions(full) /\ <<"delete">> \notin ValidActions(full)
      /\ <<"no-op">> \in ValidActions(full) <=> full
  BY DEF ValidActions
<1> HIDE DEF a
<1>4. CASE a = <<"no-op">>
  BY <1>1, <1>2, <1>3, <1>4 DEF a
<1>5. CASE a \in {<<"read">>, <<"delete">>}
  BY <1>1, <1>2, <1>3, <1>5 DEF a
<1>6. CASE a \in {<<"create">>, <<"update">>, <<"delete", "create">>, <<"create", "delete">>}
  BY <1>1, <1>2, <1>3, <1>6 DEF a
<1> QED BY <1>4, <1>5, <1>6 DEF a, ResourceActions

LEMMA ResourcesOfPlan ==
  ASSUME NEW f, f.docs[1].changes \in Seq(ResourceChange), NEW full
  PROVE  LET kept == {x \in ToSet(f.docs[1].changes) : InPlan(x, full)}
         IN  /\ ExtractResources(f.docs[1].changes, full) \subseteq UNION {c.breaks : c \in kept}
             /\ UNION {c.breaks : c \in {x \in kept : Alone(x, f)}} \subseteq ExtractResources(f.docs[1].changes, full)
<1> DEFINE changes == f.docs[1].changes
           valid   == {i \in DOMAIN changes : changes[i].actions \in ValidActions(full)}
           last    == {j \in valid : \A k \in valid : k > j => changes[k].name # changes[j].name}
<1>1. ExtractResources(changes, full) = UNION {changes[i].breaks : i \in last}
  BY DEF ExtractResources
<1>2. \A i \in DOMAIN changes : changes[i] \in ToSet(changes)
  BY DEF ToSet
<1>3. \A c \in ToSet(changes) : \E i \in DOMAIN changes : c = changes[i]
  BY DEF ToSet
<1>4. \A c \in ToSet(changes) : c.actions \in ValidActions(full) <=> InPlan(c, full)
  <2>1. \A i \in DOMAIN changes : changes[i] \in ResourceChange
    BY ElementOfSeq, LenProperties
  <2>2. \A c \in ToSet(changes) : c.actions \in ResourceActions
    BY <1>3, <2>1 DEF ResourceChange
  <2> QED BY <2>2, ActionsOfPlan
<1>5. \A c : Alone(c, f) <=> \E i \in DOMAIN changes : {j \in DOMAIN changes : changes[j].name = c.name} = {i}
  BY DEF Alone
<1>8. DOMAIN changes \subseteq Nat
  BY LenProperties
<1> HIDE DEF changes
<1>6. ASSUME NEW r \in ExtractResources(changes, full)
      PROVE  \E c \in {x \in ToSet(changes) : InPlan(x, full)} : r \in c.breaks
  <2>1. PICK i \in last : r \in changes[i].breaks
    BY <1>1
  <2>2. i \in DOMAIN changes /\ changes[i] \in ToSet(changes) /\ InPlan(changes[i], full)
    BY <1>2, <1>4
  <2> QED BY <2>1, <2>2
<1>7. ASSUME NEW c \in ToSet(changes), InPlan(c, full), Alone(c, f), NEW r \in c.breaks
      PROVE  r \in ExtractResources(changes, full)
  <2>1. PICK i \in DOMAIN changes : c = changes[i]
    BY <1>3
  <2>2. i \in valid
    BY <1>4, <1>7, <2>1
  <2>3. \A j \in DOMAIN changes : changes[j].name = changes[i].name => j = i
    BY <1>5, <1>7, <2>1
  <2>4. i \in last
    <3> SUFFICES ASSUME NEW k \in valid, k > i PROVE changes[k].name # changes[i].name
      BY <2>2
    <3>1. k # i
      BY <1>8, <2>1
    <3> QED BY <2>3, <3>1
  <2> QED BY <1>1, <1>7, <2>1, <2>4
<1> QED BY <1>6, <1>7 DEF changes

-----------------------------------------------------------------------------
(***************************************************************************)
(* What is shown of a file: by a rule of an engine that evaluated one of   *)
(* its documents.                                                          *)
(***************************************************************************)
LEMMA EnginesAsked ==
  ASSUME NEW p, NEW path, NEW s \in EvaluatedOf(p, path)
  PROVE  /\ s.engine \in Engine
         /\ s.engine = "custom" => Custom(p)
         /\ \E x \in ReadOf(p, path).parsed : s.file = x.file /\ s.breaks = x.breaks
<1>1. ASSUME NEW x \in ReadOf(p, path).parsed
      PROVE  /\ x.engine \in Plain /\ x.engine # "custom"
             /\ [x EXCEPT !.engine = "custom"].engine = "custom"
             /\ [x EXCEPT !.engine = "custom"].file = x.file /\ [x EXCEPT !.engine = "custom"].breaks = x.breaks
  <2>1. PICK f : x \in TryParseIacFile(f, command[p].full)
    BY ParsedFields DEF ReadOf
  <2>2. x.engine \in Plain
    BY <2>1, ParsedOfFile
  <2>3. \E g, doc, engine, breaks : x = Parsed(g, doc, engine, breaks)
    BY <2>1 DEF TryParseIacFile, TryParsingTerraformFile, TryParsingTerraformPlan, DetectConfigType
  <2>4. /\ [x EXCEPT !.engine = "custom"].engine = "custom"
        /\ [x EXCEPT !.engine = "custom"].file = x.file /\ [x EXCEPT !.engine = "custom"].breaks = x.breaks
    BY <2>3 DEF Parsed
  <2> QED BY <2>2, <2>4 DEF Plain
<1>2. CASE s \in ReadOf(p, path).parsed
  BY <1>1, <1>2 DEF Engine
<1>3. CASE Custom(p) /\ \E x \in ReadOf(p, path).parsed : s = [x EXCEPT !.engine = "custom"]
  BY <1>1, <1>3 DEF Engine
<1> QED BY <1>2, <1>3 DEF EvaluatedOf, Duplicates

(* Every document is evaluated by its own engine, and by the custom one.   *)
LEMMA EvaluatedByAll ==
  ASSUME NEW p, NEW path, NEW x \in ReadOf(p, path).parsed
  PROVE  /\ \E s \in EvaluatedOf(p, path) : s.file = x.file /\ s.breaks = x.breaks /\ s.engine # "custom"
         /\ Custom(p) => \E s \in EvaluatedOf(p, path) : s.file = x.file /\ s.breaks = x.breaks /\ s.engine = "custom"
<1>1. PICK f : x \in TryParseIacFile(f, command[p].full)
  BY ParsedFields DEF ReadOf
<1>2. x.engine \in Plain
  BY <1>1, ParsedOfFile
<1>3. \E g, doc, engine, breaks : x = Parsed(g, doc, engine, breaks)
  BY <1>1 DEF TryParseIacFile, TryParsingTerraformFile, TryParsingTerraformPlan, DetectConfigType
<1>4. /\ [x EXCEPT !.engine = "custom"].engine = "custom"
      /\ [x EXCEPT !.engine = "custom"].file = x.file /\ [x EXCEPT !.engine = "custom"].breaks = x.breaks
  BY <1>3 DEF Parsed
<1>5. x \in EvaluatedOf(p, path) /\ (Custom(p) => [x EXCEPT !.engine = "custom"] \in EvaluatedOf(p, path))
  BY DEF EvaluatedOf, Duplicates
<1> QED BY <1>2, <1>4, <1>5 DEF Plain

ShownRules(issues, f) == IF f \in DOMAIN issues THEN {x.rule : x \in issues[f]} ELSE {}

LEMMA ScanIs ==
  ASSUME NEW p, NEW s
  PROVE  /\ Scan(p, s).file = s.file
         /\ Scan(p, s).violated = s.breaks \cap Bundles[engines[p][s.engine]].rules
BY DEF Scan

(* Which rules are shown for a file: filters lose none but those they are  *)
(* to keep back.                                                           *)
LEMMA ShownIs ==
  ASSUME NEW p, NEW path, NEW f, NEW r
  PROVE  r \in ShownRules(IssuesOf(p, path), f)
           <=> /\ \E s \in EvaluatedOf(p, path) : s.file = f /\ r \in s.breaks \cap Bundles[engines[p][s.engine]].rules
               /\ Shown(SeverityOf(r, command[p].customPolicies), command[p].threshold)
               /\ <<f, r>> \notin Tree[path].policy.ignores
<1> DEFINE scans   == {Scan(p, s) : s \in EvaluatedOf(p, path)}
           t       == command[p].threshold
           c       == command[p].customPolicies
           ignores == Tree[path].policy.ignores
           all     == FormatScanResults(scans, t, c)
           of(s)   == FormatScanResult(s, t, c)
<1>1. IssuesOf(p, path) = [g \in DOMAIN all |-> {issue \in all[g] : <<g, issue.rule>> \notin ignores}]
  BY DEF IssuesOf, FilterIgnoredIssues
<1>2. /\ DOMAIN all = {s.file : s \in scans}
      /\ f \in DOMAIN all => all[f] = UNION {of(s) : s \in {x \in scans : x.file = f}}
  BY DEF FormatScanResults
<1>3. ASSUME NEW s PROVE r \in {x.rule : x \in of(s)} <=> r \in s.violated /\ Shown(SeverityOf(r, c), t)
  <2>1. of(s) = {Issue(q, s, SeverityOf(q, c)) : q \in {y \in s.violated : Shown(SeverityOf(y, c), t)}}
    BY DEF FormatScanResult
  <2>2. \A q : Issue(q, s, SeverityOf(q, c)).rule = q
    BY DEF Issue
  <2> HIDE DEF of, c, t
  <2> QED BY <2>1, <2>2
<1> HIDE DEF all, of
<1>4. r \in ShownRules(IssuesOf(p, path), f)
        <=> f \in DOMAIN all /\ (\E x \in all[f] : x.rule = r) /\ <<f, r>> \notin ignores
  BY <1>1 DEF ShownRules
<1>5. f \in DOMAIN all /\ (\E x \in all[f] : x.rule = r)
        <=> \E s \in scans : s.file = f /\ r \in s.violated /\ Shown(SeverityOf(r, c), t)
  <2>1. f \in DOMAIN all /\ (\E x \in all[f] : x.rule = r)
          <=> \E s \in scans : s.file = f /\ \E x \in of(s) : x.rule = r
    BY <1>2
  <2>2. \A s : (\E x \in of(s) : x.rule = r) <=> r \in s.violated /\ Shown(SeverityOf(r, c), t)
    BY <1>3
  <2> QED BY <2>1, <2>2
<1>6. (\E s \in scans : s.file = f /\ r \in s.violated /\ Shown(SeverityOf(r, c), t))
        <=> /\ \E s \in EvaluatedOf(p, path) : s.file = f /\ r \in s.breaks \cap Bundles[engines[p][s.engine]].rules
            /\ Shown(SeverityOf(r, c), t)
  BY ScanIs
<1> QED BY <1>4, <1>5, <1>6

-----------------------------------------------------------------------------
(***************************************************************************)
(* What is evaluated of a file is what it breaks.                          *)
(***************************************************************************)
LEMMA FileOfTree ==
  ASSUME NEW path \in DOMAIN Tree, NEW depth, NEW f \in Supported(path, depth), f.text = "ok"
  PROVE  /\ f.type = "tf" => DOMAIN f.docs = {1}
         /\ IsTerraformPlan(f) => f.type # "tf" /\ 1 \in DOMAIN f.docs /\ f.docs[1].changes \in Seq(ResourceChange)
<1>1. f \in Tree[path].files
  BY DEF Supported, DirectoryFiles
<1>2. f.docs \in Seq(Document) /\ (f.type = "tf" => Len(f.docs) = 1)
  BY <1>1, TreeAssumption DEF TreeAssumption
<1>3. DOMAIN f.docs = 1..Len(f.docs) /\ \A d \in DOMAIN f.docs : f.docs[d] \in Document
  BY <1>2, LenProperties, ElementOfSeq
<1>4. \A d \in DOMAIN f.docs : f.docs[d].changes \in Seq(ResourceChange)
  BY <1>3 DEF Document
<1>5. IsTerraformPlan(f) => f.type # "tf" /\ Len(f.docs) = 1
  BY DEF IsTerraformPlan
<1> QED BY <1>2, <1>3, <1>4, <1>5

LEMMA BreaksOfFile ==
  ASSUME NEW p, NEW path \in DOMAIN Tree, NEW f \in Supported(path, command[p].depth), f.text = "ok"
  PROVE  /\ \A x \in TryParseIacFile(f, command[p].full) : x.breaks \subseteq Broken(p, f)
         /\ \A r \in SurelyBroken(p, f) : \E x \in TryParseIacFile(f, command[p].full) : r \in x.breaks
<1> DEFINE full == command[p].full
           kept == {x \in ToSet(f.docs[1].changes) : InPlan(x, full)}
<1>1. /\ f.type = "tf" => DOMAIN f.docs = {1}
      /\ IsTerraformPlan(f) => f.type # "tf" /\ 1 \in DOMAIN f.docs /\ f.docs[1].changes \in Seq(ResourceChange)
  BY FileOfTree
<1>2. CASE IsTerraformPlan(f)
  <2>1. /\ Broken(p, f) = UNION {c.breaks : c \in kept}
        /\ SurelyBroken(p, f) = UNION {c.breaks : c \in {x \in kept : Alone(x, f)}}
    BY <1>2 DEF Broken, SurelyBroken
  <2>2. /\ ExtractResources(f.docs[1].changes, full) \subseteq Broken(p, f)
        /\ SurelyBroken(p, f) \subseteq ExtractResources(f.docs[1].changes, full)
    BY <1>1, <1>2, <2>1, ResourcesOfPlan
  <2>3. /\ \A x \in TryParseIacFile(f, full) : x.breaks = ExtractResources(f.docs[1].changes, full)
        /\ \E x \in TryParseIacFile(f, full) : x.breaks = ExtractResources(f.docs[1].changes, full)
    BY <1>1, <1>2, ParsedOfFile, FileIsParsed
  <2> HIDE DEF full, kept
  <2> QED BY <2>2, <2>3 DEF full
<1>3. CASE ~IsTerraformPlan(f)
  <2>1. Broken(p, f) = UNION {f.docs[d].breaks : d \in {x \in DOMAIN f.docs : Typed(f, x)}} /\ SurelyBroken(p, f) = Broken(p, f)
    BY <1>3 DEF Broken, SurelyBroken
  <2>2. \A x \in TryParseIacFile(f, full) : \E d \in DOMAIN f.docs : Typed(f, d) /\ x.breaks = f.docs[d].breaks
    BY <1>1, <1>3, ParsedOfFile DEF Typed
  <2>3. \A d \in DOMAIN f.docs : Typed(f, d) => \E x \in TryParseIacFile(f, full) : x.breaks = f.docs[d].breaks
    BY <1>1, <1>3, FileIsParsed DEF Typed
  <2> HIDE DEF full
  <2> QED BY <2>1, <2>2, <2>3 DEF full
<1> QED BY <1>2, <1>3

LEMMA ParsedOfPath ==
  ASSUME NEW p, NEW path \in DOMAIN Tree, NEW f \in Supported(path, command[p].depth), f.text = "ok"
  PROVE  /\ \A x \in ReadOf(p, path).parsed : x.file = f.name => x \in TryParseIacFile(f, command[p].full)
         /\ TryParseIacFile(f, command[p].full) \subseteq ReadOf(p, path).parsed
<1> DEFINE good == GoodOf(FilesOf(p, path).files)
<1>1. ReadOf(p, path).parsed = UNION {TryParseIacFile(g, command[p].full) : g \in good}
  BY ParsedFields DEF ReadOf
<1>2. f \in good
  BY LoadedFields DEF FilesOf, GoodOf, Unparsable
<1>3. f \in Tree[path].files /\ \A g \in good : g \in Tree[path].files
  BY LoadedFields DEF FilesOf, GoodOf, Supported, DirectoryFiles
<1>4. \A g \in good : g.name = f.name => g = f
  BY <1>3, TreeAssumption DEF TreeAssumption
<1>5. \A g \in good : \A x \in TryParseIacFile(g, command[p].full) : x.file = g.name
  BY ParsedOfFile
<1> HIDE DEF good
<1> QED BY <1>1, <1>2, <1>4, <1>5

-----------------------------------------------------------------------------
(***************************************************************************)
(* Of a path that was tested, with the rules that were asked for.          *)
(***************************************************************************)
Told(p, path, result) ==
  /\ result.error = "none" =>
       /\ FilesOf(p, path).error = "none"
       /\ \A s \in EvaluatedOf(p, path) : engines[p][s.engine] # None
       /\ result.issues = IssuesOf(p, path)
  /\ result.error = "nothing" =>
       FilesOf(p, path).error = "nothing" \/ (FilesOf(p, path).error = "none" /\ ReadOf(p, path).error = "nothing")

LEMMA RulesAsked ==
  ASSUME NEW p \in Proc, OwnRules(p), NEW path, NEW s \in EvaluatedOf(p, path), engines[p][s.engine] # None
  PROVE  /\ s.engine = "custom" => Bundles[engines[p][s.engine]].rules = Bundles[Source(p)].rules
         /\ s.engine # "custom" => Bundles[engines[p][s.engine]].rules = Bundles["snyk"].rules
         /\ Bundles[engines[p][s.engine]].rules \subseteq Asked(p)
<1>1. engines[p][s.engine] = IF s.engine = "custom" THEN Source(p) ELSE "snyk"
  BY EnginesAsked DEF OwnRules
<1>2. s.engine = "custom" => Custom(p)
  BY EnginesAsked
<1> QED BY <1>1, <1>2 DEF Asked

LEMMA ToldIsExact ==
  ASSUME NEW p \in Proc, OwnRules(p), NEW path \in DOMAIN Tree, NEW issues, issues = IssuesOf(p, path),
         \A s \in EvaluatedOf(p, path) : engines[p][s.engine] # None,
         NEW f \in Supported(path, command[p].depth), f.text = "ok"
  PROVE  /\ ShownRules(issues, f.name) \subseteq {r \in Broken(p, f) : Wanted(p, path, f, r)}
         /\ {r \in SurelyBroken(p, f) : Wanted(p, path, f, r)} \subseteq ShownRules(issues, f.name)
<1> DEFINE rules(s) == Bundles[engines[p][s.engine]].rules
<1>1. \A r : Wanted(p, path, f, r)
              <=> /\ r \in Asked(p) /\ <<f.name, r>> \notin Tree[path].policy.ignores
                  /\ Shown(SeverityOf(r, command[p].customPolicies), command[p].threshold)
  BY DEF Wanted, Shown
<1>2. \A r : r \in ShownRules(issues, f.name)
              <=> /\ \E s \in EvaluatedOf(p, path) : s.file = f.name /\ r \in s.breaks \cap rules(s)
                  /\ Shown(SeverityOf(r, command[p].customPolicies), command[p].threshold)
                  /\ <<f.name, r>> \notin Tree[path].policy.ignores
  BY ShownIs
<1>3. \A s \in EvaluatedOf(p, path) : s.file = f.name => s.breaks \subseteq Broken(p, f)
  <2> SUFFICES ASSUME NEW s \in EvaluatedOf(p, path), s.file = f.name PROVE s.breaks \subseteq Broken(p, f)
    OBVIOUS
  <2>1. PICK x \in ReadOf(p, path).parsed : s.file = x.file /\ s.breaks = x.breaks
    BY EnginesAsked
  <2>2. x \in TryParseIacFile(f, command[p].full)
    BY <2>1, ParsedOfPath
  <2> QED BY <2>1, <2>2, BreaksOfFile
<1>4. \A s \in EvaluatedOf(p, path) : rules(s) \subseteq Asked(p)
  BY RulesAsked
<1>5. ASSUME NEW r \in SurelyBroken(p, f), r \in Asked(p)
      PROVE  \E s \in EvaluatedOf(p, path) : s.file = f.name /\ r \in s.breaks \cap rules(s)
  <2>1. PICK x \in TryParseIacFile(f, command[p].full) : r \in x.breaks
    BY BreaksOfFile
  <2>2. x \in ReadOf(p, path).parsed /\ x.file = f.name
    BY ParsedOfPath, ParsedOfFile
  <2>3. CASE r \in Bundles["snyk"].rules
    <3>1. PICK s \in EvaluatedOf(p, path) : s.file = x.file /\ s.breaks = x.breaks /\ s.engine # "custom"
      BY <2>2, EvaluatedByAll
    <3>2. rules(s) = Bundles["snyk"].rules
      BY <3>1, RulesAsked
    <3> HIDE DEF rules
    <3> QED BY <2>1, <2>2, <2>3, <3>1, <3>2
  <2>4. CASE Custom(p) /\ r \in Bundles[Source(p)].rules
    <3>1. PICK s \in EvaluatedOf(p, path) : s.file = x.file /\ s.breaks = x.breaks /\ s.engine = "custom"
      BY <2>2, <2>4, EvaluatedByAll
    <3>2. rules(s) = Bundles[Source(p)].rules
      BY <3>1, RulesAsked
    <3> HIDE DEF rules
    <3> QED BY <2>1, <2>2, <2>4, <3>1, <3>2
  <2> QED BY <1>5, <2>3, <2>4 DEF Asked
<1> HIDE DEF rules
<1> QED BY <1>1, <1>2, <1>3, <1>4, <1>5

(* A path with nothing to scan has no file that is known.                  *)
LEMMA NothingIsExact ==
  ASSUME NEW p \in Proc, NEW path \in DOMAIN Tree, NEW f \in Supported(path, command[p].depth), f.text = "ok",
         FilesOf(p, path).error = "nothing" \/ ReadOf(p, path).error = "nothing"
  PROVE  ~IsTerraformPlan(f) /\ \A d \in DOMAIN f.docs : ~Typed(f, d)
<1>1. ReadOf(p, path).error = "nothing"
  BY LoadedFields DEF FilesOf
<1>2. ReadOf(p, path).parsed = {}
  BY <1>1, ParsedFields DEF ReadOf
<1>3. TryParseIacFile(f, command[p].full) = {}
  BY <1>2, ParsedOfPath
<1>4. f.type # "tf" /\ ~IsTerraformPlan(f)
  BY <1>3, FileIsParsed
<1>5. \A d \in DOMAIN f.docs : ~Known(f.docs[d])
  BY <1>3, <1>4, FileIsParsed
<1> QED BY <1>4, <1>5 DEF Typed

(* Of a folder the files with broken text are told of.                     *)
LEMMA FailedIsBroken == ASSUME NEW p, NEW path PROVE FailedOf(p, path) = BrokenIn(path, command[p].depth)
<1> DEFINE files == FilesOf(p, path).files
           depth == command[p].depth
<1>1. files \ GoodOf(files) = {f \in Supported(path, depth) : f.text = "broken"}
  BY LoadedFields DEF FilesOf, GoodOf, Unparsable
<1>2. FailedOf(p, path) = IF Tree[path].folder THEN {f.name : f \in files \ GoodOf(files)} ELSE {}
  BY ParsedFields DEF FailedOf, ReadOf
<1> QED BY <1>1, <1>2 DEF BrokenIn

LEMMA NoneUnreadable ==
  ASSUME NEW p, NEW path, FilesOf(p, path).error = "none", NEW f \in Supported(path, command[p].depth)
  PROVE  f.text # "unreadable"
BY LoadedFields DEF FilesOf

-----------------------------------------------------------------------------
(***************************************************************************)
(* What a path was told about stays true: of the engines it needed none is *)
(* built again.                                                            *)
(***************************************************************************)
FailuresTold(p) ==
  \A i \in Tested(p) : (\A j \in Tested(p) : j <= i) => scanFailures[p] = FailedOf(p, command[p].paths[i])

Reported(p) ==
  /\ \A i \in DOMAIN results[p] : Told(p, command[p].paths[i], results[p][i])
  /\ FailuresTold(p)
  /\ pc[p] = "scan" => Loaded(p).error = "none" /\ Read(p).error = "none"
  /\ pc[p] = "done" => verdict[p] = VerdictOf(p)

ReportInv == DOMAIN scanFailures = Proc /\ \A p \in Proc : Reported(p)

EnginesStay(p) == \A e \in Engine : engines[p][e] # None => engines'[p][e] = engines[p][e]

LEMMA ReadStays ==
  ASSUME NEW p, UNCHANGED command, NEW path
  PROVE  /\ FilesOf(p, path)' = FilesOf(p, path) /\ ReadOf(p, path)' = ReadOf(p, path)
         /\ FailedOf(p, path)' = FailedOf(p, path) /\ EvaluatedOf(p, path)' = EvaluatedOf(p, path)
BY DEF FilesOf, ReadOf, FailedOf, EvaluatedOf, Custom, Source

LEMMA ToldStays ==
  ASSUME NEW p, NEW path, NEW result, Told(p, path, result), UNCHANGED command, EnginesStay(p)
  PROVE  Told(p, path, result)'
<1>1. /\ FilesOf(p, path)' = FilesOf(p, path) /\ ReadOf(p, path)' = ReadOf(p, path)
      /\ EvaluatedOf(p, path)' = EvaluatedOf(p, path)
  BY ReadStays
<1>2. CASE result.error = "none"
  <2>1. \A s \in EvaluatedOf(p, path) : engines'[p][s.engine] = engines[p][s.engine] /\ engines[p][s.engine] # None
    BY <1>2, EnginesAsked DEF Told, EnginesStay
  <2>2. \A s \in EvaluatedOf(p, path) : Scan(p, s)' = Scan(p, s)
    BY <2>1 DEF Scan
  <2>3. {Scan(p, s)' : s \in EvaluatedOf(p, path)} = {Scan(p, s) : s \in EvaluatedOf(p, path)}
    BY <2>2
  <2>4. IssuesOf(p, path)' = IssuesOf(p, path)
    BY <1>1, <2>3 DEF IssuesOf
  <2> QED BY <1>1, <1>2, <2>1, <2>4 DEF Told
<1>3. CASE result.error # "none"
  BY <1>1, <1>3 DEF Told
<1> QED BY <1>2, <1>3

(* A process goes on with its path...                                      *)
GoesOn(q) ==
  /\ UNCHANGED <<command, at, results, scanFailures>>
  /\ \A p \in Proc : EnginesStay(p)
  /\ \A p \in Proc \ {q} : pc'[p] = pc[p] /\ verdict'[p] = verdict[p]
  /\ pc'[q] = "scan" => Loaded(q).error = "none" /\ Read(q).error = "none"
  /\ pc'[q] = "done" => verdict'[q] = VerdictOf(q)

LEMMA GoesOnReports == ASSUME ReportInv, NEW q \in Proc, GoesOn(q) PROVE ReportInv'
<1>1. ASSUME NEW p \in Proc PROVE Reported(p)'
  <2>1. Reported(p) /\ EnginesStay(p) /\ command' = command /\ results' = results /\ scanFailures' = scanFailures
        /\ at' = at
    BY DEF ReportInv, GoesOn
  <2>2. ASSUME NEW i \in DOMAIN results[p] PROVE Told(p, command[p].paths[i], results[p][i])'
    <3>1. SUFFICES ASSUME NEW path, path = command[p].paths[i], NEW result, result = results[p][i]
                   PROVE  Told(p, path, result)'
      BY <2>1
    <3>2. Told(p, path, result)
      BY <2>1, <3>1 DEF Reported
    <3> QED BY <2>1, <3>2, ToldStays
  <2>3. Tested(p)' = Tested(p) /\ VerdictOf(p)' = VerdictOf(p)
    BY <2>1 DEF Tested, VerdictOf, Errors, Vulnerable
  <2>4. \A i : FailedOf(p, command[p].paths[i])' = FailedOf(p, command[p].paths[i])
    BY <2>1 DEF FailedOf, ReadOf, FilesOf
  <2>5. FailuresTold(p)'
    BY <2>1, <2>3, <2>4 DEF Reported, FailuresTold
  <2>6. Loaded(p)' = Loaded(p) /\ Read(p)' = Read(p)
    BY <2>1 DEF Loaded, Read, Path
  <2>7. (pc'[p] = "scan" => Loaded(p).error = "none" /\ Read(p).error = "none") /\ (pc'[p] = "done" => verdict'[p] = VerdictOf(p))
    BY <2>1 DEF GoesOn, Reported
  <2> QED BY <2>1, <2>2, <2>3, <2>5, <2>6, <2>7 DEF Reported
<1> QED BY <1>1 DEF ReportInv, GoesOn

LEMMA OneMore == ASSUME NEW n \in Nat \ {0} PROVE 1..n = 1..(n - 1) \cup {n} /\ n \notin 1..(n - 1)
OBVIOUS

(* ...or leaves it with what is true of it.                                *)
LEMMA LeavesReports ==
  ASSUME TInv, ReportInv, NEW q \in Proc, NEW r, LeavePath(q, r), Told(q, Path(q), r),
         scanFailures' = IF r.error = "none" THEN [scanFailures EXCEPT ![q] = FailedOf(q, Path(q))] ELSE scanFailures
  PROVE  ReportInv'
<1>1. /\ results' = [results EXCEPT ![q] = Append(results[q], r)] /\ pc' = [pc EXCEPT ![q] = "shim"]
      /\ command' = command /\ engines' = engines /\ verdict' = verdict /\ at' = [at EXCEPT ![q] = at[q] + 1]
  BY DEF LeavePath
<1>2. DOMAIN results = Proc /\ pc \in [Proc -> Pc] /\ DOMAIN scanFailures = Proc /\ at \in [Proc -> Nat]
  BY DEF TInv, PathsCounted, ReportInv
<1>3. DOMAIN scanFailures' = Proc
  BY <1>2
<1>4. \A p \in Proc : EnginesStay(p)
  BY <1>1 DEF EnginesStay
<1>5. ASSUME NEW p \in Proc, p # q PROVE Reported(p)'
  <2>1. results'[p] = results[p] /\ pc'[p] = pc[p] /\ scanFailures'[p] = scanFailures[p] /\ at'[p] = at[p]
    BY <1>1, <1>2, <1>5
  <2>2. ASSUME NEW i \in DOMAIN results[p] PROVE Told(p, command[p].paths[i], results[p][i])'
    <3>1. SUFFICES ASSUME NEW path, path = command[p].paths[i], NEW result, result = results[p][i]
                   PROVE  Told(p, path, result)'
      BY <1>1, <2>1
    <3>2. Told(p, path, result)
      BY <3>1 DEF ReportInv, Reported
    <3> QED BY <1>1, <1>4, <3>2, ToldStays
  <2>3. Tested(p)' = Tested(p) /\ VerdictOf(p)' = VerdictOf(p)
    BY <2>1 DEF Tested, VerdictOf, Errors, Vulnerable
  <2>4. \A i : FailedOf(p, command[p].paths[i])' = FailedOf(p, command[p].paths[i])
    BY <1>1 DEF FailedOf, ReadOf, FilesOf
  <2>5. FailuresTold(p)'
    BY <1>1, <2>1, <2>3, <2>4 DEF ReportInv, Reported, FailuresTold
  <2>6. Loaded(p)' = Loaded(p) /\ Read(p)' = Read(p)
    BY <1>1, <2>1 DEF Loaded, Read, Path
  <2>7. /\ pc'[p] = "scan" => Loaded(p).error = "none" /\ Read(p).error = "none"
        /\ pc'[p] = "done" => verdict'[p] = VerdictOf(p)
    BY <1>1, <2>1 DEF ReportInv, Reported
  <2> QED BY <2>1, <2>2, <2>3, <2>5, <2>6, <2>7 DEF Reported
<1>6. Reported(q)'
  <2> DEFINE n == Len(results[q]) + 1
  <2>1. PICK S : results[q] \in Seq(S)
    BY DEF TInv, PathsCounted
  <2>2. results[q] \in Seq(S \cup {r}) /\ r \in S \cup {r}
    BY <2>1, SeqMonotonic
  <2>3. n \in Nat \ {0} /\ at[q] = n /\ Path(q) = command[q].paths[n] /\ DOMAIN results[q] = 1..(n - 1)
    BY <2>1, LenProperties DEF TInv, PathsCounted, Path
  <2>4. /\ results'[q] = Append(results[q], r) /\ DOMAIN results'[q] = 1..n /\ results'[q][n] = r
        /\ \A i \in 1..(n - 1) : results'[q][i] = results[q][i]
    <3>1. /\ Append(results[q], r) \in Seq(S \cup {r}) /\ Len(Append(results[q], r)) = n
          /\ Append(results[q], r)[n] = r
          /\ \A i \in 1..Len(results[q]) : Append(results[q], r)[i] = results[q][i]
      BY <2>2, AppendProperties
    <3>2. DOMAIN Append(results[q], r) = 1..n /\ Len(results[q]) = n - 1
      BY <2>3, <3>1, LenProperties
    <3> QED BY <1>1, <1>2, <3>1, <3>2
  <2> HIDE DEF n
  <2>5. ASSUME NEW i \in 1..n PROVE Told(q, command[q].paths[i], results[q][i])'
    <3>1. SUFFICES ASSUME NEW path, path = command[q].paths[i], NEW result, result = results'[q][i]
                   PROVE  Told(q, path, result)'
      BY <1>1
    <3>2. CASE i = n
      BY <1>1, <1>4, <2>3, <2>4, <3>1, <3>2, ToldStays
    <3>3. CASE i \in 1..(n - 1)
      <4>1. Told(q, path, result)
        BY <2>3, <2>4, <3>1, <3>3 DEF ReportInv, Reported
      <4> QED BY <1>1, <1>4, <4>1, ToldStays
    <3>4. i = n \/ i \in 1..(n - 1)
      BY <2>3
    <3> QED BY <3>2, <3>3, <3>4
  <2>6. \A i : FailedOf(q, command[q].paths[i])' = FailedOf(q, command[q].paths[i])
    BY <1>1 DEF FailedOf, ReadOf, FilesOf
  <2>7. Tested(q)' = IF r.error = "none" THEN Tested(q) \cup {n} ELSE Tested(q)
    <3>1. Tested(q) = {i \in 1..(n - 1) : results[q][i].error = "none"}
      BY <2>3 DEF Tested
    <3>2. Tested(q)' = {i \in 1..n : results'[q][i].error = "none"}
      BY <2>4 DEF Tested
    <3>3. 1..n = 1..(n - 1) \cup {n} /\ n \notin 1..(n - 1)
      BY <2>3, OneMore
    <3> QED BY <2>4, <3>1, <3>2, <3>3
  <2>8. FailuresTold(q)'
    <3>1. SUFFICES ASSUME NEW i \in Tested(q)', \A j \in Tested(q)' : j <= i
                   PROVE  scanFailures'[q] = FailedOf(q, command[q].paths[i])
      BY <1>1, <2>6 DEF FailuresTold
    <3>2. CASE r.error # "none"
      BY <1>1, <2>7, <3>1, <3>2 DEF ReportInv, Reported, FailuresTold
    <3>3. CASE r.error = "none"
      <4>1. i = n
        <5>1. n <= i /\ i \in 1..n
          <6>1. n \in Tested(q)'
            BY <2>7, <3>3
          <6> QED BY <2>4, <3>1, <6>1 DEF Tested
        <5> QED BY <2>3, <5>1
      <4>2. scanFailures'[q] = FailedOf(q, Path(q))
        BY <1>2, <3>3
      <4> QED BY <2>3, <4>1, <4>2
    <3> QED BY <3>2, <3>3
  <2>9. pc'[q] = "shim"
    BY <1>1, <1>2
  <2> QED BY <2>4, <2>5, <2>8, <2>9 DEF Reported
<1> QED BY <1>3, <1>5, <1>6 DEF ReportInv

-----------------------------------------------------------------------------
(***************************************************************************)
(* Every step goes on or leaves.  What is thrown is "nothing" only for a   *)
(* path that has nothing to scan.                                          *)
(***************************************************************************)
LEMMA ErrorIs == ASSUME NEW reason PROVE Error(reason).error = reason
BY DEF Error

(* What holds of an error that finds the directory or not holds of any.    *)
USE DEF Throw

LEMMA ThrowReports ==
  ASSUME TInv, ReportInv, NEW q \in Proc, NEW reason, NEW there,
         ThrowFrom(q, reason, there) \/ FailAndClean(q, reason),
         reason # "none", reason = "nothing" => Told(q, Path(q), Error("nothing"))
  PROVE  ReportInv'
<1>1. LeavePath(q, Error(reason)) /\ scanFailures' = scanFailures
  BY DEF ThrowFrom, FailAndClean
<1>2. Told(q, Path(q), Error(reason))
  <2>1. CASE reason = "nothing"
    BY <2>1
  <2>2. CASE reason # "nothing"
    BY <2>2, ErrorIs DEF Told
  <2> QED BY <2>1, <2>2
<1> QED BY <1>1, <1>2, ErrorIs, LeavesReports

(* A step that builds no engine and does not come to scan or to the end.   *)
LEMMA MovesOn ==
  ASSUME TInv, ReportInv, NEW q \in Proc, NEW s, pc' = [pc EXCEPT ![q] = s], s # "scan", s # "done", UNCHANGED runVars
  PROVE  ReportInv'
<1>1. /\ command' = command /\ at' = at /\ results' = results /\ scanFailures' = scanFailures /\ engines' = engines
      /\ verdict' = verdict
  BY DEF runVars
<1>2. pc'[q] = s /\ \A p \in Proc \ {q} : pc'[p] = pc[p]
  BY DEF TInv
<1>3. \A p \in Proc : EnginesStay(p)
  BY <1>1 DEF EnginesStay
<1>4. GoesOn(q)
  BY <1>1, <1>2, <1>3 DEF GoesOn
<1> QED BY <1>4, GoesOnReports

LEMMA StaysThere == ASSUME ReportInv, NEW q \in Proc, UNCHANGED <<pc, runVars>> PROVE ReportInv'
<1>1. /\ command' = command /\ at' = at /\ results' = results /\ scanFailures' = scanFailures /\ engines' = engines
      /\ verdict' = verdict
  BY DEF runVars
<1>2. \A p \in Proc : EnginesStay(p)
  BY <1>1 DEF EnginesStay
<1>3. Reported(q)
  BY DEF ReportInv
<1>4. pc'[q] = "scan" => Loaded(q).error = "none" /\ Read(q).error = "none"
  BY <1>3 DEF Reported
<1>5. pc'[q] = "done" => verdict'[q] = VerdictOf(q)
  BY <1>1, <1>3 DEF Reported
<1>6. GoesOn(q)
  BY <1>1, <1>2, <1>4, <1>5 DEF GoesOn
<1> QED BY <1>6, GoesOnReports

LEMMA InitLocalCacheReports == ASSUME TInv, ReportInv, NEW q \in Proc, InitLocalCache(q) PROVE ReportInv'
<1>1. CASE ThrowFrom(q, "rules", TRUE)
  BY <1>1, ThrowReports
<1>2. CASE Extract(q, Phases(q)[1]) /\ UNCHANGED runVars
  <2>1. Phases(q)[1] # "scan" /\ Phases(q)[1] # "done"
    BY DEF Phases
  <2>2. pc' = [pc EXCEPT ![q] = Phases(q)[1]]
    BY <1>2 DEF Extract
  <2> QED BY <1>2, <2>1, <2>2, MovesOn
<1> QED BY <1>1, <1>2 DEF InitLocalCache

LEMMA CacheStepReports == ASSUME TInv, ReportInv, PhaseIsAsked, NEW q \in Proc, CacheStep(q) PROVE ReportInv'
<1>1. CASE Pull(q)
  BY <1>1, MovesOn DEF Pull, TARBALL
<1>2. CASE Pulled(q)
  BY <1>2, InitLocalCacheReports DEF Pulled
<1>3. CASE PullFails(q) \/ ExtractFails(q) \/ Unreadable(q)
  BY <1>3, ThrowReports DEF PullFails, ExtractFails, Unreadable
<1>4. CASE OpenEntry(q)
  <2>1. Throw(q, "write") \/ UNCHANGED <<pc, runVars>>
    BY <1>4 DEF OpenEntry
  <2> QED BY <2>1, ThrowReports, StaysThere
<1>5. CASE CloseEntry(q)
  BY <1>5, StaysThere DEF CloseEntry
<1>6. CASE Extracted(q)
  <2>1. CASE Throw(q, "rules")
    BY <2>1, ThrowReports
  <2>2. CASE pc' = [pc EXCEPT ![q] = "load"] /\ UNCHANGED runVars
    BY <2>2, MovesOn
  <2>3. CASE pc[q] # Last(Phases(q)) /\ Extract(q, Phases(q)[2]) /\ UNCHANGED runVars
    <3>1. Phases(q)[2] = "snyk"
      BY <1>6, <2>3, AskedPhases
    <3>2. pc' = [pc EXCEPT ![q] = "snyk"]
      BY <2>3, <3>1 DEF Extract
    <3> QED BY <2>3, <3>2, MovesOn
  <2> QED BY <1>6, <2>1, <2>2, <2>3 DEF Extracted
<1> QED BY <1>1, <1>2, <1>3, <1>4, <1>5, <1>6 DEF CacheStep

LEMMA LoadReports == ASSUME TInv, ReportInv, NEW q \in Proc, Load(q) PROVE ReportInv'
<1>1. CASE Throw(q, "policy")
  BY <1>1, ThrowReports
<1>2. CASE Loaded(q).error # "none" /\ Throw(q, Loaded(q).error)
  <2>1. Loaded(q).error = "nothing" => Told(q, Path(q), Error("nothing"))
    BY OfCurrent, ErrorIs DEF Told
  <2> QED BY <1>2, <2>1, ThrowReports
<1>3. CASE Loaded(q).error = "none" /\ Read(q).error # "none" /\ Throw(q, Read(q).error)
  <2>1. Read(q).error = "nothing" => Told(q, Path(q), Error("nothing"))
    BY <1>3, OfCurrent, ErrorIs DEF Told
  <2> QED BY <1>3, <2>1, ThrowReports
<1>4. CASE Loaded(q).error = "none" /\ Read(q).error = "none" /\ pc' = [pc EXCEPT ![q] = "scan"] /\ UNCHANGED runVars
  <2>1. pc'[q] = "scan" /\ \A p \in Proc \ {q} : pc'[p] = pc[p]
    BY <1>4 DEF TInv
  <2>2. GoesOn(q)
    BY <1>4, <2>1 DEF GoesOn, runVars, EnginesStay
  <2> QED BY <2>2, GoesOnReports
<1> QED BY <1>1, <1>2, <1>3, <1>4 DEF Load

LEMMA BuildPolicyEngineReports == ASSUME TInv, ReportInv, NEW q \in Proc, BuildPolicyEngine(q) PROVE ReportInv'
<1>1. CASE Throw(q, "engine")
  BY <1>1, ThrowReports
<1>2. ASSUME NEW e \in Missing(q), NEW b, engines' = [engines EXCEPT ![q][e] = b],
             UNCHANGED <<pc, command, at, results, scanFailures, verdict>>
      PROVE  ReportInv'
  <2>1. engines[q][e] = None
    BY <1>2 DEF Missing
  <2>2. engines \in [Proc -> [Engine -> DOMAIN Bundles \cup {None}]]
    BY DEF TInv
  <2>3. engines' = [engines EXCEPT ![q] = [engines[q] EXCEPT ![e] = b]]
    BY <1>2
  <2>4. \A p \in Proc : EnginesStay(p)
    BY <2>1, <2>2, <2>3 DEF EnginesStay
  <2>5. pc'[q] = "scan" => Loaded(q).error = "none" /\ Read(q).error = "none"
    BY <1>2 DEF ReportInv, Reported
  <2>6. pc'[q] = "done" => verdict'[q] = VerdictOf(q)
    BY <1>2 DEF ReportInv, Reported
  <2>7. GoesOn(q)
    BY <1>2, <2>4, <2>5, <2>6 DEF GoesOn
  <2> QED BY <2>7, GoesOnReports
<1> QED BY <1>1, <1>2 DEF BuildPolicyEngine

LEMMA ReportReports == ASSUME TInv, ReportInv, NEW q \in Proc, Report(q) PROVE ReportInv'
<1> DEFINE r == [error |-> "none", issues |-> FilteredIssues(q)]
<1>1. LeavePath(q, r) /\ Missing(q) = {} /\ pc[q] = "scan"
  BY DEF Report
<1>2. scanFailures' = [scanFailures EXCEPT ![q] = FailedOf(q, Path(q))]
  BY OfCurrent DEF Report, FailedOf
<1>3. Loaded(q).error = "none" /\ Read(q).error = "none"
  BY <1>1 DEF ReportInv, Reported
<1>4. \A s \in Evaluated(q) : engines[q][s.engine] # None
  BY <1>1 DEF Missing
<1>5. r.error = "none" /\ r.issues = FilteredIssues(q)
  OBVIOUS
<1> HIDE DEF r
<1>6. Told(q, Path(q), r)
  BY <1>3, <1>4, <1>5, OfCurrent DEF Told
<1> QED BY <1>1, <1>2, <1>5, <1>6, LeavesReports

LEMMA ConcludeReports == ASSUME TInv, ReportInv, NEW q \in Proc, Conclude(q) PROVE ReportInv'
<1>1. /\ pc' = [pc EXCEPT ![q] = "done"] /\ verdict' = [verdict EXCEPT ![q] = VerdictOf(q)]
      /\ UNCHANGED <<command, at, engines, results, scanFailures>>
  BY DEF Conclude
<1>2. pc'[q] = "done" /\ verdict'[q] = VerdictOf(q) /\ \A p \in Proc \ {q} : pc'[p] = pc[p] /\ verdict'[p] = verdict[p]
  BY <1>1 DEF TInv
<1>3. GoesOn(q)
  BY <1>1, <1>2 DEF GoesOn, EnginesStay
<1> QED BY <1>3, GoesOnReports

LEMMA StepReports ==
  ASSUME TInv, ReportInv, PhaseIsAsked, NEW q \in Proc, Step(q) \/ Killed(q) PROVE ReportInv'
<1>1. CASE ShimFails(q)
  <2>1. Told(q, Path(q), Error("shim")) /\ Error("shim").error = "shim"
    BY ErrorIs DEF Told
  <2> QED BY <1>1, <2>1, LeavesReports DEF ShimFails
<1>2. CASE Shim(q)
  BY <1>2, MovesOn DEF Shim
<1>3. CASE Killed(q)
  BY <1>3, MovesOn DEF Killed
<1>4. CASE SettingsFail(q) \/ ScanFails(q)
  BY <1>4, ThrowReports DEF SettingsFail, ScanFails
<1>5. CASE Settings(q)
  <2>1. \/ Throw(q, "settings") \/ InitLocalCache(q)
        \/ pc' = [pc EXCEPT ![q] = "pull"] /\ UNCHANGED runVars
    BY <1>5 DEF Settings
  <2> QED BY <2>1, ThrowReports, InitLocalCacheReports, MovesOn
<1> QED BY <1>1, <1>2, <1>3, <1>4, <1>5, CacheStepReports, LoadReports, BuildPolicyEngineReports, ReportReports,
           ConcludeReports DEF Step

LEMMA ReportInvAlways == Spec => []ReportInv
<1>1. Init => ReportInv
  <2> SUFFICES ASSUME Init PROVE ReportInv
    OBVIOUS
  <2>1. \A p \in Proc : results[p] = <<>> /\ pc[p] = "shim" /\ DOMAIN scanFailures = Proc
    BY DEF Init
  <2>2. \A p \in Proc : DOMAIN results[p] = {}
    BY <2>1, EmptySeq
  <2> QED BY <2>1, <2>2 DEF ReportInv, Reported, FailuresTold, Tested, Init
<1>2. TInv /\ PhaseIsAsked /\ ReportInv /\ [Next]_vars => ReportInv'
  <2> SUFFICES ASSUME TInv, PhaseIsAsked, ReportInv, [Next]_vars PROVE ReportInv'
    OBVIOUS
  <2>1. CASE UNCHANGED vars
    <3>1. CASE Proc = {}
      BY <2>1, <3>1 DEF vars, runVars, ReportInv
    <3>2. ASSUME NEW q \in Proc PROVE ReportInv'
      BY <2>1, StaysThere DEF vars
    <3> QED BY <3>1, <3>2
  <2> QED BY <2>1, StepReports DEF Next
<1> QED BY <1>1, <1>2, TInvAlways, PhaseIsAskedAlways, PTL DEF Spec

-----------------------------------------------------------------------------
(* test() and test/index.ts: whatever ran in the directory, with the right *)
(* rules every file of a known type is accounted for, a rule it breaks is  *)
(* shown unless severity, threshold or policy keep it back, and no other   *)
(* is; failures and the end of the command are told accordingly.           *)
THEOREM ReportsAreExact == Spec => []ReportIsExact
<1>1. TInv /\ ReportInv => ReportIsExact
  <2> SUFFICES ASSUME TInv, ReportInv, NEW p \in Proc, pc[p] = "done", OwnRules(p)
               PROVE  /\ \A i \in DOMAIN results[p] : PathReportIsExact(p, i)
                      /\ (verdict[p] = "error") = (\E i \in DOMAIN results[p] : results[p][i].error # "none")
                      /\ \A i \in Tested(p) : (\A j \in Tested(p) : j <= i) =>
                           scanFailures[p] = BrokenIn(command[p].paths[i], command[p].depth)
                      /\ verdict[p] = "ok" => Vulnerable(p) = {}
                      /\ verdict[p] = "vulns" => Vulnerable(p) # {}
    BY DEF ReportIsExact
  <2>1. Reported(p)
    BY DEF ReportInv
  <2>2. verdict[p] = VerdictOf(p)
    BY <2>1 DEF Reported
  <2>3. (verdict[p] = "error") = (\E i \in DOMAIN results[p] : results[p][i].error # "none")
    BY <2>2 DEF VerdictOf, Errors
  <2>4. (verdict[p] = "ok" => Vulnerable(p) = {}) /\ (verdict[p] = "vulns" => Vulnerable(p) # {})
    BY <2>2 DEF VerdictOf
  <2>5. \A i \in Tested(p) : (\A j \in Tested(p) : j <= i) =>
          scanFailures[p] = BrokenIn(command[p].paths[i], command[p].depth)
    BY <2>1, FailedIsBroken DEF Reported, FailuresTold
  <2>6. ASSUME NEW i \in DOMAIN results[p] PROVE PathReportIsExact(p, i)
    <3> DEFINE path   == command[p].paths[i]
               result == results[p][i]
    <3>1. path \in DOMAIN Tree
      <4>1. PICK S : results[p] \in Seq(S)
        BY DEF TInv, PathsCounted
      <4>2. command[p].paths \in Seq(DOMAIN Tree) /\ Len(results[p]) <= Len(command[p].paths)
        BY <4>1, LenProperties DEF TInv, PathsCounted, CommandsKept
      <4>3. i \in 1..Len(command[p].paths)
        BY <4>1, <4>2, LenProperties
      <4> QED BY <4>2, <4>3, ElementOfSeq
    <3>2. Told(p, path, result)
      BY <2>1 DEF Reported
    <3> HIDE DEF path, result
    <3>3. CASE result.error = "none"
      <4>1. \A f \in Supported(path, command[p].depth) : f.text # "unreadable"
        BY <3>2, <3>3, NoneUnreadable DEF Told
      <4>2. \A f \in Supported(path, command[p].depth) : f.text = "ok" =>
               /\ ShownRules(result.issues, f.name) \subseteq {r \in Broken(p, f) : Wanted(p, path, f, r)}
               /\ {r \in SurelyBroken(p, f) : Wanted(p, path, f, r)} \subseteq ShownRules(result.issues, f.name)
        BY <3>1, <3>2, <3>3, ToldIsExact DEF Told
      <4> QED BY <3>3, <4>1, <4>2 DEF PathReportIsExact, ShownRules, path, result
    <3>4. CASE result.error = "nothing"
      <4>1. \A f \in Supported(path, command[p].depth) :
              f.text = "ok" => ~IsTerraformPlan(f) /\ \A d \in DOMAIN f.docs : ~Typed(f, d)
        BY <3>1, <3>2, <3>4, NothingIsExact DEF Told
      <4> QED BY <3>4, <4>1 DEF PathReportIsExact, path, result
    <3>5. CASE result.error \notin {"none", "nothing"}
      BY <3>5 DEF PathReportIsExact, result
    <3> QED BY <3>3, <3>4, <3>5
  <2> QED BY <2>3, <2>4, <2>5, <2>6
<1> QED BY <1>1, TInvAlways, ReportInvAlways, PTL
=============================================================================
