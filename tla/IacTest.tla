------------------------------ MODULE IacTest -------------------------------
(***************************************************************************)
(* Several `snyk iac test` in one working directory: the shim, test() for  *)
(* one path after the other, and what the command makes of the results.    *)
(* The flow of organisations that opted out of it is not modelled.         *)
(***************************************************************************)
EXTENDS IacCache

Init ==
  /\ command \in {c \in [Proc -> UNION {Commands(p) : p \in Proc}] : \A p \in Proc : c[p] \in Commands(p)}
  /\ pc = [p \in Proc |-> "shim"] /\ at = [p \in Proc |-> 1]
  /\ dir = NoDir /\ job = [p \in Proc |-> NoJob]
  /\ engines = [p \in Proc |-> [e \in Engine |-> None]]
  /\ results = [p \in Proc |-> <<>>] /\ scanFailures = [p \in Proc |-> {}]
  /\ verdict = [p \in Proc |-> None]
  /\ failures = 0 /\ disturbed = {} /\ left = FALSE

(* The shim: a flag that is not known, settings or a feature flag that     *)
(* cannot be fetched end the path before there is anything to remove.      *)
ShimFails(p) ==
  /\ pc[p] = "shim" /\ at[p] <= Len(command[p].paths)
  /\ Failing
  /\ LeavePath(p, Error("shim"))
  /\ UNCHANGED <<dir, job, left, scanFailures>>

(* localTest is called.                                                    *)
Shim(p) ==
  /\ pc[p] = "shim" /\ at[p] <= Len(command[p].paths)
  /\ pc' = [pc EXCEPT ![p] = "settings"]
  /\ LET others == {q \in Proc : q # p /\ Inside(q)}
     IN  disturbed' = disturbed \cup others \cup (IF others # {} \/ dir.exists THEN {p} ELSE {})
  /\ UNCHANGED <<dir, job, failures, left, runVars>>

(* The settings of the organisation are fetched once more.                 *)
Settings(p) ==
  /\ pc[p] = "settings"
  /\ IF Custom(p) /\ (~command[p].entitled \/ (command[p].rules # None /\ command[p].registry # None))
     THEN Throw(p, "settings")
     ELSE IF command[p].registry # None
     THEN pc' = [pc EXCEPT ![p] = "pull"] /\ UNCHANGED <<dir, job, failures, left, disturbed, runVars>>
     ELSE InitLocalCache(p)

SettingsFail(p) == pc[p] = "settings" /\ FailAndClean(p, "settings")

Loaded(p) == LoadFiles(Path(p), command[p].depth)
Read(p)   == ParseFiles(Loaded(p).files, command[p].full)

(* What scanFiles is called with.                                          *)
Evaluated(p) == IF Custom(p) THEN Duplicates(Read(p).parsed) ELSE Read(p).parsed

(* findAndLoadPolicy, loadFiles and parseFiles.                            *)
Load(p) ==
  /\ pc[p] = "load"
  /\ IF ~Tree[Path(p)].policy.readable THEN Throw(p, "policy")
     ELSE IF Loaded(p).error # "none" THEN Throw(p, Loaded(p).error)
     ELSE IF Read(p).error # "none" THEN Throw(p, Read(p).error)
     ELSE pc' = [pc EXCEPT ![p] = "scan"] /\ UNCHANGED <<dir, job, failures, left, disturbed, runVars>>

Missing(p) == {s.engine : s \in {x \in Evaluated(p) : engines[p][x.engine] = None}}

(* buildPolicyEngine, for a document whose engine is not kept yet.  Of a   *)
(* pair that is being written, old and new files, or half of one, are      *)
(* read.                                                                   *)
BuildPolicyEngine(p) ==
  /\ pc[p] = "scan"
  /\ \E e \in Missing(p) :
       LET found == dir.slots[e]
       IN  \/ found \in {None, Torn} /\ Throw(p, "engine")
           \/ \E b \in (IF found = Torn THEN DOMAIN Bundles ELSE {found} \ {None}) :
                /\ engines' = [engines EXCEPT ![p][e] = b]
                /\ UNCHANGED <<pc, dir, job, failures, left, disturbed, command, at, results, scanFailures, verdict>>

(* scanFiles, with the engines that are kept for the whole run.            *)
Scan(p, s) ==
  [file |-> s.file, doc |-> s.doc, engine |-> s.engine,
   violated |-> s.breaks \cap Bundles[engines[p][s.engine]].rules]
Scanned(p) == {Scan(p, s) : s \in Evaluated(p)}

FilteredIssues(p) ==
  FilterIgnoredIssues(Tree[Path(p)].policy.ignores,
                      FormatScanResults(Scanned(p), command[p].threshold, command[p].customPolicies))

(* The rest of test().  The command takes the failures of this path for    *)
(* those of the paths before.                                              *)
Report(p) ==
  /\ pc[p] = "scan" /\ Missing(p) = {}
  /\ LeavePath(p, [error |-> "none", issues |-> FilteredIssues(p)])
  /\ scanFailures' = [scanFailures EXCEPT ![p] = IF Tree[Path(p)].folder THEN Read(p).failed ELSE {}]
  /\ CleanLocalCache(p, dir.exists)

(* trackUsage: the test limit is reached, which alone of its errors is     *)
(* thrown; or an engine cannot evaluate a document.                        *)
ScanFails(p) == pc[p] = "scan" /\ FailAndClean(p, "limit")

Tested(p) == {i \in DOMAIN results[p] : results[p][i].error = "none"}
Errors(p) == {i \in DOMAIN results[p] : results[p][i].error # "none"}
Vulnerable(p) ==
  {i \in DOMAIN results[p] : \E f \in DOMAIN results[p][i].issues : results[p][i].issues[f] # {}}

(* The end of the command, with --json or not: an error goes before        *)
(* issues.                                                                 *)
VerdictOf(p) == IF Errors(p) # {} THEN "error" ELSE IF Vulnerable(p) # {} THEN "vulns" ELSE "ok"

Conclude(p) ==
  /\ pc[p] = "shim" /\ at[p] > Len(command[p].paths)
  /\ pc' = [pc EXCEPT ![p] = "done"]
  /\ verdict' = [verdict EXCEPT ![p] = VerdictOf(p)]
  /\ UNCHANGED <<dir, job, failures, disturbed, left, command, at, engines, results, scanFailures>>

(* The process is killed: nothing is removed.                              *)
Killed(p) ==
  /\ pc[p] \in {TARBALL, "custom", "snyk", "scan"}
  /\ Failing /\ left' = TRUE
  /\ pc' = [pc EXCEPT ![p] = "killed"]
  /\ job' = [job EXCEPT ![p] = NoJob]
  /\ UNCHANGED <<dir, disturbed, runVars>>

Step(p) ==
  \/ ShimFails(p) \/ Shim(p) \/ Settings(p) \/ SettingsFail(p) \/ CacheStep(p) \/ Load(p) \/ BuildPolicyEngine(p)
  \/ Report(p) \/ ScanFails(p) \/ Conclude(p)

Next == \E p \in Proc : Step(p) \/ Killed(p)

Spec == Init /\ [][Next]_vars
-----------------------------------------------------------------------------
Content == DOMAIN Bundles \cup {None, Torn}

(* The state of the processes and of the directory: only a process that    *)
(* extracts or pulls writes, into one file at a time, and a file is torn   *)
(* only while somebody writes it or because somebody was interrupted.      *)
TypeOK ==
  /\ \A p \in Proc :
       /\ pc[p] \in {"shim", "settings", "pull", TARBALL, "custom", "snyk", "load", "scan", "done", "killed"}
       /\ at[p] = Len(results[p]) + 1 /\ at[p] <= Len(command[p].paths) + 1
       /\ job[p].open \in {"no", "open", "lost"} /\ (job[p].open # "no" => job[p].entries # <<>>)
       /\ ToSet(job[p].entries) \subseteq Slot
       /\ job[p] # NoJob => pc[p] \in {TARBALL, "custom", "snyk"}
       /\ \A e \in Engine : engines[p][e] \in DOMAIN Bundles \cup {None}
       /\ verdict[p] \in {None, "ok", "vulns", "error"}
  /\ \A s \in Slot : dir.slots[s] = Torn => left \/ \E p \in Proc : job[p].open = "open" /\ Head(job[p].entries) = s
  /\ dir.exists \in BOOLEAN /\ \A s \in Slot : dir.slots[s] \in Content /\ (~dir.exists => dir.slots[s] = None)
  /\ failures \in 0..MaxFailures /\ disturbed \subseteq Proc /\ left \in BOOLEAN

(* Snyk's rules are Snyk's, the custom ones are those that were asked for. *)
OwnRules(p) ==
  \A e \in Engine : engines[p][e] # None => engines[p][e] = IF e = "custom" THEN Source(p) ELSE "snyk"

(* local-cache.ts:131 "to ensure our files always overwrite whatever might *)
(* be there": unless another run was in the directory at the same time or  *)
(* left it behind, Snyk's rules are Snyk's and the custom ones those that  *)
(* were asked for, whatever a bundle contains and whatever failed before.  *)
OwnRulesWhenAlone == \A p \in Proc \ disturbed : OwnRules(p)

(* index.ts:150: however the paths of the runs end and interleave, when no *)
(* run is inside of test() the directory is gone.                          *)
CacheIsRemoved == (\A p \in Proc : ~Inside(p) /\ pc[p] # "killed") /\ ~left => ~dir.exists

Asked(p) == Bundles["snyk"].rules \cup (IF Custom(p) THEN Bundles[Source(p)].rules ELSE {})

(* A rule whose issues in file f are to be shown.                          *)
Wanted(p, path, f, r) ==
  /\ r \in Asked(p) /\ <<f.name, r>> \notin Tree[path].policy.ignores
  /\ SeverityOf(r, command[p].customPolicies) > 0
  /\ SeverityOf(r, command[p].customPolicies) >= command[p].threshold

Typed(f, d) == f.type = "tf" \/ Known(f.docs[d])

(* The resources the plan leaves behind or, in a full scan, finds.         *)
InPlan(c, full) == {"create", "update"} \cap ToSet(c.actions) # {} \/ (full /\ c.actions = <<"no-op">>)
Alone(c, f) == \E i \in DOMAIN f.docs[1].changes : {j \in DOMAIN f.docs[1].changes : f.docs[1].changes[j].name = c.name} = {i}

Broken(p, f) ==
  IF IsTerraformPlan(f)
  THEN UNION {c.breaks : c \in {x \in ToSet(f.docs[1].changes) : InPlan(x, command[p].full)}}
  ELSE UNION {f.docs[d].breaks : d \in {x \in DOMAIN f.docs : Typed(f, x)}}

(* Of resources that share a name in the plan only one is evaluated.       *)
SurelyBroken(p, f) ==
  IF IsTerraformPlan(f)
  THEN UNION {c.breaks : c \in {x \in ToSet(f.docs[1].changes) : InPlan(x, command[p].full) /\ Alone(x, f)}}
  ELSE Broken(p, f)

PathReportIsExact(p, i) ==
  LET path   == command[p].paths[i]
      result == results[p][i]
      files  == Supported(path, command[p].depth)
      shown(f) == IF f.name \in DOMAIN result.issues THEN {x.rule : x \in result.issues[f.name]} ELSE {}
  IN  CASE result.error = "none" ->
             \A f \in files :
               /\ f.text # "unreadable"
               /\ f.text = "ok" => /\ shown(f) \subseteq {r \in Broken(p, f) : Wanted(p, path, f, r)}
                                   /\ {r \in SurelyBroken(p, f) : Wanted(p, path, f, r)} \subseteq shown(f)
        [] result.error = "nothing" ->
             \A f \in files : f.text = "ok" => ~IsTerraformPlan(f) /\ \A d \in DOMAIN f.docs : ~Typed(f, d)
        [] OTHER -> TRUE

(* The files of a folder whose text is broken.                             *)
BrokenIn(path, depth) ==
  {f.name : f \in {x \in Supported(path, depth) : Tree[path].folder /\ x.text = "broken"}}

(* test() and test/index.ts: whatever else ran in the directory, if the    *)
(* rules were the right ones, of a path that was tested every file of a    *)
(* known type is accounted for, a rule it breaks is shown unless severity, *)
(* threshold or policy keep it back, and no other is; the files of the     *)
(* last path that could not be parsed are told of; the command ends in an  *)
(* error, with issues or well accordingly.                                 *)
ReportIsExact ==
  \A p \in Proc : pc[p] = "done" /\ OwnRules(p) =>
    /\ \A i \in DOMAIN results[p] : PathReportIsExact(p, i)
    /\ (verdict[p] = "error") = (\E i \in DOMAIN results[p] : results[p][i].error # "none")
    /\ \A i \in Tested(p) : (\A j \in Tested(p) : j <= i) =>
         scanFailures[p] = BrokenIn(command[p].paths[i], command[p].depth)
    /\ verdict[p] = "ok" => Vulnerable(p) = {}
    /\ verdict[p] = "vulns" => Vulnerable(p) # {}
=============================================================================
