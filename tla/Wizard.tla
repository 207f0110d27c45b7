------------------------------- MODULE Wizard -------------------------------
(***************************************************************************)
(* `snyk wizard`: it loads the policy, tests the project, asks, and turns  *)
(* the answers into tasks: rules that ignore, upgrades (npm uninstall,     *)
(* then npm install for production and for development side by side) and   *)
(* patches. The tasks run beside each other on one node_modules; then the  *)
(* policy and package.json are written. `snyk auth` comes before it.       *)
(*                                                                         *)
(* npm and the server are external; patches stand for the whole of         *)
(* LegacyPatch, one path a step. What the person sees of an error is told. *)
(***************************************************************************)
EXTENDS Auth, WizardPrompts

CONSTANTS
  Base,     \* the version of each direct dependency that is installed
  Projects, \* the sets of paths the server may find
  Policies, \* what .snyk may contain
  Options   \* of the command, and of where it runs

ASSUME WizardAssumption ==
  /\ Base \in [Deps -> Nat \ {0}]
  /\ Projects \subseteq SUBSET DOMAIN List
  /\ Policies \ {None} \subseteq [ignore : SUBSET (Ids \X Routes), patch : SUBSET (Ids \X Routes)]
  /\ Options \subseteq [isCI : BOOLEAN, dryRun : BOOLEAN, json : BOOLEAN, yarn : BOOLEAN]

VARIABLES
  phase, outcome, options,
  mayIgnore,  \* the organisation lets this person ignore
  startOver,  \* "Ignore it and start from scratch"
  policyFile, \* the rules that were loaded
  found,      \* the paths the test has found
  stage, asked, \* the questions that are behind, put or passed
  answers,
  pkg,        \* package.json as it was last read
  steps,      \* what else is to be added to package.json
  tasks,      \* what the answers have become
  updater, npm, read,           \* the upgrades; the two npm install and what they read
  told,                         \* an install has failed and this was printed
  patcher, queue, patchError, reported, \* the patches; reported are rules for the policy
  policy, manifest, installed, patched  \* .snyk, package.json, node_modules

asking == <<stage, asked, answers>>
update == <<updater, npm, read, told>>
patch  == <<patcher, queue, patchError, reported>>
disk   == <<policy, manifest, installed, patched>>
memory == <<options, mayIgnore, startOver, policyFile, found, pkg, steps, tasks>>
vars   == <<authVars, phase, outcome, memory, asking, update, patch, disk>>

Kind == {"prod", "dev"}
NewPolicy == [ignore |-> {}, patch |-> {}]
NoTasks == [ignore |-> {}, update |-> {}, patch |-> {}]
Stored(p) == IF p = None THEN NewPolicy ELSE p

Init ==
  /\ AuthInit
  /\ phase = "idle" /\ outcome = "none" /\ options \in Options
  /\ mayIgnore = FALSE /\ startOver = FALSE /\ policyFile = NewPolicy
  /\ found \in Projects /\ tasks = NoTasks
  /\ stage = 1 /\ asked = {} /\ answers = {} /\ steps = {}
  /\ updater = "idle" /\ npm = [k \in Kind |-> "idle"] /\ read = [k \in Kind |-> Base] /\ told = FALSE
  /\ patcher = "idle" /\ queue = {} /\ patchError = FALSE /\ reported = {}
  /\ policy \in Policies
  /\ manifest = [deps |-> Base, test |-> FALSE, protect |-> "none", snyk |-> "no"]
  /\ pkg = manifest /\ installed = Base /\ patched = {}

End(how) == phase' = "ended" /\ outcome' = how

(* The commands a person may run before it.                                *)
AuthFirst ==
  /\ phase = "idle"
  /\ Manual \/ WebAuth(options.isCI) \/ Confirm \/ AuthStep
  /\ UNCHANGED <<phase, outcome, memory, asking, update, patch, disk>>

(* loadOrCreatePolicyFile. Of `snyk auth` only the key is left.            *)
LoadOrCreatePolicyFile ==
  /\ phase = "idle" /\ ~AuthBusy
  /\ phase' = "loaded"
  /\ policyFile' = Stored(policy)
  /\ auth' = "idle" /\ attemptsLeft' = 0 /\ confirmed' = FALSE /\ said' = "nothing"
  /\ UNCHANGED <<api, outcome, options, mayIgnore, startOver, found, pkg, steps, tasks, asking, update, patch, disk>>

(* isAuthed, whose answer ends the command in CI only; apiTokenExists; and *)
(* actionAllowed, which takes a request that failed for a refusal.         *)
Authorize ==
  /\ phase = "loaded"
  /\ IF (options.isCI /\ api # "valid") \/ api = "none"
     THEN End("failed") /\ UNCHANGED mayIgnore
     ELSE /\ phase' = (IF policy = None THEN "test" ELSE "start_over") /\ UNCHANGED outcome
          /\ mayIgnore' \in BOOLEAN
  /\ UNCHANGED <<authVars, options, startOver, policyFile, found, pkg, steps, tasks, asking, update, patch, disk>>

StartOver ==
  /\ phase = "start_over"
  /\ startOver' \in BOOLEAN
  /\ phase' = "test"
  /\ UNCHANGED <<authVars, outcome, options, mayIgnore, policyFile, found, pkg, steps, tasks, asking, update, patch, disk>>

(* snyk.test, which leaves out what the policy covers unless it is told to *)
(* ignore it; several projects in one are an error.                        *)
Test ==
  /\ phase = "test"
  /\ IF api # "valid" THEN End("failed") /\ UNCHANGED <<found, pkg>>
     ELSE /\ phase' = "asking" /\ UNCHANGED outcome
          /\ found' = {i \in found : startOver \/ Rule(i) \notin policyFile.ignore \cup policyFile.patch}
          /\ pkg' = manifest
  /\ UNCHANGED <<authVars, options, mayIgnore, startOver, policyFile, steps, tasks, asking, update, patch, disk>>

(* The limit of tests of private projects is reached: nothing is asked.    *)
TestsReached ==
  /\ phase = "test" /\ End("limit")
  /\ UNCHANGED <<authVars, memory, asking, update, patch, disk>>

(* The question that is next in this stage.                                *)
Questions ==
  LET left == GetPrompts(stage, found) \ asked
  IN  {q \in left : \A r \in left \ {q} : Before(q, r)}

(* inquire: the next question whose `when` holds is put.                   *)
Ask ==
  /\ phase = "asking" /\ stage <= 3
  /\ \E q \in Questions :
       /\ When(q, answers)
       /\ \E c \in Offered(q, options.yarn, mayIgnore) : answers' = answers \cup {c}
       /\ asked' = asked \cup {q}
  /\ UNCHANGED <<authVars, phase, outcome, memory, stage, update, patch, disk>>

Pass ==
  /\ phase = "asking" /\ stage <= 3
  /\ \E q \in Questions :
       /\ ~When(q, answers)
       /\ answers' = Pushed(q, answers)
       /\ asked' = asked \cup {q}
  /\ UNCHANGED <<authVars, phase, outcome, memory, stage, update, patch, disk>>

NextStage ==
  /\ phase = "asking" /\ stage <= 3 /\ GetPrompts(stage, found) \subseteq asked
  /\ stage' = stage + 1
  /\ UNCHANGED <<authVars, phase, outcome, memory, asked, answers, update, patch, disk>>

(* nextSteps: what may be added to package.json.                           *)
NextSteps ==
  (IF pkg.test THEN {} ELSE {"test"})
  \cup (IF pkg.protect # "prepublish" /\ Chosen("patch", answers) # {} THEN {"protect"} ELSE {})

(* dedupe: of the patches for one route the one published last is kept.    *)
Deduped(S) ==
  {t \in S : \A u \in S : List[u.at].route = List[t.at].route =>
     u.published < t.published \/ (u.published = t.published /\ t = CHOOSE x \in S :
       List[x.at].route = List[t.at].route /\ x.published = t.published)}

Rules(t) == {<<t.id, List[t.at].route>>} \cup {<<id, List[t.at].route>> : id \in t.includes}

(* processAnswers: with --json the answers are all there is; otherwise     *)
(* generatePolicy starts all tasks.                                        *)
ProcessAnswers ==
  /\ phase = "asking" /\ stage = 4
  /\ steps' \in SUBSET NextSteps
  /\ IF options.json
     THEN End("json") /\ UNCHANGED <<tasks, updater, patcher, queue, reported>>
     ELSE /\ phase' = "tasks" /\ UNCHANGED outcome
          /\ tasks' = AnswersToTasks(answers)
          /\ updater' = IF tasks'.update = {} THEN "done" ELSE "uninstall"
          /\ patcher' = IF tasks'.patch = {} THEN "done" ELSE "locate"
          /\ queue' = Deduped(tasks'.patch)
          /\ reported' = UNION {Rules(t) : t \in tasks'.patch \ Deduped(tasks'.patch)}
  /\ UNCHANGED <<authVars, options, mayIgnore, startOver, policyFile, found, pkg, asking, npm, read, told, patchError, disk>>
-----------------------------------------------------------------------------
Of(k) == {i \in tasks.update : List[i].depType = k}
Named(S) == {List[i].dep : i \in S}

(* The highest version that was chosen of dependency d.                    *)
Highest(k, d) == List[Foremost({i \in Of(k) : List[i].dep = d})].upgradeTo

(* The versions an install brings about where deps were.                   *)
FindUpgrades(k, deps) ==
  [d \in Deps |-> IF d \in Named(Of(k)) THEN Highest(k, d) ELSE deps[d]]

(* Uninstalling removes the directories of S with what was patched there.  *)
Removed(S) ==
  /\ manifest' = [manifest EXCEPT !.deps = [d \in Deps |-> IF d \in S THEN 0 ELSE @[d]]]
  /\ installed' = [d \in Deps |-> IF d \in S THEN 0 ELSE installed[d]]
  /\ patched' = {t \in patched : List[t[2]].dep \notin S}
  /\ UNCHANGED policy

(* npm uninstall of all of them; then both npm install are started.        *)
Uninstall ==
  /\ updater = "uninstall"
  /\ updater' = "install"
  /\ npm' = [k \in Kind |-> IF Of(k) = {} THEN "done" ELSE "started"]
  /\ IF options.dryRun THEN UNCHANGED disk ELSE Removed(Named(tasks.update))
  /\ UNCHANGED <<authVars, phase, outcome, memory, asking, read, told, patch>>

(* It fails, having removed some: update rejects.                          *)
UninstallFails ==
  /\ updater = "uninstall" /\ ~options.dryRun
  /\ updater' = "failed"
  /\ \E S \in SUBSET Named(tasks.update) : Removed(S)
  /\ UNCHANGED <<authVars, phase, outcome, memory, asking, npm, read, told, patch>>

(* npm install reads package.json, ...                                     *)
NpmReads(k) ==
  /\ npm[k] = "started"
  /\ npm' = [npm EXCEPT ![k] = "read"]
  /\ read' = [read EXCEPT ![k] = manifest.deps]
  /\ UNCHANGED <<authVars, phase, outcome, memory, asking, updater, told, patch, disk>>

(* ... and writes it with the packages it has installed.                   *)
NpmWrites(k) ==
  /\ npm[k] = "read"
  /\ npm' = [npm EXCEPT ![k] = "done"]
  /\ IF options.dryRun THEN UNCHANGED <<manifest, installed>>
     ELSE /\ manifest' = [manifest EXCEPT !.deps = FindUpgrades(k, read[k])]
          /\ installed' = FindUpgrades(k, installed)
  /\ UNCHANGED <<authVars, phase, outcome, memory, asking, updater, read, told, patch, policy, patched>>

(* Mutant of NpmFails: the error is not kept for printing.                 *)
NpmFailsSilently(k) ==
  /\ npm[k] = "read" /\ ~options.dryRun
  /\ npm' = [npm EXCEPT ![k] = "failed"]
  /\ UNCHANGED <<authVars, phase, outcome, memory, asking, updater, read, told, patch, disk>>

(* Its error is caught, kept and printed; update() resolves with false.    *)
NpmFails(k) ==
  /\ npm[k] = "read" /\ ~options.dryRun
  /\ npm' = [npm EXCEPT ![k] = "failed"] /\ told' = TRUE
  /\ UNCHANGED <<authVars, phase, outcome, memory, asking, updater, read, patch, disk>>

Updated ==
  /\ updater = "install" /\ \A k \in Kind : npm[k] \in {"done", "failed"}
  /\ updater' = "done"
  /\ UNCHANGED <<authVars, phase, outcome, memory, asking, npm, read, told, patch, disk>>

UpdateStep ==
  \/ Uninstall \/ UninstallFails \/ Updated
  \/ \E k \in Kind : NpmReads(k) \/ NpmWrites(k) \/ NpmFails(k)
-----------------------------------------------------------------------------
Present(t) == installed[List[t.at].dep] > 0

(* getVulnSource for all paths before the first is patched: a live run     *)
(* throws when one is not there.                                           *)
Locate ==
  /\ patcher = "locate"
  /\ patcher' = IF ~options.dryRun /\ \E t \in queue : ~Present(t) THEN "failed" ELSE "patching"
  /\ UNCHANGED <<authVars, phase, outcome, memory, asking, update, queue, patchError, reported, disk>>

(* Path t is done with.                                                    *)
Settle(t, rules) ==
  /\ queue' = queue \ {t}
  /\ reported' = reported \cup rules
  /\ UNCHANGED <<authVars, phase, outcome, memory, asking, update, patcher, policy, manifest, installed>>

(* The diffs of a path are applied.                                        *)
ApplyPatch(t) ==
  /\ patcher = "patching" /\ Present(t)
  /\ Settle(t, Rules(t))
  /\ patched' = IF options.dryRun THEN patched ELSE patched \cup {<<t.id, t.at>>}
  /\ UNCHANGED patchError

(* There is no package, or one of another version since it was installed   *)
(* anew: nothing is done and the path counts as patched, unless a flag for *)
(* several vulnerabilities is to be written where no directory is.         *)
SkipPatch(t) ==
  /\ patcher = "patching"
  /\ installed[List[t.at].dep] # Base[List[t.at].dep]
  /\ Present(t) \/ t.includes = {}
  /\ Settle(t, Rules(t))
  /\ UNCHANGED <<patchError, patched>>

(* The error is kept until all others are done.                            *)
PatchErrs(t) ==
  /\ patcher = "patching"
  /\ Settle(t, {})
  /\ patchError' = TRUE /\ UNCHANGED patched

(* A diff cannot be fetched, or the flag cannot be written: patch rejects. *)
PatchRejects ==
  /\ patcher = "patching" /\ queue # {}
  /\ patcher' = "failed"
  /\ UNCHANGED <<authVars, phase, outcome, memory, asking, update, queue, patchError, reported, disk>>

Patched ==
  /\ patcher = "patching" /\ queue = {}
  /\ patcher' = IF patchError THEN "failed" ELSE "done"
  /\ UNCHANGED <<authVars, phase, outcome, memory, asking, update, queue, patchError, reported, disk>>

PatchStep ==
  \/ Locate \/ PatchRejects \/ Patched
  \/ \E t \in queue : ApplyPatch(t) \/ SkipPatch(t) \/ PatchErrs(t)
-----------------------------------------------------------------------------
(* generatePolicy merges the new rules onto those loaded at the start.     *)
Merged ==
  [ignore |-> policyFile.ignore \cup {Rule(i) : i \in tasks.ignore},
   patch |-> policyFile.patch \cup reported]

(* All tasks have resolved; a dry run ends here.                           *)
GeneratePolicy ==
  /\ phase = "tasks" /\ updater = "done" /\ patcher = "done"
  /\ IF options.dryRun THEN End("dry_run") ELSE phase' = "save" /\ UNCHANGED outcome
  /\ UNCHANGED <<authVars, memory, asking, update, patch, disk>>

(* One has rejected; the others go on as long as the process does.         *)
TaskRejects ==
  /\ phase = "tasks" /\ "failed" \in {updater, patcher}
  /\ End("failed")
  /\ UNCHANGED <<authVars, memory, asking, update, patch, disk>>

(* A diff that does not fit ends the process at once; an npm install goes  *)
(* on by itself.                                                           *)
Dies ==
  /\ phase = "tasks" /\ patcher = "patching" /\ \E t \in queue : Present(t)
  /\ End("died") /\ updater' = "done" /\ patcher' = "done"
  /\ UNCHANGED <<authVars, memory, asking, npm, read, told, queue, patchError, reported, disk>>

Save ==
  /\ phase = "save"
  /\ policy' = Merged
  /\ phase' = "package"
  /\ UNCHANGED <<authVars, outcome, memory, asking, update, patch, manifest, installed, patched>>

(* The tests and the hook that were asked for, and snyk where they need    *)
(* it. The hook is prepublish before npm 5.                                *)
WithSnyk(p, hook) ==
  [p EXCEPT
     !.test = @ \/ "test" \in steps,
     !.protect = IF "protect" \in steps THEN hook ELSE @,
     !.snyk = CASE @ = "prod" -> @ [] @ # "prod" /\ "protect" \in steps -> "prod"
                [] @ = "no" /\ steps = {"test"} -> "dev" [] OTHER -> @]

(* Mutant of Reread: package.json as it was before the tasks.              *)
NotReread == pkg

(* package.json is read again, for npm install may have changed it.        *)
Reread == manifest

WritePackage ==
  /\ phase = "package"
  /\ pkg' = Reread
  /\ \E hook \in (IF options.yarn THEN {"prepare"} ELSE {"prepare", "prepublish"}) :
       manifest' = IF steps # {} \/ tasks.update # {} THEN WithSnyk(pkg', hook) ELSE manifest
  /\ phase' = "monitor"
  /\ UNCHANGED <<authVars, outcome, options, mayIgnore, startOver, policyFile, found, steps, tasks, asking, update, patch,
                 policy, installed, patched>>

(* The lock file and the shrinkwrap are brought up to date and the project *)
(* is monitored.                                                           *)
Monitor ==
  /\ phase = "monitor" /\ End("ok")
  /\ UNCHANGED <<authVars, memory, asking, update, patch, disk>>

(* The directory is none the wizard supports; a request or a version of    *)
(* npm cannot be had; a file cannot be read or written.                    *)
Fails ==
  /\ phase \in {"idle", "loaded", "test", "save", "package", "monitor"} /\ ~AuthBusy
  /\ End("failed")
  /\ UNCHANGED <<authVars, memory, asking, update, patch, disk>>

WizardStep ==
  \/ UpdateStep \/ PatchStep \/ GeneratePolicy \/ TaskRejects \/ Save \/ WritePackage \/ Monitor

Next ==
  \/ AuthFirst \/ LoadOrCreatePolicyFile \/ Authorize \/ StartOver \/ Test \/ TestsReached
  \/ Ask \/ Pass \/ NextStage \/ ProcessAnswers \/ Dies \/ Fails \/ WizardStep

(* Requests have a timeout, timers fire and npm ends; whether a person     *)
(* logs in or answers is left open.                                        *)
Fairness == WF_vars(AuthFirst /\ AuthStep) /\ WF_vars(WizardStep)

Spec == Init /\ [][Next]_vars /\ Fairness
-----------------------------------------------------------------------------
(* The state of the two commands, and what their parts agree on: questions *)
(* come before tasks, only a live run has failing installs, and what is    *)
(* reported or patched belongs to a path that was found.                   *)
TypeOK ==
  /\ AuthTypeOK
  /\ phase \in {"idle", "loaded", "start_over", "test", "asking", "tasks", "save", "package", "monitor", "ended"}
  /\ outcome \in {"none", "failed", "limit", "json", "dry_run", "died", "ok"} /\ (outcome = "none" <=> phase # "ended")
  /\ options \in Options /\ mayIgnore \in BOOLEAN /\ startOver \in BOOLEAN
  /\ found \subseteq DOMAIN List /\ steps \subseteq {"test", "protect"}
  /\ stage \in 1..4 /\ \A q \in asked : q.vuln \in found
  /\ updater \in {"idle", "uninstall", "install", "done", "failed"} /\ (updater # "idle" => stage = 4)
  /\ npm \in [Kind -> {"idle", "started", "read", "done", "failed"}]
  /\ told = (\E k \in Kind : npm[k] = "failed") /\ (told => ~options.dryRun)
  /\ read \in [Kind -> [Deps -> Nat]]
  /\ patcher \in {"idle", "locate", "patching", "done", "failed"} /\ patchError \in BOOLEAN
  /\ \A t \in queue : t.at \in found
  /\ reported \subseteq Ids \X Routes
  /\ policy = None \/ policy \in [ignore : SUBSET (Ids \X Routes), patch : SUBSET (Ids \X Routes)]
  /\ {manifest, pkg} \subseteq
       [deps : [Deps -> Nat], test : BOOLEAN, protect : {"none", "prepare", "prepublish"}, snyk : {"no", "dev", "prod"}]
  /\ installed \in [Deps -> Nat] /\ patched \subseteq Ids \X found

Decided(i) == Decision(i, answers)

(* No stage asks about a license there is a patch for (prompts.ts:182 and  *)
(* :347), nor about a path that can be upgraded below its direct           *)
(* dependency only (:451 against :182 and :343).                           *)
NeverAsked(i) ==
  \/ List[i].license /\ ~CanBeUpgraded(i) /\ StripInvalidPatches(i) # {}
  \/ CanBeUpgraded(i) /\ List[i].upgradeTo = 0

(* The groups a patch was chosen for.                                      *)
PatchedGroups == {a.prompt : a \in {b \in Chosen("patch", answers) : b.prompt.role = "main"}}

(* The path's patch was chosen for its group, under the id of another      *)
(* vulnerability: prompts.ts copies only the path that stands for it.      *)
UnderOtherId(i) ==
  \E main \in PatchedGroups : i \in Upgrades(main.members) /\ List[i].id # List[main.vuln].id

(* It is no member of a group that was patched, but has the id of one of   *)
(* them and the route of another: the ids go with each of the routes.      *)
ByNamesake(i) ==
  \E main \in PatchedGroups :
    i \notin main.members /\ \E j, k \in main.members : Rule(i) = <<List[j].id, List[k].route>>

Upgraded(i) == List[i].dep \in Named(tasks.update)
OnDisk(i)   == \E t \in patched : List[t[2]].route = List[i].route

(* wizard.ts, prompts.ts, tasks.ts, protect/: of a run that ends well the  *)
(* policy has every rule it was to update, and each path that was found,   *)
(* those no stage is for excepted, was asked about and is ignored or       *)
(* patched in the policy exactly if the person decided so for it or for    *)
(* its group; what was to be patched is patched on the disk, unless its    *)
(* dependency was installed anew at the same time. A dry run, and one with *)
(* --json, changes nothing.                                                *)
DecisionsCarried ==
  /\ outcome = "ok" =>
       /\ startOver \/ (policyFile.ignore \subseteq policy.ignore /\ policyFile.patch \subseteq policy.patch)
       /\ \A i \in found :
            /\ Decided(i) = "unasked" => NeverAsked(i)
            /\ Decided(i) # "review"
            /\ Rule(i) \in policyFile.ignore \/ (Rule(i) \in policy.ignore <=> Decided(i) = "ignore")
            /\ Rule(i) \in policy.patch \ policyFile.patch => Decided(i) = "patch" \/ ByNamesake(i)
            /\ Decided(i) = "patch" =>
                 (Rule(i) \in policy.patch \/ UnderOtherId(i)) /\ (OnDisk(i) \/ Upgraded(i))
  /\ options.dryRun \/ options.json =>
       /\ manifest.deps = Base /\ installed = Base /\ patched = {} /\ ~manifest.test
       /\ phase \in {"idle", "ended"} \/ Stored(policy) = policyFile

(* prompts.ts:948, "Ignore it and start from scratch [y] or update it      *)
(* [N]?": of a run that ends well and did start from scratch the policy    *)
(* ignores nothing but what the person has decided to ignore.              *)
StartedFromScratch ==
  outcome = "ok" /\ startOver => policy.ignore = {Rule(i) : i \in {j \in found : Decided(j) = "ignore"}}

(* protect/update.js, wizard.ts:395: a run that ends well and told of no   *)
(* failed install leaves every dependency in package.json and installed,   *)
(* in a version without any vulnerability it was to be upgraded for and in *)
(* its own if there was none, and the scripts that were asked for, unless  *)
(* two npm install wrote package.json side by side.                        *)
DependenciesKept ==
  outcome = "ok" =>
    /\ "test" \in steps => manifest.test
    /\ "protect" \in steps => manifest.protect # "none" /\ manifest.snyk = "prod"
    /\ ~told =>
         /\ \A d \in Deps : installed[d] > 0 /\ (d \in Named(tasks.update) \/ installed[d] = Base[d])
         /\ \A i \in found : Decided(i) = "update" => installed[List[i].dep] >= List[i].upgradeTo
         /\ Of("prod") = {} \/ Of("dev") = {} => \A d \in Deps : manifest.deps[d] = installed[d]

(* auth/index.ts:114, update.js, patch.js: the polling ends though nobody  *)
(* logs in, or does so after the last poll; the tasks come to an end       *)
(* whatever fails of them.                                                 *)
CommandsEnd ==
  /\ AuthBusy ~> ~AuthBusy
  /\ phase = "tasks" ~> phase = "ended"
=============================================================================
