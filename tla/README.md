# Formal verification of the Snyk CLI

TLA+ models of the Snyk CLI and of the packages that are developed with it (`packages/snyk-protect`,
`packages/snyk-fix`), the TLC runs that check them on small instances, and TLAPS proofs of what matters most for
every value of the constants. Paths below are relative to the repository; `@snyk/protect/…` stands for
`packages/snyk-protect/src/lib/…`, `@snyk/fix/…` for `packages/snyk-fix/src/…`, all others are below `src/`.

- [The system](#the-system): its components, their state, their operations, how they interact
- [The modules](#the-modules): what each one models and how it corresponds to the code
- [The runs](#the-runs): what is checked, with which bounds
- [Fairness](#fairness)
- [The proofs](#the-proofs)
- [Where code and documents disagree](#where-code-and-documents-disagree)
- [What is not modelled](#what-is-not-modelled)
- [Plan](#plan)

To repeat a run: `tlc -config MCCli.cfg MCCli`; a proof: `tlapm CliProofs.tla`.

## The system

The CLI is one process of node that runs one command. There are no threads: what happens between two turns of the
event loop is atomic, and everything hard comes from

- what is **awaited side by side**: the diffs of one vulnerability (`lib/protect/patch.js`), the two Python plugins of
  `snyk fix`, upgrades and patches of the wizard, the two `npm install` of the upgrades;
- **other processes in the same directory**: two `snyk iac test` on one `.iac-data`;
- **other parties**: Snyk's server, which keeps snapshots and jobs and whose answers may be lost; package managers and
  plugins, which may throw; npm, which replaces directories between runs;
- the **file system**, the only thing that survives a process that dies: flags, `.orig` files, patched files,
  manifests that were half fixed;
- **many things in one command**: several paths, each with several manifests, each with several projects, any of which
  may fail, and one exit code at the end.

| Component | State it keeps | Operations | Talks to | What makes it correct |
|---|---|---|---|---|
| `@snyk/protect` | node_modules: files and one `.flag` per file; per run: patches downloaded, loops | read `.snyk`, explore node_modules, download, patch and flag, report | server (download), npm (reinstall) | a flag means a patched file; a run that dies loses at most one file; nothing is written before everything is downloaded |
| `patchString` (in it) | the lines of a file, the place in them | go through one diff | - | the diff lands where it belongs, or nothing is written |
| `snyk protect` (`lib/protect`) | files, `.orig` files, one flag per package and vulnerability | dedupe, fetch, glob, restore, apply, flag | server, npm, patches of the same package running side by side | a patch is there once, however often it is applied; it can be taken back |
| CLI main (`cli/main.ts`) | what the command returned or threw | validate, run, show, save, exit | all commands | the exit code says what the results say |
| `snyk test` | results so far, one sequence for all paths | scan, assemble, send, collect, judge | plugins, server | every path answered; 1 means vulnerabilities |
| plugin scan (`lib/plugins`) | projects found, manifests that failed | find manifests, inspect each | language plugins (external) | a manifest that fails is not forgotten |
| `snyk monitor` | results | scan, send each project | plugins, server | 0 means that everything found is stored |
| ecosystems (`lib/ecosystems`, `lib/polling`) | scan results to send, the job polled | scan all paths, get a token, poll | server, which works in its own time | every scan sent once and in order, polling ends |
| `snyk fix` (`cli/commands/fix`) | entities to fix | test each path, hand over, judge | `snyk test`, `@snyk/fix` | error exactly if nothing was fixed |
| `@snyk/fix` plugins and report | results per plugin, exceptions | group by type and handler, run, count | pipenv, poetry (external) | each entity is reported, once |
| requirements files | texts read, changes, files already fixed | follow requires, upgrade, pin, remember | files of the workspace | what is reported as fixed is fixed on disk |
| Pipfile, Poetry | commands still to run | run the tool, one command or one a package | pipenv, poetry | what is reported was installed |
| infrastructure as code (`iac-local-execution`) | `.iac-data` in the working directory; per run: engines built so far, files loaded and parsed, results | settings, custom rules, download and extract, load, parse, scan, apply severities and ignores, remove the directory | server, registry, other runs in the same directory | each run evaluates with its own rules, removes its directory whatever fails, and shows exactly what the files break |
| `auth` (`commands/auth`) | the attempts left, the key in the user's configuration | verify a key; open a page and poll | server, the person who logs in | the polling ends |
| `wizard` (`commands/protect`) | the answers so far, by stage; package.json as it was read | load the policy, test, group, ask, make tasks, write policy and package.json | `snyk test`, the person | every decision reaches the policy and the disk |
| its tasks (`lib/protect/index.js`) | node_modules, package.json | uninstall, two npm install, patches, all side by side | npm, `lib/protect/patch.js` | no dependency is lost unsaid; what is recorded as patched is patched |
| requests, policies, formatters, … | | | | see [What is not modelled](#what-is-not-modelled) |

Interaction: `main` runs one command. `snyk test` and `snyk monitor` share the plugin scan and differ in what they do
with its projects; both leave it for the ecosystem flow when the project is unmanaged C/C++ or (monitor) a container.
`snyk fix` runs the test flow per path and hands the results to `@snyk/fix`. The three patching components share only
the conventions of the file system: `@snyk/protect` respects `.flag` and the `.orig` files `lib/protect` leaves. The
wizard tests the project, asks, and runs three kinds of tasks on it at once; `snyk auth` gives it its key. Infrastructure
as code is the one command whose runs share more than patched files: each of them makes, fills and removes the same
directory `.iac-data`.

The behaviours that are hard to test are listed with their lines in `PROJECT.json` (`hazards`), each with the
properties that would notice it going wrong.

## The modules

Data is abstracted to what the properties tell apart. A path, a manifest, a project is a number; a diff is a model
value; the text of a patched file is the sequence of diffs applied to it; the version in a requirements line is one of
`old`, `prefix` (of the old one), `other`, `new`; an answer of the server is its class.

### `SnykProtect`, `PatchedDisk`, `SnykProtectProofs` - @snyk/protect

| Variable | In the code |
|---|---|
| `content`, `torn`, `flagged`, `orig` | node_modules: diffs a file has received, files whose writing was cut off, `<file>.snyk-protect.flag`, `.orig` left by `lib/protect` |
| `snykFile` | the vulnerabilities of `.snyk`, absent, or rejected |
| `requests`, `patches` | `getAllPatches`: what is still to be fetched, what was |
| `work`, `edit` | the nested loops of `index.ts:77-96` and the file between its two writes |
| `patchedModules`, `outcome` | the report |

Actions follow `protect()`: `ReadSnykFile` (with `NoSnykFileFound`, `SnykFileRejected`, which also stands for a
package.json that cannot be parsed), `FetchPatches`, `GotAllPatches`, then per file `OpenTarget`, `WriteTarget`,
`WriteFlag`. `OpenTarget` and `WriteTarget` are two steps because `writeFileSync` truncates first: a process that dies
in between leaves a torn file, which lacks the lines a diff looks for. `Interrupted` is that death, at any step;
`Reinstall` is npm unpacking a package anew, `EditSnykFile` somebody changing `.snyk`, both between runs.

`PatchedDisk` is the promise without loops and half-done writes: a file is patched and marked in one step, a marked file
is left alone, a mishap spoils one unmarked file. `SnykProtect` implements it under a mapping that counts the file
between its writes as it was before. Left out: the analytics request after the last write.

### `PatchString`, `PatchStringProofs` - the loop that applies a diff

`patchString` (`@snyk/protect/patch.ts:39-90`), one line of the diff a step: `Delete`, `Insert`, `Context`, `Mismatch`,
`OtherLine`, `PastTheEnd`, and `Slice` for the two lines it drops from the end of a download. The reference is `Applies`
and `IsApplied`, which say what a diff means.

### `LegacyPatch`, `LegacyPatchProofs` - lib/protect

What happens in a turn of the event loop is one action, unless the process is killed. `chain[u]` is where the promise chain of the diff `u`
of the current vulnerability is: fetching, globbing, listed, …; the chains interleave. A flag makes the next application
list the `.orig` files (`GlobLists`, asynchronous) and rename them back (`RestoreAndApply`, in the turn of its callback)
first. `WriteFlag` is at once for a grouped vulnerability and left to `fs.writeFile` for others (`pending`,
`FlagCreated`). What throws outside of a promise ends the process with exit code 2 (`Mismatch`, `RestoreThrows`).
`todo` is the set of vulnerabilities still ahead, taken in the order in which their routes stand in `List` (`Foremost`).

`Killed` may strike anywhere. A turn writes several files, one after the other, and `writeFileSync` truncates first: the
`.orig` copies (`KilledCopying`), the patched texts and then the flag (`KilledWriting`), the renames of a restore
(`KilledRestoring`); or it strikes between two turns, when of the flags left to `fs.writeFile` any may have been created.
A text that is cut off ends in one of `Cuts`; `Clashes` says which diffs still fit such a text, so both a diff that fails
on a torn file and one that is applied to it are there. `spoilt` remembers for which packages a death has left what their
flag does not tell: an edit without a flag, or a copy that is cut off and would be put back in the file's place. Renames
and deletions by a diff are left out; a file that is gone counts as one the diff does not fit.

### `CliRun`, `PluginScan`, `TestCommand`, `MonitorCommand`, `EcosystemFlow`, `CliMain`, `CliProofs` - a command, from options to exit code

`CliRun` declares the state all flows share. `results` is the sequence that is shown, `scan[p]` what the plugins said of
a path, `queue` the projects still to send, `job` the job polled, `stored` what the server keeps.

- `PluginScan`: `BeginPath` (find manifests, or none) and `Inspect` (a plugin returns or throws; only `--all-projects`
  survives the latter). Both `snyk test` and `snyk monitor` extend it.
- `TestCommand`: a path yields the results of all its projects or one error (`PathFails`); `JsonVerdict` and
  `TextVerdict` (`test/index.ts:150-290`) ask for errors, `--fail-on` and vulnerabilities in
  different orders.
- `MonitorCommand`: what fails becomes an entry; the answer to a request may be lost after the server stored the
  snapshot (`ProjectRefused`, `AnswerLost`).
- `EcosystemFlow`: all paths are scanned before the first is sent; the server finishes a job in its own time
  (`ServerFinishes`); `PollPending` counts attempts in a copy, as the code does.
- `CliMain` composes them with `main()`: `Refuse`, `RunCommand`, `CommandReturned`, `HandleError` (exit code 1, 2 or 3;
  3 is decided by a text in the message), `UnexpectedError` at any time. Combinations of options that the code rejects
  (`UnsupportedCombination`, `UnsupportedOutput`) are always refused, any command may be (`Refuse` stands for arguments and
  credentials too).

### `Requirements`, `FixRun`, `PipRequirements`, `PythonTools`, `SnykFix`, `FixProofs` - snyk fix

`Requirements` has the pure part: what an upgrade and a pin do to lines, which file is pinned in, what a file reaches
through `-r` and `-c`. A path is a sequence of names; a directive has the path as it is spelled, with `.` and `..`, and
may name a file that does not exist. `path.join` and `path.relative` are the operators `Join` and `Relative`, constants of
which the module assumes one law (`PathAssumption`); `MCSnykFix` defines them as node does. `FixRun` declares the state of the command, of `fix()`, of the two plugins and the three
handlers, with the steps all handlers share (`EntitySucceeds`, `EntityFails`). `todo[h]` is the set of entities a handler
has still to go through, taken in the order `Before`: requirements files by the place of their directory's name among all
(`Rank`), then as they come.

- `PipRequirements`: `TakeFixed` (the cache), `StartFile`, `VisitFile` (one call of the recursion of
  `extractProvenance`; whether a file was seen is asked by the text of the directive as it is spelled, while files are kept
  under `Key`, their normalised path from the directory of the scan), `UpgradeFile`, `PinRest`, `FileFails` (a failed read
  or write, or a required file that is not there: `Missing`).
- `PythonTools`: `StartPipfile`, `StartPoetry`, `RunTool` (external `pipenv install`, `poetry add`), `FinishTool`,
  `PoetryThrows`.
- `SnykFix`: `TestPath` (one path tested; its entities come from the constant `Scan`), `StartFix`, `HandlerReturns`,
  `PluginReturns` (the plugin that returns last takes the place of the other in the results), `Conclude`.

The handlers of pip and Poetry interleave. Left out: comments, extras and formatting of requirements, the version check of the tools (it only prints), more than three scan types at once.

### `IacFiles`, `IacCache`, `IacTest`, `IacProofs`, `IacReportProofs` - snyk iac test

`IacFiles` has the pure part: which files a path has and which are read (`DirectoryFiles`, `LoadFiles`), what a
document is (`DetectConfigType`), the resources of a Terraform plan (`ExtractResources`), parsing with and without
failures (`ParseFiles`), the rules a file breaks, custom severities, the threshold, ignores (`FormatScanResults`,
`FilterIgnoredIssues`). Files and documents are sets where their order decides nothing.

`IacCache` is the directory. `dir` is its content as every process sees it, `job[p]` what run `p` is writing there: a
registry's layer (`Pull`, `Pulled`) or an archive (`Extract`), entry by entry. `OpenEntry` truncates a file and `CloseEntry`
fills it, so another run may read between the two; `CleanLocalCache` removes the directory and with it what another run
put there, or fails half-way unnoticed. `Throw` is an error anywhere in `test()`, whose `finally` removes the directory
(`ThrowFrom` where it has been created in the same turn).

`IacTest` is a run: `Shim` checks the options, `Settings` reads them from the server, `InitLocalCache`, `Load`,
`BuildPolicyEngine` (kept for later paths of the same run, as the code's module variable is), `Report`
per path, then `Conclude`. `ScanFails`, `PullFails`, `ExtractFails`, `SettingsFail` are failures from outside, `Killed` the
death of a process while it writes into the directory or evaluates from it. Left out: what is inside a rule (external), SARIF and line numbers, and the remote flow
of organisations that opted out.

### `Auth`, `WizardPrompts`, `Wizard`, `WizardProofs` - snyk auth, snyk wizard

`Auth` has `Manual` with `Verified`, and `WebAuth` with `GetIpFamily`, `Polled`, `Waited`; `Confirm` is the person, who
may log in at any time, also when it is too late.

`WizardPrompts` is pure: which paths are asked about in which of three stages, how they are grouped (`Groups`; by
`GroupKeys` a path may join the group of another vulnerability whose patch fits it too), which of a group stands for it
(`Foremost`), the questions and their order (`GetPrompts`, `Before`), the choices of a
question (`Offered`), the callbacks that decide whether it is asked (`When`) and add to earlier answers (`Pushed`), and
`AnswersToTasks`. `Decision` is what a person would say they have decided.

Two predicates of `prompts.ts` differ: `CanBeUpgraded` (`:460`) also holds of a path on which only a dependency below the
direct one is to be installed anew (`deeper`); the first stage then drops it for want of an upgrade of the direct one
(`Upgradeable`), and the other two because it can be upgraded, so nobody is asked about it.

`Wizard` extends both. `LoadOrCreatePolicyFile`, `Authorize`, `StartOver`, `Test`; `Ask`, `Pass` and `NextStage` are the
dialogue, one question a step, with every answer possible; `ProcessAnswers` makes `tasks` of them. Then `UpdateStep`
(`Uninstall`, and the two `npm install`, which read package.json, work and write it: `NpmReads`, `NpmWrites`) and
`PatchStep` (`Locate` for all paths at once, then `ApplyPatch`, `SkipPatch`, `PatchErrs`, `PatchRejects` for one after the
other, in any order) interleave, until both are done (`GeneratePolicy`), one rejects (`TaskRejects`) or a diff that does not fit ends
the process (`Dies`). `Save`, `Reread`, `WritePackage` and `Monitor` follow. A patch is one step here; what is inside is
`LegacyPatch`. Assumed of npm: it reads package.json when it starts and writes it when it ends, and the files of a path
lie below its direct dependency. Left out: texts, reasons and expiry of ignores, yarn's own order of commands, the order
of groups that do not touch, shrinkwrap's content.

## The runs

Every property of a passing run has a mutant in `PROJECT.json`: a definition with a plausible bug of that code in it, under
which TLC finds the property violated. Mutants stand in the modules before the definition they change.

| Run | Bounds | Shows |
|---|---|---|
| `protect` | any number of runs, one of which dies; 5 `.snyk` files; 4 copies of 2 packages in 2 versions, a third package named and not installed; 4 vulnerabilities, 4 diffs, two of them on the same file | safety, and the refinement of `PatchedDisk` |
| `patch_string` | all files up to 3 lines over 2 texts and the blank, with and without CR, all diffs up to 3 lines with all kinds of lines | a diff of additions is applied exactly where and if it fits; what is around a hunk is untouched |
| `patch_string_compatible` | the same files, diffs that add and remove | finding: a fitting diff that removes a line goes wrong |
| `legacy_patch` | 2 runs, 1 kill; 5 vulnerabilities over 3 directories and 4 routes: shared directory, shared route, two diffs, grouped and not; texts cut off in two places, of which one leaves nothing a diff fits | patched once, revertible, the backup is one step back, runs end |
| `cli` | 2 paths, 2 manifests and 2 projects each, all options, `MaxAttempts` 1, `MaxPolls` 3 | the properties of test, monitor and ecosystems below |
| `cli_polling`, `cli_exit` | as `cli`, 1 project | findings |
| `snyk_fix` | 2 paths, 4 requirements files in 2 directories that require each other (also in circles, as `./x` and `../x`, and one that does not exist), 2 packages, up to 3 entities a path of 3 scan types, live and dry, with and without `--sequential`, 1 failing read or write | every entity is reported; the outcome agrees; fixed is fixed; the command ends |
| `snyk_fix_paths` | the same | finding: a fix in one path is claimed for another |
| `iac` | 2 runs in one directory, 8 kinds of paths (a folder with a file of each kind and a small one, a good file, a bad one, a plan with resources of one name, a directory with a file that cannot be read, …), 4 bundles of rules (Snyk's; custom ones that bring a file of Snyk's engines too; one without custom rules; one that is no archive) from a file or a registry, 2 failures from outside, failed removals or kills | a run that is alone uses its own rules, the directory is removed, the report is exact |
| `wizard` | 11 vulnerable paths in 6 projects, with and without a policy, 4 sets of options (live, dry, `--json`, CI with yarn), 2 attempts of authentication, every answer, every failure | decisions reach policy and disk, dependencies are kept, both commands end |
| `wizard_from_scratch` | the same | finding: starting from scratch keeps the old rules |

Why the bounds are enough. *protect*: the properties are about one file between two writes, two diffs on one file, two
copies of a package, a diff that fails after others were applied, and a later run that finds what an earlier one left;
all occur. Two deaths are covered by the proofs, which bound nothing. *patch_string*: three lines are enough for a line
that repeats, an addition before, between and after context, a removed line followed by another, and the end of the
file. *legacy_patch*: a second run meets whatever the first has left, finished or killed in the middle of a write, which is the
only memory; a third would meet the same kinds of disks. *cli*: two paths let an error, a vulnerability and a success meet in each order, two manifests let
one fail and the other not, two projects let a request fail between two others. Polls beyond `MaxPolls` are counted as
`MaxPolls`, so that a job that is never ready is a cycle and not an unbounded run. *snyk_fix*: two paths are needed for
files of the same name, two directories for the difference between a file's path and what a directive calls it, four
files for a circle in either directory and across both, three entities for one Poetry project that fails between two others. *iac*: two
runs are enough for one to remove, or fill, the directory the other reads, and two failures for one in each, or for one
failure while the first is being handled; several paths in one run meet the engines that are kept. *wizard*: the projects
have a dependency with two upgrades of different size, one for production beside one for development, paths that share
a route, a vulnerability or a package with different vulnerabilities, a patch below a dependency that is upgraded, a
dependency that is only installed anew below another, and a path nothing helps. Two attempts are enough for a wait that is followed by a poll and one that is not.

**The properties, by what they say.** `FlaggedIsPatched`, `OneLossPerInterruption`, `PatchedOncePerInterruption`,
`MarkedIsFrozen`, `AppliedMeansMarked`, `FetchedBeforeWriting`: what a death or a failure in the middle of
`@snyk/protect` may leave. `Revertible`, `BackupIsOneStepBack`, `PatchedOnce`: that
restoring and applying side by side keeps one level of undo, and never applies a patch twice. They are stated for
vulnerabilities that share their package with no other and have one diff (`Undisturbed`) because without that they do
not hold: restoring for one vulnerability takes back what another did to the package, and of two routes to one package the
second may be applied before the first's flag exists (the process then ends with 2). They also exempt packages a death has
spoilt, until they are installed anew: an edit without its flag is taken for the original by the next run, which applies
the diff over it, and a copy that was cut off replaces the file once there is a flag. `BackupIsOneStepBack` exempts nothing;
it says how far a file and its copy may be apart then too. `EveryPathAnswered`, `OneMeansVulns`,
`ZeroMeansMonitored`, `ShownMeansStored`: that results, exit code and the server agree whatever
failed. `EveryEntityReported`, `OutcomeAgrees`: the same for `snyk fix`; both exempt runs that have pip and Poetry
projects at once, in which one plugin's results replace the other's (`PluginReturns`). `FixedIsFixed`: what the report
claims is on disk; it exempts a file that another path has too (`SharesFile`, finding `snyk_fix_paths`) and
a file that is required under a text which is the path, from the directory of the scan, of another file that is found
(`HasNamesake`): the namesake is taken for seen, and what it should have led to is not upgraded. `OwnRulesWhenAlone`, `CacheIsRemoved`, `ReportIsExact`: two runs of
`snyk iac test`, of which either may fail or be killed anywhere. While two overlap the code promises nothing about the rules (the directory has one name for all), so the first
exempts runs that met another or found the directory there; the second what a run that was killed, or whose removal
failed half-way, has left; the third asks only of runs that had the right rules, and leaves open which of several
resources of one name in a plan is evaluated. `DecisionsCarried`: from an answer to the policy and the disk, over groups, callbacks, tasks and a concurrent
upgrade. It exempts the paths no stage asks about (`NeverAsked`: a license that has a patch and no upgrade, and a path on which only a
dependency below the direct one can be upgraded), whoever starts from scratch (finding `wizard_from_scratch`), a path whose patch was chosen under the id of another vulnerability (`UnderOtherId`: the rule is
written for that one), one that gets a rule without having been patched because the ids of a group go with each of its
routes (`ByNamesake`) and, on the disk, one whose dependency was installed anew at the same time (`Upgraded`: the
policy then says patched though the file may not be). `DependenciesKept`: a dependency that is missing in the end was told of;
it exempts runs that told of a failed install, and package.json, not node_modules, when both `npm install` ran.
Where a property exempts what goes wrong in the code, the hazard in `PROJECT.json` names no property and its note says so. `CommandsEnd` is their liveness.

Deadlock is checked in `protect` and `legacy_patch`, where somebody can always start another run or reinstall; in the
others the system is one command, which stops.

## Fairness

Each specification that claims liveness has weak fairness of the program's own steps as a whole: an awaited request is
answered or times out (`lib/request` and `needle` do, and a failed request is an answer here), a synchronous loop goes on,
and node's event loop runs a callback that is ready. Nothing is assumed of a single step, so no choice between steps is forced. Starting a
run, dying, reinstalling, editing and unexpected errors have none. `CliMain` adds weak fairness of `ServerFinishes`:
each job ends, ready or failed.

- `RunsEnd` (`LegacyPatch`): a started run ends, and so do its promise chains.
- `SnykProtect` states none: `@snyk/protect/http.ts:19` opens its requests without a timeout, so a download that is never
  answered keeps the run for ever. What such a run leaves is `FetchedBeforeWriting`: every file as it was.
- `RunEnds` (`CliMain`): `<>(pc = "done" \/ job.state = "failed")`. The second half is what the code does: a job whose
  status says that it failed is polled for ever.
- `CommandsEnd` (`Wizard`): `snyk auth` ends once it has begun, and the tasks of the wizard do. `Wizard` has weak
  fairness of the steps of `auth` (requests have a timeout, the wait of a second passes) and of the wizard's own steps
  (npm ends, patches do); a person who logs in or answers has none, so a question may stay open for ever.
- `IacTest` states none: its properties are about what is left and shown.
- `FixEnds` (`SnykFix`): `<>(pc = "done" \/ MisspeltCycle)`. Requirements files that require each other in a circle are
  followed for ever if each of the directives is spelled otherwise than the path the file is kept under (`./x.txt`, or any
  name in a directory other than that of the scan), since the text of a directive is compared with normalised paths.

## The proofs

Thirty theorems in eight modules, for every value of the constants that the modules' assumptions allow. TLC evaluates
each assumption on the runs. Together they state every invariant, the action property and the refinement that the passing
runs check; the runs show them on small instances, and that they are not true for lack of interesting states. Each module
is laid out alike: lemmas about the operators of the model, then for each inductive invariant what it consists of, a
lemma per action or group of actions that it is kept, and the theorems. The provers have no induction on naturals that
takes a formula; where one is needed, the proof takes the least counterexample (`Least`, from the well-foundedness of `<`).

**`SnykProtectProofs`** - `IInv` is inductive. None of the properties is alone: that a flag tells the truth depends
on what lies between the two writes (`EditIsUnmarked`), that success means marked depends on every item of the loops
being either still ahead or done (`WorkIsAccounted`), which depends on every patch being there when the loops start
(`RequestsAreAccounted`, `PatchesAreOffered`); that a file is patched once more only after an interruption, on
unflagged patches having been forgotten by one (`UnflaggedWasForgotten`). There is one lemma per action (`OpenTargetInv`,
`WriteTargetInv`, …), and `NextInv` puts them together. From it: `TypeCorrect`, `FlagsTellTheTruth`, `LossesAreBounded`,
`PatchesAreBounded`, `DownloadsComeFirst`, `SuccessIsMarked`; `MarksFreeze` (an action property);
`RunsImplementPatchedDisk`, the refinement, in which each write but the last stutters.

**`CliProofs`** - `TInv` is the bookkeeping of the loops: the type of every variable and which of them is in use at each
`pc`. `CliTypes` follows. `MonitoredIsStored` needs `SInv`: a monitor job that is ready left its snapshot before any
poll sees it. `ExitOneMeansVulns` needs `VInv`: the verdict is reached once, from the results that are shown.
`ExitZeroMeansMonitored` needs `MInv`: each path behind the loop was scanned and every project found there is stored,
still in the queue, or there is an error among the results; and an error stays. `EachPathIsAnswered` needs `AInv`: the
results stand in the order of the paths and belong to paths behind the loop (`InPathOrder`, `AllBehind`), each of these
has one error or a result for each project (`Answered`), and of the path being tested what has been got and what is
still queued make up its projects, in their order (`GotThenQueued`).

**`IacProofs`** - any number of runs in one directory, any bundles, any number of failures. `TInv` is typing together with
what the steps rely on: the paths are counted against the results, who is not extracting writes nothing, a file is only
open while the directory is there, and what is torn is being written unless somebody was interrupted. It needs
`PhaseIsAsked`: only who has custom rules extracts any. `IacTypes` follows. `CacheRemoved` needs `SomebodyRemoves`: a
directory that is there, and was not left behind by a death or a failed removal, has a run inside of `test()`, which
every error leaves by its `finally`. `OwnRulesEvaluated` needs `OwnInv`, which says phase by phase what a run that was never disturbed
finds in the directory: nothing when it begins; of the archive of custom rules only its own files, each of an engine that
Snyk's archive overwrites or of "custom"; while Snyk's is extracted, foreign files only where an entry is still to come; and
then its own. Each phase's part is what the first step of the next one needs.

**`IacReportProofs`** - `ReportsAreExact`, from `ReportInv`: each result so far tells of its path what the files break under
the engines the run has (`Told`), what could not be parsed of the last path is told (`FailuresTold`), and the verdict is
that of the results. What was told stays true because an engine is built once and then kept (`EnginesStay`): the
directory may change under the run, the engines it has built do not.

**`PatchStringProofs`** - `TInv` places the loop: it moves one line on with every line of the diff. `OutsideOfHunk`
needs `OInv`, that what is above the hunk and what is below the line the loop is at are the lines of the original
(`HeadKept`, `TailKept`, the latter counted from the end). `InsertionsAreExact` needs `EInv` of diffs that remove nothing:
the lines before `next` fit (`FitSoFar`), they are written where they belong (`Written`), the rest of the file follows
them (`Following`), it is longer by the lines added (`Grown`), and who threw met a line that does not fit (`ThrewHere`).

**`LegacyPatchProofs`** - `TInv` gives `PatchTypes`; `BackupIsOneStepBack` is inductive itself, with it
(`BackupsAreOneStepBack`). `DiffIsAppliedOnce` and `DiffCanBeTakenBack` speak of a vulnerability that nothing disturbs
(`Undisturbed`: no other diff for its package, and no death that left its flag in `spoilt`), so their invariant does. `PInv` says of
each of those that its files are as installed, or hold this diff or a part of it and then have an `.orig` that is as
installed (`OnlyThis`); that if one of them is not as installed there is a flag, or its flag is about to be written, and
the flag is only on its way once the package has been dealt with (`FlagKept`, `FlagLate`); that what the chain has listed
are all its backups (`AllListed`); and that a run that goes well leaves the diff where it belongs (`HasIt`). A death keeps
all that, or it spoils the flag, and what is spoilt stays so until the package is reinstalled (`KilledKeepsOne`, `SpoiltStays`). It rests on `HInv`: every
package is taken once, a chain only lists files of its own directory, what failed is told.

**`FixProofs`** - `TInv` has the types and where the reader of requirements files is: every text it holds is of a file that
exists, kept under its normalised path (`ReaderOK`); `FixTypes` follows. `RInv` is the account: the projects of a handler are still to do, failed or
succeeded, and no two of these (`Accounts`), and what a plugin shows is what its handlers have answered (`Collected`);
from it `FixReportsEveryEntity` and `FixOutcomeAgrees`. `FixedIsReallyFixed` needs `ToolInv`, that pipenv and Poetry have installed
what they are said to have, and `DInv` for requirements files: what was read of a file is on the disk until its turn
comes (`InStep`); every file found leads only to files that are found or coming, unless a namesake hides one
(`Searching`); files whose turn has been are rid of the old versions (`Upgrading`); and a file in the cache was fixed with
the entity the cache names (`Remembered`). The claims of earlier entities last because no step ever brings an old version
back (`Better`), and pinning never writes an old one.

**`WizardProofs`** - first the questions: the order of paths is total, groups do not touch, no two questions are the same.
`QInv` is the dialogue: all questions of earlier stages are behind, and each question that is behind has one answer, or
its group's answer says why it was passed (`AskedInv`). So answers decide each path found (`DecisionsAnswered`), and the
tasks are what was decided (`IgnoredAre`, `UpdatedAre`, `PatchesAre`). `FlowInv` is the course of the tasks: none before the dialogue
ends, nothing done before they exist, all done when the policy is written. `PolicyInv` says what the policy holds at each
phase, `PatchInv` that a path which has left the queue is reported and on the disk, or an error is kept, or its dependency
is upgraded; `UpgradeInv` that no other dependency is touched, that package.json and node_modules agree unless both `npm
install` are to run, and that an install which is done has installed. `AuthInv` is the bookkeeping of `snyk auth`. From these `WizardTypes`, `DecisionsAreCarried` and
`DependenciesAreKept`.

**Assumptions.** Types aside (a catalogue offers sequences of diffs, bounds are naturals, …):

- `LinesAssumption` (`PatchString`): no text is the blank one, and the lines of a diff are of the five kinds of the format.
- `ParametersAssumption` (`LegacyPatch`): the value that stands for "no backup" is not the text of a file; where a text is cut
  off is told apart from the diffs in it. Which diffs fit which texts is left open (`Clashes`).
- `CliAssumption` (`CliRun`): the bounds are positive, and polls are counted further than `MaxAttempts`.
- `FileAssumption`, `PkgAssumption` (`Requirements`): a path is a sequence of names that is not empty.
- `PathAssumption` (`Requirements`): a path that was made relative to a directory, joined to it, is that path again.
- `FixAssumption` (`FixRun`): what can be pinned are issues; a manifest is read by its own package manager; the directories
  have an order. Nothing is assumed of what files require: any text, of a file that exists or not.
- `TreeAssumption` (`IacFiles`): no two files of a path have one name; a Terraform file is one document.
- `IacAssumption` (`IacCache`): Snyk's archive has files of each engine a custom one may bring files of, besides "custom",
  and none of "custom"; what a registry has pulled is an archive; paths are those of `Tree`.
- `ListAssumption` (`WizardPrompts`): the server lists a vulnerability once for each route to it, a route determines the
  direct dependency it begins with, and that is of one kind.
- `WizardAssumption` (`Wizard`): projects have paths of the list, package.json has versions, policies have rules.
- `AttemptsAssumption` (`Auth`): there is an attempt.

Nothing is assumed of the environment besides what the actions say.

**Only model-checked**: liveness (`RunsEnd`, `RunEnds`, `FixEnds`, `CommandsEnd`), which is
beyond the prover, and the disagreements below, which are counterexamples. What a recursive function computes is not
proved for every input: the groups of patches are shown to be apart whatever `GroupKeys` returns. Where the model can say
the same without recursion it does: `Reach` is the least set closed under `Required`, which the proofs can use.

## Where code and documents disagree

Each is a run whose one property states the document, test or assertion, and which TLC violates; `PROJECT.json`
(`findings`) has the lines.

| Run | What it shows |
|---|---|
| `patch_string_compatible` | README: a standalone replacement for `snyk protect`. After a removed line the loop skips the next line of the file, so a fitting diff throws or lands a line too low |
| `cli_polling` | the code's own error: `Exceeded Polling maxAttempts`. The attempts are counted in a copy that is thrown away |
| `cli_exit` | help: 0 means no vulnerabilities found. `snyk test --unmanaged` ends with 0 whatever it found |
| `snyk_fix_paths` | comment and glossary: fixes belong to one project and its workspace. The cache is keyed by the relative name and shared by all workspaces |
| `wizard_from_scratch` | the wizard's question: start from scratch, or update the policy. Starting over only lets the test ignore the old rules; the new ones are merged onto them and saved |

Met while modelling, part of the models and without a run of their own: with `--json --fail-on` a failed path and
vulnerabilities without a fix end with 0, in text mode with the error; exit code 3 is decided by a text in the message
although other paths had vulnerabilities; `snyk test --yarn-workspaces` without a workspace yields no result and 0; an
answer 200 with `ok: false` for a container is shown as an error and counted as success (`refused`); pip and Poetry
results replace each other; of two diffs of one file `@snyk/protect` applies the first, since the flag is per file, though
its README promises each patch; without `--json`, one path that fails keeps the results of the others out of
`--json-file-output`; `snyk iac test` tells of unparsable files of the last path only; restoring for one vulnerability in `lib/protect` takes back what another has done to
the package, and both are recorded; after a death in the middle of a copy the next run puts the cut-off copy in the place of
the file; members of a group of upgrades are asked about also after one of them was upgraded, though the comment at `prompts.ts:694` says that
the wizard stops asking; a path whose group was patched under another vulnerability's id gets no rule under its own, and
a path that was not patched may get one, since every id of a group is recorded for every route of it; a license with a
patch and no upgrade is asked about in no stage, nor is a path on which only a dependency below the direct one is to be
installed anew; two `npm install` side by side may lose one's entry in package.json.

## What is not modelled

`PROJECT.json` (`components`) lists every part with its reason. In short: the request layer, parsers, plugins,
formatters, detection and options are functions from text to text without state between calls; containers, Snyk Code
and policies are thin layers over external packages, which the modules see as "answers or throws"; the remote flow of
infrastructure as code sends each file to the server and shows the answer; analytics, spinner, alerts and notifications
influence no decision. Within the components marked `partly`: `main` without the modes and the commands that are not test
or monitor; the plugin scan without what a plugin does inside; `@snyk/fix` without formatting of the report; the parsers
of infrastructure as code without the external libraries and generated code that read the text.

## Plan

Every component that decides something is modelled, and every safety property of the runs is proved. What would come next:

1. **Abstract specifications** of `snyk fix` and of the wizard's tasks, as `PatchedDisk` is one of `@snyk/protect`: an entity
   goes from vulnerable to fixed, failed or skipped in one step; a decision becomes a rule and a patch in one step. The
   invariants `RInv`, `DInv`, `PatchInv` and `PolicyInv` are what the refinement proofs need.
2. **Around the disagreements**: for each finding the widest condition under which the code does what the document says,
   checked by TLC, then proved (for instance which diffs that remove lines `patchString` still applies as they are meant).
3. **Theorems about the pure parts**: that `FormatScanResults` tells each broken rule once and `FilterIgnoredIssues` removes only what
   the policy names.
4. Liveness stays with TLC.
