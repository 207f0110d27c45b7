------------------------------- MODULE CliMain ------------------------------
(***************************************************************************)
(* main(), runCommand() and handleError() around the commands: options are *)
(* validated, the command runs, its result is shown and saved or its error *)
(* is turned into an exit code.                                            *)
(***************************************************************************)
EXTENDS TestCommand, MonitorCommand, EcosystemFlow

EXIT_CODES == [VULNS_FOUND |-> 1, ERROR |-> 2, NO_SUPPORTED_PROJECTS_DETECTED |-> 3]

Init ==
  /\ command \in {"test", "monitor"} /\ options \in Options
  /\ command = "monitor" => ~options.failOn /\ ~options.failFast
  /\ options.ecosystem # "none" => ~options.failOn /\ ~options.failFast
  /\ options.ecosystem = "cpp" => options.scanType = "single"
  /\ options.ecosystem = "docker" => command = "monitor"
  /\ options.scanType # "allProjects" => ~options.failFast
  /\ pc = "start" /\ at = 1
  /\ scan = [p \in Path |-> NoScan] /\ queue = <<>> /\ got = <<>> /\ job = NoJob
  /\ results = <<>> /\ stored = {} /\ verdict = NoVerdict /\ exitCode = 0 /\ saved = FALSE

(* An option, a path or the credentials do not pass.                       *)
Refuse ==
  /\ pc = "start"
  /\ verdict' = Threw("error") /\ pc' = "handling"
  /\ UNCHANGED <<command, options, at, scan, queue, got, job, results, stored, exitCode, saved>>

(* validateUnsupportedOptionCombinations: a container is not looked for in *)
(* all the projects of a directory.                                        *)
UnsupportedCombination == options.scanType # "single" /\ options.ecosystem = "docker"

(* validateUnsupportedSarifCombinations: only `snyk test` has results to   *)
(* write to a file.                                                        *)
UnsupportedOutput == options.file /\ command # "test"

RunCommand ==
  /\ pc = "start" /\ ~UnsupportedCombination /\ ~UnsupportedOutput
  /\ pc' = IF options.ecosystem = "none" THEN "path" ELSE "ecoscan"
  /\ UNCHANGED <<command, options, at, scan, queue, got, job, results, stored, verdict, exitCode, saved>>

(* saveResultsToFile: its errors are only logged.                          *)
SaveResults == saved' = (options.file /\ verdict.file)

CommandReturned ==
  /\ pc = "handling" /\ verdict.how = "returned"
  /\ IF command = "test" THEN SaveResults ELSE UNCHANGED saved
  /\ pc' = "done"
  /\ UNCHANGED <<command, options, at, scan, queue, got, job, results, stored, verdict, exitCode>>

ExitCode ==
  IF verdict.vulns THEN EXIT_CODES.VULNS_FOUND
  ELSE IF verdict.unsupported THEN EXIT_CODES.NO_SUPPORTED_PROJECTS_DETECTED
  ELSE EXIT_CODES.ERROR

HandleError ==
  /\ pc = "handling" /\ verdict.how = "threw"
  /\ SaveResults
  /\ exitCode' = ExitCode
  /\ pc' = "done"
  /\ UNCHANGED <<command, options, at, scan, queue, got, job, results, stored, verdict>>

(* callHandlingUnexpectedErrors: an error outside the chain of promises    *)
(* ends the process at once.                                               *)
UnexpectedError ==
  /\ pc # "done"
  /\ exitCode' = EXIT_CODES.ERROR /\ pc' = "done" /\ job' = NoJob /\ verdict' = NoVerdict
  /\ UNCHANGED <<command, options, at, scan, queue, got, results, stored, saved>>

MainStep == Refuse \/ RunCommand \/ CommandReturned \/ HandleError

Step == MainStep \/ BeginPath \/ Inspect \/ TestStep \/ MonitorStep \/ EcosystemStep

Next == Step \/ ServerFinishes \/ UnexpectedError

(* A request is answered or times out and node runs what is ready; the     *)
(* server gets its jobs done.                                              *)
Spec == Init /\ [][Next]_vars /\ WF_vars(Step) /\ WF_vars(ServerFinishes)
-----------------------------------------------------------------------------
TypeOK ==
  /\ command \in {"test", "monitor"} /\ options \in Options
  /\ pc \in {"start", "path", "scanning", "sending", "ecoscan", "ecosend", "polling", "handling", "done"}
  /\ at \in 1..(Paths + 1)
  /\ \A p \in Path :
       /\ scan[p].phase \in {"none", "inspecting", "done", "unsupported", "threw"}
       /\ scan[p].left \in 0..MaxTargets /\ scan[p].failed \in 0..MaxTargets
       /\ scan[p].found \in Seq(BOOLEAN)
       /\ scan[p].phase = "inspecting" <=> scan[p].left > 0
  /\ queue \in Seq(Project)
  /\ pc \in {"sending", "polling"} => queue # <<>>
  /\ \A i \in DOMAIN results : results[i] \in [path: Path, nth: Nat, kind: ResultKind]
  /\ \A i \in DOMAIN got : got[i] \in [path: Path, nth: Nat, kind: ResultKind]
  /\ stored \subseteq Project
  /\ pc = "polling" <=> job.state # "none"
  /\ verdict.how \in {"none", "returned", "threw"}
  /\ exitCode \in 0..3 /\ saved \in BOOLEAN

(* Where the entries of a path stand.                                     *)
EntriesOf(p) == {i \in DOMAIN results : results[i].path = p}

OneError(p) ==
  \E i \in DOMAIN results : EntriesOf(p) = {i} /\ results[i].nth = 0 /\ results[i].kind \in ErrorKind

(* After b others the entries of p follow, in the order its plugins gave.  *)
AllProjects(p) ==
  \E b \in 0..Len(results) :
    /\ EntriesOf(p) = (b + 1)..(b + Len(scan[p].found))
    /\ \A i \in EntriesOf(p) : results[i].nth = i - b /\ results[i].kind \notin ErrorKind

Concluded == pc = "done" /\ verdict.how # "none"

(* Of each path `snyk test` shows, in the order of the command line, every *)
(* project its plugins returned, or one error and none of them.            *)
EveryPathAnswered ==
  Testing /\ Concluded /\ at > Paths =>
    /\ \A i, j \in DOMAIN results : i < j => results[i].path <= results[j].path
    /\ \A p \in Path : OneError(p) \/ AllProjects(p)

(* Exit code 1 means that vulnerabilities were found, that --fail-on does  *)
(* not forgive them, and that no path failed to be tested; with and        *)
(* without --json.                                                         *)
OneMeansVulns ==
  Testing /\ Concluded =>
    (exitCode = 1 <=>
       /\ \E i \in DOMAIN results : results[i].kind = "vulns" \/ (results[i].kind = "unfixable" /\ ~options.failOn)
       /\ \A i \in DOMAIN results : results[i].kind \notin ErrorKind)

(* When `snyk monitor` ends with 0 the server has a snapshot of everything *)
(* that was found at every path, and no manifest was left out.             *)
ZeroMeansMonitored ==
  Monitoring /\ pc = "done" /\ exitCode = 0 =>
    \A p \in Path :
      /\ scan[p].phase = "done" /\ scan[p].failed = 0
      /\ \A n \in DOMAIN scan[p].found : <<p, n>> \in stored

(* A project `snyk monitor` shows as monitored is one the server keeps.    *)
ShownMeansStored ==
  command = "monitor" =>
    \A i \in DOMAIN results : results[i].kind = "ok" => <<results[i].path, results[i].nth>> \in stored

(* The command comes to an end, whichever of its requests fail, unless the *)
(* server fails a job: that one is polled for ever.                        *)
RunEnds == <>(pc = "done" \/ job.state = "failed")

(* src/lib/polling/common.ts:18 'Exceeded Polling maxAttempts': a client   *)
(* does not wait more than maxAttempts times for one job.                  *)
PollsBounded == job.polls <= job.limit

(* help/commands-docs/_EXIT_CODES.md:5: "0: success, no vulns found".      *)
ZeroMeansNoVulns ==
  command = "test" /\ ~options.failOn /\ Concluded /\ exitCode = 0 =>
    \A i \in DOMAIN results : results[i].kind \notin VulnKind

=============================================================================
