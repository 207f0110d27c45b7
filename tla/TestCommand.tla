---------------------------- MODULE TestCommand -----------------------------
(***************************************************************************)
(* `snyk test` for the package managers: test() and below it snyk.test,    *)
(* executeTest, runTest, assemblePayloads and sendAndParseResults.  The    *)
(* paths are tested one after the other, each either yields the results of *)
(* all its projects or one error.                                          *)
(***************************************************************************)
EXTENDS PluginScan

Testing == command = "test" /\ options.ecosystem = "none"

(* Mutant of PathFails: the results before the error are kept.             *)
PathFailsKeeping(kind) ==
  /\ results' = Append(results \o got, Result(at, 0, kind))
  /\ LeavePath
  /\ UNCHANGED <<command, options, scan, job, stored, verdict, exitCode, saved>>

(* formatTestError: whatever went wrong is the one result of the path.     *)
PathFails(kind) ==
  /\ results' = Append(results, Result(at, 0, kind))
  /\ LeavePath
  /\ UNCHANGED <<command, options, scan, job, stored, verdict, exitCode, saved>>

TestScanFails ==
  /\ Testing /\ pc = "scanning" /\ Here.phase \in {"unsupported", "threw"}
  /\ PathFails(ScanError)

NoGraph == \E n \in DOMAIN Here.found : ~Here.found[n]

(* assembleLocalPayloads throws for --fail-fast, a project without a tree  *)
(* or graph, or a .snyk file that cannot be loaded.                        *)
AssembleFails ==
  /\ Testing /\ pc = "scanning" /\ Here.phase = "done"
  /\ \/ options.failFast /\ Here.failed > 0
     \/ Here.found # <<>>
  /\ PathFails("error")

Assemble ==
  /\ Testing /\ pc = "scanning" /\ Here.phase = "done"
  /\ ~NoGraph /\ ~(options.failFast /\ Here.failed > 0)
  /\ SendFound
  /\ UNCHANGED <<command, options, scan, job, results, stored, verdict, exitCode, saved>>

(* A path that is no directory is the name of a published package.         *)
AssembleRemote ==
  /\ Testing /\ pc = "path" /\ at <= Paths
  /\ queue' = <<<<at, 1>>>> /\ Learn([Scanned("done") EXCEPT !.found = <<TRUE>>])
  /\ pc' = "sending"
  /\ UNCHANGED <<command, options, at, got, job, results, stored, verdict, exitCode, saved>>

(* parseRes: what is left of the issues once the policy has been applied.  *)
ParsedKind == VulnKind \cup {"ok"}

Tested(kind) == Append(got, Result(Head(queue)[1], Head(queue)[2], kind))

PayloadTested ==
  /\ Testing /\ pc = "sending"
  /\ \E kind \in ParsedKind :
       IF Len(queue) = 1
       THEN results' = results \o Tested(kind) /\ LeavePath
       ELSE /\ got' = Tested(kind) /\ queue' = Tail(queue)
            /\ UNCHANGED <<results, at, pc>>
  /\ UNCHANGED <<command, options, scan, job, stored, verdict, exitCode, saved>>

(* The request fails, times out or is denied: the results of the path's    *)
(* other projects are lost.  403 "Feature not allowed" reads as a project  *)
(* that is not supported.                                                  *)
PayloadFails ==
  /\ Testing /\ pc = "sending"
  /\ \E kind \in ErrorKind : PathFails(kind)

Vulnerable == ~None(VulnKind)
Failed     == ~None(ErrorKind)
Forgiven   == options.failOn /\ None({"vulns"})

(* Mutant of JsonVerdict: an error does not take the place of VULNS.       *)
JsonVerdictVulnsFirst ==
  IF None(VulnKind \cup ErrorKind) \/ (Vulnerable /\ Forgiven) THEN Returned(TRUE)
  ELSE [how |-> "threw", unsupported |-> ~None({"unsupported"}), vulns |-> Vulnerable, file |-> TRUE]

(* With --json (or --sarif) --fail-on is asked before errors are.          *)
JsonVerdict ==
  IF None(VulnKind \cup ErrorKind) \/ (Vulnerable /\ Forgiven) THEN Returned(TRUE)
  ELSE [how |-> "threw", unsupported |-> ~None({"unsupported"}), vulns |-> ~Failed, file |-> TRUE]

TextVerdict ==
  IF Failed
  THEN [how |-> "threw", unsupported |-> ~None({"unsupported"}), vulns |-> FALSE, file |-> FALSE]
  ELSE IF ~Vulnerable \/ Forgiven THEN Returned(TRUE)
  ELSE [how |-> "threw", unsupported |-> FALSE, vulns |-> TRUE, file |-> TRUE]

ConcludeTest ==
  /\ Testing /\ pc = "path" /\ at > Paths
  /\ verdict' = IF options.json THEN JsonVerdict ELSE TextVerdict
  /\ pc' = "handling"
  /\ UNCHANGED <<command, options, at, scan, queue, got, job, results, stored, exitCode, saved>>

TestStep ==
  \/ TestScanFails \/ AssembleFails \/ Assemble \/ AssembleRemote
  \/ PayloadTested \/ PayloadFails \/ ConcludeTest
=============================================================================
