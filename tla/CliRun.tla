------------------------------- MODULE CliRun -------------------------------
(***************************************************************************)
(* One run of `snyk test` or `snyk monitor` from the moment main() hands   *)
(* over to the command until it sets the exit code: the state main.ts, the *)
(* commands and the flows they call share.  A path, a manifest and a       *)
(* project are numbers; of an answer only its class is kept.               *)
(***************************************************************************)
EXTENDS Naturals, Sequences, FiniteSets, SequencesExt

CONSTANTS
  Paths,       \* paths on the command line
  MaxTargets,  \* manifests found below a path
  MaxProjects, \* projects the plugins find at one path
  MaxAttempts, \* the largest maxAttempts the server sends with a token
  MaxPolls     \* polls counted: more are not told apart

ASSUME CliAssumption ==
  /\ Paths \in Nat \ {0} /\ MaxTargets \in Nat \ {0} /\ MaxProjects \in Nat \ {0}
  /\ MaxAttempts \in Nat \ {0} /\ MaxPolls \in Nat /\ MaxPolls > MaxAttempts + 1

VARIABLES
  command,   \* "test" or "monitor"
  options,   \* the options the control depends on
  pc,        \* where the run is
  at,        \* the current path
  scan,      \* what getDepsFromPlugin learnt of each path
  queue,     \* <<path, project>> pairs that are still to be sent
  got,       \* test results of the current path
  job,       \* the asynchronous job being polled
  results,   \* what is to be shown, in order
  stored,    \* projects the server keeps a snapshot of
  verdict,   \* what the command returned or threw
  exitCode,
  saved      \* the JSON results were handed to the file writer

vars == <<command, options, pc, at, scan, queue, got, job, results, stored, verdict, exitCode, saved>>

Path    == 1..Paths
Project == Path \X (1..MaxProjects)

Options == [json: BOOLEAN, failOn: BOOLEAN, failFast: BOOLEAN, file: BOOLEAN,
            scanType: {"single", "allProjects", "yarnWorkspaces"},
            ecosystem: {"none", "cpp", "docker"}]

(* "unsupported": an error whose message says "Could not detect supported  *)
(* target files in"; "unfixable": only vulnerabilities without a fix;      *)
(* "refused": an answer 200 that is not ok.                                *)
ErrorKind  == {"error", "unsupported"}
VulnKind   == {"vulns", "unfixable"}
ResultKind == {"ok", "refused"} \cup VulnKind \cup ErrorKind

(* nth is 0 when the entry is about no project in particular.              *)
Result(p, n, k) == [path |-> p, nth |-> n, kind |-> k]

None(S) == \A i \in DOMAIN results : results[i].kind \notin S

NoVerdict == [how |-> "none", unsupported |-> FALSE, vulns |-> FALSE, file |-> FALSE]
Returned(file) == [NoVerdict EXCEPT !.how = "returned", !.file = file]
Threw(kind) == [NoVerdict EXCEPT !.how = "threw", !.unsupported = (kind = "unsupported")]

NoScan == [phase |-> "none", left |-> 0, found |-> <<>>, failed |-> 0]
NoJob  == [state |-> "none", limit |-> 0, attempts |-> 0, polls |-> 0]
=============================================================================
