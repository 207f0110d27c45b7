---------------------------- MODULE EcosystemFlow ---------------------------
(***************************************************************************)
(* The flow of `snyk test --unmanaged`, `snyk monitor --unmanaged` and     *)
(* `snyk container monitor`: all paths are scanned before the first scan   *)
(* result is sent.  A docker scan is answered at once; for an unmanaged    *)
(* one the server hands out a token and the client polls until the job is  *)
(* ready.                                                                  *)
(***************************************************************************)
EXTENDS CliRun

Unlimited == MaxPolls + 1 \* maxAttempts = Infinity, when none was sent

Throws == verdict' = Threw("error") /\ pc' = "handling" /\ results' = <<>> /\ queue' = <<>>

(* One plugin.scan; any that throws ends the command.                      *)
EcoScan ==
  /\ pc = "ecoscan" /\ at <= Paths
  /\ \/ /\ \E n \in 0..MaxProjects : queue' = queue \o [i \in 1..n |-> <<at, i>>]
        /\ at' = at + 1
        /\ UNCHANGED <<pc, verdict, results>>
     \/ Throws /\ UNCHANGED at
  /\ UNCHANGED <<command, options, scan, got, job, stored, exitCode, saved>>

EcoScansDone ==
  /\ pc = "ecoscan" /\ at > Paths
  /\ pc' = "ecosend"
  /\ UNCHANGED <<command, options, at, scan, queue, got, job, results, stored, verdict, exitCode, saved>>

Entry(kind) == Append(results, Result(Head(queue)[1], Head(queue)[2], kind))

GoOn(kind) == results' = Entry(kind) /\ queue' = Tail(queue) /\ pc' = "ecosend" /\ UNCHANGED verdict

(* Mutant of RequestFails: the job is not forgotten.                       *)
RequestFailsHolding(isClientError) ==
  /\ job' = job
  /\ IF isClientError /\ command = "monitor" THEN Throws ELSE GoOn("error")

(* Mutant of RequestFails: what failed while testing is asked again.       *)
RequestFailsRetrying(isClientError) ==
  /\ job' = NoJob
  /\ IF command = "monitor"
     THEN IF isClientError THEN Throws ELSE GoOn("error")
     ELSE pc' = "ecosend" /\ UNCHANGED <<queue, results, verdict>>

(* A 4xx ends `monitor`; every other error, and any while testing, becomes *)
(* an entry and the loop goes on.                                          *)
RequestFails(isClientError) ==
  /\ job' = NoJob
  /\ IF isClientError /\ command = "monitor" THEN Throws ELSE GoOn("error")

(* monitorDependencies: the answer of a docker scan.                       *)
SyncAnswered ==
  /\ pc = "ecosend" /\ queue # <<>> /\ options.ecosystem = "docker"
  /\ \/ GoOn("ok") /\ stored' = stored \cup {Head(queue)} /\ UNCHANGED job
     \/ GoOn("refused") /\ UNCHANGED <<stored, job>>
     \/ \E isClientError \in BOOLEAN : RequestFails(isClientError) /\ UNCHANGED stored
     \/ RequestFails(FALSE) /\ stored' = stored \cup {Head(queue)}
  /\ UNCHANGED <<command, options, at, scan, got, exitCode, saved>>

(* requestTestPollingToken, requestMonitorPollingToken.                    *)
TokenAnswered ==
  /\ pc = "ecosend" /\ queue # <<>> /\ options.ecosystem = "cpp"
  /\ \/ /\ \E limit \in 0..MaxAttempts \cup {Unlimited} :
             job' = [state |-> "running", limit |-> limit, attempts |-> 0, polls |-> 0]
        /\ pc' = "polling"
        /\ UNCHANGED <<queue, results, verdict>>
     \/ \E isClientError \in BOOLEAN : RequestFails(isClientError)
  /\ UNCHANGED <<command, options, at, scan, got, stored, exitCode, saved>>

(* The server, in its own time; a monitor job ends with a snapshot.  A job *)
(* that fails says so in its status, which no poll looks at.               *)
ServerFinishes ==
  /\ job.state = "running"
  /\ \/ /\ job' = [job EXCEPT !.state = "ready"]
        /\ stored' = IF command = "monitor" THEN stored \cup {Head(queue)} ELSE stored
     \/ job' = [job EXCEPT !.state = "failed"] /\ stored' = stored
  /\ UNCHANGED <<command, options, pc, at, scan, queue, got, results, verdict, exitCode, saved>>

(* Mutant of PollReady: isMonitored is not looked at.                      *)
PollReadyAnyway ==
  /\ pc = "polling"
  /\ \E kind \in IF command = "monitor" THEN {"ok"} ELSE VulnKind \cup {"ok"} : GoOn(kind)
  /\ job' = NoJob
  /\ UNCHANGED <<command, options, at, scan, got, stored, exitCode, saved>>

PollReady ==
  /\ pc = "polling" /\ job.state = "ready"
  /\ \E kind \in IF command = "monitor" THEN {"ok"} ELSE VulnKind \cup {"ok"} : GoOn(kind)
  /\ job' = NoJob
  /\ UNCHANGED <<command, options, at, scan, got, stored, exitCode, saved>>

(* delayNextStep counts the attempt in its own copy, and the next poll is  *)
(* given the old number.                                                   *)
PollPending ==
  /\ pc = "polling" /\ job.state \in {"running", "failed"}
  /\ IF job.attempts + 1 > job.limit
     THEN RequestFails(FALSE)
     ELSE /\ job' = [job EXCEPT !.polls = IF @ < MaxPolls THEN @ + 1 ELSE @]
          /\ UNCHANGED <<pc, queue, results, verdict>>
  /\ UNCHANGED <<command, options, at, scan, got, stored, exitCode, saved>>

PollFails ==
  /\ pc = "polling"
  /\ \E isClientError \in BOOLEAN : RequestFails(isClientError)
  /\ UNCHANGED <<command, options, at, scan, got, stored, exitCode, saved>>

(* A test returns whatever it found; the output of monitor is thrown when  *)
(* there is an error among the results.                                    *)
EcoConclude ==
  /\ pc = "ecosend" /\ queue = <<>>
  /\ verdict' = IF command = "test" THEN Returned(TRUE)
                ELSE IF None({"error"}) THEN Returned(FALSE) ELSE Threw("error")
  /\ pc' = "handling"
  /\ UNCHANGED <<command, options, at, scan, queue, got, job, results, stored, exitCode, saved>>

EcosystemStep ==
  \/ EcoScan \/ EcoScansDone \/ SyncAnswered \/ TokenAnswered \/ PollReady \/ PollPending \/ PollFails
  \/ EcoConclude
=============================================================================
