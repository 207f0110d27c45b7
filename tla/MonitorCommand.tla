--------------------------- MODULE MonitorCommand ---------------------------
(***************************************************************************)
(* `snyk monitor` for the package managers: the paths are scanned one      *)
(* after the other and each project found is sent to the server, which     *)
(* keeps a snapshot.  Whatever fails becomes a result that is not ok, and  *)
(* the loops go on.                                                        *)
(***************************************************************************)
EXTENDS PluginScan

Monitoring == command = "monitor" /\ options.ecosystem = "none"

MonitorScanFails ==
  /\ Monitoring /\ pc = "scanning" /\ Here.phase \in {"unsupported", "threw"}
  /\ results' = Append(results, Result(at, 0, ScanError))
  /\ LeavePath
  /\ UNCHANGED <<command, options, scan, job, stored, verdict, exitCode, saved>>

(* Mutant of CollectProjects: manifests that could not be scanned are only *)
(* warned about, as `snyk test` does.                                      *)
CollectProjectsOnly ==
  /\ Monitoring /\ pc = "scanning" /\ Here.phase = "done"
  /\ SendFound
  /\ UNCHANGED <<command, options, scan, job, results, stored, verdict, exitCode, saved>>

(* The manifests --all-projects could not scan are results of their own.   *)
CollectProjects ==
  /\ Monitoring /\ pc = "scanning" /\ Here.phase = "done"
  /\ results' = results \o [n \in 1..Here.failed |-> Result(at, 0, "error")]
  /\ SendFound
  /\ UNCHANGED <<command, options, scan, job, stored, verdict, exitCode, saved>>

Report(kind) ==
  /\ results' = Append(results, Result(Head(queue)[1], Head(queue)[2], kind))
  /\ IF Len(queue) = 1 THEN LeavePath ELSE queue' = Tail(queue) /\ UNCHANGED <<at, pc, got>>

HasGraph == Here.found[Head(queue)[2]]

(* monitorDepGraph: the server stores the graph that is put.               *)
Snapshot == HasGraph /\ stored' = stored \cup {Head(queue)}

(* monitorDepTree and monitorDepGraphFromDepTree, for a plugin that gives  *)
(* a tree, are alike.                                                      *)
ProjectMonitored ==
  /\ Monitoring /\ pc = "sending"
  /\ Snapshot
  /\ Report("ok")
  /\ UNCHANGED <<command, options, scan, job, verdict, exitCode, saved>>

(* No tree or graph, tags or attributes that are not valid, or a request   *)
(* that is refused.                                                        *)
ProjectRefused ==
  /\ Monitoring /\ pc = "sending"
  /\ stored' = stored
  /\ Report("error")
  /\ UNCHANGED <<command, options, scan, job, verdict, exitCode, saved>>

(* The answer is lost after the server has stored the project.             *)
AnswerLost ==
  /\ Monitoring /\ pc = "sending"
  /\ Snapshot
  /\ Report("error")
  /\ UNCHANGED <<command, options, scan, job, verdict, exitCode, saved>>

(* processJsonMonitorResponse and the text output fail alike.              *)
ConcludeMonitor ==
  /\ Monitoring /\ pc = "path" /\ at > Paths
  /\ verdict' = IF None(ErrorKind) THEN Returned(FALSE)
                ELSE Threw(IF None({"unsupported"}) THEN "error" ELSE "unsupported")
  /\ pc' = "handling"
  /\ UNCHANGED <<command, options, at, scan, queue, got, job, results, stored, exitCode, saved>>

MonitorStep ==
  \/ MonitorScanFails \/ CollectProjects \/ ProjectMonitored \/ ProjectRefused \/ AnswerLost
  \/ ConcludeMonitor
=============================================================================
