----------------------------- MODULE PluginScan -----------------------------
(***************************************************************************)
(* getDepsFromPlugin: what `snyk test` and `snyk monitor` learn of the     *)
(* projects at one path, through one plugin or, with --all-projects, one   *)
(* manifest after the other.  A project is TRUE when its plugin returned a *)
(* dependency tree or graph.                                               *)
(***************************************************************************)
EXTENDS CliRun

Here           == scan[at]
Scanned(phase) == [NoScan EXCEPT !.phase = phase]
Learn(s)       == scan' = [scan EXCEPT ![at] = s]

(* find() or detectPackageFile().  No manifest: NoSupportedManifestsFound. *)
FindTargets ==
  \E n \in 0..(IF options.scanType = "single" THEN 1 ELSE MaxTargets) :
    Learn(IF n = 0 THEN Scanned("unsupported")
          ELSE [Scanned("inspecting") EXCEPT !.left = IF options.scanType = "allProjects" THEN n ELSE 1])

(* A yarn workspace always has its tree.                                   *)
Plugin ==
  BoundedSeq(IF options.scanType = "yarnWorkspaces" THEN {TRUE} ELSE BOOLEAN,
             MaxProjects - Len(Here.found))

(* getMultiPluginResult throws when every manifest failed.                 *)
AfterInspection(s) ==
  IF s.left > 0 THEN s
  ELSE IF options.scanType = "allProjects" /\ s.found = <<>> THEN Scanned("threw")
  ELSE [s EXCEPT !.phase = "done"]

InspectSucceeds ==
  \E ps \in Plugin :
    Learn(AfterInspection([Here EXCEPT !.left = @ - 1, !.found = @ \o ps]))

(* Only --all-projects survives a plugin that throws.                      *)
InspectFails ==
  Learn(IF options.scanType = "allProjects"
        THEN AfterInspection([Here EXCEPT !.left = @ - 1, !.failed = @ + 1])
        ELSE Scanned("threw"))

Inspect ==
  /\ pc = "scanning" /\ Here.phase = "inspecting"
  /\ InspectSucceeds \/ InspectFails
  /\ UNCHANGED <<command, options, pc, at, queue, got, job, results, stored, verdict, exitCode, saved>>

(* A new path: what is checked before the scan may fail as well.           *)
BeginPath ==
  /\ pc = "path" /\ at <= Paths
  /\ pc' = "scanning"
  /\ FindTargets \/ Learn(Scanned("threw"))
  /\ UNCHANGED <<command, options, at, queue, got, job, results, stored, verdict, exitCode, saved>>

(* The next path, or the conclusion.                                       *)
LeavePath == at' = at + 1 /\ pc' = "path" /\ queue' = <<>> /\ got' = <<>>

(* The projects of the path are sent one after the other.                  *)
SendFound ==
  IF Here.found = <<>>
  THEN LeavePath
  ELSE /\ queue' = [n \in DOMAIN Here.found |-> <<at, n>>]
       /\ pc' = "sending" /\ UNCHANGED <<at, got>>

ScanError == IF Here.phase = "unsupported" THEN "unsupported" ELSE "error"
=============================================================================
