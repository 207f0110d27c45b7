------------------------------ MODULE IacCache ------------------------------
(***************************************************************************)
(* The directory .iac-data of the working directory, which every           *)
(* `snyk iac test` that runs there fills with rules, reads its engines     *)
(* from and removes.  Of an engine's two files (the WASM policy and its    *)
(* data) the pair is kept: while it is being written it is torn.           *)
(***************************************************************************)
EXTENDS IacFiles, FiniteSets

CONSTANTS
  Proc,        \* processes in one working directory
  Commands(_), \* the command lines and organisations of a process
  Bundles,     \* name of an archive of rules -> [readable, entries, rules]
  MaxFailures, \* outside failures, over all processes
  None

VARIABLES
  pc,        \* where each process is
  command,   \* its options and the settings of its organisation
  at,        \* its current path
  dir,       \* .iac-data
  job,       \* what it is writing into .iac-data
  engines,   \* its policyEngineCache
  results,   \* for each of its paths what is to be shown
  scanFailures, \* iacScanFailures: files that could not be parsed
  verdict,
  failures,  \* outside failures so far
  disturbed, \* history: processes that were not alone in the directory
  left       \* history: somebody was killed or could not remove the directory

runVars == <<command, at, engines, results, scanFailures, verdict>>
vars == <<pc, dir, job, failures, disturbed, left, runVars>>

TARBALL == "tarball"
Torn    == "torn"
Slot    == Engine \cup {TARBALL}
NoDir   == [exists |-> FALSE, slots |-> [s \in Slot |-> None]]
NoJob   == [bundle |-> None, entries |-> <<>>, open |-> "no"]

(* Of every engine a bundle of custom rules may bring files of, but their  *)
(* own, Snyk's has files; what a registry has pulled is a bundle.          *)
ASSUME IacAssumption ==
  /\ MaxFailures \in Nat
  /\ "snyk" \in DOMAIN Bundles /\ {None, Torn} \cap DOMAIN Bundles = {} /\ None # Torn
  /\ \A b \in DOMAIN Bundles :
       /\ Bundles[b].entries \in Seq(Engine)
       /\ ToSet(Bundles[b].entries) \subseteq ToSet(Bundles["snyk"].entries) \cup {"custom"}
  /\ "custom" \notin ToSet(Bundles["snyk"].entries)
  /\ \A p \in Proc : \A c \in Commands(p) :
       c.paths \in Seq(DOMAIN Tree) /\ c.registry \in DOMAIN Bundles \cup {None}

Path(p)   == command[p].paths[at[p]]
Source(p) == IF command[p].registry # None THEN command[p].registry ELSE command[p].rules
Custom(p) == Source(p) # None

(* The processes inside of test(), which ends by removing the directory.   *)
Inside(p) == pc[p] \notin {"shim", "done", "killed"}

(* createIacDir.                                                           *)
Created(d) == [d EXCEPT !.exists = TRUE]

Write(bundle, entries) == [bundle |-> bundle, entries |-> entries, open |-> "no"]

(* Something outside fails.                                                *)
Failing == failures < MaxFailures /\ failures' = failures + 1

(* Mutant of Jobs: what others are writing comes back.                     *)
JobsKept(p, kept) == [job EXCEPT ![p] = NoJob]

(* What others are writing into a file that is removed goes nowhere.       *)
Jobs(p, kept) ==
  [q \in Proc |->
     IF q = p THEN NoJob
     ELSE IF job[q].open = "open" /\ Head(job[q].entries) \notin kept THEN [job[q] EXCEPT !.open = "lost"]
     ELSE job[q]]

(* cleanLocalCache, at the end of test() however it ends: rimraf either    *)
(* removes everything or fails half-way, which is not told. there says     *)
(* that there is a directory.                                              *)
CleanLocalCache(p, there) ==
  \/ /\ dir' = NoDir /\ job' = Jobs(p, {})
     /\ UNCHANGED <<failures, left>>
  \/ /\ there /\ Failing /\ left' = TRUE
     /\ \E kept \in {{}, {s \in Slot : dir.slots[s] # None}} :
          /\ dir' = [exists |-> TRUE, slots |-> [s \in Slot |-> IF s \in kept THEN dir.slots[s] ELSE None]]
          /\ job' = Jobs(p, kept)

Error(reason) == [error |-> reason, issues |-> <<>>]

LeavePath(p, result) ==
  /\ results' = [results EXCEPT ![p] = Append(@, result)]
  /\ at' = [at EXCEPT ![p] = @ + 1]
  /\ pc' = [pc EXCEPT ![p] = "shim"]
  /\ UNCHANGED <<command, engines, verdict, disturbed>>

(* Mutant of Throw: an error leaves the directory where it is.             *)
ThrowKeeping(p, reason) ==
  /\ LeavePath(p, Error(reason))
  /\ job' = [job EXCEPT ![p] = NoJob]
  /\ UNCHANGED <<dir, failures, left, scanFailures>>

(* An error anywhere in test(): `finally` removes the directory in the     *)
(* same turn, and the command goes on with the next path.                  *)
ThrowFrom(p, reason, there) ==
  /\ LeavePath(p, Error(reason))
  /\ CleanLocalCache(p, there)
  /\ UNCHANGED scanFailures

Throw(p, reason) == ThrowFrom(p, reason, dir.exists)

(* Mutant of Phases: the rules of --rules are extracted after Snyk's.      *)
PhasesSnykFirst(p) ==
  IF command[p].rules # None THEN <<"snyk", "custom">> ELSE IF Custom(p) THEN <<"custom", "snyk">> ELSE <<"snyk">>

(* initLocalCache: Snyk's rules are extracted after the custom ones.       *)
Phases(p) == IF Custom(p) THEN <<"custom", "snyk">> ELSE <<"snyk">>

(* customRulesPath names a file, of the person or pulled; what it holds is *)
(* read when it is extracted, whoever wrote it.                            *)
CustomRules(p) == IF command[p].registry # None THEN dir.slots[TARBALL] ELSE command[p].rules

Extract(p, phase) ==
  LET bundle == IF phase = "custom" THEN CustomRules(p) ELSE "snyk"
  IN  /\ pc' = [pc EXCEPT ![p] = phase]
      /\ job' = [job EXCEPT ![p] = Write(bundle, Bundles[bundle].entries)]

(* The beginning of initLocalCache, up to its first await: the directory   *)
(* is created.  A bundle that is not there, or no archive, is an error.    *)
InitLocalCache(p) ==
  IF Custom(p) /\ CustomRules(p) \notin DOMAIN Bundles THEN ThrowFrom(p, "rules", TRUE)
  ELSE /\ Extract(p, Phases(p)[1])
       /\ dir' = Created(dir)
       /\ UNCHANGED <<failures, left, disturbed, runVars>>

(* pull: the artefact is written into the directory...                     *)
Pull(p) ==
  /\ pc[p] = "pull"
  /\ dir' = Created(dir)
  /\ pc' = [pc EXCEPT ![p] = TARBALL]
  /\ job' = [job EXCEPT ![p] = Write(command[p].registry, <<TARBALL>>)]
  /\ UNCHANGED <<failures, left, disturbed, runVars>>

(* ...and is then the bundle initLocalCache is called with.                *)
Pulled(p) == pc[p] = TARBALL /\ job[p].entries = <<>> /\ InitLocalCache(p)

(* tar opens the file of the next entry.  If the directory is gone, tar    *)
(* passes over the entry or gives up; writing the artefact fails.          *)
OpenEntry(p) ==
  /\ job[p].entries # <<>> /\ job[p].open = "no"
  /\ IF dir.exists
     THEN /\ dir' = [dir EXCEPT !.slots[Head(job[p].entries)] = Torn]
          /\ job' = [job EXCEPT ![p].open = "open"]
          /\ UNCHANGED <<pc, failures, left, disturbed, runVars>>
     ELSE \/ /\ pc[p] # TARBALL
             /\ job' = [job EXCEPT ![p].entries = Tail(@)]
             /\ UNCHANGED <<pc, dir, failures, left, disturbed, runVars>>
          \/ Throw(p, "write")

CloseEntry(p) ==
  /\ job[p].open # "no"
  /\ dir' = IF job[p].open = "lost" THEN dir
            ELSE [dir EXCEPT !.slots[Head(job[p].entries)] = job[p].bundle]
  /\ job' = [job EXCEPT ![p].open = "no", ![p].entries = Tail(@)]
  /\ UNCHANGED <<pc, failures, left, disturbed, runVars>>

(* The same for an error that comes from outside.                          *)
FailAndClean(p, reason) ==
  /\ Failing /\ LeavePath(p, Error(reason))
  /\ dir' = NoDir /\ job' = Jobs(p, {})
  /\ UNCHANGED <<left, scanFailures>>

(* The registry, the manifest or the layer; 401, 404 and so on are told    *)
(* apart in the message only.                                              *)
PullFails(p) == pc[p] \in {"pull", TARBALL} /\ FailAndClean(p, "pull")

(* The download, an archive or the disk.                                   *)
ExtractFails(p) == pc[p] \in {"custom", "snyk"} /\ FailAndClean(p, "extract")

Unreadable(p) ==
  /\ pc[p] = "custom" /\ job[p].bundle \in DOMAIN Bundles /\ ~Bundles[job[p].bundle].readable
  /\ Throw(p, "rules")

(* isValidBundle only asks whether the files are there.                    *)
IsValidBundle == dir.slots["custom"] # None

Extracted(p) ==
  /\ pc[p] \in {"custom", "snyk"} /\ job[p].entries = <<>>
  /\ IF pc[p] = "custom" /\ ~IsValidBundle THEN Throw(p, "rules")
     ELSE /\ IF pc[p] = Last(Phases(p))
             THEN pc' = [pc EXCEPT ![p] = "load"] /\ job' = [job EXCEPT ![p] = NoJob]
             ELSE Extract(p, Phases(p)[2])
          /\ UNCHANGED <<dir, failures, left, disturbed, runVars>>

CacheStep(p) ==
  \/ Pull(p) \/ Pulled(p) \/ PullFails(p)
  \/ OpenEntry(p) \/ CloseEntry(p) \/ ExtractFails(p) \/ Unreadable(p) \/ Extracted(p)
=============================================================================
