------------------------------ MODULE SnykFix -------------------------------
(***************************************************************************)
(* `snyk fix`: the paths are tested one after the other, what was found is *)
(* handed to fix(), its plugins and their handlers run concurrently, and   *)
(* the counts of the report decide how the command ends.                   *)
(***************************************************************************)
EXTENDS PipRequirements, PythonTools

Init ==
  /\ pc = "testing" /\ at = 1 /\ entities = <<>>
  /\ options \in [dryRun : BOOLEAN, sequential : BOOLEAN]
  /\ disk \in {d \in [1..Paths -> UNION {Trees[p] : p \in 1..Paths}] : \A p \in 1..Paths : d[p] \in Trees[p]}
  /\ installed = {} /\ failures = 0
  /\ phase = [h \in Handler |-> "idle"]
  /\ todo = [h \in Handler |-> {}] /\ changes = [h \in Handler |-> {}]
  /\ commands = [t \in Tool |-> <<>>]
  /\ visits = <<>> /\ provenance = <<>> /\ turn = 1 /\ cache = <<>>
  /\ handled = [h \in Handler |-> NothingHandled]
  /\ results = [p \in Plugin |-> NothingCollected]
  /\ running = {} /\ python = None /\ exceptions = {} /\ outcome = None

(* runSnykTestLegacy: a path that cannot be tested is only told about.     *)
TestPath ==
  /\ pc = "testing" /\ at <= Paths
  /\ at' = at + 1
  /\ \/ \E found \in Scan(at, disk[at]) :
          entities' = entities \o [i \in DOMAIN found |->
            [path |-> at, type |-> found[i].type, file |-> found[i].file,
             issues |-> found[i].issues, pins |-> found[i].pins]]
     \/ UNCHANGED entities
  /\ UNCHANGED <<pc, options, disk, installed, failures, phase, todo, changes, commands, readerVars, handled,
                 reportVars, outcome>>

(* fix, loadPlugin and the beginning of pythonFix.                         *)
StartFix ==
  /\ pc = "testing" /\ at > Paths
  /\ pc' = "fixing"
  /\ running' = Types \cap Plugin
  /\ exceptions' = Types \ Plugin
  /\ results' = [p \in Plugin |-> [results[p] EXCEPT !.skipped = NotHandled(p)]]
  /\ todo' = [h \in Handler |-> {i \in Projects(h) : Fixable(i)}]
  /\ phase' = [h \in Handler |-> IF Projects(h) = {} THEN "returned" ELSE "next"]
  /\ UNCHANGED <<testVars, disk, installed, failures, changes, commands, readerVars, handled, python, outcome>>

(* A handler returns, and pythonFix collects.                              *)
HandlerReturns(h) ==
  /\ phase[h] = "next" /\ todo[h] = {}
  /\ phase' = [phase EXCEPT ![h] = "returned"]
  /\ results' = [results EXCEPT ![PluginOf(h)].failed = @ \cup handled[h].failed,
                                ![PluginOf(h)].succeeded = @ \cup handled[h].succeeded]
  /\ UNCHANGED <<pc, testVars, disk, installed, failures, todo, changes, commands, readerVars, handled, running,
                 python, exceptions, outcome>>

(* Both plugins give their results under the key `python`, and the last to *)
(* return is the one that is kept.                                         *)
PluginReturns(p) ==
  /\ p \in running
  /\ \A h \in Handler : PluginOf(h) = p => phase[h] \in {"returned", "threw"}
  /\ running' = running \ {p}
  /\ python' = p
  /\ UNCHANGED <<pc, testVars, disk, installed, failures, phase, todo, changes, commands, readerVars, handled,
                 results, exceptions, outcome>>

(* What the report is made from.                                           *)
Shown == IF python = None THEN NothingCollected ELSE results[python]

(* Mutant of NotFixed: what was skipped does not count.                    *)
NotFixedFailedOnly == Shown.failed # {} \/ exceptions # {}

(* calculateFailed.                                                        *)
NotFixed == Shown.failed # {} \/ Shown.skipped # {} \/ exceptions # {}

Conclude ==
  /\ pc = "fixing" /\ running = {}
  /\ pc' = "done"
  /\ outcome' = IF entities = <<>> \/ (NotFixed /\ Shown.succeeded = {} /\ Types # {}) THEN "error" ELSE "ok"
  /\ UNCHANGED <<testVars, disk, installed, failures, phase, todo, changes, commands, readerVars, handled,
                 reportVars>>

Step ==
  \/ TestPath \/ StartFix \/ PipStep \/ ToolStep \/ Conclude
  \/ \E h \in Handler : HandlerReturns(h)
  \/ \E p \in Plugin : PluginReturns(p)

Next == Step

(* Every await is answered, and the event loop runs what is ready.         *)
Spec == Init /\ [][Next]_vars /\ WF_vars(Step)
-----------------------------------------------------------------------------
(* The state of the command, of the handlers and of the report.            *)
TypeOK ==
  /\ pc \in {"testing", "fixing", "done"} /\ at \in 1..Paths + 1
  /\ options \in [dryRun : BOOLEAN, sequential : BOOLEAN]
  /\ \A i \in DOMAIN entities : entities[i].path < at /\ entities[i].pins \subseteq entities[i].issues
  /\ \A p \in 1..Paths : \A f \in File : disk[p][f].lines \subseteq Line
  /\ installed \subseteq (DOMAIN entities) \X Pkg /\ failures \in 0..MaxFailures
  /\ phase \in [Handler -> {"idle", "next", "reading", "installing", "returned", "threw"}]
  /\ \A h \in Handler :
       /\ todo[h] \subseteq Projects(h) /\ changes[h] \subseteq Change
       /\ handled[h] \in Handled
       /\ phase[h] \in {"reading", "installing"} => todo[h] # {}
       /\ changes[h] # {} => phase[h] \in {"reading", "installing"}
  /\ turn \in 1..Len(provenance) + 1 /\ Keys \subseteq Seq(STRING)
  /\ running \subseteq Plugin /\ python \in Plugin \cup {None} /\ outcome \in {None, "ok", "error"}

Kept       == {s.entity : s \in Shown.succeeded}
BothPlugins == Plugin \subseteq Types

(* index.ts:58, python/index.ts:57: an entity with issues is reported      *)
(* exactly once - fixed, failed, skipped, or of a type that is not         *)
(* supported - whatever failed on the way.  A handler that throws reports  *)
(* its skipped ones once more; and with pip and Poetry projects the        *)
(* results of one plugin take the place of the other's.                    *)
EveryEntityReported ==
  pc = "done" /\ ~BothPlugins =>
    \A i \in DOMAIN entities : Vulnerable(i) =>
      /\ entities[i].type \in exceptions \/ i \in Kept \cup Shown.failed \cup Shown.skipped
      /\ entities[i].type \in exceptions => i \notin Kept \cup Shown.failed \cup Shown.skipped
      /\ i \in Kept => i \notin Shown.failed \cup Shown.skipped
      /\ i \in Shown.failed \cap Shown.skipped => phase["poetry"] = "threw"

(* fix/index.ts:75: when something is vulnerable, the command ends with an *)
(* error exactly when no handler fixed anything that is still reported.    *)
OutcomeAgrees ==
  pc = "done" /\ ~BothPlugins /\ Types # {} =>
    (outcome = "error") = (\A h \in Handler : phase[h] = "threw" \/ handled[h].succeeded = {})

Successes(h) == handled[h].succeeded
Old(lines, p) == \E l \in lines : l.name = p /\ l.version \in {"old", "prefix"}
New(lines, p) == \E l \in lines : l.name = p /\ l.version = "new"

(* In a live run an issue reported as fixed is fixed in the files: no file *)
(* the project installs from asks for the vulnerable version any more, and *)
(* the file the change is said to be made for asks for the new one.        *)
FixedOnDisk(s) ==
  LET texts == disk[entities[s.entity].path]
      own   == Reach(texts, entities[s.entity].file)
      fixed == Reach(texts, s.through)
  IN  \A p \in s.fixed : /\ \A f \in own : ~Old(texts[f].lines, p)
                         /\ \E f \in fixed : New(texts[f].lines, p)

(* A file of the same name belongs to a project of another path: the cache *)
(* does not tell them apart.                                               *)
SharesFile(i) ==
  \E j \in DOMAIN entities :
    /\ entities[j].path # entities[i].path
    /\ entities[i].file \in Reach(disk[entities[j].path], entities[j].file)

(* What a file requires is spelled like the path, from the directory of    *)
(* the scan, of another file that is found.                                *)
HasNamesake(texts, file) ==
  \E f, g \in Reach(texts, file) : \E i \in DOMAIN texts[f].requires :
    /\ Relative(Dir(file), g) = texts[f].requires[i].path
    /\ Join(Dir(f), texts[f].requires[i].path) # g

(* pip-requirements/index.ts: what is reported as fixed is fixed on disk,  *)
(* however the files require each other and whatever failed for other      *)
(* entities; pipenv and Poetry have installed what is reported.            *)
FixedIsFixed ==
  ~options.dryRun =>
    /\ \A s \in Successes(PIP) :
         ~SharesFile(s.entity) /\ ~HasNamesake(disk[entities[s.entity].path], s.through) => FixedOnDisk(s)
    /\ \A t \in Tool : \A s \in Successes(t) : {s.entity} \X s.fixed \subseteq installed

(* pip-requirements/index.ts:109 speaks of "files that are part of the     *)
(* same project": a fix made in one path is not claimed for another.       *)
FixedInEveryPath ==
  ~options.dryRun =>
    \A s \in Successes(PIP) :
      ~HasNamesake(disk[entities[s.entity].path], s.through) => FixedOnDisk(s)

(* Files each of which requires another of them, spelled otherwise than    *)
(* the path it is kept under (`./x`, or from a directory of its own).      *)
MisspeltCycle ==
  /\ phase[PIP] = "reading"
  /\ \E S \in SUBSET Reach(disk[Entity(PIP).path], Entity(PIP).file) \ {{}} :
       \A f \in S : \E i \in DOMAIN Read(f).requires :
         LET text == Read(f).requires[i].path
         IN  Join(Dir(f), text) \in S /\ Relative(Root, Join(Dir(f), text)) # text

(* The command ends, unless the recursion over the required files does not *)
(* see that it is back where it was.                                       *)
FixEnds == <>(pc = "done" \/ MisspeltCycle)
=============================================================================
