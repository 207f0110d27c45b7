-------------------------- MODULE PipRequirements ---------------------------
(***************************************************************************)
(* The handler of requirements files: for each file it reads what the file *)
(* requires, upgrades the lines it finds, file by file, adds the rest as   *)
(* pins, and remembers the files it went through.                          *)
(***************************************************************************)
EXTENDS FixRun

PIP  == "requirements"
Root == Dir(Entity(PIP).file)
Pins == Entity(PIP).pins
Keys == {provenance[i].key : i \in DOMAIN provenance}

(* Mutant of Key: a file is kept under its path from the workspace.        *)
KeyFromWorkspace(path) == path

Key(path) == Relative(Root, path)

Read(path) == disk[Entity(PIP).path][path]
Save(path, text) ==
  disk' = IF options.dryRun THEN disk ELSE [disk EXCEPT ![Entity(PIP).path][path] = text]

NextIs(cached) ==
  /\ phase[PIP] = "next" /\ todo[PIP] # {}
  /\ (Entity(PIP).file \in DOMAIN cache) = cached

(* fixAll: a file that counts as fixed is not looked at again.             *)
TakeFixed ==
  /\ NextIs(TRUE)
  /\ LET hit == cache[Entity(PIP).file]
     IN  EntitySucceeds(PIP, hit.issues \cap Entity(PIP).issues, hit.fixedIn)
  /\ UNCHANGED <<pc, testVars, disk, installed, failures, commands, readerVars, reportVars, outcome>>

StartFile ==
  /\ NextIs(FALSE)
  /\ visits' = <<[text |-> Key(Entity(PIP).file), path |-> Entity(PIP).file]>>
  /\ provenance' = <<>> /\ turn' = 1
  /\ phase' = [phase EXCEPT ![PIP] = "reading"]
  /\ UNCHANGED <<pc, testVars, disk, installed, failures, todo, changes, commands, cache, handled, reportVars,
                 outcome>>

(* Object.keys keep the place a key was first given.                       *)
Put(key, text) ==
  LET entry == [key |-> key, text |-> text]
  IN  IF key \in Keys
      THEN [i \in DOMAIN provenance |-> IF provenance[i].key = key THEN entry ELSE provenance[i]]
      ELSE Append(provenance, entry)

(* extractProvenance, one file of its recursion.  What a directive says,   *)
(* as it is spelled, is compared with normalised paths that are relative   *)
(* to the directory of the scan.                                           *)
VisitFile ==
  /\ phase[PIP] = "reading" /\ visits # <<>>
  /\ LET v == Head(visits)
         requires == Read(v.path).requires
         next == [i \in DOMAIN requires |->
                    [text |-> requires[i].path, path |-> Join(Dir(v.path), requires[i].path)]]
     IN  \/ v.text \in Keys /\ visits' = Tail(visits) /\ UNCHANGED provenance
         \/ /\ v.text \notin Keys /\ v.path \in File
            /\ visits' = next \o Tail(visits) /\ provenance' = Put(Key(v.path), Read(v.path))
  /\ UNCHANGED <<pc, testVars, disk, installed, failures, phase, todo, changes, commands, turn, cache, handled,
                 reportVars, outcome>>

(* fixIndividualRequirementsTxt with direct upgrades only: the text is the *)
(* one that was read.                                                      *)
UpgradeFile ==
  /\ phase[PIP] = "reading" /\ visits = <<>> /\ turn <= Len(provenance)
  /\ LET f == provenance[turn]
         new == UpgradeChanges(f.text.lines, Pins)
     IN  /\ changes' = [changes EXCEPT ![PIP] = @ \cup new]
         /\ IF new = {} THEN UNCHANGED disk
            ELSE Save(Join(Root, f.key), [f.text EXCEPT !.lines = Upgraded(@, Pins)])
  /\ turn' = turn + 1
  /\ UNCHANGED <<pc, testVars, installed, failures, phase, todo, commands, visits, provenance, cache, handled,
                 reportVars, outcome>>

(* What fixAll does with the changes of a file.                            *)
Finish(all) ==
  IF all = {}
  THEN EntityFails(PIP) /\ UNCHANGED cache
  ELSE /\ EntitySucceeds(PIP, Issues(all), Entity(PIP).file)
       /\ LET fixed == {Join(Root, key) : key \in Keys}
          IN  cache' = [f \in fixed \cup DOMAIN cache |->
                          IF f \in fixed THEN [fixedIn |-> Entity(PIP).file, issues |-> Issues(all)] ELSE cache[f]]

(* Mutant of PinRest: pins are added to the text that was read first.      *)
PinRestStale ==
  /\ phase[PIP] = "reading" /\ visits = <<>> /\ turn > Len(provenance)
  /\ LET path == PinFile(Entity(PIP).file, Read(Entity(PIP).file))
         text == provenance[CHOOSE i \in DOMAIN provenance : provenance[i].key = Key(path)].text
         rest == NotApplied(Pins, changes[PIP])
         new  == PinChanges(text.lines, rest) \cup UpgradeChanges(text.lines, rest)
     IN  /\ path \in File
         /\ IF new = {} THEN UNCHANGED disk ELSE Save(path, [text EXCEPT !.lines = Pinned(@, rest)])
         /\ Finish(changes[PIP] \cup new)
  /\ UNCHANGED <<pc, testVars, installed, failures, commands, visits, provenance, turn, reportVars, outcome>>

(* The end of applyAllFixes: what no upgrade covered is pinned, in a file  *)
(* that is read again.                                                     *)
PinRest ==
  /\ phase[PIP] = "reading" /\ visits = <<>> /\ turn > Len(provenance)
  /\ LET path == PinFile(Entity(PIP).file, Read(Entity(PIP).file))
         text == Read(path)
         rest == NotApplied(Pins, changes[PIP])
         new  == PinChanges(text.lines, rest) \cup UpgradeChanges(text.lines, rest)
     IN  /\ path \in File
         /\ IF new = {} THEN UNCHANGED disk ELSE Save(path, [text EXCEPT !.lines = Pinned(@, rest)])
         /\ Finish(changes[PIP] \cup new)
  /\ UNCHANGED <<pc, testVars, installed, failures, commands, visits, provenance, turn, reportVars, outcome>>

(* A file is not there, or cannot be read or written: what was written     *)
(* before stays, and the file is not remembered.                           *)
Missing ==
  \/ visits # <<>> /\ Head(visits).text \notin Keys /\ Head(visits).path \notin File
  \/ visits = <<>> /\ turn > Len(provenance) /\ PinFile(Entity(PIP).file, Read(Entity(PIP).file)) \notin File
FileFails ==
  /\ phase[PIP] = "reading"
  /\ IF Missing THEN UNCHANGED failures ELSE CanFail
  /\ EntityFails(PIP)
  /\ UNCHANGED <<pc, testVars, disk, installed, commands, readerVars, reportVars, outcome>>

PipStep == TakeFixed \/ StartFile \/ VisitFile \/ UpgradeFile \/ PinRest \/ FileFails
=============================================================================
