---------------------------- MODULE PythonTools -----------------------------
(***************************************************************************)
(* The handlers of Pipfile and Poetry projects, which leave the work to    *)
(* `pipenv install` and `poetry add`, and read off what was changed from   *)
(* the names they passed.                                                  *)
(***************************************************************************)
EXTENDS FixRun

Tool == {"pipfile", "poetry"}

(* One command with everything or, with --sequential, one a package.       *)
Batches(pins) ==
  IF pins = {} THEN <<>>
  ELSE IF options.sequential THEN [i \in 1..Cardinality(pins) |-> {SetToSeq(pins)[i]}] ELSE <<pins>>

(* Every pin is passed to pipenv.                                          *)
StartPipfile ==
  /\ phase["pipfile"] = "next" /\ todo["pipfile"] # {}
  /\ commands' = [commands EXCEPT !["pipfile"] = Batches(Entity("pipfile").pins)]
  /\ phase' = [phase EXCEPT !["pipfile"] = "installing"]
  /\ UNCHANGED <<pc, testVars, disk, installed, failures, todo, changes, readerVars, handled, reportVars, outcome>>

(* pyproject.toml says which pins are direct dependencies, under names     *)
(* that are standardised before they are compared with names that are not. *)
StartPoetry ==
  /\ phase["poetry"] = "next" /\ todo["poetry"] # {}
  /\ \E prod, dev \in SUBSET Entity("poetry").pins :
       /\ prod \cap dev = {} /\ dev \subseteq Standard
       /\ commands' = [commands EXCEPT !["poetry"] = Batches(prod) \o Batches(dev)]
  /\ phase' = [phase EXCEPT !["poetry"] = "installing"]
  /\ UNCHANGED <<pc, testVars, disk, installed, failures, todo, changes, readerVars, handled, reportVars, outcome>>

(* pyproject.toml cannot be read or parsed: the error leaves the handler,  *)
(* and pythonFix reports all its projects as failed.                       *)
PoetryThrows ==
  /\ phase["poetry"] = "next" /\ todo["poetry"] # {} /\ CanFail
  /\ phase' = [phase EXCEPT !["poetry"] = "threw"]
  /\ todo' = [todo EXCEPT !["poetry"] = {}]
  /\ results' = [results EXCEPT !["poetry"].failed = @ \cup Projects("poetry")]
  /\ UNCHANGED <<pc, testVars, disk, installed, changes, commands, readerVars, handled, running, python,
                 exceptions, outcome>>

(* generateSuccessfulChanges, generateFailedChanges: the names passed are  *)
(* standardised, those of the pins they are looked for in are not.         *)
Attempt(t, ok) ==
  changes' = [changes EXCEPT ![t] =
    @ \cup {[pkg |-> p, from |-> "old", success |-> ok] : p \in Head(commands[t]) \cap Standard}]

(* pipenvAdd, poetryAdd; a dry run takes the command for done.             *)
RunTool(t) ==
  /\ phase[t] = "installing" /\ commands[t] # <<>>
  /\ \E ok \in IF options.dryRun THEN {TRUE} ELSE BOOLEAN :
       /\ Attempt(t, ok)
       /\ installed' = IF ok /\ ~options.dryRun THEN installed \cup ({Current(t)} \X Head(commands[t]))
                       ELSE installed
  /\ commands' = [commands EXCEPT ![t] = Tail(@)]
  /\ UNCHANGED <<pc, testVars, disk, failures, phase, todo, readerVars, handled, reportVars, outcome>>

(* One change that succeeded is enough.                                    *)
AnySucceeded(t) == \E c \in changes[t] : c.success

(* The end of fixAll and fixSequentially.                                  *)
FinishTool(t) ==
  /\ phase[t] = "installing" /\ commands[t] = <<>>
  /\ IF AnySucceeded(t)
     THEN EntitySucceeds(t, Issues(changes[t]), Entity(t).file)
     ELSE EntityFails(t)
  /\ UNCHANGED <<pc, testVars, disk, installed, failures, commands, readerVars, reportVars, outcome>>

ToolStep ==
  \/ StartPipfile \/ StartPoetry \/ PoetryThrows
  \/ \E t \in Tool : RunTool(t) \/ FinishTool(t)
=============================================================================
