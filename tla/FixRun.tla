------------------------------- MODULE FixRun -------------------------------
(***************************************************************************)
(* One run of `snyk fix`: the state of the command, of fix() in @snyk/fix  *)
(* and of the Python plugin with its three handlers, which run             *)
(* concurrently.  An entity is one test result; it is named by its place   *)
(* in the list.                                                            *)
(***************************************************************************)
EXTENDS Requirements

CONSTANTS
  Paths,      \* paths on the command line, each a workspace of its own
  Trees,      \* for each path what its requirements files may hold
  Scan(_, _), \* the lists of entities `snyk test` may return for a path that holds it
  MaxFailures, \* reads and writes of manifests that fail in a run
  Rank(_)     \* where the string of a directory comes among those of all

Project == [type : STRING, file : Seq(STRING), issues : SUBSET Pkg, pins : SUBSET Pkg]

VARIABLES
  pc,         \* "testing", "fixing" or "done"
  at,         \* the path being tested
  options,    \* dryRun and sequential
  entities,   \* what there is to fix
  disk,       \* the requirements files of each path
  installed,  \* <<entity, package>> pairs a pipenv or poetry command installed
  failures,   \* reads and writes that failed
  phase,      \* where each handler is
  todo,       \* entities a handler has still to go through
  changes,    \* what a handler has changed for the current entity
  commands,   \* package sets pipenv or poetry still has to install for it
  visits,     \* requirements: files to look for further requires in
  provenance, \* requirements: files found so far, with the text that was read
  turn,       \* requirements: the next of them to upgrade
  cache,      \* requirements: files that count as fixed
  handled,    \* what a handler will return
  results,    \* what each plugin has collected
  running,    \* plugins that have not returned
  python,     \* the plugin whose results are under the key `python`
  exceptions, \* scan types without a plugin
  outcome     \* how the command ended

testVars   == <<at, options, entities>>
readerVars == <<visits, provenance, turn, cache>>
reportVars == <<results, running, python, exceptions>>
vars == <<pc, testVars, disk, installed, failures, phase, todo, changes, commands, readerVars, handled,
          reportVars, outcome>>

Plugin  == {"pip", "poetry"}
Handler == {"requirements", "pipfile", "poetry"}
PluginOf(h) == IF h = "poetry" THEN "poetry" ELSE "pip"

None == "none"

(* getHandlerType.                                                         *)
HandlerOf(file) ==
  CASE file \in File                                   -> "requirements"
    [] Last(file) = "Pipfile"                          -> "pipfile"
    [] Last(file) \in {"pyproject.toml", "poetry.lock"} -> "poetry"
    [] OTHER                                           -> None

(* What is pinned are issues, and the package manager that read a manifest *)
(* is the one it is for.                                                   *)
WellFormed(project) ==
  /\ project.pins \subseteq project.issues /\ IsFiniteSet(project.pins)
  /\ project.type \in Plugin /\ HandlerOf(project.file) # None => PluginOf(HandlerOf(project.file)) = project.type

ASSUME FixAssumption ==
  /\ \A f \in File : Rank(Dir(f)) \in Nat
  /\ Paths \in Nat \ {0} /\ MaxFailures \in Nat
  /\ \A p \in 1..Paths : \A tree \in Trees[p] :
       /\ tree \in [File -> Text]
       /\ \A found \in Scan(p, tree) :
            /\ found \in Seq(Project)
            /\ \A i \in DOMAIN found : WellFormed(found[i])

Vulnerable(i) == entities[i].issues # {}
OfType(t) == {i \in DOMAIN entities : Vulnerable(i) /\ entities[i].type = t}
Types     == {entities[i].type : i \in {j \in DOMAIN entities : Vulnerable(j)}}

(* mapEntitiesPerHandlerType and partitionByFixable.                       *)
Projects(h)   == {i \in OfType(PluginOf(h)) : HandlerOf(entities[i].file) = h}
Fixable(i)    == entities[i].pins # {}

(* Mutant of NotHandled: what has nothing to apply is dropped silently.    *)
NotHandledUnsupported(p) == {i \in OfType(p) : HandlerOf(entities[i].file) = None}

NotHandled(p) == {i \in OfType(p) : HandlerOf(entities[i].file) = None \/ ~Fixable(i)}

(* The order of the list; requirements files are sorted, and grouped, by   *)
(* the string of their directory.                                          *)
Before(h, i, j) ==
  LET place(k) == IF h = "requirements" THEN Rank(Dir(entities[k].file)) ELSE 0
  IN  place(i) < place(j) \/ (place(i) = place(j) /\ i < j)

Current(h) == CHOOSE i \in todo[h] : \A j \in todo[h] \ {i} : Before(h, i, j)
Entity(h)  == entities[Current(h)]

(* Reported as succeeded: the issues its changes resolve, and the file     *)
(* they were made for.                                                     *)
Success(i, issues, through) == [entity |-> i, fixed |-> issues, through |-> through]
Issues(S) == {c.pkg : c \in {d \in S : d.success}}

Handled == [failed : SUBSET (DOMAIN entities), succeeded : SUBSET [entity : DOMAIN entities,
                                                                   fixed : SUBSET Pkg, through : Seq(STRING)]]
NothingHandled   == [failed |-> {}, succeeded |-> {}]
NothingCollected == [skipped |-> {}, failed |-> {}, succeeded |-> {}]

(* Mutant of EntityDone: the changes are carried over to the next one.     *)
EntityDoneKeeping(h) ==
  /\ todo' = [todo EXCEPT ![h] = @ \ {Current(h)}]
  /\ changes' = changes
  /\ phase' = [phase EXCEPT ![h] = "next"]

(* The handler is done with its current entity.                            *)
EntityDone(h) ==
  /\ todo' = [todo EXCEPT ![h] = @ \ {Current(h)}]
  /\ changes' = [changes EXCEPT ![h] = {}]
  /\ phase' = [phase EXCEPT ![h] = "next"]
EntityFails(h) ==
  /\ EntityDone(h)
  /\ handled' = [handled EXCEPT ![h].failed = @ \cup {Current(h)}]
EntitySucceeds(h, issues, through) ==
  /\ EntityDone(h)
  /\ handled' = [handled EXCEPT ![h].succeeded = @ \cup {Success(Current(h), issues, through)}]

CanFail == failures < MaxFailures /\ failures' = failures + 1
=============================================================================
