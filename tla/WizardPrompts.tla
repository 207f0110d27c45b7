--------------------------- MODULE WizardPrompts ----------------------------
(***************************************************************************)
(* What `snyk wizard` asks about the vulnerable paths it has found, and    *)
(* the tasks the answers become (prompts.ts, tasks.ts). There are three    *)
(* stages: paths a direct dependency can be upgraded for, paths that can   *)
(* be patched, and the rest. Paths with a common remedy are asked about    *)
(* together first, and one by one only if the person wants to review them. *)
(* The order of groups that do not touch, reasons and texts are left out.  *)
(***************************************************************************)
EXTENDS Naturals, Sequences

CONSTANTS
  Deps,    \* direct dependencies
  Ids,     \* vulnerabilities
  Routes,  \* chains of dependencies, as the policy names them
  List,    \* the vulnerable paths the server knows of
  None

(* A vulnerable path: version is that of the vulnerable package, published *)
(* its vulnerability's age, upgradeTo the version of the direct dependency *)
(* without it, 0 if there is none, deeper says that some dependency below  *)
(* it is to be installed anew as it is, and fixed that the package is      *)
(* bundled or shrinkwrapped. A patch has no diffs if it has no urls.       *)
Path ==
  [id : Ids, name : STRING, version : Nat, dep : Deps, route : Routes, published : Nat,
   depType : {"prod", "dev", "extraneous"}, fixed : BOOLEAN, license : BOOLEAN,
   upgradeTo : Nat, reinstall : BOOLEAN, deeper : BOOLEAN,
   patches : SUBSET [versions : SUBSET Nat, modified : Nat, urls : BOOLEAN]]

Rule(i) == <<List[i].id, List[i].route>>

(* The server lists a vulnerability once for each route to it; a route     *)
(* begins with the direct dependency, which is of one kind.                *)
ASSUME ListAssumption ==
  /\ List \in Seq(Path)
  /\ \A i, j \in DOMAIN List :
       /\ Rule(i) = Rule(j) => i = j
       /\ List[i].route = List[j].route => List[i].dep = List[j].dep
       /\ List[i].dep = List[j].dep => List[i].depType = List[j].depType

CanBeUpgraded(i) ==
  List[i].depType # "extraneous" /\ ~List[i].fixed /\ (List[i].upgradeTo > 0 \/ List[i].deeper)

(* The patch that is left when those for other versions and older ones are *)
(* stripped.                                                               *)
Applicable(i) == {p \in List[i].patches : List[i].version \in p.versions}
StripInvalidPatches(i) == {p \in Applicable(i) : \A q \in Applicable(i) : q.modified <= p.modified}
PatchesForPackage(i) == {p \in StripInvalidPatches(i) : p.urls}

(* Of those that can be upgraded only the direct dependency is asked       *)
(* about; the later stages leave out all of them.                          *)
Upgradeable(found) == {i \in found : CanBeUpgraded(i) /\ List[i].upgradeTo > 0}
Patchable(found)   == {i \in found : ~CanBeUpgraded(i) /\ ~List[i].license /\ StripInvalidPatches(i) # {}}
Rest(found)        == {i \in found : ~CanBeUpgraded(i) /\ StripInvalidPatches(i) = {}}

(* Bigger upgrades come first, and what was published last.                *)
Weight(i)   == IF CanBeUpgraded(i) THEN List[i].upgradeTo ELSE List[i].published
Ahead(i, j) == Weight(i) > Weight(j) \/ (Weight(i) = Weight(j) /\ i < j)

(* The path that stands for a group.                                       *)
Foremost(S) == CHOOSE i \in S : \A j \in S \ {i} : Ahead(i, j)

(* Vulnerabilities published later whose patch fits the package at i.      *)
Alternatives(i, all) ==
  {j \in all :
    /\ List[j].id # List[i].id /\ List[j].name = List[i].name
    /\ \E p \in StripInvalidPatches(j) : List[i].version \in p.versions
    /\ List[i].published < List[j].published}

(* The id a path is grouped under: its own if that has a group already.    *)
GroupKeys(all) ==
  LET key[i \in all] ==
        IF Alternatives(i, all) = {} \/ \E j \in all : Ahead(j, i) /\ key[j] = List[i].id
        THEN List[i].id ELSE List[Foremost(Alternatives(i, all))].id
  IN  key

(* The members of S who agree on f.                                        *)
By(f, S) == {{i \in S : f[i] = f[j]} : j \in S}

Groups(stage, found) ==
  CASE stage = 1 -> By([i \in Upgradeable(found) |-> List[i].dep], Upgradeable(found))
    [] stage = 2 -> By(GroupKeys(Patchable(found)), Patchable(found))
    [] stage = 3 -> {{i} : i \in Rest(found)}

Prompt(i, role, group, members) == [vuln |-> i, role |-> role, group |-> group, members |-> members]

(* A question for the group, and one for each of its members.              *)
GroupPrompts(members) ==
  LET main == Foremost(members)
  IN  IF members = {main} THEN {Prompt(main, "single", None, members)}
      ELSE {Prompt(main, "main", main, members)} \cup {Prompt(i, "member", main, {}) : i \in members}

GetPrompts(stage, found) == UNION {GroupPrompts(members) : members \in Groups(stage, found)}

(* Whose group comes first, the group before its members.                  *)
GroupOf(q)   == IF q.role = "member" THEN q.group ELSE q.vuln
Before(q, r) ==
  \/ Ahead(GroupOf(q), GroupOf(r))
  \/ GroupOf(q) = GroupOf(r) /\ (r.role = "member" /\ (q.role = "main" \/ Ahead(q.vuln, r.vuln)))

Choice(choice, prompt, tagged) ==
  [choice |-> choice, prompt |-> prompt, tagged |-> tagged \/ prompt.role = "member", group |-> {}]

(* generatePrompt: the choices of a question. Only reviewing and ignoring  *)
(* carry the id of the group (tagged), in a member's question every choice *)
(* does. Who may not ignore is shown an entry that skips.                  *)
Offered(prompt, isYarn, mayIgnore) ==
  LET i    == prompt.vuln
      main == prompt.role = "main"
      canUpdate == CanBeUpgraded(i) /\ ~(isYarn /\ List[i].reinstall)
      canPatch  == ~(CanBeUpgraded(i) /\ main) /\ PatchesForPackage(i) # {}
  IN  {Choice("skip", prompt, FALSE)}
      \cup {Choice(IF mayIgnore THEN "ignore" ELSE "skip", prompt, main)}
      \cup (IF canUpdate THEN {Choice("update", prompt, FALSE)} ELSE {})
      \cup (IF canPatch THEN {Choice("patch", prompt, FALSE)} ELSE {})
      \cup (IF main THEN {Choice("review", prompt, TRUE)} ELSE {})

(* What has been answered about the group of a prompt.                     *)
GroupAnswers(prompt, answers) == {a \in answers : a.tagged /\ a.prompt.group = prompt.group}

Ignoring(answer) == answer.choice = "ignore" /\ answer.prompt.role = "main"

(* when: a member is asked about if some answer on its group other than    *)
(* ignoring all of it says so.                                             *)
When(prompt, answers) ==
  prompt.role = "member" => \E a \in GroupAnswers(prompt, answers) : ~Ignoring(a)

(* A member that is not asked about is noted with the answer that ignores  *)
(* its group.                                                              *)
Pushed(prompt, answers) ==
  {IF a \in GroupAnswers(prompt, answers) /\ Ignoring(a) THEN [a EXCEPT !.group = @ \cup {prompt.vuln}] ELSE a :
     a \in answers}
-----------------------------------------------------------------------------
(* A patch to apply at the route of path at, for vulnerability id.         *)
PatchTask(id, at, includes, published) ==
  [id |-> id, at |-> at, includes |-> includes, published |-> published]

(* The paths of a group with a route of their own, and the ids of others.  *)
Upgrades(members) == {i \in members : \A j \in members : Ahead(j, i) => List[j].route # List[i].route}
Includes(members) == {List[i].id : i \in members \ Upgrades(members)}

(* Mutant of PatchTasks: only the path the question was about.             *)
PatchTasksMainOnly(answer) ==
  {PatchTask(List[answer.prompt.vuln].id, answer.prompt.vuln, {}, List[answer.prompt.vuln].published)}

(* A group's patch is copied for each of its routes, with the id of the    *)
(* path that stands for it.                                                *)
PatchTasks(answer) ==
  LET i == answer.prompt.vuln
      members == IF answer.prompt.role = "main" THEN answer.prompt.members ELSE {i}
  IN  {PatchTask(List[i].id, j, Includes(members), List[i].published) : j \in Upgrades(members)}

Chosen(choice, answers) == {a \in answers : a.choice = choice}

AnswersToTasks(answers) ==
  [ignore |-> UNION {IF a.prompt.role = "main" THEN a.group ELSE {a.prompt.vuln} : a \in Chosen("ignore", answers)},
   update |-> {a.prompt.vuln : a \in Chosen("update", answers)},
   patch  |-> UNION {PatchTasks(a) : a \in Chosen("patch", answers)}]

(* What the person decided on a path: in its own question, or in that of   *)
(* its group.                                                              *)
Decision(i, answers) ==
  LET own == {a \in answers : a.prompt.vuln = i /\ a.prompt.role # "main"}
      all == {a \in answers : a.prompt.role = "main" /\ i \in a.prompt.members}
      of  == IF own # {} THEN own ELSE all
  IN  IF of = {} THEN "unasked" ELSE (CHOOSE a \in of : TRUE).choice
=============================================================================
