---------------------------- MODULE WizardProofs ----------------------------
(***************************************************************************)
(* Proofs about the wizard: its types, that decisions reach the policy and *)
(* the disk, and that dependencies are kept, for any list of vulnerable    *)
(* paths, any answers and any failures.                                    *)
(***************************************************************************)
EXTENDS Wizard, WellFoundedInduction, NaturalsInduction, TLAPS

Less == {pair \in Nat \X Nat : pair[1] < pair[2]}

(* Every nonempty set of naturals has a least element.                     *)
LEMMA Least == ASSUME NEW S \in SUBSET Nat, S # {} PROVE \E m \in S : \A n \in S : m <= n
<1>1. IsWellFoundedOn(Less, Nat)
  BY NatLessThanWellFounded, Zenon DEF OpToRel, Less
<1>2. \E m \in S : \A n \in S : ~(<<n, m>> \in Less)
  <2> HIDE DEF Less
  <2> QED BY <1>1, WFMin
<1>3. PICK m \in S : \A n \in S : ~(<<n, m>> \in Less)
  BY <1>2
<1>4. ASSUME NEW n \in S PROVE m <= n
  <2>1. m \in Nat /\ n \in Nat
    OBVIOUS
  <2>2. n < m => <<n, m>> \in Less
    BY <2>1 DEF Less
  <2> QED BY <1>3, <2>1, <2>2
<1> QED BY <1>4

LEMMA ListIs ==
  /\ Len(List) \in Nat /\ DOMAIN List = 1..Len(List)
  /\ \A i \in DOMAIN List :
       /\ i \in Nat /\ List[i] \in Path
       /\ List[i].id \in Ids /\ List[i].dep \in Deps /\ List[i].route \in Routes
       /\ List[i].published \in Nat /\ List[i].upgradeTo \in Nat
       /\ List[i].depType \in {"prod", "dev", "extraneous"}
       /\ Rule(i) \in Ids \X Routes
PROOF
  <1>1. List \in Seq(Path)
    BY ListAssumption
  <1>2. Len(List) \in Nat /\ DOMAIN List = 1..Len(List)
    BY <1>1
  <1>3. ASSUME NEW i \in DOMAIN List
        PROVE  i \in Nat /\ List[i] \in Path
    BY <1>1, <1>2
  <1>4. ASSUME NEW i \in DOMAIN List
        PROVE  /\ List[i].id \in Ids /\ List[i].dep \in Deps /\ List[i].route \in Routes
               /\ List[i].published \in Nat /\ List[i].upgradeTo \in Nat
               /\ List[i].depType \in {"prod", "dev", "extraneous"}
    BY <1>3 DEF Path
  <1>5. QED
    BY <1>2, <1>3, <1>4 DEF Rule

LEMMA WeightIsNumber == ASSUME NEW i \in DOMAIN List PROVE Weight(i) \in Nat
PROOF
  BY ListIs DEF Weight

(* Being ahead is a strict order of all paths.                             *)
LEMMA AheadIsOrder ==
  ASSUME NEW i \in DOMAIN List, NEW j \in DOMAIN List, NEW k \in DOMAIN List
  PROVE  /\ ~Ahead(i, i)
         /\ i # j => Ahead(i, j) \/ Ahead(j, i)
         /\ ~(Ahead(i, j) /\ Ahead(j, i))
         /\ Ahead(i, j) /\ Ahead(j, k) => Ahead(i, k)
PROOF
  <1>1. /\ Weight(i) \in Nat /\ Weight(j) \in Nat /\ Weight(k) \in Nat
        /\ i \in Nat /\ j \in Nat /\ k \in Nat
    BY WeightIsNumber, ListIs
  <1> HIDE DEF Weight
  <1>2. QED
    BY <1>1 DEF Ahead

Leads(i, S) == \A j \in S \ {i} : Ahead(i, j)

(* Every nonempty set of paths has one ahead of all others.                *)
LEMMA OneLeads == ASSUME NEW S \in SUBSET DOMAIN List, S # {} PROVE \E i \in S : Leads(i, S)
PROOF
  <1> DEFINE Bad == {n \in Nat : \E T \in SUBSET DOMAIN List : T # {} /\ T \subseteq 1..n /\ ~\E i \in T : Leads(i, T)}
  <1>1. SUFFICES ASSUME Bad # {}
                 PROVE  FALSE
    <2>1. S \subseteq 1..Len(List) /\ Len(List) \in Nat
      BY ListIs
    <2>2. QED
      BY <2>1
  <1>2. PICK m \in Bad : \A n \in Bad : m <= n
    <2>1. Bad \in SUBSET Nat
      OBVIOUS
    <2>2. QED
      BY <1>1, <2>1, Least
  <1>3. PICK T \in SUBSET DOMAIN List : T # {} /\ T \subseteq 1..m /\ ~\E i \in T : Leads(i, T)
    BY <1>2
  <1>4. m \in Nat /\ m # 0
    BY <1>2, <1>3
  <1>5. m - 1 \in Nat /\ m - 1 \notin Bad
    BY <1>2, <1>4
  <1>6. \A U \in SUBSET DOMAIN List : U # {} /\ U \subseteq 1..(m - 1) => \E i \in U : Leads(i, U)
    BY <1>5
  <1>7. T \ {m} \subseteq 1..(m - 1)
    BY <1>3, <1>4
  <1> HIDE DEF Bad
  <1>8. m \in T
    BY <1>3, <1>6, <1>7
  <1>9. T \ {m} # {}
    BY <1>3, <1>8 DEF Leads
  <1>10. PICK i \in T \ {m} : Leads(i, T \ {m})
    BY <1>3, <1>6, <1>7, <1>9
  <1>11. CASE Ahead(i, m)
    BY <1>3, <1>8, <1>10, <1>11 DEF Leads
  <1>12. CASE Ahead(m, i)
    <2>1. ASSUME NEW j \in T \ {m}
          PROVE  Ahead(m, j)
      BY <1>3, <1>8, <1>10, <1>12, AheadIsOrder DEF Leads
    <2>2. QED
      BY <1>3, <1>8, <2>1 DEF Leads
  <1>13. QED
    BY <1>3, <1>8, <1>10, <1>11, <1>12, AheadIsOrder

LEMMA ForemostIs ==
  ASSUME NEW S \in SUBSET DOMAIN List, S # {}
  PROVE  Foremost(S) \in S /\ \A j \in S \ {Foremost(S)} : Ahead(Foremost(S), j)
PROOF
  <1>1. \E i \in S : \A j \in S \ {i} : Ahead(i, j)
    BY OneLeads DEF Leads
  <1>2. QED
    BY <1>1 DEF Foremost

-----------------------------------------------------------------------------
(* Groups: sets of paths that do not touch, each of one stage.             *)
LEMMA ByIs ==
  ASSUME NEW f, NEW S
  PROVE  /\ \A G \in By(f, S) : G \subseteq S /\ G # {}
         /\ \A G, H \in By(f, S) : G \cap H # {} => G = H
         /\ \A i \in S : \E G \in By(f, S) : i \in G
PROOF
  <1>1. ASSUME NEW G \in By(f, S)
        PROVE  \E j \in S : G = {i \in S : f[i] = f[j]} /\ j \in G
    BY DEF By
  <1>2. ASSUME NEW G \in By(f, S), NEW H \in By(f, S), NEW k \in G \cap H
        PROVE  G = H
    BY <1>1
  <1>3. ASSUME NEW i \in S
        PROVE  \E G \in By(f, S) : i \in G
    <2>1. {k \in S : f[k] = f[i]} \in By(f, S)
      BY DEF By
    <2>2. i \in {k \in S : f[k] = f[i]}
      OBVIOUS
    <2>3. QED
      BY <2>1, <2>2
  <1>4. QED
    BY <1>1, <1>2, <1>3

Stage(s, F) == CASE s = 1 -> Upgradeable(F) [] s = 2 -> Patchable(F) [] s = 3 -> Rest(F)

LEMMA StagesAre ==
  ASSUME NEW F \in SUBSET DOMAIN List
  PROVE  /\ \A s \in 1..3 : Stage(s, F) \subseteq F
         /\ \A s, t \in 1..3 : s # t => Stage(s, F) \cap Stage(t, F) = {}
         /\ \A i \in F : NeverAsked(i) \/ \E s \in 1..3 : i \in Stage(s, F)
         /\ \A i \in Stage(1, F) : CanBeUpgraded(i)
         /\ \A s \in {2, 3} : \A i \in Stage(s, F) : ~CanBeUpgraded(i)
PROOF
  <1>1. 1..3 = {1, 2, 3}
    OBVIOUS
  <1>2. Stage(1, F) = Upgradeable(F) /\ Stage(2, F) = Patchable(F) /\ Stage(3, F) = Rest(F)
    BY DEF Stage
  <1> HIDE DEF Stage
  <1>3. QED
    BY <1>1, <1>2, ListIs DEF Upgradeable, Patchable, Rest, NeverAsked

LEMMA GroupsOfStage ==
  ASSUME NEW F \in SUBSET DOMAIN List, NEW s \in 1..3
  PROVE  /\ \A G \in Groups(s, F) : G \subseteq Stage(s, F) /\ G # {}
         /\ \A G, H \in Groups(s, F) : G \cap H # {} => G = H
         /\ \A i \in Stage(s, F) : \E G \in Groups(s, F) : i \in G
PROOF
  <1>1. CASE s = 1
    <2>1. Groups(1, F) = By([i \in Upgradeable(F) |-> List[i].dep], Upgradeable(F)) /\ Stage(1, F) = Upgradeable(F)
      BY DEF Groups, Stage
    <2>2. QED
      BY <1>1, <2>1, ByIs
  <1>2. CASE s = 2
    <2>1. Groups(2, F) = By(GroupKeys(Patchable(F)), Patchable(F)) /\ Stage(2, F) = Patchable(F)
      BY DEF Groups, Stage
    <2>2. QED
      BY <1>2, <2>1, ByIs
  <1>3. CASE s = 3
    <2>1. Groups(3, F) = {{i} : i \in Rest(F)} /\ Stage(3, F) = Rest(F)
      BY DEF Groups, Stage
    <2>2. ASSUME NEW G \in Groups(s, F)
          PROVE  \E i \in Rest(F) : G = {i}
      BY <1>3, <2>1
    <2>3. ASSUME NEW i \in Stage(s, F)
          PROVE  \E G \in Groups(s, F) : i \in G
      <3>1. {i} \in Groups(s, F)
        BY <1>3, <2>1
      <3>2. QED
        BY <3>1
    <2>4. ASSUME NEW G \in Groups(s, F)
          PROVE  G \subseteq Stage(s, F) /\ G # {}
      BY <1>3, <2>1, <2>2
    <2>5. ASSUME NEW G \in Groups(s, F), NEW H \in Groups(s, F), G \cap H # {}
          PROVE  G = H
      BY <2>2, <2>5
    <2>6. QED
      BY <2>3, <2>4, <2>5
  <1>4. QED
    BY <1>1, <1>2, <1>3

AllGroups(F) == UNION {Groups(s, F) : s \in 1..3}
Prompts(F)   == UNION {GroupPrompts(G) : G \in AllGroups(F)}

LEMMA GroupsAre ==
  ASSUME NEW F \in SUBSET DOMAIN List
  PROVE  /\ \A G \in AllGroups(F) : G \subseteq F /\ G # {}
         /\ \A G, H \in AllGroups(F) : G \cap H # {} => G = H
         /\ \A i \in F : NeverAsked(i) \/ \E G \in AllGroups(F) : i \in G
         /\ \A G \in AllGroups(F) : \A i \in G : CanBeUpgraded(i) => G \in Groups(1, F)
PROOF
  <1> USE DEF AllGroups
  <1>1. ASSUME NEW s \in 1..3, NEW G \in Groups(s, F)
        PROVE  G \subseteq Stage(s, F) /\ G # {} /\ G \subseteq F
    BY GroupsOfStage, StagesAre
  <1>2. ASSUME NEW s \in 1..3, NEW t \in 1..3, NEW G \in Groups(s, F), NEW H \in Groups(t, F), G \cap H # {}
        PROVE  G = H
    <2>1. s = t
      <3>1. Stage(s, F) \cap Stage(t, F) # {}
        BY <1>1, <1>2
      <3>2. QED
        BY <3>1, StagesAre
    <2>2. QED
      BY <1>2, <2>1, GroupsOfStage
  <1>3. ASSUME NEW i \in F, ~NeverAsked(i)
        PROVE  \E G \in AllGroups(F) : i \in G
    <2>1. PICK s \in 1..3 : i \in Stage(s, F)
      BY <1>3, StagesAre
    <2>2. PICK G \in Groups(s, F) : i \in G
      BY <2>1, GroupsOfStage
    <2>3. QED
      BY <2>2
  <1>4. ASSUME NEW s \in 1..3, NEW G \in Groups(s, F), NEW i \in G, CanBeUpgraded(i)
        PROVE  G \in Groups(1, F)
    <2>1. i \in Stage(s, F)
      BY <1>1
    <2>2. s = 1
      <3>1. s \in {1, 2, 3}
        OBVIOUS
      <3>2. QED
        BY <1>4, <2>1, <3>1, StagesAre
    <2>3. QED
      BY <2>2
  <1>5. QED
    BY <1>1, <1>2, <1>3, <1>4

LEMMA PromptsOfStages ==
  ASSUME NEW F
  PROVE  /\ \A s \in 1..3 : GetPrompts(s, F) \subseteq Prompts(F)
         /\ \A q \in Prompts(F) : \E s \in 1..3 : q \in GetPrompts(s, F)
PROOF
  BY DEF Prompts, GetPrompts, AllGroups

(* The group a question is about.                                          *)
IsOf(q, G) ==
  \/ q = Prompt(Foremost(G), "single", None, G) /\ G = {Foremost(G)}
  \/ q = Prompt(Foremost(G), "main", Foremost(G), G) /\ G # {Foremost(G)}
  \/ \E i \in G : q = Prompt(i, "member", Foremost(G), {}) /\ G # {Foremost(G)}

LEMMA PromptIsOf ==
  ASSUME NEW F, NEW q
  PROVE  q \in Prompts(F) <=> \E G \in AllGroups(F) : IsOf(q, G)
PROOF
  <1>1. ASSUME NEW G
        PROVE  q \in GroupPrompts(G) <=> IsOf(q, G)
    BY DEF GroupPrompts, IsOf
  <1>2. QED
    BY <1>1 DEF Prompts

(* What the questions of a set of paths are: each path that can be asked   *)
(* about has one of its own, and at most one group.                        *)
LEMMA PromptsAre ==
  ASSUME NEW F \in SUBSET DOMAIN List, NEW q \in Prompts(F)
  PROVE  /\ q = Prompt(q.vuln, q.role, q.group, q.members)
         /\ q.vuln \in F /\ q.members \subseteq F
         /\ q.role \in {"single", "main", "member"}
         /\ q.role # "member" => q.vuln \in q.members /\ q.members \in AllGroups(F)
         /\ q.role # "member" => q.vuln = Foremost(q.members)
         /\ q.role = "main" => q.group = q.vuln
         /\ q.role = "single" => q.members = {q.vuln}
         /\ q.role = "member" =>
              /\ q.members = {}
              /\ \E r \in Prompts(F) : r.role = "main" /\ r.group = q.group /\ q.vuln \in r.members
         /\ q.role = "main" => \A i \in q.members : Prompt(i, "member", q.group, {}) \in Prompts(F)
PROOF
  <1>1. PICK G \in AllGroups(F) : IsOf(q, G)
    BY PromptIsOf
  <1>2. G \subseteq F /\ G # {} /\ Foremost(G) \in G
    BY <1>1, GroupsAre, ForemostIs
  <1>3. CASE q = Prompt(Foremost(G), "single", None, G) /\ G = {Foremost(G)}
    BY <1>1, <1>2, <1>3 DEF Prompt
  <1>4. CASE q = Prompt(Foremost(G), "main", Foremost(G), G) /\ G # {Foremost(G)}
    <2>1. /\ q.vuln = Foremost(G) /\ q.role = "main" /\ q.group = Foremost(G) /\ q.members = G
          /\ q = Prompt(q.vuln, q.role, q.group, q.members)
      BY <1>4 DEF Prompt
    <2>2. ASSUME NEW i \in G
          PROVE  Prompt(i, "member", Foremost(G), {}) \in Prompts(F)
      BY <1>1, <1>4, PromptIsOf DEF IsOf
    <2>3. QED
      BY <1>1, <1>2, <2>1, <2>2
  <1>5. ASSUME NEW i \in G, q = Prompt(i, "member", Foremost(G), {}), G # {Foremost(G)}
        PROVE  /\ q.vuln = i /\ q.role = "member" /\ q.members = {} /\ q = Prompt(q.vuln, q.role, q.group, q.members)
               /\ \E r \in Prompts(F) : r.role = "main" /\ r.group = q.group /\ q.vuln \in r.members
    <2>1. q.vuln = i /\ q.role = "member" /\ q.group = Foremost(G) /\ q.members = {}
      BY <1>5 DEF Prompt
    <2>2. Prompt(Foremost(G), "main", Foremost(G), G) \in Prompts(F)
      BY <1>1, <1>5, PromptIsOf DEF IsOf
    <2>3. /\ Prompt(Foremost(G), "main", Foremost(G), G).role = "main"
          /\ Prompt(Foremost(G), "main", Foremost(G), G).group = Foremost(G)
          /\ Prompt(Foremost(G), "main", Foremost(G), G).members = G
      BY DEF Prompt
    <2>4. q = Prompt(q.vuln, q.role, q.group, q.members)
      BY <1>5, <2>1
    <2>5. QED
      BY <2>1, <2>2, <2>3, <2>4
  <1>6. CASE \E i \in G : q = Prompt(i, "member", Foremost(G), {}) /\ G # {Foremost(G)}
    <2>1. /\ q.vuln \in G /\ q.role = "member" /\ q.members = {} /\ q = Prompt(q.vuln, q.role, q.group, q.members)
          /\ \E r \in Prompts(F) : r.role = "main" /\ r.group = q.group /\ q.vuln \in r.members
      BY <1>5, <1>6
    <2>2. QED
      BY <1>2, <2>1
  <1>7. QED
    BY <1>1, <1>3, <1>4, <1>6 DEF IsOf

LEMMA PromptsDiffer ==
  ASSUME NEW F \in SUBSET DOMAIN List, NEW q \in Prompts(F), NEW r \in Prompts(F)
  PROVE  /\ q.role # "main" /\ r.role # "main" /\ q.vuln = r.vuln => q = r
         /\ q.role # "member" /\ r.role # "member" /\ q.members \cap r.members # {} => q = r
         /\ q.role = "main" /\ r.role = "main" /\ q.group = r.group => q = r
PROOF
  <1>1. PICK G \in AllGroups(F) : IsOf(q, G)
    BY PromptIsOf
  <1>2. PICK H \in AllGroups(F) : IsOf(r, H)
    BY PromptIsOf
  <1>3. Foremost(G) \in G /\ Foremost(H) \in H
    BY <1>1, <1>2, GroupsAre, ForemostIs
  <1>4. G \cap H # {} => G = H
    BY <1>1, <1>2, GroupsAre
  <1>5. ASSUME NEW s, NEW K, IsOf(s, K)
        PROVE  /\ s.role \in {"single", "main", "member"}
               /\ s.role = "single" => s = Prompt(Foremost(K), "single", None, K) /\ K = {Foremost(K)} /\ s.vuln = Foremost(K)
               /\ s.role = "main" => s = Prompt(Foremost(K), "main", Foremost(K), K) /\ K # {Foremost(K)}
               /\ s.role = "member" => s = Prompt(s.vuln, "member", Foremost(K), {}) /\ s.vuln \in K /\ K # {Foremost(K)}
               /\ s.role # "member" => s.members = K
               /\ s.role = "main" => s.group = Foremost(K)
    BY <1>5 DEF IsOf, Prompt
  <1>6. ASSUME q.role # "main", r.role # "main", q.vuln = r.vuln
        PROVE  q = r
    <2>1. q.vuln \in G /\ r.vuln \in H
      BY <1>1, <1>2, <1>3, <1>5, <1>6
    <2>2. G = H
      BY <1>4, <1>6, <2>1
    <2>3. QED
      BY <1>1, <1>2, <1>5, <1>6, <2>2
  <1>7. ASSUME q.role # "member", r.role # "member", q.members \cap r.members # {}
        PROVE  q = r
    <2>1. q.members = G /\ r.members = H
      BY <1>1, <1>2, <1>5, <1>7
    <2>2. G = H
      BY <1>4, <1>7, <2>1
    <2>3. QED
      BY <1>1, <1>2, <1>5, <1>7, <2>2
  <1>8. ASSUME q.role = "main", r.role = "main", q.group = r.group
        PROVE  q = r
    <2>1. Foremost(G) = Foremost(H)
      BY <1>1, <1>2, <1>5, <1>8
    <2>2. G = H
      BY <1>3, <1>4, <2>1
    <2>3. QED
      BY <1>1, <1>2, <1>5, <1>8, <2>2
  <1>9. QED
    BY <1>6, <1>7, <1>8

LEMMA EachHasPrompt ==
  ASSUME NEW F \in SUBSET DOMAIN List, NEW i \in F, ~NeverAsked(i)
  PROVE  \E q \in Prompts(F) : q.vuln = i /\ q.role # "main"
PROOF
  <1>1. PICK G \in AllGroups(F) : i \in G
    BY GroupsAre
  <1>2. CASE G = {Foremost(G)}
    <2>1. Prompt(i, "single", None, G) \in Prompts(F)
      BY <1>1, <1>2, PromptIsOf DEF IsOf
    <2>2. Prompt(i, "single", None, G).vuln = i /\ Prompt(i, "single", None, G).role = "single"
      BY DEF Prompt
    <2>3. QED
      BY <2>1, <2>2
  <1>3. CASE G # {Foremost(G)}
    <2>1. Prompt(i, "member", Foremost(G), {}) \in Prompts(F)
      BY <1>1, <1>3, PromptIsOf DEF IsOf
    <2>2. Prompt(i, "member", Foremost(G), {}).vuln = i /\ Prompt(i, "member", Foremost(G), {}).role = "member"
      BY DEF Prompt
    <2>3. QED
      BY <2>1, <2>2
  <1>4. QED
    BY <1>2, <1>3

(* Where a path that can be upgraded is asked about, its direct dependency *)
(* can be.                                                                 *)
LEMMA UpgradesAsked ==
  ASSUME NEW F \in SUBSET DOMAIN List, NEW q \in Prompts(F), CanBeUpgraded(q.vuln)
  PROVE  List[q.vuln].upgradeTo > 0
PROOF
  <1>1. PICK G \in AllGroups(F) : q.vuln \in G
    BY PromptsAre
  <1>2. G \in Groups(1, F)
    BY <1>1, GroupsAre
  <1>3. q.vuln \in Stage(1, F)
    BY <1>1, <1>2, GroupsOfStage
  <1>4. QED
    BY <1>3 DEF Stage, Upgradeable

(* Who stands for a group of upgrades asks for the highest of them.        *)
LEMMA BiggestUpgrade ==
  ASSUME NEW F \in SUBSET DOMAIN List, NEW q \in Prompts(F), q.role = "main", CanBeUpgraded(q.vuln), NEW i \in q.members
  PROVE  /\ List[i].dep = List[q.vuln].dep
         /\ List[i].upgradeTo <= List[q.vuln].upgradeTo
PROOF
  <1>1. q.vuln = Foremost(q.members) /\ q.vuln \in q.members /\ q.members \in AllGroups(F) /\ q.members \subseteq DOMAIN List
    BY PromptsAre
  <1>2. q.members \in Groups(1, F)
    BY <1>1, GroupsAre
  <1>3. q.members \in By([j \in Upgradeable(F) |-> List[j].dep], Upgradeable(F))
    BY <1>2 DEF Groups
  <1>4. PICK j \in Upgradeable(F) :
          q.members = {k \in Upgradeable(F) : [l \in Upgradeable(F) |-> List[l].dep][k] = [l \in Upgradeable(F) |-> List[l].dep][j]}
    BY <1>3 DEF By
  <1>5. \A k \in q.members : k \in Upgradeable(F) /\ List[k].dep = List[j].dep
    BY <1>4
  <1>6. CanBeUpgraded(i)
    BY <1>5 DEF Upgradeable
  <1>7. i = q.vuln \/ Ahead(q.vuln, i)
    BY <1>1, ForemostIs
  <1>8. Weight(i) = List[i].upgradeTo /\ Weight(q.vuln) = List[q.vuln].upgradeTo
    BY <1>6 DEF Weight
  <1>9. List[i].upgradeTo \in Nat /\ List[q.vuln].upgradeTo \in Nat
    BY <1>1, ListIs
  <1>10. List[i].upgradeTo <= List[q.vuln].upgradeTo
    BY <1>7, <1>8, <1>9 DEF Ahead
  <1>11. QED
    BY <1>1, <1>5, <1>10

-----------------------------------------------------------------------------
(* Questions and answers. An invariant of its own says what is known of a  *)
(* question that is behind: it has one answer, or its group's tells why it *)
(* was passed.                                                             *)
OfAnswer(a) ==
  /\ a = [choice |-> a.choice, prompt |-> a.prompt, tagged |-> a.tagged, group |-> a.group]
  /\ a.choice \in {"skip", "ignore", "update", "patch", "review"}
  /\ a.prompt \in asked /\ a.group \subseteq found
  /\ a.choice = "update" => CanBeUpgraded(a.prompt.vuln)
  /\ a.choice = "review" => a.prompt.role = "main" /\ a.tagged
  /\ a.prompt.role = "main" => (a.choice \in {"update", "patch"} => ~a.tagged) /\ (a.choice = "ignore" => a.tagged)
  /\ a.prompt.role = "single" => ~a.tagged

Settled(q) == \E a \in answers : a.prompt = q
Skipped(q) ==
  /\ q.role = "member"
  /\ \E a \in answers :
       /\ a.prompt.role = "main" /\ a.prompt.group = q.group
       /\ a.choice # "review" /\ (a.choice = "ignore" => q.vuln \in a.group)

Once  == \A a, b \in answers : a.prompt = b.prompt => a = b
Dealt == \A q \in asked : Settled(q) \/ Skipped(q)
Noted ==
  \A a \in answers : \A i \in a.group :
    /\ a.choice = "ignore" /\ a.prompt.role = "main"
    /\ \E q \in asked : q.role = "member" /\ q.vuln = i /\ q.group = a.prompt.group /\ ~Settled(q)
GroupsFirst == \A q \in asked : q.role = "member" => \E r \in asked : r.role = "main" /\ r.group = q.group
Reviewed ==
  \A a, b \in answers :
    a.prompt.role = "member" /\ b.prompt.role = "main" /\ a.prompt.group = b.prompt.group =>
      b.tagged /\ b.choice # "ignore"

AskedInv ==
  /\ asked \subseteq Prompts(found)
  /\ \A a \in answers : OfAnswer(a)
  /\ Once /\ Dealt /\ Noted /\ GroupsFirst /\ Reviewed

Early == {"idle", "loaded", "start_over", "test"}
QInv ==
  /\ found \subseteq DOMAIN List
  /\ AskedInv
  /\ stage \in 1..4 /\ \A s \in 1..3 : s < stage => GetPrompts(s, found) \subseteq asked
  /\ phase \in Early => stage = 1 /\ asked = {} /\ answers = {}

LEMMA OfferedIs ==
  ASSUME NEW q, NEW isYarn, NEW may, NEW c \in Offered(q, isYarn, may)
  PROVE  /\ c = [choice |-> c.choice, prompt |-> q, tagged |-> c.tagged, group |-> {}]
         /\ c.prompt = q /\ c.group = {}
         /\ c.choice \in {"skip", "ignore", "update", "patch", "review"}
         /\ c.choice = "update" => CanBeUpgraded(q.vuln)
         /\ c.choice = "review" => q.role = "main" /\ c.tagged
         /\ q.role = "main" => (c.choice \in {"update", "patch"} => ~c.tagged) /\ (c.choice = "ignore" => c.tagged)
         /\ q.role = "single" => ~c.tagged
PROOF
  <1>1. \/ c = Choice("skip", q, FALSE)
        \/ c = Choice("ignore", q, q.role = "main")
        \/ c = Choice("skip", q, q.role = "main")
        \/ c = Choice("update", q, FALSE) /\ CanBeUpgraded(q.vuln)
        \/ c = Choice("patch", q, FALSE)
        \/ c = Choice("review", q, TRUE) /\ q.role = "main"
    BY DEF Offered
  <1>2. CASE c = Choice("skip", q, FALSE)
    BY <1>2 DEF Choice
  <1>3. CASE c = Choice("ignore", q, q.role = "main")
    BY <1>3 DEF Choice
  <1>4. CASE c = Choice("skip", q, q.role = "main")
    BY <1>4 DEF Choice
  <1>5. CASE c = Choice("update", q, FALSE) /\ CanBeUpgraded(q.vuln)
    BY <1>5 DEF Choice
  <1>6. CASE c = Choice("patch", q, FALSE)
    BY <1>6 DEF Choice
  <1>7. CASE c = Choice("review", q, TRUE) /\ q.role = "main"
    BY <1>7 DEF Choice
  <1>8. QED
    BY <1>1, <1>2, <1>3, <1>4, <1>5, <1>6, <1>7

(* Whose turn it is: a member's group is behind.                           *)
LEMMA TurnIs ==
  ASSUME QInv, NEW q \in Questions, stage <= 3
  PROVE  /\ q \in Prompts(found) /\ q \notin asked
         /\ q.role = "member" => \E r \in asked : r.role = "main" /\ r.group = q.group
PROOF
  <1>1. /\ q \in GetPrompts(stage, found) /\ q \notin asked
        /\ \A r \in (GetPrompts(stage, found) \ asked) \ {q} : Before(q, r)
    BY DEF Questions
  <1>2. stage \in 1..3 /\ found \in SUBSET DOMAIN List
    BY DEF QInv
  <1>3. q \in Prompts(found)
    BY <1>1, <1>2, PromptsOfStages
  <1>4. ASSUME q.role = "member"
        PROVE  \E r \in asked : r.role = "main" /\ r.group = q.group
    <2>1. PICK G \in Groups(stage, found) : q \in GroupPrompts(G)
      BY <1>1 DEF GetPrompts
    <2>2. G \in AllGroups(found)
      BY <1>2, <2>1 DEF AllGroups
    <2>3. Foremost(G) \in DOMAIN List
      BY <1>2, <2>2, GroupsAre, ForemostIs
    <2> DEFINE r == Prompt(Foremost(G), "main", Foremost(G), G)
    <2>4. r \in GroupPrompts(G) /\ q.group = Foremost(G)
      BY <1>4, <2>1 DEF GroupPrompts, Prompt
    <2>5. r.role = "main" /\ r.group = Foremost(G) /\ r.vuln = Foremost(G)
      BY DEF Prompt
    <2>6. r \in GetPrompts(stage, found)
      BY <2>1, <2>4 DEF GetPrompts
    <2> HIDE DEF r
    <2>7. ~Before(q, r)
      BY <1>4, <2>3, <2>4, <2>5, AheadIsOrder DEF Before, GroupOf
    <2>8. r \in asked
      BY <1>1, <1>4, <2>5, <2>6, <2>7
    <2>9. QED
      BY <2>4, <2>5, <2>8
  <1>5. QED
    BY <1>1, <1>3, <1>4

LEMMA AskAsks ==
  ASSUME QInv, Ask
  PROVE  AskedInv'
PROOF
  <1>1. PICK q \in Questions : /\ When(q, answers) /\ asked' = asked \cup {q}
                               /\ \E c \in Offered(q, options.yarn, mayIgnore) : answers' = answers \cup {c}
    BY DEF Ask
  <1>2. PICK c \in Offered(q, options.yarn, mayIgnore) : answers' = answers \cup {c}
    BY <1>1
  <1>3. stage <= 3 /\ found' = found
    BY DEF Ask, memory
  <1>4. /\ q \in Prompts(found) /\ q \notin asked
        /\ q.role = "member" => \E r \in asked : r.role = "main" /\ r.group = q.group
    BY <1>3, TurnIs
  <1>5. /\ c = [choice |-> c.choice, prompt |-> q, tagged |-> c.tagged, group |-> {}]
        /\ c.prompt = q /\ c.group = {}
        /\ c.choice \in {"skip", "ignore", "update", "patch", "review"}
        /\ c.choice = "update" => CanBeUpgraded(q.vuln)
        /\ c.choice = "review" => q.role = "main" /\ c.tagged
        /\ q.role = "main" => (c.choice \in {"update", "patch"} => ~c.tagged) /\ (c.choice = "ignore" => c.tagged)
        /\ q.role = "single" => ~c.tagged
    BY OfferedIs
  <1>6. AskedInv /\ found \in SUBSET DOMAIN List
    BY DEF QInv
  <1>7. \A a \in answers : OfAnswer(a)
    BY <1>6 DEF AskedInv
  <1>8. \A a \in answers : a.prompt \in asked /\ a.prompt # q
    BY <1>4, <1>7 DEF OfAnswer
  <1>9. asked' \subseteq Prompts(found')
    BY <1>1, <1>3, <1>4, <1>6 DEF AskedInv
  <1>10. \A a \in answers' : OfAnswer(a)'
    <2>1. ASSUME NEW a \in answers
          PROVE  OfAnswer(a)'
      BY <1>1, <1>3, <1>7 DEF OfAnswer
    <2>2. OfAnswer(c)'
      <3>1. c = [choice |-> c.choice, prompt |-> c.prompt, tagged |-> c.tagged, group |-> c.group]
        BY <1>5
      <3>2. QED
        BY <1>1, <1>5, <3>1 DEF OfAnswer
    <2>3. QED
      BY <1>2, <2>1, <2>2
  <1>11. Once'
    BY <1>2, <1>5, <1>6, <1>8 DEF AskedInv, Once
  <1>12. \A p : p # q => (Settled(p)' <=> Settled(p))
    BY <1>2, <1>5 DEF Settled
  <1>13. Settled(q)'
    BY <1>2, <1>5 DEF Settled
  <1>14. Dealt'
    <2>1. ASSUME NEW p \in asked
          PROVE  (Settled(p) \/ Skipped(p))'
      BY <1>2, <1>6 DEF AskedInv, Dealt, Settled, Skipped
    <2>2. QED
      BY <1>1, <1>13, <2>1 DEF Dealt
  <1>15. Noted'
    <2>1. ASSUME NEW a \in answers, NEW i \in a.group
          PROVE  /\ a.choice = "ignore" /\ a.prompt.role = "main"
                 /\ \E p \in asked' : p.role = "member" /\ p.vuln = i /\ p.group = a.prompt.group /\ ~Settled(p)'
      BY <1>1, <1>4, <1>6, <1>12 DEF AskedInv, Noted
    <2>2. QED
      BY <1>2, <1>5, <2>1 DEF Noted
  <1>16. GroupsFirst'
    BY <1>1, <1>4, <1>6 DEF AskedInv, GroupsFirst
  <1>17. Reviewed'
    <2>1. ASSUME NEW a \in answers, NEW b \in answers
          PROVE  a.prompt.role = "member" /\ b.prompt.role = "main" /\ a.prompt.group = b.prompt.group =>
                   b.tagged /\ b.choice # "ignore"
      BY <1>6 DEF AskedInv, Reviewed
    <2>2. ASSUME NEW b \in answers, q.role = "member", b.prompt.role = "main", q.group = b.prompt.group
          PROVE  b.tagged /\ b.choice # "ignore"
      <3>1. PICK d \in answers : d.tagged /\ d.prompt.group = q.group /\ ~(d.choice = "ignore" /\ d.prompt.role = "main")
        BY <1>1, <2>2 DEF When, GroupAnswers, Ignoring
      <3>2. d.prompt \in Prompts(found) /\ b.prompt \in Prompts(found) /\ d.prompt \in asked
        BY <1>6, <1>8 DEF AskedInv
      <3>3. CASE d.prompt.role = "main"
        <4>1. d.prompt = b.prompt
          BY <1>6, <2>2, <3>1, <3>2, <3>3, PromptsDiffer
        <4>2. d = b
          BY <1>6, <4>1 DEF AskedInv, Once
        <4>3. QED
          BY <3>1, <3>3, <4>2
      <3>4. CASE d.prompt.role = "member"
        BY <2>1, <2>2, <3>1, <3>4
      <3>5. d.prompt.role # "single"
        BY <1>7, <3>1 DEF OfAnswer
      <3>6. QED
        BY <1>6, <3>2, <3>3, <3>4, <3>5, PromptsAre
    <2>3. ASSUME NEW a \in answers, a.prompt.role = "member", q.role = "main", a.prompt.group = q.group
          PROVE  FALSE
      <3>1. PICK r \in asked : r.role = "main" /\ r.group = a.prompt.group
        BY <1>6, <1>8, <2>3 DEF AskedInv, GroupsFirst
      <3>2. r = q
        BY <1>4, <1>6, <2>3, <3>1, PromptsDiffer DEF AskedInv
      <3>3. QED
        BY <1>4, <3>1, <3>2
    <2>4. QED
      BY <1>2, <1>5, <2>1, <2>2, <2>3 DEF Reviewed
  <1>18. QED
    BY <1>9, <1>10, <1>11, <1>14, <1>15, <1>16, <1>17 DEF AskedInv

(* What passing a question changes: the answer that ignores its group.     *)
LEMMA PushedIs ==
  ASSUME NEW q, NEW S, NEW T, T = Pushed(q, S), \A a \in S : a = [choice |-> a.choice, prompt |-> a.prompt, tagged |-> a.tagged, group |-> a.group]
  PROVE  /\ \A b \in T : \E a \in S :
              /\ b = [choice |-> a.choice, prompt |-> a.prompt, tagged |-> a.tagged, group |-> b.group]
              /\ b.choice = a.choice /\ b.prompt = a.prompt /\ b.tagged = a.tagged
              /\ \/ b = a
                 \/ /\ b.group = a.group \cup {q.vuln} /\ a.choice = "ignore" /\ a.prompt.role = "main"
                    /\ a.prompt.group = q.group
         /\ \A a \in S : \E b \in T :
              /\ b.choice = a.choice /\ b.prompt = a.prompt /\ b.tagged = a.tagged /\ a.group \subseteq b.group
              /\ a.tagged /\ a.prompt.group = q.group /\ Ignoring(a) => q.vuln \in b.group
PROOF
  <1> DEFINE Push(a) == IF a \in GroupAnswers(q, S) /\ Ignoring(a) THEN [a EXCEPT !.group = @ \cup {q.vuln}] ELSE a
  <1>1. T = {Push(a) : a \in S}
    BY DEF Pushed
  <1>2. ASSUME NEW a \in S
        PROVE  /\ Push(a) = [choice |-> a.choice, prompt |-> a.prompt, tagged |-> a.tagged, group |-> Push(a).group]
               /\ Push(a).choice = a.choice /\ Push(a).prompt = a.prompt /\ Push(a).tagged = a.tagged
               /\ \/ Push(a) = a
                  \/ /\ Push(a).group = a.group \cup {q.vuln} /\ a.choice = "ignore" /\ a.prompt.role = "main"
                     /\ a.prompt.group = q.group
               /\ a.group \subseteq Push(a).group
               /\ a.tagged /\ a.prompt.group = q.group /\ Ignoring(a) => q.vuln \in Push(a).group
    <2>1. a = [choice |-> a.choice, prompt |-> a.prompt, tagged |-> a.tagged, group |-> a.group]
      OBVIOUS
    <2>2. [a EXCEPT !.group = @ \cup {q.vuln}] =
            [choice |-> a.choice, prompt |-> a.prompt, tagged |-> a.tagged, group |-> a.group \cup {q.vuln}]
      BY <2>1
    <2>3. CASE a \in GroupAnswers(q, S) /\ Ignoring(a)
      <3>1. Push(a) = [choice |-> a.choice, prompt |-> a.prompt, tagged |-> a.tagged, group |-> a.group \cup {q.vuln}]
        BY <2>2, <2>3
      <3>2. a.choice = "ignore" /\ a.prompt.role = "main" /\ a.prompt.group = q.group
        BY <2>3 DEF GroupAnswers, Ignoring
      <3> HIDE DEF Push
      <3>3. QED
        BY <3>1, <3>2
    <2>4. CASE ~(a \in GroupAnswers(q, S) /\ Ignoring(a))
      <3>1. Push(a) = a
        BY <2>4
      <3>2. ~(a.tagged /\ a.prompt.group = q.group /\ Ignoring(a))
        BY <2>4 DEF GroupAnswers
      <3> HIDE DEF Push
      <3>3. QED
        BY <2>1, <3>1, <3>2
    <2>5. QED
      BY <2>3, <2>4
  <1> HIDE DEF Push
  <1>3. QED
    BY <1>1, <1>2

LEMMA PassAsks ==
  ASSUME QInv, Pass
  PROVE  AskedInv'
PROOF
  <1>1. PICK q \in Questions : ~When(q, answers) /\ answers' = Pushed(q, answers) /\ asked' = asked \cup {q}
    BY DEF Pass
  <1>2. stage <= 3 /\ found' = found
    BY DEF Pass, memory
  <1>3. /\ q \in Prompts(found) /\ q \notin asked
        /\ q.role = "member" => \E r \in asked : r.role = "main" /\ r.group = q.group
    BY <1>2, TurnIs
  <1>4. AskedInv /\ found \in SUBSET DOMAIN List
    BY DEF QInv
  <1>5. \A a \in answers : OfAnswer(a)
    BY <1>4 DEF AskedInv
  <1>6. \A a \in answers : a = [choice |-> a.choice, prompt |-> a.prompt, tagged |-> a.tagged, group |-> a.group]
    BY <1>5 DEF OfAnswer
  <1>7. /\ \A b \in answers' : \E a \in answers :
             /\ b = [choice |-> a.choice, prompt |-> a.prompt, tagged |-> a.tagged, group |-> b.group]
             /\ b.choice = a.choice /\ b.prompt = a.prompt /\ b.tagged = a.tagged
             /\ \/ b = a
                \/ /\ b.group = a.group \cup {q.vuln} /\ a.choice = "ignore" /\ a.prompt.role = "main"
                   /\ a.prompt.group = q.group
        /\ \A a \in answers : \E b \in answers' :
             /\ b.choice = a.choice /\ b.prompt = a.prompt /\ b.tagged = a.tagged /\ a.group \subseteq b.group
             /\ a.tagged /\ a.prompt.group = q.group /\ Ignoring(a) => q.vuln \in b.group
    BY <1>1, <1>6, PushedIs
  <1>8. q.role = "member" /\ \A a \in answers : a.tagged /\ a.prompt.group = q.group => Ignoring(a)
    BY <1>1 DEF When, GroupAnswers
  <1>9. q.vuln \in found
    BY <1>3, <1>4, PromptsAre
  <1>10. asked' \subseteq Prompts(found')
    BY <1>1, <1>2, <1>3, <1>4 DEF AskedInv
  <1>11. ASSUME NEW b \in answers'
         PROVE  OfAnswer(b)'
    <2>1. PICK a \in answers :
             /\ b = [choice |-> a.choice, prompt |-> a.prompt, tagged |-> a.tagged, group |-> b.group]
             /\ b.choice = a.choice /\ b.prompt = a.prompt /\ b.tagged = a.tagged
             /\ b = a \/ b.group = a.group \cup {q.vuln}
      BY <1>7
    <2>2. OfAnswer(a)
      BY <1>5
    <2>3. b.group \subseteq found
      BY <1>9, <2>1, <2>2 DEF OfAnswer
    <2>4. b = [choice |-> b.choice, prompt |-> b.prompt, tagged |-> b.tagged, group |-> b.group]
      BY <2>1
    <2>5. QED
      BY <1>1, <1>2, <2>1, <2>2, <2>3, <2>4 DEF OfAnswer
  <1>12. \A p : Settled(p)' <=> Settled(p)
    BY <1>7 DEF Settled
  <1>13. ~Settled(q)
    BY <1>3, <1>5 DEF Settled, OfAnswer
  <1>14. Once'
    <2>1. ASSUME NEW b \in answers', NEW d \in answers', b.prompt = d.prompt
          PROVE  b = d
      <3>1. PICK x \in answers, y \in answers :
              /\ b = IF x \in GroupAnswers(q, answers) /\ Ignoring(x) THEN [x EXCEPT !.group = @ \cup {q.vuln}] ELSE x
              /\ d = IF y \in GroupAnswers(q, answers) /\ Ignoring(y) THEN [y EXCEPT !.group = @ \cup {q.vuln}] ELSE y
        BY <1>1 DEF Pushed
      <3>2. b.prompt = x.prompt /\ d.prompt = y.prompt
        <4>1. ASSUME NEW z \in answers
              PROVE  [z EXCEPT !.group = @ \cup {q.vuln}].prompt = z.prompt
          BY <1>6
        <4>2. QED
          BY <3>1, <4>1
      <3>3. x = y
        BY <1>4, <2>1, <3>2 DEF AskedInv, Once
      <3>4. QED
        BY <3>1, <3>3
    <2>2. QED
      BY <2>1 DEF Once
  <1>15. Dealt'
    <2>1. ASSUME NEW p \in asked, Skipped(p)
          PROVE  Skipped(p)'
      <3>1. PICK a \in answers : /\ a.prompt.role = "main" /\ a.prompt.group = p.group
                                 /\ a.choice # "review" /\ (a.choice = "ignore" => p.vuln \in a.group)
        BY <2>1 DEF Skipped
      <3>2. PICK b \in answers' : b.choice = a.choice /\ b.prompt = a.prompt /\ a.group \subseteq b.group
        BY <1>7
      <3>3. QED
        BY <2>1, <3>1, <3>2 DEF Skipped
    <2>2. Skipped(q)'
      <3>1. PICK r \in asked : r.role = "main" /\ r.group = q.group
        BY <1>3, <1>8
      <3>2. PICK a \in answers : a.prompt = r
        BY <1>4, <3>1 DEF AskedInv, Dealt, Settled, Skipped
      <3>3. PICK b \in answers' : /\ b.choice = a.choice /\ b.prompt = a.prompt /\ b.tagged = a.tagged
                                  /\ a.tagged /\ a.prompt.group = q.group /\ Ignoring(a) => q.vuln \in b.group
        BY <1>7
      <3>4. a.tagged => Ignoring(a)
        BY <1>8, <3>1, <3>2
      <3>5. a.choice # "review" /\ (a.choice = "ignore" => a.tagged)
        BY <1>5, <3>1, <3>2, <3>4 DEF OfAnswer, Ignoring
      <3>6. QED
        BY <1>8, <3>1, <3>2, <3>3, <3>4, <3>5 DEF Skipped
    <2>3. QED
      BY <1>1, <1>4, <1>12, <2>1, <2>2 DEF AskedInv, Dealt
  <1>16. Noted'
    <2>1. ASSUME NEW b \in answers', NEW i \in b.group
          PROVE  /\ b.choice = "ignore" /\ b.prompt.role = "main"
                 /\ \E p \in asked' : p.role = "member" /\ p.vuln = i /\ p.group = b.prompt.group /\ ~Settled(p)'
      <3>1. PICK a \in answers :
              /\ b.choice = a.choice /\ b.prompt = a.prompt
              /\ \/ b = a
                 \/ /\ b.group = a.group \cup {q.vuln} /\ a.choice = "ignore" /\ a.prompt.role = "main"
                    /\ a.prompt.group = q.group
        BY <1>7
      <3>2. CASE i \in a.group
        BY <1>1, <1>4, <1>12, <3>1, <3>2 DEF AskedInv, Noted
      <3>3. CASE i \notin a.group
        <4>1. i = q.vuln /\ a.choice = "ignore" /\ a.prompt.role = "main" /\ a.prompt.group = q.group
          BY <2>1, <3>1, <3>3
        <4>2. QED
          BY <1>1, <1>8, <1>12, <1>13, <3>1, <4>1
      <3>4. QED
        BY <3>2, <3>3
    <2>2. QED
      BY <2>1 DEF Noted
  <1>17. GroupsFirst'
    BY <1>1, <1>3, <1>4 DEF AskedInv, GroupsFirst
  <1>18. Reviewed'
    <2>1. ASSUME NEW b \in answers', NEW d \in answers',
                 b.prompt.role = "member", d.prompt.role = "main", b.prompt.group = d.prompt.group
          PROVE  d.tagged /\ d.choice # "ignore"
      <3>1. PICK a \in answers, e \in answers : b.prompt = a.prompt /\ d.prompt = e.prompt /\ d.tagged = e.tagged /\ d.choice = e.choice
        BY <1>7
      <3>2. QED
        BY <1>4, <2>1, <3>1 DEF AskedInv, Reviewed
    <2>2. QED
      BY <2>1 DEF Reviewed
  <1>19. QED
    BY <1>10, <1>11, <1>14, <1>15, <1>16, <1>17, <1>18 DEF AskedInv

(* Nothing is asked about.                                                 *)
LEMMA KeepsQuestions ==
  ASSUME QInv, UNCHANGED <<found, asking>>, phase' \in Early => phase \in Early
  PROVE  QInv'
PROOF
  <1>1. found' = found /\ stage' = stage /\ asked' = asked /\ answers' = answers
    BY DEF asking
  <1>2. AskedInv'
    BY <1>1 DEF QInv, AskedInv, OfAnswer, Once, Dealt, Noted, GroupsFirst, Reviewed, Settled, Skipped
  <1>3. QED
    BY <1>1, <1>2 DEF QInv

LEMMA NothingAsked == ASSUME asked = {}, answers = {} PROVE AskedInv
PROOF
  BY DEF AskedInv, Once, Dealt, Noted, GroupsFirst, Reviewed

LEMMA InitQInv == Init => QInv
PROOF
  <1>1. SUFFICES ASSUME Init
                 PROVE  QInv
    OBVIOUS
  <1>2. found \subseteq DOMAIN List
    BY <1>1, WizardAssumption DEF Init
  <1>3. stage = 1 /\ asked = {} /\ answers = {}
    BY <1>1 DEF Init
  <1>4. QED
    BY <1>2, <1>3, NothingAsked DEF QInv

LEMMA TestAsks == ASSUME QInv, Test PROVE QInv'
PROOF
  <1>1. phase = "test" /\ UNCHANGED asking
    BY DEF Test
  <1>2. stage' = stage /\ asked' = asked /\ answers' = answers /\ stage = 1 /\ asked = {} /\ answers = {}
    BY <1>1 DEF asking, QInv, Early
  <1>3. found' \subseteq DOMAIN List
    BY DEF Test, QInv
  <1>4. AskedInv'
    BY <1>2 DEF AskedInv, Once, Dealt, Noted, GroupsFirst, Reviewed
  <1>5. QED
    BY <1>2, <1>3, <1>4 DEF QInv

LEMMA NextStageAsks == ASSUME QInv, NextStage PROVE QInv'
PROOF
  <1>1. /\ found' = found /\ asked' = asked /\ answers' = answers /\ stage' = stage + 1 /\ stage <= 3
        /\ phase' = phase /\ phase = "asking" /\ GetPrompts(stage, found) \subseteq asked
    BY DEF NextStage, memory
  <1>2. AskedInv'
    BY <1>1 DEF QInv, AskedInv, OfAnswer, Once, Dealt, Noted, GroupsFirst, Reviewed, Settled, Skipped
  <1>3. stage \in 1..3 /\ stage' \in 1..4
    BY <1>1 DEF QInv
  <1>4. ASSUME NEW s \in 1..3, s < stage'
        PROVE  GetPrompts(s, found) \subseteq asked
    <2>1. s = stage \/ s < stage
      BY <1>1, <1>3, <1>4
    <2>2. QED
      BY <1>1, <2>1 DEF QInv
  <1>5. QED
    BY <1>1, <1>2, <1>3, <1>4 DEF QInv, Early

LEMMA StepQInv == ASSUME QInv, [Next]_vars PROVE QInv'
PROOF
  <1> DEFINE Still == UNCHANGED <<found, asking>> /\ (phase' \in Early => phase \in Early)
  <1>1. Still => QInv'
    BY KeepsQuestions
  <1>2. CASE Ask
    <2>1. /\ found' = found /\ phase' = phase /\ phase = "asking" /\ stage' = stage
          /\ asked \subseteq asked'
      BY <1>2 DEF Ask, memory
    <2>2. QED
      BY <1>2, <2>1, AskAsks DEF QInv, Early
  <1>3. CASE Pass
    <2>1. /\ found' = found /\ phase' = phase /\ phase = "asking" /\ stage' = stage
          /\ asked \subseteq asked'
      BY <1>3 DEF Pass, memory
    <2>2. QED
      BY <1>3, <2>1, PassAsks DEF QInv, Early
  <1>4. CASE AuthFirst \/ Fails \/ TestsReached
    <2>1. Still
      BY <1>4 DEF AuthFirst, Fails, TestsReached, End, memory, Early
    <2>2. QED
      BY <1>1, <2>1
  <1>5. CASE LoadOrCreatePolicyFile \/ Authorize \/ StartOver
    <2>1. Still
      BY <1>5 DEF LoadOrCreatePolicyFile, Authorize, StartOver, End, Early
    <2>2. QED
      BY <1>1, <2>1
  <1>6. CASE ProcessAnswers \/ Dies
    <2>1. Still
      BY <1>6 DEF ProcessAnswers, Dies, End, memory, Early
    <2>2. QED
      BY <1>1, <2>1
  <1>7. CASE UpdateStep
    <2>1. Still
      BY <1>7 DEF UpdateStep, Uninstall, UninstallFails, Updated, NpmReads, NpmWrites, NpmFails, memory
    <2>2. QED
      BY <1>1, <2>1
  <1>8. CASE PatchStep
    <2>1. Still
      BY <1>8 DEF PatchStep, Locate, PatchRejects, Patched, ApplyPatch, SkipPatch, PatchErrs, Settle, memory
    <2>2. QED
      BY <1>1, <2>1
  <1>9. CASE GeneratePolicy \/ TaskRejects \/ Save \/ WritePackage \/ Monitor
    <2>1. Still
      BY <1>9 DEF GeneratePolicy, TaskRejects, Save, WritePackage, Monitor, End, memory, Early
    <2>2. QED
      BY <1>1, <2>1
  <1>10. CASE UNCHANGED vars
    <2>1. Still
      BY <1>10 DEF vars, memory
    <2>2. QED
      BY <1>1, <2>1
  <1>11. QED
    BY <1>2, <1>3, <1>4, <1>5, <1>6, <1>7, <1>8, <1>9, <1>10, TestAsks, NextStageAsks DEF Next, WizardStep

(* What the answers say when all questions are behind.                     *)
Own(i)     == {a \in answers : a.prompt.vuln = i /\ a.prompt.role # "main"}
OfGroup(i) == {a \in answers : a.prompt.role = "main" /\ i \in a.prompt.members}

LEMMA AnswersAre ==
  ASSUME QInv, NEW a \in answers
  PROVE  /\ a.prompt \in Prompts(found) /\ OfAnswer(a)
         /\ \A b \in answers : a.prompt.role # "main" /\ b.prompt.role # "main" /\ a.prompt.vuln = b.prompt.vuln => a = b
         /\ \A b \in answers : a.prompt.role = "main" /\ b.prompt.role = "main" /\ a.prompt.members \cap b.prompt.members # {} => a = b
         /\ \A i \in a.prompt.members : a.prompt.role = "main" /\ Own(i) # {} => a.choice \notin {"ignore", "update", "patch"}
PROOF
  <1>1. /\ AskedInv /\ found \in SUBSET DOMAIN List /\ OfAnswer(a)
        /\ \A b \in answers : OfAnswer(b) /\ b.prompt \in Prompts(found)
    BY DEF QInv, AskedInv, OfAnswer
  <1>2. ASSUME NEW b \in answers, a.prompt.role # "main", b.prompt.role # "main", a.prompt.vuln = b.prompt.vuln
        PROVE  a = b
    <2>1. a.prompt = b.prompt
      BY <1>1, <1>2, PromptsDiffer
    <2>2. QED
      BY <1>1, <2>1 DEF AskedInv, Once
  <1>3. ASSUME NEW b \in answers, a.prompt.role = "main", b.prompt.role = "main", a.prompt.members \cap b.prompt.members # {}
        PROVE  a = b
    <2>1. a.prompt = b.prompt
      BY <1>1, <1>3, PromptsDiffer
    <2>2. QED
      BY <1>1, <2>1 DEF AskedInv, Once
  <1>4. ASSUME NEW i \in a.prompt.members, a.prompt.role = "main", NEW b \in Own(i)
        PROVE  a.choice \notin {"ignore", "update", "patch"}
    <2>1. b \in answers /\ b.prompt.vuln = i /\ b.prompt.role # "main"
      BY DEF Own
    <2>2. Prompt(i, "member", a.prompt.group, {}) \in Prompts(found)
      BY <1>1, <1>4, PromptsAre
    <2>3. b.prompt = Prompt(i, "member", a.prompt.group, {})
      <3>1. /\ Prompt(i, "member", a.prompt.group, {}).vuln = i
            /\ Prompt(i, "member", a.prompt.group, {}).role = "member"
        BY DEF Prompt
      <3>2. QED
        BY <1>1, <2>1, <2>2, <3>1, PromptsDiffer
    <2>4. b.prompt.role = "member" /\ b.prompt.group = a.prompt.group
      BY <2>3 DEF Prompt
    <2>5. a.tagged /\ a.choice # "ignore"
      BY <1>1, <1>4, <2>1, <2>4 DEF AskedInv, Reviewed
    <2>6. QED
      BY <1>1, <1>4, <2>5 DEF OfAnswer
  <1>5. QED
    BY <1>1, <1>2, <1>3, <1>4

LEMMA DecidedIs ==
  ASSUME QInv, NEW i \in found
  PROVE  /\ \A a \in Own(i) : Decided(i) = a.choice
         /\ \A a \in OfGroup(i) : Own(i) = {} => Decided(i) = a.choice
         /\ Own(i) = {} /\ OfGroup(i) = {} => Decided(i) = "unasked"
PROOF
  <1>1. /\ Own(i) \subseteq answers /\ OfGroup(i) \subseteq answers
        /\ \A a, b \in Own(i) : a = b
        /\ \A a, b \in OfGroup(i) : a = b
    BY AnswersAre DEF Own, OfGroup
  <1>2. Decided(i) = IF (IF Own(i) # {} THEN Own(i) ELSE OfGroup(i)) = {} THEN "unasked"
                     ELSE (CHOOSE a \in (IF Own(i) # {} THEN Own(i) ELSE OfGroup(i)) : TRUE).choice
    BY DEF Decided, Decision, Own, OfGroup
  <1> HIDE DEF Own, OfGroup, Decided
  <1>3. ASSUME NEW a \in Own(i)
        PROVE  Decided(i) = a.choice
    <2>1. (CHOOSE b \in Own(i) : TRUE) = a
      BY <1>1
    <2>2. QED
      BY <1>2, <2>1
  <1>4. ASSUME NEW a \in OfGroup(i), Own(i) = {}
        PROVE  Decided(i) = a.choice
    <2>1. (CHOOSE b \in OfGroup(i) : TRUE) = a
      BY <1>1
    <2>2. QED
      BY <1>2, <1>4, <2>1
  <1>5. QED
    BY <1>2, <1>3, <1>4

(* Every decision has an answer behind it, and every answer decides.       *)
LEMMA AnswersDecide ==
  ASSUME QInv, NEW a \in answers
  PROVE  /\ a.prompt.role # "main" => Decided(a.prompt.vuln) = a.choice
         /\ a.prompt.role = "main" /\ a.choice \in {"ignore", "update", "patch"} =>
              \A i \in a.prompt.members : Decided(i) = a.choice
PROOF
  <1>1. a.prompt.vuln \in found /\ a.prompt.members \subseteq found
    BY AnswersAre, PromptsAre DEF QInv
  <1>2. ASSUME a.prompt.role # "main"
        PROVE  Decided(a.prompt.vuln) = a.choice
    <2>1. a \in Own(a.prompt.vuln)
      BY <1>2 DEF Own
    <2>2. QED
      BY <1>1, <2>1, DecidedIs
  <1>3. ASSUME a.prompt.role = "main", a.choice \in {"ignore", "update", "patch"}, NEW i \in a.prompt.members
        PROVE  Decided(i) = a.choice
    <2>1. a \in OfGroup(i)
      BY <1>3 DEF OfGroup
    <2>2. Own(i) = {}
      BY <1>3, AnswersAre
    <2>3. QED
      BY <1>1, <2>1, <2>2, DecidedIs
  <1>4. QED
    BY <1>2, <1>3

LEMMA DecisionsAnswered ==
  ASSUME QInv, stage = 4, NEW i \in found
  PROVE  /\ Decided(i) = "unasked" => NeverAsked(i)
         /\ Decided(i) # "review"
         /\ Decided(i) # "unasked" =>
              \E a \in answers : /\ a.choice = Decided(i)
                                 /\ \/ a.prompt.role # "main" /\ a.prompt.vuln = i
                                    \/ /\ a.prompt.role = "main" /\ i \in a.prompt.members
                                       /\ a.choice = "ignore" => i \in a.group
PROOF
  <1>1. found \in SUBSET DOMAIN List /\ AskedInv
    BY DEF QInv
  <1>2. Prompts(found) \subseteq asked
    <2>1. ASSUME NEW q \in Prompts(found)
          PROVE  q \in asked
      <3>1. PICK s \in 1..3 : q \in GetPrompts(s, found)
        BY PromptsOfStages
      <3>2. s < stage
        OBVIOUS
      <3>3. QED
        BY <3>1, <3>2 DEF QInv
    <2>2. QED
      BY <2>1
  <1>3. ASSUME NEW a \in Own(i)
        PROVE  /\ a \in answers /\ a.prompt.role # "main" /\ a.prompt.vuln = i
               /\ a.choice = Decided(i) /\ a.choice \notin {"unasked", "review"}
    <2>1. a \in answers /\ a.prompt.role # "main" /\ a.prompt.vuln = i
      BY DEF Own
    <2>2. OfAnswer(a) /\ a.choice = Decided(i)
      BY <2>1, AnswersAre, AnswersDecide
    <2>3. QED
      BY <2>1, <2>2 DEF OfAnswer
  <1>4. ASSUME Own(i) = {}, NEW q \in Prompts(found), q.vuln = i, q.role # "main"
        PROVE  \E a \in answers : /\ a.choice = Decided(i) /\ a.choice \notin {"unasked", "review"}
                                  /\ a.prompt.role = "main" /\ i \in a.prompt.members
                                  /\ a.choice = "ignore" => i \in a.group
    <2>1. q \in asked /\ ~Settled(q)
      BY <1>2, <1>4 DEF Settled, Own
    <2>2. Skipped(q)
      BY <1>1, <2>1 DEF AskedInv, Dealt
    <2>3. PICK a \in answers : /\ a.prompt.role = "main" /\ a.prompt.group = q.group
                               /\ a.choice # "review" /\ (a.choice = "ignore" => q.vuln \in a.group)
      BY <2>2 DEF Skipped
    <2>4. PICK r \in Prompts(found) : r.role = "main" /\ r.group = q.group /\ q.vuln \in r.members
      BY <1>1, <2>2, PromptsAre DEF Skipped
    <2>5. a.prompt = r
      BY <1>1, <2>3, <2>4, AnswersAre, PromptsDiffer
    <2>6. a \in OfGroup(i) /\ OfAnswer(a)
      BY <1>4, <2>3, <2>4, <2>5, AnswersAre DEF OfGroup
    <2>7. Decided(i) = a.choice
      BY <1>4, <2>6, DecidedIs
    <2>8. QED
      BY <1>4, <2>3, <2>4, <2>5, <2>6, <2>7 DEF OfAnswer
  <1>5. CASE Own(i) # {}
    BY <1>3, <1>5
  <1>6. CASE Own(i) = {} /\ ~NeverAsked(i)
    <2>1. PICK q \in Prompts(found) : q.vuln = i /\ q.role # "main"
      BY <1>1, <1>6, EachHasPrompt
    <2>2. QED
      BY <1>4, <1>6, <2>1
  <1>7. CASE Own(i) = {} /\ NeverAsked(i)
    <2>1. OfGroup(i) = {}
      <3>1. ASSUME NEW a \in OfGroup(i)
            PROVE  FALSE
        <4>1. a.prompt \in Prompts(found) /\ a.prompt.role = "main" /\ i \in a.prompt.members
          BY AnswersAre DEF OfGroup
        <4>2. PICK G \in AllGroups(found) : i \in G
          BY <1>1, <4>1, PromptsAre
        <4>3. PICK s \in 1..3 : G \in Groups(s, found)
          BY <4>2 DEF AllGroups
        <4>4. i \in Stage(s, found)
          BY <1>1, <4>2, <4>3, GroupsOfStage
        <4>5. s \in {1, 2, 3}
          OBVIOUS
        <4>6. QED
          BY <1>7, <4>4, <4>5 DEF Stage, Upgradeable, Patchable, Rest, NeverAsked
      <3>2. QED
        BY <3>1
    <2>2. QED
      BY <1>7, <2>1, DecidedIs
  <1>8. QED
    BY <1>5, <1>6, <1>7

-----------------------------------------------------------------------------
(* The tasks, and what they have to do with decisions.                     *)
LEMMA UpgradesAre ==
  ASSUME NEW M \in SUBSET DOMAIN List
  PROVE  /\ Upgrades(M) \subseteq M
         /\ \A id \in Includes(M) : \E j \in M : id = List[j].id
         /\ \A i \in M : i \in Upgrades(M) \/ List[i].id \in Includes(M)
         /\ \A i \in M : \E j \in Upgrades(M) : List[j].route = List[i].route
PROOF
  <1>1. ASSUME NEW i \in M
        PROVE  \E j \in Upgrades(M) : List[j].route = List[i].route
    <2> DEFINE S == {j \in M : List[j].route = List[i].route}
    <2>1. S \in SUBSET DOMAIN List /\ S # {}
      OBVIOUS
    <2>2. Foremost(S) \in S /\ \A j \in S \ {Foremost(S)} : Ahead(Foremost(S), j)
      BY <2>1, ForemostIs
    <2>3. ASSUME NEW j \in M, Ahead(j, Foremost(S)), List[j].route = List[Foremost(S)].route
          PROVE  FALSE
      <3>1. j \in S /\ Foremost(S) \in DOMAIN List
        BY <2>2, <2>3
      <3>2. j # Foremost(S)
        BY <2>3, <3>1, AheadIsOrder
      <3>3. Ahead(Foremost(S), j)
        BY <2>2, <3>1, <3>2
      <3>4. QED
        BY <2>3, <3>1, <3>3, AheadIsOrder
    <2>4. QED
      BY <2>2, <2>3 DEF Upgrades
  <1>2. QED
    BY <1>1 DEF Upgrades, Includes

Members(a) == IF a.prompt.role = "main" THEN a.prompt.members ELSE {a.prompt.vuln}

(* What a task to patch stands for.                                        *)
LEMMA PatchTaskIs ==
  ASSUME QInv, NEW a \in Chosen("patch", answers), NEW t \in PatchTasks(a)
  PROVE  /\ Members(a) \subseteq found /\ a.prompt.vuln \in Members(a)
         /\ t.id = List[a.prompt.vuln].id /\ t.at \in Upgrades(Members(a)) /\ t.includes = Includes(Members(a))
         /\ t.published = List[a.prompt.vuln].published
         /\ \A rule \in Rules(t) : \E j \in Members(a) : rule = <<List[j].id, List[t.at].route>>
PROOF
  <1>1. a \in answers /\ found \in SUBSET DOMAIN List
    BY DEF Chosen, QInv
  <1>2. a.prompt \in Prompts(found)
    BY <1>1, AnswersAre
  <1>3. Members(a) \subseteq found /\ a.prompt.vuln \in Members(a)
    BY <1>1, <1>2, PromptsAre DEF Members
  <1>4. PICK j \in Upgrades(Members(a)) :
          t = PatchTask(List[a.prompt.vuln].id, j, Includes(Members(a)), List[a.prompt.vuln].published)
    BY DEF PatchTasks, Members
  <1>5. /\ t.id = List[a.prompt.vuln].id /\ t.at = j /\ t.includes = Includes(Members(a))
        /\ t.published = List[a.prompt.vuln].published
    BY <1>4 DEF PatchTask
  <1>6. Members(a) \in SUBSET DOMAIN List
    BY <1>1, <1>3
  <1>7. ASSUME NEW rule \in Rules(t)
        PROVE  \E k \in Members(a) : rule = <<List[k].id, List[t.at].route>>
    <2>1. CASE rule = <<t.id, List[t.at].route>>
      BY <1>3, <1>5, <2>1
    <2>2. CASE rule \in {<<id, List[t.at].route>> : id \in t.includes}
      <3>1. PICK id \in Includes(Members(a)) : rule = <<id, List[t.at].route>>
        BY <1>5, <2>2
      <3>2. PICK k \in Members(a) : id = List[k].id
        BY <1>6, UpgradesAre
      <3>3. QED
        BY <3>1, <3>2
    <2>3. QED
      BY <2>1, <2>2 DEF Rules
  <1>8. QED
    BY <1>3, <1>4, <1>5, <1>7

LEMMA IgnoredAre ==
  ASSUME QInv, stage = 4
  PROVE  /\ AnswersToTasks(answers).ignore \subseteq found
         /\ \A i \in found : i \in AnswersToTasks(answers).ignore <=> Decided(i) = "ignore"
PROOF
  <1> DEFINE Meant(a) == IF a.prompt.role = "main" THEN a.group ELSE {a.prompt.vuln}
             Ignored  == UNION {Meant(a) : a \in Chosen("ignore", answers)}
  <1>1. AnswersToTasks(answers).ignore = Ignored
    BY DEF AnswersToTasks
  <1>2. found \in SUBSET DOMAIN List /\ AskedInv
    BY DEF QInv
  <1>3. ASSUME NEW a \in Chosen("ignore", answers), NEW i \in Meant(a)
        PROVE  i \in found /\ Decided(i) = "ignore"
    <2>1. a \in answers /\ a.choice = "ignore" /\ a.prompt \in Prompts(found)
      BY AnswersAre DEF Chosen
    <2>2. CASE a.prompt.role # "main"
      BY <1>2, <1>3, <2>1, <2>2, AnswersDecide, PromptsAre
    <2>3. CASE a.prompt.role = "main"
      <3>1. PICK q \in asked : q.role = "member" /\ q.vuln = i /\ q.group = a.prompt.group
        BY <1>2, <1>3, <2>1, <2>3 DEF AskedInv, Noted
      <3>2. q \in Prompts(found)
        BY <1>2 DEF AskedInv
      <3>3. PICK r \in Prompts(found) : r.role = "main" /\ r.group = q.group /\ q.vuln \in r.members
        BY <1>2, <3>1, <3>2, PromptsAre
      <3>4. r = a.prompt
        BY <1>2, <2>1, <2>3, <3>1, <3>3, PromptsDiffer
      <3>5. i \in a.prompt.members /\ i \in found
        BY <1>2, <3>1, <3>2, <3>3, <3>4, PromptsAre
      <3>6. QED
        BY <2>1, <2>3, <3>5, AnswersDecide
    <2>4. QED
      BY <2>2, <2>3
  <1>4. ASSUME NEW i \in found, Decided(i) = "ignore"
        PROVE  i \in Ignored
    <2>1. PICK a \in answers : /\ a.choice = "ignore"
                               /\ \/ a.prompt.role # "main" /\ a.prompt.vuln = i
                                  \/ a.prompt.role = "main" /\ i \in a.group
      BY <1>4, DecisionsAnswered
    <2>2. a \in Chosen("ignore", answers) /\ i \in Meant(a)
      BY <2>1 DEF Chosen
    <2>3. QED
      BY <2>2
  <1> HIDE DEF Meant
  <1>5. \A i \in Ignored : i \in found /\ Decided(i) = "ignore"
    BY <1>3
  <1>6. QED
    BY <1>1, <1>4, <1>5

LEMMA UpdatedAre ==
  ASSUME QInv, stage = 4
  PROVE  /\ AnswersToTasks(answers).update \subseteq found
         /\ \A i \in AnswersToTasks(answers).update : CanBeUpgraded(i) /\ List[i].upgradeTo > 0
         /\ \A i \in found : Decided(i) = "update" =>
              \E j \in AnswersToTasks(answers).update :
                List[j].dep = List[i].dep /\ List[i].upgradeTo <= List[j].upgradeTo
PROOF
  <1>1. AnswersToTasks(answers).update = {a.prompt.vuln : a \in Chosen("update", answers)}
    BY DEF AnswersToTasks
  <1>2. found \in SUBSET DOMAIN List
    BY DEF QInv
  <1>3. ASSUME NEW a \in Chosen("update", answers)
        PROVE  /\ a \in answers /\ a.choice = "update" /\ a.prompt.vuln \in found
               /\ CanBeUpgraded(a.prompt.vuln) /\ List[a.prompt.vuln].upgradeTo > 0
    <2>1. a \in answers /\ a.choice = "update"
      BY DEF Chosen
    <2>2. a.prompt \in Prompts(found) /\ OfAnswer(a)
      BY <2>1, AnswersAre
    <2>3. QED
      BY <1>2, <2>1, <2>2, PromptsAre, UpgradesAsked DEF OfAnswer
  <1>4. ASSUME NEW i \in found, Decided(i) = "update"
        PROVE  \E a \in Chosen("update", answers) :
                 List[a.prompt.vuln].dep = List[i].dep /\ List[i].upgradeTo <= List[a.prompt.vuln].upgradeTo
    <2>1. PICK a \in answers : /\ a.choice = "update"
                               /\ \/ a.prompt.role # "main" /\ a.prompt.vuln = i
                                  \/ a.prompt.role = "main" /\ i \in a.prompt.members
      BY <1>4, DecisionsAnswered
    <2>2. a \in Chosen("update", answers)
      BY <2>1 DEF Chosen
    <2>3. CASE a.prompt.role # "main"
      <3>1. List[i].upgradeTo \in Nat
        BY <1>2, ListIs
      <3>2. QED
        BY <2>1, <2>2, <2>3, <3>1
    <2>4. CASE a.prompt.role = "main"
      <3>1. a.prompt \in Prompts(found) /\ CanBeUpgraded(a.prompt.vuln)
        BY <1>3, <2>1, <2>2, AnswersAre
      <3>2. QED
        BY <1>2, <2>1, <2>2, <2>4, <3>1, BiggestUpgrade
    <2>5. QED
      BY <2>3, <2>4
  <1>5. QED
    BY <1>1, <1>3, <1>4

LEMMA PatchesAre ==
  ASSUME QInv, stage = 4
  PROVE  /\ \A t \in AnswersToTasks(answers).patch :
              /\ t.at \in found /\ Rules(t) \subseteq Ids \X Routes /\ t.id \in Ids
              /\ \E j \in DOMAIN List : t.published = List[j].published
              /\ \A i \in found : Rule(i) \in Rules(t) => Decided(i) = "patch" \/ ByNamesake(i)
         /\ \A i \in found : Decided(i) = "patch" =>
              \E t \in AnswersToTasks(answers).patch :
                List[t.at].route = List[i].route /\ (Rule(i) \in Rules(t) \/ UnderOtherId(i))
PROOF
  <1>1. AnswersToTasks(answers).patch = UNION {PatchTasks(a) : a \in Chosen("patch", answers)}
    BY DEF AnswersToTasks
  <1>2. found \in SUBSET DOMAIN List
    BY DEF QInv
  <1>3. ASSUME NEW a \in Chosen("patch", answers), NEW t \in PatchTasks(a)
        PROVE  /\ t.at \in found /\ Rules(t) \subseteq Ids \X Routes /\ t.id \in Ids
               /\ \E j \in DOMAIN List : t.published = List[j].published
               /\ \A i \in found : Rule(i) \in Rules(t) => Decided(i) = "patch" \/ ByNamesake(i)
    <2>1. /\ Members(a) \subseteq found /\ a.prompt.vuln \in Members(a)
          /\ t.id = List[a.prompt.vuln].id /\ t.at \in Upgrades(Members(a))
          /\ t.published = List[a.prompt.vuln].published
          /\ \A rule \in Rules(t) : \E j \in Members(a) : rule = <<List[j].id, List[t.at].route>>
      BY PatchTaskIs
    <2>2. t.at \in Members(a) /\ Members(a) \subseteq DOMAIN List
      BY <1>2, <2>1, UpgradesAre
    <2>3. t.at \in found /\ t.id \in Ids /\ \E j \in DOMAIN List : t.published = List[j].published
      BY <2>1, <2>2, ListIs
    <2>4. Rules(t) \subseteq Ids \X Routes
      BY <2>1, <2>2, ListIs
    <2>5. ASSUME NEW i \in found, Rule(i) \in Rules(t)
          PROVE  Decided(i) = "patch" \/ ByNamesake(i)
      <3>1. PICK j \in Members(a) : Rule(i) = <<List[j].id, List[t.at].route>>
        BY <2>1, <2>5
      <3>2. a \in answers /\ a.choice = "patch"
        BY DEF Chosen
      <3>3. CASE a.prompt.role # "main"
        <4>1. j = a.prompt.vuln /\ t.at = a.prompt.vuln
          BY <2>2, <3>3 DEF Members
        <4>2. i = a.prompt.vuln
          BY <1>2, <2>2, <3>1, <4>1, ListAssumption DEF Rule
        <4>3. QED
          BY <3>2, <3>3, <4>2, AnswersDecide
      <3>4. CASE a.prompt.role = "main" /\ i \in a.prompt.members
        BY <3>2, <3>4, AnswersDecide
      <3>5. CASE a.prompt.role = "main" /\ i \notin a.prompt.members
        <4>1. a.prompt \in PatchedGroups
          BY <3>5 DEF PatchedGroups
        <4>2. j \in a.prompt.members /\ t.at \in a.prompt.members
          BY <2>2, <3>5 DEF Members
        <4>3. QED
          BY <3>1, <3>5, <4>1, <4>2 DEF ByNamesake
      <3>6. QED
        BY <3>3, <3>4, <3>5
    <2>6. QED
      BY <2>3, <2>4, <2>5
  <1>4. ASSUME NEW i \in found, Decided(i) = "patch"
        PROVE  \E a \in Chosen("patch", answers) : \E t \in PatchTasks(a) :
                 List[t.at].route = List[i].route /\ (Rule(i) \in Rules(t) \/ UnderOtherId(i))
    <2>1. PICK a \in answers : /\ a.choice = "patch"
                               /\ \/ a.prompt.role # "main" /\ a.prompt.vuln = i
                                  \/ a.prompt.role = "main" /\ i \in a.prompt.members
      BY <1>4, DecisionsAnswered
    <2>2. a \in Chosen("patch", answers) /\ i \in Members(a)
      BY <2>1 DEF Chosen, Members
    <2>3. Members(a) \in SUBSET DOMAIN List
      BY <1>2, <2>1, AnswersAre, PromptsAre DEF Members
    <2> DEFINE task(j) == PatchTask(List[a.prompt.vuln].id, j, Includes(Members(a)), List[a.prompt.vuln].published)
    <2>4. \A j \in Upgrades(Members(a)) : task(j) \in PatchTasks(a)
      BY DEF PatchTasks, Members
    <2>5. ASSUME NEW j
          PROVE  task(j).id = List[a.prompt.vuln].id /\ task(j).at = j /\ task(j).includes = Includes(Members(a))
      BY DEF PatchTask
    <2> HIDE DEF task
    <2>6. CASE i \in Upgrades(Members(a))
      <3>1. task(i) \in PatchTasks(a) /\ List[task(i).at].route = List[i].route
        BY <2>4, <2>5, <2>6
      <3>2. CASE List[i].id = List[a.prompt.vuln].id
        <4>1. Rule(i) \in Rules(task(i))
          BY <2>5, <3>2 DEF Rules, Rule
        <4>2. QED
          BY <2>2, <3>1, <4>1
      <3>3. CASE List[i].id # List[a.prompt.vuln].id
        <4>1. a.prompt.role = "main" /\ i \in Upgrades(a.prompt.members)
          BY <2>1, <2>6, <3>3 DEF Members
        <4>2. a.prompt \in PatchedGroups
          BY <2>2, <4>1 DEF PatchedGroups
        <4>3. UnderOtherId(i)
          BY <3>3, <4>1, <4>2 DEF UnderOtherId
        <4>4. QED
          BY <2>2, <3>1, <4>3
      <3>4. QED
        BY <3>2, <3>3
    <2>7. CASE i \notin Upgrades(Members(a))
      <3>1. List[i].id \in Includes(Members(a))
        BY <2>2, <2>3, <2>7, UpgradesAre
      <3>2. PICK j \in Upgrades(Members(a)) : List[j].route = List[i].route
        BY <2>2, <2>3, UpgradesAre
      <3>3. task(j) \in PatchTasks(a) /\ List[task(j).at].route = List[i].route
        BY <2>4, <2>5, <3>2
      <3>4. Rule(i) \in Rules(task(j))
        BY <2>5, <3>1, <3>2 DEF Rules, Rule
      <3>5. QED
        BY <2>2, <3>3, <3>4
    <2>8. QED
      BY <2>6, <2>7
  <1>5. QED
    BY <1>1, <1>3, <1>4

-----------------------------------------------------------------------------
(* Types, and how far a run has come.                                      *)
AuthInv ==
  /\ AuthTypeOK
  /\ said # "nothing" => auth = "ended"
  /\ auth \in {"probing", "polling", "waiting"} => attemptsLeft > 0

Package == [deps : [Deps -> Nat], test : BOOLEAN, protect : {"none", "prepare", "prepublish"}, snyk : {"no", "dev", "prod"}]
RuleSets == [ignore : SUBSET (Ids \X Routes), patch : SUBSET (Ids \X Routes)]

RunTypes ==
  /\ phase \in Early \cup {"asking", "tasks", "save", "package", "monitor", "ended"}
  /\ outcome \in {"none", "failed", "limit", "json", "dry_run", "died", "ok"} /\ (outcome = "none" <=> phase # "ended")
  /\ options \in Options /\ mayIgnore \in BOOLEAN /\ startOver \in BOOLEAN /\ steps \subseteq {"test", "protect"}
TaskTypes ==
  /\ updater \in {"idle", "uninstall", "install", "done", "failed"}
  /\ npm \in [Kind -> {"idle", "started", "read", "done", "failed"}]
  /\ told = (\E k \in Kind : npm[k] = "failed") /\ (told => ~options.dryRun)
  /\ patcher \in {"idle", "locate", "patching", "done", "failed"} /\ patchError \in BOOLEAN
DiskTypes ==
  /\ manifest \in Package /\ pkg \in Package
  /\ installed \in [Deps -> Nat] /\ read \in [Kind -> [Deps -> Nat]]
  /\ policyFile \in RuleSets /\ policy \in RuleSets \cup {None}

LEMMA StepAuth == ASSUME AuthInv, [Next]_vars PROVE AuthInv'
PROOF
  <1>1. CASE AuthFirst
    <2>1. CASE Manual
      BY <2>1, AttemptsAssumption DEF Manual, AuthInv, AuthTypeOK, Key
    <2>2. CASE WebAuth(options.isCI)
      <3>1. CASE options.isCI
        BY <2>2, <3>1, AttemptsAssumption DEF WebAuth, EndAuth, AuthInv, AuthTypeOK, Key
      <3>2. CASE ~options.isCI
        BY <2>2, <3>2, AttemptsAssumption DEF WebAuth, EndAuth, AuthInv, AuthTypeOK, Key
      <3>3. QED
        BY <3>1, <3>2
    <2>3. CASE Confirm
      BY <2>3 DEF Confirm, AuthInv, AuthTypeOK, Key
    <2>4. CASE Verified
      BY <2>4 DEF Verified, Authenticated, EndAuth, AuthInv, AuthTypeOK, Key
    <2>5. CASE GetIpFamily
      BY <2>5 DEF GetIpFamily, AuthInv, AuthTypeOK, Key
    <2>6. CASE Polled
      BY <2>6 DEF Polled, Authenticated, EndAuth, AuthInv, AuthTypeOK, Key
    <2>7. CASE Waited
      <3>1. attemptsLeft \in 0..MaxAttempts /\ attemptsLeft > 0 /\ MaxAttempts \in Nat /\ attemptsLeft' = attemptsLeft - 1
        BY <2>7, AttemptsAssumption DEF Waited, AuthInv, AuthTypeOK
      <3>2. attemptsLeft' \in 0..MaxAttempts /\ (attemptsLeft' > 0 \/ attemptsLeft' = 0)
        BY <3>1
      <3>3. QED
        BY <2>7, <3>2 DEF Waited, EndAuth, AuthInv, AuthTypeOK, Key
    <2>8. QED
      BY <1>1, <2>1, <2>2, <2>3, <2>4, <2>5, <2>6, <2>7 DEF AuthFirst, AuthStep
  <1>2. CASE LoadOrCreatePolicyFile
    <2>1. 0 \in 0..MaxAttempts
      BY AttemptsAssumption
    <2>2. QED
      BY <1>2, <2>1, Zenon DEF LoadOrCreatePolicyFile, AuthInv, AuthTypeOK
  <1>3. CASE UNCHANGED authVars
    BY <1>3 DEF authVars, AuthInv, AuthTypeOK, Key
  <1>4. CASE Authorize \/ StartOver \/ Test \/ TestsReached \/ Ask \/ Pass \/ NextStage \/ ProcessAnswers \/ Dies \/ Fails
    BY <1>3, <1>4 DEF Authorize, StartOver, Test, TestsReached, Ask, Pass, NextStage, ProcessAnswers, Dies, Fails
  <1>5. CASE WizardStep
    BY <1>3, <1>5 DEF WizardStep, UpdateStep, Uninstall, UninstallFails, Updated, NpmReads, NpmWrites, NpmFails,
         PatchStep, Locate, PatchRejects, Patched, ApplyPatch, SkipPatch, PatchErrs, Settle,
         GeneratePolicy, TaskRejects, Save, WritePackage, Monitor
  <1>6. QED
    BY <1>1, <1>2, <1>3, <1>4, <1>5 DEF Next, vars

LEMMA StepRunTypes == ASSUME RunTypes, [Next]_vars PROVE RunTypes'
PROOF
  <1>1. CASE UNCHANGED <<phase, outcome, options, mayIgnore, startOver, steps>>
    BY <1>1 DEF RunTypes
  <1>2. CASE AuthFirst \/ Ask \/ Pass \/ NextStage
    BY <1>1, <1>2 DEF AuthFirst, Ask, Pass, NextStage, memory
  <1>3. CASE UpdateStep
    BY <1>1, <1>3 DEF UpdateStep, Uninstall, UninstallFails, Updated, NpmReads, NpmWrites, NpmFails, memory
  <1>4. CASE PatchStep
    BY <1>1, <1>4 DEF PatchStep, Locate, PatchRejects, Patched, ApplyPatch, SkipPatch, PatchErrs, Settle, memory
  <1>5. CASE LoadOrCreatePolicyFile
    BY <1>5 DEF LoadOrCreatePolicyFile, RunTypes, Early
  <1>6. CASE Authorize
    BY <1>6 DEF Authorize, End, RunTypes, Early
  <1>7. CASE StartOver
    BY <1>7 DEF StartOver, RunTypes, Early
  <1>8. CASE Test
    BY <1>8 DEF Test, End, RunTypes, Early
  <1>9. CASE ProcessAnswers
    BY <1>9 DEF ProcessAnswers, NextSteps, End, RunTypes, Early
  <1>10. CASE TestsReached \/ Dies \/ Fails
    BY <1>10 DEF TestsReached, Dies, Fails, End, memory, RunTypes, Early
  <1>11. CASE GeneratePolicy
    BY <1>11 DEF GeneratePolicy, End, memory, RunTypes, Early
  <1>12. CASE TaskRejects \/ Monitor
    BY <1>12 DEF TaskRejects, Monitor, End, memory, RunTypes, Early
  <1>13. CASE Save \/ WritePackage
    BY <1>13 DEF Save, WritePackage, memory, RunTypes, Early
  <1>14. QED
    BY <1>1, <1>2, <1>3, <1>4, <1>5, <1>6, <1>7, <1>8, <1>9, <1>10, <1>11, <1>12, <1>13 DEF Next, WizardStep, vars, memory

(* Who changes the tasks' processes.                                       *)
LEMMA StepTaskTypes ==
  ASSUME RunTypes, TaskTypes, updater = "uninstall" => \A k \in Kind : npm[k] # "failed", [Next]_vars
  PROVE  TaskTypes'
PROOF
  <1>1. CASE UNCHANGED <<updater, npm, told, patcher, patchError, options>>
    BY <1>1 DEF TaskTypes
  <1>2. CASE AuthFirst \/ LoadOrCreatePolicyFile \/ Authorize \/ StartOver \/ Test \/ TestsReached
    BY <1>1, <1>2 DEF AuthFirst, LoadOrCreatePolicyFile, Authorize, StartOver, Test, TestsReached, memory, update, patch
  <1>3. CASE Ask \/ Pass \/ NextStage \/ Fails \/ GeneratePolicy \/ TaskRejects \/ Save \/ WritePackage \/ Monitor
    BY <1>1, <1>3 DEF Ask, Pass, NextStage, Fails, GeneratePolicy, TaskRejects, Save, WritePackage, Monitor, memory, update, patch
  <1>4. CASE ProcessAnswers
    BY <1>4 DEF ProcessAnswers, TaskTypes
  <1>5. CASE Dies
    BY <1>5 DEF Dies, memory, TaskTypes
  <1>6. CASE Uninstall
    <2>1. /\ updater' = "install" /\ npm' = [k \in Kind |-> IF Of(k) = {} THEN "done" ELSE "started"]
          /\ told' = told /\ options' = options /\ patcher' = patcher /\ patchError' = patchError
      BY <1>6 DEF Uninstall, patch, memory
    <2>2. \A k \in Kind : npm'[k] \in {"done", "started"}
      BY <2>1
    <2>3. updater = "uninstall"
      BY <1>6 DEF Uninstall
    <2>4. told = FALSE /\ \A k \in Kind : npm'[k] # "failed"
      BY <2>2, <2>3 DEF TaskTypes
    <2>5. npm' \in [Kind -> {"idle", "started", "read", "done", "failed"}]
      BY <2>1
    <2>6. QED
      BY <2>1, <2>4, <2>5 DEF TaskTypes
  <1>7. CASE UninstallFails \/ Updated
    BY <1>7 DEF UninstallFails, Updated, patch, memory, TaskTypes
  <1>8. ASSUME NEW k \in Kind, NpmReads(k) \/ NpmWrites(k) \/ NpmFails(k)
        PROVE  TaskTypes'
    <2>1. CASE NpmReads(k)
      BY <1>8, <2>1 DEF NpmReads, patch, memory, TaskTypes
    <2>2. CASE NpmWrites(k)
      BY <1>8, <2>2 DEF NpmWrites, patch, memory, TaskTypes
    <2>3. CASE NpmFails(k)
      BY <1>8, <2>3 DEF NpmFails, patch, memory, TaskTypes
    <2>4. QED
      BY <1>8, <2>1, <2>2, <2>3
  <1>9. CASE Locate \/ PatchRejects \/ Patched
    BY <1>9 DEF Locate, PatchRejects, Patched, update, memory, TaskTypes
  <1>10. ASSUME NEW t \in queue, ApplyPatch(t) \/ SkipPatch(t) \/ PatchErrs(t)
         PROVE  TaskTypes'
    BY <1>10 DEF ApplyPatch, SkipPatch, PatchErrs, Settle, update, memory, TaskTypes
  <1>11. QED
    BY <1>1, <1>2, <1>3, <1>4, <1>5, <1>6, <1>7, <1>8, <1>9, <1>10
    DEF Next, WizardStep, UpdateStep, PatchStep, vars, memory, update, patch

Late      == {"save", "package", "monitor"}

(* Before the answers are processed there are no tasks.                    *)
NoTasksYet ==
  updater = "idle" =>
    /\ npm = [k \in Kind |-> "idle"]
    /\ tasks = NoTasks /\ queue = {} /\ reported = {} /\ patchError = FALSE
    /\ phase \notin Late \cup {"tasks"} /\ outcome \notin {"ok", "died"}
TasksAre ==
  updater # "idle" =>
    /\ tasks = AnswersToTasks(answers) /\ stage = 4 /\ options.json = FALSE
    /\ phase \notin Early \cup {"asking"}
NothingDone == updater \in {"idle", "uninstall"} \/ options.dryRun => manifest.deps = Base /\ manifest.test = FALSE /\ installed = Base
NothingPatched == patcher = "idle" \/ options.dryRun => patched = {}

FlowInv ==
  /\ updater = "idle" <=> patcher = "idle"
  /\ NoTasksYet /\ TasksAre /\ NothingDone /\ NothingPatched
  /\ options.dryRun => phase \notin Late /\ outcome # "ok"
  /\ phase \in Late \/ outcome = "ok" => updater = "done" /\ patcher = "done"
  /\ queue \subseteq tasks.patch /\ \A rule \in reported : \E t \in tasks.patch : rule \in Rules(t)

(* What each install has done so far.                                      *)
Installs ==
  /\ updater \in {"uninstall", "failed"} => npm = [k \in Kind |-> "idle"]
  /\ updater = "install" => \A k \in Kind : npm[k] # "idle"
  /\ \A k \in Kind : npm[k] \in {"started", "read", "failed"} => Of(k) # {}
  /\ updater = "done" /\ outcome # "died" =>
       \A k \in Kind : npm[k] \in {"done", "failed"} \/ (npm[k] = "idle" /\ tasks.update = {})

LEMMA TasksTyped ==
  ASSUME QInv, FlowInv
  PROVE  /\ tasks.ignore \subseteq found /\ found \subseteq DOMAIN List
         /\ \A t \in tasks.patch :
              /\ t.at \in found /\ t.id \in Ids /\ Rules(t) \subseteq Ids \X Routes
              /\ \E j \in DOMAIN List : t.published = List[j].published
         /\ reported \subseteq Ids \X Routes /\ {Rule(i) : i \in tasks.ignore} \subseteq Ids \X Routes
         /\ \A t \in queue : t.at \in found
PROOF
  <1>1. found \subseteq DOMAIN List
    BY DEF QInv
  <1>2. CASE updater = "idle"
    BY <1>1, <1>2 DEF FlowInv, NoTasksYet, NoTasks
  <1>3. CASE updater # "idle"
    <2>1. tasks = AnswersToTasks(answers) /\ stage = 4
      BY <1>3 DEF FlowInv, TasksAre
    <2>2. tasks.ignore \subseteq found
      BY <2>1, IgnoredAre
    <2>3. \A t \in tasks.patch :
            /\ t.at \in found /\ t.id \in Ids /\ Rules(t) \subseteq Ids \X Routes
            /\ \E j \in DOMAIN List : t.published = List[j].published
      BY <2>1, PatchesAre
    <2>4. reported \subseteq Ids \X Routes /\ \A t \in queue : t.at \in found
      BY <2>3 DEF FlowInv
    <2>5. {Rule(i) : i \in tasks.ignore} \subseteq Ids \X Routes
      BY <1>1, <2>2, ListIs
    <2>6. QED
      BY <1>1, <2>2, <2>3, <2>4, <2>5
  <1>4. QED
    BY <1>2, <1>3

LEMMA UpdateTasksAre ==
  ASSUME QInv, FlowInv
  PROVE  /\ tasks.update \subseteq found /\ found \subseteq DOMAIN List
         /\ \A i \in tasks.update : CanBeUpgraded(i) /\ List[i].upgradeTo > 0 /\ i \in DOMAIN List
         /\ Named(tasks.update) \subseteq Deps
PROOF
  <1>1. found \subseteq DOMAIN List
    BY DEF QInv
  <1>2. tasks.update \subseteq found /\ \A i \in tasks.update : CanBeUpgraded(i) /\ List[i].upgradeTo > 0
    <2>1. CASE updater = "idle"
      BY <2>1 DEF FlowInv, NoTasksYet, NoTasks
    <2>2. CASE updater # "idle"
      BY <2>2, UpdatedAre DEF FlowInv, TasksAre
    <2>3. QED
      BY <2>1, <2>2
  <1>3. QED
    BY <1>1, <1>2, ListIs DEF Named

(* The version an install brings about is one that can be upgraded to.     *)
LEMMA HighestIs ==
  ASSUME QInv, FlowInv, NEW k \in Kind, NEW d \in Named(Of(k))
  PROVE  /\ Highest(k, d) \in Nat /\ Highest(k, d) > 0
         /\ \A i \in Of(k) : List[i].dep = d => List[i].upgradeTo <= Highest(k, d)
PROOF
  <1> DEFINE S == {i \in Of(k) : List[i].dep = d}
  <1>1. Of(k) \subseteq tasks.update
    BY DEF Of
  <1>2. S \in SUBSET DOMAIN List /\ S # {} /\ \A i \in S : CanBeUpgraded(i) /\ List[i].upgradeTo > 0
    BY <1>1, UpdateTasksAre DEF Named
  <1>3. Foremost(S) \in S /\ \A j \in S \ {Foremost(S)} : Ahead(Foremost(S), j)
    BY <1>2, ForemostIs
  <1>4. \A i \in S : List[i].upgradeTo \in Nat /\ List[i].upgradeTo > 0 /\ Weight(i) = List[i].upgradeTo
    BY <1>2, ListIs DEF Weight
  <1>5. Highest(k, d) = List[Foremost(S)].upgradeTo
    BY DEF Highest
  <1>6. ASSUME NEW i \in S
        PROVE  List[i].upgradeTo <= List[Foremost(S)].upgradeTo
    <2>1. i = Foremost(S) \/ Ahead(Foremost(S), i)
      BY <1>3
    <2> HIDE DEF S
    <2>2. QED
      BY <1>3, <1>4, <2>1 DEF Ahead
  <1>7. QED
    BY <1>3, <1>4, <1>5, <1>6

LEMMA UpgradesTyped ==
  ASSUME QInv, FlowInv, NEW k \in Kind, NEW f \in [Deps -> Nat]
  PROVE  FindUpgrades(k, f) \in [Deps -> Nat]
PROOF
  BY HighestIs DEF FindUpgrades

LEMMA RemovedTyped ==
  ASSUME DiskTypes, NEW S, Removed(S)
  PROVE  /\ manifest' \in Package /\ installed' \in [Deps -> Nat]
         /\ manifest'.deps = [d \in Deps |-> IF d \in S THEN 0 ELSE manifest.deps[d]]
         /\ installed' = [d \in Deps |-> IF d \in S THEN 0 ELSE installed[d]]
PROOF
  <1>1. manifest' = [manifest EXCEPT !.deps = [d \in Deps |-> IF d \in S THEN 0 ELSE manifest.deps[d]]]
    BY DEF Removed
  <1>2. manifest.deps \in [Deps -> Nat] /\ manifest \in Package
    BY DEF DiskTypes, Package
  <1>3. [d \in Deps |-> IF d \in S THEN 0 ELSE manifest.deps[d]] \in [Deps -> Nat]
    BY <1>2
  <1>4. manifest' \in Package /\ manifest'.deps = [d \in Deps |-> IF d \in S THEN 0 ELSE manifest.deps[d]]
    BY <1>1, <1>2, <1>3 DEF Package
  <1>5. installed' = [d \in Deps |-> IF d \in S THEN 0 ELSE installed[d]]
    BY DEF Removed
  <1>6. installed' \in [Deps -> Nat]
    BY <1>5 DEF DiskTypes
  <1>7. QED
    BY <1>4, <1>5, <1>6

(* package.json after the wizard has written it.                           *)
LEMMA WrittenIs ==
  ASSUME DiskTypes, WritePackage, steps \subseteq {"test", "protect"}
  PROVE  /\ manifest' \in Package /\ manifest'.deps = manifest.deps
         /\ "test" \in steps => manifest'.test
         /\ "protect" \in steps => manifest'.protect # "none" /\ manifest'.snyk = "prod"
PROOF
  <1>1. PICK hook \in {"prepare", "prepublish"} :
          manifest' = IF steps # {} \/ tasks.update # {} THEN WithSnyk(manifest, hook) ELSE manifest
    BY DEF WritePackage, Reread
  <1>2. manifest \in Package /\ manifest.deps \in [Deps -> Nat] /\ manifest.test \in BOOLEAN
        /\ manifest.protect \in {"none", "prepare", "prepublish"} /\ manifest.snyk \in {"no", "dev", "prod"}
    BY DEF DiskTypes, Package
  <1> DEFINE t == manifest.test \/ "test" \in steps
             p == IF "protect" \in steps THEN hook ELSE manifest.protect
             s == CASE manifest.snyk = "prod" -> manifest.snyk [] manifest.snyk # "prod" /\ "protect" \in steps -> "prod"
                    [] manifest.snyk = "no" /\ steps = {"test"} -> "dev" [] OTHER -> manifest.snyk
  <1>3. WithSnyk(manifest, hook) = [[[manifest EXCEPT !.test = t] EXCEPT !.protect = p] EXCEPT !.snyk = s]
    BY DEF WithSnyk
  <1>4. WithSnyk(manifest, hook) = [deps |-> manifest.deps, test |-> t, protect |-> p, snyk |-> s]
    BY <1>2, <1>3 DEF Package
  <1>5. t \in BOOLEAN /\ p \in {"none", "prepare", "prepublish"} /\ s \in {"no", "dev", "prod"}
    BY <1>2
  <1>6. ("test" \in steps => t) /\ ("protect" \in steps => p # "none" /\ s = "prod")
    BY <1>1
  <1> HIDE DEF t, p, s
  <1>7. CASE steps # {} \/ tasks.update # {}
    BY <1>1, <1>2, <1>4, <1>5, <1>6, <1>7 DEF Package
  <1>8. CASE steps = {} /\ tasks.update = {}
    BY <1>1, <1>2, <1>8
  <1>9. QED
    BY <1>7, <1>8

LEMMA StepDiskTypes == ASSUME QInv, FlowInv, RunTypes, DiskTypes, [Next]_vars PROVE DiskTypes'
PROOF
  <1>1. CASE UNCHANGED <<manifest, pkg, installed, read, policyFile, policy>>
    BY <1>1 DEF DiskTypes
  <1>2. CASE AuthFirst \/ Authorize \/ StartOver \/ TestsReached \/ Ask \/ Pass \/ NextStage \/ ProcessAnswers
    BY <1>1, <1>2 DEF AuthFirst, Authorize, StartOver, TestsReached, Ask, Pass, NextStage, ProcessAnswers, memory, update, disk
  <1>3. CASE Dies \/ Fails \/ GeneratePolicy \/ TaskRejects \/ Monitor \/ Updated
    BY <1>1, <1>3 DEF Dies, Fails, GeneratePolicy, TaskRejects, Monitor, Updated, memory, update, disk
  <1>4. CASE PatchStep
    BY <1>1, <1>4 DEF PatchStep, Locate, PatchRejects, Patched, ApplyPatch, SkipPatch, PatchErrs, Settle, memory, update, disk
  <1>5. CASE LoadOrCreatePolicyFile
    BY <1>5 DEF LoadOrCreatePolicyFile, update, disk, DiskTypes, Stored, NewPolicy, RuleSets
  <1>6. CASE Test
    BY <1>6 DEF Test, update, disk, DiskTypes
  <1>7. CASE Uninstall \/ UninstallFails
    <2>1. UNCHANGED <<pkg, read, policyFile, policy>>
      BY <1>7 DEF Uninstall, UninstallFails, Removed, memory, disk
    <2>2. CASE UNCHANGED disk
      BY <1>1, <2>1, <2>2 DEF disk
    <2>3. CASE \E S \in SUBSET Named(tasks.update) : Removed(S)
      BY <2>1, <2>3, RemovedTyped DEF DiskTypes
    <2>4. QED
      BY <1>7, <2>2, <2>3 DEF Uninstall, UninstallFails
  <1>8. ASSUME NEW k \in Kind, NpmReads(k)
        PROVE  DiskTypes'
    <2>1. manifest.deps \in [Deps -> Nat]
      BY DEF DiskTypes, Package
    <2>2. QED
      BY <1>8, <2>1 DEF NpmReads, memory, disk, DiskTypes
  <1>9. ASSUME NEW k \in Kind, NpmWrites(k)
        PROVE  DiskTypes'
    <2>1. UNCHANGED <<pkg, read, policyFile, policy>>
      BY <1>9 DEF NpmWrites, memory
    <2>2. CASE options.dryRun
      BY <1>1, <1>9, <2>1, <2>2 DEF NpmWrites
    <2>3. CASE ~options.dryRun
      <3>1. FindUpgrades(k, read[k]) \in [Deps -> Nat] /\ FindUpgrades(k, installed) \in [Deps -> Nat]
        BY UpgradesTyped DEF DiskTypes
      <3>2. manifest' = [manifest EXCEPT !.deps = FindUpgrades(k, read[k])] /\ installed' = FindUpgrades(k, installed)
        BY <1>9, <2>3 DEF NpmWrites
      <3>3. manifest' \in Package
        BY <3>1, <3>2 DEF DiskTypes, Package
      <3>4. QED
        BY <2>1, <3>1, <3>2, <3>3 DEF DiskTypes
    <2>4. QED
      BY <2>2, <2>3
  <1>10. ASSUME NEW k \in Kind, NpmFails(k)
         PROVE  DiskTypes'
    BY <1>1, <1>10 DEF NpmFails, memory, disk
  <1>11. CASE Save
    <2>1. Merged \in RuleSets
      <3>1. reported \subseteq Ids \X Routes /\ {Rule(i) : i \in tasks.ignore} \subseteq Ids \X Routes
        BY TasksTyped
      <3>2. QED
        BY <3>1 DEF Merged, DiskTypes, RuleSets
    <2>2. QED
      BY <1>11, <2>1 DEF Save, memory, update, DiskTypes
  <1>12. CASE WritePackage
    BY <1>12, WrittenIs DEF WritePackage, Reread, update, DiskTypes, RunTypes
  <1>13. QED
    BY <1>1, <1>2, <1>3, <1>4, <1>5, <1>6, <1>7, <1>8, <1>9, <1>10, <1>11, <1>12
    DEF Next, WizardStep, UpdateStep, vars, memory, update, disk

(* The queue is what is left of the patches when the answers are processed.*)
LEMMA DedupedIs == ASSUME NEW S PROVE Deduped(S) \subseteq S
PROOF
  BY DEF Deduped

LEMMA StepFlow == ASSUME QInv, FlowInv, Installs, RunTypes, DiskTypes, [Next]_vars PROVE FlowInv'
PROOF
  <1> USE DEF Early, Late
  <1>1. CASE UNCHANGED vars
    BY <1>1 DEF FlowInv, NoTasksYet, TasksAre, NothingDone, NothingPatched, vars, memory, asking, update, patch, disk
  <1>2. CASE AuthFirst \/ Fails \/ TestsReached
    BY <1>2 DEF AuthFirst, Fails, TestsReached, End, FlowInv, NoTasksYet, TasksAre, NothingDone, NothingPatched,
         memory, asking, update, patch, disk
  <1>3. CASE LoadOrCreatePolicyFile \/ Authorize \/ StartOver \/ Test
    BY <1>3 DEF LoadOrCreatePolicyFile, Authorize, StartOver, Test, End, FlowInv, NoTasksYet, TasksAre, NothingDone, NothingPatched,
         asking, update, patch, disk
  <1>4. CASE Ask \/ Pass \/ NextStage
    BY <1>4 DEF Ask, Pass, NextStage, FlowInv, NoTasksYet, TasksAre, NothingDone, NothingPatched, memory, update, patch, disk
  <1>5. CASE ProcessAnswers
    <2>1. phase = "asking" /\ stage = 4 /\ updater = "idle" /\ patcher = "idle"
      BY <1>5 DEF ProcessAnswers, FlowInv, TasksAre
    <2>2. CASE options.json
      BY <1>5, <2>1, <2>2 DEF ProcessAnswers, End, FlowInv, NoTasksYet, TasksAre, NothingDone, NothingPatched, asking, disk
    <2>3. CASE ~options.json
      <3>1. /\ phase' = "tasks" /\ outcome' = outcome /\ tasks' = AnswersToTasks(answers) /\ stage' = 4 /\ answers' = answers
            /\ updater' \in {"done", "uninstall"} /\ patcher' \in {"done", "locate"} /\ options' = options
            /\ queue' = Deduped(tasks'.patch)
            /\ reported' = UNION {Rules(t) : t \in tasks'.patch \ Deduped(tasks'.patch)}
            /\ UNCHANGED disk
        BY <1>5, <2>3 DEF ProcessAnswers, asking
      <3>2. queue' \subseteq tasks'.patch /\ \A rule \in reported' : \E t \in tasks'.patch : rule \in Rules(t)
        BY <3>1, DedupedIs
      <3>3. \A t : Rules(t)' = Rules(t)
        BY DEF Rules
      <3>4. options.json = FALSE /\ outcome # "ok"
        BY <2>1, <2>3, WizardAssumption DEF RunTypes
      <3>5. QED
        BY <2>1, <3>1, <3>2, <3>3, <3>4 DEF FlowInv, NoTasksYet, TasksAre, NothingDone, NothingPatched, disk
    <2>4. QED
      BY <2>2, <2>3
  <1>6. CASE Dies
    BY <1>6 DEF Dies, End, FlowInv, NoTasksYet, TasksAre, NothingDone, NothingPatched, memory, asking, disk
  <1>7. CASE Uninstall \/ UninstallFails
    <2>1. /\ updater = "uninstall" /\ updater' \in {"install", "failed"}
          /\ UNCHANGED <<phase, outcome, memory, asking, patch>>
          /\ UNCHANGED disk \/ (~options.dryRun /\ \E S : Removed(S))
      BY <1>7 DEF Uninstall, UninstallFails
    <2>2. patched = {} => patched' = {}
      BY <2>1 DEF Removed, disk
    <2>3. UNCHANGED disk \/ ~options.dryRun
      BY <2>1
    <2>4. phase \notin Late /\ outcome # "ok"
      BY <2>1 DEF FlowInv
    <2>5. QED
      BY <2>1, <2>2, <2>3, <2>4 DEF FlowInv, NoTasksYet, TasksAre, NothingDone, NothingPatched, memory, asking, patch, disk
  <1>8. ASSUME NEW k \in Kind, NpmReads(k) \/ NpmWrites(k) \/ NpmFails(k)
        PROVE  FlowInv'
    <2>1. npm[k] # "idle"
      BY <1>8 DEF NpmReads, NpmWrites, NpmFails
    <2>2. updater \notin {"idle", "uninstall"}
      BY <2>1 DEF FlowInv, NoTasksYet, Installs
    <2>3. UNCHANGED <<phase, outcome, memory, asking, updater, patch, patched>>
      BY <1>8 DEF NpmReads, NpmWrites, NpmFails, disk
    <2>4. UNCHANGED <<manifest, installed>> \/ ~options.dryRun
      BY <1>8 DEF NpmReads, NpmWrites, NpmFails, disk
    <2>5. QED
      BY <2>2, <2>3, <2>4 DEF FlowInv, NoTasksYet, TasksAre, NothingDone, NothingPatched, memory, asking, patch
  <1>9. CASE Updated
    BY <1>9 DEF Updated, FlowInv, NoTasksYet, TasksAre, NothingDone, NothingPatched, memory, asking, patch, disk
  <1>10. CASE Locate \/ PatchRejects \/ Patched
    <2>1. /\ patcher \in {"locate", "patching"} /\ patcher' \in {"patching", "failed", "done"}
          /\ UNCHANGED <<phase, outcome, memory, asking, update, queue, patchError, reported, disk>>
      BY <1>10 DEF Locate, PatchRejects, Patched
    <2>2. QED
      BY <2>1 DEF FlowInv, NoTasksYet, TasksAre, NothingDone, NothingPatched, memory, asking, update, disk
  <1>11. ASSUME NEW t \in queue, ApplyPatch(t) \/ SkipPatch(t) \/ PatchErrs(t)
         PROVE  FlowInv'
    <2>1. /\ patcher = "patching" /\ queue' \subseteq queue /\ reported' \subseteq reported \cup Rules(t)
          /\ UNCHANGED <<phase, outcome, memory, asking, update, patcher, manifest, installed>>
          /\ patched' = patched \/ ~options.dryRun
      BY <1>11 DEF ApplyPatch, SkipPatch, PatchErrs, Settle
    <2>2. t \in tasks.patch
      BY DEF FlowInv
    <2>3. queue' \subseteq tasks.patch /\ \A rule \in reported' : \E u \in tasks.patch : rule \in Rules(u)
      BY <2>1, <2>2 DEF FlowInv
    <2>4. \A u : Rules(u)' = Rules(u)
      BY DEF Rules
    <2>5. updater # "idle"
      BY <2>1 DEF FlowInv
    <2>6. QED
      BY <2>1, <2>3, <2>4, <2>5 DEF FlowInv, NoTasksYet, TasksAre, NothingDone, NothingPatched, memory, asking, update
  <1>12. CASE GeneratePolicy
    BY <1>12 DEF GeneratePolicy, End, FlowInv, NoTasksYet, TasksAre, NothingDone, NothingPatched, memory, asking, update, patch, disk
  <1>13. CASE TaskRejects \/ Monitor
    BY <1>13 DEF TaskRejects, Monitor, End, FlowInv, NoTasksYet, TasksAre, NothingDone, NothingPatched, memory, asking, update, patch, disk
  <1>14. CASE Save
    BY <1>14 DEF Save, FlowInv, NoTasksYet, TasksAre, NothingDone, NothingPatched, memory, asking, update, patch
  <1>15. CASE WritePackage
    <2>1. /\ phase = "package" /\ phase' = "monitor"
          /\ UNCHANGED <<outcome, options, tasks, asking, update, patch, installed, patched>>
      BY <1>15 DEF WritePackage
    <2>2. updater = "done" /\ patcher = "done" /\ ~options.dryRun
      BY <2>1 DEF FlowInv
    <2>3. QED
      BY <2>1, <2>2 DEF FlowInv, NoTasksYet, TasksAre, NothingDone, NothingPatched, asking, update, patch
  <1>16. QED
    BY <1>1, <1>2, <1>3, <1>4, <1>5, <1>6, <1>7, <1>8, <1>9, <1>10, <1>11, <1>12, <1>13, <1>14, <1>15
    DEF Next, WizardStep, UpdateStep, PatchStep

LEMMA StepInstalls == ASSUME FlowInv, Installs, RunTypes, TaskTypes, [Next]_vars PROVE Installs'
PROOF
  <1> DEFINE Still == /\ UNCHANGED <<updater, npm, tasks>>
                      /\ updater = "done" /\ outcome' # "died" => outcome # "died"
  <1>1. ASSUME Still
        PROVE  Installs'
    <2>1. UNCHANGED <<updater, npm, tasks>> /\ \A k : Of(k)' = Of(k)
      BY <1>1 DEF Of
    <2>2. QED
      BY <1>1, <2>1 DEF Installs
  <1>2. CASE AuthFirst \/ LoadOrCreatePolicyFile \/ Authorize \/ StartOver \/ Test \/ TestsReached
    <2>1. Still
      BY <1>2 DEF AuthFirst, LoadOrCreatePolicyFile, Authorize, StartOver, Test, TestsReached, End, FlowInv, TasksAre,
             RunTypes, Early, memory, update
    <2>2. QED
      BY <1>1, <2>1
  <1>3. CASE Ask \/ Pass \/ NextStage \/ Fails \/ GeneratePolicy \/ TaskRejects \/ Save \/ WritePackage \/ Monitor
    <2>1. Still
      BY <1>3 DEF Ask, Pass, NextStage, Fails, GeneratePolicy, TaskRejects, Save, WritePackage, Monitor, End, RunTypes, memory, update
    <2>2. QED
      BY <1>1, <2>1
  <1>4. CASE PatchStep
    <2>1. Still
      BY <1>4 DEF PatchStep, Locate, PatchRejects, Patched, ApplyPatch, SkipPatch, PatchErrs, Settle, memory, update
    <2>2. QED
      BY <1>1, <2>1
  <1>5. CASE UNCHANGED vars
    <2>1. Still
      BY <1>5 DEF vars, memory, update
    <2>2. QED
      BY <1>1, <2>1
  <1>6. CASE ProcessAnswers
    <2>1. npm' = npm /\ updater = "idle"
      BY <1>6 DEF ProcessAnswers, FlowInv, TasksAre
    <2>2. npm = [k \in Kind |-> "idle"]
      BY <2>1 DEF FlowInv, NoTasksYet
    <2>3. (updater' = "done" /\ tasks'.update = {}) \/ updater' \in {"uninstall", "idle"}
      BY <1>6, <2>1 DEF ProcessAnswers
    <2>4. QED
      BY <2>1, <2>2, <2>3 DEF Installs
  <1>7. CASE Dies
    <2>1. UNCHANGED <<npm, tasks>> /\ updater' = "done" /\ outcome' = "died" /\ \A k : Of(k)' = Of(k)
      BY <1>7 DEF Dies, End, memory, Of
    <2>2. QED
      BY <2>1 DEF Installs
  <1>8. CASE Uninstall
    <2>1. npm' = [k \in Kind |-> IF Of(k) = {} THEN "done" ELSE "started"] /\ updater' = "install" /\ \A k : Of(k)' = Of(k)
      BY <1>8 DEF Uninstall, memory, Of
    <2>2. QED
      BY <2>1 DEF Installs
  <1>9. CASE UninstallFails
    <2>1. updater = "uninstall" /\ updater' = "failed" /\ npm' = npm
      BY <1>9 DEF UninstallFails
    <2>2. QED
      BY <2>1 DEF Installs
  <1>10. CASE Updated
    <2>1. npm' = npm /\ updater' = "done" /\ \A j : Of(j)' = Of(j)
      BY <1>10 DEF Updated, memory, Of
    <2>2. \A k \in Kind : npm'[k] \in {"done", "failed"}
      BY <1>10, <2>1 DEF Updated
    <2>3. \A k \in Kind : npm'[k] \in {"started", "read", "failed"} => Of(k)' # {}
      BY <2>1 DEF Installs
    <2>4. QED
      BY <2>1, <2>2, <2>3 DEF Installs
  <1>11. ASSUME NEW k \in Kind, NpmReads(k) \/ NpmWrites(k) \/ NpmFails(k)
         PROVE  Installs'
    <2>1. /\ npm[k] \in {"started", "read"} /\ UNCHANGED <<tasks, updater, outcome>> /\ \A j : Of(j)' = Of(j)
          /\ \E s \in {"read", "done", "failed"} : npm' = [npm EXCEPT ![k] = s]
      BY <1>11 DEF NpmReads, NpmWrites, NpmFails, memory, Of
    <2>2. /\ npm'[k] \in {"read", "done", "failed"} /\ \A j \in Kind \ {k} : npm'[j] = npm[j]
      BY <2>1 DEF TaskTypes
    <2>3. updater \notin {"uninstall", "failed"}
      BY <2>1 DEF Installs
    <2>4. Of(k) # {}
      BY <2>1 DEF Installs
    <2>5. ~(updater = "done" /\ outcome # "died")
      BY <2>1 DEF Installs
    <2>6. \A j \in Kind : npm'[j] # "idle" \/ (j # k /\ npm'[j] = npm[j])
      BY <2>2
    <2>7. ASSUME NEW j \in Kind, npm'[j] \in {"started", "read", "failed"}
          PROVE  Of(j)' # {}
      <3>1. Of(j)' = Of(j)
        BY <2>1
      <3>2. CASE j = k
        BY <2>4, <3>1, <3>2
      <3>3. CASE j # k
        <4>1. npm[j] \in {"started", "read", "failed"}
          BY <2>2, <2>7, <3>3
        <4>2. QED
          BY <3>1, <4>1 DEF Installs
      <3>4. QED
        BY <3>2, <3>3
    <2>8. updater' = "install" => \A j \in Kind : npm'[j] # "idle"
      BY <2>1, <2>6 DEF Installs
    <2>9. QED
      BY <2>1, <2>3, <2>5, <2>7, <2>8 DEF Installs
  <1>12. QED
    BY <1>2, <1>3, <1>4, <1>5, <1>6, <1>7, <1>8, <1>9, <1>10, <1>11 DEF Next, WizardStep, UpdateStep

-----------------------------------------------------------------------------
(* .snyk holds what was loaded until it is saved, then what was merged.    *)
PolicyInv ==
  /\ phase \notin {"idle", "ended", "package", "monitor"} => policyFile = Stored(policy)
  /\ phase \in {"package", "monitor"} \/ outcome = "ok" => policy = Merged

LEMMA StepPolicy == ASSUME FlowInv, PolicyInv, RunTypes, [Next]_vars PROVE PolicyInv'
PROOF
  <1>1. ASSUME UNCHANGED <<phase, outcome, policyFile, policy>>, UNCHANGED <<tasks, reported>> \/ (phase \notin Late /\ outcome # "ok")
        PROVE  PolicyInv'
    <2>1. CASE UNCHANGED <<tasks, reported>>
      BY <1>1, <2>1 DEF PolicyInv, Merged, Stored
    <2>2. CASE phase \notin Late /\ outcome # "ok"
      BY <1>1, <2>2 DEF PolicyInv, Late, Stored
    <2>3. QED
      BY <1>1, <2>1, <2>2
  <1>2. CASE AuthFirst \/ Ask \/ Pass \/ NextStage
    BY <1>1, <1>2, Zenon DEF AuthFirst, Ask, Pass, NextStage, memory, patch, disk
  <1>3. CASE UpdateStep
    BY <1>1, <1>3, Zenon DEF UpdateStep, Uninstall, UninstallFails, Updated, NpmReads, NpmWrites, NpmFails, Removed, memory, patch, disk
  <1>4. CASE Locate \/ PatchRejects \/ Patched \/ UNCHANGED vars
    BY <1>1, <1>4, Zenon DEF Locate, PatchRejects, Patched, memory, patch, disk, vars
  <1>5. ASSUME NEW t \in queue, ApplyPatch(t) \/ SkipPatch(t) \/ PatchErrs(t)
        PROVE  PolicyInv'
    <2>1. patcher = "patching" /\ UNCHANGED <<phase, outcome, policyFile, policy>>
      BY <1>5 DEF ApplyPatch, SkipPatch, PatchErrs, Settle, memory
    <2>2. QED
      BY <1>1, <2>1 DEF FlowInv
  <1>6. CASE LoadOrCreatePolicyFile
    BY <1>6 DEF LoadOrCreatePolicyFile, PolicyInv, disk, Stored, RunTypes
  <1>7. CASE Authorize \/ StartOver \/ Test
    BY <1>7 DEF Authorize, StartOver, Test, End, PolicyInv, disk, Stored, RunTypes
  <1>8. CASE TestsReached \/ Dies \/ TaskRejects \/ Fails
    BY <1>8 DEF TestsReached, Dies, TaskRejects, Fails, End, PolicyInv
  <1>9. CASE GeneratePolicy
    BY <1>9 DEF GeneratePolicy, End, PolicyInv, memory, disk, Stored, RunTypes
  <1>10. CASE ProcessAnswers
    BY <1>10 DEF ProcessAnswers, End, PolicyInv, disk, Stored, RunTypes
  <1>11. CASE Save
    <2>1. policy' = Merged /\ phase' = "package" /\ UNCHANGED <<policyFile, tasks, reported>>
      BY <1>11 DEF Save, memory, patch
    <2>2. QED
      BY <2>1 DEF PolicyInv, Merged
  <1>12. CASE WritePackage
    <2>1. phase = "package" /\ phase' = "monitor" /\ UNCHANGED <<outcome, policy, policyFile, tasks, reported>>
      BY <1>12 DEF WritePackage, patch
    <2>2. QED
      BY <2>1 DEF PolicyInv, Merged
  <1>13. CASE Monitor
    <2>1. phase = "monitor" /\ phase' = "ended" /\ UNCHANGED <<policy, policyFile, tasks, reported>>
      BY <1>13 DEF Monitor, End, memory, patch, disk
    <2>2. QED
      BY <2>1 DEF PolicyInv, Merged
  <1>14. QED
    BY <1>2, <1>3, <1>4, <1>5, <1>6, <1>7, <1>8, <1>9, <1>10, <1>11, <1>12, <1>13 DEF Next, WizardStep, PatchStep

-----------------------------------------------------------------------------
(* Patches: of those for one route one is in the queue.                    *)
LEMMA Largest ==
  ASSUME NEW f \in [DOMAIN List -> Nat], NEW S \in SUBSET DOMAIN List, S # {}
  PROVE  \E i \in S : \A j \in S : f[j] <= f[i]
PROOF
  <1> DEFINE Tops(i, T) == \A j \in T : f[j] <= f[i]
             Bad == {n \in Nat : \E T \in SUBSET DOMAIN List : T # {} /\ T \subseteq 1..n /\ ~\E i \in T : Tops(i, T)}
  <1>1. SUFFICES ASSUME Bad # {}
                 PROVE  FALSE
    <2>1. S \subseteq 1..Len(List) /\ Len(List) \in Nat
      BY ListIs
    <2>2. QED
      BY <2>1
  <1>2. PICK m \in Bad : \A n \in Bad : m <= n
    <2>1. Bad \in SUBSET Nat
      OBVIOUS
    <2>2. QED
      BY <1>1, <2>1, Least
  <1>3. PICK T \in SUBSET DOMAIN List : T # {} /\ T \subseteq 1..m /\ ~\E i \in T : Tops(i, T)
    BY <1>2
  <1>4. m \in Nat /\ m # 0
    BY <1>2, <1>3
  <1>5. m - 1 \in Nat /\ m - 1 \notin Bad
    BY <1>2, <1>4
  <1>6. \A U \in SUBSET DOMAIN List : U # {} /\ U \subseteq 1..(m - 1) => \E i \in U : Tops(i, U)
    BY <1>5
  <1>7. T \ {m} \subseteq 1..(m - 1)
    BY <1>3, <1>4
  <1> HIDE DEF Bad
  <1>8. m \in T
    BY <1>3, <1>6, <1>7
  <1>9. \A i \in DOMAIN List : f[i] \in Nat
    OBVIOUS
  <1>10. T \ {m} # {}
    BY <1>3, <1>8, <1>9
  <1>11. PICK i \in T \ {m} : Tops(i, T \ {m})
    BY <1>3, <1>6, <1>7, <1>10
  <1>12. f[i] \in Nat /\ f[m] \in Nat /\ \A j \in T : f[j] \in Nat
    BY <1>3, <1>8, <1>9, <1>11
  <1>13. CASE f[m] <= f[i]
    <2>1. Tops(i, T)
      BY <1>11, <1>13
    <2>2. QED
      BY <1>3, <1>11, <2>1
  <1>14. CASE f[i] < f[m]
    <2>1. Tops(m, T)
      BY <1>11, <1>12, <1>14
    <2>2. QED
      BY <1>3, <1>8, <2>1
  <1>15. QED
    BY <1>12, <1>13, <1>14

LEMMA DedupedHas ==
  ASSUME NEW S, \A t \in S : \E j \in DOMAIN List : t.published = List[j].published, NEW t \in S
  PROVE  \E u \in Deduped(S) : List[u.at].route = List[t.at].route
PROOF
  <1> DEFINE Same == {x \in S : List[x.at].route = List[t.at].route}
             f == [j \in DOMAIN List |-> List[j].published]
             J == {j \in DOMAIN List : \E x \in Same : x.published = List[j].published}
  <1>1. f \in [DOMAIN List -> Nat]
    BY ListIs
  <1>2. J \in SUBSET DOMAIN List /\ J # {}
    OBVIOUS
  <1>3. PICK i \in J : \A j \in J : f[j] <= f[i]
    <2> HIDE DEF J, f
    <2>1. QED
      BY <1>1, <1>2, Largest
  <1> DEFINE p == List[i].published
             Top(x) == x \in S /\ List[x.at].route = List[t.at].route /\ x.published = p
             u == CHOOSE x \in S : List[x.at].route = List[t.at].route /\ x.published = p
  <1>4. u \in S /\ List[u.at].route = List[t.at].route /\ u.published = p
    BY <1>3
  <1>5. p \in Nat
    BY <1>3, ListIs
  <1>6. \A x \in Same : x.published <= p
    BY <1>3
  <1>7. ASSUME NEW x \in S, List[x.at].route = List[u.at].route
        PROVE  \/ x.published < u.published
               \/ /\ x.published = u.published
                  /\ u = CHOOSE y \in S : List[y.at].route = List[u.at].route /\ y.published = u.published
    <2>1. x.published \in Nat /\ x.published <= p
      <3>1. x \in Same
        BY <1>4, <1>7
      <3>2. PICK j \in DOMAIN List : x.published = List[j].published
        OBVIOUS
      <3> HIDE DEF p
      <3>3. QED
        BY <1>6, <3>1, <3>2, ListIs
    <2>2. u = CHOOSE y \in S : List[y.at].route = List[u.at].route /\ y.published = u.published
      <3>1. u = CHOOSE y \in S : List[y.at].route = List[t.at].route /\ y.published = p
        OBVIOUS
      <3> HIDE DEF u, p
      <3>2. QED
        BY <1>4, <3>1
    <2> HIDE DEF u, p
    <2>3. x.published < p \/ x.published = p
      BY <1>5, <2>1
    <2>4. QED
      BY <1>4, <2>2, <2>3
  <1>8. u \in Deduped(S)
    <2> HIDE DEF u
    <2>1. QED
      BY <1>4, <1>7 DEF Deduped
  <1>9. QED
    BY <1>4, <1>8

(* A path that has left the queue was reported, and is on the disk unless  *)
(* its package is upgraded; otherwise an error is kept.                    *)
Kept(t) == \E p \in patched : List[p[2]].route = List[t.at].route
PatchInv ==
  /\ patched \subseteq Ids \X found
  /\ \A t \in tasks.patch : t \in queue \/ patchError \/ Rules(t) \subseteq reported
  /\ \A t \in Deduped(tasks.patch) :
       t \in queue \/ patchError \/ options.dryRun \/ Kept(t) \/ List[t.at].dep \in Named(tasks.update)
  /\ patcher = "done" /\ outcome # "died" => queue = {} /\ ~patchError

(* Only what was to be upgraded has been installed anew.                   *)
OthersKept == \A d \in Deps : d \in Named(tasks.update) \/ installed[d] = Base[d]

LEMMA StepPatchInv ==
  ASSUME QInv, FlowInv, RunTypes, TaskTypes, PatchInv, OthersKept, [Next]_vars
  PROVE  PatchInv'
PROOF
  <1> DEFINE Still == /\ UNCHANGED <<tasks, options, patch, found>>
                      /\ patcher = "done" /\ outcome' # "died" => outcome # "died"
  <1>1. (\A t : Rules(t)' = Rules(t)) /\ (\A S : Deduped(S)' = Deduped(S)) /\ (\A S : Named(S)' = Named(S))
    BY DEF Rules, Deduped, Named
  <1>2. ASSUME Still, patched' = patched
        PROVE  PatchInv'
    <2>1. UNCHANGED <<tasks, options, patcher, queue, patchError, reported, patched, found>>
      BY <1>2 DEF patch
    <2>2. QED
      BY <1>1, <1>2, <2>1 DEF PatchInv, Kept
  <1>3. ASSUME Still, NEW S \in SUBSET Named(tasks.update), patched' = {p \in patched : List[p[2]].dep \notin S}
        PROVE  PatchInv'
    <2>1. UNCHANGED <<tasks, options, patcher, queue, patchError, reported, found>>
      BY <1>3 DEF patch
    <2>2. ASSUME NEW t \in Deduped(tasks.patch), Kept(t)
          PROVE  Kept(t)' \/ List[t.at].dep \in Named(tasks.update)
      <3>1. PICK p \in patched : List[p[2]].route = List[t.at].route
        BY <2>2 DEF Kept
      <3>2. p[2] \in DOMAIN List /\ t.at \in DOMAIN List
        BY DedupedIs, TasksTyped DEF PatchInv
      <3>3. List[p[2]].dep = List[t.at].dep
        BY <3>1, <3>2, ListAssumption
      <3>4. QED
        BY <1>3, <3>1, <3>3 DEF Kept
    <2>3. patched' \subseteq patched
      BY <1>3
    <2>4. \A t \in Deduped(tasks.patch) :
            t \in queue \/ patchError \/ options.dryRun \/ Kept(t)' \/ List[t.at].dep \in Named(tasks.update)
      BY <2>2 DEF PatchInv
    <2>5. QED
      BY <1>1, <1>3, <2>1, <2>3, <2>4 DEF PatchInv
  <1>4. CASE AuthFirst \/ LoadOrCreatePolicyFile \/ Authorize \/ StartOver \/ TestsReached
    <2>1. Still /\ patched' = patched
      BY <1>4 DEF AuthFirst, LoadOrCreatePolicyFile, Authorize, StartOver, TestsReached, End, FlowInv, TasksAre, RunTypes, Early,
           memory, patch, disk
    <2>2. QED
      BY <1>2, <2>1
  <1>5. CASE Test
    <2>1. phase = "test" /\ UNCHANGED <<tasks, options, patch, disk>>
      BY <1>5 DEF Test
    <2>2. patcher = "idle"
      BY <2>1 DEF FlowInv, TasksAre, Early
    <2>3. patched' = {} /\ tasks' = NoTasks /\ patcher' = "idle"
      BY <2>1, <2>2 DEF FlowInv, NothingPatched, NoTasksYet, patch, disk
    <2>4. Deduped(tasks'.patch) = {}
      BY <2>3, DedupedIs DEF NoTasks
    <2>5. QED
      BY <1>1, <2>3, <2>4 DEF PatchInv, NoTasks
  <1>6. CASE Ask \/ Pass \/ NextStage \/ Fails \/ GeneratePolicy \/ TaskRejects \/ Save \/ WritePackage \/ Monitor
    <2>1. Still /\ patched' = patched
      BY <1>6 DEF Ask, Pass, NextStage, Fails, GeneratePolicy, TaskRejects, Save, WritePackage, Monitor, End, RunTypes, memory, patch, disk
    <2>2. QED
      BY <1>2, <2>1
  <1>7. CASE UNCHANGED vars
    <2>1. Still /\ patched' = patched
      BY <1>7 DEF vars, memory, patch, disk
    <2>2. QED
      BY <1>2, <2>1
  <1>8. CASE Uninstall \/ UninstallFails
    <2>1. Still /\ (patched' = patched \/ \E S \in SUBSET Named(tasks.update) : Removed(S))
      BY <1>8 DEF Uninstall, UninstallFails, memory, disk
    <2>2. QED
      BY <1>2, <1>3, <2>1 DEF Removed
  <1>9. CASE Updated \/ \E k \in Kind : NpmReads(k) \/ NpmWrites(k) \/ NpmFails(k)
    <2>1. Still /\ patched' = patched
      BY <1>9 DEF Updated, NpmReads, NpmWrites, NpmFails, memory, disk
    <2>2. QED
      BY <1>2, <2>1
  <1>10. CASE ProcessAnswers
    <2>1. patcher = "idle" /\ UNCHANGED <<options, patchError, disk, found>> /\ patched = {}
      BY <1>10 DEF ProcessAnswers, FlowInv, TasksAre, NothingPatched
    <2>2. CASE options.json
      <3>1. Still /\ patched' = patched
        BY <1>10, <2>1, <2>2 DEF ProcessAnswers, End, patch, disk, RunTypes
      <3>2. QED
        BY <1>2, <3>1
    <2>3. CASE ~options.json
      <3>1. /\ patcher' = (IF tasks'.patch = {} THEN "done" ELSE "locate") /\ queue' = Deduped(tasks'.patch)
            /\ reported' = UNION {Rules(t) : t \in tasks'.patch \ Deduped(tasks'.patch)}
        BY <1>10, <2>3 DEF ProcessAnswers
      <3>2. \A t \in tasks'.patch : t \in queue' \/ Rules(t) \subseteq reported'
        BY <3>1
      <3>3. patcher' = "done" => queue' = {}
        BY <3>1, DedupedIs
      <3>4. patchError' = FALSE /\ patched' = {}
        BY <2>1 DEF FlowInv, NoTasksYet, disk
      <3>5. QED
        BY <1>1, <3>1, <3>2, <3>3, <3>4 DEF PatchInv
    <2>4. QED
      BY <2>2, <2>3
  <1>11. CASE Dies
    <2>1. UNCHANGED <<tasks, options, queue, patchError, reported, patched, found>> /\ outcome' = "died"
      BY <1>11 DEF Dies, End, memory, disk
    <2>2. QED
      BY <1>1, <2>1 DEF PatchInv, Kept
  <1>12. CASE Locate \/ PatchRejects
    <2>1. UNCHANGED <<tasks, options, queue, patchError, reported, patched, found>> /\ patcher' # "done"
      BY <1>12 DEF Locate, PatchRejects, memory, disk
    <2>2. QED
      BY <1>1, <2>1 DEF PatchInv, Kept
  <1>13. CASE Patched
    <2>1. UNCHANGED <<tasks, options, queue, patchError, reported, patched, found>> /\ (patcher' = "done" => queue = {} /\ ~patchError)
      BY <1>13 DEF Patched, memory, disk
    <2>2. QED
      BY <1>1, <2>1 DEF PatchInv, Kept
  <1>14. ASSUME NEW t \in queue, ApplyPatch(t) \/ SkipPatch(t) \/ PatchErrs(t)
         PROVE  PatchInv'
    <2>1. /\ patcher = "patching" /\ patcher' = patcher /\ queue' = queue \ {t} /\ UNCHANGED <<tasks, options, found>>
          /\ reported \subseteq reported' /\ patched \subseteq patched'
          /\ patchError' = patchError \/ patchError' = TRUE
      BY <1>14 DEF ApplyPatch, SkipPatch, PatchErrs, Settle, memory
    <2>2. t \in tasks.patch /\ t.at \in found /\ t.id \in Ids /\ found \subseteq DOMAIN List
      BY TasksTyped DEF FlowInv
    <2>3. patchError' \/ Rules(t) \subseteq reported'
      BY <1>14 DEF ApplyPatch, SkipPatch, PatchErrs, Settle
    <2>4. patchError' \/ options.dryRun \/ Kept(t)' \/ List[t.at].dep \in Named(tasks.update)
      <3>1. CASE ApplyPatch(t)
        <4>1. options.dryRun \/ <<t.id, t.at>> \in patched'
          BY <3>1 DEF ApplyPatch
        <4>2. <<t.id, t.at>>[2] = t.at
          OBVIOUS
        <4>3. QED
          BY <4>1, <4>2 DEF Kept
      <3>2. CASE SkipPatch(t)
        <4>1. List[t.at].dep \in Deps /\ installed[List[t.at].dep] # Base[List[t.at].dep]
          BY <2>2, <3>2, ListIs DEF SkipPatch
        <4>2. QED
          BY <4>1 DEF OthersKept
      <3>3. CASE PatchErrs(t)
        BY <3>3 DEF PatchErrs
      <3>4. QED
        BY <1>14, <3>1, <3>2, <3>3
    <2>5. patched' \subseteq Ids \X found
      BY <1>14, <2>2 DEF ApplyPatch, SkipPatch, PatchErrs, PatchInv
    <2>6. \A u \in Deduped(tasks.patch) : Kept(u) => Kept(u)'
      BY <2>1 DEF Kept
    <2>7. \A u \in tasks.patch : u \in queue' \/ patchError' \/ Rules(u) \subseteq reported'
      BY <2>1, <2>3 DEF PatchInv
    <2>8. \A u \in Deduped(tasks.patch) :
            u \in queue' \/ patchError' \/ options.dryRun \/ Kept(u)' \/ List[u.at].dep \in Named(tasks.update)
      BY <2>1, <2>4, <2>6 DEF PatchInv
    <2>9. QED
      BY <1>1, <2>1, <2>5, <2>7, <2>8 DEF PatchInv
  <1>15. QED
    BY <1>4, <1>5, <1>6, <1>7, <1>8, <1>9, <1>10, <1>11, <1>12, <1>13, <1>14
    DEF Next, WizardStep, UpdateStep, PatchStep

-----------------------------------------------------------------------------
(* Upgrades. Where only one install runs, package.json agrees with what is *)
(* installed; an install that is done has brought about its versions, and  *)
(* what was asked for is in package.json once the wizard has written it.   *)
Agree ==
  Of("prod") = {} \/ Of("dev") = {} =>
    /\ manifest.deps = installed
    /\ \A k \in Kind : npm[k] = "read" => read[k] = installed
InstallsDone ==
  ~options.dryRun => \A k \in Kind : npm[k] = "done" => \A d \in Named(Of(k)) : installed[d] = Highest(k, d)
ScriptsWritten ==
  phase = "monitor" \/ outcome = "ok" =>
    /\ "test" \in steps => manifest.test
    /\ "protect" \in steps => manifest.protect # "none" /\ manifest.snyk = "prod"
UpgradeInv == OthersKept /\ Agree /\ InstallsDone /\ ScriptsWritten

LEMMA NamedKinds ==
  ASSUME QInv, FlowInv, NEW d \in Named(tasks.update)
  PROVE  \E k \in Kind : d \in Named(Of(k))
PROOF
  <1>1. PICK i \in tasks.update : List[i].dep = d
    BY DEF Named
  <1>2. i \in DOMAIN List /\ List[i].depType # "extraneous"
    BY UpdateTasksAre DEF CanBeUpgraded
  <1>3. List[i].depType \in Kind
    BY <1>2, ListIs DEF Kind
  <1>4. QED
    BY <1>1, <1>3 DEF Of, Named

LEMMA KindsApart ==
  ASSUME QInv, FlowInv, NEW j \in Kind, NEW k \in Kind, NEW d \in Named(Of(j)), d \in Named(Of(k))
  PROVE  j = k
PROOF
  <1>1. PICK i \in Of(j) : List[i].dep = d
    BY DEF Named
  <1>2. PICK l \in Of(k) : List[l].dep = d
    BY DEF Named
  <1>3. i \in DOMAIN List /\ l \in DOMAIN List
    BY <1>1, <1>2, UpdateTasksAre DEF Of
  <1>4. List[i].depType = List[l].depType
    BY <1>1, <1>2, <1>3, ListAssumption
  <1>5. QED
    BY <1>1, <1>2, <1>4 DEF Of

(* The uninstalling of some.                                               *)
LEMMA RemovedUpgrades ==
  ASSUME QInv, FlowInv, DiskTypes, UpgradeInv, Installs, NEW S \in SUBSET Named(tasks.update), Removed(S),
         updater = "uninstall", UNCHANGED <<tasks, options, read, steps, phase, outcome>>,
         \A k \in Kind : npm'[k] \in {"idle", "started"} \/ (npm'[k] = "done" /\ Of(k) = {})
  PROVE  UpgradeInv'
PROOF
  <1>1. /\ manifest'.deps = [d \in Deps |-> IF d \in S THEN 0 ELSE manifest.deps[d]]
        /\ installed' = [d \in Deps |-> IF d \in S THEN 0 ELSE installed[d]]
    BY RemovedTyped
  <1>2. (\A k : Of(k)' = Of(k)) /\ (\A T : Named(T)' = Named(T)) /\ \A k, d : Highest(k, d)' = Highest(k, d)
    BY DEF Of, Named, Highest
  <1>3. OthersKept'
    BY <1>1, <1>2 DEF UpgradeInv, OthersKept
  <1>4. Agree'
    <2>1. \A k \in Kind : npm'[k] # "read"
      OBVIOUS
    <2>2. manifest.deps = installed => manifest'.deps = installed'
      BY <1>1
    <2>3. QED
      BY <1>2, <2>1, <2>2 DEF UpgradeInv, Agree
  <1>5. InstallsDone'
    BY <1>2 DEF InstallsDone, Named
  <1>6. phase # "monitor" /\ outcome # "ok"
    BY DEF FlowInv, Late
  <1>7. QED
    BY <1>3, <1>4, <1>5, <1>6 DEF UpgradeInv, ScriptsWritten

(* An install that ends well.                                              *)
LEMMA WritesUpgrades ==
  ASSUME QInv, FlowInv, RunTypes, DiskTypes, TaskTypes, UpgradeInv, Installs, NEW k \in Kind, NpmWrites(k), ~options.dryRun
  PROVE  UpgradeInv'
PROOF
  <1>1. /\ npm[k] = "read" /\ npm' = [npm EXCEPT ![k] = "done"] /\ UNCHANGED <<tasks, options, read, phase, outcome, updater>>
        /\ manifest' = [manifest EXCEPT !.deps = FindUpgrades(k, read[k])] /\ installed' = FindUpgrades(k, installed)
    BY DEF NpmWrites, memory
  <1>2. (\A j : Of(j)' = Of(j)) /\ (\A T : Named(T)' = Named(T)) /\ \A j, d : Highest(j, d)' = Highest(j, d)
    BY <1>1 DEF Of, Named, Highest
  <1>3. manifest'.deps = FindUpgrades(k, read[k])
    BY <1>1 DEF DiskTypes, Package
  <1>4. npm'[k] = "done" /\ \A j \in Kind \ {k} : npm'[j] = npm[j]
    BY <1>1 DEF TaskTypes
  <1>5. \A d \in Deps : installed'[d] = IF d \in Named(Of(k)) THEN Highest(k, d) ELSE installed[d]
    BY <1>1 DEF FindUpgrades
  <1>6. Named(Of(k)) \subseteq Named(tasks.update) /\ Named(tasks.update) \subseteq Deps
    BY UpdateTasksAre DEF Of, Named
  <1>7. OthersKept'
    BY <1>1, <1>2, <1>5, <1>6 DEF UpgradeInv, OthersKept
  <1>8. Agree'
    <2>1. Of(k) # {}
      BY <1>1 DEF Installs
    <2>2. ASSUME Of("prod") = {} \/ Of("dev") = {}
          PROVE  /\ manifest'.deps = installed'
                 /\ \A j \in Kind : npm'[j] # "read"
      <3>1. read[k] = installed
        BY <1>1, <2>2 DEF UpgradeInv, Agree
      <3>2. manifest'.deps = installed'
        BY <1>1, <1>3, <3>1
      <3>3. ASSUME NEW j \in Kind, npm'[j] = "read"
            PROVE  FALSE
        <4>1. j # k /\ npm[j] = "read"
          BY <1>4, <3>3
        <4>2. Of(j) # {}
          BY <4>1 DEF Installs
        <4>3. QED
          BY <2>1, <2>2, <4>1, <4>2 DEF Kind
      <3>4. QED
        BY <3>2, <3>3
    <2>3. QED
      BY <1>2, <2>2 DEF Agree
  <1>9. InstallsDone'
    <2>1. ASSUME NEW j \in Kind, npm'[j] = "done", NEW d \in Named(Of(j))
          PROVE  installed'[d] = Highest(j, d)
      <3>1. d \in Deps
        BY UpdateTasksAre DEF Of, Named
      <3>2. CASE j = k
        BY <1>5, <3>1, <3>2
      <3>3. CASE j # k
        <4>1. d \notin Named(Of(k))
          BY <3>3, KindsApart
        <4>2. npm[j] = "done"
          BY <1>4, <2>1, <3>3
        <4>3. installed[d] = Highest(j, d)
          BY <4>2 DEF UpgradeInv, InstallsDone
        <4>4. QED
          BY <1>5, <3>1, <4>1, <4>3
      <3>4. QED
        BY <3>2, <3>3
    <2>2. QED
      BY <1>2, <2>1 DEF InstallsDone
  <1>10. phase # "monitor" /\ outcome # "ok"
    <2>1. CASE updater # "done"
      BY <2>1 DEF FlowInv, Late
    <2>2. CASE updater = "done"
      <3>1. outcome = "died"
        BY <1>1, <2>2 DEF Installs
      <3>2. QED
        BY <3>1 DEF RunTypes
    <2>3. QED
      BY <2>1, <2>2
  <1>11. QED
    BY <1>1, <1>7, <1>8, <1>9, <1>10 DEF UpgradeInv, ScriptsWritten

LEMMA StepUpgrades ==
  ASSUME QInv, FlowInv, Installs, RunTypes, TaskTypes, DiskTypes, UpgradeInv, [Next]_vars
  PROVE  UpgradeInv'
PROOF
  <1>1. ASSUME UNCHANGED <<tasks, options, npm, read, manifest, installed, steps>>,
               phase' = "monitor" \/ outcome' = "ok" => phase = "monitor" \/ outcome = "ok"
        PROVE  UpgradeInv'
    <2>1. (\A k : Of(k)' = Of(k)) /\ (\A T : Named(T)' = Named(T)) /\ \A k, d : Highest(k, d)' = Highest(k, d)
      BY <1>1 DEF Of, Named, Highest
    <2>2. OthersKept' /\ Agree'
      BY <1>1, <2>1 DEF UpgradeInv, OthersKept, Agree
    <2>3. InstallsDone'
      BY <1>1, <2>1 DEF UpgradeInv, InstallsDone
    <2>4. ScriptsWritten'
      BY <1>1 DEF UpgradeInv, ScriptsWritten
    <2>5. QED
      BY <2>2, <2>3, <2>4 DEF UpgradeInv
  <1>2. CASE AuthFirst \/ LoadOrCreatePolicyFile \/ Authorize \/ StartOver \/ Test \/ TestsReached
    BY <1>1, <1>2 DEF AuthFirst, LoadOrCreatePolicyFile, Authorize, StartOver, Test, TestsReached, End, memory, update, disk
  <1>3. CASE Ask \/ Pass \/ NextStage
    BY <1>1, <1>3 DEF Ask, Pass, NextStage, memory, update, disk
  <1>4. CASE Dies \/ Fails \/ GeneratePolicy \/ TaskRejects \/ Save \/ Monitor
    BY <1>1, <1>4 DEF Dies, Fails, GeneratePolicy, TaskRejects, Save, Monitor, End, memory, update, disk
  <1>5. CASE PatchStep
    BY <1>1, <1>5 DEF PatchStep, Locate, PatchRejects, Patched, ApplyPatch, SkipPatch, PatchErrs, Settle, memory, update, disk
  <1>6. CASE UNCHANGED vars \/ Updated
    BY <1>1, <1>6 DEF vars, Updated, memory, update, disk
  <1>7. CASE ProcessAnswers
    <2>1. /\ updater = "idle" /\ UNCHANGED <<options, npm, read, disk>> /\ phase' # "monitor" /\ outcome' # "ok"
      BY <1>7 DEF ProcessAnswers, End, FlowInv, TasksAre, NoTasksYet, Late
    <2>2. npm' = [k \in Kind |-> "idle"] /\ manifest'.deps = Base /\ installed' = Base
      BY <2>1 DEF FlowInv, NoTasksYet, NothingDone, disk
    <2>3. \A k \in Kind : npm'[k] = "idle"
      BY <2>2
    <2>4. QED
      BY <2>1, <2>2, <2>3 DEF UpgradeInv, OthersKept, Agree, InstallsDone, ScriptsWritten
  <1>8. CASE Uninstall
    <2>1. /\ updater = "uninstall" /\ npm' = [k \in Kind |-> IF Of(k) = {} THEN "done" ELSE "started"]
          /\ UNCHANGED <<tasks, options, read, steps, phase, outcome>>
      BY <1>8 DEF Uninstall, memory
    <2>2. \A k \in Kind : npm'[k] = "started" \/ (npm'[k] = "done" /\ Of(k) = {})
      BY <2>1
    <2>3. CASE ~options.dryRun
      <3>1. Removed(Named(tasks.update))
        BY <1>8, <2>3 DEF Uninstall
      <3>2. QED
        BY <2>1, <2>2, <3>1, RemovedUpgrades
    <2>4. CASE options.dryRun
      <3>1. UNCHANGED <<manifest, installed>>
        BY <1>8, <2>4 DEF Uninstall, disk
      <3>2. (\A k : Of(k)' = Of(k)) /\ \A T : Named(T)' = Named(T)
        BY <2>1 DEF Of, Named
      <3>3. OthersKept' /\ Agree'
        BY <2>1, <2>2, <3>1, <3>2 DEF UpgradeInv, OthersKept, Agree
      <3>4. InstallsDone' /\ ScriptsWritten'
        BY <2>1, <2>4, <3>1 DEF UpgradeInv, InstallsDone, ScriptsWritten
      <3>5. QED
        BY <3>3, <3>4 DEF UpgradeInv
    <2>5. QED
      BY <2>3, <2>4
  <1>9. CASE UninstallFails
    <2>1. updater = "uninstall" /\ npm' = npm /\ UNCHANGED <<tasks, options, read, steps, phase, outcome>>
      BY <1>9 DEF UninstallFails, memory
    <2>2. \A k \in Kind : npm'[k] = "idle"
      BY <2>1 DEF Installs
    <2>3. PICK S \in SUBSET Named(tasks.update) : Removed(S)
      BY <1>9 DEF UninstallFails
    <2>4. QED
      BY <2>1, <2>2, <2>3, RemovedUpgrades
  <1>10. ASSUME NEW k \in Kind, NpmReads(k)
         PROVE  UpgradeInv'
    <2>1. /\ npm' = [npm EXCEPT ![k] = "read"] /\ read' = [read EXCEPT ![k] = manifest.deps]
          /\ UNCHANGED <<tasks, options, manifest, installed, steps, phase, outcome>>
      BY <1>10 DEF NpmReads, memory, disk
    <2>2. (\A j : Of(j)' = Of(j)) /\ (\A T : Named(T)' = Named(T)) /\ \A j, d : Highest(j, d)' = Highest(j, d)
      BY <2>1 DEF Of, Named, Highest
    <2>3. /\ npm'[k] = "read" /\ read'[k] = manifest.deps
          /\ \A j \in Kind \ {k} : npm'[j] = npm[j] /\ read'[j] = read[j]
      BY <2>1 DEF TaskTypes, DiskTypes
    <2>4. OthersKept' /\ ScriptsWritten'
      BY <2>1, <2>2 DEF UpgradeInv, OthersKept, ScriptsWritten
    <2>5. Agree'
      BY <2>1, <2>2, <2>3 DEF UpgradeInv, Agree
    <2>6. InstallsDone'
      <3>1. \A j \in Kind : npm'[j] = "done" => npm[j] = "done"
        BY <2>3
      <3>2. QED
        BY <2>1, <2>2, <3>1 DEF UpgradeInv, InstallsDone
    <2>7. QED
      BY <2>4, <2>5, <2>6 DEF UpgradeInv
  <1>11. ASSUME NEW k \in Kind, NpmWrites(k)
         PROVE  UpgradeInv'
    <2>1. CASE ~options.dryRun
      BY <1>11, <2>1, WritesUpgrades
    <2>2. CASE options.dryRun
      <3>1. /\ npm' = [npm EXCEPT ![k] = "done"] /\ UNCHANGED <<tasks, options, read, manifest, installed, steps, phase, outcome>>
        BY <1>11, <2>2 DEF NpmWrites, memory
      <3>2. (\A j : Of(j)' = Of(j)) /\ \A T : Named(T)' = Named(T)
        BY <3>1 DEF Of, Named
      <3>3. \A j \in Kind : npm'[j] = "read" => npm[j] = "read"
        BY <3>1 DEF TaskTypes
      <3>4. OthersKept' /\ ScriptsWritten'
        BY <3>1, <3>2 DEF UpgradeInv, OthersKept, ScriptsWritten
      <3>5. Agree'
        BY <3>1, <3>2, <3>3 DEF UpgradeInv, Agree
      <3>6. InstallsDone'
        BY <2>2, <3>1 DEF InstallsDone
      <3>7. QED
        BY <3>4, <3>5, <3>6 DEF UpgradeInv
    <2>3. QED
      BY <2>1, <2>2
  <1>12. ASSUME NEW k \in Kind, NpmFails(k)
         PROVE  UpgradeInv'
    <2>1. /\ npm' = [npm EXCEPT ![k] = "failed"] /\ UNCHANGED <<tasks, options, read, manifest, installed, steps, phase, outcome>>
      BY <1>12 DEF NpmFails, memory, disk
    <2>2. (\A j : Of(j)' = Of(j)) /\ (\A T : Named(T)' = Named(T)) /\ \A j, d : Highest(j, d)' = Highest(j, d)
      BY <2>1 DEF Of, Named, Highest
    <2>3. \A j \in Kind : npm'[j] \in {"read", "done"} => npm[j] = npm'[j]
      BY <2>1 DEF TaskTypes
    <2>4. OthersKept' /\ ScriptsWritten'
      BY <2>1, <2>2 DEF UpgradeInv, OthersKept, ScriptsWritten
    <2>5. Agree'
      BY <2>1, <2>2, <2>3 DEF UpgradeInv, Agree
    <2>6. InstallsDone'
      BY <2>1, <2>2, <2>3 DEF UpgradeInv, InstallsDone
    <2>7. QED
      BY <2>4, <2>5, <2>6 DEF UpgradeInv
  <1>13. CASE WritePackage
    <2>1. /\ phase' = "monitor" /\ UNCHANGED <<outcome, options, steps, tasks, npm, read, installed>>
      BY <1>13 DEF WritePackage, update
    <2>2. (\A j : Of(j)' = Of(j)) /\ (\A T : Named(T)' = Named(T)) /\ \A j, d : Highest(j, d)' = Highest(j, d)
      BY <2>1 DEF Of, Named, Highest
    <2>3. /\ manifest'.deps = manifest.deps
          /\ "test" \in steps => manifest'.test
          /\ "protect" \in steps => manifest'.protect # "none" /\ manifest'.snyk = "prod"
      BY <1>13, WrittenIs DEF RunTypes
    <2>4. OthersKept' /\ Agree'
      BY <2>1, <2>2, <2>3 DEF UpgradeInv, OthersKept, Agree
    <2>5. InstallsDone'
      BY <2>1, <2>2 DEF UpgradeInv, InstallsDone
    <2>6. ScriptsWritten'
      BY <2>1, <2>3 DEF ScriptsWritten
    <2>7. QED
      BY <2>4, <2>5, <2>6 DEF UpgradeInv
  <1>14. QED
    BY <1>2, <1>3, <1>4, <1>5, <1>6, <1>7, <1>8, <1>9, <1>10, <1>11, <1>12, <1>13 DEF Next, WizardStep, UpdateStep

-----------------------------------------------------------------------------
Inv ==
  /\ QInv /\ AuthInv /\ RunTypes /\ TaskTypes /\ DiskTypes
  /\ FlowInv /\ Installs /\ PolicyInv /\ PatchInv /\ UpgradeInv

LEMMA InitInv == Init => Inv
PROOF
  <1>1. SUFFICES ASSUME Init
                 PROVE  Inv
    OBVIOUS
  <1>2. QInv
    BY <1>1, InitQInv
  <1>3. AuthInv
    <2>1. 0 \in 0..MaxAttempts
      BY AttemptsAssumption
    <2>2. auth = "idle" /\ attemptsLeft = 0 /\ confirmed = FALSE /\ api \in Key /\ said = "nothing"
      BY <1>1 DEF Init, AuthInit
    <2>3. QED
      BY <2>1, <2>2 DEF AuthInv, AuthTypeOK
  <1>4. /\ npm = [k \in Kind |-> "idle"] /\ tasks = NoTasks /\ updater = "idle" /\ patcher = "idle"
        /\ phase = "idle" /\ outcome = "none" /\ queue = {} /\ reported = {} /\ patchError = FALSE /\ patched = {}
        /\ told = FALSE /\ installed = Base
    BY <1>1 DEF Init
  <1>5. RunTypes
    BY <1>1 DEF Init, RunTypes, Early
  <1>6. \A k \in Kind : npm[k] = "idle"
    BY <1>4
  <1>7. TaskTypes
    BY <1>4, <1>6 DEF TaskTypes
  <1>8. Base \in [Deps -> Nat]
    BY WizardAssumption
  <1>9. manifest = [deps |-> Base, test |-> FALSE, protect |-> "none", snyk |-> "no"] /\ pkg = manifest
    BY <1>1 DEF Init
  <1>10. DiskTypes
    <2>1. manifest \in Package /\ pkg \in Package
      BY <1>8, <1>9 DEF Package
    <2>2. read \in [Kind -> [Deps -> Nat]]
      BY <1>1, <1>8 DEF Init
    <2>3. policy \in RuleSets \cup {None}
      BY <1>1, WizardAssumption DEF Init, RuleSets
    <2>4. policyFile \in RuleSets
      BY <1>1 DEF Init, NewPolicy, RuleSets
    <2>5. QED
      BY <1>4, <1>8, <2>1, <2>2, <2>3, <2>4 DEF DiskTypes
  <1>11. manifest.deps = Base /\ manifest.test = FALSE
    BY <1>9
  <1>12. FlowInv
    <2>1. NoTasksYet /\ TasksAre
      BY <1>4 DEF NoTasksYet, TasksAre, Late
    <2>2. NothingDone /\ NothingPatched
      BY <1>4, <1>11 DEF NothingDone, NothingPatched
    <2>3. queue \subseteq tasks.patch /\ \A rule \in reported : \E t \in tasks.patch : rule \in Rules(t)
      BY <1>4
    <2>4. QED
      BY <1>4, <2>1, <2>2, <2>3 DEF FlowInv, Late
  <1>13. Installs
    BY <1>4, <1>6 DEF Installs
  <1>14. PolicyInv
    BY <1>4 DEF PolicyInv
  <1>15. PatchInv
    <2>1. Deduped(tasks.patch) = {}
      BY <1>4, DedupedIs DEF NoTasks
    <2>2. QED
      BY <1>4, <2>1 DEF PatchInv, NoTasks
  <1>16. UpgradeInv
    BY <1>4, <1>6, <1>11 DEF UpgradeInv, OthersKept, Agree, InstallsDone, ScriptsWritten
  <1>17. QED
    BY <1>2, <1>3, <1>5, <1>7, <1>10, <1>12, <1>13, <1>14, <1>15, <1>16 DEF Inv

LEMMA StepInv == Inv /\ [Next]_vars => Inv'
PROOF
  <1>1. SUFFICES ASSUME Inv, [Next]_vars
                 PROVE  Inv'
    OBVIOUS
  <1>2. /\ QInv /\ AuthInv /\ RunTypes /\ TaskTypes /\ DiskTypes
        /\ FlowInv /\ Installs /\ PolicyInv /\ PatchInv /\ UpgradeInv
    BY <1>1 DEF Inv
  <1>3. OthersKept
    BY <1>2 DEF UpgradeInv
  <1>4. updater = "uninstall" => \A k \in Kind : npm[k] # "failed"
    BY <1>2 DEF Installs
  <1>5. QInv' /\ AuthInv' /\ RunTypes'
    BY <1>1, <1>2, StepQInv, StepAuth, StepRunTypes
  <1>6. TaskTypes' /\ DiskTypes'
    BY <1>1, <1>2, <1>4, StepTaskTypes, StepDiskTypes
  <1>7. FlowInv' /\ Installs' /\ PolicyInv'
    BY <1>1, <1>2, StepFlow, StepInstalls, StepPolicy
  <1>8. PatchInv' /\ UpgradeInv'
    BY <1>1, <1>2, <1>3, StepPatchInv, StepUpgrades
  <1>9. QED
    BY <1>5, <1>6, <1>7, <1>8 DEF Inv

LEMMA Always == Spec => []Inv
PROOF
  <1>1. QED
    BY InitInv, StepInv, PTL DEF Spec

(* wizard.ts, auth/index.ts: the commands keep to their order. Questions   *)
(* come before tasks, only a live run has failing installs, and whatever   *)
(* is asked, queued, reported or patched belongs to a path that was found. *)
THEOREM WizardTypes == Spec => []TypeOK
PROOF
  <1>1. Inv => TypeOK
    <2>1. SUFFICES ASSUME Inv
                   PROVE  TypeOK
      OBVIOUS
    <2>2. AuthTypeOK
      BY <2>1 DEF Inv, AuthInv
    <2>3. /\ phase \in {"idle", "loaded", "start_over", "test", "asking", "tasks", "save", "package", "monitor", "ended"}
          /\ outcome \in {"none", "failed", "limit", "json", "dry_run", "died", "ok"} /\ (outcome = "none" <=> phase # "ended")
          /\ options \in Options /\ mayIgnore \in BOOLEAN /\ startOver \in BOOLEAN /\ steps \subseteq {"test", "protect"}
      BY <2>1 DEF Inv, RunTypes, Early
    <2>4. found \subseteq DOMAIN List /\ stage \in 1..4
      BY <2>1 DEF Inv, QInv
    <2>5. \A q \in asked : q.vuln \in found
      BY <2>1, <2>4, PromptsAre DEF Inv, QInv, AskedInv
    <2>6. /\ updater \in {"idle", "uninstall", "install", "done", "failed"}
          /\ npm \in [Kind -> {"idle", "started", "read", "done", "failed"}]
          /\ told = (\E k \in Kind : npm[k] = "failed") /\ (told => ~options.dryRun)
          /\ patcher \in {"idle", "locate", "patching", "done", "failed"} /\ patchError \in BOOLEAN
      BY <2>1 DEF Inv, TaskTypes
    <2>7. updater # "idle" => stage = 4
      BY <2>1 DEF Inv, FlowInv, TasksAre
    <2>8. reported \subseteq Ids \X Routes /\ \A t \in queue : t.at \in found
      BY <2>1, TasksTyped DEF Inv
    <2>9. /\ policy = None \/ policy \in [ignore : SUBSET (Ids \X Routes), patch : SUBSET (Ids \X Routes)]
          /\ manifest \in Package /\ pkg \in Package /\ installed \in [Deps -> Nat] /\ read \in [Kind -> [Deps -> Nat]]
      BY <2>1 DEF Inv, DiskTypes, RuleSets
    <2>10. patched \subseteq Ids \X found
      BY <2>1 DEF Inv, PatchInv
    <2>11. QED
      BY <2>2, <2>3, <2>4, <2>5, <2>6, <2>7, <2>8, <2>9, <2>10 DEF TypeOK, Package
  <1>2. QED
    BY <1>1, Always, PTL

(* wizard.ts, prompts.ts, tasks.ts, protect/: of a run that ends well the  *)
(* policy has every rule it was to update, each path that was found, those *)
(* no stage is for excepted, was asked about, and it is ignored or patched *)
(* in the policy exactly if the person so decided for it or its group;     *)
(* what was to be patched is on the disk unless its dependency was         *)
(* installed anew. A dry run, and one with --json, changes nothing.        *)
THEOREM DecisionsAreCarried == Spec => []DecisionsCarried
PROOF
  <1>1. Inv => DecisionsCarried
    <2>1. SUFFICES ASSUME Inv
                   PROVE  DecisionsCarried
      OBVIOUS
    <2>2. QInv /\ FlowInv /\ PolicyInv /\ PatchInv /\ RunTypes
      BY <2>1 DEF Inv
    <2>3. ASSUME outcome = "ok"
          PROVE  /\ startOver \/ (policyFile.ignore \subseteq policy.ignore /\ policyFile.patch \subseteq policy.patch)
                 /\ \A i \in found :
                      /\ Decided(i) = "unasked" => NeverAsked(i)
                      /\ Decided(i) # "review"
                      /\ Rule(i) \in policyFile.ignore \/ (Rule(i) \in policy.ignore <=> Decided(i) = "ignore")
                      /\ Rule(i) \in policy.patch \ policyFile.patch => Decided(i) = "patch" \/ ByNamesake(i)
                      /\ Decided(i) = "patch" =>
                           (Rule(i) \in policy.patch \/ UnderOtherId(i)) /\ (OnDisk(i) \/ Upgraded(i))
      <3>1. updater = "done" /\ patcher = "done" /\ ~options.dryRun /\ stage = 4 /\ tasks = AnswersToTasks(answers)
        BY <2>2, <2>3 DEF FlowInv, TasksAre
      <3>2. /\ policy.ignore = policyFile.ignore \cup {Rule(i) : i \in tasks.ignore}
            /\ policy.patch = policyFile.patch \cup reported
        BY <2>2, <2>3 DEF PolicyInv, Merged
      <3>3. queue = {} /\ ~patchError
        BY <2>2, <2>3, <3>1 DEF PatchInv
      <3>4. tasks.ignore \subseteq found /\ found \subseteq DOMAIN List /\ \A t \in tasks.patch : t.at \in found
        BY <2>2, TasksTyped
      <3>5. ASSUME NEW i \in found
            PROVE  Decided(i) # "review" /\ (Decided(i) = "unasked" => NeverAsked(i))
        BY <2>2, <3>1, DecisionsAnswered
      <3>6. ASSUME NEW i \in found, Rule(i) \notin policyFile.ignore
            PROVE  Rule(i) \in policy.ignore <=> Decided(i) = "ignore"
        <4>1. i \in tasks.ignore <=> Decided(i) = "ignore"
          BY <2>2, <3>1, IgnoredAre
        <4>2. Rule(i) \in policy.ignore <=> \E j \in tasks.ignore : Rule(i) = Rule(j)
          BY <3>2, <3>6
        <4>3. ASSUME NEW j \in tasks.ignore, Rule(i) = Rule(j)
              PROVE  i = j
          BY <3>4, <4>3, ListAssumption
        <4>4. QED
          BY <4>1, <4>2, <4>3
      <3>7. ASSUME NEW i \in found, Rule(i) \in policy.patch \ policyFile.patch
            PROVE  Decided(i) = "patch" \/ ByNamesake(i)
        <4>1. PICK t \in tasks.patch : Rule(i) \in Rules(t)
          BY <2>2, <3>2, <3>7 DEF FlowInv
        <4>2. QED
          BY <2>2, <3>1, <4>1, PatchesAre
      <3>8. ASSUME NEW i \in found, Decided(i) = "patch"
            PROVE  (Rule(i) \in policy.patch \/ UnderOtherId(i)) /\ (OnDisk(i) \/ Upgraded(i))
        <4>1. PICK t \in tasks.patch : List[t.at].route = List[i].route /\ (Rule(i) \in Rules(t) \/ UnderOtherId(i))
          BY <2>2, <3>1, <3>8, PatchesAre
        <4>2. Rules(t) \subseteq reported
          BY <2>2, <3>3, <4>1 DEF PatchInv
        <4>3. PICK u \in Deduped(tasks.patch) : List[u.at].route = List[t.at].route
          <5>1. \A v \in tasks.patch : \E j \in DOMAIN List : v.published = List[j].published
            BY <2>2, TasksTyped
          <5>2. QED
            BY <4>1, <5>1, DedupedHas
        <4>4. Kept(u) \/ List[u.at].dep \in Named(tasks.update)
          BY <2>2, <3>1, <3>3, <4>3 DEF PatchInv
        <4>5. u.at \in DOMAIN List /\ i \in DOMAIN List
          BY <3>4, <4>3, DedupedIs
        <4>6. List[u.at].dep = List[i].dep
          BY <4>1, <4>3, <4>5, ListAssumption
        <4>7. OnDisk(i) \/ Upgraded(i)
          BY <4>1, <4>3, <4>4, <4>6 DEF Kept, OnDisk, Upgraded
        <4>8. QED
          BY <3>2, <4>1, <4>2, <4>7
      <3>9. QED
        BY <3>2, <3>5, <3>6, <3>7, <3>8
    <2>4. ASSUME options.dryRun \/ options.json
          PROVE  /\ manifest.deps = Base /\ installed = Base /\ patched = {} /\ ~manifest.test
                 /\ phase \in {"idle", "ended"} \/ Stored(policy) = policyFile
      <3>1. options.dryRun \/ updater = "idle"
        BY <2>2, <2>4 DEF FlowInv, TasksAre
      <3>2. manifest.deps = Base /\ installed = Base /\ ~manifest.test /\ patched = {}
        BY <2>2, <3>1 DEF FlowInv, NothingDone, NothingPatched
      <3>3. phase \notin Late
        BY <2>2, <3>1 DEF FlowInv, NoTasksYet, Late
      <3>4. QED
        BY <2>2, <3>2, <3>3 DEF PolicyInv, Late
    <2>5. QED
      BY <2>3, <2>4 DEF DecisionsCarried
  <1>2. QED
    BY <1>1, Always, PTL

(* protect/update.js, wizard.ts:395: a run that ends well and told of no   *)
(* failed install leaves every dependency installed, in a version without  *)
(* what it was to be upgraded for, in its own if there was nothing;        *)
(* package.json agrees where only one install ran, and has the scripts     *)
(* that were asked for.                                                    *)
THEOREM DependenciesAreKept == Spec => []DependenciesKept
PROOF
  <1>1. Inv => DependenciesKept
    <2>1. SUFFICES ASSUME Inv, outcome = "ok"
                   PROVE  /\ "test" \in steps => manifest.test
                          /\ "protect" \in steps => manifest.protect # "none" /\ manifest.snyk = "prod"
                          /\ ~told =>
                               /\ \A d \in Deps : installed[d] > 0 /\ (d \in Named(tasks.update) \/ installed[d] = Base[d])
                               /\ \A i \in found : Decided(i) = "update" => installed[List[i].dep] >= List[i].upgradeTo
                               /\ Of("prod") = {} \/ Of("dev") = {} => \A d \in Deps : manifest.deps[d] = installed[d]
      BY DEF DependenciesKept
    <2>2. QInv /\ FlowInv /\ TaskTypes /\ DiskTypes /\ Installs /\ UpgradeInv
      BY <2>1 DEF Inv
    <2>3. updater = "done" /\ ~options.dryRun /\ stage = 4 /\ tasks = AnswersToTasks(answers)
      BY <2>1, <2>2 DEF FlowInv, TasksAre
    <2>4. ASSUME ~told, NEW d \in Named(tasks.update)
          PROVE  \E k \in Kind : d \in Named(Of(k)) /\ installed[d] = Highest(k, d)
      <3>1. PICK k \in Kind : d \in Named(Of(k))
        BY <2>2, NamedKinds
      <3>2. tasks.update # {}
        BY DEF Named
      <3>3. npm[k] = "done"
        BY <2>1, <2>2, <2>3, <2>4, <3>2 DEF Installs, TaskTypes
      <3>4. installed[d] = Highest(k, d)
        BY <2>2, <2>3, <3>1, <3>3 DEF UpgradeInv, InstallsDone
      <3>5. QED
        BY <3>1, <3>4
    <2>5. ASSUME ~told, NEW d \in Deps
          PROVE  installed[d] > 0 /\ (d \in Named(tasks.update) \/ installed[d] = Base[d])
      <3>1. CASE d \in Named(tasks.update)
        BY <2>2, <2>4, <2>5, <3>1, HighestIs
      <3>2. CASE d \notin Named(tasks.update)
        <4>1. Base[d] \in Nat /\ Base[d] # 0
          BY WizardAssumption
        <4>2. installed[d] = Base[d]
          BY <2>2, <3>2 DEF UpgradeInv, OthersKept
        <4>3. QED
          BY <4>1, <4>2
      <3>3. QED
        BY <3>1, <3>2
    <2>6. ASSUME ~told, NEW i \in found, Decided(i) = "update"
          PROVE  installed[List[i].dep] >= List[i].upgradeTo
      <3>1. PICK j \in tasks.update : List[j].dep = List[i].dep /\ List[i].upgradeTo <= List[j].upgradeTo
        BY <2>2, <2>3, <2>6, UpdatedAre
      <3>2. i \in DOMAIN List /\ j \in DOMAIN List /\ List[j].dep \in Named(tasks.update)
        BY <2>2, <3>1, UpdateTasksAre DEF Named
      <3>3. PICK k \in Kind : List[j].dep \in Named(Of(k)) /\ installed[List[j].dep] = Highest(k, List[j].dep)
        BY <2>4, <2>6, <3>2
      <3>4. j \in Of(k)
        <4>1. PICK l \in Of(k) : List[l].dep = List[j].dep
          BY <3>3 DEF Named
        <4>2. l \in DOMAIN List /\ List[l].depType = k
          BY <2>2, <4>1, UpdateTasksAre DEF Of
        <4>3. List[j].depType = k
          BY <3>2, <4>1, <4>2, ListAssumption
        <4>4. QED
          BY <3>1, <4>3 DEF Of
      <3>5. List[j].upgradeTo <= Highest(k, List[j].dep) /\ Highest(k, List[j].dep) \in Nat
        BY <2>2, <3>3, <3>4, HighestIs
      <3>6. List[i].upgradeTo \in Nat /\ List[j].upgradeTo \in Nat
        BY <3>2, ListIs
      <3>7. installed[List[i].dep] = Highest(k, List[j].dep)
        BY <3>1, <3>3
      <3>8. QED
        BY <3>1, <3>5, <3>6, <3>7
    <2>7. Of("prod") = {} \/ Of("dev") = {} => manifest.deps = installed
      BY <2>2 DEF UpgradeInv, Agree
    <2>8. /\ "test" \in steps => manifest.test
          /\ "protect" \in steps => manifest.protect # "none" /\ manifest.snyk = "prod"
      BY <2>1, <2>2 DEF UpgradeInv, ScriptsWritten
    <2>9. QED
      BY <2>5, <2>6, <2>7, <2>8
  <1>2. QED
    BY <1>1, Always, PTL
=============================================================================
