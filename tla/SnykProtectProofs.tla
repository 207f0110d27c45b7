------------------------- MODULE SnykProtectProofs -------------------------
(***************************************************************************)
(* The safety of @snyk/protect for every .snyk file, every tree of         *)
(* installed packages, every catalogue of patches and any number of        *)
(* interrupted runs.                                                       *)
(*                                                                         *)
(* None of the properties is inductive alone: what a run has written says  *)
(* nothing unless one knows what it had downloaded and which items of its  *)
(* loops are behind it. IInv carries that bookkeeping along.               *)
(***************************************************************************)
EXTENDS SnykProtect, FiniteSetTheorems, WellFoundedInduction, TLAPS

Writing == pc \in {"patching", "opened", "written"}
Editing(f) == pc \in {"opened", "written"} /\ f = edit[1]

(* A run works on a list of rules, and its outcome is still open.             *)
RunIsOpen == pc # "idle" => snykFile \in Seq(Vulns) /\ outcome = "none"

(* What was downloaded is what the server offers, some diffs being garbage.   *)
PatchesAreOffered ==
  \A k \in DOMAIN patches :
    /\ Len(patches[k]) = Len(Catalogue[k])
    /\ \A n \in DOMAIN Catalogue[k] : patches[k][n] \in {Catalogue[k][n], Garbage}

(* Every request is either still to be made or its answer is there.           *)
RequestsAreAccounted ==
  pc = "fetching" =>
    /\ requests \subseteq AllRequests
    /\ \A r \in AllRequests : r \in requests \/ Key(r[1], r[2]) \in DOMAIN patches

(* An item behind the loop: its file is marked, or being edited; or it is     *)
(* reported.                                                                  *)
ItemIsDone(w) ==
  IF HasDiff(w)
  THEN Diff(w) # Garbage /\ (Marked(Target(w)) \/ Editing(Target(w)))
  ELSE <<snykFile[w[2]], w[1]>> \in patchedModules

WorkIsAccounted ==
  Writing => /\ work \subseteq AllWork
             /\ \A w \in AllWork : w \in work \/ ItemIsDone(w)

(* The file between its two writes has no mark and no other file is torn by   *)
(* this run.                                                                  *)
EditIsUnmarked ==
  /\ pc = "opened" => edit[1] \in torn /\ ~Marked(edit[1])
  /\ pc = "written" => edit[1] \notin torn /\ content[edit[1]] # <<>> /\ ~Marked(edit[1])

(* A patch on a file without a flag, other than the one just written, was     *)
(* forgotten by an interrupted run.                                           *)
UnflaggedWasForgotten ==
  \A f \in Files : f \notin flagged /\ ~(pc = "written" /\ f = edit[1]) =>
                     Len(content[f]) <= interruptions

IInv ==
  /\ TypeOK
  /\ RunIsOpen
  /\ PatchesAreOffered
  /\ RequestsAreAccounted
  /\ FetchedBeforeWriting
  /\ WorkIsAccounted
  /\ EditIsUnmarked
  /\ UnflaggedWasForgotten
  /\ FlaggedIsPatched
  /\ OneLossPerInterruption
  /\ PatchedOncePerInterruption
  /\ AppliedMeansMarked
-----------------------------------------------------------------------------
LEMMA SeqElement ==
  ASSUME NEW S, NEW s \in Seq(S), NEW i \in DOMAIN s
  PROVE  s[i] \in S
OBVIOUS

LEMMA FilesFinite == IsFiniteSet(Files)
<1>1. Modules = 1..Len(Installed) /\ Len(Installed) \in Nat
  BY ParametersAssumption DEF Modules
<1>2. IsFiniteSet(Modules)
  BY <1>1, FS_Interval
<1> QED
  BY <1>2, FinitePathsAssumption, FS_Product DEF Files

LEMMA RuleTypes ==
  ASSUME snykFile \in Seq(Vulns), NEW i \in DOMAIN snykFile, NEW m \in Modules
  PROVE  i \in Nat /\ i >= 1 /\ snykFile[i] \in Vulns /\ Key(i, m) \in PatchKey
<1>1. i \in 1..Len(snykFile) /\ snykFile[i] \in Vulns
  OBVIOUS
<1>2. Installed \in Seq([name : Names, version : Versions]) /\ m \in DOMAIN Installed
  BY ParametersAssumption DEF Modules
<1>3. Installed[m] \in [name : Names, version : Versions]
  BY <1>2, SeqElement
<1>4. Installed[m].version \in Versions
  BY <1>3
<1> QED
  BY <1>1, <1>4 DEF Key, PatchKey

LEMMA AllRequestsType ==
  ASSUME snykFile \in Seq(Vulns)
  PROVE  AllRequests \subseteq Nat \X Modules
BY RuleTypes DEF AllRequests

(* Every copy of a package has a first copy of the same version before it or  *)
(* is one itself: no installed version goes without a request.                *)
LEMMA FirstCopy ==
  ASSUME NEW m \in Modules
  PROVE  \E k \in Modules : /\ Installed[k] = Installed[m]
                           /\ \A j \in 1..(k - 1) : Installed[j] # Installed[k]
<1> DEFINE Same == {k \in Modules : Installed[k] = Installed[m]}
<1>1. Modules = 1..Len(Installed) /\ Len(Installed) \in Nat
  BY ParametersAssumption DEF Modules
<1>2. Same \subseteq Nat /\ Same # {}
  BY <1>1
<1>3. PICK k \in Same : \A j \in Same : ~(<<j, k>> \in OpToRel(<, Nat))
  BY <1>2, WFMin, NatLessThanWellFounded
<1>4. \A j \in Same : ~(j < k)
  BY <1>2, <1>3 DEF OpToRel
<1>5. \A j \in 1..(k - 1) : Installed[j] # Installed[k]
  BY <1>1, <1>4
<1> QED
  BY <1>5

(* Once every request is answered, every rule has its patches.                *)
LEMMA RequestsCoverRules ==
  ASSUME snykFile \in Seq(Vulns),
         \A r \in AllRequests : Key(r[1], r[2]) \in DOMAIN patches
  PROVE  \A i \in DOMAIN snykFile : \A m \in Modules :
            Concerns(i, m) => Key(i, m) \in DOMAIN patches
<1> SUFFICES ASSUME NEW i \in DOMAIN snykFile, NEW m \in Modules, Concerns(i, m)
             PROVE  Key(i, m) \in DOMAIN patches
  OBVIOUS
<1>1. PICK k \in Modules : /\ Installed[k] = Installed[m]
                          /\ \A j \in 1..(k - 1) : Installed[j] # Installed[k]
  BY FirstCopy
<1>2. <<i, k>> \in AllRequests
  BY <1>1 DEF AllRequests, Concerns
<1>3. Key(i, k) = Key(i, m)
  BY <1>1 DEF Key
<1> QED
  BY <1>2, <1>3

RulesHavePatches ==
  \A i \in DOMAIN snykFile : \A m \in Modules :
    Concerns(i, m) => Key(i, m) \in DOMAIN patches

LEMMA AllWorkMember ==
  ASSUME NEW w
  PROVE  w \in AllWork <=>
           \E m \in Modules : \E i \in DOMAIN snykFile :
             /\ Concerns(i, m) /\ Key(i, m) \in DOMAIN patches
             /\ \E n \in 1..(Len(patches[Key(i, m)]) + 1) : w = <<m, i, n>>
<1> DEFINE Items(x) == {x[1]} \X {x[2]} \X (1..(Len(patches[Key(x[2], x[1])]) + 1))
           Pairs == {y \in Modules \X (DOMAIN snykFile) :
                      Concerns(y[2], y[1]) /\ Key(y[2], y[1]) \in DOMAIN patches}
<1>1. w \in AllWork <=> \E x \in Pairs : w \in Items(x)
  BY DEF AllWork
<1>2. ASSUME NEW x \in Pairs, w \in Items(x)
      PROVE  \E m \in Modules : \E i \in DOMAIN snykFile :
               /\ Concerns(i, m) /\ Key(i, m) \in DOMAIN patches
               /\ \E n \in 1..(Len(patches[Key(i, m)]) + 1) : w = <<m, i, n>>
  <2>1. x[1] \in Modules /\ x[2] \in DOMAIN snykFile /\ Concerns(x[2], x[1])
        /\ Key(x[2], x[1]) \in DOMAIN patches
    OBVIOUS
  <2>2. \E n \in 1..(Len(patches[Key(x[2], x[1])]) + 1) : w = <<x[1], x[2], n>>
    BY <1>2
  <2> QED
    BY <2>1, <2>2
<1>3. ASSUME NEW m \in Modules, NEW i \in DOMAIN snykFile, Concerns(i, m),
             Key(i, m) \in DOMAIN patches,
             NEW n \in 1..(Len(patches[Key(i, m)]) + 1), w = <<m, i, n>>
      PROVE  \E x \in Pairs : w \in Items(x)
  <2>1. <<m, i>> \in Pairs
    BY <1>3
  <2>2. w \in Items(<<m, i>>)
    BY <1>3
  <2> QED
    BY <2>1, <2>2
<1> QED
  BY <1>1, <1>2, <1>3

(* An item of the loops has its place, its patches and, when it has a diff    *)
(* that is one, its file.                                                     *)
LEMMA AllWorkTypes ==
  ASSUME TypeOK, snykFile \in Seq(Vulns), RulesHavePatches, NEW w \in AllWork
  PROVE  /\ w \in Modules \X Nat \X Nat
         /\ w[2] \in DOMAIN snykFile /\ snykFile[w[2]] \in Vulns
         /\ Concerns(w[2], w[1])
         /\ Key(w[2], w[1]) \in DOMAIN patches
         /\ Bodies(w) \in Seq(Body)
         /\ w[3] \in 1..(Len(Bodies(w)) + 1)
         /\ HasDiff(w) => w[3] \in DOMAIN Bodies(w) /\ Diff(w) \in Body
         /\ HasDiff(w) /\ Diff(w) # Garbage => Target(w) \in Files /\ Diff(w) \in Diffs
<1>1. PICK m \in Modules, i \in DOMAIN snykFile :
        /\ Concerns(i, m)
        /\ \E n \in 1..(Len(patches[Key(i, m)]) + 1) : w = <<m, i, n>>
  BY AllWorkMember
<1>2. PICK n \in 1..(Len(patches[Key(i, m)]) + 1) : w = <<m, i, n>>
  BY <1>1
<1>3. w[1] = m /\ w[2] = i /\ w[3] = n
  BY <1>2
<1>4. i \in Nat /\ snykFile[i] \in Vulns
  BY RuleTypes
<1>5. Key(i, m) \in DOMAIN patches /\ patches[Key(i, m)] \in Seq(Body)
  BY <1>1 DEF RulesHavePatches, TypeOK
<1>6. Len(patches[Key(i, m)]) \in Nat /\ n \in Nat
  BY <1>5
<1>7. w \in Modules \X Nat \X Nat
  BY <1>2, <1>4, <1>6
<1>8. Bodies(w) = patches[Key(i, m)]
  BY <1>3 DEF Bodies
<1>9. ASSUME HasDiff(w)
      PROVE  w[3] \in DOMAIN Bodies(w) /\ Diff(w) \in Body
  BY <1>9, <1>3, <1>5, <1>6, <1>8 DEF HasDiff, Diff
<1>10. ASSUME HasDiff(w), Diff(w) # Garbage
       PROVE  Target(w) \in Files /\ Diff(w) \in Diffs
  <2>1. Diff(w) \in Diffs
    BY <1>9, <1>10 DEF Body
  <2>2. PathOf[Diff(w)] \in Paths
    BY <2>1, ParametersAssumption
  <2> QED
    BY <2>1, <2>2, <1>3 DEF Target, Files
<1> QED
  BY <1>1, <1>3, <1>4, <1>5, <1>7, <1>8, <1>9, <1>10
-----------------------------------------------------------------------------
(* Counting the files that are edited but carry no flag.                      *)
LEMMA NoMoreLosses ==
  ASSUME NEW S \in SUBSET Files, NEW T \in SUBSET S
  PROVE  Cardinality(T) \in Nat /\ Cardinality(S) \in Nat /\ Cardinality(T) <= Cardinality(S)
<1>1. IsFiniteSet(S)
  BY FilesFinite, FS_Subset
<1> QED
  BY <1>1, FS_Subset, FS_CardinalityType

LEMMA OneMoreLoss ==
  ASSUME NEW S \in SUBSET Files, NEW f \in Files, NEW T \in SUBSET (S \cup {f})
  PROVE  Cardinality(T) \in Nat /\ Cardinality(S) \in Nat /\ Cardinality(T) <= Cardinality(S) + 1
<1>1. IsFiniteSet(S)
  BY FilesFinite, FS_Subset
<1>2. Cardinality(S) \in Nat
  BY <1>1, FS_CardinalityType
<1>3. Cardinality(S \cup {f}) = Cardinality(S) \/ Cardinality(S \cup {f}) = Cardinality(S) + 1
  BY <1>1, FS_AddElement
<1>4. Cardinality(T) \in Nat /\ Cardinality(T) <= Cardinality(S \cup {f})
  <2>1. S \cup {f} \in SUBSET Files
    OBVIOUS
  <2> QED
    BY <2>1, NoMoreLosses
<1> QED
  BY <1>2, <1>3, <1>4

LEMMA OneLossLess ==
  ASSUME NEW S \in SUBSET Files, NEW f \in S
  PROVE  Cardinality(S) \in Nat /\ Cardinality(S \ {f}) = Cardinality(S) - 1
<1>1. IsFiniteSet(S)
  BY FilesFinite, FS_Subset
<1> QED
  BY <1>1, FS_RemoveElement, FS_CardinalityType

(* What is behind the loop stays behind it as long as marks and reports only  *)
(* grow and the file being edited ends up marked.                             *)
LEMMA DoneStaysDone ==
  ASSUME UNCHANGED <<snykFile, patches>>,
         flagged \subseteq flagged', orig \subseteq orig',
         patchedModules \subseteq patchedModules',
         NEW w, ItemIsDone(w),
         Editing(Target(w)) => (Editing(Target(w)) \/ Marked(Target(w)))'
  PROVE  ItemIsDone(w)'
BY DEF ItemIsDone, HasDiff, Diff, Target, Bodies, Key, Marked

LEMMA SameLoops ==
  ASSUME UNCHANGED <<snykFile, patches>>
  PROVE  AllWork' = AllWork /\ AllRequests' = AllRequests
BY DEF AllWork, AllRequests, Concerns, Key
-----------------------------------------------------------------------------
LEMMA InitInv == Init => IInv
<1> SUFFICES ASSUME Init PROVE IInv
  OBVIOUS
<1>1. TypeOK
  BY ParametersAssumption DEF Init, TypeOK, NoEdit, Outcome
<1>2. Unaccounted = {}
  BY DEF Init, Unaccounted
<1>3. OneLossPerInterruption
  BY <1>2, FS_EmptySet DEF Init, OneLossPerInterruption, InFlight
<1>4. RunIsOpen /\ PatchesAreOffered /\ RequestsAreAccounted /\ FetchedBeforeWriting
      /\ WorkIsAccounted /\ EditIsUnmarked /\ AppliedMeansMarked /\ FlaggedIsPatched
  BY DEF Init, RunIsOpen, PatchesAreOffered, RequestsAreAccounted, FetchedBeforeWriting,
         WorkIsAccounted, Writing, EditIsUnmarked, AppliedMeansMarked, FlaggedIsPatched
<1>5. UnflaggedWasForgotten /\ PatchedOncePerInterruption
  BY DEF Init, UnflaggedWasForgotten, PatchedOncePerInterruption
<1> QED
  BY <1>1, <1>3, <1>4, <1>5 DEF IInv

(* However a run ends, an interrupted one accounts for the file it leaves     *)
(* half done.                                                                 *)
LEMMA EndRunInv ==
  ASSUME IInv, UNCHANGED <<disk, snykFile>>,
         NEW how \in Outcome, EndRun(how),
         patchedModules' \in {{}, patchedModules},
         \/ interruptions' = interruptions /\ pc \notin {"opened", "written"}
         \/ interruptions' = interruptions + 1 /\ interruptions < MaxInterruptions,
         AppliedMeansMarked'
  PROVE  IInv'
<1>1. interruptions \in Nat /\ interruptions' \in 0..MaxInterruptions
      /\ interruptions' >= interruptions
  BY ParametersAssumption DEF IInv, TypeOK
<1>2. TypeOK'
  BY <1>1 DEF IInv, TypeOK, EndRun, disk, NoEdit
<1>3. UNCHANGED Unaccounted
  BY DEF Unaccounted, disk
<1>4. OneLossPerInterruption'
  <2>1. Cardinality(Unaccounted) \in Nat
    BY NoMoreLosses DEF Unaccounted
  <2> QED
    BY <1>1, <1>3, <2>1 DEF IInv, OneLossPerInterruption, InFlight, EndRun
<1>5. PatchedOncePerInterruption' /\ UnflaggedWasForgotten'
  <2> SUFFICES ASSUME NEW f \in Files
               PROVE  /\ Len(content[f])' <= 1 + interruptions'
                      /\ f \notin flagged => Len(content[f])' <= interruptions'
    BY DEF PatchedOncePerInterruption, UnflaggedWasForgotten, EndRun, disk
  <2>1. content' = content /\ content[f] \in Seq(Diffs) /\ Len(content[f]) \in Nat
    BY DEF IInv, TypeOK, disk
  <2>2. Len(content[f]) <= 1 + interruptions
    BY DEF IInv, PatchedOncePerInterruption
  <2>3. CASE interruptions' = interruptions /\ pc \notin {"opened", "written"}
    BY <1>1, <2>1, <2>2, <2>3 DEF IInv, UnflaggedWasForgotten
  <2>4. CASE interruptions' = interruptions + 1
    BY <1>1, <2>1, <2>2, <2>4
  <2> QED
    BY <2>3, <2>4
<1>6. RunIsOpen' /\ PatchesAreOffered' /\ RequestsAreAccounted' /\ FetchedBeforeWriting'
      /\ WorkIsAccounted' /\ EditIsUnmarked' /\ FlaggedIsPatched'
  BY DEF IInv, EndRun, disk, RunIsOpen, PatchesAreOffered, RequestsAreAccounted,
         FetchedBeforeWriting, WorkIsAccounted, Writing, EditIsUnmarked, FlaggedIsPatched
<1> QED
  BY <1>2, <1>4, <1>5, <1>6 DEF IInv

(* Until a run patches, it disturbs neither the disk nor the account of it.   *)
LEMMA DiskInv ==
  ASSUME IInv, UNCHANGED <<disk, snykFile, edit, interruptions>>,
         pc \notin {"opened", "written"}, pc' \notin {"opened", "written"}
  PROVE  /\ OneLossPerInterruption' /\ PatchedOncePerInterruption' /\ UnflaggedWasForgotten'
         /\ EditIsUnmarked' /\ FlaggedIsPatched'
<1>1. UNCHANGED <<Unaccounted, InFlight>>
  BY DEF Unaccounted, InFlight, disk
<1> QED
  BY <1>1 DEF IInv, disk, OneLossPerInterruption, PatchedOncePerInterruption,
              UnflaggedWasForgotten, EditIsUnmarked, FlaggedIsPatched

LEMMA ReadSnykFileInv == IInv /\ ReadSnykFile => IInv'
<1> SUFFICES ASSUME IInv, ReadSnykFile PROVE IInv'
  OBVIOUS
<1>1. snykFile \in Seq(Vulns)
  BY ParametersAssumption DEF IInv, TypeOK, ReadSnykFile
<1>2. UNCHANGED <<snykFile, patches>> /\ AllRequests' = AllRequests
  BY SameLoops DEF ReadSnykFile
<1>3. TypeOK'
  BY <1>1, AllRequestsType DEF IInv, TypeOK, ReadSnykFile, disk, Outcome
<1>4. RunIsOpen' /\ PatchesAreOffered'
  BY <1>1 DEF IInv, ReadSnykFile, RunIsOpen, PatchesAreOffered
<1>5. RequestsAreAccounted'
  BY <1>2 DEF RequestsAreAccounted, ReadSnykFile
<1>6. FetchedBeforeWriting' /\ WorkIsAccounted' /\ AppliedMeansMarked'
  BY DEF FetchedBeforeWriting, WorkIsAccounted, Writing, AppliedMeansMarked, ReadSnykFile
<1> QED
  BY <1>3, <1>4, <1>5, <1>6, DiskInv DEF IInv, ReadSnykFile

LEMMA FetchPatchesInv == IInv /\ FetchPatches => IInv'
<1> SUFFICES ASSUME IInv, FetchPatches PROVE IInv'
  OBVIOUS
<1>1. snykFile \in Seq(Vulns) /\ pc = "fetching" /\ outcome = "none"
  BY DEF IInv, RunIsOpen, FetchPatches
<1>2. PICK r \in requests :
        LET key == Key(r[1], r[2])
        IN /\ \E bad \in SUBSET DOMAIN Catalogue[key] :
               patches' = [k \in DOMAIN patches \cup {key} |->
                 IF k # key THEN patches[k]
                 ELSE [n \in DOMAIN Catalogue[key] |->
                         IF n \in bad THEN Garbage ELSE Catalogue[key][n]]]
           /\ requests' = requests \ {r}
  BY DEF FetchPatches
<1> DEFINE key == Key(r[1], r[2])
<1>3. r \in AllRequests /\ requests \subseteq AllRequests
  BY <1>1 DEF IInv, RequestsAreAccounted
<1>4. key \in PatchKey
  BY <1>1, <1>3, RuleTypes DEF AllRequests
<1> HIDE DEF key
<1>5. Catalogue[key] \in Seq(Diffs)
  BY <1>4, ParametersAssumption DEF PatchKey
<1>6. PICK bad \in SUBSET DOMAIN Catalogue[key] :
        patches' = [k \in DOMAIN patches \cup {key} |->
                 IF k # key THEN patches[k]
                 ELSE [n \in DOMAIN Catalogue[key] |->
                         IF n \in bad THEN Garbage ELSE Catalogue[key][n]]]
  BY <1>2 DEF key
<1>7. /\ DOMAIN patches' = DOMAIN patches \cup {key}
      /\ \A k \in DOMAIN patches : k # key => patches'[k] = patches[k]
      /\ patches'[key] = [n \in DOMAIN Catalogue[key] |->
                           IF n \in bad THEN Garbage ELSE Catalogue[key][n]]
  BY <1>6
<1>8. /\ patches'[key] \in Seq(Body) /\ Len(patches'[key]) = Len(Catalogue[key])
      /\ \A n \in DOMAIN Catalogue[key] : patches'[key][n] \in {Catalogue[key][n], Garbage}
  BY <1>5, <1>7 DEF Body
<1>9. /\ UNCHANGED <<disk, snykFile, pc, work, edit, patchedModules, outcome, interruptions>>
      /\ requests' = requests \ {r}
  BY <1>2 DEF FetchPatches
<1>10. AllRequests' = AllRequests
  BY <1>9 DEF AllRequests, Concerns
<1>11. TypeOK'
  BY <1>4, <1>7, <1>8, <1>9 DEF IInv, TypeOK, disk
<1>12. RunIsOpen' /\ FetchedBeforeWriting' /\ WorkIsAccounted' /\ AppliedMeansMarked'
  BY <1>1, <1>9 DEF RunIsOpen, FetchedBeforeWriting, WorkIsAccounted, Writing, AppliedMeansMarked
<1>13. PatchesAreOffered'
  BY <1>7, <1>8 DEF IInv, PatchesAreOffered
<1>14. RequestsAreAccounted'
  <2> SUFFICES ASSUME NEW q \in AllRequests
               PROVE  q \in requests' \/ Key(q[1], q[2]) \in DOMAIN patches'
    BY <1>3, <1>9, <1>10 DEF RequestsAreAccounted, Key
  <2>1. CASE q = r
    BY <2>1, <1>7 DEF key
  <2>2. CASE q # r
    BY <2>2, <1>1, <1>7, <1>9 DEF IInv, RequestsAreAccounted
  <2> QED
    BY <2>1, <2>2
<1> QED
  BY <1>1, <1>9, <1>11, <1>12, <1>13, <1>14, DiskInv DEF IInv

LEMMA GotAllPatchesInv == IInv /\ GotAllPatches => IInv'
<1> SUFFICES ASSUME IInv, GotAllPatches PROVE IInv'
  OBVIOUS
<1>1. snykFile \in Seq(Vulns) /\ outcome = "none"
  BY DEF IInv, RunIsOpen, GotAllPatches
<1>2. RulesHavePatches
  BY <1>1, RequestsCoverRules DEF IInv, RequestsAreAccounted, GotAllPatches, RulesHavePatches
<1>3. UNCHANGED <<snykFile, patches>> /\ AllWork' = AllWork
  BY SameLoops DEF GotAllPatches
<1>4. AllWork \subseteq Modules \X Nat \X Nat
  BY <1>1, <1>2, AllWorkTypes DEF IInv
<1>5. TypeOK'
  BY <1>4 DEF IInv, TypeOK, GotAllPatches, disk
<1>6. FetchedBeforeWriting'
  BY <1>2, <1>3 DEF RulesHavePatches, FetchedBeforeWriting, Concerns, Key
<1>7. WorkIsAccounted'
  BY <1>3 DEF WorkIsAccounted, GotAllPatches
<1>8. RunIsOpen' /\ PatchesAreOffered' /\ RequestsAreAccounted' /\ AppliedMeansMarked'
  BY <1>1 DEF IInv, GotAllPatches, RunIsOpen, PatchesAreOffered, RequestsAreAccounted,
              AppliedMeansMarked
<1> QED
  BY <1>5, <1>6, <1>7, <1>8, DiskInv DEF IInv, GotAllPatches

(* In the loops: what an item of the work left over stands for.               *)
LEMMA WorkTypes ==
  ASSUME IInv, Writing, NEW w \in AllWork
  PROVE  /\ snykFile \in Seq(Vulns) /\ outcome = "none"
         /\ w \in Modules \X Nat \X Nat
         /\ w[2] \in DOMAIN snykFile /\ snykFile[w[2]] \in Vulns
         /\ HasDiff(w) /\ Diff(w) # Garbage => Target(w) \in Files /\ Diff(w) \in Diffs
<1>1. snykFile \in Seq(Vulns) /\ outcome = "none" /\ TypeOK
  BY DEF IInv, RunIsOpen, Writing
<1>2. RulesHavePatches
  BY DEF IInv, FetchedBeforeWriting, RulesHavePatches, Writing
<1> QED
  BY <1>1, <1>2, AllWorkTypes

LEMMA SameFetched ==
  ASSUME IInv, Writing, UNCHANGED <<snykFile, patches>>
  PROVE  FetchedBeforeWriting' /\ PatchesAreOffered'
BY DEF IInv, FetchedBeforeWriting, PatchesAreOffered, Writing, Concerns, Key

LEMMA SkipMarkedFileInv ==
  ASSUME IInv, pc = "patching", NEW w \in work, SkipMarkedFile(w)
  PROVE  IInv'
<1>1. Writing /\ w \in AllWork /\ outcome = "none"
  BY DEF IInv, Writing, WorkIsAccounted, RunIsOpen
<1>2. UNCHANGED <<disk, snykFile, pc, requests, patches, edit, patchedModules, outcome,
                  interruptions>> /\ work' = work \ {w}
  BY DEF SkipMarkedFile
<1>3. TypeOK'
  BY <1>2 DEF IInv, TypeOK, disk
<1>4. RunIsOpen' /\ RequestsAreAccounted' /\ AppliedMeansMarked'
  BY <1>1, <1>2 DEF IInv, RunIsOpen, RequestsAreAccounted, AppliedMeansMarked
<1>5. WorkIsAccounted'
  <2> SUFFICES ASSUME NEW v \in AllWork PROVE v \in work' \/ ItemIsDone(v)'
    BY <1>1, <1>2, SameLoops DEF IInv, WorkIsAccounted
  <2>1. v \in work \/ ItemIsDone(v)
    BY <1>1 DEF IInv, WorkIsAccounted
  <2>2. ItemIsDone(v) => ItemIsDone(v)'
    BY <1>2, DoneStaysDone DEF disk, Editing
  <2>3. ItemIsDone(w)
    BY DEF SkipMarkedFile, ItemIsDone
  <2> QED
    BY <1>2, <2>1, <2>2, <2>3
<1> QED
  BY <1>1, <1>2, <1>3, <1>4, <1>5, SameFetched, DiskInv DEF IInv

LEMMA OpenTargetInv ==
  ASSUME IInv, pc = "patching", NEW w \in work, OpenTarget(w)
  PROVE  IInv'
<1>1. Writing /\ w \in AllWork /\ outcome = "none"
  BY DEF IInv, Writing, WorkIsAccounted, RunIsOpen
<1>2. /\ HasDiff(w) /\ Diff(w) # Garbage /\ ~Marked(Target(w)) /\ Fits(Diff(w), Target(w))
      /\ pc' = "opened" /\ edit' = <<Target(w), Diff(w)>>
      /\ torn' = torn \cup {Target(w)} /\ work' = work \ {w}
      /\ UNCHANGED <<content, flagged, orig, snykFile, requests, patches,
                     patchedModules, outcome, interruptions>>
  BY DEF OpenTarget
<1> DEFINE f == Target(w)
<1>3. f \in Files /\ Diff(w) \in Diffs
  BY <1>1, <1>2, WorkTypes
<1>4. edit' = <<f, Diff(w)>> /\ edit'[1] = f
  BY <1>2
<1> HIDE DEF f
<1>5. TypeOK'
  BY <1>2, <1>3, <1>4 DEF IInv, TypeOK
<1>6. RunIsOpen' /\ RequestsAreAccounted' /\ AppliedMeansMarked'
  BY <1>1, <1>2 DEF IInv, RunIsOpen, Writing, RequestsAreAccounted, AppliedMeansMarked
<1>7. WorkIsAccounted'
  <2> SUFFICES ASSUME NEW v \in AllWork PROVE v \in work' \/ ItemIsDone(v)'
    BY <1>1, <1>2, SameLoops DEF IInv, WorkIsAccounted
  <2>1. v \in work \/ ItemIsDone(v)
    BY <1>1 DEF IInv, WorkIsAccounted
  <2>2. ItemIsDone(v) => ItemIsDone(v)'
    BY <1>2, DoneStaysDone DEF Editing
  <2>3. ItemIsDone(w)'
    BY <1>2, <1>4 DEF ItemIsDone, Editing, HasDiff, Diff, Target, Bodies, Key, f
  <2> QED
    BY <1>2, <2>1, <2>2, <2>3
<1>8. EditIsUnmarked' /\ FlaggedIsPatched'
  BY <1>2, <1>3, <1>4 DEF IInv, EditIsUnmarked, FlaggedIsPatched, Marked, f
<1>9. UnflaggedWasForgotten' /\ PatchedOncePerInterruption'
  BY <1>2 DEF IInv, UnflaggedWasForgotten, PatchedOncePerInterruption
<1>10. OneLossPerInterruption'
  <2>1. Unaccounted' \in SUBSET (Unaccounted \cup {f}) /\ Unaccounted \in SUBSET Files
    BY <1>2 DEF Unaccounted, f
  <2>2. /\ Cardinality(Unaccounted) \in Nat /\ Cardinality(Unaccounted') \in Nat
        /\ Cardinality(Unaccounted') <= Cardinality(Unaccounted) + 1
    BY <1>3, <2>1, OneMoreLoss
  <2>3. Cardinality(Unaccounted) <= interruptions /\ interruptions \in Nat
    BY <2>2 DEF IInv, OneLossPerInterruption, InFlight, TypeOK
  <2> QED
    BY <1>2, <2>2, <2>3 DEF OneLossPerInterruption, InFlight
<1> QED
  BY <1>1, <1>2, <1>5, <1>6, <1>7, <1>8, <1>9, <1>10, SameFetched DEF IInv

LEMMA PushPatchedModuleInv ==
  ASSUME IInv, pc = "patching", NEW w \in work, PushPatchedModule(w)
  PROVE  IInv'
<1>1. Writing /\ w \in AllWork /\ outcome = "none"
  BY DEF IInv, Writing, WorkIsAccounted, RunIsOpen
<1>2. /\ UNCHANGED <<disk, snykFile, pc, requests, patches, edit, outcome, interruptions>>
      /\ work' = work \ {w}
      /\ patchedModules' = patchedModules \cup {<<snykFile[w[2]], w[1]>>}
  BY DEF PushPatchedModule
<1>3. <<snykFile[w[2]], w[1]>> \in Vulns \X Modules
  BY <1>1, WorkTypes
<1>4. TypeOK'
  BY <1>2, <1>3 DEF IInv, TypeOK, disk
<1>5. RunIsOpen' /\ RequestsAreAccounted' /\ AppliedMeansMarked'
  BY <1>1, <1>2 DEF IInv, RunIsOpen, RequestsAreAccounted, AppliedMeansMarked
<1>6. WorkIsAccounted'
  <2> SUFFICES ASSUME NEW v \in AllWork PROVE v \in work' \/ ItemIsDone(v)'
    BY <1>1, <1>2, SameLoops DEF IInv, WorkIsAccounted
  <2>1. v \in work \/ ItemIsDone(v)
    BY <1>1 DEF IInv, WorkIsAccounted
  <2>2. ItemIsDone(v) => ItemIsDone(v)'
    BY <1>2, DoneStaysDone DEF disk, Editing
  <2>3. ItemIsDone(w)'
    BY <1>2 DEF PushPatchedModule, ItemIsDone, HasDiff, Bodies, Key
  <2> QED
    BY <1>2, <2>1, <2>2, <2>3
<1> QED
  BY <1>1, <1>2, <1>4, <1>5, <1>6, SameFetched, DiskInv DEF IInv

LEMMA WriteTargetInv == IInv /\ WriteTarget => IInv'
<1> SUFFICES ASSUME IInv, WriteTarget PROVE IInv'
  OBVIOUS
<1>1. Writing /\ outcome = "none" /\ edit \in Files \X Diffs
  BY DEF IInv, Writing, RunIsOpen, WriteTarget, TypeOK
<1> DEFINE f == edit[1]
<1>2. /\ f \in Files /\ edit[2] \in Diffs /\ f \in torn /\ ~Marked(f)
      /\ content[f] \in Seq(Diffs)
  BY <1>1 DEF IInv, EditIsUnmarked, WriteTarget, TypeOK
<1>3. /\ pc = "opened" /\ pc' = "written" /\ torn' = torn \ {f}
      /\ content' = [content EXCEPT ![f] = Append(@, edit[2])]
      /\ UNCHANGED <<flagged, orig, snykFile, requests, patches, work, edit,
                     patchedModules, outcome, interruptions>>
  BY DEF WriteTarget
<1> HIDE DEF f
<1>4. /\ content'[f] \in Seq(Diffs) /\ content'[f] # <<>>
      /\ Len(content'[f]) = Len(content[f]) + 1
      /\ \A g \in Files : g # f => content'[g] = content[g]
  BY <1>2, <1>3 DEF IInv, TypeOK
<1>5. TypeOK'
  BY <1>2, <1>3 DEF IInv, TypeOK
<1>6. RunIsOpen' /\ RequestsAreAccounted' /\ AppliedMeansMarked'
  BY <1>1, <1>3 DEF IInv, RunIsOpen, RequestsAreAccounted, AppliedMeansMarked
<1>7. WorkIsAccounted'
  <2> SUFFICES ASSUME NEW v \in AllWork PROVE v \in work' \/ ItemIsDone(v)'
    BY <1>1, <1>3, SameLoops DEF IInv, WorkIsAccounted
  <2>1. v \in work \/ ItemIsDone(v)
    BY <1>1 DEF IInv, WorkIsAccounted
  <2>2. ItemIsDone(v) => ItemIsDone(v)'
    <3>1. Editing(Target(v)) => Editing(Target(v))'
      BY <1>3 DEF Editing, Target, Diff, Bodies, Key
    <3> QED
      BY <1>3, <3>1, DoneStaysDone
  <2> QED
    BY <1>3, <2>1, <2>2
<1>8. EditIsUnmarked' /\ FlaggedIsPatched'
  BY <1>2, <1>3, <1>4 DEF IInv, TypeOK, EditIsUnmarked, FlaggedIsPatched, Marked, f
<1>9. UnflaggedWasForgotten' /\ PatchedOncePerInterruption'
  <2>1. Len(content[f]) <= interruptions /\ interruptions \in Nat /\ Len(content[f]) \in Nat
    BY <1>2, <1>3 DEF IInv, UnflaggedWasForgotten, Marked, TypeOK
  <2>2. UnflaggedWasForgotten'
    BY <1>3, <1>4 DEF IInv, UnflaggedWasForgotten, f
  <2>3. PatchedOncePerInterruption'
    BY <1>3, <1>4, <2>1 DEF IInv, PatchedOncePerInterruption
  <2> QED
    BY <2>2, <2>3
<1>10. OneLossPerInterruption'
  <2>1. Unaccounted' = Unaccounted
    BY <1>2, <1>3, <1>4 DEF Unaccounted
  <2> QED
    BY <1>3, <2>1 DEF IInv, OneLossPerInterruption, InFlight
<1> QED
  BY <1>1, <1>3, <1>5, <1>6, <1>7, <1>8, <1>9, <1>10, SameFetched DEF IInv

LEMMA WriteFlagInv == IInv /\ WriteFlag => IInv'
<1> SUFFICES ASSUME IInv, WriteFlag PROVE IInv'
  OBVIOUS
<1>1. Writing /\ outcome = "none" /\ edit \in Files \X Diffs
  BY DEF IInv, Writing, RunIsOpen, WriteFlag, TypeOK
<1> DEFINE f == edit[1]
<1>2. f \in Files /\ f \notin torn /\ content[f] # <<>> /\ ~Marked(f)
  BY <1>1 DEF IInv, EditIsUnmarked, WriteFlag
<1>3. /\ pc = "written" /\ pc' = "patching" /\ flagged' = flagged \cup {f} /\ edit' = NoEdit
      /\ UNCHANGED <<content, torn, orig, snykFile, requests, patches, work,
                     patchedModules, outcome, interruptions>>
  BY DEF WriteFlag
<1>4. TypeOK'
  BY <1>2, <1>3 DEF IInv, TypeOK
<1>5. RunIsOpen' /\ RequestsAreAccounted' /\ AppliedMeansMarked' /\ EditIsUnmarked'
  BY <1>1, <1>3 DEF IInv, RunIsOpen, RequestsAreAccounted, AppliedMeansMarked, EditIsUnmarked
<1>6. WorkIsAccounted'
  <2> SUFFICES ASSUME NEW v \in AllWork PROVE v \in work' \/ ItemIsDone(v)'
    BY <1>1, <1>3, SameLoops DEF IInv, WorkIsAccounted
  <2>1. v \in work \/ ItemIsDone(v)
    BY <1>1 DEF IInv, WorkIsAccounted
  <2>2. ItemIsDone(v) => ItemIsDone(v)'
    <3>1. Editing(Target(v)) => Marked(Target(v))'
      BY <1>3 DEF Editing, Marked, Target, Diff, Bodies, Key
    <3> QED
      BY <1>3, <3>1, DoneStaysDone
  <2> QED
    BY <1>3, <2>1, <2>2
<1>7. FlaggedIsPatched' /\ UnflaggedWasForgotten' /\ PatchedOncePerInterruption'
  BY <1>2, <1>3 DEF IInv, FlaggedIsPatched, UnflaggedWasForgotten, PatchedOncePerInterruption
<1>8. OneLossPerInterruption'
  <2>1. Unaccounted' = Unaccounted \ {f} /\ f \in Unaccounted /\ Unaccounted \in SUBSET Files
    BY <1>2, <1>3 DEF Unaccounted, Marked
  <2>2. Cardinality(Unaccounted) \in Nat /\ Cardinality(Unaccounted') = Cardinality(Unaccounted) - 1
    BY <2>1, OneLossLess
  <2> QED
    BY <1>3, <2>2 DEF IInv, TypeOK, OneLossPerInterruption, InFlight
<1> QED
  BY <1>1, <1>3, <1>4, <1>5, <1>6, <1>7, <1>8, SameFetched DEF IInv

(* The loops are over: every diff has been through applyPatchToFile, and      *)
(* every vulnerability of every copy is in the report.                        *)
LEMMA WorkDoneMeansMarked ==
  ASSUME IInv, pc = "patching", work = {}
  PROVE  \A i \in DOMAIN snykFile : \A m \in Modules :
           Concerns(i, m) =>
             /\ <<snykFile[i], m>> \in patchedModules
             /\ \A k \in DOMAIN Catalogue[Key(i, m)] :
                  Marked(<<m, PathOf[Catalogue[Key(i, m)][k]]>>)
<1> SUFFICES ASSUME NEW i \in DOMAIN snykFile, NEW m \in Modules, Concerns(i, m)
             PROVE  /\ <<snykFile[i], m>> \in patchedModules
                    /\ \A k \in DOMAIN Catalogue[Key(i, m)] :
                         Marked(<<m, PathOf[Catalogue[Key(i, m)][k]]>>)
  OBVIOUS
<1> DEFINE key == Key(i, m)
<1>1. snykFile \in Seq(Vulns) /\ key \in PatchKey
  BY RuleTypes DEF IInv, RunIsOpen
<1>2. key \in DOMAIN patches
  BY DEF IInv, FetchedBeforeWriting
<1> HIDE DEF key
<1>3. patches[key] \in Seq(Body) /\ Catalogue[key] \in Seq(Diffs)
  BY <1>1, <1>2, ParametersAssumption DEF IInv, TypeOK, PatchKey
<1>4. Len(patches[key]) = Len(Catalogue[key]) /\ Len(patches[key]) \in Nat
  BY <1>2, <1>3 DEF IInv, PatchesAreOffered
<1>5. ASSUME NEW n \in 1..(Len(patches[key]) + 1)
      PROVE  ItemIsDone(<<m, i, n>>)
  <2>1. <<m, i, n>> \in AllWork
    BY <1>2, AllWorkMember DEF key
  <2> QED
    BY <2>1 DEF IInv, WorkIsAccounted, Writing
<1>6. <<snykFile[i], m>> \in patchedModules
  <2> DEFINE last == Len(patches[key]) + 1
  <2>1. ItemIsDone(<<m, i, last>>)
    BY <1>4, <1>5
  <2>2. ~HasDiff(<<m, i, last>>)
    BY <1>4 DEF HasDiff, Bodies, key
  <2> QED
    BY <2>1, <2>2 DEF ItemIsDone
<1>7. ASSUME NEW k \in DOMAIN Catalogue[key]
      PROVE  Marked(<<m, PathOf[Catalogue[key][k]]>>)
  <2>1. k \in 1..(Len(patches[key]) + 1) /\ k <= Len(patches[key])
    BY <1>3, <1>4
  <2> DEFINE w == <<m, i, k>>
  <2>2. ItemIsDone(w)
    BY <1>5, <2>1
  <2>3. HasDiff(w) /\ Diff(w) = patches[key][k]
    BY <2>1 DEF HasDiff, Diff, Bodies, key
  <2>4. Diff(w) # Garbage /\ Marked(Target(w))
    BY <2>2, <2>3 DEF ItemIsDone, Editing
  <2>5. patches[key][k] = Catalogue[key][k]
    BY <1>2, <2>3, <2>4 DEF IInv, PatchesAreOffered
  <2> QED
    BY <2>3, <2>4, <2>5 DEF Target
<1> QED
  BY <1>6, <1>7 DEF key

LEMMA AppliedPatchesInv == IInv /\ AppliedPatches => IInv'
<1> SUFFICES ASSUME IInv, AppliedPatches PROVE IInv'
  OBVIOUS
<1>1. AppliedMeansMarked'
  BY WorkDoneMeansMarked
  DEF AppliedPatches, AppliedMeansMarked, Concerns, Key, Marked, disk
<1> QED
  BY <1>1, EndRunInv DEF AppliedPatches, Outcome

LEMMA OtherEndsInv ==
  IInv /\ (NoSnykFileFound \/ SnykFileRejected \/ FetchPatchesThrows \/ NothingToPatch
           \/ Interrupted \/ \E w \in work : pc = "patching" /\ PatchStringThrows(w)) => IInv'
<1>1. ASSUME IInv, UNCHANGED <<disk, snykFile, interruptions>>, pc \notin {"opened", "written"},
             NEW how \in Outcome \ {"applied_patches"}, EndRun(how),
             patchedModules' \in {{}, patchedModules}
      PROVE  IInv'
  BY <1>1, EndRunInv DEF EndRun, AppliedMeansMarked
<1>2. ASSUME IInv, Interrupted PROVE IInv'
  BY <1>2, EndRunInv DEF Interrupted, EndRun, AppliedMeansMarked, Outcome
<1> QED
  BY <1>1, <1>2 DEF NoSnykFileFound, SnykFileRejected, FetchPatchesThrows, NothingToPatch,
                    PatchStringThrows, Outcome

LEMMA ReinstallInv ==
  ASSUME IInv, NEW m \in Modules, Reinstall(m)
  PROVE  IInv'
<1> DEFINE fresh == {f \in Files : f[1] = m}
<1>1. /\ pc = "idle" /\ outcome' = "none" /\ patchedModules' = {}
      /\ content' = [f \in Files |-> IF f \in fresh THEN <<>> ELSE content[f]]
      /\ torn' = torn \ fresh /\ flagged' = flagged \ fresh /\ orig' = orig \ fresh
      /\ UNCHANGED <<snykFile, pc, requests, patches, work, edit, interruptions>>
  BY DEF Reinstall
<1> HIDE DEF fresh
<1>2. /\ content' \in [Files -> Seq(Diffs)]
      /\ \A f \in Files : content'[f] \in {<<>>, content[f]} /\ (f \notin fresh => content'[f] = content[f])
      /\ \A f \in fresh \cap Files : content'[f] = <<>>
  BY <1>1 DEF IInv, TypeOK
<1>3. TypeOK'
  BY <1>1, <1>2 DEF IInv, TypeOK, Outcome
<1>4. RunIsOpen' /\ PatchesAreOffered' /\ RequestsAreAccounted' /\ FetchedBeforeWriting'
      /\ WorkIsAccounted' /\ EditIsUnmarked' /\ AppliedMeansMarked'
  BY <1>1 DEF IInv, RunIsOpen, PatchesAreOffered, RequestsAreAccounted, FetchedBeforeWriting,
              WorkIsAccounted, Writing, EditIsUnmarked, AppliedMeansMarked
<1>5. FlaggedIsPatched'
  BY <1>1, <1>2 DEF IInv, TypeOK, FlaggedIsPatched
<1>6. UnflaggedWasForgotten' /\ PatchedOncePerInterruption'
  <2> SUFFICES ASSUME NEW f \in Files
               PROVE  /\ Len(content'[f]) <= 1 + interruptions
                      /\ f \notin flagged' => Len(content'[f]) <= interruptions
    BY <1>1 DEF UnflaggedWasForgotten, PatchedOncePerInterruption
  <2>1. interruptions \in Nat
    BY DEF IInv, TypeOK
  <2>2. CASE f \in fresh
    BY <2>1, <2>2, <1>2
  <2>3. CASE f \notin fresh
    BY <2>3, <1>1, <1>2 DEF IInv, UnflaggedWasForgotten, PatchedOncePerInterruption
  <2> QED
    BY <2>2, <2>3
<1>7. OneLossPerInterruption'
  <2>1. Unaccounted' \in SUBSET Unaccounted /\ Unaccounted \in SUBSET Files
    BY <1>1, <1>2 DEF Unaccounted
  <2>2. /\ Cardinality(Unaccounted') \in Nat /\ Cardinality(Unaccounted) \in Nat
        /\ Cardinality(Unaccounted') <= Cardinality(Unaccounted)
    BY <2>1, NoMoreLosses
  <2> QED
    BY <1>1, <2>2 DEF IInv, TypeOK, OneLossPerInterruption, InFlight
<1> QED
  BY <1>3, <1>4, <1>5, <1>6, <1>7 DEF IInv

LEMMA EditSnykFileInv == IInv /\ EditSnykFile => IInv'
<1> SUFFICES ASSUME IInv, EditSnykFile PROVE IInv'
  OBVIOUS
<1>1. TypeOK'
  BY DEF IInv, TypeOK, EditSnykFile, disk, Outcome
<1>2. RunIsOpen' /\ PatchesAreOffered' /\ RequestsAreAccounted' /\ FetchedBeforeWriting'
      /\ WorkIsAccounted' /\ AppliedMeansMarked'
  BY DEF IInv, EditSnykFile, RunIsOpen, PatchesAreOffered, RequestsAreAccounted,
         FetchedBeforeWriting, WorkIsAccounted, Writing, AppliedMeansMarked
<1>3. UNCHANGED <<Unaccounted, InFlight>>
  BY DEF Unaccounted, InFlight, EditSnykFile, disk
<1>4. OneLossPerInterruption' /\ PatchedOncePerInterruption' /\ UnflaggedWasForgotten'
      /\ EditIsUnmarked' /\ FlaggedIsPatched'
  BY <1>3 DEF IInv, EditSnykFile, disk, OneLossPerInterruption, PatchedOncePerInterruption,
              UnflaggedWasForgotten, EditIsUnmarked, FlaggedIsPatched
<1> QED
  BY <1>1, <1>2, <1>4 DEF IInv

LEMMA StutterInv == IInv /\ UNCHANGED vars => IInv'
<1> SUFFICES ASSUME IInv, UNCHANGED vars PROVE IInv'
  OBVIOUS
<1>1. UNCHANGED <<disk, snykFile, pc, requests, patches, work, edit, patchedModules, outcome,
                  interruptions>>
  BY DEF vars, process
<1>2. UNCHANGED <<Unaccounted, InFlight, AllWork, AllRequests>>
  BY <1>1, SameLoops DEF Unaccounted, InFlight, disk
<1>3. TypeOK' /\ RunIsOpen' /\ PatchesAreOffered' /\ RequestsAreAccounted'
  BY <1>1, <1>2 DEF IInv, disk, TypeOK, RunIsOpen, PatchesAreOffered, RequestsAreAccounted, Key
<1>4. FetchedBeforeWriting' /\ AppliedMeansMarked'
  BY <1>1 DEF IInv, disk, FetchedBeforeWriting, AppliedMeansMarked, Concerns, Key, Marked
<1>5. WorkIsAccounted'
  BY <1>1, <1>2 DEF IInv, disk, WorkIsAccounted, Writing, ItemIsDone, HasDiff, Diff, Target,
                    Bodies, Key, Marked, Editing
<1>6. OneLossPerInterruption' /\ PatchedOncePerInterruption' /\ UnflaggedWasForgotten'
      /\ EditIsUnmarked' /\ FlaggedIsPatched'
  BY <1>1, <1>2 DEF IInv, disk, OneLossPerInterruption, PatchedOncePerInterruption,
              UnflaggedWasForgotten, EditIsUnmarked, FlaggedIsPatched, Marked
<1> QED
  BY <1>3, <1>4, <1>5, <1>6 DEF IInv

LEMMA NextInv == IInv /\ [Next]_vars => IInv'
<1>1. ASSUME IInv, Start PROVE IInv'
  BY <1>1, ReadSnykFileInv, OtherEndsInv DEF Start
<1>2. ASSUME IInv, ApplyPatches PROVE IInv'
  BY <1>2, SkipMarkedFileInv, OpenTargetInv, PushPatchedModuleInv, OtherEndsInv DEF ApplyPatches
<1>3. ASSUME IInv, Step PROVE IInv'
  BY <1>2, <1>3, FetchPatchesInv, GotAllPatchesInv, WriteTargetInv, WriteFlagInv,
     AppliedPatchesInv, OtherEndsInv DEF Step
<1>4. ASSUME IInv, Environment PROVE IInv'
  BY <1>4, ReinstallInv, EditSnykFileInv DEF Environment
<1> QED
  BY <1>1, <1>3, <1>4, OtherEndsInv, StutterInv DEF Next

(* A file that carries a mark is not the one a run opens or writes.           *)
LEMMA MarkedIsFrozenStep ==
  ASSUME IInv, [Next]_vars
  PROVE  [\A f \in Files : f \in flagged \cup orig /\ f \in flagged' \cup orig' =>
              content'[f] = content[f] /\ (f \in torn' <=> f \in torn)]_vars
<1> SUFFICES ASSUME Next, NEW f \in Files,
                    f \in flagged \cup orig, f \in flagged' \cup orig'
             PROVE  content'[f] = content[f] /\ (f \in torn' <=> f \in torn)
  OBVIOUS
<1>1. CASE UNCHANGED <<content, torn>>
  BY <1>1
<1>2. CASE \E w \in work : OpenTarget(w)
  BY <1>2 DEF OpenTarget, Marked
<1>3. CASE WriteTarget
  <2>1. f # edit[1]
    BY <1>3 DEF IInv, EditIsUnmarked, Marked, WriteTarget
  <2> QED
    BY <1>3, <2>1 DEF IInv, TypeOK, WriteTarget
<1>4. CASE \E m \in Modules : Reinstall(m)
  BY <1>4 DEF Reinstall
<1> QED
  BY <1>1, <1>2, <1>3, <1>4
  DEF Next, Start, Step, Environment, ApplyPatches, NoSnykFileFound, SnykFileRejected,
      ReadSnykFile, FetchPatches, FetchPatchesThrows, NothingToPatch, GotAllPatches,
      SkipMarkedFile, PatchStringThrows, PushPatchedModule, WriteFlag, AppliedPatches,
      Interrupted, EditSnykFile, disk
-----------------------------------------------------------------------------
LEMMA Inductive == Spec => []IInv
BY InitInv, NextInv, PTL DEF Spec

(* The variables of a run keep their types (SnykProtect's state).             *)
THEOREM TypeCorrect == Spec => []TypeOK
<1>1. IInv => TypeOK
  BY DEF IInv
<1> QED
  BY <1>1, Inductive, PTL

(* patch.ts:18-19: a flag stands only beside a completely patched file.       *)
THEOREM FlagsTellTheTruth == Spec => []FlaggedIsPatched
<1>1. IInv => FlaggedIsPatched
  BY DEF IInv
<1> QED
  BY <1>1, Inductive, PTL

(* index.ts:77-96: runs that die leave at most one unflagged edit each.       *)
THEOREM LossesAreBounded == Spec => []OneLossPerInterruption
<1>1. IInv => OneLossPerInterruption
  BY DEF IInv
<1> QED
  BY <1>1, Inductive, PTL

(* patch.ts:10-14: no file gets a second patch unless a run died in between.  *)
THEOREM PatchesAreBounded == Spec => []PatchedOncePerInterruption
<1>1. IInv => PatchedOncePerInterruption
  BY DEF IInv
<1> QED
  BY <1>1, Inductive, PTL

(* index.ts:59-77: every patch is there before the first file is opened.      *)
THEOREM DownloadsComeFirst == Spec => []FetchedBeforeWriting
<1>1. IInv => FetchedBeforeWriting
  BY DEF IInv
<1> QED
  BY <1>1, Inductive, PTL

(* index.ts:77-96: "Applied Snyk patches." is said only when every file that  *)
(* a patch edits carries a mark.                                              *)
THEOREM SuccessIsMarked == Spec => []AppliedMeansMarked
<1>1. IInv => AppliedMeansMarked
  BY DEF IInv
<1> QED
  BY <1>1, Inductive, PTL

(* patch.ts:10-14: a marked file is not edited again.                         *)
THEOREM MarksFreeze == Spec => MarkedIsFrozen
<1>1. IInv /\ [Next]_vars =>
        [\A f \in Files : f \in flagged \cup orig /\ f \in flagged' \cup orig' =>
             content'[f] = content[f] /\ (f \in torn' <=> f \in torn)]_vars
  BY MarkedIsFrozenStep
<1> QED
  BY <1>1, Inductive, PTL DEF Spec, MarkedIsFrozen
-----------------------------------------------------------------------------
(* A run implements PatchedDisk.                                              *)
LEMMA FrontOfAppend ==
  ASSUME NEW S, NEW s \in Seq(S), NEW x \in S
  PROVE  Front(Append(s, x)) = s
BY DEF Front

LEMMA AppendToFront ==
  ASSUME NEW S, NEW s \in Seq(S), s # <<>>
  PROVE  s = Append(Front(s), s[Len(s)]) /\ s[Len(s)] \in S /\ Front(s) \in Seq(S)
BY DEF Front

LEMMA DiskInit == Init => Disk!Init
<1> SUFFICES ASSUME Init PROVE Disk!Init
  OBVIOUS
<1>1. DiskText = [f \in Files |-> <<>>]
  BY DEF Init, DiskText
<1>2. DiskBroken = {}
  BY DEF Init, DiskBroken
<1>3. DiskMarked \in SUBSET Files
  BY ParametersAssumption DEF Init, DiskMarked
<1> QED
  BY <1>1, <1>2, <1>3 DEF Init, Disk!Init

LEMMA DiskStutter ==
  ASSUME UNCHANGED <<disk, interruptions>>, pc \notin {"opened", "written"},
         pc' \notin {"opened", "written"}
  PROVE  UNCHANGED Disk!vars
<1>1. UNCHANGED <<content, torn, flagged, orig, interruptions>>
  BY DEF disk
<1>2. DiskText' = DiskText
  BY <1>1 DEF DiskText
<1>3. DiskBroken' = DiskBroken
  BY <1>1 DEF DiskBroken
<1> QED
  BY <1>1, <1>2, <1>3 DEF Disk!vars, DiskMarked

LEMMA OpenTargetStutters ==
  ASSUME IInv, pc = "patching", NEW w \in work, OpenTarget(w)
  PROVE  UNCHANGED Disk!vars
<1>1. /\ pc' = "opened" /\ edit'[1] = Target(w) /\ torn' = torn \cup {Target(w)}
      /\ Target(w) \notin torn
      /\ UNCHANGED <<content, flagged, orig, interruptions>>
  BY DEF OpenTarget, Fits
<1>2. DiskText' = DiskText
  BY <1>1 DEF DiskText
<1>3. DiskBroken' = DiskBroken
  BY <1>1 DEF DiskBroken
<1> QED
  BY <1>1, <1>2, <1>3 DEF Disk!vars, DiskMarked

LEMMA WriteTargetStutters ==
  ASSUME IInv, WriteTarget
  PROVE  UNCHANGED Disk!vars
<1> DEFINE f == edit[1]
<1>1. f \in Files /\ edit[2] \in Diffs /\ content \in [Files -> Seq(Diffs)]
  BY DEF IInv, TypeOK, WriteTarget
<1>2. /\ pc = "opened" /\ pc' = "written" /\ edit' = edit /\ torn' = torn \ {f}
      /\ content' = [content EXCEPT ![f] = Append(@, edit[2])]
      /\ UNCHANGED <<flagged, orig, interruptions>>
  BY DEF WriteTarget
<1>3. DiskText' = DiskText
  <2> SUFFICES ASSUME NEW g \in Files PROVE DiskText'[g] = DiskText[g]
    BY DEF DiskText
  <2>1. DiskText[g] = content[g]
    BY <1>2 DEF DiskText
  <2>2. CASE g = f
    <3>1. content'[g] = Append(content[g], edit[2]) /\ content[g] \in Seq(Diffs)
      BY <1>1, <1>2, <2>2
    <3>2. DiskText'[g] = Front(content'[g])
      BY <1>2, <2>2 DEF DiskText
    <3> QED
      BY <1>1, <2>1, <3>1, <3>2, FrontOfAppend
  <2>3. CASE g # f
    BY <1>1, <1>2, <2>1, <2>3 DEF DiskText
  <2> QED
    BY <2>2, <2>3
<1>4. DiskBroken' = DiskBroken
  BY <1>2 DEF DiskBroken
<1> QED
  BY <1>2, <1>3, <1>4 DEF Disk!vars, DiskMarked

(* The file a run has written and not flagged, as PatchedDisk sees it.        *)
LEMMA WrittenText ==
  ASSUME IInv, pc = "written"
  PROVE  /\ edit[1] \in Files \ (DiskMarked \cup DiskBroken)
         /\ content[edit[1]][Len(content[edit[1]])] \in Diffs
         /\ content = [DiskText EXCEPT ![edit[1]] =
                         Append(@, content[edit[1]][Len(content[edit[1]])])]
<1> DEFINE f == edit[1]
           d == content[f][Len(content[f])]
<1>1. /\ f \in Files /\ content \in [Files -> Seq(Diffs)] /\ content[f] # <<>>
      /\ f \notin torn /\ ~Marked(f)
  BY DEF IInv, TypeOK, EditIsUnmarked
<1>2. d \in Diffs /\ content[f] = Append(Front(content[f]), d)
  BY <1>1, AppendToFront
<1>3. DiskText = [g \in Files |-> IF g = f THEN Front(content[g]) ELSE content[g]]
  BY DEF DiskText
<1> HIDE DEF d, f
<1>4. content = [DiskText EXCEPT ![f] = Append(@, d)]
  BY <1>1, <1>2, <1>3
<1> QED
  BY <1>1, <1>2, <1>4 DEF DiskMarked, DiskBroken, Marked, d, f

LEMMA WriteFlagPatches ==
  ASSUME IInv, WriteFlag
  PROVE  Disk!Next
<1> DEFINE f == edit[1]
           d == content[f][Len(content[f])]
<1>1. /\ f \in Files \ (DiskMarked \cup DiskBroken) /\ d \in Diffs
      /\ content = [DiskText EXCEPT ![f] = Append(@, d)]
  BY WrittenText DEF WriteFlag
<1>2. /\ pc = "written" /\ pc' = "patching" /\ flagged' = flagged \cup {f}
      /\ UNCHANGED <<content, torn, orig, interruptions>>
  BY DEF WriteFlag
<1> HIDE DEF d, f
<1>3. DiskText' = content
  BY <1>2 DEF DiskText, IInv, TypeOK
<1>4. DiskBroken' = DiskBroken
  BY <1>2 DEF DiskBroken
<1>5. DiskMarked' = DiskMarked \cup {f}
  BY <1>2 DEF DiskMarked
<1>6. Disk!Patch(f, d)
  BY <1>1, <1>2, <1>3, <1>4, <1>5 DEF Disk!Patch
<1> QED
  BY <1>1, <1>6 DEF Disk!Next

LEMMA InterruptedLoses ==
  ASSUME IInv, Interrupted
  PROVE  Disk!Next
<1>1. /\ pc' = "idle" /\ interruptions < MaxInterruptions /\ interruptions' = interruptions + 1
      /\ UNCHANGED <<content, torn, flagged, orig>>
      /\ content \in [Files -> Seq(Diffs)]
  BY DEF Interrupted, EndRun, disk, IInv, TypeOK
<1>2. DiskText' = content /\ DiskBroken' = torn /\ DiskMarked' = DiskMarked
  BY <1>1 DEF DiskText, DiskBroken, DiskMarked
<1>3. CASE pc = "opened"
  <2> DEFINE f == edit[1]
  <2>1. f \in Files /\ f \in torn /\ ~Marked(f)
    BY <1>3 DEF IInv, TypeOK, EditIsUnmarked
  <2>2. DiskText = content /\ DiskBroken = torn \ {f}
    BY <1>1, <1>3 DEF DiskText, DiskBroken
  <2>3. f \in Files \ (DiskMarked \cup DiskBroken) /\ DiskBroken' = DiskBroken \cup {f}
    BY <1>2, <2>1, <2>2 DEF Marked, DiskMarked
  <2> QED
    BY <1>1, <1>2, <2>2, <2>3 DEF Disk!Next, Disk!Lose
<1>4. CASE pc = "written"
  <2> DEFINE f == edit[1]
             d == content[f][Len(content[f])]
  <2>1. /\ f \in Files \ (DiskMarked \cup DiskBroken) /\ d \in Diffs
        /\ content = [DiskText EXCEPT ![f] = Append(@, d)]
    BY <1>4, WrittenText
  <2> HIDE DEF d, f
  <2>2. DiskBroken' = DiskBroken
    BY <1>2, <1>4 DEF DiskBroken
  <2> QED
    BY <1>1, <1>2, <2>1, <2>2 DEF Disk!Next, Disk!Lose
<1>5. CASE pc \notin {"opened", "written"}
  <2>1. DiskText = content /\ DiskBroken = torn
    BY <1>1, <1>5 DEF DiskText, DiskBroken
  <2> QED
    BY <1>1, <1>2, <2>1 DEF Disk!Next, Disk!Lose
<1> QED
  BY <1>3, <1>4, <1>5

LEMMA ReinstallReplaces ==
  ASSUME IInv, NEW m \in Modules, Reinstall(m)
  PROVE  Disk!Next
<1> DEFINE fresh == {f \in Files : f[1] = m}
<1>1. /\ pc = "idle" /\ pc' = "idle" /\ interruptions' = interruptions
      /\ content' = [f \in Files |-> IF f \in fresh THEN <<>> ELSE content[f]]
      /\ torn' = torn \ fresh /\ flagged' = flagged \ fresh /\ orig' = orig \ fresh
      /\ fresh \in SUBSET Files /\ content \in [Files -> Seq(Diffs)]
  BY DEF Reinstall, IInv, TypeOK
<1> HIDE DEF fresh
<1>2. DiskText = content /\ DiskText' = content'
  BY <1>1 DEF DiskText
<1>3. DiskBroken' = DiskBroken \ fresh /\ DiskMarked' = DiskMarked \ fresh
  BY <1>1 DEF DiskBroken, DiskMarked
<1> QED
  BY <1>1, <1>2, <1>3 DEF Disk!Next, Disk!Replace

LEMMA DiskNext == IInv /\ [Next]_vars => [Disk!Next]_(Disk!vars)
<1> SUFFICES ASSUME IInv, [Next]_vars PROVE Disk!Next \/ UNCHANGED Disk!vars
  OBVIOUS
<1>1. CASE Start \/ Environment
  BY <1>1, ReinstallReplaces, DiskStutter
  DEF Start, NoSnykFileFound, SnykFileRejected, ReadSnykFile, EndRun, Environment, EditSnykFile
<1>2. CASE ApplyPatches
  <2>1. PICK w \in work : SkipMarkedFile(w) \/ PatchStringThrows(w) \/ OpenTarget(w)
                           \/ PushPatchedModule(w)
    BY <1>2 DEF ApplyPatches
  <2> QED
    BY <1>2, <2>1, OpenTargetStutters, DiskStutter
    DEF ApplyPatches, SkipMarkedFile, PatchStringThrows, PushPatchedModule, EndRun
<1>3. CASE Step
  BY <1>2, <1>3, WriteTargetStutters, WriteFlagPatches, DiskStutter
  DEF Step, FetchPatches, FetchPatchesThrows, NothingToPatch, GotAllPatches, AppliedPatches, EndRun
<1>4. CASE Interrupted
  BY <1>4, InterruptedLoses
<1>5. CASE UNCHANGED vars
  BY <1>5 DEF vars, disk, process, Disk!vars, DiskText, DiskBroken, DiskMarked
<1> QED
  BY <1>1, <1>3, <1>4, <1>5 DEF Next

(* Whatever a run does, and wherever it dies, the files of node_modules see   *)
(* what PatchedDisk promises.                                                 *)
THEOREM RunsImplementPatchedDisk == Spec => ImplementsPatchedDisk
BY DiskInit, DiskNext, Inductive, PTL DEF Spec, ImplementsPatchedDisk, Disk!Spec
=============================================================================
