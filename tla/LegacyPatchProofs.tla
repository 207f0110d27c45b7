-------------------------- MODULE LegacyPatchProofs --------------------------
(***************************************************************************)
(* Proofs about the patching of `snyk protect` and `snyk wizard`, for any  *)
(* vulnerabilities and diffs, any number of runs, kills and reinstalls.    *)
(***************************************************************************)
EXTENDS LegacyPatch, SequenceTheorems, FiniteSetTheorems, TLAPS

Less == {pair \in Nat \X Nat : pair[1] < pair[2]}

(* Every nonempty set of naturals has a least element.                     *)
LEMMA Least == ASSUME NEW S \in SUBSET Nat, S # {} PROVE \E m \in S : \A n \in S : m <= n
<1>1. IsWellFoundedOn(Less, Nat)
  BY NatLessThanWellFounded, Zenon DEF OpToRel, Less
<1>2. \E m \in S : \A n \in S : ~(<<n, m>> \in Less)
  <2> HIDE DEF Less
  <2> QED BY <1>1, WFMin
<1>3. PICK m \in S : \A n \in S : ~(<<n, m>> \in Less)
  BY <1>2
<1>4. ASSUME NEW n \in S PROVE m <= n
  <2>1. m \in Nat /\ n \in Nat
    OBVIOUS
  <2>2. n < m => <<n, m>> \in Less
    BY <2>1 DEF Less
  <2> QED BY <1>3, <2>1, <2>2
<1> QED BY <1>4

LEMMA MinIs == ASSUME NEW S \in SUBSET Nat, S # {} PROVE Min(S) \in S /\ \A n \in S : Min(S) <= n
BY Least DEF Min

-----------------------------------------------------------------------------
(***************************************************************************)
(* The vulnerabilities that are left when every route has one.             *)
(***************************************************************************)
Count == Len(List)

LEMMA ListIs ==
  /\ Count \in Nat /\ DOMAIN List = 1..Count
  /\ \A i \in DOMAIN List :
       /\ List[i] \in Vulnerability
       /\ List[i].id \in Ids /\ List[i].dir \in Dirs /\ List[i].published \in Nat
       /\ List[i].urls \subseteq Urls /\ List[i].grouped \in BOOLEAN /\ List[i].matches \in BOOLEAN
<1>1. List \in Seq(Vulnerability)
  BY ParametersAssumption DEF ParametersAssumption
<1>2. Count \in Nat /\ DOMAIN List = 1..Count /\ \A i \in DOMAIN List : List[i] \in Vulnerability
  BY <1>1, LenProperties DEF Count
<1> QED BY <1>2 DEF Vulnerability

LEMMA EditsAre ==
  /\ PathCount \in Nat
  /\ \A u \in Urls :
       /\ \A n \in DOMAIN EditsOf[u] : n \in Nat /\ EditsOf[u][n] \in Paths
       /\ \A n \in DOMAIN EditsOf[u] : \A k \in 1..(n - 1) : k \in DOMAIN EditsOf[u]
<1>1. \A u \in Urls : EditsOf[u] \in Seq(Paths)
  BY ParametersAssumption DEF ParametersAssumption
<1>2. ASSUME NEW u \in Urls
      PROVE  /\ \A n \in DOMAIN EditsOf[u] : n \in Nat /\ EditsOf[u][n] \in Paths
             /\ \A n \in DOMAIN EditsOf[u] : \A k \in 1..(n - 1) : k \in DOMAIN EditsOf[u]
  BY <1>1, LenProperties
<1> QED BY <1>2, ParametersAssumption DEF ParametersAssumption

LEMMA NoBackupIsNoText == NoBackup \notin Text /\ <<>> \in Text
BY ParametersAssumption DEF ParametersAssumption, Text

LEMMA Longer == ASSUME NEW t \in Text, NEW x \in Urls \cup Cuts PROVE Append(t, x) \in Text
BY AppendProperties DEF Text

Best(S, j) ==
  /\ j \in S
  /\ \A k \in S : \/ List[k].published < List[j].published
                  \/ List[k].published = List[j].published /\ j <= k

(* Of the vulnerabilities of a nonempty set one is the first of the newest.  *)
LEMMA BestExists == ASSUME NEW S \in SUBSET DOMAIN List, S # {} PROVE \E j \in S : Best(S, j)
<1> DEFINE Part(n) == {j \in S : j <= n}
           Without == {n \in Nat : Part(n) # {} /\ ~\E j \in Part(n) : Best(Part(n), j)}
<1>1. S \subseteq 1..Count /\ Count \in Nat /\ \A j \in S : List[j].published \in Nat
  BY ListIs
<1>2. Part(Count) = S
  BY <1>1
<1>3. Without = {}
  <2> SUFFICES ASSUME Without # {} PROVE FALSE
    OBVIOUS
  <2>1. PICK m \in Without : \A n \in Without : m <= n
    <3>1. Without \in SUBSET Nat
      OBVIOUS
    <3> HIDE DEF Without
    <3> QED BY <3>1, Least
  <2>2. m \in Nat /\ Part(m) # {} /\ ~\E j \in Part(m) : Best(Part(m), j)
    OBVIOUS
  <2>3. m # 0
    BY <2>2, <1>1
  <2>4. m - 1 \in Nat /\ m - 1 \notin Without
    BY <2>1, <2>2, <2>3
  <2>5. \A j \in Part(m) : j = m \/ j \in Part(m - 1)
    BY <2>2, <1>1
  <2>6. CASE Part(m - 1) = {}
    <3>1. Part(m) = {m}
      BY <2>2, <2>5, <2>6
    <3>2. Best({m}, m)
      BY <3>1, <1>1, <2>2 DEF Best
    <3> QED BY <2>2, <3>1, <3>2
  <2>7. CASE Part(m - 1) # {}
    <3>1. PICK b \in Part(m - 1) : Best(Part(m - 1), b)
      BY <2>4, <2>7
    <3>2. b \in Part(m) /\ b < m /\ b \in Nat
      BY <2>2, <1>1
    <3>3. CASE m \in S /\ List[m].published > List[b].published
      <4>1. m \in Part(m)
        BY <3>3, <2>2
      <4>2. Best(Part(m), m)
        BY <3>1, <3>3, <4>1, <2>5, <1>1, <3>2, <2>2 DEF Best
      <4> QED BY <4>1, <4>2, <2>2
    <3>4. CASE ~(m \in S /\ List[m].published > List[b].published)
      <4>1. Best(Part(m), b)
        BY <3>1, <3>4, <3>2, <2>5, <1>1, <2>2 DEF Best
      <4> QED BY <4>1, <3>2, <2>2
    <3> QED BY <3>3, <3>4
  <2> QED BY <2>6, <2>7
<1>4. \E j \in Part(Count) : Best(Part(Count), j)
  <2>1. Count \notin Without /\ Part(Count) # {}
    BY <1>3, <1>2
  <2> QED BY <2>1, <1>1
<1> QED BY <1>4, <1>2

LEMMA KeptIs ==
  ASSUME NEW i \in DOMAIN List
  PROVE  Kept(i) \in DOMAIN List /\ List[Kept(i)].route = List[i].route /\ Best(SameRoute(i), Kept(i))
<1>1. SameRoute(i) \in SUBSET DOMAIN List /\ i \in SameRoute(i)
  BY DEF SameRoute
<1>2. \E j \in SameRoute(i) : Best(SameRoute(i), j)
  BY <1>1, BestExists
<1>3. Kept(i) \in SameRoute(i) /\ Best(SameRoute(i), Kept(i))
  BY <1>2 DEF Kept, Best
<1> QED BY <1>3 DEF SameRoute

(* The newest of a route is the one that is kept, ...                      *)
LEMMA NewestIsKept == ASSUME NEW i \in DOMAIN List, Newest(i) PROVE Kept(i) = i
<1>1. i \in SameRoute(i) /\ SameRoute(i) \subseteq DOMAIN List
  BY DEF SameRoute
<1>2. Best(SameRoute(i), Kept(i)) /\ Kept(i) \in SameRoute(i)
  BY KeptIs DEF SameRoute
<1>3. List[i].published \in Nat /\ List[Kept(i)].published \in Nat
  BY <1>1, <1>2, ListIs
<1> QED BY <1>1, <1>2, <1>3 DEF Best, Newest

(* ... and the only one of its package to be taken up.                     *)
LEMMA OnlyOneOfPackage ==
  ASSUME NEW i \in DOMAIN List, Undisturbed(i), NEW j \in Packages, List[j].dir = List[i].dir
  PROVE  j = i
<1>1. PICK k \in DOMAIN List : j = Kept(k)
  BY DEF Packages
<1>2. j \in DOMAIN List /\ List[j].route = List[k].route
  BY <1>1, KeptIs
<1>3. List[j].route = List[i].route
  BY <1>2 DEF Undisturbed
<1>4. SameRoute(k) = SameRoute(i)
  BY <1>2, <1>3 DEF SameRoute
<1>5. Kept(k) = Kept(i)
  BY <1>4 DEF Kept
<1> QED BY <1>1, <1>5, NewestIsKept DEF Undisturbed

LEMMA PackagesAreListed == Packages \subseteq DOMAIN List
BY KeptIs DEF Packages

LEMMA ForemostIs == ASSUME todo \subseteq DOMAIN List, todo # {} PROVE Foremost \in todo
<1> DEFINE Place(i) == Min(SameRoute(i))
           Places == {Place(i) : i \in todo}
<1>1. ASSUME NEW i \in todo PROVE Place(i) \in Nat
  <2>1. SameRoute(i) \in SUBSET Nat /\ SameRoute(i) # {}
    BY ListIs DEF SameRoute
  <2> QED BY <2>1, MinIs
<1>2. Places \in SUBSET Nat /\ Places # {}
  <2> HIDE DEF Place
  <2> QED BY <1>1
<1>3. PICK m \in Places : \A n \in Places : m <= n
  <2> HIDE DEF Places
  <2> QED BY <1>2, Least
<1>4. \E i \in todo : \A j \in todo : Place(i) <= Place(j)
  <2> HIDE DEF Place
  <2> QED BY <1>3
<1> QED BY <1>4 DEF Foremost

-----------------------------------------------------------------------------
(***************************************************************************)
(* The types. A process that is not running holds nothing, and of the runs *)
(* that have started the running one has not died.                         *)
(***************************************************************************)
Counted == deaths <= runs /\ (running => deaths < runs)

Holding == ~running => chain = NoChain /\ pending = {} /\ todo = {} /\ current = 0

TInv ==
  /\ installed \subseteq Dirs
  /\ content \in [Files -> Text]
  /\ orig \in [Files -> Text \cup {NoBackup}]
  /\ flags \subseteq Dirs \X Ids
  /\ live \in BOOLEAN /\ running \in BOOLEAN /\ rejected \in BOOLEAN /\ errorList \in BOOLEAN
  /\ todo \subseteq DOMAIN List
  /\ current \in 0..Count
  /\ DOMAIN chain = (IF current = 0 THEN {} ELSE List[current].urls)
  /\ chain \in [DOMAIN chain -> Step]
  /\ found \in [Urls -> SUBSET Files]
  /\ pending \subseteq Dirs \X Ids
  /\ reported \subseteq DOMAIN List
  /\ outcome \in Outcome
  /\ runs \in 0..MaxRuns /\ deaths \in Nat /\ spoilt \subseteq Dirs \X Ids
  /\ Counted
  /\ Holding

LEMMA TInvIsTypeOK == TInv => TypeOK
BY ParametersAssumption DEF TInv, TypeOK, Count, Counted, ParametersAssumption

LEMMA NoChainIsEmpty == NoChain \in [DOMAIN NoChain -> Step] /\ DOMAIN NoChain = {}
BY EmptySeq, LenProperties DEF NoChain

(* A chain is of a diff of the vulnerability the running process is at.     *)
LEMMA ChainIs ==
  ASSUME TInv, NEW u \in DOMAIN chain
  PROVE  /\ running /\ current \in DOMAIN List /\ u \in List[current].urls /\ u \in Urls
         /\ DOMAIN chain = List[current].urls
         /\ Vuln.dir \in Dirs /\ Flag \in Dirs \X Ids /\ Vuln.grouped \in BOOLEAN /\ Vuln.matches \in BOOLEAN
         /\ Edits(u) \subseteq Files /\ \A f \in Edits(u) : f[1] = Vuln.dir
<1>1. running
  BY NoChainIsEmpty DEF TInv, Holding
<1>2. current # 0 /\ DOMAIN chain = List[current].urls
  BY DEF TInv
<1>3. current \in DOMAIN List
  BY <1>2, ListIs DEF TInv
<1>4. u \in Urls /\ Vuln.dir \in Dirs /\ Flag \in Dirs \X Ids
  BY <1>2, <1>3, ListIs DEF Vuln, Flag
<1>5. Edits(u) \subseteq Files /\ \A f \in Edits(u) : f[1] = Vuln.dir
  BY <1>4, EditsAre DEF Edits, Files
<1> QED BY <1>1, <1>2, <1>3, <1>4, <1>5, ListIs DEF Vuln

LEMMA ReadIsEdited == \A u, texts : Read(u, texts) \subseteq Edits(u)
BY DEF Read, Edits

(* A chain goes on to s.                                                   *)
Went(u, s) ==
  /\ chain' = [chain EXCEPT ![u] = s]
  /\ running' = running /\ todo' = todo /\ current' = current
  /\ outcome' = outcome /\ deaths' = deaths /\ spoilt' = spoilt

(* What applying a diff does to a file.                                    *)
Touched(u, f, texts, origs) ==
  \/ content'[f] = texts[f] /\ orig'[f] = origs[f]
  \/ f \in Edits(u) /\ content'[f] \in {texts[f], Append(texts[f], u)} /\ orig'[f] = texts[f]

(* What applying a diff does to the flags.                                 *)
Flagged ==
  /\ flags \subseteq flags' /\ flags' \subseteq flags \cup pending \cup {Flag}
  /\ pending' \subseteq pending \cup {Flag}

(* What it may do to the process.                                          *)
Applied(u) ==
  \/ Die("exit_2", {}) /\ rejected' = rejected
  \/ \E s \in {"patched", "failed", "diagnosing"} :
       Went(u, s) /\ rejected' = (rejected \/ s = "failed") /\ pending \subseteq pending'

LEMMA WriteFlagDoes == ASSUME TInv, WriteFlag PROVE Flagged
BY DEF WriteFlag, Flagged

(* However it ends, applying a diff leaves every file either alone or with  *)
(* what it held before in its .orig.                                       *)
LEMMA ApplyPatchDoes ==
  ASSUME TInv, NEW u \in DOMAIN chain, NEW texts \in [Files -> Text],
         NEW origs \in [Files -> Text \cup {NoBackup}], ApplyPatch(u, texts, origs)
  PROVE  /\ content' \in [Files -> Text] /\ orig' \in [Files -> Text \cup {NoBackup}]
         /\ \A f \in Files : Touched(u, f, texts, origs)
         /\ Flagged
         /\ UNCHANGED <<installed, live, runs, reported, errorList>>
         /\ Applied(u)
<1> USE DEF promises, toll
<1>1. CASE Skip(u, texts, origs)
  <2>1. content' = texts /\ orig' = origs /\ UNCHANGED <<installed, live, runs, reported, errorList>>
    BY <1>1 DEF Skip
  <2>2. Flagged
    BY <1>1, WriteFlagDoes DEF Skip, Flagged
  <2>3. Applied(u)
    <3>1. rejected \in BOOLEAN
      BY DEF TInv
    <3>2. UNCHANGED <<running, todo, current, outcome, deaths, spoilt>> /\ pending \subseteq pending'
      BY <1>1 DEF Skip, WriteFlag
    <3>3. \/ chain' = [chain EXCEPT ![u] = "failed"] /\ rejected' = TRUE
          \/ chain' = [chain EXCEPT ![u] = "patched"] /\ rejected' = rejected
      BY <1>1 DEF Skip
    <3> QED BY <3>1, <3>2, <3>3, Zenon DEF Applied, Went
  <2> QED BY <2>1, <2>2, <2>3 DEF Touched
<1>2. CASE ApplyDiff(u, texts, origs)
  <2>1. orig' = BackedUp(u, texts, origs) /\ content' = Written(u, texts)
        /\ UNCHANGED <<installed, live, runs, reported, errorList>>
    BY <1>2 DEF ApplyDiff
  <2>2. \A f \in Files : texts[f] \in Text /\ Append(texts[f], u) \in Text
    BY ChainIs, Longer
  <2>3. content' \in [Files -> Text] /\ orig' \in [Files -> Text \cup {NoBackup}]
    BY <2>1, <2>2 DEF Written, BackedUp
  <2>4. ASSUME NEW f \in Files PROVE Touched(u, f, texts, origs)
    <3>1. f \in Edits(u) => orig'[f] = texts[f]
      <4> SUFFICES ASSUME f \in Edits(u) PROVE f \in Read(u, texts)
        BY <2>1 DEF BackedUp
      <4>1. PICK n \in DOMAIN EditsOf[u] : f = <<Vuln.dir, EditsOf[u][n]>>
        BY DEF Edits
      <4>2. \A g \in Edits(u) : Fits(u, g, texts)
        BY <1>2 DEF ApplyDiff
      <4>3. \A k \in 1..(n - 1) : <<Vuln.dir, EditsOf[u][k]>> \in Edits(u)
        BY EditsAre, ChainIs DEF Edits
      <4> QED BY <4>1, <4>2, <4>3 DEF Read
    <3>2. f \in Edits(u) => content'[f] \in {texts[f], Append(texts[f], u)}
      BY <2>1 DEF Written
    <3>3. f \notin Edits(u) => content'[f] = texts[f] /\ orig'[f] = origs[f]
      BY <2>1, ReadIsEdited DEF Written, BackedUp
    <3> QED BY <3>1, <3>2, <3>3 DEF Touched
  <2>5. Flagged
    BY <1>2, WriteFlagDoes DEF ApplyDiff
  <2>6. Applied(u)
    <3>1. Went(u, "patched") /\ rejected' = rejected /\ pending \subseteq pending'
      BY <1>2 DEF ApplyDiff, Went, WriteFlag
    <3>2. rejected' = (rejected \/ "patched" = "failed")
      BY <3>1 DEF TInv
    <3> QED BY <3>1, <3>2, Zenon DEF Applied
  <2> QED BY <2>1, <2>3, <2>4, <2>5, <2>6
<1>3. CASE DiffUnreadable(u, texts, origs)
  <2>1. content' = texts /\ orig' = origs /\ UNCHANGED <<installed, live, runs, reported, errorList>>
    BY <1>3 DEF DiffUnreadable
  <2>2. Flagged
    BY <1>3, WriteFlagDoes DEF DiffUnreadable
  <2>3. Went(u, "diagnosing") /\ rejected' = rejected /\ pending \subseteq pending'
    BY <1>3 DEF DiffUnreadable, Went, WriteFlag
  <2>4. Applied(u)
    <3>1. rejected' = (rejected \/ "diagnosing" = "failed")
      BY <2>3 DEF TInv
    <3> QED BY <2>3, <3>1, Zenon DEF Applied
  <2> QED BY <2>1, <2>2, <2>4 DEF Touched
<1>4. CASE Mismatch(u, texts, origs)
  <2>1. orig' = BackedUp(u, texts, origs) /\ content' = texts
        /\ UNCHANGED <<installed, live, runs, reported, errorList>> /\ rejected' = rejected
        /\ Die("exit_2", {})
    BY <1>4 DEF Mismatch
  <2>2. content' \in [Files -> Text] /\ orig' \in [Files -> Text \cup {NoBackup}]
    BY <2>1 DEF BackedUp
  <2>3. \A f \in Files : Touched(u, f, texts, origs)
    BY <2>1, ReadIsEdited DEF BackedUp, Touched
  <2>4. Flagged
    BY <1>4, <2>1 DEF Mismatch, Flagged, Die
  <2>5. Applied(u)
    BY <2>1, Zenon DEF Applied
  <2> QED BY <2>1, <2>2, <2>3, <2>4, <2>5
<1> QED BY <1>1, <1>2, <1>3, <1>4, Zenon DEF ApplyPatch

LEMMA AppliedKeepsTInv ==
  ASSUME TInv, NEW u \in DOMAIN chain, Applied(u), Flagged,
         content' \in [Files -> Text], orig' \in [Files -> Text \cup {NoBackup}],
         found' \in [Urls -> SUBSET Files], UNCHANGED <<installed, live, runs, reported, errorList>>
  PROVE  TInv'
<1>1. flags' \subseteq Dirs \X Ids /\ pending' \subseteq Dirs \X Ids
  BY ChainIs DEF Flagged, TInv
<1>2. CASE Die("exit_2", {}) /\ rejected' = rejected
  <2>1. chain' = NoChain /\ current' = 0 /\ todo' = {} /\ pending' = {} /\ running' = FALSE
        /\ outcome' \in Outcome /\ spoilt' \subseteq Dirs \X Ids
    BY <1>2 DEF Die, Outcome, TInv
  <2>2. chain' \in [DOMAIN chain' -> Step] /\ DOMAIN chain' = {}
    BY <2>1, NoChainIsEmpty
  <2>3. deaths' = deaths + 1 /\ deaths < runs
    BY <1>2, ChainIs DEF Die, TInv, Counted
  <2>4. Counted' /\ deaths' \in Nat
    BY <2>1, <2>3 DEF Counted, TInv
  <2>5. Holding' /\ current' \in 0..Count
    BY <2>1, ListIs DEF Holding
  <2> QED BY <1>1, <1>2, <2>1, <2>2, <2>4, <2>5 DEF TInv
<1>3. CASE \E s \in {"patched", "failed", "diagnosing"} :
             Went(u, s) /\ rejected' = (rejected \/ s = "failed") /\ pending \subseteq pending'
  <2>1. PICK s \in {"patched", "failed", "diagnosing"} :
             Went(u, s) /\ rejected' = (rejected \/ s = "failed") /\ pending \subseteq pending'
    BY <1>3
  <2>2. chain \in [DOMAIN chain -> Step] /\ s \in Step /\ chain' = [chain EXCEPT ![u] = s]
    BY <2>1 DEF Went, TInv, Step
  <2>3. chain' \in [DOMAIN chain' -> Step] /\ DOMAIN chain' = DOMAIN chain
    BY <2>2
  <2>4. running /\ UNCHANGED <<running, todo, current, outcome, deaths, spoilt>>
    BY <2>1, ChainIs DEF Went
  <2>5. Counted' /\ Holding'
    BY <2>4 DEF Counted, Holding, TInv
  <2>6. rejected' \in BOOLEAN
    BY <2>1
  <2> QED BY <1>1, <2>3, <2>4, <2>5, <2>6 DEF TInv
<1> QED BY <1>2, <1>3 DEF Applied

(* Putting back files whose .orig is there leaves texts.                   *)
LEMMA RestoredAreTexts ==
  ASSUME TInv, NEW S, \A f \in S : orig[f] # NoBackup
  PROVE  /\ Restored(S).texts \in [Files -> Text] /\ Restored(S).origs \in [Files -> Text \cup {NoBackup}]
         /\ \A f \in Files :
              /\ Restored(S).texts[f] = (IF f \in S THEN orig[f] ELSE content[f])
              /\ Restored(S).origs[f] = (IF f \in S THEN NoBackup ELSE orig[f])
BY DEF TInv, Restored

LEMMA QuietKeepsTInv ==
  ASSUME TInv, NEW u \in DOMAIN chain, NEW s \in Step, Went(u, s),
         UNCHANGED <<disk, live, pending, reported, runs>>,
         found' \in [Urls -> SUBSET Files], rejected' \in BOOLEAN, errorList' \in BOOLEAN
  PROVE  TInv'
<1>1. chain \in [DOMAIN chain -> Step] /\ chain' = [chain EXCEPT ![u] = s]
  BY DEF Went, TInv
<1>2. chain' \in [DOMAIN chain' -> Step] /\ DOMAIN chain' = DOMAIN chain
  BY <1>1
<1>3. UNCHANGED <<installed, content, orig, flags, live, pending, reported, runs>>
  BY DEF disk
<1>4. running /\ UNCHANGED <<running, todo, current, outcome, deaths, spoilt>>
  BY ChainIs DEF Went
<1>5. Counted' /\ Holding'
  BY <1>3, <1>4 DEF Counted, Holding, TInv
<1> QED BY <1>2, <1>3, <1>4, <1>5 DEF TInv

LEMMA DeathKeepsTInv ==
  ASSUME TInv, running, NEW how \in Outcome, NEW harmed \in SUBSET (Dirs \X Ids), Die(how, harmed),
         flags' \subseteq flags \cup pending,
         content' \in [Files -> Text], orig' \in [Files -> Text \cup {NoBackup}],
         found' \in [Urls -> SUBSET Files],
         UNCHANGED <<installed, live, reported, rejected, errorList, runs>>
  PROVE  TInv'
<1>1. chain' = NoChain /\ current' = 0 /\ todo' = {} /\ pending' = {} /\ running' = FALSE /\ outcome' = how
      /\ spoilt' \subseteq Dirs \X Ids
  BY DEF Die, TInv
<1>2. chain' \in [DOMAIN chain' -> Step] /\ DOMAIN chain' = {}
  BY <1>1, NoChainIsEmpty
<1>3. deaths' = deaths + 1 /\ deaths < runs /\ deaths \in Nat /\ runs \in Nat
  BY DEF Die, TInv, Counted
<1>4. Counted' /\ deaths' \in Nat
  BY <1>1, <1>3 DEF Counted
<1>5. Holding' /\ current' \in 0..Count
  BY <1>1, ListIs DEF Holding
<1>6. flags' \subseteq Dirs \X Ids
  BY DEF TInv
<1> QED BY <1>1, <1>2, <1>4, <1>5, <1>6 DEF TInv

LEMMA InitTInv == Init => TInv
<1> SUFFICES ASSUME Init PROVE TInv
  OBVIOUS
<1>1. content \in [Files -> Text] /\ orig \in [Files -> Text \cup {NoBackup}]
  BY NoBackupIsNoText DEF Init
<1>2. chain \in [DOMAIN chain -> Step] /\ DOMAIN chain = {}
  BY NoChainIsEmpty DEF Init
<1>3. current \in 0..Count /\ runs \in 0..MaxRuns
  BY ListIs, ParametersAssumption DEF Init, ParametersAssumption
<1>4. DOMAIN chain = (IF current = 0 THEN {} ELSE List[current].urls) /\ found \in [Urls -> SUBSET Files]
  BY <1>2 DEF Init
<1>5. Counted /\ Holding /\ outcome \in Outcome /\ deaths \in Nat
  BY DEF Init, Counted, Holding, Outcome
<1>6. /\ installed \subseteq Dirs /\ flags = {} /\ live = TRUE /\ running = FALSE /\ rejected = FALSE
      /\ errorList = FALSE /\ todo = {} /\ pending = {} /\ reported = {} /\ spoilt = {}
  BY DEF Init
<1> QED BY <1>1, <1>2, <1>3, <1>4, <1>5, <1>6 DEF TInv

LEMMA StartKeepsTInv == ASSUME TInv, NEW isLive \in BOOLEAN, Start(isLive) PROVE TInv'
<1> DEFINE throws == isLive /\ \E i \in DOMAIN List : List[i].dir \notin installed
<1>1. running' = ~throws /\ outcome' = IF throws THEN "threw" ELSE "none"
  BY DEF Start
<1>2. todo' = (IF throws THEN {} ELSE Packages) /\ reported' = (IF throws THEN {} ELSE Removed)
  BY DEF Start
<1>3. ~running /\ runs < MaxRuns /\ runs' = runs + 1 /\ live' = isLive /\ current' = 0 /\ chain' = NoChain
      /\ rejected' = FALSE /\ errorList' = FALSE /\ found' = [u \in Urls |-> {}]
      /\ UNCHANGED <<installed, content, orig, flags, pending, deaths, spoilt>>
  BY DEF Start, disk, toll
<1> HIDE DEF throws
<1>4. todo' \subseteq DOMAIN List /\ reported' \subseteq DOMAIN List
  BY <1>2, PackagesAreListed DEF Removed
<1>5. running' \in BOOLEAN /\ outcome' \in Outcome
  BY <1>1 DEF Outcome
<1>6. chain' \in [DOMAIN chain' -> Step] /\ DOMAIN chain' = {}
  BY <1>3, NoChainIsEmpty
<1>7. Counted' /\ runs' \in 0..MaxRuns
  BY <1>3, ParametersAssumption DEF Counted, TInv, ParametersAssumption
<1>8. Holding'
  BY <1>1, <1>2, <1>3 DEF Holding, TInv
<1>9. /\ current' \in 0..Count /\ DOMAIN chain' = (IF current' = 0 THEN {} ELSE List[current'].urls)
      /\ found' \in [Urls -> SUBSET Files] /\ deaths' \in Nat
  BY <1>3, <1>6, ListIs DEF TInv
<1> QED BY <1>3, <1>4, <1>5, <1>6, <1>7, <1>8, <1>9 DEF TInv

LEMMA NextPackageKeepsTInv == ASSUME TInv, NextPackage PROVE TInv'
<1>1. Foremost \in todo /\ Foremost \in DOMAIN List
  BY ForemostIs DEF NextPackage, TInv
<1>2. running /\ UNCHANGED <<installed, content, orig, flags, live, running, found, pending, rejected,
                             errorList, outcome, runs, deaths, spoilt>>
      /\ todo' = todo \ {Foremost} /\ current' = Foremost
      /\ chain' = [u \in List[Foremost].urls |-> "fetching"] /\ reported' = WithCurrent
  BY DEF NextPackage, disk, toll
<1> HIDE DEF Foremost
<1>3. chain' \in [DOMAIN chain' -> Step] /\ DOMAIN chain' = List[Foremost].urls
  BY <1>2 DEF Step
<1>4. current' \in 0..Count /\ current' # 0
  BY <1>1, <1>2, ListIs
<1>5. Counted' /\ Holding'
  BY <1>2 DEF Counted, Holding, TInv
<1>6. reported' \subseteq DOMAIN List
  BY <1>2, ChainIs DEF WithCurrent, TInv
<1> QED BY <1>2, <1>3, <1>4, <1>5, <1>6 DEF TInv

LEMMA FinishKeepsTInv == ASSUME TInv, Finish PROVE TInv'
<1>1. running /\ UNCHANGED <<installed, content, orig, flags, live, found, pending, rejected, errorList,
                             runs, deaths, spoilt>>
      /\ running' = FALSE /\ todo' = {} /\ current' = 0 /\ chain' = NoChain /\ reported' = WithCurrent
      /\ pending = {}
  BY DEF Finish, disk, toll
<1>2. outcome' \in Outcome
  BY DEF Finish, Outcome, TInv
<1>3. chain' \in [DOMAIN chain' -> Step] /\ DOMAIN chain' = {}
  BY <1>1, NoChainIsEmpty
<1>4. Counted' /\ Holding'
  BY <1>1 DEF Counted, Holding, TInv
<1>5. reported' \subseteq DOMAIN List
  BY <1>1, ChainIs DEF WithCurrent, TInv
<1>6. current' \in 0..Count /\ DOMAIN chain' = (IF current' = 0 THEN {} ELSE List[current'].urls)
  BY <1>1, <1>3, ListIs
<1> QED BY <1>1, <1>2, <1>3, <1>4, <1>5, <1>6 DEF TInv

LEMMA RestoreAndApplyDoes ==
  ASSUME TInv, NEW u \in DOMAIN chain, RestoreAndApply(u)
  PROVE  /\ chain[u] = "listed"
         /\ \A f \in found[u] : orig[f] # NoBackup
         /\ found' = [found EXCEPT ![u] = {}]
         /\ ApplyPatch(u, Restored(found[u]).texts, Restored(found[u]).origs)
BY DEF RestoreAndApply, Gone

LEMMA RestoreThrowsDoes ==
  ASSUME TInv, NEW u \in DOMAIN chain, RestoreThrows(u)
  PROVE  /\ chain[u] = "listed" /\ Die("exit_2", {}) /\ Gone(u) # {} /\ found' = [found EXCEPT ![u] = {}]
         /\ flags \subseteq flags' /\ flags' \subseteq flags \cup pending
         /\ UNCHANGED <<installed, live, reported, rejected, errorList, runs>>
         /\ \E S \in SUBSET found[u] :
              /\ \A f \in S : orig[f] # NoBackup
              /\ content' = Restored(S).texts /\ orig' = Restored(S).origs
<1> DEFINE S == {f \in found[u] : \A g \in Gone(u) : f[2] < g[2]}
<1>1. found[u] \subseteq Files
  BY ChainIs DEF TInv
<1>2. ASSUME NEW f \in S PROVE orig[f] # NoBackup
  <2>1. f \in Files /\ f \in found[u] /\ f[2] \in Nat
    BY <1>1, EditsAre DEF Files, Paths
  <2>2. ~(f[2] < f[2])
    BY <2>1
  <2>3. f \notin Gone(u)
    BY <2>2
  <2> QED BY <2>1, <2>3 DEF Gone
<1>3. content' = Restored(S).texts /\ orig' = Restored(S).origs
  BY DEF RestoreThrows
<1>4. flags \subseteq flags' /\ flags' \subseteq flags \cup pending
  BY DEF RestoreThrows
<1>5. /\ chain[u] = "listed" /\ Die("exit_2", {}) /\ Gone(u) # {} /\ found' = [found EXCEPT ![u] = {}]
      /\ UNCHANGED <<installed, live, reported, rejected, errorList, runs>>
  BY DEF RestoreThrows
<1> HIDE DEF S
<1>6. S \in SUBSET found[u]
  BY DEF S
<1> QED BY <1>2, <1>3, <1>4, <1>5, <1>6

LEMMA ChainStepKeepsTInv == ASSUME TInv, NEW u \in DOMAIN chain, ChainStep(u) PROVE TInv'
<1> USE DEF promises, toll
<1>0. u \in Urls /\ running /\ found \in [Urls -> SUBSET Files] /\ rejected \in BOOLEAN /\ errorList \in BOOLEAN
      /\ [found EXCEPT ![u] = {}] \in [Urls -> SUBSET Files]
  BY ChainIs DEF TInv
<1>1. CASE FetchFails(u)
  <2>1. Went(u, "failed") /\ UNCHANGED <<disk, live, pending, reported, runs, found, errorList>> /\ rejected' = TRUE
    BY <1>1 DEF FetchFails, Went
  <2> QED BY <2>1, <1>0, QuietKeepsTInv DEF Step
<1>2. CASE FetchedUnflagged(u)
  <2>1. ApplyPatch(u, content, orig) /\ found' = found
    BY <1>2 DEF FetchedUnflagged
  <2>2. content \in [Files -> Text] /\ orig \in [Files -> Text \cup {NoBackup}]
    BY DEF TInv
  <2> QED BY <2>1, <2>2, <1>0, ApplyPatchDoes, AppliedKeepsTInv
<1>3. CASE FetchedFlagged(u)
  <2>1. Went(u, "globbing") /\ UNCHANGED <<disk, live, pending, reported, runs, found, errorList, rejected>>
    BY <1>3 DEF FetchedFlagged, Went
  <2> QED BY <2>1, <1>0, QuietKeepsTInv DEF Step
<1>4. CASE GlobLists(u)
  <2>1. Went(u, "listed") /\ UNCHANGED <<disk, live, pending, reported, runs, errorList, rejected>>
    BY <1>4 DEF GlobLists, Went
  <2>2. found' \in [Urls -> SUBSET Files]
    BY <1>4, <1>0 DEF GlobLists
  <2> QED BY <2>1, <2>2, <1>0, QuietKeepsTInv DEF Step
<1>5. CASE RestoreAndApply(u)
  <2> DEFINE back == Restored(found[u])
  <2>1. /\ \A f \in found[u] : orig[f] # NoBackup
        /\ ApplyPatch(u, back.texts, back.origs) /\ found' = [found EXCEPT ![u] = {}]
    BY <1>5, RestoreAndApplyDoes
  <2>2. back.texts \in [Files -> Text] /\ back.origs \in [Files -> Text \cup {NoBackup}]
    BY <2>1, RestoredAreTexts
  <2> HIDE DEF back
  <2> QED BY <2>1, <2>2, <1>0, ApplyPatchDoes, AppliedKeepsTInv
<1>6. CASE RestoreThrows(u)
  <2>1. PICK S \in SUBSET found[u] : /\ \A f \in S : orig[f] # NoBackup
                                     /\ content' = Restored(S).texts /\ orig' = Restored(S).origs
    BY <1>6, RestoreThrowsDoes
  <2>2. content' \in [Files -> Text] /\ orig' \in [Files -> Text \cup {NoBackup}]
    BY <2>1, RestoredAreTexts
  <2>3. /\ Die("exit_2", {}) /\ found' = [found EXCEPT ![u] = {}] /\ flags' \subseteq flags \cup pending
        /\ UNCHANGED <<installed, live, reported, rejected, errorList, runs>>
    BY <1>6, RestoreThrowsDoes
  <2> QED BY <2>2, <2>3, <1>0, DeathKeepsTInv DEF Outcome
<1>7. CASE Diagnosed(u)
  <2>1. Went(u, "failed") /\ UNCHANGED <<disk, live, pending, reported, runs, found, rejected>> /\ errorList' = TRUE
    BY <1>7 DEF Diagnosed, Went
  <2> QED BY <2>1, <1>0, QuietKeepsTInv DEF Step
<1> QED BY <1>1, <1>2, <1>3, <1>4, <1>5, <1>6, <1>7, Zenon DEF ChainStep

LEMMA FlagCreatedKeepsTInv == ASSUME TInv, NEW x \in pending, FlagCreated(x) PROVE TInv'
<1>1. UNCHANGED <<installed, content, orig, live, running, todo, current, reported, chain, found, rejected,
                  errorList, outcome, runs, deaths, spoilt>>
      /\ pending' = pending \ {x} /\ flags' = flags \cup {x}
  BY DEF FlagCreated, promises, toll
<1>2. Counted' /\ Holding'
  BY <1>1 DEF Counted, Holding, TInv
<1> QED BY <1>1, <1>2 DEF TInv

(* What an application starts from: the files as they are, or restored.     *)
Base(u, texts, origs) ==
  \/ chain[u] = "fetching" /\ Flag \notin flags /\ texts = content /\ origs = orig
  \/ /\ chain[u] = "listed" /\ \A f \in found[u] : orig[f] # NoBackup
     /\ texts = Restored(found[u]).texts /\ origs = Restored(found[u]).origs

(* A kill between turns, ...                                               *)
KilledIdle == content' = content /\ orig' = orig /\ Die("killed", {})

(* ... amid the renames of a restore, ...                                  *)
KilledHalfRestored(u, S) ==
  /\ chain[u] = "listed" /\ \A f \in S : orig[f] # NoBackup
  /\ content' = Restored(S).texts /\ orig' = Restored(S).origs
  /\ Die("killed", {})

(* ... or amid an application.                                             *)
KilledHalfApplied(u) ==
  \E texts \in [Files -> Text], origs \in [Files -> Text \cup {NoBackup}] :
    Base(u, texts, origs) /\ KilledApplying(u, texts, origs)

LEMMA KilledDoes ==
  ASSUME TInv, Killed
  PROVE  /\ running /\ flags' \subseteq flags \cup pending /\ flags \subseteq flags'
         /\ UNCHANGED <<installed, live, reported, found, rejected, errorList, runs>>
         /\ \/ KilledIdle
            \/ \E u \in DOMAIN chain : \E S \in SUBSET found[u] : KilledHalfRestored(u, S)
            \/ \E u \in DOMAIN chain : KilledHalfApplied(u)
<1>1. /\ running /\ flags' \subseteq flags \cup pending /\ flags \subseteq flags'
      /\ UNCHANGED <<installed, live, reported, found, rejected, errorList, runs>>
  BY DEF Killed
<1>2. CASE KilledBetweenTurns
  BY <1>1, <1>2 DEF KilledBetweenTurns, KilledIdle
<1>3. ASSUME NEW u \in DOMAIN chain, chain[u] = "fetching", Flag \notin flags, KilledApplying(u, content, orig)
      PROVE  KilledHalfApplied(u)
  <2>1. content \in [Files -> Text] /\ orig \in [Files -> Text \cup {NoBackup}]
    BY DEF TInv
  <2>2. Base(u, content, orig)
    BY <1>3 DEF Base
  <2> QED BY <2>1, <2>2, <1>3 DEF KilledHalfApplied
<1>4. ASSUME NEW u \in DOMAIN chain, chain[u] = "listed", NEW p \in Paths, KilledRestoring(u, p)
      PROVE  \E S \in SUBSET found[u] : KilledHalfRestored(u, S)
  <2> DEFINE S == {f \in found[u] : f[2] <= p}
  <2>1. S \cap Gone(u) = {} /\ content' = Restored(S).texts /\ orig' = Restored(S).origs /\ Die("killed", {})
    BY <1>4 DEF KilledRestoring
  <2>2. \A f \in S : orig[f] # NoBackup
    BY <2>1 DEF Gone
  <2>3. S \in SUBSET found[u]
    OBVIOUS
  <2> HIDE DEF S
  <2>4. KilledHalfRestored(u, S)
    BY <1>4, <2>1, <2>2 DEF KilledHalfRestored
  <2> QED BY <2>3, <2>4
<1>5. ASSUME NEW u \in DOMAIN chain, chain[u] = "listed", Gone(u) = {},
             KilledApplying(u, Restored(found[u]).texts, Restored(found[u]).origs)
      PROVE  KilledHalfApplied(u)
  <2>1. \A f \in found[u] : orig[f] # NoBackup
    BY <1>5 DEF Gone
  <2> DEFINE texts == Restored(found[u]).texts
             origs == Restored(found[u]).origs
  <2>2. texts \in [Files -> Text] /\ origs \in [Files -> Text \cup {NoBackup}]
    BY <2>1, RestoredAreTexts
  <2>3. Base(u, texts, origs)
    BY <1>5, <2>1 DEF Base
  <2>4. KilledApplying(u, texts, origs)
    BY <1>5
  <2> HIDE DEF texts, origs
  <2> QED BY <2>2, <2>3, <2>4 DEF KilledHalfApplied
<1> QED BY <1>1, <1>2, <1>3, <1>4, <1>5, Zenon DEF Killed

(* What a kill leaves of the files of a diff: as after an application that  *)
(* got so far, or cut off in the copy or in the patched text.              *)
Torn(u, f, texts, origs) ==
  \E c \in Cuts :
    /\ f \in Edits(u)
    /\ \/ content'[f] = texts[f] /\ orig'[f] = Append(texts[f], c)
       \/ content'[f] = Append(Append(texts[f], u), c) /\ orig'[f] = texts[f]

LEMMA UptoIs ==
  ASSUME NEW u \in DOMAIN chain, TInv, NEW n \in DOMAIN EditsOf[u], NEW c, NEW done, NEW before
  PROVE  /\ \A f \in Files :
              \/ Upto(u, n, c, done, before)[f] = before[f]
              \/ f \in Edits(u) /\ Upto(u, n, c, done, before)[f] = done[f]
              \/ f \in Edits(u) /\ c # Whole /\ Upto(u, n, c, done, before)[f] = Append(done[f], c)
         /\ Upto(u, n, c, done, before) = [f \in Files |-> Upto(u, n, c, done, before)[f]]
<1>1. u \in Urls /\ \A k \in 1..n : k \in DOMAIN EditsOf[u]
  <2>1. u \in Urls
    BY ChainIs
  <2>2. n \in Nat /\ \A k \in 1..(n - 1) : k \in DOMAIN EditsOf[u]
    BY <2>1, EditsAre
  <2>3. \A k \in 1..n : k = n \/ k \in 1..(n - 1)
    BY <2>2
  <2> QED BY <2>1, <2>2, <2>3
<1>2. \A f : (\E k \in 1..n : f = <<Vuln.dir, EditsOf[u][k]>>) => f \in Edits(u)
  BY <1>1 DEF Edits
<1> QED BY <1>2 DEF Upto

LEMMA KilledApplyingDoes ==
  ASSUME TInv, NEW u \in DOMAIN chain, NEW texts \in [Files -> Text],
         NEW origs \in [Files -> Text \cup {NoBackup}], KilledApplying(u, texts, origs)
  PROVE  /\ content' \in [Files -> Text] /\ orig' \in [Files -> Text \cup {NoBackup}]
         /\ \A f \in Files : Touched(u, f, texts, origs) \/ Torn(u, f, texts, origs)
         /\ \E harmed \in SUBSET {Flag} :
              /\ Die("killed", harmed)
              /\ Flag \notin harmed =>
                   \/ content' = texts /\ \A f \in Files : orig'[f] \in {origs[f], texts[f]}
                   \/ Flag \in flags /\ \A f \in Files : orig'[f] \in {origs[f], texts[f]}
<1>1. u \in Urls /\ \A f \in Files : texts[f] \in Text /\ Append(texts[f], u) \in Text
  BY ChainIs, Longer
<1>2. PICK n \in DOMAIN EditsOf[u], c \in Cuts \cup {Whole} :
        KilledCopying(u, n, c, texts, origs) \/ KilledWriting(u, n, c, texts, origs)
  BY DEF KilledApplying
<1>3. \A f \in Files : c # Whole => /\ c \in Cuts /\ Append(texts[f], c) \in Text
                                  /\ Append(Append(texts[f], u), c) \in Text
  BY <1>1, Longer
<1>4. CASE KilledCopying(u, n, c, texts, origs)
  <2>1. content' = texts /\ orig' = Upto(u, n, c, texts, origs)
        /\ Die("killed", IF c = Whole THEN {} ELSE {Flag})
    BY <1>4 DEF KilledCopying
  <2>2. \A f \in Files :
          \/ orig'[f] = origs[f]
          \/ f \in Edits(u) /\ orig'[f] = texts[f]
          \/ f \in Edits(u) /\ c # Whole /\ orig'[f] = Append(texts[f], c)
    BY <2>1, UptoIs
  <2>3. \A f \in Files : Touched(u, f, texts, origs) \/ Torn(u, f, texts, origs)
    BY <2>1, <2>2, <1>3 DEF Touched, Torn
  <2>4. orig' = [f \in Files |-> orig'[f]] /\ content' \in [Files -> Text]
    BY <2>1, UptoIs
  <2>5. \A f \in Files : orig'[f] \in Text \cup {NoBackup}
    BY <2>2, <1>1, <1>3
  <2>6. orig' \in [Files -> Text \cup {NoBackup}]
    BY <2>4, <2>5
  <2>7. CASE c = Whole
    <3>1. Die("killed", {}) /\ \A f \in Files : orig'[f] \in {origs[f], texts[f]}
      BY <2>1, <2>2, <2>7
    <3> QED BY <2>1, <2>3, <2>4, <2>6, <3>1
  <2>8. CASE c # Whole
    <3>1. Die("killed", {Flag}) /\ Flag \in {Flag}
      BY <2>1, <2>8
    <3> QED BY <2>3, <2>4, <2>6, <3>1
  <2> QED BY <2>7, <2>8
<1>5. CASE KilledWriting(u, n, c, texts, origs)
  <2>1. /\ live /\ (\A f \in Edits(u) : Fits(u, f, texts)) /\ orig' = BackedUp(u, texts, origs)
        /\ content' = Upto(u, n, c, Written(u, texts), texts) /\ Die("killed", {Flag} \ flags)
    BY <1>5 DEF KilledWriting
  <2>2. \A f \in Files : f \in Edits(u) => Written(u, texts)[f] = Append(texts[f], u)
    BY <2>1 DEF Written
  <2>3. \A f \in Files :
          \/ content'[f] = texts[f]
          \/ f \in Edits(u) /\ content'[f] = Append(texts[f], u)
          \/ f \in Edits(u) /\ c # Whole /\ content'[f] = Append(Append(texts[f], u), c)
    <3> HIDE DEF Written
    <3> QED BY <2>1, <2>2, UptoIs
  <2>4. ASSUME NEW f \in Files
        PROVE  orig'[f] \in {origs[f], texts[f]} /\ (f \in Edits(u) => orig'[f] = texts[f])
               /\ (f \notin Edits(u) => orig'[f] = origs[f])
    <3>1. f \in Edits(u) => f \in Read(u, texts)
      <4> SUFFICES ASSUME f \in Edits(u) PROVE f \in Read(u, texts)
        OBVIOUS
      <4>1. PICK m \in DOMAIN EditsOf[u] : f = <<Vuln.dir, EditsOf[u][m]>>
        BY DEF Edits
      <4>2. \A k \in 1..(m - 1) : <<Vuln.dir, EditsOf[u][k]>> \in Edits(u)
        BY EditsAre, <1>1 DEF Edits
      <4> QED BY <4>1, <4>2, <2>1 DEF Read
    <3> QED BY <2>1, <3>1, ReadIsEdited DEF BackedUp
  <2>5. \A f \in Files : Touched(u, f, texts, origs) \/ Torn(u, f, texts, origs)
    BY <2>3, <2>4, <1>3 DEF Touched, Torn
  <2>6. orig' \in [Files -> Text \cup {NoBackup}]
    BY <2>1 DEF BackedUp
  <2>7. content' \in [Files -> Text]
    <3>1. content' = [f \in Files |-> content'[f]]
      <4> HIDE DEF Written
      <4> QED BY <2>1, UptoIs
    <3>2. \A f \in Files : content'[f] \in Text
      BY <2>3, <1>1, <1>3
    <3> QED BY <3>1, <3>2
  <2>8. Flag \notin {Flag} \ flags => Flag \in flags
    OBVIOUS
  <2> QED BY <2>1, <2>4, <2>5, <2>6, <2>7, <2>8
<1> QED BY <1>2, <1>4, <1>5

LEMMA KilledKeepsTInv == ASSUME TInv, Killed PROVE TInv'
<1>1. /\ running /\ flags' \subseteq flags \cup pending /\ found' \in [Urls -> SUBSET Files]
      /\ UNCHANGED <<installed, live, reported, rejected, errorList, runs>>
  BY KilledDoes DEF TInv
<1>2. content \in [Files -> Text] /\ orig \in [Files -> Text \cup {NoBackup}] /\ "killed" \in Outcome
  BY DEF TInv, Outcome
<1>3. CASE KilledIdle
  BY <1>1, <1>2, <1>3, DeathKeepsTInv DEF KilledIdle
<1>4. ASSUME NEW u \in DOMAIN chain, NEW S \in SUBSET found[u], KilledHalfRestored(u, S) PROVE TInv'
  <2>1. content' \in [Files -> Text] /\ orig' \in [Files -> Text \cup {NoBackup}] /\ Die("killed", {})
    BY <1>4, RestoredAreTexts DEF KilledHalfRestored
  <2> QED BY <1>1, <1>2, <2>1, DeathKeepsTInv
<1>5. ASSUME NEW u \in DOMAIN chain, KilledHalfApplied(u) PROVE TInv'
  <2>1. /\ content' \in [Files -> Text] /\ orig' \in [Files -> Text \cup {NoBackup}]
        /\ \E harmed \in SUBSET {Flag} : Die("killed", harmed)
    BY <1>5, KilledApplyingDoes DEF KilledHalfApplied
  <2>2. SUBSET {Flag} \subseteq SUBSET (Dirs \X Ids)
    BY ChainIs
  <2> QED BY <1>1, <1>2, <2>1, <2>2, DeathKeepsTInv
<1> QED BY KilledDoes, <1>3, <1>4, <1>5

LEMMA ReinstallKeepsTInv == ASSUME TInv, NEW d \in Dirs, Reinstall(d) PROVE TInv'
<1>1. UNCHANGED <<live, running, todo, current, reported, chain, found, pending, rejected, errorList, runs, deaths>>
      /\ outcome' = "none" /\ installed' = installed \cup {d} /\ flags' = {x \in flags : x[1] # d}
      /\ spoilt' = {x \in spoilt : x[1] # d}
  BY DEF Reinstall, promises
<1>2. content' \in [Files -> Text] /\ orig' \in [Files -> Text \cup {NoBackup}]
  <2>1. content' = [f \in Files |-> IF f[1] = d THEN <<>> ELSE content[f]]
        /\ orig' = [f \in Files |-> IF f[1] = d THEN NoBackup ELSE orig[f]]
    BY DEF Reinstall
  <2> QED BY <2>1, NoBackupIsNoText DEF TInv
<1>3. Counted' /\ Holding'
  BY <1>1 DEF Counted, Holding, TInv
<1> QED BY <1>1, <1>2, <1>3 DEF TInv, Outcome

LEMMA NextKeepsTInv == TInv /\ [Next]_vars => TInv'
<1> SUFFICES ASSUME TInv, [Next]_vars PROVE TInv'
  OBVIOUS
<1>1. CASE NextPackage
  BY <1>1, NextPackageKeepsTInv
<1>2. CASE Finish
  BY <1>2, FinishKeepsTInv
<1>3. ASSUME NEW u \in DOMAIN chain, ChainStep(u) PROVE TInv'
  BY <1>3, ChainStepKeepsTInv
<1>4. ASSUME NEW x \in pending, FlagCreated(x) PROVE TInv'
  BY <1>4, FlagCreatedKeepsTInv
<1>5. ASSUME NEW isLive \in BOOLEAN, Start(isLive) PROVE TInv'
  BY <1>5, StartKeepsTInv
<1>6. CASE Killed
  BY <1>6, KilledKeepsTInv
<1>7. ASSUME NEW d \in Dirs, Reinstall(d) PROVE TInv'
  BY <1>7, ReinstallKeepsTInv
<1>8. CASE UNCHANGED vars
  BY <1>8 DEF vars, disk, promises, toll, TInv, Counted, Holding
<1> QED BY <1>1, <1>2, <1>3, <1>4, <1>5, <1>6, <1>7, <1>8 DEF Next, Turn

(* The types of the variables: files keep texts, a chain belongs to a diff  *)
(* of the vulnerability the run is at, and no more runs have died than have *)
(* started.                                                                *)
THEOREM PatchTypes == Spec => []TypeOK
<1>1. Spec => []TInv
  BY InitTInv, NextKeepsTInv, PTL DEF Spec
<1> QED BY <1>1, TInvIsTypeOK, PTL

-----------------------------------------------------------------------------
(***************************************************************************)
(* The backups.                                                            *)
(***************************************************************************)
(* What an .orig may be to its file, before and after a run has died.       *)
Backed(text, backup, died) ==
  backup # NoBackup =>
    \/ text = backup
    \/ \E u \in Urls : text = Append(backup, u)
    \/ /\ died
       /\ \E c \in Cuts : \/ backup = Append(text, c)
                        \/ \E u \in Urls : text = Append(Append(backup, u), c)

LEMMA BackupsAreBacked == BackupIsOneStepBack <=> \A f \in Files : Backed(content[f], orig[f], deaths > 0)
BY DEF BackupIsOneStepBack, Backed

LEMMA ApplyKeepsBackups ==
  ASSUME TInv, NEW u \in DOMAIN chain, NEW texts \in [Files -> Text],
         NEW origs \in [Files -> Text \cup {NoBackup}], ApplyPatch(u, texts, origs),
         \A f \in Files : Backed(texts[f], origs[f], deaths > 0)
  PROVE  BackupIsOneStepBack'
<1>1. \A f \in Files : Touched(u, f, texts, origs)
  BY ApplyPatchDoes
<1>2. deaths > 0 => deaths' > 0
  <2>1. deaths' = deaths \/ deaths' = deaths + 1
    BY ApplyPatchDoes DEF Applied, Went, Die
  <2> QED BY <2>1 DEF TInv
<1>3. u \in Urls
  BY ChainIs
<1>4. ASSUME NEW f \in Files PROVE Backed(content[f], orig[f], deaths > 0)'
  BY <1>1, <1>2, <1>3, <1>4, Zenon DEF Touched, Backed
<1> QED BY <1>4 DEF BackupIsOneStepBack, Backed

LEMMA RestoredIsBacked ==
  ASSUME TInv, BackupIsOneStepBack, NEW S, \A f \in S : orig[f] # NoBackup
  PROVE  \A f \in Files : Backed(Restored(S).texts[f], Restored(S).origs[f], deaths > 0)
<1> TAKE f \in Files
<1>1. Restored(S).texts[f] = (IF f \in S THEN orig[f] ELSE content[f])
      /\ Restored(S).origs[f] = (IF f \in S THEN NoBackup ELSE orig[f])
  BY RestoredAreTexts
<1>2. Backed(content[f], orig[f], deaths > 0)
  BY BackupsAreBacked
<1>3. CASE f \in S
  BY <1>1, <1>3, Zenon DEF Backed
<1>4. CASE f \notin S
  BY <1>1, <1>2, <1>4, Zenon
<1> QED BY <1>3, <1>4

LEMMA RestoreKeepsBackups ==
  ASSUME TInv, BackupIsOneStepBack, NEW S, \A f \in S : orig[f] # NoBackup,
         content' = Restored(S).texts, orig' = Restored(S).origs, deaths' = deaths + 1
  PROVE  BackupIsOneStepBack'
<1>1. \A f \in Files : Backed(Restored(S).texts[f], Restored(S).origs[f], deaths > 0)
  BY RestoredIsBacked
<1>2. deaths' > 0
  BY DEF TInv
<1> HIDE DEF Restored
<1>3. \A f \in Files : Backed(content[f], orig[f], deaths > 0)'
  BY <1>1, <1>2, Zenon DEF Backed
<1> QED BY <1>3 DEF BackupIsOneStepBack, Backed

LEMMA KilledKeepsBackups == ASSUME TInv, BackupIsOneStepBack, Killed PROVE BackupIsOneStepBack'
<1>1. CASE KilledIdle
  <2>1. content' = content /\ orig' = orig /\ deaths' = deaths + 1 /\ deaths \in Nat
    BY <1>1 DEF KilledIdle, Die, TInv
  <2> QED BY <2>1 DEF BackupIsOneStepBack
<1>2. ASSUME NEW u \in DOMAIN chain, NEW S \in SUBSET found[u], KilledHalfRestored(u, S)
      PROVE  BackupIsOneStepBack'
  BY <1>2, RestoreKeepsBackups DEF KilledHalfRestored, Die
<1>3. ASSUME NEW u \in DOMAIN chain, KilledHalfApplied(u) PROVE BackupIsOneStepBack'
  <2>1. PICK texts \in [Files -> Text], origs \in [Files -> Text \cup {NoBackup}] :
          Base(u, texts, origs) /\ KilledApplying(u, texts, origs)
    BY <1>3 DEF KilledHalfApplied
  <2>2. \A f \in Files : Backed(texts[f], origs[f], deaths > 0)
    <3>1. CASE texts = content /\ origs = orig
      BY <3>1, BackupsAreBacked
    <3>2. CASE /\ \A f \in found[u] : orig[f] # NoBackup
               /\ texts = Restored(found[u]).texts /\ origs = Restored(found[u]).origs
      <4>1. \A f \in Files : Backed(Restored(found[u]).texts[f], Restored(found[u]).origs[f], deaths > 0)
        BY <3>2, RestoredIsBacked
      <4> HIDE DEF Restored
      <4> QED BY <3>2, <4>1
    <3> QED BY <2>1, <3>1, <3>2 DEF Base
  <2>3. /\ \A f \in Files : Touched(u, f, texts, origs) \/ Torn(u, f, texts, origs)
        /\ \E harmed \in SUBSET {Flag} : Die("killed", harmed)
    BY <2>1, KilledApplyingDoes
  <2>4. deaths' > 0
    BY <2>3 DEF Die, TInv
  <2>5. u \in Urls
    BY ChainIs
  <2>6. ASSUME NEW f \in Files PROVE Backed(content[f], orig[f], deaths > 0)'
    <3>1. Touched(u, f, texts, origs) \/ Torn(u, f, texts, origs)
      BY <2>3
    <3>2. Backed(texts[f], origs[f], deaths > 0)
      BY <2>2
    <3> QED BY <3>1, <3>2, <2>4, <2>5, Zenon DEF Touched, Torn, Backed
  <2> QED BY <2>6 DEF BackupIsOneStepBack, Backed
<1> QED BY KilledDoes, <1>1, <1>2, <1>3

LEMMA ChainStepKeepsBackups ==
  ASSUME TInv, BackupIsOneStepBack, NEW u \in DOMAIN chain, ChainStep(u) PROVE BackupIsOneStepBack'
<1>1. CASE FetchedUnflagged(u)
  BY <1>1, ApplyKeepsBackups, BackupsAreBacked DEF FetchedUnflagged, TInv
<1>2. CASE RestoreAndApply(u)
  <2> DEFINE back == Restored(found[u])
  <2>1. \A f \in found[u] : orig[f] # NoBackup
    BY <1>2, RestoreAndApplyDoes
  <2>2. ApplyPatch(u, back.texts, back.origs)
    BY <1>2, RestoreAndApplyDoes
  <2>3. back.texts \in [Files -> Text] /\ back.origs \in [Files -> Text \cup {NoBackup}]
    BY <2>1, RestoredAreTexts
  <2>4. \A f \in Files : Backed(back.texts[f], back.origs[f], deaths > 0)
    BY <2>1, RestoredIsBacked
  <2> HIDE DEF back
  <2> QED BY <2>2, <2>3, <2>4, ApplyKeepsBackups
<1>3. CASE RestoreThrows(u)
  <2>1. PICK S \in SUBSET found[u] : /\ \A f \in S : orig[f] # NoBackup
                                     /\ content' = Restored(S).texts /\ orig' = Restored(S).origs
    BY <1>3, RestoreThrowsDoes
  <2>2. deaths' = deaths + 1
    BY <1>3, RestoreThrowsDoes DEF Die
  <2> QED BY <2>1, <2>2, RestoreKeepsBackups
<1>4. CASE FetchFails(u) \/ FetchedFlagged(u) \/ GlobLists(u) \/ Diagnosed(u)
  <2>1. content' = content /\ orig' = orig /\ deaths' = deaths
    BY <1>4 DEF FetchFails, FetchedFlagged, GlobLists, Diagnosed, disk, toll
  <2> QED BY <2>1 DEF BackupIsOneStepBack
<1> QED BY <1>1, <1>2, <1>3, <1>4, Zenon DEF ChainStep

LEMMA NextKeepsBackups == TInv /\ BackupIsOneStepBack /\ [Next]_vars => BackupIsOneStepBack'
<1> SUFFICES ASSUME TInv, BackupIsOneStepBack, [Next]_vars PROVE BackupIsOneStepBack'
  OBVIOUS
<1>1. ASSUME NEW u \in DOMAIN chain, ChainStep(u) PROVE BackupIsOneStepBack'
  BY <1>1, ChainStepKeepsBackups
<1>2. ASSUME NEW d \in Dirs, Reinstall(d) PROVE BackupIsOneStepBack'
  <2>1. content' = [f \in Files |-> IF f[1] = d THEN <<>> ELSE content[f]]
        /\ orig' = [f \in Files |-> IF f[1] = d THEN NoBackup ELSE orig[f]]
        /\ deaths' = deaths
    BY <1>2 DEF Reinstall
  <2> QED BY <2>1 DEF BackupIsOneStepBack
<1>3. ASSUME content' = content, orig' = orig, deaths' = deaths PROVE BackupIsOneStepBack'
  BY <1>3 DEF BackupIsOneStepBack
<1>4. CASE NextPackage \/ Finish \/ UNCHANGED vars
  BY <1>4, <1>3 DEF NextPackage, Finish, vars, disk, toll
<1>5. ASSUME NEW x \in pending, FlagCreated(x) PROVE BackupIsOneStepBack'
  BY <1>5, <1>3 DEF FlagCreated, toll
<1>6. ASSUME NEW isLive \in BOOLEAN, Start(isLive) PROVE BackupIsOneStepBack'
  BY <1>6, <1>3 DEF Start, disk, toll
<1>7. CASE Killed
  BY <1>7, KilledKeepsBackups
<1> QED BY <1>1, <1>2, <1>4, <1>5, <1>6, <1>7 DEF Next, Turn

(* Wherever a run is killed, in the middle of a write too, an .orig is its  *)
(* file or its file before the last diff, or one of the two is cut off: a   *)
(* run that restores takes back the last diff, or nothing.                 *)
THEOREM BackupsAreOneStepBack == Spec => []BackupIsOneStepBack
<1>1. Init => BackupIsOneStepBack
  BY DEF Init, BackupIsOneStepBack
<1>2. Spec => []TInv
  BY InitTInv, NextKeepsTInv, PTL DEF Spec
<1> QED BY <1>1, <1>2, NextKeepsBackups, PTL DEF Spec

-----------------------------------------------------------------------------
(***************************************************************************)
(* The order of a run: a vulnerability is taken up once, a chain restores  *)
(* in its own package, a failure is told and a live run finds what it is   *)
(* to patch.                                                               *)
(***************************************************************************)
TakenOnce  == todo \subseteq Packages /\ current \notin todo /\ (current # 0 => current \in Packages)
FailedTold == \A u \in DOMAIN chain : chain[u] = "failed" => rejected \/ errorList
ListedHere == \A u \in DOMAIN chain : chain[u] = "listed" => \A f \in found[u] : f[1] = Vuln.dir
Located    == running /\ live => \A i \in DOMAIN List : List[i].dir \in installed
Succeeded  == outcome = "patched" => ~running /\ ~rejected /\ ~errorList

HInv == TakenOnce /\ FailedTold /\ ListedHere /\ Located /\ Succeeded

LEMMA DoneKeepsHInv ==
  ASSUME TInv, HInv, todo' = {}, current' = 0, chain' = NoChain, running' = FALSE,
         outcome' = "patched" => ~rejected' /\ ~errorList'
  PROVE  HInv'
<1>1. DOMAIN chain' = {}
  BY NoChainIsEmpty
<1> QED BY <1>1 DEF HInv, TakenOnce, FailedTold, ListedHere, Located, Succeeded

LEMMA AppliedKeepsHInv ==
  ASSUME TInv, HInv, NEW u \in DOMAIN chain, Applied(u), UNCHANGED <<installed, live, errorList>>,
         found' \in {found, [found EXCEPT ![u] = {}]}
  PROVE  HInv'
<1>1. CASE Die("exit_2", {})
  BY <1>1, DoneKeepsHInv DEF Die
<1>2. CASE \E s \in {"patched", "failed", "diagnosing"} :
             Went(u, s) /\ rejected' = (rejected \/ s = "failed") /\ pending \subseteq pending'
  <2>1. PICK s \in {"patched", "failed", "diagnosing"} :
             Went(u, s) /\ rejected' = (rejected \/ s = "failed") /\ pending \subseteq pending'
    BY <1>2
  <2>2. /\ running' = running /\ todo' = todo /\ current' = current /\ outcome' = outcome
        /\ chain' = [chain EXCEPT ![u] = s] /\ s # "listed"
    BY <2>1 DEF Went
  <2>3. \A v \in DOMAIN chain : chain'[v] = (IF v = u THEN s ELSE chain[v])
    BY <2>2 DEF TInv
  <2>4. DOMAIN chain' = DOMAIN chain
    BY <2>2
  <2>5. \A v \in DOMAIN chain : v # u => found'[v] = found[v]
    BY ChainIs DEF TInv
  <2>6. FailedTold'
    BY <2>1, <2>3, <2>4 DEF FailedTold, HInv
  <2>7. ListedHere'
    BY <2>2, <2>3, <2>4, <2>5 DEF ListedHere, HInv, Vuln
  <2>8. TakenOnce' /\ Located' /\ Succeeded'
    BY <2>2, ChainIs DEF HInv, TakenOnce, Located, Succeeded
  <2> QED BY <2>6, <2>7, <2>8 DEF HInv
<1> QED BY <1>1, <1>2 DEF Applied

LEMMA QuietKeepsHInv ==
  ASSUME TInv, HInv, NEW u \in DOMAIN chain, NEW s \in Step, Went(u, s), UNCHANGED <<installed, live>>,
         (rejected => rejected') /\ (errorList => errorList'), s = "failed" => rejected' \/ errorList',
         \A v \in DOMAIN chain : v # u => found'[v] = found[v],
         s = "listed" => \A f \in found'[u] : f[1] = Vuln.dir
  PROVE  HInv'
<1>1. /\ running' = running /\ todo' = todo /\ current' = current /\ outcome' = outcome
      /\ chain' = [chain EXCEPT ![u] = s]
  BY DEF Went
<1>2. \A v \in DOMAIN chain : chain'[v] = (IF v = u THEN s ELSE chain[v])
  BY <1>1 DEF TInv
<1>3. DOMAIN chain' = DOMAIN chain
  BY <1>1
<1>4. FailedTold'
  BY <1>2, <1>3 DEF FailedTold, HInv
<1>5. ListedHere'
  BY <1>1, <1>2, <1>3 DEF ListedHere, HInv, Vuln
<1>6. TakenOnce' /\ Located' /\ Succeeded'
  BY <1>1, ChainIs DEF HInv, TakenOnce, Located, Succeeded
<1> QED BY <1>4, <1>5, <1>6 DEF HInv

LEMMA ChainStepKeepsHInv == ASSUME TInv, HInv, NEW u \in DOMAIN chain, ChainStep(u) PROVE HInv'
<1> USE DEF promises, toll
<1>0. u \in Urls /\ found \in [Urls -> SUBSET Files]
  BY ChainIs DEF TInv
<1>1. CASE FetchFails(u)
  <2>1. Went(u, "failed") /\ UNCHANGED <<installed, live, found, errorList>> /\ rejected' = TRUE
    BY <1>1 DEF FetchFails, Went, disk, toll
  <2> QED BY <2>1, QuietKeepsHInv DEF Step
<1>2. CASE FetchedUnflagged(u)
  <2>1. ApplyPatch(u, content, orig) /\ found' = found
    BY <1>2 DEF FetchedUnflagged
  <2>2. content \in [Files -> Text] /\ orig \in [Files -> Text \cup {NoBackup}]
    BY DEF TInv
  <2> QED BY <2>1, <2>2, ApplyPatchDoes, AppliedKeepsHInv
<1>3. CASE FetchedFlagged(u)
  <2>1. Went(u, "globbing") /\ UNCHANGED <<installed, live, found, errorList, rejected>>
    BY <1>3 DEF FetchedFlagged, Went, disk, toll
  <2> QED BY <2>1, QuietKeepsHInv DEF Step
<1>4. CASE GlobLists(u)
  <2>1. Went(u, "listed") /\ UNCHANGED <<installed, live, errorList, rejected>>
        /\ found' = [found EXCEPT ![u] = {f \in Files : f[1] = Vuln.dir /\ orig[f] # NoBackup}]
    BY <1>4 DEF GlobLists, Went, disk, toll
  <2>2. (\A f \in found'[u] : f[1] = Vuln.dir) /\ \A v \in DOMAIN chain : v # u => found'[v] = found[v]
    BY <2>1, <1>0, ChainIs
  <2> QED BY <2>1, <2>2, QuietKeepsHInv DEF Step
<1>5. CASE RestoreAndApply(u)
  <2> DEFINE back == Restored(found[u])
  <2>1. /\ \A f \in found[u] : orig[f] # NoBackup
        /\ ApplyPatch(u, back.texts, back.origs) /\ found' = [found EXCEPT ![u] = {}]
    BY <1>5, RestoreAndApplyDoes
  <2>2. back.texts \in [Files -> Text] /\ back.origs \in [Files -> Text \cup {NoBackup}]
    BY <2>1, RestoredAreTexts
  <2> HIDE DEF back
  <2> QED BY <2>1, <2>2, ApplyPatchDoes, AppliedKeepsHInv
<1>6. CASE RestoreThrows(u)
  BY <1>6, RestoreThrowsDoes, DoneKeepsHInv DEF Die
<1>7. CASE Diagnosed(u)
  <2>1. Went(u, "failed") /\ UNCHANGED <<installed, live, found, rejected>> /\ errorList' = TRUE
    BY <1>7 DEF Diagnosed, Went, disk, toll
  <2> QED BY <2>1, QuietKeepsHInv DEF Step
<1> QED BY <1>1, <1>2, <1>3, <1>4, <1>5, <1>6, <1>7, Zenon DEF ChainStep

LEMMA NextKeepsHInv == TInv /\ HInv /\ [Next]_vars => HInv'
<1> SUFFICES ASSUME TInv, HInv, [Next]_vars PROVE HInv'
  OBVIOUS
<1>1. ASSUME NEW u \in DOMAIN chain, ChainStep(u) PROVE HInv'
  BY <1>1, ChainStepKeepsHInv
<1>2. CASE NextPackage
  <2>1. Foremost \in todo
    BY <1>2, ForemostIs DEF NextPackage, TInv
  <2>2. UNCHANGED <<installed, live, running, rejected, errorList, outcome>>
        /\ todo' = todo \ {Foremost} /\ current' = Foremost
        /\ chain' = [u \in List[Foremost].urls |-> "fetching"]
    BY <1>2 DEF NextPackage, disk
  <2> HIDE DEF Foremost
  <2>3. TakenOnce' /\ Located' /\ Succeeded'
    BY <2>1, <2>2 DEF HInv, TakenOnce, Located, Succeeded
  <2>4. FailedTold' /\ ListedHere'
    BY <2>2 DEF FailedTold, ListedHere
  <2> QED BY <2>3, <2>4 DEF HInv
<1>3. CASE Finish
  <2>1. /\ todo' = {} /\ current' = 0 /\ chain' = NoChain /\ running' = FALSE
        /\ UNCHANGED <<rejected, errorList>>
    BY <1>3 DEF Finish
  <2>2. outcome' = "patched" => ~rejected /\ ~errorList
    BY <1>3 DEF Finish
  <2> QED BY <2>1, <2>2, DoneKeepsHInv
<1>4. ASSUME NEW isLive \in BOOLEAN, Start(isLive) PROVE HInv'
  <2>1. /\ UNCHANGED installed /\ live' = isLive /\ current' = 0 /\ chain' = NoChain
        /\ todo' \in {{}, Packages} /\ outcome' # "patched"
        /\ running' => ~isLive \/ \A i \in DOMAIN List : List[i].dir \in installed
    BY <1>4 DEF Start, disk
  <2>2. DOMAIN chain' = {} /\ 0 \notin Packages
    BY <2>1, NoChainIsEmpty, PackagesAreListed, ListIs
  <2> QED BY <2>1, <2>2 DEF HInv, TakenOnce, FailedTold, ListedHere, Located, Succeeded
<1>5. CASE Killed
  <2>1. \E harmed : Die("killed", harmed)
    BY <1>5, KilledDoes, KilledApplyingDoes DEF KilledIdle, KilledHalfRestored, KilledHalfApplied
  <2> QED BY <2>1, DoneKeepsHInv DEF Die
<1>6. ASSUME NEW d \in Dirs, Reinstall(d) PROVE HInv'
  <2>1. /\ ~running /\ UNCHANGED <<live, running, todo, current, chain, found, rejected, errorList>>
        /\ outcome' = "none"
    BY <1>6 DEF Reinstall, promises
  <2> QED BY <2>1 DEF HInv, TakenOnce, FailedTold, ListedHere, Located, Succeeded, Vuln
<1>7. ASSUME NEW x \in pending, FlagCreated(x) PROVE HInv'
  BY <1>7 DEF FlagCreated, promises, HInv, TakenOnce, FailedTold, ListedHere, Located, Succeeded, Vuln
<1>8. CASE UNCHANGED vars
  BY <1>8 DEF vars, disk, promises, HInv, TakenOnce, FailedTold, ListedHere, Located, Succeeded, Vuln
<1> QED BY <1>1, <1>2, <1>3, <1>4, <1>5, <1>6, <1>7, <1>8 DEF Next, Turn

LEMMA InitHInv == Init => HInv
<1> SUFFICES ASSUME Init PROVE HInv
  OBVIOUS
<1>1. DOMAIN chain = {} /\ todo = {} /\ current = 0 /\ ~running /\ outcome = "none"
  BY NoChainIsEmpty DEF Init
<1> QED BY <1>1 DEF HInv, TakenOnce, FailedTold, ListedHere, Located, Succeeded

-----------------------------------------------------------------------------
(***************************************************************************)
(* A package one diff is for. Its files are as installed, or hold that diff *)
(* or a part of it, and then have an .orig that is as installed and a flag; *)
(* the flag is only on its way when the package has been dealt with.       *)
(***************************************************************************)
Own(i)    == {f \in Files : f[1] = List[i].dir}
FlagOf(i) == <<List[i].dir, List[i].id>>

Plain(text, backup)      == text = <<>> /\ backup \in {NoBackup, <<>>}
Holds(u, text, backup)   == (text = <<u>> \/ \E c \in Cuts : text = Append(<<u>>, c)) /\ backup = <<>>
OnlyThis(i, u) == \A f \in Own(i) : Plain(content[f], orig[f]) \/ Holds(u, content[f], orig[f])

FlagKept(i) ==
  (\E f \in Own(i) : content[f] # <<>>) =>
    FlagOf(i) \in flags \/ (~List[i].grouped /\ FlagOf(i) \in pending)

FlagLate(i, u) ==
  FlagOf(i) \in pending =>
    i \notin todo /\ (current = i => chain[u] \in {"patched", "failed", "diagnosing"})

AllListed(i, u) ==
  current = i /\ chain[u] = "listed" => found[u] = {f \in Own(i) : orig[f] # NoBackup}

Well == live /\ ~rejected /\ ~errorList /\ (running \/ outcome = "patched")

HasIt(i, u) ==
  Well /\ List[i].matches /\ i \notin todo /\ (current = i => chain[u] = "patched") =>
    \A f \in FilesOf(i, u) : content[f] = <<u>>

One(i, u) == OnlyThis(i, u) /\ FlagKept(i) /\ FlagLate(i, u) /\ AllListed(i, u) /\ HasIt(i, u)

PInv == \A i \in DOMAIN List : Undisturbed(i) => \A u \in List[i].urls : One(i, u)

LEMMA OneIs ==
  ASSUME NEW i \in DOMAIN List, Undisturbed(i), NEW u \in List[i].urls
  PROVE  List[i].urls = {u} /\ u \in Urls /\ i \in Packages /\ Newest(i)
<1>1. Kept(i) = i
  BY NewestIsKept DEF Undisturbed
<1>2. i \in Packages
  BY <1>1 DEF Packages
<1> QED BY <1>2 DEF Undisturbed

LEMMA FilesOfAreOwn ==
  ASSUME NEW i \in DOMAIN List, NEW u \in Urls
  PROVE  FilesOf(i, u) \subseteq Own(i)
BY EditsAre, ListIs DEF FilesOf, Own, Files

(* At another package, no file of this one and no flag of it is touched.   *)
LEMMA Elsewhere ==
  ASSUME TInv, HInv, NEW i \in DOMAIN List, Undisturbed(i), NEW v \in DOMAIN chain, current # i
  PROVE  Vuln.dir # List[i].dir /\ Flag # FlagOf(i) /\ \A f \in Own(i) : f \notin Edits(v)
<1>1. current \in Packages
  BY ListIs, ChainIs DEF HInv, TakenOnce
<1>2. Vuln.dir # List[i].dir
  BY <1>1, OnlyOneOfPackage DEF Vuln
<1>3. \A f \in Own(i) : f \notin Edits(v)
  BY <1>2, ChainIs DEF Own
<1> QED BY <1>2, <1>3 DEF Flag, FlagOf

LeftAlone(i) == \A f \in Own(i) : content'[f] = content[f] /\ orig'[f] = orig[f]

(* The end of a run that leaves the files well keeps them so: when the flag  *)
(* does not get to the disk, the package is disturbed.                     *)
LEMMA DeathKeepsOne ==
  ASSUME TInv, NEW i \in DOMAIN List, NEW u \in List[i].urls, OnlyThis(i, u)', Undisturbed(i)',
         (\E f \in Own(i) : content'[f] # <<>>) =>
           FlagOf(i) \in flags \/ FlagOf(i) \in pending,
         NEW how \in {"exit_2", "killed"}, NEW harmed, Die(how, harmed), flags \subseteq flags'
  PROVE  One(i, u)'
<1>1. FlagOf(i) \in pending => FlagOf(i) \in flags'
  BY DEF Die, Undisturbed, FlagOf
<1>2. FlagKept(i)'
  BY <1>1 DEF FlagKept, Own, FlagOf
<1>3. pending' = {} /\ current' = 0 /\ ~running' /\ outcome' # "patched"
  BY DEF Die
<1>4. FlagLate(i, u)' /\ AllListed(i, u)' /\ HasIt(i, u)'
  BY <1>3, ListIs DEF FlagLate, AllListed, HasIt, Well
<1> QED BY <1>2, <1>4 DEF One

LEMMA DeathElsewhereKeepsOne ==
  ASSUME TInv, NEW i \in DOMAIN List, NEW u \in List[i].urls, One(i, u), Undisturbed(i)',
         NEW how \in {"exit_2", "killed"}, NEW harmed, Die(how, harmed), flags \subseteq flags', LeftAlone(i)
  PROVE  One(i, u)'
<1>1. OnlyThis(i, u)'
  BY DEF OnlyThis, LeftAlone, One, Own
<1>2. (\E f \in Own(i) : content'[f] # <<>>) => FlagOf(i) \in flags \/ FlagOf(i) \in pending
  BY DEF FlagKept, LeftAlone, One
<1> QED BY <1>1, <1>2, DeathKeepsOne

(* So does a diff for another package, ...                                 *)
LEMMA AppliedElsewhereKeepsOne ==
  ASSUME TInv, HInv, NEW i \in DOMAIN List, Undisturbed(i), NEW u \in List[i].urls, One(i, u), Undisturbed(i)',
         NEW v \in DOMAIN chain, current # i, Applied(v), Flagged, LeftAlone(i),
         UNCHANGED <<live, errorList>>
  PROVE  One(i, u)'
<1>1. CASE Die("exit_2", {})
  BY <1>1, DeathElsewhereKeepsOne DEF Flagged
<1>2. CASE \E s \in {"patched", "failed", "diagnosing"} :
             Went(v, s) /\ rejected' = (rejected \/ s = "failed") /\ pending \subseteq pending'
  <2>1. running' = running /\ todo' = todo /\ current' = current /\ outcome' = outcome
        /\ (rejected => rejected') /\ pending \subseteq pending'
    BY <1>2 DEF Went
  <2>2. (FlagOf(i) \in pending' <=> FlagOf(i) \in pending) /\ flags \subseteq flags'
    BY <2>1, Elsewhere DEF Flagged
  <2>3. OnlyThis(i, u)'
    BY DEF OnlyThis, LeftAlone, One, Own
  <2>4. FlagKept(i)'
    BY <2>2 DEF FlagKept, LeftAlone, One, Own, FlagOf
  <2>5. FlagLate(i, u)' /\ AllListed(i, u)'
    BY <2>1, <2>2 DEF FlagLate, AllListed, One, FlagOf
  <2>6. HasIt(i, u)'
    BY <2>1, OneIs, FilesOfAreOwn DEF HasIt, Well, One, LeftAlone, FilesOf
  <2> QED BY <2>3, <2>4, <2>5, <2>6 DEF One
<1> QED BY <1>1, <1>2 DEF Applied

LEMMA AppendToNothing == ASSUME NEW u PROVE Append(<<>>, u) = <<u>>
OBVIOUS

LEMMA AppendToOne ==
  ASSUME NEW u, NEW c
  PROVE  Append(Append(<<>>, u), c) = Append(<<u>>, c) /\ Append(<<u>>, c) # <<>>
<1>1. <<u>> \in Seq({u, c}) /\ c \in {u, c}
  OBVIOUS
<1>2. Append(<<u>>, c) # <<>>
  BY <1>1, AppendProperties
<1> QED BY <1>2, AppendToNothing

(* ... and its own diff, applied to files that hold nothing, is in them and  *)
(* has a flag.                                                             *)
LEMMA AppliedHereKeepsOne ==
  ASSUME TInv, HInv, NEW i \in DOMAIN List, Undisturbed(i), NEW u \in List[i].urls, current = i,
         u \in DOMAIN chain, NEW texts \in [Files -> Text],
         NEW origs \in [Files -> Text \cup {NoBackup}],
         \A f \in Own(i) : Plain(texts[f], origs[f]), ApplyPatch(u, texts, origs)
  PROVE  One(i, u)'
<1> USE DEF promises, toll
<1>1. /\ running /\ Vuln = List[i] /\ Flag = FlagOf(i) /\ Edits(u) = FilesOf(i, u) /\ Edits(u) \subseteq Own(i)
      /\ i \notin todo /\ u \in Urls
  BY ChainIs, FilesOfAreOwn DEF Vuln, Flag, FlagOf, Edits, FilesOf, HInv, TakenOnce
<1>2. \A f \in Own(i) : f \in Files /\ texts[f] = <<>> /\ Append(texts[f], u) = <<u>>
  BY AppendToNothing DEF Own, Plain
<1>3. chain \in [DOMAIN chain -> Step]
  BY DEF TInv
<1>4. CASE Skip(u, texts, origs)
  <2>1. content' = texts /\ orig' = origs
        /\ UNCHANGED <<live, running, todo, current, outcome, errorList>>
    BY <1>4 DEF Skip
  <2>2. \/ chain' = [chain EXCEPT ![u] = "failed"]
        \/ chain' = [chain EXCEPT ![u] = "patched"]
    BY <1>4 DEF Skip
  <2>3. chain'[u] \in {"patched", "failed"}
    BY <1>3, <2>2
  <2>4. OnlyThis(i, u)' /\ FlagKept(i)'
    BY <1>2, <2>1 DEF OnlyThis, FlagKept, Own
  <2>5. FlagLate(i, u)' /\ AllListed(i, u)'
    BY <1>1, <2>1, <2>3 DEF FlagLate, AllListed
  <2>6. ~List[i].matches \/ ~live
    BY <1>4, <1>1 DEF Skip, HInv, Located
  <2>7. HasIt(i, u)'
    BY <2>1, <2>6 DEF HasIt, Well
  <2> QED BY <2>4, <2>5, <2>7 DEF One
<1>5. CASE ApplyDiff(u, texts, origs)
  <2>1. /\ orig' = BackedUp(u, texts, origs) /\ content' = Written(u, texts)
        /\ chain' = [chain EXCEPT ![u] = "patched"]
        /\ UNCHANGED <<live, running, todo, current, outcome, errorList, rejected>>
        /\ Vuln.dir \in installed /\ WriteFlag
    BY <1>5 DEF ApplyDiff
  <2>2. chain'[u] = "patched"
    BY <1>3, <2>1
  <2>3. ASSUME NEW f \in Own(i)
        PROVE  /\ Plain(content'[f], orig'[f]) \/ Holds(u, content'[f], orig'[f])
               /\ live /\ f \in Edits(u) => content'[f] = <<u>>
    <3>1. orig'[f] \in {texts[f], origs[f]} /\ (f \in Edits(u) => orig'[f] = texts[f])
      <4>1. f \in Files => Touched(u, f, texts, origs)
        BY ApplyPatchDoes
      <4>2. orig'[f] \in {texts[f], origs[f]}
        BY <1>2, <4>1 DEF Touched
      <4>3. f \in Edits(u) => orig'[f] = texts[f]
        <5> SUFFICES ASSUME f \in Edits(u) PROVE f \in Read(u, texts)
          BY <2>1, <1>2 DEF BackedUp
        <5>1. PICK n \in DOMAIN EditsOf[u] : f = <<Vuln.dir, EditsOf[u][n]>>
          BY DEF Edits
        <5>2. \A g \in Edits(u) : Fits(u, g, texts)
          BY <1>5 DEF ApplyDiff
        <5>3. \A k \in 1..(n - 1) : <<Vuln.dir, EditsOf[u][k]>> \in Edits(u)
          BY EditsAre, <1>1 DEF Edits
        <5> QED BY <5>1, <5>2, <5>3 DEF Read
      <4> QED BY <4>2, <4>3
    <3>2. content'[f] = IF live /\ f \in Edits(u) THEN <<u>> ELSE <<>>
      BY <1>2, <2>1 DEF Written
    <3> QED BY <3>1, <3>2, <1>2 DEF Plain, Holds
  <2>4. OnlyThis(i, u)'
    BY <2>3 DEF OnlyThis, Own
  <2>5. FlagKept(i)'
    BY <2>1, <1>1 DEF FlagKept, WriteFlag, FlagOf
  <2>6. FlagLate(i, u)' /\ AllListed(i, u)'
    BY <1>1, <2>1, <2>2 DEF FlagLate, AllListed
  <2>7. HasIt(i, u)'
    BY <2>1, <2>3, <1>1 DEF HasIt, Well, FilesOf
  <2> QED BY <2>4, <2>5, <2>6, <2>7 DEF One
<1>6. CASE DiffUnreadable(u, texts, origs)
  <2>1. /\ content' = texts /\ orig' = origs /\ chain' = [chain EXCEPT ![u] = "diagnosing"]
        /\ UNCHANGED <<live, running, todo, current, outcome, errorList, rejected>>
    BY <1>6 DEF DiffUnreadable
  <2>2. chain'[u] = "diagnosing"
    BY <1>3, <2>1
  <2>3. OnlyThis(i, u)' /\ FlagKept(i)'
    BY <1>2, <2>1 DEF OnlyThis, FlagKept, Own
  <2>4. FlagLate(i, u)' /\ AllListed(i, u)'
    BY <1>1, <2>1, <2>2 DEF FlagLate, AllListed
  <2>5. HasIt(i, u)'
    BY <2>1, <2>2 DEF HasIt
  <2> QED BY <2>3, <2>4, <2>5 DEF One
<1>7. CASE Mismatch(u, texts, origs)
  <2>1. PICK f \in Edits(u) : ~Fits(u, f, texts)
    BY <1>7 DEF Mismatch
  <2>2. texts[f] = <<>>
    BY <2>1, <1>1, <1>2
  <2> QED BY <2>1, <2>2 DEF Fits
<1> QED BY <1>4, <1>5, <1>6, <1>7, Zenon DEF ApplyPatch

(* When no .orig is missing, all that the package holds is put back.       *)
LEMMA RestoredIsPlain ==
  ASSUME TInv, NEW i \in DOMAIN List, NEW u \in List[i].urls, One(i, u),
         NEW S, S = {f \in Own(i) : orig[f] # NoBackup}
  PROVE  \A f \in Own(i) : Plain(Restored(S).texts[f], Restored(S).origs[f])
<1> TAKE f \in Own(i)
<1>1. f \in Files /\ (f \in S <=> orig[f] # NoBackup) /\ \A g \in S : orig[g] # NoBackup
  BY DEF Own
<1>2. /\ Restored(S).texts[f] = (IF f \in S THEN orig[f] ELSE content[f])
      /\ Restored(S).origs[f] = (IF f \in S THEN NoBackup ELSE orig[f])
  BY <1>1, RestoredAreTexts
<1>3. <<>> # NoBackup
  BY NoBackupIsNoText
<1> QED BY <1>1, <1>2, <1>3 DEF Plain, Holds, One, OnlyThis

LEMMA RestoredElsewhere ==
  ASSUME TInv, HInv, NEW i \in DOMAIN List, Undisturbed(i), NEW v \in DOMAIN chain, current # i,
         chain[v] = "listed", NEW S \in SUBSET found[v], \A f \in S : orig[f] # NoBackup
  PROVE  \A f \in Own(i) : Restored(S).texts[f] = content[f] /\ Restored(S).origs[f] = orig[f]
<1> TAKE f \in Own(i)
<1>1. f \in Files /\ f \notin S
  BY Elsewhere DEF HInv, ListedHere, Own
<1> QED BY <1>1, RestoredAreTexts

LEMMA ChainStepElsewhereKeepsOne ==
  ASSUME TInv, HInv, NEW i \in DOMAIN List, Undisturbed(i), NEW u \in List[i].urls, One(i, u), Undisturbed(i)',
         NEW v \in DOMAIN chain, current # i, ChainStep(v)
  PROVE  One(i, u)'
<1>1. ASSUME UNCHANGED <<disk, pending, live, running, todo, current, outcome>>,
             rejected => rejected', errorList => errorList'
      PROVE  One(i, u)'
  <2>1. UNCHANGED <<content, orig, flags, pending, live, running, todo, current, outcome>>
    BY <1>1 DEF disk
  <2>2. OnlyThis(i, u)' /\ FlagKept(i)'
    BY <2>1 DEF OnlyThis, FlagKept, One, Own, FlagOf
  <2>3. FlagLate(i, u)' /\ AllListed(i, u)' /\ HasIt(i, u)'
    BY <2>1, <1>1 DEF FlagLate, AllListed, HasIt, Well, One, FlagOf, FilesOf
  <2> QED BY <2>2, <2>3 DEF One
<1>2. ASSUME NEW texts \in [Files -> Text], NEW origs \in [Files -> Text \cup {NoBackup}],
             ApplyPatch(v, texts, origs), \A f \in Own(i) : texts[f] = content[f] /\ origs[f] = orig[f]
      PROVE  One(i, u)'
  <2>1. Applied(v) /\ Flagged /\ UNCHANGED <<live, errorList>> /\ \A f \in Files : Touched(v, f, texts, origs)
    BY <1>2, ApplyPatchDoes
  <2>2. LeftAlone(i)
    BY <2>1, <1>2, Elsewhere DEF LeftAlone, Touched, Own
  <2> QED BY <2>1, <2>2, AppliedElsewhereKeepsOne
<1>3. CASE FetchFails(v) \/ FetchedFlagged(v) \/ GlobLists(v) \/ Diagnosed(v)
  <2>1. UNCHANGED <<disk, pending, live, running, todo, current, outcome>>
        /\ (rejected => rejected') /\ (errorList => errorList')
    BY <1>3 DEF FetchFails, FetchedFlagged, GlobLists, Diagnosed, promises, toll
  <2> QED BY <2>1, <1>1
<1>4. CASE FetchedUnflagged(v)
  BY <1>4, <1>2 DEF FetchedUnflagged, TInv
<1>5. CASE RestoreAndApply(v)
  <2> DEFINE back == Restored(found[v])
  <2>1. /\ \A f \in found[v] : orig[f] # NoBackup
        /\ chain[v] = "listed" /\ ApplyPatch(v, back.texts, back.origs)
    BY <1>5, RestoreAndApplyDoes
  <2>2. back.texts \in [Files -> Text] /\ back.origs \in [Files -> Text \cup {NoBackup}]
    BY <2>1, RestoredAreTexts
  <2>3. \A f \in Own(i) : back.texts[f] = content[f] /\ back.origs[f] = orig[f]
    BY <2>1, RestoredElsewhere
  <2> HIDE DEF back
  <2> QED BY <2>1, <2>2, <2>3, <1>2
<1>6. CASE RestoreThrows(v)
  <2>1. PICK S \in SUBSET found[v] : /\ \A f \in S : orig[f] # NoBackup
                                     /\ content' = Restored(S).texts /\ orig' = Restored(S).origs
    BY <1>6, RestoreThrowsDoes
  <2>2. chain[v] = "listed" /\ Die("exit_2", {}) /\ flags \subseteq flags'
    BY <1>6, RestoreThrowsDoes
  <2>3. \A f \in Own(i) : Restored(S).texts[f] = content[f] /\ Restored(S).origs[f] = orig[f]
    BY <2>1, <2>2, RestoredElsewhere
  <2>4. LeftAlone(i)
    BY <2>1, <2>3 DEF LeftAlone
  <2> QED BY <2>2, <2>4, DeathElsewhereKeepsOne
<1> QED BY <1>3, <1>4, <1>5, <1>6, Zenon DEF ChainStep

LEMMA ChainStepHereKeepsOne ==
  ASSUME TInv, HInv, NEW i \in DOMAIN List, Undisturbed(i), NEW u \in List[i].urls, One(i, u), Undisturbed(i)',
         u \in DOMAIN chain, current = i, ChainStep(u)
  PROVE  One(i, u)'
<1>0. chain \in [DOMAIN chain -> Step] /\ found \in [Urls -> SUBSET Files] /\ u \in Urls
      /\ i \notin todo /\ Flag = FlagOf(i) /\ Vuln = List[i]
  BY ChainIs DEF TInv, HInv, TakenOnce, Flag, FlagOf, Vuln
<1>1. ASSUME NEW s \in {"failed", "globbing", "listed"}, Went(u, s), UNCHANGED <<disk, pending>>,
             s = "failed" => rejected' \/ errorList',
             chain[u] # "diagnosing" \/ s = "failed",
             chain[u] \in {"fetching", "globbing", "diagnosing"},
             s = "listed" => found'[u] = {f \in Own(i) : orig[f] # NoBackup}
      PROVE  One(i, u)'
  <2>1. UNCHANGED <<content, orig, flags, pending, running, todo, current, outcome>> /\ chain'[u] = s
    BY <1>1, <1>0 DEF disk, Went
  <2>2. OnlyThis(i, u)' /\ FlagKept(i)'
    BY <2>1 DEF OnlyThis, FlagKept, One, Own, FlagOf
  <2>3. FlagLate(i, u)'
    BY <2>1, <1>1 DEF FlagLate, One, FlagOf
  <2>4. AllListed(i, u)' /\ HasIt(i, u)'
    BY <2>1, <1>1 DEF AllListed, HasIt, Own
  <2> QED BY <2>2, <2>3, <2>4 DEF One
<1>2. CASE FetchFails(u)
  <2>1. Went(u, "failed") /\ UNCHANGED <<disk, pending>> /\ rejected' = TRUE /\ chain[u] = "fetching"
    BY <1>2 DEF FetchFails, Went, promises, toll
  <2> QED BY <2>1, <1>1
<1>3. CASE FetchedFlagged(u)
  <2>1. Went(u, "globbing") /\ UNCHANGED <<disk, pending>> /\ chain[u] = "fetching"
    BY <1>3 DEF FetchedFlagged, Went, promises, toll
  <2> QED BY <2>1, <1>1
<1>4. CASE GlobLists(u)
  <2>1. Went(u, "listed") /\ UNCHANGED <<disk, pending>> /\ chain[u] = "globbing"
        /\ found' = [found EXCEPT ![u] = {f \in Files : f[1] = Vuln.dir /\ orig[f] # NoBackup}]
    BY <1>4 DEF GlobLists, Went, promises, toll
  <2>2. found'[u] = {f \in Own(i) : orig[f] # NoBackup}
    BY <2>1, <1>0 DEF Own
  <2> QED BY <2>1, <2>2, <1>1
<1>5. CASE Diagnosed(u)
  <2>1. Went(u, "failed") /\ UNCHANGED <<disk, pending>> /\ errorList' = TRUE /\ chain[u] = "diagnosing"
    BY <1>5 DEF Diagnosed, Went, promises, toll
  <2> QED BY <2>1, <1>1
<1>6. CASE FetchedUnflagged(u)
  <2>1. chain[u] = "fetching" /\ FlagOf(i) \notin flags /\ ApplyPatch(u, content, orig)
    BY <1>6, <1>0 DEF FetchedUnflagged
  <2>2. FlagOf(i) \notin pending
    BY <2>1 DEF One, FlagLate
  <2>3. \A f \in Own(i) : Plain(content[f], orig[f])
    BY <2>1, <2>2, EmptySeq DEF One, FlagKept, OnlyThis, Holds, Plain
  <2> QED BY <2>1, <2>3, AppliedHereKeepsOne DEF TInv
<1>7. CASE RestoreAndApply(u)
  <2> DEFINE back == Restored(found[u])
  <2>1. /\ \A f \in found[u] : orig[f] # NoBackup
        /\ chain[u] = "listed" /\ ApplyPatch(u, back.texts, back.origs)
    BY <1>7, RestoreAndApplyDoes
  <2>2. back.texts \in [Files -> Text] /\ back.origs \in [Files -> Text \cup {NoBackup}]
    BY <2>1, RestoredAreTexts
  <2>3. found[u] = {f \in Own(i) : orig[f] # NoBackup}
    BY <2>1 DEF One, AllListed
  <2>4. \A f \in Own(i) : Plain(back.texts[f], back.origs[f])
    BY <2>3, RestoredIsPlain
  <2> HIDE DEF back
  <2> QED BY <2>1, <2>2, <2>4, AppliedHereKeepsOne
<1>8. CASE RestoreThrows(u)
  <2>1. chain[u] = "listed" /\ Gone(u) # {}
    BY <1>8, RestoreThrowsDoes
  <2>2. found[u] = {f \in Own(i) : orig[f] # NoBackup}
    BY <2>1 DEF One, AllListed
  <2> QED BY <2>1, <2>2 DEF Gone
<1> QED BY <1>2, <1>3, <1>4, <1>5, <1>6, <1>7, <1>8, Zenon DEF ChainStep

(* What its diff is applied to is as installed.                             *)
LEMMA BaseIsPlain ==
  ASSUME TInv, NEW i \in DOMAIN List, NEW u \in List[i].urls, One(i, u), u \in DOMAIN chain, current = i,
         NEW texts, NEW origs, Base(u, texts, origs)
  PROVE  \A f \in Own(i) : Plain(texts[f], origs[f])
<1>1. CASE chain[u] = "fetching" /\ Flag \notin flags /\ texts = content /\ origs = orig
  <2>1. FlagOf(i) \notin flags /\ FlagOf(i) \notin pending
    BY <1>1 DEF One, FlagLate, Flag, FlagOf, Vuln
  <2>2. \A f \in Own(i) : content[f] = <<>>
    BY <2>1 DEF One, FlagKept
  <2>3. \A c : <<u>> # <<>> /\ Append(<<u>>, c) # <<>>
    BY AppendToOne
  <2> QED BY <1>1, <2>2, <2>3 DEF One, OnlyThis, Holds, Plain
<1>2. CASE /\ chain[u] = "listed" /\ texts = Restored(found[u]).texts /\ origs = Restored(found[u]).origs
  <2>1. found[u] = {f \in Own(i) : orig[f] # NoBackup}
    BY <1>2 DEF One, AllListed
  <2>2. \A f \in Own(i) : Plain(Restored(found[u]).texts[f], Restored(found[u]).origs[f])
    BY <2>1, RestoredIsPlain
  <2> HIDE DEF Restored
  <2> QED BY <1>2, <2>2
<1> QED BY <1>1, <1>2 DEF Base

LEMMA KilledHereKeepsOne ==
  ASSUME TInv, HInv, NEW i \in DOMAIN List, Undisturbed(i), NEW u \in List[i].urls, One(i, u), Undisturbed(i)',
         u \in DOMAIN chain, current = i, KilledHalfApplied(u), flags \subseteq flags'
  PROVE  One(i, u)'
<1>1. PICK texts \in [Files -> Text], origs \in [Files -> Text \cup {NoBackup}] :
        Base(u, texts, origs) /\ KilledApplying(u, texts, origs)
  BY DEF KilledHalfApplied
<1>2. \A f \in Own(i) : texts[f] = <<>> /\ origs[f] \in {NoBackup, <<>>}
  BY <1>1, BaseIsPlain DEF Plain
<1>3. PICK harmed \in SUBSET {Flag} :
        /\ Die("killed", harmed)
        /\ Flag \notin harmed =>
             \/ content' = texts /\ \A f \in Files : orig'[f] \in {origs[f], texts[f]}
             \/ Flag \in flags /\ \A f \in Files : orig'[f] \in {origs[f], texts[f]}
  BY <1>1, KilledApplyingDoes
<1>4. Flag = FlagOf(i) /\ Flag \notin harmed
  BY <1>3 DEF Flag, FlagOf, Vuln, Die, Undisturbed
<1>5. ASSUME NEW f \in Own(i) PROVE Plain(content'[f], orig'[f]) \/ Holds(u, content'[f], orig'[f])
  <2>1. f \in Files /\ orig'[f] \in {NoBackup, <<>>}
    BY <1>2, <1>3, <1>4 DEF Own
  <2>2. Touched(u, f, texts, origs) \/ Torn(u, f, texts, origs)
    BY <2>1, <1>1, KilledApplyingDoes
  <2>3. \A c : Append(<<>>, u) = <<u>> /\ Append(Append(<<>>, u), c) = Append(<<u>>, c) /\ <<u>> # <<>>
    BY AppendToNothing, AppendToOne
  <2>4. <<>> # NoBackup
    BY NoBackupIsNoText
  <2>5. CASE Touched(u, f, texts, origs)
    BY <1>2, <2>1, <2>3, <2>5 DEF Touched, Plain, Holds
  <2>6. CASE Torn(u, f, texts, origs)
    <3>1. PICK c \in Cuts :
            \/ content'[f] = texts[f] /\ orig'[f] = Append(texts[f], c)
            \/ content'[f] = Append(Append(texts[f], u), c) /\ orig'[f] = texts[f]
      BY <2>6, Zenon DEF Torn
    <3> QED BY <1>2, <2>1, <2>3, <3>1 DEF Plain, Holds
  <2> QED BY <2>2, <2>5, <2>6
<1>6. OnlyThis(i, u)'
  BY <1>5 DEF OnlyThis, Own
<1>7. (\E f \in Own(i) : content'[f] # <<>>) => FlagOf(i) \in flags \/ FlagOf(i) \in pending
  BY <1>2, <1>3, <1>4
<1> QED BY <1>3, <1>6, <1>7, DeathKeepsOne

LEMMA KilledKeepsOne ==
  ASSUME TInv, HInv, NEW i \in DOMAIN List, Undisturbed(i), NEW u \in List[i].urls, One(i, u), Undisturbed(i)',
         Killed
  PROVE  One(i, u)'
<1>1. running /\ flags \subseteq flags'
  BY KilledDoes
<1>2. CASE KilledIdle
  <2>1. LeftAlone(i) /\ Die("killed", {})
    BY <1>2 DEF LeftAlone, KilledIdle
  <2> QED BY <1>1, <2>1, DeathElsewhereKeepsOne
<1>3. ASSUME NEW v \in DOMAIN chain, NEW S \in SUBSET found[v], KilledHalfRestored(v, S) PROVE One(i, u)'
  <2>1. /\ chain[v] = "listed" /\ (\A f \in S : orig[f] # NoBackup) /\ Die("killed", {})
        /\ content' = Restored(S).texts /\ orig' = Restored(S).origs
    BY <1>3 DEF KilledHalfRestored
  <2>2. ASSUME NEW f \in Own(i)
        PROVE  /\ content'[f] = (IF f \in S THEN orig[f] ELSE content[f])
               /\ orig'[f] = (IF f \in S THEN NoBackup ELSE orig[f])
    BY <2>1, RestoredAreTexts DEF Own
  <2>3. OnlyThis(i, u)'
    BY <2>1, <2>2 DEF OnlyThis, One, Own, Plain, Holds
  <2>4. (\E f \in Own(i) : content'[f] # <<>>) => FlagOf(i) \in flags \/ FlagOf(i) \in pending
    <3>1. \A f \in Own(i) : content'[f] # <<>> => content[f] # <<>>
      BY <2>1, <2>2 DEF One, OnlyThis, Plain, Holds
    <3> QED BY <3>1 DEF One, FlagKept
  <2> QED BY <1>1, <2>1, <2>3, <2>4, DeathKeepsOne
<1>4. ASSUME NEW v \in DOMAIN chain, KilledHalfApplied(v) PROVE One(i, u)'
  <2>1. CASE current = i
    <3>1. v = u
      BY <2>1, OneIs, ChainIs
    <3> QED BY <1>1, <1>4, <2>1, <3>1, KilledHereKeepsOne
  <2>2. CASE current # i
    <3>1. PICK texts \in [Files -> Text], origs \in [Files -> Text \cup {NoBackup}] :
            Base(v, texts, origs) /\ KilledApplying(v, texts, origs)
      BY <1>4 DEF KilledHalfApplied
    <3>2. \A f \in Own(i) : texts[f] = content[f] /\ origs[f] = orig[f]
      <4>1. CASE texts = content /\ origs = orig
        BY <4>1
      <4>2. CASE /\ chain[v] = "listed" /\ \A f \in found[v] : orig[f] # NoBackup
                 /\ texts = Restored(found[v]).texts /\ origs = Restored(found[v]).origs
        <5>1. \A f \in Own(i) : Restored(found[v]).texts[f] = content[f] /\ Restored(found[v]).origs[f] = orig[f]
          BY <2>2, <4>2, RestoredElsewhere
        <5> HIDE DEF Restored
        <5> QED BY <4>2, <5>1
      <4> QED BY <3>1, <4>1, <4>2 DEF Base
    <3>3. /\ \A f \in Files : Touched(v, f, texts, origs) \/ Torn(v, f, texts, origs)
          /\ \E harmed \in SUBSET {Flag} : Die("killed", harmed)
      BY <3>1, KilledApplyingDoes
    <3>4. \A f \in Own(i) : f \in Files /\ f \notin Edits(v)
      BY <2>2, Elsewhere DEF Own
    <3>5. LeftAlone(i)
      BY <3>2, <3>3, <3>4 DEF LeftAlone, Touched, Torn
    <3> QED BY <1>1, <3>3, <3>5, DeathElsewhereKeepsOne
  <2> QED BY <2>1, <2>2
<1> QED BY KilledDoes, <1>2, <1>3, <1>4

(* A package the run is not at, and one it has got through with, hold it.   *)
LEMMA SettledHasIt ==
  ASSUME TInv, HInv, NEW i \in DOMAIN List, NEW u \in List[i].urls, One(i, u),
         Settled, running, live, ~rejected, ~errorList, List[i].matches, i \notin todo
  PROVE  \A f \in FilesOf(i, u) : content[f] = <<u>>
<1>1. current = i => u \in DOMAIN chain
  BY ListIs DEF TInv
<1>2. current = i => chain[u] = "patched"
  BY <1>1 DEF Settled, HInv, FailedTold
<1> QED BY <1>2 DEF One, HasIt, Well

LEMMA NextPackageKeepsOne ==
  ASSUME TInv, HInv, NEW i \in DOMAIN List, Undisturbed(i), NEW u \in List[i].urls, One(i, u), NextPackage
  PROVE  One(i, u)'
<1>1. Foremost \in todo
  BY ForemostIs DEF NextPackage, TInv
<1>2. UNCHANGED <<content, orig, flags, pending, live, running, found, rejected, errorList, outcome>>
      /\ todo' = todo \ {Foremost} /\ current' = Foremost
      /\ chain' = [w \in List[Foremost].urls |-> "fetching"] /\ running /\ Settled
  BY DEF NextPackage, disk
<1> HIDE DEF Foremost
<1>3. current' = i => i \in todo /\ chain'[u] = "fetching"
  BY <1>1, <1>2
<1>4. OnlyThis(i, u)' /\ FlagKept(i)'
  BY <1>2 DEF OnlyThis, FlagKept, One, Own, FlagOf
<1>5. FlagLate(i, u)'
  BY <1>2, <1>3 DEF FlagLate, One, FlagOf
<1>6. AllListed(i, u)'
  BY <1>3 DEF AllListed
<1>7. HasIt(i, u)'
  <2> SUFFICES ASSUME Well', List[i].matches, i \notin todo', current' = i => chain'[u] = "patched"
               PROVE  \A f \in FilesOf(i, u) : content'[f] = <<u>>
    BY DEF HasIt, FilesOf
  <2>1. live /\ ~rejected /\ ~errorList /\ i \notin todo
    BY <1>2, <1>3 DEF Well
  <2> QED BY <2>1, <1>2, SettledHasIt
<1> QED BY <1>4, <1>5, <1>6, <1>7 DEF One

LEMMA FinishKeepsOne ==
  ASSUME TInv, HInv, NEW i \in DOMAIN List, NEW u \in List[i].urls, One(i, u), Finish
  PROVE  One(i, u)'
<1>1. UNCHANGED <<content, orig, flags, pending, live, rejected, errorList>> /\ running' = FALSE
      /\ current' = 0 /\ pending = {} /\ running /\ Settled /\ (rejected \/ todo = {})
  BY DEF Finish, disk
<1>2. OnlyThis(i, u)' /\ FlagKept(i)' /\ FlagLate(i, u)' /\ AllListed(i, u)'
  BY <1>1, ListIs DEF OnlyThis, FlagKept, FlagLate, AllListed, One, Own, FlagOf
<1>3. HasIt(i, u)'
  <2> SUFFICES ASSUME Well', List[i].matches PROVE \A f \in FilesOf(i, u) : content'[f] = <<u>>
    BY DEF HasIt, FilesOf
  <2>1. live /\ ~rejected /\ ~errorList /\ i \notin todo
    BY <1>1 DEF Well
  <2> QED BY <2>1, <1>1, SettledHasIt
<1> QED BY <1>2, <1>3 DEF One

LEMMA StartKeepsOne ==
  ASSUME TInv, HInv, NEW i \in DOMAIN List, Undisturbed(i), NEW u \in List[i].urls, One(i, u),
         NEW isLive \in BOOLEAN, Start(isLive)
  PROVE  One(i, u)'
<1>1. ~running /\ UNCHANGED <<content, orig, flags, pending>> /\ current' = 0 /\ pending = {}
      /\ outcome' # "patched" /\ (running' => todo' = Packages)
  BY DEF Start, disk, TInv, Holding
<1>2. OnlyThis(i, u)' /\ FlagKept(i)' /\ FlagLate(i, u)' /\ AllListed(i, u)'
  BY <1>1, ListIs DEF OnlyThis, FlagKept, FlagLate, AllListed, One, Own, FlagOf
<1>3. HasIt(i, u)'
  BY <1>1, OneIs DEF HasIt, Well
<1> QED BY <1>2, <1>3 DEF One

(* A package is as new when npm has put it in place again.                 *)
LEMMA ReinstallKeepsOne ==
  ASSUME TInv, HInv, NEW i \in DOMAIN List, NEW u \in List[i].urls, NEW d \in Dirs, Reinstall(d),
         d = List[i].dir \/ One(i, u)
  PROVE  One(i, u)'
<1>1. ~running /\ UNCHANGED <<running, current, pending>> /\ outcome' = "none" /\ pending = {} /\ current = 0
      /\ flags' = {x \in flags : x[1] # d}
      /\ content' = [f \in Files |-> IF f[1] = d THEN <<>> ELSE content[f]]
      /\ orig' = [f \in Files |-> IF f[1] = d THEN NoBackup ELSE orig[f]]
  BY DEF Reinstall, promises, TInv, Holding
<1>2. FlagLate(i, u)' /\ AllListed(i, u)' /\ HasIt(i, u)'
  BY <1>1, ListIs DEF FlagLate, AllListed, HasIt, Well
<1>3. OnlyThis(i, u)'
  BY <1>1 DEF OnlyThis, One, Own, Plain, Holds
<1>4. FlagKept(i)'
  BY <1>1 DEF FlagKept, One, Own, FlagOf
<1> QED BY <1>2, <1>3, <1>4 DEF One

LEMMA FlagCreatedKeepsOne ==
  ASSUME TInv, NEW i \in DOMAIN List, NEW u \in List[i].urls, One(i, u), NEW x \in pending, FlagCreated(x)
  PROVE  One(i, u)'
<1>1. UNCHANGED <<content, orig, live, running, todo, current, chain, found, rejected, errorList, outcome>>
      /\ pending' = pending \ {x} /\ flags' = flags \cup {x}
  BY DEF FlagCreated, promises
<1>2. OnlyThis(i, u)' /\ FlagKept(i)' /\ FlagLate(i, u)'
  BY <1>1 DEF OnlyThis, FlagKept, FlagLate, One, Own, FlagOf
<1>3. AllListed(i, u)' /\ HasIt(i, u)'
  BY <1>1 DEF AllListed, HasIt, Well, One, Own, FilesOf
<1> QED BY <1>2, <1>3 DEF One

(* What deaths have spoilt stays so until its package is installed again.   *)
LEMMA SpoiltStays ==
  ASSUME TInv, [Next]_vars, ~\E d \in Dirs : Reinstall(d) PROVE spoilt \subseteq spoilt'
<1>1. ASSUME NEW u \in DOMAIN chain, ChainStep(u) PROVE spoilt \subseteq spoilt'
  <2>1. CASE \E texts, origs : ApplyPatch(u, texts, origs)
    BY <2>1 DEF ApplyPatch, Skip, ApplyDiff, DiffUnreadable, Mismatch, Die, toll
  <2>2. CASE FetchedUnflagged(u) \/ RestoreAndApply(u)
    BY <2>1, <2>2 DEF FetchedUnflagged, RestoreAndApply
  <2>3. CASE FetchFails(u) \/ FetchedFlagged(u) \/ GlobLists(u) \/ RestoreThrows(u) \/ Diagnosed(u)
    BY <2>3 DEF FetchFails, FetchedFlagged, GlobLists, RestoreThrows, Diagnosed, Die, toll
  <2> QED BY <1>1, <2>2, <2>3 DEF ChainStep
<1>2. CASE NextPackage \/ Finish \/ UNCHANGED vars
  BY <1>2 DEF NextPackage, Finish, vars, toll
<1>3. CASE Killed
  <2>1. \E harmed : Die("killed", harmed)
    BY <1>3, KilledDoes, KilledApplyingDoes DEF KilledIdle, KilledHalfRestored, KilledHalfApplied
  <2> QED BY <2>1 DEF Die
<1>4. ASSUME NEW x \in pending, FlagCreated(x) PROVE spoilt \subseteq spoilt'
  BY <1>4 DEF FlagCreated, toll
<1>5. ASSUME NEW isLive \in BOOLEAN, Start(isLive) PROVE spoilt \subseteq spoilt'
  BY <1>5 DEF Start, toll
<1> QED BY <1>1, <1>2, <1>3, <1>4, <1>5 DEF Next, Turn

LEMMA NextKeepsPInv == TInv /\ HInv /\ PInv /\ [Next]_vars => PInv'
<1> SUFFICES ASSUME TInv, HInv, PInv, [Next]_vars,
                    NEW i \in DOMAIN List, Undisturbed(i)', NEW u \in List[i].urls
             PROVE  One(i, u)'
  BY DEF PInv
<1>0. ASSUME NEW d \in Dirs, Reinstall(d) PROVE One(i, u)'
  <2>1. d # List[i].dir => Undisturbed(i)
    BY <1>0 DEF Reinstall, Undisturbed, Newest, SameRoute
  <2>2. d # List[i].dir => One(i, u)
    BY <2>1 DEF PInv
  <2> QED BY <1>0, <2>2, ReinstallKeepsOne
<1> SUFFICES ASSUME ~\E d \in Dirs : Reinstall(d) PROVE One(i, u)'
  BY <1>0
<1>1. Undisturbed(i)
  BY SpoiltStays DEF Undisturbed, Newest, SameRoute
<1>2. One(i, u) /\ List[i].urls = {u}
  BY <1>1, OneIs DEF PInv
<1>3. ASSUME NEW v \in DOMAIN chain, ChainStep(v) PROVE One(i, u)'
  <2>1. current = i => v = u
    BY <1>2, ChainIs
  <2> QED BY <1>1, <1>2, <1>3, <2>1, ChainStepHereKeepsOne, ChainStepElsewhereKeepsOne
<1>4. CASE NextPackage
  BY <1>1, <1>2, <1>4, NextPackageKeepsOne
<1>5. CASE Finish
  BY <1>2, <1>5, FinishKeepsOne
<1>6. ASSUME NEW isLive \in BOOLEAN, Start(isLive) PROVE One(i, u)'
  BY <1>1, <1>2, <1>6, StartKeepsOne
<1>7. CASE Killed
  BY <1>1, <1>2, <1>7, KilledKeepsOne
<1>8. ASSUME NEW x \in pending, FlagCreated(x) PROVE One(i, u)'
  BY <1>2, <1>8, FlagCreatedKeepsOne
<1>9. CASE UNCHANGED vars
  <2>1. UNCHANGED <<content, orig, flags, pending, live, running, todo, current, chain, found, rejected,
                    errorList, outcome>>
    BY <1>9 DEF vars, disk, promises
  <2>2. OnlyThis(i, u)' /\ FlagKept(i)' /\ FlagLate(i, u)'
    BY <1>2, <2>1 DEF OnlyThis, FlagKept, FlagLate, One, Own, FlagOf
  <2>3. AllListed(i, u)' /\ HasIt(i, u)'
    BY <1>2, <2>1 DEF AllListed, HasIt, Well, One, Own, FilesOf
  <2> QED BY <2>2, <2>3 DEF One
<1> QED BY <1>3, <1>4, <1>5, <1>6, <1>7, <1>8, <1>9 DEF Next, Turn

LEMMA InitPInv == Init => PInv
<1> SUFFICES ASSUME Init, NEW i \in DOMAIN List, NEW u \in List[i].urls PROVE One(i, u)
  BY DEF PInv
<1>1. /\ content = [f \in Files |-> <<>>] /\ orig = [f \in Files |-> NoBackup] /\ pending = {}
      /\ current = 0 /\ ~running /\ outcome # "patched"
  BY DEF Init
<1>2. OnlyThis(i, u) /\ FlagKept(i)
  BY <1>1 DEF OnlyThis, Plain, FlagKept, Own
<1>3. FlagLate(i, u) /\ AllListed(i, u) /\ HasIt(i, u)
  BY <1>1, ListIs DEF FlagLate, AllListed, HasIt, Well
<1> QED BY <1>2, <1>3 DEF One

LEMMA PInvIsPatchedOnce == TInv /\ HInv /\ PInv => PatchedOnce
<1> SUFFICES ASSUME TInv, HInv, PInv, outcome = "patched", live,
                    NEW i \in DOMAIN List, List[i].matches, Undisturbed(i),
                    NEW u \in List[i].urls, NEW f \in FilesOf(i, u)
             PROVE  content[f] = <<u>>
  BY DEF PatchedOnce
<1>1. ~running /\ ~rejected /\ ~errorList /\ todo = {} /\ current = 0 /\ i # 0
  BY ListIs DEF HInv, Succeeded, TInv, Holding
<1> QED BY <1>1 DEF PInv, One, HasIt, Well

LEMMA PInvIsRevertible == TInv /\ PInv => Revertible
<1> SUFFICES ASSUME TInv, PInv, ~running, NEW i \in DOMAIN List, Undisturbed(i),
                    NEW u \in List[i].urls, NEW f \in FilesOf(i, u), content[f] # <<>>
             PROVE  <<f[1], List[i].id>> \in flags /\ orig[f] = <<>>
  BY DEF Revertible
<1>1. f \in Own(i) /\ pending = {} /\ One(i, u)
  BY OneIs, FilesOfAreOwn DEF TInv, Holding, PInv
<1>2. orig[f] = <<>>
  BY <1>1 DEF One, OnlyThis, Plain, Holds
<1>3. FlagOf(i) \in flags /\ f[1] = List[i].dir
  BY <1>1 DEF One, FlagKept, Own
<1> QED BY <1>2, <1>3 DEF FlagOf

LEMMA PatchInvariant == Spec => [](TInv /\ HInv /\ PInv)
<1>1. Init => TInv /\ HInv /\ PInv
  BY InitTInv, InitHInv, InitPInv
<1>2. TInv /\ HInv /\ PInv /\ [Next]_vars => (TInv /\ HInv /\ PInv)'
  BY NextKeepsTInv, NextKeepsHInv, NextKeepsPInv
<1> QED BY <1>1, <1>2, PTL DEF Spec

(* Whatever runs went before, dry or live, finished, failed or killed amid   *)
(* a restore or an edit, a live run that succeeds leaves the diff of the    *)
(* newest vulnerability of a package in its files exactly once and whole,   *)
(* unless a death has spoilt a copy or lost the first flag.                *)
THEOREM DiffIsAppliedOnce == Spec => []PatchedOnce
BY PatchInvariant, PInvIsPatchedOnce, PTL

(* Between runs a file that is not as installed comes with what takes it     *)
(* back: the flag of its package and an .orig that is as installed.        *)
THEOREM DiffCanBeTakenBack == Spec => []Revertible
BY PatchInvariant, PInvIsRevertible, PTL
=============================================================================
