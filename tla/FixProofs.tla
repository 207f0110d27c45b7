----------------------------- MODULE FixProofs ------------------------------
(***************************************************************************)
(* Proofs about `snyk fix`, for any paths, any trees of requirements       *)
(* files, any results of the tests and any failures.                       *)
(***************************************************************************)
EXTENDS SnykFix, SequenceTheorems, FiniteSetTheorems, TLAPS

(***************************************************************************)
(* Lemmas about numbers, sets and sequences.                               *)
(***************************************************************************)
Less == {pair \in Nat \X Nat : pair[1] < pair[2]}

(* Every nonempty set of naturals has a least element: the induction that  *)
(* the proofs about sorted, nested and repeated data rest on.              *)
LEMMA Least == ASSUME NEW S \in SUBSET Nat, S # {} PROVE \E m \in S : \A n \in S : m <= n
<1>1. IsWellFoundedOn(Less, Nat)
  BY NatLessThanWellFounded, Zenon DEF OpToRel, Less
<1>2. \E m \in S : \A n \in S : ~(<<n, m>> \in Less)
  <2> HIDE DEF Less
  <2> QED BY <1>1, WFMin
<1>3. PICK m \in S : \A n \in S : ~(<<n, m>> \in Less)
  BY <1>2
<1>4. ASSUME NEW n \in S PROVE m <= n
  <2>1. m \in Nat /\ n \in Nat
    OBVIOUS
  <2>2. n < m => <<n, m>> \in Less
    BY <2>1 DEF Less
  <2> QED BY <1>3, <2>1, <2>2
<1> QED BY <1>4

LEMMA MinIs == ASSUME NEW S \in SUBSET Nat, S # {} PROVE Min(S) \in S /\ \A n \in S : Min(S) <= n
BY Least DEF Min

LEMMA SetToSeqIs ==
  ASSUME NEW S, IsFiniteSet(S)
  PROVE  /\ Cardinality(S) \in Nat /\ SetToSeq(S) \in [1..Cardinality(S) -> S]
         /\ \A x \in S : \E i \in 1..Cardinality(S) : SetToSeq(S)[i] = x
<1> DEFINE n == Cardinality(S)
<1>1. n \in Nat /\ ExistsBijection(1..n, S)
  BY FS_CardinalityType
<1>2. \E f \in [1..n -> S] : IsInjective(f)
  BY <1>1 DEF ExistsBijection, Bijection, Injection
<1>3. SetToSeq(S) \in [1..n -> S] /\ IsInjective(SetToSeq(S))
  BY <1>2 DEF SetToSeq
<1>4. SetToSeq(S) \in Injection(1..n, S)
  BY <1>3 DEF Injection
<1>5. SetToSeq(S) \in Surjection(1..n, S)
  <2>1. IsFiniteSet(1..n) /\ Cardinality(1..n) = n
    BY <1>1, FS_Interval
  <2> HIDE DEF n
  <2> QED BY <1>4, <2>1, FS_Injection DEF n
<1> QED BY <1>1, <1>3, <1>5 DEF Surjection

-----------------------------------------------------------------------------
(***************************************************************************)
(* The types, what the reader of requirements files knows, and what holds  *)
(* before anything is fixed.                                               *)
(***************************************************************************)
Phase == {"idle", "next", "reading", "installing", "returned", "threw"}
Item  == [path : Nat, type : STRING, file : Seq(STRING), issues : SUBSET Pkg, pins : SUBSET Pkg]
Spot  == File \cup {Join(Dir(f), text) : f \in File, text \in Seq(STRING)}
Visit == [text : Seq(STRING), path : Spot]
Entry == [key : Seq(STRING), text : Text]

BasicOK ==
  /\ pc \in {"testing", "fixing", "done"} /\ at \in 1..Paths + 1
  /\ options \in [dryRun : BOOLEAN, sequential : BOOLEAN]
  /\ failures \in 0..MaxFailures
  /\ running \subseteq Plugin /\ python \in Plugin \cup {None} /\ outcome \in {None, "ok", "error"}

EntitiesOK ==
  /\ entities \in Seq(Item)
  /\ \A i \in DOMAIN entities :
       /\ entities[i].path \in 1..Paths /\ entities[i].path < at
       /\ WellFormed(entities[i])

DiskOK == disk \in [1..Paths -> [File -> Text]]

HandlerOK(h) ==
  /\ phase[h] \in Phase
  /\ todo[h] \subseteq Projects(h) /\ changes[h] \subseteq Change
  /\ handled[h] \in Handled
  /\ phase[h] \in {"reading", "installing"} => todo[h] # {}
  /\ changes[h] # {} => phase[h] \in {"reading", "installing"}
HandlersOK ==
  /\ DOMAIN phase = Handler /\ DOMAIN todo = Handler /\ DOMAIN changes = Handler /\ DOMAIN handled = Handler
  /\ \A h \in Handler : HandlerOK(h)

CommandsOK  == commands \in [Tool -> Seq(SUBSET Pkg)]
InstalledOK == installed \subseteq (DOMAIN entities) \X Pkg
CacheOK     == \A f \in DOMAIN cache : cache[f].fixedIn \in Seq(STRING) /\ cache[f].issues \subseteq Pkg

(* What is kept is kept under the path of a file that is there.            *)
KeptWell(entry) == Join(Root, entry.key) \in File /\ Key(Join(Root, entry.key)) = entry.key
ReaderOK ==
  /\ visits \in Seq(Visit) /\ provenance \in Seq(Entry) /\ turn \in 1..Len(provenance) + 1
  /\ phase[PIP] = "reading" => \A i \in DOMAIN provenance : KeptWell(provenance[i])

QuietOK ==
  pc = "testing" =>
    /\ \A h \in Handler : phase[h] = "idle" /\ todo[h] = {} /\ changes[h] = {} /\ handled[h] = NothingHandled
    /\ installed = {} /\ cache = <<>> /\ running = {} /\ python = None
    /\ results = [p \in Plugin |-> NothingCollected]
    /\ \A p \in 1..Paths : disk[p] \in Trees[p]

TInv ==
  /\ BasicOK /\ EntitiesOK /\ DiskOK /\ HandlersOK
  /\ CommandsOK /\ InstalledOK /\ CacheOK /\ ReaderOK /\ QuietOK

LEMMA TreesFit ==
  ASSUME NEW p \in 1..Paths, NEW tree \in Trees[p]
  PROVE  tree \in [File -> Text]
BY FixAssumption DEF FixAssumption

LEMMA InitTInv == Init => TInv
<1> SUFFICES ASSUME Init PROVE TInv
  OBVIOUS
<1>1. BasicOK
  <2>1. Paths \in Nat \ {0} /\ MaxFailures \in Nat
    BY FixAssumption DEF FixAssumption
  <2>2. at \in 1..Paths + 1 /\ failures \in 0..MaxFailures
    BY <2>1 DEF Init
  <2> QED BY <2>2 DEF BasicOK, Init
<1>2. EntitiesOK
  <2>1. entities = <<>>
    BY DEF Init
  <2> QED BY <2>1 DEF EntitiesOK
<1>3. DiskOK
  <2>1. disk \in [1..Paths -> UNION {Trees[p] : p \in 1..Paths}] /\ \A p \in 1..Paths : disk[p] \in Trees[p]
    BY DEF Init
  <2>2. \A p \in 1..Paths : disk[p] \in [File -> Text]
    BY <2>1, TreesFit
  <2> QED BY <2>1, <2>2 DEF DiskOK
<1>4. HandlersOK
  BY DEF Init, HandlersOK, HandlerOK, Phase, Handled, NothingHandled
<1>5. CommandsOK /\ InstalledOK /\ CacheOK /\ ReaderOK
  <2>1. CommandsOK
    BY DEF Init, CommandsOK
  <2>2. ReaderOK
    <3>1. visits = <<>> /\ provenance = <<>> /\ turn = 1 /\ phase[PIP] = "idle"
      BY DEF Init, PIP, Handler
    <3> QED BY <3>1 DEF ReaderOK
  <2> QED BY <2>1, <2>2 DEF Init, InstalledOK, CacheOK
<1>6. QuietOK
  BY DEF Init, QuietOK
<1> QED BY <1>1, <1>2, <1>3, <1>4, <1>5, <1>6 DEF TInv

-----------------------------------------------------------------------------
LEMMA CurrentIs ==
  ASSUME EntitiesOK, NEW h \in Handler, todo[h] \subseteq Projects(h), todo[h] # {}
  PROVE  Current(h) \in todo[h] /\ Current(h) \in DOMAIN entities
<1> DEFINE place(k) == IF h = "requirements" THEN Rank(Dir(entities[k].file)) ELSE 0
           places == {place(i) : i \in todo[h]}
<1>1. \A i \in todo[h] : i \in DOMAIN entities /\ i \in Nat /\ place(i) \in Nat
  <2>1. todo[h] \subseteq DOMAIN entities
    BY DEF Projects, OfType
  <2>2. DOMAIN entities \subseteq Nat
    BY LenProperties DEF EntitiesOK
  <2>3. ASSUME h = "requirements", NEW i \in todo[h] PROVE Rank(Dir(entities[i].file)) \in Nat
    <3>1. HandlerOf(entities[i].file) = "requirements"
      BY <2>3 DEF Projects
    <3>2. entities[i].file \in File
      BY <3>1 DEF HandlerOf, None
    <3> QED BY <3>2, FixAssumption DEF FixAssumption
  <2> QED BY <2>1, <2>2, <2>3
<1>2. PICK d \in places : \A e \in places : d <= e
  <2>1. places \in SUBSET Nat /\ places # {}
    BY <1>1
  <2> HIDE DEF places
  <2> QED BY <2>1, Least
<1> DEFINE first == {i \in todo[h] : place(i) = d}
<1>3. PICK i \in first : \A j \in first : i <= j
  <2>1. first \in SUBSET Nat /\ first # {}
    BY <1>1, <1>2
  <2> HIDE DEF first
  <2> QED BY <2>1, Least
<1>4. ASSUME NEW j \in todo[h] \ {i} PROVE Before(h, i, j)
  <2>1. place(i) = d /\ d <= place(j) /\ d \in Nat /\ place(j) \in Nat /\ i \in Nat /\ j \in Nat
    BY <1>1, <1>2, <1>3
  <2>2. place(j) = d => i < j
    BY <1>3, <2>1
  <2>3. place(i) < place(j) \/ (place(i) = place(j) /\ i < j)
    <3> HIDE DEF place
    <3> QED BY <2>1, <2>2
  <2> QED BY <2>3, Zenon DEF Before
<1>5. i \in todo[h]
  BY <1>3
<1> QED BY <1>1, <1>4, <1>5, Zenon DEF Current

(* A step of one handler leaves the others alone.                          *)
Others(h) ==
  /\ UNCHANGED entities
  /\ DOMAIN phase' = Handler /\ DOMAIN todo' = Handler /\ DOMAIN changes' = Handler /\ DOMAIN handled' = Handler
  /\ \A g \in Handler \ {h} :
       phase'[g] = phase[g] /\ todo'[g] = todo[g] /\ changes'[g] = changes[g] /\ handled'[g] = handled[g]

LEMMA OthersKeep == ASSUME HandlersOK, NEW h \in Handler, Others(h), HandlerOK(h)' PROVE HandlersOK'
<1>1. ASSUME NEW g \in Handler, g # h PROVE HandlerOK(g)'
  <2>1. HandlerOK(g)
    BY DEF HandlersOK
  <2>2. phase'[g] = phase[g] /\ todo'[g] = todo[g] /\ changes'[g] = changes[g] /\ handled'[g] = handled[g]
    BY <1>1 DEF Others
  <2>3. Projects(g)' = Projects(g) /\ Handled' = Handled
    BY DEF Others, Projects, OfType, Vulnerable, Handled
  <2> QED BY <2>1, <2>2, <2>3 DEF HandlerOK
<1> QED BY <1>1 DEF HandlersOK, Others

LEMMA DoneIs ==
  ASSUME HandlersOK, NEW h \in Handler, EntityDone(h), UNCHANGED entities, handled' = [handled EXCEPT ![h] = handled'[h]]
  PROVE  /\ Others(h)
         /\ phase'[h] = "next" /\ todo'[h] = todo[h] \ {Current(h)} /\ changes'[h] = {}
BY DEF HandlersOK, EntityDone, Others

LEMMA FailsIs ==
  ASSUME HandlersOK, NEW h \in Handler, EntityFails(h), UNCHANGED entities
  PROVE  /\ Others(h)
         /\ phase'[h] = "next" /\ todo'[h] = todo[h] \ {Current(h)} /\ changes'[h] = {}
         /\ handled'[h].failed = handled[h].failed \cup {Current(h)}
         /\ handled'[h].succeeded = handled[h].succeeded
<1>1. handled[h] \in Handled /\ h \in DOMAIN handled
  BY DEF HandlersOK, HandlerOK
<1>2. /\ handled' = [handled EXCEPT ![h] = handled'[h]]
      /\ handled'[h].failed = handled[h].failed \cup {Current(h)}
      /\ handled'[h].succeeded = handled[h].succeeded
  BY <1>1 DEF EntityFails, Handled
<1> QED BY <1>2, DoneIs DEF EntityFails

LEMMA SucceedsIs ==
  ASSUME HandlersOK, NEW h \in Handler, NEW issues, NEW through, EntitySucceeds(h, issues, through), UNCHANGED entities
  PROVE  /\ Others(h)
         /\ phase'[h] = "next" /\ todo'[h] = todo[h] \ {Current(h)} /\ changes'[h] = {}
         /\ handled'[h].failed = handled[h].failed
         /\ handled'[h].succeeded = handled[h].succeeded \cup {Success(Current(h), issues, through)}
<1>1. handled[h] \in Handled /\ h \in DOMAIN handled
  BY DEF HandlersOK, HandlerOK
<1>2. /\ handled' = [handled EXCEPT ![h] = handled'[h]]
      /\ handled'[h].failed = handled[h].failed
      /\ handled'[h].succeeded = handled[h].succeeded \cup {Success(Current(h), issues, through)}
  BY <1>1 DEF EntitySucceeds, Handled
<1> QED BY <1>2, DoneIs DEF EntitySucceeds

LEMMA HandledKept ==
  ASSUME HandlersOK, EntitiesOK, NEW h \in Handler, todo[h] # {}, UNCHANGED entities,
         \/ EntityFails(h)
         \/ \E issues \in SUBSET Pkg, through \in Seq(STRING) : EntitySucceeds(h, issues, through)
  PROVE  HandlersOK'
<1>1. HandlerOK(h) /\ Current(h) \in DOMAIN entities
  BY CurrentIs DEF HandlersOK, HandlerOK
<1>2. Projects(h)' = Projects(h) /\ Handled' = Handled
  BY DEF Projects, OfType, Vulnerable, Handled
<1>3. CASE EntityFails(h)
  <2>1. handled'[h] \in Handled
    <3>1. handled[h] \in Handled /\ h \in DOMAIN handled
      BY <1>1 DEF HandlersOK, HandlerOK
    <3> QED BY <1>1, <1>3, <3>1 DEF EntityFails, Handled
  <2> QED BY <1>1, <1>2, <1>3, <2>1, FailsIs, OthersKeep DEF HandlerOK, Phase
<1>4. ASSUME NEW issues \in SUBSET Pkg, NEW through \in Seq(STRING), EntitySucceeds(h, issues, through) PROVE HandlersOK'
  <2>1. handled'[h] \in Handled
    <3>1. handled[h] \in Handled /\ h \in DOMAIN handled
      BY <1>1 DEF HandlersOK, HandlerOK
    <3> QED BY <1>1, <1>4, <3>1 DEF EntitySucceeds, Handled, Success
  <2> QED BY <1>1, <1>2, <1>4, <2>1, SucceedsIs, OthersKeep DEF HandlerOK, Phase
<1> QED BY <1>3, <1>4

-----------------------------------------------------------------------------
(***************************************************************************)
(* Paths.                                                                  *)
(***************************************************************************)
LEMMA OneMore == ASSUME NEW n \in Nat, NEW i \in 1..n + 1, i \notin 1..n PROVE i = n + 1
OBVIOUS

LEMMA OneLonger == ASSUME NEW n \in Nat, NEW m \in {n, n + 1}, NEW i \in 1..n PROVE i \in 1..m
OBVIOUS

-----------------------------------------------------------------------------
(***************************************************************************)
(* Every step keeps the types.                                             *)
(***************************************************************************)
Counted == UNCHANGED failures \/ (failures < MaxFailures /\ failures' = failures + 1)

LEMMA BasicsKept ==
  ASSUME TInv, UNCHANGED <<pc, testVars, running, python, outcome>>, Counted
  PROVE  BasicOK' /\ EntitiesOK'
<1>1. failures' \in 0..MaxFailures
  <2>1. MaxFailures \in Nat /\ failures \in 0..MaxFailures
    BY FixAssumption DEF FixAssumption, TInv, BasicOK
  <2> QED BY <2>1 DEF Counted
<1>2. BasicOK'
  <2>1. BasicOK /\ pc' = pc /\ at' = at /\ options' = options /\ running' = running /\ python' = python /\ outcome' = outcome
    BY DEF TInv, testVars
  <2> QED BY <1>1, <2>1, Zenon DEF BasicOK
<1>3. EntitiesOK'
  <2>1. EntitiesOK /\ entities' = entities /\ at' = at
    BY DEF TInv, testVars
  <2> QED BY <2>1 DEF EntitiesOK
<1> QED BY <1>2, <1>3

LEMMA NotQuiet == ASSUME TInv, NEW h \in Handler, phase[h] # "idle", UNCHANGED pc PROVE pc # "testing" /\ QuietOK'
BY DEF TInv, QuietOK

LEMMA HandlerTyped ==
  ASSUME TInv, NEW h \in Handler
  PROVE  /\ phase[h] \in Phase /\ todo[h] \subseteq Projects(h) /\ changes[h] \subseteq Change /\ handled[h] \in Handled
         /\ phase[h] \in {"reading", "installing"} => todo[h] # {}
         /\ todo[h] # {} =>
              /\ Current(h) \in todo[h] /\ Current(h) \in DOMAIN entities
              /\ Entity(h) \in Item /\ HandlerOf(Entity(h).file) = h /\ Entity(h).type = PluginOf(h)
              /\ Entity(h).path \in 1..Paths /\ WellFormed(Entity(h))
<1>1. HandlerOK(h) /\ EntitiesOK
  BY DEF TInv, HandlersOK
<1>2. ASSUME todo[h] # {}
      PROVE  /\ Current(h) \in todo[h] /\ Current(h) \in DOMAIN entities
             /\ Entity(h) \in Item /\ HandlerOf(Entity(h).file) = h /\ Entity(h).type = PluginOf(h)
             /\ Entity(h).path \in 1..Paths /\ WellFormed(Entity(h))
  <2>1. Current(h) \in todo[h] /\ Current(h) \in DOMAIN entities
    BY <1>1, <1>2, CurrentIs DEF HandlerOK
  <2>2. Current(h) \in Projects(h)
    BY <1>1, <2>1 DEF HandlerOK
  <2>3. Entity(h) \in Item
    <3>1. DOMAIN entities = 1..Len(entities) /\ entities \in Seq(Item)
      BY <1>1, LenProperties DEF EntitiesOK
    <3> QED BY <2>1, <3>1, ElementOfSeq DEF Entity
  <2>4. HandlerOf(Entity(h).file) = h /\ Entity(h).type = PluginOf(h)
    BY <2>2, Zenon DEF Projects, OfType, Entity
  <2>5. Entity(h).path \in 1..Paths /\ WellFormed(Entity(h))
    BY <1>1, <2>1, Zenon DEF EntitiesOK, Entity
  <2> QED BY <2>1, <2>3, <2>4, <2>5
<1> QED BY <1>1, <1>2 DEF HandlerOK

LEMMA PipFile ==
  ASSUME TInv, todo[PIP] # {}
  PROVE  /\ PIP \in Handler /\ PIP \notin Tool
         /\ Entity(PIP).file \in File /\ Entity(PIP).file \in Seq(STRING) /\ Entity(PIP).file # <<>>
         /\ \A f \in File : Key(f) \in Seq(STRING) /\ Join(Root, Key(f)) = f
         /\ Pins \subseteq Pkg /\ Entity(PIP).path \in 1..Paths
<1>1. PIP \in Handler /\ PIP \notin Tool
  BY DEF PIP, Handler, Tool
<1>2. Entity(PIP) \in Item /\ HandlerOf(Entity(PIP).file) = "requirements" /\ Entity(PIP).path \in 1..Paths
  BY <1>1, HandlerTyped DEF PIP
<1>3. Entity(PIP).file \in File
  BY <1>2 DEF HandlerOf, None
<1>4. Entity(PIP).file \in Seq(STRING) /\ Entity(PIP).file # <<>>
  BY <1>3, FileAssumption DEF FileAssumption
<1>5. \A f \in File : Key(f) \in Seq(STRING) /\ Join(Root, Key(f)) = f
  BY <1>3, PathAssumption DEF PathAssumption, Key, Root
<1> QED BY <1>1, <1>2, <1>3, <1>4, <1>5 DEF Pins, Item

LEMMA TakeFixedTInv == ASSUME TInv, TakeFixed PROVE TInv'
<1>1. phase[PIP] = "next" /\ todo[PIP] # {} /\ Entity(PIP).file \in DOMAIN cache
  BY DEF TakeFixed, NextIs
<1>2. PIP \in Handler /\ UNCHANGED entities
  BY DEF PIP, Handler, TakeFixed, testVars
<1>3. PICK issues, through : issues = cache[Entity(PIP).file].issues \cap Entity(PIP).issues
                             /\ through = cache[Entity(PIP).file].fixedIn
                             /\ EntitySucceeds(PIP, issues, through)
  BY DEF TakeFixed
<1>4. issues \in SUBSET Pkg /\ through \in Seq(STRING)
  BY <1>1, <1>3 DEF TInv, CacheOK
<1>5. HandlersOK'
  BY <1>1, <1>2, <1>3, <1>4, HandledKept DEF TInv
<1>6. phase'[PIP] = "next"
  BY <1>2, <1>3, SucceedsIs DEF TInv
<1>7. BasicOK' /\ EntitiesOK'
  BY BasicsKept DEF TakeFixed, Counted, reportVars
<1>8. QuietOK'
  BY <1>1, <1>2, NotQuiet DEF TakeFixed
<1>9. DiskOK' /\ CommandsOK' /\ InstalledOK' /\ CacheOK'
  BY <1>2, <1>3 DEF TakeFixed, TInv, DiskOK, CommandsOK, InstalledOK, CacheOK, readerVars
<1>10. ReaderOK'
  <2>1. visits' = visits /\ provenance' = provenance /\ turn' = turn
    BY DEF TakeFixed, readerVars
  <2> QED BY <1>6, <2>1 DEF TInv, ReaderOK
<1> QED BY <1>5, <1>7, <1>8, <1>9, <1>10 DEF TInv

(* A step of one handler that only moves it on.                            *)
LEMMA MovedOn ==
  ASSUME HandlersOK, NEW h \in Handler, NEW s, UNCHANGED <<entities, todo, changes, handled>>,
         phase' = [phase EXCEPT ![h] = s]
  PROVE  Others(h) /\ phase'[h] = s /\ todo'[h] = todo[h] /\ changes'[h] = changes[h] /\ handled'[h] = handled[h]
BY DEF HandlersOK, Others

LEMMA HandlersSame == ASSUME HandlersOK, UNCHANGED <<entities, todo, changes, handled, phase>> PROVE HandlersOK'
<1>1. \A h \in Handler : Projects(h)' = Projects(h) /\ Handled' = Handled
  BY DEF Projects, OfType, Vulnerable, Handled
<1> QED BY <1>1 DEF HandlersOK, HandlerOK

LEMMA HandlerMoves ==
  ASSUME TInv, NEW h \in Handler, NEW s \in Phase, UNCHANGED <<entities, todo, changes, handled>>,
         phase' = [phase EXCEPT ![h] = s],
         s \in {"reading", "installing"} \/ changes[h] = {},
         s \in {"reading", "installing"} => todo[h] # {}
  PROVE  HandlersOK'
<1>1. HandlerOK(h) /\ HandlersOK
  BY DEF TInv, HandlersOK
<1>2. Projects(h)' = Projects(h) /\ Handled' = Handled
  BY DEF Projects, OfType, Vulnerable, Handled
<1>3. HandlerOK(h)'
  BY <1>1, <1>2, MovedOn DEF HandlerOK
<1> QED BY <1>1, <1>3, MovedOn, OthersKeep

LEMMA SameCurrent == ASSUME NEW h, UNCHANGED <<entities, todo>> PROVE Current(h)' = Current(h) /\ Entity(h)' = Entity(h)
BY DEF Current, Entity, Before

LEMMA SamePlaces == ASSUME UNCHANGED <<entities, todo>> PROVE Root' = Root /\ Pins' = Pins /\ Entity(PIP)' = Entity(PIP)
<1>1. Entity(PIP)' = Entity(PIP)
  BY SameCurrent
<1> QED BY <1>1 DEF Root, Pins

LEMMA StartFileTInv == ASSUME TInv, StartFile PROVE TInv'
<1>1. phase[PIP] = "next" /\ todo[PIP] # {} /\ phase' = [phase EXCEPT ![PIP] = "reading"]
  BY DEF StartFile, NextIs
<1>2. PIP \in Handler /\ UNCHANGED <<entities, todo, changes, handled>>
  BY DEF PIP, Handler, StartFile, testVars
<1>3. HandlersOK' /\ phase'[PIP] = "reading"
  BY <1>1, <1>2, HandlerMoves, MovedOn DEF Phase, TInv
<1>4. BasicOK' /\ EntitiesOK'
  BY BasicsKept DEF StartFile, Counted, reportVars
<1>5. QuietOK'
  BY <1>1, <1>2, NotQuiet DEF StartFile
<1>6. DiskOK' /\ CommandsOK' /\ InstalledOK' /\ CacheOK'
  BY <1>2 DEF StartFile, TInv, DiskOK, CommandsOK, InstalledOK, CacheOK
<1>7. ReaderOK'
  <2> DEFINE file == Entity(PIP).file
             v == [text |-> Key(file), path |-> file]
  <2>1. file \in File /\ Key(file) \in Seq(STRING)
    BY <1>1, PipFile
  <2>2. visits' = <<v>> /\ provenance' = <<>> /\ turn' = 1
    BY DEF StartFile
  <2>3. v \in Visit
    BY <2>1 DEF Visit, Spot
  <2> HIDE DEF v
  <2>4. visits' \in Seq(Visit)
    BY <2>2, <2>3
  <2>5. provenance' \in Seq(Entry) /\ turn' \in 1..Len(provenance') + 1 /\ DOMAIN provenance' = {}
    BY <2>2
  <2> QED BY <2>4, <2>5 DEF ReaderOK
<1> QED BY <1>3, <1>4, <1>5, <1>6, <1>7 DEF TInv

LEMMA ToSetConcat ==
  ASSUME NEW S, NEW s \in Seq(S), NEW t \in Seq(S) PROVE s \o t \in Seq(S) /\ ToSet(s \o t) = ToSet(s) \cup ToSet(t)
<1>1. /\ s \o t \in Seq(S) /\ Len(s \o t) = Len(s) + Len(t) /\ Len(s) \in Nat /\ Len(t) \in Nat
      /\ DOMAIN s = 1..Len(s) /\ DOMAIN t = 1..Len(t) /\ DOMAIN (s \o t) = 1..Len(s) + Len(t)
      /\ \A i \in 1..Len(s) + Len(t) : (s \o t)[i] = IF i <= Len(s) THEN s[i] ELSE t[i - Len(s)]
  BY ConcatProperties, LenProperties
<1>2. ASSUME NEW x \in ToSet(s \o t) PROVE x \in ToSet(s) \cup ToSet(t)
  <2>1. PICK i \in 1..Len(s) + Len(t) : x = (s \o t)[i]
    BY <1>1 DEF ToSet
  <2>2. CASE i <= Len(s)
    BY <1>1, <2>1, <2>2 DEF ToSet
  <2>3. CASE ~(i <= Len(s))
    <3>1. x = t[i - Len(s)] /\ i - Len(s) \in 1..Len(t)
      BY <1>1, <2>1, <2>3
    <3> QED BY <1>1, <3>1 DEF ToSet
  <2> QED BY <2>2, <2>3
<1>3. ASSUME NEW i \in DOMAIN s PROVE s[i] \in ToSet(s \o t)
  <2>1. i \in 1..Len(s) + Len(t) /\ (s \o t)[i] = s[i]
    BY <1>1
  <2> QED BY <1>1, <2>1 DEF ToSet
<1>4. ASSUME NEW i \in DOMAIN t PROVE t[i] \in ToSet(s \o t)
  <2>1. Len(s) + i \in 1..Len(s) + Len(t) /\ (s \o t)[Len(s) + i] = t[i]
    BY <1>1
  <2> QED BY <1>1, <2>1 DEF ToSet
<1>5. ToSet(s) \cup ToSet(t) \subseteq ToSet(s \o t)
  BY <1>3, <1>4 DEF ToSet
<1> QED BY <1>1, <1>2, <1>5

LEMMA ToSetHeadTail ==
  ASSUME NEW S, NEW s \in Seq(S), s # <<>>
  PROVE  Head(s) \in S /\ Tail(s) \in Seq(S) /\ ToSet(s) = {Head(s)} \cup ToSet(Tail(s))
<1>1. Head(s) \in S /\ Tail(s) \in Seq(S) /\ s = <<Head(s)>> \o Tail(s) /\ <<Head(s)>> \in Seq(S)
  <2>1. Head(s) \in S /\ Tail(s) \in Seq(S)
    BY HeadTailProperties
  <2>2. <<Head(s)>> \in Seq(S)
    BY <2>1
  <2>3. s = <<Head(s)>> \o Tail(s)
    OBVIOUS
  <2> QED BY <2>1, <2>2, <2>3
<1>2. ToSet(<<Head(s)>>) = {Head(s)}
  BY DEF ToSet
<1>3. ToSet(<<Head(s)>> \o Tail(s)) = ToSet(<<Head(s)>>) \cup ToSet(Tail(s))
  BY <1>1, ToSetConcat, Zenon
<1> QED BY <1>1, <1>2, <1>3, Zenon

LEMMA PutIs ==
  ASSUME provenance \in Seq(Entry), NEW key \in Seq(STRING), NEW text \in Text
  PROVE  /\ Put(key, text) \in Seq(Entry)
         /\ key \in Keys => Len(Put(key, text)) = Len(provenance)
         /\ key \notin Keys => /\ Len(Put(key, text)) = Len(provenance) + 1
                               /\ Put(key, text)[Len(provenance) + 1] = [key |-> key, text |-> text]
         /\ \A i \in 1..Len(provenance) :
              Put(key, text)[i] = IF provenance[i].key = key THEN [key |-> key, text |-> text] ELSE provenance[i]
<1> DEFINE entry == [key |-> key, text |-> text]
<1>1. /\ entry \in Entry /\ Len(provenance) \in Nat /\ DOMAIN provenance = 1..Len(provenance)
      /\ \A i \in 1..Len(provenance) : provenance[i] \in Entry
  BY LenProperties DEF Entry
<1>2. CASE key \in Keys
  <2> DEFINE new == [i \in 1..Len(provenance) |-> IF provenance[i].key = key THEN entry ELSE provenance[i]]
  <2>1. Put(key, text) = new
    BY <1>1, <1>2 DEF Put
  <2>2. new \in Seq(Entry) /\ Len(new) = Len(provenance)
    BY <1>1
  <2> QED BY <1>2, <2>1, <2>2
<1>3. CASE key \notin Keys
  <2>1. Put(key, text) = Append(provenance, entry)
    BY <1>3 DEF Put
  <2>2. \A i \in 1..Len(provenance) : provenance[i].key # key
    BY <1>1, <1>3 DEF Keys
  <2>3. /\ Append(provenance, entry) \in Seq(Entry)
        /\ Len(Append(provenance, entry)) = Len(provenance) + 1
        /\ \A i \in 1..Len(provenance) : Append(provenance, entry)[i] = provenance[i]
        /\ Append(provenance, entry)[Len(provenance) + 1] = entry
    <3> HIDE DEF entry
    <3> QED BY <1>1, AppendProperties
  <2> QED BY <1>3, <2>1, <2>2, <2>3
<1> QED BY <1>2, <1>3

(* What VisitFile reads, and where it goes from there.                     *)
Following(v) ==
  [i \in DOMAIN Read(v.path).requires |->
     [text |-> Read(v.path).requires[i].path, path |-> Join(Dir(v.path), Read(v.path).requires[i].path)]]

LEMMA ReadIs ==
  ASSUME TInv, todo[PIP] # {}, NEW path \in File
  PROVE  Read(path) \in Text /\ Read(path) = disk[Entity(PIP).path][path]
BY PipFile DEF TInv, DiskOK, Read

LEMMA FollowingIs ==
  ASSUME TInv, phase[PIP] = "reading", NEW v \in Visit, v.path \in File
  PROVE  /\ Following(v) \in Seq(Visit)
         /\ DOMAIN Following(v) = DOMAIN Read(v.path).requires
         /\ \A i \in DOMAIN Following(v) :
              /\ Following(v)[i].text = Read(v.path).requires[i].path
              /\ Following(v)[i].path = Join(Dir(v.path), Read(v.path).requires[i].path)
         /\ {w.path : w \in ToSet(Following(v))} = Required(Read(v.path), v.path)
<1> DEFINE requires == Read(v.path).requires
           there(i) == Join(Dir(v.path), requires[i].path)
<1>1. PIP \in Handler /\ todo[PIP] # {}
  BY HandlerTyped DEF PIP, Handler
<1>2. requires \in Seq(Require)
  BY <1>1, ReadIs DEF Text
<1>3. DOMAIN requires = 1..Len(requires) /\ Len(requires) \in Nat /\ \A i \in DOMAIN requires : requires[i] \in Require
  <2> HIDE DEF requires
  <2> QED BY <1>2, LenProperties
<1>4. \A i \in DOMAIN requires : requires[i].path \in Seq(STRING) /\ there(i) \in Spot
  <2>1. \A i \in DOMAIN requires : requires[i].path \in Seq(STRING)
    BY <1>3 DEF Require
  <2> HIDE DEF requires
  <2> QED BY <2>1 DEF Spot
<1>5. Following(v) = [i \in DOMAIN requires |-> [text |-> requires[i].path, path |-> there(i)]]
  BY DEF Following
<1>6. Required(Read(v.path), v.path) = {there(i) : i \in DOMAIN requires}
  BY DEF Required
<1>7. \A i \in DOMAIN requires : there(i) = Join(Dir(v.path), Read(v.path).requires[i].path)
                                /\ requires[i].path = Read(v.path).requires[i].path
  OBVIOUS
<1>8. DOMAIN requires = DOMAIN Read(v.path).requires
  OBVIOUS
<1> HIDE DEF requires, there
<1>9. Following(v) \in Seq(Visit)
  BY <1>3, <1>4, <1>5 DEF Visit
<1>10. /\ DOMAIN Following(v) = DOMAIN requires
       /\ \A i \in DOMAIN requires : Following(v)[i].text = requires[i].path /\ Following(v)[i].path = there(i)
  BY <1>5
<1>11. {w.path : w \in ToSet(Following(v))} = {there(i) : i \in DOMAIN requires}
  BY <1>10 DEF ToSet
<1> QED BY <1>6, <1>7, <1>8, <1>9, <1>10, <1>11

LEMMA VisitIs ==
  ASSUME TInv, VisitFile
  PROVE  /\ phase[PIP] = "reading" /\ visits # <<>> /\ PIP \in Handler /\ todo[PIP] # {}
         /\ UNCHANGED <<pc, testVars, disk, installed, failures, phase, todo, changes, commands, turn, cache, handled,
                        reportVars, outcome>>
         /\ Head(visits) \in Visit /\ Tail(visits) \in Seq(Visit)
         /\ ToSet(visits) = {Head(visits)} \cup ToSet(Tail(visits))
         /\ \/ Head(visits).text \in Keys /\ visits' = Tail(visits) /\ provenance' = provenance
            \/ /\ Head(visits).text \notin Keys /\ Head(visits).path \in File
               /\ visits' = Following(Head(visits)) \o Tail(visits)
               /\ provenance' = Put(Key(Head(visits).path), Read(Head(visits).path))
<1>1. phase[PIP] = "reading" /\ visits # <<>>
  BY DEF VisitFile
<1>2. PIP \in Handler /\ todo[PIP] # {}
  BY <1>1, HandlerTyped DEF PIP, Handler
<1>3. /\ Head(visits) \in Visit /\ Tail(visits) \in Seq(Visit)
      /\ ToSet(visits) = {Head(visits)} \cup ToSet(Tail(visits))
  BY <1>1, ToSetHeadTail DEF TInv, ReaderOK
<1>4. \/ Head(visits).text \in Keys /\ visits' = Tail(visits) /\ provenance' = provenance
      \/ /\ Head(visits).text \notin Keys /\ Head(visits).path \in File
         /\ visits' = Following(Head(visits)) \o Tail(visits)
         /\ provenance' = Put(Key(Head(visits).path), Read(Head(visits).path))
  BY DEF VisitFile, Following
<1> QED BY <1>1, <1>2, <1>3, <1>4 DEF VisitFile

LEMMA VisitFileTInv == ASSUME TInv, VisitFile PROVE TInv'
<1> DEFINE v == Head(visits)
<1>1. /\ phase[PIP] = "reading" /\ visits # <<>> /\ PIP \in Handler /\ todo[PIP] # {}
      /\ UNCHANGED <<pc, testVars, disk, installed, failures, phase, todo, changes, commands, turn, cache, handled,
                     reportVars, outcome>>
      /\ v \in Visit /\ Tail(visits) \in Seq(Visit)
      /\ \/ v.text \in Keys /\ visits' = Tail(visits) /\ provenance' = provenance
         \/ /\ v.text \notin Keys /\ v.path \in File /\ visits' = Following(v) \o Tail(visits)
            /\ provenance' = Put(Key(v.path), Read(v.path))
  BY VisitIs
<1> HIDE DEF v
<1>2. BasicOK' /\ EntitiesOK' /\ QuietOK'
  BY <1>1, BasicsKept, NotQuiet DEF Counted, reportVars
<1>3. HandlersOK' /\ UNCHANGED <<entities, todo, phase>>
  BY <1>1, HandlersSame DEF TInv, testVars
<1>4. DiskOK' /\ CommandsOK' /\ InstalledOK' /\ CacheOK'
  BY <1>1, <1>3 DEF TInv, DiskOK, CommandsOK, InstalledOK, CacheOK
<1>5. ReaderOK'
  <2>1. Root' = Root
    BY <1>1, <1>3, SamePlaces
  <2>2. visits' \in Seq(Visit)
    <3>1. CASE visits' = Tail(visits)
      BY <1>1, <3>1
    <3>2. CASE v.path \in File /\ visits' = Following(v) \o Tail(visits)
      <4>1. Following(v) \in Seq(Visit)
        BY <1>1, <3>2, FollowingIs
      <4> QED BY <1>1, <3>2, <4>1, ToSetConcat
    <3> QED BY <1>1, <3>1, <3>2
  <2>3. /\ provenance' \in Seq(Entry) /\ turn' \in 1..Len(provenance') + 1
        /\ \A i \in DOMAIN provenance' : KeptWell(provenance'[i])
    <3>1. provenance \in Seq(Entry) /\ turn \in 1..Len(provenance) + 1 /\ Len(provenance) \in Nat
          /\ DOMAIN provenance = 1..Len(provenance)
          /\ \A i \in DOMAIN provenance : KeptWell(provenance[i])
      BY <1>1, LenProperties DEF TInv, ReaderOK
    <3>2. CASE provenance' = provenance
      BY <1>1, <3>1, <3>2
    <3>3. CASE v.path \in File /\ provenance' = Put(Key(v.path), Read(v.path))
      <4> DEFINE key == Key(v.path)
                 text == Read(v.path)
      <4>1. key \in Seq(STRING) /\ v.path = Join(Root, key) /\ v.path \in File /\ Key(v.path) = key
        BY <1>1, <3>3, PipFile
      <4>2. text \in Text
        BY <1>1, <4>1, ReadIs
      <4> HIDE DEF key, text
      <4>3. provenance' = Put(key, text)
        BY <3>3 DEF key, text
      <4>4. /\ provenance' \in Seq(Entry)
            /\ key \in Keys => Len(provenance') = Len(provenance)
            /\ key \notin Keys => /\ Len(provenance') = Len(provenance) + 1
                                  /\ provenance'[Len(provenance) + 1] = [key |-> key, text |-> text]
            /\ \A i \in 1..Len(provenance) :
                 provenance'[i] = IF provenance[i].key = key THEN [key |-> key, text |-> text] ELSE provenance[i]
        BY <3>1, <4>1, <4>2, <4>3, PutIs
      <4>5. DOMAIN provenance' = 1..Len(provenance') /\ turn' \in 1..Len(provenance') + 1
        BY <1>1, <3>1, <4>4, LenProperties
      <4>6. ASSUME NEW i \in DOMAIN provenance' PROVE KeptWell(provenance'[i])
        <5>1. \/ i \in 1..Len(provenance) /\ provenance'[i] = provenance[i]
              \/ provenance'[i] = [key |-> key, text |-> text]
          <6>1. CASE i \in 1..Len(provenance)
            BY <4>4, <6>1, Zenon
          <6>2. CASE i \notin 1..Len(provenance)
            <7>1. i \in 1..Len(provenance')
              BY <4>5
            <7>2. key \notin Keys
              BY <4>4, <6>2, <7>1
            <7>3. i = Len(provenance) + 1
              BY <3>1, <4>4, <6>2, <7>1, <7>2, OneMore
            <7> QED BY <4>4, <7>2, <7>3
          <6> QED BY <6>1, <6>2
        <5>2. CASE provenance'[i] = [key |-> key, text |-> text]
          <6>1. provenance'[i].key = key
            BY <5>2
          <6> QED BY <4>1, <6>1 DEF KeptWell
        <5>3. CASE i \in 1..Len(provenance) /\ provenance'[i] = provenance[i]
          BY <3>1, <5>3
        <5> QED BY <5>1, <5>2, <5>3
      <4> QED BY <4>4, <4>5, <4>6
    <3> QED BY <1>1, <3>2, <3>3
  <2> QED BY <2>1, <2>2, <2>3 DEF ReaderOK, KeptWell, Key
<1> QED BY <1>2, <1>3, <1>4, <1>5 DEF TInv

(* Upgrades and pins keep the form of lines and changes.                   *)
LEMMA LinesTyped ==
  ASSUME NEW lines \in SUBSET Line, NEW pins \in SUBSET Pkg
  PROVE  /\ Upgraded(lines, pins) \subseteq Line /\ Pinned(lines, pins) \subseteq Line
         /\ UpgradeChanges(lines, pins) \subseteq Change /\ PinChanges(lines, pins) \subseteq Change
<1>1. Upgradable(lines, pins) \subseteq lines
  BY DEF Upgradable
<1>2. Upgraded(lines, pins) \subseteq Line
  BY <1>1 DEF Upgraded, Line, Version
<1>3. Pinned(lines, pins) \subseteq Line
  BY <1>2 DEF Pinned, Transitive, Line, Version
<1>4. \A x \in Pkg, from \in Version : Took(x, from) \in Change
  <2>1. \A x \in Pkg, from \in Version : [pkg |-> x, from |-> from, success |-> TRUE] \in Change
    BY DEF Change
  <2> QED BY <2>1, Zenon DEF Took
<1>5. UpgradeChanges(lines, pins) \subseteq Change
  <2>1. \A l \in Upgradable(lines, pins) : l.name \in Pkg /\ l.version \in Version
    BY <1>1 DEF Line
  <2> QED BY <1>4, <2>1 DEF UpgradeChanges
<1>6. PinChanges(lines, pins) \subseteq Change
  <2>1. Transitive(lines, pins) \subseteq Pkg /\ "old" \in Version
    BY DEF Transitive, Version
  <2> QED BY <1>4, <2>1 DEF PinChanges
<1> QED BY <1>2, <1>3, <1>5, <1>6

LEMMA TextWith ==
  ASSUME NEW text \in Text, NEW lines \in SUBSET Line
  PROVE  /\ [text EXCEPT !.lines = lines] \in Text /\ [text EXCEPT !.lines = lines].requires = text.requires
         /\ [text EXCEPT !.lines = lines].lines = lines
         /\ \A path : Required([text EXCEPT !.lines = lines], path) = Required(text, path)
BY DEF Text, Required

LEMMA SaveIs ==
  ASSUME TInv, todo[PIP] # {}, NEW path \in File, NEW text \in Text,
         UNCHANGED disk \/ Save(path, text)
  PROVE  /\ DiskOK'
         /\ disk' = disk \/ disk' = [disk EXCEPT ![Entity(PIP).path][path] = text]
         /\ options.dryRun => disk' = disk
<1>1. disk' = disk \/ disk' = [disk EXCEPT ![Entity(PIP).path][path] = text]
  BY DEF Save
<1>2. DiskOK /\ Entity(PIP).path \in 1..Paths
  BY PipFile DEF TInv
<1>3. DiskOK'
  <2>1. CASE disk' = disk
    BY <1>2, <2>1 DEF DiskOK
  <2>2. CASE disk' = [disk EXCEPT ![Entity(PIP).path][path] = text]
    <3> DEFINE here == Entity(PIP).path
    <3>1. here \in 1..Paths /\ disk \in [1..Paths -> [File -> Text]] /\ disk' = [disk EXCEPT ![here][path] = text]
      BY <1>2, <2>2 DEF DiskOK
    <3> HIDE DEF here
    <3>2. disk' \in [1..Paths -> [File -> Text]]
      BY <3>1
    <3> QED BY <3>2 DEF DiskOK
  <2> QED BY <1>1, <2>1, <2>2
<1> QED BY <1>1, <1>3 DEF Save

LEMMA EntryIs ==
  ASSUME TInv, phase[PIP] = "reading", NEW i \in 1..Len(provenance)
  PROVE  /\ provenance[i] \in Entry /\ provenance[i].text \in Text /\ provenance[i].text.lines \subseteq Line
         /\ Join(Root, provenance[i].key) \in File /\ Key(Join(Root, provenance[i].key)) = provenance[i].key
<1>1. provenance \in Seq(Entry) /\ DOMAIN provenance = 1..Len(provenance)
  BY LenProperties DEF TInv, ReaderOK
<1>2. provenance[i] \in Entry
  BY <1>1, ElementOfSeq
<1> QED BY <1>1, <1>2 DEF TInv, ReaderOK, KeptWell, Entry, Text

LEMMA UpgradeIs ==
  ASSUME TInv, UpgradeFile
  PROVE  /\ phase[PIP] = "reading" /\ visits = <<>> /\ turn \in 1..Len(provenance) /\ PIP \in Handler /\ todo[PIP] # {}
         /\ turn' = turn + 1
         /\ UNCHANGED <<pc, testVars, installed, failures, phase, todo, commands, visits, provenance, cache, handled,
                        reportVars, outcome>>
         /\ changes' = [changes EXCEPT ![PIP] = @ \cup UpgradeChanges(provenance[turn].text.lines, Pins)]
         /\ IF UpgradeChanges(provenance[turn].text.lines, Pins) = {} THEN UNCHANGED disk
            ELSE Save(Join(Root, provenance[turn].key),
                      [provenance[turn].text EXCEPT !.lines = Upgraded(provenance[turn].text.lines, Pins)])
<1>1. phase[PIP] = "reading" /\ visits = <<>> /\ turn <= Len(provenance) /\ turn' = turn + 1
  BY DEF UpgradeFile
<1>2. PIP \in Handler /\ todo[PIP] # {}
  BY <1>1, HandlerTyped DEF PIP, Handler
<1>3. turn \in 1..Len(provenance)
  <2>1. turn \in 1..Len(provenance) + 1 /\ Len(provenance) \in Nat
    BY LenProperties DEF TInv, ReaderOK
  <2> QED BY <1>1, <2>1
<1>4. provenance[turn].text.lines = provenance[turn].text.lines
  OBVIOUS
<1> QED BY <1>1, <1>2, <1>3 DEF UpgradeFile

LEMMA UpgradeFileTInv == ASSUME TInv, UpgradeFile PROVE TInv'
<1> DEFINE f == provenance[turn]
           new == UpgradeChanges(f.text.lines, Pins)
           after == [f.text EXCEPT !.lines = Upgraded(f.text.lines, Pins)]
<1>1. /\ phase[PIP] = "reading" /\ visits = <<>> /\ turn \in 1..Len(provenance) /\ PIP \in Handler /\ todo[PIP] # {}
      /\ turn' = turn + 1
      /\ UNCHANGED <<pc, testVars, installed, failures, phase, todo, commands, visits, provenance, cache, handled,
                     reportVars, outcome>>
      /\ changes' = [changes EXCEPT ![PIP] = @ \cup new]
      /\ UNCHANGED disk \/ Save(Join(Root, f.key), after)
  BY UpgradeIs
<1>2. f.text \in Text /\ f.text.lines \subseteq Line /\ Join(Root, f.key) \in File
  BY <1>1, EntryIs
<1>3. Pins \subseteq Pkg
  BY <1>1, PipFile
<1>4. new \subseteq Change /\ Upgraded(f.text.lines, Pins) \subseteq Line
  <2> HIDE DEF f
  <2> QED BY <1>2, <1>3, LinesTyped
<1>5. after \in Text
  <2> HIDE DEF f
  <2> QED BY <1>2, <1>4, TextWith
<1> HIDE DEF f, new, after
<1>6. DiskOK'
  BY <1>1, <1>2, <1>5, SaveIs
<1>7. BasicOK' /\ EntitiesOK' /\ QuietOK'
  BY <1>1, BasicsKept, NotQuiet DEF Counted, reportVars
<1>8. HandlersOK'
  <2>1. HandlersOK /\ HandlerOK(PIP)
    BY <1>1 DEF TInv, HandlersOK
  <2>2. UNCHANGED entities
    BY <1>1 DEF testVars
  <2>3. Others(PIP) /\ changes'[PIP] = changes[PIP] \cup new
    BY <1>1, <2>1, <2>2 DEF Others, HandlersOK
  <2>4. Projects(PIP)' = Projects(PIP) /\ Handled' = Handled
    BY <2>2 DEF Projects, OfType, Vulnerable, Handled
  <2>5. HandlerOK(PIP)'
    BY <1>1, <1>4, <2>1, <2>3, <2>4 DEF HandlerOK
  <2> QED BY <1>1, <2>1, <2>3, <2>5, OthersKeep
<1>9. CommandsOK' /\ InstalledOK' /\ CacheOK'
  BY <1>1 DEF TInv, CommandsOK, InstalledOK, CacheOK, testVars
<1>10. ReaderOK'
  <2>1. Root' = Root
    BY <1>1, SamePlaces DEF testVars
  <2>2. turn' \in 1..Len(provenance) + 1
    <3>1. Len(provenance) \in Nat
      BY LenProperties DEF TInv, ReaderOK
    <3> QED BY <1>1, <3>1
  <2>3. DOMAIN visits' = {} /\ visits' \in Seq(Visit)
    BY <1>1
  <2> QED BY <1>1, <2>1, <2>2, <2>3 DEF TInv, ReaderOK, KeptWell, Key
<1> QED BY <1>6, <1>7, <1>8, <1>9, <1>10 DEF TInv

LEMMA PinFileIs ==
  ASSUME NEW text \in Text, NEW file PROVE PinFile(file, text) \in {file} \cup Required(text, file)
<1> DEFINE constraints == {i \in DOMAIN text.requires : text.requires[i].kind = "c"}
<1>1. CASE constraints = {}
  BY <1>1 DEF PinFile
<1>2. CASE constraints # {}
  <2>1. constraints \in SUBSET Nat
    BY LenProperties DEF Text
  <2>2. Min(constraints) \in constraints
    <3> HIDE DEF constraints
    <3> QED BY <1>2, <2>1, MinIs
  <2>3. PinFile(file, text) = Join(Dir(file), text.requires[Min(constraints)].path)
    BY <1>2, Zenon DEF PinFile
  <2>4. Min(constraints) \in DOMAIN text.requires
    BY <2>2
  <2> HIDE DEF constraints
  <2> QED BY <2>3, <2>4, Zenon DEF Required
<1> QED BY <1>1, <1>2

LEMMA IssuesTyped == ASSUME NEW S \in SUBSET Change PROVE Issues(S) \subseteq Pkg
BY DEF Issues, Change

(* The step that pins, by name.                                            *)
Rest    == NotApplied(Pins, changes[PIP])
PinPath == PinFile(Entity(PIP).file, Read(Entity(PIP).file))
PinText == Read(PinPath)
PinNew  == PinChanges(PinText.lines, Rest) \cup UpgradeChanges(PinText.lines, Rest)

LEMMA PinRestIs ==
  ASSUME TInv, PinRest
  PROVE  /\ phase[PIP] = "reading" /\ visits = <<>> /\ turn > Len(provenance) /\ PIP \in Handler /\ todo[PIP] # {}
         /\ UNCHANGED <<pc, testVars, installed, failures, commands, visits, provenance, turn, reportVars, outcome>>
         /\ PinPath \in File /\ PinPath \in {Entity(PIP).file} \cup Required(Read(Entity(PIP).file), Entity(PIP).file)
         /\ PinText \in Text /\ PinText.lines \subseteq Line
         /\ Rest \subseteq Pins /\ PinNew \subseteq Change /\ Pinned(PinText.lines, Rest) \subseteq Line
         /\ IF PinNew = {} THEN UNCHANGED disk
            ELSE Save(PinPath, [PinText EXCEPT !.lines = Pinned(PinText.lines, Rest)])
         /\ Finish(changes[PIP] \cup PinNew)
<1>1. phase[PIP] = "reading" /\ visits = <<>> /\ turn > Len(provenance)
  BY DEF PinRest
<1>2. PIP \in Handler /\ todo[PIP] # {}
  BY <1>1, HandlerTyped DEF PIP, Handler
<1>3. Entity(PIP).file \in File /\ Pins \subseteq Pkg
  BY <1>2, PipFile
<1>4. Read(Entity(PIP).file) \in Text
  BY <1>2, <1>3, ReadIs
<1>5. PinPath \in {Entity(PIP).file} \cup Required(Read(Entity(PIP).file), Entity(PIP).file)
  BY <1>4, PinFileIs DEF PinPath
<1>6. PinPath \in File
  BY Zenon DEF PinRest, PinPath
<1>7. PinText \in Text /\ PinText.lines \subseteq Line
  BY <1>2, <1>6, ReadIs DEF PinText, Text
<1>8. Rest \subseteq Pins
  BY DEF Rest, NotApplied
<1>9. PinNew \subseteq Change /\ Pinned(PinText.lines, Rest) \subseteq Line
  BY <1>3, <1>7, <1>8, LinesTyped DEF PinNew
<1>10. /\ IF PinNew = {} THEN UNCHANGED disk
          ELSE Save(PinPath, [PinText EXCEPT !.lines = Pinned(PinText.lines, Rest)])
       /\ Finish(changes[PIP] \cup PinNew)
  BY Zenon DEF PinRest, PinPath, PinText, Rest, PinNew
<1> QED BY <1>1, <1>2, <1>5, <1>6, <1>7, <1>8, <1>9, <1>10 DEF PinRest

LEMMA PinRestTInv == ASSUME TInv, PinRest PROVE TInv'
<1> DEFINE all == changes[PIP] \cup PinNew
           after == [PinText EXCEPT !.lines = Pinned(PinText.lines, Rest)]
<1>1. /\ phase[PIP] = "reading" /\ PIP \in Handler /\ todo[PIP] # {}
      /\ UNCHANGED <<pc, testVars, installed, failures, commands, visits, provenance, turn, reportVars, outcome>>
      /\ PinPath \in File /\ PinText \in Text
      /\ PinNew \subseteq Change /\ Pinned(PinText.lines, Rest) \subseteq Line
      /\ UNCHANGED disk \/ Save(PinPath, after)
      /\ Finish(all)
  BY PinRestIs
<1>2. after \in Text
  BY <1>1, TextWith
<1>3. all \subseteq Change /\ Issues(all) \subseteq Pkg
  <2>1. changes[PIP] \subseteq Change
    BY <1>1, HandlerTyped
  <2> QED BY <1>1, <2>1, IssuesTyped
<1> HIDE DEF all, after
<1>4. DiskOK'
  BY <1>1, <1>2, SaveIs
<1>5. BasicOK' /\ EntitiesOK' /\ QuietOK' /\ entities' = entities
  BY <1>1, BasicsKept, NotQuiet DEF Counted, reportVars, testVars
<1>6. Entity(PIP).file \in Seq(STRING)
  BY <1>1, PipFile
<1>7. HandlersOK' /\ phase'[PIP] = "next"
  <2>1. CASE EntityFails(PIP)
    BY <1>1, <1>5, <2>1, HandledKept, FailsIs DEF TInv
  <2>2. CASE EntitySucceeds(PIP, Issues(all), Entity(PIP).file)
    BY <1>1, <1>3, <1>5, <1>6, <2>2, HandledKept, SucceedsIs DEF TInv
  <2> QED BY <1>1, <2>1, <2>2 DEF Finish
<1>8. CacheOK'
  <2>1. CASE cache' = cache
    BY <2>1 DEF TInv, CacheOK
  <2>2. ASSUME NEW fixed,
               cache' = [f \in fixed \cup DOMAIN cache |->
                           IF f \in fixed THEN [fixedIn |-> Entity(PIP).file, issues |-> Issues(all)] ELSE cache[f]]
        PROVE  CacheOK'
    BY <1>3, <1>6, <2>2 DEF TInv, CacheOK
  <2> QED BY <1>1, <2>1, <2>2 DEF Finish
<1>9. CommandsOK' /\ InstalledOK'
  BY <1>1, <1>5 DEF TInv, CommandsOK, InstalledOK
<1>10. ReaderOK'
  BY <1>1, <1>7 DEF TInv, ReaderOK
<1> QED BY <1>4, <1>5, <1>7, <1>8, <1>9, <1>10 DEF TInv

LEMMA FileFailsTInv == ASSUME TInv, FileFails PROVE TInv'
<1>1. /\ phase[PIP] = "reading" /\ EntityFails(PIP) /\ Counted
      /\ UNCHANGED <<pc, testVars, disk, installed, commands, readerVars, reportVars, outcome>>
  BY DEF FileFails, CanFail, Counted
<1>2. PIP \in Handler /\ todo[PIP] # {} /\ entities' = entities
  BY <1>1, HandlerTyped DEF PIP, Handler, testVars
<1>3. HandlersOK' /\ phase'[PIP] = "next"
  BY <1>1, <1>2, HandledKept, FailsIs DEF TInv
<1>4. BasicOK' /\ EntitiesOK' /\ QuietOK'
  BY <1>1, <1>2, BasicsKept, NotQuiet DEF reportVars
<1>5. DiskOK' /\ CommandsOK' /\ InstalledOK' /\ CacheOK' /\ ReaderOK'
  BY <1>1, <1>2, <1>3 DEF TInv, DiskOK, CommandsOK, InstalledOK, CacheOK, ReaderOK, readerVars
<1> QED BY <1>3, <1>4, <1>5 DEF TInv

(***************************************************************************)
(* The same for the handlers that run a tool.                              *)
(***************************************************************************)
LEMMA SameFor ==
  ASSUME NEW h, UNCHANGED entities, todo'[h] = todo[h] PROVE Current(h)' = Current(h) /\ Entity(h)' = Entity(h)
BY DEF Current, Entity, Before

LEMMA ToolIs == ASSUME NEW t \in Tool PROVE t \in Handler /\ t # PIP /\ PIP \in Handler
BY DEF Tool, Handler, PIP

LEMMA ReaderKept ==
  ASSUME TInv, NEW h \in Handler, h # PIP, Others(h), UNCHANGED <<visits, provenance, turn>>
  PROVE  ReaderOK'
<1>1. phase'[PIP] = phase[PIP] /\ todo'[PIP] = todo[PIP] /\ entities' = entities
  BY DEF Others, PIP, Handler
<1>2. Root' = Root
  BY <1>1, SameFor DEF Root
<1> QED BY <1>1, <1>2 DEF TInv, ReaderOK, KeptWell, Key

LEMMA BatchesTyped == ASSUME NEW pins \in SUBSET Pkg, IsFiniteSet(pins) PROVE Batches(pins) \in Seq(SUBSET Pkg)
<1>1. Cardinality(pins) \in Nat /\ \A i \in 1..Cardinality(pins) : SetToSeq(pins)[i] \in Pkg
  BY SetToSeqIs
<1>2. [i \in 1..Cardinality(pins) |-> {SetToSeq(pins)[i]}] \in Seq(SUBSET Pkg)
  BY <1>1
<1>3. <<pins>> \in Seq(SUBSET Pkg) /\ <<>> \in Seq(SUBSET Pkg)
  OBVIOUS
<1> QED BY <1>2, <1>3, Zenon DEF Batches

LEMMA ToolPins ==
  ASSUME TInv, NEW t \in Tool, todo[t] # {} PROVE Entity(t).pins \subseteq Pkg /\ IsFiniteSet(Entity(t).pins)
<1>1. Entity(t) \in Item /\ WellFormed(Entity(t))
  BY ToolIs, HandlerTyped
<1> QED BY <1>1 DEF Item, WellFormed

LEMMA StartToolTInv ==
  ASSUME TInv, NEW t \in Tool, phase[t] = "next", todo[t] # {}, NEW new \in Seq(SUBSET Pkg),
         commands' = [commands EXCEPT ![t] = new], phase' = [phase EXCEPT ![t] = "installing"],
         UNCHANGED <<pc, testVars, disk, installed, failures, todo, changes, readerVars, handled, reportVars, outcome>>
  PROVE  TInv'
<1>1. t \in Handler /\ t # PIP /\ UNCHANGED <<entities, todo, changes, handled>>
  BY ToolIs DEF testVars
<1>2. HandlersOK' /\ Others(t)
  BY <1>1, HandlerMoves, MovedOn DEF Phase, TInv
<1>3. BasicOK' /\ EntitiesOK' /\ QuietOK'
  BY <1>1, BasicsKept, NotQuiet DEF Counted, reportVars
<1>4. DiskOK' /\ CommandsOK' /\ InstalledOK' /\ CacheOK'
  BY <1>1 DEF TInv, DiskOK, CommandsOK, InstalledOK, CacheOK, readerVars
<1>5. ReaderOK'
  BY <1>1, <1>2, ReaderKept DEF readerVars
<1> QED BY <1>2, <1>3, <1>4, <1>5 DEF TInv

LEMMA StartPipfileTInv == ASSUME TInv, StartPipfile PROVE TInv'
<1>1. "pipfile" \in Tool /\ phase["pipfile"] = "next" /\ todo["pipfile"] # {}
  BY DEF Tool, StartPipfile
<1>2. Batches(Entity("pipfile").pins) \in Seq(SUBSET Pkg)
  BY <1>1, ToolPins, BatchesTyped
<1> QED BY <1>1, <1>2, StartToolTInv DEF StartPipfile

LEMMA StartPoetryTInv == ASSUME TInv, StartPoetry PROVE TInv'
<1>1. "poetry" \in Tool /\ phase["poetry"] = "next" /\ todo["poetry"] # {}
  BY DEF Tool, StartPoetry
<1>2. PICK prod \in SUBSET Entity("poetry").pins, dev \in SUBSET Entity("poetry").pins :
        commands' = [commands EXCEPT !["poetry"] = Batches(prod) \o Batches(dev)]
  BY DEF StartPoetry
<1>3. /\ prod \in SUBSET Pkg /\ dev \in SUBSET Pkg /\ IsFiniteSet(prod) /\ IsFiniteSet(dev)
  BY <1>1, ToolPins, FS_Subset
<1>4. Batches(prod) \o Batches(dev) \in Seq(SUBSET Pkg)
  <2>1. Batches(prod) \in Seq(SUBSET Pkg) /\ Batches(dev) \in Seq(SUBSET Pkg)
    BY <1>3, BatchesTyped
  <2> QED BY <2>1, ConcatProperties
<1> QED BY <1>1, <1>2, <1>4, StartToolTInv DEF StartPoetry

LEMMA PoetryThrowsTInv == ASSUME TInv, PoetryThrows PROVE TInv'
<1>1. /\ phase["poetry"] = "next" /\ Counted
      /\ phase' = [phase EXCEPT !["poetry"] = "threw"] /\ todo' = [todo EXCEPT !["poetry"] = {}]
      /\ UNCHANGED <<pc, testVars, disk, installed, changes, commands, readerVars, handled, running, python,
                     exceptions, outcome>>
  BY DEF PoetryThrows, CanFail, Counted
<1>2. "poetry" \in Handler /\ "poetry" # PIP /\ entities' = entities
  BY <1>1 DEF Handler, PIP, testVars
<1>3. Others("poetry") /\ HandlerOK("poetry") /\ HandlersOK
  BY <1>1, <1>2 DEF TInv, HandlersOK, Others
<1>4. HandlerOK("poetry")'
  <2>1. Projects("poetry")' = Projects("poetry") /\ Handled' = Handled
    BY <1>2 DEF Projects, OfType, Vulnerable, Handled
  <2>2. phase'["poetry"] = "threw" /\ todo'["poetry"] = {}
    BY <1>1, <1>2, <1>3 DEF HandlersOK
  <2> QED BY <1>1, <1>3, <2>1, <2>2 DEF HandlerOK, Phase
<1>5. HandlersOK'
  BY <1>2, <1>3, <1>4, OthersKeep
<1>6. BasicOK' /\ EntitiesOK' /\ QuietOK'
  BY <1>1, <1>2, BasicsKept, NotQuiet
<1>7. DiskOK' /\ CommandsOK' /\ InstalledOK' /\ CacheOK'
  BY <1>1, <1>2 DEF TInv, DiskOK, CommandsOK, InstalledOK, CacheOK, readerVars
<1>8. ReaderOK'
  BY <1>1, <1>2, <1>3, ReaderKept DEF readerVars
<1> QED BY <1>5, <1>6, <1>7, <1>8 DEF TInv

LEMMA RunToolIs ==
  ASSUME TInv, NEW t \in Tool, RunTool(t)
  PROVE  /\ phase[t] = "installing" /\ todo[t] # {} /\ commands[t] # <<>>
         /\ UNCHANGED <<pc, testVars, disk, failures, phase, todo, readerVars, handled, reportVars, outcome>>
         /\ Head(commands[t]) \subseteq Pkg /\ Tail(commands[t]) \in Seq(SUBSET Pkg)
         /\ commands' = [commands EXCEPT ![t] = Tail(commands[t])]
         /\ \E ok \in BOOLEAN :
              /\ changes' = [changes EXCEPT ![t] =
                   @ \cup {[pkg |-> p, from |-> "old", success |-> ok] : p \in Head(commands[t]) \cap Standard}]
              /\ installed' = IF ok /\ ~options.dryRun THEN installed \cup ({Current(t)} \X Head(commands[t]))
                              ELSE installed
         /\ Current(t) \in DOMAIN entities
<1>1. t \in Handler /\ phase[t] = "installing" /\ commands[t] # <<>>
  BY ToolIs DEF RunTool
<1>2. todo[t] # {} /\ Current(t) \in DOMAIN entities
  BY <1>1, HandlerTyped
<1>3. Head(commands[t]) \in SUBSET Pkg /\ Tail(commands[t]) \in Seq(SUBSET Pkg)
  <2>1. commands[t] \in Seq(SUBSET Pkg)
    BY DEF TInv, CommandsOK
  <2> QED BY <1>1, <2>1, HeadTailProperties
<1>4. \E ok \in BOOLEAN :
        /\ changes' = [changes EXCEPT ![t] =
             @ \cup {[pkg |-> p, from |-> "old", success |-> ok] : p \in Head(commands[t]) \cap Standard}]
        /\ installed' = IF ok /\ ~options.dryRun THEN installed \cup ({Current(t)} \X Head(commands[t]))
                        ELSE installed
  BY Zenon DEF RunTool, Attempt
<1> QED BY <1>1, <1>2, <1>3, <1>4 DEF RunTool

LEMMA RunToolTInv == ASSUME TInv, NEW t \in Tool, RunTool(t) PROVE TInv'
<1>1. /\ phase[t] = "installing" /\ todo[t] # {}
      /\ UNCHANGED <<pc, testVars, disk, failures, phase, todo, readerVars, handled, reportVars, outcome>>
      /\ Head(commands[t]) \subseteq Pkg /\ Tail(commands[t]) \in Seq(SUBSET Pkg)
      /\ commands' = [commands EXCEPT ![t] = Tail(commands[t])] /\ Current(t) \in DOMAIN entities
  BY RunToolIs
<1>2. PICK ok \in BOOLEAN :
        /\ changes' = [changes EXCEPT ![t] =
             @ \cup {[pkg |-> p, from |-> "old", success |-> ok] : p \in Head(commands[t]) \cap Standard}]
        /\ installed' = IF ok /\ ~options.dryRun THEN installed \cup ({Current(t)} \X Head(commands[t]))
                        ELSE installed
  BY RunToolIs
<1>3. t \in Handler /\ t # PIP /\ entities' = entities
  BY <1>1, ToolIs DEF testVars
<1>4. Others(t) /\ HandlerOK(t) /\ HandlersOK
  BY <1>1, <1>2, <1>3 DEF TInv, HandlersOK, Others
<1>5. HandlerOK(t)'
  <2> DEFINE new == {[pkg |-> p, from |-> "old", success |-> ok] : p \in Head(commands[t]) \cap Standard}
  <2>1. new \subseteq Change
    <3>1. \A p \in Pkg : [pkg |-> p, from |-> "old", success |-> ok] \in Change
      BY <1>2 DEF Change, Version
    <3> QED BY <1>1, <3>1
  <2>2. Projects(t)' = Projects(t) /\ Handled' = Handled
    BY <1>3 DEF Projects, OfType, Vulnerable, Handled
  <2> HIDE DEF new
  <2>3. changes'[t] = changes[t] \cup new
    BY <1>2, <1>3, <1>4 DEF HandlersOK, new
  <2> QED BY <1>1, <1>4, <2>1, <2>2, <2>3 DEF HandlerOK
<1>6. HandlersOK'
  BY <1>3, <1>4, <1>5, OthersKeep
<1>7. BasicOK' /\ EntitiesOK' /\ QuietOK'
  BY <1>1, <1>3, BasicsKept, NotQuiet DEF Counted, reportVars
<1>8. DiskOK' /\ CommandsOK' /\ CacheOK'
  BY <1>1, <1>3 DEF TInv, DiskOK, CommandsOK, CacheOK, readerVars
<1>9. InstalledOK'
  BY <1>1, <1>2, <1>3 DEF TInv, InstalledOK
<1>10. ReaderOK'
  BY <1>1, <1>3, <1>4, ReaderKept DEF readerVars
<1> QED BY <1>6, <1>7, <1>8, <1>9, <1>10 DEF TInv

LEMMA FinishToolTInv == ASSUME TInv, NEW t \in Tool, FinishTool(t) PROVE TInv'
<1>1. /\ phase[t] = "installing"
      /\ UNCHANGED <<pc, testVars, disk, installed, failures, commands, readerVars, reportVars, outcome>>
      /\ EntityFails(t) \/ EntitySucceeds(t, Issues(changes[t]), Entity(t).file)
  BY DEF FinishTool
<1>2. t \in Handler /\ t # PIP /\ todo[t] # {} /\ entities' = entities /\ HandlersOK /\ EntitiesOK
  BY <1>1, ToolIs, HandlerTyped DEF testVars, TInv
<1>3. Issues(changes[t]) \in SUBSET Pkg /\ Entity(t).file \in Seq(STRING)
  BY <1>2, HandlerTyped, IssuesTyped DEF Item
<1>4. HandlersOK' /\ Others(t)
  <2>1. CASE EntityFails(t)
    BY <1>2, <2>1, HandledKept, FailsIs
  <2>2. CASE EntitySucceeds(t, Issues(changes[t]), Entity(t).file)
    BY <1>2, <1>3, <2>2, HandledKept, SucceedsIs
  <2> QED BY <1>1, <2>1, <2>2
<1>5. BasicOK' /\ EntitiesOK' /\ QuietOK'
  BY <1>1, <1>2, BasicsKept, NotQuiet DEF Counted, reportVars
<1>6. DiskOK' /\ CommandsOK' /\ InstalledOK' /\ CacheOK'
  BY <1>1, <1>2 DEF TInv, DiskOK, CommandsOK, InstalledOK, CacheOK, readerVars
<1>7. ReaderOK'
  BY <1>1, <1>2, <1>4, ReaderKept DEF readerVars
<1> QED BY <1>4, <1>5, <1>6, <1>7 DEF TInv

(***************************************************************************)
(* The same for the command and the plugins.                               *)
(***************************************************************************)
LEMMA QuietHandlers ==
  ASSUME HandlersOK, QuietOK, pc = "testing", UNCHANGED <<phase, todo, changes, handled>> PROVE HandlersOK'
<1>1. \A h \in Handler : phase[h] = "idle" /\ todo[h] = {} /\ changes[h] = {} /\ handled[h] = NothingHandled
  BY DEF QuietOK
<1>2. NothingHandled \in Handled'
  BY DEF NothingHandled, Handled
<1>3. \A h \in Handler : HandlerOK(h)'
  BY <1>1, <1>2 DEF HandlerOK, Phase
<1> QED BY <1>3 DEF HandlersOK

LEMMA TestPathTInv == ASSUME TInv, TestPath PROVE TInv'
<1>1. /\ pc = "testing" /\ at <= Paths /\ at' = at + 1
      /\ UNCHANGED <<pc, options, disk, installed, failures, phase, todo, changes, commands, readerVars, handled,
                     reportVars, outcome>>
  BY DEF TestPath
<1>2. at \in 1..Paths /\ at' \in 1..Paths + 1 /\ Paths \in Nat
  <2>1. Paths \in Nat /\ at \in 1..Paths + 1
    BY FixAssumption DEF FixAssumption, TInv, BasicOK
  <2> QED BY <1>1, <2>1
<1>3. BasicOK'
  <2>1. BasicOK /\ options' = options /\ failures' = failures /\ running' = running /\ python' = python
        /\ outcome' = outcome /\ pc' = pc
    BY <1>1 DEF TInv, reportVars
  <2> QED BY <1>2, <2>1, Zenon DEF BasicOK
<1>4. EntitiesOK'
  <2>1. EntitiesOK /\ \A i \in DOMAIN entities : entities[i].path < at'
    <3>1. \A i \in DOMAIN entities : entities[i].path \in 1..Paths /\ entities[i].path < at
      BY DEF TInv, EntitiesOK
    <3> QED BY <1>1, <1>2, <3>1 DEF TInv
  <2>2. CASE entities' = entities
    BY <2>1, <2>2 DEF EntitiesOK
  <2>3. ASSUME NEW found \in Scan(at, disk[at]),
               entities' = entities \o [i \in DOMAIN found |->
                 [path |-> at, type |-> found[i].type, file |-> found[i].file,
                  issues |-> found[i].issues, pins |-> found[i].pins]]
        PROVE  EntitiesOK'
    <3> DEFINE item(i) == [path |-> at, type |-> found[i].type, file |-> found[i].file,
                           issues |-> found[i].issues, pins |-> found[i].pins]
               new == [i \in DOMAIN found |-> item(i)]
    <3>1. found \in Seq(Project) /\ \A i \in DOMAIN found : WellFormed(found[i])
      <4>1. disk[at] \in Trees[at]
        BY <1>1, <1>2 DEF TInv, QuietOK
      <4> QED BY <1>2, <2>3, <4>1, FixAssumption DEF FixAssumption
    <3>2. DOMAIN found = 1..Len(found) /\ Len(found) \in Nat /\ \A i \in DOMAIN found : found[i] \in Project
      BY <3>1, LenProperties, ElementOfSeq
    <3>3. ASSUME NEW i \in DOMAIN found
          PROVE  item(i) \in Item /\ item(i).path = at /\ WellFormed(item(i))
      <4>1. found[i] \in Project /\ at \in Nat
        BY <1>2, <3>2
      <4>2. item(i) \in Item
        BY <4>1 DEF Project, Item
      <4>3. /\ item(i).path = at /\ item(i).type = found[i].type /\ item(i).file = found[i].file
            /\ item(i).issues = found[i].issues /\ item(i).pins = found[i].pins
        OBVIOUS
      <4> HIDE DEF item
      <4>4. WellFormed(item(i))
        BY <3>1, <4>3 DEF WellFormed
      <4> QED BY <4>2, <4>3, <4>4
    <3> HIDE DEF item
    <3>4. new \in Seq(Item) /\ DOMAIN new = DOMAIN found
      BY <3>2, <3>3
    <3>5. \A x \in ToSet(new) : x.path = at /\ WellFormed(x)
      BY <3>3 DEF ToSet
    <3>6. entities' = entities \o new
      BY <2>3 DEF item
    <3> HIDE DEF new
    <3>7. entities' \in Seq(Item) /\ ToSet(entities') = ToSet(entities) \cup ToSet(new)
      BY <2>1, <3>4, <3>6, ToSetConcat DEF EntitiesOK
    <3>8. \A x \in ToSet(entities) : x.path \in 1..Paths /\ x.path < at' /\ WellFormed(x)
      BY <2>1 DEF EntitiesOK, ToSet
    <3>9. at < at'
      BY <1>1, <1>2
    <3>10. \A x \in ToSet(entities') : x.path \in 1..Paths /\ x.path < at' /\ WellFormed(x)
      BY <1>2, <3>5, <3>7, <3>8, <3>9
    <3> QED BY <3>7, <3>10 DEF EntitiesOK, ToSet
  <2> QED BY <2>2, <2>3 DEF TestPath
<1>5. HandlersOK'
  BY <1>1, QuietHandlers DEF TInv
<1>6. DiskOK' /\ CommandsOK' /\ CacheOK' /\ QuietOK'
  BY <1>1 DEF TInv, DiskOK, CommandsOK, CacheOK, QuietOK, readerVars, reportVars
<1>7. InstalledOK' /\ ReaderOK'
  <2>1. installed' = {} /\ phase'[PIP] # "reading"
    BY <1>1 DEF TInv, QuietOK, PIP, Handler
  <2> QED BY <1>1, <2>1 DEF InstalledOK, ReaderOK, readerVars, TInv
<1> QED BY <1>3, <1>4, <1>5, <1>6, <1>7 DEF TInv

LEMMA StartFixTInv == ASSUME TInv, StartFix PROVE TInv'
<1>1. /\ pc = "testing" /\ pc' = "fixing"
      /\ UNCHANGED <<testVars, disk, installed, failures, changes, commands, readerVars, handled, python, outcome>>
      /\ running' = Types \cap Plugin
      /\ todo' = [h \in Handler |-> {i \in Projects(h) : Fixable(i)}]
      /\ phase' = [h \in Handler |-> IF Projects(h) = {} THEN "returned" ELSE "next"]
  BY DEF StartFix
<1>2. entities' = entities /\ at' = at /\ options' = options
  BY <1>1 DEF testVars
<1>3. BasicOK' /\ EntitiesOK' /\ QuietOK'
  <2>1. BasicOK'
    <3>1. BasicOK /\ running' \subseteq Plugin
      BY <1>1 DEF TInv
    <3> QED BY <1>1, <1>2, <3>1, Zenon DEF BasicOK
  <2>2. QuietOK'
    BY <1>1 DEF QuietOK
  <2> QED BY <1>2, <2>1, <2>2 DEF TInv, EntitiesOK
<1>4. HandlersOK'
  <2>1. ASSUME NEW h \in Handler PROVE HandlerOK(h)'
    <3>1. HandlerOK(h) /\ phase[h] = "idle" /\ changes[h] = {}
      BY <1>1 DEF TInv, HandlersOK, QuietOK
    <3>2. phase'[h] \in {"returned", "next"} /\ todo'[h] \subseteq Projects(h)
      BY <1>1
    <3>3. Projects(h)' = Projects(h) /\ Handled' = Handled
      BY <1>2 DEF Projects, OfType, Vulnerable, Handled
    <3> QED BY <1>1, <3>1, <3>2, <3>3 DEF HandlerOK, Phase
  <2> QED BY <1>1, <2>1 DEF TInv, HandlersOK
<1>5. DiskOK' /\ CommandsOK' /\ InstalledOK' /\ CacheOK'
  BY <1>1, <1>2 DEF TInv, DiskOK, CommandsOK, InstalledOK, CacheOK, readerVars
<1>6. ReaderOK'
  <2>1. phase'[PIP] # "reading"
    BY <1>1 DEF PIP, Handler
  <2> QED BY <1>1, <2>1 DEF TInv, ReaderOK, readerVars
<1> QED BY <1>3, <1>4, <1>5, <1>6 DEF TInv

LEMMA HandlerReturnsTInv == ASSUME TInv, NEW h \in Handler, HandlerReturns(h) PROVE TInv'
<1>1. /\ phase[h] = "next" /\ phase' = [phase EXCEPT ![h] = "returned"]
      /\ UNCHANGED <<pc, testVars, disk, installed, failures, todo, changes, commands, readerVars, handled, running,
                     python, exceptions, outcome>>
  BY DEF HandlerReturns
<1>2. changes[h] = {} /\ entities' = entities /\ HandlersOK
  BY <1>1 DEF TInv, HandlersOK, HandlerOK, testVars
<1>3. HandlersOK' /\ phase'[h] = "returned" /\ Others(h)
  BY <1>1, <1>2, HandlerMoves, MovedOn DEF Phase
<1>4. BasicOK' /\ EntitiesOK' /\ QuietOK'
  BY <1>1, BasicsKept, NotQuiet DEF Counted
<1>5. DiskOK' /\ CommandsOK' /\ InstalledOK' /\ CacheOK'
  BY <1>1, <1>2 DEF TInv, DiskOK, CommandsOK, InstalledOK, CacheOK, readerVars
<1>6. ReaderOK'
  <2>1. CASE h = PIP
    BY <1>1, <1>3, <2>1 DEF TInv, ReaderOK, readerVars
  <2>2. CASE h # PIP
    BY <1>1, <1>3, <2>2, ReaderKept DEF readerVars
  <2> QED BY <2>1, <2>2
<1> QED BY <1>3, <1>4, <1>5, <1>6 DEF TInv

(* Nothing of the handlers and files changes when a plugin returns, when   *)
(* the command ends, or in no step at all.                                 *)
FilesStay == UNCHANGED <<testVars, disk, installed, failures, phase, todo, changes, commands, readerVars, handled>>

LEMMA FilesStayTInv == ASSUME TInv, FilesStay, BasicOK', pc' = pc \/ pc' # "testing", QuietOK' PROVE TInv'
<1>1. HandlersOK' /\ entities' = entities /\ at' = at
  BY HandlersSame DEF TInv, FilesStay, testVars
<1>2. EntitiesOK' /\ DiskOK' /\ CommandsOK' /\ InstalledOK' /\ CacheOK'
  BY <1>1 DEF FilesStay, TInv, EntitiesOK, DiskOK, CommandsOK, InstalledOK, CacheOK, readerVars
<1>3. ReaderOK'
  <2>1. Root' = Root
    BY <1>1, SamePlaces DEF FilesStay
  <2> QED BY <2>1 DEF FilesStay, TInv, ReaderOK, KeptWell, Key, readerVars
<1> QED BY <1>1, <1>2, <1>3 DEF TInv

LEMMA PluginReturnsTInv == ASSUME TInv, NEW p \in Plugin, PluginReturns(p) PROVE TInv'
<1>1. FilesStay /\ pc' = pc /\ outcome' = outcome /\ running' = running \ {p} /\ python' = p /\ p \in running
  BY DEF PluginReturns, FilesStay
<1>2. BasicOK'
  <2>1. BasicOK /\ at' = at /\ options' = options /\ failures' = failures
    BY <1>1 DEF TInv, FilesStay, testVars
  <2>2. running' \subseteq Plugin /\ python' \in Plugin \cup {None}
    BY <1>1, <2>1 DEF BasicOK
  <2> QED BY <1>1, <2>1, <2>2, Zenon DEF BasicOK
<1>3. QuietOK'
  BY <1>1 DEF TInv, QuietOK
<1> QED BY <1>1, <1>2, <1>3, FilesStayTInv

LEMMA ConcludeTInv == ASSUME TInv, Conclude PROVE TInv'
<1>1. FilesStay /\ pc' = "done" /\ outcome' \in {"ok", "error"} /\ UNCHANGED reportVars
  BY DEF Conclude, FilesStay
<1>2. BasicOK'
  <2>1. BasicOK /\ at' = at /\ options' = options /\ failures' = failures /\ running' = running /\ python' = python
    BY <1>1 DEF TInv, FilesStay, testVars, reportVars
  <2>2. pc' \in {"testing", "fixing", "done"} /\ outcome' \in {None, "ok", "error"}
    BY <1>1
  <2> QED BY <2>1, <2>2, Zenon DEF BasicOK
<1>3. QuietOK'
  BY <1>1 DEF QuietOK
<1> QED BY <1>1, <1>2, <1>3, FilesStayTInv

LEMMA StutterTInv == ASSUME TInv, UNCHANGED vars PROVE TInv'
<1>1. FilesStay /\ UNCHANGED <<pc, reportVars, outcome>>
  BY DEF vars, FilesStay
<1>2. BasicOK'
  <2>1. BasicOK /\ at' = at /\ options' = options /\ failures' = failures /\ running' = running /\ python' = python
    BY <1>1 DEF TInv, FilesStay, testVars, reportVars
  <2> QED BY <1>1, <2>1, Zenon DEF BasicOK
<1>3. QuietOK'
  BY <1>1 DEF TInv, QuietOK, FilesStay, reportVars, readerVars
<1> QED BY <1>1, <1>2, <1>3, FilesStayTInv

LEMMA StepTInv == ASSUME TInv, [Next]_vars PROVE TInv'
<1>1. CASE PipStep
  BY <1>1, TakeFixedTInv, StartFileTInv, VisitFileTInv, UpgradeFileTInv, PinRestTInv, FileFailsTInv DEF PipStep
<1>2. CASE ToolStep
  BY <1>2, StartPipfileTInv, StartPoetryTInv, PoetryThrowsTInv, RunToolTInv, FinishToolTInv DEF ToolStep
<1>3. CASE TestPath \/ StartFix \/ Conclude
  BY <1>3, TestPathTInv, StartFixTInv, ConcludeTInv
<1>4. CASE (\E h \in Handler : HandlerReturns(h)) \/ (\E p \in Plugin : PluginReturns(p))
  BY <1>4, HandlerReturnsTInv, PluginReturnsTInv
<1>5. CASE UNCHANGED vars
  BY <1>5, StutterTInv
<1> QED BY <1>1, <1>2, <1>3, <1>4, <1>5 DEF Next, Step

LEMMA AlwaysTInv == Spec => []TInv
<1>1. Init => TInv
  BY InitTInv
<1>2. TInv /\ [Next]_vars => TInv'
  BY StepTInv
<1> QED BY <1>1, <1>2, PTL DEF Spec

PhaseIsFunction == phase = [h \in DOMAIN phase |-> phase[h]]

LEMMA AlwaysPhase == Spec => []PhaseIsFunction
<1>1. Init => PhaseIsFunction
  BY DEF Init, PhaseIsFunction
<1>2. PhaseIsFunction /\ [Next]_vars => PhaseIsFunction'
  <2> SUFFICES ASSUME PhaseIsFunction, [Next]_vars PROVE PhaseIsFunction'
    OBVIOUS
  <2>1. ASSUME NEW h, NEW s, phase' = [phase EXCEPT ![h] = s] PROVE PhaseIsFunction'
    BY <2>1 DEF PhaseIsFunction
  <2>2. CASE PipStep
    <3>1. ASSUME EntityDone(PIP) PROVE PhaseIsFunction'
      BY <2>1, <3>1 DEF EntityDone
    <3>2. ASSUME phase' = phase PROVE PhaseIsFunction'
      BY <3>2 DEF PhaseIsFunction
    <3>3. TakeFixed \/ PinRest \/ FileFails => EntityDone(PIP)
      BY Zenon DEF TakeFixed, PinRest, FileFails, Finish, EntitySucceeds, EntityFails
    <3>4. VisitFile \/ UpgradeFile => phase' = phase
      BY Zenon DEF VisitFile, UpgradeFile
    <3>5. StartFile => PhaseIsFunction'
      BY <2>1 DEF StartFile
    <3> QED BY <2>2, <3>1, <3>2, <3>3, <3>4, <3>5 DEF PipStep
  <2>3. CASE ToolStep
    <3>1. CASE StartPipfile \/ StartPoetry \/ PoetryThrows
      BY <2>1, <3>1 DEF StartPipfile, StartPoetry, PoetryThrows
    <3>2. ASSUME NEW t \in Tool, RunTool(t) PROVE PhaseIsFunction'
      BY <3>2 DEF RunTool, PhaseIsFunction
    <3>3. ASSUME NEW t \in Tool, FinishTool(t) PROVE PhaseIsFunction'
      <4>1. EntityDone(t)
        BY <3>3, Zenon DEF FinishTool, EntitySucceeds, EntityFails
      <4> QED BY <2>1, <4>1 DEF EntityDone
    <3> QED BY <2>3, <3>1, <3>2, <3>3 DEF ToolStep
  <2>4. CASE TestPath \/ StartFix \/ Conclude
    BY <2>4 DEF TestPath, StartFix, Conclude, PhaseIsFunction
  <2>5. CASE (\E h \in Handler : HandlerReturns(h)) \/ (\E p \in Plugin : PluginReturns(p))
    BY <2>1, <2>5 DEF HandlerReturns, PluginReturns, PhaseIsFunction
  <2>6. CASE UNCHANGED vars
    BY <2>6 DEF vars, PhaseIsFunction
  <2> QED BY <2>2, <2>3, <2>4, <2>5, <2>6 DEF Next, Step
<1> QED BY <1>1, <1>2, PTL DEF Spec

(* Every variable of `snyk fix` keeps its type, an entity being worked on  *)
(* is one of its handler's, and no change is carried over from one entity  *)
(* to the next.                                                            *)
THEOREM FixTypes == Spec => []TypeOK
<1>1. TInv /\ PhaseIsFunction => TypeOK
  <2> SUFFICES ASSUME TInv, PhaseIsFunction PROVE TypeOK
    OBVIOUS
  <2>1. Keys \subseteq Seq(STRING)
    <3>1. \A i \in DOMAIN provenance : provenance[i] \in Entry
      BY LenProperties, ElementOfSeq DEF TInv, ReaderOK
    <3> QED BY <3>1 DEF Keys, Entry
  <2>2. \A p \in 1..Paths : \A f \in File : disk[p][f].lines \subseteq Line
    BY DEF TInv, DiskOK, Text
  <2>3. \A i \in DOMAIN entities : entities[i].path < at /\ entities[i].pins \subseteq entities[i].issues
    BY DEF TInv, EntitiesOK, WellFormed
  <2>4. phase \in [Handler -> {"idle", "next", "reading", "installing", "returned", "threw"}]
    <3>1. DOMAIN phase = Handler /\ \A h \in Handler : phase[h] \in Phase
      BY HandlerTyped DEF TInv, HandlersOK
    <3>2. phase = [h \in Handler |-> phase[h]]
      BY <3>1, Zenon DEF PhaseIsFunction
    <3> QED BY <3>1, <3>2 DEF Phase
  <2>5. \A h \in Handler :
          /\ todo[h] \subseteq Projects(h) /\ changes[h] \subseteq Change
          /\ handled[h] \in Handled
          /\ phase[h] \in {"reading", "installing"} => todo[h] # {}
          /\ changes[h] # {} => phase[h] \in {"reading", "installing"}
    BY DEF TInv, HandlersOK, HandlerOK
  <2>6. BasicOK /\ installed \subseteq (DOMAIN entities) \X Pkg /\ turn \in 1..Len(provenance) + 1
    BY DEF TInv, InstalledOK, ReaderOK
  <2> QED BY <2>1, <2>2, <2>3, <2>4, <2>5, <2>6, Zenon DEF TypeOK, BasicOK
<1> QED BY <1>1, AlwaysTInv, AlwaysPhase, PTL

-----------------------------------------------------------------------------
(***************************************************************************)
(* What the handlers have answered, and what was collected from them.      *)
(***************************************************************************)
Handlers(p) == {h \in Handler : PluginOf(h) = p}
Over        == {"returned", "threw"}
Answered(h) == handled[h].failed \cup {s.entity : s \in handled[h].succeeded}

Accounts(h) ==
  /\ phase[h] # "idle"
  /\ phase[h] # "threw" => todo[h] \cup Answered(h) = {i \in Projects(h) : Fixable(i)}
  /\ Answered(h) \cap todo[h] = {}
  /\ \A s \in handled[h].succeeded : s.entity \notin handled[h].failed
  /\ phase[h] \in Over => todo[h] = {}
  /\ phase[h] = "threw" => h = "poetry"
FailedIn(p, i) ==
  \E h \in Handlers(p) : \/ phase[h] = "returned" /\ i \in handled[h].failed
                         \/ phase[h] = "threw" /\ i \in Projects(h)
Collected(p) ==
  /\ results[p].skipped = NotHandled(p)
  /\ results[p].failed = {i \in DOMAIN entities : FailedIn(p, i)}
  /\ results[p].succeeded = UNION {handled[h].succeeded : h \in {g \in Handlers(p) : phase[g] = "returned"}}
Report == [skipped : SUBSET (DOMAIN entities), failed : SUBSET (DOMAIN entities),
           succeeded : SUBSET [entity : DOMAIN entities, fixed : SUBSET Pkg, through : Seq(STRING)]]
Ends == entities = <<>> \/ (NotFixed /\ Shown.succeeded = {} /\ Types # {})

RInv ==
  pc # "testing" =>
    /\ results \in [Plugin -> Report]
    /\ \A h \in Handler : Accounts(h)
    /\ \A p \in Plugin : Collected(p)
    /\ exceptions = Types \ Plugin
    /\ running \subseteq Types \cap Plugin
    /\ \A p \in Plugin \ running : \A h \in Handlers(p) : phase[h] \in Over
    /\ python = None => running = Types \cap Plugin
    /\ python # None => python \in (Types \cap Plugin) \ running
    /\ pc = "done" => running = {} /\ outcome = (IF Ends THEN "error" ELSE "ok")

LEMMA SameProjects ==
  ASSUME UNCHANGED entities
  PROVE  /\ \A h : Projects(h)' = Projects(h)
         /\ \A p : NotHandled(p)' = NotHandled(p)
         /\ \A i : Fixable(i)' = Fixable(i) /\ Vulnerable(i)' = Vulnerable(i)
         /\ Types' = Types /\ Handled' = Handled /\ Report' = Report
BY DEF Projects, NotHandled, OfType, Vulnerable, Fixable, Types, Handled, Report

LEMMA AccountsKept ==
  ASSUME NEW h, Accounts(h), UNCHANGED entities, phase'[h] = phase[h], todo'[h] = todo[h], handled'[h] = handled[h]
  PROVE  Accounts(h)'
<1>1. Projects(h)' = Projects(h) /\ \A i : Fixable(i)' = Fixable(i)
  BY SameProjects
<1>2. Answered(h)' = Answered(h)
  BY DEF Answered
<1> QED BY <1>1, <1>2 DEF Accounts

(* A step of a handler that has not answered yet, and does not answer now. *)
LEMMA WorkingStep ==
  ASSUME TInv, RInv, NEW h \in Handler, Others(h), phase[h] \notin Over \cup {"idle"}, phase'[h] \notin Over,
         Accounts(h)', UNCHANGED <<pc, testVars, reportVars, outcome>>
  PROVE  RInv'
<1>1. pc # "testing" /\ pc' = pc
  BY DEF TInv, QuietOK
<1>2. entities' = entities /\ results' = results /\ running' = running /\ python' = python /\ exceptions' = exceptions
  BY DEF testVars, reportVars
<1>3. Types' = Types /\ Report' = Report /\ \A p : NotHandled(p)' = NotHandled(p)
  BY <1>2, SameProjects
<1>4. \A g \in Handler : Projects(g)' = Projects(g)
  BY <1>2, SameProjects
<1>5. ASSUME NEW g \in Handler PROVE Accounts(g)'
  <2>1. CASE g = h
    BY <2>1
  <2>2. CASE g # h
    BY <1>1, <1>2, <2>2, AccountsKept DEF RInv, Others
  <2> QED BY <2>1, <2>2
<1>6. \A g \in Handler : /\ phase'[g] = "returned" <=> phase[g] = "returned"
                         /\ phase'[g] = "threw" <=> phase[g] = "threw"
                         /\ phase[g] = "returned" => handled'[g] = handled[g]
  BY DEF Others, Over
<1>7. ASSUME NEW p \in Plugin PROVE Collected(p)'
  <2>1. Collected(p)
    BY <1>1 DEF RInv
  <2>2. Handlers(p) \subseteq Handler
    BY DEF Handlers
  <2>3. \A i : FailedIn(p, i)' <=> FailedIn(p, i)
    BY <1>4, <1>6, <2>2 DEF FailedIn, Handlers
  <2>4. (UNION {handled[g].succeeded : g \in {k \in Handlers(p) : phase[k] = "returned"}})'
        = UNION {handled[g].succeeded : g \in {k \in Handlers(p) : phase[k] = "returned"}}
    BY <1>6, <2>2 DEF Handlers
  <2> QED BY <1>2, <1>3, <2>1, <2>3, <2>4 DEF Collected
<1>8. \A p \in Plugin \ running' : \A g \in Handlers(p) : phase'[g] \in Over
  BY <1>1, <1>2, <1>6 DEF RInv, Handlers, Over
<1>9. pc # "done"
  <2>1. PluginOf(h) \in running
    BY <1>1 DEF RInv, Handlers, Plugin, PluginOf
  <2> QED BY <1>1, <2>1 DEF RInv
<1>10. results' \in [Plugin -> Report']
  BY <1>1, <1>2, <1>3 DEF RInv
<1> QED BY <1>1, <1>2, <1>3, <1>5, <1>7, <1>8, <1>9, <1>10 DEF RInv

LEMMA MovingAccounts ==
  ASSUME RInv, pc # "testing", NEW h \in Handler, UNCHANGED entities, todo'[h] = todo[h], handled'[h] = handled[h],
         phase[h] \notin Over \cup {"idle"}, phase'[h] \notin Over \cup {"idle"}
  PROVE  Accounts(h)'
<1>1. Projects(h)' = Projects(h) /\ \A i : Fixable(i)' = Fixable(i)
  BY SameProjects
<1>2. Answered(h)' = Answered(h)
  BY DEF Answered
<1> QED BY <1>1, <1>2 DEF RInv, Accounts, Over

LEMMA AnsweringAccounts ==
  ASSUME TInv, RInv, pc # "testing", NEW h \in Handler, UNCHANGED entities, todo[h] # {}, phase[h] \notin Over \cup {"idle"},
         EntityFails(h) \/ \E issues, through : EntitySucceeds(h, issues, through)
  PROVE  Accounts(h)' /\ Others(h) /\ phase'[h] = "next"
<1>1. HandlersOK /\ Current(h) \in todo[h]
  BY HandlerTyped DEF TInv
<1>2. Projects(h)' = Projects(h) /\ \A i : Fixable(i)' = Fixable(i)
  BY SameProjects
<1>3. Accounts(h)
  BY DEF RInv
<1>4. Others(h) /\ phase'[h] = "next" /\ todo'[h] = todo[h] \ {Current(h)}
  BY <1>1, FailsIs, SucceedsIs
<1>5. /\ Answered(h)' = Answered(h) \cup {Current(h)}
      /\ \A s \in handled'[h].succeeded : s.entity \notin handled'[h].failed
  <2>1. CASE EntityFails(h)
    <3>1. handled'[h].failed = handled[h].failed \cup {Current(h)} /\ handled'[h].succeeded = handled[h].succeeded
      BY <1>1, <2>1, FailsIs
    <3>2. \A s \in handled[h].succeeded : s.entity # Current(h)
      BY <1>1, <1>3 DEF Accounts, Answered
    <3> QED BY <1>3, <3>1, <3>2 DEF Answered, Accounts
  <2>2. ASSUME NEW issues, NEW through, EntitySucceeds(h, issues, through)
        PROVE  /\ Answered(h)' = Answered(h) \cup {Current(h)}
               /\ \A s \in handled'[h].succeeded : s.entity \notin handled'[h].failed
    <3> DEFINE new == Success(Current(h), issues, through)
    <3>1. new.entity = Current(h)
      BY DEF Success
    <3>2. handled'[h].failed = handled[h].failed /\ handled'[h].succeeded = handled[h].succeeded \cup {new}
      BY <1>1, <2>2, SucceedsIs
    <3>3. Current(h) \notin handled[h].failed
      BY <1>1, <1>3 DEF Accounts, Answered
    <3> HIDE DEF new
    <3> QED BY <1>3, <3>1, <3>2, <3>3 DEF Answered, Accounts
  <2> QED BY <2>1, <2>2
<1>6. Accounts(h)'
  BY <1>1, <1>2, <1>3, <1>4, <1>5 DEF Accounts, Over
<1> QED BY <1>4, <1>6

LEMMA InitRInv == Init => RInv
BY DEF Init, RInv

(* A handler that is done with an entity.                                  *)
LEMMA AnsweringRInv ==
  ASSUME TInv, RInv, NEW h \in Handler, phase[h] \in {"next", "reading", "installing"}, todo[h] # {},
         EntityFails(h) \/ \E issues, through : EntitySucceeds(h, issues, through),
         UNCHANGED <<pc, testVars, reportVars, outcome>>
  PROVE  RInv'
<1>1. pc # "testing" /\ entities' = entities /\ phase[h] \notin Over \cup {"idle"}
  BY DEF TInv, QuietOK, testVars, Over
<1>2. Accounts(h)' /\ Others(h) /\ phase'[h] = "next"
  BY <1>1, AnsweringAccounts
<1> QED BY <1>1, <1>2, WorkingStep DEF Over

(* A handler that goes on with one.                                        *)
LEMMA MovingRInv ==
  ASSUME TInv, RInv, NEW h \in Handler, phase[h] \in {"next", "reading", "installing"},
         Others(h), todo'[h] = todo[h], handled'[h] = handled[h], phase'[h] \in {"reading", "installing"},
         UNCHANGED <<pc, testVars, reportVars, outcome>>
  PROVE  RInv'
<1>1. pc # "testing" /\ entities' = entities /\ phase[h] \notin Over \cup {"idle"} /\ phase'[h] \notin Over \cup {"idle"}
  BY DEF TInv, QuietOK, testVars, Over
<1>2. Accounts(h)'
  BY <1>1, MovingAccounts
<1> QED BY <1>1, <1>2, WorkingStep

LEMMA PipStepRInv == ASSUME TInv, RInv, PipStep PROVE RInv'
<1>1. PIP \in Handler /\ HandlersOK
  BY DEF PIP, Handler, TInv
<1>2. CASE TakeFixed
  <2>1. phase[PIP] = "next" /\ todo[PIP] # {} /\ \E issues, through : EntitySucceeds(PIP, issues, through)
    BY <1>2 DEF TakeFixed, NextIs
  <2> QED BY <1>1, <1>2, <2>1, AnsweringRInv DEF TakeFixed
<1>3. CASE StartFile
  <2>1. phase[PIP] = "next" /\ phase' = [phase EXCEPT ![PIP] = "reading"] /\ UNCHANGED <<entities, todo, changes, handled>>
    BY <1>3 DEF StartFile, NextIs, testVars
  <2>2. Others(PIP) /\ phase'[PIP] = "reading" /\ todo'[PIP] = todo[PIP] /\ handled'[PIP] = handled[PIP]
    BY <1>1, <2>1, MovedOn
  <2> QED BY <1>1, <1>3, <2>1, <2>2, MovingRInv DEF StartFile
<1>4. CASE VisitFile \/ UpgradeFile
  <2>1. /\ phase[PIP] = "reading" /\ UNCHANGED <<pc, testVars, reportVars, outcome, phase, todo, handled>>
        /\ changes' = changes \/ \E new : changes' = [changes EXCEPT ![PIP] = @ \cup new]
    BY <1>4, Zenon DEF VisitFile, UpgradeFile
  <2>2. Others(PIP)
    BY <1>1, <2>1 DEF HandlersOK, Others, testVars
  <2> QED BY <1>1, <2>1, <2>2, MovingRInv
<1>5. CASE PinRest \/ FileFails
  <2>1. /\ phase[PIP] = "reading" /\ UNCHANGED <<pc, testVars, reportVars, outcome>>
        /\ EntityFails(PIP) \/ \E issues, through : EntitySucceeds(PIP, issues, through)
    BY <1>5, Zenon DEF PinRest, FileFails, Finish
  <2>2. todo[PIP] # {}
    BY <1>1, <2>1, HandlerTyped
  <2> QED BY <1>1, <2>1, <2>2, AnsweringRInv
<1> QED BY <1>2, <1>3, <1>4, <1>5 DEF PipStep

LEMMA ToolWorkRInv ==
  ASSUME TInv, RInv, StartPipfile \/ StartPoetry \/ \E t \in Tool : RunTool(t) \/ FinishTool(t) PROVE RInv'
<1>1. HandlersOK
  BY DEF TInv
<1>2. CASE StartPipfile \/ StartPoetry
  <2>1. PICK t \in Tool : /\ phase[t] = "next" /\ phase' = [phase EXCEPT ![t] = "installing"]
                          /\ UNCHANGED <<pc, testVars, reportVars, outcome, todo, changes, handled>>
    BY <1>2, Zenon DEF StartPipfile, StartPoetry, Tool
  <2>2. t \in Handler /\ entities' = entities
    BY <2>1, ToolIs DEF testVars
  <2>3. Others(t) /\ phase'[t] = "installing" /\ todo'[t] = todo[t] /\ handled'[t] = handled[t]
    BY <1>1, <2>1, <2>2, MovedOn
  <2> QED BY <2>1, <2>2, <2>3, MovingRInv
<1>3. ASSUME NEW t \in Tool, RunTool(t) PROVE RInv'
  <2>1. t \in Handler
    BY ToolIs
  <2>2. /\ phase[t] = "installing" /\ UNCHANGED <<pc, testVars, reportVars, outcome, phase, todo, handled>>
        /\ \E new : changes' = [changes EXCEPT ![t] = @ \cup new]
    BY <1>3, Zenon DEF RunTool, Attempt
  <2>3. Others(t)
    BY <1>1, <2>1, <2>2 DEF HandlersOK, Others, testVars
  <2> QED BY <2>1, <2>2, <2>3, MovingRInv
<1>4. ASSUME NEW t \in Tool, FinishTool(t) PROVE RInv'
  <2>1. /\ phase[t] = "installing" /\ UNCHANGED <<pc, testVars, reportVars, outcome>>
        /\ EntityFails(t) \/ \E issues, through : EntitySucceeds(t, issues, through)
    BY <1>4, Zenon DEF FinishTool
  <2>2. t \in Handler /\ todo[t] # {}
    BY <2>1, ToolIs, HandlerTyped
  <2> QED BY <2>1, <2>2, AnsweringRInv
<1> QED BY <1>2, <1>3, <1>4

(* A plugin that still has a handler at work has not returned.             *)
LEMMA AtWork ==
  ASSUME RInv, pc # "testing", NEW h \in Handler, phase[h] \notin Over PROVE PluginOf(h) \in running /\ pc # "done"
<1>1. PluginOf(h) \in running
  BY DEF RInv, Handlers, Plugin, PluginOf
<1> QED BY <1>1 DEF RInv

LEMMA PoetryThrowsRInv == ASSUME TInv, RInv, PoetryThrows PROVE RInv'
<1>1. /\ phase["poetry"] = "next" /\ "poetry" \in Handler /\ HandlersOK /\ pc # "testing"
      /\ phase' = [phase EXCEPT !["poetry"] = "threw"] /\ todo' = [todo EXCEPT !["poetry"] = {}]
      /\ results' = [results EXCEPT !["poetry"].failed = @ \cup Projects("poetry")]
      /\ UNCHANGED <<pc, testVars, handled, running, python, exceptions, outcome>>
  BY DEF PoetryThrows, Handler, TInv, QuietOK
<1>2. /\ entities' = entities /\ DOMAIN phase = Handler /\ DOMAIN todo = Handler
      /\ results \in [Plugin -> Report] /\ Projects("poetry") \subseteq DOMAIN entities
  BY <1>1 DEF testVars, HandlersOK, RInv, Projects, OfType
<1>3. /\ phase'["poetry"] = "threw" /\ todo'["poetry"] = {} /\ "poetry" \in Plugin
      /\ \A g \in Handler \ {"poetry"} : phase'[g] = phase[g] /\ todo'[g] = todo[g]
  BY <1>1, <1>2 DEF Plugin
<1>4. Types' = Types /\ Report' = Report /\ (\A p : NotHandled(p)' = NotHandled(p)) /\ \A g : Projects(g)' = Projects(g)
  BY <1>2, SameProjects
<1>5. ASSUME NEW g \in Handler PROVE Accounts(g)'
  <2>1. CASE g = "poetry"
    <3>1. Answered(g)' = Answered(g) /\ Accounts(g)
      BY <1>1 DEF Answered, RInv
    <3> QED BY <1>1, <1>3, <2>1, <3>1 DEF Accounts, Over
  <2>2. CASE g # "poetry"
    BY <1>1, <1>2, <1>3, <2>2, AccountsKept DEF RInv
  <2> QED BY <2>1, <2>2
<1>6. /\ results' \in [Plugin -> Report] /\ results'["pip"] = results["pip"]
      /\ results'["poetry"].skipped = results["poetry"].skipped
      /\ results'["poetry"].succeeded = results["poetry"].succeeded
      /\ results'["poetry"].failed = results["poetry"].failed \cup Projects("poetry")
  BY <1>1, <1>2, <1>3 DEF Report, Plugin
<1>7. Handlers("poetry") = {"poetry"} /\ "poetry" \notin Handlers("pip") /\ Handlers("pip") \subseteq Handler
  BY DEF Handlers, Handler, PluginOf
<1>8. Collected("poetry")'
  <2>1. Collected("poetry")
    BY <1>1 DEF RInv, Plugin
  <2>2. results["poetry"].failed = {} /\ results["poetry"].succeeded = {}
    BY <1>1, <1>7, <2>1 DEF Collected, FailedIn
  <2>3. \A i : FailedIn("poetry", i)' <=> i \in Projects("poetry")
    BY <1>3, <1>4, <1>7 DEF FailedIn, Handlers
  <2>4. {h \in Handlers("poetry") : phase'[h] = "returned"} = {}
    BY <1>3, <1>7
  <2>5. results'["poetry"].failed = {i \in DOMAIN entities' : FailedIn("poetry", i)'}
    BY <1>2, <1>6, <2>2, <2>3
  <2>6. results'["poetry"].succeeded = {}
    BY <1>6, <2>2
  <2>7. Handlers("poetry")' = Handlers("poetry")
    BY DEF Handlers
  <2> QED BY <1>4, <1>6, <2>1, <2>4, <2>5, <2>6, <2>7 DEF Collected
<1>9. Collected("pip")'
  <2>1. Collected("pip")
    BY <1>1 DEF RInv, Plugin
  <2>2. \A h \in Handlers("pip") : phase'[h] = phase[h] /\ handled'[h] = handled[h]
    BY <1>1, <1>3, <1>7
  <2>3. \A i : FailedIn("pip", i)' <=> FailedIn("pip", i)
    BY <1>4, <2>2 DEF FailedIn, Handlers
  <2>4. (UNION {handled[g].succeeded : g \in {k \in Handlers("pip") : phase[k] = "returned"}})'
        = UNION {handled[g].succeeded : g \in {k \in Handlers("pip") : phase[k] = "returned"}}
    BY <2>2 DEF Handlers
  <2> QED BY <1>2, <1>4, <1>6, <2>1, <2>3, <2>4 DEF Collected
<1>10. \A p \in Plugin : Collected(p)'
  BY <1>8, <1>9 DEF Plugin
<1>11. \A p \in Plugin \ running' : \A h \in Handlers(p) : phase'[h] \in Over
  BY <1>1, <1>3 DEF RInv, Handlers, Over
<1>12. pc # "done"
  BY <1>1, AtWork DEF Over
<1> QED BY <1>1, <1>4, <1>5, <1>6, <1>10, <1>11, <1>12 DEF RInv

LEMMA HandlerReturnsRInv == ASSUME TInv, RInv, NEW h \in Handler, HandlerReturns(h) PROVE RInv'
<1> DEFINE q == PluginOf(h)
<1>1. /\ phase[h] = "next" /\ todo[h] = {} /\ HandlersOK /\ pc # "testing"
      /\ phase' = [phase EXCEPT ![h] = "returned"]
      /\ UNCHANGED <<pc, testVars, todo, changes, handled, running, python, exceptions, outcome>>
  BY DEF HandlerReturns, TInv, QuietOK
<1>2. results' = [results EXCEPT ![q].failed = @ \cup handled[h].failed,
                                 ![q].succeeded = @ \cup handled[h].succeeded]
  BY DEF HandlerReturns
<1>3. entities' = entities /\ handled[h] \in Handled /\ Others(h) /\ phase'[h] = "returned" /\ q \in Plugin
  BY <1>1, MovedOn DEF testVars, HandlersOK, HandlerOK, Plugin, PluginOf
<1>4. Types' = Types /\ Report' = Report /\ (\A p : NotHandled(p)' = NotHandled(p)) /\ \A g : Projects(g)' = Projects(g)
  BY <1>3, SameProjects
<1>5. ASSUME NEW g \in Handler PROVE Accounts(g)'
  <2>1. CASE g = h
    <3>1. Answered(g)' = Answered(g) /\ Accounts(g) /\ \A i : Fixable(i)' = Fixable(i)
      BY <1>1, <1>3 DEF Answered, RInv, Fixable
    <3> QED BY <1>1, <1>3, <1>4, <2>1, <3>1 DEF Accounts, Over
  <2>2. CASE g # h
    BY <1>1, <1>3, <2>2, AccountsKept DEF RInv, Others
  <2> QED BY <2>1, <2>2
<1>6. /\ results' \in [Plugin -> Report] /\ \A p \in Plugin \ {q} : results'[p] = results[p]
      /\ results'[q].skipped = results[q].skipped
      /\ results'[q].succeeded = results[q].succeeded \cup handled[h].succeeded
      /\ results'[q].failed = results[q].failed \cup handled[h].failed
  <2>1. results \in [Plugin -> Report] /\ handled[h].failed \subseteq DOMAIN entities
        /\ handled[h].succeeded \subseteq [entity : DOMAIN entities, fixed : SUBSET Pkg, through : Seq(STRING)]
    BY <1>1, <1>3 DEF RInv, Handled
  <2> DEFINE one == [results[q] EXCEPT !.failed = @ \cup handled[h].failed]
             two == [one EXCEPT !.succeeded = @ \cup handled[h].succeeded]
  <2>2. /\ two \in Report /\ two.skipped = results[q].skipped
        /\ two.succeeded = results[q].succeeded \cup handled[h].succeeded
        /\ two.failed = results[q].failed \cup handled[h].failed
    BY <1>3, <2>1 DEF Report
  <2>3. results' = [results EXCEPT ![q] = two]
    BY <1>2, <1>3, <2>1
  <2> HIDE DEF one, two
  <2> QED BY <1>3, <2>1, <2>2, <2>3
<1>7. ASSUME NEW p \in Plugin, p # q PROVE Collected(p)'
  <2>1. Collected(p)
    BY <1>1 DEF RInv
  <2>2. \A g \in Handlers(p) : phase'[g] = phase[g] /\ handled'[g] = handled[g]
    BY <1>1, <1>3, <1>7 DEF Handlers, Others
  <2>3. \A i : FailedIn(p, i)' <=> FailedIn(p, i)
    BY <1>4, <2>2 DEF FailedIn, Handlers
  <2>4. (UNION {handled[g].succeeded : g \in {k \in Handlers(p) : phase[k] = "returned"}})'
        = UNION {handled[g].succeeded : g \in {k \in Handlers(p) : phase[k] = "returned"}}
    BY <2>2 DEF Handlers
  <2> QED BY <1>3, <1>4, <1>6, <1>7, <2>1, <2>3, <2>4 DEF Collected
<1>8. Collected(q)'
  <2>1. Collected(q) /\ h \in Handlers(q)
    BY <1>1, <1>3 DEF RInv, Handlers
  <2>2. \A g \in Handlers(q) : g # h => phase'[g] = phase[g]
    BY <1>3 DEF Handlers, Others
  <2>3. \A i : FailedIn(q, i)' <=> FailedIn(q, i) \/ i \in handled[h].failed
    BY <1>1, <1>3, <1>4, <2>1, <2>2 DEF FailedIn, Handlers
  <2>4. results'[q].failed = {i \in DOMAIN entities' : FailedIn(q, i)'}
    BY <1>3, <1>6, <2>1, <2>3 DEF Collected, Handled
  <2>5. {k \in Handlers(q) : phase'[k] = "returned"} = {k \in Handlers(q) : phase[k] = "returned"} \cup {h}
    BY <1>1, <1>3, <2>1, <2>2
  <2>6. results'[q].succeeded = UNION {handled'[g].succeeded : g \in {k \in Handlers(q) : phase'[k] = "returned"}}
    <3> DEFINE back == {k \in Handlers(q) : phase[k] = "returned"}
    <3>1. UNION {handled[g].succeeded : g \in back \cup {h}} = (UNION {handled[g].succeeded : g \in back}) \cup handled[h].succeeded
      <4> HIDE DEF back
      <4> QED OBVIOUS
    <3>2. results[q].succeeded = UNION {handled[g].succeeded : g \in back}
      BY <2>1, Zenon DEF Collected
    <3>3. UNION {handled'[g].succeeded : g \in {k \in Handlers(q) : phase'[k] = "returned"}}
          = UNION {handled[g].succeeded : g \in back \cup {h}}
      BY <1>1, <2>5
    <3> HIDE DEF back
    <3> QED BY <1>6, <3>1, <3>2, <3>3
  <2>7. Handlers(q)' = Handlers(q) /\ q' = q
    BY DEF Handlers
  <2> QED BY <1>4, <1>6, <2>1, <2>4, <2>6, <2>7 DEF Collected, Handlers
<1>9. \A p \in Plugin : Collected(p)'
  BY <1>7, <1>8
<1>10. \A p \in Plugin \ running' : \A g \in Handlers(p) : phase'[g] \in Over
  BY <1>1, <1>3 DEF RInv, Handlers, Over, Others
<1>11. pc # "done"
  BY <1>1, AtWork DEF Over
<1> QED BY <1>1, <1>4, <1>5, <1>6, <1>9, <1>10, <1>11 DEF RInv

LEMMA StartFixRInv == ASSUME TInv, RInv, StartFix PROVE RInv'
<1>1. /\ pc = "testing" /\ pc' = "fixing" /\ running' = Types \cap Plugin /\ exceptions' = Types \ Plugin
      /\ results' = [p \in Plugin |-> [results[p] EXCEPT !.skipped = NotHandled(p)]]
      /\ todo' = [h \in Handler |-> {i \in Projects(h) : Fixable(i)}]
      /\ phase' = [h \in Handler |-> IF Projects(h) = {} THEN "returned" ELSE "next"]
      /\ UNCHANGED <<testVars, handled, python, outcome>>
  BY DEF StartFix
<1>2. /\ entities' = entities /\ python = None /\ results = [p \in Plugin |-> NothingCollected]
      /\ \A h \in Handler : handled'[h] = NothingHandled
  BY <1>1 DEF TInv, QuietOK, testVars
<1>3. Types' = Types /\ Report' = Report /\ (\A p : NotHandled(p)' = NotHandled(p)) /\ \A g : Projects(g)' = Projects(g)
  BY <1>2, SameProjects
<1>4. ASSUME NEW h \in Handler PROVE Accounts(h)'
  <2>1. Answered(h)' = {} /\ \A i : Fixable(i)' = Fixable(i)
    BY <1>2 DEF Answered, NothingHandled, Fixable
  <2>2. phase'[h] = (IF Projects(h) = {} THEN "returned" ELSE "next") /\ todo'[h] = {i \in Projects(h) : Fixable(i)}
    BY <1>1
  <2> QED BY <1>2, <1>3, <2>1, <2>2 DEF Accounts, Over, NothingHandled
<1>5. ASSUME NEW p \in Plugin PROVE results'[p] = [skipped |-> NotHandled(p), failed |-> {}, succeeded |-> {}] /\ results'[p] \in Report
  <2>1. results'[p] = [skipped |-> NotHandled(p), failed |-> {}, succeeded |-> {}]
    BY <1>1, <1>2 DEF NothingCollected
  <2>2. NotHandled(p) \subseteq DOMAIN entities
    BY DEF NotHandled, OfType
  <2> QED BY <2>1, <2>2 DEF Report
<1>6. ASSUME NEW p \in Plugin PROVE Collected(p)'
  <2>1. Handlers(p)' = Handlers(p) /\ Handlers(p) \subseteq Handler
    BY DEF Handlers
  <2>2. \A h \in Handlers(p) : handled'[h].failed = {} /\ handled'[h].succeeded = {} /\ phase'[h] # "threw"
    BY <1>1, <1>2, <2>1 DEF NothingHandled
  <2>3. \A i : ~FailedIn(p, i)'
    BY <2>1, <2>2 DEF FailedIn
  <2>4. UNION {handled'[h].succeeded : h \in {g \in Handlers(p) : phase'[g] = "returned"}} = {}
    BY <2>2
  <2>5. /\ results'[p].skipped = NotHandled(p)
        /\ results'[p].failed = {}
        /\ results'[p].succeeded = {}
    <3>1. results'[p] = [skipped |-> NotHandled(p), failed |-> {}, succeeded |-> {}]
      BY <1>5
    <3> QED BY <3>1
  <2>6. results'[p].failed = {i \in DOMAIN entities' : FailedIn(p, i)'}
    BY <2>3, <2>5
  <2> QED BY <1>3, <2>1, <2>4, <2>5, <2>6 DEF Collected
<1>7. \A p \in Plugin \ running' : \A h \in Handlers(p) : phase'[h] \in Over
  <2>1. ASSUME NEW p \in Plugin, p \notin Types, NEW h \in Handler, PluginOf(h) = p PROVE Projects(h) = {}
    BY <2>1 DEF Projects, OfType, Types
  <2>2. ASSUME NEW p \in Plugin, p \notin Types, NEW h \in Handler, PluginOf(h) = p PROVE phase'[h] = "returned"
    BY <1>1, <2>1, <2>2
  <2> QED BY <1>1, <2>2 DEF Handlers, Over
<1>8. results' \in [Plugin -> Report']
  BY <1>1, <1>3, <1>5
<1> QED BY <1>1, <1>2, <1>3, <1>4, <1>6, <1>7, <1>8 DEF RInv

(* Nothing changes for the handlers and what was collected.                *)
LEMMA SameRInv ==
  ASSUME RInv, FilesStay, UNCHANGED results
  PROVE  /\ \A h : Accounts(h) => Accounts(h)'
         /\ \A p : Collected(p) => Collected(p)'
         /\ Report' = Report /\ Types' = Types
         /\ \A p : (\A h \in Handlers(p) : phase[h] \in Over) => \A h \in Handlers(p) : phase'[h] \in Over
<1>1. entities' = entities /\ phase' = phase /\ todo' = todo /\ handled' = handled
  BY DEF FilesStay, testVars
<1>2. Types' = Types /\ Report' = Report /\ (\A p : NotHandled(p)' = NotHandled(p)) /\ \A g : Projects(g)' = Projects(g)
  BY <1>1, SameProjects
<1>3. \A h : Accounts(h) => Accounts(h)'
  BY <1>1, AccountsKept
<1>4. \A p : Collected(p) => Collected(p)'
  <2>1. \A p, i : FailedIn(p, i)' <=> FailedIn(p, i)
    BY <1>1, <1>2 DEF FailedIn, Handlers
  <2> QED BY <1>1, <1>2, <2>1 DEF Collected, Handlers
<1> QED BY <1>1, <1>2, <1>3, <1>4

LEMMA PluginReturnsRInv == ASSUME TInv, RInv, NEW p \in Plugin, PluginReturns(p) PROVE RInv'
<1>1. /\ FilesStay /\ UNCHANGED <<pc, results, exceptions, outcome>> /\ running' = running \ {p} /\ python' = p
      /\ p \in running /\ \A h \in Handler : PluginOf(h) = p => phase[h] \in {"returned", "threw"}
  BY DEF PluginReturns, FilesStay
<1>2. pc # "testing" /\ p # None
  BY <1>1 DEF TInv, QuietOK, Plugin, None
<1>3. /\ \A h : Accounts(h) => Accounts(h)'
      /\ \A q : Collected(q) => Collected(q)'
      /\ Report' = Report /\ Types' = Types
      /\ \A q : (\A h \in Handlers(q) : phase[h] \in Over) => \A h \in Handlers(q) : phase'[h] \in Over
  BY <1>1, SameRInv
<1>4. \A q \in Plugin \ running' : \A h \in Handlers(q) : phase'[h] \in Over
  BY <1>1, <1>2, <1>3 DEF RInv, Handlers, Over
<1>5. pc # "done"
  BY <1>1, <1>2 DEF RInv
<1> QED BY <1>1, <1>2, <1>3, <1>4, <1>5 DEF RInv

LEMMA ConcludeRInv == ASSUME TInv, RInv, Conclude PROVE RInv'
<1>1. /\ FilesStay /\ UNCHANGED reportVars /\ pc = "fixing" /\ pc' = "done" /\ running = {}
      /\ outcome' = IF Ends THEN "error" ELSE "ok"
  BY DEF Conclude, FilesStay, Ends
<1>2. UNCHANGED <<results, running, python, exceptions>> /\ entities' = entities
  BY <1>1 DEF reportVars, FilesStay, testVars
<1>3. /\ \A h : Accounts(h) => Accounts(h)'
      /\ \A q : Collected(q) => Collected(q)'
      /\ Report' = Report /\ Types' = Types
      /\ \A q : (\A h \in Handlers(q) : phase[h] \in Over) => \A h \in Handlers(q) : phase'[h] \in Over
  BY <1>1, <1>2, SameRInv
<1>4. Ends' <=> Ends
  BY <1>2, <1>3 DEF Ends, NotFixed, Shown
<1> QED BY <1>1, <1>2, <1>3, <1>4 DEF RInv

LEMMA StepRInv == ASSUME TInv, RInv, [Next]_vars PROVE RInv'
<1>1. CASE PipStep
  BY <1>1, PipStepRInv
<1>2. CASE ToolStep
  BY <1>2, ToolWorkRInv, PoetryThrowsRInv DEF ToolStep
<1>3. CASE TestPath
  BY <1>3 DEF TestPath, RInv
<1>4. CASE StartFix \/ Conclude
  BY <1>4, StartFixRInv, ConcludeRInv
<1>5. CASE (\E h \in Handler : HandlerReturns(h)) \/ (\E p \in Plugin : PluginReturns(p))
  BY <1>5, HandlerReturnsRInv, PluginReturnsRInv
<1>6. CASE UNCHANGED vars
  <2>1. FilesStay /\ UNCHANGED <<pc, results, running, python, exceptions, outcome, entities>>
    BY <1>6 DEF vars, FilesStay, reportVars, testVars
  <2>2. /\ \A h : Accounts(h) => Accounts(h)'
        /\ \A q : Collected(q) => Collected(q)'
        /\ Report' = Report /\ Types' = Types
        /\ \A q : (\A h \in Handlers(q) : phase[h] \in Over) => \A h \in Handlers(q) : phase'[h] \in Over
    BY <2>1, SameRInv
  <2>3. Ends' <=> Ends
    BY <2>1, <2>2 DEF Ends, NotFixed, Shown
  <2> QED BY <2>1, <2>2, <2>3 DEF RInv
<1> QED BY <1>1, <1>2, <1>3, <1>4, <1>5, <1>6 DEF Next, Step

LEMMA AlwaysRInv == Spec => [](TInv /\ RInv)
<1>1. Init => TInv /\ RInv
  BY InitTInv, InitRInv
<1>2. TInv /\ RInv /\ [Next]_vars => (TInv /\ RInv)'
  BY StepTInv, StepRInv
<1> QED BY <1>1, <1>2, PTL DEF Spec

(***************************************************************************)
(* At the end of a run whose projects are of one plugin only.              *)
(***************************************************************************)
LEMMA TheEnd ==
  ASSUME TInv, RInv, pc = "done", ~BothPlugins
  PROVE  /\ python = None => Types \cap Plugin = {} /\ Shown = NothingCollected
         /\ python # None => /\ python \in Plugin /\ Shown = results[python] /\ Collected(python)
                             /\ Types \cap Plugin = {python}
         /\ \A h \in Handler : Accounts(h) /\ phase[h] \in Over
         /\ exceptions = Types \ Plugin
<1>1. /\ running = {} /\ exceptions = Types \ Plugin
      /\ \A h \in Handler : Accounts(h)
      /\ \A p \in Plugin : Collected(p)
      /\ \A p \in Plugin \ running : \A h \in Handlers(p) : phase[h] \in Over
      /\ python = None => running = Types \cap Plugin
      /\ python # None => python \in (Types \cap Plugin) \ running
  BY DEF RInv
<1>2. \A h \in Handler : phase[h] \in Over
  <2>1. \A h \in Handler : PluginOf(h) \in Plugin /\ h \in Handlers(PluginOf(h))
    BY DEF Handlers, Plugin, PluginOf
  <2> QED BY <1>1, <2>1
<1>3. python # None => Types \cap Plugin = {python}
  BY <1>1 DEF BothPlugins, Plugin
<1>4. python = None => Shown = NothingCollected
  BY DEF Shown
<1>5. python # None => Shown = results[python]
  BY DEF Shown
<1> QED BY <1>1, <1>2, <1>3, <1>4, <1>5

(* An entity of a plugin is handled by one of its handlers or by none.     *)
LEMMA HandledWhere ==
  ASSUME TInv, NEW i \in DOMAIN entities, Vulnerable(i)
  PROVE  /\ entities[i].type \in Types
         /\ \A p \in Plugin : i \in NotHandled(p) =>
              /\ entities[i].type = p
              /\ \A h \in Handler : i \in Projects(h) => ~Fixable(i)
         /\ \A h \in Handler : i \in Projects(h) => entities[i].type = PluginOf(h) /\ HandlerOf(entities[i].file) = h
         /\ entities[i].type \in Plugin /\ i \notin NotHandled(entities[i].type) =>
              /\ Fixable(i) /\ HandlerOf(entities[i].file) \in Handlers(entities[i].type)
              /\ i \in Projects(HandlerOf(entities[i].file))
<1>1. entities[i].type \in Types
  BY DEF Types
<1>2. WellFormed(entities[i])
  BY DEF TInv, EntitiesOK
<1>3. \A h \in Handler : i \in Projects(h) => entities[i].type = PluginOf(h) /\ HandlerOf(entities[i].file) = h
  BY DEF Projects, OfType
<1>4. HandlerOf(entities[i].file) \in Handler \cup {None}
  BY DEF HandlerOf, Handler
<1>5. \A h \in Handler : h # None
  BY DEF Handler, None
<1>6. \A p \in Plugin : i \in NotHandled(p) =>
        /\ entities[i].type = p
        /\ \A h \in Handler : i \in Projects(h) => ~Fixable(i)
  BY <1>3, <1>5 DEF NotHandled, OfType
<1>7. ASSUME entities[i].type \in Plugin, i \notin NotHandled(entities[i].type)
      PROVE  /\ Fixable(i) /\ HandlerOf(entities[i].file) \in Handlers(entities[i].type)
             /\ i \in Projects(HandlerOf(entities[i].file))
  <2>1. i \in OfType(entities[i].type)
    BY DEF OfType
  <2>2. Fixable(i) /\ HandlerOf(entities[i].file) # None
    BY <1>7, <2>1 DEF NotHandled
  <2>3. PluginOf(HandlerOf(entities[i].file)) = entities[i].type
    BY <1>2, <1>7, <2>2 DEF WellFormed
  <2> QED BY <1>4, <2>1, <2>2, <2>3, Zenon DEF Handlers, Projects
<1> QED BY <1>1, <1>3, <1>6, <1>7

LEMMA EndReported == ASSUME TInv, RInv PROVE EveryEntityReported
<1> SUFFICES ASSUME pc = "done", ~BothPlugins, NEW i \in DOMAIN entities, Vulnerable(i)
             PROVE  /\ entities[i].type \in exceptions \/ i \in Kept \cup Shown.failed \cup Shown.skipped
                    /\ entities[i].type \in exceptions => i \notin Kept \cup Shown.failed \cup Shown.skipped
                    /\ i \in Kept => i \notin Shown.failed \cup Shown.skipped
                    /\ i \in Shown.failed \cap Shown.skipped => phase["poetry"] = "threw"
  BY Zenon DEF EveryEntityReported
<1>1. /\ python = None => Types \cap Plugin = {} /\ Shown = NothingCollected
      /\ python # None => /\ python \in Plugin /\ Shown = results[python] /\ Collected(python)
                          /\ Types \cap Plugin = {python}
      /\ \A h \in Handler : Accounts(h) /\ phase[h] \in Over
      /\ exceptions = Types \ Plugin
  BY TheEnd
<1>2. entities[i].type \in Types
  BY HandledWhere
<1>3. CASE python = None
  <2>1. Kept = {} /\ Shown.failed = {} /\ Shown.skipped = {}
    BY <1>1, <1>3 DEF Kept, NothingCollected
  <2> QED BY <1>1, <1>2, <1>3, <2>1
<1>4. CASE python # None
  <2>1. /\ Shown.skipped = NotHandled(python)
        /\ Shown.failed = {j \in DOMAIN entities : FailedIn(python, j)}
        /\ Shown.succeeded = UNION {handled[h].succeeded : h \in {g \in Handlers(python) : phase[g] = "returned"}}
    BY <1>1, <1>4, Zenon DEF Collected
  <2>2. i \in Kept <=> \E h \in Handlers(python) : phase[h] = "returned" /\ \E s \in handled[h].succeeded : s.entity = i
    BY <2>1 DEF Kept
  <2>3. \A h \in Handlers(python) : h \in Handler /\ PluginOf(h) = python
    BY DEF Handlers
  <2>4. \A h \in Handler : phase[h] = "returned" => Answered(h) = {j \in Projects(h) : Fixable(j)}
    BY <1>1 DEF Accounts, Over
  <2>5. \A h \in Handler : handled[h].failed \subseteq Answered(h) /\ \A s \in handled[h].succeeded : s.entity \in Answered(h)
    BY DEF Answered
  <2>6. (* Only what a handler was given is kept or failed.                *)
        i \in Kept \/ FailedIn(python, i) => \E h \in Handlers(python) : i \in Projects(h)
    BY <2>2, <2>3, <2>4, <2>5 DEF FailedIn
  <2>7. i \in Kept \cup Shown.failed \cup Shown.skipped => entities[i].type = python
    BY <1>4, <1>1, <2>1, <2>3, <2>6, HandledWhere
  <2>8. entities[i].type \in exceptions \/ entities[i].type = python
    BY <1>1, <1>2, <1>4
  <2>9. python \notin exceptions
    BY <1>1, <1>4
  <2>10. ASSUME entities[i].type = python, i \notin NotHandled(python) PROVE i \in Kept \cup Shown.failed
    <3>1. PICK h \in Handlers(python) : i \in Projects(h) /\ Fixable(i)
      BY <1>1, <1>4, <2>10, HandledWhere
    <3>2. CASE phase[h] = "threw"
      BY <2>1, <3>1, <3>2 DEF FailedIn
    <3>3. CASE phase[h] = "returned"
      <4>1. i \in Answered(h)
        BY <2>3, <2>4, <3>1, <3>3
      <4> QED BY <2>1, <2>2, <3>1, <3>3, <4>1 DEF FailedIn, Answered
    <3> QED BY <1>1, <2>3, <3>1, <3>2, <3>3 DEF Over
  <2>11. ASSUME i \in Kept PROVE i \notin Shown.failed \cup Shown.skipped
    <3>1. PICK h \in Handlers(python) : phase[h] = "returned" /\ \E s \in handled[h].succeeded : s.entity = i
      BY <2>2, <2>11
    <3>2. i \in Projects(h) /\ Fixable(i)
      BY <2>3, <2>4, <2>5, <3>1
    <3>3. i \notin NotHandled(python)
      BY <1>1, <1>4, <2>3, <3>1, <3>2, HandledWhere
    <3>4. \A g \in Handlers(python) : i \in Projects(g) => g = h
      BY <2>3, <3>1, <3>2, HandledWhere
    <3>5. i \notin handled[h].failed
      BY <1>1, <2>3, <3>1 DEF Accounts
    <3>6. ASSUME FailedIn(python, i) PROVE FALSE
      <4>1. PICK g \in Handlers(python) : \/ phase[g] = "returned" /\ i \in handled[g].failed
                                          \/ phase[g] = "threw" /\ i \in Projects(g)
        BY <3>6 DEF FailedIn
      <4>2. i \in Projects(g)
        BY <2>3, <2>4, <2>5, <4>1
      <4> QED BY <3>1, <3>4, <3>5, <4>1, <4>2
    <3> QED BY <2>1, <3>3, <3>6
  <2>12. ASSUME i \in Shown.failed \cap Shown.skipped PROVE phase["poetry"] = "threw"
    <3>1. PICK g \in Handlers(python) : \/ phase[g] = "returned" /\ i \in handled[g].failed
                                        \/ phase[g] = "threw" /\ i \in Projects(g)
      BY <2>1, <2>12 DEF FailedIn
    <3>2. i \in NotHandled(python)
      BY <2>1, <2>12
    <3>3. phase[g] = "threw"
      <4>1. ASSUME phase[g] = "returned", i \in handled[g].failed PROVE FALSE
        <5>1. i \in Projects(g) /\ Fixable(i) /\ g \in Handler
          BY <2>3, <2>4, <2>5, <3>1, <4>1
        <5> QED BY <1>1, <1>4, <3>2, <5>1, HandledWhere
      <4> QED BY <3>1, <4>1
    <3> QED BY <1>1, <2>3, <3>1, <3>3 DEF Accounts
  <2> QED BY <2>1, <2>7, <2>8, <2>9, <2>10, <2>11, <2>12
<1> QED BY <1>3, <1>4

(* Every vulnerable entity ends up in the report exactly once.             *)
THEOREM FixReportsEveryEntity == Spec => []EveryEntityReported
<1>1. TInv /\ RInv => EveryEntityReported
  BY EndReported
<1> QED BY <1>1, AlwaysRInv, PTL

LEMMA EndAgrees == ASSUME TInv, RInv PROVE OutcomeAgrees
<1> SUFFICES ASSUME pc = "done", ~BothPlugins, Types # {}
             PROVE  (outcome = "error") = (\A h \in Handler : phase[h] = "threw" \/ handled[h].succeeded = {})
  BY Zenon DEF OutcomeAgrees
<1>1. /\ python = None => Types \cap Plugin = {} /\ Shown = NothingCollected
      /\ python # None => /\ python \in Plugin /\ Shown = results[python] /\ Collected(python)
                          /\ Types \cap Plugin = {python}
      /\ \A h \in Handler : Accounts(h) /\ phase[h] \in Over
      /\ exceptions = Types \ Plugin
  BY TheEnd
<1>2. outcome = IF Ends THEN "error" ELSE "ok"
  BY DEF RInv
<1>3. PICK i \in DOMAIN entities : Vulnerable(i)
  BY DEF Types
<1>4. EveryEntityReported
  BY EndReported
<1>5. entities[i].type \in exceptions \/ i \in Kept \cup Shown.failed \cup Shown.skipped
  BY <1>3, <1>4 DEF EveryEntityReported
<1>6. Shown.succeeded = {} => NotFixed
  BY <1>5 DEF Kept, NotFixed
<1>7. entities # <<>>
  BY <1>3
<1>8. (outcome = "error") <=> (Shown.succeeded = {})
  BY <1>2, <1>6, <1>7 DEF Ends
<1>9. \A h \in Handler : \A s \in handled[h].succeeded : phase[h] = "returned" => PluginOf(h) \in Types \cap Plugin
  <2> SUFFICES ASSUME NEW h \in Handler, NEW s \in handled[h].succeeded, phase[h] = "returned"
               PROVE  PluginOf(h) \in Types \cap Plugin
    OBVIOUS
  <2>1. s.entity \in Projects(h)
    BY <1>1 DEF Accounts, Answered, Over
  <2> QED BY <2>1 DEF Projects, OfType, Types, Plugin, PluginOf
<1>10. Shown.succeeded = {} <=> \A h \in Handler : phase[h] = "threw" \/ handled[h].succeeded = {}
  <2>1. CASE python = None
    <3>1. Shown.succeeded = {}
      BY <1>1, <2>1 DEF NothingCollected
    <3>2. \A h \in Handler : phase[h] = "threw" \/ handled[h].succeeded = {}
      BY <1>1, <1>9, <2>1 DEF Over
    <3> QED BY <3>1, <3>2
  <2>2. CASE python # None
    <3>1. Shown.succeeded = UNION {handled[h].succeeded : h \in {g \in Handlers(python) : phase[g] = "returned"}}
      BY <1>1, <2>2, Zenon DEF Collected
    <3>2. \A h \in Handler : h \notin Handlers(python) => phase[h] = "threw" \/ handled[h].succeeded = {}
      BY <1>1, <1>9, <2>2 DEF Over, Handlers
    <3>3. Handlers(python) \subseteq Handler
      BY DEF Handlers
    <3> QED BY <1>1, <3>1, <3>2, <3>3 DEF Over
  <2> QED BY <2>1, <2>2
<1> QED BY <1>8, <1>10

(* The command ends with an error exactly when no handler fixed anything   *)
(* that is still reported.                                                 *)
THEOREM FixOutcomeAgrees == Spec => []OutcomeAgrees
<1>1. TInv /\ RInv => OutcomeAgrees
  BY EndAgrees
<1> QED BY <1>1, AlwaysRInv, PTL

-----------------------------------------------------------------------------
(***************************************************************************)
(* What pipenv and Poetry installed.                                       *)
(***************************************************************************)
ToolOK(t) ==
  ~options.dryRun =>
    /\ phase[t] = "installing" => {Current(t)} \X Issues(changes[t]) \subseteq installed
    /\ \A s \in Successes(t) : {s.entity} \X s.fixed \subseteq installed
ToolInv == \A t \in Tool : ToolOK(t)

LEMMA ToolKept ==
  ASSUME NEW t, ToolOK(t), UNCHANGED entities, options' = options, installed \subseteq installed', todo'[t] = todo[t],
         handled'[t] = handled[t], phase'[t] = "installing" => phase[t] = "installing" /\ changes'[t] = changes[t]
  PROVE  ToolOK(t)'
<1>1. Current(t)' = Current(t) /\ Successes(t)' = Successes(t)
  BY SameFor DEF Successes
<1> QED BY <1>1 DEF ToolOK, Issues

(* A step of another handler, or one that ends this one's work.            *)
LEMMA ToolsKept ==
  ASSUME ToolInv, NEW h \in Handler, Others(h), options' = options, installed \subseteq installed',
         h \in Tool => ToolOK(h)'
  PROVE  ToolInv'
<1>1. ASSUME NEW t \in Tool, t # h PROVE ToolOK(t)'
  BY <1>1, ToolIs, ToolKept DEF ToolInv, Others
<1> QED BY <1>1 DEF ToolInv

LEMMA ToolStarts ==
  ASSUME TInv, NEW t \in Tool, ToolInv, phase[t] = "next", phase' = [phase EXCEPT ![t] = "installing"],
         UNCHANGED <<testVars, installed, todo, changes, handled>>
  PROVE  ToolInv'
<1>1. t \in Handler /\ entities' = entities /\ options' = options
  BY ToolIs DEF testVars
<1>2. Others(t) /\ changes'[t] = changes[t] /\ changes[t] = {} /\ handled'[t] = handled[t]
  BY <1>1, MovedOn DEF TInv, HandlersOK, HandlerOK
<1>3. Issues(changes[t])' = {}
  BY <1>2 DEF Issues
<1>4. ToolOK(t)'
  <2>1. Successes(t)' = Successes(t) /\ ToolOK(t)
    BY <1>2 DEF Successes, ToolInv
  <2> QED BY <1>1, <1>3, <2>1 DEF ToolOK
<1> QED BY <1>1, <1>2, <1>4, ToolsKept

LEMMA RunToolToolInv == ASSUME TInv, ToolInv, NEW t \in Tool, RunTool(t) PROVE ToolInv'
<1>1. /\ phase[t] = "installing" /\ todo[t] # {}
      /\ UNCHANGED <<pc, testVars, disk, failures, phase, todo, readerVars, handled, reportVars, outcome>>
  BY RunToolIs
<1>2. PICK ok \in BOOLEAN :
        /\ changes' = [changes EXCEPT ![t] =
             @ \cup {[pkg |-> p, from |-> "old", success |-> ok] : p \in Head(commands[t]) \cap Standard}]
        /\ installed' = IF ok /\ ~options.dryRun THEN installed \cup ({Current(t)} \X Head(commands[t]))
                        ELSE installed
  BY RunToolIs
<1>3. t \in Handler /\ entities' = entities /\ options' = options /\ HandlersOK
  BY <1>1, ToolIs DEF testVars, TInv
<1>4. Others(t)
  BY <1>1, <1>2, <1>3 DEF HandlersOK, Others
<1>5. Issues(changes[t])' \subseteq Issues(changes[t]) \cup (IF ok THEN Head(commands[t]) ELSE {})
  <2> DEFINE new == {[pkg |-> p, from |-> "old", success |-> ok] : p \in Head(commands[t]) \cap Standard}
  <2>1. changes'[t] = changes[t] \cup new
    BY <1>2, <1>3 DEF HandlersOK
  <2>2. \A c \in new : c.success = ok /\ c.pkg \in Head(commands[t])
    OBVIOUS
  <2> HIDE DEF new
  <2> QED BY <2>1, <2>2 DEF Issues
<1>6. ToolOK(t)'
  <2>1. ToolOK(t) /\ Successes(t)' = Successes(t) /\ Current(t)' = Current(t)
    BY <1>1, <1>3, SameFor DEF ToolInv, Successes
  <2>2. installed \subseteq installed'
    BY <1>2
  <2>3. ASSUME ~options.dryRun PROVE {Current(t)} \X Issues(changes[t])' \subseteq installed'
    <3>1. {Current(t)} \X Issues(changes[t]) \subseteq installed
      BY <1>1, <2>1, <2>3 DEF ToolOK
    <3>2. ok => {Current(t)} \X Head(commands[t]) \subseteq installed'
      BY <1>2, <2>3
    <3> QED BY <1>5, <2>2, <3>1, <3>2
  <2> QED BY <1>1, <1>3, <2>1, <2>2, <2>3 DEF ToolOK
<1>7. installed \subseteq installed'
  BY <1>2
<1> QED BY <1>3, <1>4, <1>6, <1>7, ToolsKept

LEMMA FinishToolToolInv == ASSUME TInv, ToolInv, NEW t \in Tool, FinishTool(t) PROVE ToolInv'
<1>1. /\ phase[t] = "installing" /\ UNCHANGED <<testVars, installed>>
      /\ EntityFails(t) \/ EntitySucceeds(t, Issues(changes[t]), Entity(t).file)
  BY DEF FinishTool
<1>2. t \in Handler /\ entities' = entities /\ options' = options /\ HandlersOK /\ ToolOK(t)
  BY <1>1, ToolIs DEF testVars, TInv, ToolInv
<1> DEFINE new == Success(Current(t), Issues(changes[t]), Entity(t).file)
<1>3. /\ Others(t) /\ phase'[t] = "next"
      /\ handled'[t].succeeded \subseteq handled[t].succeeded \cup {new}
  <2>1. CASE EntityFails(t)
    BY <1>2, <2>1, FailsIs
  <2>2. CASE EntitySucceeds(t, Issues(changes[t]), Entity(t).file)
    BY <1>2, <2>2, SucceedsIs
  <2> QED BY <1>1, <2>1, <2>2
<1>4. new.entity = Current(t) /\ new.fixed = Issues(changes[t])
  BY DEF Success
<1>5. ToolOK(t)'
  <2> HIDE DEF new
  <2> QED BY <1>1, <1>2, <1>3, <1>4 DEF ToolOK, Successes
<1> QED BY <1>1, <1>2, <1>3, <1>5, ToolsKept

LEMMA StepToolInv == ASSUME TInv, ToolInv, [Next]_vars PROVE ToolInv'
<1>1. HandlersOK
  BY DEF TInv
<1>2. CASE PipStep
  <2>1. PIP \in Handler /\ PIP \notin Tool /\ UNCHANGED <<testVars, installed>>
    BY <1>2, Zenon DEF PIP, Handler, Tool, PipStep, TakeFixed, StartFile, VisitFile, UpgradeFile, PinRest, FileFails
  <2>2. entities' = entities /\ options' = options
    BY <2>1 DEF testVars
  <2>3. Others(PIP)
    <3>1. CASE TakeFixed \/ PinRest \/ FileFails
      <4>1. EntityFails(PIP) \/ \E issues, through : EntitySucceeds(PIP, issues, through)
        BY <3>1, Zenon DEF TakeFixed, PinRest, FileFails, Finish
      <4> QED BY <1>1, <2>1, <2>2, <4>1, FailsIs, SucceedsIs
    <3>2. CASE StartFile
      BY <1>1, <2>1, <2>2, <3>2, MovedOn DEF StartFile
    <3>3. CASE VisitFile \/ UpgradeFile
      <4>1. /\ UNCHANGED <<phase, todo, handled>>
            /\ changes' = changes \/ \E new : changes' = [changes EXCEPT ![PIP] = @ \cup new]
        BY <3>3, Zenon DEF VisitFile, UpgradeFile
      <4> QED BY <1>1, <2>2, <4>1 DEF HandlersOK, Others
    <3> QED BY <1>2, <3>1, <3>2, <3>3 DEF PipStep
  <2> QED BY <2>1, <2>2, <2>3, ToolsKept
<1>3. CASE StartPipfile \/ StartPoetry
  <2>1. PICK t \in Tool : /\ phase[t] = "next" /\ phase' = [phase EXCEPT ![t] = "installing"]
                          /\ UNCHANGED <<testVars, installed, todo, changes, handled>>
    BY <1>3, Zenon DEF StartPipfile, StartPoetry, Tool
  <2> QED BY <2>1, ToolStarts
<1>4. CASE PoetryThrows
  <2>1. /\ "poetry" \in Handler /\ UNCHANGED <<testVars, installed, changes, handled>>
        /\ phase' = [phase EXCEPT !["poetry"] = "threw"] /\ todo' = [todo EXCEPT !["poetry"] = {}]
    BY <1>4 DEF PoetryThrows, Handler
  <2>2. Others("poetry") /\ phase'["poetry"] = "threw" /\ entities' = entities /\ options' = options
    BY <1>1, <2>1 DEF HandlersOK, Others, testVars
  <2>3. ToolOK("poetry")'
    <3>1. ToolOK("poetry") /\ Successes("poetry")' = Successes("poetry")
      BY <2>1 DEF ToolInv, Tool, Successes
    <3> QED BY <2>1, <2>2, <3>1 DEF ToolOK
  <2> QED BY <2>1, <2>2, <2>3, ToolsKept
<1>5. ASSUME NEW t \in Tool, RunTool(t) \/ FinishTool(t) PROVE ToolInv'
  BY <1>5, RunToolToolInv, FinishToolToolInv
<1>6. CASE TestPath \/ StartFix
  <2>1. QuietOK /\ pc = "testing" /\ handled' = handled /\ installed' = installed
    BY <1>6 DEF TestPath, StartFix, TInv
  <2>2. \A t \in Tool : phase'[t] # "installing"
    <3>1. CASE TestPath
      BY <2>1, <3>1, ToolIs DEF TestPath, QuietOK
    <3>2. CASE StartFix
      BY <3>2, ToolIs DEF StartFix
    <3> QED BY <1>6, <3>1, <3>2
  <2>3. \A t \in Tool : Successes(t)' = {}
    BY <2>1, ToolIs DEF QuietOK, Successes, NothingHandled
  <2> QED BY <2>2, <2>3 DEF ToolInv, ToolOK
<1>7. ASSUME NEW h \in Handler, HandlerReturns(h) PROVE ToolInv'
  <2>1. /\ phase' = [phase EXCEPT ![h] = "returned"]
        /\ UNCHANGED <<testVars, installed, todo, changes, handled>>
    BY <1>7 DEF HandlerReturns
  <2>2. Others(h) /\ phase'[h] = "returned" /\ entities' = entities /\ options' = options /\ handled'[h] = handled[h]
    BY <1>1, <2>1, MovedOn DEF testVars
  <2>3. h \in Tool => ToolOK(h)'
    BY <2>1, <2>2, ToolKept DEF ToolInv
  <2> QED BY <2>1, <2>2, <2>3, ToolsKept
<1>8. CASE (\E p \in Plugin : PluginReturns(p)) \/ Conclude \/ UNCHANGED vars
  <2>1. UNCHANGED <<entities, options, installed, phase, todo, changes, handled>>
    BY <1>8, Zenon DEF PluginReturns, Conclude, vars, testVars
  <2> QED BY <2>1, ToolKept DEF ToolInv
<1> QED BY <1>2, <1>3, <1>4, <1>5, <1>6, <1>7, <1>8 DEF Next, Step, ToolStep

-----------------------------------------------------------------------------
(***************************************************************************)
(* What a file leads to.                                                   *)
(***************************************************************************)
LEMMA ReachIs ==
  ASSUME NEW texts, NEW file \in File
  PROVE  /\ Reach(texts, file) \subseteq File /\ file \in Reach(texts, file)
         /\ \A f \in Reach(texts, file) : Required(texts[f], f) \cap File \subseteq Reach(texts, file)
         /\ \A S \in SUBSET File : file \in S /\ Closed(texts, S) => Reach(texts, file) \subseteq S
<1>1. Reach(texts, file) \subseteq File /\ file \in Reach(texts, file)
  BY DEF Reach
<1>2. \A S \in SUBSET File : file \in S /\ Closed(texts, S) => Reach(texts, file) \subseteq S
  BY DEF Reach
<1>3. ASSUME NEW f \in Reach(texts, file), NEW g \in Required(texts[f], f) \cap File PROVE g \in Reach(texts, file)
  <2>1. f \in File /\ g \in File
    BY <1>1
  <2>2. ASSUME NEW S \in SUBSET File, {file} \cap File \subseteq S, Closed(texts, S) PROVE g \in S
    <3>1. f \in S
      BY <1>2, <2>2
    <3> QED BY <2>2, <3>1 DEF Closed
  <2> QED BY <2>1, <2>2, Zenon DEF Reach
<1> QED BY <1>1, <1>2, <1>3

LEMMA ReachWithin ==
  ASSUME NEW texts, NEW file \in File, NEW g \in Reach(texts, file)
  PROVE  Reach(texts, g) \subseteq Reach(texts, file)
<1>1. /\ Reach(texts, file) \subseteq File /\ g \in File
      /\ \A f \in Reach(texts, file) : Required(texts[f], f) \cap File \subseteq Reach(texts, file)
  BY ReachIs
<1>2. Closed(texts, Reach(texts, file))
  BY <1>1 DEF Closed
<1>3. \A S \in SUBSET File : g \in S /\ Closed(texts, S) => Reach(texts, g) \subseteq S
  BY <1>1, ReachIs
<1> QED BY <1>1, <1>2, <1>3

(* It depends on nothing but what the files require.                       *)
LEMMA SameReach ==
  ASSUME NEW texts, NEW others, \A f \in File : others[f].requires = texts[f].requires
  PROVE  \A file : /\ Reach(others, file) = Reach(texts, file)
                   /\ HasNamesake(others, file) <=> HasNamesake(texts, file)
<1>1. \A f \in File : Required(others[f], f) = Required(texts[f], f)
  BY DEF Required
<1>2. \A S \in SUBSET File : Closed(others, S) <=> Closed(texts, S)
  BY <1>1 DEF Closed
<1>3. \A file : Reach(others, file) = Reach(texts, file)
  BY <1>2 DEF Reach
<1>4. \A file : Reach(texts, file) \subseteq File
  BY DEF Reach
<1>5. ASSUME NEW file PROVE HasNamesake(others, file) <=> HasNamesake(texts, file)
  BY <1>3, <1>4 DEF HasNamesake
<1> QED BY <1>3, <1>5

-----------------------------------------------------------------------------
(***************************************************************************)
(* What was found, upgraded and remembered of the requirements files.      *)
(***************************************************************************)
Here     == disk[Entity(PIP).path]
Group    == Reach(Here, Entity(PIP).file)
Place(i) == Join(Root, provenance[i].key)
Found    == {Place(i) : i \in DOMAIN provenance}
Coming   == {v.path : v \in ToSet(visits)}

(* What was read is what is there, until its turn comes.                   *)
InStep ==
  /\ visits # <<>> => turn = 1
  /\ \A i, j \in DOMAIN provenance : provenance[i].key = provenance[j].key => i = j
  /\ \A i \in DOMAIN provenance :
       /\ Place(i) \in Group
       /\ provenance[i].text.requires = Here[Place(i)].requires
       /\ i >= turn => provenance[i].text = Here[Place(i)]

(* A directive is the way the scan began or that of a file that is         *)
(* reached; every file found leads only to files found or still to be      *)
(* read.                                                                   *)
Origin(v) ==
  \/ v.path = Join(Root, v.text)
  \/ \E f \in Group : \E i \in DOMAIN Here[f].requires :
       Here[f].requires[i].path = v.text /\ v.path = Join(Dir(f), v.text)
Searching ==
  /\ \A v \in ToSet(visits) : (v.path \in File => v.path \in Group) /\ Origin(v)
  /\ ~HasNamesake(Here, Entity(PIP).file) =>
       /\ Entity(PIP).file \in Found \cup Coming
       /\ \A f \in Found : Required(Here[f], f) \cap File \subseteq Found \cup Coming

(* The files whose turn has been are rid of the old versions.              *)
Upgrading ==
  /\ Issues(changes[PIP]) \subseteq Pins
  /\ ~options.dryRun =>
       /\ \A i \in DOMAIN provenance : i < turn => \A x \in Pins : ~Old(Here[Place(i)].lines, x)
       /\ \A x \in Issues(changes[PIP]) :
            \E i \in DOMAIN provenance : i < turn /\ New(Here[Place(i)].lines, x)

(* The packages are fixed in what the file leads to.                       *)
Claim(p, file, pkgs) ==
  \A x \in pkgs : /\ \A f \in Reach(disk[p], file) : ~Old(disk[p][f].lines, x)
                  /\ \E f \in Reach(disk[p], file) : New(disk[p][f].lines, x)
Holds(i, pkgs) ==
  ~options.dryRun /\ ~HasNamesake(disk[entities[i].path], entities[i].file) =>
    Claim(entities[i].path, entities[i].file, pkgs)

(* What is said of a remembered file is true of the entity it was fixed    *)
(* with.                                                                   *)
Hit(f, hit) ==
  \E i \in DOMAIN entities :
    /\ hit.fixedIn = entities[i].file
    /\ f \in Reach(disk[entities[i].path], entities[i].file)
    /\ Holds(i, hit.issues)
Remembered == \A f \in DOMAIN cache : Hit(f, cache[f])
Honest(s) ==
  ~options.dryRun /\ ~SharesFile(s.entity) /\ ~HasNamesake(disk[entities[s.entity].path], s.through) => FixedOnDisk(s)
Claimed == \A s \in Successes(PIP) : Honest(s)

DInv ==
  /\ phase[PIP] = "reading" => InStep /\ Searching /\ Upgrading
  /\ Remembered
  /\ Claimed

(* A step never brings an old version back, nor takes a new one away, nor  *)
(* changes what a file requires.                                           *)
Better ==
  \A p \in 1..Paths : \A f \in File :
    /\ disk'[p][f].requires = disk[p][f].requires
    /\ \A x : /\ Old(disk'[p][f].lines, x) => Old(disk[p][f].lines, x)
              /\ New(disk[p][f].lines, x) => New(disk'[p][f].lines, x)

LEMMA ReachBetter ==
  ASSUME Better, NEW p \in 1..Paths
  PROVE  \A file : /\ Reach(disk'[p], file) = Reach(disk[p], file)
                   /\ HasNamesake(disk'[p], file) <=> HasNamesake(disk[p], file)
<1>1. \A f \in File : disk'[p][f].requires = disk[p][f].requires
  BY DEF Better
<1> QED BY <1>1, SameReach

LEMMA ReachFiles == ASSUME NEW texts, NEW file PROVE Reach(texts, file) \subseteq File
BY DEF Reach

LEMMA HitBetter ==
  ASSUME EntitiesOK, Better, UNCHANGED <<entities, options>>, NEW f, NEW hit, Hit(f, hit) PROVE Hit(f, hit)'
<1>1. PICK i \in DOMAIN entities :
        /\ hit.fixedIn = entities[i].file /\ f \in Reach(disk[entities[i].path], entities[i].file) /\ Holds(i, hit.issues)
  BY DEF Hit
<1>2. entities[i].path \in 1..Paths
  BY DEF EntitiesOK
<1> DEFINE p == entities[i].path
           file == entities[i].file
<1>3. Reach(disk'[p], file) = Reach(disk[p], file) /\ (HasNamesake(disk'[p], file) <=> HasNamesake(disk[p], file))
  BY <1>2, ReachBetter
<1>4. Claim(p, file, hit.issues) => \A x \in hit.issues :
        /\ \A g \in Reach(disk'[p], file) : ~Old(disk'[p][g].lines, x)
        /\ \E g \in Reach(disk'[p], file) : New(disk'[p][g].lines, x)
  <2>1. Reach(disk[p], file) \subseteq File /\ p \in 1..Paths
    BY <1>2, ReachFiles
  <2>2. \A g \in File : \A x : /\ Old(disk'[p][g].lines, x) => Old(disk[p][g].lines, x)
                               /\ New(disk[p][g].lines, x) => New(disk'[p][g].lines, x)
    BY <2>1 DEF Better
  <2> HIDE DEF p, file
  <2> QED BY <1>3, <2>1, <2>2 DEF Claim
<1>5. Holds(i, hit.issues)'
  <2>1. entities'[i].path = p /\ entities'[i].file = file /\ options' = options
    OBVIOUS
  <2>2. ~options.dryRun /\ ~HasNamesake(disk[p], file) => Claim(p, file, hit.issues)
    BY <1>1 DEF Holds
  <2> HIDE DEF p, file
  <2> QED BY <1>3, <1>4, <2>1, <2>2 DEF Holds, Claim
<1> QED BY <1>1, <1>3, <1>5 DEF Hit

LEMMA HonestBetter ==
  ASSUME EntitiesOK, Better, UNCHANGED <<entities, options>>, NEW s, s.entity \in DOMAIN entities, Honest(s)
  PROVE  Honest(s)'
<1> DEFINE p == entities[s.entity].path
<1>1. p \in 1..Paths /\ \A i \in DOMAIN entities : entities[i].path \in 1..Paths
  BY DEF EntitiesOK
<1>2. \A file : /\ Reach(disk'[p], file) = Reach(disk[p], file)
                /\ HasNamesake(disk'[p], file) <=> HasNamesake(disk[p], file)
  BY <1>1, ReachBetter
<1>3. SharesFile(s.entity)' <=> SharesFile(s.entity)
  <2>1. \A j \in DOMAIN entities : \A file : Reach(disk'[entities[j].path], file) = Reach(disk[entities[j].path], file)
    BY <1>1, ReachBetter
  <2> QED BY <2>1 DEF SharesFile
<1>4. FixedOnDisk(s) => FixedOnDisk(s)'
  <2>1. \A file : Reach(disk[p], file) \subseteq File
    BY ReachFiles
  <2>2. \A g \in File : \A x : /\ Old(disk'[p][g].lines, x) => Old(disk[p][g].lines, x)
                               /\ New(disk[p][g].lines, x) => New(disk'[p][g].lines, x)
    BY <1>1 DEF Better
  <2>3. entities' = entities
    OBVIOUS
  <2> QED BY <1>2, <2>1, <2>2, <2>3 DEF FixedOnDisk
<1> QED BY <1>2, <1>3, <1>4 DEF Honest

LEMMA KeepsClaims ==
  ASSUME TInv, Better, UNCHANGED <<entities, options>>, Remembered, Claimed
  PROVE  /\ \A f \in DOMAIN cache : \A hit : hit = cache[f] => Hit(f, hit)'
         /\ cache' = cache => Remembered'
         /\ \A s \in Successes(PIP) : Honest(s)'
         /\ Successes(PIP)' \subseteq Successes(PIP) => Claimed'
<1>1. EntitiesOK
  BY DEF TInv
<1>2. ASSUME NEW f, NEW hit, Hit(f, hit) PROVE Hit(f, hit)'
  BY <1>1, <1>2, HitBetter
<1>3. \A f \in DOMAIN cache : \A hit : hit = cache[f] => Hit(f, hit)
  BY DEF Remembered
<1>4. ASSUME NEW s \in Successes(PIP) PROVE Honest(s)'
  <2>1. s.entity \in DOMAIN entities
    BY DEF TInv, HandlersOK, HandlerOK, Handled, Successes, PIP, Handler
  <2> QED BY <1>1, <2>1, HonestBetter DEF Claimed
<1>5. cache' = cache => Remembered'
  BY <1>2, <1>3 DEF Remembered
<1>6. Successes(PIP)' \subseteq Successes(PIP) => Claimed'
  BY <1>4 DEF Claimed
<1> QED BY <1>2, <1>3, <1>4, <1>5, <1>6

LEMMA GroupIs ==
  ASSUME TInv, todo[PIP] # {}
  PROVE  /\ Entity(PIP).path \in 1..Paths /\ Entity(PIP).file \in File
         /\ \A f \in File : Here[f] = Read(f)
         /\ Group \subseteq File /\ Entity(PIP).file \in Group
         /\ \A f \in Group : Required(Here[f], f) \cap File \subseteq Group
         /\ \A S \in SUBSET File : Entity(PIP).file \in S /\ Closed(Here, S) => Group \subseteq S
<1>1. Entity(PIP).path \in 1..Paths /\ Entity(PIP).file \in File
  BY PipFile
<1>2. \A f \in File : Here[f] = Read(f)
  BY <1>1 DEF Here, Read, TInv, DiskOK
<1> QED BY <1>1, <1>2, ReachIs DEF Group

(* Nothing of it changes when the current entity and the files stay.       *)
LEMMA SameGroup ==
  ASSUME UNCHANGED <<entities, todo, disk>> PROVE Here' = Here /\ Group' = Group /\ Root' = Root /\ Pins' = Pins
<1>1. Entity(PIP)' = Entity(PIP) /\ Root' = Root /\ Pins' = Pins
  BY SamePlaces
<1> QED BY <1>1 DEF Here, Group

LEMMA StartFileDInv == ASSUME TInv, DInv, StartFile PROVE DInv'
<1> DEFINE file == Entity(PIP).file
           v == [text |-> Key(file), path |-> file]
<1>1. /\ phase[PIP] = "next" /\ todo[PIP] # {} /\ PIP \in Handler
      /\ visits' = <<v>> /\ provenance' = <<>> /\ turn' = 1
      /\ UNCHANGED <<entities, options, disk, todo, changes, cache, handled>>
  BY DEF StartFile, NextIs, testVars, PIP, Handler
<1>2. file = Join(Root, Key(file)) /\ changes[PIP] = {} /\ file \in Group
  BY <1>1, PipFile, GroupIs DEF TInv, HandlersOK, HandlerOK
<1>3. Here' = Here /\ Group' = Group /\ Root' = Root /\ Entity(PIP)' = Entity(PIP)
  BY <1>1, SameGroup, SamePlaces
<1>4. v.path = file /\ v.text = Key(file)
  OBVIOUS
<1>5. ToSet(visits') = {v}
  <2> HIDE DEF v
  <2> QED BY <1>1 DEF ToSet
<1>10. v' = v
  BY <1>3 DEF Key
<1> HIDE DEF v, file
<1>6. InStep'
  BY <1>1 DEF InStep
<1>7. Searching'
  <2>1. Found' = {} /\ Coming' = {file}
    BY <1>1, <1>4, <1>5 DEF Found, Coming
  <2>2. Origin(v)'
    BY <1>2, <1>3, <1>4, <1>10 DEF Origin
  <2>3. ASSUME NEW w \in ToSet(visits') PROVE (w.path \in File => w.path \in Group') /\ Origin(w)'
    <3>1. w = v
      BY <1>5, <2>3
    <3> QED BY <1>2, <1>3, <1>4, <1>10, <2>2, <3>1 DEF Origin
  <2> QED BY <1>3, <2>1, <2>3 DEF Searching, file
<1>8. Upgrading'
  <2>1. Issues(changes[PIP])' = {}
    BY <1>1, <1>2 DEF Issues
  <2> QED BY <1>1, <2>1 DEF Upgrading
<1>9. Remembered' /\ Claimed'
  <2>1. Better /\ Successes(PIP)' = Successes(PIP)
    BY <1>1 DEF Better, Successes
  <2> QED BY <1>1, <2>1, KeepsClaims DEF DInv
<1> QED BY <1>6, <1>7, <1>8, <1>9 DEF DInv

(* Where a file that is visited is kept.                                   *)
LEMMA PutPlaces ==
  ASSUME TInv, phase[PIP] = "reading", NEW path \in File,
         provenance' = Put(Key(path), Read(path)), Root' = Root, InStep
  PROVE  /\ DOMAIN provenance' = 1..Len(provenance') /\ DOMAIN provenance = 1..Len(provenance)
         /\ \A i, j \in DOMAIN provenance' : provenance'[i].key = provenance'[j].key => i = j
         /\ \A i \in DOMAIN provenance' :
              \/ provenance'[i].text = Read(path) /\ Place(i)' = path
              \/ i \in DOMAIN provenance /\ provenance'[i] = provenance[i] /\ Place(i)' = Place(i)
         /\ Found' = Found \cup {path}
<1> DEFINE key == Key(path)
           text == Read(path)
<1>0. todo[PIP] # {}
  BY HandlerTyped DEF PIP, Handler
<1>1. key \in Seq(STRING) /\ path = Join(Root, key)
  BY <1>0, PipFile
<1>2. text \in Text /\ provenance \in Seq(Entry)
  BY <1>0, ReadIs DEF TInv, ReaderOK
<1> HIDE DEF key, text
<1>3. provenance' = Put(key, text)
  BY DEF key, text
<1>4. /\ provenance' \in Seq(Entry)
      /\ key \in Keys => Len(provenance') = Len(provenance)
      /\ key \notin Keys => /\ Len(provenance') = Len(provenance) + 1
                            /\ provenance'[Len(provenance) + 1] = [key |-> key, text |-> text]
      /\ \A i \in 1..Len(provenance) :
           provenance'[i] = IF provenance[i].key = key THEN [key |-> key, text |-> text] ELSE provenance[i]
  BY <1>1, <1>2, <1>3, PutIs
<1>5. DOMAIN provenance' = 1..Len(provenance') /\ DOMAIN provenance = 1..Len(provenance) /\ Len(provenance) \in Nat
  BY <1>2, <1>4, LenProperties
<1>6. \A i \in DOMAIN provenance : i \in DOMAIN provenance' /\ provenance'[i].key = provenance[i].key
  <2> SUFFICES ASSUME NEW i \in DOMAIN provenance
               PROVE  i \in DOMAIN provenance' /\ provenance'[i].key = provenance[i].key
    OBVIOUS
  <2>1. Len(provenance') \in {Len(provenance), Len(provenance) + 1}
    BY <1>4
  <2>2. i \in DOMAIN provenance'
    BY <1>5, <2>1, OneLonger
  <2>3. provenance'[i] = IF provenance[i].key = key THEN [key |-> key, text |-> text] ELSE provenance[i]
    BY <1>4, <1>5
  <2> QED BY <2>2, <2>3
<1>7. \A i \in DOMAIN provenance' : i \notin DOMAIN provenance =>
        key \notin Keys /\ i = Len(provenance) + 1 /\ provenance'[i] = [key |-> key, text |-> text]
  <2> SUFFICES ASSUME NEW i \in DOMAIN provenance', i \notin DOMAIN provenance
               PROVE  key \notin Keys /\ i = Len(provenance) + 1 /\ provenance'[i] = [key |-> key, text |-> text]
    OBVIOUS
  <2>1. key \notin Keys
    BY <1>4, <1>5
  <2>2. i = Len(provenance) + 1
    BY <1>4, <1>5, <2>1, OneMore
  <2> QED BY <1>4, <2>1, <2>2
<1>8. \A i, j \in DOMAIN provenance' : provenance'[i].key = provenance'[j].key => i = j
  <2>1. \A i, j \in DOMAIN provenance : provenance[i].key = provenance[j].key => i = j
    BY DEF InStep
  <2>2. \A i \in DOMAIN provenance : provenance[i].key \in Keys
    BY DEF Keys
  <2>3. \A i \in DOMAIN provenance' : i \notin DOMAIN provenance => provenance'[i].key = key
    BY <1>7
  <2> SUFFICES ASSUME NEW i \in DOMAIN provenance', NEW j \in DOMAIN provenance', provenance'[i].key = provenance'[j].key
               PROVE  i = j
    OBVIOUS
  <2>4. CASE i \in DOMAIN provenance /\ j \in DOMAIN provenance
    BY <1>6, <2>1, <2>4
  <2>5. CASE i \in DOMAIN provenance /\ j \notin DOMAIN provenance
    BY <1>6, <1>7, <2>2, <2>3, <2>5, Zenon
  <2>6. CASE i \notin DOMAIN provenance /\ j \in DOMAIN provenance
    BY <1>6, <1>7, <2>2, <2>3, <2>6, Zenon
  <2>7. CASE i \notin DOMAIN provenance /\ j \notin DOMAIN provenance
    BY <1>7, <2>7, Zenon
  <2> QED BY <2>4, <2>5, <2>6, <2>7
<1>9. \A i \in DOMAIN provenance' :
        \/ provenance'[i].text = text /\ Place(i)' = path
        \/ i \in DOMAIN provenance /\ provenance'[i] = provenance[i] /\ Place(i)' = Place(i)
  <2> SUFFICES ASSUME NEW i \in DOMAIN provenance'
               PROVE  \/ provenance'[i].text = text /\ Place(i)' = path
                      \/ i \in DOMAIN provenance /\ provenance'[i] = provenance[i] /\ Place(i)' = Place(i)
    OBVIOUS
  <2>1. \/ provenance'[i] = [key |-> key, text |-> text]
        \/ i \in DOMAIN provenance /\ provenance'[i] = provenance[i]
    BY <1>4, <1>5, <1>7
  <2>2. CASE provenance'[i] = [key |-> key, text |-> text]
    <3>1. provenance'[i].key = key /\ provenance'[i].text = text
      BY <2>2
    <3> QED BY <1>1, <3>1 DEF Place
  <2>3. CASE i \in DOMAIN provenance /\ provenance'[i] = provenance[i]
    BY <2>3 DEF Place
  <2> QED BY <2>1, <2>2, <2>3
<1>10. Found' = Found \cup {path}
  <2>1. \A i \in DOMAIN provenance : Place(i)' = Place(i)
    BY <1>6 DEF Place
  <2>2. Found \subseteq Found'
    BY <1>6, <2>1 DEF Found
  <2>3. path \in Found'
    <3>1. CASE key \in Keys
      <4>1. PICK i \in DOMAIN provenance : provenance[i].key = key
        BY <3>1 DEF Keys
      <4>2. Place(i) = path
        BY <1>1, <4>1 DEF Place
      <4> QED BY <2>2, <4>2 DEF Found
    <3>2. CASE key \notin Keys
      <4>1. PICK n \in Nat : n = Len(provenance) + 1
        BY <1>5
      <4>2. n \in DOMAIN provenance'
        <5>1. Len(provenance') = n
          BY <1>4, <3>2, <4>1
        <5> QED BY <1>5, <4>1, <5>1
      <4>3. provenance'[n] = [key |-> key, text |-> text]
        BY <1>4, <3>2, <4>1
      <4>4. Place(n)' = path
        <5>1. provenance'[n].key = key
          BY <4>3
        <5> QED BY <1>1, <5>1 DEF Place
      <4> QED BY <4>2, <4>4 DEF Found
    <3> QED BY <3>1, <3>2
  <2>4. Found' \subseteq Found \cup {path}
    BY <1>9 DEF Found
  <2> QED BY <2>2, <2>3, <2>4
<1> QED BY <1>5, <1>8, <1>9, <1>10 DEF text

(* What was seen under the words of a directive is the file it means,      *)
(* unless there is a namesake.                                             *)
LEMMA SeenBefore ==
  ASSUME TInv, phase[PIP] = "reading", InStep, NEW v, Origin(v), v.text \in Keys,
         ~HasNamesake(Here, Entity(PIP).file)
  PROVE  v.path \in Found
<1>1. PICK i \in DOMAIN provenance : provenance[i].key = v.text
  BY DEF Keys
<1>2. Place(i) = Join(Root, v.text) /\ Place(i) \in Found /\ Place(i) \in Group
  BY <1>1 DEF Place, Found, InStep
<1>3. Relative(Root, Place(i)) = v.text
  <2>1. DOMAIN provenance = 1..Len(provenance)
    BY LenProperties DEF TInv, ReaderOK
  <2> QED BY <1>1, <2>1, EntryIs DEF Place, Key
<1>4. CASE v.path = Join(Root, v.text)
  BY <1>2, <1>4
<1>5. ASSUME NEW f \in Group, NEW j \in DOMAIN Here[f].requires, Here[f].requires[j].path = v.text,
             v.path = Join(Dir(f), v.text)
      PROVE  v.path \in Found
  <2>1. Join(Dir(f), Here[f].requires[j].path) = Place(i)
    BY <1>2, <1>3, <1>5, Zenon DEF HasNamesake, Group, Root
  <2> QED BY <1>2, <1>5, <2>1
<1> QED BY <1>4, <1>5 DEF Origin

LEMMA VisitFileDInv == ASSUME TInv, DInv, VisitFile PROVE DInv'
<1> DEFINE v == Head(visits)
<1>1. /\ phase[PIP] = "reading" /\ visits # <<>> /\ PIP \in Handler /\ todo[PIP] # {}
      /\ UNCHANGED <<entities, options, disk, todo, phase, changes, turn, cache, handled>>
      /\ v \in Visit /\ Tail(visits) \in Seq(Visit)
      /\ ToSet(visits) = {v} \cup ToSet(Tail(visits))
  BY VisitIs DEF testVars
<1>2. \/ v.text \in Keys /\ visits' = Tail(visits) /\ provenance' = provenance
      \/ /\ v.text \notin Keys /\ v.path \in File /\ visits' = Following(v) \o Tail(visits)
         /\ provenance' = Put(Key(v.path), Read(v.path))
  BY VisitIs
<1> HIDE DEF v
<1>3. InStep /\ Searching /\ Upgrading /\ turn = 1
  BY <1>1 DEF DInv, InStep
<1>4. Here' = Here /\ Group' = Group /\ Root' = Root /\ Entity(PIP)' = Entity(PIP) /\ Pins' = Pins
  BY <1>1, SameGroup, SamePlaces
<1>5. /\ Group \subseteq File /\ \A f \in Group : Required(Here[f], f) \cap File \subseteq Group
      /\ \A f \in File : Here[f] = Read(f)
  BY <1>1, GroupIs
<1>6. /\ (v.path \in File => v.path \in Group) /\ Origin(v)
      /\ \A w \in ToSet(Tail(visits)) : (w.path \in File => w.path \in Group) /\ Origin(w)
  BY <1>1, <1>3 DEF Searching
<1>7. \A w : Origin(w)' <=> Origin(w)
  BY <1>4 DEF Origin
<1>8. Coming = {v.path} \cup {w.path : w \in ToSet(Tail(visits))}
  BY <1>1 DEF Coming
<1>9. ASSUME v.text \in Keys, visits' = Tail(visits), provenance' = provenance PROVE InStep' /\ Searching'
  <2>1. Found' = Found /\ \A i : Place(i)' = Place(i)
    BY <1>4, <1>9 DEF Found, Place
  <2>2. InStep'
    BY <1>1, <1>3, <1>4, <1>9, <2>1 DEF InStep
  <2>3. Coming' = {w.path : w \in ToSet(Tail(visits))}
    BY <1>9 DEF Coming
  <2>4. ~HasNamesake(Here, Entity(PIP).file) => Found \cup Coming = Found \cup Coming'
    BY <1>1, <1>3, <1>6, <1>8, <1>9, <2>3, SeenBefore
  <2>5. \A w \in ToSet(visits') : (w.path \in File => w.path \in Group') /\ Origin(w)'
    BY <1>4, <1>6, <1>7, <1>9
  <2>6. Searching'
    BY <1>3, <1>4, <2>1, <2>4, <2>5 DEF Searching
  <2> QED BY <2>2, <2>6
<1>10. ASSUME v.text \notin Keys, v.path \in File, visits' = Following(v) \o Tail(visits),
              provenance' = Put(Key(v.path), Read(v.path))
       PROVE  InStep' /\ Searching'
  <2>1. /\ Following(v) \in Seq(Visit) /\ v.path \in Group
        /\ DOMAIN Following(v) = DOMAIN Read(v.path).requires
        /\ \A i \in DOMAIN Following(v) :
             /\ Following(v)[i].text = Read(v.path).requires[i].path
             /\ Following(v)[i].path = Join(Dir(v.path), Read(v.path).requires[i].path)
        /\ {w.path : w \in ToSet(Following(v))} = Required(Read(v.path), v.path)
    BY <1>1, <1>6, <1>10, FollowingIs
  <2>2. ToSet(visits') = ToSet(Following(v)) \cup ToSet(Tail(visits))
    <3>1. Following(v) \in Seq(Visit) /\ Tail(visits) \in Seq(Visit)
      BY <1>1, <2>1
    <3> QED BY <1>10, <3>1, ToSetConcat
  <2>3. Coming' = Required(Here[v.path], v.path) \cup {w.path : w \in ToSet(Tail(visits))}
    BY <1>5, <1>10, <2>1, <2>2 DEF Coming
  <2>4. /\ DOMAIN provenance' = 1..Len(provenance') /\ DOMAIN provenance = 1..Len(provenance)
        /\ \A i, j \in DOMAIN provenance' : provenance'[i].key = provenance'[j].key => i = j
        /\ \A i \in DOMAIN provenance' :
             \/ provenance'[i].text = Read(v.path) /\ Place(i)' = v.path
             \/ i \in DOMAIN provenance /\ provenance'[i] = provenance[i] /\ Place(i)' = Place(i)
        /\ Found' = Found \cup {v.path}
    <3> DEFINE path == v.path
    <3> HIDE DEF path
    <3>1. path \in File /\ provenance' = Put(Key(path), Read(path))
      BY <1>1, <1>10 DEF path
    <3> QED BY <1>1, <1>3, <1>4, <3>1, PutPlaces DEF path
  <2>5. InStep'
    <3>1. Read(v.path) = Here[v.path]
      BY <1>5, <1>10
    <3>2. ASSUME NEW i \in DOMAIN provenance'
          PROVE  /\ Place(i)' \in Group' /\ provenance'[i].text.requires = Here'[Place(i)'].requires
                 /\ i >= turn' => provenance'[i].text = Here'[Place(i)']
      <4>1. CASE provenance'[i].text = Read(v.path) /\ Place(i)' = v.path
        BY <1>4, <2>1, <3>1, <4>1
      <4>2. CASE i \in DOMAIN provenance /\ provenance'[i] = provenance[i] /\ Place(i)' = Place(i)
        BY <1>1, <1>3, <1>4, <4>2 DEF InStep
      <4> QED BY <2>4, <4>1, <4>2
    <3> QED BY <1>1, <1>3, <2>4, <3>2 DEF InStep
  <2>6. \A w \in ToSet(visits') : (w.path \in File => w.path \in Group') /\ Origin(w)'
    <3> SUFFICES ASSUME NEW w \in ToSet(Following(v)) PROVE (w.path \in File => w.path \in Group) /\ Origin(w)
      BY <1>4, <1>6, <1>7, <2>2
    <3>1. Read(v.path) = Here[v.path]
      BY <1>5, <1>10
    <3>2. PICK i \in DOMAIN Following(v) : w = Following(v)[i]
      BY DEF ToSet
    <3>3. i \in DOMAIN Here[v.path].requires /\ w.text = Here[v.path].requires[i].path /\ w.path = Join(Dir(v.path), w.text)
      BY <2>1, <3>1, <3>2, Zenon
    <3>4. w.path \in Required(Here[v.path], v.path)
      BY <3>3 DEF Required
    <3>5. w.path \in File => w.path \in Group
      BY <1>5, <2>1, <3>4
    <3>6. Origin(w)
      BY <2>1, <3>3, Zenon DEF Origin
    <3> QED BY <3>5, <3>6
  <2>7. Searching'
    <3>1. ~HasNamesake(Here, Entity(PIP).file) =>
            /\ Entity(PIP).file \in Found' \cup Coming'
            /\ \A f \in Found' : Required(Here[f], f) \cap File \subseteq Found' \cup Coming'
      BY <1>3, <1>8, <2>3, <2>4 DEF Searching
    <3> QED BY <1>4, <2>6, <3>1 DEF Searching
  <2> QED BY <2>5, <2>7
<1>11. Upgrading'
  <2>2. \A i \in DOMAIN provenance' : ~(i < turn')
    <3>1. provenance' \in Seq(Entry)
      BY VisitFileTInv DEF TInv, ReaderOK
    <3>2. DOMAIN provenance' \subseteq Nat \ {0}
      BY <3>1, LenProperties
    <3> QED BY <1>1, <1>3, <3>2
  <2>3. \A i \in DOMAIN provenance : ~(i < turn)
    <3>1. DOMAIN provenance \subseteq Nat \ {0}
      BY LenProperties DEF TInv, ReaderOK
    <3> QED BY <1>3, <3>1
  <2>4. ~options.dryRun => Issues(changes[PIP]) = {}
    BY <1>3, <2>3 DEF Upgrading
  <2>5. Issues(changes[PIP])' = Issues(changes[PIP])
    BY <1>1 DEF Issues
  <2> QED BY <1>1, <1>3, <1>4, <2>2, <2>4, <2>5 DEF Upgrading
<1>12. Remembered' /\ Claimed'
  <2>1. Better /\ Successes(PIP)' = Successes(PIP)
    BY <1>1 DEF Better, Successes
  <2> QED BY <1>1, <2>1, KeepsClaims DEF DInv
<1>13. InStep' /\ Searching'
  BY <1>2, <1>9, <1>10
<1> QED BY <1>11, <1>12, <1>13 DEF DInv

(* What an upgrade and a pin make of the lines.                            *)
LEMMA UpgradedLines ==
  ASSUME NEW lines \in SUBSET Line, NEW pins
  PROVE  /\ \A x \in pins : ~Old(Upgraded(lines, pins), x)
         /\ \A x : Old(Upgraded(lines, pins), x) => Old(lines, x)
         /\ \A x : New(lines, x) => New(Upgraded(lines, pins), x)
         /\ \A c \in UpgradeChanges(lines, pins) : c.pkg \in pins /\ New(Upgraded(lines, pins), c.pkg)
         /\ UpgradeChanges(lines, pins) = {} => \A x \in pins : ~Old(lines, x)
<1> DEFINE able == Upgradable(lines, pins)
           moved == {[l EXCEPT !.version = "new"] : l \in able}
<1>1. /\ able = {l \in lines : l.name \in pins /\ l.version \in {"old", "prefix"}}
      /\ Upgraded(lines, pins) = (lines \ able) \cup moved
  BY DEF Upgradable, Upgraded
<1>2. \A l \in able : [l EXCEPT !.version = "new"].name = l.name /\ [l EXCEPT !.version = "new"].version = "new"
  <2>1. able \subseteq Line
    BY <1>1
  <2> HIDE DEF able
  <2> QED BY <2>1 DEF Line
<1>3. /\ \A m \in moved : m.version = "new" /\ \E l \in able : m.name = l.name
      /\ \A l \in able : \E m \in moved : m.name = l.name /\ m.version = "new"
  <2> HIDE DEF able
  <2> QED BY <1>2
<1> HIDE DEF able, moved
<1>4. \A x \in pins : ~Old(Upgraded(lines, pins), x)
  BY <1>1, <1>3 DEF Old
<1>5. \A x : Old(Upgraded(lines, pins), x) => Old(lines, x)
  BY <1>1, <1>3 DEF Old
<1>6. \A x : New(lines, x) => New(Upgraded(lines, pins), x)
  BY <1>1, <1>3 DEF New
<1>7. UpgradeChanges(lines, pins) = {Took(l.name, l.version) : l \in able}
  BY DEF UpgradeChanges, able
<1>8. \A c \in UpgradeChanges(lines, pins) : c.pkg \in pins /\ New(Upgraded(lines, pins), c.pkg)
  <2> SUFFICES ASSUME NEW l \in able, NEW c, c = Took(l.name, l.version)
               PROVE  c.pkg \in pins /\ New(Upgraded(lines, pins), c.pkg)
    BY <1>7
  <2>1. c.pkg = l.name
    BY DEF Took
  <2> QED BY <1>1, <1>3, <2>1 DEF New
<1>9. UpgradeChanges(lines, pins) = {} => \A x \in pins : ~Old(lines, x)
  BY <1>1, <1>7 DEF Old
<1> QED BY <1>4, <1>5, <1>6, <1>8, <1>9

LEMMA PinnedLines ==
  ASSUME NEW lines \in SUBSET Line, NEW pins
  PROVE  /\ \A x : Old(Pinned(lines, pins), x) => Old(lines, x)
         /\ \A x : New(lines, x) => New(Pinned(lines, pins), x)
         /\ \A c \in PinChanges(lines, pins) \cup UpgradeChanges(lines, pins) :
              c.pkg \in pins /\ New(Pinned(lines, pins), c.pkg)
<1> DEFINE added == {[name |-> p, version |-> "new"] : p \in Transitive(lines, pins)}
<1>1. Pinned(lines, pins) = Upgraded(lines, pins) \cup added
  BY DEF Pinned
<1>2. /\ \A m \in added : m.version = "new"
      /\ \A p \in Transitive(lines, pins) : \E m \in added : m.name = p /\ m.version = "new"
  <2>1. \A p : [name |-> p, version |-> "new"].name = p /\ [name |-> p, version |-> "new"].version = "new"
    OBVIOUS
  <2>2. \A p \in Transitive(lines, pins) : [name |-> p, version |-> "new"] \in added
    OBVIOUS
  <2>3. \A m \in added : \E p \in Transitive(lines, pins) : m = [name |-> p, version |-> "new"]
    OBVIOUS
  <2> HIDE DEF added
  <2>4. \A m \in added : m.version = "new"
    BY <2>1, <2>3
  <2>5. \A p \in Transitive(lines, pins) : \E m \in added : m.name = p /\ m.version = "new"
    BY <2>1, <2>2, Zenon
  <2> QED BY <2>4, <2>5
<1> HIDE DEF added
<1>3. \A c \in PinChanges(lines, pins) : c.pkg \in pins /\ New(Pinned(lines, pins), c.pkg)
  <2> SUFFICES ASSUME NEW p \in Transitive(lines, pins), NEW c, c = Took(p, "old")
               PROVE  c.pkg \in pins /\ New(Pinned(lines, pins), c.pkg)
    BY DEF PinChanges
  <2>1. c.pkg = p /\ p \in pins
    BY DEF Took, Transitive
  <2> QED BY <1>1, <1>2, <2>1 DEF New
<1>4. /\ \A x : Old(Upgraded(lines, pins), x) => Old(lines, x)
      /\ \A x : New(lines, x) => New(Upgraded(lines, pins), x)
      /\ \A c \in UpgradeChanges(lines, pins) : c.pkg \in pins /\ New(Upgraded(lines, pins), c.pkg)
  BY UpgradedLines
<1>5. /\ \A x : New(Upgraded(lines, pins), x) => New(Pinned(lines, pins), x)
      /\ \A x : Old(Pinned(lines, pins), x) => Old(Upgraded(lines, pins), x)
  BY <1>1, <1>2 DEF Old, New
<1> QED BY <1>3, <1>4, <1>5

(* A file that is written, or not.                                         *)
LEMMA SaveBetter ==
  ASSUME TInv, todo[PIP] # {}, NEW path \in File, NEW text, NEW same \in BOOLEAN,
         IF same THEN UNCHANGED disk ELSE Save(path, text),
         UNCHANGED <<entities, todo>>,
         text.requires = Here[path].requires,
         \A x : Old(text.lines, x) => Old(Here[path].lines, x),
         \A x : New(Here[path].lines, x) => New(text.lines, x)
  PROVE  /\ Better
         /\ \A f \in File : f # path => Here'[f] = Here[f]
         /\ ~options.dryRun /\ ~same => Here'[path] = text
         /\ same \/ options.dryRun => Here' = Here
<1>1. disk' = disk \/ disk' = [disk EXCEPT ![Entity(PIP).path][path] = text]
  BY DEF Save
<1>2. Entity(PIP).path \in 1..Paths /\ disk \in [1..Paths -> [File -> Text]]
  BY PipFile DEF TInv, DiskOK
<1>3. Entity(PIP)' = Entity(PIP)
  BY SamePlaces
<1> DEFINE p == Entity(PIP).path
<1>4. Here = disk[p] /\ Here' = disk'[p]
  BY <1>3 DEF Here
<1>5. same \/ options.dryRun => disk' = disk
  BY DEF Save
<1>6. ~options.dryRun /\ ~same => disk' = [disk EXCEPT ![p][path] = text]
  BY DEF Save
<1>7. p \in 1..Paths
  BY <1>2
<1> HIDE DEF p
<1>8. CASE disk' = disk
  BY <1>2, <1>4, <1>5, <1>6, <1>7, <1>8 DEF Better
<1>9. CASE disk' = [disk EXCEPT ![p][path] = text]
  <2>1. \A q \in 1..Paths : \A f \in File : disk'[q][f] = IF q = p /\ f = path THEN text ELSE disk[q][f]
    BY <1>2, <1>7, <1>9
  <2>2. Better
    BY <1>4, <2>1 DEF Better
  <2>3. /\ \A f \in File : f # path => Here'[f] = Here[f]
        /\ Here'[path] = text
    BY <1>4, <1>7, <2>1
  <2> QED BY <1>4, <1>5, <2>2, <2>3
<1> QED BY <1>1, <1>8, <1>9 DEF p

LEMMA PlacesDiffer ==
  ASSUME TInv, phase[PIP] = "reading", InStep, NEW i \in DOMAIN provenance, NEW j \in DOMAIN provenance, Place(i) = Place(j)
  PROVE  i = j
<1>1. DOMAIN provenance = 1..Len(provenance)
  BY LenProperties DEF TInv, ReaderOK
<1>2. Key(Place(i)) = provenance[i].key /\ Key(Place(j)) = provenance[j].key
  BY <1>1, EntryIs DEF Place
<1>3. provenance[i].key = provenance[j].key
  BY <1>2
<1> QED BY <1>3 DEF InStep

(* Nothing of what is reached or named alike changes for the current       *)
(* entity.                                                                 *)
LEMMA GroupBetter ==
  ASSUME TInv, todo[PIP] # {}, Better, UNCHANGED <<entities, todo, provenance>>
  PROVE  /\ Entity(PIP)' = Entity(PIP) /\ Root' = Root /\ Pins' = Pins /\ Group' = Group
         /\ (HasNamesake(Here, Entity(PIP).file)' <=> HasNamesake(Here, Entity(PIP).file))
         /\ Found' = Found /\ \A i : Place(i)' = Place(i)
         /\ \A f \in File : /\ Here'[f].requires = Here[f].requires
                            /\ Required(Here'[f], f) = Required(Here[f], f)
                            /\ \A x : /\ Old(Here'[f].lines, x) => Old(Here[f].lines, x)
                                      /\ New(Here[f].lines, x) => New(Here'[f].lines, x)
<1>1. Entity(PIP)' = Entity(PIP) /\ Root' = Root /\ Pins' = Pins
  BY SamePlaces
<1>2. Entity(PIP).path \in 1..Paths
  BY PipFile
<1>3. Here' = disk'[Entity(PIP).path]
  BY <1>1 DEF Here
<1>4. \A file : /\ Reach(Here', file) = Reach(Here, file)
                /\ HasNamesake(Here', file) <=> HasNamesake(Here, file)
  BY <1>2, <1>3, ReachBetter DEF Here
<1>5. Found' = Found /\ \A i : Place(i)' = Place(i)
  BY <1>1 DEF Found, Place
<1>6. \A f \in File : /\ Here'[f].requires = Here[f].requires
                      /\ \A x : /\ Old(Here'[f].lines, x) => Old(Here[f].lines, x)
                                /\ New(Here[f].lines, x) => New(Here'[f].lines, x)
  BY <1>2, <1>3 DEF Better, Here
<1>7. \A f \in File : Required(Here'[f], f) = Required(Here[f], f)
  BY <1>6 DEF Required
<1> QED BY <1>1, <1>4, <1>5, <1>6, <1>7 DEF Group

LEMMA UpgradeFileDInv == ASSUME TInv, DInv, UpgradeFile PROVE DInv'
<1> DEFINE lines == provenance[turn].text.lines
           text == [provenance[turn].text EXCEPT !.lines = Upgraded(lines, Pins)]
           new == UpgradeChanges(lines, Pins)
           path == Place(turn)
<1>1. /\ phase[PIP] = "reading" /\ visits = <<>> /\ turn \in 1..Len(provenance) /\ PIP \in Handler /\ todo[PIP] # {}
      /\ turn' = turn + 1
      /\ UNCHANGED <<entities, options, todo, phase, visits, provenance, cache, handled>>
      /\ changes' = [changes EXCEPT ![PIP] = @ \cup new]
      /\ IF new = {} THEN UNCHANGED disk ELSE Save(path, text)
  BY UpgradeIs DEF testVars, Place
<1>2. InStep /\ Searching /\ Upgrading
  BY <1>1 DEF DInv
<1>3. /\ provenance[turn].text \in Text /\ lines \subseteq Line /\ path \in File
      /\ DOMAIN provenance = 1..Len(provenance) /\ DOMAIN provenance \subseteq Nat
  BY <1>1, EntryIs, LenProperties DEF Place, TInv, ReaderOK
<1>4. provenance[turn].text = Here[path] /\ path \in Group
  BY <1>1, <1>2, <1>3 DEF InStep
<1>5. /\ \A x \in Pins : ~Old(Upgraded(lines, Pins), x)
      /\ \A x : Old(Upgraded(lines, Pins), x) => Old(lines, x)
      /\ \A x : New(lines, x) => New(Upgraded(lines, Pins), x)
      /\ \A c \in new : c.pkg \in Pins /\ New(Upgraded(lines, Pins), c.pkg)
      /\ new = {} => \A x \in Pins : ~Old(lines, x)
  <2> HIDE DEF lines
  <2> QED BY <1>3, UpgradedLines DEF new
<1>6. text.requires = Here[path].requires /\ text.lines = Upgraded(lines, Pins) /\ lines = Here[path].lines
  <2>1. Upgraded(lines, Pins) \subseteq Line
    <3>1. Pins \subseteq Pkg
      BY <1>1, PipFile
    <3> HIDE DEF lines
    <3> QED BY <1>3, <3>1, LinesTyped
  <2> QED BY <1>3, <1>4, <2>1, TextWith
<1> HIDE DEF lines, text, new, path
<1>7. /\ Better
      /\ \A f \in File : f # path => Here'[f] = Here[f]
      /\ ~options.dryRun /\ new # {} => Here'[path] = text
      /\ new = {} \/ options.dryRun => Here' = Here
  <2> DEFINE same == new = {}
  <2>1. same \in BOOLEAN /\ (same <=> new = {}) /\ IF same THEN UNCHANGED disk ELSE Save(path, text)
    BY <1>1
  <2>2. /\ \A x : Old(text.lines, x) => Old(Here[path].lines, x)
        /\ \A x : New(Here[path].lines, x) => New(text.lines, x)
    BY <1>5, <1>6
  <2> HIDE DEF same
  <2> QED BY <1>1, <1>3, <1>6, <2>1, <2>2, SaveBetter
<1>8. /\ Entity(PIP)' = Entity(PIP) /\ Root' = Root /\ Pins' = Pins /\ Group' = Group
      /\ (HasNamesake(Here, Entity(PIP).file)' <=> HasNamesake(Here, Entity(PIP).file))
      /\ Found' = Found /\ \A i : Place(i)' = Place(i)
      /\ \A f \in File : /\ Here'[f].requires = Here[f].requires
                         /\ Required(Here'[f], f) = Required(Here[f], f)
                         /\ \A x : /\ Old(Here'[f].lines, x) => Old(Here[f].lines, x)
                                   /\ New(Here[f].lines, x) => New(Here'[f].lines, x)
  BY <1>1, <1>7, GroupBetter
<1>9. Group \subseteq File /\ Found \subseteq Group
  BY <1>1, <1>2, GroupIs DEF Found, InStep
<1>10. InStep'
  <2>1. \A i \in DOMAIN provenance : i >= turn' => i # turn /\ i >= turn
    BY <1>1, <1>3
  <2>2. \A i \in DOMAIN provenance : i # turn => Place(i) # path
    BY <1>1, <1>2, <1>3, PlacesDiffer DEF path
  <2>3. \A i \in DOMAIN provenance : Place(i) \in File
    BY <1>2, <1>9 DEF InStep
  <2> QED BY <1>1, <1>2, <1>7, <1>8, <2>1, <2>2, <2>3 DEF InStep
<1>11. Searching'
  <2>1. ToSet(visits') = {} /\ ToSet(visits) = {}
    BY <1>1 DEF ToSet
  <2>2. Coming' = Coming
    BY <2>1 DEF Coming
  <2> QED BY <1>2, <1>8, <1>9, <2>1, <2>2 DEF Searching
<1>12. Upgrading'
  <2>1. Issues(changes[PIP])' = Issues(changes[PIP]) \cup Issues(new)
    <3>1. changes'[PIP] = changes[PIP] \cup new
      BY <1>1 DEF TInv, HandlersOK
    <3> QED BY <3>1 DEF Issues
  <2>2. \A x \in Issues(new) : x \in Pins /\ new # {} /\ New(text.lines, x)
    BY <1>5, <1>6 DEF Issues
  <2>3. \A i \in DOMAIN provenance : Place(i) \in File
    BY <1>2, <1>9 DEF InStep
  <2>4. ASSUME ~options.dryRun, NEW i \in DOMAIN provenance, i < turn', NEW x \in Pins PROVE ~Old(Here'[Place(i)].lines, x)
    <3>1. CASE i < turn
      BY <1>2, <1>8, <2>3, <2>4, <3>1 DEF Upgrading
    <3>2. CASE i = turn
      <4>1. CASE new = {}
        BY <1>5, <1>6, <1>7, <3>2, <4>1 DEF path
      <4>2. CASE new # {}
        BY <1>5, <1>6, <1>7, <2>4, <3>2, <4>2 DEF path
      <4> QED BY <4>1, <4>2
    <3>3. i < turn \/ i = turn
      BY <1>1, <1>3, <2>4
    <3> QED BY <3>1, <3>2, <3>3
  <2>5. ASSUME ~options.dryRun, NEW x \in Issues(changes[PIP]) \cup Issues(new)
        PROVE  \E i \in DOMAIN provenance : i < turn' /\ New(Here'[Place(i)].lines, x)
    <3>1. CASE x \in Issues(changes[PIP])
      <4>1. PICK i \in DOMAIN provenance : i < turn /\ New(Here[Place(i)].lines, x)
        BY <1>2, <2>5, <3>1 DEF Upgrading
      <4>2. i < turn'
        BY <1>1, <1>3, <4>1
      <4> QED BY <1>8, <2>3, <4>1, <4>2
    <3>2. CASE x \in Issues(new)
      <4>1. turn \in DOMAIN provenance /\ turn < turn'
        BY <1>1, <1>3
      <4>2. New(Here'[Place(turn)].lines, x)
        BY <1>7, <2>2, <2>5, <3>2 DEF path
      <4> QED BY <4>1, <4>2
    <3> QED BY <2>5, <3>1, <3>2
  <2>6. Issues(changes[PIP]) \subseteq Pins
    BY <1>2 DEF Upgrading
  <2> QED BY <1>1, <1>8, <2>1, <2>2, <2>4, <2>5, <2>6 DEF Upgrading
<1>13. Remembered' /\ Claimed'
  <2>1. Successes(PIP)' = Successes(PIP)
    BY <1>1 DEF Successes
  <2> QED BY <1>1, <1>7, <2>1, KeepsClaims DEF DInv
<1> QED BY <1>10, <1>11, <1>12, <1>13 DEF DInv

(* Once nothing is left to visit, all that is reached was found.           *)
LEMMA FoundAll ==
  ASSUME TInv, phase[PIP] = "reading", InStep, Searching, visits = <<>>, ~HasNamesake(Here, Entity(PIP).file)
  PROVE  Group \subseteq Found
<1>1. /\ Group \subseteq File /\ Entity(PIP).file \in Group
      /\ \A S \in SUBSET File : Entity(PIP).file \in S /\ Closed(Here, S) => Group \subseteq S
  BY HandlerTyped, GroupIs DEF PIP, Handler
<1>2. Coming = {}
  BY DEF Coming, ToSet
<1>3. Found \subseteq File
  BY <1>1 DEF Found, InStep
<1>4. Entity(PIP).file \in Found /\ Closed(Here, Found)
  BY <1>2 DEF Searching, Closed
<1> QED BY <1>1, <1>3, <1>4

LEMMA PinRestDInv == ASSUME TInv, DInv, PinRest PROVE DInv'
<1> DEFINE lines == PinText.lines
           text == [PinText EXCEPT !.lines = Pinned(lines, Rest)]
           all == changes[PIP] \cup PinNew
           i == Current(PIP)
           file == Entity(PIP).file
           p == Entity(PIP).path
<1>1. /\ phase[PIP] = "reading" /\ visits = <<>> /\ turn > Len(provenance) /\ PIP \in Handler /\ todo[PIP] # {}
      /\ UNCHANGED <<entities, options, visits, provenance, turn>>
      /\ PinPath \in File /\ PinPath \in {file} \cup Required(Read(file), file)
      /\ PinText \in Text /\ lines \subseteq Line
      /\ Rest \subseteq Pins /\ Pinned(lines, Rest) \subseteq Line
      /\ IF PinNew = {} THEN UNCHANGED disk ELSE Save(PinPath, text)
      /\ Finish(all)
  BY PinRestIs DEF testVars
<1>2. InStep /\ Searching /\ Upgrading
  BY <1>1 DEF DInv
<1>3. /\ p \in 1..Paths /\ file \in File
      /\ \A f \in File : Here[f] = Read(f)
      /\ Group \subseteq File /\ file \in Group
      /\ \A f \in Group : Required(Here[f], f) \cap File \subseteq Group
  BY <1>1, GroupIs
<1>4. PinPath \in Group /\ PinText = Here[PinPath]
  BY <1>1, <1>3 DEF PinText
<1>5. /\ \A x : Old(Pinned(lines, Rest), x) => Old(lines, x)
      /\ \A x : New(lines, x) => New(Pinned(lines, Rest), x)
      /\ \A c \in PinNew : c.pkg \in Rest /\ New(Pinned(lines, Rest), c.pkg)
  <2> HIDE DEF lines
  <2> QED BY <1>1, PinnedLines DEF PinNew, lines
<1>6. text.requires = Here[PinPath].requires /\ text.lines = Pinned(lines, Rest) /\ lines = Here[PinPath].lines
  BY <1>1, <1>4, TextWith
<1>7. i \in DOMAIN entities /\ Entity(PIP) = entities[i] /\ p = entities[i].path /\ file = entities[i].file
  BY <1>1, HandlerTyped DEF Entity
<1> HIDE DEF lines, text, all, i, file, p
<1>8. /\ EntityFails(PIP) \/ EntitySucceeds(PIP, Issues(all), file)
      /\ phase'[PIP] = "next"
  <2>1. EntityFails(PIP) \/ EntitySucceeds(PIP, Issues(all), file)
    BY <1>1, Zenon DEF Finish, file
  <2>2. HandlersOK /\ entities' = entities
    BY <1>1 DEF TInv
  <2> QED BY <1>1, <2>1, <2>2, FailsIs, SucceedsIs
<1>9. /\ Better
      /\ ~options.dryRun /\ PinNew # {} => disk'[p][PinPath] = text
  <2>1. disk' = disk \/ disk' = [disk EXCEPT ![p][PinPath] = text]
    BY <1>1 DEF Save, p
  <2>2. disk \in [1..Paths -> [File -> Text]]
    BY DEF TInv, DiskOK
  <2>3. Here = disk[p]
    BY DEF Here, p
  <2>4. ~options.dryRun /\ PinNew # {} => disk' = [disk EXCEPT ![p][PinPath] = text]
    BY <1>1 DEF Save, p
  <2>5. CASE disk' = [disk EXCEPT ![p][PinPath] = text]
    <3>1. \A q \in 1..Paths : \A f \in File : disk'[q][f] = IF q = p /\ f = PinPath THEN text ELSE disk[q][f]
      BY <1>1, <1>3, <2>2, <2>5
    <3> QED BY <1>1, <1>3, <1>5, <1>6, <2>3, <3>1 DEF Better
  <2>6. CASE disk' = disk
    <3>1. Better
      BY <2>6 DEF Better
    <3>2. ~options.dryRun /\ PinNew # {} => disk'[p][PinPath] = text
      BY <1>1, <1>3, <2>2, <2>4
    <3> QED BY <3>1, <3>2
  <2> QED BY <2>1, <2>5, <2>6
<1>10. /\ Reach(disk'[p], file) = Group /\ Here = disk[p]
       /\ HasNamesake(disk'[p], file) <=> HasNamesake(Here, file)
  BY <1>3, <1>9, ReachBetter DEF Group, Here, p, file
<1>11. \A f \in File : \A x : /\ Old(disk'[p][f].lines, x) => Old(Here[f].lines, x)
                              /\ New(Here[f].lines, x) => New(disk'[p][f].lines, x)
  BY <1>3, <1>9, <1>10 DEF Better
<1>12. (* What the handler claims.                                         *)
       ASSUME ~options.dryRun, ~HasNamesake(disk'[p], file), NEW x \in Issues(all)
       PROVE  /\ \A f \in Group : ~Old(disk'[p][f].lines, x)
              /\ \E f \in Group : New(disk'[p][f].lines, x)
  <2>1. x \in Issues(changes[PIP]) \/ \E c \in PinNew : c.pkg = x
    BY <1>12 DEF Issues, all
  <2>2. x \in Pins
    BY <1>1, <1>2, <1>5, <2>1 DEF Upgrading
  <2>3. \A k \in DOMAIN provenance : k < turn /\ Place(k) \in Group
    <3>1. DOMAIN provenance = 1..Len(provenance) /\ turn \in 1..Len(provenance) + 1 /\ Len(provenance) \in Nat
      BY LenProperties DEF TInv, ReaderOK
    <3>2. turn = Len(provenance) + 1
      BY <1>1, <3>1
    <3> QED BY <1>2, <3>1, <3>2 DEF InStep
  <2>4. Group \subseteq Found
    BY <1>1, <1>2, <1>10, <1>12, FoundAll DEF file
  <2>5. \A f \in Group : ~Old(Here[f].lines, x)
    BY <1>2, <1>12, <2>2, <2>3, <2>4 DEF Upgrading, Found
  <2>6. \E f \in Group : New(disk'[p][f].lines, x)
    <3>1. CASE x \in Issues(changes[PIP])
      <4>1. PICK k \in DOMAIN provenance : New(Here[Place(k)].lines, x)
        BY <1>2, <1>12, <3>1 DEF Upgrading
      <4> QED BY <1>3, <1>11, <2>3, <4>1
    <3>2. CASE \E c \in PinNew : c.pkg = x
      <4>1. New(text.lines, x) /\ PinNew # {}
        BY <1>5, <1>6, <3>2
      <4> QED BY <1>4, <1>9, <1>12, <4>1
    <3> QED BY <2>1, <3>1, <3>2
  <2> QED BY <1>3, <1>11, <2>5, <2>6
<1>13. /\ \A f \in DOMAIN cache : \A hit : hit = cache[f] => Hit(f, hit)'
       /\ cache' = cache => Remembered'
       /\ \A s \in Successes(PIP) : Honest(s)'
       /\ Successes(PIP)' \subseteq Successes(PIP) => Claimed'
  BY <1>1, <1>9, KeepsClaims DEF DInv
<1>14. CASE all = {}
  <2>1. EntityFails(PIP) /\ cache' = cache
    BY <1>1, <1>14, Zenon DEF Finish
  <2>2. Successes(PIP)' = Successes(PIP)
    BY <1>1, <2>1, FailsIs DEF TInv, Successes
  <2> QED BY <1>8, <1>13, <2>1, <2>2 DEF DInv
<1>15. CASE all # {}
  <2>1. /\ EntitySucceeds(PIP, Issues(all), file)
        /\ cache' = [f \in Found \cup DOMAIN cache |->
                       IF f \in Found THEN [fixedIn |-> file, issues |-> Issues(all)] ELSE cache[f]]
    <3>1. Found = {Join(Root, key) : key \in Keys}
      BY DEF Found, Place, Keys
    <3> QED BY <1>1, <1>15, <3>1, Zenon DEF Finish, file
  <2>2. Successes(PIP)' = Successes(PIP) \cup {Success(i, Issues(all), file)}
    BY <1>1, <2>1, SucceedsIs DEF TInv, Successes, i
  <2>3. Remembered'
    <3> SUFFICES ASSUME NEW f \in DOMAIN cache', NEW hit, hit = cache'[f] PROVE Hit(f, hit)'
      BY DEF Remembered
    <3>1. CASE f \notin Found
      <4>1. f \in DOMAIN cache /\ hit = cache[f]
        BY <2>1, <3>1
      <4> QED BY <1>13, <4>1
    <3>2. CASE f \in Found
      <4>1. hit = [fixedIn |-> file, issues |-> Issues(all)]
        BY <2>1, <3>2
      <4>2. hit.fixedIn = file /\ hit.issues = Issues(all)
        BY <4>1
      <4>3. f \in Reach(disk'[p], file)
        BY <1>2, <1>10, <3>2 DEF InStep, Found
      <4>4. entities' = entities /\ options' = options
        BY <1>1
      <4>5. \A k : k = i => Holds(k, hit.issues)'
        BY <1>7, <1>10, <1>12, <4>2, <4>4 DEF Holds, Claim
      <4> QED BY <1>7, <4>2, <4>3, <4>4, <4>5 DEF Hit
    <3> QED BY <3>1, <3>2
  <2>4. Claimed'
    <3> SUFFICES ASSUME NEW s, s = Success(i, Issues(all), file) PROVE Honest(s)'
      BY <1>13, <2>2 DEF Claimed
    <3>1. s.entity = i /\ s.fixed = Issues(all) /\ s.through = file
      BY DEF Success
    <3>2. entities' = entities /\ options' = options
      BY <1>1
    <3>3. ~options.dryRun /\ ~HasNamesake(disk'[p], file) => FixedOnDisk(s)'
      BY <1>7, <1>10, <1>12, <3>1, <3>2 DEF FixedOnDisk
    <3> QED BY <1>7, <3>1, <3>2, <3>3 DEF Honest
  <2> QED BY <1>8, <2>3, <2>4 DEF DInv
<1> QED BY <1>14, <1>15

LEMMA TakeFixedDInv == ASSUME TInv, DInv, TakeFixed PROVE DInv'
<1> DEFINE i == Current(PIP)
           file == Entity(PIP).file
           p == Entity(PIP).path
           hit == cache[file]
<1>1. /\ phase[PIP] = "next" /\ todo[PIP] # {} /\ PIP \in Handler /\ file \in DOMAIN cache
      /\ EntitySucceeds(PIP, hit.issues \cap Entity(PIP).issues, hit.fixedIn)
      /\ UNCHANGED <<entities, options, disk, cache>>
  BY DEF TakeFixed, NextIs, testVars, readerVars, PIP, Handler
<1>2. i \in DOMAIN entities /\ Entity(PIP) = entities[i] /\ p = entities[i].path /\ file = entities[i].file
  BY <1>1, HandlerTyped DEF Entity
<1> DEFINE s == Success(i, hit.issues \cap Entity(PIP).issues, hit.fixedIn)
<1>3. s.entity = i /\ s.fixed \subseteq hit.issues /\ s.through = hit.fixedIn
  BY DEF Success
<1>4. Hit(file, hit)
  BY <1>1 DEF DInv, Remembered
<1>5. phase'[PIP] = "next" /\ Successes(PIP)' = Successes(PIP) \cup {s}
  BY <1>1, SucceedsIs DEF TInv, Successes
<1> HIDE DEF s, i, file, p, hit
<1>6. Honest(s)
  <2> SUFFICES ASSUME ~options.dryRun, ~SharesFile(i), ~HasNamesake(disk[p], hit.fixedIn) PROVE FixedOnDisk(s)
    BY <1>2, <1>3 DEF Honest
  <2>1. PICK k \in DOMAIN entities : /\ hit.fixedIn = entities[k].file
                                     /\ file \in Reach(disk[entities[k].path], entities[k].file)
                                     /\ Holds(k, hit.issues)
    BY <1>4 DEF Hit
  <2>2. entities[k].path = p
    BY <1>2, <2>1 DEF SharesFile
  <2>3. Claim(p, hit.fixedIn, hit.issues)
    BY <2>1, <2>2 DEF Holds
  <2>4. hit.fixedIn \in File
    <3>1. ASSUME hit.fixedIn \notin File, NEW f \in Reach(disk[p], hit.fixedIn) PROVE FALSE
      <4>1. Closed(disk[p], {}) /\ {hit.fixedIn} \cap File \subseteq {}
        BY <3>1 DEF Closed
      <4> QED BY <3>1, <4>1 DEF Reach
    <3> QED BY <2>1, <2>2, <3>1
  <2>5. Reach(disk[p], file) \subseteq Reach(disk[p], hit.fixedIn)
    <3>1. file \in Reach(disk[p], hit.fixedIn) /\ p \in 1..Paths
      BY <1>2, <2>1, <2>2 DEF TInv, EntitiesOK
    <3> QED BY <2>4, <3>1, ReachWithin
  <2>6. disk[entities[s.entity].path] = disk[p] /\ entities[s.entity].file = file /\ s.through = hit.fixedIn
    BY <1>2, <1>3
  <2> QED BY <1>3, <2>3, <2>5, <2>6 DEF FixedOnDisk, Claim
<1>7. Better
  BY <1>1 DEF Better
<1>8. /\ Remembered'
      /\ \A r \in Successes(PIP) : Honest(r)'
  BY <1>1, <1>7, KeepsClaims DEF DInv
<1>9. \A r : r = s => Honest(r)'
  <2> SUFFICES ASSUME NEW r, r = s PROVE Honest(r)'
    OBVIOUS
  <2>1. r.entity \in DOMAIN entities /\ Honest(r)
    BY <1>2, <1>3, <1>6
  <2> QED BY <1>1, <1>7, <2>1, HonestBetter DEF TInv
<1>10. Claimed'
  BY <1>5, <1>8, <1>9 DEF Claimed
<1> QED BY <1>5, <1>8, <1>10 DEF DInv

(* A step that leaves the reader of requirements files where it is, or     *)
(* ends its work.                                                          *)
LEMMA ReaderStays ==
  ASSUME TInv, DInv, UNCHANGED <<entities, options, disk, visits, provenance, turn, cache>>,
         Successes(PIP)' \subseteq Successes(PIP),
         phase'[PIP] = "reading" => phase[PIP] = "reading" /\ todo'[PIP] = todo[PIP] /\ changes'[PIP] = changes[PIP]
  PROVE  DInv'
<1>1. Remembered' /\ Claimed'
  <2>1. Better
    BY DEF Better
  <2> QED BY <2>1, KeepsClaims DEF DInv
<1>2. ASSUME phase'[PIP] = "reading" PROVE InStep' /\ Searching' /\ Upgrading'
  <2>1. InStep /\ Searching /\ Upgrading
    BY <1>2 DEF DInv
  <2>2. Entity(PIP)' = Entity(PIP)
    BY <1>2, SameFor
  <2>3. Here' = Here /\ Group' = Group /\ Root' = Root /\ Pins' = Pins
    BY <2>2 DEF Here, Group, Root, Pins
  <2>4. (\A k : Place(k)' = Place(k)) /\ Found' = Found /\ Coming' = Coming /\ \A v : Origin(v)' <=> Origin(v)
    BY <2>3 DEF Place, Found, Coming, Origin
  <2>5. InStep' /\ Searching'
    BY <2>1, <2>2, <2>3, <2>4 DEF InStep, Searching
  <2>6. Issues(changes[PIP])' = Issues(changes[PIP])
    BY <1>2 DEF Issues
  <2>7. Upgrading'
    BY <2>1, <2>3, <2>4, <2>6 DEF Upgrading
  <2> QED BY <2>5, <2>7
<1> QED BY <1>1, <1>2 DEF DInv

LEMMA StepDInv == ASSUME TInv, DInv, [Next]_vars PROVE DInv'
<1>1. HandlersOK /\ PIP \in Handler
  BY DEF TInv, PIP, Handler
<1>2. CASE PipStep
  <2>1. CASE FileFails
    <3>1. EntityFails(PIP) /\ UNCHANGED <<entities, options, disk, visits, provenance, turn, cache>>
      BY <2>1 DEF FileFails, testVars, readerVars
    <3>2. phase'[PIP] = "next" /\ Successes(PIP)' = Successes(PIP)
      BY <1>1, <3>1, FailsIs DEF Successes
    <3> QED BY <3>1, <3>2, ReaderStays
  <2> QED BY <1>2, <2>1, TakeFixedDInv, StartFileDInv, VisitFileDInv, UpgradeFileDInv, PinRestDInv DEF PipStep
<1>3. CASE ToolStep
  <2>1. UNCHANGED <<testVars, disk, readerVars>>
    BY <1>3, Zenon DEF ToolStep, StartPipfile, StartPoetry, PoetryThrows, RunTool, FinishTool
  <2>2. UNCHANGED <<entities, options, disk, visits, provenance, turn, cache>>
    BY <2>1 DEF testVars, readerVars
  <2>3. phase'[PIP] = phase[PIP] /\ todo'[PIP] = todo[PIP] /\ changes'[PIP] = changes[PIP] /\ handled'[PIP] = handled[PIP]
    <3>1. CASE StartPipfile \/ StartPoetry \/ PoetryThrows
      <4>1. PIP # "pipfile" /\ PIP # "poetry"
        BY DEF PIP
      <4> QED BY <1>1, <3>1, <4>1 DEF HandlersOK, StartPipfile, StartPoetry, PoetryThrows
    <3>2. ASSUME NEW t \in Tool, RunTool(t) PROVE Others(t)
      <4>1. /\ UNCHANGED <<testVars, phase, todo, handled>>
            /\ \E new : changes' = [changes EXCEPT ![t] = @ \cup new]
        BY <3>2, Zenon DEF RunTool, Attempt
      <4> QED BY <1>1, <4>1, ToolIs DEF HandlersOK, Others, testVars
    <3>3. ASSUME NEW t \in Tool, FinishTool(t) PROVE Others(t)
      <4>1. EntityFails(t) \/ \E issues, through : EntitySucceeds(t, issues, through)
        BY <3>3, Zenon DEF FinishTool
      <4> QED BY <1>1, <2>2, <4>1, ToolIs, FailsIs, SucceedsIs
    <3>4. ASSUME NEW t \in Tool, Others(t)
          PROVE  /\ phase'[PIP] = phase[PIP] /\ todo'[PIP] = todo[PIP] /\ changes'[PIP] = changes[PIP]
                 /\ handled'[PIP] = handled[PIP]
      BY <3>4, ToolIs DEF Others
    <3> QED BY <1>3, <3>1, <3>2, <3>3, <3>4 DEF ToolStep
  <2>4. Successes(PIP)' = Successes(PIP)
    BY <2>3 DEF Successes
  <2> QED BY <2>2, <2>3, <2>4, ReaderStays
<1>4. CASE TestPath \/ StartFix
  <2>1. cache' = <<>> /\ handled'[PIP] = NothingHandled /\ phase'[PIP] # "reading"
    <3>1. QuietOK /\ pc = "testing" /\ cache' = cache /\ handled' = handled
      BY <1>4 DEF TestPath, StartFix, TInv, readerVars
    <3>2. phase'[PIP] # "reading"
      <4>1. CASE TestPath
        BY <1>1, <3>1, <4>1 DEF TestPath, QuietOK
      <4>2. CASE StartFix
        BY <1>1, <4>2 DEF StartFix
      <4> QED BY <1>4, <4>1, <4>2
    <3> QED BY <1>1, <3>1, <3>2 DEF QuietOK
  <2>2. DOMAIN cache' = {} /\ Successes(PIP)' = {}
    BY <2>1 DEF Successes, NothingHandled
  <2> QED BY <2>1, <2>2 DEF DInv, Remembered, Claimed
<1>5. ASSUME NEW h \in Handler, HandlerReturns(h) PROVE DInv'
  <2>1. /\ UNCHANGED <<entities, options, disk, visits, provenance, turn, cache, handled, todo, changes>>
        /\ phase' = [phase EXCEPT ![h] = "returned"]
    BY <1>5 DEF HandlerReturns, testVars, readerVars
  <2>2. phase'[PIP] = "reading" => phase[PIP] = "reading"
    BY <1>1, <2>1 DEF HandlersOK
  <2>3. Successes(PIP)' = Successes(PIP)
    BY <2>1 DEF Successes
  <2> QED BY <2>1, <2>2, <2>3, ReaderStays
<1>6. CASE (\E p \in Plugin : PluginReturns(p)) \/ Conclude \/ UNCHANGED vars
  <2>1. UNCHANGED <<entities, options, disk, readerVars, handled, todo, changes, phase>>
    BY <1>6, Zenon DEF PluginReturns, Conclude, vars, testVars
  <2>2. Successes(PIP)' = Successes(PIP) /\ UNCHANGED <<visits, provenance, turn, cache>>
    BY <2>1 DEF Successes, readerVars
  <2> QED BY <2>1, <2>2, ReaderStays
<1> QED BY <1>2, <1>3, <1>4, <1>5, <1>6 DEF Next, Step

(* What is reported as fixed in a live run is fixed in the files, and what *)
(* pipenv and Poetry are said to have fixed they installed.                *)
THEOREM FixedIsReallyFixed == Spec => []FixedIsFixed
<1>1. Init => TInv /\ ToolInv /\ DInv
  <2> SUFFICES ASSUME Init PROVE TInv /\ ToolInv /\ DInv
    OBVIOUS
  <2>1. TInv
    BY InitTInv
  <2>2. \A h \in Handler : phase[h] = "idle" /\ Successes(h) = {}
    BY DEF Init, Successes, NothingHandled
  <2>3. ToolInv
    BY <2>2, ToolIs DEF ToolInv, ToolOK
  <2>4. PIP \in Handler /\ DOMAIN cache = {}
    BY DEF Init, PIP, Handler
  <2>5. DInv
    BY <2>2, <2>4 DEF DInv, Remembered, Claimed
  <2> QED BY <2>1, <2>3, <2>5
<1>2. TInv /\ ToolInv /\ DInv /\ [Next]_vars => (TInv /\ ToolInv /\ DInv)'
  BY StepTInv, StepToolInv, StepDInv
<1>3. TInv /\ ToolInv /\ DInv => FixedIsFixed
  BY DEF ToolInv, ToolOK, DInv, Claimed, Honest, FixedIsFixed
<1> QED BY <1>1, <1>2, <1>3, PTL DEF Spec
=============================================================================
