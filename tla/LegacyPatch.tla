---------------------------- MODULE LegacyPatch ----------------------------
(***************************************************************************)
(* The patching of `snyk protect` and `snyk wizard` (src/lib/protect): the *)
(* vulnerabilities are deduplicated and taken one at a time, but the diffs *)
(* of one vulnerability are fetched and applied concurrently. A diff       *)
(* leaves an .orig beside every file it edits and one flag per package and *)
(* vulnerability; a flag makes the next run put the .orig files of the     *)
(* package back before it applies the diff again.                          *)
(*                                                                         *)
(* What the code does between two turns of the event loop is one action,   *)
(* unless the process is killed: then it may get no further than any of    *)
(* the writes of a turn, and writeFileSync empties a file before it fills  *)
(* it. Between runs npm may put a fresh copy of a package in place.        *)
(*                                                                         *)
(* The text of a file is what has become of it since it was installed: the *)
(* diffs applied to it, and the places a killed run has cut it off at.     *)
(***************************************************************************)
EXTENDS Naturals, Sequences, FiniteSets, SequencesExt, FiniteSetsExt

CONSTANTS
  Dirs,         \* directories of packages
  Ids,          \* vulnerability ids
  Urls,         \* diffs, by the url they are fetched from
  Routes,       \* package, version and the dependencies it is reached through
  PathCount,    \* paths of a package, numbered in the order glob lists them
  EditsOf,      \* the paths a diff edits, in its order
  List,         \* the vulnerabilities patch() is given
  Cuts,         \* places a text is cut off at when a run is killed writing it
  Whole,        \* it is not cut off
  Clashes,      \* <<x, u>>: lines u removes are gone after the diff or the cut x
  NoBackup,     \* a file has no .orig
  MaxRuns,      \* bound on the number of runs
  MaxKills      \* no run is killed once as many have died

Paths == 1..PathCount
Files == Dirs \X Paths
Text  == Seq(Urls \cup Cuts)

(* A vulnerability without applicable patches has no urls; one whose package  *)
(* is at no version its patches are for does not match.                       *)
Vulnerability ==
  [id : Ids, route : Routes, published : Nat, dir : Dirs, urls : SUBSET Urls,
   grouped : BOOLEAN, matches : BOOLEAN]

ASSUME ParametersAssumption ==
  /\ PathCount \in Nat
  /\ EditsOf \in [Urls -> Seq(Paths)]
  /\ List \in Seq(Vulnerability)
  /\ Cuts \cap Urls = {} /\ Whole \notin Cuts
  /\ Clashes \subseteq (Urls \cup Cuts) \X Urls
  /\ NoBackup \notin Text
  /\ MaxRuns \in Nat /\ MaxKills \in Nat

VARIABLES
  installed,\* the directories that exist
  content,  \* the text of a file
  orig,     \* the text in its .orig
  flags,    \* <<dir, id>>: the .snyk-<id>.flag files
  live,     \* not a dry run
  running,  \* the process exists
  todo,     \* vulnerabilities of the reduce still to do
  current,  \* the one it is at
  chain,    \* url by url, where its promise chain is
  found,    \* the .orig files glob has listed for it
  pending,  \* flags passed to fs.writeFile and not yet created
  reported, \* vulnerabilities that will be in the policy
  rejected, \* the promise patch() returned is rejected
  errorList,\* some diff ended in errorList
  outcome,  \* how the last run ended
  runs,
  deaths,   \* runs that have not come to their end
  spoilt    \* <<dir, id>>: what deaths have left there is not what the flag says

disk     == <<installed, content, orig, flags>>
promises == <<todo, current, reported>>
toll     == <<deaths, spoilt>>
vars     == <<disk, live, running, promises, chain, found, pending, rejected, errorList,
              outcome, runs, toll>>

NoChain == <<>>
Step    == {"fetching", "globbing", "listed", "diagnosing", "patched", "failed", "lost"}
Outcome == {"none", "patched", "threw", "contact_support", "exit_2", "killed"}

TypeOK ==
  /\ installed \subseteq Dirs
  /\ content \in [Files -> Text]
  /\ orig \in [Files -> Text \cup {NoBackup}]
  /\ flags \subseteq Dirs \X Ids
  /\ live \in BOOLEAN /\ running \in BOOLEAN /\ rejected \in BOOLEAN /\ errorList \in BOOLEAN
  /\ todo \subseteq DOMAIN List
  /\ current \in 0..Len(List)
  /\ DOMAIN chain = (IF current = 0 THEN {} ELSE List[current].urls)
  /\ \A u \in DOMAIN chain : chain[u] \in Step
  /\ found \in [Urls -> SUBSET Files]
  /\ pending \subseteq Dirs \X Ids
  /\ reported \subseteq DOMAIN List
  /\ outcome \in Outcome
  /\ runs \in 0..MaxRuns /\ deaths \in 0..MaxRuns /\ spoilt \subseteq Dirs \X Ids
-----------------------------------------------------------------------------
SameRoute(i) == {j \in DOMAIN List : List[j].route = List[i].route}

(* Mutant of Kept: the first one of a route.                                  *)
KeptFirst(i) == Min(SameRoute(i))

(* dedupe: of the vulnerabilities of one package reached by one route, the    *)
(* one published last is patched; the first of them if there are several.     *)
Kept(i) ==
  CHOOSE j \in SameRoute(i) : \A k \in SameRoute(i) :
    \/ List[k].published < List[j].published
    \/ List[k].published = List[j].published /\ j <= k

Packages == {Kept(i) : i \in DOMAIN List}
Removed  == DOMAIN List \ Packages

(* The vulnerabilities are taken in the order their routes are met in the     *)
(* list.                                                                      *)
Foremost == CHOOSE i \in todo : \A j \in todo : Min(SameRoute(i)) <= Min(SameRoute(j))

Vuln     == List[current]
Flag     == <<Vuln.dir, Vuln.id>>
Settled  == \A u \in DOMAIN chain : chain[u] \in {"patched", "failed"}
-----------------------------------------------------------------------------
Init ==
  /\ installed \in SUBSET Dirs
  /\ content = [f \in Files |-> <<>>]
  /\ orig = [f \in Files |-> NoBackup]
  /\ flags = {}
  /\ live = TRUE /\ running = FALSE
  /\ todo = {} /\ current = 0 /\ chain = NoChain /\ found = [u \in Urls |-> {}]
  /\ pending = {} /\ reported = {} /\ rejected = FALSE /\ errorList = FALSE
  /\ outcome = "none" /\ runs = 0 /\ deaths = 0 /\ spoilt = {}

(* patch(vulns, live): every package is located first. A live run throws when *)
(* one is not installed.                                                      *)
Start(isLive) ==
  /\ ~running /\ runs < MaxRuns
  /\ runs' = runs + 1
  /\ live' = isLive
  /\ current' = 0 /\ chain' = NoChain
  /\ rejected' = FALSE /\ errorList' = FALSE /\ found' = [u \in Urls |-> {}]
  /\ LET throws == isLive /\ \E i \in DOMAIN List : List[i].dir \notin installed
     IN /\ running' = ~throws
        /\ outcome' = IF throws THEN "threw" ELSE "none"
        /\ todo' = IF throws THEN {} ELSE Packages
        /\ reported' = IF throws THEN {} ELSE Removed
  /\ UNCHANGED <<disk, pending, toll>>

(* Those of the current vulnerability's chains that ended well put it in the  *)
(* result.                                                                    *)
WithCurrent ==
  reported \cup (IF \E u \in DOMAIN chain : chain[u] = "patched" THEN {current} ELSE {})

(* The reduce goes on once Promise.all of the current diffs has resolved.     *)
NextPackage ==
  /\ running /\ ~rejected /\ Settled /\ todo # {}
  /\ todo' = todo \ {Foremost}
  /\ current' = Foremost
  /\ chain' = [u \in List[Foremost].urls |-> "fetching"]
  /\ reported' = WithCurrent
  /\ UNCHANGED <<disk, live, running, found, pending, rejected, errorList, outcome, runs, toll>>

(* Mutant of Finish: the last package is still held.                          *)
FinishHolding ==
  /\ running /\ pending = {} /\ Settled /\ (rejected \/ todo = {})
  /\ running' = FALSE
  /\ reported' = WithCurrent
  /\ outcome' = IF rejected THEN "threw" ELSE IF errorList THEN "contact_support" ELSE "patched"
  /\ todo' = {} /\ chain' = NoChain
  /\ UNCHANGED <<disk, current, live, found, pending, rejected, errorList, runs, toll>>

(* Nothing is left to wait for and the process ends.                          *)
Finish ==
  /\ running /\ pending = {} /\ Settled /\ (rejected \/ todo = {})
  /\ running' = FALSE
  /\ reported' = WithCurrent
  /\ outcome' = CASE rejected -> "threw" [] ~rejected /\ errorList -> "contact_support" [] OTHER -> "patched"
  /\ todo' = {} /\ current' = 0 /\ chain' = NoChain
  /\ UNCHANGED <<disk, live, found, pending, rejected, errorList, runs, toll>>
-----------------------------------------------------------------------------
(* An error nothing catches ends the process at once (exit code 2): of the    *)
(* flags on their way to the disk any may have been created. Those that have  *)
(* not are spoilt, with what else the death has harmed.                       *)
Die(how, harmed) ==
  /\ running' = FALSE /\ outcome' = how
  /\ todo' = {} /\ current' = 0 /\ chain' = NoChain /\ pending' = {}
  /\ deaths' = deaths + 1
  /\ spoilt' = spoilt \cup harmed \cup (pending \ flags')

(* getPatchFile rejects, and with it patch(): the other diffs of this package *)
(* are still dealt with, no further package is.                               *)
FetchFails(u) ==
  /\ chain[u] = "fetching"
  /\ chain' = [chain EXCEPT ![u] = "failed"]
  /\ rejected' = TRUE
  /\ UNCHANGED <<disk, live, running, promises, found, pending, errorList, outcome, runs, toll>>

Fits(u, f, texts) == \A n \in DOMAIN texts[f] : <<texts[f][n], u>> \notin Clashes

Edits(u) == {<<Vuln.dir, EditsOf[u][n]>> : n \in DOMAIN EditsOf[u]}

(* The files loadFile reads: up to the first the diff does not fit.           *)
Read(u, texts) ==
  {<<Vuln.dir, EditsOf[u][n]>> : n \in
     {m \in DOMAIN EditsOf[u] :
        \A k \in 1..(m - 1) : Fits(u, <<Vuln.dir, EditsOf[u][k]>>, texts)}}

(* Mutant of BackedUp: an .orig that is there already is kept.                *)
BackedUpOnce(u, texts, origs) ==
  [f \in Files |-> IF f \in Read(u, texts) /\ origs[f] = NoBackup THEN texts[f] ELSE origs[f]]

(* loadFile copies what it reads to the .orig, in a dry run too.              *)
BackedUp(u, texts, origs) ==
  [f \in Files |-> IF f \in Read(u, texts) THEN texts[f] ELSE origs[f]]

Written(u, texts) ==
  [f \in Files |-> IF live /\ f \in Edits(u) THEN Append(texts[f], u) ELSE texts[f]]

(* Mutant of WriteFlag: no flag.                                              *)
WriteNoFlag == UNCHANGED <<flags, pending>>

(* writePatchFlag is called whatever becomes of the diff. A grouped           *)
(* vulnerability's flag is written at once, any other's is left to            *)
(* fs.writeFile, whose errors are ignored.                                    *)
WriteFlag ==
  IF Vuln.grouped
  THEN flags' = flags \cup {Flag} /\ pending' = pending
  ELSE flags' = flags /\ pending' = IF Vuln.dir \notin installed THEN pending ELSE pending \cup {Flag}

(* There is no package.json, or its version is not one the diff is for.       *)
Skip(u, texts, origs) ==
  /\ ~Vuln.matches \/ Vuln.dir \notin installed
  /\ content' = texts /\ orig' = origs
  /\ IF Vuln.dir \notin installed /\ Vuln.grouped
     THEN /\ chain' = [chain EXCEPT ![u] = "failed"] /\ rejected' = TRUE
          /\ UNCHANGED <<flags, pending>>
     ELSE /\ chain' = [chain EXCEPT ![u] = "patched"] /\ rejected' = rejected
          /\ WriteFlag
  /\ UNCHANGED <<installed, live, running, promises, errorList, outcome, runs, toll>>

ApplyDiff(u, texts, origs) ==
  /\ Vuln.matches /\ Vuln.dir \in installed
  /\ \A f \in Edits(u) : Fits(u, f, texts)
  /\ orig' = BackedUp(u, texts, origs)
  /\ content' = Written(u, texts)
  /\ chain' = [chain EXCEPT ![u] = "patched"]
  /\ WriteFlag
  /\ UNCHANGED <<installed, live, running, promises, rejected, errorList, outcome, runs, toll>>

(* The diff could not be read back from its temporary file: `npm -v` is run   *)
(* for the report, and then the error goes to errorList.                      *)
DiffUnreadable(u, texts, origs) ==
  /\ Vuln.matches /\ Vuln.dir \in installed
  /\ content' = texts /\ orig' = origs
  /\ chain' = [chain EXCEPT ![u] = "diagnosing"]
  /\ WriteFlag
  /\ UNCHANGED <<installed, live, running, promises, rejected, errorList, outcome, runs, toll>>

(* Mutant of Mismatch: the rejection of jsDiff is ignored, apply-patch never  *)
(* settles its own promise.                                                   *)
MismatchIgnored(u, texts, origs) ==
  /\ Vuln.matches /\ Vuln.dir \in installed
  /\ \E f \in Edits(u) : ~Fits(u, f, texts)
  /\ orig' = BackedUp(u, texts, origs) /\ content' = texts
  /\ chain' = [chain EXCEPT ![u] = "lost"]
  /\ WriteFlag
  /\ UNCHANGED <<installed, live, running, promises, rejected, errorList, outcome, runs, toll>>

(* The diff does not fit: jsDiff rejects, and nothing handles its rejection.  *)
Mismatch(u, texts, origs) ==
  /\ Vuln.matches /\ Vuln.dir \in installed
  /\ \E f \in Edits(u) : ~Fits(u, f, texts)
  /\ orig' = BackedUp(u, texts, origs) /\ content' = texts
  /\ \E created \in SUBSET (pending \cup {Flag}) :
       /\ Vuln.grouped => Flag \in created
       /\ flags' = flags \cup created
  /\ Die("exit_2", {})
  /\ UNCHANGED <<installed, live, reported, rejected, errorList, runs>>

ApplyPatch(u, texts, origs) ==
  \/ Skip(u, texts, origs)
  \/ ApplyDiff(u, texts, origs)
  \/ DiffUnreadable(u, texts, origs)
  \/ Mismatch(u, texts, origs)

(* The diff arrived and there is no flag: it is applied in the same turn.     *)
FetchedUnflagged(u) ==
  /\ chain[u] = "fetching" /\ Flag \notin flags
  /\ ApplyPatch(u, content, orig)
  /\ UNCHANGED found

(* There is a flag: the .orig files are looked for first, ...                 *)
FetchedFlagged(u) ==
  /\ chain[u] = "fetching" /\ Flag \in flags
  /\ chain' = [chain EXCEPT ![u] = "globbing"]
  /\ UNCHANGED <<disk, live, running, promises, found, pending, rejected, errorList, outcome,
                 runs, toll>>

GlobLists(u) ==
  /\ chain[u] = "globbing"
  /\ found' = [found EXCEPT ![u] = {f \in Files : f[1] = Vuln.dir /\ orig[f] # NoBackup}]
  /\ chain' = [chain EXCEPT ![u] = "listed"]
  /\ UNCHANGED <<disk, live, running, promises, pending, rejected, errorList, outcome, runs, toll>>

(* renameSync puts the .orig of each file of S back in its place.             *)
Restored(S) ==
  [texts |-> [f \in Files |-> IF f \in S THEN orig[f] ELSE content[f]],
   origs |-> [f \in Files |-> IF f \in S THEN NoBackup ELSE orig[f]]]

Gone(u) == {f \in found[u] : orig[f] = NoBackup}

(* ... put back, all of them, and the diff is applied in the same turn.       *)
RestoreAndApply(u) ==
  /\ chain[u] = "listed" /\ Gone(u) = {}
  /\ found' = [found EXCEPT ![u] = {}]
  /\ LET back == Restored(found[u]) IN ApplyPatch(u, back.texts, back.origs)

(* A listed .orig is no longer there: renameSync throws in glob's callback,   *)
(* out of every promise.                                                      *)
RestoreThrows(u) ==
  /\ chain[u] = "listed" /\ Gone(u) # {}
  /\ LET back == Restored({f \in found[u] : \A g \in Gone(u) : f[2] < g[2]})
     IN content' = back.texts /\ orig' = back.origs
  /\ \E created \in SUBSET pending : flags' = flags \cup created
  /\ found' = [found EXCEPT ![u] = {}]
  /\ Die("exit_2", {})
  /\ UNCHANGED <<installed, live, reported, rejected, errorList, runs>>

Diagnosed(u) ==
  /\ chain[u] = "diagnosing"
  /\ chain' = [chain EXCEPT ![u] = "failed"]
  /\ errorList' = TRUE
  /\ UNCHANGED <<disk, live, running, promises, found, pending, rejected, outcome, runs, toll>>

FlagCreated(x) ==
  /\ x \in pending
  /\ pending' = pending \ {x}
  /\ flags' = flags \cup {x}
  /\ UNCHANGED <<installed, content, orig, live, running, promises, chain, found, rejected, errorList,
                 outcome, runs, toll>>

ChainStep(u) ==
  \/ FetchFails(u) \/ FetchedUnflagged(u) \/ FetchedFlagged(u) \/ GlobLists(u)
  \/ RestoreAndApply(u) \/ RestoreThrows(u) \/ Diagnosed(u)

Turn ==
  \/ NextPackage \/ Finish
  \/ \E u \in DOMAIN chain : ChainStep(u)
  \/ \E x \in pending : FlagCreated(x)

(* Of the files of a diff the first are done, the n-th is cut off at c, or    *)
(* done as well; the others are as they were.                                 *)
Upto(u, n, c, done, before) ==
  [f \in Files |->
     IF \E k \in 1..n : f = <<Vuln.dir, EditsOf[u][k]>>
     THEN IF f = <<Vuln.dir, EditsOf[u][n]>> /\ c # Whole THEN Append(done[f], c) ELSE done[f]
     ELSE before[f]]

(* Killed at loadFile's copy of the n-th file. A copy that is cut off is put  *)
(* back in the file's place once there is a flag.                             *)
KilledCopying(u, n, c, texts, origs) ==
  /\ <<Vuln.dir, EditsOf[u][n]>> \in Read(u, texts)
  /\ content' = texts
  /\ orig' = Upto(u, n, c, texts, origs)
  /\ Die("killed", IF c = Whole THEN {} ELSE {Flag})

(* Killed at the n-th file of the patched text, or before the flag. Without   *)
(* a flag the next run takes what there is for the original.                  *)
KilledWriting(u, n, c, texts, origs) ==
  /\ live /\ \A f \in Edits(u) : Fits(u, f, texts)
  /\ content' = Upto(u, n, c, Written(u, texts), texts)
  /\ orig' = BackedUp(u, texts, origs)
  /\ Die("killed", {Flag} \ flags)

KilledApplying(u, texts, origs) ==
  /\ Vuln.matches /\ Vuln.dir \in installed
  /\ \E n \in DOMAIN EditsOf[u], c \in Cuts \cup {Whole} :
       KilledCopying(u, n, c, texts, origs) \/ KilledWriting(u, n, c, texts, origs)

(* Killed after some of the renames: the .orig files up to path p are back.   *)
KilledRestoring(u, p) ==
  LET S    == {f \in found[u] : f[2] <= p}
      back == Restored(S)
  IN /\ S \cap Gone(u) = {}
     /\ content' = back.texts /\ orig' = back.origs
     /\ Die("killed", {})

KilledBetweenTurns ==
  /\ UNCHANGED <<content, orig>>
  /\ Die("killed", {})

(* The process may be killed at any time.                                     *)
Killed ==
  /\ running /\ deaths < MaxKills
  /\ \E created \in SUBSET pending : flags' = flags \cup created
  /\ \/ KilledBetweenTurns
     \/ \E u \in DOMAIN chain :
          /\ chain[u] = "fetching" /\ Flag \notin flags
          /\ KilledApplying(u, content, orig)
     \/ \E u \in DOMAIN chain :
          /\ chain[u] = "listed"
          /\ \/ \E p \in Paths : KilledRestoring(u, p)
             \/ /\ Gone(u) = {}
                /\ LET back == Restored(found[u]) IN KilledApplying(u, back.texts, back.origs)
  /\ UNCHANGED <<installed, live, reported, found, rejected, errorList, runs>>

Reinstall(d) ==
  /\ ~running
  /\ installed' = installed \cup {d}
  /\ content' = [f \in Files |-> IF f[1] = d THEN <<>> ELSE content[f]]
  /\ orig' = [f \in Files |-> IF f[1] = d THEN NoBackup ELSE orig[f]]
  /\ flags' = {x \in flags : x[1] # d}
  /\ spoilt' = {x \in spoilt : x[1] # d}
  /\ outcome' = "none"
  /\ UNCHANGED <<live, running, promises, chain, found, pending, rejected, errorList, runs, deaths>>

Next ==
  \/ Turn
  \/ \E isLive \in BOOLEAN : Start(isLive)
  \/ Killed
  \/ \E d \in Dirs : Reinstall(d)

(* A fetch is answered or times out, and node runs what is ready.             *)
Spec == Init /\ [][Next]_vars /\ WF_vars(Turn)
-----------------------------------------------------------------------------
(* An .orig is the text of its file, or that text before the last diff; where *)
(* a run was killed, the copy or the patched text may have been cut off. So   *)
(* what a restore puts back is never further back than the last diff.         *)
BackupIsOneStepBack ==
  \A f \in Files : orig[f] # NoBackup =>
    \/ content[f] = orig[f]
    \/ \E u \in Urls : content[f] = Append(orig[f], u)
    \/ /\ deaths > 0
       /\ \E c \in Cuts :
            \/ orig[f] = Append(content[f], c)
            \/ \E u \in Urls : content[f] = Append(Append(orig[f], u), c)

Newest(i) == \A j \in SameRoute(i) \ {i} : List[j].published < List[i].published

FilesOf(i, u) == {<<List[i].dir, EditsOf[u][n]>> : n \in DOMAIN EditsOf[u]}

(* One diff is for the newest vulnerability of the package, none for another  *)
(* route to it, and no run has died while it copied a file, or between the    *)
(* edit of one and the first flag.                                            *)
Undisturbed(i) ==
  /\ Newest(i)
  /\ \A j \in DOMAIN List : List[j].dir = List[i].dir => List[j].route = List[i].route
  /\ \E u \in Urls : List[i].urls = {u}
  /\ <<List[i].dir, List[i].id>> \notin spoilt

(* A live run that succeeds, after whatever runs before it, those killed in   *)
(* the middle of a restore or of an edit included, leaves each file of the    *)
(* newest vulnerability's diff with that diff once, and cut off nowhere.      *)
PatchedOnce ==
  outcome = "patched" /\ live =>
    \A i \in DOMAIN List : List[i].matches /\ Undisturbed(i) =>
      \A u \in List[i].urls : \A f \in FilesOf(i, u) : content[f] = <<u>>

(* Between runs, a file that is not as installed can be brought back: its     *)
(* package has a flag and the file an .orig with the text it came with.       *)
Revertible ==
  ~running => \A i \in DOMAIN List : Undisturbed(i) => \A u \in List[i].urls :
    \A f \in FilesOf(i, u) : content[f] # <<>> =>
      <<f[1], List[i].id>> \in flags /\ orig[f] = <<>>

(* A run that has started ends.                                               *)
RunsEnd == running ~> ~running
=============================================================================
