---------------------------- MODULE SnykProtect ----------------------------
(***************************************************************************)
(* @snyk/protect (packages/snyk-protect): a run reads .snyk, finds the     *)
(* installed copies of the packages it names, downloads every patch and    *)
(* only then edits the files of node_modules one after the other, leaving  *)
(* an empty `<file>.snyk-protect.flag` beside each file it has patched.    *)
(*                                                                         *)
(* The process may die at any point of a run and be started again (it is   *)
(* the "prepare" script of an npm project); between two runs npm may put   *)
(* a fresh copy of a package in place and the .snyk file may change.       *)
(*                                                                         *)
(* The text of a file is abstracted to the sequence of diffs applied to it *)
(* since it was installed; whether a diff still fits a file that others    *)
(* have edited is a parameter (Clashes).                                   *)
(***************************************************************************)
EXTENDS Naturals, Sequences, FiniteSets, SequencesExt

CONSTANTS
  Names,        \* npm package names
  Versions,     \* package versions
  Paths,        \* file paths inside a package
  Vulns,        \* vulnerability ids
  Diffs,        \* the patch texts the server offers
  Garbage,      \* the body of a diff download that is not a diff
  PackageOf,    \* the package a vulnerability's rule in .snyk names
  PathOf,       \* the file a diff edits
  Catalogue,    \* what the server offers for a vulnerability and a version
  Installed,    \* the packages under node_modules, in exploration order
  LegacyFiles,  \* the files that may carry an .orig of the old `snyk protect`
  Clashes,      \* <<d, e>>: e's context is gone once d has been applied
  SnykFiles,    \* the .snyk files the project may have
  NoSnykFile,   \* there is no .snyk file
  BadSnykFile,  \* a .snyk file extractPatchMetadata rejects
  MaxInterruptions \* bound on the number of runs that die half way

Modules == DOMAIN Installed
Files   == Modules \X Paths

ASSUME ParametersAssumption ==
  /\ Garbage \notin Diffs
  /\ PackageOf \in [Vulns -> Names]
  /\ PathOf \in [Diffs -> Paths]
  /\ Catalogue \in [Vulns \X Versions -> Seq(Diffs)]
  /\ Installed \in Seq([name : Names, version : Versions])
  /\ LegacyFiles \subseteq Files
  /\ Clashes \subseteq Diffs \X Diffs
  /\ NoSnykFile \notin Seq(Vulns)
  /\ BadSnykFile \notin Seq(Vulns)
  /\ SnykFiles \subseteq Seq(Vulns) \cup {NoSnykFile, BadSnykFile}
  /\ MaxInterruptions \in Nat

ASSUME FinitePathsAssumption == IsFiniteSet(Paths)

VARIABLES
  content,       \* the diffs a file has received since it was installed
  torn,          \* files truncated for writing and not yet written
  flagged,       \* files with a .snyk-protect.flag beside them
  orig,          \* files with an .orig of the old `snyk protect`
  snykFile,      \* the project's .snyk file
  pc,            \* where the run is
  requests,      \* <<rule, module>>: patch lists still to download
  patches,       \* packageAtVersionsToPatches: the bodies by <<vuln, version>>
  work,          \* <<module, rule, n>>: what is left of the loops of protect()
  edit,          \* applyPatchToFile's file and diff
  patchedModules,\* what the run will report
  outcome,       \* how the last run ended, "none" once something changed
  interruptions  \* how many runs have died half way

disk    == <<content, torn, flagged, orig>>
process == <<pc, requests, patches, work, edit, patchedModules, outcome>>
vars    == <<disk, snykFile, process, interruptions>>

Body     == Diffs \cup {Garbage}
PatchKey == Vulns \X Versions
NoEdit   == <<>>
Outcome  == {"none", "no_snyk_file", "nothing_to_patch", "applied_patches",
             "threw", "interrupted"}

TypeOK ==
  /\ content \in [Files -> Seq(Diffs)]
  /\ torn \subseteq Files
  /\ flagged \subseteq Files
  /\ orig \subseteq Files
  /\ snykFile \in SnykFiles
  /\ pc \in {"idle", "fetching", "patching", "opened", "written"}
  /\ requests \subseteq Nat \X Modules
  /\ DOMAIN patches \subseteq PatchKey
  /\ \A k \in DOMAIN patches : patches[k] \in Seq(Body)
  /\ work \subseteq Modules \X Nat \X Nat
  /\ IF pc \in {"opened", "written"} THEN edit \in Files \X Diffs ELSE edit = NoEdit
  /\ patchedModules \subseteq Vulns \X Modules
  /\ outcome \in Outcome
  /\ interruptions \in 0..MaxInterruptions
-----------------------------------------------------------------------------
(* Rule i of the .snyk file is about the package that module m is a copy of.  *)
Concerns(i, m) == PackageOf[snykFile[i]] = Installed[m].name

Key(i, m) == <<snykFile[i], Installed[m].version>>

(* What getAllPatches asks for: for every rule, every version of its package  *)
(* that was found, once.                                                      *)
AllRequests ==
  {r \in (DOMAIN snykFile) \X Modules :
     /\ Concerns(r[1], r[2])
     /\ \A k \in 1..(r[2] - 1) : Installed[k] # Installed[r[2]]}

(* The nested loops of protect(): found package by found package, rule by     *)
(* rule, diff by diff, and last, after the diffs, the entry in the report.    *)
AllWork ==
  UNION {{x[1]} \X {x[2]} \X (1..(Len(patches[Key(x[2], x[1])]) + 1)) :
         x \in {y \in Modules \X (DOMAIN snykFile) :
                  Concerns(y[2], y[1]) /\ Key(y[2], y[1]) \in DOMAIN patches}}

(* The loops run in lexicographic order.                                      *)
Earlier(p, q) ==
  \E n \in DOMAIN p : p[n] < q[n] /\ \A k \in 1..(n - 1) : p[k] = q[k]
IsNext(p, S) == p \in S /\ \A q \in S : q = p \/ Earlier(p, q)

Bodies(w)  == patches[Key(w[2], w[1])]
HasDiff(w) == w[3] <= Len(Bodies(w))
Diff(w)    == Bodies(w)[w[3]]
Target(w)  == <<w[1], PathOf[Diff(w)]>>

(* Mutants of Marked: only one of the two marks counts.                       *)
MarkedByOrigOnly(f) == f \in orig
MarkedByFlagOnly(f) == f \in flagged

Marked(f) == f \in flagged \cup orig

(* patchString succeeds: the lines the diff expects are still there.          *)
Fits(d, f) == f \notin torn /\ \A i \in DOMAIN content[f] : <<content[f][i], d>> \notin Clashes
-----------------------------------------------------------------------------
Init ==
  /\ orig \in SUBSET LegacyFiles
  /\ content = [f \in Files |-> <<>>]
  /\ torn = {} /\ flagged = {}
  /\ snykFile \in SnykFiles
  /\ pc = "idle" /\ requests = {} /\ patches = <<>> /\ work = {} /\ edit = NoEdit
  /\ patchedModules = {} /\ outcome = "none"
  /\ interruptions = 0

(* Mutant of EndRun: the file being edited is not forgotten.                  *)
EndRunMidEdit(how) ==
  /\ pc' = "idle" /\ requests' = {} /\ patches' = <<>> /\ work' = {} /\ edit' = edit
  /\ outcome' = how

EndRun(how) ==
  /\ pc' = "idle" /\ requests' = {} /\ patches' = <<>> /\ work' = {} /\ edit' = NoEdit
  /\ outcome' = how

(* protect() up to its first await: no .snyk file, a .snyk file that does not *)
(* name one package for each vulnerability, or a list of patches to fetch.    *)
NoSnykFileFound ==
  /\ pc = "idle" /\ snykFile = NoSnykFile
  /\ patchedModules' = {} /\ EndRun("no_snyk_file")
  /\ UNCHANGED <<disk, snykFile, interruptions>>

SnykFileRejected ==
  /\ pc = "idle" /\ snykFile = BadSnykFile
  /\ patchedModules' = {} /\ EndRun("threw")
  /\ UNCHANGED <<disk, snykFile, interruptions>>

ReadSnykFile ==
  /\ pc = "idle" /\ snykFile \notin {NoSnykFile, BadSnykFile}
  /\ pc' = "fetching"
  /\ requests' = AllRequests
  /\ patchedModules' = {} /\ outcome' = "none"
  /\ UNCHANGED <<disk, snykFile, patches, work, edit, interruptions>>

(* fetchPatches answered. The status of the patch list is checked, that of a  *)
(* diff is not: any of them may be Garbage.                                   *)
FetchPatches ==
  /\ pc = "fetching"
  /\ \E r \in requests :
       /\ IsNext(r, requests)
       /\ LET key == Key(r[1], r[2])
          IN \E bad \in SUBSET DOMAIN Catalogue[key] :
               patches' = [k \in DOMAIN patches \cup {key} |->
                 IF k # key THEN patches[k]
                 ELSE [n \in DOMAIN Catalogue[key] |->
                         IF n \in bad THEN Garbage ELSE Catalogue[key][n]]]
       /\ requests' = requests \ {r}
  /\ UNCHANGED <<disk, snykFile, pc, work, edit, patchedModules, outcome, interruptions>>

(* Mutant of FetchPatchesThrows: the error is caught, the patch list skipped. *)
FetchPatchesGoesOn ==
  /\ pc = "fetching"
  /\ \E r \in requests : IsNext(r, requests) /\ requests' = requests \ {r}
  /\ UNCHANGED <<disk, snykFile, pc, patches, work, edit, patchedModules, outcome, interruptions>>

(* A request failed, was not answered 200 or 201, or named another package.   *)
FetchPatchesThrows ==
  /\ pc = "fetching" /\ requests # {}
  /\ EndRun("threw")
  /\ UNCHANGED <<disk, snykFile, patchedModules, interruptions>>

NothingToPatch ==
  /\ pc = "fetching" /\ requests = {} /\ DOMAIN patches = {}
  /\ EndRun("nothing_to_patch")
  /\ UNCHANGED <<disk, snykFile, patchedModules, interruptions>>

GotAllPatches ==
  /\ pc = "fetching" /\ requests = {} /\ DOMAIN patches # {}
  /\ pc' = "patching"
  /\ work' = AllWork
  /\ UNCHANGED <<disk, snykFile, requests, patches, edit, patchedModules, outcome, interruptions>>

(* applyPatchToFile: the file carries a flag or an .orig, leave it alone and  *)
(* report its path all the same.                                              *)
SkipMarkedFile(w) ==
  /\ HasDiff(w) /\ Diff(w) # Garbage /\ Marked(Target(w))
  /\ work' = work \ {w}
  /\ UNCHANGED <<disk, snykFile, pc, requests, patches, edit, patchedModules, outcome, interruptions>>

(* Mutant of PatchStringThrows: a diff that does not fit is passed over.      *)
PatchStringGoesOn(w) ==
  /\ HasDiff(w)
  /\ \/ Diff(w) = Garbage
     \/ Diff(w) # Garbage /\ ~Marked(Target(w)) /\ ~Fits(Diff(w), Target(w))
  /\ work' = work \ {w}
  /\ UNCHANGED <<disk, snykFile, pc, requests, patches, edit, patchedModules, outcome, interruptions>>

(* patchString finds no hunk header, or a line that differs from the file.    *)
PatchStringThrows(w) ==
  /\ HasDiff(w)
  /\ \/ Diff(w) = Garbage
     \/ Diff(w) # Garbage /\ ~Marked(Target(w)) /\ ~Fits(Diff(w), Target(w))
  /\ EndRun("threw")
  /\ UNCHANGED <<disk, snykFile, patchedModules, interruptions>>

(* Mutant of OpenTarget: the flag is written before the file.                 *)
FlagThenOpenTarget(w) ==
  /\ HasDiff(w) /\ Diff(w) # Garbage /\ ~Marked(Target(w)) /\ Fits(Diff(w), Target(w))
  /\ pc' = "opened"
  /\ edit' = <<Target(w), Diff(w)>>
  /\ torn' = torn \cup {Target(w)}
  /\ flagged' = flagged \cup {Target(w)}
  /\ work' = work \ {w}
  /\ UNCHANGED <<content, orig, snykFile, requests, patches,
                 patchedModules, outcome, interruptions>>

(* writeFileSync(targetFilePath): the file is truncated when it is opened ... *)
OpenTarget(w) ==
  /\ HasDiff(w) /\ Diff(w) # Garbage /\ ~Marked(Target(w)) /\ Fits(Diff(w), Target(w))
  /\ pc' = "opened"
  /\ edit' = <<Target(w), Diff(w)>>
  /\ torn' = torn \cup {Target(w)}
  /\ work' = work \ {w}
  /\ UNCHANGED <<content, flagged, orig, snykFile, requests, patches,
                 patchedModules, outcome, interruptions>>

(* Every diff of a vulnerability has been through applyPatchToFile for this   *)
(* package: it counts as patched, whatever applyPatchToFile did.              *)
PushPatchedModule(w) ==
  /\ ~HasDiff(w)
  /\ patchedModules' = patchedModules \cup {<<snykFile[w[2]], w[1]>>}
  /\ work' = work \ {w}
  /\ UNCHANGED <<disk, snykFile, pc, requests, patches, edit, outcome, interruptions>>

ApplyPatches ==
  /\ pc = "patching"
  /\ \E w \in work :
       /\ IsNext(w, work)
       /\ \/ SkipMarkedFile(w)
          \/ PatchStringThrows(w)
          \/ OpenTarget(w)
          \/ PushPatchedModule(w)

(* ... and holds the patched text once it is written.                         *)
WriteTarget ==
  /\ pc = "opened"
  /\ pc' = "written"
  /\ content' = [content EXCEPT ![edit[1]] = Append(@, edit[2])]
  /\ torn' = torn \ {edit[1]}
  /\ UNCHANGED <<flagged, orig, snykFile, requests, patches, work, edit,
                 patchedModules, outcome, interruptions>>

(* Mutants of WriteFlag: no flag, and one flag for the whole package.         *)
WriteNoFlag ==
  /\ pc = "written"
  /\ pc' = "patching"
  /\ edit' = NoEdit
  /\ UNCHANGED <<disk, snykFile, requests, patches, work,
                 patchedModules, outcome, interruptions>>

WritePackageFlag ==
  /\ pc = "written"
  /\ pc' = "patching"
  /\ flagged' = flagged \cup {f \in Files : f[1] = edit[1][1]}
  /\ edit' = NoEdit
  /\ UNCHANGED <<content, torn, orig, snykFile, requests, patches, work,
                 patchedModules, outcome, interruptions>>

(* writeFileSync(flagPath), and back to the loops.                            *)
WriteFlag ==
  /\ pc = "written"
  /\ pc' = "patching"
  /\ flagged' = flagged \cup {edit[1]}
  /\ edit' = NoEdit
  /\ UNCHANGED <<content, torn, orig, snykFile, requests, patches, work,
                 patchedModules, outcome, interruptions>>

AppliedPatches ==
  /\ pc = "patching" /\ work = {}
  /\ EndRun("applied_patches")
  /\ UNCHANGED <<disk, snykFile, patchedModules, interruptions>>

(* The process is killed, or a write fails and nothing catches the error.     *)
Interrupted ==
  /\ pc # "idle" /\ interruptions < MaxInterruptions
  /\ EndRun("interrupted")
  /\ interruptions' = interruptions + 1
  /\ UNCHANGED <<disk, snykFile, patchedModules>>

(* Between runs: npm unpacks package m again, or the .snyk file changes.      *)
Reinstall(m) ==
  LET fresh == {f \in Files : f[1] = m}
  IN /\ pc = "idle"
     /\ content' = [f \in Files |-> IF f \in fresh THEN <<>> ELSE content[f]]
     /\ torn' = torn \ fresh
     /\ flagged' = flagged \ fresh
     /\ orig' = orig \ fresh
     /\ patchedModules' = {} /\ outcome' = "none"
     /\ UNCHANGED <<snykFile, pc, requests, patches, work, edit, interruptions>>

EditSnykFile ==
  /\ pc = "idle"
  /\ \E new \in SnykFiles \ {snykFile} : snykFile' = new
  /\ patchedModules' = {} /\ outcome' = "none"
  /\ UNCHANGED <<disk, pc, requests, patches, work, edit, interruptions>>

Start == NoSnykFileFound \/ SnykFileRejected \/ ReadSnykFile

Step ==
  \/ FetchPatches \/ FetchPatchesThrows \/ NothingToPatch \/ GotAllPatches
  \/ ApplyPatches \/ WriteTarget \/ WriteFlag \/ AppliedPatches

Environment == (\E m \in Modules : Reinstall(m)) \/ EditSnykFile

Next == Start \/ Step \/ Interrupted \/ Environment

(* There is no fairness: lib/http.ts sets no timeout, so a run whose download *)
(* is never answered stays where it is, and nothing makes anybody start one.  *)
Spec == Init /\ [][Next]_vars
-----------------------------------------------------------------------------
(* The files a run has left its mark on without leaving a flag: the ones the  *)
(* next run will take for untouched.                                          *)
Unaccounted == {f \in Files : f \notin flagged /\ (f \in torn \/ content[f] # <<>>)}

InFlight == IF pc \in {"opened", "written"} THEN 1 ELSE 0

(* A flag stands only beside a file that was patched completely: whenever the *)
(* process dies, no half-written or untouched file passes for a patched one   *)
(* (patch.ts writes the target first, the flag second).                       *)
FlaggedIsPatched == \A f \in flagged : f \notin torn /\ content[f] # <<>>

(* Each interrupted run leaves at most one file edited but not flagged, so    *)
(* however often @snyk/protect dies the damage is one file a time: files are  *)
(* patched and flagged one by one.                                            *)
OneLossPerInterruption == Cardinality(Unaccounted) <= interruptions + InFlight

(* A file receives a second patch only if an interrupted run forgot to flag   *)
(* the first: the flag is what keeps a file from being patched by every run   *)
(* and by every vulnerability that has a patch for it.                        *)
PatchedOncePerInterruption == \A f \in Files : Len(content[f]) <= 1 + interruptions

(* No file is touched before every patch of the .snyk file, for every version *)
(* installed, has been downloaded (getAllPatches is awaited as a whole): a    *)
(* download that fails, or is never answered, leaves every file alone.        *)
FetchedBeforeWriting ==
  pc \in {"patching", "opened", "written"} =>
    \A i \in DOMAIN snykFile : \A m \in Modules :
      Concerns(i, m) =>
        Key(i, m) \in DOMAIN patches

(* "Applied Snyk patches.": every file that a patch of the .snyk file edits,  *)
(* in every installed copy, carries a flag or an .orig, and the report names  *)
(* every vulnerability of every copy.                                         *)
AppliedMeansMarked ==
  outcome = "applied_patches" =>
    \A i \in DOMAIN snykFile : \A m \in Modules :
      Concerns(i, m) =>
        /\ <<snykFile[i], m>> \in patchedModules
        /\ \A k \in DOMAIN Catalogue[Key(i, m)] :
             Marked(<<m, PathOf[Catalogue[Key(i, m)][k]]>>)

(* A file with a flag or an .orig is never edited again until its package is  *)
(* reinstalled, by any run, for any vulnerability.                            *)
MarkedIsFrozen ==
  [][\A f \in Files : f \in flagged \cup orig /\ f \in flagged' \cup orig' =>
        content'[f] = content[f] /\ (f \in torn' <=> f \in torn)]_vars

(* The two writes of a file seen as one: until the flag is written the file   *)
(* still counts as it was before the run opened it.                           *)
DiskText ==
  [f \in Files |-> IF pc = "written" /\ f = edit[1] THEN Front(content[f]) ELSE content[f]]
DiskBroken == IF pc = "opened" THEN torn \ {edit[1]} ELSE torn
DiskMarked == flagged \cup orig

Disk == INSTANCE PatchedDisk WITH
  text <- DiskText, broken <- DiskBroken, marked <- DiskMarked,
  losses <- interruptions, MaxLosses <- MaxInterruptions

(* Every run, interrupted or not, does to the files only what PatchedDisk     *)
(* allows: patch and mark a file in one step, or spoil one file and die.      *)
ImplementsPatchedDisk == Disk!Spec
=============================================================================
