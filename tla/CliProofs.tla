----------------------------- MODULE CliProofs ------------------------------
(***************************************************************************)
(* What `snyk test` and `snyk monitor` report, for any number of paths,    *)
(* manifests, projects and polls.                                          *)
(*                                                                         *)
(* TInv is the bookkeeping of the loops: which part of the state is in use *)
(* at each pc, and what its values range over.  The three properties need  *)
(* one more fact each: SInv that a job which is ready left its snapshot on *)
(* the server before the client looks, VInv that the verdict is reached    *)
(* once, from the results that are shown, and MInv that what is behind the *)
(* loops of monitor is stored, queued or there is an error to show.        *)
(***************************************************************************)
EXTENDS CliMain, SequenceTheorems, TLAPS

Entries == [path: Path, nth: Nat, kind: ResultKind]
Scans   == [phase: {"none", "inspecting", "done", "unsupported", "threw"},
            left: 0..MaxTargets, found: Seq(BOOLEAN), failed: 0..MaxTargets]
Jobs    == [state: {"none", "running", "ready", "failed"}, limit: Nat, attempts: Nat, polls: Nat]
Verdicts == [how: {"none", "returned", "threw"}, unsupported: BOOLEAN, vulns: BOOLEAN, file: BOOLEAN]

ScanOK(s) ==
  /\ s.phase = "inspecting" <=> s.left > 0
  /\ s.left + s.failed <= MaxTargets
  /\ Len(s.found) <= MaxProjects

LoopsOK ==
  /\ pc \in {"start", "path", "scanning", "sending", "ecoscan", "ecosend", "polling", "handling", "done"}
  /\ at \in 1..(Paths + 1)
  /\ pc \in {"scanning", "sending"} => at \in Path
  /\ pc \in {"sending", "polling"} => queue # <<>>
  /\ pc = "polling" <=> job.state # "none"

TInv ==
  /\ command \in {"test", "monitor"} /\ options \in Options
  /\ LoopsOK
  /\ scan \in [Path -> Scans]
  /\ \A p \in Path : ScanOK(scan[p])
  /\ queue \in Seq(Project)
  /\ results \in Seq(Entries) /\ got \in Seq(Entries)
  /\ stored \subseteq Project
  /\ job \in Jobs /\ verdict \in Verdicts
  /\ exitCode \in 0..3 /\ saved \in BOOLEAN
-----------------------------------------------------------------------------
LEMMA SeqElement ==
  ASSUME NEW S, NEW s \in Seq(S), NEW i \in DOMAIN s
  PROVE  s[i] \in S
OBVIOUS

LEMMA FunctionIsSeq ==
  ASSUME NEW S, NEW n \in Nat, NEW f \in [1..n -> S]
  PROVE  f \in Seq(S) /\ Len(f) = n
OBVIOUS

LEMMA BoundedSeqType ==
  ASSUME NEW S, NEW n \in Int, NEW s \in BoundedSeq(S, n)
  PROVE  s \in Seq(S) /\ Len(s) \in Nat /\ Len(s) <= n
<1>1. PICK m \in 0..n : s \in [1..m -> S]
  BY DEF BoundedSeq, SeqOf
<1> QED
  BY <1>1, FunctionIsSeq

LEMMA PathTypes == Path \subseteq Nat /\ Project = Path \X (1..MaxProjects) /\ Paths \in Nat
BY CliAssumption DEF Path, Project

(* An entry for the current path, or for the head of the queue.            *)
LEMMA ResultType ==
  ASSUME NEW p \in Path, NEW n \in Nat, NEW k \in ResultKind
  PROVE  Result(p, n, k) \in Entries
BY DEF Result, Entries

LEMMA HeadType ==
  ASSUME TInv, queue # <<>>
  PROVE  /\ Head(queue) \in Project /\ Tail(queue) \in Seq(Project)
         /\ Head(queue)[1] \in Path /\ Head(queue)[2] \in Nat
         /\ Head(queue) = <<Head(queue)[1], Head(queue)[2]>>
         /\ \A k \in ResultKind : Result(Head(queue)[1], Head(queue)[2], k) \in Entries
         /\ Len(queue) # 1 => Tail(queue) # <<>>
<1>1. Head(queue) \in Project /\ Tail(queue) \in Seq(Project) /\ Len(Tail(queue)) = Len(queue) - 1
      /\ Len(queue) \in Nat \ {0}
  BY HeadTailProperties, EmptySeq DEF TInv
<1>2. /\ Head(queue)[1] \in Path /\ Head(queue)[2] \in Nat
      /\ Head(queue) = <<Head(queue)[1], Head(queue)[2]>>
  BY <1>1, CliAssumption DEF Project
<1>3. ASSUME Tail(queue) = <<>>
      PROVE  Len(queue) = 1
  <2>1. Len(Tail(queue)) = 0
    BY <1>3, EmptySeq
  <2>2. \A n, k : n \in Nat \ {0} /\ k = n - 1 /\ k = 0 => n = 1
    OBVIOUS
  <2> QED
    BY <1>1, <2>1, <2>2, Zenon
<1> QED
  BY <1>1, <1>2, <1>3, ResultType

(* What every project of a scan becomes in the queue.                      *)
LEMMA QueueOfFound ==
  ASSUME TInv, at \in Path
  PROVE  /\ [n \in DOMAIN Here.found |-> <<at, n>>] \in Seq(Project)
         /\ Here.found # <<>> => [n \in DOMAIN Here.found |-> <<at, n>>] # <<>>
<1>1. Here \in Scans /\ Len(Here.found) <= MaxProjects
  BY DEF TInv, ScanOK, Here
<1>2. Here.found \in Seq(BOOLEAN) /\ Len(Here.found) \in Nat
      /\ DOMAIN Here.found = 1..Len(Here.found)
  BY <1>1, LenProperties DEF Scans
<1> DEFINE q == [n \in 1..Len(Here.found) |-> <<at, n>>]
<1>3. q \in [1..Len(Here.found) -> Project]
  BY <1>1, <1>2, CliAssumption DEF Project
<1>4. q \in Seq(Project) /\ Len(q) = Len(Here.found)
  BY <1>2, <1>3, FunctionIsSeq
<1>5. Here.found # <<>> => q # <<>>
  BY <1>2, <1>4, EmptySeq
<1> HIDE DEF q
<1>6. q = [n \in DOMAIN Here.found |-> <<at, n>>]
  BY <1>2 DEF q
<1> QED
  BY <1>4, <1>5, <1>6
-----------------------------------------------------------------------------
LEMMA InitT == Init => TInv
<1> SUFFICES ASSUME Init PROVE TInv
  OBVIOUS
<1>1. LoopsOK
  BY CliAssumption DEF Init, LoopsOK, NoJob
<1>2. scan \in [Path -> Scans]
  <2>1. NoScan \in Scans
    BY CliAssumption, EmptySeq DEF NoScan, Scans
  <2> QED
    BY <2>1 DEF Init
<1>3. \A p \in Path : ScanOK(scan[p])
  BY CliAssumption DEF Init, ScanOK, NoScan
<1>4. results \in Seq(Entries) /\ got \in Seq(Entries) /\ queue \in Seq(Project)
  BY EmptySeq DEF Init
<1>5. job \in Jobs /\ verdict \in Verdicts
  BY DEF Init, NoJob, Jobs, NoVerdict, Verdicts
<1>6. command \in {"test", "monitor"} /\ options \in Options
  BY Zenon DEF Init
<1>7. stored = {} /\ exitCode = 0 /\ saved = FALSE
  BY Zenon DEF Init
<1>8. stored \subseteq Project /\ exitCode \in 0..3
  BY <1>7
<1> QED
  BY <1>1, <1>2, <1>3, <1>4, <1>5, <1>6, <1>7, <1>8, Zenon DEF TInv

(* What the scan of a path records.                                        *)
LEMMA LearnT ==
  ASSUME TInv, at \in Path, NEW s \in Scans, ScanOK(s), Learn(s)
  PROVE  scan' \in [Path -> Scans] /\ \A p \in Path : ScanOK(scan'[p])
BY DEF TInv, Learn

Changed(s, l, f, m) == [s EXCEPT !.left = l, !.found = f, !.failed = m]

LEMMA ChangedIs ==
  ASSUME NEW s \in Scans, NEW l, NEW f, NEW m
  PROVE  Changed(s, l, f, m) = [phase |-> s.phase, left |-> l, found |-> f, failed |-> m]
<1> DEFINE a == [s EXCEPT !.left = l]
           b == [a EXCEPT !.found = f]
<1>1. a = [phase |-> s.phase, left |-> l, found |-> s.found, failed |-> s.failed]
  BY DEF Scans
<1> HIDE DEF a
<1>2. b = [phase |-> s.phase, left |-> l, found |-> f, failed |-> s.failed]
  BY <1>1
<1> HIDE DEF b
<1>3. [b EXCEPT !.failed = m] = [phase |-> s.phase, left |-> l, found |-> f, failed |-> m]
  BY <1>2
<1>4. Changed(s, l, f, m) = [b EXCEPT !.failed = m]
  BY Zenon DEF a, b, Changed
<1> QED
  BY <1>3, <1>4

LEMMA ScannedT ==
  ASSUME NEW phase \in {"none", "done", "unsupported", "threw"}
  PROVE  Scanned(phase) \in Scans /\ ScanOK(Scanned(phase))
<1>1. MaxTargets \in Nat /\ MaxProjects \in Nat
  BY CliAssumption
<1>2. Scanned(phase) = [phase |-> phase, left |-> 0, found |-> <<>>, failed |-> 0]
  BY DEF Scanned, NoScan
<1>3. <<>> \in Seq(BOOLEAN) /\ Len(<<>>) = 0
  BY EmptySeq
<1> QED
  BY <1>1, <1>2, <1>3 DEF Scans, ScanOK

LEMMA BeginPathT == TInv /\ BeginPath => TInv'
<1> SUFFICES ASSUME TInv, BeginPath PROVE TInv'
  OBVIOUS
<1>1. at \in Path
  BY CliAssumption DEF TInv, LoopsOK, BeginPath, Path
<1>2. scan' \in [Path -> Scans] /\ \A p \in Path : ScanOK(scan'[p])
  <2>1. CASE Learn(Scanned("threw"))
    BY <1>1, <2>1, LearnT, ScannedT
  <2>2. CASE FindTargets
    <3>1. PICK n \in 0..(IF options.scanType = "single" THEN 1 ELSE MaxTargets) :
            Learn(IF n = 0 THEN Scanned("unsupported")
                  ELSE [Scanned("inspecting") EXCEPT
                          !.left = IF options.scanType = "allProjects" THEN n ELSE 1])
      BY <2>2 DEF FindTargets
    <3>2. CASE n = 0
      BY <1>1, <3>1, <3>2, LearnT, ScannedT
    <3>3. CASE n # 0
      <4> DEFINE k == IF options.scanType = "allProjects" THEN n ELSE 1
                 s == [Scanned("inspecting") EXCEPT !.left = k]
      <4>1. k \in 1..MaxTargets /\ MaxTargets \in Nat /\ MaxProjects \in Nat
        BY <3>3, CliAssumption
      <4>2. s = [phase |-> "inspecting", left |-> k, found |-> <<>>, failed |-> 0]
        <5>1. Scanned("inspecting") = [phase |-> "inspecting", left |-> 0, found |-> <<>>, failed |-> 0]
          BY DEF Scanned, NoScan
        <5> HIDE DEF k
        <5> QED
          BY <5>1
      <4>3. <<>> \in Seq(BOOLEAN) /\ Len(<<>>) = 0
        BY EmptySeq
      <4> HIDE DEF k, s
      <4>4. s \in Scans /\ ScanOK(s)
        BY <4>1, <4>2, <4>3 DEF Scans, ScanOK
      <4>5. Learn(s)
        BY <3>1, <3>3 DEF k, s
      <4> QED
        BY <1>1, <4>4, <4>5, LearnT
    <3> QED
      BY <3>2, <3>3
  <2> QED
    BY <2>1, <2>2 DEF BeginPath
<1>3. LoopsOK'
  BY <1>1 DEF TInv, LoopsOK, BeginPath
<1> QED
  BY <1>2, <1>3 DEF TInv, BeginPath

LEMMA InspectT == TInv /\ Inspect => TInv'
<1> SUFFICES ASSUME TInv, Inspect PROVE TInv'
  OBVIOUS
<1>1. at \in Path /\ Here \in Scans /\ ScanOK(Here) /\ Here.left > 0
  BY DEF TInv, LoopsOK, Inspect, Here, ScanOK
<1>2. /\ Here.left \in Nat /\ Here.failed \in Nat /\ Here.found \in Seq(BOOLEAN)
      /\ MaxTargets \in Nat /\ MaxProjects \in Nat /\ Here.left + Here.failed <= MaxTargets
      /\ Len(Here.found) \in Nat /\ Len(Here.found) <= MaxProjects /\ Here.phase = "inspecting"
  BY <1>1, CliAssumption, LenProperties DEF Scans, ScanOK, Inspect
<1>3. ASSUME NEW f \in Seq(BOOLEAN), Len(f) <= MaxProjects, NEW m \in 0..MaxTargets,
             (Here.left - 1) + m <= MaxTargets
      PROVE  LET s == AfterInspection([Here EXCEPT !.left = @ - 1, !.found = f, !.failed = m])
             IN  s \in Scans /\ ScanOK(s)
  <2> DEFINE t == [Here EXCEPT !.left = @ - 1, !.found = f, !.failed = m]
  <2>1. t = [phase |-> "inspecting", left |-> Here.left - 1, found |-> f, failed |-> m]
    <3>1. t = Changed(Here, Here.left - 1, f, m)
      BY Zenon DEF Changed
    <3> QED
      BY <1>1, <1>2, <3>1, ChangedIs
  <2> HIDE DEF t
  <2>2. [t EXCEPT !.phase = "done"] = [phase |-> "done", left |-> Here.left - 1, found |-> f, failed |-> m]
    BY <2>1
  <2>3. Here.left - 1 \in 0..MaxTargets
    BY <1>1, <1>2
  <2>4. t \in Scans /\ [t EXCEPT !.phase = "done"] \in Scans
    BY <1>3, <2>1, <2>2, <2>3 DEF Scans
  <2>5. CASE t.left > 0
    <3>1. AfterInspection(t) = t
      BY <2>5 DEF AfterInspection
    <3>2. ScanOK(t)
      BY <1>2, <1>3, <2>1, <2>3, <2>5 DEF ScanOK
    <3> QED
      BY <2>4, <3>1, <3>2 DEF t
  <2>6. CASE ~(t.left > 0)
    <3>1. AfterInspection(t) = Scanned("threw") \/ AfterInspection(t) = [t EXCEPT !.phase = "done"]
      BY <2>6 DEF AfterInspection
    <3>2. ScanOK([t EXCEPT !.phase = "done"])
      BY <1>2, <1>3, <2>1, <2>2, <2>3, <2>6 DEF ScanOK
    <3> QED
      BY <2>4, <3>1, <3>2, ScannedT DEF t
  <2> QED
    BY <2>5, <2>6
<1>4. ASSUME InspectSucceeds
      PROVE  scan' \in [Path -> Scans] /\ \A p \in Path : ScanOK(scan'[p])
  <2>1. PICK ps \in Plugin : Learn(AfterInspection([Here EXCEPT !.left = @ - 1, !.found = @ \o ps]))
    BY <1>4 DEF InspectSucceeds
  <2>2. ps \in Seq(BOOLEAN) /\ Len(ps) \in Nat /\ Len(ps) <= MaxProjects - Len(Here.found)
    <3>1. CASE options.scanType = "yarnWorkspaces"
      <4>1. ps \in Seq({TRUE}) /\ Len(ps) \in Nat /\ Len(ps) <= MaxProjects - Len(Here.found)
        BY <1>2, <3>1, BoundedSeqType DEF Plugin
      <4> QED
        BY <4>1, SeqMonotonic
    <3>2. CASE options.scanType # "yarnWorkspaces"
      BY <1>2, <3>2, BoundedSeqType DEF Plugin
    <3> QED
      BY <3>1, <3>2
  <2>3. Here.found \o ps \in Seq(BOOLEAN) /\ Len(Here.found \o ps) <= MaxProjects
    BY <1>2, <2>2, ConcatProperties
  <2>4. [Here EXCEPT !.left = @ - 1, !.found = @ \o ps]
          = [Here EXCEPT !.left = @ - 1, !.found = Here.found \o ps, !.failed = Here.failed]
    BY <1>1 DEF Scans
  <2>5. Here.failed \in 0..MaxTargets /\ (Here.left - 1) + Here.failed <= MaxTargets
    BY <1>1, <1>2
  <2> QED
    BY <1>1, <1>3, <2>1, <2>3, <2>4, <2>5, LearnT
<1>5. ASSUME InspectFails
      PROVE  scan' \in [Path -> Scans] /\ \A p \in Path : ScanOK(scan'[p])
  <2>1. CASE options.scanType = "allProjects"
    <3>1. [Here EXCEPT !.left = @ - 1, !.failed = @ + 1]
            = [Here EXCEPT !.left = @ - 1, !.found = Here.found, !.failed = Here.failed + 1]
      BY <1>1 DEF Scans
    <3>2. Here.failed + 1 \in 0..MaxTargets /\ (Here.left - 1) + (Here.failed + 1) <= MaxTargets
      BY <1>1, <1>2
    <3> QED
      BY <1>1, <1>2, <1>3, <1>5, <2>1, <3>1, <3>2, LearnT DEF InspectFails
  <2>2. CASE options.scanType # "allProjects"
    BY <1>1, <1>5, <2>2, LearnT, ScannedT DEF InspectFails
  <2> QED
    BY <2>1, <2>2
<1>6. scan' \in [Path -> Scans] /\ \A p \in Path : ScanOK(scan'[p])
  BY <1>1, <1>4, <1>5, LearnT DEF Inspect
<1>7. LoopsOK'
  BY DEF TInv, LoopsOK, Inspect
<1> QED
  BY <1>6, <1>7 DEF TInv, Inspect
-----------------------------------------------------------------------------
LEMMA PathFailsT ==
  ASSUME TInv, at \in Path, pc # "polling", NEW kind \in ResultKind, PathFails(kind)
  PROVE  TInv'
<1>1. results' \in Seq(Entries)
  <2>1. Result(at, 0, kind) \in Entries
    BY ResultType
  <2> QED
    BY <2>1, AppendProperties DEF TInv, PathFails
<1>2. queue' = <<>> /\ got' = <<>> /\ pc' = "path" /\ at' = at + 1
  BY DEF PathFails, LeavePath
<1>3. LoopsOK'
  BY <1>2, CliAssumption DEF TInv, LoopsOK, PathFails, Path
<1> QED
  BY <1>1, <1>2, <1>3, EmptySeq, Zenon DEF TInv, PathFails

LEMMA ErrorKinds == ErrorKind \subseteq ResultKind /\ VulnKind \subseteq ResultKind /\ "ok" \in ResultKind
BY DEF ResultKind

LEMMA ScanErrorType == ScanError \in ErrorKind
BY DEF ScanError, ErrorKind

(* The projects of a path are queued, or the path is left.                 *)
LEMMA QueueT ==
  ASSUME TInv, at \in Path, pc = "scanning",
         IF Here.found = <<>>
         THEN LeavePath
         ELSE /\ queue' = [n \in DOMAIN Here.found |-> <<at, n>>]
              /\ pc' = "sending" /\ UNCHANGED <<at, got>>,
         UNCHANGED job
  PROVE  LoopsOK' /\ queue' \in Seq(Project) /\ got' \in Seq(Entries)
<1>1. CASE Here.found = <<>>
  <2>1. queue' = <<>> /\ got' = <<>> /\ pc' = "path" /\ at' = at + 1
    BY <1>1 DEF LeavePath
  <2> QED
    BY <2>1, EmptySeq, CliAssumption DEF TInv, LoopsOK, Path
<1>2. CASE Here.found # <<>>
  <2>1. queue' \in Seq(Project) /\ queue' # <<>>
    BY <1>2, QueueOfFound
  <2> QED
    BY <1>2, <2>1 DEF TInv, LoopsOK
<1> QED
  BY <1>1, <1>2

LEMMA TestStepT == TInv /\ TestStep => TInv'
<1> SUFFICES ASSUME TInv, TestStep PROVE TInv'
  OBVIOUS
<1>1. CASE TestScanFails
  BY <1>1, PathFailsT, ErrorKinds, ScanErrorType DEF TestScanFails, TInv, LoopsOK
<1>2. CASE AssembleFails
  BY <1>2, PathFailsT DEF AssembleFails, TInv, LoopsOK, ResultKind, ErrorKind
<1>3. CASE Assemble
  <2>1. LoopsOK' /\ queue' \in Seq(Project) /\ got' \in Seq(Entries)
    BY <1>3, QueueT DEF Assemble, SendFound, TInv, LoopsOK
  <2> QED
    BY <1>3, <2>1, Zenon DEF TInv, Assemble
<1>4. CASE AssembleRemote
  <2>1. at \in Path
    BY <1>4, CliAssumption DEF AssembleRemote, TInv, LoopsOK, Path
  <2>2. queue' \in Seq(Project) /\ queue' # <<>>
    <3>1. <<at, 1>> \in Project
      BY <2>1, CliAssumption DEF Project
    <3>2. <<<<at, 1>>>> \in Seq(Project) /\ <<<<at, 1>>>> # <<>>
      BY <3>1
    <3> QED
      BY <1>4, <3>2 DEF AssembleRemote
  <2>3. scan' \in [Path -> Scans] /\ \A p \in Path : ScanOK(scan'[p])
    <3> DEFINE f == <<TRUE>>
               s == [Scanned("done") EXCEPT !.found = f]
    <3>1. Scanned("done") = [phase |-> "done", left |-> 0, found |-> <<>>, failed |-> 0]
      BY DEF Scanned, NoScan
    <3>2. f \in Seq(BOOLEAN) /\ Len(f) = 1
      OBVIOUS
    <3> HIDE DEF f
    <3>3. s = [phase |-> "done", left |-> 0, found |-> f, failed |-> 0]
      BY <3>1
    <3> HIDE DEF s
    <3>4. s \in Scans /\ ScanOK(s)
      <4>1. MaxTargets \in Nat /\ MaxProjects \in Nat /\ 1 <= MaxProjects
        BY CliAssumption
      <4>2. s.phase = "done" /\ s.left = 0 /\ s.found = f /\ s.failed = 0
        BY <3>3
      <4>3. s \in Scans
        BY <3>2, <3>3, <4>1 DEF Scans
      <4>4. Len(s.found) <= MaxProjects
        BY <3>2, <4>1, <4>2
      <4>5. s.left + s.failed <= MaxTargets /\ ~(s.left > 0) /\ s.phase # "inspecting"
        BY <4>1, <4>2
      <4> QED
        BY <4>3, <4>4, <4>5, Zenon DEF ScanOK
    <3>5. Learn(s)
      BY <1>4 DEF AssembleRemote, s, f
    <3> QED
      BY <2>1, <3>4, <3>5, LearnT
  <2>4. LoopsOK'
    BY <1>4, <2>1, <2>2 DEF TInv, LoopsOK, AssembleRemote
  <2> QED
    BY <1>4, <2>2, <2>3, <2>4, Zenon DEF TInv, AssembleRemote
<1>5. CASE PayloadTested
  <2>1. PICK kind \in VulnKind \cup {"ok"} :
          IF Len(queue) = 1
          THEN results' = results \o Tested(kind) /\ LeavePath
          ELSE /\ got' = Tested(kind) /\ queue' = Tail(queue)
               /\ UNCHANGED <<results, at, pc>>
    BY <1>5 DEF PayloadTested, ParsedKind
  <2>2. queue # <<>> /\ pc = "sending" /\ at \in Path
    BY <1>5 DEF PayloadTested, TInv, LoopsOK
  <2>3. Tested(kind) \in Seq(Entries)
    <3>1. Result(Head(queue)[1], Head(queue)[2], kind) \in Entries
      BY <2>2, HeadType, ErrorKinds
    <3> QED
      BY <3>1, AppendProperties DEF Tested, TInv
  <2>4. CASE Len(queue) = 1
    <3>1. queue' = <<>> /\ got' = <<>> /\ pc' = "path" /\ at' = at + 1
      BY <2>1, <2>4 DEF LeavePath
    <3>2. results' \in Seq(Entries)
      BY <2>1, <2>3, <2>4, ConcatProperties DEF TInv
    <3>3. LoopsOK'
      BY <1>5, <2>2, <3>1, CliAssumption DEF TInv, LoopsOK, PayloadTested, Path
    <3> QED
      BY <1>5, <3>1, <3>2, <3>3, EmptySeq, Zenon DEF TInv, PayloadTested
  <2>5. CASE Len(queue) # 1
    <3>1. queue' \in Seq(Project) /\ queue' # <<>>
      BY <2>1, <2>2, <2>5, HeadType
    <3>2. LoopsOK'
      BY <1>5, <2>1, <2>2, <2>5, <3>1 DEF TInv, LoopsOK, PayloadTested
    <3> QED
      BY <1>5, <2>1, <2>3, <2>5, <3>1, <3>2, Zenon DEF TInv, PayloadTested
  <2> QED
    BY <2>4, <2>5
<1>6. CASE PayloadFails
  BY <1>6, PathFailsT, ErrorKinds DEF PayloadFails, TInv, LoopsOK
<1>7. CASE ConcludeTest
  <2>1. verdict' \in Verdicts
    <3>1. Returned(TRUE) \in Verdicts
      BY DEF Returned, NoVerdict, Verdicts
    <3>2. \A u, v, f \in BOOLEAN :
            [how |-> "threw", unsupported |-> u, vulns |-> v, file |-> f] \in Verdicts
      BY DEF Verdicts
    <3>3. JsonVerdict \in Verdicts /\ TextVerdict \in Verdicts
      BY <3>1, <3>2 DEF JsonVerdict, TextVerdict, Failed
    <3> QED
      BY <1>7, <3>3 DEF ConcludeTest
  <2>2. LoopsOK'
    BY <1>7 DEF TInv, LoopsOK, ConcludeTest
  <2> QED
    BY <1>7, <2>1, <2>2, Zenon DEF TInv, ConcludeTest
<1> QED
  BY <1>1, <1>2, <1>3, <1>4, <1>5, <1>6, <1>7 DEF TestStep
-----------------------------------------------------------------------------
LEMMA MonitorStepT == TInv /\ MonitorStep => TInv'
<1> SUFFICES ASSUME TInv, MonitorStep PROVE TInv'
  OBVIOUS
<1>1. CASE MonitorScanFails
  <2>1. at \in Path /\ pc # "polling" /\ ScanError \in ResultKind
    BY <1>1, ErrorKinds, ScanErrorType DEF MonitorScanFails, TInv, LoopsOK
  <2>2. PathFails(ScanError)
    BY <1>1 DEF MonitorScanFails, PathFails
  <2> QED
    BY <2>1, <2>2, PathFailsT
<1>2. CASE CollectProjects
  <2>1. at \in Path /\ pc = "scanning"
    BY <1>2 DEF CollectProjects, TInv, LoopsOK
  <2>2. LoopsOK' /\ queue' \in Seq(Project) /\ got' \in Seq(Entries)
    BY <1>2, <2>1, QueueT DEF CollectProjects, SendFound
  <2>3. results' \in Seq(Entries)
    <3>1. Here.failed \in Nat
      BY <2>1 DEF TInv, Here, Scans
    <3>2. Result(at, 0, "error") \in Entries
      BY <2>1, ResultType DEF ResultKind, ErrorKind
    <3>3. [n \in 1..Here.failed |-> Result(at, 0, "error")] \in Seq(Entries)
      BY <3>1, <3>2, FunctionIsSeq
    <3> QED
      BY <1>2, <3>3, ConcatProperties DEF TInv, CollectProjects
  <2> QED
    BY <1>2, <2>2, <2>3, Zenon DEF TInv, CollectProjects
<1>3. ASSUME NEW kind \in ResultKind, Report(kind), Monitoring, pc = "sending",
             stored' \subseteq Project,
             UNCHANGED <<command, options, scan, job, verdict, exitCode, saved>>
      PROVE  TInv'
  <2>1. queue # <<>> /\ at \in Path
    BY <1>3 DEF TInv, LoopsOK
  <2>2. results' \in Seq(Entries)
    <3>1. Result(Head(queue)[1], Head(queue)[2], kind) \in Entries
      BY <1>3, <2>1, HeadType
    <3> QED
      BY <1>3, <3>1, AppendProperties DEF Report, TInv
  <2>3. CASE Len(queue) = 1
    <3>1. queue' = <<>> /\ got' = <<>> /\ pc' = "path" /\ at' = at + 1
      BY <1>3, <2>3 DEF Report, LeavePath
    <3>2. LoopsOK'
      BY <1>3, <2>1, <3>1, CliAssumption DEF TInv, LoopsOK, Path
    <3> QED
      BY <1>3, <2>2, <3>1, <3>2, EmptySeq, Zenon DEF TInv
  <2>4. CASE Len(queue) # 1
    <3>1. queue' \in Seq(Project) /\ queue' # <<>> /\ UNCHANGED <<at, pc, got>>
      BY <1>3, <2>1, <2>4, HeadType DEF Report
    <3>2. LoopsOK'
      BY <1>3, <3>1 DEF TInv, LoopsOK
    <3> QED
      BY <1>3, <2>2, <3>1, <3>2, Zenon DEF TInv
  <2> QED
    BY <2>3, <2>4
<1>4. pc = "sending" => Head(queue) \in Project /\ stored \subseteq Project
  BY HeadType DEF TInv, LoopsOK
<1>5. CASE ProjectMonitored
  BY <1>3, <1>4, <1>5, ErrorKinds DEF ProjectMonitored, Snapshot
<1>6. CASE ProjectRefused \/ AnswerLost
  BY <1>3, <1>4, <1>6 DEF ProjectRefused, AnswerLost, Snapshot, ResultKind, ErrorKind
<1>7. CASE ConcludeMonitor
  <2>1. verdict' \in Verdicts
    <3>1. Returned(FALSE) \in Verdicts
      BY DEF Returned, NoVerdict, Verdicts
    <3>2. \A k : Threw(k) \in Verdicts
      BY DEF Threw, NoVerdict, Verdicts
    <3> QED
      BY <1>7, <3>1, <3>2 DEF ConcludeMonitor
  <2>2. LoopsOK'
    BY <1>7 DEF TInv, LoopsOK, ConcludeMonitor
  <2> QED
    BY <1>7, <2>1, <2>2, Zenon DEF TInv, ConcludeMonitor
<1> QED
  BY <1>1, <1>2, <1>5, <1>6, <1>7 DEF MonitorStep
-----------------------------------------------------------------------------
LEMMA ThrewType ==
  ASSUME NEW k
  PROVE  Threw(k) \in Verdicts /\ Threw(k).how = "threw" /\ Threw(k).vulns = FALSE
BY DEF Threw, NoVerdict, Verdicts

(* One entry for the head of the queue and the loop goes on.               *)
LEMMA GoOnT ==
  ASSUME TInv, pc \in {"ecosend", "polling"}, queue # <<>>, NEW kind \in ResultKind, GoOn(kind),
         job' \in Jobs, job'.state = "none", stored' \subseteq Project,
         UNCHANGED <<command, options, at, scan, got, exitCode, saved>>
  PROVE  TInv'
<1>1. results' \in Seq(Entries)
  <2>1. Result(Head(queue)[1], Head(queue)[2], kind) \in Entries
    BY HeadType
  <2> QED
    BY <2>1, AppendProperties DEF GoOn, Entry, TInv
<1>2. queue' \in Seq(Project)
  BY HeadType DEF GoOn
<1>3. LoopsOK'
  BY DEF TInv, LoopsOK, GoOn
<1> QED
  BY <1>1, <1>2, <1>3, Zenon DEF TInv, GoOn

LEMMA ThrowsT ==
  ASSUME TInv, Throws, job' \in Jobs, job'.state = "none", stored' \subseteq Project,
         UNCHANGED <<command, options, at, scan, got, exitCode, saved>>
  PROVE  TInv'
<1>1. LoopsOK'
  BY DEF TInv, LoopsOK, Throws
<1>2. verdict' \in Verdicts
  BY ThrewType DEF Throws
<1> QED
  BY <1>1, <1>2, EmptySeq, Zenon DEF TInv, Throws

LEMMA NoJobType == NoJob \in Jobs /\ NoJob.state = "none"
BY DEF NoJob, Jobs

LEMMA RequestFailsT ==
  ASSUME TInv, pc \in {"ecosend", "polling"}, queue # <<>>,
         NEW isClientError, RequestFails(isClientError), stored' \subseteq Project,
         UNCHANGED <<command, options, at, scan, got, exitCode, saved>>
  PROVE  TInv'
BY GoOnT, ThrowsT, NoJobType DEF RequestFails, ResultKind, ErrorKind

LEMMA NotPolling ==
  ASSUME TInv, pc # "polling"
  PROVE  job.state = "none"
BY DEF TInv, LoopsOK

LEMMA EcosystemStepT == TInv /\ EcosystemStep => TInv'
<1> SUFFICES ASSUME TInv, EcosystemStep PROVE TInv'
  OBVIOUS
<1> USE DEF ResultKind
<1>1. CASE EcoScan
  <2>1. at \in Path /\ pc = "ecoscan" /\ job.state = "none" /\ job \in Jobs /\ job' = job
    BY <1>1, CliAssumption DEF EcoScan, TInv, LoopsOK, Path
  <2>2. CASE Throws /\ UNCHANGED at
    BY <1>1, <2>1, <2>2, ThrowsT DEF EcoScan, TInv
  <2>3. ASSUME NEW n \in 0..MaxProjects, queue' = queue \o [i \in 1..n |-> <<at, i>>],
               at' = at + 1, UNCHANGED <<pc, verdict, results>>
        PROVE  TInv'
    <3>1. [i \in 1..n |-> <<at, i>>] \in Seq(Project)
      <4>1. n \in Nat
        BY CliAssumption
      <4>2. [i \in 1..n |-> <<at, i>>] \in [1..n -> Project]
        BY <2>1, CliAssumption DEF Project
      <4> QED
        BY <4>1, <4>2, FunctionIsSeq
    <3>2. queue' \in Seq(Project)
      BY <2>3, <3>1, ConcatProperties DEF TInv
    <3>3. LoopsOK'
      BY <1>1, <2>1, <2>3, CliAssumption DEF TInv, LoopsOK, EcoScan, Path
    <3> QED
      BY <1>1, <2>3, <3>2, <3>3, Zenon DEF TInv, EcoScan
  <2> QED
    BY <1>1, <2>2, <2>3 DEF EcoScan
<1>2. CASE EcoScansDone
  <2>1. LoopsOK'
    BY <1>2 DEF TInv, LoopsOK, EcoScansDone
  <2> QED
    BY <1>2, <2>1, Zenon DEF TInv, EcoScansDone
<1>3. CASE SyncAnswered
  <2>1. pc = "ecosend" /\ queue # <<>> /\ job.state = "none" /\ job \in Jobs
    BY <1>3, NotPolling DEF SyncAnswered, TInv
  <2>2. stored \subseteq Project /\ stored \cup {Head(queue)} \subseteq Project
    BY <2>1, HeadType DEF TInv
  <2>3. UNCHANGED <<command, options, at, scan, got, exitCode, saved>>
    BY <1>3 DEF SyncAnswered
  <2>4. CASE GoOn("ok") /\ stored' = stored \cup {Head(queue)} /\ UNCHANGED job
    BY <2>1, <2>2, <2>3, <2>4, GoOnT
  <2>5. CASE GoOn("refused") /\ UNCHANGED <<stored, job>>
    BY <2>1, <2>2, <2>3, <2>5, GoOnT
  <2>6. CASE \E isClientError \in BOOLEAN : RequestFails(isClientError) /\ UNCHANGED stored
    BY <2>1, <2>2, <2>3, <2>6, RequestFailsT
  <2>7. CASE RequestFails(FALSE) /\ stored' = stored \cup {Head(queue)}
    BY <2>1, <2>2, <2>3, <2>7, RequestFailsT
  <2> QED
    BY <1>3, <2>4, <2>5, <2>6, <2>7 DEF SyncAnswered
<1>4. CASE TokenAnswered
  <2>1. pc = "ecosend" /\ queue # <<>> /\ stored' \subseteq Project
        /\ UNCHANGED <<command, options, at, scan, got, stored, exitCode, saved>>
    BY <1>4 DEF TokenAnswered, TInv
  <2>2. CASE \E isClientError \in BOOLEAN : RequestFails(isClientError)
    BY <2>1, <2>2, RequestFailsT
  <2>3. ASSUME NEW limit \in 0..MaxAttempts \cup {Unlimited},
               job' = [state |-> "running", limit |-> limit, attempts |-> 0, polls |-> 0],
               pc' = "polling", UNCHANGED <<queue, results, verdict>>
        PROVE  TInv'
    <3>1. limit \in Nat
      BY CliAssumption DEF Unlimited
    <3>2. job' \in Jobs /\ job'.state = "running"
      BY <2>3, <3>1 DEF Jobs
    <3>3. LoopsOK'
      BY <2>1, <2>3, <3>2 DEF TInv, LoopsOK
    <3> QED
      BY <2>1, <2>3, <3>2, <3>3, Zenon DEF TInv
  <2> QED
    BY <1>4, <2>2, <2>3 DEF TokenAnswered
<1>5. CASE PollReady
  <2>1. pc = "polling" /\ queue # <<>> /\ stored' \subseteq Project
        /\ UNCHANGED <<command, options, at, scan, got, exitCode, saved>>
        /\ job' \in Jobs /\ job'.state = "none"
    BY <1>5, NoJobType DEF PollReady, TInv, LoopsOK
  <2>2. PICK kind \in IF command = "monitor" THEN {"ok"} ELSE VulnKind \cup {"ok"} : GoOn(kind)
    BY <1>5 DEF PollReady
  <2> QED
    BY <2>1, <2>2, GoOnT
<1>6. CASE PollPending
  <2>1. pc = "polling" /\ queue # <<>> /\ stored' \subseteq Project
        /\ UNCHANGED <<command, options, at, scan, got, stored, exitCode, saved>>
    BY <1>6 DEF PollPending, TInv, LoopsOK
  <2>2. CASE RequestFails(FALSE)
    BY <2>1, <2>2, RequestFailsT
  <2>3. ASSUME job' = [job EXCEPT !.polls = IF @ < MaxPolls THEN @ + 1 ELSE @],
               UNCHANGED <<pc, queue, results, verdict>>
        PROVE  TInv'
    <3>1. job' \in Jobs /\ job'.state = job.state
      BY <2>3 DEF TInv, Jobs
    <3>2. LoopsOK'
      BY <2>1, <2>3, <3>1 DEF TInv, LoopsOK
    <3> QED
      BY <2>1, <2>3, <3>1, <3>2, Zenon DEF TInv
  <2> QED
    BY <1>6, <2>2, <2>3 DEF PollPending
<1>7. CASE PollFails
  <2>1. pc = "polling" /\ queue # <<>> /\ stored' \subseteq Project
        /\ UNCHANGED <<command, options, at, scan, got, exitCode, saved>>
    BY <1>7 DEF PollFails, TInv, LoopsOK
  <2> QED
    BY <1>7, <2>1, RequestFailsT DEF PollFails
<1>8. CASE EcoConclude
  <2>1. verdict' \in Verdicts
    <3>1. \A f \in BOOLEAN : Returned(f) \in Verdicts
      BY DEF Returned, NoVerdict, Verdicts
    <3> QED
      BY <1>8, <3>1, ThrewType DEF EcoConclude
  <2>2. LoopsOK'
    BY <1>8 DEF TInv, LoopsOK, EcoConclude
  <2> QED
    BY <1>8, <2>1, <2>2, Zenon DEF TInv, EcoConclude
<1> QED
  BY <1>1, <1>2, <1>3, <1>4, <1>5, <1>6, <1>7, <1>8 DEF EcosystemStep

LEMMA ServerFinishesT == TInv /\ ServerFinishes => TInv'
<1> SUFFICES ASSUME TInv, ServerFinishes PROVE TInv'
  OBVIOUS
<1>1. pc = "polling" /\ queue # <<>> /\ job \in Jobs
  BY DEF TInv, LoopsOK, ServerFinishes
<1>2. stored' \subseteq Project
  BY <1>1, HeadType DEF TInv, ServerFinishes
<1>3. job' \in Jobs /\ job'.state \in {"ready", "failed"}
  BY <1>1 DEF ServerFinishes, Jobs
<1>4. LoopsOK'
  BY <1>1, <1>3 DEF TInv, LoopsOK, ServerFinishes
<1> QED
  BY <1>2, <1>3, <1>4, Zenon DEF TInv, ServerFinishes

LEMMA MainStepT == TInv /\ (MainStep \/ UnexpectedError) => TInv'
<1> SUFFICES ASSUME TInv, MainStep \/ UnexpectedError PROVE TInv'
  OBVIOUS
<1>1. CASE Refuse
  <2>1. LoopsOK' /\ verdict' \in Verdicts
    BY <1>1, ThrewType DEF TInv, LoopsOK, Refuse
  <2> QED
    BY <1>1, <2>1, Zenon DEF TInv, Refuse
<1>2. CASE RunCommand
  <2>1. LoopsOK'
    BY <1>2 DEF TInv, LoopsOK, RunCommand
  <2> QED
    BY <1>2, <2>1, Zenon DEF TInv, RunCommand
<1>3. CASE CommandReturned
  <2>1. LoopsOK'
    BY <1>3 DEF TInv, LoopsOK, CommandReturned
  <2>2. saved' \in BOOLEAN
    BY <1>3, Zenon DEF CommandReturned, SaveResults, TInv
  <2> QED
    BY <1>3, <2>1, <2>2, Zenon DEF TInv, CommandReturned
<1>4. CASE HandleError
  <2>1. LoopsOK'
    BY <1>4 DEF TInv, LoopsOK, HandleError
  <2>2. saved' \in BOOLEAN
    BY <1>4, Zenon DEF HandleError, SaveResults, TInv
  <2>3. exitCode' \in 0..3
    BY <1>4 DEF HandleError, ExitCode, EXIT_CODES
  <2> QED
    BY <1>4, <2>1, <2>2, <2>3, Zenon DEF TInv, HandleError
<1>5. CASE UnexpectedError
  <2>1. LoopsOK' /\ job' \in Jobs
    BY <1>5, NoJobType DEF TInv, LoopsOK, UnexpectedError
  <2>2. verdict' \in Verdicts
    BY <1>5 DEF UnexpectedError, NoVerdict, Verdicts
  <2>3. exitCode' \in 0..3
    BY <1>5 DEF UnexpectedError, EXIT_CODES
  <2> QED
    BY <1>5, <2>1, <2>2, <2>3, Zenon DEF TInv, UnexpectedError
<1> QED
  BY <1>1, <1>2, <1>3, <1>4, <1>5 DEF MainStep

LEMMA NextT == TInv /\ [Next]_vars => TInv'
<1>1. TInv /\ UNCHANGED vars => TInv'
  BY Zenon DEF vars, TInv, LoopsOK
<1> QED
  BY <1>1, BeginPathT, InspectT, TestStepT, MonitorStepT, EcosystemStepT, ServerFinishesT, MainStepT
     DEF Next, Step

(* Whatever is scanned, sent, answered or fails, every entry is about a    *)
(* path of the command line, nothing is sent from an empty queue and a job *)
(* is held exactly while it is polled.                                     *)
THEOREM CliTypes == Spec => []TypeOK
<1>1. TInv => TypeOK
  <2> SUFFICES ASSUME TInv PROVE TypeOK
    OBVIOUS
  <2>1. \A p \in Path :
          /\ scan[p].phase \in {"none", "inspecting", "done", "unsupported", "threw"}
          /\ scan[p].left \in 0..MaxTargets /\ scan[p].failed \in 0..MaxTargets
          /\ scan[p].found \in Seq(BOOLEAN)
          /\ scan[p].phase = "inspecting" <=> scan[p].left > 0
    BY DEF TInv, Scans, ScanOK
  <2>2. \A i \in DOMAIN results : results[i] \in [path: Path, nth: Nat, kind: ResultKind]
    BY SeqElement DEF TInv, Entries
  <2>3. \A i \in DOMAIN got : got[i] \in [path: Path, nth: Nat, kind: ResultKind]
    BY SeqElement DEF TInv, Entries
  <2>4. verdict.how \in {"none", "returned", "threw"}
    BY DEF TInv, Verdicts
  <2> QED
    BY <2>1, <2>2, <2>3, <2>4, Zenon DEF TInv, LoopsOK, TypeOK
<1> QED
  BY <1>1, InitT, NextT, PTL DEF Spec
-----------------------------------------------------------------------------
LEMMA TInvAlways == Spec => []TInv
BY InitT, NextT, PTL DEF Spec

(* A monitor job that is ready has left its snapshot on the server.        *)
SInv ==
  /\ ShownMeansStored
  /\ command = "monitor" /\ job.state = "ready" => Head(queue) \in stored

LEMMA ShownMore ==
  ASSUME TInv, ShownMeansStored, NEW e \in Entries, results' = Append(results, e),
         e.kind = "ok" => <<e.path, e.nth>> \in stored',
         stored \subseteq stored', UNCHANGED command
  PROVE  ShownMeansStored'
<1>1. /\ Len(results) \in Nat /\ Len(results') = Len(results) + 1
      /\ \A i \in 1..Len(results) : results'[i] = results[i]
      /\ results'[Len(results) + 1] = e /\ results' \in Seq(Entries)
  BY AppendProperties, LenProperties DEF TInv
<1>2. DOMAIN results' = 1..(Len(results) + 1) /\ DOMAIN results = 1..Len(results)
  BY <1>1, LenProperties DEF TInv
<1> SUFFICES ASSUME command = "monitor", NEW i \in DOMAIN results', results'[i].kind = "ok"
             PROVE  <<results'[i].path, results'[i].nth>> \in stored'
  BY DEF ShownMeansStored
<1>3. CASE i = Len(results) + 1
  BY <1>1, <1>3
<1>4. CASE i # Len(results) + 1
  <2>1. i \in DOMAIN results /\ results'[i] = results[i]
    BY <1>1, <1>2, <1>4
  <2> QED
    BY <2>1 DEF ShownMeansStored
<1> QED
  BY <1>3, <1>4

LEMMA ShownSame ==
  ASSUME ShownMeansStored, results' = results \/ results' = <<>>,
         stored \subseteq stored', UNCHANGED command
  PROVE  ShownMeansStored'
BY DEF ShownMeansStored

LEMMA HeadEntry ==
  ASSUME TInv, queue # <<>>, NEW kind \in ResultKind
  PROVE  LET e == Result(Head(queue)[1], Head(queue)[2], kind)
         IN  e \in Entries /\ e.kind = kind /\ <<e.path, e.nth>> = Head(queue)
BY HeadType DEF Result

LEMMA ShownReport ==
  ASSUME TInv, ShownMeansStored, queue # <<>>, NEW kind \in ResultKind,
         results' = Append(results, Result(Head(queue)[1], Head(queue)[2], kind)),
         kind = "ok" => Head(queue) \in stored',
         stored \subseteq stored', UNCHANGED command
  PROVE  ShownMeansStored'
BY HeadEntry, ShownMore

LEMMA ShownAfterFailure ==
  ASSUME TInv, SInv, pc \in {"ecosend", "polling"}, queue # <<>>,
         NEW isClientError, RequestFails(isClientError),
         stored \subseteq stored', UNCHANGED command
  PROVE  SInv'
<1>1. "error" \in ResultKind /\ "error" # "ok"
  BY DEF ResultKind, ErrorKind
<1>2. CASE GoOn("error")
  BY <1>1, <1>2, ShownReport DEF SInv, RequestFails, GoOn, Entry, NoJob
<1>3. CASE Throws
  BY <1>3, ShownSame DEF SInv, RequestFails, Throws, NoJob
<1> QED
  BY <1>2, <1>3 DEF RequestFails

LEMMA ShownStep == TInv /\ SInv /\ [Next]_vars => SInv'
<1> SUFFICES ASSUME TInv, SInv, [Next]_vars, command = "monitor", command' = command
             PROVE  SInv'
  <2>1. ASSUME [Next]_vars PROVE command' = command
    BY <2>1, Zenon DEF vars, Next, Step, MainStep, TestStep, MonitorStep, EcosystemStep, Refuse, RunCommand,
         CommandReturned, HandleError, UnexpectedError, ServerFinishes, BeginPath, Inspect, TestScanFails,
         AssembleFails, Assemble, SendFound, AssembleRemote, PayloadTested, PayloadFails, PathFails, ConcludeTest,
         MonitorScanFails, CollectProjects, SendFound, ProjectMonitored, ProjectRefused, AnswerLost, ConcludeMonitor, EcoScan,
         EcoScansDone, SyncAnswered, TokenAnswered, PollReady, PollPending, PollFails, EcoConclude
  <2>2. ASSUME command # "monitor", command' = command PROVE SInv'
    BY <2>2 DEF SInv, ShownMeansStored
  <2> QED
    BY <2>1, <2>2
<1>0. ShownMeansStored
  BY DEF SInv
<1>1. CASE UNCHANGED vars
  BY <1>1, Zenon DEF vars, SInv, ShownMeansStored
<1>2. CASE MainStep \/ BeginPath \/ Inspect
  <2>1. UNCHANGED <<results, stored, job, queue>>
    BY <1>2, Zenon DEF MainStep, Refuse, RunCommand, CommandReturned, HandleError, BeginPath, Inspect
  <2> QED
    BY <2>1 DEF SInv, ShownMeansStored
<1>3. CASE UnexpectedError
  BY <1>3 DEF UnexpectedError, SInv, ShownMeansStored, NoJob
<1>4. CASE ServerFinishes
  <2>1. stored \subseteq stored' /\ UNCHANGED <<results, queue>>
    BY <1>4 DEF ServerFinishes
  <2>2. job'.state = "ready" => Head(queue) \in stored'
    BY <1>4 DEF ServerFinishes, TInv, Jobs
  <2> QED
    BY <1>0, <2>1, <2>2, ShownSame DEF SInv
<1>5. CASE TestStep
  BY <1>5 DEF TestStep, Testing, TestScanFails, AssembleFails, Assemble, SendFound, AssembleRemote, PayloadTested,
              PayloadFails, ConcludeTest
<1>6. CASE MonitorStep
  <2>0. pc # "polling" /\ job' = job /\ job.state = "none"
    BY <1>6, NotPolling DEF MonitorStep, MonitorScanFails, CollectProjects, SendFound, ProjectMonitored, ProjectRefused, AnswerLost,
                            ConcludeMonitor
  <2>1. CASE MonitorScanFails
    <3>1. at \in Path /\ ScanError \in ErrorKind
      BY <2>1, ScanErrorType DEF MonitorScanFails, TInv, LoopsOK
    <3>2. Result(at, 0, ScanError) \in Entries /\ Result(at, 0, ScanError).kind # "ok"
      BY <3>1, ResultType, ErrorKinds DEF Result, ErrorKind
    <3> QED
      BY <1>0, <2>0, <2>1, <3>2, ShownMore DEF MonitorScanFails, SInv
  <2>2. CASE CollectProjects
    <3>1. Here.failed \in Nat /\ at \in Path
      BY <2>2 DEF TInv, LoopsOK, Here, Scans, CollectProjects
    <3> DEFINE es == [n \in 1..Here.failed |-> Result(at, 0, "error")]
    <3>2. Result(at, 0, "error") \in Entries /\ Result(at, 0, "error").kind = "error"
      BY <3>1, ResultType DEF ResultKind, ErrorKind, Result
    <3>3. es \in Seq(Entries) /\ Len(es) = Here.failed /\ \A i \in 1..Len(es) : es[i].kind = "error"
      BY <3>1, <3>2, FunctionIsSeq
    <3> HIDE DEF es
    <3>4. results' = results \o es /\ stored' = stored
      BY <2>2 DEF CollectProjects, es
    <3>5. /\ results' \in Seq(Entries) /\ Len(results') = Len(results) + Len(es)
          /\ \A i \in 1..(Len(results) + Len(es)) :
               results'[i] = IF i <= Len(results) THEN results[i] ELSE es[i - Len(results)]
      BY <3>3, <3>4, ConcatProperties DEF TInv
    <3>6. /\ DOMAIN results' = 1..(Len(results) + Len(es)) /\ DOMAIN results = 1..Len(results)
          /\ Len(results) \in Nat /\ Len(es) \in Nat
      BY <3>3, <3>5, LenProperties DEF TInv
    <3>7. ASSUME NEW i \in DOMAIN results', results'[i].kind = "ok"
          PROVE  <<results'[i].path, results'[i].nth>> \in stored'
      <4>1. CASE i <= Len(results)
        <5>1. i \in DOMAIN results /\ results'[i] = results[i]
          BY <3>5, <3>6, <4>1
        <5> QED
          BY <1>0, <3>4, <3>7, <5>1 DEF ShownMeansStored
      <4>2. CASE ~(i <= Len(results))
        <5>1. i - Len(results) \in 1..Len(es) /\ results'[i] = es[i - Len(results)]
          BY <3>5, <3>6, <4>2
        <5> QED
          BY <3>3, <3>7, <5>1
      <4> QED
        BY <4>1, <4>2
    <3> QED
      BY <2>0, <3>7 DEF SInv, ShownMeansStored
  <2>3. ASSUME NEW kind \in ResultKind, pc = "sending", Report(kind), stored \subseteq stored',
               kind = "ok" => Head(queue) \in stored'
        PROVE  SInv'
    <3>1. queue # <<>>
      BY <2>3 DEF TInv, LoopsOK
    <3> QED
      BY <1>0, <2>0, <2>3, <3>1, ShownReport DEF Report, SInv
  <2>4. CASE ProjectMonitored
    BY <2>3, <2>4, ErrorKinds DEF ProjectMonitored, Snapshot
  <2>5. CASE ProjectRefused \/ AnswerLost
    BY <2>3, <2>5 DEF ProjectRefused, AnswerLost, Snapshot, ResultKind, ErrorKind
  <2>6. CASE ConcludeMonitor
    BY <1>0, <2>0, <2>6, ShownSame DEF ConcludeMonitor, SInv
  <2> QED
    BY <1>6, <2>1, <2>2, <2>4, <2>5, <2>6 DEF MonitorStep
<1>7. CASE EcosystemStep
  <2>1. CASE EcoScan \/ EcoScansDone \/ EcoConclude
    <3>1. pc # "polling" /\ UNCHANGED <<job, stored>> /\ (results' = results \/ results' = <<>>)
      BY <2>1 DEF EcoScan, EcoScansDone, EcoConclude, Throws
    <3> QED
      BY <1>0, <3>1, ShownSame, NotPolling DEF SInv
  <2>2. CASE SyncAnswered
    <3>1. pc = "ecosend" /\ queue # <<>> /\ job.state = "none" /\ stored \subseteq stored'
      BY <2>2, NotPolling DEF SyncAnswered
    <3>2. ASSUME NEW kind \in ResultKind, GoOn(kind), kind = "ok" => Head(queue) \in stored', job' = job
          PROVE  SInv'
      BY <1>0, <3>1, <3>2, ShownReport DEF SInv, GoOn, Entry
    <3>3. CASE GoOn("ok") /\ stored' = stored \cup {Head(queue)} /\ UNCHANGED job
      BY <3>2, <3>3, ErrorKinds
    <3>4. CASE GoOn("refused") /\ UNCHANGED <<stored, job>>
      BY <3>2, <3>4 DEF ResultKind
    <3>5. CASE \E isClientError \in BOOLEAN : RequestFails(isClientError)
      BY <3>1, <3>5, ShownAfterFailure
    <3> QED
      BY <2>2, <3>3, <3>4, <3>5 DEF SyncAnswered
  <2>3. CASE TokenAnswered
    <3>1. pc = "ecosend" /\ queue # <<>> /\ stored' = stored
      BY <2>3 DEF TokenAnswered
    <3>2. CASE \E isClientError \in BOOLEAN : RequestFails(isClientError)
      BY <3>1, <3>2, ShownAfterFailure
    <3>3. CASE /\ \E limit \in 0..MaxAttempts \cup {Unlimited} :
                    job' = [state |-> "running", limit |-> limit, attempts |-> 0, polls |-> 0]
               /\ UNCHANGED results
      BY <1>0, <3>1, <3>3, ShownSame DEF SInv
    <3> QED
      BY <2>3, <3>2, <3>3 DEF TokenAnswered
  <2>4. CASE PollReady
    <3>1. queue # <<>> /\ Head(queue) \in stored /\ stored' = stored /\ job' = NoJob /\ GoOn("ok")
      BY <2>4 DEF PollReady, SInv, TInv, LoopsOK
    <3> QED
      BY <1>0, <3>1, ShownReport, ErrorKinds DEF SInv, GoOn, Entry, NoJob
  <2>5. CASE PollPending
    <3>1. pc = "polling" /\ queue # <<>> /\ stored' = stored /\ job.state \in {"running", "failed"}
      BY <2>5 DEF PollPending, TInv, LoopsOK
    <3>2. CASE RequestFails(FALSE)
      BY <3>1, <3>2, ShownAfterFailure
    <3>3. CASE job' = [job EXCEPT !.polls = IF @ < MaxPolls THEN @ + 1 ELSE @] /\ UNCHANGED results
      <4>1. job'.state = job.state
        BY <3>3 DEF TInv, Jobs
      <4> QED
        BY <1>0, <3>1, <3>3, <4>1, ShownSame DEF SInv
    <3> QED
      BY <2>5, <3>2, <3>3 DEF PollPending
  <2>6. CASE PollFails
    <3>1. pc = "polling" /\ queue # <<>> /\ stored' = stored
      BY <2>6 DEF PollFails, TInv, LoopsOK
    <3> QED
      BY <2>6, <3>1, ShownAfterFailure DEF PollFails
  <2> QED
    BY <1>7, <2>1, <2>2, <2>3, <2>4, <2>5, <2>6 DEF EcosystemStep
<1> QED
  BY <1>1, <1>2, <1>3, <1>4, <1>5, <1>6, <1>7 DEF Next, Step

(* A project `snyk monitor` shows as monitored is one the server keeps,    *)
(* whether it was sent at once or its job was polled.                      *)
THEOREM MonitoredIsStored == Spec => []ShownMeansStored
<1>1. Init => SInv
  BY DEF Init, SInv, ShownMeansStored, NoJob
<1>2. SInv => ShownMeansStored
  BY DEF SInv
<1> QED
  BY <1>1, <1>2, ShownStep, TInvAlways, PTL DEF Spec
-----------------------------------------------------------------------------
(* What exit code 1 of `snyk test` is to mean.                             *)
Answer ==
  /\ \E i \in DOMAIN results : results[i].kind = "vulns" \/ (results[i].kind = "unfixable" /\ ~options.failOn)
  /\ \A i \in DOMAIN results : results[i].kind \notin ErrorKind

(* The verdict is reached once, from the results that are shown.           *)
VInv ==
  /\ pc \notin {"handling", "done"} => exitCode = 0
  /\ pc = "start" => results = <<>>
  /\ Testing => pc \notin {"ecoscan", "ecosend", "polling"}
  /\ Testing /\ pc = "handling" =>
       exitCode = 0 /\ (verdict.how = "threw" /\ verdict.vulns <=> Answer)
  /\ OneMeansVulns

(* Text and JSON output agree on what vulnerabilities are worth.           *)
LEMMA VerdictIsAnswer ==
  ASSUME NEW v \in {JsonVerdict, TextVerdict}
  PROVE  v.how = "threw" /\ v.vulns <=> Answer
<1>1. Vulnerable <=> \E i \in DOMAIN results : results[i].kind \in {"vulns", "unfixable"}
  BY DEF Vulnerable, None, VulnKind
<1>2. Failed <=> ~(\A i \in DOMAIN results : results[i].kind \notin ErrorKind)
  BY DEF Failed, None
<1>3. Answer <=> ~Failed /\ Vulnerable /\ ~Forgiven
  <2>1. Forgiven <=> options.failOn /\ \A i \in DOMAIN results : results[i].kind # "vulns"
    BY Zenon DEF Forgiven, None
  <2>2. ASSUME Answer PROVE ~Failed /\ Vulnerable /\ ~Forgiven
    BY <1>1, <1>2, <2>1, <2>2, Zenon DEF Answer
  <2>3. ASSUME ~Failed, Vulnerable, ~Forgiven PROVE Answer
    BY <1>1, <1>2, <2>1, <2>3, Zenon DEF Answer
  <2> QED
    BY <2>2, <2>3
<1>4. None(VulnKind \cup ErrorKind) <=> ~Vulnerable /\ ~Failed
  BY DEF None, Vulnerable, Failed
<1>5. Returned(TRUE).how = "returned"
  BY DEF Returned, NoVerdict
<1>6. CASE v = JsonVerdict
  <2>1. CASE None(VulnKind \cup ErrorKind) \/ (Vulnerable /\ Forgiven)
    BY <1>3, <1>4, <1>5, <1>6, <2>1 DEF JsonVerdict
  <2>2. CASE ~(None(VulnKind \cup ErrorKind) \/ (Vulnerable /\ Forgiven))
    <3>1. v = [how |-> "threw", unsupported |-> ~None({"unsupported"}), vulns |-> ~Failed, file |-> TRUE]
      BY <1>6, <2>2, Zenon DEF JsonVerdict
    <3>2. v.how = "threw" /\ (v.vulns <=> ~Failed)
      BY <3>1
    <3> QED
      BY <1>3, <1>4, <2>2, <3>2, Zenon
  <2> QED
    BY <2>1, <2>2
<1>7. CASE v = TextVerdict
  <2>1. CASE Failed
    <3>1. v = [how |-> "threw", unsupported |-> ~None({"unsupported"}), vulns |-> FALSE, file |-> FALSE]
      BY <1>7, <2>1, Zenon DEF TextVerdict
    <3>2. ~v.vulns
      BY <3>1
    <3> QED
      BY <1>3, <2>1, <3>2, Zenon
  <2>2. CASE ~Failed /\ (~Vulnerable \/ Forgiven)
    BY <1>3, <1>5, <1>7, <2>2 DEF TextVerdict
  <2>3. CASE ~Failed /\ Vulnerable /\ ~Forgiven
    <3>1. v = [how |-> "threw", unsupported |-> FALSE, vulns |-> TRUE, file |-> TRUE]
      BY <1>7, <2>3, Zenon DEF TextVerdict
    <3>2. v.how = "threw" /\ v.vulns
      BY <3>1
    <3> QED
      BY <1>3, <2>3, <3>2, Zenon
  <2> QED
    BY <2>1, <2>2, <2>3
<1> QED
  BY <1>6, <1>7

LEMMA StillRunning ==
  ASSUME VInv, UNCHANGED <<command, options, exitCode>>, pc \notin {"handling", "done"},
         pc' \notin {"start", "handling", "done"},
         Testing => pc' \notin {"ecoscan", "ecosend", "polling"}
  PROVE  VInv'
<1>1. Testing' = Testing
  BY DEF Testing
<1> QED
  BY <1>1 DEF VInv, OneMeansVulns, Concluded

LEMMA VerdictStep == TInv /\ VInv /\ [Next]_vars => VInv'
<1> SUFFICES ASSUME TInv, VInv, [Next]_vars PROVE VInv'
  OBVIOUS
<1>1. CASE UNCHANGED vars
  BY <1>1, Zenon DEF vars, VInv, Testing, Answer, OneMeansVulns, Concluded
<1>2. CASE Refuse
  <2>1. results = <<>> /\ ~verdict'.vulns /\ exitCode' = 0 /\ UNCHANGED <<results, options, command>>
    BY <1>2, ThrewType DEF Refuse, VInv
  <2>2. ~Answer'
    BY <2>1 DEF Answer
  <2> QED
    BY <1>2, <2>1, <2>2 DEF Refuse, VInv, OneMeansVulns, Concluded, Testing
<1>3. CASE RunCommand
  BY <1>3, StillRunning DEF RunCommand, Testing
<1>4. CASE CommandReturned
  <2>1. Answer' = Answer /\ Testing' = Testing /\ exitCode' = exitCode /\ pc' = "done"
    BY <1>4 DEF CommandReturned, Answer, Testing
  <2>2. Testing => ~Answer /\ exitCode = 0
    BY <1>4 DEF CommandReturned, VInv
  <2> QED
    BY <2>1, <2>2 DEF VInv, OneMeansVulns, Answer
<1>5. CASE HandleError
  <2>1. Answer' = Answer /\ Testing' = Testing /\ exitCode' = ExitCode /\ pc' = "done"
    BY <1>5 DEF HandleError, Answer, Testing
  <2>2. Testing => (verdict.vulns <=> Answer)
    BY <1>5 DEF HandleError, VInv
  <2>3. ExitCode = 1 <=> verdict.vulns
    BY DEF ExitCode, EXIT_CODES
  <2> QED
    BY <2>1, <2>2, <2>3 DEF VInv, OneMeansVulns, Answer
<1>6. CASE UnexpectedError
  BY <1>6 DEF UnexpectedError, VInv, OneMeansVulns, Concluded, NoVerdict
<1>7. CASE BeginPath \/ Inspect
  BY <1>7, StillRunning DEF BeginPath, Inspect
<1>8. CASE TestStep
  <2>1. CASE ConcludeTest
    <3>1. verdict' \in {JsonVerdict, TextVerdict} /\ pc' = "handling" /\ exitCode = 0
          /\ UNCHANGED <<command, options, results, exitCode>>
      BY <2>1 DEF ConcludeTest, VInv
    <3>2. (verdict'.how = "threw" /\ verdict'.vulns <=> Answer) /\ Answer' = Answer
      BY <3>1, VerdictIsAnswer DEF Answer
    <3> QED
      BY <3>1, <3>2 DEF VInv, OneMeansVulns, Concluded, Testing
  <2>2. CASE TestStep /\ ~ConcludeTest
    <3>1. /\ pc \in {"scanning", "path", "sending"} /\ pc' \in {"scanning", "path", "sending"}
          /\ UNCHANGED <<command, options, exitCode>>
      BY <2>2 DEF TestStep, TestScanFails, AssembleFails, Assemble, SendFound, AssembleRemote, PayloadTested,
                  PayloadFails, PathFails, LeavePath
    <3> QED
      BY <3>1, StillRunning
  <2> QED
    BY <1>8, <2>1, <2>2
<1>9. CASE MonitorStep \/ ServerFinishes \/ EcosystemStep
  <2>1. ~Testing
    BY <1>9 DEF MonitorStep, MonitorScanFails, CollectProjects, SendFound, ProjectMonitored, ProjectRefused, AnswerLost,
                ConcludeMonitor, Monitoring, Testing, EcosystemStep, EcoScan, EcoScansDone, SyncAnswered,
                TokenAnswered, PollReady, PollPending, PollFails, EcoConclude, ServerFinishes, VInv,
                TInv, LoopsOK
  <2>2. UNCHANGED <<command, options, exitCode>> /\ pc' # "start" /\ pc \notin {"handling", "done"}
        /\ pc' # "done"
    BY <1>9, Zenon
         DEF MonitorStep, MonitorScanFails, CollectProjects, SendFound, ProjectMonitored, ProjectRefused, AnswerLost,
             ConcludeMonitor, EcosystemStep, EcoScan, EcoScansDone, SyncAnswered,
             TokenAnswered, PollReady, PollPending, PollFails, EcoConclude, ServerFinishes,
             TInv, LoopsOK, GoOn, Throws, RequestFails, Report, LeavePath
  <2> QED
    BY <2>1, <2>2 DEF VInv, Testing, OneMeansVulns, Concluded
<1> QED
  BY <1>1, <1>2, <1>3, <1>4, <1>5, <1>6, <1>7, <1>8, <1>9 DEF Next, Step, MainStep

(* `snyk test` ends with 1 exactly when there are vulnerabilities that     *)
(* --fail-on does not forgive and no path failed, with and without --json. *)
THEOREM ExitOneMeansVulns == Spec => []OneMeansVulns
<1>1. Init => VInv
  BY DEF Init, VInv, Testing, OneMeansVulns, Concluded
<1>2. VInv => OneMeansVulns
  BY DEF VInv
<1> QED
  BY <1>1, <1>2, VerdictStep, TInvAlways, PTL DEF Spec
-----------------------------------------------------------------------------
(* What is to hold of a path before it counts as monitored.                *)
PathMonitored(p) ==
  /\ scan[p].phase = "done" /\ scan[p].failed = 0
  /\ \A n \in DOMAIN scan[p].found : <<p, n>> \in stored

(* A path behind the loop is monitored, what the current one still owes is *)
(* in the queue; or an entry tells of a failure.                           *)
PathsBehind == \A p \in Path : p < at => PathMonitored(p)

RestIsQueued ==
  /\ scan[at].phase = "done" /\ scan[at].failed = 0
  /\ \A n \in DOMAIN scan[at].found :
       <<at, n>> \in stored \/ \E i \in DOMAIN queue : queue[i] = <<at, n>>

MInv ==
  /\ pc \notin {"handling", "done"} => exitCode = 0
  /\ pc = "start" => at = 1
  /\ Monitoring => pc \notin {"ecoscan", "ecosend", "polling"}
  /\ Monitoring /\ pc \in {"start", "path", "scanning", "sending"} => ~None(ErrorKind) \/ PathsBehind
  /\ Monitoring /\ pc = "sending" => ~None(ErrorKind) \/ RestIsQueued
  /\ Monitoring /\ pc = "handling" => verdict.how # "returned" \/ \A p \in Path : PathMonitored(p)
  /\ ZeroMeansMonitored

LEMMA ErrorStays ==
  ASSUME TInv, NEW es \in Seq(Entries), results' = results \o es, ~None(ErrorKind)
  PROVE  ~None(ErrorKind)'
<1>1. PICK i \in DOMAIN results : results[i].kind \in ErrorKind
  BY DEF None
<1>2. results' \in Seq(Entries) /\ i \in DOMAIN results' /\ results'[i] = results[i]
  BY ConcatProperties, LenProperties DEF TInv
<1> QED
  BY <1>1, <1>2 DEF None

LEMMA ErrorAdded ==
  ASSUME TInv, NEW e \in Entries, results' = Append(results, e), e.kind \in ErrorKind
  PROVE  ~None(ErrorKind)'
<1>1. results' \in Seq(Entries) /\ Len(results) + 1 \in DOMAIN results' /\ results'[Len(results) + 1] = e
  BY AppendProperties, LenProperties DEF TInv
<1> QED
  BY <1>1 DEF None

(* The next path begins with a clean slate, if the one that is left is     *)
(* monitored.                                                              *)
LEMMA MonitorGoesOn ==
  ASSUME TInv, MInv, Monitoring, pc \in {"scanning", "sending"}, LeavePath,
         stored \subseteq stored', UNCHANGED <<command, options, scan, exitCode>>,
         NEW CONSTANT here, here = at,
         ~None(ErrorKind)' \/ (None(ErrorKind) /\ PathMonitored(here)')
  PROVE  MInv'
<1>1. pc' = "path" /\ at' = at + 1 /\ Monitoring' = Monitoring /\ Monitoring' /\ exitCode' = 0
  BY DEF LeavePath, Monitoring, MInv
<1>2. ASSUME None(ErrorKind)', NEW p \in Path, p < at'
      PROVE  PathMonitored(p)'
  <2>1. None(ErrorKind) /\ PathMonitored(here)' /\ PathsBehind
    BY <1>2 DEF MInv
  <2>2. at \in Nat /\ p \in Nat
    BY PathTypes, CliAssumption DEF TInv, LoopsOK
  <2>3. CASE p < at
    BY <2>1, <2>3 DEF PathsBehind, PathMonitored
  <2>4. CASE p = at
    BY <2>1, <2>4
  <2> QED
    BY <1>1, <1>2, <2>2, <2>3, <2>4
<1>3. ~None(ErrorKind)' \/ PathsBehind'
  BY <1>2 DEF PathsBehind
<1> QED
  BY <1>1, <1>3 DEF MInv, ZeroMeansMonitored

(* A project leaves the queue with a snapshot, or with an error.           *)
LEMMA MonitorReports ==
  ASSUME TInv, MInv, Monitoring, pc = "sending", NEW kind \in {"ok", "error"}, Report(kind),
         kind = "ok" => stored' = stored \cup {Head(queue)}, stored \subseteq stored',
         UNCHANGED <<command, options, scan, exitCode>>
  PROVE  MInv'
<1>1. queue # <<>> /\ at \in Path
  BY DEF TInv, LoopsOK
<1> PICK e \in Entries : e.kind = kind /\ results' = Append(results, e)
  BY <1>1, HeadEntry DEF Report, ResultKind, ErrorKind
<1>2. kind = "error" => ~None(ErrorKind)'
  BY ErrorAdded DEF ErrorKind
<1>3. ~None(ErrorKind) => ~None(ErrorKind)'
  <2>1. <<e>> \in Seq(Entries) /\ results' = results \o <<e>>
    BY AppendIsConcat DEF TInv
  <2> QED
    BY <2>1, ErrorStays
<1>4. queue \in Seq(Project) /\ Len(queue) \in Nat \ {0} /\ DOMAIN queue = 1..Len(queue)
      /\ queue[1] = Head(queue)
  BY <1>1, EmptySeq, LenProperties DEF TInv
<1>5. CASE Len(queue) = 1
  <2>1. PICK here : here = at
    OBVIOUS
  <2>2. ASSUME None(ErrorKind)'
        PROVE  PathMonitored(here)'
    <3>1. RestIsQueued /\ stored' = stored \cup {Head(queue)}
      BY <1>2, <1>3, <2>2 DEF MInv
    <3>2. ASSUME NEW n \in DOMAIN scan[at].found
          PROVE  <<at, n>> \in stored'
      BY <1>4, <1>5, <3>1 DEF RestIsQueued
    <3> QED
      BY <2>1, <3>1, <3>2 DEF RestIsQueued, PathMonitored
  <2>3. LeavePath
    BY <1>5 DEF Report
  <2> QED
    BY <1>3, <2>1, <2>2, <2>3, MonitorGoesOn
<1>6. CASE Len(queue) # 1
  <2>1. queue' = Tail(queue) /\ UNCHANGED <<at, pc, got>>
    BY <1>6 DEF Report
  <2>2. /\ Tail(queue) \in Seq(Project) /\ Len(Tail(queue)) = Len(queue) - 1
        /\ \A i \in 1..Len(Tail(queue)) : Tail(queue)[i] = queue[i + 1]
    BY <1>1, <1>4, HeadTailProperties
  <2>3. DOMAIN queue' = 1..(Len(queue) - 1)
    BY <2>1, <2>2, LenProperties
  <2>4. ASSUME None(ErrorKind)'
        PROVE  RestIsQueued' /\ PathsBehind'
    <3>1. None(ErrorKind) /\ RestIsQueued /\ PathsBehind /\ stored' = stored \cup {Head(queue)}
      BY <1>2, <1>3, <2>4 DEF MInv
    <3>2. ASSUME NEW n \in DOMAIN scan[at].found
          PROVE  <<at, n>> \in stored' \/ \E i \in DOMAIN queue' : queue'[i] = <<at, n>>
      <4>1. CASE <<at, n>> \in stored
        BY <4>1
      <4>2. CASE \E i \in DOMAIN queue : queue[i] = <<at, n>>
        <5>1. PICK i \in DOMAIN queue : queue[i] = <<at, n>>
          BY <4>2
        <5>2. CASE i = 1
          BY <1>4, <3>1, <5>1, <5>2
        <5>3. CASE i # 1
          <6>1. i - 1 \in 1..(Len(queue) - 1) /\ (i - 1) + 1 = i
            BY <1>4, <5>3
          <6>2. queue'[i - 1] = queue[i]
            BY <2>1, <2>2, <6>1
          <6> QED
            BY <2>3, <5>1, <6>1, <6>2
        <5> QED
          BY <5>2, <5>3
      <4> QED
        BY <3>1, <4>1, <4>2 DEF RestIsQueued
    <3> QED
      BY <2>1, <3>1, <3>2 DEF RestIsQueued, PathsBehind, PathMonitored
  <2> QED
    BY <2>1, <2>4 DEF MInv, Monitoring, ZeroMeansMonitored
<1> QED
  BY <1>5, <1>6

LEMMA MonitorStepM == TInv /\ MInv /\ MonitorStep => MInv'
<1> SUFFICES ASSUME TInv, MInv, MonitorStep PROVE MInv'
  OBVIOUS
<1>0. Monitoring
  BY DEF MonitorStep, MonitorScanFails, CollectProjects, SendFound, ProjectMonitored, ProjectRefused, AnswerLost, ConcludeMonitor
<1>1. CASE MonitorScanFails
  <2>1. at \in Path /\ pc = "scanning" /\ ScanError \in ErrorKind
    BY <1>1, ScanErrorType DEF MonitorScanFails, TInv, LoopsOK
  <2>2. Result(at, 0, ScanError) \in Entries /\ Result(at, 0, ScanError).kind \in ErrorKind
    BY <2>1, ResultType, ErrorKinds DEF Result
  <2>3. ~None(ErrorKind)'
    BY <1>1, <2>2, ErrorAdded DEF MonitorScanFails
  <2> QED
    BY <1>0, <1>1, <2>1, <2>3, MonitorGoesOn DEF MonitorScanFails
<1>2. CASE CollectProjects
  <2>1. at \in Path /\ Here = scan[at] /\ Here \in Scans /\ pc = "scanning" /\ Here.phase = "done"
    BY <1>2 DEF TInv, LoopsOK, Here, CollectProjects
  <2>2. Here.failed \in Nat
    BY <2>1 DEF Scans
  <2> DEFINE es == [n \in 1..Here.failed |-> Result(at, 0, "error")]
  <2>3. Result(at, 0, "error") \in Entries /\ Result(at, 0, "error").kind = "error"
    BY <2>1, ResultType DEF ResultKind, ErrorKind, Result
  <2>4. es \in Seq(Entries) /\ Len(es) = Here.failed /\ \A i \in 1..Len(es) : es[i].kind = "error"
    BY <2>2, <2>3, FunctionIsSeq
  <2> HIDE DEF es
  <2>5. results' = results \o es /\ UNCHANGED <<command, options, scan, stored, exitCode>>
    BY <1>2 DEF CollectProjects, es
  <2>6. ~None(ErrorKind) => ~None(ErrorKind)'
    BY <2>4, <2>5, ErrorStays
  <2>7. Here.failed # 0 => ~None(ErrorKind)'
    <3> SUFFICES ASSUME Here.failed # 0 PROVE ~None(ErrorKind)'
      OBVIOUS
    <3>1. /\ results' \in Seq(Entries) /\ Len(results) \in Nat
          /\ Len(results') = Len(results) + Here.failed
          /\ results'[Len(results) + 1] = es[1] /\ es[1].kind = "error"
      <4>1. /\ results' \in Seq(Entries) /\ Len(results') = Len(results) + Len(es)
            /\ \A i \in 1..(Len(results) + Len(es)) :
                 results'[i] = IF i <= Len(results) THEN results[i] ELSE es[i - Len(results)]
        BY <2>4, <2>5, ConcatProperties DEF TInv
      <4>2. Len(results) \in Nat
        BY LenProperties DEF TInv
      <4>3. 1 \in 1..Len(es)
        BY <2>2, <2>4
      <4>4. Len(results) + 1 \in 1..(Len(results) + Len(es)) /\ (Len(results) + 1) - Len(results) = 1
            /\ ~(Len(results) + 1 <= Len(results))
        BY <2>2, <2>4, <4>2, <4>3
      <4> QED
        BY <2>4, <4>1, <4>2, <4>3, <4>4
    <3>2. Len(results) + 1 \in DOMAIN results'
      BY <2>2, <3>1, LenProperties
    <3> QED
      BY <3>1, <3>2 DEF None, ErrorKind
  <2>8. CASE Here.found = <<>>
    <3>1. PICK here : here = at
      OBVIOUS
    <3>2. Here.failed = 0 => PathMonitored(here)'
      BY <2>1, <2>5, <2>8, <3>1 DEF PathMonitored
    <3>3. LeavePath
      BY <1>2, <2>8 DEF CollectProjects, SendFound
    <3> QED
      BY <1>0, <2>1, <2>5, <2>6, <2>7, <3>1, <3>2, <3>3, MonitorGoesOn
  <2>9. CASE Here.found # <<>>
    <3>1. queue' = [n \in DOMAIN Here.found |-> <<at, n>>] /\ pc' = "sending" /\ at' = at
      BY <1>2, <2>9 DEF CollectProjects, SendFound
    <3>2. \A n \in DOMAIN Here.found : n \in DOMAIN queue' /\ queue'[n] = <<at, n>>
      BY <3>1
    <3>3. Here.failed = 0 => RestIsQueued'
      BY <2>1, <2>5, <3>1, <3>2 DEF RestIsQueued
    <3>4. PathsBehind => PathsBehind'
      BY <2>5, <3>1 DEF PathsBehind, PathMonitored
    <3> QED
      BY <1>0, <2>1, <2>5, <2>6, <2>7, <3>1, <3>3, <3>4 DEF MInv, Monitoring, ZeroMeansMonitored
  <2> QED
    BY <2>8, <2>9
<1>3. CASE ProjectMonitored
  BY <1>0, <1>3, MonitorReports DEF ProjectMonitored, Snapshot
<1>4. CASE ProjectRefused \/ AnswerLost
  BY <1>0, <1>4, MonitorReports DEF ProjectRefused, AnswerLost, Snapshot
<1>5. CASE ConcludeMonitor
  <2>1. UNCHANGED <<command, options, scan, stored, at, exitCode, results>> /\ pc' = "handling"
        /\ pc = "path" /\ at > Paths
    BY <1>5 DEF ConcludeMonitor
  <2>2. CASE None(ErrorKind)
    <3>1. \A p \in Path : p < at
      BY <2>1, CliAssumption DEF Path, TInv, LoopsOK
    <3>2. \A p \in Path : PathMonitored(p)
      BY <1>0, <2>1, <2>2, <3>1 DEF MInv, PathsBehind
    <3>3. \A p \in Path : PathMonitored(p)'
      BY <2>1, <3>2 DEF PathMonitored
    <3> QED
      BY <2>1, <3>3 DEF MInv, ZeroMeansMonitored
  <2>3. CASE ~None(ErrorKind)
    <3>1. verdict'.how = "threw"
      BY <1>5, <2>3, ThrewType DEF ConcludeMonitor
    <3> QED
      BY <2>1, <3>1 DEF MInv, ZeroMeansMonitored
  <2> QED
    BY <2>2, <2>3
<1> QED
  BY <1>1, <1>2, <1>3, <1>4, <1>5 DEF MonitorStep

LEMMA MonitoredStep == TInv /\ MInv /\ [Next]_vars => MInv'
<1> SUFFICES ASSUME TInv, MInv, [Next]_vars PROVE MInv'
  OBVIOUS
<1>1. CASE UNCHANGED vars
  BY <1>1, Zenon DEF vars, MInv, Monitoring, None, PathsBehind, PathMonitored, RestIsQueued,
                     ZeroMeansMonitored
<1>2. CASE Refuse
  <2>1. verdict'.how = "threw"
    BY <1>2, ThrewType DEF Refuse
  <2> QED
    BY <1>2, <2>1 DEF Refuse, MInv, ZeroMeansMonitored
<1>3. CASE RunCommand
  <2>1. Path \subseteq {p \in Nat : p >= 1} /\ (pc = "start" => at = 1)
    BY CliAssumption DEF Path, MInv
  <2>2. PathsBehind'
    BY <1>3, <2>1 DEF RunCommand, PathsBehind
  <2> QED
    BY <1>3, <2>2 DEF RunCommand, MInv, Monitoring, ZeroMeansMonitored
<1>4. CASE CommandReturned
  BY <1>4 DEF CommandReturned, MInv, Monitoring, ZeroMeansMonitored, PathMonitored
<1>5. CASE HandleError \/ UnexpectedError
  BY <1>5 DEF HandleError, UnexpectedError, ExitCode, EXIT_CODES, MInv, ZeroMeansMonitored
<1>6. CASE BeginPath
  <2>1. pc = "path" /\ pc' = "scanning" /\ UNCHANGED <<command, options, at, results, stored, exitCode>>
        /\ \E s : scan' = [scan EXCEPT ![at] = s]
    BY <1>6, Zenon DEF BeginPath, FindTargets, Learn
  <2>2. scan \in [Path -> Scans] /\ at \in Nat /\ Path \subseteq Nat
    BY CliAssumption, PathTypes DEF TInv, LoopsOK
  <2>3. PathsBehind => PathsBehind'
    BY <2>1, <2>2 DEF PathsBehind, PathMonitored
  <2>4. None(ErrorKind)' = None(ErrorKind)
    BY <2>1 DEF None
  <2> QED
    BY <2>1, <2>3, <2>4 DEF MInv, Monitoring, ZeroMeansMonitored
<1>7. CASE Inspect
  <2>1. pc = "scanning" /\ pc' = pc /\ UNCHANGED <<command, options, at, results, stored, exitCode>>
        /\ \E s : scan' = [scan EXCEPT ![at] = s]
    BY <1>7, Zenon DEF Inspect, InspectSucceeds, InspectFails, Learn
  <2>2. scan \in [Path -> Scans] /\ at \in Nat /\ Path \subseteq Nat
    BY CliAssumption, PathTypes DEF TInv, LoopsOK
  <2>3. PathsBehind => PathsBehind'
    BY <2>1, <2>2 DEF PathsBehind, PathMonitored
  <2>4. None(ErrorKind)' = None(ErrorKind)
    BY <2>1 DEF None
  <2> QED
    BY <2>1, <2>3, <2>4 DEF MInv, Monitoring, ZeroMeansMonitored
<1>8. CASE MonitorStep
  BY <1>8, MonitorStepM
<1>9. CASE TestStep \/ ServerFinishes \/ EcosystemStep
  <2>1. ~Monitoring
    BY <1>9 DEF TestStep, TestScanFails, AssembleFails, Assemble, SendFound, AssembleRemote, PayloadTested,
                PayloadFails, ConcludeTest, Monitoring, Testing, EcosystemStep, EcoScan, EcoScansDone,
                SyncAnswered, TokenAnswered, PollReady, PollPending, PollFails, EcoConclude,
                ServerFinishes, MInv, TInv, LoopsOK
  <2>2. UNCHANGED <<command, options, exitCode>> /\ pc' # "start" /\ pc \notin {"handling", "done"}
        /\ pc' # "done"
    BY <1>9, Zenon
         DEF TestStep, TestScanFails, AssembleFails, Assemble, SendFound, AssembleRemote, PayloadTested,
             PayloadFails, PathFails, ConcludeTest, EcosystemStep, EcoScan, EcoScansDone, SyncAnswered,
             TokenAnswered, PollReady, PollPending, PollFails, EcoConclude, ServerFinishes,
             TInv, LoopsOK, GoOn, Throws, RequestFails, LeavePath
  <2> QED
    BY <2>1, <2>2 DEF MInv, Monitoring, ZeroMeansMonitored
<1> QED
  BY <1>1, <1>2, <1>3, <1>4, <1>5, <1>6, <1>7, <1>8, <1>9 DEF Next, Step, MainStep

(* When `snyk monitor` ends with 0 every path was scanned, no manifest was *)
(* left out and the server has a snapshot of every project.                *)
THEOREM ExitZeroMeansMonitored == Spec => []ZeroMeansMonitored
<1>1. Init => MInv
  <2> SUFFICES ASSUME Init PROVE MInv
    OBVIOUS
  <2>1. \A p \in Path : ~(p < at)
    BY CliAssumption DEF Init, Path
  <2>2. PathsBehind
    BY <2>1 DEF PathsBehind
  <2> QED
    BY <2>2 DEF Init, MInv, ZeroMeansMonitored
<1>2. MInv => ZeroMeansMonitored
  BY DEF MInv
<1> QED
  BY <1>1, <1>2, MonitoredStep, TInvAlways, PTL DEF Spec

-----------------------------------------------------------------------------
(* What is behind the loop of `snyk test`, and what the path being tested  *)
(* has got and still owes.                                                 *)
InPathOrder == \A i, j \in DOMAIN results : i < j => results[i].path <= results[j].path
AllBehind   == \A i \in DOMAIN results : results[i].path < at
Answered    == \A p \in Path : p < at => OneError(p) \/ AllProjects(p)

GotThenQueued ==
  /\ Len(got) + Len(queue) = Len(scan[at].found)
  /\ \A n \in DOMAIN got : got[n].path = at /\ got[n].nth = n /\ got[n].kind \notin ErrorKind
  /\ \A n \in DOMAIN queue : queue[n] = <<at, Len(got) + n>>

AInv ==
  /\ pc = "start" => at = 1
  /\ Testing =>
       /\ pc \notin {"ecoscan", "ecosend", "polling"}
       /\ InPathOrder /\ AllBehind /\ Answered
       /\ pc \in {"start", "path", "scanning"} => got = <<>>
       /\ pc = "sending" => GotThenQueued

(* What the path being tested adds to the results: its one error, or all   *)
(* its projects.                                                           *)
Whole(es, found) ==
  \/ Len(es) = 1 /\ es[1].nth = 0 /\ es[1].kind \in ErrorKind
  \/ Len(es) = Len(found) /\ \A n \in 1..Len(es) : es[n].nth = n /\ es[n].kind \notin ErrorKind

LEMMA PathIsAnswered ==
  ASSUME TInv, InPathOrder, AllBehind, Answered, at \in Path, at' = at + 1, scan' = scan,
         NEW es \in Seq(Entries), results' = results \o es,
         \A n \in 1..Len(es) : es[n].path = at, Whole(es, scan[at].found)
  PROVE  InPathOrder' /\ AllBehind' /\ Answered'
<1> DEFINE k == Len(results)
           m == Len(es)
<1>1. /\ k \in Nat /\ m \in Nat /\ at \in Nat /\ DOMAIN results = 1..k /\ DOMAIN results' = 1..(k + m)
      /\ Len(results') = k + m
      /\ \A i \in 1..k : results'[i] = results[i]
      /\ \A i \in 1..m : results'[k + i] = es[i]
  <2>1. /\ results' \in Seq(Entries) /\ Len(results') = k + m
        /\ \A i \in 1..(k + m) : results'[i] = IF i <= k THEN results[i] ELSE es[i - k]
    BY ConcatProperties DEF TInv
  <2>2. k \in Nat /\ m \in Nat /\ at \in Nat /\ DOMAIN results = 1..k /\ DOMAIN results' = 1..(k + m)
    BY <2>1, LenProperties, PathTypes DEF TInv
  <2>3. ASSUME NEW i \in 1..m PROVE results'[k + i] = es[i]
    <3>1. k + i \in 1..(k + m) /\ ~(k + i <= k) /\ (k + i) - k = i
      BY <2>2
    <3> QED BY <2>1, <3>1
  <2>4. \A i \in 1..k : i \in 1..(k + m) /\ i <= k
    BY <2>2
  <2> QED BY <2>1, <2>2, <2>3, <2>4
<1>2. /\ \A i \in 1..k : results'[i].path < at /\ results'[i].path \in Nat
      /\ \A i \in (k + 1)..(k + m) : results'[i] = es[i - k] /\ results'[i].path = at /\ i - k \in 1..m
  <2>1. ASSUME NEW i \in 1..k PROVE results'[i].path < at /\ results'[i].path \in Nat
    <3>1. i \in DOMAIN results /\ results \in Seq(Entries)
      BY <1>1 DEF TInv
    <3>2. results[i] \in Entries /\ results[i].path < at /\ results'[i] = results[i]
      BY <1>1, <3>1, SeqElement DEF AllBehind
    <3> QED BY <3>2, PathTypes DEF Entries
  <2>2. ASSUME NEW i \in (k + 1)..(k + m) PROVE results'[i] = es[i - k] /\ results'[i].path = at /\ i - k \in 1..m
    <3>1. i - k \in 1..m /\ k + (i - k) = i
      BY <1>1
    <3> QED BY <1>1, <3>1
  <2> QED BY <2>1, <2>2
<1> HIDE DEF k, m
<1>3. AllBehind'
  <2> SUFFICES ASSUME NEW i \in 1..(k + m) PROVE results'[i].path < at'
    BY <1>1 DEF AllBehind
  <2>1. CASE i \in 1..k
    BY <1>1, <1>2, <2>1
  <2>2. CASE i \in (k + 1)..(k + m)
    BY <1>1, <1>2, <2>2
  <2> QED BY <1>1, <2>1, <2>2
<1>4. InPathOrder'
  <2> SUFFICES ASSUME NEW i \in 1..(k + m), NEW j \in 1..(k + m), i < j
               PROVE  results'[i].path <= results'[j].path
    BY <1>1 DEF InPathOrder
  <2>1. CASE j \in 1..k
    <3>1. i \in 1..k
      BY <1>1, <2>1
    <3> QED BY <1>1, <2>1, <3>1 DEF InPathOrder
  <2>2. CASE j \in (k + 1)..(k + m)
    <3>1. results'[j].path = at
      BY <1>2, <2>2
    <3>2. CASE i \in 1..k
      BY <1>1, <1>2, <3>1, <3>2
    <3>3. CASE i \in (k + 1)..(k + m)
      BY <1>1, <1>2, <3>1, <3>3
    <3> QED BY <1>1, <3>2, <3>3
  <2> QED BY <1>1, <2>1, <2>2
<1>5. ASSUME NEW p \in Path, p < at PROVE OneError(p)' \/ AllProjects(p)'
  <2>1. EntriesOf(p)' = EntriesOf(p)
    <3>1. p \in Nat /\ \A i \in (k + 1)..(k + m) : results'[i].path # p
      BY <1>1, <1>2, <1>5, PathTypes
    <3>2. \A i : i \in 1..(k + m) <=> i \in 1..k \/ i \in (k + 1)..(k + m)
      BY <1>1
    <3> QED BY <1>1, <3>1, <3>2 DEF EntriesOf
  <2>2. EntriesOf(p) \subseteq 1..k
    BY <1>1 DEF EntriesOf
  <2>3. CASE OneError(p)
    <3>1. PICK i \in DOMAIN results : EntriesOf(p) = {i} /\ results[i].nth = 0 /\ results[i].kind \in ErrorKind
      BY <2>3 DEF OneError
    <3>2. i \in DOMAIN results' /\ results'[i] = results[i]
      BY <1>1, <3>1
    <3> QED BY <2>1, <3>1, <3>2 DEF OneError
  <2>4. CASE AllProjects(p)
    <3>1. PICK b \in 0..k : /\ EntriesOf(p) = (b + 1)..(b + Len(scan[p].found))
                            /\ \A i \in EntriesOf(p) : results[i].nth = i - b /\ results[i].kind \notin ErrorKind
      BY <2>4 DEF AllProjects, k
    <3>2. b \in 0..Len(results') /\ \A i \in EntriesOf(p) : results'[i] = results[i]
      BY <1>1, <2>2
    <3> QED BY <2>1, <3>1, <3>2 DEF AllProjects
  <2> QED BY <1>5, <2>3, <2>4 DEF Answered
<1>6. ASSUME NEW p \in Path, p = at PROVE OneError(p)' \/ AllProjects(p)'
  <2>1. EntriesOf(p)' = (k + 1)..(k + m)
    <3>1. \A i \in 1..k : results'[i].path # p
      BY <1>1, <1>2, <1>6
    <3>2. \A i : i \in 1..(k + m) <=> i \in 1..k \/ i \in (k + 1)..(k + m)
      BY <1>1
    <3> QED BY <1>1, <1>2, <1>6, <3>1, <3>2 DEF EntriesOf
  <2>2. CASE Len(es) = 1 /\ es[1].nth = 0 /\ es[1].kind \in ErrorKind
    <3>1. m = 1
      BY <2>2 DEF m
    <3>2. EntriesOf(p)' = {k + 1} /\ k + 1 \in DOMAIN results' /\ results'[k + 1] = es[1]
      BY <1>1, <2>1, <3>1
    <3> QED BY <2>2, <3>2 DEF OneError
  <2>3. CASE Len(es) = Len(scan[at].found) /\ \A n \in 1..Len(es) : es[n].nth = n /\ es[n].kind \notin ErrorKind
    <3>1. m = Len(scan'[p].found)
      BY <1>6, <2>3 DEF m
    <3>2. \A i \in (k + 1)..(k + m) : results'[i].nth = i - k /\ results'[i].kind \notin ErrorKind
      BY <1>2, <2>3 DEF m
    <3>3. k \in 0..Len(results')
      BY <1>1
    <3> QED BY <2>1, <3>1, <3>2, <3>3 DEF AllProjects
  <2> QED BY <2>2, <2>3 DEF Whole
<1>7. Answered'
  <2> SUFFICES ASSUME NEW p \in Path, p < at' PROVE OneError(p)' \/ AllProjects(p)'
    BY DEF Answered
  <2>1. p < at \/ p = at
    BY <1>1, PathTypes
  <2> QED BY <1>5, <1>6, <2>1
<1> QED BY <1>3, <1>4, <1>7

(* The path is answered by one entry more.                                 *)
LEMMA PathFailsAnswers ==
  ASSUME TInv, AInv, Testing, pc \in {"scanning", "sending"}, at \in Path, NEW kind \in ErrorKind, PathFails(kind)
  PROVE  AInv'
<1> DEFINE e == Result(at, 0, kind)
<1>1. e \in Entries /\ e.path = at /\ e.nth = 0 /\ e.kind = kind
  BY ResultType, ErrorKinds DEF Result
<1>2. results' = Append(results, e) /\ UNCHANGED <<command, options, scan>>
      /\ at' = at + 1 /\ pc' = "path" /\ got' = <<>>
  BY DEF PathFails, LeavePath
<1> HIDE DEF e
<1>3. <<e>> \in Seq(Entries) /\ results' = results \o <<e>> /\ Len(<<e>>) = 1 /\ <<e>>[1] = e
  BY <1>1, <1>2, AppendIsConcat DEF TInv
<1> DEFINE es == <<e>>
<1>4. Whole(es, scan[at].found) /\ \A n \in 1..Len(es) : es[n].path = at
  BY <1>1, <1>3 DEF Whole
<1>5. InPathOrder' /\ AllBehind' /\ Answered'
  BY <1>2, <1>3, <1>4, PathIsAnswered DEF AInv
<1> QED BY <1>2, <1>5 DEF AInv, Testing

(* Entries that are as they were, of paths whose scan is.                  *)
LEMMA SameAnswers ==
  ASSUME AInv, Testing, results' = results, at' = at, \A p \in Path : p < at => scan'[p] = scan[p]
  PROVE  InPathOrder' /\ AllBehind' /\ Answered'
BY DEF AInv, InPathOrder, AllBehind, Answered, OneError, AllProjects, EntriesOf

LEMMA TestStepA == TInv /\ AInv /\ TestStep => AInv'
<1> SUFFICES ASSUME TInv, AInv, TestStep PROVE AInv'
  OBVIOUS
<1>0. Testing
  BY DEF TestStep, TestScanFails, AssembleFails, Assemble, AssembleRemote, PayloadTested, PayloadFails, ConcludeTest
<1>1. CASE TestScanFails
  BY <1>0, <1>1, PathFailsAnswers, ScanErrorType DEF TestScanFails, TInv, LoopsOK
<1>2. CASE AssembleFails
  BY <1>0, <1>2, PathFailsAnswers DEF AssembleFails, TInv, LoopsOK, ErrorKind
<1>3. CASE Assemble
  <2>1. at \in Path /\ pc = "scanning" /\ UNCHANGED <<command, options, scan, results>> /\ got = <<>>
    BY <1>0, <1>3 DEF Assemble, TInv, LoopsOK, AInv
  <2>2. CASE Here.found = <<>>
    <3>1. at' = at + 1 /\ pc' = "path" /\ got' = <<>>
      BY <1>3, <2>2 DEF Assemble, SendFound, LeavePath
    <3> DEFINE es == <<>>
    <3>2. es \in Seq(Entries) /\ Len(es) = 0 /\ results' = results \o es
      BY <2>1, EmptySeq, ConcatEmptySeq DEF TInv
    <3>3. Len(Here.found) = 0 /\ Here = scan[at]
      BY <2>2, EmptySeq DEF Here
    <3> HIDE DEF es
    <3>4. Whole(es, scan[at].found) /\ \A n \in 1..Len(es) : es[n].path = at
      BY <3>2, <3>3 DEF Whole
    <3>5. InPathOrder' /\ AllBehind' /\ Answered'
      BY <1>0, <2>1, <3>1, <3>2, <3>4, PathIsAnswered DEF AInv
    <3> QED BY <2>1, <3>1, <3>5 DEF AInv, Testing
  <2>3. CASE Here.found # <<>>
    <3>1. queue' = [n \in DOMAIN Here.found |-> <<at, n>>] /\ pc' = "sending" /\ UNCHANGED <<at, got>>
      BY <1>3, <2>3 DEF Assemble, SendFound
    <3>2. Here = scan[at] /\ Here \in Scans
      BY <2>1 DEF Here, TInv
    <3>3. Here.found \in Seq(BOOLEAN) /\ Len(Here.found) \in Nat /\ DOMAIN Here.found = 1..Len(Here.found)
      BY <3>2, LenProperties DEF Scans
    <3>4. queue' \in Seq(Project) /\ DOMAIN queue' = 1..Len(Here.found)
      BY <2>1, <3>1, <3>3, QueueOfFound
    <3>5. Len(queue') = Len(Here.found)
      BY <3>3, <3>4, LenProperties
    <3>6. Len(got) = 0 /\ DOMAIN got = {}
      BY <2>1, EmptySeq
    <3>7. \A n \in DOMAIN queue' : 0 + n = n /\ queue'[n] = <<at, n>>
      BY <3>1, <3>3
    <3>8. GotThenQueued'
      BY <2>1, <3>1, <3>2, <3>3, <3>5, <3>6, <3>7 DEF GotThenQueued
    <3>9. InPathOrder' /\ AllBehind' /\ Answered'
      BY <1>0, <2>1, <3>1, SameAnswers
    <3> QED BY <2>1, <3>1, <3>8, <3>9 DEF AInv, Testing
  <2> QED BY <2>2, <2>3
<1>4. CASE AssembleRemote
  <2>1. pc' = "sending" /\ UNCHANGED <<command, options, at, got, results>> /\ queue' = <<<<at, 1>>>>
        /\ at \in Path /\ got = <<>> /\ Learn([Scanned("done") EXCEPT !.found = <<TRUE>>])
    BY <1>0, <1>4, CliAssumption DEF AssembleRemote, AInv, TInv, LoopsOK, Path
  <2> DEFINE s == [Scanned("done") EXCEPT !.found = <<TRUE>>]
  <2>2. Len(s.found) = 1
    BY DEF Scanned, NoScan
  <2> HIDE DEF s
  <2>3. scan' = [scan EXCEPT ![at] = s] /\ scan \in [Path -> Scans]
    BY <2>1 DEF Learn, s, TInv
  <2>4. \A p \in Path : p < at => scan'[p] = scan[p]
    BY <2>1, <2>3, PathTypes
  <2>5. Len(got) = 0 /\ DOMAIN got = {}
    BY <2>1, EmptySeq
  <2>6. Len(queue') = 1 /\ DOMAIN queue' = {1} /\ queue'[1] = <<at, 1>>
    BY <2>1
  <2>7. scan'[at].found = s.found
    BY <2>1, <2>3
  <2>8. GotThenQueued'
    BY <2>1, <2>2, <2>5, <2>6, <2>7 DEF GotThenQueued
  <2> QED BY <1>0, <2>1, <2>4, <2>8, SameAnswers DEF AInv, Testing
<1>5. CASE PayloadTested
  <2>1. PICK kind \in ParsedKind :
           IF Len(queue) = 1
           THEN results' = results \o Tested(kind) /\ LeavePath
           ELSE /\ got' = Tested(kind) /\ queue' = Tail(queue)
                /\ UNCHANGED <<results, at, pc>>
    BY <1>5 DEF PayloadTested
  <2>2. /\ pc = "sending" /\ at \in Path /\ queue # <<>> /\ UNCHANGED <<command, options, scan>>
        /\ GotThenQueued /\ kind \in ResultKind /\ kind \notin ErrorKind
    BY <1>0, <1>5, ErrorKinds DEF PayloadTested, TInv, LoopsOK, AInv, ParsedKind, VulnKind, ErrorKind
  <2> DEFINE e  == Result(Head(queue)[1], Head(queue)[2], kind)
             es == Tested(kind)
  <2>3. queue \in Seq(Project) /\ Len(queue) \in Nat \ {0} /\ DOMAIN queue = 1..Len(queue) /\ Head(queue) = queue[1]
        /\ got \in Seq(Entries) /\ Len(got) \in Nat /\ DOMAIN got = 1..Len(got)
    BY <2>2, EmptySeq, LenProperties DEF TInv
  <2>4. queue[1] = <<at, Len(got) + 1>>
    BY <2>2, <2>3 DEF GotThenQueued
  <2>5. e \in Entries /\ e.path = at /\ e.nth = Len(got) + 1 /\ e.kind = kind
    <3>1. Head(queue)[1] = at /\ Head(queue)[2] = Len(got) + 1
      BY <2>3, <2>4
    <3> QED BY <2>2, <2>3, <3>1, ResultType DEF Result
  <2>6. es = Append(got, e)
    BY DEF Tested
  <2> HIDE DEF e, es
  <2>7. es \in Seq(Entries) /\ Len(es) = Len(got) + 1 /\ es[Len(got) + 1] = e /\ \A n \in 1..Len(got) : es[n] = got[n]
    BY <2>3, <2>5, <2>6, AppendProperties
  <2>8. ASSUME NEW n \in 1..Len(es) PROVE es[n].path = at /\ es[n].nth = n /\ es[n].kind \notin ErrorKind
    <3>1. CASE n = Len(got) + 1
      BY <2>2, <2>5, <2>7, <3>1
    <3>2. CASE n # Len(got) + 1
      <4>1. n \in DOMAIN got /\ es[n] = got[n]
        BY <2>3, <2>7, <3>2
      <4> QED BY <2>2, <4>1 DEF GotThenQueued
    <3> QED BY <3>1, <3>2
  <2>9. CASE Len(queue) = 1
    <3>1. results' = results \o es /\ at' = at + 1 /\ pc' = "path" /\ got' = <<>>
      BY <2>1, <2>9 DEF es, LeavePath
    <3>2. Len(es) = Len(scan[at].found)
      BY <2>2, <2>7, <2>9 DEF GotThenQueued
    <3>3. Whole(es, scan[at].found)
      BY <2>8, <3>2 DEF Whole
    <3>4. InPathOrder' /\ AllBehind' /\ Answered'
      BY <1>0, <2>2, <2>7, <2>8, <3>1, <3>3, PathIsAnswered DEF AInv
    <3> QED BY <2>2, <3>1, <3>4 DEF AInv, Testing
  <2>10. CASE Len(queue) # 1
    <3>1. got' = es /\ queue' = Tail(queue) /\ UNCHANGED <<results, at, pc>>
      BY <2>1, <2>10 DEF es
    <3>2. /\ Tail(queue) \in Seq(Project) /\ Len(Tail(queue)) = Len(queue) - 1
          /\ \A i \in 1..Len(Tail(queue)) : Tail(queue)[i] = queue[i + 1]
      BY <2>2, <2>3, HeadTailProperties
    <3>3. DOMAIN queue' = 1..(Len(queue) - 1) /\ DOMAIN got' = 1..Len(es) /\ Len(queue') = Len(queue) - 1
      BY <2>7, <3>1, <3>2, LenProperties
    <3>4. ASSUME NEW n \in DOMAIN queue' PROVE queue'[n] = <<at', Len(got') + n>>
      <4>0. n \in 1..(Len(queue) - 1) /\ Len(Tail(queue)) = Len(queue) - 1 /\ Len(got') = Len(got) + 1
        BY <2>7, <3>1, <3>2, <3>3
      <4>1. n + 1 \in DOMAIN queue /\ n \in 1..Len(Tail(queue)) /\ Len(got') + n = Len(got) + (n + 1)
        BY <2>3, <4>0
      <4>2. queue'[n] = queue[n + 1]
        BY <3>1, <3>2, <4>1
      <4> QED BY <2>2, <3>1, <4>1, <4>2 DEF GotThenQueued
    <3>5. Len(got') + Len(queue') = Len(scan'[at'].found)
      <4>1. Len(got) + Len(queue) = Len(scan[at].found)
        BY <2>2 DEF GotThenQueued
      <4>2. (Len(got) + 1) + (Len(queue) - 1) = Len(got) + Len(queue)
        BY <2>3
      <4> QED BY <2>2, <2>7, <3>1, <3>3, <4>1, <4>2
    <3>6. GotThenQueued'
      BY <2>8, <3>1, <3>3, <3>4, <3>5 DEF GotThenQueued
    <3> QED BY <1>0, <2>2, <3>1, <3>6, SameAnswers DEF AInv, Testing
  <2> QED BY <2>9, <2>10
<1>6. CASE PayloadFails
  BY <1>0, <1>6, PathFailsAnswers DEF PayloadFails, TInv, LoopsOK
<1>7. CASE ConcludeTest
  BY <1>0, <1>7, SameAnswers DEF ConcludeTest, AInv, Testing
<1> QED BY <1>1, <1>2, <1>3, <1>4, <1>5, <1>6, <1>7 DEF TestStep

LEMMA AnsweredStep == TInv /\ AInv /\ [Next]_vars => AInv'
<1> SUFFICES ASSUME TInv, AInv, [Next]_vars PROVE AInv'
  OBVIOUS
<1>1. CASE UNCHANGED vars
  BY <1>1 DEF vars, AInv, Testing, InPathOrder, AllBehind, Answered, OneError, AllProjects, EntriesOf, GotThenQueued
<1>2. CASE TestStep
  BY <1>2, TestStepA
<1>3. CASE Refuse \/ CommandReturned \/ HandleError \/ UnexpectedError
  <2>1. UNCHANGED <<command, options, at, scan, queue, got, results>> /\ pc' \in {"handling", "done"}
    BY <1>3 DEF Refuse, CommandReturned, HandleError, UnexpectedError
  <2> QED BY <2>1, SameAnswers DEF AInv, Testing
<1>4. CASE RunCommand
  <2>1. /\ UNCHANGED <<command, options, at, scan, queue, got, results>> /\ pc = "start"
        /\ pc' = IF options.ecosystem = "none" THEN "path" ELSE "ecoscan"
    BY <1>4, Zenon DEF RunCommand
  <2>2. Testing => pc' = "path" /\ got = <<>>
    BY <2>1 DEF Testing, AInv
  <2> QED BY <2>1, <2>2, SameAnswers DEF AInv, Testing
<1>5. CASE BeginPath \/ Inspect
  <2>1. pc \in {"path", "scanning"} /\ pc' = "scanning" /\ UNCHANGED <<command, options, at, queue, got, results>>
        /\ \E s : scan' = [scan EXCEPT ![at] = s]
    BY <1>5, Zenon DEF BeginPath, FindTargets, Inspect, InspectSucceeds, InspectFails, Learn
  <2>2. scan \in [Path -> Scans] /\ at \in Nat /\ Path \subseteq Nat
    BY CliAssumption, PathTypes DEF TInv, LoopsOK
  <2>3. \A p \in Path : p < at => scan'[p] = scan[p]
    BY <2>1, <2>2
  <2> QED BY <2>1, <2>3, SameAnswers DEF AInv, Testing
<1>6. CASE MonitorStep \/ EcosystemStep \/ ServerFinishes
  <2>1. ~Testing /\ UNCHANGED <<command, options>>
    BY <1>6 DEF MonitorStep, MonitorScanFails, CollectProjects, ProjectMonitored, ProjectRefused, AnswerLost,
                ConcludeMonitor, Monitoring, Testing, EcosystemStep, EcoScan, EcoScansDone, SyncAnswered,
                TokenAnswered, PollReady, PollPending, PollFails, EcoConclude, ServerFinishes, AInv, TInv, LoopsOK
  <2>2. pc' # "start"
    BY <1>6, Zenon
       DEF MonitorStep, MonitorScanFails, CollectProjects, SendFound, ProjectMonitored, ProjectRefused, AnswerLost,
           Report, ConcludeMonitor, EcosystemStep, EcoScan, EcoScansDone, SyncAnswered, TokenAnswered, PollReady,
           PollPending, PollFails, EcoConclude, ServerFinishes, TInv, LoopsOK, GoOn, Throws, RequestFails, LeavePath
  <2> QED BY <2>1, <2>2 DEF AInv, Testing
<1> QED BY <1>1, <1>2, <1>3, <1>4, <1>5, <1>6 DEF Next, Step, MainStep

(* Of each path `snyk test` shows, in the order of the command line, every *)
(* project its plugins returned, or one error and none of them.            *)
THEOREM EachPathIsAnswered == Spec => []EveryPathAnswered
<1>1. Init => AInv
  <2> SUFFICES ASSUME Init PROVE AInv
    OBVIOUS
  <2>1. results = <<>> /\ got = <<>> /\ at = 1 /\ pc = "start" /\ DOMAIN results = {}
    BY EmptySeq DEF Init
  <2>2. \A p \in Path : ~(p < at)
    BY <2>1, CliAssumption DEF Path
  <2> QED BY <2>1, <2>2 DEF AInv, InPathOrder, AllBehind, Answered
<1>2. TInv /\ AInv => EveryPathAnswered
  <2> SUFFICES ASSUME TInv, AInv, Testing, at > Paths
               PROVE  InPathOrder /\ \A p \in Path : OneError(p) \/ AllProjects(p)
    BY DEF EveryPathAnswered, InPathOrder
  <2>1. \A p \in Path : p < at
    BY CliAssumption DEF Path, TInv, LoopsOK
  <2> QED BY <2>1 DEF AInv, Answered
<1> QED BY <1>1, <1>2, AnsweredStep, TInvAlways, PTL DEF Spec
=============================================================================
