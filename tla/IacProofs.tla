----------------------------- MODULE IacProofs ------------------------------
(***************************************************************************)
(* Proofs about `snyk iac test` in one directory, for any number of runs,  *)
(* any bundles and any failures.                                           *)
(***************************************************************************)
EXTENDS IacTest, SequenceTheorems, TLAPS

Pc      == {"shim", "settings", "pull", TARBALL, "custom", "snyk", "load", "scan", "done", "killed"}
Writing == {TARBALL, "custom", "snyk"}
Job     == [bundle : DOMAIN Bundles \cup {None}, entries : Seq(Slot), open : {"no", "open", "lost"}]

CommandsKept ==
  /\ DOMAIN command = Proc
  /\ \A p \in Proc : command[p].paths \in Seq(DOMAIN Tree) /\ command[p].registry \in DOMAIN Bundles \cup {None}

PathsCounted ==
  /\ at \in [Proc -> Nat] /\ DOMAIN results = Proc
  /\ \A p \in Proc :
       /\ \E S : results[p] \in Seq(S)
       /\ at[p] = Len(results[p]) + 1 /\ at[p] <= Len(command[p].paths) + 1
       /\ Inside(p) => at[p] <= Len(command[p].paths)

JobsInOrder ==
  \A p \in Proc :
    /\ job[p].open # "no" => job[p].entries # <<>>
    /\ job[p].open = "open" => dir.exists
    /\ pc[p] \notin Writing => job[p] = NoJob

TornIsOpen ==
  \A s \in Slot : dir.slots[s] = Torn =>
    left \/ \E p \in Proc : job[p].open = "open" /\ Head(job[p].entries) = s

(* The variables have their types, the paths are counted, who does not     *)
(* extract writes nothing, and what is torn is being written.              *)
TInv ==
  /\ pc \in [Proc -> Pc]
  /\ dir \in [exists : BOOLEAN, slots : [Slot -> Content]] /\ (~dir.exists => dir = NoDir)
  /\ job \in [Proc -> Job]
  /\ engines \in [Proc -> [Engine -> DOMAIN Bundles \cup {None}]]
  /\ verdict \in [Proc -> {None, "ok", "vulns", "error"}]
  /\ failures \in 0..MaxFailures /\ disturbed \subseteq Proc /\ left \in BOOLEAN
  /\ CommandsKept
  /\ PathsCounted
  /\ JobsInOrder
  /\ TornIsOpen

LEMMA BundlesAreThere ==
  /\ "snyk" \in DOMAIN Bundles /\ None \notin DOMAIN Bundles /\ Torn \notin DOMAIN Bundles /\ None # Torn
  /\ \A b \in DOMAIN Bundles : Bundles[b].entries \in Seq(Engine) /\ Bundles[b].entries \in Seq(Slot)
BY IacAssumption DEF IacAssumption, Slot

LEMMA InitTInv == Init => TInv
<1> SUFFICES ASSUME Init PROVE TInv
  OBVIOUS
<1>1. CommandsKept
  <2>1. /\ DOMAIN command = Proc
        /\ \A p \in Proc : command[p] \in Commands(p)
    BY DEF Init
  <2> QED BY <2>1, IacAssumption DEF CommandsKept, IacAssumption
<1>2. PathsCounted
  <2>1. \A p \in Proc : results[p] = <<>> /\ at[p] = 1 /\ ~Inside(p) /\ Len(command[p].paths) \in Nat
    BY <1>1 DEF Init, Inside, CommandsKept
  <2>2. \A p \in Proc : results[p] \in Seq({}) /\ Len(results[p]) = 0
    <3>1. <<>> \in Seq({}) /\ Len(<<>>) = 0
      OBVIOUS
    <3> QED BY <2>1, <3>1
  <2> QED BY <2>1, <2>2 DEF PathsCounted, Init
<1>3. JobsInOrder
  BY DEF JobsInOrder, Init, NoJob, Writing, TARBALL
<1>4. TornIsOpen
  BY BundlesAreThere DEF TornIsOpen, Init, NoDir
<1>5. job \in [Proc -> Job] /\ pc \in [Proc -> Pc]
  BY DEF Init, Job, NoJob, Pc
<1>6. dir \in [exists : BOOLEAN, slots : [Slot -> Content]] /\ (~dir.exists => dir = NoDir)
  BY DEF Init, NoDir, Content
<1>7. failures \in 0..MaxFailures /\ disturbed \subseteq Proc /\ left \in BOOLEAN
  <2>1. failures = 0 /\ disturbed = {} /\ left = FALSE
    BY DEF Init
  <2>2. MaxFailures \in Nat
    BY IacAssumption DEF IacAssumption
  <2>3. left \in BOOLEAN
    BY <2>1, Zenon
  <2>4. failures \in 0..MaxFailures /\ disturbed \subseteq Proc
    BY <2>1, <2>2
  <2> QED BY <2>3, <2>4
<1>8. /\ engines \in [Proc -> [Engine -> DOMAIN Bundles \cup {None}]]
      /\ verdict \in [Proc -> {None, "ok", "vulns", "error"}]
  BY DEF Init
<1> QED BY <1>1, <1>2, <1>3, <1>4, <1>5, <1>6, <1>7, <1>8 DEF TInv

-----------------------------------------------------------------------------
(* What holds of an error that finds the directory or not holds of any.    *)
USE DEF Throw

(* A step moves one process, and into the custom rules only one that has   *)
(* some.                                                                   *)
PhaseIsAsked ==
  /\ DOMAIN pc = Proc
  /\ \A p \in Proc : pc[p] = "custom" => Custom(p)

Moves(p) ==
  /\ UNCHANGED command
  /\ UNCHANGED pc \/ \E s : pc' = [pc EXCEPT ![p] = s] /\ (s = "custom" => Custom(p))

LEMMA Moved ==
  ASSUME NEW p, NEW s, UNCHANGED runVars, pc' = [pc EXCEPT ![p] = s], s = "custom" => Custom(p) PROVE Moves(p)
BY DEF Moves, runVars

LEMMA ThrowMoves ==
  ASSUME NEW p, NEW reason, NEW there, ThrowFrom(p, reason, there) \/ FailAndClean(p, reason) PROVE Moves(p)
BY DEF ThrowFrom, FailAndClean, LeavePath, Moves

LEMMA InitLocalCacheMoves == ASSUME NEW p, InitLocalCache(p) PROVE Moves(p)
<1>1. CASE ThrowFrom(p, "rules", TRUE)
  BY <1>1, ThrowMoves
<1>2. CASE Extract(p, Phases(p)[1]) /\ UNCHANGED runVars
  <2>1. Phases(p)[1] = "custom" => Custom(p)
    BY DEF Phases
  <2> QED BY <1>2, <2>1 DEF Extract, Moves, runVars
<1> QED BY <1>1, <1>2 DEF InitLocalCache

LEMMA AskedPhases ==
  ASSUME PhaseIsAsked, NEW p \in Proc, Extracted(p), pc[p] # Last(Phases(p))
  PROVE  Custom(p) /\ Phases(p) = <<"custom", "snyk">> /\ Phases(p)[2] = "snyk"
<1>1. ~Custom(p) => Last(Phases(p)) = "snyk"
  BY DEF Phases, Last
<1>2. pc[p] \in {"custom", "snyk"}
  BY DEF Extracted
<1>3. Custom(p)
  BY <1>1, <1>2 DEF PhaseIsAsked
<1>4. Phases(p) = <<"custom", "snyk">>
  BY <1>3 DEF Phases
<1> QED BY <1>3, <1>4

LEMMA ExtractedMoves == ASSUME PhaseIsAsked, NEW p \in Proc, Extracted(p) PROVE Moves(p)
<1>1. CASE Throw(p, "rules")
  BY <1>1, ThrowMoves
<1>2. CASE pc' = [pc EXCEPT ![p] = "load"] /\ UNCHANGED runVars
  BY <1>2, Moved
<1>3. CASE pc[p] # Last(Phases(p)) /\ Extract(p, Phases(p)[2]) /\ UNCHANGED runVars
  <2>1. Custom(p)
    BY <1>3, AskedPhases
  <2> QED BY <1>3, <2>1 DEF Extract, Moves, runVars
<1> QED BY <1>1, <1>2, <1>3 DEF Extracted

LEMMA CacheStepMoves == ASSUME PhaseIsAsked, NEW p \in Proc, CacheStep(p) PROVE Moves(p)
<1>1. CASE Pull(p)
  BY <1>1, Moved DEF Pull, TARBALL
<1>2. CASE Pulled(p)
  BY <1>2, InitLocalCacheMoves DEF Pulled
<1>3. CASE PullFails(p) \/ ExtractFails(p) \/ Unreadable(p)
  BY <1>3, ThrowMoves DEF PullFails, ExtractFails, Unreadable
<1>4. CASE OpenEntry(p)
  <2>1. Throw(p, "write") \/ UNCHANGED <<pc, runVars>>
    BY <1>4 DEF OpenEntry
  <2> QED BY <2>1, ThrowMoves DEF Moves, runVars
<1>5. CASE CloseEntry(p)
  BY <1>5 DEF CloseEntry, Moves, runVars
<1>6. CASE Extracted(p)
  BY <1>6, ExtractedMoves
<1> QED BY <1>1, <1>2, <1>3, <1>4, <1>5, <1>6 DEF CacheStep

LEMMA StepMoves == ASSUME PhaseIsAsked, NEW p \in Proc, Step(p) \/ Killed(p) PROVE Moves(p)
<1>1. CASE ShimFails(p) \/ Report(p)
  BY <1>1 DEF ShimFails, Report, LeavePath, Moves
<1>2. CASE Shim(p) \/ Conclude(p) \/ Killed(p)
  BY <1>2 DEF Shim, Conclude, Killed, Moves, runVars
<1>3. CASE SettingsFail(p) \/ ScanFails(p)
  BY <1>3, ThrowMoves DEF SettingsFail, ScanFails
<1>4. CASE Settings(p)
  <2>1. \/ Throw(p, "settings") \/ InitLocalCache(p)
        \/ pc' = [pc EXCEPT ![p] = "pull"] /\ UNCHANGED runVars
    BY <1>4 DEF Settings
  <2> QED BY <2>1, ThrowMoves, InitLocalCacheMoves DEF Moves, runVars
<1>5. CASE Load(p)
  <2>1. (\E reason : Throw(p, reason)) \/ (pc' = [pc EXCEPT ![p] = "scan"] /\ UNCHANGED runVars)
    BY <1>5 DEF Load
  <2> QED BY <2>1, ThrowMoves DEF Moves, runVars
<1>6. CASE BuildPolicyEngine(p)
  <2>1. Throw(p, "engine") \/ UNCHANGED <<pc, command>>
    BY <1>6 DEF BuildPolicyEngine
  <2> QED BY <2>1, ThrowMoves DEF Moves
<1> QED BY <1>1, <1>2, <1>3, <1>4, <1>5, <1>6, CacheStepMoves DEF Step

LEMMA PhaseIsAskedAlways == Spec => []PhaseIsAsked
<1>1. Init => PhaseIsAsked
  BY DEF Init, PhaseIsAsked
<1>2. PhaseIsAsked /\ [Next]_vars => PhaseIsAsked'
  <2> SUFFICES ASSUME PhaseIsAsked, [Next]_vars PROVE PhaseIsAsked'
    OBVIOUS
  <2>1. CASE UNCHANGED vars
    BY <2>1 DEF vars, runVars, PhaseIsAsked, Custom, Source
  <2>2. ASSUME NEW p \in Proc, Moves(p) PROVE PhaseIsAsked'
    <3>1. \A q : Custom(q)' = Custom(q)
      BY <2>2 DEF Moves, Custom, Source
    <3>2. CASE UNCHANGED pc
      BY <3>1, <3>2 DEF PhaseIsAsked
    <3>3. ASSUME NEW s, pc' = [pc EXCEPT ![p] = s], s = "custom" => Custom(p) PROVE PhaseIsAsked'
      BY <3>1, <3>3 DEF PhaseIsAsked
    <3> QED BY <2>2, <3>2, <3>3 DEF Moves
  <2> QED BY <2>1, <2>2, StepMoves DEF Next
<1> QED BY <1>1, <1>2, PTL DEF Spec

-----------------------------------------------------------------------------
(* One lemma for an error, one for a path that ends: what LeavePath and    *)
(* CleanLocalCache do together.                                            *)
Cleans(p) ==
  /\ failures' \in 0..MaxFailures
  /\ \/ dir' = NoDir /\ job' = Jobs(p, {}) /\ UNCHANGED left
     \/ /\ left' = TRUE
        /\ \E kept \in SUBSET Slot :
             /\ dir' = [exists |-> TRUE, slots |-> [s \in Slot |-> IF s \in kept THEN dir.slots[s] ELSE None]]
             /\ job' = Jobs(p, kept)

LEMMA CleanLocalCacheCleans == ASSUME TInv, NEW p \in Proc, NEW there, CleanLocalCache(p, there) PROVE Cleans(p)
<1>1. failures \in 0..MaxFailures /\ MaxFailures \in Nat
  BY IacAssumption DEF TInv, IacAssumption
<1>2. CASE dir' = NoDir /\ job' = Jobs(p, {}) /\ UNCHANGED <<failures, left>>
  BY <1>1, <1>2 DEF Cleans
<1>3. CASE /\ there /\ Failing /\ left' = TRUE
           /\ \E kept \in {{}, {s \in Slot : dir.slots[s] # None}} :
                /\ dir' = [exists |-> TRUE, slots |-> [s \in Slot |-> IF s \in kept THEN dir.slots[s] ELSE None]]
                /\ job' = Jobs(p, kept)
  <2>1. failures' \in 0..MaxFailures
    BY <1>1, <1>3 DEF Failing
  <2>2. PICK kept \in {{}, {s \in Slot : dir.slots[s] # None}} :
          /\ dir' = [exists |-> TRUE, slots |-> [s \in Slot |-> IF s \in kept THEN dir.slots[s] ELSE None]]
          /\ job' = Jobs(p, kept)
    BY <1>3
  <2>3. kept \in SUBSET Slot
    BY <2>2
  <2> QED BY <1>3, <2>1, <2>2, <2>3 DEF Cleans
<1> QED BY <1>2, <1>3 DEF CleanLocalCache

LEMMA FailingCleans ==
  ASSUME TInv, NEW p \in Proc, Failing, dir' = NoDir, job' = Jobs(p, {}), UNCHANGED left PROVE Cleans(p)
BY IacAssumption DEF TInv, IacAssumption, Failing, Cleans

LEMMA JobsTyped ==
  ASSUME TInv, NEW p \in Proc, NEW kept
  PROVE  /\ Jobs(p, kept) \in [Proc -> Job] /\ Jobs(p, kept)[p] = NoJob
         /\ \A q \in Proc \ {p} :
              /\ Jobs(p, kept)[q].bundle = job[q].bundle /\ Jobs(p, kept)[q].entries = job[q].entries
              /\ Jobs(p, kept)[q].open = job[q].open \/ (job[q].open = "open" /\ Jobs(p, kept)[q].open = "lost")
              /\ job[q] = NoJob => Jobs(p, kept)[q] = NoJob
              /\ kept = {} => Jobs(p, kept)[q].open # "open"
<1>1. NoJob \in Job
  BY DEF NoJob, Job
<1>2. \A q \in Proc : job[q] \in Job
  BY DEF TInv
<1>3. ASSUME NEW j \in Job
      PROVE  /\ [j EXCEPT !.open = "lost"] \in Job
             /\ [j EXCEPT !.open = "lost"].bundle = j.bundle /\ [j EXCEPT !.open = "lost"].entries = j.entries
             /\ [j EXCEPT !.open = "lost"].open = "lost"
  BY DEF Job
<1>4. \A q \in Proc \ {p} : Jobs(p, kept)[q] = IF job[q].open = "open" /\ Head(job[q].entries) \notin kept
                                                 THEN [job[q] EXCEPT !.open = "lost"] ELSE job[q]
  BY DEF Jobs
<1>5. Jobs(p, kept)[p] = NoJob
  BY DEF Jobs
<1>6. Jobs(p, kept) \in [Proc -> Job]
  BY <1>1, <1>2, <1>3 DEF Jobs
<1>7. ASSUME NEW q \in Proc \ {p}
      PROVE  /\ Jobs(p, kept)[q].bundle = job[q].bundle /\ Jobs(p, kept)[q].entries = job[q].entries
             /\ Jobs(p, kept)[q].open = job[q].open \/ (job[q].open = "open" /\ Jobs(p, kept)[q].open = "lost")
             /\ job[q] = NoJob => Jobs(p, kept)[q] = NoJob
             /\ kept = {} => Jobs(p, kept)[q].open # "open"
  <2>1. CASE job[q].open = "open" /\ Head(job[q].entries) \notin kept
    <3>1. Jobs(p, kept)[q] = [job[q] EXCEPT !.open = "lost"]
      BY <1>4, <2>1
    <3>2. job[q] # NoJob
      BY <2>1 DEF NoJob
    <3> DEFINE j == [job[q] EXCEPT !.open = "lost"]
    <3>3. j.bundle = job[q].bundle /\ j.entries = job[q].entries /\ j.open = "lost"
      BY <1>2, <1>3
    <3> HIDE DEF j
    <3>4. Jobs(p, kept)[q] = j
      BY <3>1 DEF j
    <3>5. kept = {} => Jobs(p, kept)[q].open # "open"
      BY <3>3, <3>4
    <3> QED BY <2>1, <3>2, <3>3, <3>4, <3>5
  <2>2. CASE ~(job[q].open = "open" /\ Head(job[q].entries) \notin kept)
    <3>1. Jobs(p, kept)[q] = job[q]
      BY <1>4, <2>2
    <3>2. kept = {} => job[q].open # "open"
      BY <2>2
    <3> QED BY <3>1, <3>2
  <2> QED BY <2>1, <2>2
<1> QED BY <1>5, <1>6, <1>7
-----------------------------------------------------------------------------
LEMMA CommandsStay == ASSUME CommandsKept, UNCHANGED command PROVE CommandsKept'
BY DEF CommandsKept

LEMMA PathsStay ==
  ASSUME PathsCounted, UNCHANGED <<command, at, results>>,
         NEW p \in Proc, NEW s, pc \in [Proc -> Pc], pc' = [pc EXCEPT ![p] = s], Inside(p) \/ at[p] <= Len(command[p].paths)
  PROVE  PathsCounted'
<1>1. \A q \in Proc : q # p => pc'[q] = pc[q]
  OBVIOUS
<1> QED BY <1>1 DEF PathsCounted, Inside

LEMMA LeavePathCounts ==
  ASSUME TInv, NEW p \in Proc, NEW r, at[p] <= Len(command[p].paths), LeavePath(p, r)
  PROVE  CommandsKept' /\ PathsCounted'
<1>1. CommandsKept'
  BY DEF TInv, LeavePath, CommandsKept
<1>2. /\ results' = [results EXCEPT ![p] = Append(results[p], r)] /\ at' = [at EXCEPT ![p] = at[p] + 1]
      /\ pc' = [pc EXCEPT ![p] = "shim"] /\ UNCHANGED command
  BY DEF LeavePath
<1>3. PathsCounted
  BY DEF TInv
<1>4. Len(command[p].paths) \in Nat
  BY DEF TInv, CommandsKept
<1>5. at' \in [Proc -> Nat] /\ DOMAIN results' = Proc
  BY <1>2, <1>3 DEF PathsCounted
<1>6. ASSUME NEW q \in Proc, q # p
      PROVE  results'[q] = results[q] /\ at'[q] = at[q] /\ pc'[q] = pc[q]
  BY <1>2, <1>3, <1>6 DEF PathsCounted, TInv
<1>7. results'[p] = Append(results[p], r) /\ at'[p] = at[p] + 1 /\ pc'[p] = "shim"
  BY <1>2, <1>3 DEF PathsCounted, TInv
<1>8. (\E S : results'[p] \in Seq(S)) /\ Len(results'[p]) = Len(results[p]) + 1
  <2>1. PICK S : results[p] \in Seq(S)
    BY <1>3 DEF PathsCounted
  <2>2. results[p] \in Seq(S \cup {r}) /\ r \in S \cup {r}
    BY <2>1, SeqMonotonic
  <2>3. Append(results[p], r) \in Seq(S \cup {r}) /\ Len(Append(results[p], r)) = Len(results[p]) + 1
    BY <2>2, AppendProperties
  <2> QED BY <1>7, <2>3
<1>9. ASSUME NEW q \in Proc
      PROVE  /\ \E S : results'[q] \in Seq(S)
             /\ at'[q] = Len(results'[q]) + 1 /\ at'[q] <= Len(command[q].paths) + 1
             /\ Inside(q)' => at'[q] <= Len(command[q].paths)
  <2>1. CASE q = p
    <3>1. at[p] \in Nat /\ at[p] = Len(results[p]) + 1
      BY <1>3 DEF PathsCounted
    <3>2. at'[p] = Len(results'[p]) + 1 /\ at'[p] <= Len(command[p].paths) + 1
      BY <1>4, <1>7, <1>8, <3>1
    <3>3. ~Inside(p)'
      BY <1>7 DEF Inside
    <3> QED BY <1>8, <2>1, <3>2, <3>3
  <2>2. CASE q # p
    BY <1>3, <1>6, <2>2 DEF PathsCounted, Inside
  <2> QED BY <2>1, <2>2
<1>10. PathsCounted'
  BY <1>2, <1>5, <1>9 DEF PathsCounted
<1> QED BY <1>1, <1>10

LEMMA CleansTInv ==
  ASSUME TInv, NEW p \in Proc, NEW r, at[p] <= Len(command[p].paths), LeavePath(p, r), Cleans(p)
  PROVE  TInv'
<1>1. CommandsKept' /\ PathsCounted'
  BY LeavePathCounts
<1>2. /\ pc' = [pc EXCEPT ![p] = "shim"] /\ UNCHANGED <<engines, verdict, disturbed>>
  BY DEF LeavePath
<1>3. pc' \in [Proc -> Pc]
  BY <1>2 DEF TInv, Pc
<1>4. PICK kept : job' = Jobs(p, kept) /\ (kept = {} \/ dir'.exists)
  <2>1. CASE dir' = NoDir /\ job' = Jobs(p, {}) /\ UNCHANGED left
    BY <2>1
  <2>2. CASE \E kept \in SUBSET Slot :
               /\ dir' = [exists |-> TRUE, slots |-> [s \in Slot |-> IF s \in kept THEN dir.slots[s] ELSE None]]
               /\ job' = Jobs(p, kept)
    BY <2>2
  <2> QED BY <2>1, <2>2 DEF Cleans
<1>5. job' \in [Proc -> Job] /\ job'[p] = NoJob
  BY <1>4, JobsTyped
<1>6. JobsInOrder'
  <2>1. ASSUME NEW q \in Proc
        PROVE  /\ job'[q].open # "no" => job'[q].entries # <<>>
               /\ job'[q].open = "open" => dir'.exists
               /\ pc'[q] \notin Writing => job'[q] = NoJob
    <3>1. CASE q = p
      BY <1>5, <3>1 DEF NoJob
    <3>2. CASE q # p
      <4>1. pc'[q] = pc[q]
        BY <1>2, <3>2 DEF TInv
      <4> QED BY <1>4, <3>2, <4>1, JobsTyped DEF TInv, JobsInOrder
    <3> QED BY <3>1, <3>2
  <2> QED BY <2>1 DEF JobsInOrder
<1>7. /\ dir' \in [exists : BOOLEAN, slots : [Slot -> Content]]
      /\ ~dir'.exists => dir' = NoDir
  <2>1. CASE dir' = NoDir
    BY <2>1 DEF NoDir, Content
  <2>2. CASE \E k \in SUBSET Slot :
               dir' = [exists |-> TRUE, slots |-> [s \in Slot |-> IF s \in k THEN dir.slots[s] ELSE None]]
    BY <2>2 DEF TInv, Content
  <2> QED BY <2>1, <2>2 DEF Cleans
<1>8. left' \in BOOLEAN
  BY DEF Cleans, TInv
<1>9. TornIsOpen'
  <2>1. CASE left'
    BY <2>1 DEF TornIsOpen
  <2>2. CASE dir' = NoDir
    BY <2>2, BundlesAreThere DEF TornIsOpen, NoDir
  <2> QED BY <2>1, <2>2 DEF Cleans
<1>10. failures' \in 0..MaxFailures
  BY DEF Cleans
<1>11. /\ engines' \in [Proc -> [Engine -> DOMAIN Bundles \cup {None}]]
       /\ verdict' \in [Proc -> {None, "ok", "vulns", "error"}] /\ disturbed' \subseteq Proc
  BY <1>2 DEF TInv
<1> QED BY <1>1, <1>3, <1>5, <1>6, <1>7, <1>8, <1>9, <1>10, <1>11 DEF TInv

LEMMA ThrowTInv ==
  ASSUME TInv, NEW p \in Proc, NEW reason, NEW there, Inside(p), ThrowFrom(p, reason, there) PROVE TInv'
<1>1. at[p] <= Len(command[p].paths)
  BY DEF TInv, PathsCounted
<1>2. LeavePath(p, Error(reason)) /\ CleanLocalCache(p, there)
  BY DEF ThrowFrom
<1>3. Cleans(p)
  BY <1>2, CleanLocalCacheCleans
<1> QED BY <1>1, <1>2, <1>3, CleansTInv

LEMMA FailAndCleanTInv ==
  ASSUME TInv, NEW p \in Proc, NEW reason, Inside(p), FailAndClean(p, reason) PROVE TInv'
<1>1. at[p] <= Len(command[p].paths)
  BY DEF TInv, PathsCounted
<1>2. LeavePath(p, Error(reason)) /\ Failing /\ dir' = NoDir /\ job' = Jobs(p, {}) /\ UNCHANGED left
  BY DEF FailAndClean
<1>3. Cleans(p)
  BY <1>2, FailingCleans
<1> QED BY <1>1, <1>2, <1>3, CleansTInv
-----------------------------------------------------------------------------
(* What one process writes leaves the others' jobs in order.               *)
LEMMA JobsStayInOrder ==
  ASSUME TInv, NEW p \in Proc, NEW s \in Pc, NEW j \in Job,
         pc' = [pc EXCEPT ![p] = s], job' = [job EXCEPT ![p] = j],
         j.open # "no" => j.entries # <<>>, s \notin Writing => j = NoJob,
         dir.exists => dir'.exists, j.open = "open" => dir'.exists
  PROVE  pc' \in [Proc -> Pc] /\ job' \in [Proc -> Job] /\ JobsInOrder'
<1>1. pc' \in [Proc -> Pc] /\ job' \in [Proc -> Job]
  BY DEF TInv
<1>2. pc'[p] = s /\ job'[p] = j /\ \A q \in Proc : q # p => pc'[q] = pc[q] /\ job'[q] = job[q]
  BY DEF TInv
<1>3. JobsInOrder'
  BY <1>2 DEF TInv, JobsInOrder
<1> QED BY <1>1, <1>3

LEMMA TornStays ==
  ASSUME TInv, NEW p \in Proc, dir'.slots = dir.slots, UNCHANGED left, job[p].open # "open",
         \A q \in Proc : q # p => job'[q] = job[q]
  PROVE  TornIsOpen'
<1> SUFFICES ASSUME NEW s \in Slot, dir'.slots[s] = Torn, ~left
             PROVE  \E q \in Proc : job'[q].open = "open" /\ Head(job'[q].entries) = s
  BY DEF TornIsOpen
<1>1. PICK q \in Proc : job[q].open = "open" /\ Head(job[q].entries) = s
  BY DEF TInv, TornIsOpen
<1> QED BY <1>1

LEMMA ShimFailsTInv == ASSUME TInv, NEW p \in Proc, ShimFails(p) PROVE TInv'
<1>1. /\ LeavePath(p, Error("shim")) /\ at[p] <= Len(command[p].paths) /\ pc[p] = "shim"
      /\ Failing /\ UNCHANGED <<dir, job, left>>
  BY DEF ShimFails
<1>2. CommandsKept' /\ PathsCounted'
  BY <1>1, LeavePathCounts
<1>3. pc' = pc
  BY <1>1 DEF LeavePath, TInv
<1>4. JobsInOrder' /\ TornIsOpen'
  BY <1>1, <1>3 DEF TInv, JobsInOrder, TornIsOpen
<1>5. failures' \in 0..MaxFailures
  BY <1>1, IacAssumption DEF TInv, IacAssumption, Failing
<1>6. UNCHANGED <<engines, verdict, disturbed>>
  BY <1>1 DEF LeavePath
<1> QED BY <1>1, <1>2, <1>3, <1>4, <1>5, <1>6 DEF TInv

LEMMA ShimTInv == ASSUME TInv, NEW p \in Proc, Shim(p) PROVE TInv'
<1>1. /\ pc[p] = "shim" /\ at[p] <= Len(command[p].paths) /\ pc' = [pc EXCEPT ![p] = "settings"]
      /\ UNCHANGED <<dir, job, failures, left, command, at, engines, results, verdict>>
  BY DEF Shim, runVars
<1>2. disturbed' \subseteq Proc
  BY DEF Shim, TInv
<1>3. CommandsKept' /\ PathsCounted'
  BY <1>1, CommandsStay, PathsStay DEF TInv
<1>4. JobsInOrder' /\ pc' \in [Proc -> Pc]
  BY <1>1 DEF TInv, JobsInOrder, Pc, Writing, TARBALL
<1>5. TornIsOpen'
  BY <1>1 DEF TInv, TornIsOpen
<1> QED BY <1>1, <1>2, <1>3, <1>4, <1>5 DEF TInv

LEMMA ExtractTInv ==
  ASSUME TInv, NEW p \in Proc, NEW phase \in {"custom", "snyk"}, Inside(p), job[p].open # "open",
         phase = "custom" => CustomRules(p) \in DOMAIN Bundles,
         Extract(p, phase), dir' = dir \/ dir' = Created(dir), UNCHANGED <<failures, left, disturbed, runVars>>
  PROVE  TInv'
<1> DEFINE b == IF phase = "custom" THEN CustomRules(p) ELSE "snyk"
<1>1. b \in DOMAIN Bundles
  BY BundlesAreThere
<1> DEFINE j == Write(b, Bundles[b].entries)
<1>2. j \in Job /\ j.open = "no"
  BY <1>1, BundlesAreThere DEF Write, Job
<1>3. pc' = [pc EXCEPT ![p] = phase] /\ job' = [job EXCEPT ![p] = j]
  BY DEF Extract
<1>4. phase \in Pc /\ phase \in Writing
  BY DEF Pc, Writing
<1>5. pc' \in [Proc -> Pc] /\ job' \in [Proc -> Job] /\ JobsInOrder'
  <2>1. dir.exists => dir'.exists
    BY DEF Created, TInv
  <2> HIDE DEF j
  <2> QED BY <1>2, <1>3, <1>4, <2>1, JobsStayInOrder
<1>6. CommandsKept' /\ PathsCounted'
  <2>1. UNCHANGED <<command, at, results>> /\ CommandsKept /\ PathsCounted /\ pc \in [Proc -> Pc]
    BY DEF runVars, TInv
  <2> QED BY <1>3, <2>1, CommandsStay, PathsStay
<1>7. /\ dir'.slots = dir.slots /\ dir' \in [exists : BOOLEAN, slots : [Slot -> Content]]
      /\ ~dir'.exists => dir' = NoDir
  BY DEF Created, TInv
<1>8. TornIsOpen'
  <2>1. \A q \in Proc : q # p => job'[q] = job[q]
    BY <1>3 DEF TInv
  <2> QED BY <1>7, <2>1, TornStays
<1> QED BY <1>5, <1>6, <1>7, <1>8 DEF TInv, runVars

LEMMA InitLocalCacheTInv ==
  ASSUME TInv, NEW p \in Proc, Inside(p), job[p].open # "open", InitLocalCache(p) PROVE TInv'
<1>1. CASE Custom(p) /\ CustomRules(p) \notin DOMAIN Bundles
  BY <1>1, ThrowTInv DEF InitLocalCache
<1>2. CASE ~(Custom(p) /\ CustomRules(p) \notin DOMAIN Bundles)
  <2>1. Extract(p, Phases(p)[1]) /\ dir' = Created(dir) /\ UNCHANGED <<failures, left, disturbed, runVars>>
    BY <1>2 DEF InitLocalCache
  <2>2. Phases(p)[1] \in {"custom", "snyk"} /\ (Phases(p)[1] = "custom" => Custom(p))
    BY DEF Phases
  <2> QED BY <1>2, <2>1, <2>2, ExtractTInv
<1> QED BY <1>1, <1>2

LEMMA SettingsTInv == ASSUME TInv, NEW p \in Proc, Settings(p) PROVE TInv'
<1>1. Inside(p) /\ pc[p] = "settings" /\ job[p] = NoJob
  BY DEF Settings, Inside, TInv, JobsInOrder, Writing, TARBALL
<1>2. CASE Throw(p, "settings")
  BY <1>1, <1>2, ThrowTInv
<1>3. CASE pc' = [pc EXCEPT ![p] = "pull"] /\ UNCHANGED <<dir, job, failures, left, disturbed, runVars>>
  <2>1. CommandsKept' /\ PathsCounted'
    BY <1>1, <1>3, CommandsStay, PathsStay DEF TInv, runVars
  <2>2. JobsInOrder' /\ pc' \in [Proc -> Pc] /\ TornIsOpen'
    BY <1>1, <1>3 DEF TInv, JobsInOrder, Pc, Writing, TARBALL, TornIsOpen
  <2> QED BY <1>3, <2>1, <2>2 DEF TInv, runVars
<1>4. CASE InitLocalCache(p)
  BY <1>1, <1>4, InitLocalCacheTInv DEF NoJob
<1> QED BY <1>2, <1>3, <1>4 DEF Settings

LEMMA PullTInv == ASSUME TInv, NEW p \in Proc, Pull(p) PROVE TInv'
<1> DEFINE j == Write(command[p].registry, <<TARBALL>>)
<1>1. /\ pc[p] = "pull" /\ dir' = Created(dir) /\ pc' = [pc EXCEPT ![p] = TARBALL]
      /\ job' = [job EXCEPT ![p] = j] /\ UNCHANGED <<failures, left, disturbed, runVars>>
  BY DEF Pull
<1>2. job[p] = NoJob /\ Inside(p)
  BY <1>1 DEF TInv, JobsInOrder, Writing, TARBALL, Inside
<1>3. j \in Job /\ j.open = "no"
  BY DEF Write, Job, TInv, CommandsKept, Slot
<1>4. pc' \in [Proc -> Pc] /\ job' \in [Proc -> Job] /\ JobsInOrder'
  <2>1. TARBALL \in Pc /\ TARBALL \in Writing
    BY DEF Pc, Writing
  <2>2. dir.exists => dir'.exists
    BY <1>1 DEF Created, TInv
  <2> HIDE DEF j
  <2> QED BY <1>1, <1>3, <2>1, <2>2, JobsStayInOrder
<1>5. CommandsKept' /\ PathsCounted'
  BY <1>1, <1>2, CommandsStay, PathsStay DEF TInv, runVars
<1>6. /\ dir'.slots = dir.slots /\ dir' \in [exists : BOOLEAN, slots : [Slot -> Content]]
      /\ ~dir'.exists => dir' = NoDir
  BY <1>1 DEF Created, TInv
<1>7. TornIsOpen'
  <2>1. \A q \in Proc : q # p => job'[q] = job[q]
    BY <1>1 DEF TInv
  <2>2. job[p].open # "open" /\ UNCHANGED left
    BY <1>1, <1>2 DEF NoJob
  <2> QED BY <1>6, <2>1, <2>2, TornStays
<1> QED BY <1>1, <1>4, <1>5, <1>6, <1>7 DEF TInv, runVars

LEMMA PulledTInv == ASSUME TInv, NEW p \in Proc, Pulled(p) PROVE TInv'
<1>1. Inside(p) /\ job[p].open = "no" /\ InitLocalCache(p)
  BY DEF Pulled, Inside, TARBALL, TInv, JobsInOrder
<1> QED BY <1>1, InitLocalCacheTInv

LEMMA EntriesTyped ==
  ASSUME TInv, NEW p \in Proc, job[p].entries # <<>>
  PROVE  /\ Head(job[p].entries) \in Slot /\ Tail(job[p].entries) \in Seq(Slot)
         /\ pc[p] \in Writing /\ Inside(p) /\ at[p] <= Len(command[p].paths)
<1>1. job[p].entries \in Seq(Slot)
  BY DEF TInv, Job
<1>2. pc[p] \in Writing
  BY DEF TInv, JobsInOrder, NoJob
<1>3. Inside(p)
  BY <1>2 DEF Writing, TARBALL, Inside
<1> QED BY <1>1, <1>2, <1>3, HeadTailProperties DEF TInv, PathsCounted

(* Of the steps that only write, everything but the jobs and the directory *)
(* is as before.                                                           *)
LEMMA WritesTInv ==
  ASSUME TInv, NEW p \in Proc, NEW j \in Job, job[p].entries # <<>>, job' = [job EXCEPT ![p] = j],
         j.open # "no" => j.entries # <<>>, dir.exists => dir'.exists, j.open = "open" => dir'.exists,
         dir' \in [exists : BOOLEAN, slots : [Slot -> Content]], ~dir'.exists => dir' = NoDir,
         TornIsOpen', UNCHANGED <<pc, failures, left, disturbed, runVars>>
  PROVE  TInv'
<1>1. pc' = [pc EXCEPT ![p] = pc[p]] /\ pc[p] \in Pc /\ pc[p] \in Writing
  BY EntriesTyped DEF TInv
<1>2. pc' \in [Proc -> Pc] /\ job' \in [Proc -> Job] /\ JobsInOrder'
  BY <1>1, JobsStayInOrder
<1>3. CommandsKept' /\ PathsCounted'
  BY <1>1, EntriesTyped, CommandsStay, PathsStay DEF TInv, runVars
<1> QED BY <1>2, <1>3 DEF TInv, runVars

LEMMA OpenEntryTInv == ASSUME TInv, NEW p \in Proc, OpenEntry(p) PROVE TInv'
<1>1. /\ job[p].entries # <<>> /\ job[p].open = "no" /\ job[p] \in Job /\ Inside(p)
      /\ Head(job[p].entries) \in Slot /\ Tail(job[p].entries) \in Seq(Slot)
  BY EntriesTyped DEF OpenEntry, TInv
<1>2. CASE dir.exists
  <2>1. /\ dir' = [dir EXCEPT !.slots[Head(job[p].entries)] = Torn]
        /\ job' = [job EXCEPT ![p].open = "open"]
        /\ UNCHANGED <<pc, failures, left, disturbed, runVars>>
    BY <1>2 DEF OpenEntry
  <2> DEFINE j == [job[p] EXCEPT !.open = "open"]
  <2>2. job' = [job EXCEPT ![p] = j] /\ j \in Job /\ j.open = "open" /\ j.entries = job[p].entries
    BY <1>1, <2>1 DEF TInv, Job
  <2>3. dir' \in [exists : BOOLEAN, slots : [Slot -> Content]] /\ dir'.exists
    BY <1>2, <2>1 DEF TInv, Content
  <2>4. TornIsOpen'
    <3> HIDE DEF j
    <3>1. job'[p] = j /\ \A q \in Proc : q # p => job'[q] = job[q]
      BY <2>2 DEF TInv
    <3>2. \A s \in Slot : s # Head(job[p].entries) => dir'.slots[s] = dir.slots[s]
      BY <2>1 DEF TInv
    <3> SUFFICES ASSUME NEW s \in Slot, dir'.slots[s] = Torn, ~left
                 PROVE  \E q \in Proc : job'[q].open = "open" /\ Head(job'[q].entries) = s
      BY <2>1 DEF TornIsOpen
    <3>3. CASE s = Head(job[p].entries)
      BY <2>2, <3>1, <3>3
    <3>4. CASE s # Head(job[p].entries)
      <4>1. PICK q \in Proc : job[q].open = "open" /\ Head(job[q].entries) = s
        BY <3>2, <3>4 DEF TInv, TornIsOpen
      <4> QED BY <1>1, <3>1, <4>1
    <3> QED BY <3>3, <3>4
  <2> HIDE DEF j
  <2> QED BY <1>1, <2>1, <2>2, <2>3, <2>4, WritesTInv
<1>3. CASE ~dir.exists /\ Throw(p, "write")
  BY <1>1, <1>3, ThrowTInv
<1>4. CASE /\ ~dir.exists /\ job' = [job EXCEPT ![p].entries = Tail(@)]
           /\ UNCHANGED <<pc, dir, failures, left, disturbed, runVars>>
  <2> DEFINE j == [job[p] EXCEPT !.entries = Tail(job[p].entries)]
  <2>1. job' = [job EXCEPT ![p] = j] /\ j \in Job /\ j.open = "no"
    BY <1>1, <1>4 DEF TInv, Job
  <2>2. TornIsOpen'
    BY <1>4, BundlesAreThere DEF TInv, TornIsOpen, NoDir
  <2> HIDE DEF j
  <2> QED BY <1>1, <1>4, <2>1, <2>2, WritesTInv DEF TInv
<1> QED BY <1>2, <1>3, <1>4 DEF OpenEntry

LEMMA CloseEntryTInv == ASSUME TInv, NEW p \in Proc, CloseEntry(p) PROVE TInv'
<1> DEFINE j == [[job[p] EXCEPT !.open = "no"] EXCEPT !.entries = Tail(job[p].entries)]
           h == Head(job[p].entries)
<1>1. job[p].open # "no" /\ job[p].entries # <<>> /\ job[p] \in Job /\ h \in Slot /\ Tail(job[p].entries) \in Seq(Slot)
  BY EntriesTyped DEF CloseEntry, TInv, JobsInOrder
<1>2. j \in Job /\ j.open = "no"
  BY <1>1 DEF Job
<1>3. job' = [job EXCEPT ![p] = j] /\ UNCHANGED <<pc, failures, left, disturbed, runVars>>
  BY <1>1 DEF CloseEntry, TInv, Job
<1>4. dir' = dir \/ (job[p].open = "open" /\ dir' = [dir EXCEPT !.slots[h] = job[p].bundle])
  BY <1>1 DEF CloseEntry, Job
<1>5. dir' \in [exists : BOOLEAN, slots : [Slot -> Content]]
  <2>1. job[p].bundle \in Content /\ h \in Slot
    BY <1>1 DEF Job, Content
  <2> HIDE DEF h
  <2>2. dir \in [exists : BOOLEAN, slots : [Slot -> Content]]
    BY DEF TInv
  <2>3. CASE dir' = [dir EXCEPT !.slots[h] = job[p].bundle]
    BY <2>1, <2>2, <2>3
  <2> QED BY <1>4, <2>2, <2>3
<1>6. dir.exists => dir'.exists
  BY <1>4 DEF TInv
<1>7. ~dir'.exists => dir' = NoDir
  BY <1>4, <1>5 DEF TInv, JobsInOrder
<1>8. TornIsOpen'
  <2> HIDE DEF j, h
  <2>1. job'[p] = j /\ \A q \in Proc : q # p => job'[q] = job[q]
    BY <1>3 DEF TInv
  <2>2. CASE dir' = dir /\ job[p].open # "open"
    BY <1>3, <2>1, <2>2, TornStays
  <2>3. CASE job[p].open = "open" /\ dir' = [dir EXCEPT !.slots[h] = job[p].bundle]
    <3>1. job[p].bundle # Torn
      BY <1>1, BundlesAreThere DEF Job
    <3>2. \A s \in Slot : dir'.slots[s] = IF s = h THEN job[p].bundle ELSE dir.slots[s]
      BY <1>1, <2>3 DEF TInv
    <3> SUFFICES ASSUME NEW s \in Slot, dir'.slots[s] = Torn, ~left
                 PROVE  \E q \in Proc : job'[q].open = "open" /\ Head(job'[q].entries) = s
      BY <1>3 DEF TornIsOpen
    <3>3. s # h /\ dir.slots[s] = Torn
      BY <3>1, <3>2
    <3>4. PICK q \in Proc : job[q].open = "open" /\ Head(job[q].entries) = s
      BY <3>3 DEF TInv, TornIsOpen
    <3>5. q # p
      BY <3>3, <3>4 DEF h
    <3> QED BY <2>1, <3>4, <3>5
  <2>4. job[p].open = "lost" => dir' = dir
    BY DEF CloseEntry
  <2>5. job[p].open = "open" \/ job[p].open = "lost"
    BY <1>1 DEF Job
  <2>6. job[p].open = "open" => dir' = [dir EXCEPT !.slots[h] = job[p].bundle]
    BY DEF CloseEntry, h
  <2> QED BY <2>2, <2>3, <2>4, <2>5, <2>6
<1> HIDE DEF j, h
<1> QED BY <1>1, <1>2, <1>3, <1>5, <1>6, <1>7, <1>8, WritesTInv

LEMMA ExtractedTInv == ASSUME TInv, PhaseIsAsked, NEW p \in Proc, Extracted(p) PROVE TInv'
<1>1. /\ pc[p] \in {"custom", "snyk"} /\ Inside(p) /\ job[p].open = "no"
  BY DEF Extracted, Inside, TInv, JobsInOrder
<1>2. CASE pc[p] = "custom" /\ ~IsValidBundle
  BY <1>1, <1>2, ThrowTInv DEF Extracted
<1>3. CASE /\ pc[p] = Last(Phases(p)) /\ pc' = [pc EXCEPT ![p] = "load"] /\ job' = [job EXCEPT ![p] = NoJob]
           /\ UNCHANGED <<dir, failures, left, disturbed, runVars>>
  <2>1. NoJob \in Job /\ NoJob.open = "no" /\ "load" \in Pc
    BY DEF NoJob, Job, Pc
  <2>2. pc' \in [Proc -> Pc] /\ job' \in [Proc -> Job] /\ JobsInOrder'
    BY <1>3, <2>1, JobsStayInOrder
  <2>3. CommandsKept' /\ PathsCounted'
    BY <1>1, <1>3, CommandsStay, PathsStay DEF TInv, runVars
  <2>4. \A q \in Proc : q # p => job'[q] = job[q]
    BY <1>3 DEF TInv
  <2>5. TornIsOpen'
    BY <1>1, <1>3, <2>4, TornStays
  <2> QED BY <1>3, <2>2, <2>3, <2>5 DEF TInv, runVars
<1>4. CASE /\ pc[p] # Last(Phases(p)) /\ Extract(p, Phases(p)[2])
           /\ UNCHANGED <<dir, failures, left, disturbed, runVars>>
  <2>1. Phases(p)[2] = "snyk"
    BY <1>4, AskedPhases
  <2> QED BY <1>1, <1>4, <2>1, ExtractTInv
<1> QED BY <1>2, <1>3, <1>4 DEF Extracted

LEMMA LoadTInv == ASSUME TInv, NEW p \in Proc, Load(p) PROVE TInv'
<1>1. pc[p] = "load" /\ Inside(p) /\ job[p] = NoJob
  BY DEF Load, Inside, TInv, JobsInOrder, Writing, TARBALL
<1>2. CASE \E reason : Throw(p, reason)
  BY <1>1, <1>2, ThrowTInv
<1>3. CASE pc' = [pc EXCEPT ![p] = "scan"] /\ UNCHANGED <<dir, job, failures, left, disturbed, runVars>>
  <2>1. CommandsKept' /\ PathsCounted'
    BY <1>1, <1>3, CommandsStay, PathsStay DEF TInv, runVars
  <2>2. JobsInOrder' /\ pc' \in [Proc -> Pc] /\ TornIsOpen'
    BY <1>1, <1>3 DEF TInv, JobsInOrder, Pc, Writing, TARBALL, TornIsOpen
  <2> QED BY <1>3, <2>1, <2>2 DEF TInv, runVars
<1> QED BY <1>2, <1>3 DEF Load

LEMMA BuildPolicyEngineTInv == ASSUME TInv, NEW p \in Proc, BuildPolicyEngine(p) PROVE TInv'
<1>1. pc[p] = "scan" /\ Inside(p)
  BY DEF BuildPolicyEngine, Inside, TARBALL
<1>2. CASE Throw(p, "engine")
  BY <1>1, <1>2, ThrowTInv
<1>3. ASSUME NEW e \in Missing(p),
             \E b \in (IF dir.slots[e] = Torn THEN DOMAIN Bundles ELSE {dir.slots[e]} \ {None}) :
               /\ engines' = [engines EXCEPT ![p][e] = b]
               /\ UNCHANGED <<pc, dir, job, failures, left, disturbed, command, at, results, scanFailures, verdict>>
      PROVE  TInv'
  <2>1. PICK b \in (IF dir.slots[e] = Torn THEN DOMAIN Bundles ELSE {dir.slots[e]} \ {None}) :
             /\ engines' = [engines EXCEPT ![p][e] = b]
             /\ UNCHANGED <<pc, dir, job, failures, left, disturbed, command, at, results, scanFailures, verdict>>
    BY <1>3
  <2>2. e \in Engine => b \in DOMAIN Bundles
    BY <2>1 DEF TInv, Content, Slot
  <2>3. engines' \in [Proc -> [Engine -> DOMAIN Bundles \cup {None}]]
    <3>1. engines' = [engines EXCEPT ![p] = [engines[p] EXCEPT ![e] = b]]
      BY <2>1
    <3>2. [engines[p] EXCEPT ![e] = b] \in [Engine -> DOMAIN Bundles \cup {None}]
      <4>1. engines[p] \in [Engine -> DOMAIN Bundles \cup {None}]
        BY DEF TInv
      <4>2. CASE e \in Engine
        BY <2>2, <4>1, <4>2
      <4>3. CASE e \notin Engine
        <5>1. [engines[p] EXCEPT ![e] = b] = engines[p]
          BY <4>1, <4>3
        <5> QED BY <4>1, <5>1
      <4> QED BY <4>2, <4>3
    <3> QED BY <3>1, <3>2 DEF TInv
  <2>4. CommandsKept' /\ PathsCounted' /\ JobsInOrder' /\ TornIsOpen'
    BY <2>1 DEF TInv, CommandsKept, PathsCounted, JobsInOrder, TornIsOpen, Inside
  <2> QED BY <2>1, <2>3, <2>4 DEF TInv
<1> QED BY <1>2, <1>3 DEF BuildPolicyEngine

LEMMA ReportTInv == ASSUME TInv, NEW p \in Proc, Report(p) PROVE TInv'
<1>1. Inside(p)
  BY DEF Report, Inside, TARBALL
<1>2. at[p] <= Len(command[p].paths)
  BY <1>1 DEF TInv, PathsCounted
<1>3. Cleans(p) /\ LeavePath(p, [error |-> "none", issues |-> FilteredIssues(p)])
  BY CleanLocalCacheCleans DEF Report
<1> QED BY <1>2, <1>3, CleansTInv

LEMMA ConcludeTInv == ASSUME TInv, NEW p \in Proc, Conclude(p) PROVE TInv'
<1>1. /\ pc[p] = "shim" /\ pc' = [pc EXCEPT ![p] = "done"] /\ verdict' = [verdict EXCEPT ![p] = VerdictOf(p)]
      /\ UNCHANGED <<dir, job, failures, disturbed, left, command, at, engines, results, scanFailures>>
  BY DEF Conclude
<1>2. pc' \in [Proc -> Pc] /\ JobsInOrder' /\ TornIsOpen'
  BY <1>1 DEF TInv, Pc, JobsInOrder, TornIsOpen, Writing, TARBALL
<1>3. CommandsKept' /\ PathsCounted'
  <2>1. \A q \in Proc : Inside(q)' => Inside(q)
    BY <1>1 DEF TInv, Inside
  <2> QED BY <1>1, <2>1 DEF TInv, CommandsKept, PathsCounted
<1>4. verdict' \in [Proc -> {None, "ok", "vulns", "error"}]
  BY <1>1 DEF VerdictOf, TInv
<1> QED BY <1>1, <1>2, <1>3, <1>4 DEF TInv

LEMMA KilledTInv == ASSUME TInv, NEW p \in Proc, Killed(p) PROVE TInv'
<1>1. /\ Inside(p) /\ Failing /\ left' = TRUE /\ pc' = [pc EXCEPT ![p] = "killed"] /\ job' = [job EXCEPT ![p] = NoJob]
      /\ UNCHANGED <<dir, disturbed, runVars>>
  BY DEF Killed, Inside, TARBALL
<1>2. NoJob \in Job /\ NoJob.open = "no" /\ "killed" \in Pc
  BY DEF NoJob, Job, Pc
<1>3. pc' \in [Proc -> Pc] /\ job' \in [Proc -> Job] /\ JobsInOrder'
  BY <1>1, <1>2, JobsStayInOrder
<1>4. CommandsKept' /\ PathsCounted'
  BY <1>1, CommandsStay, PathsStay DEF TInv, runVars
<1>5. failures' \in 0..MaxFailures
  BY <1>1, IacAssumption DEF TInv, IacAssumption, Failing
<1>6. left' \in BOOLEAN /\ TornIsOpen'
  BY <1>1, Zenon DEF TornIsOpen
<1> QED BY <1>1, <1>3, <1>4, <1>5, <1>6 DEF TInv, runVars

LEMMA NextTInv == TInv /\ PhaseIsAsked /\ [Next]_vars => TInv'
<1> SUFFICES ASSUME TInv, PhaseIsAsked, [Next]_vars PROVE TInv'
  OBVIOUS
<1>1. CASE UNCHANGED vars
  BY <1>1 DEF vars, runVars, TInv, CommandsKept, PathsCounted, JobsInOrder, TornIsOpen, Inside
<1>2. ASSUME NEW p \in Proc, CacheStep(p) PROVE TInv'
  <2>1. CASE PullFails(p)
    BY <2>1, FailAndCleanTInv DEF PullFails, Inside, TARBALL
  <2>2. CASE ExtractFails(p)
    BY <2>2, FailAndCleanTInv DEF ExtractFails, Inside, TARBALL
  <2>3. CASE Unreadable(p)
    BY <2>3, ThrowTInv DEF Unreadable, Inside, TARBALL
  <2> QED BY <1>2, <2>1, <2>2, <2>3, PullTInv, PulledTInv, OpenEntryTInv, CloseEntryTInv, ExtractedTInv DEF CacheStep
<1>3. ASSUME NEW p \in Proc, SettingsFail(p) \/ ScanFails(p) PROVE TInv'
  BY <1>3, FailAndCleanTInv DEF SettingsFail, ScanFails, Inside, TARBALL
<1> QED BY <1>1, <1>2, <1>3, ShimFailsTInv, ShimTInv, SettingsTInv, LoadTInv, BuildPolicyEngineTInv, ReportTInv,
           ConcludeTInv, KilledTInv DEF Next, Step

LEMMA TInvAlways == Spec => []TInv
BY InitTInv, NextTInv, PhaseIsAskedAlways, PTL DEF Spec

(* IacCache.tla, IacTest.tla: the type invariant, with what is torn.       *)
THEOREM IacTypes == Spec => []TypeOK
<1>1. TInv => TypeOK
  <2> SUFFICES ASSUME TInv PROVE TypeOK
    OBVIOUS
  <2>1. ASSUME NEW p \in Proc
        PROVE  /\ pc[p] \in {"shim", "settings", "pull", TARBALL, "custom", "snyk", "load", "scan", "done", "killed"}
               /\ at[p] = Len(results[p]) + 1 /\ at[p] <= Len(command[p].paths) + 1
               /\ job[p].open \in {"no", "open", "lost"} /\ (job[p].open # "no" => job[p].entries # <<>>)
               /\ ToSet(job[p].entries) \subseteq Slot
               /\ job[p] # NoJob => pc[p] \in {TARBALL, "custom", "snyk"}
               /\ \A e \in Engine : engines[p][e] \in DOMAIN Bundles \cup {None}
               /\ verdict[p] \in {None, "ok", "vulns", "error"}
    <3>1. pc[p] \in Pc /\ at[p] = Len(results[p]) + 1 /\ at[p] <= Len(command[p].paths) + 1
      BY DEF TInv, PathsCounted
    <3>2. job[p] \in Job /\ (job[p].open # "no" => job[p].entries # <<>>) /\ (pc[p] \notin Writing => job[p] = NoJob)
      BY DEF TInv, JobsInOrder
    <3>3. ToSet(job[p].entries) \subseteq Slot
      BY <3>2 DEF ToSet, Job
    <3>4. /\ \A e \in Engine : engines[p][e] \in DOMAIN Bundles \cup {None}
          /\ verdict[p] \in {None, "ok", "vulns", "error"}
      BY DEF TInv
    <3> QED BY <3>1, <3>2, <3>3, <3>4 DEF Pc, Job, Writing
  <2>2. dir.exists \in BOOLEAN /\ \A s \in Slot : dir.slots[s] \in Content /\ (~dir.exists => dir.slots[s] = None)
    BY DEF TInv, NoDir
  <2>3. \A s \in Slot : dir.slots[s] = Torn => left \/ \E p \in Proc : job[p].open = "open" /\ Head(job[p].entries) = s
    BY DEF TInv, TornIsOpen
  <2>4. failures \in 0..MaxFailures /\ disturbed \subseteq Proc /\ left \in BOOLEAN
    BY DEF TInv
  <2> QED BY <2>1, <2>2, <2>3, <2>4 DEF TypeOK
<1> QED BY <1>1, TInvAlways, PTL
-----------------------------------------------------------------------------
(* Somebody inside of test() will remove the directory.                    *)
SomebodyRemoves == dir.exists /\ ~left => \E p \in Proc : Inside(p)

(* Who ends a path has removed the directory or could not.                 *)
LEMMA CleansRemoves == ASSUME NEW p, Cleans(p) PROVE SomebodyRemoves'
BY DEF Cleans, SomebodyRemoves, NoDir

LEMMA ThrowRemoves ==
  ASSUME TInv, NEW p \in Proc, NEW reason, NEW there, ThrowFrom(p, reason, there) \/ FailAndClean(p, reason)
  PROVE  SomebodyRemoves'
<1>1. Cleans(p)
  BY CleanLocalCacheCleans, FailingCleans DEF ThrowFrom, FailAndClean
<1> QED BY <1>1, CleansRemoves

(* A step that neither ends a path nor opens one: it stays inside.         *)
LEMMA StaysInside ==
  ASSUME TInv, NEW p \in Proc, NEW s \in {"settings", "pull", TARBALL, "custom", "snyk", "load", "scan"},
         pc' = [pc EXCEPT ![p] = s]
  PROVE  SomebodyRemoves'
<1>1. Inside(p)'
  BY DEF TInv, Inside, TARBALL
<1> QED BY <1>1 DEF SomebodyRemoves

LEMMA InitLocalCacheRemoves == ASSUME TInv, NEW p \in Proc, InitLocalCache(p) PROVE SomebodyRemoves'
<1>1. CASE ThrowFrom(p, "rules", TRUE)
  BY <1>1, ThrowRemoves
<1>2. CASE Extract(p, Phases(p)[1])
  <2>1. Phases(p)[1] \in {"custom", "snyk"}
    BY DEF Phases
  <2>2. pc' = [pc EXCEPT ![p] = Phases(p)[1]]
    BY <1>2 DEF Extract
  <2> QED BY <2>1, <2>2, StaysInside
<1> QED BY <1>1, <1>2 DEF InitLocalCache

LEMMA CacheStepRemoves == ASSUME TInv, PhaseIsAsked, NEW p \in Proc, CacheStep(p) PROVE SomebodyRemoves'
<1>1. CASE PullFails(p) \/ ExtractFails(p) \/ Unreadable(p)
  BY <1>1, ThrowRemoves DEF PullFails, ExtractFails, Unreadable
<1>2. CASE Pull(p)
  BY <1>2, StaysInside DEF Pull
<1>3. CASE Pulled(p)
  BY <1>3, InitLocalCacheRemoves DEF Pulled
<1>4. CASE OpenEntry(p) \/ CloseEntry(p)
  <2>1. CASE Throw(p, "write")
    BY <2>1, ThrowRemoves
  <2>2. CASE UNCHANGED pc
    <3>1. Inside(p)
      BY <1>4, EntriesTyped DEF OpenEntry, CloseEntry, TInv, JobsInOrder
    <3>2. Inside(p)'
      BY <2>2, <3>1 DEF Inside
    <3> QED BY <3>2 DEF SomebodyRemoves
  <2> QED BY <1>4, <2>1, <2>2 DEF OpenEntry, CloseEntry
<1>5. CASE Extracted(p)
  <2>1. CASE Throw(p, "rules")
    BY <2>1, ThrowRemoves
  <2>2. CASE pc' = [pc EXCEPT ![p] = "load"]
    BY <2>2, StaysInside
  <2>3. CASE pc[p] # Last(Phases(p)) /\ Extract(p, Phases(p)[2])
    <3>1. Phases(p)[2] = "snyk"
      BY <1>5, <2>3, AskedPhases
    <3>2. pc' = [pc EXCEPT ![p] = "snyk"]
      BY <2>3, <3>1 DEF Extract
    <3> QED BY <3>2, StaysInside
  <2> QED BY <1>5, <2>1, <2>2, <2>3 DEF Extracted
<1> QED BY <1>1, <1>2, <1>3, <1>4, <1>5 DEF CacheStep

LEMMA StepRemoves ==
  ASSUME TInv, PhaseIsAsked, SomebodyRemoves, NEW p \in Proc, Step(p) \/ Killed(p) PROVE SomebodyRemoves'
<1>1. CASE ShimFails(p) \/ Conclude(p)
  <2>1. UNCHANGED <<dir, left>> /\ \A q \in Proc : Inside(q) => Inside(q)'
    BY <1>1 DEF ShimFails, Conclude, LeavePath, TInv, Inside
  <2> QED BY <2>1 DEF SomebodyRemoves
<1>2. CASE Killed(p)
  BY <1>2 DEF Killed, SomebodyRemoves
<1>3. CASE Shim(p)
  BY <1>3, StaysInside DEF Shim
<1>4. CASE Report(p)
  BY <1>4, CleanLocalCacheCleans, CleansRemoves DEF Report
<1>5. CASE SettingsFail(p) \/ ScanFails(p)
  BY <1>5, ThrowRemoves DEF SettingsFail, ScanFails
<1>6. CASE Settings(p)
  <2>1. Throw(p, "settings") \/ InitLocalCache(p) \/ pc' = [pc EXCEPT ![p] = "pull"]
    BY <1>6 DEF Settings
  <2> QED BY <2>1, ThrowRemoves, InitLocalCacheRemoves, StaysInside
<1>7. CASE Load(p)
  <2>1. (\E reason : Throw(p, reason)) \/ pc' = [pc EXCEPT ![p] = "scan"]
    BY <1>7 DEF Load
  <2> QED BY <2>1, ThrowRemoves, StaysInside
<1>8. CASE BuildPolicyEngine(p)
  <2>1. CASE Throw(p, "engine")
    BY <2>1, ThrowRemoves
  <2>2. CASE UNCHANGED pc
    <3>1. Inside(p)'
      BY <1>8, <2>2 DEF BuildPolicyEngine, Inside, TARBALL
    <3> QED BY <3>1 DEF SomebodyRemoves
  <2> QED BY <1>8, <2>1, <2>2 DEF BuildPolicyEngine
<1> QED BY <1>1, <1>2, <1>3, <1>4, <1>5, <1>6, <1>7, <1>8, CacheStepRemoves DEF Step

(* index.ts:150: however many runs there are, however their paths end and  *)
(* interleave, when none is inside of test() the directory is gone.        *)
THEOREM CacheRemoved == Spec => []CacheIsRemoved
<1>1. Init => SomebodyRemoves
  BY DEF Init, SomebodyRemoves, NoDir
<1>2. TInv /\ PhaseIsAsked /\ SomebodyRemoves /\ [Next]_vars => SomebodyRemoves'
  <2> SUFFICES ASSUME TInv, PhaseIsAsked, SomebodyRemoves, [Next]_vars PROVE SomebodyRemoves'
    OBVIOUS
  <2>1. CASE UNCHANGED vars
    BY <2>1 DEF vars, SomebodyRemoves, Inside
  <2> QED BY <2>1, StepRemoves DEF Next
<1>3. SomebodyRemoves => CacheIsRemoved
  BY DEF SomebodyRemoves, CacheIsRemoved
<1> QED BY <1>1, <1>2, <1>3, TInvAlways, PhaseIsAskedAlways, PTL DEF Spec
-----------------------------------------------------------------------------
(* What a run that was always alone in the directory finds there, phase by *)
(* phase.  Nothing yet; the artefact it pulls; of the custom rules only    *)
(* files Snyk's rules will overwrite, and those of "custom"; all of these  *)
(* until they are overwritten; Snyk's rules and the custom ones.           *)
PullsOwn(p) ==
  /\ command[p].registry # None
  /\ job[p].bundle = command[p].registry /\ job[p].entries \in {<<TARBALL>>, <<>>}
  /\ job[p].entries = <<>> => dir.slots[TARBALL] = command[p].registry
  /\ \A e \in Engine : dir.slots[e] = None

ExtractsCustom(p) ==
  /\ Source(p) \in DOMAIN Bundles
  /\ job[p].bundle = Source(p) /\ ToSet(job[p].entries) \subseteq ToSet(Bundles[Source(p)].entries)
  /\ \A e \in Engine :
       /\ dir.slots[e] \in {None, Source(p), Torn}
       /\ dir.slots[e] # None => e \in ToSet(Bundles[Source(p)].entries)
       /\ dir.slots[e] = Torn => job[p].open = "open" /\ Head(job[p].entries) = e

CustomIsOwn(p) == dir.slots["custom"] \in {None, Source(p)} \ {Torn}

ExtractsSnyks(p) ==
  /\ job[p].bundle = "snyk" /\ ToSet(job[p].entries) \subseteq ToSet(Bundles["snyk"].entries)
  /\ CustomIsOwn(p)
  /\ \A e \in Engine \ {"custom"} : dir.slots[e] \notin {None, "snyk"} => e \in ToSet(job[p].entries)

HoldsOwn(p) == CustomIsOwn(p) /\ \A e \in Engine \ {"custom"} : dir.slots[e] \in {None, "snyk"}

IsAlone(p) ==
  /\ \A q \in Proc \ {p} : ~Inside(q)
  /\ pc[p] \in {"settings", "pull"} => dir = NoDir
  /\ pc[p] = "pull" => command[p].registry # None
  /\ pc[p] \in Writing => dir.exists /\ job[p].open # "lost"
  /\ pc[p] = TARBALL => PullsOwn(p)
  /\ pc[p] = "custom" => ExtractsCustom(p)
  /\ pc[p] = "snyk" => ExtractsSnyks(p)
  /\ pc[p] \in {"load", "scan"} => HoldsOwn(p)

OwnInv == \A p \in Proc \ disturbed : OwnRules(p) /\ (Inside(p) => IsAlone(p))

(* The directory and the job of a process that is alone in it; what a      *)
(* sequence contains before and after its first element.                   *)
LEMMA HeadAndTail ==
  ASSUME NEW S, NEW s \in Seq(S), s # <<>> PROVE ToSet(s) = {Head(s)} \cup ToSet(Tail(s))
<1>1. Len(s) \in Nat \ {0} /\ Tail(s) \in Seq(S) /\ Len(Tail(s)) = Len(s) - 1 /\ Head(s) = s[1]
      /\ \A i \in 1..Len(Tail(s)) : Tail(s)[i] = s[i + 1]
  BY HeadTailProperties, EmptySeq
<1>2. \A x \in ToSet(s) : x = Head(s) \/ x \in ToSet(Tail(s))
  <2> SUFFICES ASSUME NEW i \in 1..Len(s), i # 1 PROVE s[i] \in ToSet(Tail(s))
    BY <1>1 DEF ToSet
  <2>1. i - 1 \in 1..Len(Tail(s)) /\ Tail(s)[i - 1] = s[i]
    BY <1>1
  <2>2. PICK k \in 1..Len(Tail(s)) : Tail(s)[k] = s[i]
    BY <2>1
  <2>3. k \in DOMAIN Tail(s)
    BY <1>1, LenProperties
  <2> QED BY <2>2, <2>3 DEF ToSet
<1>3. \A x \in ToSet(Tail(s)) : x \in ToSet(s)
  <2> SUFFICES ASSUME NEW i \in 1..Len(Tail(s)) PROVE Tail(s)[i] \in ToSet(s)
    BY <1>1 DEF ToSet
  <2>1. i + 1 \in 1..Len(s) /\ Tail(s)[i] = s[i + 1]
    BY <1>1
  <2> QED BY <2>1 DEF ToSet
<1>4. Head(s) \in ToSet(s)
  BY <1>1 DEF ToSet
<1> QED BY <1>2, <1>3, <1>4

LEMMA NothingInEmpty == ToSet(<<>>) = {}
BY DEF ToSet

LEMMA OwnRulesStay ==
  ASSUME NEW p, OwnRules(p), UNCHANGED command, engines'[p] = engines[p] PROVE OwnRules(p)'
BY DEF OwnRules, Source

(* The others of a process that moves stay where they are, so it stays     *)
(* alone if what it finds in its phase is its own.                         *)
LEMMA OthersStayOutside ==
  ASSUME TInv, PhaseIsAsked, NEW p \in Proc, Step(p), \A q \in Proc \ {p} : ~Inside(q)
  PROVE  \A q \in Proc \ {p} : ~Inside(q)'
<1>1. Moves(p)
  BY StepMoves
<1>2. \A q \in Proc \ {p} : pc'[q] = pc[q]
  BY <1>1 DEF Moves, TInv
<1> QED BY <1>2 DEF Inside

(* What such a process does keeps its engines and its directory its own.   *)
OwnAfter(p) == OwnRules(p)' /\ (Inside(p)' => IsAlone(p)')

LEMMA LeavesOwn == ASSUME TInv, NEW p \in Proc, NEW r, OwnRules(p), LeavePath(p, r) PROVE OwnAfter(p)
<1>1. ~Inside(p)'
  BY DEF LeavePath, TInv, Inside
<1>2. OwnRules(p)'
  BY OwnRulesStay DEF LeavePath
<1> QED BY <1>1, <1>2 DEF OwnAfter

LEMMA ThrowOwn ==
  ASSUME TInv, NEW p \in Proc, NEW reason, NEW there, OwnRules(p), ThrowFrom(p, reason, there) \/ FailAndClean(p, reason)
  PROVE  OwnAfter(p)
BY LeavesOwn DEF ThrowFrom, FailAndClean

(* Snyk's rules, and what custom bundles have beside them.                 *)
LEMMA BundlesEntries ==
  /\ "snyk" \in DOMAIN Bundles
  /\ "custom" \in Engine /\ "custom" \notin ToSet(Bundles["snyk"].entries)
  /\ \A b \in DOMAIN Bundles : /\ ToSet(Bundles[b].entries) \subseteq ToSet(Bundles["snyk"].entries) \cup {"custom"}
                               /\ b # None /\ b # Torn
BY IacAssumption DEF IacAssumption, Engine

(* initLocalCache, of a process that finds what its bundle is and nothing  *)
(* else.                                                                   *)
LEMMA InitLocalCacheOwn ==
  ASSUME TInv, NEW p \in Proc, OwnRules(p), InitLocalCache(p), \A q \in Proc \ {p} : ~Inside(q)',
         \A e \in Engine : dir.slots[e] = None, Custom(p) => CustomRules(p) = Source(p)
  PROVE  OwnAfter(p)
<1>1. CASE ThrowFrom(p, "rules", TRUE)
  BY <1>1, ThrowOwn
<1>2. CASE /\ ~(Custom(p) /\ CustomRules(p) \notin DOMAIN Bundles)
           /\ Extract(p, Phases(p)[1]) /\ dir' = Created(dir) /\ UNCHANGED <<failures, left, disturbed, runVars>>
  <2>1. OwnRules(p)' /\ Source(p)' = Source(p)
    BY <1>2, OwnRulesStay DEF runVars, Source
  <2>2. dir'.exists /\ dir'.slots = dir.slots
    BY <1>2 DEF Created, TInv
  <2>3. CASE Custom(p)
    <3>1. Phases(p)[1] = "custom" /\ Source(p) \in DOMAIN Bundles
      BY <1>2, <2>3 DEF Phases
    <3>2. pc'[p] = "custom" /\ job'[p] = Write(Source(p), Bundles[Source(p)].entries)
      BY <1>2, <2>3, <3>1 DEF Extract, TInv
    <3>3. ExtractsCustom(p)'
      <4>1. job'[p].bundle = Source(p) /\ job'[p].entries = Bundles[Source(p)].entries
        BY <3>2 DEF Write
      <4>2. \A e \in Engine : dir'.slots[e] = None
        BY <2>2
      <4> QED BY <2>1, <3>1, <4>1, <4>2, BundlesAreThere DEF ExtractsCustom
    <3> QED BY <2>1, <2>2, <3>2, <3>3 DEF OwnAfter, IsAlone, Write, TARBALL
  <2>4. CASE ~Custom(p)
    <3>1. Phases(p)[1] = "snyk"
      BY <2>4 DEF Phases
    <3>2. pc'[p] = "snyk" /\ job'[p] = Write("snyk", Bundles["snyk"].entries)
      BY <1>2, <3>1 DEF Extract, TInv
    <3>3. CustomIsOwn(p)'
      BY <2>1, <2>2, BundlesEntries, IacAssumption DEF CustomIsOwn, IacAssumption
    <3>4. ExtractsSnyks(p)'
      BY <2>2, <3>2, <3>3 DEF ExtractsSnyks, Write
    <3> QED BY <2>1, <2>2, <3>2, <3>4 DEF OwnAfter, IsAlone, Write, TARBALL
  <2> QED BY <2>3, <2>4
<1> QED BY <1>1, <1>2 DEF InitLocalCache

LEMMA SettingsOwn ==
  ASSUME TInv, PhaseIsAsked, NEW p \in Proc, OwnRules(p), IsAlone(p), Settings(p) PROVE OwnAfter(p)
<1>1. \A q \in Proc \ {p} : ~Inside(q)'
  BY OthersStayOutside DEF IsAlone, Step
<1>2. dir = NoDir /\ pc[p] = "settings"
  BY DEF IsAlone, Settings
<1>3. CASE Throw(p, "settings")
  BY <1>3, ThrowOwn
<1>4. CASE /\ command[p].registry # None /\ pc' = [pc EXCEPT ![p] = "pull"]
           /\ UNCHANGED <<dir, job, failures, left, disturbed, runVars>>
  <2>1. OwnRules(p)' /\ pc'[p] = "pull" /\ dir' = NoDir /\ command'[p].registry # None
    BY <1>2, <1>4, OwnRulesStay DEF runVars, TInv
  <2> QED BY <1>1, <2>1 DEF OwnAfter, IsAlone, Writing, TARBALL
<1>5. CASE command[p].registry = None /\ InitLocalCache(p)
  <2>1. CustomRules(p) = Source(p)
    BY <1>5 DEF CustomRules, Source
  <2>2. \A e \in Engine : dir.slots[e] = None
    BY <1>2 DEF NoDir, Slot
  <2> QED BY <1>1, <1>5, <2>1, <2>2, InitLocalCacheOwn
<1> QED BY <1>3, <1>4, <1>5 DEF Settings

LEMMA PullOwn ==
  ASSUME TInv, PhaseIsAsked, NEW p \in Proc, OwnRules(p), IsAlone(p), Pull(p) PROVE OwnAfter(p)
<1>1. \A q \in Proc \ {p} : ~Inside(q)'
  BY OthersStayOutside DEF IsAlone, Step, CacheStep
<1>2. dir = NoDir /\ command[p].registry # None
  BY DEF IsAlone, Pull
<1>3. OwnRules(p)' /\ command' = command
  BY OwnRulesStay DEF Pull, runVars
<1>4. pc'[p] = TARBALL /\ job'[p] = Write(command[p].registry, <<TARBALL>>) /\ dir' = Created(dir)
  BY DEF Pull, TInv
<1>5. dir'.exists /\ dir'.slots = NoDir.slots
  BY <1>2, <1>4 DEF Created, NoDir
<1>6. PullsOwn(p)'
  BY <1>2, <1>3, <1>4, <1>5 DEF PullsOwn, Write, NoDir, Slot
<1> QED BY <1>1, <1>3, <1>4, <1>5, <1>6 DEF OwnAfter, IsAlone, Write, TARBALL

LEMMA PulledOwn ==
  ASSUME TInv, PhaseIsAsked, NEW p \in Proc, OwnRules(p), IsAlone(p), Pulled(p) PROVE OwnAfter(p)
<1>1. \A q \in Proc \ {p} : ~Inside(q)'
  BY OthersStayOutside DEF IsAlone, Step, CacheStep
<1>2. PullsOwn(p) /\ job[p].entries = <<>> /\ InitLocalCache(p)
  BY DEF IsAlone, Pulled
<1>3. CustomRules(p) = Source(p)
  BY <1>2 DEF PullsOwn, CustomRules, Source
<1> QED BY <1>1, <1>2, <1>3, InitLocalCacheOwn DEF PullsOwn

(* tar opens a file...                                                     *)
LEMMA OpenEntryOwn ==
  ASSUME TInv, PhaseIsAsked, NEW p \in Proc, OwnRules(p), IsAlone(p), OpenEntry(p) PROVE OwnAfter(p)
<1> DEFINE h == Head(job[p].entries)
<1>1. \A q \in Proc \ {p} : ~Inside(q)'
  BY OthersStayOutside DEF IsAlone, Step, CacheStep
<1>2. /\ job[p].entries # <<>> /\ job[p].open = "no" /\ job[p] \in Job /\ h \in Slot /\ pc[p] \in Writing /\ dir.exists
      /\ h \in ToSet(job[p].entries)
  <2>1. job[p].entries # <<>> /\ job[p].open = "no" /\ job[p] \in Job /\ h \in Slot /\ pc[p] \in Writing
    BY EntriesTyped DEF OpenEntry, TInv
  <2>2. h \in ToSet(job[p].entries)
    BY <2>1, HeadAndTail DEF Job
  <2> QED BY <2>1, <2>2 DEF IsAlone
<1>3. /\ dir' = [dir EXCEPT !.slots[h] = Torn] /\ job' = [job EXCEPT ![p].open = "open"]
      /\ UNCHANGED <<pc, failures, left, disturbed, runVars>>
  BY <1>2 DEF OpenEntry
<1>4. OwnRules(p)' /\ command' = command /\ pc' = pc
  BY <1>3, OwnRulesStay DEF runVars
<1>5. job'[p].bundle = job[p].bundle /\ job'[p].entries = job[p].entries /\ job'[p].open = "open"
  BY <1>2, <1>3 DEF TInv, Job
<1>6. dir'.exists /\ \A s \in Slot : dir'.slots[s] = IF s = h THEN Torn ELSE dir.slots[s]
  BY <1>2, <1>3 DEF TInv
<1> HIDE DEF h
<1>7. CASE pc[p] = TARBALL
  <2>1. PullsOwn(p) /\ h = TARBALL
    BY <1>2, <1>7 DEF IsAlone, PullsOwn, h
  <2>2. TARBALL \notin Engine
    BY DEF TARBALL, Engine, Plain
  <2>3. PullsOwn(p)'
    BY <1>2, <1>4, <1>5, <1>6, <2>1, <2>2 DEF PullsOwn, Slot
  <2> QED BY <1>1, <1>4, <1>5, <1>6, <1>7, <2>3 DEF OwnAfter, IsAlone, TARBALL
<1>8. CASE pc[p] = "custom"
  <2>1. ExtractsCustom(p) /\ Source(p)' = Source(p)
    BY <1>4, <1>8 DEF IsAlone, Source
  <2>2. h \in ToSet(Bundles[Source(p)].entries) /\ \A e \in Engine : dir.slots[e] # Torn
    BY <1>2, <2>1 DEF ExtractsCustom
  <2>3. \A e \in Engine : dir'.slots[e] = IF e = h THEN Torn ELSE dir.slots[e]
    BY <1>6 DEF Slot
  <2>4. \A e \in Engine : dir'.slots[e] = Torn => job'[p].open = "open" /\ Head(job'[p].entries) = e
    BY <1>5, <2>2, <2>3 DEF h
  <2>5. ExtractsCustom(p)'
    BY <1>5, <2>1, <2>2, <2>3, <2>4 DEF ExtractsCustom
  <2> QED BY <1>1, <1>4, <1>5, <1>6, <1>8, <2>5 DEF OwnAfter, IsAlone, TARBALL
<1>9. CASE pc[p] = "snyk"
  <2>1. ExtractsSnyks(p) /\ Source(p)' = Source(p)
    BY <1>4, <1>9 DEF IsAlone, Source
  <2>2. h \in ToSet(Bundles["snyk"].entries) /\ h # "custom"
    BY <1>2, <2>1, BundlesEntries DEF ExtractsSnyks
  <2>3. \A e \in Engine : dir'.slots[e] = IF e = h THEN Torn ELSE dir.slots[e]
    BY <1>6 DEF Slot
  <2>4. CustomIsOwn(p)'
    BY <2>1, <2>2, <2>3, BundlesEntries DEF ExtractsSnyks, CustomIsOwn
  <2>5. ExtractsSnyks(p)'
    BY <1>2, <1>5, <2>1, <2>3, <2>4 DEF ExtractsSnyks
  <2> QED BY <1>1, <1>4, <1>5, <1>6, <1>9, <2>5 DEF OwnAfter, IsAlone, TARBALL
<1> QED BY <1>2, <1>7, <1>8, <1>9 DEF Writing

(* ...and has written it.                                                  *)
LEMMA CloseEntryOwn ==
  ASSUME TInv, PhaseIsAsked, NEW p \in Proc, OwnRules(p), IsAlone(p), CloseEntry(p) PROVE OwnAfter(p)
<1> DEFINE h == Head(job[p].entries)
<1>1. \A q \in Proc \ {p} : ~Inside(q)'
  BY OthersStayOutside DEF IsAlone, Step, CacheStep
<1>2. /\ job[p].entries # <<>> /\ job[p].open = "open" /\ job[p] \in Job /\ h \in Slot /\ pc[p] \in Writing /\ dir.exists
      /\ job[p].bundle # Torn
  <2>1. job[p].open # "no" /\ job[p].entries # <<>> /\ job[p] \in Job /\ h \in Slot /\ pc[p] \in Writing
    BY EntriesTyped DEF CloseEntry, TInv, JobsInOrder
  <2>2. job[p].open # "lost" /\ dir.exists
    BY <2>1 DEF IsAlone
  <2>3. job[p].open = "open" /\ job[p].bundle # Torn
    BY <2>1, <2>2, BundlesAreThere DEF Job
  <2> QED BY <2>1, <2>2, <2>3
<1>3. /\ dir' = [dir EXCEPT !.slots[h] = job[p].bundle] /\ UNCHANGED <<pc, failures, left, disturbed, runVars>>
      /\ job' = [job EXCEPT ![p].open = "no", ![p].entries = Tail(@)]
  BY <1>2 DEF CloseEntry
<1>4. OwnRules(p)' /\ command' = command /\ pc' = pc
  BY <1>3, OwnRulesStay DEF runVars
<1>5. job'[p].bundle = job[p].bundle /\ job'[p].entries = Tail(job[p].entries) /\ job'[p].open = "no"
  BY <1>2, <1>3 DEF TInv, Job
<1>6. dir'.exists /\ \A s \in Slot : dir'.slots[s] = IF s = h THEN job[p].bundle ELSE dir.slots[s]
  BY <1>2, <1>3 DEF TInv
<1>7. ToSet(job[p].entries) = {h} \cup ToSet(job'[p].entries)
  BY <1>2, <1>5, HeadAndTail DEF Job
<1>8. CASE pc[p] = TARBALL
  <2>1. PullsOwn(p) /\ h = TARBALL /\ job'[p].entries = <<>>
    <3>1. PullsOwn(p) /\ job[p].entries = <<TARBALL>>
      BY <1>2, <1>8 DEF IsAlone, PullsOwn
    <3>2. Head(<<TARBALL>>) = TARBALL /\ Tail(<<TARBALL>>) = <<>>
      OBVIOUS
    <3> QED BY <1>5, <3>1, <3>2
  <2> HIDE DEF h
  <2>2. TARBALL \notin Engine /\ TARBALL \in Slot
    BY DEF TARBALL, Engine, Plain, Slot
  <2>3. PullsOwn(p)'
    BY <1>4, <1>5, <1>6, <2>1, <2>2 DEF PullsOwn, Slot
  <2> QED BY <1>1, <1>4, <1>5, <1>6, <1>8, <2>3 DEF OwnAfter, IsAlone, TARBALL
<1>9. CASE pc[p] = "custom"
  <2>1. ExtractsCustom(p) /\ Source(p)' = Source(p)
    BY <1>4, <1>9 DEF IsAlone, Source
  <2>2. \A e \in Engine : dir.slots[e] = Torn => e = h
    BY <2>1 DEF ExtractsCustom
  <2> HIDE DEF h
  <2>3. \A e \in Engine : dir'.slots[e] = IF e = h THEN Source(p) ELSE dir.slots[e]
    BY <1>6, <2>1 DEF Slot, ExtractsCustom
  <2>4. h \in ToSet(Bundles[Source(p)].entries)
    BY <1>7, <2>1 DEF ExtractsCustom
  <2>5. \A e \in Engine : dir'.slots[e] # Torn
    BY <1>2, <2>1, <2>2, <2>3 DEF ExtractsCustom
  <2>6. ExtractsCustom(p)'
    BY <1>5, <1>7, <2>1, <2>3, <2>4, <2>5 DEF ExtractsCustom
  <2> QED BY <1>1, <1>4, <1>5, <1>6, <1>9, <2>6 DEF OwnAfter, IsAlone, TARBALL
<1>10. CASE pc[p] = "snyk"
  <2> HIDE DEF h
  <2>1. ExtractsSnyks(p) /\ Source(p)' = Source(p)
    BY <1>4, <1>10 DEF IsAlone, Source
  <2>2. h # "custom"
    BY <1>7, <2>1, BundlesEntries DEF ExtractsSnyks
  <2>3. \A e \in Engine : dir'.slots[e] = IF e = h THEN "snyk" ELSE dir.slots[e]
    BY <1>6, <2>1 DEF Slot, ExtractsSnyks
  <2>4. CustomIsOwn(p)'
    BY <2>1, <2>2, <2>3, BundlesEntries DEF ExtractsSnyks, CustomIsOwn
  <2>5. ExtractsSnyks(p)'
    BY <1>5, <1>7, <2>1, <2>3, <2>4 DEF ExtractsSnyks
  <2> QED BY <1>1, <1>4, <1>5, <1>6, <1>10, <2>5 DEF OwnAfter, IsAlone, TARBALL
<1> QED BY <1>2, <1>8, <1>9, <1>10 DEF Writing

LEMMA ExtractedOwn ==
  ASSUME TInv, PhaseIsAsked, NEW p \in Proc, OwnRules(p), IsAlone(p), Extracted(p) PROVE OwnAfter(p)
<1>1. \A q \in Proc \ {p} : ~Inside(q)'
  BY OthersStayOutside DEF IsAlone, Step, CacheStep
<1>2. pc[p] \in {"custom", "snyk"} /\ job[p].entries = <<>> /\ job[p].open = "no" /\ dir.exists
  BY DEF Extracted, TInv, JobsInOrder, IsAlone, Writing
<1>3. CASE Throw(p, "rules")
  BY <1>3, ThrowOwn
<1>4. CASE /\ pc[p] = Last(Phases(p)) /\ pc' = [pc EXCEPT ![p] = "load"] /\ UNCHANGED <<dir, runVars>>
  <2>1. pc[p] = "snyk"
    BY <1>4 DEF Phases, Last
  <2>2. OwnRules(p)' /\ command' = command /\ pc'[p] = "load" /\ dir' = dir
    BY <1>4, OwnRulesStay DEF runVars, TInv
  <2>3. HoldsOwn(p)
    BY <1>2, <2>1, NothingInEmpty DEF IsAlone, ExtractsSnyks, HoldsOwn
  <2>4. HoldsOwn(p)'
    BY <2>2, <2>3 DEF HoldsOwn, CustomIsOwn, Source
  <2> QED BY <1>1, <2>2, <2>4 DEF OwnAfter, IsAlone, Writing, TARBALL
<1>5. CASE pc[p] # Last(Phases(p)) /\ Extract(p, Phases(p)[2]) /\ UNCHANGED <<dir, runVars>>
  <2>1. Phases(p)[2] = "snyk" /\ Phases(p) = <<"custom", "snyk">>
    BY <1>5, AskedPhases
  <2>2. pc[p] = "custom"
    BY <1>2, <1>5, <2>1 DEF Last
  <2>3. /\ OwnRules(p)' /\ command' = command /\ pc'[p] = "snyk" /\ dir' = dir
        /\ job'[p] = Write("snyk", Bundles["snyk"].entries)
    BY <1>5, <2>1, OwnRulesStay DEF runVars, TInv, Extract
  <2>4. ExtractsCustom(p) /\ Source(p)' = Source(p)
    BY <2>2, <2>3 DEF IsAlone, Source
  <2>5. CustomIsOwn(p)'
    BY <1>2, <2>3, <2>4, BundlesEntries DEF ExtractsCustom, CustomIsOwn
  <2>6. \A e \in Engine \ {"custom"} : dir.slots[e] # None => e \in ToSet(Bundles["snyk"].entries)
    BY <2>4, BundlesEntries DEF ExtractsCustom
  <2>7. ExtractsSnyks(p)'
    BY <2>3, <2>5, <2>6 DEF ExtractsSnyks, Write
  <2> QED BY <1>1, <1>2, <2>3, <2>7 DEF OwnAfter, IsAlone, TARBALL, Write
<1> QED BY <1>3, <1>4, <1>5 DEF Extracted

LEMMA LoadOwn ==
  ASSUME TInv, PhaseIsAsked, NEW p \in Proc, OwnRules(p), IsAlone(p), Load(p) PROVE OwnAfter(p)
<1>1. \A q \in Proc \ {p} : ~Inside(q)'
  BY OthersStayOutside DEF IsAlone, Step
<1>2. CASE \E reason : Throw(p, reason)
  BY <1>2, ThrowOwn
<1>3. CASE pc' = [pc EXCEPT ![p] = "scan"] /\ UNCHANGED <<dir, runVars>>
  <2>1. OwnRules(p)' /\ command' = command /\ pc'[p] = "scan" /\ dir' = dir
    BY <1>3, OwnRulesStay DEF runVars, TInv
  <2>2. HoldsOwn(p)'
    BY <2>1 DEF IsAlone, Load, HoldsOwn, CustomIsOwn, Source
  <2> QED BY <1>1, <2>1, <2>2 DEF OwnAfter, IsAlone, Writing, TARBALL
<1> QED BY <1>2, <1>3 DEF Load

LEMMA BuildPolicyEngineOwn ==
  ASSUME TInv, PhaseIsAsked, NEW p \in Proc, OwnRules(p), IsAlone(p), BuildPolicyEngine(p) PROVE OwnAfter(p)
<1>1. \A q \in Proc \ {p} : ~Inside(q)'
  BY OthersStayOutside DEF IsAlone, Step
<1>2. CASE Throw(p, "engine")
  BY <1>2, ThrowOwn
<1>3. ASSUME NEW e \in Missing(p),
             \E b \in (IF dir.slots[e] = Torn THEN DOMAIN Bundles ELSE {dir.slots[e]} \ {None}) :
               /\ engines' = [engines EXCEPT ![p][e] = b]
               /\ UNCHANGED <<pc, dir, job, failures, left, disturbed, command, at, results, scanFailures, verdict>>
      PROVE  OwnAfter(p)
  <2>1. PICK b \in (IF dir.slots[e] = Torn THEN DOMAIN Bundles ELSE {dir.slots[e]} \ {None}) :
             /\ engines' = [engines EXCEPT ![p][e] = b]
             /\ UNCHANGED <<pc, dir, job, failures, left, disturbed, command, at, results, scanFailures, verdict>>
    BY <1>3
  <2>2. HoldsOwn(p) /\ pc[p] = "scan"
    BY DEF IsAlone, BuildPolicyEngine
  <2>3. HoldsOwn(p)' /\ pc'[p] = "scan" /\ Source(p)' = Source(p)
    BY <2>1, <2>2 DEF HoldsOwn, CustomIsOwn, Source
  <2>4. e \in Engine => b # None /\ b = IF e = "custom" THEN Source(p) ELSE "snyk"
    <3> SUFFICES ASSUME e \in Engine PROVE b # None /\ b = IF e = "custom" THEN Source(p) ELSE "snyk"
      OBVIOUS
    <3>1. CASE e = "custom"
      BY <2>1, <2>2, <3>1 DEF HoldsOwn, CustomIsOwn
    <3>2. CASE e \in Engine \ {"custom"}
      BY <2>1, <2>2, <3>2, BundlesAreThere DEF HoldsOwn
    <3> QED BY <3>1, <3>2
  <2>5. \A x \in Engine : engines'[p][x] = IF x = e THEN b ELSE engines[p][x]
    <3>1. engines[p] \in [Engine -> DOMAIN Bundles \cup {None}] /\ engines'[p] = [engines[p] EXCEPT ![e] = b]
      BY <2>1 DEF TInv
    <3> QED BY <3>1
  <2>6. OwnRules(p)'
    BY <2>3, <2>4, <2>5 DEF OwnRules
  <2> QED BY <1>1, <2>3, <2>6 DEF OwnAfter, IsAlone, Writing, TARBALL
<1> QED BY <1>2, <1>3 DEF BuildPolicyEngine

(* A process comes in that is not disturbed by that.                       *)
LEMMA ShimOwn ==
  ASSUME TInv, NEW p \in Proc, OwnRules(p), Shim(p), p \notin disturbed' PROVE OwnAfter(p)
<1>1. OwnRules(p)' /\ dir' = dir /\ pc' = [pc EXCEPT ![p] = "settings"]
  BY OwnRulesStay DEF Shim, runVars
<1>2. {q \in Proc : q # p /\ Inside(q)} = {} /\ ~dir.exists
  BY DEF Shim
<1>3. dir' = NoDir /\ pc'[p] = "settings" /\ \A q \in Proc \ {p} : ~Inside(q)'
  BY <1>1, <1>2 DEF TInv, Inside
<1> QED BY <1>1, <1>3 DEF OwnAfter, IsAlone, Writing, TARBALL

(* Everything it does then.                                                *)
LEMMA OwnStepOwn ==
  ASSUME TInv, PhaseIsAsked, NEW p \in Proc, OwnRules(p), Inside(p) => IsAlone(p),
         Step(p) \/ Killed(p), p \notin disturbed'
  PROVE  OwnAfter(p)
<1>1. CASE ShimFails(p) \/ Report(p)
  BY <1>1, LeavesOwn DEF ShimFails, Report
<1>2. CASE Conclude(p) \/ Killed(p)
  BY <1>2, OwnRulesStay DEF Conclude, Killed, runVars, TInv, Inside, OwnAfter
<1>3. CASE SettingsFail(p) \/ ScanFails(p) \/ PullFails(p) \/ ExtractFails(p) \/ Unreadable(p)
  BY <1>3, ThrowOwn DEF SettingsFail, ScanFails, PullFails, ExtractFails, Unreadable
<1>4. CASE Shim(p)
  BY <1>4, ShimOwn
<1>5. CASE Settings(p) \/ Pull(p) \/ Pulled(p) \/ Load(p) \/ BuildPolicyEngine(p) \/ Extracted(p)
  <2>1. IsAlone(p)
    BY <1>5 DEF Settings, Pull, Pulled, Load, BuildPolicyEngine, Extracted, Inside, TARBALL
  <2> QED BY <1>5, <2>1, SettingsOwn, PullOwn, PulledOwn, LoadOwn, BuildPolicyEngineOwn, ExtractedOwn
<1>6. CASE OpenEntry(p) \/ CloseEntry(p)
  <2>1. IsAlone(p)
    BY <1>6, EntriesTyped DEF OpenEntry, CloseEntry, TInv, JobsInOrder
  <2> QED BY <1>6, <2>1, OpenEntryOwn, CloseEntryOwn
<1> QED BY <1>1, <1>2, <1>3, <1>4, <1>5, <1>6 DEF Step, CacheStep

(* Of other processes it does not see anything: they stay outside.         *)
LEMMA EnginesOfOthers ==
  ASSUME TInv, NEW p \in Proc, NEW q \in Proc, q # p, Step(q) \/ Killed(q) PROVE engines'[p] = engines[p]
<1>1. CASE \E r : LeavePath(q, r)
  BY <1>1 DEF LeavePath
<1>2. CASE \E reason, there : ThrowFrom(q, reason, there) \/ FailAndClean(q, reason)
  BY <1>2 DEF ThrowFrom, FailAndClean, LeavePath
<1>3. CASE InitLocalCache(q)
  BY <1>2, <1>3 DEF InitLocalCache, runVars
<1>4. CASE CacheStep(q)
  BY <1>2, <1>3, <1>4 DEF CacheStep, Pull, Pulled, PullFails, OpenEntry, CloseEntry, ExtractFails, Unreadable, Extracted,
                           runVars
<1>5. CASE BuildPolicyEngine(q)
  BY <1>2, <1>5 DEF BuildPolicyEngine, TInv
<1>6. CASE ShimFails(q) \/ Report(q)
  BY <1>1, <1>6 DEF ShimFails, Report
<1>7. CASE Shim(q) \/ Settings(q) \/ SettingsFail(q) \/ Load(q) \/ ScanFails(q) \/ Conclude(q) \/ Killed(q)
  BY <1>2, <1>3, <1>7 DEF Shim, Settings, SettingsFail, Load, ScanFails, Conclude, Killed, runVars
<1> QED BY <1>4, <1>5, <1>6, <1>7 DEF Step

LEMMA OtherStepOwn ==
  ASSUME TInv, PhaseIsAsked, NEW p \in Proc, NEW q \in Proc, q # p, OwnRules(p), Inside(p) => IsAlone(p),
         Step(q) \/ Killed(q), p \notin disturbed'
  PROVE  OwnAfter(p)
<1>1. Moves(q)
  BY StepMoves
<1>2. pc'[p] = pc[p] /\ command' = command
  BY <1>1 DEF Moves, TInv
<1>3. OwnRules(p)'
  BY <1>2, EnginesOfOthers, OwnRulesStay
<1>4. CASE ~Inside(p)
  BY <1>2, <1>3, <1>4 DEF OwnAfter, Inside
<1>5. CASE Inside(p)
  <2>1. ~Inside(q) /\ IsAlone(p)
    BY <1>5 DEF IsAlone
  <2>2. ~Shim(q)
    BY <1>5 DEF Shim
  <2>3. ShimFails(q) \/ Conclude(q)
    <3>1. pc[q] \notin Writing /\ job[q].open = "no" /\ job[q].entries = <<>>
      BY <2>1 DEF Inside, TInv, JobsInOrder, NoJob, Writing, TARBALL
    <3> QED BY <2>1, <2>2, <3>1 DEF Step, CacheStep, Settings, SettingsFail, Load, BuildPolicyEngine, Report, ScanFails,
                                  Killed, Pull, Pulled, PullFails, OpenEntry, CloseEntry, ExtractFails, Unreadable,
                                  Extracted, Inside, TARBALL
  <2>4. UNCHANGED <<dir, job>> /\ \A x \in Proc : Inside(x)' => Inside(x)
    BY <2>3 DEF ShimFails, Conclude, LeavePath, TInv, Inside
  <2>5. IsAlone(p)'
    BY <1>2, <2>1, <2>4 DEF IsAlone, PullsOwn, ExtractsCustom, ExtractsSnyks, HoldsOwn, CustomIsOwn, Source
  <2> QED BY <1>3, <2>5 DEF OwnAfter
<1> QED BY <1>4, <1>5

LEMMA DisturbedStay == ASSUME NEW q \in Proc, Step(q) \/ Killed(q) PROVE disturbed \subseteq disturbed'
<1>1. CASE \E r : LeavePath(q, r)
  BY <1>1 DEF LeavePath
<1>2. CASE \E reason, there : ThrowFrom(q, reason, there) \/ FailAndClean(q, reason)
  BY <1>2 DEF ThrowFrom, FailAndClean, LeavePath
<1>3. CASE InitLocalCache(q)
  BY <1>2, <1>3 DEF InitLocalCache
<1>4. CASE CacheStep(q)
  BY <1>2, <1>3, <1>4 DEF CacheStep, Pull, Pulled, PullFails, OpenEntry, CloseEntry, ExtractFails, Unreadable, Extracted
<1>5. CASE ShimFails(q) \/ Report(q)
  BY <1>1, <1>5 DEF ShimFails, Report
<1>6. CASE Shim(q)
  BY <1>6 DEF Shim
<1>7. CASE Settings(q) \/ SettingsFail(q) \/ Load(q) \/ BuildPolicyEngine(q) \/ ScanFails(q) \/ Conclude(q) \/ Killed(q)
  BY <1>2, <1>3, <1>7 DEF Settings, SettingsFail, Load, BuildPolicyEngine, ScanFails, Conclude, Killed
<1> QED BY <1>4, <1>5, <1>6, <1>7 DEF Step

(* local-cache.ts:131: a run that was never in the directory together with *)
(* another, nor found it left behind, evaluates Snyk's rules and the       *)
(* custom ones it was asked for, whatever the bundles contain and failed.  *)
THEOREM OwnRulesEvaluated == Spec => []OwnRulesWhenAlone
<1>1. Init => OwnInv
  BY DEF Init, OwnInv, OwnRules, Inside
<1>2. TInv /\ PhaseIsAsked /\ OwnInv /\ [Next]_vars => OwnInv'
  <2> SUFFICES ASSUME TInv, PhaseIsAsked, OwnInv, [Next]_vars PROVE OwnInv'
    OBVIOUS
  <2>1. CASE UNCHANGED vars
    BY <2>1 DEF vars, runVars, OwnInv, OwnRules, Source, Inside, IsAlone, PullsOwn, ExtractsCustom, ExtractsSnyks,
               HoldsOwn, CustomIsOwn
  <2>2. CASE Next
    <3>1. PICK q \in Proc : Step(q) \/ Killed(q)
      BY <2>2 DEF Next
    <3>2. ASSUME NEW p \in Proc, p \notin disturbed' PROVE OwnAfter(p)
      <4>1. OwnRules(p) /\ (Inside(p) => IsAlone(p))
        BY <3>1, <3>2, DisturbedStay DEF OwnInv
      <4>2. CASE p = q
        BY <3>1, <3>2, <4>1, <4>2, OwnStepOwn
      <4>3. CASE p # q
        BY <3>1, <3>2, <4>1, <4>3, OtherStepOwn
      <4> QED BY <4>2, <4>3
    <3> QED BY <3>2 DEF OwnInv, OwnAfter
  <2> QED BY <2>1, <2>2
<1>3. OwnInv => OwnRulesWhenAlone
  BY DEF OwnInv, OwnRulesWhenAlone
<1> QED BY <1>1, <1>2, <1>3, TInvAlways, PhaseIsAskedAlways, PTL DEF Spec
=============================================================================
