---------------------------- MODULE PatchedDisk ----------------------------
(***************************************************************************)
(* What @snyk/protect promises about the files of node_modules, with the   *)
(* run, its loops and its two writes a file left out: a file is patched    *)
(* and marked in one step, a marked file is left alone until a fresh copy  *)
(* replaces it, and every mishap spoils at most one unmarked file.         *)
(***************************************************************************)
EXTENDS Naturals, Sequences

CONSTANTS Files, Diffs, MaxLosses

VARIABLES
  text,    \* the diffs a file has received
  broken,  \* files whose text was lost
  marked,  \* files that count as patched
  losses   \* mishaps so far

vars == <<text, broken, marked, losses>>

Init ==
  /\ text = [f \in Files |-> <<>>]
  /\ broken = {}
  /\ marked \in SUBSET Files
  /\ losses = 0

Patch(f, d) ==
  /\ f \notin marked \cup broken
  /\ text' = [text EXCEPT ![f] = Append(@, d)]
  /\ marked' = marked \cup {f}
  /\ UNCHANGED <<broken, losses>>

(* The mishap hit no file, emptied f, or struck once f was patched and before *)
(* it was marked.                                                             *)
Lose ==
  /\ losses < MaxLosses
  /\ losses' = losses + 1
  /\ \/ UNCHANGED <<text, broken>>
     \/ \E f \in Files \ (marked \cup broken) :
          \/ broken' = broken \cup {f} /\ UNCHANGED text
          \/ \E d \in Diffs : text' = [text EXCEPT ![f] = Append(@, d)] /\ UNCHANGED broken
  /\ UNCHANGED marked

Replace(fresh) ==
  /\ text' = [f \in Files |-> IF f \in fresh THEN <<>> ELSE text[f]]
  /\ broken' = broken \ fresh
  /\ marked' = marked \ fresh
  /\ UNCHANGED losses

Next ==
  \/ \E f \in Files, d \in Diffs : Patch(f, d)
  \/ Lose
  \/ \E fresh \in SUBSET Files : Replace(fresh)

Spec == Init /\ [][Next]_vars
=============================================================================
