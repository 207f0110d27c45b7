---------------------------- MODULE PatchString ----------------------------
(***************************************************************************)
(* patchString of @snyk/protect (packages/snyk-protect/src/lib/patch.ts):  *)
(* the loop that applies one diff to the lines of one file, one line of    *)
(* the diff a step.                                                        *)
(*                                                                         *)
(* A line is its text and whether it ends in a carriage return. Positions  *)
(* count from 1, where the code counts from 0.                             *)
(***************************************************************************)
EXTENDS Naturals, Sequences, FiniteSets, SequencesExt

CONSTANTS
  Texts,     \* the texts a line may have
  Blank,     \* the empty text, as after a final line break
  Ops,       \* the kinds of line the diffs contain
  MaxLines,  \* bound on the lines of a file before the last
  MaxHunk    \* bound on the lines of a diff

ASSUME LinesAssumption ==
  /\ Blank \notin Texts
  /\ Ops \subseteq {" ", "+", "-", "", "@"}
  /\ MaxLines \in Nat /\ MaxHunk \in Nat

VARIABLES
  original,    \* contentsToPatch.split('\n')
  start,       \* the line the first hunk header names, 0 if it names none
  hunk,        \* what follows that header
  patchLines,  \* the part of it the loop goes through
  next,        \* the line of patchLines that is next
  lines,       \* contentsToPatchLines
  lineToPatch, \* the line of the file the loop was last at
  outcome      \* "none", "patched" or "threw"

vars == <<original, start, hunk, patchLines, next, lines, lineToPatch, outcome>>

Line(t, cr) == [text |-> t, cr |-> cr]

(* Every line of a file ends alike, but the last has no line break.           *)
File(body, cr, last) == [n \in DOMAIN body |-> Line(body[n], cr)] \o <<Line(last, FALSE)>>
Files ==
  {File(body, cr, last) :
     body \in BoundedSeq(Texts, MaxLines), cr \in BOOLEAN, last \in Texts \cup {Blank}}

(* The lines of a diff: the first character and the text after it. A blank    *)
(* context line may have lost its first character; "@" is a hunk header.      *)
Kinds == ((Ops \ {"", "@"}) \X Texts) \cup ((Ops \cap {"", "@"}) \X {Blank})
Hunks ==
  {[n \in DOMAIN kinds |-> [op |-> kinds[n][1], text |-> kinds[n][2], cr |-> cr]] :
     kinds \in BoundedSeq(Kinds, MaxHunk) \ {<<>>}, cr \in BOOLEAN}

(* slice(3, length - 2): the last two lines of the download are dropped,      *)
(* whether or not as many lines follow the last line of the hunk.             *)
Slice(h, trailing) ==
  IF Len(h) + trailing < 2 THEN <<>> ELSE SubSeq(h, 1, Len(h) + trailing - 2)

(* parseInt(...) - 2, counting from 0: the loop starts by moving on.          *)
FirstLine(n) == IF n = 0 THEN 0 ELSE n - 1

Init ==
  /\ original \in Files /\ lines = original
  /\ start \in 0..MaxLines
  /\ hunk \in Hunks
  /\ \E trailing \in 0..2 : patchLines = Slice(hunk, trailing)
  /\ next = 1
  /\ lineToPatch = FirstLine(start)
  /\ outcome = "none"

At    == lineToPatch + 1
Patch == patchLines[next]

Looping == outcome = "none" /\ start # 0 /\ next <= Len(patchLines)

(* getNextLine: the line of the diff, ending as the current line does.        *)
NextLine == Line(Patch.text, Patch.cr \/ lines[At].cr)

Throw ==
  /\ outcome' = "threw"
  /\ UNCHANGED <<original, start, hunk, patchLines, next, lines, lineToPatch>>

Advance(newLines) ==
  /\ lines' = newLines
  /\ lineToPatch' = At
  /\ next' = next + 1
  /\ UNCHANGED <<original, start, hunk, patchLines, outcome>>

InvalidPatch == outcome = "none" /\ start = 0 /\ Throw

(* currentLine is undefined and getNextLine asks how it ends.                 *)
PastTheEnd == Looping /\ At > Len(lines) /\ Throw

(* Mutant of Delete: the previous line is removed.                            *)
DeletePrevious ==
  Looping /\ At <= Len(lines) /\ Patch.op = "-" /\ Advance(RemoveAt(lines, lineToPatch))

Delete == Looping /\ At <= Len(lines) /\ Patch.op = "-" /\ Advance(RemoveAt(lines, At))

(* Mutant of Insert: the new line goes after the current one.                 *)
InsertAfter ==
  Looping /\ At <= Len(lines) /\ Patch.op = "+" /\ Advance(InsertAt(lines, At + 1, NextLine))

Insert == Looping /\ At <= Len(lines) /\ Patch.op = "+" /\ Advance(InsertAt(lines, At, NextLine))

Context == Looping /\ At <= Len(lines) /\ Patch.op = " " /\ lines[At] = NextLine /\ Advance(lines)

Mismatch == Looping /\ At <= Len(lines) /\ Patch.op = " " /\ lines[At] # NextLine /\ Throw

(* No case of the switch: a stripped blank line, or the next hunk's header.   *)
OtherLine == Looping /\ At <= Len(lines) /\ Patch.op \in {"", "@"} /\ Advance(lines)

Patched ==
  /\ outcome = "none" /\ start # 0 /\ next > Len(patchLines)
  /\ outcome' = "patched"
  /\ UNCHANGED <<original, start, hunk, patchLines, next, lines, lineToPatch>>

Next ==
  InvalidPatch \/ PastTheEnd \/ Delete \/ Insert \/ Context \/ Mismatch \/ OtherLine \/ Patched

Spec == Init /\ [][Next]_vars
-----------------------------------------------------------------------------
(* What a diff of one hunk means: line k of it is about line Place(k) of the  *)
(* file and, if it stays, is line Row(k) of the result; it applies if the     *)
(* lines it keeps or removes are there, and what follows them comes after it. *)
Place(h, k) == start + Cardinality({j \in 1..(k - 1) : h[j].op # "+"})
Row(h, k)   == start + Cardinality({j \in 1..(k - 1) : h[j].op # "-"})

Applies(h) ==
  \A k \in DOMAIN h :
    LET current == original[Place(h, k)]
    IN /\ Place(h, k) \in DOMAIN original
       /\ h[k].op \in {" ", "-"} => current = Line(h[k].text, h[k].cr \/ current.cr)

IsApplied(h) ==
  LET end  == Place(h, Len(h) + 1)
      last == Row(h, Len(h) + 1)
  IN /\ Len(lines) + end = Len(original) + last
     /\ \A n \in DOMAIN original : n < start => lines[n].text = original[n].text
     /\ \A k \in DOMAIN h : h[k].op # "-" =>
          lines[Row(h, k)].text = IF h[k].op = "+" THEN h[k].text ELSE original[Place(h, k)].text
     /\ \A n \in DOMAIN original : n >= end => lines[last + (n - end)].text = original[n].text

OneHunk(h)    == \A k \in DOMAIN h : h[k].op # "@"
InsertOnly(h) == \A k \in DOMAIN h : h[k].op \in {" ", "+", ""}

(* A diff of one hunk that only adds lines is applied exactly where and if it *)
(* fits, whatever the lines around it are.                                    *)
InsertOnlyIsExact ==
  outcome # "none" /\ start # 0 /\ InsertOnly(patchLines) =>
    IF Applies(patchLines)
    THEN outcome = "patched" /\ IsApplied(patchLines)
    ELSE outcome = "threw"

(* The lines the loop has not reached are the last lines of the file, and     *)
(* those before the hunk are its first, for any diff: what is lost or in the  *)
(* wrong place lies between the two.                                          *)
OutsideIsUntouched ==
  start # 0 =>
    /\ \A n \in DOMAIN original : n < start => lines[n] = original[n]
    /\ lineToPatch <= Len(lines) =>
         IsSuffix(SubSeq(lines, lineToPatch + 1, Len(lines)), original)

(* README.md:48: @snyk/protect does the same job as snyk protect, which       *)
(* applies every diff that fits. After a removed line the code compares the   *)
(* next line of the diff with the line after the one it is about.             *)
CompatibleIsApplied ==
  outcome # "none" /\ start # 0 /\ OneHunk(hunk) /\ patchLines = hunk /\ Applies(hunk) =>
    outcome = "patched" /\ IsApplied(hunk)
=============================================================================
