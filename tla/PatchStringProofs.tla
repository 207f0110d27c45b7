-------------------------- MODULE PatchStringProofs --------------------------
(***************************************************************************)
(* Proofs about patchString of @snyk/protect, for files and diffs of any   *)
(* length over any texts.                                                  *)
(***************************************************************************)
EXTENDS PatchString, SequenceTheorems, FiniteSetTheorems, TLAPS

(***************************************************************************)
(* Lemmas about taking an element out of a sequence and putting one in.    *)
(***************************************************************************)
LEMMA PieceIs ==
  ASSUME NEW S, NEW s \in Seq(S), NEW m \in Nat \ {0}, NEW n \in Nat, n <= Len(s), m <= n + 1
  PROVE  /\ SubSeq(s, m, n) \in Seq(S) /\ Len(SubSeq(s, m, n)) = n + 1 - m
         /\ \A i \in 1..(n + 1 - m) : SubSeq(s, m, n)[i] = s[m + i - 1]
<1>1. Len(s) \in Nat /\ \A i \in 1..Len(s) : s[i] \in S
  BY LenProperties, ElementOfSeq
<1>2. \A i \in m..n : s[i] \in S
  BY <1>1
<1>3. m \in Int /\ n \in Int
  OBVIOUS
<1>4. /\ SubSeq(s, m, n) \in Seq(S)
      /\ Len(SubSeq(s, m, n)) = (IF m <= n THEN n - m + 1 ELSE 0)
      /\ \A i \in 1..(n - m + 1) : SubSeq(s, m, n)[i] = s[m + i - 1]
  BY <1>2, <1>3, SubSeqProperties
<1>5. n + 1 - m = n - m + 1 /\ (m > n => n + 1 - m = 0)
  OBVIOUS
<1> QED BY <1>4, <1>5

LEMMA RemoveAtIs ==
  ASSUME NEW S, NEW s \in Seq(S), NEW i \in 1..Len(s)
  PROVE  /\ RemoveAt(s, i) \in Seq(S) /\ Len(RemoveAt(s, i)) = Len(s) - 1
         /\ \A n \in 1..(i - 1) : RemoveAt(s, i)[n] = s[n]
         /\ \A n \in i..(Len(s) - 1) : RemoveAt(s, i)[n] = s[n + 1]
<1> DEFINE l == SubSeq(s, 1, i - 1)
           r == SubSeq(s, i + 1, Len(s))
<1>1. Len(s) \in Nat /\ i \in Nat /\ 1 <= i /\ i <= Len(s)
  BY LenProperties
<1>2. l \in Seq(S) /\ Len(l) = i - 1 /\ \A n \in 1..(i - 1) : l[n] = s[n]
  BY <1>1, PieceIs
<1>3. r \in Seq(S) /\ Len(r) = Len(s) - i /\ \A n \in 1..(Len(s) - i) : r[n] = s[i + n]
  <2>1. r \in Seq(S) /\ Len(r) = Len(s) + 1 - (i + 1)
        /\ \A n \in 1..(Len(s) + 1 - (i + 1)) : r[n] = s[(i + 1) + n - 1]
    BY <1>1, PieceIs
  <2>2. Len(s) + 1 - (i + 1) = Len(s) - i /\ \A n \in Nat : (i + 1) + n - 1 = i + n
    BY <1>1
  <2> QED BY <2>1, <2>2
<1>4. RemoveAt(s, i) = l \o r
  BY DEF RemoveAt
<1> HIDE DEF l, r
<1>5. /\ l \o r \in Seq(S) /\ Len(l \o r) = Len(l) + Len(r)
      /\ \A n \in 1..(Len(l) + Len(r)) : (l \o r)[n] = IF n <= Len(l) THEN l[n] ELSE r[n - Len(l)]
  BY <1>2, <1>3, ConcatProperties
<1>6. \A n \in 1..(i - 1) : (l \o r)[n] = s[n]
  BY <1>1, <1>2, <1>3, <1>5
<1>7. ASSUME NEW n \in i..(Len(s) - 1) PROVE (l \o r)[n] = s[n + 1]
  <2>1. n \in 1..(Len(l) + Len(r)) /\ ~(n <= Len(l)) /\ n - Len(l) \in 1..(Len(s) - i)
        /\ i + (n - Len(l)) = n + 1
    BY <1>1, <1>2, <1>3
  <2> QED BY <2>1, <1>3, <1>5
<1> QED BY <1>1, <1>2, <1>3, <1>4, <1>5, <1>6, <1>7

LEMMA InsertAtIs ==
  ASSUME NEW S, NEW s \in Seq(S), NEW i \in 1..Len(s), NEW e \in S
  PROVE  /\ InsertAt(s, i, e) \in Seq(S) /\ Len(InsertAt(s, i, e)) = Len(s) + 1
         /\ InsertAt(s, i, e)[i] = e
         /\ \A n \in 1..(i - 1) : InsertAt(s, i, e)[n] = s[n]
         /\ \A n \in i..Len(s) : InsertAt(s, i, e)[n + 1] = s[n]
<1> DEFINE l == SubSeq(s, 1, i - 1)
           m == l \o <<e>>
           r == SubSeq(s, i, Len(s))
<1>1. Len(s) \in Nat /\ i \in Nat /\ 1 <= i /\ i <= Len(s)
  BY LenProperties
<1>2. l \in Seq(S) /\ Len(l) = i - 1 /\ \A n \in 1..(i - 1) : l[n] = s[n]
  BY <1>1, PieceIs
<1>3. r \in Seq(S) /\ Len(r) = Len(s) + 1 - i /\ \A n \in 1..(Len(s) + 1 - i) : r[n] = s[i + n - 1]
  BY <1>1, PieceIs
<1>4. InsertAt(s, i, e) = m \o r
  BY DEF InsertAt
<1> HIDE DEF l
<1>5. m \in Seq(S) /\ Len(m) = i /\ m[i] = e /\ \A n \in 1..(i - 1) : m[n] = s[n]
  <2>1. <<e>> \in Seq(S) /\ Len(<<e>>) = 1 /\ <<e>>[1] = e
    OBVIOUS
  <2>2. /\ m \in Seq(S) /\ Len(m) = Len(l) + 1
        /\ \A n \in 1..(Len(l) + 1) : m[n] = IF n <= Len(l) THEN l[n] ELSE <<e>>[n - Len(l)]
    BY <2>1, <1>2, ConcatProperties
  <2>3. i \in 1..(Len(l) + 1) /\ ~(i <= Len(l)) /\ i - Len(l) = 1 /\ Len(l) + 1 = i
    BY <1>1, <1>2
  <2>4. m[i] = e
    BY <2>1, <2>2, <2>3
  <2>5. \A n \in 1..(i - 1) : m[n] = s[n]
    BY <2>2, <1>1, <1>2
  <2> QED BY <2>2, <2>3, <2>4, <2>5
<1> HIDE DEF m, r
<1>6. /\ m \o r \in Seq(S) /\ Len(m \o r) = Len(m) + Len(r)
      /\ \A n \in 1..(Len(m) + Len(r)) : (m \o r)[n] = IF n <= Len(m) THEN m[n] ELSE r[n - Len(m)]
  BY <1>3, <1>5, ConcatProperties
<1>7. (m \o r)[i] = e /\ \A n \in 1..(i - 1) : (m \o r)[n] = s[n]
  BY <1>1, <1>3, <1>5, <1>6
<1>8. ASSUME NEW n \in i..Len(s) PROVE (m \o r)[n + 1] = s[n]
  <2>1. n + 1 \in 1..(Len(m) + Len(r)) /\ ~(n + 1 <= Len(m)) /\ (n + 1) - Len(m) \in 1..(Len(s) + 1 - i)
        /\ i + ((n + 1) - Len(m)) - 1 = n
    BY <1>1, <1>3, <1>5
  <2> QED BY <2>1, <1>3, <1>6
<1>9. Len(m \o r) = Len(s) + 1
  BY <1>1, <1>3, <1>5, <1>6
<1> QED BY <1>4, <1>6, <1>7, <1>8, <1>9

(* The same of one place, for what follows from it line by line.            *)
LEMMA LineInserted ==
  ASSUME NEW S, NEW s \in Seq(S), NEW i \in 1..Len(s), NEW e \in S
  PROVE  /\ Len(InsertAt(s, i, e)) = Len(s) + 1
         /\ \A n \in 1..(i - 1) : InsertAt(s, i, e)[n] = s[n]
         /\ \A n \in i..Len(s) : InsertAt(s, i, e)[n + 1] = s[n]
<1>1. Len(InsertAt(s, i, e)) = Len(s) + 1
  BY InsertAtIs
<1>2. \A n \in 1..(i - 1) : InsertAt(s, i, e)[n] = s[n]
  BY InsertAtIs
<1>3. \A n \in i..Len(s) : InsertAt(s, i, e)[n + 1] = s[n]
  BY InsertAtIs
<1> QED BY <1>1, <1>2, <1>3

-----------------------------------------------------------------------------
(***************************************************************************)
(* The types, and where the loop is: it moves one line on with every line  *)
(* of the diff.                                                            *)
(***************************************************************************)
FileLine == [text : Texts \cup {Blank}, cr : BOOLEAN]
DiffLine == [op : Ops, text : Texts \cup {Blank}, cr : BOOLEAN]

TInv ==
  /\ original \in Seq(FileLine) /\ lines \in Seq(FileLine)
  /\ patchLines \in Seq(DiffLine)
  /\ start \in Nat /\ lineToPatch \in Nat
  /\ next \in 1..(Len(patchLines) + 1)
  /\ start # 0 => lineToPatch + 2 = start + next
  /\ outcome \in {"none", "patched", "threw"}
  /\ outcome = "patched" => next = Len(patchLines) + 1

LEMMA BoundsAreNumbers == MaxLines \in Nat /\ MaxHunk \in Nat
BY LinesAssumption, Zenon DEF LinesAssumption

LEMMA FilesAreLines == Files \subseteq Seq(FileLine)
<1> SUFFICES ASSUME NEW file \in Files PROVE file \in Seq(FileLine)
  OBVIOUS
<1>0. PICK body \in BoundedSeq(Texts, MaxLines), cr \in BOOLEAN, last \in Texts \cup {Blank} :
        file = File(body, cr, last)
  BY DEF Files
<1> DEFINE first == [n \in DOMAIN body |-> Line(body[n], cr)]
<1>1. PICK m \in 0..MaxLines : body \in [1..m -> Texts]
  BY DEF BoundedSeq, SeqOf
<1>2. m \in Nat
  BY BoundsAreNumbers
<1>3. first \in [1..m -> FileLine]
  BY <1>1 DEF Line, FileLine
<1>4. first \in Seq(FileLine)
  <2> HIDE DEF first
  <2> QED BY <1>2, <1>3
<1>5. <<Line(last, FALSE)>> \in Seq(FileLine)
  <2> DEFINE l == Line(last, FALSE)
  <2>1. l \in FileLine
    BY DEF Line, FileLine
  <2> HIDE DEF l
  <2>2. <<l>> \in Seq(FileLine)
    BY <2>1
  <2> QED BY <2>2 DEF l
<1> HIDE DEF first
<1>6. first \o <<Line(last, FALSE)>> \in Seq(FileLine)
  BY <1>4, <1>5, ConcatProperties
<1> QED BY <1>0, <1>6 DEF first, File

LEMMA HunksAreLines == Hunks \subseteq Seq(DiffLine)
<1> SUFFICES ASSUME NEW kinds \in BoundedSeq(Kinds, MaxHunk), NEW cr \in BOOLEAN
             PROVE  [n \in DOMAIN kinds |-> [op |-> kinds[n][1], text |-> kinds[n][2], cr |-> cr]] \in Seq(DiffLine)
  BY DEF Hunks
<1> DEFINE h == [n \in DOMAIN kinds |-> [op |-> kinds[n][1], text |-> kinds[n][2], cr |-> cr]]
<1>1. PICK m \in 0..MaxHunk : kinds \in [1..m -> Kinds]
  BY DEF BoundedSeq, SeqOf
<1>2. m \in Nat
  BY BoundsAreNumbers
<1>3. \A k \in Kinds : k[1] \in Ops /\ k[2] \in Texts \cup {Blank}
  BY DEF Kinds
<1>4. h \in [1..m -> DiffLine]
  BY <1>1, <1>3 DEF DiffLine
<1> HIDE DEF h
<1>5. h \in Seq(DiffLine)
  BY <1>2, <1>4
<1> QED BY <1>5 DEF h

LEMMA SliceIsLines ==
  ASSUME NEW h \in Seq(DiffLine), NEW trailing \in 0..2
  PROVE  Slice(h, trailing) \in Seq(DiffLine)
<1>1. Len(h) \in Nat
  BY LenProperties
<1>2. CASE Len(h) + trailing < 2
  BY <1>2, EmptySeq DEF Slice
<1>3. CASE ~(Len(h) + trailing < 2)
  <2>1. Len(h) + trailing - 2 \in Nat /\ Len(h) + trailing - 2 <= Len(h) /\ 1 <= Len(h) + trailing - 2 + 1
    BY <1>1, <1>3
  <2>2. SubSeq(h, 1, Len(h) + trailing - 2) \in Seq(DiffLine)
    BY <2>1, PieceIs
  <2> QED BY <2>2, <1>3 DEF Slice
<1> QED BY <1>2, <1>3

LEMMA InitTInv == Init => TInv
<1> SUFFICES ASSUME Init PROVE TInv
  OBVIOUS
<1>1. original \in Seq(FileLine) /\ lines \in Seq(FileLine)
  BY FilesAreLines DEF Init
<1>2. patchLines \in Seq(DiffLine)
  BY HunksAreLines, SliceIsLines DEF Init
<1>3. Len(patchLines) \in Nat
  BY <1>2, LenProperties
<1>4. start \in Nat
  BY BoundsAreNumbers DEF Init
<1>5. lineToPatch \in Nat /\ (start # 0 => lineToPatch + 2 = start + next)
  BY <1>4 DEF Init, FirstLine
<1>6. next \in 1..(Len(patchLines) + 1) /\ outcome = "none"
  BY <1>3 DEF Init
<1> QED BY <1>1, <1>2, <1>4, <1>5, <1>6 DEF TInv

LEMMA LoopingIs ==
  ASSUME TInv, Looping, At <= Len(lines)
  PROVE  /\ start # 0 /\ start \in Nat /\ next \in Nat /\ next \in 1..Len(patchLines)
         /\ At \in 1..Len(lines) /\ At \in Nat /\ At = lineToPatch + 1 /\ At + 1 = start + next
         /\ Len(lines) \in Nat /\ Len(patchLines) \in Nat
         /\ Patch \in DiffLine /\ lines[At] \in FileLine /\ NextLine \in FileLine
         /\ NextLine.text = Patch.text
<1>1. Len(lines) \in Nat /\ Len(patchLines) \in Nat
  BY LenProperties DEF TInv
<1>2. start # 0 /\ start \in Nat /\ next \in Nat /\ next \in 1..Len(patchLines)
  BY <1>1 DEF TInv, Looping
<1>3. At \in 1..Len(lines) /\ At \in Nat /\ At = lineToPatch + 1 /\ At + 1 = start + next
  BY <1>1, <1>2 DEF TInv, At
<1>4. Patch \in DiffLine /\ lines[At] \in FileLine
  BY <1>2, <1>3, ElementOfSeq DEF TInv, Patch
<1>5. NextLine \in FileLine /\ NextLine.text = Patch.text
  BY <1>4 DEF NextLine, Line, FileLine, DiffLine
<1> QED BY <1>1, <1>2, <1>3, <1>4, <1>5

LEMMA AdvanceKeepsTInv ==
  ASSUME TInv, Looping, At <= Len(lines), NEW s \in Seq(FileLine), Advance(s)
  PROVE  TInv'
<1>1. /\ start # 0 /\ start \in Nat /\ next \in 1..Len(patchLines) /\ At \in Nat /\ At + 1 = start + next
      /\ Len(patchLines) \in Nat
  BY LoopingIs
<1>2. lines' = s /\ lineToPatch' = At /\ next' = next + 1 /\ UNCHANGED <<original, start, patchLines, outcome>>
  BY DEF Advance
<1>3. next' \in 1..(Len(patchLines) + 1) /\ lineToPatch' + 2 = start + next'
  BY <1>1, <1>2
<1>4. outcome = "none"
  BY DEF Looping
<1> QED BY <1>1, <1>2, <1>3, <1>4 DEF TInv

LEMMA NextKeepsTInv == TInv /\ [Next]_vars => TInv'
<1> SUFFICES ASSUME TInv, [Next]_vars PROVE TInv'
  OBVIOUS
<1>1. CASE Delete
  <2>1. RemoveAt(lines, At) \in Seq(FileLine)
    BY <1>1, LoopingIs, RemoveAtIs DEF Delete, TInv
  <2> QED BY <1>1, <2>1, AdvanceKeepsTInv DEF Delete
<1>2. CASE Insert
  <2>1. InsertAt(lines, At, NextLine) \in Seq(FileLine)
    BY <1>2, LoopingIs, InsertAtIs DEF Insert, TInv
  <2> QED BY <1>2, <2>1, AdvanceKeepsTInv DEF Insert
<1>3. CASE Context \/ OtherLine
  BY <1>3, AdvanceKeepsTInv DEF Context, OtherLine, TInv
<1>4. CASE InvalidPatch \/ PastTheEnd \/ Mismatch
  BY <1>4 DEF InvalidPatch, PastTheEnd, Mismatch, Throw, TInv
<1>5. CASE Patched
  <2>1. Len(patchLines) \in Nat
    BY LenProperties DEF TInv
  <2>2. next = Len(patchLines) + 1
    BY <1>5, <2>1 DEF Patched, TInv
  <2> QED BY <1>5, <2>2 DEF Patched, TInv
<1>6. CASE UNCHANGED vars
  BY <1>6 DEF vars, TInv
<1> QED BY <1>1, <1>2, <1>3, <1>4, <1>5, <1>6 DEF Next

-----------------------------------------------------------------------------
(***************************************************************************)
(* The lines the loop has not reached, counted from the end of the file.   *)
(***************************************************************************)
HeadKept == \A n \in DOMAIN original : n < start => lines[n] = original[n]

TailKept ==
  \A k \in Nat : k + lineToPatch < Len(lines) =>
    k < Len(original) /\ lines[Len(lines) - k] = original[Len(original) - k]

OInv == start # 0 => HeadKept /\ TailKept

LEMMA FromTheEnd ==
  ASSUME NEW a \in Nat, NEW b \in Nat, NEW k \in Nat, NEW d \in Nat, NEW l \in Nat, NEW p \in Nat,
         k + a < b, a = p + 1, b + d = l + 1
  PROVE  b - k \in (a + 1)..b /\ b - k + d - 1 = l - k /\ k + p < l
OBVIOUS

LEMMA OInvIsOutside == TInv /\ OInv => OutsideIsUntouched
<1> SUFFICES ASSUME TInv, OInv, start # 0, lineToPatch <= Len(lines)
             PROVE  IsSuffix(SubSeq(lines, lineToPatch + 1, Len(lines)), original)
  BY DEF OutsideIsUntouched, OInv, HeadKept
<1> DEFINE t == SubSeq(lines, lineToPatch + 1, Len(lines))
           n == Len(lines) - lineToPatch
           rt == [i \in 1..Len(t) |-> t[(Len(t) - i) + 1]]
           ro == [i \in 1..Len(original) |-> original[(Len(original) - i) + 1]]
<1>1. Len(lines) \in Nat /\ lineToPatch \in Nat /\ n \in Nat /\ Len(original) \in Nat
  BY LenProperties DEF TInv
<1>2. t \in Seq(FileLine) /\ Len(t) = n /\ \A i \in 1..n : t[i] = lines[lineToPatch + i]
  <2>1. lines \in Seq(FileLine) /\ lineToPatch + 1 \in Nat \ {0} /\ lineToPatch + 1 <= Len(lines) + 1
        /\ Len(lines) + 1 - (lineToPatch + 1) = n /\ \A i \in 1..n : (lineToPatch + 1) + i - 1 = lineToPatch + i
    BY <1>1 DEF TInv
  <2>2. t \in Seq(FileLine) /\ Len(t) = Len(lines) + 1 - (lineToPatch + 1)
        /\ \A i \in 1..(Len(lines) + 1 - (lineToPatch + 1)) : t[i] = lines[(lineToPatch + 1) + i - 1]
    BY <1>1, <2>1, PieceIs
  <2> QED BY <2>1, <2>2
<1> HIDE DEF t
<1>3. ASSUME NEW i \in 1..n PROVE i <= Len(original) /\ t[(n - i) + 1] = original[(Len(original) - i) + 1]
  <2>1. (n - i) + 1 \in 1..n /\ lineToPatch + ((n - i) + 1) = Len(lines) - (i - 1) /\ i - 1 \in Nat
        /\ (i - 1) + lineToPatch < Len(lines)
    BY <1>1
  <2>2. t[(n - i) + 1] = lines[Len(lines) - (i - 1)]
    BY <1>2, <2>1
  <2>3. i - 1 < Len(original) /\ lines[Len(lines) - (i - 1)] = original[Len(original) - (i - 1)]
    BY <2>1 DEF OInv, TailKept
  <2>4. i <= Len(original) /\ Len(original) - (i - 1) = (Len(original) - i) + 1
    BY <2>3, <1>1
  <2> QED BY <2>2, <2>3, <2>4
<1> HIDE DEF n
<1>4. n <= Len(original)
  <2>1. CASE n = 0
    BY <2>1, <1>1
  <2>2. CASE n # 0
    BY <2>2, <1>1, <1>3
  <2> QED BY <2>1, <2>2
<1>5. rt \in [1..n -> FileLine] /\ ro \in [1..Len(original) -> FileLine]
  <2>1. \A i \in 1..n : (n - i) + 1 \in 1..n
    BY <1>1
  <2>2. \A i \in 1..Len(original) : (Len(original) - i) + 1 \in 1..Len(original)
    BY <1>1
  <2>3. \A i \in 1..n : t[(n - i) + 1] \in FileLine
    BY <1>2, <2>1, ElementOfSeq
  <2>4. \A i \in 1..Len(original) : original[(Len(original) - i) + 1] \in FileLine
    BY <2>2, ElementOfSeq DEF TInv
  <2> QED BY <1>2, <2>3, <2>4
<1>6. rt \in Seq(FileLine) /\ ro \in Seq(FileLine) /\ Len(rt) = n /\ Len(ro) = Len(original)
      /\ \A i \in 1..n : rt[i] = ro[i]
  <2>1. \A i \in 1..n : rt[i] = ro[i]
    <3>1. \A i \in 1..n : i \in 1..Len(original)
      BY <1>1, <1>4
    <3> QED BY <1>2, <1>3, <3>1
  <2> HIDE DEF rt, ro
  <2> QED BY <1>1, <1>5, <2>1
<1>7. IsSuffix(t, original) <=> IsPrefix(rt, ro)
  BY DEF IsSuffix, Reverse
<1> HIDE DEF rt, ro
<1>8. SubSeq(rt, 1, n) = SubSeq(ro, 1, n)
  <2>1. SubSeq(rt, 1, n) \in Seq(FileLine) /\ Len(SubSeq(rt, 1, n)) = n
        /\ \A i \in 1..n : SubSeq(rt, 1, n)[i] = rt[i]
    <3>1. 1 \in Nat \ {0} /\ n <= Len(rt) /\ 1 <= n + 1 /\ n + 1 - 1 = n /\ \A i \in 1..n : 1 + i - 1 = i
      BY <1>1, <1>6
    <3> QED BY <3>1, <1>1, <1>6, PieceIs
  <2>2. SubSeq(ro, 1, n) \in Seq(FileLine) /\ Len(SubSeq(ro, 1, n)) = n
        /\ \A i \in 1..n : SubSeq(ro, 1, n)[i] = ro[i]
    <3>1. 1 \in Nat \ {0} /\ n <= Len(ro) /\ 1 <= n + 1 /\ n + 1 - 1 = n /\ \A i \in 1..n : 1 + i - 1 = i
      BY <1>1, <1>4, <1>6
    <3> QED BY <3>1, <1>1, <1>6, PieceIs
  <2> QED BY <2>1, <2>2, <1>6, SeqEqual
<1>9. IsPrefix(rt, ro)
  BY <1>4, <1>6, <1>8 DEF IsPrefix
<1> QED BY <1>7, <1>9 DEF t

LEMMA NextKeepsOInv == TInv /\ OInv /\ [Next]_vars => OInv'
<1> SUFFICES ASSUME TInv, OInv, [Next]_vars PROVE OInv'
  OBVIOUS
<1>0. Len(lines) \in Nat /\ Len(original) \in Nat /\ lines \in Seq(FileLine) /\ DOMAIN original = 1..Len(original)
  BY LenProperties DEF TInv
<1>1. ASSUME Looping, At <= Len(lines), NEW s, NEW d \in Nat, Advance(s),
             Len(s) \in Nat, Len(s) <= Len(lines) + 1, Len(s) + d = Len(lines) + 1,
             \A n \in 1..(At - 1) : s[n] = lines[n],
             \A n \in (At + 1)..Len(s) : s[n] = lines[n + d - 1]
      PROVE  OInv'
  <2>1. start # 0 /\ start \in Nat /\ At \in Nat /\ At = lineToPatch + 1 /\ start <= At /\ At \in 1..Len(lines)
    BY <1>1, LoopingIs
  <2>2. lines' = s /\ lineToPatch' = At /\ UNCHANGED <<original, start>>
    BY <1>1 DEF Advance
  <2>3. \A n \in DOMAIN original : n < start => s[n] = original[n]
    BY <2>1, <1>0, <1>1 DEF OInv, HeadKept
  <2>4. ASSUME NEW k \in Nat, k + At < Len(s)
        PROVE  k < Len(original) /\ s[Len(s) - k] = original[Len(original) - k]
    <3>1. At \in Nat /\ Len(s) \in Nat /\ k + At < Len(s) /\ Len(lines) \in Nat /\ lineToPatch \in Nat
          /\ At = lineToPatch + 1 /\ Len(s) + d = Len(lines) + 1
      BY <2>1, <2>4, <1>0, <1>1 DEF TInv
    <3>2. Len(s) - k \in (At + 1)..Len(s) /\ Len(s) - k + d - 1 = Len(lines) - k /\ k + lineToPatch < Len(lines)
      BY <3>1, FromTheEnd
    <3>3. s[Len(s) - k] = lines[Len(lines) - k]
      BY <1>1, <3>2
    <3> QED BY <3>2, <3>3, <2>1 DEF OInv, TailKept
  <2> QED BY <2>2, <2>3, <2>4 DEF OInv, HeadKept, TailKept
<1>2. CASE Delete
  <2> DEFINE s == RemoveAt(lines, At)
  <2>1. Looping /\ At <= Len(lines) /\ Advance(s)
    BY <1>2 DEF Delete
  <2>2. At \in 1..Len(lines) /\ At \in Nat
    BY <2>1, LoopingIs
  <2>3. Len(s) = Len(lines) - 1 /\ (\A n \in 1..(At - 1) : s[n] = lines[n])
        /\ \A n \in At..(Len(lines) - 1) : s[n] = lines[n + 1]
    BY <2>2, <1>0, RemoveAtIs
  <2> HIDE DEF s
  <2>4. Len(s) \in Nat /\ Len(s) <= Len(lines) + 1 /\ Len(s) + 2 = Len(lines) + 1
    BY <2>2, <2>3, <1>0
  <2>5. \A n \in (At + 1)..Len(s) : n \in At..(Len(lines) - 1) /\ n + 2 - 1 = n + 1
    BY <2>2, <2>3, <1>0
  <2>6. 2 \in Nat /\ \A n \in (At + 1)..Len(s) : s[n] = lines[n + 2 - 1]
    BY <2>3, <2>5
  <2> QED BY <1>1, <2>1, <2>3, <2>4, <2>6
<1>3. CASE Insert
  <2> DEFINE s == InsertAt(lines, At, NextLine)
  <2>1. Looping /\ At <= Len(lines) /\ Advance(s)
    BY <1>3 DEF Insert
  <2>2. At \in 1..Len(lines) /\ At \in Nat /\ NextLine \in FileLine
    BY <2>1, LoopingIs
  <2>3. Len(s) = Len(lines) + 1 /\ (\A n \in 1..(At - 1) : s[n] = lines[n])
        /\ \A n \in At..Len(lines) : s[n + 1] = lines[n]
    <3>1. lines \in Seq(FileLine)
      BY <1>0
    <3> QED BY <2>2, <3>1, LineInserted
  <2> HIDE DEF s
  <2>4. Len(s) \in Nat /\ Len(s) <= Len(lines) + 1 /\ Len(s) + 0 = Len(lines) + 1
    BY <2>3, <1>0
  <2>5. \A n \in (At + 1)..Len(s) : n + 0 - 1 \in At..Len(lines) /\ (n + 0 - 1) + 1 = n
    BY <2>2, <2>3, <1>0
  <2>6. 0 \in Nat /\ \A n \in (At + 1)..Len(s) : s[n] = lines[n + 0 - 1]
    BY <2>3, <2>5
  <2> QED BY <1>1, <2>1, <2>3, <2>4, <2>6
<1>4. CASE Context \/ OtherLine
  <2>1. Looping /\ At <= Len(lines) /\ Advance(lines)
    BY <1>4 DEF Context, OtherLine
  <2>2. At \in Nat
    BY <2>1, LoopingIs
  <2>3. 1 \in Nat /\ Len(lines) <= Len(lines) + 1 /\ \A n \in (At + 1)..Len(lines) : n + 1 - 1 = n
    BY <1>0, <2>2
  <2>4. \A n \in (At + 1)..Len(lines) : lines[n] = lines[n + 1 - 1]
    BY <2>3
  <2> QED BY <1>0, <1>1, <2>1, <2>3, <2>4
<1>5. CASE InvalidPatch \/ PastTheEnd \/ Mismatch \/ Patched \/ UNCHANGED vars
  BY <1>5 DEF InvalidPatch, PastTheEnd, Mismatch, Throw, Patched, vars, OInv, HeadKept, TailKept
<1> QED BY <1>2, <1>3, <1>4, <1>5 DEF Next

LEMMA InitOInv == Init => OInv
<1> SUFFICES ASSUME Init PROVE OInv
  OBVIOUS
<1>1. lines = original /\ TInv
  BY InitTInv DEF Init
<1>2. Len(lines) \in Nat
  BY <1>1, LenProperties DEF TInv
<1>3. lineToPatch \in Nat
  BY <1>1 DEF TInv
<1> QED BY <1>1, <1>2, <1>3 DEF OInv, HeadKept, TailKept

(* Whatever the diff, the lines of the file before the hunk and those the   *)
(* loop has not come to are as they were.                                  *)
THEOREM OutsideOfHunk == Spec => []OutsideIsUntouched
<1>1. Init => TInv /\ OInv
  BY InitTInv, InitOInv
<1>2. TInv /\ OInv /\ [Next]_vars => (TInv /\ OInv)'
  BY NextKeepsTInv, NextKeepsOInv
<1> QED BY <1>1, <1>2, OInvIsOutside, PTL DEF Spec

-----------------------------------------------------------------------------
(***************************************************************************)
(* A diff that removes nothing. So far it has fitted, the lines it has been *)
(* through are there, and those after them follow.                         *)
(***************************************************************************)
Fit(k) ==
  /\ Place(patchLines, k) \in DOMAIN original
  /\ patchLines[k].op \in {" ", "-"} =>
       original[Place(patchLines, k)]
         = Line(patchLines[k].text, patchLines[k].cr \/ original[Place(patchLines, k)].cr)

LEMMA AppliesIsFit == Applies(patchLines) <=> \A k \in DOMAIN patchLines : Fit(k)
BY DEF Applies, Fit

Here == Place(patchLines, next)

Text(k) == IF patchLines[k].op = "+" THEN patchLines[k].text ELSE original[Place(patchLines, k)].text

FitSoFar  == \A k \in 1..(next - 1) : Fit(k)
Grown     == Len(lines) + Here + 1 = Len(original) + start + next
Written   == \A k \in 1..(next - 1) : lines[start + (k - 1)].text = Text(k)
Following == \A n \in DOMAIN original : n >= Here => lines[start + (next - 1) + (n - Here)] = original[n]
ThrewHere == outcome = "threw" => next \in DOMAIN patchLines /\ ~Fit(next)

EInv == start # 0 /\ InsertOnly(patchLines) => FitSoFar /\ Grown /\ Written /\ Following /\ ThrewHere

(* A line of the diff that is not added is about a line of the file.       *)
LEMMA PlaceIs ==
  ASSUME start \in Nat, NEW h
  PROVE  /\ Place(h, 1) = start
         /\ \A k \in Nat \ {0} :
              /\ Place(h, k) \in Nat /\ start <= Place(h, k)
              /\ Place(h, k + 1) = Place(h, k) + (IF h[k].op # "+" THEN 1 ELSE 0)
<1> DEFINE Kept(k) == {j \in 1..(k - 1) : h[j].op # "+"}
<1>1. ASSUME NEW k \in Nat PROVE IsFiniteSet(Kept(k)) /\ Cardinality(Kept(k)) \in Nat
  <2>1. IsFiniteSet(1..(k - 1))
    BY FS_Interval
  <2>2. IsFiniteSet(Kept(k))
    BY <2>1, FS_Subset
  <2> HIDE DEF Kept
  <2> QED BY <2>2, FS_CardinalityType
<1>2. Kept(1) = {}
  OBVIOUS
<1>3. ASSUME NEW k \in Nat \ {0}
      PROVE  Cardinality(Kept(k + 1)) = Cardinality(Kept(k)) + (IF h[k].op # "+" THEN 1 ELSE 0)
  <2>1. IsFiniteSet(Kept(k)) /\ Cardinality(Kept(k)) \in Nat
    BY <1>1
  <2>2. k \notin Kept(k)
    OBVIOUS
  <2>3. CASE h[k].op # "+"
    <3>1. Kept(k + 1) = Kept(k) \cup {k}
      BY <2>3
    <3> HIDE DEF Kept
    <3> QED BY <2>1, <2>2, <2>3, <3>1, FS_AddElement
  <2>4. CASE ~(h[k].op # "+")
    <3>1. Kept(k + 1) = Kept(k)
      BY <2>4
    <3> HIDE DEF Kept
    <3> QED BY <2>1, <2>4, <3>1
  <2> QED BY <2>3, <2>4
<1>4. \A k : Place(h, k) = start + Cardinality(Kept(k))
  BY DEF Place
<1>5. Cardinality(Kept(1)) = 0
  BY <1>2, FS_EmptySet
<1> HIDE DEF Kept
<1>6. Place(h, 1) = start
  BY <1>4, <1>5
<1>7. ASSUME NEW k \in Nat \ {0}
      PROVE  /\ Place(h, k) \in Nat /\ start <= Place(h, k)
             /\ Place(h, k + 1) = Place(h, k) + (IF h[k].op # "+" THEN 1 ELSE 0)
  <2>1. Cardinality(Kept(k)) \in Nat
    BY <1>1
  <2>2. /\ Place(h, k) = start + Cardinality(Kept(k))
        /\ Place(h, k + 1) = start + Cardinality(Kept(k + 1))
    BY <1>4
  <2>3. CASE h[k].op # "+"
    <3>1. Cardinality(Kept(k + 1)) = Cardinality(Kept(k)) + 1
      BY <1>3, <2>3
    <3> QED BY <2>1, <2>2, <2>3, <3>1
  <2>4. CASE ~(h[k].op # "+")
    <3>1. Cardinality(Kept(k + 1)) = Cardinality(Kept(k)) + 0
      BY <1>3, <2>4
    <3> QED BY <2>1, <2>2, <2>4, <3>1
  <2> QED BY <2>3, <2>4
<1> QED BY <1>6, <1>7

(* Every line of it is a line of the result.                               *)
LEMMA RowIs ==
  ASSUME start \in Nat, NEW h, NEW k \in Nat \ {0}, \A j \in 1..(k - 1) : h[j].op # "-"
  PROVE  Row(h, k) = start + (k - 1)
<1>1. {j \in 1..(k - 1) : h[j].op # "-"} = 1..(k - 1)
  OBVIOUS
<1>2. Cardinality(1..(k - 1)) = k - 1
  BY FS_Interval
<1> QED BY <1>1, <1>2 DEF Row

LEMMA InsertOnlyIs ==
  ASSUME TInv, InsertOnly(patchLines), NEW k \in 1..Len(patchLines)
  PROVE  patchLines[k].op # "-" /\ patchLines[k].op \in {" ", "+", ""}
<1>1. k \in DOMAIN patchLines
  BY LenProperties DEF TInv
<1>2. patchLines[k].op \in {" ", "+", ""}
  BY <1>1 DEF InsertOnly
<1>3. " " # "-" /\ "+" # "-" /\ "" # "-"
  OBVIOUS
<1> QED BY <1>2, <1>3

LEMMA EInvIsExact == TInv /\ OInv /\ EInv => InsertOnlyIsExact
<1> SUFFICES ASSUME TInv, OInv, EInv, outcome # "none", start # 0, InsertOnly(patchLines)
             PROVE  IF Applies(patchLines) THEN outcome = "patched" /\ IsApplied(patchLines)
                    ELSE outcome = "threw"
  BY DEF InsertOnlyIsExact
<1>1. CASE outcome = "threw"
  <2>1. ~Applies(patchLines)
    BY <1>1, AppliesIsFit DEF EInv, ThrewHere
  <2> QED BY <1>1, <2>1
<1>2. CASE outcome = "patched"
  <2> DEFINE h == patchLines
             end == Place(h, Len(h) + 1)
             last == Row(h, Len(h) + 1)
  <2>0. next = Len(h) + 1 /\ Len(h) \in Nat /\ start \in Nat /\ DOMAIN h = 1..Len(h)
        /\ Len(lines) \in Nat /\ Len(original) \in Nat /\ DOMAIN original = 1..Len(original)
    BY <1>2, LenProperties DEF TInv
  <2>1. end = Here /\ end \in Nat
    <3>1. end = Here
      BY <2>0 DEF Here
    <3>2. Len(h) + 1 \in Nat \ {0}
      BY <2>0
    <3> QED BY <2>0, <3>1, <3>2, PlaceIs
  <2>10. \A j \in 1..Len(h) : h[j].op # "-"
    BY InsertOnlyIs
  <2>2. \A k \in DOMAIN h : Row(h, k) = start + (k - 1)
    <3> TAKE k \in DOMAIN h
    <3>1. k \in Nat \ {0} /\ \A j \in 1..(k - 1) : j \in 1..Len(h)
      BY <2>0
    <3>2. \A j \in 1..(k - 1) : h[j].op # "-"
      BY <2>10, <3>1
    <3> QED BY <2>0, <3>1, <3>2, RowIs
  <2>3. last = start + Len(h)
    <3>0. Len(h) + 1 - 1 = Len(h)
      BY <2>0
    <3>1. \A j \in 1..(Len(h) + 1 - 1) : h[j].op # "-"
      BY <2>10, <3>0
    <3>2. last = start + (Len(h) + 1 - 1)
      BY <2>0, <3>1, RowIs
    <3> QED BY <2>0, <3>2
  <2>4. Applies(h)
    <3>1. \A k \in DOMAIN h : Fit(k)
      BY <2>0 DEF EInv, FitSoFar
    <3> QED BY <3>1, AppliesIsFit
  <2>5. Len(lines) + end = Len(original) + last
    BY <2>0, <2>1, <2>3 DEF EInv, Grown
  <2>6. \A n \in DOMAIN original : n < start => lines[n].text = original[n].text
    BY DEF OInv, HeadKept
  <2>7. \A k \in DOMAIN h : lines[Row(h, k)].text = Text(k)
    BY <2>0, <2>2 DEF EInv, Written
  <2>8. \A n \in DOMAIN original : n >= end => lines[last + (n - end)].text = original[n].text
    BY <2>0, <2>1, <2>3 DEF EInv, Following
  <2>9. IsApplied(h)
    BY <2>5, <2>6, <2>7, <2>8 DEF IsApplied, Text
  <2> QED BY <1>2, <2>4, <2>9
<1> QED BY <1>1, <1>2 DEF TInv

(* A line of the diff is about a line of the file just when the loop is     *)
(* still in the file, and then at that very line.                          *)
LEMMA HereIs ==
  ASSUME TInv, EInv, Looping, InsertOnly(patchLines)
  PROVE  /\ Here \in Nat /\ start <= Here /\ start \in Nat /\ start # 0 /\ next \in Nat \ {0}
         /\ next \in DOMAIN patchLines
         /\ Len(lines) \in Nat /\ Len(original) \in Nat /\ DOMAIN original = 1..Len(original)
         /\ At \in Nat /\ At = start + (next - 1)
         /\ At <= Len(lines) <=> Here \in DOMAIN original
         /\ At <= Len(lines) => lines[At] = original[Here]
         /\ Place(patchLines, next + 1) = Here + (IF Patch.op # "+" THEN 1 ELSE 0)
<1>1. start \in Nat /\ start # 0 /\ next \in Nat \ {0} /\ Len(lines) \in Nat /\ Len(original) \in Nat
      /\ DOMAIN original = 1..Len(original)
  BY LenProperties DEF TInv, Looping
<1>2. /\ Here \in Nat /\ start <= Here
      /\ Place(patchLines, next + 1) = Here + (IF Patch.op # "+" THEN 1 ELSE 0)
  BY <1>1, PlaceIs DEF Here, Patch
<1>3. At \in Nat /\ At = start + (next - 1)
  BY <1>1 DEF TInv, At
<1>4. Len(lines) + Here + 1 = Len(original) + start + next
  BY <1>1 DEF EInv, Grown
<1>5. At <= Len(lines) <=> Here <= Len(original)
  BY <1>1, <1>2, <1>3, <1>4
<1>6. At <= Len(lines) <=> Here \in DOMAIN original
  BY <1>1, <1>2, <1>5
<1>7. ASSUME At <= Len(lines) PROVE lines[At] = original[Here]
  <2>1. Here \in DOMAIN original /\ Here >= Here /\ start + (next - 1) + (Here - Here) = At
    BY <1>1, <1>2, <1>3, <1>6, <1>7
  <2> QED BY <1>1, <2>1 DEF EInv, Following
<1>8. next \in DOMAIN patchLines
  BY <1>1, LenProperties DEF TInv, Looping
<1> QED BY <1>1, <1>2, <1>3, <1>6, <1>7, <1>8

LEMMA SameHunk ==
  ASSUME UNCHANGED <<original, start, patchLines>>
  PROVE  /\ \A k : (Place(patchLines, k)' = Place(patchLines, k)) /\ (Text(k)' = Text(k)) /\ (Fit(k)' <=> Fit(k))
         /\ InsertOnly(patchLines)' <=> InsertOnly(patchLines)
BY DEF Place, Text, Fit, InsertOnly

(* The count of lines balances when d more lines have been added.            *)
LEMMA GrownMoves ==
  ASSUME Grown, Len(lines) \in Nat, Here \in Nat, Len(original) \in Nat, start \in Nat, next \in Nat,
         NEW d \in {0, 1}, UNCHANGED <<original, start>>, Len(lines)' = Len(lines) + d,
         Here' = Here + (1 - d), next' = next + 1
  PROVE  Grown'
BY DEF Grown

(* The loop moves on from a line that fits, d more lines having been added.  *)
LEMMA AdvanceKeepsEInv ==
  ASSUME TInv, EInv, Looping, At <= Len(lines), InsertOnly(patchLines), NEW s, Advance(s), Fit(next),
         NEW d \in {0, 1}, d = (IF Patch.op # "+" THEN 0 ELSE 1), Len(s) = Len(lines) + d,
         s[At].text = Text(next),
         \A n \in 1..(At - 1) : s[n] = lines[n],
         \A n \in (At + 1 - d)..Len(lines) : s[n + d] = lines[n]
  PROVE  EInv'
<1>1. /\ Here \in Nat /\ start <= Here /\ start \in Nat /\ start # 0 /\ next \in Nat \ {0}
      /\ Len(lines) \in Nat /\ Len(original) \in Nat /\ DOMAIN original = 1..Len(original)
      /\ At \in Nat /\ At = start + (next - 1) /\ Here \in DOMAIN original
      /\ Place(patchLines, next + 1) = Here + (IF Patch.op # "+" THEN 1 ELSE 0)
  BY HereIs
<1>2. lines' = s /\ next' = next + 1 /\ UNCHANGED <<original, start, patchLines, outcome>> /\ outcome = "none"
  BY DEF Advance, Looping
<1>3. Here' = Here + (1 - d)
  <2>1. Here' = Place(patchLines, next + 1)
    BY <1>2 DEF Here, Place
  <2>2. d = 0 => Patch.op # "+"
    OBVIOUS
  <2>3. d = 1 => ~(Patch.op # "+")
    OBVIOUS
  <2>4. CASE d = 0
    BY <1>1, <2>1, <2>2, <2>4
  <2>5. CASE d = 1
    BY <1>1, <2>1, <2>3, <2>5
  <2> QED BY <2>4, <2>5
<1>4. FitSoFar'
  <2>1. \A k \in 1..next : Fit(k)
    BY <1>1 DEF EInv, FitSoFar
  <2>2. 1..(next' - 1) = 1..next
    BY <1>1, <1>2
  <2> QED BY <1>2, <2>1, <2>2, SameHunk DEF FitSoFar
<1>5. Grown'
  <2>1. Grown /\ Len(lines)' = Len(lines) + d
    BY <1>1, <1>2 DEF EInv
  <2> QED BY <1>1, <1>2, <1>3, <2>1, GrownMoves
<1>6. Written'
  <2>1. ASSUME NEW k \in 1..next PROVE s[start + (k - 1)].text = Text(k)
    <3>1. CASE k = next
      BY <1>1, <3>1
    <3>2. CASE k # next
      <4>1. k \in 1..(next - 1) /\ start + (k - 1) \in 1..(At - 1)
        BY <1>1, <3>2
      <4> QED BY <1>1, <4>1 DEF EInv, Written
    <3> QED BY <3>1, <3>2
  <2>2. 1..(next' - 1) = 1..next
    BY <1>1, <1>2
  <2> QED BY <1>2, <2>1, <2>2, SameHunk DEF Written
<1>7. Following'
  <2>1. ASSUME NEW n \in DOMAIN original, n >= Here + (1 - d)
        PROVE  s[start + next + (n - (Here + (1 - d)))] = original[n]
    <3> DEFINE m == start + (next - 1) + (n - Here)
    <3>1. n >= Here /\ n <= Len(original) /\ n \in Nat
      BY <1>1, <2>1
    <3>2. lines[m] = original[n]
      BY <1>1, <3>1 DEF EInv, Following
    <3>3. Len(lines) + Here + 1 = Len(original) + start + next
      BY <1>1 DEF EInv, Grown
    <3>4. m \in (At + 1 - d)..Len(lines) /\ m + d = start + next + (n - (Here + (1 - d)))
      BY <1>1, <2>1, <3>1, <3>3
    <3> HIDE DEF m
    <3>5. s[m + d] = lines[m]
      BY <3>4
    <3> QED BY <3>2, <3>4, <3>5
  <2>2. start + (next' - 1) = start + next
    BY <1>1, <1>2
  <2> QED BY <1>2, <1>3, <2>1, <2>2 DEF Following
<1>8. ThrewHere'
  BY <1>2 DEF ThrewHere
<1> QED BY <1>4, <1>5, <1>6, <1>7, <1>8 DEF EInv

LEMMA NextKeepsEInv == TInv /\ EInv /\ [Next]_vars => EInv'
<1> SUFFICES ASSUME TInv, EInv, [Next]_vars PROVE EInv'
  OBVIOUS
<1>13. start' = start /\ patchLines' = patchLines
  <2>1. CASE Delete \/ Insert \/ Context \/ OtherLine
    BY <2>1 DEF Delete, Insert, Context, OtherLine, Advance
  <2>2. CASE InvalidPatch \/ PastTheEnd \/ Mismatch
    BY <2>2 DEF InvalidPatch, PastTheEnd, Mismatch, Throw
  <2>3. CASE Patched \/ UNCHANGED vars
    BY <2>3 DEF Patched, vars
  <2> QED BY <2>1, <2>2, <2>3 DEF Next
<1> SUFFICES ASSUME InsertOnly(patchLines), start # 0 PROVE EInv'
  BY <1>13 DEF InsertOnly, EInv
<1>0. lines \in Seq(FileLine) /\ Len(lines) \in Nat
  BY LenProperties DEF TInv
<1>1. CASE Delete
  <2>1. next \in 1..Len(patchLines) /\ Patch.op = "-"
    BY <1>1, LoopingIs DEF Delete
  <2> QED BY <2>1, InsertOnlyIs DEF Patch
<1>2. CASE Insert
  <2> DEFINE s == InsertAt(lines, At, NextLine)
  <2>1. Looping /\ At <= Len(lines) /\ Advance(s) /\ Patch.op = "+"
    BY <1>2 DEF Insert
  <2>2. At \in 1..Len(lines) /\ At \in Nat /\ NextLine \in FileLine /\ NextLine.text = Patch.text
    BY <2>1, LoopingIs
  <2>3. /\ Len(s) = Len(lines) + 1
        /\ \A n \in 1..(At - 1) : s[n] = lines[n]
        /\ \A n \in At..Len(lines) : s[n + 1] = lines[n]
    BY <2>2, <1>0, InsertAtIs
  <2>8. s[At] = NextLine
    BY <2>2, <1>0, InsertAtIs
  <2> HIDE DEF s
  <2>4. s[At].text = Text(next)
    BY <2>1, <2>2, <2>8 DEF Text, Patch
  <2>5. Fit(next)
    <3>1. Place(patchLines, next) \in DOMAIN original
      BY <2>1, HereIs DEF Here
    <3>2. patchLines[next].op \notin {" ", "-"}
      BY <2>1 DEF Patch
    <3> QED BY <3>1, <3>2 DEF Fit
  <2>6. At + 1 - 1 = At
    BY <2>2
  <2>7. \A n \in (At + 1 - 1)..Len(lines) : s[n + 1] = lines[n]
    BY <2>3, <2>6
  <2> QED BY <2>1, <2>3, <2>4, <2>5, <2>7, AdvanceKeepsEInv
<1>3. ASSUME Looping, At <= Len(lines), Advance(lines), Patch.op # "+", Patch.op # "-",
             Patch.op = " " => lines[At] = NextLine
      PROVE  EInv'
  <2>1. /\ Here \in DOMAIN original /\ lines[At] = original[Here] /\ At \in Nat
    BY <1>3, HereIs
  <2>2. lines[At].text = Text(next)
    BY <1>3, <2>1 DEF Text, Patch, Here
  <2>3. Fit(next)
    BY <1>3, <2>1 DEF Fit, Here, Patch, NextLine
  <2>4. Len(lines) = Len(lines) + 0 /\ \A n \in (At + 1 - 0)..Len(lines) : lines[n + 0] = lines[n]
    <3>1. \A n \in (At + 1 - 0)..Len(lines) : n + 0 = n
      BY <1>0, <2>1
    <3> QED BY <1>0, <3>1
  <2> QED BY <1>3, <2>2, <2>3, <2>4, AdvanceKeepsEInv
<1>4. CASE Context
  BY <1>3, <1>4 DEF Context
<1>5. CASE OtherLine
  BY <1>3, <1>5 DEF OtherLine
<1>6. ASSUME Looping, Throw, ~Fit(next) PROVE EInv'
  <2>1. next \in DOMAIN patchLines /\ start # 0
    BY <1>6, HereIs
  <2>2. UNCHANGED <<original, start, patchLines, lines, next>>
    BY <1>6 DEF Throw
  <2>3. FitSoFar' /\ Written'
    BY <2>1, <2>2, SameHunk DEF EInv, FitSoFar, Written
  <2>4. Grown' /\ Following'
    BY <2>1, <2>2, SameHunk DEF EInv, Grown, Following, Here, Place
  <2>5. ThrewHere'
    BY <1>6, <2>1, <2>2, SameHunk DEF ThrewHere, Fit, Place
  <2> QED BY <2>3, <2>4, <2>5 DEF EInv
<1>7. CASE PastTheEnd
  <2>1. ~(At <= Len(lines))
    <3>1. At \in Nat
      BY <1>7, HereIs DEF PastTheEnd
    <3> QED BY <1>0, <1>7, <3>1 DEF PastTheEnd
  <2>2. ~Fit(next)
    BY <1>7, <2>1, HereIs DEF PastTheEnd, Fit, Here
  <2> QED BY <1>6, <1>7, <2>2 DEF PastTheEnd
<1>8. CASE Mismatch
  <2>1. lines[At] = original[Here]
    BY <1>8, HereIs DEF Mismatch
  <2>2. ~Fit(next)
    BY <1>8, <2>1 DEF Mismatch, Fit, Here, Patch, NextLine
  <2> QED BY <1>6, <1>8, <2>2 DEF Mismatch
<1>9. CASE InvalidPatch
  BY <1>9 DEF InvalidPatch
<1>10. ASSUME UNCHANGED <<original, start, patchLines, lines, next>>, outcome' = outcome \/ outcome' = "patched"
       PROVE  EInv'
  BY <1>10 DEF EInv, FitSoFar, Grown, Written, Following, ThrewHere, Here, Place, Text, Fit
<1>11. CASE Patched \/ UNCHANGED vars
  BY <1>10, <1>11 DEF Patched, vars
<1> QED BY <1>1, <1>2, <1>4, <1>5, <1>7, <1>8, <1>9, <1>11 DEF Next

LEMMA InitEInv == Init => EInv
<1> SUFFICES ASSUME Init, start # 0 PROVE FitSoFar /\ Grown /\ Written /\ Following /\ ThrewHere
  BY DEF EInv
<1>1. lines = original /\ next = 1 /\ outcome = "none" /\ start \in Nat /\ TInv
  BY InitTInv DEF Init, TInv
<1>2. Len(original) \in Nat /\ DOMAIN original = 1..Len(original)
  BY <1>1, LenProperties DEF TInv
<1>3. Here = start
  BY <1>1, PlaceIs DEF Here
<1>4. 1..(next - 1) = {}
  BY <1>1
<1>5. FitSoFar /\ Written /\ ThrewHere
  BY <1>1, <1>4 DEF FitSoFar, Written, ThrewHere
<1>6. Grown
  BY <1>1, <1>2, <1>3 DEF Grown
<1>7. Following
  <2>1. \A n \in DOMAIN original : start + (1 - 1) + (n - start) = n
    BY <1>1, <1>2
  <2> QED BY <1>1, <1>3, <2>1 DEF Following
<1> QED BY <1>5, <1>6, <1>7

(* A diff that adds lines is applied, exactly, if and only if it fits.      *)
THEOREM InsertionsAreExact == Spec => []InsertOnlyIsExact
<1>1. Init => TInv /\ OInv /\ EInv
  BY InitTInv, InitOInv, InitEInv
<1>2. TInv /\ OInv /\ EInv /\ [Next]_vars => (TInv /\ OInv /\ EInv)'
  BY NextKeepsTInv, NextKeepsOInv, NextKeepsEInv
<1> QED BY <1>1, <1>2, EInvIsExact, PTL DEF Spec
=============================================================================
