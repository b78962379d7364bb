------------------------- MODULE ReaderBufferProofs -------------------------
(***************************************************************************)
(* Lemmas about ReaderBuffer that the proofs of both readers rest on: the  *)
(* ways a state function or a call may leave the buffer keep it the end of *)
(* what was read, with the index inside it.                                *)
(***************************************************************************)
EXTENDS ReaderBuffer, SequenceTheorems, WellFoundedInduction, TLAPS

BufferOK == /\ rest \in Seq(Symbol) /\ fed \in Seq(Symbol) /\ buf \in Seq(Symbol)
            /\ i \in Nat /\ i <= Len(buf)
            /\ BufferIsSuffix

-----------------------------------------------------------------------------
\* What induction over numbers becomes here: a set of them has a least one.
LEMMA LeastOf ==
    ASSUME NEW T, T \subseteq Nat, T # {}
    PROVE  \E n \in T : \A m \in T : n <= m
<1> DEFINE R == OpToRel(<, Nat)
<1>1. IsWellFoundedOn(R, Nat)
  BY NatLessThanWellFounded
<1>2. \A m, n \in Nat : m < n => <<m, n>> \in R
  BY DEF OpToRel
<1> HIDE DEF R
<1>3. PICK n \in T : \A m \in T : ~ (<<m, n>> \in R)
  BY <1>1, WFMin, Zenon
<1>4. ASSUME NEW m \in T
      PROVE  n <= m
  <2>1. m \in Nat /\ n \in Nat
    OBVIOUS
  <2>2. ~(m < n)
    BY <1>2, <1>3, <2>1, Zenon
  <2> QED BY <2>1, <2>2
<1> QED BY <1>4

-----------------------------------------------------------------------------
(* Front and Drop *)

LEMMA FrontType ==
    ASSUME NEW q \in Seq(Symbol), NEW n \in 0..Len(q)
    PROVE  Front(q, n) \in Seq(Symbol) /\ Len(Front(q, n)) = n
  BY DEF Front

LEMMA DropType ==
    ASSUME NEW q \in Seq(Symbol), NEW n \in 0..Len(q)
    PROVE  /\ Drop(q, n) \in Seq(Symbol) /\ Len(Drop(q, n)) = Len(q) - n
           /\ \A k \in 1..(Len(q) - n) : Drop(q, n)[k] = q[n + k]
  BY DEF Drop

LEMMA DropFirst ==
    ASSUME NEW q \in Seq(Symbol), NEW n \in Nat, n < Len(q)
    PROVE  /\ Drop(q, n) \in Seq(Symbol) /\ Len(Drop(q, n)) = Len(q) - n
           /\ Drop(q, n) # <<>> /\ Drop(q, n)[1] = q[n + 1]
<1>1. Len(q) \in Nat /\ n \in 0..Len(q) /\ 1 \in 1..(Len(q) - n)
  BY LenProperties
<1>2. /\ Drop(q, n) \in Seq(Symbol) /\ Len(Drop(q, n)) = Len(q) - n
      /\ Drop(q, n)[1] = q[n + 1]
  BY <1>1, DropType
<1> QED BY <1>1, <1>2, EmptySeq

LEMMA DropDrop ==
    ASSUME NEW q \in Seq(Symbol), NEW m \in 0..Len(q), NEW n \in 0..(Len(q) - m)
    PROVE  /\ m + n \in 0..Len(q)
           /\ Drop(Drop(q, m), n) = Drop(q, m + n)
<1>0. Len(q) \in Nat /\ m \in Nat /\ n \in Nat
  BY LenProperties
<1>1. m + n \in 0..Len(q)
  OBVIOUS
<1>2. Drop(q, m) \in Seq(Symbol) /\ Len(Drop(q, m)) = Len(q) - m
  BY DropType
<1>3. /\ Drop(Drop(q, m), n) \in Seq(Symbol) /\ Drop(q, m + n) \in Seq(Symbol)
      /\ Len(Drop(Drop(q, m), n)) = Len(q) - m - n
      /\ Len(Drop(q, m + n)) = Len(q) - m - n
  <2>1. n \in 0..Len(Drop(q, m))
    BY <1>2
  <2>2. /\ Drop(Drop(q, m), n) \in Seq(Symbol)
        /\ Len(Drop(Drop(q, m), n)) = Len(Drop(q, m)) - n
    BY <1>2, <2>1, DropType
  <2>3. Drop(q, m + n) \in Seq(Symbol) /\ Len(Drop(q, m + n)) = Len(q) - (m + n)
    BY <1>1, DropType
  <2> QED BY <1>0, <1>2, <2>2, <2>3
<1>4. \A k \in 1..(Len(q) - m - n) : Drop(Drop(q, m), n)[k] = Drop(q, m + n)[k]
  <2> TAKE k \in 1..(Len(q) - m - n)
  <2>1. Drop(Drop(q, m), n)[k] = Drop(q, m)[n + k]
    <3>1. n \in 0..Len(Drop(q, m)) /\ k \in 1..(Len(Drop(q, m)) - n)
      BY <1>2
    <3> QED BY <1>2, <3>1, DropType
  <2>2. Drop(q, m)[n + k] = q[m + (n + k)]
    <3>1. n + k \in 1..(Len(q) - m)
      OBVIOUS
    <3> QED BY <3>1, DropType
  <2>3. Drop(q, m + n)[k] = q[(m + n) + k]
    BY <1>1, DropType
  <2> QED BY <2>1, <2>2, <2>3
<1> QED BY <1>1, <1>3, <1>4, SeqEqual

LEMMA DropConcat ==
    ASSUME NEW q \in Seq(Symbol), NEW r \in Seq(Symbol), NEW m \in 0..Len(q)
    PROVE  Drop(q, m) \o r = Drop(q \o r, m)
<1> DEFINE d == Drop(q, m)
           s == q \o r
<1>0. Len(q) \in Nat /\ Len(r) \in Nat /\ m \in Nat /\ m <= Len(q)
  BY LenProperties
<1>1. /\ s \in Seq(Symbol) /\ Len(s) = Len(q) + Len(r)
      /\ \A k \in 1..(Len(q) + Len(r)) : s[k] = IF k <= Len(q) THEN q[k] ELSE r[k - Len(q)]
  BY ConcatProperties
<1>2. /\ d \in Seq(Symbol) /\ Len(d) = Len(q) - m
      /\ \A k \in 1..(Len(q) - m) : d[k] = q[m + k]
  BY DropType
<1>3. m \in 0..Len(s)
  BY <1>0, <1>1
<1> HIDE DEF d, s
<1>4. /\ Drop(s, m) \in Seq(Symbol) /\ Len(Drop(s, m)) = Len(s) - m
      /\ \A k \in 1..(Len(s) - m) : Drop(s, m)[k] = s[m + k]
  BY <1>1, <1>3, DropType
<1>5. /\ d \o r \in Seq(Symbol) /\ Len(d \o r) = Len(d) + Len(r)
      /\ \A k \in 1..(Len(d) + Len(r)) :
            (d \o r)[k] = IF k <= Len(d) THEN d[k] ELSE r[k - Len(d)]
  BY <1>2, ConcatProperties
<1>6. Len(d \o r) = Len(Drop(s, m))
  BY <1>0, <1>1, <1>2, <1>4, <1>5
<1>7. ASSUME NEW k \in 1..Len(d \o r)
      PROVE  (d \o r)[k] = Drop(s, m)[k]
  <2>1. k \in Nat /\ k >= 1 /\ k <= Len(q) - m + Len(r)
    BY <1>0, <1>2, <1>5
  <2>2. Drop(s, m)[k] = s[m + k] /\ m + k \in 1..(Len(q) + Len(r))
    BY <1>0, <1>1, <1>4, <2>1
  <2>3. CASE k <= Len(d)
    <3>1. (d \o r)[k] = q[m + k]
      BY <1>0, <1>2, <1>5, <2>1, <2>3
    <3>2. m + k <= Len(q)
      BY <1>0, <1>2, <2>1, <2>3
    <3> QED BY <1>1, <2>2, <3>1, <3>2
  <2>4. CASE ~(k <= Len(d))
    <3>1. (d \o r)[k] = r[k - Len(d)]
      BY <1>0, <1>2, <1>5, <2>1, <2>4
    <3>2. ~(m + k <= Len(q)) /\ (m + k) - Len(q) = k - Len(d)
      BY <1>0, <1>2, <2>1, <2>4
    <3> QED BY <1>1, <2>2, <3>1, <3>2
  <2> QED BY <2>3, <2>4
<1>8. d \o r = Drop(s, m)
  BY <1>4, <1>5, <1>6, <1>7, SeqEqual
<1> QED BY <1>8 DEF d, s

LEMMA FrontConcat ==
    ASSUME NEW q \in Seq(Symbol), NEW r \in Seq(Symbol), NEW n \in 0..Len(q)
    PROVE  Front(q \o r, n) = Front(q, n)
<1>1. CASE n = 0
  BY <1>1, ConcatProperties, SubSeqEmpty DEF Front
<1>2. CASE n # 0
  <2>1. n \in 1..Len(q) /\ 1 \in 1..Len(q)
    BY <1>2, LenProperties
  <2> QED BY <2>1, SubSeqOfConcat1 DEF Front
<1> QED BY <1>1, <1>2

LEMMA FrontAndDrop ==
    ASSUME NEW q \in Seq(Symbol), NEW n \in 0..Len(q)
    PROVE  Front(q, n) \o Drop(q, n) = q
<1> DEFINE f == Front(q, n)
           d == Drop(q, n)
           s == f \o d
<1>1. Len(q) \in Nat /\ n \in Nat /\ n <= Len(q)
  BY LenProperties
<1>2. f \in Seq(Symbol) /\ Len(f) = n
  BY FrontType
<1>3. /\ d \in Seq(Symbol) /\ Len(d) = Len(q) - n
      /\ \A k \in 1..(Len(q) - n) : d[k] = q[n + k]
  BY DropType
<1>4. \A k \in 1..n : f[k] = q[k]
  BY <1>1 DEF Front
<1> HIDE DEF f, d
<1>5. /\ s \in Seq(Symbol) /\ Len(s) = Len(f) + Len(d)
      /\ \A k \in 1..(Len(f) + Len(d)) : s[k] = IF k <= Len(f) THEN f[k] ELSE d[k - Len(f)]
  BY <1>2, <1>3, ConcatProperties
<1> HIDE DEF s
<1>6. Len(s) = Len(q)
  BY <1>1, <1>2, <1>3, <1>5
<1>7. ASSUME NEW k \in 1..Len(q)
      PROVE  s[k] = q[k]
  <2>1. CASE k <= n
    BY <1>1, <1>2, <1>3, <1>4, <1>5, <2>1
  <2>2. CASE ~(k <= n)
    <3>1. k - n \in 1..(Len(q) - n) /\ n + (k - n) = k
      BY <1>1, <2>2
    <3>2. s[k] = d[k - n]
      BY <1>1, <1>2, <1>3, <1>5, <2>2
    <3> QED BY <1>3, <3>1, <3>2
  <2> QED BY <2>1, <2>2
<1>8. s = q
  BY <1>5, <1>6, <1>7, SeqEqual
<1> QED BY <1>8 DEF s, f, d

LEMMA ConcatConcat ==
    ASSUME NEW q \in Seq(Symbol), NEW r \in Seq(Symbol), NEW x \in Seq(Symbol)
    PROVE  (q \o r) \o x = q \o (r \o x)
  BY ConcatAssociative

\* A piece appended to a sequence leaves its symbols where they are.
LEMMA ConcatKeeps ==
    ASSUME NEW q \in Seq(Symbol), NEW r \in Seq(Symbol)
    PROVE  /\ q \o r \in Seq(Symbol)
           /\ Len(q) \in Nat /\ Len(r) \in Nat /\ Len(q \o r) = Len(q) + Len(r)
           /\ \A k \in 1..Len(q) : (q \o r)[k] = q[k]
<1>1. Len(q) \in Nat /\ Len(r) \in Nat
  BY LenProperties
<1> QED BY <1>1, ConcatProperties

-----------------------------------------------------------------------------
(* The parts of a stream *)

LEMMA FirstIs ==
    ASSUME NEW S, S \subseteq Nat, NEW e \in S, \A f \in S : e <= f
    PROVE  FirstOf(S) = e
<1>1. \A e1, e2 \in S : (\A f \in S : e1 <= f) /\ (\A f \in S : e2 <= f) => e1 = e2
  OBVIOUS
<1> QED BY <1>1 DEF FirstOf

LEMMA LastIs ==
    ASSUME NEW S, S \subseteq Nat, NEW e \in S, \A f \in S : f <= e
    PROVE  LastOf(S) = e
<1>1. \A e1, e2 \in S : (\A f \in S : f <= e1) /\ (\A f \in S : f <= e2) => e1 = e2
  OBVIOUS
<1> QED BY <1>1 DEF LastOf

\* k is where the empty lines at the beginning end: what follows is not one.
Leads(q, k) == /\ k \in 0..Len(q) /\ EmptyLines(q, k)
               /\ k < Len(q) => /\ q[k + 1] # "LF"
                                /\ ~(q[k + 1] = "CR" /\ k + 1 < Len(q) /\ q[k + 2] = "LF")

LEMMA SkippedIs ==
    ASSUME NEW q \in Seq(Symbol), NEW k, Leads(q, k)
    PROVE  Skipped(q) = LET after == Drop(q, k)
                        IN  IF after # <<>> /\ after[1] = "CR" THEN Drop(after, 1) ELSE after
<1> DEFINE S == {m \in 0..Len(q) : EmptyLines(q, m)}
<1>1. k \in S /\ S \subseteq Nat /\ Len(q) \in Nat
  BY LenProperties DEF Leads
<1>2. ASSUME NEW m \in S, m > k
      PROVE  FALSE
  <2>1. m \in Nat /\ k \in Nat /\ m <= Len(q) /\ k + 1 \in 1..m
    BY <1>1, <1>2
  <2>2. q[k + 1] = "LF" \/ (q[k + 1] = "CR" /\ k + 1 < m /\ q[(k + 1) + 1] = "LF")
    BY <2>1 DEF EmptyLines
  <2> QED BY <1>1, <2>1, <2>2 DEF Leads
<1>3. \A m \in S : m <= k
  BY <1>1, <1>2
<1> HIDE DEF S
<1>4. LastOf(S) = k
  BY <1>1, <1>3, LastIs
<1> QED BY <1>4 DEF Skipped, S

\* A symbol of a piece that is appended is not looked at once the empty lines
\* have ended.
LEMMA LeadsConcat ==
    ASSUME NEW q \in Seq(Symbol), NEW r \in Seq(Symbol), NEW k, Leads(q, k), k < Len(q),
           q[k + 1] = "CR" => k + 1 < Len(q)
    PROVE  Leads(q \o r, k)
<1> DEFINE s == q \o r
<1>1. /\ Len(q) \in Nat /\ Len(r) \in Nat /\ Len(s) = Len(q) + Len(r)
      /\ \A l \in 1..Len(q) : s[l] = q[l]
  BY ConcatKeeps
<1> HIDE DEF s
<1>2. k \in Nat /\ k + 1 \in 1..Len(q) /\ k \in 0..Len(s)
  BY <1>1 DEF Leads
<1>3. \A l \in 1..k : s[l] = q[l] /\ (l < k => s[l + 1] = q[l + 1])
  BY <1>1, <1>2
<1>4. EmptyLines(s, k)
  BY <1>2, <1>3 DEF EmptyLines, Leads
<1>5. s[k + 1] = q[k + 1] /\ (k + 1 < Len(q) => s[k + 2] = q[k + 2])
  BY <1>1, <1>2
<1> QED BY <1>1, <1>2, <1>4, <1>5 DEF Leads, s

\* One more line feed, or one more CR and line feed, is one more empty line.
LEMMA OneMoreEmptyLine ==
    ASSUME NEW q \in Seq(Symbol), NEW k \in Nat, q[k + 1] = "LF",
           \/ EmptyLines(q, k)
           \/ k > 0 /\ EmptyLines(q, k - 1) /\ q[k] = "CR"
    PROVE  EmptyLines(q, k + 1)
<1> SUFFICES ASSUME NEW l \in 1..(k + 1)
             PROVE  q[l] = "LF" \/ (q[l] = "CR" /\ l < k + 1 /\ q[l + 1] = "LF")
  BY DEF EmptyLines
<1>1. CASE EmptyLines(q, k)
  BY <1>1 DEF EmptyLines
<1>2. CASE k > 0 /\ EmptyLines(q, k - 1) /\ q[k] = "CR"
  BY <1>2 DEF EmptyLines
<1> QED BY <1>1, <1>2

LEMMA EmptyLinesConcat ==
    ASSUME NEW q \in Seq(Symbol), NEW r \in Seq(Symbol), NEW k \in 0..Len(q), EmptyLines(q, k)
    PROVE  EmptyLines(q \o r, k)
<1>1. Len(q) \in Nat /\ \A l \in 1..Len(q) : (q \o r)[l] = q[l]
  BY ConcatKeeps
<1>2. \A l \in 1..k : (q \o r)[l] = q[l] /\ (l < k => (q \o r)[l + 1] = q[l + 1])
  BY <1>1
<1> QED BY <1>2 DEF EmptyLines

\* Where the skipping ends does not depend on what follows.
LEMMA SkipEnds ==
    ASSUME NEW q \in Seq(Symbol), NEW x \in Seq(Symbol), NEW k \in 0..Len(q), k < Len(q),
           \/ EmptyLines(q, k) /\ q[k + 1] \notin {"CR", "LF"}
           \/ k > 0 /\ EmptyLines(q, k - 1) /\ q[k] = "CR" /\ q[k + 1] # "LF"
    PROVE  Skipped(q \o x) = Drop(q, k) \o x
<1>1. /\ q \o x \in Seq(Symbol) /\ Len(q) \in Nat /\ Len(x) \in Nat
      /\ Len(q \o x) = Len(q) + Len(x) /\ \A l \in 1..Len(q) : (q \o x)[l] = q[l]
  BY ConcatKeeps
<1>2. Drop(q, k) \o x = Drop(q \o x, k)
  BY DropConcat
<1>3. CASE EmptyLines(q, k) /\ q[k + 1] \notin {"CR", "LF"}
  <2>1. Leads(q, k)
    BY <1>3 DEF Leads
  <2>2. Leads(q \o x, k)
    BY <1>3, <2>1, LeadsConcat
  <2> DEFINE after == Drop(q \o x, k)
  <2>3. k \in Nat /\ k < Len(q \o x) /\ k + 1 \in 1..Len(q)
    BY <1>1
  <2>4. after[1] = (q \o x)[k + 1]
    BY <1>1, <2>3, DropFirst
  <2>5. after[1] # "CR"
    BY <1>1, <1>3, <2>3, <2>4
  <2> QED BY <1>1, <1>2, <2>2, <2>5, SkippedIs
<1>4. CASE k > 0 /\ EmptyLines(q, k - 1) /\ q[k] = "CR" /\ q[k + 1] # "LF"
  <2>1. k - 1 \in 0..Len(q) /\ k - 1 < Len(q) /\ (k - 1) + 1 = k /\ (k - 1) + 2 = k + 1
    BY <1>1, <1>4
  <2>2. Leads(q, k - 1)
    BY <1>4, <2>1 DEF Leads
  <2>3. Leads(q \o x, k - 1)
    BY <1>1, <2>1, <2>2, LeadsConcat
  <2> DEFINE after == Drop(q \o x, k - 1)
  <2>4. /\ k - 1 \in 0..Len(q \o x) /\ 1 \in 0..(Len(q \o x) - (k - 1)) /\ k \in 1..Len(q)
        /\ k - 1 \in Nat /\ k - 1 < Len(q \o x)
    BY <1>1, <1>4
  <2>5. after[1] = "CR" /\ after # <<>>
    <3>1. after[1] = (q \o x)[(k - 1) + 1] /\ after # <<>>
      BY <1>1, <2>4, DropFirst
    <3> QED BY <1>1, <1>4, <2>1, <2>4, <3>1
  <2>6. Drop(after, 1) = Drop(q \o x, k)
    <3>1. Drop(after, 1) = Drop(q \o x, (k - 1) + 1)
      BY <1>1, <2>4, DropDrop
    <3> QED BY <2>1, <3>1
  <2> QED BY <1>1, <1>2, <2>3, <2>5, <2>6, SkippedIs
<1> QED BY <1>3, <1>4

\* Nothing is left of a stream that may still be all empty lines.
LEMMA SkipGoesOn ==
    ASSUME NEW q \in Seq(Symbol),
           \/ EmptyLines(q, Len(q))
           \/ Len(q) > 0 /\ EmptyLines(q, Len(q) - 1) /\ q[Len(q)] = "CR"
    PROVE  Skipped(q) = <<>>
<1>1. Len(q) \in Nat
  BY LenProperties
<1>2. CASE EmptyLines(q, Len(q))
  <2>1. Leads(q, Len(q)) /\ Drop(q, Len(q)) = <<>>
    BY <1>1, <1>2, SubSeqEmpty DEF Leads, Drop
  <2> QED BY <2>1, SkippedIs
<1>3. CASE Len(q) > 0 /\ EmptyLines(q, Len(q) - 1) /\ q[Len(q)] = "CR"
  <2> DEFINE k == Len(q) - 1
             after == Drop(q, k)
  <2>1. k \in 0..Len(q) /\ k + 1 = Len(q) /\ k \in Nat /\ k < Len(q) /\ Len(q) - k = 1
    BY <1>1, <1>3
  <2>2. Leads(q, k)
    BY <1>3, <2>1 DEF Leads
  <2>3. after \in Seq(Symbol) /\ Len(after) = 1 /\ after # <<>> /\ after[1] = "CR"
    BY <1>3, <2>1, DropFirst
  <2> HIDE DEF after
  <2>4. Drop(after, 1) = <<>>
    BY <2>3, SubSeqEmpty DEF Drop
  <2> QED BY <2>2, <2>3, <2>4, SkippedIs DEF after
<1> QED BY <1>2, <1>3

-----------------------------------------------------------------------------
(* Looking for the blank line that ends the headers.  The reader has passed *)
(* k symbols: none of them ends a blank line, and it is in a line that may  *)
(* still be blank, or in one that is not.                                   *)

NoBlankLine(q, k) == \A e \in 1..k : e \notin BlankLines(q)

MayBeBlank(q, k) == /\ NoBlankLine(q, k)
                    /\ \E b \in LineStarts(q) : b <= k + 1 /\ \A l \in b..k : q[l] = "CR"

NotBlank(q, k) == /\ NoBlankLine(q, k)
                  /\ \E j \in 1..(k + 1) : /\ j <= Len(q) /\ q[j] \notin {"CR", "LF"}
                                           /\ \A l \in j..k : q[l] # "LF"

\* The first blank line ends at k.
IsFirstBlank(q, k) == k \in BlankLines(q) /\ NoBlankLine(q, k - 1)

LEMMA StartsMayBeBlank ==
    ASSUME NEW q \in Seq(Symbol)
    PROVE  MayBeBlank(q, 0)
  BY DEF MayBeBlank, NoBlankLine, LineStarts

LEMMA BlankHasItsLF ==
    ASSUME NEW q \in Seq(Symbol), NEW e \in BlankLines(q)
    PROVE  e \in 1..Len(q) /\ q[e] = "LF"
  BY LenProperties DEF BlankLines, LineEnds

LEMMA ScanCR ==
    ASSUME NEW q \in Seq(Symbol), NEW k \in Nat, k < Len(q), MayBeBlank(q, k), q[k + 1] = "CR"
    PROVE  MayBeBlank(q, k + 1)
<1>1. NoBlankLine(q, k + 1)
  <2> SUFFICES ASSUME NEW e \in 1..(k + 1), e \in BlankLines(q) PROVE FALSE
    BY DEF NoBlankLine
  <2>1. q[e] = "LF"
    BY BlankHasItsLF
  <2> QED BY <2>1 DEF MayBeBlank, NoBlankLine
<1>2. PICK b \in LineStarts(q) : b <= k + 1 /\ \A l \in b..k : q[l] = "CR"
  BY DEF MayBeBlank
<1>3. b \in Nat
  BY LenProperties DEF LineStarts, LineEnds
<1>4. b <= (k + 1) + 1 /\ \A l \in b..(k + 1) : q[l] = "CR"
  BY <1>2, <1>3
<1> QED BY <1>1, <1>4 DEF MayBeBlank

LEMMA ScanBlankLine ==
    ASSUME NEW q \in Seq(Symbol), NEW k \in Nat, k < Len(q), MayBeBlank(q, k), q[k + 1] = "LF"
    PROVE  IsFirstBlank(q, k + 1)
<1>1. PICK b \in LineStarts(q) : b <= k + 1 /\ \A l \in b..k : q[l] = "CR"
  BY DEF MayBeBlank
<1>2. k + 1 \in LineEnds(q) /\ (k + 1) - 1 = k
  BY LenProperties DEF LineEnds
<1> QED BY <1>1, <1>2 DEF MayBeBlank, IsFirstBlank, BlankLines

LEMMA ScanOther ==
    ASSUME NEW q \in Seq(Symbol), NEW k \in Nat, k < Len(q), MayBeBlank(q, k),
           q[k + 1] \notin {"CR", "LF"}
    PROVE  NotBlank(q, k)
<1>1. k + 1 \in 1..(k + 1) /\ k + 1 <= Len(q) /\ \A l \in (k + 1)..k : q[l] # "LF"
  BY LenProperties
<1> QED BY <1>1 DEF MayBeBlank, NotBlank

LEMMA ScanInside ==
    ASSUME NEW q \in Seq(Symbol), NEW k \in Nat, k < Len(q), NotBlank(q, k), q[k + 1] # "LF"
    PROVE  NotBlank(q, k + 1)
<1>1. NoBlankLine(q, k + 1)
  <2> SUFFICES ASSUME NEW e \in 1..(k + 1), e \in BlankLines(q) PROVE FALSE
    BY DEF NoBlankLine
  <2>1. q[e] = "LF"
    BY BlankHasItsLF
  <2> QED BY <2>1 DEF NotBlank, NoBlankLine
<1>2. PICK j \in 1..(k + 1) : /\ j <= Len(q) /\ q[j] \notin {"CR", "LF"}
                              /\ \A l \in j..k : q[l] # "LF"
  BY DEF NotBlank
<1>3. j \in 1..((k + 1) + 1) /\ \A l \in j..(k + 1) : q[l] # "LF"
  BY <1>2
<1> QED BY <1>1, <1>2, <1>3 DEF NotBlank

LEMMA ScanLineEnd ==
    ASSUME NEW q \in Seq(Symbol), NEW k \in Nat, k < Len(q), NotBlank(q, k), q[k + 1] = "LF"
    PROVE  MayBeBlank(q, k + 1)
<1>1. PICK j \in 1..(k + 1) : /\ j <= Len(q) /\ q[j] \notin {"CR", "LF"}
                              /\ \A l \in j..k : q[l] # "LF"
  BY DEF NotBlank
<1>2. j \in Nat /\ j <= k /\ Len(q) \in Nat
  BY <1>1, LenProperties
<1>3. k + 1 \notin BlankLines(q)
  <2> SUFFICES ASSUME NEW b \in LineStarts(q), b <= k + 1, \A l \in b..((k + 1) - 1) : q[l] = "CR"
               PROVE  FALSE
    BY DEF BlankLines
  <2>1. b = 1 \/ (b - 1 \in Nat /\ q[b - 1] = "LF" /\ b \in Nat)
    BY <1>2 DEF LineStarts, LineEnds
  <2>2. CASE b <= j
    <3>1. j \in b..((k + 1) - 1)
      BY <1>2, <2>1, <2>2
    <3> QED BY <1>1, <3>1
  <2>3. CASE ~(b <= j)
    <3>1. b - 1 \in j..k /\ q[b - 1] = "LF"
      BY <1>2, <2>1, <2>3
    <3> QED BY <1>1, <3>1
  <2> QED BY <2>2, <2>3
<1>4. NoBlankLine(q, k + 1)
  <2> SUFFICES ASSUME NEW e \in 1..(k + 1), e \in BlankLines(q) PROVE FALSE
    BY DEF NoBlankLine
  <2> QED BY <1>3 DEF NotBlank, NoBlankLine
<1>5. (k + 1) + 1 \in LineStarts(q) /\ \A l \in ((k + 1) + 1)..(k + 1) : q[l] = "CR"
  BY <1>2 DEF LineStarts, LineEnds
<1> QED BY <1>4, <1>5 DEF MayBeBlank

\* What is known of the lines passed stays so when a piece is appended.
LEMMA LinesConcat ==
    ASSUME NEW q \in Seq(Symbol), NEW r \in Seq(Symbol)
    PROVE  /\ \A e \in 1..Len(q) : e \in LineEnds(q \o r) <=> e \in LineEnds(q)
           /\ \A b \in 1..(Len(q) + 1) : b \in LineStarts(q \o r) <=> b \in LineStarts(q)
           /\ \A e \in 1..Len(q) : e \in BlankLines(q \o r) <=> e \in BlankLines(q)
<1> DEFINE s == q \o r
<1>1. /\ s \in Seq(Symbol) /\ Len(q) \in Nat /\ Len(r) \in Nat /\ Len(s) = Len(q) + Len(r)
      /\ \A k \in 1..Len(q) : s[k] = q[k]
  BY ConcatKeeps
<1> HIDE DEF s
<1>2. DOMAIN s = 1..Len(s) /\ DOMAIN q = 1..Len(q)
  BY <1>1, LenProperties
<1>3. \A e \in 1..Len(q) : e \in LineEnds(s) <=> e \in LineEnds(q)
  BY <1>1, <1>2 DEF LineEnds
<1>4. LineEnds(s) \subseteq 1..Len(s) /\ LineEnds(q) \subseteq 1..Len(q)
  BY <1>2 DEF LineEnds
<1>5. ASSUME NEW b \in 1..(Len(q) + 1)
      PROVE  b \in LineStarts(s) <=> b \in LineStarts(q)
  <2>1. CASE b = 1
    BY <2>1 DEF LineStarts
  <2>2. CASE b # 1
    <3>1. b - 1 \in 1..Len(q) /\ (b - 1) + 1 = b
      BY <1>1, <2>2
    <3>2. b \in LineStarts(s) <=> b - 1 \in LineEnds(s)
      BY <1>1, <1>4, <2>2, <3>1 DEF LineStarts
    <3>3. b \in LineStarts(q) <=> b - 1 \in LineEnds(q)
      BY <1>1, <1>4, <2>2, <3>1 DEF LineStarts
    <3> QED BY <1>3, <3>1, <3>2, <3>3
  <2> QED BY <2>1, <2>2
<1>6. ASSUME NEW e \in 1..Len(q)
      PROVE  e \in BlankLines(s) <=> e \in BlankLines(q)
  <2>1. \A b : b \in LineStarts(s) \/ b \in LineStarts(q) => b \in Nat /\ b >= 1
    BY <1>1, <1>4 DEF LineStarts
  <2>2. \A b : b <= e /\ (b \in LineStarts(s) \/ b \in LineStarts(q)) =>
           /\ b \in LineStarts(s) <=> b \in LineStarts(q)
           /\ \A k \in b..(e - 1) : s[k] = q[k]
    BY <1>1, <1>5, <2>1
  <2> QED BY <1>3, <2>2 DEF BlankLines
<1> QED BY <1>3, <1>5, <1>6 DEF s

LEMMA ScanConcat ==
    ASSUME NEW q \in Seq(Symbol), NEW r \in Seq(Symbol), NEW k \in 0..Len(q)
    PROVE  /\ MayBeBlank(q, k) => MayBeBlank(q \o r, k)
           /\ NotBlank(q, k) => NotBlank(q \o r, k)
           /\ IsFirstBlank(q, k) => IsFirstBlank(q \o r, k)
<1> DEFINE s == q \o r
<1>1. /\ s \in Seq(Symbol) /\ Len(q) \in Nat /\ Len(r) \in Nat /\ Len(s) = Len(q) + Len(r)
      /\ \A l \in 1..Len(q) : s[l] = q[l]
  BY ConcatKeeps
<1>2. /\ \A b \in 1..(Len(q) + 1) : b \in LineStarts(s) <=> b \in LineStarts(q)
      /\ \A e \in 1..Len(q) : e \in BlankLines(s) <=> e \in BlankLines(q)
  BY LinesConcat
<1> HIDE DEF s
<1>3. \A n \in 0..Len(q) : NoBlankLine(q, n) => NoBlankLine(s, n)
  BY <1>1, <1>2 DEF NoBlankLine
<1>4. ASSUME MayBeBlank(q, k)
      PROVE  MayBeBlank(s, k)
  <2>1. PICK b \in LineStarts(q) : b <= k + 1 /\ \A l \in b..k : q[l] = "CR"
    BY <1>4 DEF MayBeBlank
  <2>2. b \in 1..(Len(q) + 1)
    BY <1>1, <2>1, LenProperties DEF LineStarts, LineEnds
  <2>3. b \in LineStarts(s)
    BY <1>2, <2>1, <2>2
  <2>4. \A l \in b..k : l \in 1..Len(q)
    BY <1>1, <2>2
  <2>5. \A l \in b..k : s[l] = "CR"
    BY <1>1, <2>1, <2>4
  <2> QED BY <1>3, <1>4, <2>1, <2>3, <2>5 DEF MayBeBlank
<1>5. ASSUME NotBlank(q, k)
      PROVE  NotBlank(s, k)
  <2>1. PICK j \in 1..(k + 1) : /\ j <= Len(q) /\ q[j] \notin {"CR", "LF"}
                                /\ \A l \in j..k : q[l] # "LF"
    BY <1>5 DEF NotBlank
  <2>2. j <= Len(s) /\ s[j] \notin {"CR", "LF"} /\ \A l \in j..k : s[l] # "LF"
    BY <1>1, <2>1
  <2> QED BY <1>3, <1>5, <2>2 DEF NotBlank
<1>6. ASSUME IsFirstBlank(q, k)
      PROVE  IsFirstBlank(s, k)
  <2>1. k \in 1..Len(q)
    BY <1>6, BlankHasItsLF DEF IsFirstBlank
  <2>2. k - 1 \in 0..Len(q)
    BY <1>1, <2>1
  <2> QED BY <1>2, <1>3, <1>6, <2>1, <2>2 DEF IsFirstBlank
<1> QED BY <1>4, <1>5, <1>6 DEF s

\* The first line ends at k.
IsFirstLF(q, k) == k \in LineEnds(q) /\ \A l \in 1..(k - 1) : q[l] # "LF"

LEMMA FirstLFConcat ==
    ASSUME NEW q \in Seq(Symbol), NEW r \in Seq(Symbol), NEW k, IsFirstLF(q, k)
    PROVE  IsFirstLF(q \o r, k)
<1>1. Len(q) \in Nat /\ \A l \in 1..Len(q) : (q \o r)[l] = q[l]
  BY ConcatKeeps
<1>2. k \in 1..Len(q)
  BY LenProperties DEF IsFirstLF, LineEnds
<1>3. k \in LineEnds(q \o r)
  BY <1>2, LinesConcat DEF IsFirstLF
<1> QED BY <1>1, <1>2, <1>3 DEF IsFirstLF

LEMMA FirstLFIs ==
    ASSUME NEW q \in Seq(Symbol), NEW k, IsFirstLF(q, k)
    PROVE  FirstOf(LineEnds(q)) = k /\ LineEnds(q) # {} /\ k \in 1..Len(q)
<1>1. LineEnds(q) \subseteq Nat /\ k \in LineEnds(q) /\ k \in 1..Len(q) /\ Len(q) \in Nat
  BY LenProperties DEF LineEnds, IsFirstLF
<1>2. ASSUME NEW e \in LineEnds(q)
      PROVE  k <= e
  <2>1. e \in 1..Len(q) /\ q[e] = "LF"
    BY LenProperties DEF LineEnds
  <2> QED BY <1>1, <2>1 DEF IsFirstLF
<1> QED BY <1>1, <1>2, FirstIs

LEMMA FirstBlankIs ==
    ASSUME NEW q \in Seq(Symbol), NEW k, IsFirstBlank(q, k)
    PROVE  FirstOf(BlankLines(q)) = k /\ BlankLines(q) # {} /\ k \in 1..Len(q)
<1>1. k \in BlankLines(q) /\ Len(q) \in Nat /\ \A e \in BlankLines(q) : e \in 1..Len(q)
  BY BlankHasItsLF, LenProperties DEF IsFirstBlank
<1>2. ASSUME NEW e \in BlankLines(q)
      PROVE  k <= e
  BY <1>1 DEF IsFirstBlank, NoBlankLine
<1>3. BlankLines(q) \subseteq Nat
  BY <1>1
<1> QED BY <1>1, <1>2, <1>3, FirstIs

-----------------------------------------------------------------------------
(* What may happen to the buffer *)

LEMMA BufferStarts ==
    ASSUME BufferInit
    PROVE  BufferOK /\ st = "SKIP_EMPTY_LINES" /\ run = FALSE
<1>1. /\ rest \in Seq(Symbol) /\ fed = <<>> /\ buf = <<>> /\ i = 0
      /\ st = "SKIP_EMPTY_LINES" /\ run = FALSE
  BY StreamAssumption DEF BufferInit
<1>2. <<>> \in Seq(Symbol) /\ Len(<<>>) = 0 /\ Drop(<<>>, 0) = <<>>
  BY DEF Drop
<1>3. BufferIsSuffix
  BY <1>1, <1>2 DEF BufferIsSuffix
<1> QED BY <1>1, <1>2, <1>3 DEF BufferOK

LEMMA FlushStep ==
    ASSUME BufferOK, NEW n \in 0..Len(buf), NEW next, Flush(n, next), UNCHANGED <<rest, fed>>
    PROVE  BufferOK' /\ i' = 0 /\ st' = next
<1>1. buf' = Drop(buf, n) /\ i' = 0 /\ st' = next
  BY DEF Flush
<1>2. /\ rest \in Seq(Symbol) /\ buf \in Seq(Symbol) /\ fed \in Seq(Symbol)
      /\ rest' = rest /\ fed' = fed
  BY DEF BufferOK
<1>3. PICK k \in 0..Len(fed) : buf = Drop(fed, k)
  BY DEF BufferOK, BufferIsSuffix
<1>4. Len(buf) = Len(fed) - k
  BY <1>2, <1>3, DropType
<1>5. k + n \in 0..Len(fed) /\ buf' = Drop(fed, k + n)
  BY <1>1, <1>2, <1>3, <1>4, DropDrop
<1>6. BufferIsSuffix'
  BY <1>2, <1>5 DEF BufferIsSuffix
<1>7. buf' \in Seq(Symbol) /\ i' \in Nat /\ i' <= Len(buf')
  BY <1>1, <1>2, DropType, LenProperties
<1> QED BY <1>1, <1>2, <1>6, <1>7 DEF BufferOK

LEMMA StayStep ==
    ASSUME BufferOK, UNCHANGED <<rest, fed, buf, i>>
    PROVE  BufferOK'
  BY DEF BufferOK, BufferIsSuffix

LEMMA AdvanceStep ==
    ASSUME BufferOK, i < Len(buf), NEW next, Advance(next), UNCHANGED <<rest, fed>>
    PROVE  BufferOK' /\ st' = next
<1>1. BufferIsSuffix'
  BY DEF BufferOK, BufferIsSuffix, Advance
<1>2. i' \in Nat /\ i' <= Len(buf')
  BY LenProperties DEF BufferOK, Advance
<1> QED BY <1>1, <1>2 DEF BufferOK, Advance

LEMMA FeedStep ==
    ASSUME BufferOK, Feed
    PROVE  BufferOK' /\ i' = i /\ st' = st /\ run' = TRUE
<1>1. /\ rest \in Seq(Symbol) /\ fed \in Seq(Symbol) /\ buf \in Seq(Symbol)
      /\ i \in Nat /\ i <= Len(buf) /\ i' = i /\ st' = st /\ run' = TRUE
  BY DEF BufferOK, Feed
<1>2. PICK n \in 1..Len(rest) : /\ buf' = buf \o Front(rest, n)
                                /\ fed' = fed \o Front(rest, n)
                                /\ rest' = Drop(rest, n)
  BY DEF Feed
<1>3. Front(rest, n) \in Seq(Symbol) /\ rest' \in Seq(Symbol)
  BY <1>1, <1>2, FrontType, DropType
<1>4. /\ buf' \in Seq(Symbol) /\ fed' \in Seq(Symbol)
      /\ Len(buf') >= Len(buf) /\ Len(fed') >= Len(fed)
  BY <1>1, <1>2, <1>3, ConcatProperties, LenProperties
<1>5. PICK k \in 0..Len(fed) : buf = Drop(fed, k)
  BY DEF BufferOK, BufferIsSuffix
<1>6. buf' = Drop(fed', k)
  BY <1>1, <1>2, <1>3, <1>5, DropConcat
<1>7. k \in 0..Len(fed')
  BY <1>1, <1>4, LenProperties
<1>8. BufferIsSuffix'
  BY <1>6, <1>7 DEF BufferIsSuffix
<1>9. i' <= Len(buf')
  BY <1>1, <1>4, LenProperties
<1> QED BY <1>1, <1>3, <1>4, <1>8, <1>9 DEF BufferOK

LEMMA ClearStep ==
    ASSUME BufferOK, buf' = <<>>, fed' = <<>>, i' = 0, rest' = rest
    PROVE  BufferOK'
<1>1. <<>> \in Seq(Symbol) /\ Len(<<>>) = 0 /\ Drop(<<>>, 0) = <<>>
  BY DEF Drop
<1>2. BufferIsSuffix'
  BY <1>1 DEF BufferIsSuffix
<1> QED BY <1>1, <1>2 DEF BufferOK
=============================================================================
