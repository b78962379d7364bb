------------------------------ MODULE SiteProofs ------------------------------
(***************************************************************************)
(* Proofs about Site, for any configuration files, trees and targets.      *)
(*                                                                         *)
(* Patterns: Match, by its recursion, is Covers, by its meaning, for those *)
(* patterns that can be read in one way.  Targets:                         *)
(* each state of the URI machine has found what the grammar finds.  Files: *)
(* after each line the categories are those that the lines read so far     *)
(* say.  The type invariant needs what each phase has.  Servers: those set *)
(* up stand in the order of their names and are as the file describes      *)
(* them, so that the first listener of an address and the first name that  *)
(* matches give the server the file asks for.  Links and redirects: while  *)
(* one is followed its target is a path that its route maps to the file it *)
(* names, since AppendPath and GetRelativePathFromPattern commute there,   *)
(* and an answer is one that the dispatch gives for this file.             *)
(***************************************************************************)
EXTENDS Site, SequenceTheorems, WellFoundedInduction, TLAPS

-----------------------------------------------------------------------------
(* Numbers and parts of sequences *)

\* What induction over numbers becomes here: a set of them has a least one.
LEMMA LeastOf ==
    ASSUME NEW T, T \subseteq Nat, T # {}
    PROVE  \E n \in T : \A m \in T : n <= m
<1> DEFINE R == OpToRel(<, Nat)
<1>1. IsWellFoundedOn(R, Nat)
  BY NatLessThanWellFounded
<1>2. \A m, n \in Nat : m < n => <<m, n>> \in R
  BY DEF OpToRel
<1> HIDE DEF R
<1>3. PICK n \in T : \A m \in T : ~ (<<m, n>> \in R)
  BY <1>1, WFMin, Zenon
<1>4. ASSUME NEW m \in T
      PROVE  n <= m
  <2>1. m \in Nat /\ n \in Nat
    OBVIOUS
  <2>2. ~(m < n)
    BY <1>2, <1>3, <2>1, Zenon
  <2> QED BY <2>1, <2>2
<1> QED BY <1>4

LEMMA MinIs ==
    ASSUME NEW S, S \subseteq Nat, NEW n \in S, \A m \in S : n <= m
    PROVE  Min(S) = n
<1> DEFINE x == CHOOSE x \in S : \A y \in S : x <= y
<1>1. x \in S /\ \A y \in S : x <= y
  OBVIOUS
<1> HIDE DEF x
<1>2. x <= n /\ n <= x /\ x \in Nat /\ n \in Nat
  BY <1>1
<1>3. x = n
  BY <1>2
<1> QED BY <1>3 DEF Min, x

\* SubSeq of a SubSeq.
LEMMA SubSub ==
    ASSUME NEW C, NEW t \in Seq(C), NEW a \in Nat, NEW e \in Nat, e <= Len(t), a <= e,
           NEW m \in Nat \ {0}, NEW n \in Int, n <= e - a
    PROVE  SubSeq(SubSeq(t, a + 1, e), m, n) = SubSeq(t, a + m, a + n)
<1> DEFINE s == SubSeq(t, a + 1, e)
<1>1. Len(t) \in Nat /\ \A l \in 1..Len(t) : t[l] \in C
  BY LenProperties
<1>2. /\ s \in Seq(C) /\ Len(s) = e - a
      /\ \A l \in 1..(e - a) : s[l] = t[a + l]
  <2>1. \A l \in (a + 1)..e : t[l] \in C
    BY <1>1
  <2>2. /\ s \in Seq(C) /\ Len(s) = IF a + 1 <= e THEN e - (a + 1) + 1 ELSE 0
        /\ \A l \in 1..(e - (a + 1) + 1) : s[l] = t[a + 1 + l - 1]
    BY <2>1, SubSeqProperties
  <2> QED BY <1>1, <2>2
<1> QED BY <1>2

LEMMA SubSeqIs ==
    ASSUME NEW C, NEW t \in Seq(C), NEW a \in Nat, NEW e \in Nat, a <= e, e <= Len(t)
    PROVE  /\ SubSeq(t, a + 1, e) \in Seq(C) /\ Len(SubSeq(t, a + 1, e)) = e - a
           /\ \A l \in 1..(e - a) : SubSeq(t, a + 1, e)[l] = t[a + l]
<1> DEFINE s == SubSeq(t, a + 1, e)
<1>1. Len(t) \in Nat /\ \A l \in 1..Len(t) : t[l] \in C
  BY LenProperties
<1>2. \A l \in (a + 1)..e : t[l] \in C
  BY <1>1
<1>3. /\ s \in Seq(C) /\ Len(s) = IF a + 1 <= e THEN e - (a + 1) + 1 ELSE 0
      /\ \A l \in 1..(e - (a + 1) + 1) : s[l] = t[a + 1 + l - 1]
  BY <1>2, SubSeqProperties
<1> QED BY <1>3

-----------------------------------------------------------------------------
(* Patterns of host names.  A readable pattern is a row of elements.  The    *)
(* tokens that TryBlock finds in its block are its alternatives, and since   *)
(* none begins with another, the first one that fits is the only one.  So    *)
(* Covers, started inside the pattern and the name, solves the equation of   *)
(* Match, which has no other solution.                                       *)

LEMMA MinOne ==
    ASSUME NEW n \in Nat
    PROVE  Min({n}) = n
<1> DEFINE S == {n}
<1>1. S \subseteq Nat /\ n \in S /\ \A m \in S : n <= m
  OBVIOUS
<1> HIDE DEF S
<1>2. Min(S) = n
  BY <1>1, MinIs
<1> QED BY <1>2 DEF S

\* The block of a readable pattern.
LEMMA BlockIs ==
    ASSUME NEW C, NEW reg \in Seq(C), Readable(reg), NEW i \in 1..Len(reg), reg[i] = "["
    PROVE  /\ FirstClose(reg) \in (i + 1)..Len(reg)
           /\ \A k \in 1..Len(reg) : /\ reg[k] = "[" <=> k = i
                                     /\ reg[k] = "]" <=> k = FirstClose(reg)
           /\ \A s, t \in Alternatives(reg) : IsPrefixOf(s, t) => s = t
<1>1. DOMAIN reg = 1..Len(reg) /\ Len(reg) \in Nat
  BY LenProperties
<1>2. PICK b, e \in DOMAIN reg :
          b < e /\ \A k \in DOMAIN reg : (reg[k] = "[" <=> k = b) /\ (reg[k] = "]" <=> k = e)
  <2>1. i \in DOMAIN reg
    BY <1>1
  <2> QED BY <2>1, Zenon DEF Readable
<1>3. \A s, t \in Alternatives(reg) : IsPrefixOf(s, t) => s = t
  BY <1>1 DEF Readable
<1>4. b = i /\ b < e /\ e \in 1..Len(reg)
      /\ \A k \in 1..Len(reg) : (reg[k] = "[" <=> k = b) /\ (reg[k] = "]" <=> k = e)
  BY <1>1, <1>2
<1> DEFINE closes == {k \in DOMAIN reg : reg[k] = "]"}
<1>5. closes = {e}
  BY <1>2
<1>6. Min({e}) = e
  BY <1>1, <1>4, MinOne
<1>7. FirstClose(reg) = e
  BY <1>5, <1>6 DEF FirstClose
<1> QED BY <1>1, <1>3, <1>4, <1>7

LEMMA NextElementIs ==
    ASSUME NEW C, NEW reg \in Seq(C), Readable(reg), NEW i \in 1..Len(reg)
    PROVE  NextElement(reg, i) \in (i + 1)..(Len(reg) + 1)
<1>1. Len(reg) \in Nat
  BY LenProperties
<1>2. CASE reg[i] = "["
  <2>1. FirstClose(reg) \in (i + 1)..Len(reg)
    BY <1>2, BlockIs
  <2> QED BY <1>1, <1>2, <2>1 DEF NextElement
<1>3. CASE reg[i] # "["
  BY <1>1, <1>3 DEF NextElement
<1> QED BY <1>2, <1>3

\* The elements from i on are the one at i and those from the next one on.
LEMMA InsideIs ==
    ASSUME NEW C, NEW reg \in Seq(C), Readable(reg), NEW i \in 1..Len(reg)
    PROVE  LET n == NextElement(reg, i) IN
           (i..Len(reg)) \ Inside(reg, i) = {i} \union ((n..Len(reg)) \ Inside(reg, n))
<1> DEFINE n == NextElement(reg, i)
<1>1. DOMAIN reg = 1..Len(reg) /\ Len(reg) \in Nat /\ n \in (i + 1)..(Len(reg) + 1)
  BY LenProperties, NextElementIs
<1>2. CASE reg[i] # "["
  <2>1. n = i + 1
    BY <1>2 DEF NextElement
  <2>2. i \notin Inside(reg, i)
    BY DEF Inside
  <2>3. ASSUME NEW k \in (i + 1)..Len(reg)
        PROVE  k \in Inside(reg, i) <=> k \in Inside(reg, i + 1)
    <3>1. ASSUME k \in Inside(reg, i) PROVE k \in Inside(reg, i + 1)
      <4>1. PICK b \in i..(k - 1) : reg[b] = "[" /\ \A l \in b..(k - 1) : reg[l] # "]"
        BY <3>1 DEF Inside
      <4>2. b \in (i + 1)..(k - 1)
        BY <1>2, <4>1
      <4> QED BY <1>1, <4>1, <4>2 DEF Inside
    <3>2. ASSUME k \in Inside(reg, i + 1) PROVE k \in Inside(reg, i)
      <4>1. PICK b \in (i + 1)..(k - 1) : reg[b] = "[" /\ \A l \in b..(k - 1) : reg[l] # "]"
        BY <3>2 DEF Inside
      <4>2. b \in i..(k - 1)
        BY <4>1
      <4> QED BY <1>1, <4>1, <4>2 DEF Inside
    <3> QED BY <3>1, <3>2
  <2> QED BY <1>1, <2>1, <2>2, <2>3
<1>3. CASE reg[i] = "["
  <2> DEFINE e == FirstClose(reg)
  <2>1. /\ e \in (i + 1)..Len(reg) /\ n = e + 1
        /\ \A k \in 1..Len(reg) : (reg[k] = "[" <=> k = i) /\ (reg[k] = "]" <=> k = e)
    BY <1>3, BlockIs DEF NextElement
  <2> HIDE DEF e
  <2>2. ASSUME NEW k \in i..Len(reg)
        PROVE  k \in Inside(reg, i) <=> i < k /\ k <= e
    <3>1. ASSUME k \in Inside(reg, i) PROVE i < k /\ k <= e
      <4>1. PICK b \in i..(k - 1) : reg[b] = "[" /\ \A l \in b..(k - 1) : reg[l] # "]"
        BY <3>1 DEF Inside
      <4>2. b = i
        BY <1>1, <2>1, <4>1
      <4>3. e \notin i..(k - 1)
        BY <1>1, <2>1, <4>1, <4>2
      <4> QED BY <2>1, <4>1, <4>3
    <3>2. ASSUME i < k, k <= e PROVE k \in Inside(reg, i)
      <4>1. i \in i..(k - 1) /\ reg[i] = "[" /\ \A l \in i..(k - 1) : reg[l] # "]"
        BY <1>1, <1>3, <2>1, <3>2
      <4> QED BY <1>1, <4>1 DEF Inside
    <3> QED BY <3>1, <3>2
  <2>3. ASSUME NEW k \in n..Len(reg)
        PROVE  k \notin Inside(reg, n)
    <3> SUFFICES ASSUME k \in Inside(reg, n) PROVE FALSE
      OBVIOUS
    <3>1. PICK b \in n..(k - 1) : reg[b] = "["
      BY DEF Inside
    <3> QED BY <1>1, <2>1, <3>1
  <2> HIDE DEF n
  <2>4. ASSUME NEW k \in i..Len(reg)
        PROVE  k \notin Inside(reg, i)
               <=> k = i \/ (k \in n..Len(reg) /\ k \notin Inside(reg, n))
    BY <1>1, <2>1, <2>2, <2>3
  <2>5. n..Len(reg) \subseteq i..Len(reg) /\ i \in i..Len(reg)
    BY <1>1, <2>1
  <2> QED BY <2>4, <2>5 DEF n
<1> QED BY <1>2, <1>3

\* cut is where the pieces of str from j on begin, for the elements of reg
\* from i on.
Cuts(reg, str, i, j, cut) ==
    /\ cut \in [i..(Len(reg) + 1) -> 1..(Len(str) + 1)]
    /\ cut[i] = j /\ cut[Len(reg) + 1] = Len(str) + 1
    /\ \A k \in (i..Len(reg)) \ Inside(reg, i) :
           Piece(reg, str, k, cut[k], cut[NextElement(reg, k)])

CoversFrom(reg, str, i, j) == \E cut : Cuts(reg, str, i, j, cut)

LEMMA CoversIs ==
    ASSUME NEW C, NEW reg \in Seq(C), NEW str \in Seq(C)
    PROVE  Covers(reg, str) <=> CoversFrom(reg, str, 1, 1)
<1>1. DOMAIN reg = 1..Len(reg)
  BY LenProperties
<1> QED BY <1>1 DEF Covers, CoversFrom, Cuts

LEMMA CutAt ==
    ASSUME NEW C, NEW reg \in Seq(C), Readable(reg), NEW str, Len(str) \in Nat,
           NEW i \in 1..Len(reg), NEW j \in 1..(Len(str) + 1),
           NEW k \in 1..(Len(str) + 1), NEW cut,
           Cuts(reg, str, NextElement(reg, i), k, cut), Piece(reg, str, i, j, k)
    PROVE  CoversFrom(reg, str, i, j)
<1> DEFINE n == NextElement(reg, i)
           c == [l \in i..(Len(reg) + 1) |-> IF l < n THEN j ELSE cut[l]]
<1>1. Len(reg) \in Nat /\ n \in (i + 1)..(Len(reg) + 1)
  BY LenProperties, NextElementIs
<1>2. (i..Len(reg)) \ Inside(reg, i) = {i} \union ((n..Len(reg)) \ Inside(reg, n))
  BY InsideIs
<1>3. /\ cut \in [n..(Len(reg) + 1) -> 1..(Len(str) + 1)]
      /\ cut[n] = k /\ cut[Len(reg) + 1] = Len(str) + 1
      /\ \A l \in (n..Len(reg)) \ Inside(reg, n) :
            Piece(reg, str, l, cut[l], cut[NextElement(reg, l)])
  BY DEF Cuts
<1>n. n = NextElement(reg, i)
  OBVIOUS
<1> HIDE DEF n
<1>4. c \in [i..(Len(reg) + 1) -> 1..(Len(str) + 1)]
  BY <1>1, <1>3
<1>5. c[i] = j /\ \A l \in n..(Len(reg) + 1) : c[l] = cut[l]
  BY <1>1
<1> HIDE DEF c
<1>6. ASSUME NEW l \in (i..Len(reg)) \ Inside(reg, i)
      PROVE  Piece(reg, str, l, c[l], c[NextElement(reg, l)])
  <2>1. CASE l = i
    <3>1. c[n] = k
      BY <1>1, <1>3, <1>5
    <3> QED BY <1>5, <1>n, <2>1, <3>1
  <2>2. CASE l # i
    <3>1. l \in (n..Len(reg)) \ Inside(reg, n)
      BY <1>2, <2>2
    <3>2. l \in 1..Len(reg) /\ NextElement(reg, l) \in n..(Len(reg) + 1)
      <4>1. l \in 1..Len(reg)
        BY <1>1, <3>1
      <4>2. NextElement(reg, l) \in (l + 1)..(Len(reg) + 1)
        BY <4>1, NextElementIs
      <4> QED BY <1>1, <3>1, <4>1, <4>2
    <3>3. c[l] = cut[l] /\ c[NextElement(reg, l)] = cut[NextElement(reg, l)]
      BY <1>1, <1>5, <3>1, <3>2
    <3> QED BY <1>3, <3>1, <3>3
  <2> QED BY <2>1, <2>2
<1>7. c[Len(reg) + 1] = Len(str) + 1
  BY <1>1, <1>3, <1>5
<1>8. Cuts(reg, str, i, j, c)
  BY <1>4, <1>5, <1>6, <1>7 DEF Cuts
<1> QED BY <1>8 DEF CoversFrom

\* The other way: what is left of the cuts after the first element.
LEMMA CutAfter ==
    ASSUME NEW C, NEW reg \in Seq(C), Readable(reg), NEW str, Len(str) \in Nat,
           NEW i \in 1..Len(reg), NEW j \in 1..(Len(str) + 1),
           CoversFrom(reg, str, i, j)
    PROVE  \E k \in 1..(Len(str) + 1) :
              CoversFrom(reg, str, NextElement(reg, i), k) /\ Piece(reg, str, i, j, k)
<1> DEFINE n == NextElement(reg, i)
<1>1. Len(reg) \in Nat /\ n \in (i + 1)..(Len(reg) + 1)
  BY LenProperties, NextElementIs
<1>2. (i..Len(reg)) \ Inside(reg, i) = {i} \union ((n..Len(reg)) \ Inside(reg, n))
  BY InsideIs
<1>3. PICK cut : Cuts(reg, str, i, j, cut)
  BY DEF CoversFrom
<1>4. /\ cut \in [i..(Len(reg) + 1) -> 1..(Len(str) + 1)]
      /\ cut[i] = j /\ cut[Len(reg) + 1] = Len(str) + 1
      /\ \A l \in (i..Len(reg)) \ Inside(reg, i) :
            Piece(reg, str, l, cut[l], cut[NextElement(reg, l)])
  BY <1>3 DEF Cuts
<1> DEFINE c == [l \in n..(Len(reg) + 1) |-> cut[l]]
<1>5. cut[n] \in 1..(Len(str) + 1) /\ Piece(reg, str, i, j, cut[n])
  <2>1. i \in (i..Len(reg)) \ Inside(reg, i)
    BY <1>2
  <2>2. Piece(reg, str, i, cut[i], cut[n])
    BY <1>4, <2>1
  <2> QED BY <1>1, <1>4, <2>2
<1> HIDE DEF n
<1>6. /\ c \in [n..(Len(reg) + 1) -> 1..(Len(str) + 1)]
      /\ c[n] = cut[n] /\ c[Len(reg) + 1] = Len(str) + 1
      /\ \A l \in n..(Len(reg) + 1) : c[l] = cut[l]
  BY <1>1, <1>4
<1> HIDE DEF c
<1>7. ASSUME NEW l \in (n..Len(reg)) \ Inside(reg, n)
      PROVE  Piece(reg, str, l, c[l], c[NextElement(reg, l)])
  <2>1. l \in (i..Len(reg)) \ Inside(reg, i)
    BY <1>2
  <2>2. l \in 1..Len(reg)
    BY <1>1
  <2>3. NextElement(reg, l) \in (l + 1)..(Len(reg) + 1)
    BY <2>2, NextElementIs
  <2>4. c[l] = cut[l] /\ c[NextElement(reg, l)] = cut[NextElement(reg, l)]
    BY <1>1, <1>6, <2>2, <2>3
  <2> QED BY <1>4, <2>1, <2>4
<1>8. Cuts(reg, str, n, cut[n], c)
  BY <1>6, <1>7 DEF Cuts
<1> QED BY <1>5, <1>8 DEF CoversFrom, n

LEMMA CoversEnd ==
    ASSUME NEW C, NEW reg \in Seq(C), NEW str, Len(str) \in Nat,
           NEW j \in 1..(Len(str) + 1)
    PROVE  CoversFrom(reg, str, Len(reg) + 1, j) <=> j = Len(str) + 1
<1> DEFINE i == Len(reg) + 1
<1>1. Len(reg) \in Nat /\ i..Len(reg) = {}
  BY LenProperties
<1>2. ASSUME CoversFrom(reg, str, i, j) PROVE j = Len(str) + 1
  BY <1>2 DEF CoversFrom, Cuts
<1>3. ASSUME j = Len(str) + 1 PROVE CoversFrom(reg, str, i, j)
  <2> DEFINE c == [l \in i..(Len(reg) + 1) |-> j]
  <2>1. Cuts(reg, str, i, j, c)
    BY <1>1, <1>3 DEF Cuts
  <2> QED BY <2>1 DEF CoversFrom
<1> QED BY <1>2, <1>3

\* The tokens of the block are its alternatives.
LEMMA TokensAre ==
    ASSUME NEW C, NEW reg \in Seq(C), Readable(reg), NEW i \in 1..Len(reg), reg[i] = "["
    PROVE  /\ Alternatives(reg) = {SubSeq(reg, t[1], t[2] - 1) : t \in Tokens(reg, i)}
           /\ \A t \in Tokens(reg, i) : /\ t = <<t[1], t[2]>>
                                        /\ t[1] \in 1..Len(reg) /\ t[2] \in 1..Len(reg)
                                        /\ t[1] < t[2]
           /\ ~(BlockStop(reg, i) <= BlockEnd(reg, i))
<1> DEFINE e == FirstClose(reg)
           U == {u \in (DOMAIN reg) \X Inside(reg, 1) :
                    /\ 1 < u[1] /\ u[1] < u[2]
                    /\ reg[u[1] - 1] \in {"[", "|"} /\ reg[u[2]] \in {"|", "]"}
                    /\ \A k \in u[1]..(u[2] - 1) : reg[k] \notin {"[", "|", "]"}}
<1>1. DOMAIN reg = 1..Len(reg) /\ Len(reg) \in Nat
  BY LenProperties
<1>2. /\ e \in (i + 1)..Len(reg)
      /\ \A k \in 1..Len(reg) : (reg[k] = "[" <=> k = i) /\ (reg[k] = "]" <=> k = e)
  BY BlockIs
<1>3. Inside(reg, 1) = (i + 1)..e
  <2>1. ASSUME NEW k \in Inside(reg, 1) PROVE k \in (i + 1)..e
    <3>1. PICK b \in 1..(k - 1) : /\ k \in 1..Len(reg) /\ reg[b] = "["
                                  /\ \A l \in b..(k - 1) : reg[l] # "]"
      BY <1>1 DEF Inside
    <3>2. b = i
      BY <1>1, <1>2, <3>1
    <3>3. e \notin b..(k - 1)
      BY <1>1, <1>2, <3>1
    <3> QED BY <1>1, <1>2, <3>1, <3>2, <3>3
  <2>2. ASSUME NEW k \in (i + 1)..e PROVE k \in Inside(reg, 1)
    <3>1. k \in 1..Len(reg) /\ i \in 1..(k - 1) /\ \A l \in i..(k - 1) : reg[l] # "]"
      BY <1>1, <1>2
    <3> QED BY <1>1, <3>1 DEF Inside
  <2> QED BY <2>1, <2>2
<1>4. BlockEnd(reg, i) = e - 1
  BY <1>1, <1>2 DEF BlockEnd
<1>5. BlockStop(reg, i) = e
  <2>1. {k \in i..(e - 1) : reg[k] = "]"} = {}
    BY <1>1, <1>2
  <2>2. {e - 1 + 1} \union {k \in i..(e - 1) : reg[k] = "]"} = {e}
    BY <1>2, <2>1
  <2>3. Min({e}) = e
    BY <1>1, <1>2, MinOne
  <2> QED BY <1>4, <2>2, <2>3 DEF BlockStop
<1>d. e = FirstClose(reg)
  OBVIOUS
<1> HIDE DEF e
<1>6. ASSUME NEW t \in Tokens(reg, i)
      PROVE  /\ t = <<t[1], t[2]>> /\ t[1] \in i..(e - 1) /\ t[2] \in i..e
             /\ t[1] < t[2] /\ reg[t[1]] \notin {"[", "|"}
             /\ \E s \in i..t[1] : /\ s = i \/ reg[s - 1] = "|"
                                   /\ \A k \in s..(t[1] - 1) : reg[k] = "["
             /\ \A k \in t[1]..(t[2] - 1) : reg[k] # "|"
             /\ t[2] = e \/ reg[t[2]] = "|"
  BY <1>4, <1>5 DEF Tokens
<1>7. ASSUME NEW t \in Tokens(reg, i) PROVE t \in U
  <2>1. t[1] # i /\ t[1] \in (i + 1)..(e - 1) /\ t[2] \in (i + 1)..e
    BY <1>1, <1>2, <1>6
  <2>2. reg[t[1] - 1] \in {"[", "|"}
    <3>1. PICK s \in i..t[1] : /\ s = i \/ reg[s - 1] = "|"
                               /\ \A k \in s..(t[1] - 1) : reg[k] = "["
      BY <1>6
    <3>2. CASE s = t[1]
      BY <2>1, <3>1, <3>2
    <3>3. CASE s # t[1]
      BY <1>1, <2>1, <3>1, <3>3
    <3> QED BY <3>2, <3>3
  <2>3. reg[t[2]] \in {"|", "]"}
    BY <1>1, <1>2, <1>6
  <2>4. \A k \in t[1]..(t[2] - 1) : reg[k] \notin {"[", "|", "]"}
    <3> TAKE k \in t[1]..(t[2] - 1)
    <3>1. k \in 1..Len(reg) /\ k # i /\ k # e
      BY <1>1, <1>2, <2>1
    <3> QED BY <1>2, <1>6, <3>1
  <2>5. t[1] \in DOMAIN reg /\ t[2] \in Inside(reg, 1) /\ 1 < t[1]
    BY <1>1, <1>2, <1>3, <2>1
  <2> QED BY <1>6, <2>2, <2>3, <2>4, <2>5
<1>8. ASSUME NEW t \in U PROVE t \in Tokens(reg, i)
  <2>1. /\ t = <<t[1], t[2]>> /\ t[1] \in 1..Len(reg) /\ t[2] \in (i + 1)..e
        /\ 1 < t[1] /\ t[1] < t[2]
        /\ reg[t[1] - 1] \in {"[", "|"} /\ reg[t[2]] \in {"|", "]"}
        /\ \A k \in t[1]..(t[2] - 1) : reg[k] \notin {"[", "|", "]"}
    <3>1. t \in (1..Len(reg)) \X ((i + 1)..e)
      BY <1>1, <1>3
    <3>2. t = <<t[1], t[2]>> /\ t[1] \in 1..Len(reg) /\ t[2] \in (i + 1)..e
      BY <3>1
    <3> QED BY <3>2
  <2>2. i \notin t[1]..(t[2] - 1)
    BY <2>1
  <2>3. t[1] \in (i + 1)..(e - 1)
    BY <1>1, <1>2, <2>1, <2>2
  <2>4. \E s \in i..t[1] : /\ s = i \/ reg[s - 1] = "|"
                           /\ \A k \in s..(t[1] - 1) : reg[k] = "["
    <3>1. CASE reg[t[1] - 1] = "|"
      <4>1. t[1] \in i..t[1] /\ t[1]..(t[1] - 1) = {}
        BY <1>1, <2>3
      <4> QED BY <3>1, <4>1
    <3>2. CASE reg[t[1] - 1] = "["
      <4>1. t[1] - 1 = i
        BY <1>1, <1>2, <2>3, <3>2
      <4>2. i \in i..t[1] /\ \A k \in i..(t[1] - 1) : k = i
        BY <1>1, <2>3, <4>1
      <4> QED BY <4>2
    <3> QED BY <2>1, <3>1, <3>2
  <2>5. t[2] = e \/ reg[t[2]] = "|"
    BY <1>1, <1>2, <2>1
  <2>6. reg[t[1]] \notin {"[", "|"} /\ \A k \in t[1]..(t[2] - 1) : reg[k] # "|"
    BY <1>1, <2>1
  <2>7. t \in (i..(e - 1)) \X (i..e)
    BY <1>1, <2>1, <2>3
  <2> QED BY <1>4, <1>5, <2>1, <2>4, <2>5, <2>6, <2>7 DEF Tokens
<1>9. Alternatives(reg) = {SubSeq(reg, t[1], t[2] - 1) : t \in U}
  BY DEF Alternatives
<1>10. U = Tokens(reg, i)
  BY <1>7, <1>8
<1> HIDE DEF U
<1>11. \A t \in Tokens(reg, i) : t[1] \in 1..Len(reg) /\ t[2] \in 1..Len(reg)
  BY <1>1, <1>2, <1>6
<1> QED BY <1>2, <1>4, <1>5, <1>6, <1>9, <1>10, <1>11

\* A text stands at j when it begins what is left.
LEMMA StandsAt ==
    ASSUME NEW C, NEW str \in Seq(C), NEW j \in 1..(Len(str) + 1), NEW a \in Seq(C)
    PROVE  /\ IsPrefixOf(a, SubSeq(str, j, Len(str))) =>
                  /\ j + Len(a) <= Len(str) + 1
                  /\ SubSeq(str, j, j + Len(a) - 1) = a
           /\ \A k \in j..(Len(str) + 1) : SubSeq(str, j, k - 1) = a =>
                  IsPrefixOf(a, SubSeq(str, j, Len(str))) /\ k = j + Len(a)
<1> DEFINE left == SubSeq(str, (j - 1) + 1, Len(str))
           L    == Len(str)
<1>1. L \in Nat /\ Len(a) \in Nat /\ j - 1 \in Nat /\ j \in Nat
  BY LenProperties
<1>2. left = SubSeq(str, j, L) /\ Len(left) = L - (j - 1)
  <2>1. (j - 1) + 1 = j
    BY <1>1
  <2> QED BY <1>1, <2>1, SubSeqIs
<1>3. ASSUME NEW n \in 0..(L - (j - 1))
      PROVE  SubSeq(left, 1, n) = SubSeq(str, j, j - 1 + n)
  <2>1. SubSeq(left, 1, n) = SubSeq(str, (j - 1) + 1, (j - 1) + n)
    BY <1>1, SubSub
  <2> QED BY <1>1, <2>1
<1> HIDE DEF left, L
<1>4. ASSUME IsPrefixOf(a, left)
      PROVE  j + Len(a) <= L + 1 /\ SubSeq(str, j, j + Len(a) - 1) = a
  <2>1. Len(a) <= L - (j - 1) /\ SubSeq(left, 1, Len(a)) = a
    BY <1>2, <1>4 DEF IsPrefixOf
  <2>2. Len(a) \in 0..(L - (j - 1)) /\ j - 1 + Len(a) = j + Len(a) - 1
    BY <1>1, <2>1
  <2>3. SubSeq(str, j, j + Len(a) - 1) = a
    BY <1>3, <2>1, <2>2
  <2> QED BY <1>1, <2>1, <2>3
<1>5. ASSUME NEW k \in j..(L + 1), SubSeq(str, j, k - 1) = a
      PROVE  IsPrefixOf(a, left) /\ k = j + Len(a)
  <2>1. Len(SubSeq(str, (j - 1) + 1, k - 1)) = k - 1 - (j - 1)
    <3>1. k - 1 \in Nat /\ j - 1 <= k - 1 /\ k - 1 <= Len(str)
      BY <1>1 DEF L
    <3> QED BY <1>1, <3>1, SubSeqIs
  <2>2. (j - 1) + 1 = j /\ k - 1 - (j - 1) = k - j
    BY <1>1
  <2>3. Len(a) = k - j
    BY <1>5, <2>1, <2>2
  <2>4. Len(a) \in 0..(L - (j - 1)) /\ j - 1 + Len(a) = k - 1 /\ k = j + Len(a)
    BY <1>1, <2>3
  <2>5. SubSeq(left, 1, Len(a)) = a
    BY <1>3, <1>5, <2>4
  <2>6. Len(a) <= Len(left)
    BY <1>1, <1>2, <2>4
  <2> QED BY <2>4, <2>5, <2>6 DEF IsPrefixOf
<1> QED BY <1>2, <1>4, <1>5 DEF L

LEMMA TwoPrefixes ==
    ASSUME NEW C, NEW s \in Seq(C), NEW a \in Seq(C), NEW b \in Seq(C),
           IsPrefixOf(a, s), IsPrefixOf(b, s), Len(a) <= Len(b)
    PROVE  IsPrefixOf(a, b)
<1>1. Len(a) \in Nat /\ Len(b) \in Nat /\ Len(s) \in Nat
  BY LenProperties
<1>2. /\ Len(a) <= Len(s) /\ SubSeq(s, 1, Len(a)) = a
      /\ Len(b) <= Len(s) /\ SubSeq(s, 1, Len(b)) = b
  BY DEF IsPrefixOf
<1>3. CASE Len(a) = 0
  <2>1. a = <<>> /\ SubSeq(b, 1, 0) = <<>>
    BY <1>3, EmptySeq
  <2> QED BY <1>3, <2>1 DEF IsPrefixOf
<1>4. CASE Len(a) # 0
  <2>1. SubSeq(SubSeq(s, 0 + 1, Len(b)), 1, Len(a)) = SubSeq(s, 0 + 1, 0 + Len(a))
    BY <1>1, <1>2, SubSub
  <2> QED BY <1>1, <1>2, <2>1 DEF IsPrefixOf
<1> QED BY <1>3, <1>4

\* TryBlock takes the one piece that there is for the block.
LEMMA TryBlockIs ==
    ASSUME NEW C, NEW reg \in Seq(C), NEW str \in Seq(C), Readable(reg),
           NEW i \in 1..Len(reg), reg[i] = "[", NEW j \in 1..(Len(str) + 1)
    PROVE  /\ TryBlock(reg, str, i, j) \in {0} \union (j..(Len(str) + 1))
           /\ \A k \in 1..(Len(str) + 1) :
                  Piece(reg, str, i, j, k) <=> k = TryBlock(reg, str, i, j)
<1> DEFINE left == SubSeq(str, j, Len(str))
           Text(t) == SubSeq(reg, t[1], t[2] - 1)
           T    == Tokens(reg, i)
           fits == {t \in T : IsPrefixOf(Text(t), left)}
           first == CHOOSE t \in fits : \A u \in fits : t[1] <= u[1]
           to   == TryBlock(reg, str, i, j)
<1>1. Len(reg) \in Nat /\ Len(str) \in Nat
  BY LenProperties
<1>2. /\ Alternatives(reg) = {Text(t) : t \in T}
      /\ \A t \in T : t[1] \in 1..Len(reg) /\ t[2] \in 1..Len(reg) /\ t[1] < t[2]
      /\ ~(BlockStop(reg, i) <= BlockEnd(reg, i))
  BY TokensAre
<1>3. \A s, t \in Alternatives(reg) : IsPrefixOf(s, t) => s = t
  BY BlockIs
<1> HIDE DEF T
<1>4. \A t \in T : Text(t) \in Seq(C) /\ Len(Text(t)) = t[2] - t[1]
  <2> TAKE t \in T
  <2> DEFINE a == t[1]
             b == t[2]
  <2>1. a \in 1..Len(reg) /\ b \in 1..Len(reg) /\ a < b
    BY <1>2, Zenon
  <2> HIDE DEF a, b
  <2>2. /\ a - 1 \in Nat /\ b - 1 \in Nat /\ a - 1 <= b - 1 /\ b - 1 <= Len(reg)
        /\ (a - 1) + 1 = a /\ b - 1 - (a - 1) = b - a
    BY <1>1, <2>1
  <2>3. SubSeq(reg, (a - 1) + 1, b - 1) \in Seq(C)
        /\ Len(SubSeq(reg, (a - 1) + 1, b - 1)) = b - 1 - (a - 1)
    BY <2>2, SubSeqIs
  <2>4. SubSeq(reg, a, b - 1) \in Seq(C) /\ Len(SubSeq(reg, a, b - 1)) = b - a
    BY <2>2, <2>3
  <2> QED BY <2>4 DEF a, b
<1>5. left \in Seq(C)
  <2>1. /\ j - 1 \in Nat /\ Len(str) \in Nat /\ j - 1 <= Len(str) /\ (j - 1) + 1 = j
    BY <1>1
  <2>2. SubSeq(str, (j - 1) + 1, Len(str)) \in Seq(C)
    BY <1>1, <2>1, SubSeqIs
  <2> QED BY <2>1, <2>2
<1>6. ASSUME NEW k \in 1..(Len(str) + 1)
      PROVE  Piece(reg, str, i, j, k) <=> j <= k /\ SubSeq(str, j, k - 1) \in Alternatives(reg)
  BY DEF Piece
<1>7. to = IF fits # {} THEN j + (first[2] - first[1]) ELSE 0
  BY <1>2 DEF TryBlock, T
<1> HIDE DEF to, left, Text
<1>8. CASE fits = {}
  <2>1. to = 0
    BY <1>7, <1>8
  <2>2. ASSUME NEW k \in 1..(Len(str) + 1), Piece(reg, str, i, j, k) PROVE FALSE
    <3>1. j <= k /\ SubSeq(str, j, k - 1) \in Alternatives(reg)
      BY <1>6, <2>2
    <3>2. PICK t \in T : SubSeq(str, j, k - 1) = Text(t)
      BY <1>2, <3>1
    <3>3. IsPrefixOf(Text(t), left)
      <4>1. k \in j..(Len(str) + 1)
        BY <1>1, <3>1
      <4> QED BY <1>4, <3>2, <4>1, StandsAt DEF left
    <3> QED BY <1>8, <3>3
  <2>3. \A k \in 1..(Len(str) + 1) : k # 0
    OBVIOUS
  <2> QED BY <2>1, <2>2, <2>3 DEF to
<1>9. CASE fits # {}
  <2>1. first \in fits
    <3>1. \E t \in fits : \A u \in fits : t[1] <= u[1]
      <4> DEFINE S == {u[1] : u \in fits}
      <4>1. S \subseteq Nat /\ S # {}
        BY <1>1, <1>2, <1>9
      <4> HIDE DEF S
      <4>2. PICK n \in S : \A m \in S : n <= m
        BY <4>1, LeastOf
      <4> QED BY <4>2 DEF S
    <3> QED BY <3>1
  <2>2. first \in T /\ IsPrefixOf(Text(first), left)
    BY <2>1
  <2> HIDE DEF first, fits
  <2>3. to = j + Len(Text(first))
    BY <1>4, <1>7, <1>9, <2>2
  <2>4. /\ j + Len(Text(first)) <= Len(str) + 1
        /\ SubSeq(str, j, j + Len(Text(first)) - 1) = Text(first)
    BY <1>4, <2>2, StandsAt DEF left
  <2>5. Len(Text(first)) \in Nat /\ Text(first) \in Alternatives(reg)
    BY <1>2, <1>4, <2>2, LenProperties
  <2>6. to \in j..(Len(str) + 1) /\ SubSeq(str, j, to - 1) = Text(first)
    BY <1>1, <2>3, <2>4, <2>5
  <2>7. ASSUME NEW k \in 1..(Len(str) + 1), Piece(reg, str, i, j, k) PROVE k = to
    <3>1. j <= k /\ SubSeq(str, j, k - 1) \in Alternatives(reg)
      BY <1>6, <2>7
    <3>2. PICK t \in T : SubSeq(str, j, k - 1) = Text(t)
      BY <1>2, <3>1
    <3>3. IsPrefixOf(Text(t), left) /\ k = j + Len(Text(t))
      <4>1. k \in j..(Len(str) + 1)
        BY <1>1, <3>1
      <4> QED BY <1>4, <3>2, <4>1, StandsAt DEF left
    <3>4. Text(t) = Text(first)
      <4>1. Len(Text(t)) \in Nat /\ Text(t) \in Alternatives(reg)
        BY <1>2, <1>4, LenProperties
      <4>2. CASE Len(Text(t)) <= Len(Text(first))
        <5>1. IsPrefixOf(Text(t), Text(first))
          BY <1>4, <1>5, <2>2, <3>3, <4>2, TwoPrefixes
        <5> QED BY <1>3, <2>5, <4>1, <5>1
      <4>3. CASE Len(Text(first)) <= Len(Text(t))
        <5>1. IsPrefixOf(Text(first), Text(t))
          BY <1>4, <1>5, <2>2, <3>3, <4>3, TwoPrefixes
        <5> QED BY <1>3, <2>5, <4>1, <5>1
      <4> QED BY <2>5, <4>1, <4>2, <4>3
    <3> QED BY <2>3, <3>3, <3>4
  <2>8. Piece(reg, str, i, j, to)
    <3>1. to \in 1..(Len(str) + 1) /\ j <= to
      BY <1>1, <2>6
    <3> QED BY <1>6, <2>5, <2>6, <3>1
  <2> QED BY <2>6, <2>7, <2>8 DEF to
<1> QED BY <1>8, <1>9

\* The answers of readable patterns to hosts without a bracket.
Said(yes) == IF yes THEN "yes" ELSE "no"
CoverTable(reg, str) == [c \in Calls(reg, str) |-> Said(CoversFrom(reg, str, c[1], c[2]))]

Unblocked(str) == \A k \in 1..Len(str) : str[k] # "["

\* Covers, started anywhere, by its next element.
LEMMA CoversStep ==
    ASSUME NEW C, NEW reg \in Seq(C), Readable(reg), NEW str, Len(str) \in Nat,
           NEW i \in 1..Len(reg), NEW j \in 1..(Len(str) + 1)
    PROVE  CoversFrom(reg, str, i, j) <=>
              \E k \in 1..(Len(str) + 1) :
                  CoversFrom(reg, str, NextElement(reg, i), k) /\ Piece(reg, str, i, j, k)
<1>1. ASSUME NEW k \in 1..(Len(str) + 1),
             CoversFrom(reg, str, NextElement(reg, i), k), Piece(reg, str, i, j, k)
      PROVE  CoversFrom(reg, str, i, j)
  <2>1. PICK cut : Cuts(reg, str, NextElement(reg, i), k, cut)
    BY <1>1 DEF CoversFrom
  <2> QED BY <1>1, <2>1, CutAt
<1>2. CoversFrom(reg, str, i, j) =>
          \E k \in 1..(Len(str) + 1) :
              CoversFrom(reg, str, NextElement(reg, i), k) /\ Piece(reg, str, i, j, k)
  BY CutAfter
<1> QED BY <1>1, <1>2

\* The calls of MatchFrom, by the element at i.
LEMMA CoversCalls ==
    ASSUME NEW C, NEW reg \in Seq(C), NEW str \in Seq(C), Readable(reg),
           NEW i \in 1..Len(reg), NEW j \in 1..(Len(str) + 1)
    PROVE  /\ reg[i] = "*" => (CoversFrom(reg, str, i, j) <=>
                  \/ j <= Len(str) /\ CoversFrom(reg, str, i, j + 1)
                  \/ CoversFrom(reg, str, i + 1, j))
           /\ reg[i] \notin {"*", "["} => (CoversFrom(reg, str, i, j) <=>
                  j <= Len(str) /\ str[j] = reg[i] /\ CoversFrom(reg, str, i + 1, j + 1))
           /\ reg[i] = "[" => (CoversFrom(reg, str, i, j) <=>
                  /\ TryBlock(reg, str, i, j) # 0
                  /\ CoversFrom(reg, str, NextElement(reg, i), TryBlock(reg, str, i, j)))
<1> DEFINE CF(a, b) == CoversFrom(reg, str, a, b)
           L == Len(str)
<1>1. Len(reg) \in Nat /\ L \in Nat
  BY LenProperties
<1>2. ASSUME NEW b \in 1..(L + 1)
      PROVE  CF(i, b) <=> \E k \in 1..(L + 1) :
                              CF(NextElement(reg, i), k) /\ Piece(reg, str, i, b, k)
  BY <1>1, CoversStep
<1> HIDE DEF CF
<1>3. CASE reg[i] = "*"
  <2>1. NextElement(reg, i) = i + 1
    BY <1>3 DEF NextElement
  <2>2. ASSUME NEW b \in 1..(L + 1)
        PROVE  CF(i, b) <=> \E k \in 1..(L + 1) : CF(i + 1, k) /\ b <= k
    <3>1. \A k \in 1..(L + 1) : Piece(reg, str, i, b, k) <=> b <= k
      BY <1>3 DEF Piece
    <3> QED BY <1>2, <2>1, <3>1
  <2>3. ASSUME j <= L PROVE CF(i, j) <=> CF(i, j + 1) \/ CF(i + 1, j)
    <3>1. j + 1 \in 1..(L + 1)
      BY <1>1, <2>3
    <3>2. \A k \in 1..(L + 1) : j <= k <=> j + 1 <= k \/ k = j
      BY <1>1
    <3> QED BY <2>2, <3>1, <3>2
  <2>4. ASSUME ~(j <= L) PROVE CF(i, j) <=> CF(i + 1, j)
    <3>1. \A k \in 1..(L + 1) : j <= k <=> k = j
      BY <1>1, <2>4
    <3> QED BY <2>2, <3>1
  <2> QED BY <1>3, <2>3, <2>4 DEF CF
<1>4. CASE reg[i] \notin {"*", "["}
  <2>1. NextElement(reg, i) = i + 1
    BY <1>4 DEF NextElement
  <2>2. \A k \in 1..(L + 1) : Piece(reg, str, i, j, k) <=> k = j + 1 /\ str[j] = reg[i]
    BY <1>1, <1>4 DEF Piece
  <2>3. j + 1 \in 1..(L + 1) <=> j <= L
    BY <1>1
  <2>4. CF(i, j) <=> j <= L /\ str[j] = reg[i] /\ CF(i + 1, j + 1)
    BY <1>2, <2>1, <2>2, <2>3
  <2> QED BY <1>4, <2>4 DEF CF
<1>5. CASE reg[i] = "["
  <2> DEFINE to == TryBlock(reg, str, i, j)
  <2>1. /\ to \in {0} \union (j..(L + 1))
        /\ \A k \in 1..(L + 1) : Piece(reg, str, i, j, k) <=> k = to
    BY <1>5, TryBlockIs
  <2> HIDE DEF to
  <2>2. to \in 1..(L + 1) <=> to # 0
    BY <1>1, <2>1
  <2>3. CF(i, j) <=> to # 0 /\ CF(NextElement(reg, i), to)
    BY <1>2, <2>1, <2>2
  <2> QED BY <1>5, <2>3 DEF CF, to
<1> QED BY <1>3, <1>4, <1>5

\* MatchFrom makes such calls only.
CallsOnly(reg, str, i, j, p, m) ==
    LET M == MatchFrom(m, reg, str, i, j, p) IN
    /\ i = Len(reg) + 1 => M = Said(j = Len(str) + 1)
    /\ i <= Len(reg) /\ reg[i] = "*" =>
           M = IF j <= Len(str) /\ m[<<i, j + 1, p>>] # "no" THEN m[<<i, j + 1, p>>]
               ELSE m[<<i + 1, j, p>>]
    /\ i <= Len(reg) /\ reg[i] \notin {"*", "["} =>
           M = IF j <= Len(str) /\ str[j] = reg[i] THEN m[<<i + 1, j + 1, p>>] ELSE "no"
    /\ i <= Len(reg) /\ reg[i] = "[" =>
           M = IF TryBlock(reg, str, i, j) = 0 THEN "no"
               ELSE m[<<NextElement(reg, i), TryBlock(reg, str, i, j), p>>]

LEMMA MatchFromIs ==
    ASSUME NEW C, NEW reg \in Seq(C), NEW str \in Seq(C), Readable(reg), Unblocked(str),
           NEW i \in 1..(Len(reg) + 1), NEW j \in 1..(Len(str) + 1), NEW p, NEW m
    PROVE  CallsOnly(reg, str, i, j, p, m)
<1>1. Len(reg) \in Nat /\ Len(str) \in Nat
  BY LenProperties
<1>2. CASE i = Len(reg) + 1
  <2>1. ~(i <= Len(reg)) /\ (j = Len(str) + 1 <=> ~(j <= Len(str)))
    BY <1>1, <1>2
  <2> QED BY <2>1, <1>2 DEF MatchFrom, Said, CallsOnly
<1>3. CASE i <= Len(reg) /\ reg[i] = "*"
  <2>1. reg[i] # "["
    BY <1>3
  <2>2. i # Len(reg) + 1
    BY <1>1, <1>3
  <2>3. MatchFrom(m, reg, str, i, j, p) =
            IF j <= Len(str) /\ m[<<i, j + 1, p>>] # "no" THEN m[<<i, j + 1, p>>]
            ELSE m[<<i + 1, j, p>>]
    <3>1. CASE j <= Len(str)
      BY <1>3, <3>1 DEF MatchFrom
    <3>2. CASE ~(j <= Len(str))
      BY <1>3, <2>1, <3>2 DEF MatchFrom
    <3> QED BY <3>1, <3>2
  <2> QED BY <1>3, <2>1, <2>2, <2>3 DEF CallsOnly
<1>4. CASE i <= Len(reg) /\ reg[i] \notin {"*", "["}
  <2>1. i # Len(reg) + 1
    BY <1>1, <1>4
  <2>2. MatchFrom(m, reg, str, i, j, p) =
            IF j <= Len(str) /\ str[j] = reg[i] THEN m[<<i + 1, j + 1, p>>] ELSE "no"
    BY <1>4 DEF MatchFrom
  <2> QED BY <1>4, <2>1, <2>2 DEF CallsOnly
<1>5. CASE i <= Len(reg) /\ reg[i] = "["
  <2>1. i # Len(reg) + 1 /\ i \in 1..Len(reg)
    BY <1>1, <1>5
  <2>2. FirstClose(reg) + 1 > i /\ NextElement(reg, i) = FirstClose(reg) + 1
    <3>1. FirstClose(reg) \in (i + 1)..Len(reg)
      BY <1>5, <2>1, BlockIs
    <3> QED BY <1>1, <1>5, <3>1 DEF NextElement
  <2>3. j <= Len(str) => str[j] # "["
    BY <1>1 DEF Unblocked
  <2>4. MatchFrom(m, reg, str, i, j, p) =
            IF TryBlock(reg, str, i, j) = 0 THEN "no"
            ELSE m[<<NextElement(reg, i), TryBlock(reg, str, i, j), p>>]
    BY <1>5, <2>2, <2>3 DEF MatchFrom
  <2> QED BY <1>5, <2>1, <2>4 DEF CallsOnly
<1>6. i = Len(reg) + 1 \/ i <= Len(reg)
  BY <1>1
<1> QED BY <1>2, <1>3, <1>4, <1>5, <1>6

\* What Covers says solves the equation of Match.
LEMMA CoversSolve ==
    ASSUME NEW C, NEW reg \in Seq(C), NEW str \in Seq(C), Readable(reg), Unblocked(str),
           NEW i \in 1..(Len(reg) + 1), NEW j \in 1..(Len(str) + 1), NEW p \in 0..(Len(str) + 1)
    PROVE  MatchFrom(CoverTable(reg, str), reg, str, i, j, p) = Said(CoversFrom(reg, str, i, j))
<1> DEFINE m == CoverTable(reg, str)
           CF(a, b) == CoversFrom(reg, str, a, b)
           MF == MatchFrom(m, reg, str, i, j, p)
<1>1. Len(reg) \in Nat /\ Len(str) \in Nat
  BY LenProperties
<1>2. ASSUME NEW a \in 1..(Len(reg) + 1), NEW b \in 1..(Len(str) + 1)
      PROVE  m[<<a, b, p>>] = Said(CF(a, b))
  BY DEF CoverTable, Calls
<1>o. CallsOnly(reg, str, i, j, p, m)
  BY MatchFromIs, Zenon
<1> HIDE DEF m, CF
<1>3. CASE i = Len(reg) + 1
  <2>1. CF(i, j) <=> j = Len(str) + 1
    BY <1>1, <1>3, CoversEnd DEF CF
  <2>2. MF = Said(j = Len(str) + 1)
    BY <1>3, <1>o DEF CallsOnly
  <2> QED BY <2>1, <2>2 DEF CF, m, Said
<1>4. CASE i # Len(reg) + 1
  <2>1. i \in 1..Len(reg) /\ i <= Len(reg) /\ i + 1 \in 1..(Len(reg) + 1)
        /\ (j <= Len(str) => j + 1 \in 1..(Len(str) + 1))
    BY <1>1, <1>4
  <2>2. CASE reg[i] = "*"
    <3>1. MF = IF j <= Len(str) /\ m[<<i, j + 1, p>>] # "no" THEN m[<<i, j + 1, p>>]
               ELSE m[<<i + 1, j, p>>]
      BY <2>1, <2>2, <1>o DEF CallsOnly
    <3>2. CF(i, j) <=> (j <= Len(str) /\ CF(i, j + 1)) \/ CF(i + 1, j)
      BY <2>1, <2>2, CoversCalls DEF CF
    <3>3. m[<<i + 1, j, p>>] = Said(CF(i + 1, j))
      BY <1>2, <2>1
    <3>4. j <= Len(str) => m[<<i, j + 1, p>>] = Said(CF(i, j + 1))
      BY <1>2, <2>1
    <3> HIDE DEF MF
    <3>5. MF = Said(CF(i, j))
      BY <3>1, <3>2, <3>3, <3>4 DEF Said
    <3> QED BY <3>5 DEF MF, CF, m
  <2>3. CASE reg[i] \notin {"*", "["}
    <3>1. MF = IF j <= Len(str) /\ str[j] = reg[i] THEN m[<<i + 1, j + 1, p>>] ELSE "no"
      BY <2>1, <2>3, <1>o DEF CallsOnly
    <3>2. CF(i, j) <=> j <= Len(str) /\ str[j] = reg[i] /\ CF(i + 1, j + 1)
      BY <2>1, <2>3, CoversCalls DEF CF
    <3>3. j <= Len(str) => m[<<i + 1, j + 1, p>>] = Said(CF(i + 1, j + 1))
      BY <1>2, <2>1
    <3> HIDE DEF MF
    <3>4. MF = Said(CF(i, j))
      BY <3>1, <3>2, <3>3 DEF Said
    <3> QED BY <3>4 DEF MF, CF, m
  <2>4. CASE reg[i] = "["
    <3> DEFINE to == TryBlock(reg, str, i, j)
               n  == NextElement(reg, i)
    <3>1. MF = IF to = 0 THEN "no" ELSE m[<<n, to, p>>]
      BY <2>1, <2>4, <1>o DEF CallsOnly
    <3>2. CF(i, j) <=> to # 0 /\ CF(n, to)
      BY <2>1, <2>4, CoversCalls DEF CF
    <3>3. to # 0 => n \in 1..(Len(reg) + 1) /\ to \in 1..(Len(str) + 1)
      <4>1. n \in (i + 1)..(Len(reg) + 1)
        BY <2>1, NextElementIs
      <4>2. to \in {0} \union (j..(Len(str) + 1))
        BY <2>1, <2>4, TryBlockIs
      <4> HIDE DEF to, n
      <4> QED BY <1>1, <4>1, <4>2
    <3> HIDE DEF MF, to, n
    <3>4. to # 0 => m[<<n, to, p>>] = Said(CF(n, to))
      BY <1>2, <3>3
    <3>5. MF = Said(CF(i, j))
      BY <3>1, <3>2, <3>4 DEF Said
    <3> QED BY <3>5 DEF MF, CF, m
  <2> QED BY <2>2, <2>3, <2>4
<1> QED BY <1>3, <1>4

Solved(f, reg, str) ==
    f = [c \in Calls(reg, str) |-> MatchFrom(f, reg, str, c[1], c[2], c[3])]

\* How many steps are left from a position.
Ahead(c, reg, str) == (Len(reg) + 1 - c[1]) + (Len(str) + 1 - c[2])

LEMMA MatchUnique ==
    ASSUME NEW C, NEW reg \in Seq(C), NEW str \in Seq(C), Readable(reg), Unblocked(str),
           NEW f, NEW g, Solved(f, reg, str), Solved(g, reg, str)
    PROVE  f = g
<1> DEFINE D == Calls(reg, str)
           B == {c \in D : f[c] # g[c]}
           T == {Ahead(c, reg, str) : c \in B}
           At(i, j, p, h) == MatchFrom(h, reg, str, i, j, p)
<1>1. /\ f = [c \in D |-> MatchFrom(f, reg, str, c[1], c[2], c[3])]
      /\ g = [c \in D |-> MatchFrom(g, reg, str, c[1], c[2], c[3])]
  BY DEF Solved
<1>2. Len(reg) \in Nat /\ Len(str) \in Nat
  BY LenProperties
<1>3. \A c \in D : Ahead(c, reg, str) \in Nat
  BY <1>2 DEF Ahead, Calls
<1>4. B = {}
  <2> SUFFICES ASSUME B # {} PROVE FALSE
    OBVIOUS
  <2>1. T \subseteq Nat /\ T # {}
    BY <1>3
  <2> HIDE DEF T
  <2>2. PICK n \in T : \A k \in T : n <= k
    BY <2>1, LeastOf
  <2>3. PICK c \in B : n = Ahead(c, reg, str)
    BY <2>2 DEF T
  <2>4. PICK i \in 1..(Len(reg) + 1), j \in 1..(Len(str) + 1), p \in 0..(Len(str) + 1) :
            c = <<i, j, p>> /\ f[c] # g[c] /\ c \in D
    BY DEF Calls
  <2>5. n = (Len(reg) + 1 - i) + (Len(str) + 1 - j)
    BY <2>3, <2>4 DEF Ahead
  <2>6. ASSUME NEW a \in 1..(Len(reg) + 1), NEW b \in 1..(Len(str) + 1), a + b > i + j
        PROVE  f[<<a, b, p>>] = g[<<a, b, p>>]
    <3>1. <<a, b, p>> \in D
      BY DEF Calls
    <3>2. Ahead(<<a, b, p>>, reg, str) < n
      <4>1. Ahead(<<a, b, p>>, reg, str) = (Len(reg) + 1 - a) + (Len(str) + 1 - b)
        BY DEF Ahead
      <4>2. (Len(reg) + 1 - a) + (Len(str) + 1 - b) < (Len(reg) + 1 - i) + (Len(str) + 1 - j)
        <5> HIDE DEF D, B
        <5> QED BY <1>2, <2>6
      <4> QED BY <2>5, <4>1, <4>2
    <3>3. Ahead(<<a, b, p>>, reg, str) \in Nat /\ n \in Nat
      BY <1>3, <2>1, <3>1
    <3>4. Ahead(<<a, b, p>>, reg, str) \notin T
      BY <2>2, <3>2, <3>3
    <3>5. <<a, b, p>> \notin B
      BY <3>4 DEF T
    <3> QED BY <3>1, <3>5
  <2> HIDE DEF D, B
  <2>o. CallsOnly(reg, str, i, j, p, f) /\ CallsOnly(reg, str, i, j, p, g)
    BY MatchFromIs, Zenon
  <2>7. At(i, j, p, f) = At(i, j, p, g)
    <3>1. CASE i = Len(reg) + 1
      BY <3>1, <2>o DEF CallsOnly
    <3>2. CASE i # Len(reg) + 1
      <4>1. /\ i \in 1..Len(reg) /\ i <= Len(reg) /\ i + 1 \in 1..(Len(reg) + 1)
            /\ j <= Len(str) => j + 1 \in 1..(Len(str) + 1)
            /\ i + 1 + j > i + j /\ i + (j + 1) > i + j /\ i + 1 + (j + 1) > i + j
        BY <1>2, <3>2
      <4>2. /\ f[<<i + 1, j, p>>] = g[<<i + 1, j, p>>]
            /\ j <= Len(str) => f[<<i, j + 1, p>>] = g[<<i, j + 1, p>>]
            /\ j <= Len(str) => f[<<i + 1, j + 1, p>>] = g[<<i + 1, j + 1, p>>]
        BY <2>6, <4>1, Zenon
      <4>3. CASE reg[i] = "*"
        <5>1. \A h \in {f, g} : At(i, j, p, h) =
                  IF j <= Len(str) /\ h[<<i, j + 1, p>>] # "no" THEN h[<<i, j + 1, p>>]
                  ELSE h[<<i + 1, j, p>>]
          BY <4>1, <4>3, <2>o DEF CallsOnly
        <5> HIDE DEF At
        <5>2. CASE j <= Len(str)
          BY <4>2, <5>1, <5>2
        <5>3. CASE ~(j <= Len(str))
          BY <4>2, <5>1, <5>3
        <5> QED BY <5>2, <5>3
      <4>4. CASE reg[i] \notin {"*", "["}
        <5>1. \A h \in {f, g} : At(i, j, p, h) =
                  IF j <= Len(str) /\ str[j] = reg[i] THEN h[<<i + 1, j + 1, p>>] ELSE "no"
          BY <4>1, <4>4, <2>o DEF CallsOnly
        <5> HIDE DEF At
        <5> QED BY <4>2, <5>1
      <4>5. CASE reg[i] = "["
        <5> DEFINE to == TryBlock(reg, str, i, j)
                   m  == NextElement(reg, i)
        <5>1. \A h \in {f, g} : At(i, j, p, h) = IF to = 0 THEN "no" ELSE h[<<m, to, p>>]
          BY <4>1, <4>5, <2>o DEF CallsOnly
        <5>2. m \in (i + 1)..(Len(reg) + 1)
          BY <4>1, NextElementIs
        <5>3. to \in {0} \union (j..(Len(str) + 1))
          BY <4>1, <4>5, TryBlockIs
        <5> HIDE DEF At, to, m
        <5>4. to # 0 => /\ m \in 1..(Len(reg) + 1) /\ to \in 1..(Len(str) + 1)
                        /\ m + to > i + j
          BY <1>2, <5>2, <5>3
        <5>5. to # 0 => f[<<m, to, p>>] = g[<<m, to, p>>]
          BY <2>6, <5>4
        <5> QED BY <5>1, <5>5
      <4> QED BY <4>3, <4>4, <4>5
    <3> QED BY <3>1, <3>2
  <2>8. f[c] = At(i, j, p, f) /\ g[c] = At(i, j, p, g)
    BY <1>1, <2>4, Zenon
  <2> QED BY <2>4, <2>7, <2>8
<1>5. \A c \in D : f[c] = g[c]
  BY <1>4
<1> HIDE DEF D, B
<1>6. \A c \in D : MatchFrom(f, reg, str, c[1], c[2], c[3]) = MatchFrom(g, reg, str, c[1], c[2], c[3])
  <2> TAKE c \in D
  <2>1. /\ f[c] = MatchFrom(f, reg, str, c[1], c[2], c[3])
        /\ g[c] = MatchFrom(g, reg, str, c[1], c[2], c[3])
    BY <1>1, Zenon
  <2> QED BY <1>5, <2>1
<1> QED BY <1>1, <1>6, Zenon

\* Match answers yes exactly when the pattern covers the name, and else no.
LEMMA MatchCovers ==
    ASSUME NEW C, NEW reg \in Seq(C), NEW str \in Seq(C), Readable(reg), Unblocked(str)
    PROVE  Match(reg, str) = IF Covers(reg, str) THEN "yes" ELSE "no"
<1> DEFINE t == CoverTable(reg, str)
           f == CHOOSE m : Solved(m, reg, str)
<1>1. Len(reg) \in Nat /\ Len(str) \in Nat
  BY LenProperties
<1>2. \A c \in Calls(reg, str) : Said(CoversFrom(reg, str, c[1], c[2]))
                                   = MatchFrom(t, reg, str, c[1], c[2], c[3])
  <2> TAKE c \in Calls(reg, str)
  <2>1. c[1] \in 1..(Len(reg) + 1) /\ c[2] \in 1..(Len(str) + 1) /\ c[3] \in 0..(Len(str) + 1)
    BY DEF Calls
  <2> QED BY <2>1, CoversSolve
<1>3. Solved(t, reg, str)
  BY <1>2, Zenon DEF Solved, CoverTable
<1> HIDE DEF t
<1>4. Solved(f, reg, str)
  BY <1>3
<1> HIDE DEF f
<1>5. f = t
  BY <1>3, <1>4, MatchUnique
<1>6. Match(reg, str) = f[<<1, 1, 0>>]
  BY DEF Match, f, Solved
<1>7. <<1, 1, 0>> \in Calls(reg, str)
  BY <1>1 DEF Calls
<1>8. t[<<1, 1, 0>>] = Said(CoversFrom(reg, str, 1, 1))
  BY <1>7 DEF t, CoverTable
<1> QED BY <1>5, <1>6, <1>8, CoversIs DEF Said

-----------------------------------------------------------------------------
(* The parts of a target.  Each is found in what is left of the part before, *)
(* by the grammar, and from a position in the target, by the machine: a part *)
(* that begins behind a symbols ends at the same symbol, found from either.  *)

LEMMA MaxIs ==
    ASSUME NEW S, S \subseteq Nat, NEW n \in S, \A m \in S : m <= n
    PROVE  Max(S) = n
<1> DEFINE x == CHOOSE x \in S : \A y \in S : x >= y
<1>1. x \in S /\ \A y \in S : x >= y
  OBVIOUS
<1> HIDE DEF x
<1>2. x <= n /\ n <= x /\ x \in Nat /\ n \in Nat
  BY <1>1
<1>3. x = n
  BY <1>2
<1> QED BY <1>3 DEF Max, x

LEMMA MinExists ==
    ASSUME NEW S, S \subseteq Nat, S # {}
    PROVE  Min(S) \in S /\ \A m \in S : Min(S) <= m
<1>1. PICK n \in S : \A m \in S : n <= m
  BY LeastOf
<1>2. Min(S) = n
  BY <1>1, MinIs
<1> QED BY <1>1, <1>2

\* A set of numbers with a bound has a greatest one.
LEMMA MaxExists ==
    ASSUME NEW S, S \subseteq Nat, S # {}, NEW b \in Nat, \A m \in S : m <= b
    PROVE  Max(S) \in S /\ \A m \in S : m <= Max(S)
<1> DEFINE T == {b - m : m \in S}
<1>0. \A m \in S : b - m \in Nat
  OBVIOUS
<1>1. T \subseteq Nat /\ T # {}
  BY <1>0
<1>2. PICK d \in T : \A e \in T : d <= e
  BY <1>1, LeastOf
<1>3. PICK n \in S : d = b - n
  BY <1>2
<1>4. ASSUME NEW m \in S
      PROVE  m <= n
  <2>1. b - m \in T /\ m \in Nat /\ n \in Nat
    OBVIOUS
  <2>2. b - n <= b - m
    BY <1>2, <1>3, <2>1
  <2> QED BY <2>1, <2>2
<1>5. Max(S) = n
  BY <1>4, MaxIs
<1> QED BY <1>4, <1>5

\* k is where the first symbol of S is among s[p], ..., s[e], or behind them.
IsFirst(s, S, p, e, k) == /\ k \in p..(e + 1)
                          /\ k <= e => s[k] \in S
                          /\ \A l \in p..(k - 1) : s[l] \notin S

LEMMA FirstUnique ==
    ASSUME NEW s, NEW S, NEW p \in Nat, NEW e \in Nat, NEW k, NEW l,
           IsFirst(s, S, p, e, k), IsFirst(s, S, p, e, l)
    PROVE  k = l
<1>1. k \in Nat /\ l \in Nat
  BY DEF IsFirst
<1>2. ~(k < l)
  BY <1>1 DEF IsFirst
<1>3. ~(l < k)
  BY <1>1 DEF IsFirst
<1> QED BY <1>1, <1>2, <1>3

LEMMA FindIs ==
    ASSUME NEW C, NEW s \in Seq(C), NEW S, NEW p \in 1..(Len(s) + 1)
    PROVE  IsFirst(s, S, p, Len(s), FindFirstOf(s, S, p))
<1> DEFINE T == {l \in p..Len(s) : s[l] \in S} \union {Len(s) + 1}
           k == Min(T)
<1>1. Len(s) \in Nat
  BY LenProperties
<1>2. T \subseteq Nat /\ T # {}
  BY <1>1
<1> HIDE DEF T
<1>3. k \in T /\ \A m \in T : k <= m
  BY <1>2, MinExists
<1>4. FindFirstOf(s, S, p) = k
  BY DEF FindFirstOf, T
<1> HIDE DEF k
<1>5. /\ k \in p..(Len(s) + 1)
      /\ k <= Len(s) => s[k] \in S
      /\ \A l \in p..(k - 1) : s[l] \notin S
  BY <1>1, <1>3 DEF T
<1> QED BY <1>4, <1>5 DEF IsFirst

\* How many symbols are before the body, and up to the end of each part.
BodyAt(t)  == IF HasScheme(t) THEN 1 ELSE 0
AuthEnd(t) == BodyAt(t) + Len(Authority(t))
PathEnd(t) == BodyAt(t) + Len(Front(t))
RestEnd(t) == BodyAt(t) + Len(Upto(Body(t), {"#"}))

\* u is the front of t[a + 1], ..., t[e] that ends before a symbol of S.
IsFront(t, a, e, S, u) == /\ Len(u) \in 0..(e - a)
                          /\ u = SubSeq(t, a + 1, a + Len(u))
                          /\ IsFirst(t, S, a + 1, e, a + Len(u) + 1)

LEMMA PartOf ==
    ASSUME NEW C, NEW t \in Seq(C), NEW a \in Nat, NEW e \in Nat, a <= e, e <= Len(t),
           NEW S, NEW s, s = SubSeq(t, a + 1, e)
    PROVE  IsFront(t, a, e, S, Upto(s, S))
<1> DEFINE k == FindFirstOf(s, S, 1)
           n == k - 1
<1>1. /\ s \in Seq(C) /\ Len(s) = e - a /\ Len(t) \in Nat
      /\ \A l \in 1..(e - a) : s[l] = t[a + l]
  BY SubSeqIs, LenProperties
<1>2. IsFirst(s, S, 1, Len(s), k)
  <2>1. 1 \in 1..(Len(s) + 1)
    BY <1>1
  <2> QED BY <1>1, <2>1, FindIs
<1>3. Upto(s, S) = SubSeq(s, 1, n)
  BY DEF Upto, Token
<1> HIDE DEF k
<1>4. n \in 0..(e - a)
  BY <1>1, <1>2 DEF IsFirst
<1>5. SubSeq(s, 1, n) = SubSeq(t, a + 1, a + n)
  BY <1>4, SubSub
<1>6. Len(SubSeq(t, a + 1, a + n)) = n
  <2> DEFINE f == a + n
  <2>1. f \in Nat /\ a <= f /\ f <= Len(t) /\ f - a = n
    BY <1>1, <1>4
  <2> HIDE DEF f
  <2>2. Len(SubSeq(t, a + 1, f)) = f - a
    BY <2>1, SubSeqIs
  <2> QED BY <2>1, <2>2 DEF f
<1>7. IsFirst(t, S, a + 1, e, a + n + 1)
  <2>1. /\ k \in 1..(e - a + 1)
        /\ k <= e - a => s[k] \in S
        /\ \A l \in 1..(k - 1) : s[l] \notin S
    BY <1>1, <1>2 DEF IsFirst
  <2>2. /\ k <= e - a => t[a + k] \in S
        /\ \A l \in 1..(k - 1) : t[a + l] \notin S
    <3>1. k \in Nat /\ e - a \in Nat
      BY <2>1
    <3>2. k <= e - a => t[a + k] \in S
      BY <1>1, <2>1, <3>1
    <3>3. ASSUME NEW l \in 1..(k - 1)
          PROVE  t[a + l] \notin S
      <4>1. l \in 1..(e - a) /\ s[l] \notin S
        BY <2>1, <3>1
      <4> QED BY <1>1, <4>1
    <3> QED BY <3>2, <3>3
  <2>3. \A l \in (a + 1)..(a + k - 1) : t[l] \notin S
    <3> TAKE l \in (a + 1)..(a + k - 1)
    <3>1. l - a \in 1..(k - 1) /\ a + (l - a) = l
      BY <2>1
    <3> QED BY <2>2, <3>1
  <2>4. a + n + 1 = a + k /\ a + k \in (a + 1)..(e + 1) /\ (a + k <= e => k <= e - a)
    BY <2>1
  <2> HIDE DEF n
  <2>5. a + k <= e => t[a + k] \in S
    BY <2>2, <2>4
  <2> DEFINE h == a + k
  <2>6. h \in (a + 1)..(e + 1) /\ (h <= e => t[h] \in S) /\ \A l \in (a + 1)..(h - 1) : t[l] \notin S
    BY <2>1, <2>3, <2>4, <2>5
  <2> HIDE DEF h
  <2>7. IsFirst(t, S, a + 1, e, h)
    BY <2>6 DEF IsFirst
  <2> QED BY <2>4, <2>7 DEF h
<1> HIDE DEF n
<1>9. Upto(s, S) = SubSeq(t, a + 1, a + n) /\ Len(Upto(s, S)) = n
  BY <1>3, <1>5, <1>6
<1>10. IsFront(t, a, e, S, Upto(s, S))
  BY <1>4, <1>7, <1>9 DEF IsFront
<1> QED BY <1>10

LEMMA UptoEnds ==
    ASSUME NEW C, NEW s \in Seq(C), NEW S
    PROVE  FindFirstOf(s, S, 1) = Len(Upto(s, S)) + 1
<1> DEFINE k == FindFirstOf(s, S, 1)
<1>1. Len(s) \in Nat /\ 1 \in 1..(Len(s) + 1)
  BY LenProperties
<1>2. IsFirst(s, S, 1, Len(s), k)
  BY <1>1, FindIs
<1>3. Upto(s, S) = SubSeq(s, 1, k - 1)
  BY DEF Upto, Token
<1> HIDE DEF k
<1> DEFINE e == k - 1
<1>4. e \in Nat /\ 0 <= e /\ e <= Len(s) /\ k = e + 1
  BY <1>1, <1>2 DEF IsFirst
<1> HIDE DEF e
<1>5. Len(SubSeq(s, 0 + 1, e)) = e - 0
  BY <1>4, SubSeqIs
<1> QED BY <1>3, <1>4, <1>5 DEF e, k

LEMMA Whole ==
    ASSUME NEW C, NEW t \in Seq(C)
    PROVE  t = SubSeq(t, 1, Len(t))
<1>1. Len(t) \in Nat /\ \A l \in 1..Len(t) : t[l] \in C
  BY LenProperties
<1>2. /\ SubSeq(t, 0 + 1, Len(t)) \in Seq(C) /\ Len(SubSeq(t, 0 + 1, Len(t))) = Len(t) - 0
      /\ \A l \in 1..(Len(t) - 0) : SubSeq(t, 0 + 1, Len(t))[l] = t[0 + l]
  BY <1>1, SubSeqIs
<1> QED BY <1>1, <1>2, SeqEqual

LEMMA Parts ==
    ASSUME NEW C, NEW t \in Seq(C)
    PROVE  /\ BodyAt(t) \in Nat /\ AuthEnd(t) \in Nat /\ PathEnd(t) \in Nat /\ RestEnd(t) \in Nat
           /\ BodyAt(t) <= AuthEnd(t) /\ AuthEnd(t) <= PathEnd(t) /\ PathEnd(t) <= RestEnd(t)
           /\ RestEnd(t) <= Len(t) /\ Len(t) \in Nat
           /\ Body(t) = SubSeq(t, BodyAt(t) + 1, Len(t))
           /\ Authority(t) = SubSeq(t, BodyAt(t) + 1, AuthEnd(t))
           /\ PathOf(t) = SubSeq(t, AuthEnd(t) + 1, PathEnd(t))
           /\ Upto(Body(t), {"#"}) = SubSeq(t, BodyAt(t) + 1, RestEnd(t))
           /\ IsFirst(t, {"?", "#"}, BodyAt(t) + 1, Len(t), PathEnd(t) + 1)
           /\ IsFirst(t, {"#"}, BodyAt(t) + 1, Len(t), RestEnd(t) + 1)
           /\ HasScheme(t) => IsFirst(t, {"/"}, BodyAt(t) + 1, PathEnd(t), AuthEnd(t) + 1)
           /\ ~HasScheme(t) => AuthEnd(t) = 0
           /\ From(Body(t), {"#"}) = SubSeq(t, RestEnd(t) + 2, Len(t))
<1> DEFINE o == BodyAt(t)
           b == Body(t)
           front == Front(t)
           rest  == Upto(b, {"#"})
<1>1. Len(t) \in Nat /\ o \in Nat /\ o <= Len(t)
  BY LenProperties, EmptySeq DEF BodyAt, HasScheme
<1>2. b = SubSeq(t, o + 1, Len(t))
  <2>1. CASE HasScheme(t)
    BY <2>1, TailIsSubSeq DEF Body, BodyAt, HasScheme
  <2>2. CASE ~HasScheme(t)
    BY <2>2, Whole DEF Body, BodyAt
  <2> QED BY <2>1, <2>2
<1>3. front = Upto(b, {"?", "#"})
  BY DEF Front
<1> DEFINE len == Len(t)
<1> HIDE DEF b, o
<1>0. ASSUME NEW S
      PROVE  /\ IsFront(t, o, len, S, Upto(b, S))
             /\ FindFirstOf(b, S, 1) = Len(Upto(b, S)) + 1
  <2>1. o \in Nat /\ len \in Nat /\ o <= len /\ len <= Len(t) /\ b = SubSeq(t, o + 1, len)
    BY <1>1, <1>2
  <2> HIDE DEF len, front, rest
  <2>2. IsFront(t, o, len, S, Upto(b, S))
    BY <2>1, PartOf
  <2>3. FindFirstOf(b, S, 1) = Len(Upto(b, S)) + 1
    <3>1. SubSeq(t, o + 1, len) \in Seq(C)
      BY <2>1, SubSeqIs
    <3> QED BY <2>1, <3>1, UptoEnds
  <2> QED BY <2>2, <2>3
<1>4. /\ Len(front) \in 0..(Len(t) - o) /\ front = SubSeq(t, o + 1, o + Len(front))
      /\ IsFirst(t, {"?", "#"}, o + 1, Len(t), o + Len(front) + 1)
  <2>1. IsFront(t, o, Len(t), {"?", "#"}, Upto(b, {"?", "#"}))
    BY <1>0
  <2> QED BY <1>3, <2>1 DEF IsFront
<1>5. /\ Len(rest) \in 0..(Len(t) - o) /\ rest = SubSeq(t, o + 1, o + Len(rest))
      /\ IsFirst(t, {"#"}, o + 1, Len(t), o + Len(rest) + 1)
      /\ FindFirstOf(b, {"#"}, 1) = Len(rest) + 1
  <2>1. /\ IsFront(t, o, Len(t), {"#"}, Upto(b, {"#"}))
        /\ FindFirstOf(b, {"#"}, 1) = Len(Upto(b, {"#"})) + 1
    BY <1>0
  <2> QED BY <2>1 DEF IsFront
<1> HIDE DEF front, rest
<1>6. o + Len(front) <= o + Len(rest)
  <2> SUFFICES ASSUME ~(o + Len(front) <= o + Len(rest)) PROVE FALSE
    OBVIOUS
  <2>1. /\ o + Len(rest) + 1 <= Len(t)
        /\ o + Len(rest) + 1 \in (o + 1)..(o + Len(front) + 1 - 1)
    BY <1>1, <1>4, <1>5
  <2>2. t[o + Len(rest) + 1] \in {"#"}
    BY <1>5, <2>1 DEF IsFirst
  <2>3. \A l \in (o + 1)..(o + Len(front) + 1 - 1) : t[l] \notin {"?", "#"}
    BY <1>1, <1>4 DEF IsFirst
  <2> QED BY <2>1, <2>2, <2>3
<1>7. HasScheme(t) =>
        /\ Len(Authority(t)) \in 0..Len(front)
        /\ Authority(t) = SubSeq(t, o + 1, o + Len(Authority(t)))
        /\ IsFirst(t, {"/"}, o + 1, o + Len(front), o + Len(Authority(t)) + 1)
  <2> SUFFICES ASSUME HasScheme(t)
               PROVE  /\ Len(Authority(t)) \in 0..Len(front)
                      /\ Authority(t) = SubSeq(t, o + 1, o + Len(Authority(t)))
                      /\ IsFirst(t, {"/"}, o + 1, o + Len(front), o + Len(Authority(t)) + 1)
    OBVIOUS
  <2>1. Authority(t) = Upto(front, {"/"})
    BY DEF Authority, front
  <2>2. /\ o + Len(front) \in Nat /\ o <= o + Len(front) /\ o + Len(front) <= Len(t)
        /\ o + Len(front) - o = Len(front)
    BY <1>1, <1>4
  <2>3. IsFront(t, o, o + Len(front), {"/"}, Upto(front, {"/"}))
    BY <1>1, <1>4, <2>2, PartOf
  <2>4. IsFront(t, o, o + Len(front), {"/"}, Authority(t))
    BY <2>1, <2>3
  <2>5. /\ Len(Authority(t)) \in 0..(o + Len(front) - o)
        /\ Authority(t) = SubSeq(t, o + 1, o + Len(Authority(t)))
        /\ IsFirst(t, {"/"}, o + 1, o + Len(front), o + Len(Authority(t)) + 1)
    BY <1>1, <1>4, <2>4 DEF IsFront
  <2> QED BY <2>2, <2>5
<1>8. ~HasScheme(t) => o = 0 /\ Authority(t) = <<>> /\ Len(Authority(t)) = 0
  BY EmptySeq DEF BodyAt, Authority, o
<1>9. Len(Authority(t)) \in 0..Len(front) /\ Authority(t) = SubSeq(t, o + 1, o + Len(Authority(t)))
  <2>1. CASE HasScheme(t)
    BY <1>7, <2>1
  <2>2. CASE ~HasScheme(t)
    <3>1. SubSeq(t, 1, 0) = <<>>
      BY SubSeqEmpty
    <3> QED BY <1>4, <1>8, <2>2, <3>1
  <2> QED BY <2>1, <2>2
<1>10. PathOf(t) = SubSeq(t, o + Len(Authority(t)) + 1, o + Len(front))
  <2>1. PathOf(t) = SubSeq(front, Len(Authority(t)) + 1, Len(front))
    BY DEF PathOf, front
  <2>2. /\ o + Len(front) \in Nat /\ o <= o + Len(front) /\ o + Len(front) <= Len(t)
        /\ Len(Authority(t)) + 1 \in Nat \ {0} /\ Len(front) \in Int
        /\ Len(front) <= o + Len(front) - o
        /\ o + (Len(Authority(t)) + 1) = o + Len(Authority(t)) + 1
    BY <1>1, <1>4, <1>9
  <2>3. SubSeq(SubSeq(t, o + 1, o + Len(front)), Len(Authority(t)) + 1, Len(front))
          = SubSeq(t, o + (Len(Authority(t)) + 1), o + Len(front))
    BY <1>1, <2>2, SubSub
  <2> QED BY <1>4, <2>1, <2>2, <2>3
<1>11. From(b, {"#"}) = SubSeq(t, o + Len(rest) + 2, Len(t))
  <2>1. Len(b) = Len(t) - o
    BY <1>1, <1>2, SubSeqIs
  <2>2. From(b, {"#"}) = SubSeq(b, Len(rest) + 2, Len(t) - o)
    BY <1>5, <2>1 DEF From
  <2>3. /\ Len(rest) + 2 \in Nat \ {0} /\ Len(t) - o \in Int /\ Len(t) - o <= Len(t) - o
        /\ o + (Len(t) - o) = Len(t) /\ o + (Len(rest) + 2) = o + Len(rest) + 2
    BY <1>1, <1>5
  <2>4. SubSeq(SubSeq(t, o + 1, Len(t)), Len(rest) + 2, Len(t) - o)
          = SubSeq(t, o + (Len(rest) + 2), o + (Len(t) - o))
    BY <1>1, <2>3, SubSub
  <2> QED BY <1>2, <2>2, <2>3, <2>4
<1>12. /\ AuthEnd(t) = o + Len(Authority(t)) /\ PathEnd(t) = o + Len(front)
       /\ RestEnd(t) = o + Len(rest)
  BY DEF AuthEnd, PathEnd, RestEnd, o, front, rest, b
<1>13. /\ o + Len(Authority(t)) \in Nat /\ o + Len(front) \in Nat /\ o + Len(rest) \in Nat
       /\ o <= o + Len(Authority(t)) /\ o + Len(Authority(t)) <= o + Len(front)
       /\ o + Len(rest) <= Len(t)
  BY <1>1, <1>4, <1>5, <1>9
<1>14. ~HasScheme(t) => o + Len(Authority(t)) = 0
  BY <1>8
<1> QED BY <1>1, <1>2, <1>4, <1>5, <1>6, <1>7, <1>9, <1>10, <1>11, <1>12, <1>13, <1>14 DEF o, b, rest

LEMMA QueryIs ==
    ASSUME NEW C, NEW t \in Seq(C)
    PROVE  /\ QueryOf(t) = SubSeq(t, PathEnd(t) + 2, RestEnd(t))
           /\ PathEnd(t) < RestEnd(t) => t[PathEnd(t) + 1] = "?"
<1> DEFINE o == BodyAt(t)
           f == PathEnd(t)
           h == RestEnd(t)
           rest == Upto(Body(t), {"#"})
           u == Upto(rest, {"?"})
<1>1. /\ o \in Nat /\ f \in Nat /\ h \in Nat /\ o <= f /\ f <= h /\ h <= Len(t) /\ Len(t) \in Nat
      /\ rest = SubSeq(t, o + 1, h)
      /\ IsFirst(t, {"?", "#"}, o + 1, Len(t), f + 1)
      /\ IsFirst(t, {"#"}, o + 1, Len(t), h + 1)
  BY Parts
<1> HIDE DEF o, f, h
<1>0. o \in Nat /\ h \in Nat /\ o <= h /\ h <= Len(t) /\ rest = SubSeq(t, o + 1, h)
  BY <1>1
<1> HIDE DEF u, rest
<1>2. rest \in Seq(C) /\ Len(rest) = h - o
  <2>1. SubSeq(t, o + 1, h) \in Seq(C) /\ Len(SubSeq(t, o + 1, h)) = h - o
    BY <1>0, SubSeqIs
  <2> QED BY <1>0, <2>1
<1>3. QueryOf(t) = SubSeq(rest, FindFirstOf(rest, {"?"}, 1) + 1, Len(rest))
  BY DEF QueryOf, From, rest
<1>4. FindFirstOf(rest, {"?"}, 1) = Len(u) + 1
  BY <1>2, UptoEnds DEF u
<1>5. IsFront(t, o, h, {"?"}, u)
  BY <1>0, PartOf DEF u
<1>6. Len(u) \in 0..(h - o) /\ IsFirst(t, {"?"}, o + 1, h, o + Len(u) + 1)
  BY <1>1, <1>5 DEF IsFront
<1>7. IsFirst(t, {"?"}, o + 1, h, f + 1) /\ (f < h => t[f + 1] = "?")
  <2>1. ASSUME f + 1 <= h PROVE t[f + 1] = "?"
    <3>1. t[f + 1] \in {"?", "#"}
      BY <1>1, <2>1 DEF IsFirst
    <3>2. t[f + 1] \notin {"#"}
      <4>1. f + 1 \in (o + 1)..(h + 1 - 1)
        BY <1>1, <2>1
      <4>2. \A l \in (o + 1)..(h + 1 - 1) : t[l] \notin {"#"}
        BY <1>1 DEF IsFirst
      <4> QED BY <4>1, <4>2
    <3> QED BY <3>1, <3>2
  <2>2. \A l \in (o + 1)..(f + 1 - 1) : t[l] \notin {"?"}
    BY <1>1 DEF IsFirst
  <2>3. f + 1 \in (o + 1)..(h + 1)
    BY <1>1
  <2> QED BY <1>1, <2>1, <2>2, <2>3 DEF IsFirst
<1>8. o + Len(u) + 1 = f + 1
  <2>1. o + 1 \in Nat
    BY <1>1
  <2> QED BY <1>1, <1>6, <1>7, <2>1, FirstUnique
<1>9. QueryOf(t) = SubSeq(rest, f - o + 2, h - o)
  <2>1. Len(u) + 1 + 1 = f - o + 2
    <3>1. Len(u) \in Nat /\ o \in Nat /\ f \in Nat /\ o + Len(u) + 1 = f + 1
      BY <1>1, <1>6, <1>8
    <3> QED BY <3>1
  <2> QED BY <1>2, <1>3, <1>4, <2>1
<1>10. SubSeq(SubSeq(t, o + 1, h), f - o + 2, h - o) = SubSeq(t, o + (f - o + 2), o + (h - o))
  <2>1. f - o + 2 \in Nat \ {0} /\ h - o \in Int /\ h - o <= h - o /\ o <= h
    BY <1>1
  <2> QED BY <1>1, <2>1, SubSub
<1>11. o + (f - o + 2) = f + 2 /\ o + (h - o) = h
  BY <1>1
<1> QED BY <1>1, <1>7, <1>9, <1>10, <1>11 DEF f, h

LEMMA AuthorityIs ==
    ASSUME NEW C, NEW t \in Seq(C), HasScheme(t)
    PROVE  /\ BodyAt(t) = 1 /\ AuthEnd(t) = Len(Authority(t)) + 1 /\ Len(Authority(t)) \in Nat
           /\ \A l \in 1..Len(Authority(t)) : Authority(t)[l] = t[l + 1]
           /\ Authority(t) \in Seq(C)
           /\ IsFirst(t, {"/", "?", "#"}, 2, Len(t), Len(Authority(t)) + 2)
<1> DEFINE a == Authority(t)
           e == AuthEnd(t)
           f == PathEnd(t)
<1>1. BodyAt(t) = 1
  BY DEF BodyAt
<1>2. /\ e \in Nat /\ f \in Nat /\ 1 <= e /\ e <= f /\ f <= Len(t) /\ Len(t) \in Nat
      /\ a = SubSeq(t, 1 + 1, e)
      /\ IsFirst(t, {"?", "#"}, 1 + 1, Len(t), f + 1)
      /\ IsFirst(t, {"/"}, 1 + 1, f, e + 1)
  <2>1. RestEnd(t) \in Nat /\ f <= RestEnd(t) /\ RestEnd(t) <= Len(t)
    BY Parts
  <2>2. /\ e \in Nat /\ f \in Nat /\ BodyAt(t) <= e /\ e <= f /\ Len(t) \in Nat
        /\ a = SubSeq(t, BodyAt(t) + 1, e)
    BY Parts
  <2>3. /\ IsFirst(t, {"?", "#"}, BodyAt(t) + 1, Len(t), f + 1)
        /\ IsFirst(t, {"/"}, BodyAt(t) + 1, f, e + 1)
    BY Parts
  <2> QED BY <1>1, <2>1, <2>2, <2>3
<1> HIDE DEF a, e, f
<1>3. e = Len(a) + 1
  <2>1. Len(SubSeq(t, 1 + 1, e)) = e - 1
    BY <1>2, SubSeqIs
  <2> QED BY <1>2, <2>1
<1>4. a \in Seq(C) /\ Len(a) \in Nat /\ \A l \in 1..Len(a) : a[l] = t[l + 1]
  <2>1. SubSeq(t, 1 + 1, e) \in Seq(C) /\ \A l \in 1..(e - 1) : SubSeq(t, 1 + 1, e)[l] = t[1 + l]
    BY <1>2, SubSeqIs
  <2>2. Len(a) \in Nat /\ e - 1 = Len(a)
    BY <1>2, <1>3
  <2> QED BY <1>2, <2>1, <2>2
<1>5. IsFirst(t, {"/", "?", "#"}, 2, Len(t), e + 1)
  <2>1. /\ e + 1 \in 2..(Len(t) + 1)
        /\ \A l \in 2..(f + 1 - 1) : t[l] \notin {"?", "#"}
        /\ \A l \in 2..(e + 1 - 1) : t[l] \notin {"/"}
    BY <1>2 DEF IsFirst
  <2>2. \A l \in 2..(e + 1 - 1) : t[l] \notin {"/", "?", "#"}
    BY <1>2, <2>1
  <2>3. e + 1 <= Len(t) => t[e + 1] \in {"/", "?", "#"}
    <3>1. e + 1 <= f => t[e + 1] \in {"/"}
      BY <1>2 DEF IsFirst
    <3>2. ~(e + 1 <= f) => e = f
      BY <1>2
    <3>3. f + 1 <= Len(t) => t[f + 1] \in {"?", "#"}
      BY <1>2 DEF IsFirst
    <3> QED BY <3>1, <3>2, <3>3
  <2> QED BY <1>2, <2>1, <2>2, <2>3 DEF IsFirst
<1>6. e + 1 = Len(a) + 2
  BY <1>2, <1>3, <1>4
<1> QED BY <1>1, <1>3, <1>4, <1>5, <1>6 DEF a, e

LEMMA EmptyDecoded == PercentDecode(<<>>) = <<>> /\ StrToLower(<<>>) = <<>>
<1>1. DOMAIN <<>> = {}
  BY EmptySeq, LenProperties
<1>2. PercentDecode(<<>>) = [l \in {} |-> 0] /\ StrToLower(<<>>) = [l \in {} |-> 0]
  BY <1>1 DEF PercentDecode, StrToLower
<1>3. <<>> = [l \in {} |-> 0]
  BY <1>1
<1> QED BY <1>2, <1>3

LEMMA NoAuthority ==
    ASSUME NEW t, ~HasScheme(t)
    PROVE  /\ Authority(t) = <<>> /\ Ats(Authority(t)) = {0} /\ Max(Ats(Authority(t))) = 0
           /\ Host(Authority(t)) = <<>>
<1>1. Authority(t) = <<>>
  BY DEF Authority
<1>2. DOMAIN <<>> = {} /\ Len(<<>>) = 0
  BY EmptySeq, LenProperties
<1>3. Ats(<<>>) = {0}
  BY <1>2 DEF Ats
<1>4. Max({0}) = 0
  BY MaxIs
<1>5. Host(<<>>) = SubSeq(<<>>, 1, 0)
  BY <1>2, <1>3, <1>4 DEF Host
<1> QED BY <1>1, <1>3, <1>4, <1>5, SubSeqEmpty

-----------------------------------------------------------------------------
(* The machine.  Between two turns it is in one of the states below: what it *)
(* has found are the parts the grammar finds, and it has found them all      *)
(* right, or it has stopped at one that is wrong.                            *)

At(st, pos, run, uri) == [st |-> st, pos |-> pos, run |-> run, err |-> FALSE, uri |-> uri]
Found(i, h, p, q, f) ==
    [userinfo |-> i, hostname |-> h, path |-> p, query |-> q, fragment |-> f]

AuthorityOK(t) ==
    /\ HasScheme(t) => ValidHost(Host(Authority(t)))
    /\ \A l \in Ats(Authority(t)) \ {0} : ValidUserInfo(UserInfo(Authority(t), l))

\* The userinfo that ends before the "@" at n, and the last one.
InfoAt(t, n)   == IF n = 0 THEN <<>> ELSE PercentDecode(UserInfo(Authority(t), n))
InfoOf(t)      == InfoAt(t, Max(Ats(Authority(t))))
HostOf(t)      == StrToLower(PercentDecode(Host(Authority(t))))
DecodedPath(t) == PercentDecode(PathOf(t))
FinalPath(t)   == IF DecodedPath(t) = <<>> THEN <<"/">> ELSE DecodedPath(t)
FragmentOf(t)  == From(Body(t), {"#"})

\* The last "@" it has passed is at n.
InAuthority(t, p, n) ==
    /\ HasScheme(t) /\ n \in Ats(Authority(t))
    /\ \A l \in Ats(Authority(t)) \ {0} : l <= n => ValidUserInfo(UserInfo(Authority(t), l))
    /\ p = At("AUTH", n + 2, TRUE, Found(InfoAt(t, n), <<>>, <<>>, <<>>, <<>>))
AtPath(t, p) ==
    /\ AuthorityOK(t)
    /\ p = At("PATH", AuthEnd(t) + 1, TRUE, Found(InfoOf(t), HostOf(t), <<>>, <<>>, <<>>))
AtQuery(t, p) ==
    /\ AuthorityOK(t) /\ ValidPath(PathOf(t)) /\ PathEnd(t) < RestEnd(t)
    /\ p = At("QUERY", PathEnd(t) + 1, TRUE,
              Found(InfoOf(t), HostOf(t), DecodedPath(t), <<>>, <<>>))
AtFragment(t, p) ==
    /\ AuthorityOK(t) /\ ValidPath(PathOf(t)) /\ RestEnd(t) < Len(t)
    /\ p = At("FRAG", RestEnd(t) + 1, TRUE,
              Found(InfoOf(t), HostOf(t), DecodedPath(t), QueryOf(t), <<>>))
AtEnd(t, p, run, path) ==
    /\ AuthorityOK(t) /\ ValidPath(PathOf(t))
    /\ p = At("END", Len(t) + 1, run,
              Found(InfoOf(t), HostOf(t), path, QueryOf(t), FragmentOf(t)))
Refused(t, p) == p.err = TRUE /\ p.run = FALSE /\ ~(AuthorityOK(t) /\ ValidPath(PathOf(t)))

ParserOK(t, p) ==
    \/ p = NewParser \/ (\E n : InAuthority(t, p, n)) \/ AtPath(t, p) \/ AtQuery(t, p) \/ AtFragment(t, p)
    \/ AtEnd(t, p, TRUE, DecodedPath(t)) \/ AtEnd(t, p, FALSE, FinalPath(t)) \/ Refused(t, p)

LEMMA EndIsFragment ==
    ASSUME NEW C, NEW t \in Seq(C)
    PROVE  /\ FragmentOf(t) = SubSeq(t, RestEnd(t) + 2, Len(t))
           /\ RestEnd(t) < Len(t) => t[RestEnd(t) + 1] = "#"
<1>1. /\ BodyAt(t) \in Nat /\ RestEnd(t) \in Nat /\ BodyAt(t) <= RestEnd(t)
      /\ RestEnd(t) <= Len(t) /\ Len(t) \in Nat
      /\ IsFirst(t, {"#"}, BodyAt(t) + 1, Len(t), RestEnd(t) + 1)
      /\ FragmentOf(t) = SubSeq(t, RestEnd(t) + 2, Len(t))
  BY Parts DEF FragmentOf
<1>2. RestEnd(t) + 1 <= Len(t) => t[RestEnd(t) + 1] \in {"#"}
  BY <1>1 DEF IsFirst
<1> QED BY <1>1, <1>2

LEMMA AfterQuery ==
    ASSUME NEW C, NEW t \in Seq(C), AuthorityOK(t), ValidPath(PathOf(t)), NEW p,
           p = At(After(t, RestEnd(t) + 1), RestEnd(t) + 1, TRUE,
                  Found(InfoOf(t), HostOf(t), DecodedPath(t), QueryOf(t), <<>>))
    PROVE  ParserOK(t, p)
<1>1. RestEnd(t) \in Nat /\ RestEnd(t) <= Len(t) /\ Len(t) \in Nat
  BY Parts
<1>2. CASE RestEnd(t) < Len(t)
  <2>1. After(t, RestEnd(t) + 1) = "FRAG"
    BY <1>1, <1>2, EndIsFragment DEF After
  <2>2. AtFragment(t, p)
    BY <1>2, <2>1 DEF AtFragment
  <2> QED BY <2>2 DEF ParserOK
<1>3. CASE ~(RestEnd(t) < Len(t))
  <2>1. RestEnd(t) = Len(t) /\ After(t, RestEnd(t) + 1) = "END"
    BY <1>1, <1>3 DEF After
  <2>2. FragmentOf(t) = <<>>
    <3>1. RestEnd(t) + 2 \in Int /\ Len(t) \in Int /\ Len(t) < RestEnd(t) + 2
      BY <1>1, <2>1
    <3> QED BY <3>1, EndIsFragment, SubSeqEmpty
  <2>3. AtEnd(t, p, TRUE, DecodedPath(t))
    BY <2>1, <2>2 DEF AtEnd
  <2> QED BY <2>3 DEF ParserOK
<1> QED BY <1>2, <1>3

LEMMA AfterPath ==
    ASSUME NEW C, NEW t \in Seq(C), AuthorityOK(t), ValidPath(PathOf(t)), NEW p,
           p = At(After(t, PathEnd(t) + 1), PathEnd(t) + 1, TRUE,
                  Found(InfoOf(t), HostOf(t), DecodedPath(t), <<>>, <<>>))
    PROVE  ParserOK(t, p)
<1>1. /\ PathEnd(t) \in Nat /\ RestEnd(t) \in Nat /\ PathEnd(t) <= RestEnd(t)
      /\ RestEnd(t) <= Len(t) /\ Len(t) \in Nat
  BY Parts
<1>2. CASE PathEnd(t) < RestEnd(t)
  <2>1. After(t, PathEnd(t) + 1) = "QUERY"
    BY <1>1, <1>2, QueryIs DEF After
  <2>2. AtQuery(t, p)
    BY <1>2, <2>1 DEF AtQuery
  <2> QED BY <2>2 DEF ParserOK
<1>3. CASE ~(PathEnd(t) < RestEnd(t))
  <2>1. PathEnd(t) = RestEnd(t)
    BY <1>1, <1>3
  <2>2. QueryOf(t) = <<>>
    <3>1. PathEnd(t) + 2 \in Int /\ RestEnd(t) \in Int /\ RestEnd(t) < PathEnd(t) + 2
      BY <1>1, <2>1
    <3> QED BY <3>1, QueryIs, SubSeqEmpty
  <2> QED BY <2>1, <2>2, AfterQuery
<1> QED BY <1>2, <1>3

LEMMA AfterAuthority ==
    ASSUME NEW C, NEW t \in Seq(C), HasScheme(t), AuthorityOK(t), NEW p,
           p = At(After(t, AuthEnd(t) + 1), AuthEnd(t) + 1, TRUE,
                  Found(InfoOf(t), HostOf(t), <<>>, <<>>, <<>>))
    PROVE  ParserOK(t, p)
<1>1. /\ BodyAt(t) \in Nat /\ AuthEnd(t) \in Nat /\ PathEnd(t) \in Nat /\ AuthEnd(t) <= PathEnd(t)
      /\ PathEnd(t) <= RestEnd(t) /\ RestEnd(t) \in Nat /\ RestEnd(t) <= Len(t) /\ Len(t) \in Nat
  BY Parts
<1>2. /\ PathOf(t) = SubSeq(t, AuthEnd(t) + 1, PathEnd(t))
      /\ IsFirst(t, {"/"}, BodyAt(t) + 1, PathEnd(t), AuthEnd(t) + 1)
  BY Parts
<1>3. CASE AuthEnd(t) < PathEnd(t)
  <2>1. t[AuthEnd(t) + 1] \in {"/"}
    BY <1>1, <1>2, <1>3 DEF IsFirst
  <2>2. After(t, AuthEnd(t) + 1) = "PATH"
    BY <1>1, <1>3, <2>1 DEF After
  <2>3. AtPath(t, p)
    BY <2>2 DEF AtPath
  <2> QED BY <2>3 DEF ParserOK
<1>4. CASE ~(AuthEnd(t) < PathEnd(t))
  <2>1. AuthEnd(t) = PathEnd(t)
    BY <1>1, <1>4
  <2>2. PathOf(t) = <<>>
    <3>1. AuthEnd(t) + 1 \in Int /\ PathEnd(t) \in Int /\ PathEnd(t) < AuthEnd(t) + 1
      BY <1>1, <2>1
    <3> QED BY <1>2, <3>1, SubSeqEmpty
  <2>3. ValidPath(PathOf(t))
    <3>1. DOMAIN <<>> = {} /\ Len(<<>>) = 0
      BY EmptySeq, LenProperties
    <3> QED BY <2>2, <3>1 DEF ValidPath
  <2>4. DecodedPath(t) = <<>>
    BY <2>2, EmptyDecoded DEF DecodedPath
  <2> QED BY <2>1, <2>3, <2>4, AfterPath
<1> QED BY <1>3, <1>4

LEMMA PathTurn ==
    ASSUME NEW C, NEW t \in Seq(C), NEW p, AtPath(t, p)
    PROVE  ParserOK(t, UriStep(t, p))
<1> DEFINE e == AuthEnd(t)
           f == PathEnd(t)
           k == FindFirstOf(t, {"?", "#"}, e + 1)
           q == FsmPath(t, p)
<1>1. /\ e \in Nat /\ f \in Nat /\ e <= f /\ f <= Len(t) /\ Len(t) \in Nat
      /\ BodyAt(t) \in Nat /\ BodyAt(t) <= e
      /\ PathOf(t) = SubSeq(t, e + 1, f)
      /\ IsFirst(t, {"?", "#"}, BodyAt(t) + 1, Len(t), f + 1)
  <2>1. RestEnd(t) \in Nat /\ f <= RestEnd(t) /\ RestEnd(t) <= Len(t) /\ f \in Nat /\ Len(t) \in Nat
    BY Parts
  <2>2. f <= Len(t)
    BY <2>1
  <2> QED BY <2>2, Parts
<1>2. k = f + 1
  <2>1. IsFirst(t, {"?", "#"}, e + 1, Len(t), f + 1)
    BY <1>1 DEF IsFirst
  <2>2. e + 1 \in 1..(Len(t) + 1) /\ e + 1 \in Nat
    BY <1>1
  <2>3. IsFirst(t, {"?", "#"}, e + 1, Len(t), k)
    BY <2>2, FindIs
  <2> QED BY <1>1, <2>1, <2>2, <2>3, FirstUnique
<1>3. p = At("PATH", e + 1, TRUE, Found(InfoOf(t), HostOf(t), <<>>, <<>>, <<>>)) /\ AuthorityOK(t)
  BY DEF AtPath
<1>4. Token(t, e + 1, k) = PathOf(t)
  <2>1. f + 1 - 1 = f
    BY <1>1
  <2> QED BY <1>1, <1>2, <2>1 DEF Token
<1> HIDE DEF e, f, k
<1>5. q = [st |-> After(t, f + 1), pos |-> f + 1, run |-> ValidPath(PathOf(t)),
           err |-> ~ValidPath(PathOf(t)),
           uri |-> Found(InfoOf(t), HostOf(t), DecodedPath(t), <<>>, <<>>)]
  <2>1. /\ p.pos = e + 1
        /\ p = [st |-> "PATH", pos |-> e + 1, run |-> TRUE, err |-> FALSE,
                uri |-> [userinfo |-> InfoOf(t), hostname |-> HostOf(t), path |-> <<>>,
                         query |-> <<>>, fragment |-> <<>>]]
    BY <1>3 DEF At, Found
  <2>2. q = [p EXCEPT !.uri.path = DecodedPath(t), !.pos = f + 1,
                      !.err = ~ValidPath(PathOf(t)), !.run = ValidPath(PathOf(t)),
                      !.st = After(t, f + 1)]
    BY <1>2, <1>4, <2>1 DEF FsmPath, DecodedPath, k
  <2> HIDE DEF q
  <2> QED BY <2>1, <2>2 DEF Found
<1> HIDE DEF q
<1>6. UriStep(t, p) = q
  <2>1. p.st = "PATH"
    BY <1>3 DEF At
  <2> QED BY <2>1 DEF UriStep, q
<1>7. CASE ValidPath(PathOf(t))
  <2>1. q = At(After(t, f + 1), f + 1, TRUE,
               Found(InfoOf(t), HostOf(t), DecodedPath(t), <<>>, <<>>))
    BY <1>5, <1>7 DEF At
  <2> QED BY <1>3, <1>6, <1>7, <2>1, AfterPath DEF f
<1>8. CASE ~ValidPath(PathOf(t))
  <2>1. ValidPath(PathOf(t)) \in BOOLEAN
    BY DEF ValidPath
  <2>2. ValidPath(PathOf(t)) = FALSE
    BY <1>8, <2>1
  <2>3. Refused(t, q)
    BY <1>5, <2>2 DEF Refused
  <2> QED BY <1>6, <2>3 DEF ParserOK
<1> QED BY <1>7, <1>8

LEMMA QueryTurn ==
    ASSUME NEW C, NEW t \in Seq(C), NEW p, AtQuery(t, p)
    PROVE  ParserOK(t, UriStep(t, p))
<1> DEFINE f == PathEnd(t)
           h == RestEnd(t)
           k == FindFirstOf(t, {"#"}, f + 2)
<1>1. /\ f \in Nat /\ h \in Nat /\ f < h /\ h <= Len(t) /\ Len(t) \in Nat
      /\ BodyAt(t) \in Nat /\ BodyAt(t) <= f
      /\ IsFirst(t, {"#"}, BodyAt(t) + 1, Len(t), h + 1)
  <2>1. AuthEnd(t) \in Nat /\ BodyAt(t) <= AuthEnd(t) /\ AuthEnd(t) <= f /\ BodyAt(t) \in Nat /\ f \in Nat
    BY Parts
  <2>2. BodyAt(t) <= f
    BY <2>1
  <2> QED BY <2>2, Parts DEF AtQuery
<1>2. /\ p = At("QUERY", f + 1, TRUE, Found(InfoOf(t), HostOf(t), DecodedPath(t), <<>>, <<>>))
      /\ AuthorityOK(t) /\ ValidPath(PathOf(t))
  BY DEF AtQuery
<1>3. k = h + 1
  <2>1. IsFirst(t, {"#"}, f + 2, Len(t), h + 1)
    BY <1>1 DEF IsFirst
  <2>2. f + 2 \in 1..(Len(t) + 1) /\ f + 2 \in Nat
    BY <1>1
  <2>3. IsFirst(t, {"#"}, f + 2, Len(t), k)
    BY <2>2, FindIs
  <2> QED BY <1>1, <2>1, <2>2, <2>3, FirstUnique
<1>4. Token(t, f + 2, k) = QueryOf(t)
  <2>1. QueryOf(t) = SubSeq(t, f + 2, h)
    BY QueryIs
  <2> HIDE DEF f, h, k
  <2>2. k - 1 = h
    BY <1>1, <1>3
  <2> QED BY <2>1, <2>2 DEF Token
<1> HIDE DEF f, h, k
<1>5. UriStep(t, p) = [p EXCEPT !.uri.query = QueryOf(t), !.pos = h + 1, !.st = After(t, h + 1)]
  <2>1. p.st = "QUERY" /\ p.pos + 1 = f + 2
    BY <1>1, <1>2 DEF At
  <2> QED BY <1>3, <1>4, <2>1 DEF UriStep, FsmQuery, k
<1>6. UriStep(t, p) = At(After(t, h + 1), h + 1, TRUE,
                         Found(InfoOf(t), HostOf(t), DecodedPath(t), QueryOf(t), <<>>))
  BY <1>2, <1>5 DEF At, Found
<1> QED BY <1>2, <1>6, AfterQuery DEF h

LEMMA FragmentTurn ==
    ASSUME NEW C, NEW t \in Seq(C), NEW p, AtFragment(t, p)
    PROVE  ParserOK(t, UriStep(t, p))
<1> DEFINE h == RestEnd(t)
<1>1. h \in Nat /\ Len(t) \in Nat
  BY Parts
<1>2. /\ p = At("FRAG", h + 1, TRUE,
                Found(InfoOf(t), HostOf(t), DecodedPath(t), QueryOf(t), <<>>))
      /\ AuthorityOK(t) /\ ValidPath(PathOf(t))
  BY DEF AtFragment
<1>3. Token(t, h + 2, Len(t) + 1) = FragmentOf(t)
  <2>1. Len(t) + 1 - 1 = Len(t)
    BY <1>1
  <2> QED BY <2>1, EndIsFragment DEF Token
<1> HIDE DEF h
<1>4. UriStep(t, p) = [p EXCEPT !.uri.fragment = FragmentOf(t), !.pos = Len(t) + 1, !.st = "END"]
  <2>1. p.st = "FRAG" /\ p.pos + 1 = h + 2
    BY <1>1, <1>2 DEF At
  <2> QED BY <1>3, <2>1 DEF UriStep, FsmFrag
<1>5. AtEnd(t, UriStep(t, p), TRUE, DecodedPath(t))
  BY <1>2, <1>4 DEF AtEnd, At, Found
<1> QED BY <1>5 DEF ParserOK

LEMMA EndTurn ==
    ASSUME NEW t, NEW p, AtEnd(t, p, TRUE, DecodedPath(t))
    PROVE  ParserOK(t, UriStep(t, p))
<1>1. p.st = "END" /\ p.uri.path = DecodedPath(t)
  BY DEF AtEnd, At, Found
<1>2. UriStep(t, p) = [p EXCEPT !.run = FALSE, !.uri.path = FinalPath(t)]
  BY <1>1 DEF UriStep, FsmEnd, FinalPath, AtEnd, At, Found
<1>3. AtEnd(t, UriStep(t, p), FALSE, FinalPath(t))
  BY <1>2 DEF AtEnd, At, Found
<1> QED BY <1>3 DEF ParserOK

\* What the machine cuts out of the target is cut out of the authority.
LEMMA TokenOf ==
    ASSUME NEW C, NEW t \in Seq(C), HasScheme(t), NEW n \in Nat, NEW m \in Nat,
           m <= Len(Authority(t))
    PROVE  SubSeq(Authority(t), n + 1, m) = Token(t, n + 2, m + 2)
<1> DEFINE e == AuthEnd(t)
<1>1. e = Len(Authority(t)) + 1 /\ Len(Authority(t)) \in Nat /\ BodyAt(t) = 1
  BY AuthorityIs
<1>2. e \in Nat /\ 1 <= e /\ e <= Len(t) /\ Authority(t) = SubSeq(t, 1 + 1, e)
  <2>1. /\ PathEnd(t) \in Nat /\ RestEnd(t) \in Nat /\ e <= PathEnd(t) /\ PathEnd(t) <= RestEnd(t)
        /\ RestEnd(t) <= Len(t) /\ Len(t) \in Nat
        /\ Authority(t) = SubSeq(t, BodyAt(t) + 1, e)
    BY Parts
  <2> QED BY <1>1, <2>1
<1>3. n + 1 \in Nat \ {0} /\ m \in Int /\ m <= e - 1
  BY <1>1
<1> HIDE DEF e
<1>4. SubSeq(SubSeq(t, 1 + 1, e), n + 1, m) = SubSeq(t, 1 + (n + 1), 1 + m)
  BY <1>2, <1>3, SubSub
<1>5. 1 + (n + 1) = n + 2 /\ 1 + m = m + 2 - 1
  OBVIOUS
<1> QED BY <1>2, <1>4, <1>5 DEF Token

LEMMA AtsAre ==
    ASSUME NEW C, NEW t \in Seq(C), HasScheme(t)
    PROVE  /\ Ats(Authority(t)) \subseteq Nat /\ 0 \in Ats(Authority(t))
           /\ \A l \in Ats(Authority(t)) :
                 /\ l \in 0..Len(Authority(t))
                 /\ l # 0 => t[l + 1] = "@"
           /\ \A l \in 1..Len(Authority(t)) : t[l + 1] = "@" => l \in Ats(Authority(t))
<1> DEFINE a == Authority(t)
<1>1. a \in Seq(C) /\ Len(a) \in Nat /\ \A l \in 1..Len(a) : a[l] = t[l + 1]
  BY AuthorityIs
<1>2. DOMAIN a = 1..Len(a)
  BY <1>1, LenProperties
<1> QED BY <1>1, <1>2 DEF Ats

LEMMA AuthorityTurn ==
    ASSUME NEW C, NEW t \in Seq(C), NEW p, NEW n, InAuthority(t, p, n)
    PROVE  ParserOK(t, UriStep(t, p))
<1> DEFINE a == Authority(t)
           S == {"@", "/", "?", "#"}
           k == FindFirstOf(t, S, n + 2)
           tok == Token(t, n + 2, k)
           q == FsmAuth(t, p)
<1>1. /\ HasScheme(t) /\ n \in Ats(a)
      /\ \A l \in Ats(a) \ {0} : l <= n => ValidUserInfo(UserInfo(a, l))
      /\ p = At("AUTH", n + 2, TRUE, Found(InfoAt(t, n), <<>>, <<>>, <<>>, <<>>))
  BY DEF InAuthority
<1>2. /\ a \in Seq(C) /\ Len(a) \in Nat /\ AuthEnd(t) = Len(a) + 1 /\ Len(t) \in Nat
      /\ IsFirst(t, {"/", "?", "#"}, 2, Len(t), Len(a) + 2)
  BY <1>1, AuthorityIs, LenProperties
<1>3. /\ Ats(a) \subseteq Nat
      /\ \A l \in Ats(a) : l \in 0..Len(a) /\ (l # 0 => t[l + 1] = "@")
      /\ \A l \in 1..Len(a) : t[l + 1] = "@" => l \in Ats(a)
  BY <1>1, AtsAre
<1>4. n \in 0..Len(a) /\ n \in Nat
  BY <1>1, <1>3
<1>5. /\ Len(a) + 2 <= Len(t) + 1
      /\ Len(a) + 2 <= Len(t) => t[Len(a) + 2] \in {"/", "?", "#"}
      /\ \A l \in 2..(Len(a) + 1) : t[l] \notin {"/", "?", "#"}
  <2>1. /\ Len(a) + 2 \in 2..(Len(t) + 1)
        /\ Len(a) + 2 <= Len(t) => t[Len(a) + 2] \in {"/", "?", "#"}
        /\ \A l \in 2..(Len(a) + 2 - 1) : t[l] \notin {"/", "?", "#"}
    BY <1>2 DEF IsFirst
  <2> QED BY <1>2, <2>1
<1>6. /\ k \in (n + 2)..(Len(t) + 1)
      /\ k <= Len(t) => t[k] \in S
      /\ \A l \in (n + 2)..(k - 1) : t[l] \notin S
  <2>1. n + 2 \in 1..(Len(t) + 1)
    BY <1>2, <1>4, <1>5
  <2>2. IsFirst(t, S, n + 2, Len(t), k)
    BY <2>1, FindIs
  <2> QED BY <2>2 DEF IsFirst
<1> HIDE DEF a, k
<1>7. UriStep(t, p) = q
  <2>1. p.st = "AUTH"
    BY <1>1 DEF At
  <2> QED BY <2>1 DEF UriStep
<1>8. p.pos = n + 2
  BY <1>1 DEF At
\* Another "@".
<1>9. CASE k <= Len(t) /\ t[k] = "@"
  <2> DEFINE m == k - 1
  <2>1. m \in Nat /\ n < m /\ m \in 1..Len(a) /\ k = m + 1
    <3>1. ~(Len(a) + 2 < k)
      <4> SUFFICES ASSUME Len(a) + 2 < k PROVE FALSE
        OBVIOUS
      <4>1. Len(a) + 2 \in (n + 2)..(k - 1) /\ Len(a) + 2 <= Len(t)
        BY <1>2, <1>4, <1>6, <1>9
      <4> QED BY <1>5, <1>6, <4>1
    <3>2. k # Len(a) + 2
      BY <1>5, <1>9
    <3> QED BY <1>2, <1>4, <1>6, <3>1, <3>2
  <2>2. m \in Ats(a)
    BY <1>3, <1>9, <2>1
  <2>3. ASSUME NEW l \in Ats(a), l < m
        PROVE  l <= n
    <3> SUFFICES ASSUME n < l PROVE FALSE
      BY <1>3, <1>4
    <3>1. l \in Nat /\ l # 0 /\ t[l + 1] = "@" /\ l + 1 \in (n + 2)..(k - 1)
      BY <1>3, <1>4, <2>1, <2>3
    <3> QED BY <1>6, <3>1
  <2>4. tok = UserInfo(a, m)
    <3>1. Max({j \in Ats(a) : j < m}) = n
      <4>1. {j \in Ats(a) : j < m} \subseteq Nat /\ n \in {j \in Ats(a) : j < m}
        BY <1>1, <1>3, <2>1
      <4> QED BY <2>3, <4>1, MaxIs
    <3>2. m - 1 \in Nat /\ m - 1 <= Len(a) /\ m - 1 + 2 = k
      BY <1>2, <2>1
    <3>3. SubSeq(a, n + 1, m - 1) = Token(t, n + 2, m - 1 + 2)
      BY <1>1, <1>4, <3>2, TokenOf DEF a
    <3> QED BY <3>1, <3>2, <3>3 DEF UserInfo
  <2> HIDE DEF tok
  <2>5. q = [p EXCEPT !.uri.userinfo = PercentDecode(tok), !.pos = k + 1,
                      !.err = ~ValidUserInfo(tok), !.run = ValidUserInfo(tok)]
    BY <1>8, <1>9 DEF FsmAuth, tok, k
  <2> HIDE DEF q, m
  <2>6. q = [st |-> "AUTH", pos |-> m + 2, run |-> ValidUserInfo(tok), err |-> ~ValidUserInfo(tok),
             uri |-> Found(InfoAt(t, m), <<>>, <<>>, <<>>, <<>>)]
    <3>1. PercentDecode(tok) = InfoAt(t, m) /\ k + 1 = m + 2
      BY <2>1, <2>4 DEF InfoAt, a
    <3> QED BY <1>1, <2>5, <3>1 DEF At, Found
  <2>7. CASE ValidUserInfo(tok)
    <3>1. \A l \in Ats(a) \ {0} : l <= m => ValidUserInfo(UserInfo(a, l))
      <4> SUFFICES ASSUME NEW l \in Ats(a) \ {0}, l <= m
                   PROVE  ValidUserInfo(UserInfo(a, l))
        OBVIOUS
      <4>1. CASE l = m
        BY <2>4, <2>7, <4>1
      <4>2. CASE l # m
        <5>1. l < m
          BY <1>3, <2>1, <4>2
        <5> QED BY <1>1, <2>3, <5>1
      <4> QED BY <4>1, <4>2
    <3>2. q = At("AUTH", m + 2, TRUE, Found(InfoAt(t, m), <<>>, <<>>, <<>>, <<>>))
      BY <2>6, <2>7 DEF At
    <3>3. InAuthority(t, q, m)
      BY <1>1, <2>2, <3>1, <3>2 DEF InAuthority, a
    <3> QED BY <1>7, <3>3 DEF ParserOK
  <2>8. CASE ~ValidUserInfo(tok)
    <3>1. ~AuthorityOK(t)
      BY <2>1, <2>2, <2>4, <2>8 DEF AuthorityOK, a
    <3>2. ValidUserInfo(tok) \in BOOLEAN
      BY DEF ValidUserInfo
    <3>3. Refused(t, q)
      BY <2>6, <2>8, <3>1, <3>2 DEF Refused
    <3> QED BY <1>7, <3>3 DEF ParserOK
  <2> QED BY <2>7, <2>8
\* The end of the authority.
<1>10. CASE ~(k <= Len(t) /\ t[k] = "@")
  <2>1. k = Len(a) + 2
    <3>1. ~(k < Len(a) + 2)
      <4> SUFFICES ASSUME k < Len(a) + 2 PROVE FALSE
        OBVIOUS
      <4>1. k <= Len(t) /\ k \in 2..(Len(a) + 1)
        BY <1>2, <1>4, <1>5, <1>6
      <4> QED BY <1>5, <1>6, <1>10, <4>1
    <3>2. ~(Len(a) + 2 < k)
      <4> SUFFICES ASSUME Len(a) + 2 < k PROVE FALSE
        OBVIOUS
      <4>1. Len(a) + 2 \in (n + 2)..(k - 1) /\ Len(a) + 2 <= Len(t)
        BY <1>2, <1>4, <1>6
      <4> QED BY <1>5, <1>6, <4>1
    <3> QED BY <1>2, <1>6, <3>1, <3>2
  <2>2. \A l \in Ats(a) : l <= n
    <3> SUFFICES ASSUME NEW l \in Ats(a), n < l PROVE FALSE
      BY <1>3, <1>4
    <3>1. l \in Nat /\ l # 0 /\ t[l + 1] = "@" /\ l + 1 \in (n + 2)..(k - 1)
      BY <1>2, <1>3, <1>4, <2>1
    <3> QED BY <1>6, <3>1
  <2>3. Max(Ats(a)) = n
    BY <1>1, <1>3, <2>2, MaxIs
  <2>4. tok = Host(a)
    <3>1. SubSeq(a, n + 1, Len(a)) = Token(t, n + 2, Len(a) + 2)
      BY <1>1, <1>2, <1>4, TokenOf DEF a
    <3> QED BY <2>1, <2>3, <3>1 DEF Host
  <2> HIDE DEF tok
  <2>5. q = [p EXCEPT !.uri.hostname = StrToLower(PercentDecode(tok)), !.pos = k,
                      !.err = ~ValidHost(tok), !.run = ValidHost(tok), !.st = After(t, k)]
    BY <1>8, <1>10 DEF FsmAuth, tok, k
  <2> HIDE DEF q
  <2>6. q = [st |-> After(t, k), pos |-> k, run |-> ValidHost(tok), err |-> ~ValidHost(tok),
             uri |-> Found(InfoOf(t), HostOf(t), <<>>, <<>>, <<>>)]
    <3>1. InfoAt(t, n) = InfoOf(t) /\ StrToLower(PercentDecode(tok)) = HostOf(t)
      BY <2>3, <2>4 DEF InfoOf, HostOf, a
    <3> QED BY <1>1, <2>5, <3>1 DEF At, Found
  <2>7. CASE ValidHost(tok)
    <3>1. AuthorityOK(t)
      BY <1>1, <2>2, <2>4, <2>7 DEF AuthorityOK, a
    <3>2. k = AuthEnd(t) + 1
      BY <1>2, <2>1
    <3>3. q = At(After(t, AuthEnd(t) + 1), AuthEnd(t) + 1, TRUE,
                 Found(InfoOf(t), HostOf(t), <<>>, <<>>, <<>>))
      BY <2>6, <2>7, <3>2 DEF At
    <3> QED BY <1>1, <1>7, <3>1, <3>3, AfterAuthority
  <2>8. CASE ~ValidHost(tok)
    <3>1. ~AuthorityOK(t)
      BY <1>1, <2>4, <2>8 DEF AuthorityOK, a
    <3>2. ValidHost(tok) \in BOOLEAN
      BY DEF ValidHost
    <3>3. Refused(t, q)
      BY <2>6, <2>8, <3>1, <3>2 DEF Refused
    <3> QED BY <1>7, <3>3 DEF ParserOK
  <2> QED BY <2>7, <2>8
<1> QED BY <1>9, <1>10

LEMMA FirstTurn ==
    ASSUME NEW C, NEW t \in Seq(C)
    PROVE  ParserOK(t, UriStep(t, NewParser))
<1> DEFINE q == UriStep(t, NewParser)
<1>1. q = FsmInit(t, NewParser)
  BY DEF UriStep, NewParser
<1>2. CASE HasScheme(t)
  <2>1. q = At("AUTH", 2, TRUE, Found(<<>>, <<>>, <<>>, <<>>, <<>>))
    BY <1>1, <1>2 DEF FsmInit, NewParser, HasScheme, At, Found, NoURI
  <2>2. Ats(Authority(t)) \subseteq Nat /\ 0 \in Ats(Authority(t))
    BY <1>2, AtsAre
  <2>3. \A l \in Ats(Authority(t)) \ {0} : ~(l <= 0)
    BY <2>2
  <2> HIDE DEF q
  <2>4. InAuthority(t, q, 0)
    BY <1>2, <2>1, <2>2, <2>3 DEF InAuthority, InfoAt
  <2> QED BY <2>4 DEF ParserOK, q
<1>3. CASE ~HasScheme(t)
  <2>1. q = At("PATH", 1, TRUE, Found(<<>>, <<>>, <<>>, <<>>, <<>>))
    BY <1>1, <1>3 DEF FsmInit, NewParser, HasScheme, At, Found, NoURI
  <2>2. AuthorityOK(t) /\ InfoOf(t) = <<>> /\ HostOf(t) = <<>>
    BY <1>3, NoAuthority, EmptyDecoded DEF AuthorityOK, InfoOf, InfoAt, HostOf
  <2>3. AuthEnd(t) = 0
    BY <1>3, Parts
  <2> HIDE DEF q
  <2>4. AtPath(t, q)
    BY <2>1, <2>2, <2>3 DEF AtPath
  <2> QED BY <2>4 DEF ParserOK, q
<1> QED BY <1>2, <1>3

LEMMA ParserTurn ==
    ASSUME NEW C, NEW t \in Seq(C), NEW p, ParserOK(t, p), p.run
    PROVE  ParserOK(t, UriStep(t, p))
<1>1. ~Refused(t, p)
  BY DEF Refused
<1>2. ~AtEnd(t, p, FALSE, FinalPath(t))
  BY DEF AtEnd, At
<1> QED BY <1>1, <1>2, FirstTurn, AuthorityTurn, PathTurn, QueryTurn, FragmentTurn, EndTurn
        DEF ParserOK

LEMMA PathOfTyped ==
    ASSUME NEW C, NEW t \in Seq(C)
    PROVE  PathOf(t) \in Seq(C)
<1>1. /\ AuthEnd(t) \in Nat /\ PathEnd(t) \in Nat /\ RestEnd(t) \in Nat
      /\ AuthEnd(t) <= PathEnd(t) /\ PathEnd(t) <= RestEnd(t) /\ RestEnd(t) <= Len(t)
      /\ Len(t) \in Nat
      /\ PathOf(t) = SubSeq(t, AuthEnd(t) + 1, PathEnd(t))
  BY Parts
<1>2. PathEnd(t) <= Len(t)
  BY <1>1
<1> QED BY <1>1, <1>2, SubSeqIs

\* A path that is accepted begins with a slash.
LEMMA PathStarts ==
    ASSUME NEW C, NEW t \in Seq(C), ValidPath(PathOf(t))
    PROVE  FinalPath(t)[1] = "/"
<1> DEFINE s == PathOf(t)
<1>1. s \in Seq(C)
  BY PathOfTyped
<1> HIDE DEF s
<1>2. CASE DecodedPath(t) = <<>>
  BY <1>2 DEF FinalPath
<1>3. CASE DecodedPath(t) # <<>>
  <2>1. s # <<>>
    BY <1>3, EmptyDecoded DEF DecodedPath, s
  <2>2. s[1] = "/" /\ 1 \in DOMAIN s
    BY <1>1, <2>1, EmptySeq, LenProperties DEF ValidPath, s
  <2>3. DecodedPath(t) = [l \in DOMAIN s |-> IF s[l] = "%41" THEN "A" ELSE s[l]]
    BY <1>3 DEF DecodedPath, PercentDecode, s
  <2> QED BY <1>3, <2>2, <2>3 DEF FinalPath
<1> QED BY <1>2, <1>3

\* What the machine has found when it stops.
LEMMA ParserStops ==
    ASSUME NEW C, NEW t \in Seq(C), NEW p, ParserOK(t, p), ~p.run
    PROVE  /\ p.err <=> ~Grammar(t).ok
           /\ Grammar(t).ok => p.uri = Grammar(t).uri /\ p.uri.path[1] = "/"
<1>1. /\ Grammar(t).ok <=> AuthorityOK(t) /\ ValidPath(PathOf(t))
      /\ Grammar(t).uri = Found(InfoOf(t), HostOf(t), FinalPath(t), QueryOf(t), FragmentOf(t))
  BY DEF Grammar, AuthorityOK, Found, InfoOf, InfoAt, HostOf, FinalPath, DecodedPath, FragmentOf
<1>2. \/ Refused(t, p)
      \/ AtEnd(t, p, FALSE, FinalPath(t))
  BY DEF ParserOK, NewParser, InAuthority, AtPath, AtQuery, AtFragment, AtEnd, At
<1>3. CASE Refused(t, p)
  BY <1>1, <1>3 DEF Refused
<1>4. CASE AtEnd(t, p, FALSE, FinalPath(t))
  <2>1. /\ AuthorityOK(t) /\ ValidPath(PathOf(t)) /\ p.err = FALSE
        /\ p.uri = Found(InfoOf(t), HostOf(t), FinalPath(t), QueryOf(t), FragmentOf(t))
    BY <1>4 DEF AtEnd, At
  <2>2. p.uri.path = FinalPath(t)
    BY <2>1 DEF Found
  <2> QED BY <1>1, <2>1, <2>2, PathStarts
<1> QED BY <1>2, <1>3, <1>4

-----------------------------------------------------------------------------
(* The configuration file.  What its first n lines say, by CategoriesOf, is  *)
(* what ParseFromINI has built from them.                                    *)

Mine(file, n, path) == {i \in 1..n : file[i].is = "field" /\ HeaderOf(file, i) = path}
NamedIn(file, n, path, name) == {i \in Mine(file, n, path) : file[i].name = name}
FieldsTo(file, n, path) ==
    [name \in {file[i].name : i \in Mine(file, n, path)}
        |-> file[Max(NamedIn(file, n, path, name))].value]
PathsTo(file, n) ==
    {<<>>} \union UNION {Prefixes(file[i].path) : i \in {j \in 1..n : file[j].is = "header"}}
CatsTo(file, n) == [path \in PathsTo(file, n) |-> FieldsTo(file, n, path)]

\* A file of which n lines may be read.
IsFile(file, n) ==
    /\ n \in Nat
    /\ \A i \in 1..n : /\ file[i] \in {Blank, Comment} \/ file[i].is \in {"header", "field"}
                       /\ file[i].is = "header" => file[i].path \in Seq(Char)

Marks(file, i) == {j \in 1..(i - 1) : file[j].is \in {"header", "blank"}}

LEMMA HeaderIs ==
    ASSUME NEW file, NEW i
    PROVE  HeaderOf(file, i) = IF Marks(file, i) = {} \/ file[Max(Marks(file, i))].is = "blank"
                               THEN <<>> ELSE file[Max(Marks(file, i))].path
  BY DEF HeaderOf, Marks

LEMMA FirstHeader ==
    ASSUME NEW file
    PROVE  HeaderOf(file, 1) = <<>>
<1>1. Marks(file, 1) = {}
  BY DEF Marks
<1> QED BY <1>1, HeaderIs

LEMMA NextHeader ==
    ASSUME NEW n \in Nat \ {0}, NEW file, IsFile(file, n)
    PROVE  HeaderOf(file, n + 1) = CASE file[n].is = "blank"  -> <<>>
                                     [] file[n].is = "header" -> file[n].path
                                     [] OTHER                 -> HeaderOf(file, n)
<1> DEFINE M(i) == Marks(file, i)
<1>1. CASE file[n].is \in {"header", "blank"}
  <2>1. M(n + 1) \subseteq Nat /\ n \in M(n + 1) /\ \A j \in M(n + 1) : j <= n
    BY <1>1 DEF Marks
  <2>2. Max(M(n + 1)) = n
    BY <2>1, MaxIs
  <2> QED BY <1>1, <2>1, <2>2, HeaderIs
<1>2. CASE ~(file[n].is \in {"header", "blank"})
  <2>1. M(n + 1) = M(n)
    BY <1>2 DEF Marks
  <2> QED BY <1>2, <2>1, HeaderIs
<1> QED BY <1>1, <1>2

\* The lines of the category that is open behind the first n lines.
LEMMA HeaderKnown ==
    ASSUME NEW n \in Nat, NEW file, IsFile(file, n), NEW i \in 1..(n + 1)
    PROVE  HeaderOf(file, i) \in PathsTo(file, n)
<1> DEFINE M == Marks(file, i)
           k == Max(M)
<1>1. CASE HeaderOf(file, i) = <<>>
  BY <1>1 DEF PathsTo
<1>2. CASE HeaderOf(file, i) # <<>>
  <2>1. M # {} /\ file[k].is # "blank" /\ HeaderOf(file, i) = file[k].path
    BY <1>2, HeaderIs
  <2>2. M \subseteq Nat /\ \A j \in M : j <= i
    BY DEF Marks
  <2>3. k \in M
    BY <2>1, <2>2, MaxExists
  <2> HIDE DEF k
  <2>4. k \in 1..n /\ file[k].is = "header"
    BY <2>1, <2>3 DEF Marks
  <2>5. file[k].path \in Seq(Char)
    BY <2>4 DEF IsFile
  <2>6. file[k].path \in Prefixes(file[k].path)
    <3>1. Len(file[k].path) \in Nat /\ file[k].path = SubSeq(file[k].path, 1, Len(file[k].path))
      BY <2>5, Whole, LenProperties
    <3> QED BY <3>1 DEF Prefixes
  <2> QED BY <2>1, <2>4, <2>6 DEF PathsTo
<1> QED BY <1>1, <1>2

LEMMA NothingRead ==
    ASSUME NEW file
    PROVE  NewFile = [cats |-> CatsTo(file, 0), cur |-> HeaderOf(file, 1)]
<1>1. PathsTo(file, 0) = {<<>>}
  BY DEF PathsTo
<1>2. FieldsTo(file, 0, <<>>) = NoFields
  <2>1. Mine(file, 0, <<>>) = {}
    BY DEF Mine
  <2>2. {file[i].name : i \in Mine(file, 0, <<>>)} = {}
    BY <2>1
  <2> QED BY <2>2 DEF FieldsTo, NoFields
<1>3. CatsTo(file, 0) = [path \in {<<>>} |-> NoFields]
  BY <1>1, <1>2 DEF CatsTo
<1> QED BY <1>3, FirstHeader DEF NewFile

\* A line that is no field changes the fields of no category.
LEMMA SameFields ==
    ASSUME NEW n \in Nat, NEW file, NEW path,
           file[n + 1].is # "field" \/ HeaderOf(file, n + 1) # path
    PROVE  FieldsTo(file, n + 1, path) = FieldsTo(file, n, path)
<1>1. Mine(file, n + 1, path) = Mine(file, n, path)
  BY DEF Mine
<1> QED BY <1>1 DEF FieldsTo, NamedIn

LEMMA SamePaths ==
    ASSUME NEW n \in Nat, NEW file, file[n + 1].is # "header"
    PROVE  PathsTo(file, n + 1) = PathsTo(file, n)
<1>1. {j \in 1..(n + 1) : file[j].is = "header"} = {j \in 1..n : file[j].is = "header"}
  OBVIOUS
<1> QED BY <1>1 DEF PathsTo

LEMMA MorePaths ==
    ASSUME NEW n \in Nat, NEW file, file[n + 1].is = "header"
    PROVE  PathsTo(file, n + 1) = PathsTo(file, n) \union Prefixes(file[n + 1].path)
<1>1. {j \in 1..(n + 1) : file[j].is = "header"}
        = {j \in 1..n : file[j].is = "header"} \union {n + 1}
  OBVIOUS
<1> QED BY <1>1 DEF PathsTo

\* An assignment replaces an earlier one of the same name.
LEMMA FieldAdded ==
    ASSUME NEW n \in Nat, NEW file, file[n + 1].is = "field", NEW path,
           HeaderOf(file, n + 1) = path
    PROVE  FieldsTo(file, n + 1, path)
             = Assigned(FieldsTo(file, n, path), file[n + 1].name, file[n + 1].value)
<1> DEFINE S == Mine(file, n, path)
           T == Mine(file, n + 1, path)
           x == file[n + 1].name
           old == FieldsTo(file, n, path)
           new == FieldsTo(file, n + 1, path)
           D == {file[i].name : i \in S}
<1>1. T = S \union {n + 1} /\ S \subseteq 1..n
  BY DEF Mine
<1>2. {file[i].name : i \in T} = D \union {x}
  BY <1>1
<1>3. /\ DOMAIN old = D /\ DOMAIN new = D \union {x}
      /\ \A name \in D : old[name] = file[Max(NamedIn(file, n, path, name))].value
      /\ \A name \in D \union {x} : new[name] = file[Max(NamedIn(file, n + 1, path, name))].value
      /\ new = [name \in D \union {x} |-> new[name]]
  BY <1>2 DEF FieldsTo
<1>4. new[x] = file[n + 1].value
  <2>1. NamedIn(file, n + 1, path, x) \subseteq Nat /\ n + 1 \in NamedIn(file, n + 1, path, x)
        /\ \A i \in NamedIn(file, n + 1, path, x) : i <= n + 1
    BY <1>1 DEF NamedIn
  <2>2. Max(NamedIn(file, n + 1, path, x)) = n + 1
    BY <2>1, MaxIs
  <2> QED BY <1>3, <2>2
<1>5. ASSUME NEW name \in D, name # x
      PROVE  new[name] = old[name]
  <2>1. NamedIn(file, n + 1, path, name) = NamedIn(file, n, path, name)
    BY <1>1, <1>5 DEF NamedIn
  <2> QED BY <1>3, <2>1
<1> HIDE DEF old, new, D, x
<1>6. Assigned(old, x, file[n + 1].value)
        = [name \in {x} \union D |-> IF name = x THEN file[n + 1].value ELSE old[name]]
  BY <1>3 DEF Assigned
<1>7. \A name \in D \union {x} :
         new[name] = IF name = x THEN file[n + 1].value ELSE old[name]
  BY <1>4, <1>5
<1>8. new = [name \in {x} \union D |-> IF name = x THEN file[n + 1].value ELSE old[name]]
  <2>1. {x} \union D = D \union {x}
    OBVIOUS
  <2> QED BY <1>3, <1>7, <2>1
<1> QED BY <1>6, <1>8 DEF old, new, x

LEMMA AllRead ==
    ASSUME NEW file, DOMAIN file = 1..Len(file)
    PROVE  CategoriesOf(file) = CatsTo(file, Len(file))
<1> DEFINE n == Len(file)
<1>1. \A path : FieldsOf(file, path) = FieldsTo(file, n, path)
  BY DEF FieldsOf, FieldsTo, Mine, NamedIn
<1>2. {j \in DOMAIN file : file[j].is = "header"} = {j \in 1..n : file[j].is = "header"}
  OBVIOUS
<1>3. UNION {Prefixes(path) : path \in {file[i].path : i \in {j \in 1..n : file[j].is = "header"}}}
        = UNION {Prefixes(file[i].path) : i \in {j \in 1..n : file[j].is = "header"}}
  OBVIOUS
<1> QED BY <1>1, <1>2, <1>3, Zenon DEF CategoriesOf, CatsTo, PathsTo

\* A category is empty until its header has been read.
LEMMA NoFieldsYet ==
    ASSUME NEW n \in Nat, NEW file, IsFile(file, n), NEW path, path \notin PathsTo(file, n)
    PROVE  FieldsTo(file, n, path) = NoFields
<1>1. Mine(file, n, path) = {}
  BY HeaderKnown DEF Mine
<1>2. {file[i].name : i \in Mine(file, n, path)} = {}
  BY <1>1
<1> QED BY <1>2 DEF FieldsTo, NoFields

\* What has been read of a file, when its first n lines have been.
ReadTo(file, n) == [cats |-> CatsTo(file, n), cur |-> HeaderOf(file, n + 1)]

LEMMA HeaderRead ==
    ASSUME NEW n \in Nat, NEW file, IsFile(file, n), file[n + 1].is = "header"
    PROVE  Opened(CatsTo(file, n), file[n + 1].path) = CatsTo(file, n + 1)
<1> DEFINE new == file[n + 1].path
           P == PathsTo(file, n)
           Q == PathsTo(file, n + 1)
<1>1. Q = P \union Prefixes(new)
  BY MorePaths
<1>2. DOMAIN CatsTo(file, n) = P /\ \A p \in P : CatsTo(file, n)[p] = FieldsTo(file, n, p)
  BY DEF CatsTo
<1>3. \A p : FieldsTo(file, n + 1, p) = FieldsTo(file, n, p)
  BY SameFields
<1>4. \A p \in Q : (IF p \in P THEN FieldsTo(file, n, p) ELSE NoFields) = FieldsTo(file, n + 1, p)
  BY <1>3, NoFieldsYet
<1> HIDE DEF P, Q
<1>5. Opened(CatsTo(file, n), new)
        = [p \in Q |-> IF p \in P THEN CatsTo(file, n)[p] ELSE NoFields]
  BY <1>1, <1>2 DEF Opened
<1>6. \A p \in Q : (IF p \in P THEN CatsTo(file, n)[p] ELSE NoFields) = FieldsTo(file, n + 1, p)
  BY <1>2, <1>4
<1> QED BY <1>5, <1>6 DEF CatsTo, Q

LEMMA FieldRead ==
    ASSUME NEW n \in Nat, NEW file, IsFile(file, n), file[n + 1].is = "field"
    PROVE  SetField(CatsTo(file, n), HeaderOf(file, n + 1), file[n + 1].name, file[n + 1].value)
             = CatsTo(file, n + 1)
<1> DEFINE cur == HeaderOf(file, n + 1)
           P == PathsTo(file, n)
           C == CatsTo(file, n)
<1>1. cur \in P /\ PathsTo(file, n + 1) = P
  BY HeaderKnown, SamePaths
<1>2. C = [p \in P |-> FieldsTo(file, n, p)]
  BY DEF CatsTo
<1>3. \A p \in P \ {cur} : FieldsTo(file, n + 1, p) = FieldsTo(file, n, p)
  BY SameFields
<1>4. FieldsTo(file, n + 1, cur)
        = Assigned(FieldsTo(file, n, cur), file[n + 1].name, file[n + 1].value)
  BY FieldAdded
<1>5. CatsTo(file, n + 1) = [p \in P |-> FieldsTo(file, n + 1, p)]
  BY <1>1 DEF CatsTo
<1> HIDE DEF C, P, cur
<1> QED BY <1>1, <1>2, <1>3, <1>4, <1>5 DEF SetField, C, cur

LEMMA OtherRead ==
    ASSUME NEW n \in Nat, NEW file, file[n + 1].is \notin {"field", "header"}
    PROVE  CatsTo(file, n) = CatsTo(file, n + 1)
<1>1. PathsTo(file, n + 1) = PathsTo(file, n)
  BY SamePaths
<1>2. \A p : FieldsTo(file, n + 1, p) = FieldsTo(file, n, p)
  BY SameFields
<1> QED BY <1>1, <1>2 DEF CatsTo

LEMMA LineRead ==
    ASSUME NEW n \in Nat, NEW file, IsFile(file, n + 1),
           file[n + 1].is = "field" => ~IsCategory(file[n + 1])
    PROVE  ParseLine(ReadTo(file, n), file[n + 1]) = ReadTo(file, n + 1)
<1> DEFINE l == file[n + 1]
           f == ReadTo(file, n)
<1>1. IsFile(file, n)
  BY DEF IsFile
<1>2. /\ f = [cats |-> CatsTo(file, n), cur |-> HeaderOf(file, n + 1)]
      /\ ReadTo(file, n + 1) = [cats |-> CatsTo(file, n + 1), cur |-> HeaderOf(file, (n + 1) + 1)]
  BY DEF ReadTo
<1>3. HeaderOf(file, (n + 1) + 1) = CASE l.is = "blank"  -> <<>>
                                      [] l.is = "header" -> l.path
                                      [] OTHER           -> HeaderOf(file, n + 1)
  BY NextHeader
<1>4. l.is \in {"blank", "comment", "header", "field"}
  BY DEF IsFile, Blank, Comment
<1> SUFFICES ParseLine(f, l) = ReadTo(file, n + 1)
  OBVIOUS
<1> HIDE DEF f
<1>5. CASE l.is = "blank"
  <2>1. ParseLine(f, l) = [f EXCEPT !.cur = <<>>]
    BY <1>5 DEF ParseLine, IsCategory
  <2>2. ParseLine(f, l) = [cats |-> f.cats, cur |-> <<>>]
    BY <1>2, <2>1
  <2>3. CatsTo(file, n) = CatsTo(file, n + 1)
    BY <1>5, OtherRead
  <2> QED BY <1>2, <1>3, <1>5, <2>2, <2>3
<1>6. CASE l.is = "comment"
  BY <1>2, <1>3, <1>6, OtherRead DEF ParseLine, IsCategory
<1>7. CASE l.is = "header"
  <2>1. ParseLine(f, l) = [cats |-> Opened(f.cats, l.path), cur |-> l.path]
    BY <1>7 DEF ParseLine, IsCategory, CategoryPath
  <2> QED BY <1>1, <1>2, <1>3, <1>7, <2>1, HeaderRead
<1>8. CASE l.is = "field"
  <2>1. ParseLine(f, l) = [f EXCEPT !.cats = SetField(f.cats, f.cur, l.name, l.value)]
    BY <1>8 DEF ParseLine, IsCategory
  <2>2. ParseLine(f, l) = [cats |-> SetField(f.cats, f.cur, l.name, l.value), cur |-> f.cur]
    BY <1>2, <2>1
  <2> QED BY <1>1, <1>2, <1>3, <1>8, <2>2, FieldRead
<1> QED BY <1>4, <1>5, <1>6, <1>7, <1>8

\* A site whose files have no field that is taken for a header.
Unbracketed ==
    \A s \in DOMAIN Sites : \A i \in DOMAIN Sites[s].file :
        Sites[s].file[i].is = "field" => ~IsCategory(Sites[s].file[i])

\* The first n lines have been read.
IniInv ==
    /\ site \in DOMAIN Sites
    /\ phase = "load" => \E n \in 0..Len(File) : line = n + 1 /\ ini = ReadTo(File, n)
    /\ phase # "load" => ini.cats = CategoriesOf(File)

LEMMA FileLines ==
    ASSUME site \in DOMAIN Sites
    PROVE  /\ DOMAIN File = 1..Len(File) /\ Len(File) \in Nat
           /\ \A n \in 0..Len(File) : IsFile(File, n)
<1>1. /\ DOMAIN File = 1..Len(File) /\ Len(File) \in Nat
      /\ \A i \in 1..Len(File) : IsLine(File[i])
  BY SitesAssumption DEF IsSite, File
<1>2. ASSUME NEW n \in 0..Len(File)
      PROVE  IsFile(File, n)
  <2> DEFINE f == File
  <2>1. n \in Nat /\ \A i \in 1..n : IsLine(f[i])
    BY <1>1, <1>2
  <2> HIDE DEF f
  <2>2. IsFile(f, n)
    BY <2>1 DEF IsFile, IsLine
  <2> QED BY <2>2 DEF f
<1> QED BY <1>1, <1>2

\* Only two actions touch what has been read.
LEMMA LoadingSteps ==
    ASSUME [Next]_vars
    PROVE  \/ ReadLine \/ EndOfFile
           \/ /\ site' = site /\ ini' = ini /\ line' = line
              /\ phase = "load" <=> phase' = "load"
<1>1. CASE UNCHANGED vars
  BY <1>1 DEF vars, setupVars
<1>2. CASE Configure
  BY <1>2 DEF Configure
<1>3. CASE AddVirtualServer
  <2>1. phase = "add" /\ phase' \in {"add", "failed"} /\ UNCHANGED <<site, ini, line>>
    BY <1>3 DEF AddVirtualServer
  <2> QED BY <2>1
<1>4. CASE ServeForever \/ Leave \/ ParseTarget \/ AnswerRequest
  BY <1>4 DEF ServeForever, Leave, ParseTarget, AnswerRequest, setupVars
<1>5. CASE Ask \/ FollowLink \/ FollowRedirect
  <2>1. phase = "serve" /\ phase' = "parse" /\ UNCHANGED setupVars
    BY <1>5 DEF Ask, FollowLink, FollowRedirect, Request
  <2> QED BY <2>1 DEF setupVars
<1>6. CASE Stopped
  BY <1>6 DEF Stopped, vars, setupVars
<1> QED BY <1>1, <1>2, <1>3, <1>4, <1>5, <1>6 DEF Next

\* The categories are what the file says, in any order of headers, comments,
\* blank lines and repeated assignments (ParseFromINI, config.cc:166-192), if
\* no field is taken for a header, as one with a single pair of brackets is:
\* ini_brackets shows what happens to it.
THEOREM IniRead ==
    ASSUME Unbracketed
    PROVE  Spec => []IniExact
<1>1. Init => IniInv
  <2> SUFFICES ASSUME Init PROVE IniInv
    OBVIOUS
  <2>1. site \in DOMAIN Sites /\ phase = "load" /\ line = 1 /\ ini = NewFile
    BY DEF Init
  <2>2. ini = ReadTo(File, 0)
    BY <2>1, NothingRead DEF ReadTo
  <2>3. 0 \in 0..Len(File)
    BY <2>1, FileLines
  <2> QED BY <2>1, <2>2, <2>3 DEF IniInv
<1>2. IniInv /\ [Next]_vars => IniInv'
  <2> SUFFICES ASSUME IniInv, [Next]_vars PROVE IniInv'
    OBVIOUS
  <2> USE DEF File
  <2>1. CASE ReadLine
    <3>1. /\ phase = "load" /\ phase' = "load" /\ line <= Len(File) /\ line' = line + 1
          /\ site' = site /\ ini' = ParseLine(ini, File[line])
      BY <2>1 DEF ReadLine
    <3>2. PICK n \in 0..Len(File) : line = n + 1 /\ ini = ReadTo(File, n)
      BY <3>1 DEF IniInv
    <3>3. site \in DOMAIN Sites
      BY DEF IniInv
    <3> DEFINE f == File
    <3>4. /\ DOMAIN f = 1..Len(f) /\ Len(f) \in Nat
          /\ \A m \in 0..Len(f) : IsFile(f, m)
      BY <3>3, FileLines
    <3>5. f[n + 1].is = "field" => ~IsCategory(f[n + 1])
      <4>1. n + 1 \in DOMAIN f
        BY <3>1, <3>2, <3>4
      <4> QED BY <3>3, <4>1, Unbracketed DEF Unbracketed
    <3>6. File' = f
      BY <3>1
    <3> HIDE DEF f, File
    <3>7. n + 1 \in 0..Len(f) /\ n \in Nat
      BY <3>1, <3>2, <3>4 DEF f
    <3>8. IsFile(f, n + 1)
      BY <3>4, <3>7
    <3>9. ini' = ReadTo(f, n + 1)
      BY <3>1, <3>2, <3>5, <3>7, <3>8, LineRead DEF f
    <3> QED BY <3>1, <3>2, <3>3, <3>6, <3>7, <3>9 DEF IniInv
  <2>2. CASE EndOfFile
    <3>1. /\ phase = "load" /\ phase' = "configure" /\ line > Len(File)
          /\ site' = site /\ ini' = ini
      BY <2>2 DEF EndOfFile, setupVars
    <3>2. PICK n \in 0..Len(File) : line = n + 1 /\ ini = ReadTo(File, n)
      BY <3>1 DEF IniInv
    <3>3. site \in DOMAIN Sites
      BY DEF IniInv
    <3>4. DOMAIN File = 1..Len(File) /\ Len(File) \in Nat
      BY <3>3, FileLines
    <3>5. File' = File
      BY <3>1
    <3> HIDE DEF File
    <3>6. n = Len(File)
      <4>1. Len(File) \in Nat /\ n \in 0..Len(File) /\ n + 1 > Len(File)
        BY <3>1, <3>2, <3>4
      <4> QED BY <4>1
    <3>7. ini.cats = CategoriesOf(File)
      BY <3>2, <3>4, <3>6, AllRead DEF ReadTo
    <3> QED BY <3>1, <3>3, <3>5, <3>7 DEF IniInv
  <2>3. CASE /\ site' = site /\ ini' = ini /\ line' = line
             /\ phase = "load" <=> phase' = "load"
    BY <2>3 DEF IniInv
  <2> QED BY <2>1, <2>2, <2>3, LoadingSteps
<1>3. IniInv => IniExact
  BY DEF IniInv, IniExact
<1> QED BY <1>1, <1>2, <1>3, PTL DEF Spec

-----------------------------------------------------------------------------
(* The state of a site *)

IsName(n)     == \E i \in DOMAIN ServerNames : ServerNames[i] = n
KeyOK(c)      == Len(c) = 2 => c \in Seq(Char) /\ (c[1] = "SERVERS" => IsName(c[2]))
FieldsOK(fs)  == \A f \in DOMAIN fs : IsValue(f, fs[f])
FileOK(f)     == /\ f = [cats |-> f.cats, cur |-> f.cur]
                 /\ f.cur \in DOMAIN f.cats /\ <<>> \in DOMAIN f.cats
                 /\ \A c \in DOMAIN f.cats : KeyOK(c) /\ FieldsOK(f.cats[c])

RouteType == [ pattern : Seq(Char), root : Seq(Char), redirected : BOOLEAN,
               redirect : [to : Seq(Char), code : Nat], allowed_methods : SUBSET Char,
               index : Seq(Char), listing : BOOLEAN, cgi : BOOLEAN ]
ServerType == [ name : Char, hostnames : Seq(Seq(Char)), routes : Seq(RouteType),
                logs : SUBSET {"access_log", "error_log"} ]

SetupType ==
    /\ site \in DOMAIN Sites
    /\ FileOK(ini) /\ line \in Nat \ {0}
    /\ todo \subseteq Names("SERVERS")
    /\ listeners \in Seq(Char) /\ vservers \in Seq([lfd : Nat, vs : ServerType])
RequestType ==
    /\ req \in [addr : Char \union {"none"}, host : Seq(Char), target : Seq(Char)]
    /\ resp.file \in Seq(Char) /\ resp.path \in Seq(Char) /\ resp.location \in Seq(Char)
TypeOK ==
    /\ phase \in {"load", "configure", "add", "serve", "parse",
                  "failed", "undefined", "endless"}
    /\ SetupType /\ RequestType

\* What has not happened yet in a phase.
PhaseOK ==
    /\ phase \in {"load", "configure"} => todo = {} /\ listeners = <<>> /\ vservers = <<>>
    /\ phase \in {"load", "configure", "add"} => resp = NoAnswer
    /\ phase \in {"add", "serve", "parse"} => \A n \in Names("ROUTES") : ~RouteFails(n)
    /\ phase \in {"serve", "parse"} => todo = {}

\* A request in work has a target, and what URI::Parse has made of it is right.
RequestOK ==
    /\ phase = "parse" \/ resp.code # 0 => req.target # <<>>
    /\ phase = "parse" => ParserOK(req.target, parser)

LEMMA PrefixOf ==
    ASSUME NEW C, NEW path \in Seq(C), NEW c \in Prefixes(path)
    PROVE  /\ c \in Seq(C) /\ Len(c) <= Len(path) /\ Len(c) \in Nat
           /\ \A k \in 1..Len(c) : c[k] = path[k]
<1>1. PICK n \in 0..Len(path) : c = SubSeq(path, 1, n)
  BY DEF Prefixes
<1>2. n \in Nat /\ 0 <= n /\ n <= Len(path) /\ n - 0 = n
  BY <1>1, LenProperties
<1>3. /\ SubSeq(path, 0 + 1, n) \in Seq(C) /\ Len(SubSeq(path, 0 + 1, n)) = n - 0
      /\ \A l \in 1..(n - 0) : SubSeq(path, 0 + 1, n)[l] = path[0 + l]
  BY <1>2, SubSeqIs
<1> QED BY <1>1, <1>2, <1>3

LEMMA PathIsPrefix ==
    ASSUME NEW C, NEW path \in Seq(C)
    PROVE  path \in Prefixes(path)
<1>1. Len(path) \in 0..Len(path) /\ path = SubSeq(path, 1, Len(path))
  BY Whole, LenProperties
<1> QED BY <1>1 DEF Prefixes

LEMMA NoFieldsOK == FieldsOK(NoFields)
  BY DEF FieldsOK, NoFields

LEMMA NewFileOK == FileOK(NewFile)
<1>1. KeyOK(<<>>)
  BY EmptySeq, LenProperties DEF KeyOK
<1> QED BY <1>1, NoFieldsOK DEF FileOK, NewFile

LEMMA OpenedOK ==
    ASSUME NEW cats, \A c \in DOMAIN cats : KeyOK(c) /\ FieldsOK(cats[c]), <<>> \in DOMAIN cats,
           NEW path, \A c \in Prefixes(path) : KeyOK(c), path \in Prefixes(path)
    PROVE  FileOK([cats |-> Opened(cats, path), cur |-> path])
<1> DEFINE D == DOMAIN cats \union Prefixes(path)
           o == Opened(cats, path)
<1>1. o = [p \in D |-> IF p \in DOMAIN cats THEN cats[p] ELSE NoFields]
  BY DEF Opened
<1>2. DOMAIN o = D /\ path \in D
  BY <1>1
<1>3. \A c \in D : KeyOK(c) /\ FieldsOK(o[c])
  BY <1>1, NoFieldsOK
<1> SUFFICES FileOK([cats |-> o, cur |-> path])
  OBVIOUS
<1> HIDE DEF o
<1> QED BY <1>2, <1>3 DEF FileOK

LEMMA LineOK ==
    ASSUME NEW f, FileOK(f), NEW l, IsLine(l)
    PROVE  FileOK(ParseLine(f, l))
<1>0. /\ f = [cats |-> f.cats, cur |-> f.cur]
      /\ f.cur \in DOMAIN f.cats /\ <<>> \in DOMAIN f.cats
      /\ \A c \in DOMAIN f.cats : KeyOK(c) /\ FieldsOK(f.cats[c])
  BY DEF FileOK
<1>1. l.is \in {"blank", "comment", "header", "field"}
  BY DEF IsLine, Blank, Comment
<1>2. CASE l.is = "blank"
  <2>1. ParseLine(f, l) = [f EXCEPT !.cur = <<>>]
    BY <1>2 DEF ParseLine, IsCategory
  <2>2. ParseLine(f, l) = [cats |-> f.cats, cur |-> <<>>]
    BY <1>0, <2>1
  <2> QED BY <1>0, <2>2 DEF FileOK
<1>3. CASE l.is = "comment"
  <2>1. ParseLine(f, l) = f
    BY <1>3 DEF ParseLine, IsCategory
  <2> QED BY <2>1
<1>4. CASE IsCategory(l)
  <2> DEFINE path == CategoryPath(l)
  <2>1. ParseLine(f, l) = [cats |-> Opened(f.cats, path), cur |-> path]
    BY <1>4 DEF ParseLine, IsCategory
  <2>2. CASE l.is = "header"
    <3>1. /\ path = l.path /\ path \in Seq(Char)
          /\ Len(path) >= 2 /\ path[1] = "SERVERS" =>
                 \E i \in DOMAIN ServerNames : ServerNames[i] = path[2]
      BY <2>2 DEF IsLine, CategoryPath, Blank, Comment
    <3> HIDE DEF path
    <3>2. path \in Prefixes(path)
      BY <3>1, PathIsPrefix
    <3>3. ASSUME NEW c \in Prefixes(path), Len(c) = 2
          PROVE  c \in Seq(Char) /\ (c[1] = "SERVERS" => IsName(c[2]))
      <4>1. /\ c \in Seq(Char) /\ Len(c) <= Len(path) /\ Len(path) \in Nat
            /\ \A k \in 1..Len(c) : c[k] = path[k]
        BY <3>1, PrefixOf, LenProperties
      <4>2. c[1] = path[1] /\ c[2] = path[2] /\ Len(path) >= 2
        BY <3>3, <4>1
      <4> QED BY <3>1, <4>1, <4>2 DEF IsName
    <3>4. \A c \in Prefixes(path) : KeyOK(c)
      BY <3>3 DEF KeyOK
    <3> QED BY <1>0, <2>1, <3>2, <3>4, OpenedOK
  <2>3. CASE l.is # "header"
    <3> DEFINE x == "cut " \o l.name
    <3>1. path = <<x>>
      BY <2>3 DEF CategoryPath
    <3> HIDE DEF x, path
    <3>2. path \in Seq({x}) /\ Len(path) = 1
      BY <3>1
    <3>3. path \in Prefixes(path)
      BY <3>2, PathIsPrefix
    <3>4. ASSUME NEW c \in Prefixes(path)
          PROVE  KeyOK(c)
      <4>1. Len(c) <= Len(path) /\ Len(c) \in Nat
        BY <3>2, PrefixOf
      <4> QED BY <3>2, <4>1 DEF KeyOK
    <3> QED BY <1>0, <2>1, <3>3, <3>4, OpenedOK
  <2> QED BY <2>2, <2>3
<1>5. CASE l.is = "field" /\ ~IsCategory(l)
  <2> DEFINE cats == SetField(f.cats, f.cur, l.name, l.value)
             mine == Assigned(f.cats[f.cur], l.name, l.value)
  <2>1. ParseLine(f, l) = [f EXCEPT !.cats = cats]
    BY <1>5 DEF ParseLine, IsCategory
  <2>2. cats = [f.cats EXCEPT ![f.cur] = mine]
    BY DEF SetField
  <2>3. IsValue(l.name, l.value)
    BY <1>5 DEF IsLine, Blank, Comment
  <2>4. FieldsOK(mine)
    <3>1. FieldsOK(f.cats[f.cur])
      BY <1>0
    <3>2. /\ DOMAIN mine = {l.name} \union DOMAIN f.cats[f.cur]
          /\ \A x \in DOMAIN mine : mine[x] = IF x = l.name THEN l.value ELSE f.cats[f.cur][x]
      BY DEF Assigned
    <3> HIDE DEF mine
    <3> QED BY <2>3, <3>1, <3>2 DEF FieldsOK
  <2> HIDE DEF mine, cats
  <2>5. DOMAIN cats = DOMAIN f.cats /\ \A c \in DOMAIN cats : KeyOK(c) /\ FieldsOK(cats[c])
    BY <1>0, <2>2, <2>4
  <2>6. ParseLine(f, l) = [cats |-> cats, cur |-> f.cur]
    BY <1>0, <2>1
  <2> QED BY <1>0, <2>5, <2>6 DEF FileOK
<1> QED BY <1>1, <1>2, <1>3, <1>4, <1>5 DEF IsCategory

\* The name of a category with two parts is its second one.
LEMMA NamedCategory ==
    ASSUME FileOK(ini), NEW cat
    PROVE  /\ \A n \in Names(cat) : /\ <<cat, n>> \in DOMAIN ini.cats /\ n \in Char
                                    /\ FieldsOK(Fields(cat, n))
                                    /\ cat = "SERVERS" => IsName(n)
           /\ \A n : <<cat, n>> \in DOMAIN ini.cats => n \in Names(cat)
<1>1. \A c \in DOMAIN ini.cats : KeyOK(c) /\ FieldsOK(ini.cats[c])
  BY DEF FileOK
<1>2. ASSUME NEW n \in Names(cat)
      PROVE  /\ <<cat, n>> \in DOMAIN ini.cats /\ n \in Char /\ FieldsOK(Fields(cat, n))
             /\ cat = "SERVERS" => IsName(n)
  <2>1. PICK c \in DOMAIN ini.cats : Len(c) = 2 /\ c[1] = cat /\ n = c[2]
    BY <1>2 DEF Names
  <2>2. c \in Seq(Char) /\ (c[1] = "SERVERS" => IsName(c[2]))
    BY <1>1, <2>1 DEF KeyOK
  <2>3. c = <<cat, n>> /\ n \in Char
    <3>1. c[1] \in Char /\ c[2] \in Char /\ c = <<c[1], c[2]>>
      BY <2>1, <2>2
    <3> QED BY <2>1, <3>1
  <2> QED BY <1>1, <2>1, <2>2, <2>3 DEF Fields
<1>3. ASSUME NEW n, <<cat, n>> \in DOMAIN ini.cats
      PROVE  n \in Names(cat)
  BY <1>3 DEF Names
<1> QED BY <1>2, <1>3

LEMMA ValueIs ==
    ASSUME NEW fs, FieldsOK(fs)
    PROVE  /\ \A f \in {"location", "root", "index"} \cap DOMAIN fs : fs[f] \in Seq(Char)
           /\ "redirect" \in DOMAIN fs => fs["redirect"] \in [to : Seq(Char), code : Nat]
           /\ "allowed_methods" \in DOMAIN fs => fs["allowed_methods"] \subseteq Char
           /\ \A f \in {"listing", "cgi"} \cap DOMAIN fs : fs[f] \in BOOLEAN
           /\ "listen" \in DOMAIN fs => fs["listen"] \in Char
           /\ "names" \in DOMAIN fs => fs["names"] \in Seq(Seq(Char))
           /\ "routes" \in DOMAIN fs => fs["routes"] \in Seq(Char)
<1>1. \A f \in DOMAIN fs : IsValue(f, fs[f])
  BY DEF FieldsOK
<1> QED BY <1>1 DEF IsValue

LEMMA RouteTyped ==
    ASSUME FileOK(ini), NEW n \in Names("ROUTES"), ~RouteFails(n)
    PROVE  Route(n) \in RouteType
<1> DEFINE fs == Fields("ROUTES", n)
<1>1. FieldsOK(fs)
  BY NamedCategory
<1>2. "location" \in DOMAIN fs
  BY DEF RouteFails, Has
<1> HIDE DEF fs
<1>3. /\ fs["location"] \in Seq(Char)
      /\ \A f \in {"root", "index"} : FieldOr(fs, f, <<>>) \in Seq(Char)
      /\ FieldOr(fs, "redirect", NoRedirect) \in [to : Seq(Char), code : Nat]
      /\ FieldOr(fs, "allowed_methods", {}) \in SUBSET Char
      /\ \A f \in {"listing", "cgi"} : FieldOr(fs, f, FALSE) \in BOOLEAN
  <2>1. <<>> \in Seq(Char) /\ NoRedirect \in [to : Seq(Char), code : Nat]
    BY EmptySeq DEF NoRedirect
  <2> QED BY <1>1, <1>2, <2>1, ValueIs DEF FieldOr
<1>4. CASE "redirect" \in DOMAIN fs
  <2>1. Route(n) = [ pattern |-> fs["location"], root |-> <<>>,
                     redirected |-> TRUE, redirect |-> FieldOr(fs, "redirect", NoRedirect),
                     allowed_methods |-> {},
                     index |-> <<>>, listing |-> FALSE, cgi |-> FALSE ]
    BY <1>4 DEF Route, fs
  <2> QED BY <1>3, <2>1, EmptySeq DEF RouteType
<1>5. CASE "redirect" \notin DOMAIN fs
  <2>1. Route(n) = [ pattern |-> fs["location"], root |-> FieldOr(fs, "root", <<>>),
                     redirected |-> FALSE, redirect |-> FieldOr(fs, "redirect", NoRedirect),
                     allowed_methods |-> FieldOr(fs, "allowed_methods", {}),
                     index |-> FieldOr(fs, "index", <<>>),
                     listing |-> FieldOr(fs, "listing", FALSE), cgi |-> FieldOr(fs, "cgi", FALSE) ]
    <3>1. ("redirect" \in DOMAIN fs) = FALSE
      BY <1>5
    <3> QED BY <3>1, Zenon DEF Route, fs
  <2>2. PICK listing \in BOOLEAN, cgi \in BOOLEAN :
           listing = FieldOr(fs, "listing", FALSE) /\ cgi = FieldOr(fs, "cgi", FALSE)
    BY <1>3
  <2>3. PICK root \in Seq(Char), index \in Seq(Char), methods \in SUBSET Char :
           /\ root = FieldOr(fs, "root", <<>>) /\ index = FieldOr(fs, "index", <<>>)
           /\ methods = FieldOr(fs, "allowed_methods", {})
    BY <1>3
  <2>4. Route(n) = [ pattern |-> fs["location"], root |-> root,
                     redirected |-> FALSE, redirect |-> FieldOr(fs, "redirect", NoRedirect),
                     allowed_methods |-> methods,
                     index |-> index, listing |-> listing, cgi |-> cgi ]
    BY <2>1, <2>2, <2>3
  <2> QED BY <1>3, <2>4 DEF RouteType
<1> QED BY <1>4, <1>5

LEMMA ServerTyped ==
    ASSUME FileOK(ini), NEW n \in Names("SERVERS"), ~ServerFails(n),
           \A r \in Names("ROUTES") : ~RouteFails(r)
    PROVE  /\ VirtualServer(n) \in ServerType
           /\ VirtualServer(n).name = n /\ VirtualServer(n).hostnames = Fields("SERVERS", n)["names"]
           /\ Fields("SERVERS", n)["listen"] \in Char
<1> DEFINE fs == Fields("SERVERS", n)
           rs == FieldOr(fs, "routes", <<>>)
<1>1. FieldsOK(fs) /\ n \in Char
  BY NamedCategory
<1>2. "listen" \in DOMAIN fs /\ "names" \in DOMAIN fs
  BY DEF ServerFails, Has
<1>3. \A i \in DOMAIN rs : rs[i] \in Names("ROUTES")
  BY EmptySeq, LenProperties DEF ServerFails, Has, FieldOr
<1>4. VirtualServer(n) = [ name |-> n, hostnames |-> fs["names"],
                           routes |-> [i \in DOMAIN rs |-> Route(rs[i])],
                           logs |-> {"access_log", "error_log"} \intersect DOMAIN fs ]
  BY DEF VirtualServer
<1> HIDE DEF fs
<1>5. rs \in Seq(Char)
  BY <1>1, ValueIs, EmptySeq DEF FieldOr
<1> HIDE DEF rs
<1>6. [i \in DOMAIN rs |-> Route(rs[i])] \in Seq(RouteType)
  <2>1. \A i \in DOMAIN rs : Route(rs[i]) \in RouteType
    BY <1>3, RouteTyped
  <2>2. DOMAIN rs = 1..Len(rs) /\ Len(rs) \in Nat
    BY <1>5, LenProperties
  <2>3. [i \in 1..Len(rs) |-> Route(rs[i])] \in Seq(RouteType)
    BY <2>1, <2>2, IsASeq
  <2> QED BY <2>2, <2>3
<1>7. fs["names"] \in Seq(Seq(Char)) /\ fs["listen"] \in Char
  BY <1>1, <1>2, ValueIs
<1> QED BY <1>1, <1>4, <1>6, <1>7 DEF ServerType, fs

-----------------------------------------------------------------------------
(* The paths of answers *)

LEMMA StrippedTyped ==
    ASSUME NEW C, NEW path \in Seq(C)
    PROVE  StripSlashes(path) \in Seq(C)
<1> DEFINE S == {0} \union {i \in DOMAIN path : path[i] # "/"}
           m == Max(S)
<1>1. DOMAIN path = 1..Len(path) /\ Len(path) \in Nat
  BY LenProperties
<1>2. S \subseteq Nat /\ 0 \in S /\ \A i \in S : i <= Len(path)
  BY <1>1
<1> HIDE DEF S
<1>3. m \in S
  BY <1>1, <1>2, MaxExists
<1> HIDE DEF m
<1>4. m \in Nat /\ 0 <= m /\ m <= Len(path)
  BY <1>2, <1>3
<1>5. SubSeq(path, 0 + 1, m) \in Seq(C)
  BY <1>4, SubSeqIs
<1> QED BY <1>5 DEF StripSlashes, S, m

LEMMA JoinedTyped ==
    ASSUME NEW dir \in Seq(Char), NEW base \in Seq(Char)
    PROVE  AppendPath(dir, base) \in Seq(Char)
<1>0. <<"/">> \in Seq(Char)
  BY CharAssumption
<1>1. StripSlashes(dir) \in Seq(Char)
  BY StrippedTyped
<1>2. StripSlashes(dir) \o <<"/">> \in Seq(Char)
  BY <1>0, <1>1, ConcatProperties
<1> QED BY <1>2, ConcatProperties DEF AppendPath

LEMMA RestTyped ==
    ASSUME NEW C, NEW path \in Seq(C), NEW pattern
    PROVE  GetRelativePathFromPattern(pattern, path) \in Seq(C)
<1> DEFINE diff == PathDiffer(pattern, path)
           S == {i \in 1..Len(path) : i <= diff + 1 /\ path[i] = "/"}
           m == Max(S)
<1>1. Len(path) \in Nat
  BY LenProperties
<1>2. GetRelativePathFromPattern(pattern, path)
        = IF Len(path) = diff \/ S = {} THEN <<>> ELSE SubSeq(path, m + 1, Len(path))
  BY DEF GetRelativePathFromPattern
<1>3. S \subseteq 1..Len(path)
  OBVIOUS
<1>4. S # {} => m \in S
  <2> HIDE DEF S
  <2>1. S \subseteq Nat /\ \A i \in S : i <= Len(path)
    BY <1>1, <1>3
  <2> QED BY <1>1, <2>1, MaxExists
<1> HIDE DEF S, m, diff
<1>5. S # {} => m \in Nat /\ m <= Len(path)
  <2>1. S # {} => m \in 1..Len(path)
    BY <1>3, <1>4
  <2> QED BY <1>1, <2>1
<1>6. S # {} => SubSeq(path, m + 1, Len(path)) \in Seq(C)
  BY <1>1, <1>5, SubSeqIs
<1> QED BY <1>2, <1>6, EmptySeq

LEMMA FirstExists ==
    ASSUME NEW S, S \subseteq Nat \ {0}
    PROVE  /\ FirstOf(S) = 0 <=> S = {}
           /\ S # {} => FirstOf(S) \in S /\ \A n \in S : FirstOf(S) <= n
<1>1. S # {} => Min(S) \in S /\ \A n \in S : Min(S) <= n
  BY MinExists
<1> QED BY <1>1 DEF FirstOf

\* A record with the fields of an answer.
IsAnswer(x) == x = [ do |-> x.do, code |-> x.code, server |-> x.server, route |-> x.route,
                     file |-> x.file, path |-> x.path, location |-> x.location ]

LEMMA NotFound ==
    ASSUME NEW path, NEW x, x = [NoAnswer EXCEPT !.do = "error", !.code = 404, !.path = path]
    PROVE  IsAnswer(x) /\ x.file = <<>> /\ x.path = path /\ x.location = <<>>
  BY DEF NoAnswer, IsAnswer

LEMMA AnswerTyped ==
    ASSUME NEW vs \in ServerType, NEW path \in Seq(Char)
    PROVE  /\ Resolve(vs, path).file \in Seq(Char)
           /\ Resolve(vs, path).path \in Seq(Char)
           /\ Resolve(vs, path).location \in Seq(Char)
           /\ IsAnswer(Resolve(vs, path))
<1> DEFINE S == {i \in DOMAIN vs.routes : MatchPath(vs.routes[i].pattern, path)}
           r == FindWebRoute(path, vs.routes)
           route == vs.routes[r]
           rest == GetRelativePathFromPattern(route.pattern, path)
           file == AppendPath(route.root, rest)
<1>1. vs.routes \in Seq(RouteType)
  BY DEF ServerType
<1>2. S \subseteq Nat \ {0} /\ S \subseteq DOMAIN vs.routes
  BY <1>1, LenProperties
<1>3. r = FirstOf(S)
  BY DEF FindWebRoute
<1> HIDE DEF S, r
<1>4. r # 0 => r \in DOMAIN vs.routes
  BY <1>2, <1>3, FirstExists
<1> HIDE DEF route
<1>5. CASE r = 0
  <2>1. Resolve(vs, path) = [NoAnswer EXCEPT !.do = "error", !.code = 404, !.path = path]
    BY <1>5 DEF Resolve, r
  <2>2. <<>> \in Seq(Char)
    BY EmptySeq
  <2> QED BY <2>1, <2>2, NotFound
<1>6. CASE r # 0
  <2>1. route \in RouteType
    BY <1>1, <1>4, <1>6, LenProperties DEF route
  <2>2. /\ route.root \in Seq(Char) /\ route.index \in Seq(Char)
        /\ route.redirect.to \in Seq(Char)
    BY <2>1 DEF RouteType
  <2>3. rest \in Seq(Char)
    BY RestTyped
  <2> HIDE DEF rest
  <2>4. file \in Seq(Char) /\ AppendPath(path, route.index) \in Seq(Char)
    BY <2>2, <2>3, JoinedTyped
  <2> DEFINE q == ScenarioOf(vs, route, file, AppendPath(file, route.index))
             a == OnHttpRequest(q)
  <2> DEFINE do == a.do
             code == a.code
             moved == route.redirected
             to == route.redirect.to
             index == AppendPath(path, route.index)
             x == Resolve(vs, path)
  <2>5. x = [ do |-> do, code |-> code, server |-> 0, route |-> r, file |-> file, path |-> path,
              location |-> IF moved THEN to ELSE IF code = 302 THEN index ELSE <<>> ]
    BY <1>6 DEF Resolve, r, route, rest
  <2> HIDE DEF do, code, moved, to, index, x, file
  <2>6. IsAnswer(x) /\ x.file = file /\ x.path = path /\ x.location \in {to, index, <<>>}
    BY <2>5 DEF IsAnswer
  <2>7. <<>> \in Seq(Char)
    BY EmptySeq
  <2> QED BY <2>2, <2>4, <2>6, <2>7 DEF to, index, x
<1> QED BY <1>5, <1>6

\* An accepted path has the symbols of the target, decoded.
LEMMA PathTyped ==
    ASSUME NEW t \in Seq(Char), NEW p, ParserOK(t, p), ~p.run, ~p.err
    PROVE  p.uri.path \in Seq(Char)
<1>1. p.uri = Grammar(t).uri
  BY ParserStops
<1>2. p.uri.path = FinalPath(t)
  BY <1>1 DEF Grammar, FinalPath, DecodedPath
<1> DEFINE s == PathOf(t)
           d == [l \in DOMAIN s |-> IF s[l] = "%41" THEN "A" ELSE s[l]]
<1>3. s \in Seq(Char)
  BY PathOfTyped
<1> HIDE DEF s
<1>4. d \in Seq(Char)
  <2>1. DOMAIN s = 1..Len(s) /\ Len(s) \in Nat /\ \A l \in 1..Len(s) : s[l] \in Char
    BY <1>3, LenProperties
  <2>2. "A" \in Char
    BY CharAssumption
  <2>3. \A l \in 1..Len(s) : (IF s[l] = "%41" THEN "A" ELSE s[l]) \in Char
    BY <2>1, <2>2
  <2>4. [l \in 1..Len(s) |-> IF s[l] = "%41" THEN "A" ELSE s[l]] \in Seq(Char)
    BY <2>1, <2>3, IsASeq
  <2> QED BY <2>1, <2>4
<1>5. DecodedPath(t) = <<>> \/ DecodedPath(t) = d
  BY DEF DecodedPath, PercentDecode, s
<1>6. <<>> \in Seq(Char) /\ <<"/">> \in Seq(Char)
  BY CharAssumption, EmptySeq
<1> HIDE DEF d
<1> QED BY <1>2, <1>4, <1>5, <1>6 DEF FinalPath

LEMMA EntriesTyped ==
    ASSUME NEW C, NEW dir \in Seq(C), NEW S, S \subseteq Seq(C)
    PROVE  Entries(dir, S) \subseteq Seq(C)
<1> SUFFICES ASSUME NEW e \in Entries(dir, S) PROVE e \in Seq(C)
  OBVIOUS
<1>1. PICK p \in S : Len(p) > Len(dir) /\ e = SubSeq(p, Len(dir) + 1, Len(p))
  BY DEF Entries
<1>2. p \in Seq(C) /\ Len(dir) \in Nat /\ Len(p) \in Nat
  BY LenProperties
<1>3. Len(dir) <= Len(p)
  BY <1>1, <1>2
<1> QED BY <1>1, <1>2, <1>3, SubSeqIs

LEMMA LinksTyped ==
    ASSUME SetupType, NEW dir \in Seq(Char)
    PROVE  Links(dir) \subseteq Seq(Char)
<1>1. Tree.files \subseteq Seq(Char) /\ Tree.dirs \subseteq Seq(Char)
  BY SitesAssumption DEF SetupType, IsSite, Tree
<1>2. Entries(dir, Tree.files) \subseteq Seq(Char) /\ Entries(dir, Tree.dirs) \subseteq Seq(Char)
  BY <1>1, EntriesTyped
<1>3. <<"/">> \in Seq(Char)
  BY CharAssumption
<1>4. \A n \in Seq(Char) : n \o <<"/">> \in Seq(Char)
  BY <1>3, ConcatProperties
<1> QED BY <1>2, <1>4 DEF Links

LEMMA BaseTyped ==
    ASSUME NEW C, NEW t \in Seq(C), t # <<>>, t[1] = "/"
    PROVE  Base(t) \in Seq(C) /\ Len(Base(t)) \in Nat \ {0}
<1> DEFINE k == FindFirstOf(t, {"?", "#"}, 1)
           path == Upto(t, {"?", "#"})
           S == {i \in DOMAIN path : path[i] = "/"}
           m == Max(S)
<1>1. Len(t) \in Nat \ {0}
  BY EmptySeq, LenProperties
<1>2. 1 \in 1..(Len(t) + 1)
  BY <1>1
<1>3. IsFirst(t, {"?", "#"}, 1, Len(t), k)
  BY <1>2, FindIs
<1> HIDE DEF k
<1>4. k \in 2..(Len(t) + 1)
  BY <1>1, <1>3 DEF IsFirst
<1>5. path = SubSeq(t, 0 + 1, k - 1)
  BY DEF Upto, Token, k
<1>6. k - 1 \in Nat /\ 0 <= k - 1 /\ k - 1 <= Len(t) /\ 1 \in 1..(k - 1) /\ k - 1 - 0 = k - 1
  BY <1>1, <1>4
<1> HIDE DEF path
<1>7. /\ path \in Seq(C) /\ Len(path) = k - 1 - 0
      /\ \A l \in 1..(k - 1 - 0) : path[l] = t[0 + l]
  BY <1>5, <1>6, SubSeqIs
<1>8. path[1] = "/" /\ DOMAIN path = 1..(k - 1)
  BY <1>6, <1>7, LenProperties
<1>9. 1 \in S /\ S \subseteq Nat /\ \A i \in S : i <= k - 1
  BY <1>4, <1>6, <1>8
<1> HIDE DEF S
<1>10. m \in S /\ 1 <= m
  BY <1>6, <1>9, MaxExists
<1> HIDE DEF m
<1>11. m \in Nat \ {0} /\ m <= Len(path) /\ m - 0 = m /\ 0 <= m
  BY <1>6, <1>7, <1>9, <1>10
<1>12. SubSeq(path, 0 + 1, m) \in Seq(C) /\ Len(SubSeq(path, 0 + 1, m)) = m - 0
  BY <1>7, <1>11, SubSeqIs
<1>13. Base(t) = SubSeq(path, 0 + 1, m)
  BY DEF Base, path, S, m
<1> QED BY <1>11, <1>12, <1>13

-----------------------------------------------------------------------------
(* The type invariant *)

LEMMA SameFile ==
    ASSUME ini' = ini
    PROVE  /\ \A c : Names(c)' = Names(c)
           /\ \A c, n : Fields(c, n)' = Fields(c, n)
           /\ \A n : RouteFails(n)' <=> RouteFails(n)
  BY DEF Names, Fields, RouteFails, Has

LEMMA SameSetup ==
    ASSUME SetupType, UNCHANGED setupVars
    PROVE  SetupType'
<1>1. /\ site' = site /\ ini' = ini /\ line' = line /\ todo' = todo
      /\ listeners' = listeners /\ vservers' = vservers
  BY DEF setupVars
<1> QED BY <1>1, SameFile DEF SetupType

\* The next server to add is the first one that is left.
LEMMA NextIs ==
    ASSUME SetupType, todo # {}
    PROVE  /\ NextServer \in todo
           /\ \E i \in DOMAIN ServerNames :
                 /\ ServerNames[i] = NextServer
                 /\ \A j \in DOMAIN ServerNames : ServerNames[j] \in todo => i <= j
<1> DEFINE S == {i \in DOMAIN ServerNames : ServerNames[i] \in todo}
<1>1. DOMAIN ServerNames \subseteq Nat
  BY NamesAssumption, LenProperties
<1>2. S # {}
  <2>1. PICK n \in todo : TRUE
    OBVIOUS
  <2>2. IsName(n)
    BY <2>1, NamedCategory DEF SetupType
  <2> QED BY <2>1, <2>2 DEF IsName
<1>3. S \subseteq Nat
  BY <1>1
<1>4. Min(S) \in S /\ \A j \in S : Min(S) <= j
  BY <1>2, <1>3, MinExists
<1> QED BY <1>4 DEF NextServer

\* Every server has a listener.
HaveListeners == \A i \in DOMAIN vservers : vservers[i].lfd \in DOMAIN listeners

TInv == TypeOK /\ PhaseOK /\ HaveListeners /\ RequestOK

LEMMA FirstState == Init => TInv
<1> SUFFICES ASSUME Init PROVE TInv
  OBVIOUS
<1>1. /\ site \in DOMAIN Sites /\ phase = "load" /\ line = 1 /\ ini = NewFile
      /\ todo = {} /\ listeners = <<>> /\ vservers = <<>> /\ req = NoRequest /\ resp = NoAnswer
  BY DEF Init
<1>2. SetupType
  BY <1>1, NewFileOK, EmptySeq DEF SetupType
<1>3. RequestType
  BY <1>1, EmptySeq DEF RequestType, NoRequest, NoAnswer
<1>4. PhaseOK /\ RequestOK
  BY <1>1 DEF PhaseOK, RequestOK, NoAnswer
<1>5. HaveListeners
  BY <1>1, EmptySeq, LenProperties DEF HaveListeners
<1> QED BY <1>1, <1>2, <1>3, <1>4, <1>5 DEF TInv, TypeOK

LEMMA ReadLineTyped == TInv /\ ReadLine => TInv'
<1> SUFFICES ASSUME TInv, ReadLine PROVE TInv'
  OBVIOUS
<1>1. /\ phase = "load" /\ line <= Len(File)
      /\ ini' = ParseLine(ini, File[line]) /\ line' = line + 1
      /\ UNCHANGED <<site, phase, todo, listeners, vservers, req, parser, via, resp>>
  BY DEF ReadLine
<1>2. /\ site \in DOMAIN Sites /\ FileOK(ini) /\ line \in Nat \ {0} /\ todo = {}
      /\ listeners \in Seq(Char) /\ vservers \in Seq([lfd : Nat, vs : ServerType])
  BY <1>1 DEF TInv, TypeOK, SetupType, PhaseOK
<1>3. IsLine(File[line])
  <2>1. Len(File) \in Nat /\ \A i \in 1..Len(File) : IsLine(File[i])
    BY <1>2, SitesAssumption DEF IsSite, File
  <2> QED BY <1>1, <1>2, <2>1
<1>4. FileOK(ini')
  BY <1>1, <1>2, <1>3, LineOK
<1>5. SetupType'
  <2>1. todo' = {} /\ line' \in Nat \ {0}
    BY <1>1, <1>2
  <2> QED BY <1>1, <1>2, <1>4, <2>1 DEF SetupType
<1>6. RequestType'
  BY <1>1 DEF TInv, TypeOK, RequestType
<1>7. PhaseOK' /\ HaveListeners' /\ RequestOK'
  BY <1>1 DEF TInv, PhaseOK, HaveListeners, RequestOK
<1> QED BY <1>1, <1>5, <1>6, <1>7 DEF TInv, TypeOK

LEMMA EndOfFileTyped == TInv /\ EndOfFile => TInv'
<1> SUFFICES ASSUME TInv, EndOfFile PROVE TInv'
  OBVIOUS
<1>1. phase = "load" /\ phase' = "configure" /\ UNCHANGED <<setupVars, req, parser, via, resp>>
  BY DEF EndOfFile
<1>2. SetupType'
  BY <1>1, SameSetup DEF TInv, TypeOK
<1>3. RequestType'
  BY <1>1 DEF TInv, TypeOK, RequestType
<1>4. PhaseOK' /\ HaveListeners' /\ RequestOK'
  BY <1>1 DEF TInv, PhaseOK, HaveListeners, RequestOK, setupVars
<1> QED BY <1>1, <1>2, <1>3, <1>4 DEF TInv, TypeOK

LEMMA ConfigureTyped == TInv /\ Configure => TInv'
<1> SUFFICES ASSUME TInv, Configure PROVE TInv'
  OBVIOUS
<1>1. /\ phase = "configure"
      /\ UNCHANGED <<site, ini, line, listeners, vservers, req, parser, via, resp>>
      /\ \/ phase' = "failed" /\ todo' = todo
         \/ /\ \A n \in Names("ROUTES") : ~RouteFails(n)
            /\ phase' = "add" /\ todo' = Names("SERVERS")
  BY DEF Configure
<1>2. /\ \A c : Names(c)' = Names(c)
      /\ \A n : RouteFails(n)' <=> RouteFails(n)
  BY <1>1, SameFile
<1>3. SetupType'
  <2>1. todo' \subseteq Names("SERVERS")
    BY <1>1 DEF TInv, TypeOK, SetupType
  <2> QED BY <1>1, <1>2, <2>1 DEF TInv, TypeOK, SetupType
<1>4. RequestType'
  BY <1>1 DEF TInv, TypeOK, RequestType
<1>5. PhaseOK'
  BY <1>1, <1>2 DEF TInv, PhaseOK
<1>6. HaveListeners' /\ RequestOK'
  BY <1>1 DEF TInv, HaveListeners, RequestOK
<1> QED BY <1>1, <1>3, <1>4, <1>5, <1>6 DEF TInv, TypeOK

\* The ways AddVirtualServer ends.
Joins(n, lfd) ==
    /\ phase' = "add" /\ ~ServerFails(n) /\ lfd \in DOMAIN listeners
    /\ listeners[lfd] = Fields("SERVERS", n)["listen"] /\ listeners' = listeners
    /\ vservers' = Append(vservers, [lfd |-> lfd, vs |-> VirtualServer(n)])
Opens(n) ==
    /\ phase' = "add" /\ ~ServerFails(n)
    /\ \A i \in DOMAIN listeners : listeners[i] # Fields("SERVERS", n)["listen"]
    /\ listeners' = Append(listeners, Fields("SERVERS", n)["listen"])
    /\ vservers' = Append(vservers, [lfd |-> Len(listeners'), vs |-> VirtualServer(n)])
GivesUp == phase' = "failed" /\ UNCHANGED <<listeners, vservers>>

LEMMA ServerAdded ==
    ASSUME SetupType, AddVirtualServer,
           \A i \in DOMAIN vservers : vservers[i].lfd \in DOMAIN listeners
    PROVE  /\ phase = "add" /\ todo # {} /\ todo' = todo \ {NextServer}
           /\ UNCHANGED <<site, ini, line, req, parser, via, resp>>
           /\ \/ \E lfd : Joins(NextServer, lfd)
              \/ Opens(NextServer) \/ GivesUp
<1> DEFINE n == NextServer
           addr == Fields("SERVERS", n)["listen"]
           L == ListenerOf(addr)
<1>1. /\ phase = "add" /\ todo # {} /\ todo' = todo \ {n}
      /\ UNCHANGED <<site, ini, line, req, parser, via, resp>>
  BY DEF AddVirtualServer
<1>2. \/ GivesUp
      \/ /\ ~ServerFails(n) /\ L # {} /\ phase' = phase /\ listeners' = listeners
         /\ vservers' = Append(vservers, [lfd |-> Min(L), vs |-> VirtualServer(n)])
      \/ /\ ~ServerFails(n) /\ CreateListenSocket(addr) /\ phase' = phase
         /\ vservers' = Append(vservers, [lfd |-> Len(listeners'), vs |-> VirtualServer(n)])
  BY DEF AddVirtualServer, GivesUp
<1>3. \A l \in L : l \in DOMAIN listeners /\ listeners[l] = addr
  BY DEF ListenerOf
<1>4. L # {} => Min(L) \in L
  <2>1. L \subseteq Nat
    BY <1>3, LenProperties DEF SetupType
  <2> HIDE DEF L
  <2> QED BY <2>1, MinExists
<1> HIDE DEF L, n, addr
<1>5. ASSUME ~ServerFails(n), L # {}, phase' = phase, listeners' = listeners,
             vservers' = Append(vservers, [lfd |-> Min(L), vs |-> VirtualServer(n)])
      PROVE  Joins(n, Min(L))
  BY <1>1, <1>3, <1>4, <1>5 DEF Joins, addr
<1>6. ASSUME ~ServerFails(n), CreateListenSocket(addr), phase' = phase,
             vservers' = Append(vservers, [lfd |-> Len(listeners'), vs |-> VirtualServer(n)])
      PROVE  Opens(n)
  BY <1>1, <1>6 DEF Opens, CreateListenSocket, addr
<1> QED BY <1>1, <1>2, <1>5, <1>6 DEF n

LEMMA Appended ==
    ASSUME NEW C, NEW s \in Seq(C), NEW e \in C
    PROVE  /\ DOMAIN Append(s, e) = DOMAIN s \union {Len(s) + 1}
           /\ Append(s, e)[Len(s) + 1] = e
           /\ \A i \in DOMAIN s : Append(s, e)[i] = s[i] /\ i \in Nat /\ i < Len(s) + 1
<1>1. /\ Append(s, e) \in Seq(C) /\ Len(Append(s, e)) = Len(s) + 1
      /\ \A i \in 1..Len(s) : Append(s, e)[i] = s[i]
      /\ Append(s, e)[Len(s) + 1] = e
  BY AppendProperties
<1>2. /\ DOMAIN s = 1..Len(s) /\ Len(s) \in Nat
      /\ DOMAIN Append(s, e) = 1..Len(Append(s, e))
  BY <1>1, LenProperties
<1>3. 1..(Len(s) + 1) = 1..Len(s) \union {Len(s) + 1}
  BY <1>2
<1> QED BY <1>1, <1>2, <1>3

LEMMA AddTyped == TInv /\ AddVirtualServer => TInv'
<1> SUFFICES ASSUME TInv, AddVirtualServer PROVE TInv'
  OBVIOUS
<1> DEFINE n == NextServer
           addr == Fields("SERVERS", n)["listen"]
           V == [lfd : Nat, vs : ServerType]
<1>1. /\ SetupType /\ FileOK(ini)
      /\ listeners \in Seq(Char) /\ vservers \in Seq(V)
  BY DEF TInv, TypeOK, SetupType
<1>2. /\ phase = "add" /\ todo # {} /\ todo' = todo \ {n}
      /\ UNCHANGED <<site, ini, line, req, parser, via, resp>>
      /\ \/ \E lfd : Joins(n, lfd)
         \/ Opens(n) \/ GivesUp
  BY <1>1, ServerAdded DEF TInv, HaveListeners
<1>3. n \in Names("SERVERS")
  BY <1>1, <1>2, NextIs DEF SetupType
<1>4. \A r \in Names("ROUTES") : ~RouteFails(r)
  BY <1>2 DEF TInv, PhaseOK
<1> HIDE DEF n
<1>5. ~ServerFails(n) => VirtualServer(n) \in ServerType /\ addr \in Char
  BY <1>1, <1>3, <1>4, ServerTyped
<1> HIDE DEF addr, V
<1>6. listeners' \in Seq(Char) /\ vservers' \in Seq(V) /\ phase' \in {"add", "failed"}
  <2>1. CASE GivesUp
    BY <1>1, <2>1 DEF GivesUp
  <2>2. ASSUME NEW lfd, Joins(n, lfd)
        PROVE  listeners' \in Seq(Char) /\ vservers' \in Seq(V) /\ phase' = "add"
    <3>1. lfd \in Nat
      BY <1>1, <2>2, LenProperties DEF Joins
    <3>2. [lfd |-> lfd, vs |-> VirtualServer(n)] \in V
      BY <1>5, <2>2, <3>1 DEF Joins, V
    <3> QED BY <1>1, <2>2, <3>2, AppendProperties DEF Joins
  <2>3. CASE Opens(n)
    <3>1. listeners' \in Seq(Char) /\ Len(listeners') \in Nat
      BY <1>1, <1>5, <2>3, AppendProperties, LenProperties DEF Opens, addr
    <3>2. [lfd |-> Len(listeners'), vs |-> VirtualServer(n)] \in V
      BY <1>5, <2>3, <3>1 DEF Opens, V
    <3> QED BY <1>1, <2>3, <3>1, <3>2, AppendProperties DEF Opens
  <2> QED BY <1>2, <2>1, <2>2, <2>3
<1>7. /\ \A c : Names(c)' = Names(c)
      /\ \A r : RouteFails(r)' <=> RouteFails(r)
  BY <1>2, SameFile
<1>8. SetupType'
  BY <1>1, <1>2, <1>6, <1>7 DEF SetupType, V
<1>9. RequestType'
  BY <1>2 DEF TInv, TypeOK, RequestType
<1>10. PhaseOK'
  BY <1>2, <1>6, <1>7 DEF TInv, PhaseOK
<1>11. RequestOK'
  BY <1>2, <1>6 DEF TInv, PhaseOK, RequestOK, NoAnswer
<1>12. HaveListeners'
  <2>1. CASE GivesUp
    BY <2>1 DEF GivesUp, TInv, HaveListeners
  <2>2. ASSUME NEW lfd, Joins(n, lfd)
        PROVE  HaveListeners'
    <3> DEFINE e == [lfd |-> lfd, vs |-> VirtualServer(n)]
    <3>1. e \in V
      BY <1>1, <1>5, <2>2, LenProperties DEF Joins, V
    <3>2. vservers' = Append(vservers, e) /\ listeners' = listeners /\ e.lfd \in DOMAIN listeners
      BY <2>2 DEF Joins
    <3> HIDE DEF e
    <3> QED BY <1>1, <3>1, <3>2, Appended DEF TInv, HaveListeners
  <2>3. CASE Opens(n)
    <3> DEFINE e == [lfd |-> Len(listeners'), vs |-> VirtualServer(n)]
    <3>1. vservers' = Append(vservers, e) /\ listeners' = Append(listeners, addr)
      BY <2>3 DEF Opens, addr
    <3>2. addr \in Char /\ VirtualServer(n) \in ServerType
      BY <1>5, <2>3 DEF Opens
    <3>3. /\ DOMAIN listeners' = DOMAIN listeners \union {Len(listeners) + 1}
          /\ Len(listeners') = Len(listeners) + 1 /\ Len(listeners') \in Nat
      BY <1>1, <3>1, <3>2, Appended, AppendProperties, LenProperties
    <3>4. e \in V /\ e.lfd \in DOMAIN listeners'
      BY <3>2, <3>3 DEF V
    <3> HIDE DEF e
    <3> QED BY <1>1, <3>1, <3>3, <3>4, Appended DEF TInv, HaveListeners
  <2> QED BY <1>2, <2>1, <2>2, <2>3
<1> QED BY <1>6, <1>8, <1>9, <1>10, <1>11, <1>12 DEF TInv, TypeOK

LEMMA SetupFixed ==
    ASSUME UNCHANGED setupVars
    PROVE  /\ HaveListeners => HaveListeners'
           /\ \A n : RouteFails(n)' <=> RouteFails(n)
           /\ \A c : Names(c)' = Names(c)
           /\ \A a : Listening(a)' = Listening(a)
           /\ todo' = todo /\ ini' = ini
           /\ listeners' = listeners /\ vservers' = vservers
<1>1. ini' = ini /\ listeners' = listeners /\ vservers' = vservers /\ todo' = todo
  BY DEF setupVars
<1> QED BY <1>1, SameFile DEF HaveListeners, Listening

\* The actions that serve requests leave the site as it is.
LEMMA ServingTyped ==
    ASSUME TInv, UNCHANGED setupVars, phase \in {"serve", "parse"} \/ (phase = "add" /\ todo = {}),
           phase' \in {"serve", "parse", "undefined", "endless"}, RequestType', RequestOK'
    PROVE  TInv'
<1>1. SetupType'
  BY SameSetup DEF TInv, TypeOK
<1>2. HaveListeners'
  BY SetupFixed DEF TInv
<1>3. PhaseOK'
  BY SetupFixed DEF TInv, PhaseOK
<1> QED BY <1>1, <1>2, <1>3 DEF TInv, TypeOK

LEMMA RequestTyped ==
    ASSUME TInv, NEW target, NEW how, Request(target, how), phase = "serve",
           target \in [addr : Char \union {"none"}, host : Seq(Char), target : Seq(Char)],
           target.target # <<>>
    PROVE  TInv'
<1>1. /\ phase' = "parse" /\ parser' = NewParser /\ req' = target /\ resp' = NoAnswer
      /\ UNCHANGED setupVars
  BY DEF Request
<1>2. RequestType'
  BY <1>1, EmptySeq DEF RequestType, NoAnswer
<1>3. RequestOK'
  BY <1>1 DEF RequestOK, ParserOK
<1> QED BY <1>1, <1>2, <1>3, ServingTyped

LEMMA AskTyped == TInv /\ Ask => TInv'
<1> SUFFICES ASSUME TInv, Ask PROVE TInv'
  OBVIOUS
<1>1. PICK a \in Asks : phase = "serve" /\ Request(a, Asked)
  BY DEF Ask
<1>2. a \in Question
  BY <1>1, SitesAssumption DEF TInv, TypeOK, SetupType, IsSite, Asks
<1>3. a \in [addr : Char \union {"none"}, host : Seq(Char), target : Seq(Char)] /\ a.target # <<>>
  BY <1>2 DEF Question
<1> QED BY <1>1, <1>3, RequestTyped

LEMMA LeaveTyped == TInv /\ Leave => TInv'
<1> SUFFICES ASSUME TInv, Leave PROVE TInv'
  OBVIOUS
<1>1. /\ phase = "serve" /\ phase' = "serve" /\ UNCHANGED setupVars
      /\ req' = NoRequest /\ resp' = NoAnswer
  BY DEF Leave
<1>2. RequestType'
  BY <1>1, EmptySeq DEF RequestType, NoAnswer, NoRequest
<1>3. RequestOK'
  BY <1>1 DEF RequestOK, NoAnswer
<1> QED BY <1>1, <1>2, <1>3, ServingTyped

LEMMA ServeForeverTyped == TInv /\ ServeForever => TInv'
<1> SUFFICES ASSUME TInv, ServeForever PROVE TInv'
  OBVIOUS
<1>1. /\ phase = "add" /\ todo = {} /\ phase' = "serve" /\ UNCHANGED setupVars
      /\ UNCHANGED <<req, parser, resp>>
  BY DEF ServeForever
<1>2. RequestType'
  BY <1>1 DEF RequestType, TInv, TypeOK
<1>3. RequestOK'
  BY <1>1 DEF RequestOK, TInv
<1> QED BY <1>1, <1>2, <1>3, ServingTyped

LEMMA ParseTargetTyped == TInv /\ ParseTarget => TInv'
<1> SUFFICES ASSUME TInv, ParseTarget PROVE TInv'
  OBVIOUS
<1>1. /\ phase = "parse" /\ phase' = "parse" /\ parser.run /\ parser' = UriStep(req.target, parser)
      /\ UNCHANGED setupVars /\ UNCHANGED <<req, resp>>
  BY DEF ParseTarget
<1>2. RequestType'
  BY <1>1 DEF RequestType, TInv, TypeOK
<1>3. RequestOK'
  <2>1. req.target \in Seq(Char) /\ ParserOK(req.target, parser) /\ req.target # <<>>
    BY <1>1 DEF TInv, TypeOK, RequestType, RequestOK
  <2>2. ParserOK(req.target, parser')
    BY <1>1, <2>1, ParserTurn
  <2> QED BY <1>1, <2>1, <2>2 DEF RequestOK
<1> QED BY <1>1, <1>2, <1>3, ServingTyped

LEMMA ServerChosen ==
    ASSUME SetupType, NEW l, NEW host
    PROVE  /\ Candidates(l, host) \subseteq Nat \ {0}
           /\ GetVirtualServer(l, host) # 0 =>
                 /\ GetVirtualServer(l, host) \in DOMAIN vservers
                 /\ vservers[GetVirtualServer(l, host)].vs \in ServerType
<1>1. vservers \in Seq([lfd : Nat, vs : ServerType])
  BY DEF SetupType
<1>2. /\ DOMAIN vservers \subseteq Nat \ {0}
      /\ \A i \in DOMAIN vservers : vservers[i] \in [lfd : Nat, vs : ServerType]
  <2> DEFINE V == [lfd : Nat, vs : ServerType]
  <2>1. vservers \in Seq(V)
    BY <1>1
  <2> HIDE DEF V
  <2>2. /\ DOMAIN vservers = 1..Len(vservers) /\ Len(vservers) \in Nat
        /\ \A i \in 1..Len(vservers) : vservers[i] \in V
    BY <2>1, LenProperties
  <2>3. 1..Len(vservers) \subseteq Nat \ {0}
    BY <2>2
  <2> QED BY <2>2, <2>3 DEF V
<1>3. Candidates(l, host) \subseteq DOMAIN vservers
  BY DEF Candidates
<1>4. Candidates(l, host) \subseteq Nat \ {0}
  BY <1>2, <1>3
<1>5. GetVirtualServer(l, host) # 0 => GetVirtualServer(l, host) \in DOMAIN vservers
  BY <1>3, <1>4, FirstExists DEF GetVirtualServer
<1> QED BY <1>2, <1>4, <1>5

LEMMA AnswerRequestTyped == TInv /\ AnswerRequest => TInv'
<1> SUFFICES ASSUME TInv, AnswerRequest PROVE TInv'
  OBVIOUS
<1> DEFINE v == GetVirtualServer(Min(Listening(req.addr)), req.host)
           x == Resolve(vservers[v].vs, parser.uri.path)
<1>1. /\ phase = "parse" /\ ~parser.run /\ phase' \in {"serve", "undefined", "endless"}
      /\ UNCHANGED setupVars /\ UNCHANGED <<req, parser, via>>
      /\ \/ resp' = [NoAnswer EXCEPT !.do = "error", !.code = 400]
         \/ resp' = resp
         \/ ~parser.err /\ v # 0 /\ resp' = [x EXCEPT !.server = v]
  BY DEF AnswerRequest
<1>2. /\ SetupType /\ req.target \in Seq(Char) /\ req.target # <<>>
      /\ ParserOK(req.target, parser)
  BY <1>1 DEF TInv, TypeOK, RequestType, RequestOK
<1> HIDE DEF v
<1>3. resp'.file \in Seq(Char) /\ resp'.path \in Seq(Char) /\ resp'.location \in Seq(Char)
  <2>1. CASE resp' = [NoAnswer EXCEPT !.do = "error", !.code = 400]
    <3>1. resp'.file = <<>> /\ resp'.path = <<>> /\ resp'.location = <<>>
      BY <2>1 DEF NoAnswer
    <3> QED BY <3>1, EmptySeq
  <2>2. CASE ~parser.err /\ v # 0 /\ resp' = [x EXCEPT !.server = v]
    <3>1. vservers[v].vs \in ServerType
      BY <1>2, <2>2, ServerChosen DEF v
    <3>2. parser.uri.path \in Seq(Char)
      BY <1>1, <1>2, <2>2, PathTyped
    <3>3. x.file \in Seq(Char) /\ x.path \in Seq(Char) /\ x.location \in Seq(Char) /\ IsAnswer(x)
      BY <3>1, <3>2, AnswerTyped
    <3> HIDE DEF x
    <3>4. resp'.file = x.file /\ resp'.path = x.path /\ resp'.location = x.location
      BY <2>2, <3>3 DEF IsAnswer
    <3> QED BY <3>3, <3>4
  <2>3. CASE resp' = resp
    BY <2>3 DEF TInv, TypeOK, RequestType
  <2> QED BY <1>1, <2>1, <2>2, <2>3
<1>4. RequestType'
  BY <1>1, <1>3 DEF RequestType, TInv, TypeOK
<1>5. RequestOK'
  BY <1>1, <1>2 DEF RequestOK
<1> QED BY <1>1, <1>4, <1>5, ServingTyped

LEMMA LongerTyped ==
    ASSUME NEW C, NEW s \in Seq(C), NEW t \in Seq(C), Len(s) \in Nat \ {0}
    PROVE  s \o t \in Seq(C) /\ s \o t # <<>>
<1>1. s \o t \in Seq(C) /\ Len(s \o t) = Len(s) + Len(t)
  BY ConcatProperties
<1>2. Len(t) \in Nat /\ Len(<<>>) = 0
  BY LenProperties, EmptySeq
<1>3. Len(s \o t) # 0
  BY <1>1, <1>2
<1> QED BY <1>1, <1>2, <1>3

LEMMA FollowLinkTyped == TInv /\ FollowLink => TInv'
<1> SUFFICES ASSUME TInv, FollowLink PROVE TInv'
  OBVIOUS
<1>1. phase = "serve" /\ Listing /\ req.target[1] = "/"
  BY DEF FollowLink
<1>2. PICK n \in Links(resp.file) : \E how : Request([req EXCEPT !.target = Base(req.target) \o n], how)
  BY DEF FollowLink
<1>3. PICK how : Request([req EXCEPT !.target = Base(req.target) \o n], how)
  BY <1>2
<1>4. /\ req.target # <<>> /\ req.target \in Seq(Char) /\ resp.file \in Seq(Char) /\ SetupType
      /\ req \in [addr : Char \union {"none"}, host : Seq(Char), target : Seq(Char)]
  BY <1>1 DEF TInv, TypeOK, RequestType, RequestOK, Listing
<1>5. n \in Seq(Char)
  BY <1>4, LinksTyped
<1>6. Base(req.target) \in Seq(Char) /\ Len(Base(req.target)) \in Nat \ {0}
  BY <1>1, <1>4, BaseTyped
<1> DEFINE t == Base(req.target) \o n
           r == [req EXCEPT !.target = t]
<1>7. t \in Seq(Char) /\ t # <<>>
  BY <1>5, <1>6, LongerTyped
<1> HIDE DEF t
<1>8. /\ r \in [addr : Char \union {"none"}, host : Seq(Char), target : Seq(Char)]
      /\ r.target # <<>>
  BY <1>4, <1>7
<1>9. Request(r, how)
  BY <1>3 DEF t
<1> HIDE DEF r
<1> QED BY <1>1, <1>8, <1>9, RequestTyped

LEMMA FollowRedirectTyped == TInv /\ FollowRedirect => TInv'
<1> SUFFICES ASSUME TInv, FollowRedirect PROVE TInv'
  OBVIOUS
<1>1. phase = "serve" /\ resp.location # <<>>
  BY DEF FollowRedirect
<1>2. PICK how : Request([req EXCEPT !.target = resp.location], how)
  BY DEF FollowRedirect
<1> DEFINE t == resp.location
           r == [req EXCEPT !.target = t]
<1>3. /\ t \in Seq(Char)
      /\ req \in [addr : Char \union {"none"}, host : Seq(Char), target : Seq(Char)]
  BY DEF TInv, TypeOK, RequestType
<1> HIDE DEF t
<1>4. /\ r \in [addr : Char \union {"none"}, host : Seq(Char), target : Seq(Char)]
      /\ r.target # <<>>
  BY <1>1, <1>3 DEF t
<1>5. Request(r, how)
  BY <1>2 DEF t
<1> HIDE DEF r
<1> QED BY <1>1, <1>4, <1>5, RequestTyped

LEMMA StoppedTyped ==
    ASSUME TInv, UNCHANGED vars
    PROVE  TInv'
<1>1. UNCHANGED setupVars /\ UNCHANGED <<phase, req, parser, resp>>
  BY DEF vars
<1>2. SetupType'
  BY <1>1, SameSetup DEF TInv, TypeOK
<1>3. HaveListeners' /\ PhaseOK'
  BY <1>1, SetupFixed DEF TInv, PhaseOK
<1>4. RequestType' /\ RequestOK'
  BY <1>1 DEF TInv, TypeOK, RequestType, RequestOK
<1> QED BY <1>1, <1>2, <1>3, <1>4 DEF TInv, TypeOK

LEMMA StateKept == TInv /\ [Next]_vars => TInv'
  BY ReadLineTyped, EndOfFileTyped, ConfigureTyped, AddTyped, ServeForeverTyped, AskTyped,
     LeaveTyped, ParseTargetTyped, AnswerRequestTyped, FollowLinkTyped, FollowRedirectTyped,
     StoppedTyped DEF Next, Stopped

\* The type invariant of the site.
THEOREM SiteTypeCorrect == Spec => []TypeOK
<1>1. TInv => TypeOK
  BY DEF TInv
<1> QED BY <1>1, FirstState, StateKept, PTL DEF Spec

\* URI::Parse (uri.cc) accepts exactly the targets of the grammar and cuts them
\* into its components; an accepted path begins with a slash.
THEOREM TargetsParsed == Spec => []UriExact
<1>1. TInv => UriExact
  <2> SUFFICES ASSUME TInv, phase = "parse", ~parser.run
               PROVE  /\ parser.err <=> ~Grammar(req.target).ok
                      /\ Grammar(req.target).ok =>
                            /\ parser.uri = Grammar(req.target).uri
                            /\ parser.uri.path[1] = "/"
    BY DEF UriExact
  <2>1. req.target \in Seq(Char) /\ ParserOK(req.target, parser)
    BY DEF TInv, TypeOK, RequestType, RequestOK
  <2> QED BY <2>1, ParserStops
<1> QED BY <1>1, FirstState, StateKept, PTL DEF Spec

-----------------------------------------------------------------------------
(* The server of a request.  The servers stand in the order of their names, *)
(* each as the file describes it, and no two listeners have one address.    *)

Before(m, n) == \A a, b \in DOMAIN ServerNames :
                   ServerNames[a] = m /\ ServerNames[b] = n => a < b
Describes(e) ==
    LET n == e.vs.name IN
    /\ n \in Names("SERVERS")
    /\ listeners[e.lfd] = Fields("SERVERS", n)["listen"]
    /\ e.vs.hostnames = Fields("SERVERS", n)["names"]

Distinct == \A i, j \in DOMAIN listeners : listeners[i] = listeners[j] => i = j
Described == \A i \in DOMAIN vservers : Describes(vservers[i])
Ordered ==
    /\ \A i, j \in DOMAIN vservers : i < j => Before(vservers[i].vs.name, vservers[j].vs.name)
    /\ \A i \in DOMAIN vservers : \A n \in todo : Before(vservers[i].vs.name, n)
Complete ==
    phase \in {"add", "serve", "parse"} =>
        \A n \in Names("SERVERS") :
            n \in todo \/ \E i \in DOMAIN vservers : vservers[i].vs.name = n
Reached == phase = "parse" \/ resp.code # 0 => Listening(req.addr) # {}

ServersOK == Distinct /\ Described /\ Ordered /\ Complete /\ Reached

\* ServerExact, in parts.
Here(n)   == /\ <<"SERVERS", n>> \in DOMAIN ini.cats
             /\ Fields("SERVERS", n)["listen"] = req.addr
Serves(n) == /\ Here(n)
             /\ \E k \in DOMAIN Fields("SERVERS", n)["names"] :
                    Covers(Fields("SERVERS", n)["names"][k], req.host)
Clear ==
    /\ \A k \in DOMAIN req.host : req.host[k] # "["
    /\ \A i \in DOMAIN ServerNames : Here(ServerNames[i]) =>
           \A k \in DOMAIN Fields("SERVERS", ServerNames[i])["names"] :
               Readable(Fields("SERVERS", ServerNames[i])["names"][k])
First    == FirstOf({i \in DOMAIN ServerNames : Serves(ServerNames[i])})
Right(v) == IF v = 0 THEN First = 0
            ELSE First # 0 /\ vservers[v].vs.name = ServerNames[First]

LEMMA ExactIs ==
    ServerExact <=>
        (phase \in {"serve", "endless"} /\ Clear =>
            phase = "serve" /\ (resp.do # "none" /\ ~parser.err => Right(resp.server)))
  BY DEF ServerExact, Right, First, Serves, Here, Clear

\* What a server hears when none of its names is searched without end.
LEMMA HeardIs ==
    ASSUME NEW C, NEW vs, vs.hostnames \in Seq(C), NEW host
    PROVE  /\ Heard(vs, host) # "no"
                 <=> \E k \in DOMAIN vs.hostnames : Match(vs.hostnames[k], host) # "no"
           /\ (\A k \in DOMAIN vs.hostnames : Match(vs.hostnames[k], host) # "endless")
                 => Heard(vs, host) # "endless"
<1> DEFINE said == {k \in DOMAIN vs.hostnames : Match(vs.hostnames[k], host) # "no"}
<1>1. said \subseteq Nat
  BY LenProperties
<1>2. said # {} => Min(said) \in said
  BY <1>1, MinExists
<1>3. Heard(vs, host) = IF said = {} THEN "no" ELSE Match(vs.hostnames[Min(said)], host)
  BY DEF Heard
<1> QED BY <1>2, <1>3

\* The candidates are the servers that serve the request, if their names are
\* read in one way, and each of them is done with the host.
LEMMA CandidateServes ==
    ASSUME TInv, ServersOK, phase = "parse", Clear, NEW i \in DOMAIN vservers
    PROVE  /\ i \in Candidates(Min(Listening(req.addr)), req.host)
                 <=> Serves(vservers[i].vs.name)
           /\ i \in Candidates(Min(Listening(req.addr)), req.host)
                 => Heard(vservers[i].vs, req.host) # "endless"
<1> DEFINE L == Listening(req.addr)
           l == Min(L)
           e == vservers[i]
           hosts == e.vs.hostnames
<1>1. /\ listeners \in Seq(Char) /\ vservers \in Seq([lfd : Nat, vs : ServerType])
      /\ req.host \in Seq(Char) /\ FileOK(ini)
  BY DEF TInv, TypeOK, SetupType, RequestType
<1>2. L # {} /\ L \subseteq DOMAIN listeners /\ DOMAIN listeners \subseteq Nat
  BY <1>1, LenProperties DEF ServersOK, Reached, Listening
<1> HIDE DEF L
<1>3. l \in L
  BY <1>2, MinExists
<1> HIDE DEF l
<1>4. l \in DOMAIN listeners /\ listeners[l] = req.addr
  BY <1>2, <1>3 DEF Listening, L
<1>5. /\ e.vs.name \in Names("SERVERS") /\ e.lfd \in DOMAIN listeners
      /\ listeners[e.lfd] = Fields("SERVERS", e.vs.name)["listen"]
      /\ hosts = Fields("SERVERS", e.vs.name)["names"]
  BY DEF TInv, HaveListeners, ServersOK, Described, Describes
<1>6. <<"SERVERS", e.vs.name>> \in DOMAIN ini.cats
  BY <1>1, <1>5, NamedCategory
<1>7. e.lfd = l <=> Here(e.vs.name)
  BY <1>4, <1>5, <1>6 DEF ServersOK, Distinct, Here
<1>8. hosts \in Seq(Seq(Char))
  <2> DEFINE V == [lfd : Nat, vs : ServerType]
  <2>1. vservers \in Seq(V)
    BY <1>1
  <2> HIDE DEF V
  <2>2. vservers[i] \in V
    BY <2>1, LenProperties
  <2> QED BY <2>2 DEF V, ServerType
<1>9. ASSUME e.lfd = l
      PROVE  \A k \in DOMAIN hosts :
                Match(hosts[k], req.host) = IF Covers(hosts[k], req.host) THEN "yes" ELSE "no"
  <2>1. PICK j \in DOMAIN ServerNames : ServerNames[j] = e.vs.name
    BY <1>1, <1>5, NamedCategory DEF IsName
  <2>2. \A k \in DOMAIN hosts : Readable(hosts[k])
    BY <1>5, <1>7, <1>9, <2>1 DEF Clear
  <2>3. Unblocked(req.host)
    BY <1>1, LenProperties DEF Clear, Unblocked
  <2> HIDE DEF hosts
  <2>4. \A k \in DOMAIN hosts : hosts[k] \in Seq(Char)
    BY <1>8, LenProperties
  <2> QED BY <1>1, <2>2, <2>3, <2>4, MatchCovers
<1> DEFINE vs == e.vs
<1>10. vs.hostnames = hosts
  OBVIOUS
<1>11. i \in Candidates(l, req.host) <=> e.lfd = l /\ Heard(vs, req.host) # "no"
  BY DEF Candidates
<1>12. Serves(e.vs.name) <=> Here(e.vs.name) /\ \E k \in DOMAIN hosts : Covers(hosts[k], req.host)
  BY <1>5 DEF Serves
<1> SUFFICES /\ i \in Candidates(l, req.host) <=> Serves(e.vs.name)
             /\ i \in Candidates(l, req.host) => Heard(vs, req.host) # "endless"
  BY DEF l, L
<1> DEFINE name == e.vs.name
<1>13. Serves(name) <=> Here(name) /\ \E k \in DOMAIN hosts : Covers(hosts[k], req.host)
  BY <1>12
<1>14. e.lfd = l <=> Here(name)
  BY <1>7
<1> HIDE DEF name, vs, hosts
<1>15. /\ Heard(vs, req.host) # "no" <=> \E k \in DOMAIN hosts : Match(hosts[k], req.host) # "no"
       /\ (\A k \in DOMAIN hosts : Match(hosts[k], req.host) # "endless")
             => Heard(vs, req.host) # "endless"
  BY <1>8, <1>10, HeardIs
<1>16. i \in Candidates(l, req.host) <=> Serves(name)
  BY <1>9, <1>11, <1>13, <1>14, <1>15
<1>17. i \in Candidates(l, req.host) => Heard(vs, req.host) # "endless"
  BY <1>9, <1>11, <1>15
<1> QED BY <1>16, <1>17 DEF name

LEMMA ChosenRight ==
    ASSUME TInv, ServersOK, phase = "parse", Clear
    PROVE  Right(GetVirtualServer(Min(Listening(req.addr)), req.host))
<1> DEFINE C == Candidates(Min(Listening(req.addr)), req.host)
           S == {i \in DOMAIN ServerNames : Serves(ServerNames[i])}
           v == GetVirtualServer(Min(Listening(req.addr)), req.host)
           Name(i) == vservers[i].vs.name
<1>1. SetupType /\ FileOK(ini) /\ todo = {}
  BY DEF TInv, TypeOK, SetupType, PhaseOK
<1>2. C \subseteq Nat \ {0} /\ C \subseteq DOMAIN vservers /\ v = FirstOf(C)
  BY <1>1, ServerChosen DEF Candidates, GetVirtualServer
<1>3. S \subseteq Nat \ {0}
  BY NamesAssumption, LenProperties
<1>4. ASSUME NEW a \in S
      PROVE  \E i \in C : Name(i) = ServerNames[a]
  <2>1. Serves(ServerNames[a])
    OBVIOUS
  <2>2. ServerNames[a] \in Names("SERVERS")
    BY <1>1, <2>1, NamedCategory DEF Serves, Here
  <2>3. PICK i \in DOMAIN vservers : Name(i) = ServerNames[a]
    BY <1>1, <2>2 DEF ServersOK, Complete
  <2>4. i \in C
    BY <2>1, <2>3, CandidateServes
  <2> QED BY <2>3, <2>4
<1>5. ASSUME NEW i \in C
      PROVE  \E a \in S : Name(i) = ServerNames[a]
  <2>1. Serves(Name(i)) /\ i \in DOMAIN vservers
    BY <1>2, <1>5, CandidateServes
  <2>2. Name(i) \in Names("SERVERS")
    BY <2>1 DEF ServersOK, Described, Describes
  <2>3. IsName(Name(i))
    BY <1>1, <2>2, NamedCategory
  <2> QED BY <2>1, <2>3 DEF IsName
<1>6. First = FirstOf(S)
  BY DEF First
<1> SUFFICES Right(v)
  OBVIOUS
<1>7. CASE C = {}
  <2>1. S = {}
    BY <1>4, <1>7
  <2> QED BY <1>2, <1>6, <1>7, <2>1 DEF Right, FirstOf
<1>8. CASE C # {}
  <2> HIDE DEF C, v, S
  <2>1. v # 0 /\ v \in C /\ \A i \in C : v <= i
    BY <1>2, <1>8, FirstExists
  <2>2. PICK a \in S : Name(v) = ServerNames[a]
    BY <1>5, <2>1
  <2>3. ASSUME NEW b \in S
        PROVE  a <= b
    <3>1. PICK j \in C : Name(j) = ServerNames[b]
      BY <1>4
    <3>2. /\ a \in DOMAIN ServerNames /\ b \in DOMAIN ServerNames /\ a \in Nat /\ b \in Nat
          /\ v \in Nat /\ j \in Nat /\ v \in DOMAIN vservers /\ j \in DOMAIN vservers
      BY <1>2, <1>3, <2>1 DEF S
    <3>3. CASE v = j
      BY <2>2, <3>1, <3>2, <3>3, NamesAssumption
    <3>4. CASE v < j
      <4>1. Before(Name(v), Name(j))
        BY <3>2, <3>4 DEF ServersOK, Ordered
      <4>2. a < b
        BY <2>2, <3>1, <3>2, <4>1 DEF Before
      <4> QED BY <3>2, <4>2
    <3> QED BY <2>1, <3>1, <3>2, <3>3, <3>4
  <2>4. Min(S) = a
    BY <1>3, <2>3, MinIs
  <2>5. First = a
    BY <1>6, <2>4 DEF FirstOf
  <2>6. a # 0
    BY <1>3
  <2> QED BY <2>1, <2>2, <2>5, <2>6 DEF Right
<1> QED BY <1>7, <1>8

SInv == TInv /\ ServersOK /\ ServerExact

LEMMA NoServersYet ==
    ASSUME listeners = <<>>, vservers = <<>>
    PROVE  Distinct /\ Described /\ Ordered
<1>1. DOMAIN listeners = {} /\ DOMAIN vservers = {}
  BY EmptySeq, LenProperties
<1> QED BY <1>1 DEF Distinct, Described, Ordered

LEMMA ServersFixed ==
    ASSUME UNCHANGED <<ini, todo, listeners, vservers>>
    PROVE  /\ Distinct' <=> Distinct
           /\ Described' <=> Described
           /\ Ordered' <=> Ordered
<1>1. /\ \A c : Names(c)' = Names(c)
      /\ \A c, n : Fields(c, n)' = Fields(c, n)
  BY SameFile
<1> QED BY <1>1 DEF Distinct, Described, Describes, Ordered, Before

\* Before the server serves, there is nothing to be exact about.
LEMMA NotServing ==
    ASSUME phase' \notin {"serve", "endless"} \/ (phase' = "serve" /\ resp'.do = "none")
    PROVE  ServerExact'
  BY DEF ServerExact

LEMMA FirstServers == Init => SInv
<1> SUFFICES ASSUME Init PROVE SInv
  OBVIOUS
<1>1. phase = "load" /\ listeners = <<>> /\ vservers = <<>> /\ resp = NoAnswer
  BY DEF Init
<1>2. Complete /\ Reached /\ ServerExact
  BY <1>1 DEF Complete, Reached, ServerExact, NoAnswer
<1> QED BY <1>1, <1>2, FirstState, NoServersYet DEF SInv, ServersOK

LEMMA LoadServers == SInv /\ (ReadLine \/ EndOfFile) => ServersOK' /\ ServerExact'
<1> SUFFICES ASSUME SInv, ReadLine \/ EndOfFile PROVE ServersOK' /\ ServerExact'
  OBVIOUS
<1>1. /\ phase = "load" /\ phase' \in {"load", "configure"}
      /\ UNCHANGED <<todo, listeners, vservers, req, resp>>
  BY DEF ReadLine, EndOfFile, setupVars
<1>2. listeners' = <<>> /\ vservers' = <<>> /\ resp' = NoAnswer
  BY <1>1 DEF SInv, TInv, PhaseOK
<1>3. Distinct' /\ Described' /\ Ordered'
  <2>1. DOMAIN listeners' = {} /\ DOMAIN vservers' = {}
    BY <1>2, EmptySeq, LenProperties
  <2> QED BY <2>1 DEF Distinct, Described, Ordered
<1>4. Complete' /\ Reached' /\ ServerExact'
  BY <1>1, <1>2 DEF Complete, Reached, ServerExact, NoAnswer
<1> QED BY <1>3, <1>4 DEF ServersOK

LEMMA ConfigureServers == SInv /\ Configure => ServersOK' /\ ServerExact'
<1> SUFFICES ASSUME SInv, Configure PROVE ServersOK' /\ ServerExact'
  OBVIOUS
<1>1. /\ phase = "configure" /\ UNCHANGED <<ini, listeners, vservers, req, resp>>
      /\ phase' = "failed" \/ (phase' = "add" /\ todo' = Names("SERVERS"))
  BY DEF Configure
<1>2. listeners' = <<>> /\ vservers' = <<>> /\ resp' = NoAnswer
  BY <1>1 DEF SInv, TInv, PhaseOK
<1>3. Distinct' /\ Described' /\ Ordered'
  <2>1. DOMAIN listeners' = {} /\ DOMAIN vservers' = {}
    BY <1>2, EmptySeq, LenProperties
  <2> QED BY <2>1 DEF Distinct, Described, Ordered
<1>4. Complete'
  <2>1. Names("SERVERS")' = Names("SERVERS")
    BY <1>1, SameFile
  <2> QED BY <1>1, <2>1 DEF Complete
<1>5. Reached' /\ ServerExact'
  BY <1>1, <1>2 DEF Reached, ServerExact, NoAnswer
<1> QED BY <1>3, <1>4, <1>5 DEF ServersOK

\* A server that is added comes behind those that are there.
LEMMA ServerOrdered ==
    ASSUME SetupType, Ordered, todo # {}, todo' = todo \ {NextServer},
           NEW e, e.vs.name = NextServer, NEW C, vservers \in Seq(C), e \in C,
           vservers' = Append(vservers, e)
    PROVE  Ordered'
<1> DEFINE n == NextServer
           k == Len(vservers) + 1
<1>1. /\ DOMAIN vservers' = DOMAIN vservers \union {k} /\ vservers'[k] = e
      /\ \A i \in DOMAIN vservers : vservers'[i] = vservers[i] /\ i \in Nat /\ i < k
  BY Appended
<1>2. k \in Nat
  BY LenProperties
<1> HIDE DEF k, n
<1>3. n \in todo /\ e.vs.name = n /\ todo' = todo \ {n}
  BY NextIs DEF n
<1>4. ASSUME NEW m \in todo'
      PROVE  Before(n, m)
  <2>1. PICK i \in DOMAIN ServerNames :
           /\ ServerNames[i] = n
           /\ \A j \in DOMAIN ServerNames : ServerNames[j] \in todo => i <= j
    BY NextIs DEF n
  <2>2. ASSUME NEW a \in DOMAIN ServerNames, NEW b \in DOMAIN ServerNames,
               ServerNames[a] = n, ServerNames[b] = m
        PROVE  a < b
    <3>1. a = i /\ i <= b /\ a # b
      BY <1>3, <1>4, <2>1, <2>2, NamesAssumption
    <3>2. a \in Nat /\ b \in Nat
      BY NamesAssumption, LenProperties
    <3> QED BY <3>1, <3>2
  <2> QED BY <2>2 DEF Before
<1>5. ASSUME NEW i \in DOMAIN vservers', NEW j \in DOMAIN vservers', i < j
      PROVE  Before(vservers'[i].vs.name, vservers'[j].vs.name)
  <2>1. i \in DOMAIN vservers
    <3> SUFFICES ASSUME i = k PROVE FALSE
      BY <1>1
    <3>1. j = k \/ (j \in Nat /\ j < k)
      BY <1>1
    <3> QED BY <1>2, <1>5, <3>1
  <2>2. CASE j = k
    BY <1>1, <1>3, <2>1, <2>2 DEF Ordered
  <2>3. CASE j \in DOMAIN vservers
    BY <1>1, <1>5, <2>1, <2>3 DEF Ordered
  <2> QED BY <1>1, <2>2, <2>3
<1>6. ASSUME NEW i \in DOMAIN vservers', NEW m \in todo'
      PROVE  Before(vservers'[i].vs.name, m)
  <2>1. CASE i = k
    BY <1>1, <1>3, <1>4, <2>1
  <2>2. CASE i \in DOMAIN vservers
    BY <1>1, <1>3, <2>2 DEF Ordered
  <2> QED BY <1>1, <2>1, <2>2
<1>7. \A a, b : Before(a, b)' <=> Before(a, b)
  BY DEF Before
<1> QED BY <1>5, <1>6, <1>7 DEF Ordered

LEMMA AddServers == SInv /\ AddVirtualServer => ServersOK' /\ ServerExact'
<1> SUFFICES ASSUME SInv, AddVirtualServer PROVE ServersOK' /\ ServerExact'
  OBVIOUS
<1> DEFINE n == NextServer
           addr == Fields("SERVERS", n)["listen"]
           V == [lfd : Nat, vs : ServerType]
           vs == VirtualServer(n)
<1>1. /\ SetupType /\ FileOK(ini) /\ listeners \in Seq(Char) /\ vservers \in Seq(V)
      /\ HaveListeners
  BY DEF SInv, TInv, TypeOK, SetupType
<1>2. /\ phase = "add" /\ todo # {} /\ todo' = todo \ {n}
      /\ UNCHANGED <<site, ini, line, req, parser, via, resp>>
      /\ \/ \E lfd : Joins(n, lfd)
         \/ Opens(n) \/ GivesUp
  BY <1>1, ServerAdded DEF HaveListeners
<1>3. n \in todo /\ n \in Names("SERVERS")
  BY <1>1, <1>2, NextIs DEF SetupType
<1>4. \A r \in Names("ROUTES") : ~RouteFails(r)
  BY <1>2 DEF SInv, TInv, PhaseOK
<1>5. ~ServerFails(n) => /\ vs \in ServerType /\ addr \in Char /\ vs.name = n
                         /\ vs.hostnames = Fields("SERVERS", n)["names"]
  BY <1>1, <1>3, <1>4, ServerTyped
<1>6. /\ \A c : Names(c)' = Names(c)
      /\ \A c, m : Fields(c, m)' = Fields(c, m)
  BY <1>2, SameFile
<1>7. Distinct /\ Described /\ Ordered /\ Complete
  BY DEF SInv, ServersOK
<1>8. phase' \in {"add", "failed"} /\ resp' = NoAnswer
  BY <1>2 DEF Joins, Opens, GivesUp, SInv, TInv, PhaseOK
<1>9. Reached' /\ ServerExact'
  BY <1>8 DEF Reached, ServerExact, NoAnswer
<1>10. CASE GivesUp
  <2>1. phase' = "failed" /\ listeners' = listeners /\ vservers' = vservers
    BY <1>10 DEF GivesUp
  <2>2. Ordered'
    BY <1>2, <1>7, <2>1 DEF Ordered, Before
  <2>3. Distinct' /\ Described' /\ Complete'
    BY <1>6, <1>7, <2>1 DEF Distinct, Described, Describes, Complete
  <2> QED BY <1>9, <2>2, <2>3 DEF ServersOK
<1>11. ASSUME NEW e \in V, e.vs = vs, ~ServerFails(n), e.lfd \in DOMAIN listeners',
              listeners'[e.lfd] = addr, vservers' = Append(vservers, e), Distinct',
              \A i \in DOMAIN listeners : listeners'[i] = listeners[i]
       PROVE  ServersOK'
  <2> HIDE DEF n, addr, vs, V
  <2>1. /\ DOMAIN vservers' = DOMAIN vservers \union {Len(vservers) + 1}
        /\ vservers'[Len(vservers) + 1] = e
        /\ \A i \in DOMAIN vservers : vservers'[i] = vservers[i]
    BY <1>1, <1>11, Appended
  <2>2. e.vs.name = n /\ e.vs.hostnames = Fields("SERVERS", n)["names"]
    BY <1>5, <1>11
  <2>3. Ordered'
    BY <1>1, <1>2, <1>7, <1>11, <2>2, ServerOrdered DEF n
  <2>4. Describes(e)'
    BY <1>3, <1>6, <1>11, <2>2 DEF Describes, addr
  <2>5. Described'
    <3> SUFFICES ASSUME NEW i \in DOMAIN vservers' PROVE Describes(vservers[i])'
      BY DEF Described
    <3>1. CASE i = Len(vservers) + 1
      BY <2>1, <2>4, <3>1 DEF Describes
    <3>2. CASE i \in DOMAIN vservers
      <4>1. Describes(vservers[i]) /\ vservers[i].lfd \in DOMAIN listeners
        BY <1>1, <1>7, <3>2 DEF Described, HaveListeners
      <4>2. listeners'[vservers[i].lfd] = listeners[vservers[i].lfd]
        BY <1>11, <4>1
      <4>3. vservers'[i] = vservers[i]
        BY <2>1, <3>2
      <4> QED BY <1>6, <4>1, <4>2, <4>3 DEF Describes
    <3> QED BY <2>1, <3>1, <3>2
  <2>6. Complete'
    <3> SUFFICES ASSUME NEW m \in Names("SERVERS"), m \notin todo'
                 PROVE  \E i \in DOMAIN vservers' : vservers'[i].vs.name = m
      BY <1>6 DEF Complete
    <3>1. CASE m = n
      BY <2>1, <2>2, <3>1
    <3>2. CASE m # n
      <4>1. m \notin todo
        BY <1>2, <3>2
      <4>2. PICK i \in DOMAIN vservers : vservers[i].vs.name = m
        BY <1>2, <1>7, <4>1 DEF Complete
      <4> QED BY <2>1, <4>2
    <3> QED BY <3>1, <3>2
  <2> QED BY <1>9, <1>11, <2>3, <2>5, <2>6 DEF ServersOK
<1>12. ASSUME NEW lfd, Joins(n, lfd)
       PROVE  ServersOK'
  <2> DEFINE e == [lfd |-> lfd, vs |-> vs]
  <2>1. lfd \in Nat
    BY <1>1, <1>12, LenProperties DEF Joins
  <2>2. /\ e \in V /\ e.vs = vs /\ e.lfd = lfd /\ ~ServerFails(n)
        /\ lfd \in DOMAIN listeners /\ listeners' = listeners
        /\ listeners[lfd] = addr /\ vservers' = Append(vservers, e)
    BY <1>5, <1>12, <2>1 DEF Joins
  <2>3. Distinct'
    BY <1>7, <2>2 DEF Distinct
  <2> HIDE DEF e
  <2> QED BY <1>11, <2>2, <2>3
<1>13. CASE Opens(n)
  <2> DEFINE e == [lfd |-> Len(listeners'), vs |-> vs]
  <2>1. /\ ~ServerFails(n) /\ \A i \in DOMAIN listeners : listeners[i] # addr
        /\ listeners' = Append(listeners, addr) /\ vservers' = Append(vservers, e)
    BY <1>13 DEF Opens
  <2>2. vs \in ServerType /\ addr \in Char
    BY <1>5, <2>1
  <2> HIDE DEF vs, addr
  <2>3. Len(listeners') = Len(listeners) + 1 /\ Len(listeners') \in Nat
    BY <1>1, <2>1, <2>2, AppendProperties, LenProperties
  <2>4. /\ DOMAIN listeners' = DOMAIN listeners \union {Len(listeners')}
        /\ listeners'[Len(listeners')] = addr
        /\ \A i \in DOMAIN listeners : listeners'[i] = listeners[i]
    BY <1>1, <2>1, <2>2, <2>3, Appended
  <2>5. e \in V /\ e.vs = vs /\ e.lfd = Len(listeners')
    BY <2>2, <2>3
  <2>6. Distinct'
    BY <1>7, <2>1, <2>4 DEF Distinct
  <2> HIDE DEF e
  <2> QED BY <1>9, <1>11, <2>1, <2>4, <2>5, <2>6
<1> QED BY <1>2, <1>9, <1>10, <1>12, <1>13

\* While requests are served, the servers stay as they are.
LEMMA ServersKept ==
    ASSUME SInv, UNCHANGED setupVars,
           phase' \in {"serve", "parse"} => phase \in {"add", "serve", "parse"},
           phase' # "add", Reached'
    PROVE  ServersOK'
<1>1. UNCHANGED <<ini, todo, listeners, vservers>>
  BY SetupFixed
<1>2. Distinct' /\ Described' /\ Ordered'
  BY <1>1, ServersFixed DEF SInv, ServersOK
<1>3. Names("SERVERS")' = Names("SERVERS")
  BY <1>1, SameFile
<1>4. Complete'
  BY <1>1, <1>3 DEF SInv, ServersOK, Complete
<1> QED BY <1>2, <1>4 DEF ServersOK

LEMMA RequestServed ==
    ASSUME SInv, NEW target, NEW how, Request(target, how), phase = "serve",
           Listening(target.addr) # {}
    PROVE  ServersOK' /\ ServerExact'
<1>1. phase' = "parse" /\ req' = target /\ UNCHANGED setupVars
  BY DEF Request
<1>2. Listening(target.addr)' = Listening(target.addr)
  BY <1>1, SetupFixed
<1>3. Reached'
  BY <1>1, <1>2 DEF Reached, Listening
<1> QED BY <1>1, <1>3, ServersKept, NotServing

LEMMA FollowServed == SInv /\ (FollowLink \/ FollowRedirect) => ServersOK' /\ ServerExact'
<1> SUFFICES ASSUME SInv, FollowLink \/ FollowRedirect PROVE ServersOK' /\ ServerExact'
  OBVIOUS
<1>1. phase = "serve" /\ resp.code # 0
  BY DEF FollowLink, FollowRedirect, Listing
<1>2. PICK t : \E how : Request([req EXCEPT !.target = t], how)
  BY DEF FollowLink, FollowRedirect
<1>3. PICK how : Request([req EXCEPT !.target = t], how)
  BY <1>2
<1>4. Listening(req.addr) # {} /\ [req EXCEPT !.target = t].addr = req.addr
  BY <1>1 DEF SInv, ServersOK, Reached, TInv, TypeOK, RequestType
<1> DEFINE r == [req EXCEPT !.target = t]
<1>5. Listening(r.addr) # {} /\ Request(r, how)
  BY <1>3, <1>4
<1> HIDE DEF r
<1> QED BY <1>1, <1>5, RequestServed

LEMMA AskServed == SInv /\ Ask => ServersOK' /\ ServerExact'
<1> SUFFICES ASSUME SInv, Ask PROVE ServersOK' /\ ServerExact'
  OBVIOUS
<1>1. PICK a \in Asks : phase = "serve" /\ Listening(a.addr) # {} /\ Request(a, Asked)
  BY DEF Ask
<1> QED BY <1>1, RequestServed

LEMMA OtherServed ==
    SInv /\ (ServeForever \/ Leave \/ ParseTarget) => ServersOK' /\ ServerExact'
<1> SUFFICES ASSUME SInv, ServeForever \/ Leave \/ ParseTarget PROVE ServersOK' /\ ServerExact'
  OBVIOUS
<1>1. CASE ServeForever
  <2>1. /\ phase = "add" /\ phase' = "serve" /\ UNCHANGED setupVars /\ resp' = resp
        /\ resp = NoAnswer
    BY <1>1 DEF ServeForever, SInv, TInv, PhaseOK
  <2>2. Reached' /\ resp'.do = "none"
    BY <2>1 DEF Reached, NoAnswer
  <2> QED BY <2>1, <2>2, ServersKept, NotServing
<1>2. CASE Leave
  <2>1. phase = "serve" /\ phase' = "serve" /\ UNCHANGED setupVars /\ resp' = NoAnswer
    BY <1>2 DEF Leave
  <2>2. Reached' /\ resp'.do = "none"
    BY <2>1 DEF Reached, NoAnswer
  <2> QED BY <2>1, <2>2, ServersKept, NotServing
<1>3. CASE ParseTarget
  <2>1. phase = "parse" /\ phase' = "parse" /\ UNCHANGED setupVars /\ UNCHANGED <<req, resp>>
    BY <1>3 DEF ParseTarget
  <2>2. Listening(req.addr)' = Listening(req.addr)
    BY <2>1, SetupFixed DEF Listening
  <2>3. Reached'
    BY <2>1, <2>2 DEF SInv, ServersOK, Reached
  <2> QED BY <2>1, <2>3, ServersKept, NotServing
<1> QED BY <1>1, <1>2, <1>3

LEMMA SameRight ==
    ASSUME UNCHANGED setupVars, req' = req, NEW v
    PROVE  /\ Right(v)' <=> Right(v)
           /\ Clear' <=> Clear
<1>1. ini' = ini /\ vservers' = vservers
  BY SetupFixed
<1> QED BY <1>1 DEF Right, First, Serves, Here, Clear, Fields

LEMMA AnswerServed == SInv /\ AnswerRequest => ServersOK' /\ ServerExact'
<1> SUFFICES ASSUME SInv, AnswerRequest PROVE ServersOK' /\ ServerExact'
  OBVIOUS
<1> DEFINE v == GetVirtualServer(Min(Listening(req.addr)), req.host)
           x == Resolve(vservers[v].vs, parser.uri.path)
<1>1. /\ phase = "parse" /\ ~parser.run /\ phase' \in {"serve", "undefined", "endless"}
      /\ UNCHANGED setupVars /\ UNCHANGED <<req, parser, via>>
      /\ \/ /\ parser.err \/ v = 0
            /\ resp' = [NoAnswer EXCEPT !.do = "error", !.code = 400] /\ phase' = "serve"
         \/ v # 0 /\ Heard(vservers[v].vs, req.host) = "endless" /\ phase' = "endless"
         \/ ~parser.err /\ v # 0 /\ resp' = [x EXCEPT !.server = v] /\ phase' # "endless"
  BY DEF AnswerRequest
<1>2. Clear => Right(v)
  BY <1>1, ChosenRight DEF SInv
<1>3. /\ SetupType /\ req.target \in Seq(Char) /\ ParserOK(req.target, parser)
  BY <1>1 DEF SInv, TInv, TypeOK, RequestType, RequestOK
<1>4. Clear => phase' # "endless"
  <2>1. /\ Candidates(Min(Listening(req.addr)), req.host) \subseteq Nat \ {0}
        /\ Candidates(Min(Listening(req.addr)), req.host) \subseteq DOMAIN vservers
    BY <1>3, ServerChosen DEF Candidates
  <2>2. v # 0 => v \in Candidates(Min(Listening(req.addr)), req.host)
    BY <2>1, FirstExists DEF GetVirtualServer
  <2>3. Clear /\ v # 0 => Heard(vservers[v].vs, req.host) # "endless"
    BY <1>1, <2>1, <2>2, CandidateServes DEF SInv
  <2> QED BY <1>1, <2>3
<1> HIDE DEF v
<1>5. phase' = "serve" /\ ~parser.err => resp'.server = v
  <2>1. CASE (parser.err \/ v = 0) /\ resp' = [NoAnswer EXCEPT !.do = "error", !.code = 400]
    BY <2>1 DEF NoAnswer
  <2>2. CASE ~parser.err /\ v # 0 /\ resp' = [x EXCEPT !.server = v]
    <3>1. vservers[v].vs \in ServerType
      BY <1>3, <2>2, ServerChosen DEF v
    <3>2. parser.uri.path \in Seq(Char)
      BY <1>1, <1>3, <2>2, PathTyped
    <3>3. IsAnswer(x)
      BY <3>1, <3>2, AnswerTyped
    <3> HIDE DEF x
    <3> QED BY <2>2, <3>3 DEF IsAnswer
  <2> QED BY <1>1, <2>1, <2>2
<1>6. Listening(req.addr)' = Listening(req.addr)
  BY <1>1, SetupFixed DEF Listening
<1>7. Reached'
  BY <1>1, <1>6 DEF SInv, ServersOK, Reached
<1>8. PICK w : w = v
  OBVIOUS
<1>9. ServerExact'
  <2>1. /\ Clear' <=> Clear
        /\ Clear => Right(w)'
    BY <1>1, <1>2, <1>8, SameRight
  <2>2. (phase = "serve" /\ Clear /\ ~parser.err => Right(resp.server))'
    BY <1>1, <1>5, <1>8, <2>1 DEF Right
  <2>3. (Clear => phase # "endless")'
    BY <1>4, <2>1
  <2> QED BY <2>2, <2>3 DEF ServerExact, Right, First, Serves, Here, Clear
<1> QED BY <1>1, <1>7, <1>9, ServersKept

LEMMA StoppedServed ==
    ASSUME SInv, UNCHANGED vars
    PROVE  ServersOK' /\ ServerExact'
<1>1. UNCHANGED setupVars /\ UNCHANGED <<phase, req, parser, resp>>
  BY DEF vars
<1>2. UNCHANGED <<ini, todo, listeners, vservers>>
  BY <1>1, SetupFixed
<1>3. Distinct' /\ Described' /\ Ordered'
  BY <1>2, ServersFixed DEF SInv, ServersOK
<1>4. Complete' /\ Reached'
  BY <1>1, <1>2 DEF SInv, ServersOK, Complete, Reached, Names, Listening
<1>5. ServerExact'
  BY <1>1, <1>2 DEF SInv, ServerExact, Fields
<1> QED BY <1>3, <1>4, <1>5 DEF ServersOK

LEMMA ServersStep == SInv /\ [Next]_vars => SInv'
<1> SUFFICES ASSUME SInv, [Next]_vars PROVE SInv'
  OBVIOUS
<1>1. TInv'
  BY StateKept DEF SInv
<1>2. ServersOK' /\ ServerExact'
  BY LoadServers, ConfigureServers, AddServers, OtherServed, AskServed, FollowServed,
     AnswerServed, StoppedServed DEF Next, Stopped
<1> QED BY <1>1, <1>2 DEF SInv

\* A request is served by the first server, in the order of the names, that the
\* file gives its address and a host name that covers its own, and the search for
\* it ends (__GetVirtualServer, AddVirtualServer and common/match.cc), if the
\* request's host has no bracket and each name has at most one block, in which no
\* alternative begins with another.
THEOREM FirstServerServes == Spec => []ServerExact
<1>1. SInv => ServerExact
  BY DEF SInv
<1> QED BY <1>1, FirstServers, ServersStep, PTL DEF Spec

-----------------------------------------------------------------------------
(* Links and redirects: what the paths they are made of come to.           *)

\* The names of files and of index pages can stand in a link as they are.
PlainNames == \A s \in DOMAIN Sites : HasPlainNames(Sites[s])

\* A path as URI::Parse lets it through and decodes it.
Clean(path) == path \in Seq(Plain) /\ path # <<>> /\ ValidPath(path)

Rooted(path)     == path # <<>> /\ path[1] = "/"
AllSlashes(w)    == \A i \in 1..Len(w) : w[i] = "/"
SingleSlashes(s) == \A i \in 1..(Len(s) - 1) : ~(s[i] = "/" /\ s[i + 1] = "/")

\* What is in front of the slashes at the end.
IsStripped(path, s) == /\ s \in 0..Len(path) /\ (s = 0 \/ path[s] # "/")
                       /\ \A i \in (s + 1)..Len(path) : path[i] = "/"

LEMMA StripIs ==
    ASSUME NEW C, NEW path \in Seq(C), NEW s, IsStripped(path, s)
    PROVE  StripSlashes(path) = SubSeq(path, 1, s)
<1> DEFINE S == {0} \union {i \in DOMAIN path : path[i] # "/"}
<1>1. DOMAIN path = 1..Len(path) /\ Len(path) \in Nat
  BY LenProperties
<1>2. S \subseteq Nat /\ s \in S /\ \A m \in S : m <= s
  BY <1>1 DEF IsStripped
<1> HIDE DEF S
<1>3. Max(S) = s
  BY <1>2, MaxIs
<1> QED BY <1>3 DEF StripSlashes, S

LEMMA StripExists ==
    ASSUME NEW C, NEW path \in Seq(C)
    PROVE  \E s : IsStripped(path, s)
<1> DEFINE S == {0} \union {i \in DOMAIN path : path[i] # "/"}
           m == Max(S)
<1>1. DOMAIN path = 1..Len(path) /\ Len(path) \in Nat
  BY LenProperties
<1>2. S \subseteq Nat /\ S # {} /\ \A i \in S : i <= Len(path)
  BY <1>1
<1>3. \A i \in 1..Len(path) : path[i] # "/" => i \in S
  BY <1>1
<1>4. \A i \in S : i \in 0..Len(path) /\ (i = 0 \/ path[i] # "/")
  BY <1>1
<1> HIDE DEF S
<1>5. m \in S /\ \A i \in S : i <= m
  BY <1>1, <1>2, MaxExists
<1> HIDE DEF m
<1>6. m \in 0..Len(path) /\ (m = 0 \/ path[m] # "/")
  BY <1>4, <1>5
<1>7. ASSUME NEW i \in (m + 1)..Len(path)
      PROVE  path[i] = "/"
  <2>1. i \in 1..Len(path) /\ ~(i <= m)
    BY <1>1, <1>6
  <2> QED BY <1>3, <1>5, <2>1
<1> QED BY <1>6, <1>7 DEF IsStripped

\* A concatenation, and what is behind its first symbols.
LEMMA Joined ==
    ASSUME NEW C, NEW u \in Seq(C), NEW w \in Seq(C), NEW a \in Nat, NEW b \in Nat,
           a = Len(u), b = Len(w)
    PROVE  /\ u \o w \in Seq(C) /\ Len(u \o w) = a + b
           /\ \A i \in 1..a : (u \o w)[i] = u[i]
           /\ \A i \in 1..b : (u \o w)[a + i] = w[i]
<1>1. /\ u \o w \in Seq(C) /\ Len(u \o w) = Len(u) + Len(w)
      /\ \A i \in 1 .. Len(u) + Len(w) : (u \o w)[i] = IF i <= Len(u) THEN u[i] ELSE w[i - Len(u)]
  BY ConcatProperties
<1>2. ASSUME NEW i \in 1..a PROVE (u \o w)[i] = u[i]
  BY <1>1
<1>3. ASSUME NEW i \in 1..b PROVE (u \o w)[a + i] = w[i]
  <2>1. a + i \in 1..(Len(u) + Len(w)) /\ ~(a + i <= Len(u)) /\ a + i - Len(u) = i
    OBVIOUS
  <2> QED BY <1>1, <2>1
<1> QED BY <1>1, <1>2, <1>3

LEMMA Behind ==
    ASSUME NEW C, NEW u \in Seq(C), NEW w \in Seq(C), NEW k \in Nat, k <= Len(u)
    PROVE  SubSeq(u \o w, k + 1, Len(u \o w)) = SubSeq(u, k + 1, Len(u)) \o w
<1> DEFINE a == Len(u)
           b == Len(w)
           t == u \o w
           e == a + b
           r == SubSeq(t, k + 1, e)
           f == SubSeq(u, k + 1, a)
           d == a - k
<1>1. a \in Nat /\ b \in Nat
  BY LenProperties
<1>2. t \in Seq(C) /\ Len(t) = e /\ e \in Nat /\ k <= e /\ d \in Nat /\ e - k = d + b /\ k <= a /\ d = a - k
  BY <1>1, Joined
<1>3. /\ \A i \in 1..a : t[i] = u[i]
      /\ \A i \in 1..b : t[a + i] = w[i]
  BY <1>1, Joined
<1> SUFFICES r = f \o w
  BY <1>2
<1> HIDE DEF t, e, a, b, d
<1>4. r \in Seq(C) /\ Len(r) = e - k /\ \A l \in 1..(e - k) : r[l] = t[k + l]
  BY <1>2, SubSeqIs
<1>5. f \in Seq(C) /\ Len(f) = d /\ \A l \in 1..(a - k) : f[l] = u[k + l]
  <2>1. a <= Len(u)
    BY <1>1 DEF a
  <2> QED BY <1>1, <1>2, <2>1, SubSeqIs
<1> HIDE DEF r, f
<1>6. d = Len(f) /\ b = Len(w) /\ f \in Seq(C) /\ d \in Nat /\ b \in Nat
  BY <1>1, <1>2, <1>5 DEF b
<1>7. /\ f \o w \in Seq(C) /\ Len(f \o w) = d + b
      /\ \A i \in 1..d : (f \o w)[i] = f[i]
      /\ \A i \in 1..b : (f \o w)[d + i] = w[i]
  BY <1>6, Joined
<1>8. ASSUME NEW i \in 1..Len(r)
      PROVE  r[i] = (f \o w)[i]
  <2>0. i \in Nat /\ i \in 1..(e - k) /\ r[i] = t[k + i]
    BY <1>1, <1>2, <1>4
  <2>1. CASE i <= d
    <3>1. i \in 1..d /\ k + i \in 1..a /\ i \in 1..(a - k)
      BY <1>1, <1>2, <2>0, <2>1
    <3> QED BY <1>3, <1>5, <1>7, <2>0, <3>1
  <2>2. CASE ~(i <= d)
    <3> DEFINE j == i - d
    <3>1. j \in 1..b /\ k + i = a + j /\ i = d + j
      BY <1>1, <1>2, <2>0, <2>2
    <3> HIDE DEF j
    <3>2. r[i] = w[j]
      BY <1>3, <2>0, <3>1
    <3>3. (f \o w)[i] = w[j]
      BY <1>7, <3>1
    <3> QED BY <3>2, <3>3
  <2> QED BY <2>1, <2>2
<1>9. Len(r) = Len(f \o w)
  BY <1>2, <1>4, <1>7
<1> QED BY <1>4, <1>7, <1>8, <1>9, SeqEqual

\* Its first symbols.
LEMMA InFront ==
    ASSUME NEW C, NEW u \in Seq(C), NEW w \in Seq(C), NEW n \in Nat, n <= Len(u)
    PROVE  SubSeq(u \o w, 1, n) = SubSeq(u, 1, n)
<1> DEFINE a == Len(u)
           b == Len(w)
           t == u \o w
           e == a + b
           r == SubSeq(t, 1, n)
           f == SubSeq(u, 1, n)
<1>1. a \in Nat /\ b \in Nat /\ n <= a
  BY LenProperties
<1>2. t \in Seq(C) /\ Len(t) = e /\ e \in Nat /\ n <= e /\ 0 <= n /\ n - 0 = n
  BY <1>1, Joined
<1>3. \A i \in 1..a : t[i] = u[i]
  BY <1>1, Joined
<1> SUFFICES r = f
  OBVIOUS
<1>4. /\ SubSeq(t, 0 + 1, n) \in Seq(C) /\ Len(SubSeq(t, 0 + 1, n)) = n - 0
      /\ \A l \in 1..(n - 0) : SubSeq(t, 0 + 1, n)[l] = t[0 + l]
  <2> HIDE DEF t, e
  <2> QED BY <1>2, SubSeqIs
<1>5. /\ SubSeq(u, 0 + 1, n) \in Seq(C) /\ Len(SubSeq(u, 0 + 1, n)) = n - 0
      /\ \A l \in 1..(n - 0) : SubSeq(u, 0 + 1, n)[l] = u[0 + l]
  BY <1>1, <1>2, SubSeqIs
<1> HIDE DEF t, e, a, b
<1>6. /\ r \in Seq(C) /\ Len(r) = n /\ \A l \in 1..n : r[l] = t[l]
      /\ f \in Seq(C) /\ Len(f) = n /\ \A l \in 1..n : f[l] = u[l]
  BY <1>4, <1>5
<1> HIDE DEF r, f
<1>7. \A l \in 1..Len(r) : r[l] = f[l]
  BY <1>1, <1>3, <1>6
<1> QED BY <1>6, <1>7, SeqEqual

\* The pattern of a route that matches is the beginning of the path.
LEMMA DiffIs ==
    ASSUME NEW C, NEW pattern \in Seq(C), NEW path \in Seq(C), MatchPath(pattern, path)
    PROVE  /\ PathDiffer(pattern, path) = Len(pattern) /\ Len(pattern) <= Len(path)
           /\ SubSeq(pattern, 1, Len(pattern)) = SubSeq(path, 1, Len(pattern))
<1> DEFINE S == {n \in 0..Len(pattern) : n <= Len(path) /\ SubSeq(pattern, 1, n) = SubSeq(path, 1, n)}
           m == Max(S)
<1>1. Len(pattern) \in Nat /\ Len(path) \in Nat
  BY LenProperties
<1>2. SubSeq(pattern, 1, 0) = SubSeq(path, 1, 0)
  BY SubSeqEmpty
<1>3. 0 \in S /\ S \subseteq Nat /\ \A n \in S : n <= Len(pattern)
  BY <1>1, <1>2
<1>4. \A n \in S : n <= Len(path) /\ SubSeq(pattern, 1, n) = SubSeq(path, 1, n)
  OBVIOUS
<1> HIDE DEF S
<1>5. m \in S
  BY <1>1, <1>3, MaxExists
<1>6. PathDiffer(pattern, path) = m /\ Len(pattern) = m
  BY DEF MatchPath, PathDiffer, S
<1> HIDE DEF m
<1> QED BY <1>4, <1>5, <1>6

LEMMA StillDiffers ==
    ASSUME NEW C, NEW pattern \in Seq(C), NEW path \in Seq(C), Len(pattern) <= Len(path),
           SubSeq(pattern, 1, Len(pattern)) = SubSeq(path, 1, Len(pattern))
    PROVE  PathDiffer(pattern, path) = Len(pattern)
<1> DEFINE S == {n \in 0..Len(pattern) : n <= Len(path) /\ SubSeq(pattern, 1, n) = SubSeq(path, 1, n)}
           d == Len(pattern)
<1>1. Len(pattern) \in Nat /\ Len(path) \in Nat
  BY LenProperties
<1>2. d \in S /\ S \subseteq Nat /\ \A n \in S : n <= d
  BY <1>1
<1> HIDE DEF S, d
<1>3. Max(S) = d
  BY <1>2, MaxIs
<1> QED BY <1>3 DEF PathDiffer, S, d

\* The relative path is what is behind the slash at k.
IsCut(path, d, k) == /\ k \in 1..Len(path) /\ k <= d + 1 /\ path[k] = "/"
                     /\ \A i \in (k + 1)..Len(path) : i <= d + 1 => path[i] # "/"

LEMMA CutExists ==
    ASSUME NEW C, NEW path \in Seq(C), Rooted(path), NEW d \in Nat
    PROVE  \E k : IsCut(path, d, k)
<1> DEFINE S == {i \in 1..Len(path) : i <= d + 1 /\ path[i] = "/"}
           m == Max(S)
<1>1. Len(path) \in Nat \ {0} /\ path[1] = "/"
  BY EmptySeq, LenProperties DEF Rooted
<1>2. 1 \in S /\ S \subseteq Nat /\ \A i \in S : i <= Len(path)
  BY <1>1
<1>3. /\ \A i \in S : i \in 1..Len(path) /\ i <= d + 1 /\ path[i] = "/"
      /\ \A i \in 1..Len(path) : i <= d + 1 /\ path[i] = "/" => i \in S
  OBVIOUS
<1> HIDE DEF S
<1>4. m \in S /\ \A i \in S : i <= m
  BY <1>1, <1>2, MaxExists
<1> HIDE DEF m
<1>5. ASSUME NEW i \in (m + 1)..Len(path), i <= d + 1
      PROVE  path[i] # "/"
  <2>1. i \in 1..Len(path) /\ ~(i <= m)
    BY <1>2, <1>3, <1>4
  <2> QED BY <1>3, <1>4, <1>5, <2>1
<1> QED BY <1>3, <1>4, <1>5 DEF IsCut

LEMMA RelativeIs ==
    ASSUME NEW C, NEW path \in Seq(C), NEW pattern, NEW d \in Nat, d = PathDiffer(pattern, path),
           NEW k, IsCut(path, d, k)
    PROVE  GetRelativePathFromPattern(pattern, path)
               = IF Len(path) = d THEN <<>> ELSE SubSeq(path, k + 1, Len(path))
<1> DEFINE S == {i \in 1..Len(path) : i <= d + 1 /\ path[i] = "/"}
<1>1. Len(path) \in Nat
  BY LenProperties
<1>2. k \in S /\ S \subseteq Nat /\ S # {}
  BY <1>1 DEF IsCut
<1>3. ASSUME NEW i \in S
      PROVE  i <= k
  <2>1. CASE i \in (k + 1)..Len(path)
    BY <1>3, <2>1 DEF IsCut
  <2>2. CASE i \notin (k + 1)..Len(path)
    BY <1>1, <1>2, <1>3, <2>2
  <2> QED BY <2>1, <2>2
<1>4. GetRelativePathFromPattern(pattern, path)
        = IF Len(path) = d \/ S = {} THEN <<>> ELSE SubSeq(path, Max(S) + 1, Len(path))
  BY DEF GetRelativePathFromPattern
<1> HIDE DEF S
<1>5. Max(S) = k
  BY <1>2, <1>3, MaxIs
<1> QED BY <1>2, <1>4, <1>5

FileAt(route, path) == AppendPath(route.root, GetRelativePathFromPattern(route.pattern, path))

\* A link: the path of a directory's listing, longer by a name.
LEMMA RelativeLonger ==
    ASSUME NEW C, NEW pattern \in Seq(C), NEW path \in Seq(C), NEW n \in Seq(C),
           MatchPath(pattern, path), Rooted(path), EndsWithSlash(path),
           n # <<>>, n[1] # "/"
    PROVE  GetRelativePathFromPattern(pattern, path \o n)
               = GetRelativePathFromPattern(pattern, path) \o n
<1> DEFINE d == Len(pattern)
           p == Len(path)
           b == Len(n)
           t == path \o n
<1>1. d \in Nat /\ p \in Nat \ {0} /\ b \in Nat \ {0}
  BY LenProperties, EmptySeq DEF Rooted
<1>2. /\ t \in Seq(C) /\ Len(t) = p + b
      /\ \A i \in 1..p : t[i] = path[i]
      /\ \A i \in 1..b : t[p + i] = n[i]
  <2>1. p \in Nat /\ b \in Nat /\ p = Len(path) /\ b = Len(n)
    BY <1>1
  <2> HIDE DEF p, b
  <2> QED BY <2>1, Joined
<1>3. PathDiffer(pattern, path) = d /\ d <= p /\ SubSeq(pattern, 1, d) = SubSeq(path, 1, d)
  BY DiffIs
<1>4. PathDiffer(pattern, t) = d
  <2>1. SubSeq(t, 1, d) = SubSeq(path, 1, d)
    BY <1>1, <1>3, InFront
  <2>2. d <= Len(t)
    BY <1>1, <1>2, <1>3
  <2> HIDE DEF t
  <2> QED BY <1>2, <1>3, <2>1, <2>2, StillDiffers
<1>5. path[p] = "/"
  BY DEF EndsWithSlash
<1>6. PICK k : IsCut(path, d, k)
  BY <1>1, CutExists
<1>7. GetRelativePathFromPattern(pattern, path) = IF p = d THEN <<>> ELSE SubSeq(path, k + 1, p)
  BY <1>1, <1>3, <1>6, RelativeIs
<1>8. k \in Nat /\ 1 <= k /\ k <= p
  BY <1>1, <1>6 DEF IsCut
<1>9. IsCut(t, d, k) /\ (p = d => k = p)
  <2> HIDE DEF t, d, p, b
  <2>0. /\ k \in 1..p /\ k <= d + 1 /\ path[k] = "/"
        /\ \A i \in (k + 1)..p : i <= d + 1 => path[i] # "/"
    BY <1>6 DEF IsCut, p
  <2>1. p = d => k = p
    BY <1>1, <1>5, <1>8, <2>0
  <2>2. ASSUME NEW i \in (k + 1)..(p + b), i <= d + 1
        PROVE  t[i] # "/"
    <3>1. CASE i <= p
      BY <1>1, <1>2, <1>8, <2>0, <2>2, <3>1
    <3>2. CASE ~(i <= p)
      <4>1. i = p + 1 /\ 1 \in 1..b
        BY <1>1, <1>3, <1>8, <2>2, <3>2
      <4> QED BY <1>2, <4>1
    <3> QED BY <3>1, <3>2
  <2>3. k \in 1..(p + b) /\ t[k] = "/"
    BY <1>1, <1>2, <2>0
  <2> QED BY <1>2, <2>0, <2>1, <2>2, <2>3 DEF IsCut
<1>10. GetRelativePathFromPattern(pattern, t) = SubSeq(t, k + 1, Len(t))
  <2>1. Len(t) # d
    BY <1>1, <1>2, <1>3
  <2> HIDE DEF t
  <2> QED BY <1>1, <1>2, <1>4, <1>9, <2>1, RelativeIs
<1>11. SubSeq(t, k + 1, Len(t)) = SubSeq(path, k + 1, p) \o n
  BY <1>8, Behind
<1>12. p = d => SubSeq(path, k + 1, p) = <<>>
  BY <1>1, <1>8, <1>9, SubSeqEmpty
<1> QED BY <1>7, <1>10, <1>11, <1>12

LEMMA EntryOf ==
    ASSUME NEW C, NEW dir \in Seq(C), NEW S, S \subseteq Seq(C), NEW D, S \subseteq Seq(D),
           NEW e \in Entries(dir, S)
    PROVE  /\ e \in Seq(C) /\ e \in Seq(D) /\ dir \o e \in S /\ Len(e) \in Nat \ {0}
           /\ \A i \in 1..Len(e) : e[i] # "/"
<1> DEFINE a == Len(dir)
<1>1. PICK p \in S : /\ IsPrefixOf(dir, p) /\ Len(p) > a /\ e = SubSeq(p, a + 1, Len(p))
                     /\ \A i \in (a + 1)..Len(p) : p[i] # "/"
  BY DEF Entries
<1>2. p \in Seq(C) /\ p \in Seq(D) /\ a \in Nat /\ Len(p) \in Nat /\ a = Len(dir)
  BY LenProperties
<1>3. SubSeq(p, 1, a) = dir
  BY <1>1 DEF IsPrefixOf
<1> HIDE DEF a
<1>4. a <= Len(p) /\ a < Len(p)
  BY <1>1, <1>2
<1>5. /\ e \in Seq(C) /\ e \in Seq(D) /\ Len(e) = Len(p) - a
      /\ \A l \in 1..(Len(p) - a) : e[l] = p[a + l]
  BY <1>1, <1>2, <1>4, SubSeqIs
<1>6. Len(e) \in Nat \ {0}
  BY <1>2, <1>4, <1>5
<1>7. ASSUME NEW i \in 1..Len(e) PROVE e[i] # "/"
  <2>1. i \in 1..(Len(p) - a) /\ a + i \in (a + 1)..Len(p)
    BY <1>2, <1>5
  <2> QED BY <1>1, <1>5, <2>1
<1>8. dir \o e = p
  <2> DEFINE t == dir \o e
             b == Len(e)
  <2>1. b \in Nat /\ b = Len(e) /\ Len(p) = a + b /\ a \in Nat /\ a = Len(dir) /\ e \in Seq(C)
    BY <1>2, <1>5
  <2> HIDE DEF b
  <2>2. /\ t \in Seq(C) /\ Len(t) = a + b
        /\ \A i \in 1..a : t[i] = dir[i]
        /\ \A i \in 1..b : t[a + i] = e[i]
    BY <2>1, Joined
  <2> HIDE DEF t
  <2>3. \A i \in 1..a : dir[i] = p[i]
    <3>1. 0 <= a /\ a - 0 = a
      BY <1>2
    <3>2. \A l \in 1..(a - 0) : SubSeq(p, 0 + 1, a)[l] = p[0 + l]
      BY <1>2, <1>4, <3>1, SubSeqIs
    <3> QED BY <1>2, <1>3, <3>1, <3>2
  <2>4. ASSUME NEW i \in 1..Len(t)
        PROVE  t[i] = p[i]
    <3>1. CASE i <= a
      BY <1>2, <2>1, <2>2, <2>3, <3>1
    <3>2. CASE ~(i <= a)
      <4> DEFINE j == i - a
      <4>1. j \in 1..b /\ i = a + j /\ b = Len(p) - a
        BY <1>2, <2>1, <2>2, <3>2
      <4> HIDE DEF j
      <4> QED BY <1>5, <2>2, <4>1
    <3> QED BY <3>1, <3>2
  <2>5. t = p
    BY <1>2, <2>1, <2>2, <2>4, SeqEqual
  <2> QED BY <2>5 DEF t
<1> QED BY <1>5, <1>6, <1>7, <1>8

\* A name without a slash, with one behind it.
LEMMA Slashed ==
    ASSUME NEW C, NEW p \in Seq(C), "/" \in C, p # <<>>, p[Len(p)] # "/"
    PROVE  /\ p \o <<"/">> \in Seq(C) /\ EndsWithSlash(p \o <<"/">>)
           /\ StripSlashes(p \o <<"/">>) = p
           /\ ~EndsWithSlash(p)
<1> DEFINE a == Len(p)
           t == p \o <<"/">>
<1>1. a \in Nat \ {0} /\ a = Len(p) /\ <<"/">> \in Seq(C) /\ Len(<<"/">>) = 1 /\ p[a] # "/"
  BY EmptySeq, LenProperties
<1>2. /\ t \in Seq(C) /\ Len(t) = a + 1
      /\ \A i \in 1..a : t[i] = p[i]
      /\ t[a + 1] = "/"
  <2> DEFINE w == <<"/">>
             b == 1
  <2>1. w \in Seq(C) /\ b = Len(w) /\ w[1] = "/" /\ a \in Nat /\ a = Len(p) /\ b \in Nat
    BY <1>1
  <2> HIDE DEF w, a, b
  <2>2. /\ p \o w \in Seq(C) /\ Len(p \o w) = a + b
        /\ \A i \in 1..a : (p \o w)[i] = p[i]
        /\ \A i \in 1..b : (p \o w)[a + i] = w[i]
    BY <2>1, Joined
  <2>3. b = 1 /\ 1 \in 1..b
    BY DEF b
  <2> QED BY <2>1, <2>2, <2>3 DEF w
<1> SUFFICES t \in Seq(C) /\ EndsWithSlash(t) /\ StripSlashes(t) = p /\ ~EndsWithSlash(p)
  OBVIOUS
<1>3. SubSeq(t, 1, a) = p
  <2>1. SubSeq(p \o <<"/">>, 1, a) = SubSeq(p, 1, a)
    BY <1>1, InFront
  <2> QED BY <2>1, Whole
<1> HIDE DEF t, a
<1>4. IsStripped(t, a)
  BY <1>1, <1>2 DEF IsStripped
<1>5. t # <<>>
  BY <1>1, <1>2, EmptySeq
<1>6. t[Len(t)] = "/"
  BY <1>2
<1>7. StripSlashes(t) = p
  BY <1>2, <1>3, <1>4, StripIs
<1> QED BY <1>1, <1>2, <1>5, <1>6, <1>7 DEF EndsWithSlash

\* A link of a listing names something that is there.
LEMMA LinkLeads ==
    ASSUME SetupType, PlainNames, NEW dir \in Seq(Char), NEW n \in Links(dir)
    PROVE  /\ n \in Seq(Char) /\ n \in Seq(Plain) /\ n # <<>> /\ n[1] # "/"
           /\ Exists(dir \o n) /\ dir \o n # <<>>
<1>1. /\ Tree.files \subseteq Seq(Char) /\ Tree.dirs \subseteq Seq(Char)
      /\ Tree.files \subseteq Seq(Plain) /\ Tree.dirs \subseteq Seq(Plain)
  <2> DEFINE N == Plain \ {":"}
  <2>1. /\ Tree.files \subseteq Seq(Char) /\ Tree.dirs \subseteq Seq(Char)
        /\ Tree.files \union Tree.dirs \subseteq Seq(N)
    BY SitesAssumption DEF SetupType, IsSite, Tree, PlainNames, HasPlainNames
  <2>2. N \subseteq Plain
    OBVIOUS
  <2> HIDE DEF N
  <2>3. \A e \in Seq(N) : e \in Seq(Plain)
    <3> TAKE e \in Seq(N)
    <3>1. /\ e = [i \in 1..Len(e) |-> e[i]] /\ Len(e) \in Nat
          /\ \A i \in 1..Len(e) : e[i] \in Plain
      BY <2>2, LenProperties
    <3>2. [i \in 1..Len(e) |-> e[i]] \in Seq(Plain)
      BY <3>1, IsASeq
    <3> QED BY <3>1, <3>2
  <2> QED BY <2>1, <2>3
<1>2. "/" \in Char /\ "/" \in Plain
  BY CharAssumption DEF Plain
<1> DEFINE Ends(e) == /\ e \in Seq(Char) /\ dir \o e \in Seq(Char) /\ dir \o e # <<>>
                      /\ (dir \o e)[Len(dir \o e)] # "/"
<1>3. ASSUME NEW e \in Seq(Char), Len(e) \in Nat \ {0}, \A i \in 1..Len(e) : e[i] # "/"
      PROVE  Ends(e) /\ e[1] # "/" /\ e # <<>> /\ e[Len(e)] # "/"
  <2> DEFINE a == Len(dir)
             b == Len(e)
             t == dir \o e
  <2>1. a \in Nat /\ b \in Nat \ {0} /\ b \in Nat /\ a = Len(dir) /\ b = Len(e) /\ b \in 1..b
    BY <1>3, LenProperties
  <2> HIDE DEF a, b
  <2>2. /\ t \in Seq(Char) /\ Len(t) = a + b
        /\ \A i \in 1..b : t[a + i] = e[i]
    BY <2>1, Joined
  <2> HIDE DEF t
  <2>3. t[a + b] # "/" /\ t # <<>>
    BY <1>3, <2>1, <2>2, EmptySeq
  <2>4. t \in Seq(Char) /\ t # <<>> /\ t[Len(t)] # "/"
    BY <2>2, <2>3
  <2>5. e[1] # "/" /\ e # <<>> /\ e[Len(e)] # "/"
    <3>1. 1 \in 1..b
      BY <2>1
    <3> QED BY <1>3, <2>1, <3>1, EmptySeq
  <2> QED BY <2>4, <2>5 DEF t
<1>4. CASE n \in Entries(dir, Tree.files)
  <2>1. /\ n \in Seq(Char) /\ n \in Seq(Plain) /\ dir \o n \in Tree.files /\ Len(n) \in Nat \ {0}
        /\ \A i \in 1..Len(n) : n[i] # "/"
    BY <1>1, <1>4, EntryOf
  <2>2. Ends(n) /\ n[1] # "/" /\ n # <<>>
    BY <1>3, <2>1
  <2>3. ~EndsWithSlash(dir \o n)
    BY <2>2 DEF EndsWithSlash
  <2> QED BY <2>1, <2>2, <2>3 DEF Exists
<1>5. ASSUME NEW e \in Entries(dir, Tree.dirs), n = e \o <<"/">>
      PROVE  /\ n \in Seq(Char) /\ n \in Seq(Plain) /\ n # <<>> /\ n[1] # "/"
             /\ Exists(dir \o n) /\ dir \o n # <<>>
  <2> DEFINE t == dir \o e
  <2>1. /\ e \in Seq(Char) /\ e \in Seq(Plain) /\ t \in Tree.dirs /\ Len(e) \in Nat \ {0}
        /\ \A i \in 1..Len(e) : e[i] # "/"
    BY <1>1, <1>5, EntryOf
  <2>2. Ends(e) /\ e[1] # "/" /\ e # <<>> /\ e[Len(e)] # "/"
    BY <1>3, <2>1
  <2>3. n \in Seq(Char) /\ n \in Seq(Plain) /\ n # <<>>
    BY <1>2, <1>5, <2>1, <2>2, Slashed DEF EndsWithSlash
  <2>4. n[1] = e[1]
    <3>1. <<"/">> \in Seq(Char) /\ 1 = Len(<<"/">>) /\ 1 \in Nat /\ 1 \in 1..Len(e) /\ Len(e) \in Nat
      BY <1>2, <2>1
    <3> DEFINE w == <<"/">>
               a == Len(e)
    <3>2. w \in Seq(Char) /\ 1 = Len(w) /\ a \in Nat /\ a = Len(e) /\ 1 \in 1..a /\ 1 \in Nat
      BY <3>1
    <3> HIDE DEF w, a
    <3>3. \A i \in 1..a : (e \o w)[i] = e[i]
      BY <2>1, <3>2, Joined
    <3> QED BY <1>5, <3>2, <3>3 DEF w
  <2>5. t \in Seq(Char) /\ t # <<>> /\ t[Len(t)] # "/"
    BY <2>2
  <2>6. dir \o n = t \o <<"/">>
    <3>1. <<"/">> \in Seq(Char)
      BY <1>2
    <3> QED BY <1>5, <2>1, <3>1, ConcatAssociative
  <2> HIDE DEF t
  <2>7. EndsWithSlash(dir \o n) /\ StripSlashes(dir \o n) = t
    BY <1>2, <2>5, <2>6, Slashed
  <2>8. Exists(dir \o n) /\ dir \o n # <<>>
    BY <2>1, <2>7 DEF Exists, EndsWithSlash
  <2> QED BY <2>2, <2>3, <2>4, <2>8
<1> QED BY <1>4, <1>5 DEF Links

LEMMA StripJoined ==
    ASSUME NEW C, NEW u \in Seq(C), NEW w \in Seq(C), ~EndsWithSlash(u), AllSlashes(w)
    PROVE  StripSlashes(u \o w) = u
<1> DEFINE a == Len(u)
           b == Len(w)
           t == u \o w
<1>1. a \in Nat /\ b \in Nat /\ a = Len(u) /\ b = Len(w) /\ (a = 0 \/ u[a] # "/")
      /\ \A i \in 1..b : w[i] = "/"
  BY LenProperties, EmptySeq DEF EndsWithSlash, AllSlashes
<1>2. SubSeq(t, 1, a) = u
  <2>1. SubSeq(t, 1, a) = SubSeq(u, 1, a)
    BY <1>1, InFront
  <2> QED BY <2>1, Whole
<1> HIDE DEF a, b
<1>3. /\ t \in Seq(C) /\ Len(t) = a + b
      /\ \A i \in 1..a : t[i] = u[i]
      /\ \A i \in 1..b : t[a + i] = w[i]
  BY <1>1, Joined
<1> SUFFICES StripSlashes(t) = u
  OBVIOUS
<1> HIDE DEF t
<1>4. ASSUME NEW i \in (a + 1)..Len(t) PROVE t[i] = "/"
  <2> DEFINE j == i - a
  <2>1. j \in 1..b /\ i = a + j
    BY <1>1, <1>3
  <2> HIDE DEF j
  <2> QED BY <1>1, <1>3, <2>1
<1>5. a \in 0..Len(t) /\ (a = 0 \/ t[a] # "/")
  BY <1>1, <1>3
<1>6. IsStripped(t, a)
  BY <1>4, <1>5 DEF IsStripped
<1> QED BY <1>2, <1>3, <1>6, StripIs

LEMMA SameFront ==
    ASSUME NEW C, NEW t \in Seq(C), NEW u \in Seq(C), NEW n \in Nat, n <= Len(t), n <= Len(u),
           \A i \in 1..n : t[i] = u[i]
    PROVE  SubSeq(t, 1, n) = SubSeq(u, 1, n)
<1> DEFINE r == SubSeq(t, 1, n)
           f == SubSeq(u, 1, n)
<1>1. 0 <= n /\ n - 0 = n /\ \A i \in 1..n : 0 + i = i
  OBVIOUS
<1>2. /\ SubSeq(t, 0 + 1, n) \in Seq(C) /\ Len(SubSeq(t, 0 + 1, n)) = n - 0
      /\ \A l \in 1..(n - 0) : SubSeq(t, 0 + 1, n)[l] = t[0 + l]
  BY <1>1, SubSeqIs
<1>3. /\ SubSeq(u, 0 + 1, n) \in Seq(C) /\ Len(SubSeq(u, 0 + 1, n)) = n - 0
      /\ \A l \in 1..(n - 0) : SubSeq(u, 0 + 1, n)[l] = u[0 + l]
  BY <1>1, SubSeqIs
<1>4. /\ r \in Seq(C) /\ Len(r) = n /\ \A l \in 1..n : r[l] = t[l]
      /\ f \in Seq(C) /\ Len(f) = n /\ \A l \in 1..n : f[l] = u[l]
  BY <1>1, <1>2, <1>3
<1> HIDE DEF r, f
<1>5. \A l \in 1..Len(r) : r[l] = f[l]
  BY <1>4
<1>6. r = f
  BY <1>4, <1>5, SeqEqual
<1> QED BY <1>6 DEF r, f

\* What the redirect to the index, or to the name with a slash, is made of: f
\* is the path without the slash at its end, if there is one.
IsMoved(path, index, l, s, f, w) ==
    /\ s \in Nat /\ s <= Len(path) /\ Len(path) <= s + 1 /\ Len(l) = s + 1 + Len(index)
    /\ s = 0 \/ path[s] # "/"
    /\ f = SubSeq(path, 1, s) /\ Len(f) = s /\ l = (f \o <<"/">>) \o index
    /\ \A i \in 1..s : l[i] = path[i]
    /\ l[s + 1] = "/" /\ (Len(path) = s + 1 => path[s + 1] = "/")
    /\ w = SubSeq(path, s + 1, Len(path)) /\ AllSlashes(w)

LEMMA MovedIs ==
    ASSUME NEW C, "/" \in C, NEW path \in Seq(C), NEW index \in Seq(C), Rooted(path),
           SingleSlashes(path)
    PROVE  \E s : \E f \in Seq(C), w \in Seq(C) :
              /\ AppendPath(path, index) \in Seq(C)
              /\ IsMoved(path, index, AppendPath(path, index), s, f, w)
<1> DEFINE p == Len(path)
           b == Len(index)
<1>1. p \in Nat \ {0} /\ p \in Nat /\ b \in Nat /\ p = Len(path) /\ b = Len(index)
  BY LenProperties, EmptySeq DEF Rooted
<1>2. PICK s : IsStripped(path, s)
  BY StripExists
<1> DEFINE f == SubSeq(path, 1, s)
           w == SubSeq(path, s + 1, p)
           x == <<"/">>
           h == f \o x
           l == h \o index
<1>3. StripSlashes(path) = f
  BY <1>2, StripIs
<1>4. AppendPath(path, index) = l
  BY <1>3 DEF AppendPath
<1>5. /\ s \in Nat /\ s <= p /\ 0 <= s /\ s - 0 = s /\ (s = 0 \/ path[s] # "/")
      /\ \A i \in (s + 1)..p : path[i] = "/"
  BY <1>1, <1>2 DEF IsStripped
<1> HIDE DEF p, b
<1>6. p <= s + 1
  <2> SUFFICES ASSUME ~(p <= s + 1) PROVE FALSE
    OBVIOUS
  <2> DEFINE i == p - 1
  <2>1. i \in (s + 1)..p /\ p \in (s + 1)..p /\ i \in 1..(p - 1) /\ i + 1 = p
    BY <1>1, <1>5
  <2>2. path[i] = "/" /\ path[i + 1] = "/"
    BY <1>5, <2>1
  <2> QED BY <1>1, <2>1, <2>2 DEF SingleSlashes
<1>7. f \in Seq(C) /\ Len(f) = s /\ \A i \in 1..s : f[i] = path[i]
  <2>1. /\ SubSeq(path, 0 + 1, s) \in Seq(C) /\ Len(SubSeq(path, 0 + 1, s)) = s - 0
        /\ \A i \in 1..(s - 0) : SubSeq(path, 0 + 1, s)[i] = path[0 + i]
    BY <1>1, <1>5, SubSeqIs
  <2> QED BY <1>5, <2>1
<1>8. w \in Seq(C) /\ Len(w) = p - s /\ \A i \in 1..(p - s) : w[i] = path[s + i]
  BY <1>1, <1>5, SubSeqIs
<1>9. AllSlashes(w)
  <2> SUFFICES \A i \in 1..Len(w) : w[i] = "/"
    BY DEF AllSlashes
  <2> TAKE i \in 1..Len(w)
  <2>1. i \in 1..(p - s) /\ s + i \in (s + 1)..p
    BY <1>1, <1>5, <1>8
  <2> QED BY <1>5, <1>8, <2>1
<1> HIDE DEF f, w
<1>10. x \in Seq(C) /\ Len(x) = 1 /\ x[1] = "/"
  OBVIOUS
<1>11. /\ h \in Seq(C) /\ Len(h) = s + 1 /\ h[s + 1] = "/"
       /\ \A i \in 1..s : h[i] = path[i]
  <2> DEFINE c == 1
  <2>1. c = Len(x) /\ c \in Nat /\ s = Len(f) /\ s \in Nat /\ x \in Seq(C) /\ f \in Seq(C)
    BY <1>5, <1>7, <1>10
  <2> HIDE DEF x, c
  <2>2. /\ f \o x \in Seq(C) /\ Len(f \o x) = s + c
        /\ \A i \in 1..s : (f \o x)[i] = f[i]
        /\ \A i \in 1..c : (f \o x)[s + i] = x[i]
    BY <2>1, Joined
  <2>3. c = 1 /\ 1 \in 1..c
    BY DEF c
  <2> QED BY <1>7, <1>10, <2>1, <2>2, <2>3
<1> HIDE DEF h
<1>12. /\ l \in Seq(C) /\ Len(l) = s + 1 + b
       /\ \A i \in 1..(s + 1) : l[i] = h[i]
  <2> DEFINE a == s + 1
  <2>1. a = Len(h) /\ a \in Nat /\ h \in Seq(C) /\ b \in Nat /\ b = Len(index)
    BY <1>1, <1>5, <1>11
  <2> HIDE DEF a
  <2>2. /\ h \o index \in Seq(C) /\ Len(h \o index) = a + b
        /\ \A i \in 1..a : (h \o index)[i] = h[i]
    BY <2>1, Joined
  <2> QED BY <2>2 DEF a
<1>13. l = (f \o <<"/">>) \o index
  BY DEF h
<1> HIDE DEF l
<1>14. (\A i \in 1..s : l[i] = path[i]) /\ l[s + 1] = "/"
  <2>1. s + 1 \in 1..(s + 1) /\ \A i \in 1..s : i \in 1..(s + 1)
    BY <1>5
  <2> QED BY <1>11, <1>12, <2>1
<1>15. p = s + 1 => path[s + 1] = "/"
  BY <1>5
<1>16. IsMoved(path, index, l, s, f, w)
  BY <1>1, <1>5, <1>6, <1>7, <1>9, <1>12, <1>13, <1>14, <1>15 DEF IsMoved, f, w
<1> QED BY <1>4, <1>7, <1>8, <1>12, <1>16

\* The relative paths before and after the redirect.
IsMovedTo(before, after, index, g, w) ==
    \/ before = <<>> /\ after = index
    \/ /\ g # <<>> /\ ~EndsWithSlash(g)
       /\ before = g \o w /\ after = (g \o <<"/">>) \o index

LEMMA RelativeMoved ==
    ASSUME NEW C, "/" \in C, NEW pattern \in Seq(C), NEW path \in Seq(C), NEW index \in Seq(C),
           Rooted(path), MatchPath(pattern, path),
           NEW l \in Seq(C), SingleSlashes(l),
           NEW s, NEW f \in Seq(C), NEW w \in Seq(C), IsMoved(path, index, l, s, f, w)
    PROVE  \E g \in Seq(C) : IsMovedTo(GetRelativePathFromPattern(pattern, path),
                                      GetRelativePathFromPattern(pattern, l), index, g, w)
<1> DEFINE d == Len(pattern)
           p == Len(path)
           b == Len(index)
           e == Len(l)
<1>1. /\ d \in Nat /\ p \in Nat \ {0} /\ b \in Nat /\ e \in Nat
  BY LenProperties, EmptySeq DEF Rooted
<1>2. /\ s \in Nat /\ s <= p /\ p <= s + 1 /\ e = s + 1 + b
      /\ s = 0 \/ path[s] # "/"
      /\ f = SubSeq(path, 1, s) /\ Len(f) = s /\ l = (f \o <<"/">>) \o index
      /\ \A i \in 1..s : l[i] = path[i]
      /\ l[s + 1] = "/" /\ (p = s + 1 => path[s + 1] = "/")
      /\ w = SubSeq(path, s + 1, p)
  BY DEF IsMoved
<1>3. PathDiffer(pattern, path) = d /\ d <= p /\ SubSeq(pattern, 1, d) = SubSeq(path, 1, d)
  BY DiffIs
<1>4. PathDiffer(pattern, l) = d
  <2>1. \A i \in 1..d : l[i] = path[i]
    <3> TAKE i \in 1..d
    <3>1. CASE i <= s
      BY <1>1, <1>2, <3>1
    <3>2. CASE ~(i <= s)
      <4>1. i = s + 1 /\ p = s + 1
        BY <1>1, <1>2, <1>3, <3>2
      <4> QED BY <1>2, <4>1
    <3> QED BY <3>1, <3>2
  <2>2. d <= Len(l)
    BY <1>1, <1>2, <1>3
  <2>3. SubSeq(l, 1, d) = SubSeq(path, 1, d)
    <3> HIDE DEF d
    <3> QED BY <1>1, <1>3, <2>1, <2>2, SameFront
  <2> QED BY <1>3, <2>2, <2>3, StillDiffers
<1>5. PICK k : IsCut(path, d, k)
  BY <1>1, CutExists
<1>6. GetRelativePathFromPattern(pattern, path) = IF p = d THEN <<>> ELSE SubSeq(path, k + 1, p)
  BY <1>1, <1>3, <1>5, RelativeIs
<1>7. /\ k \in 1..p /\ k <= d + 1 /\ path[k] = "/"
      /\ \A i \in (k + 1)..p : i <= d + 1 => path[i] # "/"
  BY <1>5 DEF IsCut
<1>8. \A n : IsCut(l, d, n) =>
          GetRelativePathFromPattern(pattern, l) = IF e = d THEN <<>> ELSE SubSeq(l, n + 1, e)
  BY <1>1, <1>4, RelativeIs
<1>9. <<"/">> \in Seq(C) /\ f \o <<"/">> \in Seq(C) /\ Len(f \o <<"/">>) = s + 1
  <2> DEFINE x == <<"/">>
             c == 1
  <2>1. x \in Seq(C) /\ Len(x) = c /\ c \in Nat /\ s \in Nat /\ s = Len(f)
    BY <1>2
  <2> HIDE DEF x, c
  <2>2. f \o x \in Seq(C) /\ Len(f \o x) = s + c
    BY <2>1, Joined
  <2> QED BY <2>1, <2>2 DEF x, c
<1> HIDE DEF d, p
<1>10. CASE s <= d
  <2>1. p # d => p = d + 1 /\ p = s + 1 /\ k = p
    <3>1. p # d => p = d + 1 /\ p = s + 1
      BY <1>1, <1>2, <1>3, <1>10
    <3>2. p # d => k = p
      BY <1>1, <1>2, <1>7, <3>1
    <3> QED BY <3>1, <3>2
  <2>2. p # d => SubSeq(path, k + 1, p) = <<>>
    BY <1>1, <2>1, SubSeqEmpty
  <2>3. GetRelativePathFromPattern(pattern, path) = <<>>
    BY <1>6, <2>2
  <2> DEFINE n == s + 1
  <2>4. IsCut(l, d, n)
    <3>1. n \in 1..e /\ n <= d + 1 /\ l[n] = "/"
      BY <1>1, <1>2, <1>10
    <3>2. ASSUME NEW i \in (n + 1)..e, i <= d + 1
          PROVE  l[i] # "/"
      <4>1. i = n + 1 /\ n \in 1..(e - 1)
        BY <1>1, <1>2, <1>3, <1>10, <3>2
      <4> QED BY <1>2, <4>1 DEF SingleSlashes
    <3> HIDE DEF n
    <3> QED BY <3>1, <3>2 DEF IsCut
  <2>5. SubSeq(l, n + 1, e) = index
    <3> DEFINE h == f \o <<"/">>
    <3>1. h \in Seq(C) /\ n <= Len(h) /\ n \in Nat /\ Len(h) = n /\ l = h \o index
      BY <1>2, <1>9
    <3> HIDE DEF h, n
    <3>2. SubSeq(l, n + 1, Len(l)) = SubSeq(h, n + 1, Len(h)) \o index
      BY <3>1, Behind
    <3>3. SubSeq(h, n + 1, Len(h)) = <<>>
      BY <3>1, SubSeqEmpty
    <3> QED BY <3>2, <3>3, ConcatEmptySeq
  <2>6. e = d => index = <<>>
    BY <1>1, <1>2, <1>3, EmptySeq
  <2> HIDE DEF n
  <2>7. GetRelativePathFromPattern(pattern, l) = index
    BY <1>8, <2>4, <2>5, <2>6
  <2>8. <<>> \in Seq(C)
    BY EmptySeq
  <2> QED BY <2>3, <2>7, <2>8 DEF IsMovedTo
<1>11. CASE ~(s <= d)
  <2>1. d + 1 <= s /\ p # d /\ e # d /\ k < s /\ k \in Nat /\ k \in 1..e /\ k \in 1..s
    BY <1>1, <1>2, <1>7, <1>11
  <2>2. IsCut(l, d, k)
    <3>1. l[k] = "/"
      BY <1>2, <1>7, <2>1
    <3>2. ASSUME NEW i \in (k + 1)..e, i <= d + 1
          PROVE  l[i] # "/"
      <4>1. i \in 1..s /\ i \in (k + 1)..p
        BY <1>1, <1>2, <2>1, <3>2
      <4> QED BY <1>2, <1>7, <3>2, <4>1
    <3> QED BY <1>7, <2>1, <3>1, <3>2 DEF IsCut
  <2> DEFINE g == SubSeq(path, k + 1, s)
             h == f \o <<"/">>
  <2>3. /\ g \in Seq(C) /\ Len(g) = s - k /\ \A i \in 1..(s - k) : g[i] = path[k + i]
    <3>1. k <= s /\ s <= Len(path)
      BY <1>1, <1>2, <2>1 DEF p
    <3> QED BY <1>2, <2>1, <3>1, SubSeqIs
  <2>4. g # <<>> /\ g[Len(g)] # "/"
    <3> HIDE DEF g
    <3>1. s - k \in 1..(s - k) /\ k + (s - k) = s /\ s # 0
      BY <1>2, <2>1
    <3>2. g[s - k] = path[s]
      BY <2>3, <3>1
    <3>3. g # <<>>
      BY <2>3, <3>1, EmptySeq
    <3> QED BY <1>2, <2>3, <3>1, <3>2, <3>3
  <2>5. GetRelativePathFromPattern(pattern, path) = g \o w
    <3> DEFINE m == k + 1
    <3>1. m \in 1..(Len(path) + 1) /\ s \in (m - 1)..Len(path) /\ p \in s..Len(path)
      BY <1>1, <1>2, <2>1 DEF p
    <3> HIDE DEF m
    <3>2. SubSeq(path, m, s) \o SubSeq(path, s + 1, p) = SubSeq(path, m, p)
      BY <3>1, ConcatAdjacentSubSeq
    <3> QED BY <1>2, <1>6, <2>1, <3>2 DEF m
  <2>6. GetRelativePathFromPattern(pattern, l) = (g \o <<"/">>) \o index
    <3>1. h \in Seq(C) /\ k <= Len(h) /\ l = h \o index /\ k <= Len(f) /\ k \in Nat
      BY <1>2, <1>9, <2>1
    <3>2. SubSeq(h, k + 1, Len(h)) = SubSeq(f, k + 1, Len(f)) \o <<"/">>
      BY <1>9, <3>1, Behind
    <3> HIDE DEF h, g
    <3>3. SubSeq(l, k + 1, Len(l)) = SubSeq(h, k + 1, Len(h)) \o index
      BY <3>1, Behind
    <3>4. SubSeq(f, k + 1, s) = g
      <4> DEFINE z == 0
                 m == k + 1
      <4>1. z \in Nat /\ s \in Nat /\ s <= Len(path) /\ z <= s /\ m \in Nat \ {0} /\ s \in Int /\ s <= s - z
            /\ z + 1 = 1 /\ z + m = m /\ z + s = s
        BY <1>1, <1>2, <2>1 DEF p
      <4> HIDE DEF z, m
      <4>2. SubSeq(SubSeq(path, z + 1, s), m, s) = SubSeq(path, z + m, z + s)
        BY <4>1, SubSub
      <4> QED BY <1>2, <4>1, <4>2 DEF g, m
    <3> QED BY <1>2, <1>8, <2>1, <2>2, <3>2, <3>3, <3>4
  <2> HIDE DEF g
  <2> QED BY <2>3, <2>4, <2>5, <2>6 DEF EndsWithSlash, IsMovedTo
<1> QED BY <1>10, <1>11

Associates(u, v, w) == u \o (v \o w) = (u \o v) \o w

Regroups(x, g, y, i)  == x \o ((g \o y) \o i) = ((x \o g) \o y) \o i

LEMMA AssociatesIs ==
    ASSUME NEW C, NEW u \in Seq(C), NEW v \in Seq(C), NEW w \in Seq(C)
    PROVE  Associates(u, v, w)
<1>1. u \o (v \o w) = (u \o v) \o w
  BY ConcatAssociative
<1> QED BY <1>1 DEF Associates

LEMMA Regrouped ==
    ASSUME NEW C, NEW x \in Seq(C), NEW g \in Seq(C), NEW w \in Seq(C), NEW y \in Seq(C),
           NEW i \in Seq(C)
    PROVE  /\ Associates(x, g, w)
           /\ Regroups(x, g, y, i)
<1> DEFINE h == g \o y
<1>1. h \in Seq(C)
  BY ConcatProperties
<1>2. Associates(x, g, w) /\ Associates(x, g, y)
  BY AssociatesIs
<1> HIDE DEF h
<1>3. Associates(x, h, i)
  BY <1>1, AssociatesIs
<1> QED BY ONLY <1>2, <1>3 DEF h, Associates, Regroups

\* The redirect of a directory leads to its index, or to itself with a slash.
LEMMA FileMoved ==
    ASSUME NEW C, "/" \in C, NEW root \in Seq(C), NEW pattern \in Seq(C), NEW path \in Seq(C),
           NEW index \in Seq(C), Rooted(path), MatchPath(pattern, path),
           SingleSlashes(path), SingleSlashes(AppendPath(path, index))
    PROVE  AppendPath(root, GetRelativePathFromPattern(pattern, AppendPath(path, index)))
               = AppendPath(AppendPath(root, GetRelativePathFromPattern(pattern, path)), index)
<1> DEFINE l == AppendPath(path, index)
           x == StripSlashes(root)
           y == <<"/">>
           xy == x \o y
           before == GetRelativePathFromPattern(pattern, path)
           after == GetRelativePathFromPattern(pattern, l)
<1>1. PICK s : \E f \in Seq(C), w \in Seq(C) : l \in Seq(C) /\ IsMoved(path, index, l, s, f, w)
  BY MovedIs
<1>2. PICK f \in Seq(C), w \in Seq(C) : l \in Seq(C) /\ IsMoved(path, index, l, s, f, w)
  BY <1>1
<1>3. AllSlashes(w)
  BY <1>2 DEF IsMoved
<1>4. SingleSlashes(l)
  OBVIOUS
<1> HIDE DEF l
<1>5. PICK g \in Seq(C) : IsMovedTo(before, after, index, g, w)
  BY <1>2, <1>4, RelativeMoved
<1>6. x \in Seq(C) /\ y \in Seq(C) /\ ~EndsWithSlash(x)
  <2>1. PICK n : IsStripped(root, n)
    BY StripExists
  <2>0. x = SubSeq(root, 1, n)
    BY <2>1, StripIs
  <2> HIDE DEF x
  <2>2. x = SubSeq(root, 1, n) /\ n \in Nat /\ n <= Len(root) /\ (n = 0 \/ root[n] # "/")
        /\ 0 <= n /\ n - 0 = n
    BY <2>0, <2>1, LenProperties DEF IsStripped
  <2>3. /\ SubSeq(root, 0 + 1, n) \in Seq(C) /\ Len(SubSeq(root, 0 + 1, n)) = n - 0
        /\ \A i \in 1..(n - 0) : SubSeq(root, 0 + 1, n)[i] = root[0 + i]
    BY <2>2, SubSeqIs
  <2>4. x \in Seq(C) /\ Len(x) = n /\ (n # 0 => x[n] = root[n])
    BY <2>2, <2>3
  <2>5. n = 0 => x = <<>>
    BY <2>4, EmptySeq
  <2> QED BY <2>2, <2>4, <2>5 DEF EndsWithSlash
<1>7. \A r : AppendPath(root, r) = xy \o r
  BY DEF AppendPath
<1> SUFFICES AppendPath(root, after) = AppendPath(AppendPath(root, before), index)
  BY DEF l
<1> HIDE DEF x, before, after
<1>8. xy \in Seq(C)
  BY <1>6, ConcatProperties
<1>9. CASE before = <<>> /\ after = index
  <2>1. AppendPath(root, before) = xy
    BY <1>7, <1>8, <1>9, ConcatEmptySeq
  <2>2. AllSlashes(y)
    BY DEF AllSlashes
  <2>3. StripSlashes(xy) = x
    <3> HIDE DEF y
    <3> QED BY <1>6, <2>2, StripJoined
  <2> QED BY <1>7, <1>9, <2>1, <2>3 DEF AppendPath
<1>10. CASE g # <<>> /\ ~EndsWithSlash(g) /\ before = g \o w /\ after = (g \o y) \o index
  <2> HIDE DEF y
  <2> DEFINE u == xy \o g
  <2>0. /\ Associates(xy, g, w)
        /\ Regroups(xy, g, y, index)
    <3> HIDE DEF xy
    <3> QED BY <1>6, <1>8, Regrouped
  <2> HIDE DEF xy
  <2>1. AppendPath(root, before) = u \o w
    BY <1>7, <1>10, <2>0 DEF Associates
  <2>2. u \in Seq(C) /\ ~EndsWithSlash(u)
    <3> DEFINE a == Len(xy)
               c == Len(g)
    <3>1. a \in Nat /\ c \in Nat /\ a = Len(xy) /\ c = Len(g) /\ c \in 1..c /\ xy \in Seq(C) /\ g \in Seq(C)
      BY <1>8, <1>10, LenProperties, EmptySeq
    <3> HIDE DEF a, c
    <3>2. /\ u \in Seq(C) /\ Len(u) = a + c
          /\ \A i \in 1..c : u[a + i] = g[i]
      BY <3>1, Joined
    <3> HIDE DEF u
    <3> QED BY <1>10, <3>1, <3>2, EmptySeq DEF EndsWithSlash
  <2> HIDE DEF u
  <2>3. StripSlashes(u \o w) = u
    BY <1>3, <2>2, StripJoined
  <2>4. AppendPath(AppendPath(root, before), index) = (u \o y) \o index
    BY <2>1, <2>3 DEF AppendPath, y
  <2> QED BY <1>7, <1>10, <2>0, <2>4 DEF u, Regroups
<1> QED BY <1>5, <1>9, <1>10 DEF IsMovedTo

-----------------------------------------------------------------------------
(* What URI::Parse makes of a target *)

LEMMA PlainIs ==
    /\ "/" \in Plain /\ "A" \in Plain
    /\ \A c \in Plain : c \notin {"%41", "%4a", "%z", "?", "#", SCHEME}
  BY DEF Plain, Unreserved, Letter, Digit, SubDelim, SCHEME

LEMMA CleanPath ==
    ASSUME NEW t \in Seq(Char), NEW p, ParserOK(t, p), ~p.run, ~p.err
    PROVE  Clean(p.uri.path) /\ p.uri.path = FinalPath(t)
<1> DEFINE s == PathOf(t)
           d == [i \in DOMAIN s |-> IF s[i] = "%41" THEN "A" ELSE s[i]]
<1>1. p.uri = Grammar(t).uri /\ Grammar(t).ok
  BY ParserStops
<1>2. p.uri.path = FinalPath(t) /\ ValidPath(s)
  BY <1>1 DEF Grammar, FinalPath, DecodedPath
<1>3. s \in Seq(Char)
  BY PathOfTyped
<1>4. \/ DecodedPath(t) = <<>>
      \/ DecodedPath(t) = d /\ \A i \in DOMAIN s : s[i] \notin {"%4a", "%z"}
  BY DEF DecodedPath, PercentDecode
<1> HIDE DEF s
<1>5. DOMAIN s = 1..Len(s) /\ Len(s) \in Nat
  BY <1>3, LenProperties
<1>6. Clean(<<"/">>)
  <2> DEFINE x == <<"/">>
  <2>1. x \in Seq(Plain) /\ Len(x) = 1 /\ x # <<>> /\ x[1] = "/" /\ DOMAIN x = 1..1
    BY PlainIs
  <2> HIDE DEF x
  <2>2. \A i \in DOMAIN x : x[i] = "/"
    BY <2>1
  <2>3. ValidPath(x)
    BY <2>1, <2>2 DEF ValidPath
  <2> QED BY <2>1, <2>3 DEF Clean, x
<1>7. ASSUME DecodedPath(t) = d, d # <<>>, \A i \in DOMAIN s : s[i] \notin {"%4a", "%z"}
      PROVE  Clean(d)
  <2>1. \A i \in 1..Len(s) : s[i] \in Plain \union Escape
    BY <1>2, <1>5 DEF ValidPath, IsValidPercentEncoding, Plain
  <2>2. \A i \in 1..Len(s) : (IF s[i] = "%41" THEN "A" ELSE s[i]) \in Plain
    BY <1>5, <1>7, <2>1, PlainIs DEF Escape
  <2>3. [i \in 1..Len(s) |-> IF s[i] = "%41" THEN "A" ELSE s[i]] \in Seq(Plain)
    BY <1>5, <2>2, IsASeq
  <2>4. /\ d \in Seq(Plain) /\ DOMAIN d = 1..Len(s)
        /\ \A i \in 1..Len(s) : d[i] = IF s[i] = "%41" THEN "A" ELSE s[i]
    BY <1>5, <2>3
  <2> HIDE DEF d
  <2>5. Len(d) = Len(s)
    <3>1. DOMAIN d = 1..Len(d) /\ Len(d) \in Nat
      BY <2>4, LenProperties
    <3> QED BY <1>5, <2>4, <3>1
  <2>6. s # <<>> /\ 1 \in 1..Len(s)
    BY <1>3, <1>5, <1>7, <2>4, <2>5, EmptySeq
  <2>7. d[1] = "/"
    BY <1>2, <2>4, <2>6 DEF ValidPath
  <2>8. \A i \in DOMAIN d : d[i] \in Plain
    BY <2>2, <2>4
  <2>9. ASSUME NEW i \in 1..(Len(d) - 1)
        PROVE  ~(d[i] = "/" /\ d[i + 1] = "/")
    <3>1. i \in 1..Len(s) /\ i + 1 \in 1..Len(s) /\ i \in 1..(Len(s) - 1)
      BY <1>5, <2>5
    <3>2. ~(s[i] = "/" /\ s[i + 1] = "/")
      BY <1>2, <3>1 DEF ValidPath
    <3> QED BY <2>4, <3>1, <3>2
  <2>10. ValidPath(d)
    BY <2>7, <2>8, <2>9 DEF ValidPath, Plain
  <2> QED BY <1>7, <2>4, <2>10 DEF Clean
<1> HIDE DEF d
<1> QED BY <1>2, <1>4, <1>6, <1>7 DEF FinalPath

\* A target of plain characters is a path, and is left as it is.
LEMMA Straight ==
    ASSUME NEW t \in Seq(Plain), Rooted(t)
    PROVE  /\ FinalPath(t) = t
           /\ Upto(t, {"?", "#"}) = t
<1> DEFINE n == Len(t)
           k == FindFirstOf(t, {"?", "#"}, 1)
<1>1. /\ n \in Nat \ {0} /\ n \in Nat /\ n = Len(t) /\ DOMAIN t = 1..n
      /\ \A i \in 1..n : t[i] \in Plain
  BY LenProperties, EmptySeq DEF Rooted
<1>2. k = n + 1
  <2>1. 1 \in 1..(n + 1)
    BY <1>1
  <2>2. IsFirst(t, {"?", "#"}, 1, n, k)
    BY <2>1, FindIs
  <2> HIDE DEF k, n
  <2>3. k \in 1..(n + 1) /\ (k <= n => t[k] \in {"?", "#"})
    BY <2>2 DEF IsFirst
  <2>4. ~(k <= n)
    BY <1>1, <2>3, PlainIs
  <2> QED BY <1>1, <2>3, <2>4
<1>3. Upto(t, {"?", "#"}) = t
  <2>1. Upto(t, {"?", "#"}) = SubSeq(t, 1, k - 1)
    BY DEF Upto, Token
  <2> HIDE DEF k
  <2>2. k - 1 = n
    BY <1>1, <1>2
  <2> QED BY <2>1, <2>2, Whole
<1>4. ~HasScheme(t)
  BY PlainIs DEF HasScheme, Rooted, SCHEME
<1>5. Front(t) = t /\ Authority(t) = <<>>
  BY <1>3, <1>4 DEF Front, Body, Authority
<1>6. PathOf(t) = t
  <2>1. PathOf(t) = SubSeq(t, Len(<<>>) + 1, Len(t))
    BY <1>5 DEF PathOf
  <2>2. Len(<<>>) + 1 = 1
    BY EmptySeq
  <2> QED BY <2>1, <2>2, Whole
<1>7. DecodedPath(t) = t
  <2>1. \A i \in DOMAIN t : t[i] \notin {"%41", "%4a", "%z"}
    BY <1>1, PlainIs
  <2>2. PercentDecode(t) = [i \in DOMAIN t |-> IF t[i] = "%41" THEN "A" ELSE t[i]]
    BY <2>1 DEF PercentDecode
  <2>3. PercentDecode(t) = [i \in DOMAIN t |-> t[i]]
    BY <2>1, <2>2
  <2>4. t = [i \in DOMAIN t |-> t[i]]
    OBVIOUS
  <2> QED BY <1>6, <2>3, <2>4 DEF DecodedPath
<1> QED BY <1>3, <1>7 DEF FinalPath, Rooted

-----------------------------------------------------------------------------
(* The answer to a GET request *)

LEMMA FirstRule ==
    ASSUME NEW rules, NEW n \in Nat \ {0}, DOMAIN rules = 1..n, rules[n].when
    PROVE  \E k \in 1..n : /\ rules[k].when /\ \A j \in 1..n : j < k => ~rules[j].when
                           /\ FirstMatch(rules) = rules[k].then
<1> DEFINE S == {k \in 1..n : rules[k].when}
<1>1. S \subseteq Nat /\ S # {}
  OBVIOUS
<1>2. PICK k \in S : \A m \in S : k <= m
  BY <1>1, LeastOf
<1>3. k \in 1..n /\ rules[k].when
  BY <1>2
<1>4. \A j \in 1..n : j < k => ~rules[j].when
  <2> TAKE j \in 1..n
  <2>1. j \in S => k <= j
    BY <1>2
  <2> QED BY <1>3, <2>1
<1> HIDE DEF S
<1> DEFINE Leading(m) == /\ m \in DOMAIN rules /\ rules[m].when
                         /\ \A j \in DOMAIN rules : j < m => ~rules[j].when
<1>5. \A m : Leading(m) => m = k
  BY <1>3, <1>4
<1>6. (CHOOSE m \in DOMAIN rules : /\ rules[m].when
                                   /\ \A j \in DOMAIN rules : j < m => ~rules[j].when) = k
  BY <1>3, <1>4, <1>5
<1>7. FirstMatch(rules) = rules[k].then
  BY <1>6 DEF FirstMatch
<1> QED BY <1>3, <1>4, <1>7

\* When a directory is redirected: to its index page, or to its name and a slash.
Redirected(q) == q.index = "present" \/ (q.index # "absent" /\ ~q.slash)

LEMMA DirectoryAnswer ==
    ASSUME NEW q
    PROVE  /\ HandleDirectoryResource(q).code \in {200, 302, 404, 500}
           /\ HandleDirectoryResource(q).code = 302 => Redirected(q)
<1> DEFINE a == If(q.index = "present", Respond(302))
           b == If(q.index = "absent", Fail(404))
           c == If(~q.slash, Respond(302))
           d == If(q.listing = "ok", Answer("respond", 200, "opendir"))
           e == If(q.listing = "fail", Fail(500))
           f == If(TRUE, Fail(404))
           rules == <<a, b, c, d, e, f>>
           n == 6
<1>0. /\ a.when <=> q.index = "present"
      /\ b.when <=> q.index = "absent"
      /\ c.when <=> ~q.slash
      /\ f.when
      /\ a.then.code = 302 /\ b.then.code = 404 /\ c.then.code = 302
      /\ d.then.code = 200 /\ e.then.code = 500 /\ f.then.code = 404
  BY DEF If, Respond, Fail, Answer
<1>1. HandleDirectoryResource(q) = FirstMatch(rules)
  BY DEF HandleDirectoryResource
<1> HIDE DEF a, b, c, d, e, f
<1>2. /\ rules[1] = a /\ rules[2] = b /\ rules[3] = c /\ rules[4] = d /\ rules[5] = e
      /\ rules[6] = f /\ DOMAIN rules = 1..n /\ n \in Nat \ {0} /\ n = 6
  OBVIOUS
<1> HIDE DEF rules, n
<1>3. rules[n].when
  BY <1>0, <1>2
<1>4. PICK k \in 1..n : /\ rules[k].when /\ \A j \in 1..n : j < k => ~rules[j].when
                        /\ FirstMatch(rules) = rules[k].then
  BY <1>2, <1>3, FirstRule
<1>5. k \in {1, 2, 3, 4, 5, 6} /\ 1 \in 1..n /\ 2 \in 1..n
  BY <1>2
<1>6. k = 3 => ~rules[1].when /\ ~rules[2].when
  BY <1>4, <1>5
<1> QED BY <1>0, <1>1, <1>2, <1>4, <1>5, <1>6 DEF Redirected

\* The rest of the decision.
Decided(q, code) ==
    IF q.redirects THEN code = q.redirect
    ELSE /\ code \in {0, 200, 302, 404, 405, 500}
         /\ code = 302 => q.target = "dir" /\ Redirected(q)
         /\ code = 404 => q.target \in {"missing", "dir"}

LEMMA RequestAnswer ==
    ASSUME NEW q, q.method = "GET", ~q.tooBig, q.host, q.found
    PROVE  Decided(q, OnHttpRequest(q).code)
<1> DEFINE a == If(q.tooBig, Fail(413))
           b == If(~q.host, Fail(400))
           c == If(~q.found, Fail(404))
           d == If(q.redirects, Respond(q.redirect))
           e == If(q.method \notin q.allowed, Fail(405))
           f == If(IsUpload(q), HandleUploadRequest(q))
           g == If(q.target = "missing", Fail(404))
           h == If(q.target = "dir", HandleDirectoryResource(q))
           i == If(q.method = "DELETE", HandleDeleteFile(q))
           l == If(q.cgi, Answer("cgi", 0, "none"))
           m == If(TRUE, HandleStaticFile(q))
           rules == <<a, b, c, d, e, f, g, h, i, l, m>>
           n == 11
           dir == HandleDirectoryResource(q)
<1>0. /\ a.when = q.tooBig
      /\ b.when <=> ~q.host
      /\ c.when <=> ~q.found
      /\ d.when = q.redirects
      /\ f.when = IsUpload(q)
      /\ g.when <=> q.target = "missing"
      /\ h.when <=> q.target = "dir"
      /\ i.when <=> q.method = "DELETE"
      /\ m.when
      /\ d.then.code = q.redirect /\ e.then.code = 405
      /\ g.then.code = 404 /\ h.then = dir
      /\ l.then.code = 0 /\ m.then.code \in {200, 500}
  BY DEF If, Respond, Fail, Answer, HandleStaticFile
<1>1. OnHttpRequest(q) = FirstMatch(rules)
  BY DEF OnHttpRequest
<1> HIDE DEF a, b, c, d, e, f, g, h, i, l, m
<1>2. /\ rules[1] = a /\ rules[2] = b /\ rules[3] = c /\ rules[4] = d /\ rules[5] = e
      /\ rules[6] = f /\ rules[7] = g /\ rules[8] = h /\ rules[9] = i /\ rules[10] = l
      /\ rules[11] = m /\ DOMAIN rules = 1..n /\ n \in Nat \ {0} /\ n = 11
  OBVIOUS
<1>3. dir.code \in {200, 302, 404, 500} /\ (dir.code = 302 => Redirected(q))
  BY DirectoryAnswer
<1> HIDE DEF rules, n, dir
<1>4. rules[n].when
  BY <1>0, <1>2
<1>5. PICK k \in 1..n : /\ rules[k].when /\ \A j \in 1..n : j < k => ~rules[j].when
                        /\ FirstMatch(rules) = rules[k].then
  BY <1>2, <1>4, FirstRule
<1>6. k \in {4, 5, 7, 8, 10, 11} /\ 4 \in 1..n
  <2>1. k \in {1, 2, 3, 4, 5, 6, 7, 8, 9, 10, 11} /\ 4 \in 1..n
    BY <1>2
  <2>2. ~IsUpload(q)
    BY DEF IsUpload
  <2> QED BY <1>0, <1>2, <1>5, <2>1, <2>2
<1>7. k = 4 <=> q.redirects
  <2>1. q.redirects => ~(4 < k)
    BY <1>0, <1>2, <1>5, <1>6
  <2> QED BY <1>0, <1>2, <1>5, <1>6, <2>1
<1>8. CASE k = 4
  BY <1>0, <1>1, <1>2, <1>5, <1>7, <1>8 DEF Decided
<1>9. CASE k = 8
  BY <1>0, <1>1, <1>2, <1>3, <1>5, <1>7, <1>9 DEF Decided
<1>10. CASE k \in {5, 7, 10, 11}
  BY <1>0, <1>1, <1>2, <1>5, <1>7, <1>10 DEF Decided
<1> QED BY <1>6, <1>8, <1>9, <1>10

\* An answer of a route without a redirect of its own.
Dispatched(route, x) ==
    /\ x.code \in {0, 200, 302, 404, 405, 500}
    /\ x.code = 302 =>
           LET page == AppendPath(x.file, route.index) IN
           /\ x.location = AppendPath(x.path, route.index) /\ IsDirectory(x.file)
           /\ \/ route.index # <<>> /\ Exists(page) /\ ~IsDirectory(page)
              \/ route.index = <<>> /\ ~EndsWithSlash(x.file)
    /\ x.code = 404 => ~Exists(x.file) \/ IsDirectory(x.file)

RoutedTo(route, x) ==
    /\ MatchPath(route.pattern, x.path) /\ x.file = FileAt(route, x.path)
    /\ IF route.redirected THEN x.code = route.redirect.code ELSE Dispatched(route, x)
AnswerOK(x, vs) == x.route \in DOMAIN vs.routes /\ RoutedTo(vs.routes[x.route], x)

LEMMA ScenarioIs ==
    ASSUME NEW vs, NEW route, NEW file, NEW slashed, NEW q, q = ScenarioOf(vs, route, file, slashed)
    PROVE  /\ q.method = "GET" /\ ~q.tooBig /\ q.host /\ q.found
           /\ q.redirects = route.redirected /\ q.redirect = route.redirect.code
           /\ q.target = "missing" => ~Exists(file)
           /\ q.target = "dir" => IsDirectory(file)
           /\ q.target \in {"missing", "dir"} => ~Exists(file) \/ IsDirectory(file)
           /\ Redirected(q) => \/ route.index # <<>> /\ Exists(slashed) /\ ~IsDirectory(slashed)
                               \/ route.index = <<>> /\ ~EndsWithSlash(file)
<1>1. /\ q.method = "GET" /\ q.tooBig = FALSE /\ q.host = TRUE /\ q.found = TRUE
      /\ q.redirects = route.redirected /\ q.redirect = route.redirect.code
  BY DEF ScenarioOf
<1>2. q.target = IF ~Exists(file) THEN "missing" ELSE IF IsDirectory(file) THEN "dir" ELSE "file"
  BY DEF ScenarioOf
<1>3. q.index = IF route.index = <<>> THEN "off"
                ELSE IF Exists(slashed) /\ ~IsDirectory(slashed) THEN "present" ELSE "absent"
  BY DEF ScenarioOf
<1>4. q.slash = EndsWithSlash(file)
  BY DEF ScenarioOf
<1>5. Redirected(q) => \/ route.index # <<>> /\ Exists(slashed) /\ ~IsDirectory(slashed)
                       \/ route.index = <<>> /\ ~EndsWithSlash(file)
  BY <1>3, <1>4 DEF Redirected
<1> QED BY <1>1, <1>2, <1>5

LEMMA ResolveOK ==
    ASSUME NEW vs \in ServerType, NEW path \in Seq(Char), NEW x, x = Resolve(vs, path)
    PROVE  /\ x.path = path /\ x.route \in Nat
           /\ IF x.route = 0 THEN x.code = 404 ELSE AnswerOK(x, vs)
<1> DEFINE S == {i \in DOMAIN vs.routes : MatchPath(vs.routes[i].pattern, path)}
           r == FindWebRoute(path, vs.routes)
           route == vs.routes[r]
           file == AppendPath(route.root, GetRelativePathFromPattern(route.pattern, path))
           q == ScenarioOf(vs, route, file, AppendPath(file, route.index))
           a == OnHttpRequest(q)
<1>1. vs.routes \in Seq(RouteType)
  BY DEF ServerType
<1>2. S \subseteq Nat \ {0} /\ S \subseteq DOMAIN vs.routes
  BY <1>1, LenProperties
<1>3. r = FirstOf(S)
  BY DEF FindWebRoute
<1>4. \A i \in S : MatchPath(vs.routes[i].pattern, path)
  OBVIOUS
<1> HIDE DEF S, r
<1>5. r # 0 => r \in DOMAIN vs.routes /\ MatchPath(vs.routes[r].pattern, path) /\ r \in Nat \ {0}
  BY <1>2, <1>3, <1>4, FirstExists
<1>6. CASE r = 0
  <2>1. x = [NoAnswer EXCEPT !.do = "error", !.code = 404, !.path = path]
    BY <1>6 DEF Resolve, r
  <2>2. x.route = 0 /\ x.code = 404 /\ x.path = path
    BY <2>1 DEF NoAnswer
  <2> QED BY <2>2
<1>7. CASE r # 0
  <2> DEFINE code == a.code
             moved == route.redirected
             to == route.redirect.to
             index == AppendPath(path, route.index)
             do == a.do
  <2>1. x = [ do |-> do, code |-> code, server |-> 0, route |-> r, file |-> file, path |-> path,
              location |-> IF moved THEN to ELSE IF code = 302 THEN index ELSE <<>> ]
    BY <1>7 DEF Resolve, r
  <2>2. /\ q.method = "GET" /\ ~q.tooBig /\ q.host /\ q.found
        /\ q.redirects = moved /\ q.redirect = route.redirect.code
        /\ q.target \in {"missing", "dir"} => ~Exists(file) \/ IsDirectory(file)
        /\ q.target = "dir" => IsDirectory(file)
        /\ Redirected(q) =>
               \/ /\ route.index # <<>> /\ Exists(AppendPath(file, route.index))
                  /\ ~IsDirectory(AppendPath(file, route.index))
               \/ route.index = <<>> /\ ~EndsWithSlash(file)
    <3> DEFINE page == AppendPath(file, route.index)
    <3>1. q = ScenarioOf(vs, route, file, page)
      OBVIOUS
    <3> HIDE DEF q, route, file, page
    <3>2. /\ q.method = "GET" /\ ~q.tooBig /\ q.host /\ q.found
          /\ q.redirects = route.redirected /\ q.redirect = route.redirect.code
          /\ q.target \in {"missing", "dir"} => ~Exists(file) \/ IsDirectory(file)
          /\ q.target = "dir" => IsDirectory(file)
          /\ Redirected(q) => \/ route.index # <<>> /\ Exists(page) /\ ~IsDirectory(page)
                              \/ route.index = <<>> /\ ~EndsWithSlash(file)
      BY <3>1, ScenarioIs
    <3> QED BY <3>2 DEF page
  <2>3. file = FileAt(route, path)
    BY DEF FileAt
  <2> HIDE DEF q
  <2>4. Decided(q, code)
    BY <2>2, RequestAnswer
  <2> HIDE DEF a, do, code, to, index, file, route
  <2>5. /\ x.code = code /\ x.route = r /\ x.file = file /\ x.path = path
        /\ ~moved /\ code = 302 => x.location = index
    BY <2>1
  <2>6. moved => code = route.redirect.code
    BY <2>2, <2>4 DEF Decided
  <2>7. ~moved => Dispatched(route, x)
    BY <2>2, <2>4, <2>5 DEF Decided, Dispatched, index
  <2>8. RoutedTo(route, x)
    BY <1>5, <1>7, <2>2, <2>3, <2>5, <2>6, <2>7 DEF RoutedTo, route
  <2> QED BY <1>5, <1>7, <2>5, <2>8 DEF AnswerOK, route
<1> QED BY <1>6, <1>7

-----------------------------------------------------------------------------
(* Links and redirects *)

LEMMA BaseIs ==
    ASSUME NEW t \in Seq(Plain), Rooted(t), EndsWithSlash(t)
    PROVE  Base(t) = t
<1> DEFINE S == {i \in DOMAIN t : t[i] = "/"}
           n == Len(t)
<1>1. n \in Nat /\ n \in S /\ S \subseteq Nat /\ \A i \in S : i <= n
  <2>1. DOMAIN t = 1..n /\ n \in Nat /\ n # 0 /\ t[n] = "/"
    BY LenProperties, EmptySeq DEF EndsWithSlash
  <2> HIDE DEF n
  <2> QED BY <2>1
<1>2. Base(t) = SubSeq(t, 1, Max(S))
  BY Straight DEF Base
<1> HIDE DEF S
<1>3. Max(S) = n
  BY <1>1, MaxIs
<1> QED BY <1>2, <1>3, Whole

LEMMA FileLonger ==
    ASSUME NEW route \in RouteType, NEW path \in Seq(Char), NEW n \in Seq(Char),
           MatchPath(route.pattern, path), Rooted(path), EndsWithSlash(path),
           n # <<>>, n[1] # "/"
    PROVE  FileAt(route, path \o n) = FileAt(route, path) \o n
<1> DEFINE x == StripSlashes(route.root) \o <<"/">>
           pattern == route.pattern
           rest == GetRelativePathFromPattern(pattern, path)
           more == GetRelativePathFromPattern(pattern, path \o n)
<1>1. route.root \in Seq(Char) /\ pattern \in Seq(Char)
  BY DEF RouteType
<1>2. x \in Seq(Char)
  <2>1. <<"/">> \in Seq(Char) /\ StripSlashes(route.root) \in Seq(Char)
    BY <1>1, CharAssumption, StrippedTyped
  <2> QED BY <2>1, ConcatProperties
<1>3. rest \in Seq(Char)
  BY <1>1, RestTyped
<1>4. FileAt(route, path) = x \o rest /\ FileAt(route, path \o n) = x \o more
  BY DEF FileAt, AppendPath
<1> HIDE DEF x, pattern
<1>5. more = rest \o n
  BY <1>1, RelativeLonger DEF pattern
<1> HIDE DEF rest
<1>6. Associates(x, rest, n)
  BY <1>2, <1>3, AssociatesIs
<1> QED BY <1>4, <1>5, <1>6 DEF Associates

LEMMA CleanIs ==
    ASSUME NEW path, Clean(path)
    PROVE  path \in Seq(Plain) /\ Rooted(path) /\ SingleSlashes(path)
  BY DEF Clean, ValidPath, Rooted, SingleSlashes

LEMMA ValidIs ==
    ASSUME NEW path, ValidPath(path)
    PROVE  SingleSlashes(path)
  BY DEF ValidPath, SingleSlashes

\* Where a redirect of a directory leads.
LEMMA LocationIs ==
    ASSUME NEW route \in RouteType, route.index \in Seq(Plain), NEW path \in Seq(Char),
           Clean(path), MatchPath(route.pattern, path)
    PROVE  /\ AppendPath(path, route.index) \in Seq(Plain)
           /\ ValidPath(AppendPath(path, route.index)) =>
                  FileAt(route, AppendPath(path, route.index))
                      = AppendPath(FileAt(route, path), route.index)
<1> DEFINE index == route.index
           location == AppendPath(path, index)
<1>1. path \in Seq(Plain) /\ Rooted(path) /\ SingleSlashes(path)
  BY CleanIs
<1>2. /\ route.root \in Seq(Char) /\ route.pattern \in Seq(Char)
      /\ index \in Seq(Char) /\ index \in Seq(Plain)
  BY DEF RouteType
<1>3. "/" \in Plain /\ "/" \in Char
  BY PlainIs, CharAssumption
<1> HIDE DEF index
<1>4. location \in Seq(Plain)
  BY <1>1, <1>2, <1>3, MovedIs
<1>5. ASSUME SingleSlashes(location)
      PROVE  FileAt(route, location) = AppendPath(FileAt(route, path), index)
  BY <1>1, <1>2, <1>3, <1>5, FileMoved DEF FileAt
<1>6. ValidPath(location) => SingleSlashes(location)
  BY ValidIs
<1> QED BY <1>4, <1>5, <1>6 DEF index

\* The index pages that the file names, and those of the routes.
FieldsPlain(fs) == "index" \in DOMAIN fs => fs["index"] \in Seq(Plain)
CatsPlain       == \A c \in DOMAIN ini.cats : FieldsPlain(ini.cats[c])
IndexOK(vs)     == \A i \in DOMAIN vs.routes : vs.routes[i].index \in Seq(Plain)
IndexesOK       == \A i \in DOMAIN vservers : IndexOK(vservers[i].vs)

LEMMA LinePlain ==
    ASSUME NEW f, FileOK(f), \A c \in DOMAIN f.cats : FieldsPlain(f.cats[c]),
           NEW l, IsLine(l), l.is = "field" /\ l.name = "index" => l.value \in Seq(Plain)
    PROVE  \A c \in DOMAIN ParseLine(f, l).cats : FieldsPlain(ParseLine(f, l).cats[c])
<1>0. f = [cats |-> f.cats, cur |-> f.cur]
  BY DEF FileOK
<1>1. l.is \in {"blank", "comment", "header", "field"}
  BY DEF IsLine, Blank, Comment
<1>2. CASE l.is = "blank"
  <2>1. ParseLine(f, l) = [f EXCEPT !.cur = <<>>]
    BY <1>2 DEF ParseLine, IsCategory
  <2>2. ParseLine(f, l) = [cats |-> f.cats, cur |-> <<>>]
    BY <1>0, <2>1
  <2> QED BY <2>2
<1>3. CASE l.is = "comment"
  <2>1. ParseLine(f, l) = f
    BY <1>3 DEF ParseLine, IsCategory
  <2> QED BY <2>1
<1>4. CASE IsCategory(l)
  <2> DEFINE path == CategoryPath(l)
             o == Opened(f.cats, path)
  <2>1. ParseLine(f, l) = [cats |-> o, cur |-> path]
    BY <1>4 DEF ParseLine, IsCategory
  <2>2. FieldsPlain(NoFields)
    BY DEF FieldsPlain, NoFields
  <2>3. \A c \in DOMAIN o : o[c] = NoFields \/ (c \in DOMAIN f.cats /\ o[c] = f.cats[c])
    BY DEF Opened
  <2> HIDE DEF o, path
  <2>4. ParseLine(f, l).cats = o
    BY <2>1
  <2> QED BY <2>2, <2>3, <2>4
<1>5. CASE l.is = "field" /\ ~IsCategory(l)
  <2> DEFINE cats == SetField(f.cats, f.cur, l.name, l.value)
             mine == Assigned(f.cats[f.cur], l.name, l.value)
  <2>1. ParseLine(f, l) = [f EXCEPT !.cats = cats]
    BY <1>5 DEF ParseLine, IsCategory
  <2>2. cats = [f.cats EXCEPT ![f.cur] = mine]
    BY DEF SetField
  <2>3. f.cur \in DOMAIN f.cats
    BY DEF FileOK
  <2>4. FieldsPlain(mine)
    <3>1. FieldsPlain(f.cats[f.cur])
      BY <2>3
    <3>2. /\ DOMAIN mine = {l.name} \union DOMAIN f.cats[f.cur]
          /\ \A x \in DOMAIN mine : mine[x] = IF x = l.name THEN l.value ELSE f.cats[f.cur][x]
      BY DEF Assigned
    <3> HIDE DEF mine
    <3> QED BY <1>5, <3>1, <3>2 DEF FieldsPlain
  <2> HIDE DEF mine, cats
  <2>5. \A c \in DOMAIN cats : FieldsPlain(cats[c])
    BY <2>2, <2>3, <2>4
  <2>6. ParseLine(f, l) = [cats |-> cats, cur |-> f.cur]
    BY <1>0, <2>1
  <2> QED BY <2>5, <2>6
<1> QED BY <1>1, <1>2, <1>3, <1>4, <1>5 DEF IsCategory

LEMMA ServerPlain ==
    ASSUME FileOK(ini), CatsPlain, NEW n \in Names("SERVERS"), ~ServerFails(n)
    PROVE  IndexOK(VirtualServer(n))
<1> DEFINE fs == Fields("SERVERS", n)
           rs == FieldOr(fs, "routes", <<>>)
           routes == [i \in DOMAIN rs |-> Route(rs[i])]
<1>1. \A i \in DOMAIN rs : rs[i] \in Names("ROUTES")
  BY EmptySeq, LenProperties DEF ServerFails, Has, FieldOr
<1>2. ASSUME NEW r \in Names("ROUTES")
      PROVE  Route(r).index \in Seq(Plain)
  <2>1. FieldsPlain(Fields("ROUTES", r))
    BY <1>2, NamedCategory DEF CatsPlain, Fields
  <2>2. \/ Route(r).index = <<>>
        \/ /\ "index" \in DOMAIN Fields("ROUTES", r)
           /\ Route(r).index = Fields("ROUTES", r)["index"]
    BY DEF Route, FieldOr
  <2> QED BY <2>1, <2>2, EmptySeq DEF FieldsPlain
<1>3. VirtualServer(n).routes = routes
  BY DEF VirtualServer
<1> HIDE DEF rs
<1>4. \A i \in DOMAIN routes : routes[i].index \in Seq(Plain)
  BY <1>1, <1>2
<1> HIDE DEF routes
<1> QED BY <1>3, <1>4 DEF IndexOK

LEMMA IndexesStep ==
    ASSUME PlainNames, SInv, CatsPlain, IndexesOK, [Next]_vars
    PROVE  CatsPlain' /\ IndexesOK'
<1>1. SetupType /\ FileOK(ini) /\ HaveListeners /\ site \in DOMAIN Sites
  BY DEF SInv, TInv, TypeOK, SetupType
<1>2. CatsPlain'
  <2>1. CASE ReadLine
    <3>1. line \in 1..Len(File) /\ ini' = ParseLine(ini, File[line])
      BY <1>1, <2>1 DEF ReadLine, SetupType
    <3>2. IsLine(File[line]) /\ DOMAIN File = 1..Len(File)
      <4>1. DOMAIN File = 1..Len(File) /\ \A i \in 1..Len(File) : IsLine(File[i])
        BY <1>1, SitesAssumption DEF IsSite, File
      <4> QED BY <3>1, <4>1
    <3> DEFINE l == File[line]
    <3>3. l.is = "field" /\ l.name = "index" => l.value \in Seq(Plain)
      BY <1>1, <3>1, <3>2 DEF PlainNames, HasPlainNames, File
    <3>4. ini' = ParseLine(ini, l) /\ IsLine(l)
      BY <3>1, <3>2
    <3> HIDE DEF l
    <3>5. \A c \in DOMAIN ParseLine(ini, l).cats : FieldsPlain(ParseLine(ini, l).cats[c])
      BY <1>1, <3>3, <3>4, LinePlain DEF CatsPlain
    <3> QED BY <3>4, <3>5 DEF CatsPlain
  <2>2. CASE ini' = ini
    BY <2>2 DEF CatsPlain
  <2>3. EndOfFile => ini' = ini
    BY DEF EndOfFile, setupVars
  <2> QED BY <2>1, <2>2, <2>3, LoadingSteps
<1>3. CASE vservers' = vservers
  BY <1>2, <1>3 DEF IndexesOK
<1>4. CASE AddVirtualServer
  <2>1. \A i \in DOMAIN vservers : vservers[i].lfd \in DOMAIN listeners
    BY <1>1 DEF HaveListeners
  <2> DEFINE n == NextServer
             V == [lfd : Nat, vs : ServerType]
  <2>2. n \in Names("SERVERS")
    <3>1. todo # {}
      BY <1>4 DEF AddVirtualServer
    <3> QED BY <1>1, <3>1, NextIs DEF SetupType
  <2>3. \/ vservers' = vservers
        \/ \E lfd :
              /\ ~ServerFails(n)
              /\ vservers' = Append(vservers, [lfd |-> lfd, vs |-> VirtualServer(n)])
    BY <1>1, <1>4, <2>1, ServerAdded DEF Joins, Opens, GivesUp
  <2>4. ASSUME NEW lfd, ~ServerFails(n),
               vservers' = Append(vservers, [lfd |-> lfd, vs |-> VirtualServer(n)])
        PROVE  IndexesOK'
    <3> DEFINE e == [lfd |-> lfd, vs |-> VirtualServer(n)]
               W == V \union {e}
    <3>1. vservers \in Seq(W) /\ e \in W
      <4>1. vservers \in Seq(V) /\ V \subseteq W
        BY <1>1 DEF SetupType
      <4> HIDE DEF V, W
      <4>2. DOMAIN vservers = 1..Len(vservers) /\ Len(vservers) \in Nat
            /\ \A i \in 1..Len(vservers) : vservers[i] \in W
        BY <4>1, LenProperties
      <4> QED BY <4>1, <4>2 DEF W
    <3>2. IndexOK(e.vs)
      BY <1>1, <2>2, <2>4, ServerPlain
    <3> HIDE DEF e, W
    <3>3. /\ DOMAIN Append(vservers, e) = DOMAIN vservers \union {Len(vservers) + 1}
          /\ Append(vservers, e)[Len(vservers) + 1] = e
          /\ \A i \in DOMAIN vservers : Append(vservers, e)[i] = vservers[i]
      BY <3>1, Appended
    <3>4. vservers' = Append(vservers, e)
      BY <2>4 DEF e
    <3>5. ASSUME NEW i \in DOMAIN vservers'
          PROVE  IndexOK(vservers'[i].vs)
      BY <3>2, <3>3, <3>4 DEF IndexesOK
    <3> QED BY <3>5 DEF IndexesOK, IndexOK
  <2> QED BY <1>2, <1>3, <2>3, <2>4
<1>5. AddVirtualServer \/ vservers' = vservers
  BY DEF Next, ReadLine, EndOfFile, Configure, ServeForever, Ask, Leave, ParseTarget,
         AnswerRequest, FollowLink, FollowRedirect, Request, Stopped, vars, setupVars
<1> QED BY <1>2, <1>3, <1>4, <1>5

\* The server of the request in work.
ServerFor == GetVirtualServer(Min(Listening(req.addr)), req.host)

\* An answer is that of a route to a path that URI::Parse lets through; a
\* target of plain characters is its own path.
Answered(x, v, target) ==
    /\ v # 0 /\ x.server = v /\ Clean(x.path) /\ AnswerOK(x, vservers[v].vs)
    /\ target \in Seq(Plain) /\ Rooted(target) => x.path = target
RespOK ==
    phase = "serve" =>
        \/ resp.route = 0 /\ resp.code \in {0, 400, 404}
        \/ Answered(resp, ServerFor, req.target)

\* What the route that made a link or a redirect has at its target.
Promised(route, target, goal) ==
    /\ target \in Seq(Plain) /\ Rooted(target)
    /\ ValidPath(target) => FileAt(route, target) = goal.file
    /\ goal.how = "link" => ~route.redirected /\ Exists(goal.file)
    /\ goal.how = "redirect" =>
           /\ ~route.redirected
           /\ \/ Exists(goal.file) /\ ~IsDirectory(goal.file)
              \/ route.index = <<>> /\ EndsWithSlash(goal.file)
Expected(goal, v, target) ==
    v # 0 /\ goal.route # 0 /\ Promised(vservers[v].vs.routes[goal.route], target, goal)
ViaOK ==
    /\ via.how \in {"ask", "link", "redirect"}
    /\ via.how # "ask" => phase \in {"parse", "serve", "undefined", "endless"}
    /\ via.how # "ask" /\ via.file # <<>> => Expected(via, ServerFor, req.target)

LInv == SInv /\ CatsPlain /\ IndexesOK /\ RespOK /\ ViaOK

LEMMA SameDisk ==
    ASSUME UNCHANGED setupVars
    PROVE  /\ \A p : Exists(p)' <=> Exists(p)
           /\ \A p : IsDirectory(p)' <=> IsDirectory(p)
  BY DEF setupVars, Exists, IsDirectory, Tree

LEMMA SameAnswers ==
    ASSUME UNCHANGED setupVars
    PROVE  /\ \A x, v, t : Answered(x, v, t)' <=> Answered(x, v, t)
           /\ \A x, v, t : Expected(x, v, t)' <=> Expected(x, v, t)
           /\ req'.addr = req.addr /\ req'.host = req.host => ServerFor' = ServerFor
<1>1. vservers' = vservers /\ listeners' = listeners
  BY DEF setupVars
<1>2. /\ \A p : Exists(p)' <=> Exists(p)
      /\ \A p : IsDirectory(p)' <=> IsDirectory(p)
  BY SameDisk
<1>3. \A route, x : Dispatched(route, x)' <=> Dispatched(route, x)
  BY <1>2 DEF Dispatched
<1>4. \A x, vs : AnswerOK(x, vs)' <=> AnswerOK(x, vs)
  BY <1>3 DEF AnswerOK, RoutedTo
<1>5. \A route, t, x : Promised(route, t, x)' <=> Promised(route, t, x)
  BY <1>2 DEF Promised
<1>6. \A x, v, t : Answered(x, v, t)' <=> Answered(x, v, t)
  BY <1>1, <1>4 DEF Answered
<1>7. \A x, v, t : Expected(x, v, t)' <=> Expected(x, v, t)
  BY <1>1, <1>5 DEF Expected
<1>8. req'.addr = req.addr /\ req'.host = req.host => ServerFor' = ServerFor
  BY <1>1 DEF ServerFor, Listening, GetVirtualServer, Candidates
<1> QED BY <1>6, <1>7, <1>8

\* While the request is served, what its client expects stays.
LEMMA StillExpected ==
    ASSUME ViaOK, UNCHANGED setupVars, req' = req, via' = via,
           phase' \in {"parse", "serve", "undefined", "endless"}
    PROVE  ViaOK'
<1>1. PICK goal, v, t : goal = via /\ v = ServerFor /\ t = req.target
  OBVIOUS
<1>2. ServerFor' = v /\ (Expected(goal, v, t)' <=> Expected(goal, v, t))
  BY <1>1, SameAnswers
<1>3. Expected(via, ServerFor, req.target)' <=> Expected(via, ServerFor, req.target)
  BY <1>1, <1>2 DEF Expected, Promised
<1> QED BY <1>3 DEF ViaOK

LEMMA FirstLinks ==
    ASSUME PlainNames, Init
    PROVE  LInv
<1>1. /\ phase = "load" /\ ini = NewFile /\ vservers = <<>> /\ via = Asked
  BY DEF Init
<1>2. CatsPlain
  BY <1>1 DEF CatsPlain, NewFile, NoFields, FieldsPlain
<1>3. IndexesOK
  BY <1>1, EmptySeq, LenProperties DEF IndexesOK
<1>4. RespOK /\ ViaOK
  BY <1>1 DEF RespOK, ViaOK, Asked
<1> QED BY <1>2, <1>3, <1>4, FirstServers DEF LInv

LEMMA SettingUp ==
    ASSUME LInv, ReadLine \/ EndOfFile \/ Configure \/ AddVirtualServer \/ ServeForever
    PROVE  RespOK' /\ ViaOK'
<1>1. /\ phase \in {"load", "configure", "add"} /\ via' = via /\ resp' = resp
      /\ phase' \in {"load", "configure", "add", "failed", "serve"}
  BY DEF ReadLine, EndOfFile, Configure, AddVirtualServer, ServeForever
<1>2. resp' = NoAnswer /\ via'.how = "ask"
  BY <1>1 DEF LInv, SInv, TInv, PhaseOK, ViaOK
<1>3. resp'.route = 0 /\ resp'.code = 0
  BY <1>2 DEF NoAnswer
<1> QED BY <1>2, <1>3 DEF RespOK, ViaOK

LEMMA Asking ==
    ASSUME LInv, Ask \/ Leave \/ ParseTarget \/ UNCHANGED vars
    PROVE  RespOK' /\ ViaOK'
<1>1. CASE Ask \/ Leave
  <2>1. via' = Asked /\ resp' = NoAnswer
    BY <1>1 DEF Ask, Leave, Request
  <2>2. resp'.route = 0 /\ resp'.code = 0 /\ via'.how = "ask"
    BY <2>1 DEF Asked, NoAnswer
  <2> QED BY <2>2 DEF RespOK, ViaOK
<1>2. CASE ParseTarget
  <2>1. phase' = "parse" /\ UNCHANGED setupVars /\ UNCHANGED <<req, via>>
    BY <1>2 DEF ParseTarget
  <2> QED BY <2>1, StillExpected DEF LInv, RespOK
<1>3. CASE UNCHANGED vars
  <2>1. UNCHANGED setupVars /\ UNCHANGED <<phase, req, via, resp>>
    BY <1>3 DEF vars
  <2>2. ViaOK'
    <3>1. CASE phase \in {"parse", "serve", "undefined", "endless"}
      BY <2>1, <3>1, StillExpected DEF LInv
    <3>2. CASE phase \notin {"parse", "serve", "undefined", "endless"}
      BY <2>1, <3>2 DEF LInv, ViaOK
    <3> QED BY <3>1, <3>2
  <2>3. PICK x, v, t : x = resp /\ v = ServerFor /\ t = req.target
    OBVIOUS
  <2>4. ServerFor' = v /\ (Answered(x, v, t)' <=> Answered(x, v, t))
    BY <2>1, <2>3, SameAnswers
  <2>5. Answered(resp, ServerFor, req.target)' <=> Answered(resp, ServerFor, req.target)
    <3>1. vservers' = vservers
      BY <2>1 DEF setupVars
    <3>2. \A vs : AnswerOK(resp, vs)' <=> AnswerOK(resp, vs)
      <4>1. \A p : (Exists(p)' <=> Exists(p)) /\ (IsDirectory(p)' <=> IsDirectory(p))
        BY <2>1, SameDisk
      <4>2. \A route : Dispatched(route, resp)' <=> Dispatched(route, resp)
        BY <2>1, <4>1 DEF Dispatched
      <4> QED BY <2>1, <4>2 DEF AnswerOK, RoutedTo
    <3> QED BY <2>1, <2>3, <2>4, <3>1, <3>2 DEF Answered
  <2> QED BY <2>1, <2>2, <2>5 DEF LInv, RespOK
<1> QED BY <1>1, <1>2, <1>3

LEMMA NowAnswered ==
    ASSUME UNCHANGED setupVars, req' = req, NEW y, resp' = y, Answered(y, ServerFor, req.target)
    PROVE  Answered(resp, ServerFor, req.target)'
<1>1. vservers' = vservers
  BY DEF setupVars
<1>2. PICK v, t : v = ServerFor /\ t = req.target
  OBVIOUS
<1>3. ServerFor' = v /\ Answered(y, v, t)
  BY <1>2, SameAnswers
<1>4. \A vs : AnswerOK(resp, vs)' <=> AnswerOK(y, vs)
  <2>1. \A p : (Exists(p)' <=> Exists(p)) /\ (IsDirectory(p)' <=> IsDirectory(p))
    BY SameDisk
  <2>2. \A route : Dispatched(route, resp)' <=> Dispatched(route, y)
    BY <2>1 DEF Dispatched
  <2> QED BY <2>2 DEF AnswerOK, RoutedTo
<1> QED BY <1>1, <1>2, <1>3, <1>4 DEF Answered

LEMMA Answering ==
    ASSUME LInv, AnswerRequest
    PROVE  RespOK' /\ ViaOK'
<1> DEFINE v == ServerFor
           path == parser.uri.path
           x == Resolve(vservers[v].vs, path)
<1>1. /\ phase = "parse" /\ ~parser.run /\ phase' \in {"serve", "undefined", "endless"}
      /\ UNCHANGED setupVars /\ UNCHANGED <<req, via>>
      /\ \/ phase' = "endless"
         \/ resp' = [NoAnswer EXCEPT !.do = "error", !.code = 400]
         \/ ~parser.err /\ v # 0 /\ resp' = [x EXCEPT !.server = v]
  BY DEF AnswerRequest, ServerFor
<1>2. /\ SetupType /\ req.target \in Seq(Char) /\ ParserOK(req.target, parser)
  BY <1>1 DEF LInv, SInv, TInv, TypeOK, RequestType, RequestOK
<1>3. ViaOK'
  BY <1>1, StillExpected DEF LInv
<1>4. CASE resp' = [NoAnswer EXCEPT !.do = "error", !.code = 400]
  <2>1. resp'.route = 0 /\ resp'.code = 400
    BY <1>4 DEF NoAnswer
  <2> QED BY <1>3, <2>1 DEF RespOK
<1>5. CASE ~parser.err /\ v # 0 /\ resp' = [x EXCEPT !.server = v]
  <2> DEFINE vs == vservers[v].vs
  <2>1. vs \in ServerType
    BY <1>2, <1>5, ServerChosen DEF ServerFor
  <2>2. Clean(path) /\ path = FinalPath(req.target) /\ path \in Seq(Char)
    BY <1>1, <1>2, <1>5, CleanPath, PathTyped
  <2>3. req.target \in Seq(Plain) /\ Rooted(req.target) => path = req.target
    BY <2>2, Straight
  <2> HIDE DEF vs, path
  <2>4. x = Resolve(vs, path)
    BY DEF vs
  <2> HIDE DEF x
  <2>5. IsAnswer(x) /\ x.path = path /\ (IF x.route = 0 THEN x.code = 404 ELSE AnswerOK(x, vs))
    BY <2>1, <2>2, <2>4, AnswerTyped, ResolveOK
  <2> HIDE DEF v
  <2>6. PICK y : y = [x EXCEPT !.server = v]
    OBVIOUS
  <2>7. /\ y.server = v /\ y.code = x.code /\ y.route = x.route /\ y.file = x.file
        /\ y.path = x.path /\ y.location = x.location
    BY <2>5, <2>6 DEF IsAnswer
  <2>8. CASE x.route = 0
    BY <1>3, <1>5, <2>5, <2>6, <2>7, <2>8 DEF RespOK
  <2>9. CASE x.route # 0
    <3>1. \A route : RoutedTo(route, x) => RoutedTo(route, y)
      BY <2>7 DEF RoutedTo, Dispatched
    <3>2. AnswerOK(y, vs)
      BY <2>5, <2>7, <2>9, <3>1 DEF AnswerOK
    <3>3. Answered(y, v, req.target)
      BY <1>5, <2>2, <2>3, <2>5, <2>7, <3>2 DEF Answered, vs
    <3>4. Answered(resp, ServerFor, req.target)'
      BY <1>1, <1>5, <2>6, <3>3, NowAnswered DEF v
    <3> QED BY <1>3, <3>4 DEF RespOK
  <2> QED BY <2>8, <2>9
<1>6. CASE phase' = "endless"
  BY <1>3, <1>6 DEF RespOK
<1> QED BY <1>1, <1>4, <1>5, <1>6

LEMMA NowExpected ==
    ASSUME UNCHANGED setupVars, phase' = "parse",
           NEW q, req' = q, q.addr = req.addr, q.host = req.host,
           NEW goal, via' = goal, goal.how \in {"link", "redirect"},
           goal.file # <<>> => Expected(goal, ServerFor, q.target)
    PROVE  ViaOK'
<1>1. PICK v : v = ServerFor
  OBVIOUS
<1>2. ServerFor' = v /\ (Expected(goal, v, q.target)' <=> Expected(goal, v, q.target))
  BY <1>1, SameAnswers
<1>3. Expected(via, ServerFor, req.target)' <=> Expected(goal, v, q.target)
  BY <1>1, <1>2 DEF Expected, Promised
<1> QED BY <1>1, <1>3 DEF ViaOK

\* The route of an answer that is not an error of the server itself.
LEMMA RouteOf ==
    ASSUME LInv, Answered(resp, ServerFor, req.target)
    PROVE  \E route \in RouteType :
              /\ route = vservers[ServerFor].vs.routes[resp.route]
              /\ route.index \in Seq(Plain) /\ RoutedTo(route, resp)
              /\ resp.route # 0 /\ ServerFor # 0 /\ resp.server = ServerFor /\ Clean(resp.path)
<1> DEFINE v == ServerFor
           vs == vservers[v].vs
           r == resp.route
           route == vs.routes[r]
<1>1. /\ v # 0 /\ resp.server = v /\ Clean(resp.path)
      /\ r \in DOMAIN vs.routes /\ RoutedTo(route, resp)
  BY DEF Answered, AnswerOK
<1>2. vs \in ServerType /\ v \in DOMAIN vservers
  BY <1>1, ServerChosen DEF ServerFor, LInv, SInv, TInv, TypeOK
<1>3. IndexOK(vs)
  BY <1>2 DEF LInv, IndexesOK
<1> HIDE DEF vs, v, r
<1>4. vs.routes \in Seq(RouteType)
  BY <1>2 DEF ServerType
<1>5. r # 0 /\ route \in RouteType /\ route.index \in Seq(Plain)
  <2> DEFINE s == vs.routes
  <2>1. s \in Seq(RouteType) /\ r \in DOMAIN s
    BY <1>1, <1>4
  <2> HIDE DEF s
  <2>2. DOMAIN s = 1..Len(s) /\ Len(s) \in Nat /\ \A i \in 1..Len(s) : s[i] \in RouteType
    BY <2>1, LenProperties
  <2>3. r # 0 /\ s[r] \in RouteType
    BY <2>1, <2>2
  <2> QED BY <1>1, <1>3, <2>3 DEF IndexOK, s
<1> QED BY <1>1, <1>5 DEF v, vs, r

LEMMA LinkFollowed ==
    ASSUME PlainNames, LInv, FollowLink
    PROVE  RespOK' /\ ViaOK'
<1> DEFINE path == resp.path
           straight == req.target = path /\ EndsWithSlash(path)
           Goal(n) == [how |-> "link", route |-> resp.route,
                       file |-> IF straight THEN resp.file \o n ELSE <<>>]
           Followed(n) == [req EXCEPT !.target = Base(req.target) \o n]
<1>1. /\ phase = "serve" /\ resp.code = 200
      /\ ~vservers[resp.server].vs.routes[resp.route].redirected
  BY DEF FollowLink, Listing, AnsweringRoute
<1>2. PICK n \in Links(resp.file) : Request(Followed(n), Goal(n))
  BY DEF FollowLink
<1>3. PICK goal, q : goal = Goal(n) /\ q = Followed(n)
  OBVIOUS
<1>4. /\ phase' = "parse" /\ req' = q /\ via' = goal /\ UNCHANGED setupVars
  BY <1>2, <1>3 DEF Request
<1>5. /\ req \in [addr : Char \union {"none"}, host : Seq(Char), target : Seq(Char)]
      /\ resp.file \in Seq(Char) /\ path \in Seq(Char) /\ SetupType
  BY DEF LInv, SInv, TInv, TypeOK, RequestType
<1>6. q.addr = req.addr /\ q.host = req.host /\ q.target = Base(req.target) \o n
  BY <1>3, <1>5
<1>7. goal.how = "link" /\ goal.route = resp.route
      /\ goal.file = IF straight THEN resp.file \o n ELSE <<>>
  BY <1>3
<1> HIDE DEF Goal, Followed, path
<1>8. ASSUME straight
      PROVE  Expected(goal, ServerFor, q.target)
  <2>1. Answered(resp, ServerFor, req.target)
    BY <1>1 DEF LInv, RespOK
  <2>2. PICK route \in RouteType :
           /\ route = vservers[ServerFor].vs.routes[resp.route] /\ resp.server = ServerFor
           /\ RoutedTo(route, resp) /\ resp.route # 0 /\ ServerFor # 0 /\ Clean(path)
    BY <2>1, RouteOf DEF path
  <2>3. /\ MatchPath(route.pattern, path) /\ resp.file = FileAt(route, path)
        /\ ~route.redirected
    BY <1>1, <2>2 DEF RoutedTo, path
  <2>4. path \in Seq(Plain) /\ Rooted(path) /\ EndsWithSlash(path)
    BY <1>8, <2>2, CleanIs
  <2>5. Base(req.target) = path
    BY <1>8, <2>4, BaseIs
  <2>6. /\ n \in Seq(Char) /\ n \in Seq(Plain) /\ n # <<>> /\ n[1] # "/"
        /\ Exists(resp.file \o n)
    BY <1>2, <1>5, LinkLeads
  <2> DEFINE t == path \o n
  <2>7. FileAt(route, t) = resp.file \o n
    BY <1>5, <2>3, <2>4, <2>6, FileLonger
  <2>8. t \in Seq(Plain) /\ Rooted(t)
    <3> DEFINE a == Len(path)
               b == Len(n)
    <3>1. a \in Nat /\ b \in Nat /\ a = Len(path) /\ b = Len(n) /\ 1 \in 1..a
          /\ path \in Seq(Plain) /\ n \in Seq(Plain)
      BY <2>4, <2>6, LenProperties, EmptySeq DEF Rooted
    <3> HIDE DEF a, b
    <3>2. t \in Seq(Plain) /\ Len(t) = a + b /\ \A i \in 1..a : t[i] = path[i]
      BY <3>1, Joined
    <3> HIDE DEF t
    <3>3. t # <<>>
      BY <3>1, <3>2, EmptySeq
    <3> QED BY <2>4, <3>1, <3>2, <3>3 DEF Rooted
  <2>9. q.target = t /\ goal.file = resp.file \o n
    BY <1>6, <1>7, <1>8, <2>5
  <2> HIDE DEF t
  <2>10. Promised(route, q.target, goal)
    BY <1>7, <2>3, <2>6, <2>7, <2>8, <2>9 DEF Promised
  <2> QED BY <1>7, <2>2, <2>10 DEF Expected
<1>9. goal.file # <<>> => Expected(goal, ServerFor, q.target)
  BY <1>7, <1>8
<1>10. ViaOK'
  BY <1>4, <1>6, <1>7, <1>9, NowExpected
<1> QED BY <1>4, <1>10 DEF RespOK

LEMMA RedirectFollowed ==
    ASSUME LInv, FollowRedirect
    PROVE  RespOK' /\ ViaOK'
<1> DEFINE asked == vservers[resp.server].vs.routes[resp.route]
           own == ~asked.redirected
           page == AppendPath(resp.file, asked.index)
<1>1. /\ phase = "serve" /\ resp.code \in {301, 302}
      /\ resp.location # <<>> /\ resp.location[1] = "/"
      /\ Request([req EXCEPT !.target = resp.location],
                 [how |-> "redirect", route |-> resp.route,
                  file |-> IF own THEN page ELSE <<>>])
  BY DEF FollowRedirect, AnsweringRoute
<1>2. PICK goal, q : /\ goal = [how |-> "redirect", route |-> resp.route,
                               file |-> IF own THEN page ELSE <<>>]
                     /\ q = [req EXCEPT !.target = resp.location]
  OBVIOUS
<1>3. /\ phase' = "parse" /\ req' = q /\ via' = goal /\ UNCHANGED setupVars
  BY <1>1, <1>2 DEF Request
<1>4. /\ req \in [addr : Char \union {"none"}, host : Seq(Char), target : Seq(Char)]
      /\ resp.file \in Seq(Char) /\ resp.path \in Seq(Char)
  BY DEF LInv, SInv, TInv, TypeOK, RequestType
<1>5. q.addr = req.addr /\ q.host = req.host /\ q.target = resp.location
  BY <1>2, <1>4
<1> HIDE DEF page, own
<1>6. goal.how = "redirect" /\ goal.route = resp.route
      /\ goal.file = IF own THEN page ELSE <<>>
  BY <1>2
<1>7. ASSUME own
      PROVE  Expected(goal, ServerFor, q.target)
  <2>1. Answered(resp, ServerFor, req.target)
    BY <1>1 DEF LInv, RespOK
  <2>2. PICK route \in RouteType :
           /\ route = vservers[ServerFor].vs.routes[resp.route]
           /\ route.index \in Seq(Plain) /\ RoutedTo(route, resp)
           /\ resp.route # 0 /\ ServerFor # 0 /\ resp.server = ServerFor /\ Clean(resp.path)
    BY <2>1, RouteOf
  <2>3. ~route.redirected /\ page = AppendPath(resp.file, route.index)
    BY <1>7, <2>2 DEF own, page
  <2> DEFINE location == AppendPath(resp.path, route.index)
  <2>4. /\ MatchPath(route.pattern, resp.path) /\ resp.file = FileAt(route, resp.path)
        /\ resp.code = 302 /\ resp.location = location
        /\ \/ Exists(page) /\ ~IsDirectory(page)
           \/ route.index = <<>>
    <3>1. /\ MatchPath(route.pattern, resp.path) /\ resp.file = FileAt(route, resp.path)
          /\ Dispatched(route, resp)
      BY <2>2, <2>3 DEF RoutedTo
    <3>2. resp.code = 302
      BY <1>1, <3>1 DEF Dispatched
    <3>3. /\ resp.location = location
          /\ \/ Exists(AppendPath(resp.file, route.index))
                /\ ~IsDirectory(AppendPath(resp.file, route.index))
             \/ route.index = <<>>
      BY <3>1, <3>2 DEF Dispatched
    <3> QED BY <2>3, <3>1, <3>2, <3>3
  <2>5. /\ location \in Seq(Plain)
        /\ ValidPath(location) => FileAt(route, location) = page
    <3>1. PICK path : path = resp.path
      OBVIOUS
    <3>2. /\ route.index \in Seq(Plain) /\ path \in Seq(Char) /\ Clean(path)
          /\ MatchPath(route.pattern, path)
      BY <1>4, <2>2, <2>4, <3>1
    <3>3. /\ AppendPath(path, route.index) \in Seq(Plain)
          /\ ValidPath(AppendPath(path, route.index)) =>
                 FileAt(route, AppendPath(path, route.index))
                     = AppendPath(FileAt(route, path), route.index)
      BY <3>2, LocationIs
    <3> QED BY <2>3, <2>4, <3>1, <3>3
  <2>6. Rooted(resp.location)
    BY <1>1 DEF Rooted
  <2>7. route.index = <<>> => EndsWithSlash(page)
    <3> SUFFICES ASSUME route.index = <<>> PROVE EndsWithSlash(page)
      OBVIOUS
    <3> DEFINE s == StripSlashes(resp.file)
               x == <<"/">>
               a == Len(s)
               c == 1
    <3>1. s \in Seq(Char) /\ x \in Seq(Char) /\ c = Len(x) /\ x[1] = "/"
          /\ a \in Nat /\ a = Len(s) /\ c \in Nat
      <4>1. s \in Seq(Char)
        BY <1>4, StrippedTyped
      <4>2. x \in Seq(Char)
        BY CharAssumption
      <4> HIDE DEF s
      <4> QED BY <4>1, <4>2, LenProperties
    <3>2. page = (s \o x) \o <<>>
      BY <2>3 DEF AppendPath
    <3> HIDE DEF s, x, a, c
    <3>3. /\ s \o x \in Seq(Char) /\ Len(s \o x) = a + c
          /\ \A i \in 1..c : (s \o x)[a + i] = x[i]
      BY <3>1, Joined
    <3>4. page = s \o x
      BY <3>2, <3>3, ConcatEmptySeq
    <3>5. c = 1 /\ 1 \in 1..c
      BY DEF c
    <3>6. page[a + c] = "/" /\ Len(page) = a + c /\ page \in Seq(Char)
      BY <3>1, <3>3, <3>4, <3>5
    <3>7. page # <<>>
      BY <3>1, <3>5, <3>6, EmptySeq
    <3> QED BY <3>6, <3>7 DEF EndsWithSlash
  <2> HIDE DEF location
  <2>8. Promised(route, q.target, goal)
    BY <1>5, <1>6, <1>7, <2>3, <2>4, <2>5, <2>6, <2>7 DEF Promised
  <2> QED BY <1>6, <2>2, <2>8 DEF Expected
<1>8. goal.file # <<>> => Expected(goal, ServerFor, q.target)
  BY <1>6, <1>7
<1>9. ViaOK'
  BY <1>3, <1>5, <1>6, <1>8, NowExpected
<1> QED BY <1>3, <1>9 DEF RespOK

LEMMA LinksStep ==
    ASSUME PlainNames, LInv, [Next]_vars
    PROVE  LInv'
<1>1. SInv'
  BY ServersStep DEF LInv
<1>2. CatsPlain' /\ IndexesOK'
  BY IndexesStep DEF LInv
<1>3. RespOK' /\ ViaOK'
  BY SettingUp, Asking, Answering, LinkFollowed, RedirectFollowed DEF Next, Stopped
<1> QED BY <1>1, <1>2, <1>3 DEF LInv

\* What a followed link or redirect has got.
LEMMA Arrived ==
    ASSUME LInv, phase = "serve", via.how # "ask", via.file # <<>>, resp.route = via.route
    PROVE  \E route : /\ resp.file = via.file /\ RoutedTo(route, resp)
                      /\ Promised(route, req.target, via)
<1>1. Expected(via, ServerFor, req.target) /\ resp.route # 0
  BY DEF LInv, ViaOK, Expected
<1>2. Answered(resp, ServerFor, req.target)
  BY <1>1 DEF LInv, RespOK
<1>3. PICK route : route = vservers[ServerFor].vs.routes[resp.route]
  OBVIOUS
<1>4. Promised(route, req.target, via) /\ RoutedTo(route, resp) /\ Clean(resp.path)
  BY <1>1, <1>2, <1>3 DEF Expected, Answered, AnswerOK
<1>5. resp.path = req.target
  BY <1>2, <1>4 DEF Answered, Promised
<1>6. ValidPath(req.target)
  BY <1>4, <1>5 DEF Clean
<1>7. resp.file = via.file
  BY <1>4, <1>5, <1>6 DEF Promised, RoutedTo
<1> QED BY <1>4, <1>7

\* A link of a directory listing (webserver_listing.cc), whose names hold
\* nothing that would have to be escaped and no colon, leads to the file or directory it
\* names, if the same route serves it.
THEOREM ListingLinksLead ==
    ASSUME PlainNames
    PROVE  Spec => []LinksLead
<1>1. LInv => LinksLead
  <2> SUFFICES ASSUME LInv, phase = "serve", via.how = "link", via.file # <<>>,
                      resp.route = via.route
               PROVE  /\ resp.file = via.file /\ Exists(resp.file)
                      /\ resp.code # 404 \/ IsDirectory(resp.file)
    BY DEF LinksLead
  <2>1. PICK route : /\ resp.file = via.file /\ RoutedTo(route, resp)
                     /\ Promised(route, req.target, via)
    BY Arrived
  <2>2. ~route.redirected /\ Exists(resp.file)
    BY <2>1 DEF Promised
  <2>3. resp.code = 404 => IsDirectory(resp.file)
    BY <2>1, <2>2 DEF RoutedTo, Dispatched
  <2> QED BY <2>1, <2>2, <2>3
<1>2. Init => LInv
  BY PlainNames, FirstLinks
<1>3. LInv /\ [Next]_vars => LInv'
  BY PlainNames, LinksStep
<1> QED BY <1>1, <1>2, <1>3, PTL DEF Spec

\* The redirect of a directory, to its index page or to its own name with a
\* slash (webserver_http.cc, HandleDirectoryResource), leads there and to no
\* other redirect.
THEOREM DirectoryRedirectsLead ==
    ASSUME PlainNames
    PROVE  Spec => []RedirectsLead
<1>1. LInv => RedirectsLead
  <2> SUFFICES ASSUME LInv, phase = "serve", via.how = "redirect", via.file # <<>>,
                      resp.route = via.route
               PROVE  resp.file = via.file /\ resp.code # 302
    BY DEF RedirectsLead
  <2>1. PICK route : /\ resp.file = via.file /\ RoutedTo(route, resp)
                     /\ Promised(route, req.target, via)
    BY Arrived
  <2>2. /\ ~route.redirected
        /\ \/ Exists(resp.file) /\ ~IsDirectory(resp.file)
           \/ route.index = <<>> /\ EndsWithSlash(resp.file)
    BY <2>1 DEF Promised
  <2>3. resp.code # 302
    BY <2>1, <2>2 DEF RoutedTo, Dispatched
  <2> QED BY <2>1, <2>3
<1>2. Init => LInv
  BY PlainNames, FirstLinks
<1>3. LInv /\ [Next]_vars => LInv'
  BY PlainNames, LinksStep
<1> QED BY <1>1, <1>2, <1>3, PTL DEF Spec
===============================================================================
