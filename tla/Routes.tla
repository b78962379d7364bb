------------------------------- MODULE Routes -------------------------------
(***************************************************************************)
(* How the server names things: patterns of host names (common/match.cc),  *)
(* routes and the paths of files (netlib/webserver/webserver_http.cc,      *)
(* common/file.cc).  Paths and names are sequences of characters.          *)
(***************************************************************************)
EXTENDS Naturals, Sequences, FiniteSetsExt

IsPrefixOf(s, t) == Len(s) <= Len(t) /\ SubSeq(t, 1, Len(s)) = s

-----------------------------------------------------------------------------
(* Match *)

\* reg.find("]"), and 0 if there is none.
FirstClose(reg) ==
    LET closes == {k \in DOMAIN reg : reg[k] = "]"}
    IN  IF closes = {} THEN 0 ELSE Min(closes)

\* The block at i ends before the first "]" of the pattern, or with the pattern
\* if that one is not behind i.
BlockEnd(reg, i) == IF FirstClose(reg) > i THEN FirstClose(reg) - 1 ELSE Len(reg)
BlockStop(reg, i) ==
    Min({BlockEnd(reg, i) + 1} \union {k \in i..BlockEnd(reg, i) : reg[k] = "]"})

\* Where the tokens of the block begin and end: they are separated by "|", and
\* those that begin with "[" lose it.
Tokens(reg, i) ==
    {t \in (i..BlockEnd(reg, i)) \X (i..BlockStop(reg, i)) :
        /\ t[1] < t[2] /\ reg[t[1]] \notin {"[", "|"}
        /\ \E s \in i..t[1] : /\ s = i \/ reg[s - 1] = "|"
                              /\ \A k \in s..(t[1] - 1) : reg[k] = "["
        /\ \A k \in t[1]..(t[2] - 1) : reg[k] # "|"
        /\ t[2] = BlockStop(reg, i) \/ reg[t[2]] = "|"}

\* The first token that str goes on with is taken; a "]" in the block is an
\* empty token.  0 stands for npos.
TryBlock(reg, str, i, j) ==
    LET fits == {t \in Tokens(reg, i) :
                    IsPrefixOf(SubSeq(reg, t[1], t[2] - 1), SubSeq(str, j, Len(str)))}
        t    == CHOOSE t \in fits : \A u \in fits : t[1] <= u[1]
    IN  IF fits # {} THEN j + (t[2] - t[1])
        ELSE IF BlockStop(reg, i) <= BlockEnd(reg, i) THEN j ELSE 0

\* Match(reg, str, i, j); "*" stands for any string.  m has the answers of the
\* calls it makes.  After a block it goes on behind the first "]" of the
\* pattern: behind a second block that is back, and a call that has come back
\* there before with as little of str left (back) will do so for ever.
MatchFrom(m, reg, str, i, j, back) ==
    LET more == i <= Len(reg)
        left == j <= Len(str)
        next == FirstClose(reg) + 1
        to   == TryBlock(reg, str, i, j)
        Else(answer, other) == IF answer = "no" THEN other ELSE answer
    IN  CASE more /\ left /\ reg[i] = "*"    -> Else(m[<<i, j + 1, back>>], m[<<i + 1, j, back>>])
          [] more /\ left /\ reg[i] # "*" /\ str[j] = reg[i] -> m[<<i + 1, j + 1, back>>]
          [] more /\ reg[i] = "[" /\ (left => str[j] # "[") ->
                 IF to = 0 THEN "no" ELSE IF next > i THEN m[<<next, to, back>>]
                 ELSE IF to = back THEN "endless" ELSE m[<<next, to, to>>]
          [] ~more /\ ~left                  -> "yes"
          [] more /\ ~left /\ reg[i] = "*"   -> m[<<i + 1, j, back>>]
          [] OTHER                           -> "no"

Calls(reg, str) ==
    (1..(Len(reg) + 1)) \X (1..(Len(str) + 1)) \X (0..(Len(str) + 1))

\* "yes", "no", or "endless": the recursion has no end.
Match(reg, str) ==
    LET m[c \in Calls(reg, str)] == MatchFrom(m, reg, str, c[1], c[2], c[3])
    IN  m[<<1, 1, 0>>]

-----------------------------------------------------------------------------
(* What a pattern means *)

\* The positions inside a block that begins at i or later, its "]" included.
Inside(reg, i) ==
    {k \in DOMAIN reg : \E b \in i..(k - 1) :
        reg[b] = "[" /\ \A l \in b..(k - 1) : reg[l] # "]"}

Alternatives(reg) ==
    {SubSeq(reg, t[1], t[2] - 1) : t \in {u \in (DOMAIN reg) \X Inside(reg, 1) :
        /\ 1 < u[1] /\ u[1] < u[2]
        /\ reg[u[1] - 1] \in {"[", "|"} /\ reg[u[2]] \in {"|", "]"}
        /\ \A k \in u[1]..(u[2] - 1) : reg[k] \notin {"[", "|", "]"}}}

\* No block, or one of which no alternative begins with another.
Readable(reg) ==
    \/ \A k \in DOMAIN reg : reg[k] # "["
    \/ /\ \E b, e \in DOMAIN reg :
              b < e /\ \A k \in DOMAIN reg : (reg[k] = "[" <=> k = b) /\ (reg[k] = "]" <=> k = e)
       /\ \A s, t \in Alternatives(reg) : IsPrefixOf(s, t) => s = t

\* The elements of a pattern are its characters and its block.
NextElement(reg, i) == IF reg[i] = "[" THEN FirstClose(reg) + 1 ELSE i + 1

\* str from j up to k is a piece for the element at i.
Piece(reg, str, i, j, k) ==
    /\ j <= k
    /\ reg[i] = "[" => SubSeq(str, j, k - 1) \in Alternatives(reg)
    /\ reg[i] \notin {"*", "["} => k = j + 1 /\ str[j] = reg[i]

\* str can be cut into one piece per element of reg.
Covers(reg, str) ==
    \E cut \in [1..(Len(reg) + 1) -> 1..(Len(str) + 1)] :
        /\ cut[1] = 1 /\ cut[Len(reg) + 1] = Len(str) + 1
        /\ \A i \in DOMAIN reg \ Inside(reg, 1) :
               Piece(reg, str, i, cut[i], cut[NextElement(reg, i)])

-----------------------------------------------------------------------------
(* Paths *)

\* The length of the longest common prefix.
PathDiffer(pattern, path) ==
    Max({n \in 0..Len(pattern) : n <= Len(path) /\ SubSeq(pattern, 1, n) = SubSeq(path, 1, n)})

MatchPath(pattern, path) == Len(pattern) = PathDiffer(pattern, path)

\* As if a slash always followed the pattern.
RestOfPath(pattern, path) ==                                   \* mutant
    SubSeq(path, PathDiffer(pattern, path) + 2, Len(path))

\* From the first segment that the pattern does not name as a whole.
GetRelativePathFromPattern(pattern, path) ==
    LET diff    == PathDiffer(pattern, path)
        slashes == {i \in 1..Len(path) : i <= diff + 1 /\ path[i] = "/"}
    IN  IF Len(path) = diff \/ slashes = {} THEN <<>>
        ELSE SubSeq(path, Max(slashes) + 1, Len(path))

StripSlashes(path) ==
    SubSeq(path, 1, Max({0} \union {i \in DOMAIN path : path[i] # "/"}))

JoinAsIs(dir, base)   == dir \o base                           \* mutant
AppendPath(dir, base) == StripSlashes(dir) \o <<"/">> \o base

EndsWithSlash(path) == path # <<>> /\ path[Len(path)] = "/"
=============================================================================
