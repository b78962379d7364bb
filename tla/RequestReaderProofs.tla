------------------------- MODULE RequestReaderProofs -------------------------
(***************************************************************************)
(* Proofs about RequestReader, for any streams: no substr of the reader is *)
(* given an index beyond its buffer, the buffer is always the end of what  *)
(* was read, and the message found is the one that the whole stream holds, *)
(* however the stream is cut into pieces.                                  *)
(***************************************************************************)
EXTENDS RequestFraming, ReaderBufferProofs

\* Beyond BufferOK: the index is 0 in the states that compare it with the
\* beginning of the buffer.
ReaderOK == /\ st \in State /\ run \in BOOLEAN /\ size \in Nat
            /\ req \in [by : Framing, body : Seq(Symbol)]
            /\ st \in {"READ_CHUNK_DATA", "SKIP_CRLF_CHUNK_DATA",
                       "READ_BODY_CONTENT_LENGTH"} => i = 0

IInv == BufferOK /\ ReaderOK

-----------------------------------------------------------------------------
LEMMA ParsesTo ==
    ASSUME NEW meta
    PROVE  ParseMetaPart(meta) \in Framing \union {"error"}
  BY DEF ParseMetaPart, Framing

LEMMA SizesNat ==
    ASSUME NEW text
    PROVE  ChunkSizes(text) \subseteq Nat
  BY UnsetAssumption DEF ChunkSizes, Value

LEMMA ProcessStep ==
    ASSUME IInv, Process
    PROVE  IInv'
<1>1. /\ BufferOK /\ ReaderOK /\ UNCHANGED <<rest, fed>>
      /\ buf \in Seq(Symbol) /\ i \in Nat /\ i <= Len(buf) /\ i \in 0..Len(buf)
      /\ Len(buf) \in Nat /\ size \in Nat /\ run \in BOOLEAN /\ st \in State
      /\ req \in [by : Framing, body : Seq(Symbol)]
  BY LenProperties DEF IInv, BufferOK, ReaderOK, Process
\* A step that only advances or only flushes, and keeps the request.
<1>3. ASSUME NEW next \in {"SKIP_EMPTY_LINES", "SKIP_CRLF_EMPTY_LINES", "BUFF_META",
                           "BUFF_META_LINE", "PARSE_META", "BUFF_CHUNK_SIZE",
                           "PARSE_CHUNK_SIZE"},
             Advance(next), i < Len(buf), UNCHANGED <<run, size, req>>
      PROVE  IInv'
  <2>1. BufferOK' /\ st' = next
    BY <1>1, <1>3, AdvanceStep
  <2>2. ReaderOK'
    BY <1>1, <1>3, <2>1 DEF ReaderOK, State
  <2> QED BY <2>1, <2>2 DEF IInv
<1>4. ASSUME NEW n \in 0..Len(buf), NEW next \in State,
             Flush(n, next), run' \in BOOLEAN, size' \in Nat,
             req' \in [by : Framing, body : Seq(Symbol)]
      PROVE  IInv'
  <2>1. BufferOK' /\ i' = 0 /\ st' = next
    BY <1>1, <1>4, FlushStep
  <2>2. ReaderOK'
    BY <1>4, <2>1 DEF ReaderOK
  <2> QED BY <2>1, <2>2 DEF IInv
<1>5. ASSUME UNCHANGED <<buf, i, size>>, run' \in BOOLEAN, UNCHANGED <<st, req>>
      PROVE  IInv'
  <2>1. BufferOK'
    BY <1>1, <1>5, StayStep
  <2> QED BY <1>1, <1>5, <2>1 DEF IInv, ReaderOK
<1>6. CASE SkipEmptyLines
  BY <1>1, <1>3, <1>4, <1>6 DEF SkipEmptyLines, In, IsMetaState, State
<1>7. CASE SkipCrlfEmptyLines
  BY <1>1, <1>3, <1>4, <1>7 DEF SkipCrlfEmptyLines, In, IsMetaState, State
<1>8. CASE BuffMeta
  <2>1. CASE st' = "BUFF_META_LINE" /\ UNCHANGED <<buf, i>>
    <3>1. BufferOK'
      BY <1>1, <2>1, StayStep
    <3> QED BY <1>1, <1>8, <2>1, <3>1 DEF BuffMeta, IInv, ReaderOK, State
  <2>2. CASE Advance("PARSE_META") \/ Advance("BUFF_META")
    BY <1>1, <1>3, <1>8, <2>2 DEF BuffMeta, In, IsMetaState
  <2> QED BY <1>8, <2>1, <2>2 DEF BuffMeta
<1>9. CASE BuffMetaLine
  BY <1>1, <1>3, <1>9 DEF BuffMetaLine, In, IsMetaState
<1>10. CASE ParseMeta
  <2> DEFINE by == ParseMetaPart(Front(buf, i))
  <2>1. by \in Framing \union {"error"}
    BY ParsesTo
  <2> HIDE DEF by
  <2>2. \E next \in {"ERROR_OCCURED", "BUFF_CHUNK_SIZE", "READ_BODY_CONTENT_LENGTH",
                     "HAVE_MESSAGE"} : Flush(i, next)
    BY <1>10 DEF ParseMeta
  <2>3. run' \in BOOLEAN /\ size' = size /\ (req' = req \/ req' = [req EXCEPT !.by = by])
    BY <1>1, <1>10 DEF ParseMeta, by
  <2>4. by = "error" => req' = req
    BY <1>10 DEF ParseMeta, by
  <2>5. req' \in [by : Framing, body : Seq(Symbol)]
    BY <1>1, <2>1, <2>3, <2>4
  <2> QED BY <1>1, <1>4, <2>2, <2>3, <2>5 DEF State
<1>11. CASE BuffChunkSize
  BY <1>1, <1>3, <1>11 DEF BuffChunkSize, In, IsMetaState
<1>12. CASE ParseChunkSize
  <2>1. size' \in Nat
    BY <1>12, SizesNat DEF ParseChunkSize
  <2> QED BY <1>1, <1>4, <1>12, <2>1 DEF ParseChunkSize, State
<1>13. CASE ReadChunkData
  <2>1. CASE Len(buf) >= size
    <3>1. size \in 0..Len(buf)
      BY <1>1, <2>1
    <3>2. /\ req' = [req EXCEPT !.body = @ \o Front(buf, size)]
          /\ Flush(size, "SKIP_CRLF_CHUNK_DATA") /\ run' = run /\ size' = size
      BY <1>13, <2>1 DEF ReadChunkData
    <3>3. req.body \o Front(buf, size) \in Seq(Symbol)
      BY <1>1, <3>1, FrontType
    <3>4. req' \in [by : Framing, body : Seq(Symbol)]
      BY <1>1, <3>2, <3>3
    <3> QED BY <1>1, <1>4, <3>1, <3>2, <3>4 DEF State
  <2>2. CASE ~(Len(buf) >= size)
    BY <1>5, <1>13, <2>2 DEF ReadChunkData
  <2> QED BY <2>1, <2>2
<1>14. CASE SkipCrlfChunkData
  <2> DEFINE next == IF size = 0 THEN "HAVE_MESSAGE" ELSE "BUFF_CHUNK_SIZE"
  <2>1. i = 0 /\ Len(buf) > 0
    BY <1>1, <1>14 DEF SkipCrlfChunkData, In, IsMetaState, ReaderOK
  <2>2. next \in State
    BY DEF State
  <2> HIDE DEF next
  <2>3. UNCHANGED <<size, req>>
    BY <1>14 DEF SkipCrlfChunkData
  <2>4. CASE Flush(i + 1, next) /\ run' = (size # 0)
    BY <1>1, <1>4, <2>1, <2>2, <2>3, <2>4
  <2>5. CASE Len(buf) > 1 /\ Flush(i + 2, next) /\ run' = (size # 0)
    BY <1>1, <1>4, <2>1, <2>2, <2>3, <2>5
  <2>6. CASE run' = FALSE /\ UNCHANGED <<buf, i, st>>
    BY <1>5, <2>3, <2>6
  <2>7. CASE st' = "ERROR_OCCURED" /\ run' = FALSE /\ UNCHANGED <<buf, i>>
    <3>1. BufferOK'
      BY <1>1, <2>7, StayStep
    <3> QED BY <1>1, <2>3, <2>7, <3>1 DEF IInv, ReaderOK, State
  <2> QED BY <1>14, <2>4, <2>5, <2>6, <2>7 DEF SkipCrlfChunkData, next
<1>15. CASE ReadBodyContentLength
  <2>1. CASE Len(buf) >= Length
    <3>1. Length \in 0..Len(buf)
      BY <1>1, <2>1, StreamAssumption
    <3>2. /\ req' = [req EXCEPT !.body = Front(buf, Length)]
          /\ Flush(Length, "HAVE_MESSAGE") /\ run' = FALSE /\ size' = size
      BY <1>15, <2>1 DEF ReadBodyContentLength
    <3>3. req' \in [by : Framing, body : Seq(Symbol)]
      BY <1>1, <3>1, <3>2, FrontType
    <3> QED BY <1>1, <1>4, <3>1, <3>2, <3>3 DEF State
  <2>2. CASE ~(Len(buf) >= Length)
    BY <1>5, <1>15, <2>2 DEF ReadBodyContentLength
  <2> QED BY <2>1, <2>2
<1>16. CASE Break
  BY <1>5, <1>16 DEF Break
<1> QED BY <1>6, <1>7, <1>8, <1>9, <1>10, <1>11, <1>12, <1>13, <1>14, <1>15, <1>16
        DEF Process

-----------------------------------------------------------------------------
\* The reader's index never leaves its buffer, and its buffer is always the end
\* of what was read: the inductive invariant of the state machine.
THEOREM ReaderInvariant == Spec => []IInv
<1>1. Init => IInv
  <2> SUFFICES ASSUME Init PROVE IInv
    OBVIOUS
  <2>1. BufferOK /\ st = "SKIP_EMPTY_LINES" /\ run = FALSE
    BY BufferStarts DEF Init
  <2>2. size \in Nat /\ req = NoRequest
    BY UnsetAssumption DEF Init
  <2>3. <<>> \in Seq(Symbol)
    OBVIOUS
  <2> QED BY <2>1, <2>2, <2>3 DEF IInv, ReaderOK, NoRequest, State, Framing
<1>2. IInv /\ [Next]_vars => IInv'
  <2> SUFFICES ASSUME IInv, [Next]_vars PROVE IInv'
    OBVIOUS
  <2>1. CASE Process
    BY <2>1, ProcessStep
  <2>2. CASE Read
    <3>1. BufferOK' /\ i' = i /\ st' = st /\ run' = TRUE /\ UNCHANGED <<size, req>>
      BY <2>2, FeedStep DEF IInv, Read
    <3> QED BY <3>1 DEF IInv, ReaderOK
  <2>3. CASE Reset
    <3>1. BufferOK'
      BY <2>3, ClearStep DEF IInv, Reset
    <3>2. <<>> \in Seq(Symbol)
      OBVIOUS
    <3> QED BY <2>3, <3>1, <3>2 DEF Reset, IInv, ReaderOK, NoRequest, State, Framing
  <2>4. CASE UNCHANGED vars
    <3>1. BufferOK'
      BY <2>4, StayStep DEF IInv, vars, bufferVars
    <3> QED BY <2>4, <3>1 DEF vars, bufferVars, IInv, ReaderOK
  <2> QED BY <2>1, <2>2, <2>3, <2>4 DEF Next
<1> QED BY <1>1, <1>2, PTL DEF Spec

\* Every variable of the reader keeps its type.
THEOREM ReaderTypeCorrect == Spec => []TypeOK
<1>1. IInv => TypeOK
  BY DEF IInv, BufferOK, ReaderOK, TypeOK
<1> QED BY <1>1, ReaderInvariant, PTL

\* No substr of the reader throws, whatever is read and however it is cut.
THEOREM NoSubstrThrows == Spec => []NeverOutOfRange
<1>1. IInv => NeverOutOfRange
  BY DEF IInv, ReaderOK, State, NeverOutOfRange
<1> QED BY <1>1, ReaderInvariant, PTL

\* No byte is dropped, repeated or moved between two pieces.
THEOREM NoByteMoved == Spec => []BufferIsSuffix
<1>1. IInv => BufferIsSuffix
  BY DEF IInv, BufferOK
<1> QED BY <1>1, ReaderInvariant, PTL

-----------------------------------------------------------------------------
(* The recursion of Chunks.  What Chunks says of a stream depends on what it *)
(* says of shorter ones only, so that its equation has a solution: there is  *)
(* one for the streams shorter than n, whatever n, and they agree.           *)

Pairs     == Seq(Symbol) \X Seq(Symbol)
Below(n)  == {p \in Pairs : Len(p[1]) < n}
Agree(f, g, n) == \A r \in Pairs : Len(r[1]) < n => f[r] = g[r]
Solves(f, n) == f = [p \in Below(n) |-> NextChunk(f, p[1], p[2])]

LEMMA AfterDataLocal ==
    ASSUME NEW f, NEW g, NEW m \in Nat, NEW q \in Seq(Symbol), NEW n, NEW more \in Seq(Symbol),
           Len(q) <= m, Agree(f, g, m)
    PROVE  AfterData(f, q, n, more) = AfterData(g, q, n, more)
<1>1. CASE q = <<>>
  BY <1>1 DEF AfterData
<1>2. CASE q # <<>>
  <2>1. Len(q) \in Nat /\ Len(q) > 0
    BY <1>2, EmptySeq
  <2>2. f[<<Drop(q, 1), more>>] = g[<<Drop(q, 1), more>>]
    <3>1. 1 \in 0..Len(q)
      BY <2>1
    <3>2. Drop(q, 1) \in Seq(Symbol) /\ Len(Drop(q, 1)) < m
      BY <2>1, <3>1, DropType
    <3>3. <<Drop(q, 1), more>> \in Pairs
      BY <3>2 DEF Pairs
    <3> QED BY <3>2, <3>3 DEF Agree
  <2>3. Len(q) > 1 => f[<<Drop(q, 2), more>>] = g[<<Drop(q, 2), more>>]
    <3> SUFFICES ASSUME Len(q) > 1 PROVE f[<<Drop(q, 2), more>>] = g[<<Drop(q, 2), more>>]
      OBVIOUS
    <3>1. 2 \in 0..Len(q)
      BY <2>1
    <3>2. Drop(q, 2) \in Seq(Symbol) /\ Len(Drop(q, 2)) < m
      BY <2>1, <3>1, DropType
    <3>3. <<Drop(q, 2), more>> \in Pairs
      BY <3>2 DEF Pairs
    <3> QED BY <3>2, <3>3 DEF Agree
  <2> QED BY <2>2, <2>3 DEF AfterData
<1> QED BY <1>1, <1>2

LEMMA AfterSizeLocal ==
    ASSUME NEW f, NEW g, NEW m \in Nat, NEW q \in Seq(Symbol), NEW n \in Nat,
           NEW body \in Seq(Symbol), Len(q) <= m, Agree(f, g, m)
    PROVE  AfterSize(f, q, n, body) = AfterSize(g, q, n, body)
<1>1. CASE Len(q) < n
  BY <1>1 DEF AfterSize
<1>2. CASE ~(Len(q) < n)
  <2>1. Len(q) \in Nat /\ n \in 0..Len(q)
    BY <1>2, LenProperties
  <2>2. /\ Drop(q, n) \in Seq(Symbol) /\ Len(Drop(q, n)) <= m
        /\ body \o Front(q, n) \in Seq(Symbol)
    BY <2>1, DropType, FrontType
  <2>3. \A r, more \in Seq(Symbol) :
           Len(r) <= m => AfterData(f, r, n, more) = AfterData(g, r, n, more)
    BY AfterDataLocal
  <2> QED BY <1>2, <2>2, <2>3 DEF AfterSize
<1> QED BY <1>1, <1>2

LEMMA FirstLFExists ==
    ASSUME NEW q \in Seq(Symbol), LineEnds(q) # {}
    PROVE  IsFirstLF(q, FirstOf(LineEnds(q)))
<1>1. LineEnds(q) \subseteq Nat /\ DOMAIN q = 1..Len(q) /\ Len(q) \in Nat
  BY LenProperties DEF LineEnds
<1>2. PICK k \in LineEnds(q) : \A l \in LineEnds(q) : k <= l
  BY <1>1, LeastOf
<1>3. FirstOf(LineEnds(q)) = k
  BY <1>1, <1>2, FirstIs
<1>4. \A l \in 1..(k - 1) : q[l] # "LF"
  BY <1>1, <1>2 DEF LineEnds
<1> QED BY <1>2, <1>3, <1>4 DEF IsFirstLF

LEMMA NextChunkLocal ==
    ASSUME NEW f, NEW g, NEW q \in Seq(Symbol), NEW body \in Seq(Symbol),
           Agree(f, g, Len(q))
    PROVE  NextChunk(f, q, body) = NextChunk(g, q, body)
<1>1. CASE LineEnds(q) = {}
  BY <1>1 DEF NextChunk
<1>2. CASE LineEnds(q) # {}
  <2> DEFINE eol == FirstOf(LineEnds(q))
  <2>1. eol \in 1..Len(q) /\ eol \in 0..Len(q) /\ Len(q) \in Nat
    BY <1>2, FirstLFExists, FirstLFIs, LenProperties
  <2> HIDE DEF eol
  <2>2. Drop(q, eol) \in Seq(Symbol) /\ Len(Drop(q, eol)) <= Len(q)
    BY <2>1, DropType
  <2>3. ASSUME NEW n \in ChunkSizes(Text(Front(q, eol)))
        PROVE  AfterSize(f, Drop(q, eol), n, body) = AfterSize(g, Drop(q, eol), n, body)
    <3>1. n \in Nat
      BY SizesNat
    <3> QED BY <2>1, <2>2, <3>1, AfterSizeLocal
  <2> QED BY <1>2, <2>3 DEF NextChunk, eol
<1> QED BY <1>1, <1>2

LEMMA SolutionsAgree ==
    ASSUME NEW m \in Nat, NEW n \in Nat, NEW f, NEW g, Solves(f, m), Solves(g, n),
           NEW p \in Below(m), p \in Below(n)
    PROVE  f[p] = g[p]
<1> DEFINE Bad0 == {r \in Below(m) \cap Below(n) : f[r] # g[r]}
           T    == {Len(r[1]) : r \in Bad0}
<1> SUFFICES ASSUME p \in Bad0 PROVE FALSE
  OBVIOUS
<1>1. \A r \in Pairs : Len(r[1]) \in Nat
  BY LenProperties DEF Pairs
<1>2. T \subseteq Nat /\ T # {}
  BY <1>1 DEF Below
<1> HIDE DEF T
<1>3. PICK l \in T : \A k \in T : l <= k
  BY <1>2, LeastOf
<1>4. PICK r \in Bad0 : l = Len(r[1])
  BY <1>3 DEF T
<1>5. r \in Pairs /\ Len(r[1]) \in Nat /\ Len(r[1]) < m /\ Len(r[1]) < n
  BY <1>1, <1>4 DEF Below
<1>6. ASSUME NEW s \in Pairs, Len(s[1]) < Len(r[1])
      PROVE  f[s] = g[s]
  <2>1. Len(s[1]) \in Nat /\ s \in Below(m) /\ s \in Below(n)
    BY <1>1, <1>5, <1>6 DEF Below
  <2>2. s \notin Bad0
    BY <1>3, <1>4, <1>5, <1>6, <2>1 DEF T
  <2> QED BY <2>1, <2>2
<1>7. f[r] = NextChunk(f, r[1], r[2]) /\ g[r] = NextChunk(g, r[1], r[2])
  BY <1>4 DEF Solves
<1>8. r[1] \in Seq(Symbol) /\ r[2] \in Seq(Symbol)
  BY <1>5 DEF Pairs
<1>9. Agree(f, g, Len(r[1]))
  BY <1>6 DEF Agree
<1>10. f[r] = g[r]
  BY <1>7, <1>8, <1>9, NextChunkLocal
<1> QED BY <1>4, <1>10

LEMMA Solvable ==
    ASSUME NEW n \in Nat
    PROVE  \E f : Solves(f, n)
<1> DEFINE T == {m \in Nat : ~ \E f : Solves(f, m)}
<1> SUFFICES ASSUME T # {} PROVE FALSE
  OBVIOUS
<1>1. T \subseteq Nat
  OBVIOUS
<1> HIDE DEF T
<1>2. PICK m \in T : \A k \in T : m <= k
  BY <1>1, LeastOf
<1>3. m \in Nat /\ ~ \E f : Solves(f, m)
  BY <1>2 DEF T
<1>4. CASE m = 0
  <2>1. Below(0) = {}
    BY LenProperties DEF Below, Pairs
  <2>2. Solves([p \in {} |-> 0], 0)
    BY <2>1 DEF Solves
  <2> QED BY <1>3, <1>4, <2>2
<1>5. CASE m # 0
  <2>1. m - 1 \in Nat /\ m - 1 \notin T
    BY <1>2, <1>3, <1>5
  <2>2. PICK f : Solves(f, m - 1)
    BY <2>1 DEF T
  <2> DEFINE g == [p \in Below(m) |-> NextChunk(f, p[1], p[2])]
  <2>3. ASSUME NEW p \in Below(m)
        PROVE  NextChunk(f, p[1], p[2]) = NextChunk(g, p[1], p[2])
    <3>1. /\ p \in Pairs /\ Len(p[1]) \in Nat /\ Len(p[1]) < m
          /\ p[1] \in Seq(Symbol) /\ p[2] \in Seq(Symbol)
      BY LenProperties DEF Below, Pairs
    <3>2. ASSUME NEW r \in Pairs, Len(r[1]) < Len(p[1])
          PROVE  f[r] = g[r]
      <4>1. Len(r[1]) \in Nat
        BY LenProperties DEF Pairs
      <4>2. r \in Below(m - 1) /\ r \in Below(m)
        BY <1>3, <3>1, <3>2, <4>1 DEF Below
      <4>3. f[r] = NextChunk(f, r[1], r[2])
        BY <2>2, <4>2 DEF Solves
      <4> QED BY <4>2, <4>3
    <3> HIDE DEF g
    <3>3. Agree(f, g, Len(p[1]))
      BY <3>2 DEF Agree
    <3> QED BY <3>1, <3>3, NextChunkLocal
  <2>4. g = [p \in Below(m) |-> NextChunk(g, p[1], p[2])]
    BY <2>3
  <2> HIDE DEF g
  <2>5. Solves(g, m)
    BY <2>4 DEF Solves
  <2> QED BY <1>3, <2>5
<1> QED BY <1>4, <1>5

LEMMA ChunksOf ==
    ASSUME NEW q \in Seq(Symbol), NEW body \in Seq(Symbol)
    PROVE  Chunks[<<q, body>>] = NextChunk(Chunks, q, body)
<1> DEFINE Sol(n) == CHOOSE f : Solves(f, n)
           F == [p \in Pairs |-> Sol(Len(p[1]) + 1)[p]]
<1>1. \A p \in Pairs : Len(p[1]) \in Nat
  BY LenProperties DEF Pairs
<1>2. \A n \in Nat : Solves(Sol(n), n)
  BY Solvable
<1> HIDE DEF Sol
<1>3. ASSUME NEW p \in Pairs
      PROVE  F[p] = NextChunk(F, p[1], p[2])
  <2> DEFINE n == Len(p[1]) + 1
             f == Sol(n)
  <2>1. /\ n \in Nat /\ Solves(f, n) /\ p \in Below(n)
        /\ p[1] \in Seq(Symbol) /\ p[2] \in Seq(Symbol)
    BY <1>1, <1>2 DEF Below, Pairs
  <2>2. F[p] = NextChunk(f, p[1], p[2])
    BY <2>1 DEF Solves
  <2>3. ASSUME NEW r \in Pairs, Len(r[1]) < Len(p[1])
        PROVE  f[r] = F[r]
    <3> DEFINE k == Len(r[1]) + 1
    <3>1. k \in Nat /\ Solves(Sol(k), k) /\ r \in Below(k) /\ r \in Below(n)
      BY <1>1, <1>2, <2>3 DEF Below
    <3>2. Sol(k)[r] = f[r]
      BY <2>1, <3>1, SolutionsAgree
    <3> QED BY <3>2
  <2> HIDE DEF f, F
  <2>4. Agree(f, F, Len(p[1]))
    BY <2>3 DEF Agree
  <2>5. NextChunk(f, p[1], p[2]) = NextChunk(F, p[1], p[2])
    BY <2>1, <2>4, NextChunkLocal
  <2> QED BY <2>2, <2>5
<1>4. F = [p \in Pairs |-> NextChunk(F, p[1], p[2])]
  BY <1>3
<1> HIDE DEF F
<1>5. Chunks = CHOOSE f : f = [p \in Pairs |-> NextChunk(f, p[1], p[2])]
  BY DEF Chunks, Pairs
<1>6. Chunks = [p \in Pairs |-> NextChunk(Chunks, p[1], p[2])]
  BY <1>4, <1>5
<1>7. <<q, body>> \in Pairs
  BY DEF Pairs
<1> QED BY <1>6, <1>7

-----------------------------------------------------------------------------
(* The framing.  From any state of the reader, whatever follows, there is an *)
(* outcome for the bytes it has not consumed: no step takes it away from     *)
(* what the whole stream should give.                                        *)

SkipStates == {"SKIP_EMPTY_LINES", "SKIP_CRLF_EMPTY_LINES"}
MetaStates == {"BUFF_META", "BUFF_META_LINE", "PARSE_META"}
SizeStates == {"BUFF_CHUNK_SIZE", "PARSE_CHUNK_SIZE"}

\* What is to be made of left, from state s with n as the chunk size.
Outcome(s, left, n, body) ==
    CASE s \in SkipStates               -> Verdicts(left)
      [] s \in MetaStates               -> FromMeta(left)
      [] s = "READ_BODY_CONTENT_LENGTH" -> ByLength(left)
      [] s \in SizeStates               -> Chunks[<<left, body>>]
      [] s = "READ_CHUNK_DATA"          -> AfterSize(Chunks, left, n, body)
      [] s = "SKIP_CRLF_CHUNK_DATA"     -> AfterData(Chunks, left, n, body)
      [] s = "HAVE_MESSAGE"             -> Message(body)
      [] OTHER                          -> Bad

Promised == \A x \in Seq(Symbol) :
                Outcome(st, buf \o x, size, req.body) \subseteq Verdicts(fed \o x)

\* What the reader knows of the symbols it has passed.
Scanned ==
    /\ st = "SKIP_EMPTY_LINES" => buf = fed /\ EmptyLines(buf, i)
    /\ st = "SKIP_CRLF_EMPTY_LINES" => /\ buf = fed /\ i > 0
                                       /\ EmptyLines(buf, i - 1) /\ buf[i] = "CR"
    /\ st = "BUFF_META"        => MayBeBlank(buf, i)
    /\ st = "BUFF_META_LINE"   => NotBlank(buf, i)
    /\ st = "PARSE_META"       => IsFirstBlank(buf, i)
    /\ st = "BUFF_CHUNK_SIZE"  => \A l \in 1..i : buf[l] # "LF"
    /\ st = "PARSE_CHUNK_SIZE" => IsFirstLF(buf, i)
    /\ st = "READ_BODY_CONTENT_LENGTH" => Length > 0
    /\ st \in SkipStates \union MetaStates => req.body = <<>>

\* Where Process returns without a message or an error.
Waiting == \/ i = Len(buf) /\ ~IsMetaState
           \/ st = "READ_CHUNK_DATA" /\ Len(buf) < size
           \/ st = "SKIP_CRLF_CHUNK_DATA" /\ buf[1] = "CR" /\ ~(Len(buf) > 1 /\ buf[2] = "LF")
           \/ st = "READ_BODY_CONTENT_LENGTH" /\ Len(buf) < Length

Stopped == ~run => Done \/ Waiting

FInv == Scanned /\ Promised /\ Stopped

\* A step that reads nothing keeps the promise if its outcome was one before.
LEMMA PromiseKept ==
    ASSUME Promised, fed' = fed,
           \A x \in Seq(Symbol) : Outcome(st', buf' \o x, size', req'.body)
                                    \subseteq Outcome(st, buf \o x, size, req.body)
    PROVE  Promised'
  BY DEF Promised

\* The meta part of a stream does not depend on what follows it.
LEMMA MetaOf ==
    ASSUME NEW q \in Seq(Symbol), NEW x \in Seq(Symbol), NEW k, IsFirstBlank(q, k)
    PROVE  LET by == ParseMetaPart(Front(q, k))
               after == Drop(q, k) \o x
           IN  /\ by = "error"   => FromMeta(q \o x) = Bad
               /\ by = "none"    => FromMeta(q \o x) = Message(<<>>)
               /\ by = "chunked" => FromMeta(q \o x) = Chunks[<<after, <<>> >>]
               /\ by = "length"  => FromMeta(q \o x) = ByLength(after)
<1>1. k \in 1..Len(q) /\ k \in 0..Len(q) /\ q \o x \in Seq(Symbol)
  BY FirstBlankIs, ConcatKeeps
<1>2. IsFirstBlank(q \o x, k)
  BY <1>1, ScanConcat
<1>3. FirstOf(BlankLines(q \o x)) = k /\ BlankLines(q \o x) # {}
  BY <1>1, <1>2, FirstBlankIs
<1>4. Front(q \o x, k) = Front(q, k) /\ Drop(q \o x, k) = Drop(q, k) \o x
  BY <1>1, FrontConcat, DropConcat
<1> QED BY <1>3, <1>4 DEF FromMeta

LEMMA ChunkOf ==
    ASSUME NEW q \in Seq(Symbol), NEW x \in Seq(Symbol), NEW body \in Seq(Symbol),
           NEW k, IsFirstLF(q, k), NEW n \in ChunkSizes(Text(Front(q, k)))
    PROVE  AfterSize(Chunks, Drop(q, k) \o x, n, body) \subseteq Chunks[<<q \o x, body>>]
<1>1. k \in 1..Len(q) /\ k \in 0..Len(q) /\ q \o x \in Seq(Symbol)
  BY FirstLFIs, ConcatKeeps
<1>2. IsFirstLF(q \o x, k)
  BY <1>1, FirstLFConcat
<1>3. FirstOf(LineEnds(q \o x)) = k /\ LineEnds(q \o x) # {}
  BY <1>1, <1>2, FirstLFIs
<1>4. Front(q \o x, k) = Front(q, k) /\ Drop(q \o x, k) = Drop(q, k) \o x
  BY <1>1, FrontConcat, DropConcat
<1>5. Chunks[<<q \o x, body>>] = NextChunk(Chunks, q \o x, body)
  BY <1>1, ChunksOf
<1>6. NextChunk(Chunks, q \o x, body)
        = UNION {AfterSize(Chunks, Drop(q, k) \o x, m, body) : m \in ChunkSizes(Text(Front(q, k)))}
  BY <1>3, <1>4 DEF NextChunk
<1> QED BY <1>5, <1>6

\* The data of a chunk that is there as a whole.
LEMMA DataOf ==
    ASSUME NEW q \in Seq(Symbol), NEW x \in Seq(Symbol), NEW body, NEW n \in 0..Len(q)
    PROVE  AfterSize(Chunks, q \o x, n, body)
             = AfterData(Chunks, Drop(q, n) \o x, n, body \o Front(q, n))
<1>1. Len(q \o x) >= n /\ Len(q \o x) \in Nat
  BY ConcatKeeps
<1>2. Front(q \o x, n) = Front(q, n) /\ Drop(q \o x, n) = Drop(q, n) \o x
  BY FrontConcat, DropConcat
<1> QED BY <1>1, <1>2 DEF AfterSize

\* The line end behind a chunk.
LEMMA EndOf ==
    ASSUME NEW q \in Seq(Symbol), NEW x \in Seq(Symbol), NEW n \in Nat, NEW body \in Seq(Symbol),
           q # <<>>
    PROVE  /\ q[1] = "LF" => AfterData(Chunks, q \o x, n, body)
                 = IF n = 0 THEN Message(body) ELSE Chunks[<<Drop(q, 1) \o x, body>>]
           /\ q[1] = "CR" /\ Len(q) > 1 /\ q[2] = "LF" => AfterData(Chunks, q \o x, n, body)
                 = IF n = 0 THEN Message(body) ELSE Chunks[<<Drop(q, 2) \o x, body>>]
           /\ q[1] \notin {"CR", "LF"} => AfterData(Chunks, q \o x, n, body) = Bad
<1>1. /\ q \o x \in Seq(Symbol) /\ Len(q) \in Nat /\ Len(q \o x) \in Nat
      /\ Len(q \o x) >= Len(q) /\ Len(q) > 0
      /\ \A k \in 1..Len(q) : (q \o x)[k] = q[k]
  BY ConcatKeeps, EmptySeq
<1>2. q \o x # <<>> /\ (q \o x)[1] = q[1]
  BY <1>1, EmptySeq
<1>3. Drop(q \o x, 1) = Drop(q, 1) \o x
  BY <1>1, DropConcat
<1>4. Len(q) > 1 => /\ (q \o x)[2] = q[2] /\ Len(q \o x) > 1
                    /\ Drop(q \o x, 2) = Drop(q, 2) \o x
  <2> SUFFICES ASSUME Len(q) > 1
               PROVE  /\ (q \o x)[2] = q[2] /\ Len(q \o x) > 1
                      /\ Drop(q \o x, 2) = Drop(q, 2) \o x
    OBVIOUS
  <2>1. 2 \in 1..Len(q) /\ 2 \in 0..Len(q) /\ Len(q \o x) > 1
    BY <1>1
  <2>2. Drop(q \o x, 2) = Drop(q, 2) \o x
    BY <2>1, DropConcat
  <2> QED BY <1>1, <2>1, <2>2
<1> QED BY <1>2, <1>3, <1>4 DEF AfterData

LEMMA LengthOf ==
    ASSUME NEW q \in Seq(Symbol), NEW x \in Seq(Symbol), Length \in 0..Len(q)
    PROVE  ByLength(q \o x) = Message(Front(q, Length))
<1>1. Len(q \o x) >= Length /\ Len(q \o x) \in Nat /\ Length \in Nat
  BY ConcatKeeps
<1>2. Front(q \o x, Length) = Front(q, Length)
  BY FrontConcat
<1> QED BY <1>1, <1>2 DEF ByLength

LEMMA LengthPositive ==
    ASSUME NEW meta, ParseMetaPart(meta) = "length"
    PROVE  Length > 0
  BY DEF ParseMetaPart

\* What every step starts from.
Facts == /\ buf \in Seq(Symbol) /\ fed \in Seq(Symbol) /\ i \in Nat /\ i <= Len(buf)
         /\ i \in 0..Len(buf) /\ Len(buf) \in Nat /\ size \in Nat /\ req.body \in Seq(Symbol)

LEMMA FactsOf ==
    ASSUME IInv
    PROVE  Facts
  BY LenProperties DEF IInv, BufferOK, ReaderOK, Facts

LEMMA SkipFramed ==
    ASSUME IInv, FInv, SkipEmptyLines \/ SkipCrlfEmptyLines, UNCHANGED fed
    PROVE  FInv'
<1>1. Facts /\ Scanned /\ Promised /\ Stopped
  BY FactsOf DEF FInv
<1>2. /\ st \in SkipStates /\ run /\ run' = run /\ size' = size /\ req' = req
      /\ i < Len(buf) /\ buf = fed /\ req.body = <<>>
  BY <1>1 DEF SkipEmptyLines, SkipCrlfEmptyLines, In, IsMetaState, SkipStates, Scanned
<1>3. Stopped'
  BY <1>2 DEF Stopped
<1>4. CASE Advance("SKIP_EMPTY_LINES") \/ Advance("SKIP_CRLF_EMPTY_LINES")
  <2>1. buf' = buf /\ i' = i + 1 /\ st' \in SkipStates
    BY <1>4 DEF Advance, SkipStates
  <2>2. Promised'
    <3>1. \A x \in Seq(Symbol) : Outcome(st', buf' \o x, size', req'.body)
                       \subseteq Outcome(st, buf \o x, size, req.body)
      BY <1>2, <2>1 DEF Outcome, SkipStates, MetaStates, SizeStates
    <3> QED BY <1>1, <3>1, PromiseKept
  <2>3. CASE st' = "SKIP_EMPTY_LINES"
    <3>1. buf[i + 1] = "LF"
      BY <1>4, <2>1, <2>3 DEF SkipEmptyLines, SkipCrlfEmptyLines, Advance, Next1, Flush
    <3>2. EmptyLines(buf, i) \/ (i > 0 /\ EmptyLines(buf, i - 1) /\ buf[i] = "CR")
      BY <1>1, <1>2 DEF Scanned, SkipStates
    <3>3. EmptyLines(buf, i + 1)
      BY <1>1, <3>1, <3>2, OneMoreEmptyLine DEF Facts
    <3> QED BY <1>2, <1>3, <2>1, <2>2, <2>3, <3>3 DEF FInv, Scanned
  <2>4. CASE st' = "SKIP_CRLF_EMPTY_LINES"
    <3>1. st = "SKIP_EMPTY_LINES" /\ buf[i + 1] = "CR"
      BY <1>4, <2>1, <2>4 DEF SkipEmptyLines, SkipCrlfEmptyLines, Advance, Next1, Flush, In
    <3>2. EmptyLines(buf, i) /\ (i + 1) - 1 = i /\ i + 1 > 0
      BY <1>1, <3>1 DEF Scanned, Facts
    <3> QED BY <1>2, <1>3, <2>1, <2>2, <2>4, <3>1, <3>2 DEF FInv, Scanned
  <2> QED BY <2>1, <2>3, <2>4 DEF SkipStates
<1>5. CASE Flush(i, "BUFF_META")
  <2>1. buf' = Drop(buf, i) /\ i' = 0 /\ st' = "BUFF_META"
    BY <1>1, <1>5 DEF Flush, Facts
  <2>2. buf' \in Seq(Symbol)
    BY <1>1, <2>1, DropType DEF Facts
  <2>3. MayBeBlank(buf', 0)
    BY <2>2, StartsMayBeBlank
  <2>4. Scanned'
    BY <1>2, <2>1, <2>3 DEF Scanned
  <2>5. \/ EmptyLines(buf, i) /\ buf[i + 1] \notin {"CR", "LF"}
        \/ i > 0 /\ EmptyLines(buf, i - 1) /\ buf[i] = "CR" /\ buf[i + 1] # "LF"
    <3>1. CASE SkipEmptyLines
      BY <1>1, <1>5, <2>1, <3>1 DEF SkipEmptyLines, In, Advance, Next1, Scanned
    <3>2. CASE SkipCrlfEmptyLines
      BY <1>1, <1>5, <2>1, <3>2 DEF SkipCrlfEmptyLines, In, Advance, Next1, Scanned
    <3> QED BY <3>1, <3>2
  <2>6. ASSUME NEW x \in Seq(Symbol)
        PROVE  FromMeta(buf' \o x) = Verdicts(buf \o x)
    <3>1. Skipped(buf \o x) = Drop(buf, i) \o x
      BY <1>1, <1>2, <2>5, SkipEnds DEF Facts
    <3> QED BY <2>1, <3>1 DEF Verdicts
  <2>7. Promised'
    <3>1. \A x \in Seq(Symbol) : Outcome(st', buf' \o x, size', req'.body)
                       \subseteq Outcome(st, buf \o x, size, req.body)
      BY <1>2, <2>1, <2>6 DEF Outcome, SkipStates, MetaStates, SizeStates
    <3> QED BY <1>1, <3>1, PromiseKept
  <2> QED BY <1>3, <2>4, <2>7 DEF FInv
<1> QED BY <1>4, <1>5 DEF SkipEmptyLines, SkipCrlfEmptyLines

LEMMA ScanFramed ==
    ASSUME IInv, FInv, BuffMeta \/ BuffMetaLine, UNCHANGED fed
    PROVE  FInv'
<1>1. Facts /\ Scanned /\ Promised /\ Stopped
  BY FactsOf DEF FInv
<1>2. /\ st \in MetaStates /\ run /\ run' = run /\ size' = size /\ req' = req
      /\ i < Len(buf) /\ req.body = <<>> /\ buf' = buf /\ st' \in MetaStates
  BY <1>1 DEF BuffMeta, BuffMetaLine, In, IsMetaState, MetaStates, Scanned, Advance
<1>3. Stopped'
  BY <1>2 DEF Stopped
<1>6. Promised'
  <2>1. \A x \in Seq(Symbol) : Outcome(st', buf' \o x, size', req'.body)
                     \subseteq Outcome(st, buf \o x, size, req.body)
    BY <1>2 DEF Outcome, SkipStates, MetaStates, SizeStates
  <2> QED BY <1>1, <2>1, PromiseKept
<1>4. CASE BuffMeta
  <2>1. MayBeBlank(buf, i)
    BY <1>1, <1>4 DEF BuffMeta, In, Scanned
  <2>2. CASE Next1 = "LF" /\ Advance("PARSE_META")
    <3>1. IsFirstBlank(buf, i + 1)
      BY <1>1, <1>2, <2>1, <2>2, ScanBlankLine DEF Facts, Next1
    <3> QED BY <1>2, <1>3, <1>6, <2>2, <3>1 DEF FInv, Scanned, Advance
  <2>3. CASE Next1 = "CR" /\ Advance("BUFF_META")
    <3>1. MayBeBlank(buf, i + 1)
      BY <1>1, <1>2, <2>1, <2>3, ScanCR DEF Facts, Next1
    <3> QED BY <1>2, <1>3, <1>6, <2>3, <3>1 DEF FInv, Scanned, Advance
  <2>4. CASE Next1 \notin {"CR", "LF"} /\ st' = "BUFF_META_LINE" /\ UNCHANGED <<buf, i>>
    <3>1. NotBlank(buf, i)
      BY <1>1, <1>2, <2>1, <2>4, ScanOther DEF Facts, Next1
    <3> QED BY <1>2, <1>3, <1>6, <2>4, <3>1 DEF FInv, Scanned
  <2> QED BY <1>4, <2>2, <2>3, <2>4 DEF BuffMeta
<1>5. CASE BuffMetaLine
  <2>1. NotBlank(buf, i) /\ i' = i + 1
    BY <1>1, <1>5 DEF BuffMetaLine, In, Scanned, Advance
  <2>2. CASE Next1 = "LF"
    <3>1. MayBeBlank(buf, i + 1) /\ st' = "BUFF_META"
      BY <1>1, <1>2, <1>5, <2>1, <2>2, ScanLineEnd DEF Facts, Next1, BuffMetaLine, Advance
    <3> QED BY <1>2, <1>3, <1>6, <2>1, <3>1 DEF FInv, Scanned
  <2>3. CASE Next1 # "LF"
    <3>1. NotBlank(buf, i + 1) /\ st' = "BUFF_META_LINE"
      BY <1>1, <1>2, <1>5, <2>1, <2>3, ScanInside DEF Facts, Next1, BuffMetaLine, Advance
    <3> QED BY <1>2, <1>3, <1>6, <2>1, <3>1 DEF FInv, Scanned
  <2> QED BY <2>2, <2>3
<1> QED BY <1>4, <1>5

LEMMA ParseMetaFramed ==
    ASSUME IInv, FInv, ParseMeta, UNCHANGED fed
    PROVE  FInv'
<1>1. Facts /\ Scanned /\ Promised /\ req \in [by : Framing, body : Seq(Symbol)]
  BY FactsOf DEF FInv, IInv, ReaderOK
<1>2. st = "PARSE_META" /\ run /\ size' = size /\ IsFirstBlank(buf, i) /\ req.body = <<>>
  BY <1>1 DEF ParseMeta, In, Scanned, MetaStates
<1> DEFINE by == ParseMetaPart(Front(buf, i))
<1>3. /\ by = "length" => Length > 0
      /\ by \in Framing \union {"error"}
  BY LengthPositive, ParsesTo
<1>4. ASSUME NEW x \in Seq(Symbol)
      PROVE  /\ by = "error"   => FromMeta(buf \o x) = Bad
             /\ by = "none"    => FromMeta(buf \o x) = Message(<<>>)
             /\ by = "chunked" => FromMeta(buf \o x) = Chunks[<<Drop(buf, i) \o x, <<>> >>]
             /\ by = "length"  => FromMeta(buf \o x) = ByLength(Drop(buf, i) \o x)
  BY <1>1, <1>2, MetaOf DEF Facts
<1>5. /\ req'.body = req.body /\ buf' = Drop(buf, i) /\ i' = 0
      /\ \/ by = "error"   /\ st' = "ERROR_OCCURED" /\ run' = FALSE
         \/ by = "chunked" /\ st' = "BUFF_CHUNK_SIZE" /\ run' = run
         \/ by = "length"  /\ st' = "READ_BODY_CONTENT_LENGTH" /\ run' = run
         \/ by = "none"    /\ st' = "HAVE_MESSAGE" /\ run' = FALSE
  BY <1>1 DEF ParseMeta, Flush, Facts
<1> HIDE DEF by
<1>6. Scanned'
  BY <1>3, <1>5 DEF Scanned, SkipStates, MetaStates
<1>7. Stopped'
  BY <1>2, <1>5 DEF Stopped, Done
<1>8. ASSUME NEW x \in Seq(Symbol)
      PROVE  Outcome(st', buf' \o x, size', req'.body) = Outcome(st, buf \o x, size, req.body)
  <2>1. Outcome(st, buf \o x, size, req.body) = FromMeta(buf \o x)
    BY <1>2 DEF Outcome, SkipStates, MetaStates, SizeStates
  <2>2. CASE by = "error"
    BY <1>4, <1>5, <2>1, <2>2 DEF Outcome, SkipStates, MetaStates, SizeStates
  <2>3. CASE by = "chunked"
    BY <1>2, <1>4, <1>5, <2>1, <2>3 DEF Outcome, SkipStates, MetaStates, SizeStates
  <2>4. CASE by = "length"
    BY <1>4, <1>5, <2>1, <2>4 DEF Outcome, SkipStates, MetaStates, SizeStates
  <2>5. CASE by = "none"
    BY <1>2, <1>4, <1>5, <2>1, <2>5 DEF Outcome, SkipStates, MetaStates, SizeStates
  <2> QED BY <1>5, <2>2, <2>3, <2>4, <2>5
<1>9. Promised'
  BY <1>1, <1>8, PromiseKept
<1> QED BY <1>6, <1>7, <1>9 DEF FInv

LEMMA SizeFramed ==
    ASSUME IInv, FInv, BuffChunkSize \/ ParseChunkSize, UNCHANGED fed
    PROVE  FInv'
<1>1. Facts /\ Scanned /\ Promised
  BY FactsOf DEF FInv
<1>3. CASE BuffChunkSize
  <2>1. /\ st = "BUFF_CHUNK_SIZE" /\ run /\ run' = run /\ req' = req /\ size' = size
        /\ i < Len(buf) /\ buf' = buf /\ i' = i + 1 /\ \A l \in 1..i : buf[l] # "LF"
        /\ st' = IF Next1 = "LF" THEN "PARSE_CHUNK_SIZE" ELSE "BUFF_CHUNK_SIZE"
    BY <1>1, <1>3 DEF BuffChunkSize, In, IsMetaState, Advance, Scanned
  <2>2. Stopped'
    BY <2>1 DEF Stopped
  <2>3. st \in SizeStates /\ st' \in SizeStates
    BY <2>1 DEF SizeStates
  <2>4. Promised'
    <3>1. \A x \in Seq(Symbol) : Outcome(st', buf' \o x, size', req'.body)
                       \subseteq Outcome(st, buf \o x, size, req.body)
      BY <2>1, <2>3 DEF Outcome, SkipStates, MetaStates, SizeStates
    <3> QED BY <1>1, <3>1, PromiseKept
  <2>5. CASE Next1 = "LF"
    <3>1. i + 1 \in 1..Len(buf) /\ (i + 1) - 1 = i /\ DOMAIN buf = 1..Len(buf)
      BY <1>1, <2>1, LenProperties DEF Facts
    <3>2. IsFirstLF(buf, i + 1)
      BY <2>1, <2>5, <3>1 DEF IsFirstLF, LineEnds, Next1
    <3> QED BY <2>1, <2>2, <2>4, <2>5, <3>2 DEF FInv, Scanned, SkipStates, MetaStates
  <2>6. CASE Next1 # "LF"
    <3>1. \A l \in 1..(i + 1) : buf[l] # "LF"
      BY <1>1, <2>1, <2>6 DEF Next1, Facts
    <3> QED BY <2>1, <2>2, <2>4, <2>6, <3>1 DEF FInv, Scanned, SkipStates, MetaStates
  <2> QED BY <2>5, <2>6
<1>4. CASE ParseChunkSize
  <2>1. /\ st = "PARSE_CHUNK_SIZE" /\ run /\ run' = run /\ req' = req
        /\ size' \in ChunkSizes(Text(Front(buf, i))) /\ IsFirstLF(buf, i)
        /\ buf' = Drop(buf, i) /\ i' = 0 /\ st' = "READ_CHUNK_DATA"
    BY <1>1, <1>4 DEF ParseChunkSize, In, Flush, Scanned, Facts
  <2>2. Stopped' /\ Scanned'
    BY <2>1 DEF Stopped, Scanned, SkipStates, MetaStates
  <2>3. ASSUME NEW x \in Seq(Symbol)
        PROVE  AfterSize(Chunks, buf' \o x, size', req.body) \subseteq Chunks[<<buf \o x, req.body>>]
    BY <1>1, <2>1, ChunkOf DEF Facts
  <2>4. Promised'
    <3>1. \A x \in Seq(Symbol) : Outcome(st', buf' \o x, size', req'.body)
                       \subseteq Outcome(st, buf \o x, size, req.body)
      BY <2>1, <2>3 DEF Outcome, SkipStates, MetaStates, SizeStates
    <3> QED BY <1>1, <3>1, PromiseKept
  <2> QED BY <2>2, <2>4 DEF FInv
<1> QED BY <1>3, <1>4

LEMMA DataFramed ==
    ASSUME IInv, FInv, ReadChunkData, UNCHANGED fed
    PROVE  FInv'
<1>1. Facts /\ Scanned /\ Promised /\ req \in [by : Framing, body : Seq(Symbol)]
  BY FactsOf DEF FInv, IInv, ReaderOK
<1>2. st = "READ_CHUNK_DATA" /\ run /\ size' = size
  BY DEF ReadChunkData, In
<1>3. CASE Len(buf) >= size
  <2>1. /\ req'.body = req.body \o Front(buf, size) /\ run' = run
        /\ buf' = Drop(buf, size) /\ i' = 0 /\ st' = "SKIP_CRLF_CHUNK_DATA"
    BY <1>1, <1>3 DEF ReadChunkData, Flush, Facts
  <2>2. Stopped' /\ Scanned'
    BY <1>2, <2>1 DEF Stopped, Scanned, SkipStates, MetaStates
  <2>3. size \in 0..Len(buf)
    BY <1>1, <1>3 DEF Facts
  <2>4. ASSUME NEW x \in Seq(Symbol)
        PROVE  AfterData(Chunks, buf' \o x, size, req'.body)
                 = AfterSize(Chunks, buf \o x, size, req.body)
    BY <1>1, <2>1, <2>3, DataOf DEF Facts
  <2>5. Promised'
    <3>1. \A x \in Seq(Symbol) : Outcome(st', buf' \o x, size', req'.body)
                   \subseteq Outcome(st, buf \o x, size, req.body)
      BY <1>2, <2>1, <2>4 DEF Outcome, SkipStates, MetaStates, SizeStates
    <3> QED BY <1>1, <3>1, PromiseKept
  <2> QED BY <2>2, <2>5 DEF FInv
<1>4. CASE ~(Len(buf) >= size)
  <2>1. UNCHANGED <<buf, i, st, req, fed, size>>
    BY <1>2, <1>4 DEF ReadChunkData
  <2>2. Len(buf) < size
    BY <1>1, <1>4 DEF Facts
  <2>3. Stopped'
    BY <1>2, <2>1, <2>2 DEF Stopped, Waiting
  <2>4. Scanned' /\ Promised'
    BY <1>1, <2>1 DEF Scanned, Promised
  <2> QED BY <2>3, <2>4 DEF FInv
<1> QED BY <1>3, <1>4

LEMMA ChunkEndFramed ==
    ASSUME IInv, FInv, SkipCrlfChunkData, UNCHANGED fed
    PROVE  FInv'
<1> DEFINE next == IF size = 0 THEN "HAVE_MESSAGE" ELSE "BUFF_CHUNK_SIZE"
<1>1. Facts /\ Scanned /\ Promised
  BY FactsOf DEF FInv
<1>2. /\ st = "SKIP_CRLF_CHUNK_DATA" /\ run /\ size' = size /\ req' = req
      /\ i = 0 /\ Len(buf) > 0 /\ buf # <<>>
  BY <1>1, EmptySeq DEF SkipCrlfChunkData, In, IsMetaState, IInv, ReaderOK, Facts
<1>3. Front(buf, 1)[1] = buf[1]
  <2>1. 1 \in 1..Len(buf) /\ 1 <= Len(buf)
    BY <1>1, <1>2 DEF Facts
  <2> QED BY <1>1, <2>1 DEF Front, Facts
<1>4. ASSUME NEW k \in {1, 2}, k <= Len(buf), Flush(i + k, next), run' = (size # 0),
             \A x \in Seq(Symbol) :
                AfterData(Chunks, buf \o x, size, req.body)
                  = IF size = 0 THEN Message(req.body) ELSE Chunks[<<Drop(buf, k) \o x, req.body>>]
      PROVE  FInv'
  <2>1. buf' = Drop(buf, k) /\ i' = 0 /\ st' = next
    BY <1>1, <1>2, <1>4 DEF Flush, Facts
  <2>2. Stopped'
    BY <1>4, <2>1 DEF Stopped, Done
  <2>4. Scanned'
    BY <2>1 DEF Scanned, SkipStates, MetaStates
  <2>3. \A x \in Seq(Symbol) : Outcome(st', buf' \o x, size', req'.body)
               \subseteq Outcome(st, buf \o x, size, req.body)
    BY <1>2, <1>4, <2>1 DEF Outcome, SkipStates, MetaStates, SizeStates
  <2> QED BY <1>1, <2>2, <2>3, <2>4, PromiseKept DEF FInv
<1>9. ASSUME NEW x \in Seq(Symbol)
      PROVE  /\ buf[1] = "LF" => AfterData(Chunks, buf \o x, size, req.body)
                   = IF size = 0 THEN Message(req.body) ELSE Chunks[<<Drop(buf, 1) \o x, req.body>>]
             /\ buf[1] = "CR" /\ Len(buf) > 1 /\ buf[2] = "LF"
                   => AfterData(Chunks, buf \o x, size, req.body)
                   = IF size = 0 THEN Message(req.body) ELSE Chunks[<<Drop(buf, 2) \o x, req.body>>]
             /\ buf[1] \notin {"CR", "LF"} => AfterData(Chunks, buf \o x, size, req.body) = Bad
  <2>1. buf \in Seq(Symbol) /\ buf # <<>> /\ size \in Nat /\ req.body \in Seq(Symbol)
    BY <1>1, <1>2 DEF Facts
  <2> DEFINE body == req.body
  <2> HIDE DEF body
  <2>2. /\ buf[1] = "LF" => AfterData(Chunks, buf \o x, size, body)
                = IF size = 0 THEN Message(body) ELSE Chunks[<<Drop(buf, 1) \o x, body>>]
        /\ buf[1] = "CR" /\ Len(buf) > 1 /\ buf[2] = "LF"
                => AfterData(Chunks, buf \o x, size, body)
                = IF size = 0 THEN Message(body) ELSE Chunks[<<Drop(buf, 2) \o x, body>>]
        /\ buf[1] \notin {"CR", "LF"} => AfterData(Chunks, buf \o x, size, body) = Bad
    BY <2>1, EndOf DEF body
  <2> QED BY <2>2 DEF body
<1>5. CASE Front(buf, 1) = <<"LF">> /\ Flush(i + 1, next) /\ run' = (size # 0)
  <2>1. buf[1] = "LF" /\ 1 <= Len(buf)
    BY <1>1, <1>2, <1>3, <1>5 DEF Facts
  <2> QED BY <1>4, <1>5, <1>9, <2>1
<1>6. CASE /\ Front(buf, 1) = <<"CR">>
           /\ Len(buf) > 1 /\ buf[2] = "LF" /\ Flush(i + 2, next) /\ run' = (size # 0)
  <2>1. buf[1] = "CR" /\ 2 <= Len(buf)
    BY <1>1, <1>2, <1>3, <1>6 DEF Facts
  <2> QED BY <1>4, <1>6, <1>9, <2>1
<1>7. CASE /\ Front(buf, 1) = <<"CR">>
           /\ ~(Len(buf) > 1 /\ buf[2] = "LF") /\ run' = FALSE /\ UNCHANGED <<buf, i, st>>
  <2>1. Stopped'
    BY <1>2, <1>3, <1>7 DEF Stopped, Waiting
  <2>2. Scanned' /\ Promised'
    BY <1>1, <1>2, <1>7 DEF Scanned, Promised
  <2> QED BY <2>1, <2>2 DEF FInv
<1>8. CASE /\ buf[1] \notin {"CR", "LF"}
           /\ st' = "ERROR_OCCURED" /\ run' = FALSE /\ UNCHANGED <<buf, i>>
  <2>1. Stopped' /\ Scanned'
    BY <1>8 DEF Stopped, Done, Scanned, SkipStates, MetaStates
  <2>2. ASSUME NEW x \in Seq(Symbol)
        PROVE  AfterData(Chunks, buf \o x, size, req.body) = Bad
    BY <1>8, <1>9
  <2>3. \A x \in Seq(Symbol) : Outcome(st', buf' \o x, size', req'.body)
               \subseteq Outcome(st, buf \o x, size, req.body)
    BY <1>2, <1>8, <2>2 DEF Outcome, SkipStates, MetaStates, SizeStates
  <2> QED BY <1>1, <2>1, <2>3, PromiseKept DEF FInv
<1> QED BY <1>5, <1>6, <1>7, <1>8 DEF SkipCrlfChunkData

LEMMA BodyFramed ==
    ASSUME IInv, FInv, ReadBodyContentLength, UNCHANGED fed
    PROVE  FInv'
<1>1. Facts /\ Scanned /\ Promised /\ req \in [by : Framing, body : Seq(Symbol)]
  BY FactsOf DEF FInv, IInv, ReaderOK
<1>2. st = "READ_BODY_CONTENT_LENGTH" /\ run' = FALSE /\ size' = size
  BY DEF ReadBodyContentLength, In
<1>3. CASE Len(buf) >= Length
  <2>1. req'.body = Front(buf, Length) /\ st' = "HAVE_MESSAGE"
    BY <1>1, <1>3 DEF ReadBodyContentLength, Flush, Facts
  <2>2. Stopped' /\ Scanned'
    BY <1>2, <2>1 DEF Stopped, Done, Scanned, SkipStates, MetaStates
  <2>3. Length \in 0..Len(buf)
    BY <1>1, <1>3, StreamAssumption DEF Facts
  <2>4. ASSUME NEW x \in Seq(Symbol)
        PROVE  ByLength(buf \o x) = Message(req'.body)
    BY <1>1, <2>1, <2>3, LengthOf DEF Facts
  <2>5. \A x \in Seq(Symbol) : Outcome(st', buf' \o x, size', req'.body)
               \subseteq Outcome(st, buf \o x, size, req.body)
    BY <1>2, <2>1, <2>4 DEF Outcome, SkipStates, MetaStates, SizeStates
  <2> QED BY <1>1, <2>2, <2>5, PromiseKept DEF FInv
<1>4. CASE ~(Len(buf) >= Length)
  <2>1. UNCHANGED <<buf, i, st, req, fed, size>>
    BY <1>2, <1>4 DEF ReadBodyContentLength
  <2>2. Len(buf) < Length
    BY <1>1, <1>4, StreamAssumption DEF Facts
  <2>3. Stopped'
    BY <1>2, <2>1, <2>2 DEF Stopped, Waiting
  <2>4. Scanned' /\ Promised'
    BY <1>1, <2>1 DEF Scanned, Promised
  <2> QED BY <2>3, <2>4 DEF FInv
<1> QED BY <1>3, <1>4

LEMMA BreakFramed ==
    ASSUME IInv, FInv, Break, UNCHANGED fed
    PROVE  FInv'
<1>1. Facts /\ Scanned /\ Promised
  BY FactsOf DEF FInv
<1>2. UNCHANGED <<buf, i, st, req, fed, size>> /\ i = Len(buf) /\ ~IsMetaState
  BY <1>1 DEF Break, Facts
<1>3. Stopped'
  BY <1>2 DEF Stopped, Waiting, IsMetaState
<1>4. Scanned' /\ Promised'
  BY <1>1, <1>2 DEF Scanned, Promised
<1> QED BY <1>3, <1>4 DEF FInv

\* The pieces the stream comes in make no difference: a piece that is read only
\* moves from what may follow to what is there.
LEMMA ReadFramed ==
    ASSUME IInv, FInv, Read
    PROVE  FInv'
<1>1. Facts /\ Scanned /\ Promised /\ rest \in Seq(Symbol)
  BY FactsOf DEF FInv, IInv, BufferOK
<1>2. UNCHANGED <<i, st, size, req>> /\ run' = TRUE
  BY DEF Read, Feed
<1>3. PICK p \in Seq(Symbol) : buf' = buf \o p /\ fed' = fed \o p
  <2>1. PICK n \in 1..Len(rest) : /\ buf' = buf \o Front(rest, n)
                                  /\ fed' = fed \o Front(rest, n)
    BY DEF Read, Feed
  <2>2. Front(rest, n) \in Seq(Symbol)
    <3>1. Len(rest) \in Nat /\ n \in 0..Len(rest)
      BY <1>1, LenProperties
    <3> QED BY <1>1, <3>1, FrontType
  <2> QED BY <2>1, <2>2
<1>4. Stopped'
  BY <1>2 DEF Stopped
<1>5. Promised'
  <2> SUFFICES ASSUME NEW x \in Seq(Symbol)
               PROVE  Outcome(st', buf' \o x, size', req'.body) \subseteq Verdicts(fed' \o x)
    BY DEF Promised
  <2>1. p \o x \in Seq(Symbol)
    BY <1>3, ConcatKeeps
  <2>2. buf' \o x = buf \o (p \o x) /\ fed' \o x = fed \o (p \o x)
    <3>1. buf \in Seq(Symbol) /\ fed \in Seq(Symbol)
      BY <1>1 DEF Facts
    <3> QED BY <1>3, <3>1, ConcatConcat
  <2>3. Outcome(st, buf \o (p \o x), size, req.body) \subseteq Verdicts(fed \o (p \o x))
    BY <1>1, <2>1 DEF Promised
  <2> QED BY <1>2, <2>2, <2>3
<1>6. \A l \in 1..Len(buf) : buf'[l] = buf[l]
  BY <1>1, <1>3, ConcatKeeps DEF Facts
<1>7. st = "SKIP_EMPTY_LINES" => buf' = fed' /\ EmptyLines(buf', i)
  BY <1>1, <1>3, EmptyLinesConcat DEF Scanned, Facts
<1>8. st = "SKIP_CRLF_EMPTY_LINES" => /\ buf' = fed' /\ i > 0
                                      /\ EmptyLines(buf', i - 1) /\ buf'[i] = "CR"
  <2> SUFFICES ASSUME st = "SKIP_CRLF_EMPTY_LINES"
               PROVE  buf' = fed' /\ i > 0 /\ EmptyLines(buf', i - 1) /\ buf'[i] = "CR"
    OBVIOUS
  <2>1. buf = fed /\ i > 0 /\ EmptyLines(buf, i - 1) /\ buf[i] = "CR"
    BY <1>1 DEF Scanned
  <2>2. i - 1 \in 0..Len(buf) /\ i \in 1..Len(buf)
    BY <1>1, <2>1 DEF Facts
  <2>3. EmptyLines(buf', i - 1)
    BY <1>1, <1>3, <2>1, <2>2, EmptyLinesConcat DEF Facts
  <2> QED BY <1>3, <1>6, <2>1, <2>2, <2>3
<1>9. /\ st = "BUFF_META"      => MayBeBlank(buf', i)
      /\ st = "BUFF_META_LINE" => NotBlank(buf', i)
      /\ st = "PARSE_META"     => IsFirstBlank(buf', i)
  BY <1>1, <1>3, ScanConcat DEF Scanned, Facts
<1>10. st = "BUFF_CHUNK_SIZE" => \A l \in 1..i : buf'[l] # "LF"
  <2>1. \A l \in 1..i : l \in 1..Len(buf)
    BY <1>1 DEF Facts
  <2> QED BY <1>1, <1>6, <2>1 DEF Scanned
<1>11. st = "PARSE_CHUNK_SIZE" => IsFirstLF(buf', i)
  BY <1>1, <1>3, FirstLFConcat DEF Scanned, Facts
<1>12. Scanned'
  BY <1>1, <1>2, <1>7, <1>8, <1>9, <1>10, <1>11 DEF Scanned
<1> QED BY <1>4, <1>5, <1>12 DEF FInv

\* Nothing read, nothing looked at.
LEMMA StartFramed ==
    ASSUME buf = <<>>, fed = <<>>, i = 0, st = "SKIP_EMPTY_LINES", req = NoRequest
    PROVE  FInv
<1>1. EmptyLines(<<>>, 0) /\ Len(<<>>) = 0
  BY DEF EmptyLines
<1>2. Scanned
  BY <1>1 DEF Scanned, NoRequest
<1>3. Stopped
  BY <1>1 DEF Stopped, Waiting, IsMetaState
<1>4. Promised
  BY DEF Promised, Outcome, SkipStates, MetaStates, SizeStates
<1> QED BY <1>2, <1>3, <1>4 DEF FInv

\* Where Process returns, no step of the framing would go further either.
LEMMA WaitsRightly ==
    ASSUME IInv, FInv, ~run
    PROVE  \E v \in Outcome(st, buf, size, req.body) :
              CASE st = "HAVE_MESSAGE"  -> v.is = "message" /\ v.body = req.body
                [] st = "ERROR_OCCURED" -> v.is = "error"
                [] OTHER                -> v.is = "wait"
<1>1. Facts /\ Scanned /\ (Done \/ Waiting) /\ st \in State
  BY FactsOf DEF FInv, Stopped, IInv, ReaderOK
<1>2. CASE Done
  BY <1>2 DEF Done, Outcome, SkipStates, MetaStates, SizeStates, Message, Bad
<1>3. CASE ~Done /\ Wait \subseteq Outcome(st, buf, size, req.body)
  BY <1>3 DEF Done, Wait
<1>4. CASE ~Done /\ st \in SkipStates
  <2>1. i = Len(buf)
    BY <1>1, <1>4 DEF Waiting, SkipStates
  <2>2. \/ EmptyLines(buf, Len(buf))
        \/ Len(buf) > 0 /\ EmptyLines(buf, Len(buf) - 1) /\ buf[Len(buf)] = "CR"
    BY <1>1, <1>4, <2>1 DEF Scanned, SkipStates
  <2>3. Skipped(buf) = <<>>
    BY <1>1, <2>2, SkipGoesOn DEF Facts
  <2>4. BlankLines(<<>>) = {}
    BY DEF BlankLines, LineEnds
  <2>5. Verdicts(buf) = Wait
    BY <2>3, <2>4 DEF Verdicts, FromMeta
  <2> QED BY <1>3, <1>4, <2>5 DEF Outcome, SkipStates, MetaStates, SizeStates
<1>5. CASE ~Done /\ st \in MetaStates
  <2>1. i = Len(buf) /\ st \in {"BUFF_META", "BUFF_META_LINE"}
    BY <1>1, <1>5 DEF Waiting, MetaStates, IsMetaState
  <2>2. NoBlankLine(buf, Len(buf))
    BY <1>1, <2>1 DEF Scanned, MayBeBlank, NotBlank
  <2>3. BlankLines(buf) = {}
    BY <1>1, <2>2, BlankHasItsLF DEF NoBlankLine, Facts
  <2>4. FromMeta(buf) = Wait
    BY <2>3 DEF FromMeta
  <2> QED BY <1>3, <1>5, <2>4 DEF Outcome, SkipStates, MetaStates, SizeStates
<1>6. CASE ~Done /\ st = "BUFF_CHUNK_SIZE"
  <2>1. i = Len(buf)
    BY <1>1, <1>6 DEF Waiting
  <2>2. LineEnds(buf) = {}
    BY <1>1, <1>6, <2>1, LenProperties DEF Scanned, LineEnds, Facts
  <2>3. Chunks[<<buf, req.body>>] = Wait
    BY <1>1, <2>2, ChunksOf DEF NextChunk, Facts
  <2> QED BY <1>3, <1>6, <2>3 DEF Outcome, SkipStates, MetaStates, SizeStates
<1>7. CASE ~Done /\ st = "PARSE_CHUNK_SIZE"
  <2>1. i = Len(buf) /\ IsFirstLF(buf, i)
    BY <1>1, <1>7 DEF Waiting, Scanned
  <2>2. PICK n \in ChunkSizes(Text(Front(buf, i))) : TRUE
    BY UnsetAssumption DEF ChunkSizes
  <2>3. n \in Nat
    BY <2>2, SizesNat
  <2>4. Drop(buf, i) = <<>>
    BY <1>1, <2>1, SubSeqEmpty DEF Drop, Facts
  <2>5. <<>> \o <<>> = <<>> /\ buf \o <<>> = buf /\ Len(<<>>) = 0 /\ <<>> \in Seq(Symbol)
    BY <1>1, ConcatEmptySeq DEF Facts
  <2>6. AfterSize(Chunks, <<>>, n, req.body) \subseteq Chunks[<<buf, req.body>>]
    <3>1. AfterSize(Chunks, Drop(buf, i) \o <<>>, n, req.body) \subseteq Chunks[<<buf \o <<>>, req.body>>]
      BY <1>1, <2>1, <2>2, <2>5, ChunkOf DEF Facts
    <3> QED BY <2>4, <2>5, <3>1
  <2>7. AfterSize(Chunks, <<>>, n, req.body) = Wait
    <3>1. CASE n = 0
      <4>1. Drop(<<>>, 0) = <<>>
        BY SubSeqEmpty DEF Drop
      <4> QED BY <2>5, <3>1, <4>1 DEF AfterSize, AfterData
    <3>2. CASE n # 0
      BY <2>3, <2>5, <3>2 DEF AfterSize
    <3> QED BY <3>1, <3>2
  <2> QED BY <1>3, <1>7, <2>6, <2>7 DEF Outcome, SkipStates, MetaStates, SizeStates
<1>8. CASE ~Done /\ st = "READ_CHUNK_DATA"
  <2>1. Len(buf) < size
    BY <1>1, <1>8 DEF Waiting, IsMetaState
  <2>2. AfterSize(Chunks, buf, size, req.body) = Wait
    BY <2>1 DEF AfterSize
  <2> QED BY <1>3, <1>8, <2>2 DEF Outcome, SkipStates, MetaStates, SizeStates
<1>9. CASE ~Done /\ st = "SKIP_CRLF_CHUNK_DATA"
  <2>1. i = 0
    BY <1>9 DEF IInv, ReaderOK
  <2>2. CASE buf = <<>>
    BY <1>3, <1>9, <2>2 DEF Outcome, SkipStates, MetaStates, SizeStates, AfterData
  <2>3. CASE buf # <<>>
    <3>1. Len(buf) # 0
      BY <1>1, <2>3, EmptySeq DEF Facts
    <3>2. buf[1] = "CR" /\ ~(Len(buf) > 1 /\ buf[2] = "LF")
      BY <1>1, <1>9, <2>1, <3>1 DEF Waiting
    <3>3. AfterData(Chunks, buf, size, req.body) = Wait
      BY <2>3, <3>2 DEF AfterData
    <3> QED BY <1>3, <1>9, <3>3 DEF Outcome, SkipStates, MetaStates, SizeStates
  <2> QED BY <2>2, <2>3
<1>10. CASE ~Done /\ st = "READ_BODY_CONTENT_LENGTH"
  <2>1. i = 0 /\ Length > 0 /\ Length \in Nat
    BY <1>1, <1>10, StreamAssumption DEF IInv, ReaderOK, Scanned
  <2>2. Len(buf) < Length
    BY <1>1, <1>10, <2>1 DEF Waiting, Facts
  <2>3. ByLength(buf) = Wait
    BY <2>2 DEF ByLength
  <2> QED BY <1>3, <1>10, <2>3 DEF Outcome, SkipStates, MetaStates, SizeStates
<1> QED BY <1>1, <1>2, <1>4, <1>5, <1>6, <1>7, <1>8, <1>9, <1>10
        DEF State, Done, SkipStates, MetaStates

LEMMA FramingInvariant == Spec => []FInv
<1>1. Init => FInv
  BY StartFramed DEF Init, BufferInit
<1>2. IInv /\ FInv /\ [Next]_vars => FInv'
  <2> SUFFICES ASSUME IInv, FInv, [Next]_vars PROVE FInv'
    OBVIOUS
  <2>1. CASE Process
    BY <2>1, SkipFramed, ScanFramed, ParseMetaFramed, SizeFramed, DataFramed, ChunkEndFramed,
       BodyFramed, BreakFramed DEF Process
  <2>2. CASE Read
    BY <2>2, ReadFramed
  <2>3. CASE Reset
    <3>1. buf' = <<>> /\ fed' = <<>> /\ i' = 0 /\ st' = "SKIP_EMPTY_LINES" /\ req' = NoRequest
      BY <2>3 DEF Reset
    <3>2. EmptyLines(<<>>, 0) /\ Len(<<>>) = 0
      BY DEF EmptyLines
    <3>3. Scanned'
      BY <3>1, <3>2 DEF Scanned, NoRequest
    <3>4. Stopped'
      BY <3>1, <3>2 DEF Stopped, Waiting, IsMetaState
    <3>5. Promised'
      BY <3>1 DEF Promised, Outcome, SkipStates, MetaStates, SizeStates
    <3> QED BY <3>3, <3>4, <3>5 DEF FInv
  <2>4. CASE UNCHANGED vars
    BY <2>4 DEF vars, bufferVars, FInv, Scanned, Promised, Stopped, Done, Waiting, IsMetaState
  <2> QED BY <2>1, <2>2, <2>3, <2>4 DEF Next
<1> QED BY <1>1, <1>2, ReaderInvariant, PTL DEF Spec

\* However a stream is cut into pieces, the reader finds in it the message that
\* the whole stream holds, with its whole body, or an error where there is one,
\* and waits otherwise.
THEOREM RequestsFramed == Spec => []FramingExact
<1>1. IInv /\ FInv => FramingExact
  <2> SUFFICES ASSUME IInv, FInv, ~run
               PROVE  \E v \in Verdicts(fed) :
                        CASE st = "HAVE_MESSAGE"  -> v.is = "message" /\ v.body = req.body
                          [] st = "ERROR_OCCURED" -> v.is = "error"
                          [] OTHER                -> v.is = "wait"
    BY DEF FramingExact
  <2>1. Facts /\ <<>> \in Seq(Symbol)
    BY FactsOf
  <2>2. buf \o <<>> = buf /\ fed \o <<>> = fed
    BY <2>1, ConcatEmptySeq DEF Facts
  <2>3. Outcome(st, buf \o <<>>, size, req.body) \subseteq Verdicts(fed \o <<>>)
    BY <2>1 DEF FInv, Promised
  <2> QED BY <2>2, <2>3, WaitsRightly
<1> QED BY <1>1, ReaderInvariant, FramingInvariant, PTL
=============================================================================
