--------------------------- MODULE CgiReaderProofs ---------------------------
(***************************************************************************)
(* Proofs about CgiReader, for any outputs, any way to cut them into       *)
(* pieces and any moment of the hang-up: no substr of the reader throws,   *)
(* the buffer is always the end of what was read, and the response is the  *)
(* one that the whole output holds.                                        *)
(***************************************************************************)
EXTENDS CgiFraming, ReaderBufferProofs

Response == [header : {"none", "code", "word"}, status : Status, body : Seq(Symbol)]

\* Beyond BufferOK: the index is 0 in the states that measure the body.
ReaderOK == /\ st \in State /\ run \in BOOLEAN /\ end \in Nat /\ hup \in BOOLEAN
            /\ res \in Response
            /\ st \in {"READ_BODY_CONTENT_LENGTH", "READ_BODY_INFINITE"} => i = 0

IInv == BufferOK /\ ReaderOK

-----------------------------------------------------------------------------
LEMMA HeaderType ==
    ASSUME NEW lines, NEW meta
    PROVE  StatusHeader(lines, meta) \in {"none", "code", "word"}
  BY DEF StatusHeader

LEMMA StatusType ==
    ASSUME NEW header
    PROVE  ParseCgiStatus(header) \in Status
  BY DEF ParseCgiStatus, Status

LEMMA BodyType ==
    ASSUME res \in Response, buf \in Seq(Symbol), NEW n \in 0..Len(buf), NEW s \in Status,
           res' = [res EXCEPT !.body = Front(buf, n), !.status = s]
    PROVE  res' \in Response
<1>1. Front(buf, n) \in Seq(Symbol)
  BY FrontType
<1> QED BY <1>1 DEF Response

LEMMA ProcessStep ==
    ASSUME IInv, Process
    PROVE  IInv'
<1>1. /\ BufferOK /\ ReaderOK /\ UNCHANGED <<rest, fed, hup>>
      /\ buf \in Seq(Symbol) /\ i \in 0..Len(buf) /\ Len(buf) \in Nat
      /\ end \in Nat /\ run \in BOOLEAN /\ hup \in BOOLEAN /\ res \in Response
  BY LenProperties DEF IInv, BufferOK, ReaderOK, Process
\* A step that only advances, only flushes, or leaves the buffer alone.
<1>2. ASSUME NEW next \in {"SKIP_EMPTY_LINES", "SKIP_CRLF_EMPTY_LINES", "BUFF_HEADERS",
                           "BUFF_HEADER_PAIR", "PARSE_HEADERS"},
             Advance(next), i < Len(buf), UNCHANGED <<run, end, res>>
      PROVE  IInv'
  <2>1. BufferOK' /\ st' = next
    BY <1>1, <1>2, AdvanceStep
  <2> QED BY <1>1, <1>2, <2>1 DEF IInv, ReaderOK, State
<1>3. ASSUME NEW n \in 0..Len(buf), NEW next \in State, Flush(n, next),
             run' \in BOOLEAN, end' = end, res' \in Response
      PROVE  IInv'
  <2>1. BufferOK' /\ i' = 0 /\ st' = next
    BY <1>1, <1>3, FlushStep
  <2> QED BY <1>1, <1>3, <2>1 DEF IInv, ReaderOK, Response
<1>4. ASSUME UNCHANGED <<buf, i, end, res>>, run' \in BOOLEAN,
             \/ st' = st
             \/ st' = "BUFF_HEADER_PAIR"
      PROVE  IInv'
  <2>1. BufferOK'
    BY <1>1, <1>4, StayStep
  <2> QED BY <1>1, <1>4, <2>1 DEF IInv, ReaderOK, State, Response
<1>5. CASE SkipEmptyLines
  BY <1>1, <1>2, <1>3, <1>5 DEF SkipEmptyLines, In, IsMetaState, State
<1>6. CASE SkipCrlfEmptyLines
  BY <1>1, <1>2, <1>3, <1>6 DEF SkipCrlfEmptyLines, In, IsMetaState, State
<1>7. CASE BuffHeaders
  <2>1. CASE st' = "BUFF_HEADER_PAIR" /\ UNCHANGED <<buf, i>>
    BY <1>1, <1>4, <1>7, <2>1 DEF BuffHeaders
  <2>2. CASE Advance("PARSE_HEADERS") \/ Advance("BUFF_HEADERS")
    BY <1>1, <1>2, <1>7, <2>2 DEF BuffHeaders, In, IsMetaState
  <2> QED BY <1>7, <2>1, <2>2 DEF BuffHeaders
<1>8. CASE BuffHeaderPair
  BY <1>1, <1>2, <1>8 DEF BuffHeaderPair, In, IsMetaState
<1>9. CASE ParseHeaders
  <2> DEFINE h == StatusHeader(Lines(Front(buf, i)), Front(buf, i))
  <2>1. h \in {"none", "code", "word"}
    BY HeaderType
  <2>2. /\ \E next \in {"ERROR_OCCURED", "READ_BODY_CONTENT_LENGTH", "READ_BODY_INFINITE"} :
              Flush(i, next)
        /\ run' = FALSE \/ run' = run
        /\ end' = end
        /\ res' = res \/ res' = [res EXCEPT !.header = h]
    BY <1>9 DEF ParseHeaders
  <2> HIDE DEF h
  <2>3. res' \in Response
    BY <1>1, <2>1, <2>2 DEF Response
  <2> QED BY <1>1, <1>3, <2>2, <2>3 DEF State
<1>10. CASE ReadBodyContentLength
  <2> DEFINE s == ParseCgiStatus(res.header)
  <2>1. s \in Status
    BY StatusType
  <2>2. CASE Len(buf) >= Length
    <3>1. Length \in 0..Len(buf)
      BY <1>1, <2>2, StreamAssumption
    <3>2. /\ Flush(Length, IF s = "bad" THEN "ERROR_OCCURED" ELSE "HAVE_MESSAGE")
          /\ res' = [res EXCEPT !.body = Front(buf, Length), !.status = s]
          /\ run' = FALSE /\ end' = end
      BY <1>1, <1>10, <2>2, StreamAssumption DEF ReadBodyContentLength
    <3> HIDE DEF s
    <3>3. res' \in Response
      BY <1>1, <2>1, <3>1, <3>2, BodyType
    <3> QED BY <1>1, <1>3, <3>1, <3>2, <3>3 DEF State
  <2>3. CASE ~(Len(buf) >= Length)
    BY <1>1, <1>4, <1>10, <2>3 DEF ReadBodyContentLength
  <2> QED BY <2>2, <2>3
<1>11. CASE ReadBodyInfinite
  <2> DEFINE s == ParseCgiStatus(res.header)
  <2>1. s \in Status
    BY StatusType
  <2>2. CASE Len(buf) >= end
    <3>1. end \in 0..Len(buf)
      BY <1>1, <2>2
    <3>2. /\ Flush(end, "HAVE_MESSAGE")
          /\ res' = [res EXCEPT !.body = Front(buf, end), !.status = s]
          /\ run' = FALSE /\ end' = end
      BY <1>1, <1>11, <2>2 DEF ReadBodyInfinite
    <3> HIDE DEF s
    <3>3. res' \in Response
      BY <1>1, <2>1, <3>1, <3>2, BodyType
    <3> QED BY <1>1, <1>3, <3>1, <3>2, <3>3 DEF State
  <2>3. CASE ~(Len(buf) >= end)
    BY <1>1, <1>4, <1>11, <2>3 DEF ReadBodyInfinite
  <2> QED BY <2>2, <2>3
<1>12. CASE Break
  BY <1>4, <1>12 DEF Break
<1> QED BY <1>5, <1>6, <1>7, <1>8, <1>9, <1>10, <1>11, <1>12 DEF Process

-----------------------------------------------------------------------------
\* The reader's index never leaves its buffer, and its buffer is always the end
\* of what was read: the inductive invariant of the state machine.
THEOREM CgiReaderInvariant == Spec => []IInv
<1>1. Init => IInv
  <2> SUFFICES ASSUME Init PROVE IInv
    OBVIOUS
  <2>1. BufferOK /\ st = "SKIP_EMPTY_LINES" /\ run = FALSE
    BY BufferStarts DEF Init
  <2>2. end \in Nat /\ hup = FALSE /\ res = NoResponse
    BY NPosAssumption DEF Init
  <2>3. <<>> \in Seq(Symbol)
    OBVIOUS
  <2> QED BY <2>1, <2>2, <2>3 DEF IInv, ReaderOK, NoResponse, State, Status, Response
<1>2. IInv /\ [Next]_vars => IInv'
  <2> SUFFICES ASSUME IInv, [Next]_vars PROVE IInv'
    OBVIOUS
  <2>1. CASE Process
    BY <2>1, ProcessStep
  <2>2. CASE OnCgiOutput
    <3>1. BufferOK' /\ i' = i /\ st' = st /\ run' = TRUE /\ UNCHANGED <<end, hup, res>>
      BY <2>2, FeedStep DEF IInv, OnCgiOutput
    <3> QED BY <3>1 DEF IInv, ReaderOK, Response
  <2>3. CASE OnCgiHup
    <3>1. BufferOK'
      BY <2>3, StayStep DEF IInv, OnCgiHup
    <3>2. end' \in Nat
      BY <2>3, LenProperties DEF OnCgiHup, IInv, BufferOK
    <3> QED BY <2>3, <3>1, <3>2 DEF OnCgiHup, IInv, ReaderOK, Response
  <2>4. CASE UNCHANGED vars
    <3>1. BufferOK'
      BY <2>4, StayStep DEF IInv, vars, bufferVars
    <3> QED BY <2>4, <3>1 DEF vars, bufferVars, IInv, ReaderOK, Response
  <2> QED BY <2>1, <2>2, <2>3, <2>4 DEF Next
<1> QED BY <1>1, <1>2, PTL DEF Spec

\* Every variable of the reader keeps its type.
THEOREM CgiReaderTypeCorrect == Spec => []TypeOK
<1>1. IInv => TypeOK
  BY DEF IInv, BufferOK, ReaderOK, TypeOK, Response
<1> QED BY <1>1, CgiReaderInvariant, PTL

\* No substr of the reader throws, whatever a worker writes, however it is cut
\* into pieces and whenever the worker hangs up.
THEOREM CgiNoSubstrThrows == Spec => []NeverOutOfRange
<1>1. IInv => NeverOutOfRange
  BY DEF IInv, ReaderOK, State, NeverOutOfRange
<1> QED BY <1>1, CgiReaderInvariant, PTL

\* No byte of a worker's output is dropped, repeated or moved between two pieces.
THEOREM CgiNoByteMoved == Spec => []BufferIsSuffix
<1>1. IInv => BufferIsSuffix
  BY DEF IInv, BufferOK
<1> QED BY <1>1, CgiReaderInvariant, PTL

-----------------------------------------------------------------------------
(* The framing.  From any state of the reader, whatever follows and whenever *)
(* the worker hangs up, there is an outcome for the bytes that the reader    *)
(* has not consumed: it is what the whole output should give.                *)

SkipStates   == {"SKIP_EMPTY_LINES", "SKIP_CRLF_EMPTY_LINES"}
HeaderStates == {"BUFF_HEADERS", "BUFF_HEADER_PAIR", "PARSE_HEADERS"}
BodyStates   == {"READ_BODY_CONTENT_LENGTH", "READ_BODY_INFINITE"}

\* What is to be made of left, from state s, when the worker has or has not hung
\* up behind it.
Outcome(s, left, hung, header, body) ==
    CASE s \in SkipStates               -> Judge(Skipped(left), hung)
      [] s \in HeaderStates             -> Judge(left, hung)
      [] s = "READ_BODY_CONTENT_LENGTH" -> Sized(left, header)
      [] s = "READ_BODY_INFINITE"       -> Unsized(left, hung)
      [] s = "HAVE_MESSAGE"             -> Message(body)
      [] OTHER                          -> Bad

\* Nothing is read behind a hang-up.
MayFollow(x, hung) == hup => x = <<>> /\ hung

Promised == \A x \in Seq(Symbol), hung \in BOOLEAN : MayFollow(x, hung) =>
                Outcome(st, buf \o x, hung, res.header, res.body)
                  = Judge(Skipped(fed \o x), hung)

\* What the reader knows of the symbols it has passed.
Scanned ==
    /\ st = "SKIP_EMPTY_LINES" => buf = fed /\ EmptyLines(buf, i)
    /\ st = "SKIP_CRLF_EMPTY_LINES" => /\ buf = fed /\ i > 0
                                       /\ EmptyLines(buf, i - 1) /\ buf[i] = "CR"
    /\ st = "BUFF_HEADERS"     => MayBeBlank(buf, i)
    /\ st = "BUFF_HEADER_PAIR" => NotBlank(buf, i)
    /\ st = "PARSE_HEADERS"    => IsFirstBlank(buf, i)

\* The end of a body without a length: none, or the end of the buffer.
Ended == /\ fed \o rest \in Streams
         /\ ~hup => end = NPos
         /\ hup /\ ~Done => end = Len(buf) /\ ((i = Len(buf) /\ ~IsMetaState) \/ st \in BodyStates)

\* Where Process returns without a message or an error.
Waiting == \/ i = Len(buf) /\ ~IsMetaState
           \/ st = "READ_BODY_CONTENT_LENGTH" /\ Len(buf) < Length
           \/ st = "READ_BODY_INFINITE" /\ ~hup

Stopped == ~run => Done \/ Waiting

FInv == Scanned /\ Promised /\ Ended /\ Stopped

\* What every step starts from.
Facts == /\ buf \in Seq(Symbol) /\ fed \in Seq(Symbol) /\ rest \in Seq(Symbol)
         /\ i \in Nat /\ i <= Len(buf) /\ i \in 0..Len(buf) /\ Len(buf) \in Nat
         /\ end \in Nat /\ hup \in BOOLEAN /\ res \in Response

LEMMA FactsOf ==
    ASSUME IInv
    PROVE  Facts
  BY LenProperties DEF IInv, BufferOK, ReaderOK, Facts

\* A step that reads nothing keeps the promise if its outcome was the one before.
LEMMA PromiseKept ==
    ASSUME Promised, UNCHANGED <<fed, hup>>,
           \A x \in Seq(Symbol), hung \in BOOLEAN : MayFollow(x, hung) =>
              Outcome(st', buf' \o x, hung, res'.header, res'.body)
                = Outcome(st, buf \o x, hung, res.header, res.body)
    PROVE  Promised'
  BY DEF Promised, MayFollow

\* The headers of an output do not depend on what follows them.
LEMMA HeadersOf ==
    ASSUME NEW q \in Seq(Symbol), NEW x \in Seq(Symbol), NEW k, IsFirstBlank(q, k), NEW hung
    PROVE  Judge(q \o x, hung) =
             IF \E text \in Lines(Front(q, k)) : ~ParsesAsHeader(text) THEN Bad
             ELSE IF Has(Lines(Front(q, k)), "len") /\ Length > 0
                  THEN Sized(Drop(q, k) \o x, StatusHeader(Lines(Front(q, k)), Front(q, k)))
             ELSE Unsized(Drop(q, k) \o x, hung)
<1>1. k \in 1..Len(q) /\ k \in 0..Len(q) /\ q \o x \in Seq(Symbol)
  BY FirstBlankIs, ConcatKeeps
<1>2. IsFirstBlank(q \o x, k)
  BY <1>1, ScanConcat
<1>3. FirstOf(BlankLines(q \o x)) = k /\ BlankLines(q \o x) # {}
  BY <1>1, <1>2, FirstBlankIs
<1>4. Front(q \o x, k) = Front(q, k) /\ Drop(q \o x, k) = Drop(q, k) \o x
  BY <1>1, FrontConcat, DropConcat
<1> QED BY <1>3, <1>4 DEF Judge

LEMMA SizedOf ==
    ASSUME NEW q \in Seq(Symbol), NEW x \in Seq(Symbol), Length \in 0..Len(q), NEW header
    PROVE  Sized(q \o x, header) = IF ParseCgiStatus(header) = "bad" THEN Bad
                                   ELSE Message(Front(q, Length))
<1>1. Len(q \o x) >= Length /\ Len(q \o x) \in Nat /\ Length \in Nat
  BY ConcatKeeps
<1>2. Front(q \o x, Length) = Front(q, Length)
  BY FrontConcat
<1> QED BY <1>1, <1>2 DEF Sized

\* No buffer is as long as npos.
LEMMA ShorterThanNPos ==
    ASSUME IInv, Ended
    PROVE  Len(buf) < NPos
<1>1. Facts
  BY FactsOf
<1>2. PICK k \in 0..Len(fed) : buf = Drop(fed, k)
  BY DEF IInv, BufferOK, BufferIsSuffix
<1>3. Len(buf) <= Len(fed) /\ Len(fed) \in Nat
  BY <1>1, <1>2, DropType, LenProperties DEF Facts
<1>4. Len(fed \o rest) = Len(fed) + Len(rest) /\ Len(rest) \in Nat
  BY <1>1, ConcatKeeps DEF Facts
<1>5. Len(fed \o rest) < NPos /\ NPos \in Nat
  BY NPosAssumption DEF Ended
<1> QED BY <1>1, <1>3, <1>4, <1>5 DEF Facts

LEMMA SkipFramed ==
    ASSUME IInv, FInv, SkipEmptyLines \/ SkipCrlfEmptyLines, UNCHANGED <<rest, fed, hup>>
    PROVE  FInv'
<1>1. Facts /\ Scanned /\ Promised /\ Ended /\ Stopped
  BY FactsOf DEF FInv
<1>2. /\ st \in SkipStates /\ run /\ run' = run /\ end' = end /\ res' = res
      /\ i < Len(buf) /\ buf = fed
  BY <1>1 DEF SkipEmptyLines, SkipCrlfEmptyLines, In, IsMetaState, SkipStates, Scanned
<1>3. ~hup
  BY <1>1, <1>2 DEF Ended, Done, SkipStates, BodyStates, Facts
<1>4. Stopped' /\ Ended'
  BY <1>1, <1>2, <1>3 DEF Stopped, Ended
<1>5. CASE Advance("SKIP_EMPTY_LINES") \/ Advance("SKIP_CRLF_EMPTY_LINES")
  <2>1. buf' = buf /\ i' = i + 1 /\ st' \in SkipStates
    BY <1>5 DEF Advance, SkipStates
  <2>2. Promised'
    <3>1. \A x \in Seq(Symbol), hung \in BOOLEAN :
             Outcome(st', buf' \o x, hung, res'.header, res'.body)
               = Outcome(st, buf \o x, hung, res.header, res.body)
      BY <1>2, <2>1 DEF Outcome, SkipStates, HeaderStates
    <3> QED BY <1>1, <3>1, PromiseKept
  <2>3. CASE st' = "SKIP_EMPTY_LINES"
    <3>1. buf[i + 1] = "LF"
      BY <1>5, <2>1, <2>3 DEF SkipEmptyLines, SkipCrlfEmptyLines, Advance, Next1, Flush
    <3>2. EmptyLines(buf, i) \/ (i > 0 /\ EmptyLines(buf, i - 1) /\ buf[i] = "CR")
      BY <1>1, <1>2 DEF Scanned, SkipStates
    <3>3. EmptyLines(buf, i + 1)
      BY <1>1, <3>1, <3>2, OneMoreEmptyLine DEF Facts
    <3> QED BY <1>2, <1>4, <2>1, <2>2, <2>3, <3>3 DEF FInv, Scanned
  <2>4. CASE st' = "SKIP_CRLF_EMPTY_LINES"
    <3>1. st = "SKIP_EMPTY_LINES" /\ buf[i + 1] = "CR"
      BY <1>5, <2>1, <2>4 DEF SkipEmptyLines, SkipCrlfEmptyLines, Advance, Next1, Flush, In
    <3>2. EmptyLines(buf, i) /\ (i + 1) - 1 = i /\ i + 1 > 0
      BY <1>1, <3>1 DEF Scanned, Facts
    <3> QED BY <1>2, <1>4, <2>1, <2>2, <2>4, <3>1, <3>2 DEF FInv, Scanned
  <2> QED BY <2>1, <2>3, <2>4 DEF SkipStates
<1>6. CASE Flush(i, "BUFF_HEADERS")
  <2>1. buf' = Drop(buf, i) /\ i' = 0 /\ st' = "BUFF_HEADERS"
    BY <1>1, <1>6 DEF Flush, Facts
  <2>2. buf' \in Seq(Symbol)
    BY <1>1, <2>1, DropType DEF Facts
  <2>3. MayBeBlank(buf', 0)
    BY <2>2, StartsMayBeBlank
  <2>4. Scanned'
    BY <2>1, <2>3 DEF Scanned
  <2>5. \/ EmptyLines(buf, i) /\ buf[i + 1] \notin {"CR", "LF"}
        \/ i > 0 /\ EmptyLines(buf, i - 1) /\ buf[i] = "CR" /\ buf[i + 1] # "LF"
    <3>1. CASE SkipEmptyLines
      BY <1>1, <1>6, <2>1, <3>1 DEF SkipEmptyLines, In, Advance, Next1, Scanned
    <3>2. CASE SkipCrlfEmptyLines
      BY <1>1, <1>6, <2>1, <3>2 DEF SkipCrlfEmptyLines, In, Advance, Next1, Scanned
    <3> QED BY <3>1, <3>2
  <2>6. ASSUME NEW x \in Seq(Symbol)
        PROVE  Skipped(buf \o x) = buf' \o x
    BY <1>1, <1>2, <2>1, <2>5, SkipEnds DEF Facts
  <2>7. Promised'
    <3>1. \A x \in Seq(Symbol), hung \in BOOLEAN :
             Outcome(st', buf' \o x, hung, res'.header, res'.body)
               = Outcome(st, buf \o x, hung, res.header, res.body)
      BY <1>2, <2>1, <2>6 DEF Outcome, SkipStates, HeaderStates
    <3> QED BY <1>1, <3>1, PromiseKept
  <2> QED BY <1>4, <2>4, <2>7 DEF FInv
<1> QED BY <1>5, <1>6 DEF SkipEmptyLines, SkipCrlfEmptyLines

LEMMA ScanFramed ==
    ASSUME IInv, FInv, BuffHeaders \/ BuffHeaderPair, UNCHANGED <<rest, fed, hup>>
    PROVE  FInv'
<1>1. Facts /\ Scanned /\ Promised /\ Ended /\ Stopped
  BY FactsOf DEF FInv
<1>2. /\ st \in {"BUFF_HEADERS", "BUFF_HEADER_PAIR"} /\ run /\ run' = run /\ end' = end
      /\ res' = res /\ i < Len(buf) /\ buf' = buf /\ st' \in HeaderStates /\ st \in HeaderStates
  BY <1>1 DEF BuffHeaders, BuffHeaderPair, In, IsMetaState, HeaderStates, Advance
<1>3. ~hup
  BY <1>1, <1>2 DEF Ended, Done, BodyStates, Facts
<1>4. Stopped' /\ Ended'
  BY <1>1, <1>2, <1>3 DEF Stopped, Ended
<1>5. Promised'
  <2>1. \A x \in Seq(Symbol), hung \in BOOLEAN :
           Outcome(st', buf' \o x, hung, res'.header, res'.body)
             = Outcome(st, buf \o x, hung, res.header, res.body)
    BY <1>2 DEF Outcome, SkipStates, HeaderStates
  <2> QED BY <1>1, <2>1, PromiseKept
<1>6. CASE BuffHeaders
  <2>1. MayBeBlank(buf, i)
    BY <1>1, <1>6 DEF BuffHeaders, In, Scanned
  <2>2. CASE Next1 = "LF" /\ Advance("PARSE_HEADERS")
    <3>1. IsFirstBlank(buf, i + 1)
      BY <1>1, <1>2, <2>1, <2>2, ScanBlankLine DEF Facts, Next1
    <3> QED BY <1>2, <1>4, <1>5, <2>2, <3>1 DEF FInv, Scanned, Advance
  <2>3. CASE Next1 = "CR" /\ Advance("BUFF_HEADERS")
    <3>1. MayBeBlank(buf, i + 1)
      BY <1>1, <1>2, <2>1, <2>3, ScanCR DEF Facts, Next1
    <3> QED BY <1>2, <1>4, <1>5, <2>3, <3>1 DEF FInv, Scanned, Advance
  <2>4. CASE Next1 \notin {"CR", "LF"} /\ st' = "BUFF_HEADER_PAIR" /\ UNCHANGED <<buf, i>>
    <3>1. NotBlank(buf, i)
      BY <1>1, <1>2, <2>1, <2>4, ScanOther DEF Facts, Next1
    <3> QED BY <1>2, <1>4, <1>5, <2>4, <3>1 DEF FInv, Scanned
  <2> QED BY <1>6, <2>2, <2>3, <2>4 DEF BuffHeaders
<1>7. CASE BuffHeaderPair
  <2>1. NotBlank(buf, i) /\ i' = i + 1
    BY <1>1, <1>7 DEF BuffHeaderPair, In, Scanned, Advance
  <2>2. CASE Next1 = "LF"
    <3>1. MayBeBlank(buf, i + 1) /\ st' = "BUFF_HEADERS"
      BY <1>1, <1>2, <1>7, <2>1, <2>2, ScanLineEnd DEF Facts, Next1, BuffHeaderPair, Advance
    <3> QED BY <1>2, <1>4, <1>5, <2>1, <3>1 DEF FInv, Scanned
  <2>3. CASE Next1 # "LF"
    <3>1. NotBlank(buf, i + 1) /\ st' = "BUFF_HEADER_PAIR"
      BY <1>1, <1>2, <1>7, <2>1, <2>3, ScanInside DEF Facts, Next1, BuffHeaderPair, Advance
    <3> QED BY <1>2, <1>4, <1>5, <2>1, <3>1 DEF FInv, Scanned
  <2> QED BY <2>2, <2>3
<1> QED BY <1>6, <1>7

LEMMA ParseHeadersFramed ==
    ASSUME IInv, FInv, ParseHeaders, UNCHANGED <<rest, fed, hup>>
    PROVE  FInv'
<1>1. Facts /\ Scanned /\ Promised /\ Ended
  BY FactsOf DEF FInv
<1> DEFINE lines == Lines(Front(buf, i))
           header == StatusHeader(lines, Front(buf, i))
<1>2. st = "PARSE_HEADERS" /\ run /\ end' = end /\ IsFirstBlank(buf, i)
  BY <1>1 DEF ParseHeaders, In, Scanned
<1>3. ~hup
  BY <1>1, <1>2 DEF Ended, Done, BodyStates, IsMetaState
<1>4. ASSUME NEW x \in Seq(Symbol), NEW hung
      PROVE  Judge(buf \o x, hung) =
                IF \E text \in lines : ~ParsesAsHeader(text) THEN Bad
                ELSE IF Has(lines, "len") /\ Length > 0
                     THEN Sized(Drop(buf, i) \o x, header)
                ELSE Unsized(Drop(buf, i) \o x, hung)
  BY <1>1, <1>2, HeadersOf DEF Facts
<1>5. /\ buf' = Drop(buf, i) /\ i' = 0
      /\ \/ /\ \E text \in lines : ~ParsesAsHeader(text)
            /\ st' = "ERROR_OCCURED" /\ run' = FALSE
         \/ /\ \A text \in lines : ParsesAsHeader(text)
            /\ st' = IF Has(lines, "len") /\ Length > 0
                     THEN "READ_BODY_CONTENT_LENGTH" ELSE "READ_BODY_INFINITE"
            /\ run' = run /\ res'.header = header
  BY <1>1 DEF ParseHeaders, Flush, Facts, Response
<1> HIDE DEF lines, header
<1>6. Scanned'
  BY <1>5 DEF Scanned
<1>7. Stopped' /\ Ended'
  BY <1>1, <1>2, <1>3, <1>5 DEF Stopped, Done, Ended
<1>8. ASSUME NEW x \in Seq(Symbol), NEW hung \in BOOLEAN
      PROVE  Outcome(st', buf' \o x, hung, res'.header, res'.body)
               = Outcome(st, buf \o x, hung, res.header, res.body)
  <2>1. Outcome(st, buf \o x, hung, res.header, res.body) = Judge(buf \o x, hung)
    BY <1>2 DEF Outcome, SkipStates, HeaderStates
  <2>2. CASE \E text \in lines : ~ParsesAsHeader(text)
    BY <1>4, <1>5, <2>1, <2>2 DEF Outcome, SkipStates, HeaderStates
  <2>3. CASE /\ \A text \in lines : ParsesAsHeader(text)
             /\ Has(lines, "len") /\ Length > 0
    BY <1>4, <1>5, <2>1, <2>3 DEF Outcome, SkipStates, HeaderStates
  <2>4. CASE /\ \A text \in lines : ParsesAsHeader(text)
             /\ ~(Has(lines, "len") /\ Length > 0)
    BY <1>4, <1>5, <2>1, <2>4 DEF Outcome, SkipStates, HeaderStates
  <2> QED BY <2>2, <2>3, <2>4
<1>9. Promised'
  BY <1>1, <1>8, PromiseKept
<1> QED BY <1>6, <1>7, <1>9 DEF FInv

LEMMA SizedFramed ==
    ASSUME IInv, FInv, ReadBodyContentLength, UNCHANGED <<rest, fed, hup>>
    PROVE  FInv'
<1>1. Facts /\ Scanned /\ Promised /\ Ended
  BY FactsOf DEF FInv
<1>2. st = "READ_BODY_CONTENT_LENGTH" /\ run' = FALSE /\ end' = end
  BY DEF ReadBodyContentLength, In
<1>3. CASE Len(buf) >= Length
  <2>1. /\ res'.body = Front(buf, Length)
        /\ st' = IF ParseCgiStatus(res.header) = "bad" THEN "ERROR_OCCURED" ELSE "HAVE_MESSAGE"
    <3> DEFINE s == ParseCgiStatus(res.header)
    <3>1. /\ Flush(Length, IF s = "bad" THEN "ERROR_OCCURED" ELSE "HAVE_MESSAGE")
          /\ res' = [res EXCEPT !.body = Front(buf, Length), !.status = s]
      BY <1>1, <1>3, StreamAssumption DEF ReadBodyContentLength, Facts
    <3> HIDE DEF s
    <3>2. st' = IF s = "bad" THEN "ERROR_OCCURED" ELSE "HAVE_MESSAGE"
      BY <1>3, <3>1 DEF Flush
    <3>3. res'.body = Front(buf, Length)
      BY <1>1, <3>1 DEF Facts, Response
    <3> QED BY <3>2, <3>3 DEF s
  <2>2. Stopped' /\ Scanned' /\ Ended'
    BY <1>1, <1>2, <2>1 DEF Stopped, Done, Scanned, Ended
  <2>3. Length \in 0..Len(buf)
    BY <1>1, <1>3, StreamAssumption DEF Facts
  <2>4. \A x \in Seq(Symbol) :
           Sized(buf \o x, res.header) = IF ParseCgiStatus(res.header) = "bad" THEN Bad
                                         ELSE Message(res'.body)
    BY <1>1, <2>1, <2>3, SizedOf DEF Facts
  <2>5. \A x \in Seq(Symbol), hung \in BOOLEAN :
           Outcome(st', buf' \o x, hung, res'.header, res'.body)
             = Outcome(st, buf \o x, hung, res.header, res.body)
    BY <1>2, <2>1, <2>4 DEF Outcome, SkipStates, HeaderStates
  <2> QED BY <1>1, <2>2, <2>5, PromiseKept DEF FInv
<1>4. CASE ~(Len(buf) >= Length)
  <2>1. UNCHANGED <<buf, i, st, res, fed, hup, rest, end>>
    BY <1>2, <1>4 DEF ReadBodyContentLength
  <2>2. Len(buf) < Length
    BY <1>1, <1>4, StreamAssumption DEF Facts
  <2>3. Stopped'
    BY <1>2, <2>1, <2>2 DEF Stopped, Waiting
  <2>4. Scanned' /\ Promised' /\ Ended'
    BY <1>1, <2>1 DEF Scanned, Promised, MayFollow, Ended, Done, IsMetaState
  <2> QED BY <2>3, <2>4 DEF FInv
<1> QED BY <1>3, <1>4

LEMMA UnsizedFramed ==
    ASSUME IInv, FInv, ReadBodyInfinite, UNCHANGED <<rest, fed, hup>>
    PROVE  FInv'
<1>1. Facts /\ Scanned /\ Promised /\ Ended
  BY FactsOf DEF FInv
<1>2. st = "READ_BODY_INFINITE" /\ run' = FALSE /\ end' = end
  BY DEF ReadBodyInfinite, In
<1>3. CASE Len(buf) >= end
  <2>1. res'.body = Front(buf, end) /\ st' = "HAVE_MESSAGE"
    <3>1. /\ Flush(end, "HAVE_MESSAGE")
          /\ res' = [res EXCEPT !.body = Front(buf, end), !.status = ParseCgiStatus(res.header)]
      BY <1>1, <1>3 DEF ReadBodyInfinite, Facts
    <3>2. st' = "HAVE_MESSAGE"
      BY <1>3, <3>1 DEF Flush
    <3>3. res'.body = Front(buf, end)
      BY <1>1, <3>1 DEF Facts, Response
    <3> QED BY <3>2, <3>3
  <2>2. Stopped' /\ Scanned' /\ Ended'
    BY <1>1, <1>2, <2>1 DEF Stopped, Done, Scanned, Ended
  <2>3. hup
    BY <1>1, <1>3, ShorterThanNPos, NPosAssumption DEF Ended, Facts
  <2>4. end = Len(buf)
    BY <1>1, <1>2, <2>3 DEF Ended, Done
  <2>5. Front(buf, Len(buf)) = buf
    BY <1>1, SubSeqFull DEF Front, Facts
  <2>6. buf \o <<>> = buf
    BY <1>1, ConcatEmptySeq DEF Facts
  <2>7. ASSUME NEW x \in Seq(Symbol), NEW hung \in BOOLEAN, MayFollow(x, hung)
        PROVE  Outcome(st', buf' \o x, hung, res'.header, res'.body)
                 = Outcome(st, buf \o x, hung, res.header, res.body)
    <3>1. x = <<>> /\ hung
      BY <2>3, <2>7 DEF MayFollow
    <3>2. Unsized(buf \o x, hung) = Message(buf)
      BY <2>6, <3>1 DEF Unsized
    <3> QED BY <1>2, <2>1, <2>4, <2>5, <3>2 DEF Outcome, SkipStates, HeaderStates
  <2>8. Promised'
    BY <1>1, <2>7, PromiseKept
  <2> QED BY <2>2, <2>8 DEF FInv
<1>4. CASE ~(Len(buf) >= end)
  <2>1. UNCHANGED <<buf, i, st, res, fed, hup, rest, end>>
    BY <1>2, <1>4 DEF ReadBodyInfinite
  <2>2. ~hup
    BY <1>1, <1>2, <1>4 DEF Ended, Done, Facts
  <2>3. Stopped'
    BY <1>2, <2>1, <2>2 DEF Stopped, Waiting
  <2>4. Scanned' /\ Promised' /\ Ended'
    BY <1>1, <2>1 DEF Scanned, Promised, MayFollow, Ended, Done, IsMetaState
  <2> QED BY <2>3, <2>4 DEF FInv
<1> QED BY <1>3, <1>4

LEMMA BreakFramed ==
    ASSUME IInv, FInv, Break, UNCHANGED <<rest, fed, hup>>
    PROVE  FInv'
<1>1. Facts /\ Scanned /\ Promised /\ Ended
  BY FactsOf DEF FInv
<1>2. UNCHANGED <<buf, i, st, res, fed, hup, rest, end>> /\ i = Len(buf) /\ ~IsMetaState
  BY <1>1 DEF Break, Facts
<1>3. Stopped'
  BY <1>2 DEF Stopped, Waiting, IsMetaState
<1>4. Scanned' /\ Promised' /\ Ended'
  BY <1>1, <1>2 DEF Scanned, Promised, MayFollow, Ended, Done, IsMetaState
<1> QED BY <1>3, <1>4 DEF FInv

\* The pieces the output comes in make no difference: a piece that is read only
\* moves from what may follow to what is there.
LEMMA OutputFramed ==
    ASSUME IInv, FInv, OnCgiOutput
    PROVE  FInv'
<1>1. Facts /\ Scanned /\ Promised /\ Ended
  BY FactsOf DEF FInv
<1>2. UNCHANGED <<i, st, end, hup, res>> /\ run' = TRUE /\ ~hup
  BY DEF OnCgiOutput, Feed
<1>3. PICK p \in Seq(Symbol) :
         buf' = buf \o p /\ fed' = fed \o p /\ fed' \o rest' = fed \o rest
  <2>1. PICK n \in 1..Len(rest) : /\ buf' = buf \o Front(rest, n)
                                  /\ fed' = fed \o Front(rest, n)
                                  /\ rest' = Drop(rest, n)
    BY DEF OnCgiOutput, Feed
  <2>2. n \in 0..Len(rest) /\ rest \in Seq(Symbol) /\ fed \in Seq(Symbol)
    BY <1>1, LenProperties DEF Facts
  <2>3. Front(rest, n) \in Seq(Symbol) /\ Drop(rest, n) \in Seq(Symbol)
    BY <2>2, FrontType, DropType
  <2>4. Front(rest, n) \o Drop(rest, n) = rest
    BY <2>2, FrontAndDrop
  <2>5. fed' \o rest' = fed \o rest
    <3>1. (fed \o Front(rest, n)) \o Drop(rest, n) = fed \o (Front(rest, n) \o Drop(rest, n))
      BY <2>2, <2>3, ConcatConcat
    <3> QED BY <2>1, <2>4, <3>1
  <2> QED BY <2>1, <2>3, <2>5
<1>4. Stopped' /\ Ended'
  BY <1>1, <1>2, <1>3 DEF Stopped, Ended
<1>5. Promised'
  <2> SUFFICES ASSUME NEW x \in Seq(Symbol), NEW hung \in BOOLEAN
               PROVE  Outcome(st', buf' \o x, hung, res'.header, res'.body)
                        = Judge(Skipped(fed' \o x), hung)
    BY DEF Promised
  <2>1. p \o x \in Seq(Symbol)
    BY <1>3, ConcatKeeps
  <2>2. buf' \o x = buf \o (p \o x) /\ fed' \o x = fed \o (p \o x)
    <3>1. buf \in Seq(Symbol) /\ fed \in Seq(Symbol)
      BY <1>1 DEF Facts
    <3> QED BY <1>3, <3>1, ConcatConcat
  <2>3. Outcome(st, buf \o (p \o x), hung, res.header, res.body)
          = Judge(Skipped(fed \o (p \o x)), hung)
    BY <1>1, <1>2, <2>1 DEF Promised, MayFollow
  <2> QED BY <1>2, <2>2, <2>3
<1>6. \A l \in 1..Len(buf) : buf'[l] = buf[l]
  BY <1>1, <1>3, ConcatKeeps DEF Facts
<1>7. st = "SKIP_EMPTY_LINES" => buf' = fed' /\ EmptyLines(buf', i)
  BY <1>1, <1>3, EmptyLinesConcat DEF Scanned, Facts
<1>8. st = "SKIP_CRLF_EMPTY_LINES" => /\ buf' = fed' /\ i > 0
                                      /\ EmptyLines(buf', i - 1) /\ buf'[i] = "CR"
  <2> SUFFICES ASSUME st = "SKIP_CRLF_EMPTY_LINES"
               PROVE  buf' = fed' /\ i > 0 /\ EmptyLines(buf', i - 1) /\ buf'[i] = "CR"
    OBVIOUS
  <2>1. buf = fed /\ i > 0 /\ EmptyLines(buf, i - 1) /\ buf[i] = "CR"
    BY <1>1 DEF Scanned
  <2>2. i - 1 \in 0..Len(buf) /\ i \in 1..Len(buf)
    BY <1>1, <2>1 DEF Facts
  <2>3. EmptyLines(buf', i - 1)
    BY <1>1, <1>3, <2>1, <2>2, EmptyLinesConcat DEF Facts
  <2> QED BY <1>3, <1>6, <2>1, <2>2, <2>3
<1>9. /\ st = "BUFF_HEADERS"     => MayBeBlank(buf', i)
      /\ st = "BUFF_HEADER_PAIR" => NotBlank(buf', i)
      /\ st = "PARSE_HEADERS"    => IsFirstBlank(buf', i)
  BY <1>1, <1>3, ScanConcat DEF Scanned, Facts
<1>10. Scanned'
  BY <1>2, <1>7, <1>8, <1>9 DEF Scanned
<1> QED BY <1>4, <1>5, <1>10 DEF FInv

\* A hang-up leaves one thing that may still follow: nothing.
LEMMA HupFramed ==
    ASSUME IInv, FInv, OnCgiHup
    PROVE  FInv'
<1>1. Facts /\ Scanned /\ Promised /\ Ended /\ Waiting
  BY FactsOf DEF FInv, Stopped, OnCgiHup
<1>2. /\ UNCHANGED <<rest, fed, buf, i, st, res>> /\ ~hup /\ hup' = TRUE /\ run' = TRUE
      /\ end' = Len(buf)
  BY DEF OnCgiHup
<1>3. Scanned' /\ Stopped'
  BY <1>1, <1>2 DEF Scanned, Stopped
<1>4. Ended'
  BY <1>1, <1>2 DEF Ended, Waiting, BodyStates, IsMetaState, Done
<1>5. Promised'
  BY <1>1, <1>2 DEF Promised, MayFollow
<1> QED BY <1>3, <1>4, <1>5 DEF FInv

\* Where Process returns, no step of the framing would go further either.
LEMMA WaitsRightly ==
    ASSUME IInv, FInv, ~run
    PROVE  LET v == Outcome(st, buf, hup, res.header, res.body) IN
           CASE st = "HAVE_MESSAGE"  -> v.is = "message" /\ v.body = res.body
             [] st = "ERROR_OCCURED" -> v.is = "error"
             [] OTHER                -> v.is = "wait"
<1>1. Facts /\ Scanned /\ (Done \/ Waiting) /\ st \in State
  BY FactsOf DEF FInv, Stopped, IInv, ReaderOK
<1>2. CASE Done
  BY <1>2 DEF Done, Outcome, SkipStates, HeaderStates, Message, Bad
<1>3. CASE ~Done /\ Outcome(st, buf, hup, res.header, res.body) = Wait
  BY <1>3 DEF Done, Wait
<1>4. BlankLines(<<>>) = {}
  BY DEF BlankLines, LineEnds
<1>5. CASE st \in SkipStates
  <2>1. i = Len(buf)
    BY <1>1, <1>5 DEF Waiting, SkipStates, Done
  <2>2. \/ EmptyLines(buf, Len(buf))
        \/ Len(buf) > 0 /\ EmptyLines(buf, Len(buf) - 1) /\ buf[Len(buf)] = "CR"
    BY <1>1, <1>5, <2>1 DEF Scanned, SkipStates
  <2>3. Skipped(buf) = <<>>
    BY <1>1, <2>2, SkipGoesOn DEF Facts
  <2>4. Judge(Skipped(buf), hup) = Wait
    BY <1>4, <2>3 DEF Judge
  <2> QED BY <1>3, <1>5, <2>4 DEF Outcome, SkipStates, HeaderStates, Done
<1>6. CASE st \in HeaderStates
  <2>1. i = Len(buf) /\ st \in {"BUFF_HEADERS", "BUFF_HEADER_PAIR"}
    BY <1>1, <1>6 DEF Waiting, HeaderStates, IsMetaState, Done
  <2>2. NoBlankLine(buf, Len(buf))
    BY <1>1, <2>1 DEF Scanned, MayBeBlank, NotBlank
  <2>3. BlankLines(buf) = {}
    BY <1>1, <2>2, BlankHasItsLF DEF NoBlankLine, Facts
  <2>4. Judge(buf, hup) = Wait
    BY <2>3 DEF Judge
  <2> QED BY <1>3, <1>6, <2>1, <2>4 DEF Outcome, SkipStates, HeaderStates, Done
<1>7. CASE st = "READ_BODY_CONTENT_LENGTH"
  <2>1. Len(buf) < Length
    BY <1>1, <1>7 DEF Waiting, IsMetaState, Done
  <2>2. Sized(buf, res.header) = Wait
    BY <2>1 DEF Sized
  <2> QED BY <1>3, <1>7, <2>2 DEF Outcome, SkipStates, HeaderStates, Done
<1>8. CASE st = "READ_BODY_INFINITE"
  <2>1. ~hup
    BY <1>1, <1>8 DEF Waiting, IsMetaState, Done
  <2>2. Unsized(buf, hup) = Wait
    BY <2>1 DEF Unsized
  <2> QED BY <1>3, <1>8, <2>2 DEF Outcome, SkipStates, HeaderStates, Done
<1> QED BY <1>1, <1>2, <1>5, <1>6, <1>7, <1>8 DEF State, Done, SkipStates, HeaderStates

LEMMA FramingInvariant == Spec => []FInv
<1>1. Init => FInv
  <2> SUFFICES ASSUME Init PROVE FInv
    OBVIOUS
  <2>1. /\ buf = <<>> /\ fed = <<>> /\ i = 0 /\ st = "SKIP_EMPTY_LINES" /\ hup = FALSE
        /\ rest \in Streams /\ rest \in Seq(Symbol) /\ end = NPos
    BY StreamAssumption DEF Init, BufferInit
  <2>2. EmptyLines(<<>>, 0) /\ Len(<<>>) = 0
    BY DEF EmptyLines
  <2>3. Scanned /\ Stopped
    BY <2>1, <2>2 DEF Scanned, Stopped, Waiting, IsMetaState
  <2>4. Promised
    BY <2>1 DEF Promised, Outcome, SkipStates, HeaderStates
  <2>5. fed \o rest = rest
    BY <2>1, ConcatEmptySeq
  <2>6. Ended
    BY <2>1, <2>5 DEF Ended
  <2> QED BY <2>3, <2>4, <2>6 DEF FInv
<1>2. IInv /\ FInv /\ [Next]_vars => FInv'
  <2> SUFFICES ASSUME IInv, FInv, [Next]_vars PROVE FInv'
    OBVIOUS
  <2>1. CASE Process
    BY <2>1, SkipFramed, ScanFramed, ParseHeadersFramed, SizedFramed, UnsizedFramed, BreakFramed
       DEF Process
  <2>2. CASE OnCgiOutput
    BY <2>2, OutputFramed
  <2>3. CASE OnCgiHup
    BY <2>3, HupFramed
  <2>4. CASE UNCHANGED vars
    BY <2>4 DEF vars, bufferVars, FInv, Scanned, Promised, MayFollow, Ended, Stopped, Done,
                Waiting, IsMetaState
  <2> QED BY <2>1, <2>2, <2>3, <2>4 DEF Next
<1> QED BY <1>1, <1>2, CgiReaderInvariant, PTL DEF Spec

\* However an output is cut into pieces and whenever its worker hangs up, the
\* response is made as soon as it can be and holds everything that was read, up to
\* its length, or an error is raised where the whole output has one.
THEOREM ResponsesFramed == Spec => []ResponseExact
<1>1. IInv /\ FInv => ResponseExact
  <2> SUFFICES ASSUME IInv, FInv, ~run
               PROVE  LET v == Judge(Skipped(fed), hup) IN
                      CASE st = "HAVE_MESSAGE"  -> v.is = "message" /\ v.body = res.body
                        [] st = "ERROR_OCCURED" -> v.is = "error"
                        [] OTHER                -> v.is = "wait"
    BY DEF ResponseExact
  <2>1. Facts /\ <<>> \in Seq(Symbol)
    BY FactsOf
  <2>2. buf \o <<>> = buf /\ fed \o <<>> = fed
    BY <2>1, ConcatEmptySeq DEF Facts
  <2>3. Outcome(st, buf \o <<>>, hup, res.header, res.body) = Judge(Skipped(fed \o <<>>), hup)
    BY <2>1 DEF FInv, Promised, MayFollow, Facts
  <2> QED BY <2>2, <2>3, WaitsRightly
<1> QED BY <1>1, CgiReaderInvariant, FramingInvariant, PTL
=============================================================================
