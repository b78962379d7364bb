------------------------------ MODULE CgiReader ------------------------------
(***************************************************************************)
(* Cgi::ResponseReader (src/sources/cgi/response_reader.cc): the reader of *)
(* a CGI worker's output.  __OnCgiOutput feeds a piece and runs Process;   *)
(* __OnCgiHup, which may come while output is left unread, calls EndRead   *)
(* and runs Process for the last time (netlib/webserver/webserver_cgi.cc). *)
(***************************************************************************)
EXTENDS ReaderBuffer

CONSTANT NPos   \* std::string::npos, beyond any size

ASSUME NPosAssumption == NPos \in Nat /\ \A stream \in Streams : Len(stream) < NPos

VARIABLES
    end,    \* __end_read_i
    hup,    \* has the worker hung up?
    res     \* __res_data: what frames the body, the Status header, the body

vars == <<bufferVars, end, hup, res>>

State == {"SKIP_EMPTY_LINES", "SKIP_CRLF_EMPTY_LINES", "BUFF_HEADERS",
          "BUFF_HEADER_PAIR", "PARSE_HEADERS", "READ_BODY_CONTENT_LENGTH",
          "READ_BODY_INFINITE", "HAVE_MESSAGE", "ERROR_OCCURED"}

\* status: "none" until it is set, a "code" (200 when there is no header), or
\* "bad" when ParseCgiStatus has returned its error.
Status     == {"none", "code", "bad"}
NoResponse == [header |-> "none", status |-> "none", body |-> <<>>]

Init == BufferInit /\ end = NPos /\ hup = FALSE /\ res = NoResponse

-----------------------------------------------------------------------------
\* The Status header of the parsed lines.  Two of them are joined by ", ", and
\* then there is a space after the first.
StatusHeader(lines, meta) ==
    LET words == {k \in DOMAIN meta : /\ meta[k] \in {"word", "code"}
                                      /\ k = 1 \/ meta[k - 1] = "LF"}
    IN  IF words = {} THEN "none"
        ELSE IF Has(lines, "code") \/ \E k, l \in words : k # l THEN "code"
        ELSE "word"

RawStatus(header) == header                                    \* mutant

\* ParseCgiStatus: a status line without a space is an error.
ParseCgiStatus(header) == IF header = "word" THEN "bad" ELSE "code"

-----------------------------------------------------------------------------
(* The states of Process *)

IsMetaState == st \in {"PARSE_HEADERS", "READ_BODY_INFINITE", "READ_BODY_CONTENT_LENGTH"}

In(s) == run /\ st = s /\ (IsMetaState \/ i < Len(buf))

SkipEmptyLines ==
    /\ In("SKIP_EMPTY_LINES")
    /\ \/ Next1 = "LF" /\ Advance("SKIP_EMPTY_LINES")
       \/ Next1 = "CR" /\ Advance("SKIP_CRLF_EMPTY_LINES")
       \/ Next1 \notin {"CR", "LF"} /\ Flush(i, "BUFF_HEADERS")
    /\ UNCHANGED <<run, end, res>>

SkipCrlfEmptyLines ==
    /\ In("SKIP_CRLF_EMPTY_LINES")
    /\ \/ Next1 = "LF" /\ Advance("SKIP_EMPTY_LINES")
       \/ Next1 # "LF" /\ Flush(i, "BUFF_HEADERS")
    /\ UNCHANGED <<run, end, res>>

BuffHeaders ==
    /\ In("BUFF_HEADERS")
    /\ \/ Next1 = "LF" /\ Advance("PARSE_HEADERS")
       \/ Next1 = "CR" /\ Advance("BUFF_HEADERS")
       \/ Next1 \notin {"CR", "LF"} /\ st' = "BUFF_HEADER_PAIR" /\ UNCHANGED <<buf, i>>
    /\ UNCHANGED <<run, end, res>>

BuffHeaderPair ==
    /\ In("BUFF_HEADER_PAIR")
    /\ Advance(IF Next1 = "LF" THEN "BUFF_HEADERS" ELSE "BUFF_HEADER_PAIR")
    /\ UNCHANGED <<run, end, res>>

ParseHeaders ==
    LET lines == Lines(Front(buf, i)) IN
    /\ In("PARSE_HEADERS")
    /\ \/ /\ \E text \in lines : ~ParsesAsHeader(text)
          /\ Flush(i, "ERROR_OCCURED") /\ run' = FALSE /\ res' = res
       \/ /\ \A text \in lines : ParsesAsHeader(text)
          /\ Flush(i, IF Has(lines, "len") /\ Length > 0
                      THEN "READ_BODY_CONTENT_LENGTH" ELSE "READ_BODY_INFINITE")
          /\ run' = run
          /\ res' = [res EXCEPT !.header = StatusHeader(lines, Front(buf, i))]
    /\ end' = end

ReadBodyContentLength ==
    LET status == ParseCgiStatus(res.header) IN
    /\ In("READ_BODY_CONTENT_LENGTH")
    /\ \/ /\ Len(buf) >= Length
          /\ Flush(Length, IF status = "bad" THEN "ERROR_OCCURED" ELSE "HAVE_MESSAGE")
          /\ res' = [res EXCEPT !.body = Front(buf, Length), !.status = status]
       \/ /\ Len(buf) < Length
          /\ UNCHANGED <<buf, i, st, res>>
    /\ run' = FALSE /\ end' = end

NotEnded ==                                                    \* mutant
    /\ In("READ_BODY_INFINITE")
    /\ Flush(end, "HAVE_MESSAGE")
    /\ res' = [res EXCEPT !.body = buf, !.status = ParseCgiStatus(res.header)]
    /\ run' = FALSE /\ end' = end

\* The error of __SetStatus is not looked at.
ReadBodyInfinite ==
    /\ In("READ_BODY_INFINITE")
    /\ \/ /\ Len(buf) >= end
          /\ Flush(end, "HAVE_MESSAGE")
          /\ res' = [res EXCEPT !.body = Front(buf, end),
                                !.status = ParseCgiStatus(res.header)]
       \/ /\ Len(buf) < end
          /\ UNCHANGED <<buf, i, st, res>>
    /\ run' = FALSE /\ end' = end

\* The input is used up.
Break == /\ run /\ i >= Len(buf) /\ ~IsMetaState
         /\ run' = FALSE
         /\ UNCHANGED <<buf, i, st, end, res>>

Process == /\ \/ SkipEmptyLines \/ SkipCrlfEmptyLines
              \/ BuffHeaders \/ BuffHeaderPair \/ ParseHeaders
              \/ ReadBodyContentLength \/ ReadBodyInfinite
              \/ Break
           /\ UNCHANGED <<rest, fed, hup>>

-----------------------------------------------------------------------------
(* The caller *)

Done == st \in {"HAVE_MESSAGE", "ERROR_OCCURED"}

OnCgiOutput == ~run /\ ~Done /\ ~hup /\ Feed /\ UNCHANGED <<end, hup, res>>

EndTooEarly == /\ ~run /\ ~Done /\ ~hup                        \* mutant
               /\ end' = i /\ hup' = TRUE /\ run' = TRUE
               /\ UNCHANGED <<rest, fed, buf, i, st, res>>

OnCgiHup == /\ ~run /\ ~Done /\ ~hup
            /\ end' = Len(buf) /\ hup' = TRUE /\ run' = TRUE
            /\ UNCHANGED <<rest, fed, buf, i, st, res>>

Next == Process \/ OnCgiOutput \/ OnCgiHup

Spec == Init /\ [][Next]_vars

-----------------------------------------------------------------------------
TypeOK == /\ rest \in Seq(Symbol) /\ fed \in Seq(Symbol) /\ buf \in Seq(Symbol)
          /\ i \in Nat /\ st \in State \union {"OUT_OF_RANGE"} /\ run \in BOOLEAN
          /\ end \in Nat /\ hup \in BOOLEAN
          /\ res \in [header : {"none", "code", "word"}, status : Status, body : Seq(Symbol)]

\* A response has the status its worker gave it: ParseCgiStatus calls a Status
\* without a code and a phrase an error, "Bad cgi code" (reader_common.cc:282).
StatusJudged == st = "HAVE_MESSAGE" => res.status = "code"
=============================================================================
