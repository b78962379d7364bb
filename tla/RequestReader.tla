----------------------------- MODULE RequestReader -----------------------------
(***************************************************************************)
(* Http::RequestReader (src/sources/http/reader_request.cc): the reader of *)
(* a client's requests.  __OnSessionRead feeds a piece, runs Process and,  *)
(* when there is a message or an error, calls Reset.                       *)
(***************************************************************************)
EXTENDS ReaderBuffer

CONSTANT Unset   \* the values an uninitialised chunk size may have

ASSUME UnsetAssumption == Unset \subseteq Nat /\ Unset # {}

VARIABLES
    size,   \* __chunk_size
    req     \* __req_data: what frames the body, and the body

vars == <<bufferVars, size, req>>

State == {"SKIP_EMPTY_LINES", "SKIP_CRLF_EMPTY_LINES", "BUFF_META", "BUFF_META_LINE",
          "PARSE_META", "READ_BODY_CONTENT_LENGTH", "BUFF_CHUNK_SIZE",
          "PARSE_CHUNK_SIZE", "READ_CHUNK_DATA", "SKIP_CRLF_CHUNK_DATA",
          "HAVE_MESSAGE", "ERROR_OCCURED"}

Framing   == {"none", "length", "chunked"}
NoRequest == [by |-> "none", body |-> <<>>]

Init == BufferInit /\ size \in Unset /\ req = NoRequest

-----------------------------------------------------------------------------
(* The parsers *)

\* The result of parsing the meta part: an error, or what frames the body.
ParseMetaPart(meta) ==
    LET eol     == CHOOSE k \in LineEnds(meta) : \A l \in LineEnds(meta) : k <= l
        line    == Text(Front(meta, eol))
        headers == Lines(Drop(meta, eol))
    IN  IF line \notin {<<"get">>, <<"post">>} \/ \E text \in headers : ~ParsesAsHeader(text)
        THEN "error"
        ELSE IF line = <<"post">> /\ Has(headers, "chunked") THEN "chunked"
        ELSE IF line = <<"post">> /\ Has(headers, "len") /\ Length > 0 THEN "length"
        ELSE "none"

\* Hexadecimal, after white space: "Content-Length" begins with the digit C.
Value(symbol) == IF symbol = "n1" THEN 1
                 ELSE IF symbol = "n2" THEN 2
                 ELSE IF symbol = "len" THEN 12
                 ELSE 0

\* An empty line leaves the result of HexNumFromString uninitialised; a text
\* that is no number gives 0.
ChunkSizes(text) ==
    IF \A k \in DOMAIN text : text[k] = "CR" THEN Unset
    ELSE LET first == CHOOSE k \in DOMAIN text :
                         text[k] # "CR" /\ \A l \in 1..(k - 1) : text[l] = "CR"
         IN  {Value(text[first])}

-----------------------------------------------------------------------------
(* The states of Process *)

IsMetaState == st \in {"PARSE_META", "READ_CHUNK_DATA"}

\* In(s): Process runs the function of state s.
In(s) == run /\ st = s /\ (IsMetaState \/ i < Len(buf))

SkipEmptyLines ==
    /\ In("SKIP_EMPTY_LINES")
    /\ \/ Next1 = "LF" /\ Advance("SKIP_EMPTY_LINES")
       \/ Next1 = "CR" /\ Advance("SKIP_CRLF_EMPTY_LINES")
       \/ Next1 \notin {"CR", "LF"} /\ Flush(i, "BUFF_META")
    /\ UNCHANGED <<run, size, req>>

SkipCrlfEmptyLines ==
    /\ In("SKIP_CRLF_EMPTY_LINES")
    /\ \/ Next1 = "LF" /\ Advance("SKIP_EMPTY_LINES")
       \/ Next1 # "LF" /\ Flush(i, "BUFF_META")
    /\ UNCHANGED <<run, size, req>>

BuffMeta ==
    /\ In("BUFF_META")
    /\ \/ Next1 = "LF" /\ Advance("PARSE_META")
       \/ Next1 = "CR" /\ Advance("BUFF_META")
       \/ Next1 \notin {"CR", "LF"} /\ st' = "BUFF_META_LINE" /\ UNCHANGED <<buf, i>>
    /\ UNCHANGED <<run, size, req>>

BuffMetaLine ==
    /\ In("BUFF_META_LINE")
    /\ Advance(IF Next1 = "LF" THEN "BUFF_META" ELSE "BUFF_META_LINE")
    /\ UNCHANGED <<run, size, req>>

ErrorIgnored ==                                                \* mutant
    /\ In("PARSE_META")
    /\ req' = [req EXCEPT !.by = ParseMetaPart(Front(buf, i))]
    /\ Flush(i, IF req'.by = "chunked" THEN "BUFF_CHUNK_SIZE"
                ELSE IF req'.by = "length" THEN "READ_BODY_CONTENT_LENGTH"
                ELSE "HAVE_MESSAGE")
    /\ run' = (st' # "HAVE_MESSAGE") /\ size' = size

ParseMeta ==
    LET by == ParseMetaPart(Front(buf, i)) IN
    /\ In("PARSE_META")
    /\ \/ by = "error"   /\ Flush(i, "ERROR_OCCURED") /\ run' = FALSE /\ req' = req
       \/ by # "error"   /\ req' = [req EXCEPT !.by = by]
                         /\ \/ by = "chunked" /\ Flush(i, "BUFF_CHUNK_SIZE") /\ run' = run
                            \/ by = "length"  /\ Flush(i, "READ_BODY_CONTENT_LENGTH")
                                              /\ run' = run
                            \/ by = "none"    /\ Flush(i, "HAVE_MESSAGE") /\ run' = FALSE
    /\ size' = size

BuffChunkSize ==
    /\ In("BUFF_CHUNK_SIZE")
    /\ Advance(IF Next1 = "LF" THEN "PARSE_CHUNK_SIZE" ELSE "BUFF_CHUNK_SIZE")
    /\ UNCHANGED <<run, size, req>>

ParseChunkSize ==
    /\ In("PARSE_CHUNK_SIZE")
    /\ size' \in ChunkSizes(Text(Front(buf, i)))
    /\ Flush(i, "READ_CHUNK_DATA")
    /\ UNCHANGED <<run, req>>

EatsTheNextByte ==                                             \* mutant
    /\ In("READ_CHUNK_DATA")
    /\ IF Len(buf) >= size
       THEN /\ req' = [req EXCEPT !.body = @ \o Front(buf, size)]
            /\ Flush(size + 1, "SKIP_CRLF_CHUNK_DATA") /\ run' = run
       ELSE /\ run' = FALSE
            /\ UNCHANGED <<buf, i, st, req>>
    /\ size' = size

Spin ==                                                        \* mutant
    /\ In("READ_CHUNK_DATA")
    /\ IF Len(buf) >= size
       THEN /\ req' = [req EXCEPT !.body = @ \o Front(buf, size)]
            /\ Flush(size, "SKIP_CRLF_CHUNK_DATA")
       ELSE UNCHANGED <<buf, i, st, req>>
    /\ UNCHANGED <<run, size>>

ReadChunkData ==
    /\ In("READ_CHUNK_DATA")
    /\ IF Len(buf) >= size
       THEN /\ req' = [req EXCEPT !.body = @ \o Front(buf, size)]
            /\ Flush(size, "SKIP_CRLF_CHUNK_DATA") /\ run' = run
       ELSE /\ run' = FALSE
            /\ UNCHANGED <<buf, i, st, req>>
    /\ size' = size

SkipCrlfChunkData ==
    LET next == IF size = 0 THEN "HAVE_MESSAGE" ELSE "BUFF_CHUNK_SIZE" IN
    /\ In("SKIP_CRLF_CHUNK_DATA")
    /\ \/ Front(buf, 1) = <<"LF">> /\ Flush(i + 1, next) /\ run' = (size # 0)
       \/ /\ Front(buf, 1) = <<"CR">>
          /\ \/ Len(buf) > 1 /\ buf[2] = "LF" /\ Flush(i + 2, next) /\ run' = (size # 0)
             \/ ~(Len(buf) > 1 /\ buf[2] = "LF") /\ run' = FALSE /\ UNCHANGED <<buf, i, st>>
       \/ /\ buf[1] \notin {"CR", "LF"}
          /\ st' = "ERROR_OCCURED" /\ run' = FALSE /\ UNCHANGED <<buf, i>>
    /\ UNCHANGED <<size, req>>

LongerOnly ==                                                  \* mutant
    /\ In("READ_BODY_CONTENT_LENGTH")
    /\ IF Len(buf) > Length
       THEN /\ req' = [req EXCEPT !.body = Front(buf, Length)]
            /\ Flush(Length, "HAVE_MESSAGE")
       ELSE UNCHANGED <<buf, i, st, req>>
    /\ run' = FALSE /\ size' = size

ReadBodyContentLength ==
    /\ In("READ_BODY_CONTENT_LENGTH")
    /\ IF Len(buf) >= Length
       THEN /\ req' = [req EXCEPT !.body = Front(buf, Length)]
            /\ Flush(Length, "HAVE_MESSAGE")
       ELSE UNCHANGED <<buf, i, st, req>>
    /\ run' = FALSE /\ size' = size

\* The input is used up.
Break == /\ run /\ i >= Len(buf) /\ ~IsMetaState /\ st # "OUT_OF_RANGE"
         /\ run' = FALSE
         /\ UNCHANGED <<buf, i, st, size, req>>

Process == /\ \/ SkipEmptyLines \/ SkipCrlfEmptyLines
              \/ BuffMeta \/ BuffMetaLine \/ ParseMeta
              \/ BuffChunkSize \/ ParseChunkSize
              \/ ReadChunkData \/ SkipCrlfChunkData
              \/ ReadBodyContentLength
              \/ Break
           /\ UNCHANGED <<rest, fed>>

-----------------------------------------------------------------------------
(* The caller *)

Done == st \in {"HAVE_MESSAGE", "ERROR_OCCURED"}

Read == ~run /\ ~Done /\ Feed /\ UNCHANGED <<size, req>>

KeepBuffer == /\ ~run /\ Done                                 \* mutant
              /\ i' = 0 /\ st' = "SKIP_EMPTY_LINES"
              /\ req' = NoRequest /\ fed' = <<>>
              /\ UNCHANGED <<rest, buf, run, size>>

Reset == /\ ~run /\ Done
         /\ buf' = <<>> /\ i' = 0 /\ st' = "SKIP_EMPTY_LINES"
         /\ req' = NoRequest /\ fed' = <<>>
         /\ UNCHANGED <<rest, run, size>>

Next == Process \/ Read \/ Reset

Spec == Init /\ [][Next]_vars

\* Process is a loop of the only thread.
FairSpec == Spec /\ WF_vars(Process)

-----------------------------------------------------------------------------
TypeOK == /\ rest \in Seq(Symbol) /\ fed \in Seq(Symbol) /\ buf \in Seq(Symbol)
          /\ i \in Nat /\ st \in State \union {"OUT_OF_RANGE"} /\ run \in BOOLEAN /\ size \in Nat
          /\ req \in [by : Framing, body : Seq(Symbol)]

\* Process always returns to the event loop.
ProcessReturns == run ~> ~run

\* The text of the error raised at the end of a chunk is "No linefeed at the end
\* of the chunk-data" (reader_request.cc:157): two bytes are enough to tell.
ChunkEndJudged == ~run /\ st = "SKIP_CRLF_CHUNK_DATA" => Len(buf) < 2
=============================================================================
