---------------------------- MODULE ReaderBuffer ----------------------------
(***************************************************************************)
(* What the readers of the server have in common: a state machine over a   *)
(* buffer and an index (__buffer, __i, __state), fed with pieces of a      *)
(* stream as they arrive, and the parsers of http/reader_common.cc that    *)
(* look for lines and headers.  RequestReader and CgiReader are the two    *)
(* readers the server uses.                                                *)
(*                                                                         *)
(* A stream is a sequence of symbols: "CR" and "LF", and texts without     *)
(* line ends.  A text stands for                                           *)
(*   "get", "post"  a request line: method, URI and version                *)
(*   "len"          Content-Length: <Length>, and a space                  *)
(*   "chunked"      Transfer-Encoding: chunked, and a comma                *)
(*   "code", "word" Status: a code, with a phrase or without a space       *)
(*   "bare"         a header name, a colon and a space                     *)
(*   "n0", "n1", "n2"  that number and a semicolon                         *)
(*   "x"            letters that are none of these                         *)
(* In a body every symbol counts as one byte.                              *)
(***************************************************************************)
EXTENDS Naturals, Sequences

CONSTANTS
    Streams,   \* what may be sent
    Length     \* the value of a Content-Length header

Header == {"len", "chunked", "code", "word", "bare"}
Symbol == {"CR", "LF", "get", "post", "n0", "n1", "n2", "x"} \union Header

ASSUME StreamAssumption == Streams \subseteq Seq(Symbol) /\ Length \in Nat

VARIABLES
    rest,   \* what the sender has still to send
    fed,    \* what has been read since the last Reset
    buf,    \* __buffer
    i,      \* __i
    st,     \* __state, or "OUT_OF_RANGE" when substr has thrown
    run     \* is Process running?

bufferVars == <<rest, fed, buf, i, st, run>>

Front(q, n) == SubSeq(q, 1, n)
Drop(q, n)  == SubSeq(q, n + 1, Len(q))

BufferInit == /\ rest \in Streams /\ fed = <<>>
              /\ buf = <<>> /\ i = 0 /\ st = "SKIP_EMPTY_LINES" /\ run = FALSE

-----------------------------------------------------------------------------
(* Lines and headers *)

\* A line without its LF and one CR before it.
Text(line) == LET n == Len(line) - 1
              IN  IF n > 0 /\ line[n] = "CR" THEN Front(line, n - 1) ELSE Front(line, n)

\* The lines of a sequence that ends with LF, as the set of their texts.
LineEnds(q)   == {k \in DOMAIN q : q[k] = "LF"}
LineStarts(q) == {1} \union {k + 1 : k \in LineEnds(q)}
Lines(q) == UNION {{Text(SubSeq(q, b, e)) : e \in
                      {e \in LineEnds(q) : b <= e /\ \A k \in b..(e - 1) : q[k] # "LF"}}
                    : b \in LineStarts(q)}

\* Empty, or with a colon, without control characters, and with a value: the
\* value of "bare" alone would begin behind its end, and take in the line end.
ParsesAsHeader(text) ==
    \/ text = <<>>
    \/ /\ \A k \in DOMAIN text : text[k] # "CR"
       /\ \E k \in DOMAIN text :
             /\ text[k] \in Header
             /\ \A l \in 1..(k - 1) : text[l] \notin Header
             /\ text[k] = "bare" => k < Len(text)

\* Does one of the lines begin with header h?
Has(lines, h) == \E text \in lines : text # <<>> /\ text[1] = h

-----------------------------------------------------------------------------
(* What a stream holds, seen as a whole: what the framings of the two       *)
(* readers are stated with.                                                 *)

FirstOf(S) == CHOOSE k \in S : \A l \in S : k <= l
LastOf(S)  == CHOOSE k \in S : \A l \in S : l <= k

\* The first k symbols are empty lines.
EmptyLines(q, k) == \A l \in 1..k : \/ q[l] = "LF"
                                    \/ q[l] = "CR" /\ l < k /\ q[l + 1] = "LF"

\* Empty lines at the beginning are skipped, and one CR.
Skipped(q) ==
    LET after == Drop(q, LastOf({k \in 0..Len(q) : EmptyLines(q, k)}))
    IN  IF after # <<>> /\ after[1] = "CR" THEN Drop(after, 1) ELSE after

\* The ends of the lines that hold nothing but CRs: the first one ends the
\* headers.
BlankLines(q) == {e \in LineEnds(q) :
                    \E b \in LineStarts(q) : b <= e /\ \A k \in b..(e - 1) : q[k] = "CR"}

-----------------------------------------------------------------------------
(* The ends of the state functions *)

KeepsTheFront(n, next) ==                                      \* mutant
    IF n <= Len(buf) THEN buf' = Front(buf, n) /\ i' = 0 /\ st' = next
    ELSE st' = "OUT_OF_RANGE" /\ i' = n /\ buf' = buf

\* __FlushParsedBuffer with the index n: substr throws beyond the end.
Flush(n, next) ==
    IF n <= Len(buf) THEN buf' = Drop(buf, n) /\ i' = 0 /\ st' = next
    ELSE st' = "OUT_OF_RANGE" /\ i' = n /\ buf' = buf

Advance(next) == i' = i + 1 /\ st' = next /\ buf' = buf

Next1 == buf[i + 1]

\* Read, with any part of what the sender has sent, and the call of Process.
Feed == /\ \E n \in 1..Len(rest) :
              /\ buf' = buf \o Front(rest, n)
              /\ fed' = fed \o Front(rest, n)
              /\ rest' = Drop(rest, n)
        /\ run' = TRUE
        /\ UNCHANGED <<i, st>>

-----------------------------------------------------------------------------
\* No substr of the reader is given an index beyond the end of the buffer,
\* whatever the pieces the stream arrives in: the exception would leave main.
NeverOutOfRange == st # "OUT_OF_RANGE"

\* What the reader has not consumed is the end of what it was fed: no byte is
\* dropped, repeated or moved between two pieces.
BufferIsSuffix == \E k \in 0..Len(fed) : buf = Drop(fed, k)
=============================================================================
