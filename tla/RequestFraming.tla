---------------------------- MODULE RequestFraming ----------------------------
(* What RequestReader should make of a stream: where its first message ends  *)
(* and what its body is, defined on the whole of what has been read and not  *)
(* on the pieces it came in.                                                 *)
EXTENDS RequestReader

Wait       == {[is |-> "wait", body |-> <<>>]}
Bad        == {[is |-> "error", body |-> <<>>]}
Message(b) == {[is |-> "message", body |-> b]}

\* Behind the n bytes of a chunk comes a line end; the chunk of size 0 is the
\* last.  A CR that no LF follows is waited on for ever (ChunkEndJudged).  more
\* is the body so far, f tells the verdicts on the chunks that follow.
AfterData(f, q, n, more) ==
    LET Go(k) == IF n = 0 THEN Message(more) ELSE f[<<Drop(q, k), more>>]
    IN  IF q = <<>>                            THEN Wait
        ELSE IF q[1] = "LF"                    THEN Go(1)
        ELSE IF q[1] # "CR"                    THEN Bad
        ELSE IF Len(q) > 1 /\ q[2] = "LF"      THEN Go(2)
        ELSE Wait

AfterSize(f, q, n, body) ==
    IF Len(q) < n THEN Wait ELSE AfterData(f, Drop(q, n), n, body \o Front(q, n))

\* A chunk begins with a line that holds its size.
NextChunk(f, q, body) ==
    IF LineEnds(q) = {} THEN Wait
    ELSE LET eol == FirstOf(LineEnds(q))
         IN  UNION {AfterSize(f, Drop(q, eol), n, body) : n \in ChunkSizes(Text(Front(q, eol)))}

Chunks[p \in Seq(Symbol) \X Seq(Symbol)] == NextChunk(Chunks, p[1], p[2])

ByLength(q) == IF Len(q) < Length THEN Wait ELSE Message(Front(q, Length))

\* The meta part ends with the first line that holds nothing but CRs.
FromMeta(q) ==
    IF BlankLines(q) = {} THEN Wait
    ELSE LET e     == FirstOf(BlankLines(q))
             by    == ParseMetaPart(Front(q, e))
             after == Drop(q, e)
         IN  CASE by = "error"   -> Bad
               [] by = "none"    -> Message(<<>>)
               [] by = "chunked" -> Chunks[<<after, <<>> >>]
               [] by = "length"  -> ByLength(after)

Verdicts(q) == FromMeta(Skipped(q))

\* However the stream is cut into pieces, the reader finds the first message
\* where it ends and with its whole body, an error where there is one, and
\* waits otherwise (tcp delivers the bytes of a request in any pieces).
FramingExact ==
    ~run => \E v \in Verdicts(fed) :
        CASE st = "HAVE_MESSAGE"  -> v.is = "message" /\ v.body = req.body
          [] st = "ERROR_OCCURED" -> v.is = "error"
          [] OTHER                -> v.is = "wait"
=============================================================================
