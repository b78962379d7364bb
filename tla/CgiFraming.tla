----------------------------- MODULE CgiFraming -----------------------------
(* What CgiReader should make of a worker's output, defined on the whole of *)
(* what has been read and on whether the worker has hung up.                *)
EXTENDS CgiReader

Wait       == [is |-> "wait", body |-> <<>>]
Bad        == [is |-> "error", body |-> <<>>]
Message(b) == [is |-> "message", body |-> b]

\* A body of Content-Length bytes, with the Status header of its response.
Sized(q, header) == IF Len(q) < Length                   THEN Wait
                    ELSE IF ParseCgiStatus(header) = "bad" THEN Bad
                    ELSE Message(Front(q, Length))

\* A body without a length ends where the worker hangs up.
Unsized(q, hung) == IF hung THEN Message(q) ELSE Wait

\* The headers end with the first line that holds nothing but CRs.
Judge(q, hung) ==
    IF BlankLines(q) = {} THEN Wait
    ELSE LET e     == FirstOf(BlankLines(q))
             lines == Lines(Front(q, e))
             after == Drop(q, e)
         IN  IF \E text \in lines : ~ParsesAsHeader(text)  THEN Bad
             ELSE IF Has(lines, "len") /\ Length > 0
                  THEN Sized(after, StatusHeader(lines, Front(q, e)))
             ELSE Unsized(after, hung)

\* However the output is cut into pieces and whenever the worker hangs up, the
\* response is made as soon as it can be and holds everything that was read:
\* Content-Length bytes of it, or all of it once the worker has hung up.
ResponseExact ==
    ~run => LET v == Judge(Skipped(fed), hup) IN
            CASE st = "HAVE_MESSAGE"  -> v.is = "message" /\ v.body = res.body
              [] st = "ERROR_OCCURED" -> v.is = "error"
              [] OTHER                -> v.is = "wait"
=============================================================================
