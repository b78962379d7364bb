---------------------------- MODULE MCHttpServer ----------------------------
(* Instances of HttpServer for TLC: the descriptors, the kinds of request, *)
(* and the symmetry of heap blocks and process ids.                        *)
EXTENDS HttpServer, TLC

\* A GET of an existing static file; the other requests differ from it.
GetFile == [ method |-> "GET", tooBig |-> FALSE, host |-> TRUE, found |-> TRUE,
             redirects |-> FALSE, redirect |-> 0, allowed |-> {"GET"}, form |-> "no", store |-> "ok",
             target |-> "file", index |-> "off", slash |-> TRUE, listing |-> "ok",
             removes |-> TRUE, cgi |-> FALSE, opens |-> TRUE, errpage |-> FALSE ]

Plain(sc)     == [scenario |-> sc, v10 |-> FALSE, body |-> FALSE]
SendFileReq   == Plain(GetFile)
ListingReq    == Plain([GetFile EXCEPT !.target = "dir"])
OldListingReq == [ListingReq EXCEPT !.v10 = TRUE]
ErrorPageReq  == Plain([GetFile EXCEPT !.target = "missing", !.errpage = TRUE])
CgiGet        == Plain([GetFile EXCEPT !.cgi = TRUE])
CgiPost       == [Plain([GetFile EXCEPT !.cgi = TRUE]) EXCEPT !.body = TRUE]

PlainRequests == {SendFileReq, ErrorPageReq}
MixedRequests == {OldListingReq, CgiPost}
CgiRequests   == {CgiGet}

Fd5 == 0..4
Fd6 == 0..5
ListenOn0 == {0}

Symmetry == Permutations(Session) \union Permutations(Pid)
=============================================================================
