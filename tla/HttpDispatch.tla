---------------------------- MODULE HttpDispatch ----------------------------
(***************************************************************************)
(* What the server decides to do with one complete HTTP request:           *)
(* HttpServer::__OnHttpRequest and the handlers it tail-calls, in          *)
(* src/sources/netlib/webserver/webserver_http.cc.  The decision is pure:  *)
(* it depends on the request, on the route found for it and on what the    *)
(* file system answers, all three gathered in one record of Scenario.      *)
(*                                                                         *)
(* Each handler is a decision list, in the order of the code's early       *)
(* returns; the first rule whose condition holds gives the answer.         *)
(***************************************************************************)
EXTENDS Naturals, Sequences

Method == {"GET", "POST", "DELETE"}

\* A request, with the answers the configuration and the file system give
\* about it.  found: is there a route; allowed: its allowed_methods; redirects:
\* is its redirection enabled; redirect: with which code.
Scenario ==
    [ method   : Method,
      tooBig   : BOOLEAN,            \* body.size() > __max_body_size
      host     : BOOLEAN,            \* a virtual server matches the Host header
      found    : BOOLEAN,
      redirects : BOOLEAN,
      redirect : Nat,
      allowed  : SUBSET Method,
      form     : {"no", "bare", "bounded"},  \* multipart body to an upload route
      store    : {"clash", "fail", "ok"},    \* what storing the files meets
      target   : {"missing", "dir", "file"},
      index    : {"off", "absent", "present"},
      slash    : BOOLEAN,            \* the path of the directory ends with '/'
      listing  : {"off", "fail", "ok"},
      removes  : BOOLEAN,            \* std::remove succeeds
      cgi      : BOOLEAN,            \* cgi_enabled and a driver for the suffix
      opens    : BOOLEAN,            \* open(file, O_RDONLY) succeeds
      errpage  : BOOLEAN ]           \* an error page is configured and opens

\* An answer: "respond" with a finished response, an "error" response, a
\* "file" to send or a "cgi" worker to start, and what it did to the disk or
\* to the descriptors ("opendir": a directory stream, which nothing closes).
Answer(do, code, effect) == [do |-> do, code |-> code, effect |-> effect]
Respond(code) == Answer("respond", code, "none")
Fail(code)    == Answer("error", code, "none")

If(when, then) == [when |-> when, then |-> then]

FirstMatch(rules) ==
    LET i == CHOOSE i \in DOMAIN rules :
                 /\ rules[i].when
                 /\ \A j \in DOMAIN rules : j < i => ~rules[j].when
    IN  rules[i].then

-----------------------------------------------------------------------------
IsUpload(q) == q.form # "no" /\ q.method = "POST"

HandleUploadRequest(q) == FirstMatch(<<
    If(q.form = "bare",     Fail(400)),
    If(q.store = "clash",   Fail(403)),
    If(q.store = "fail",    Answer("error", 500, "create")),
    If(TRUE,                Answer("respond", 201, "create")) >>)

HandleDirectoryResource(q) == FirstMatch(<<
    If(q.index = "present", Respond(302)),
    If(q.index = "absent",  Fail(404)),
    If(~q.slash,            Respond(302)),
    If(q.listing = "ok",    Answer("respond", 200, "opendir")),
    If(q.listing = "fail",  Fail(500)),
    If(TRUE,                Fail(404)) >>)

HandleDeleteFile(q) ==
    IF q.removes THEN Answer("respond", 200, "remove") ELSE Fail(500)

HandleStaticFile(q) == IF q.opens THEN Answer("file", 200, "none") ELSE Fail(500)

OnHttpRequest(q) == FirstMatch(<<
    If(q.tooBig,                Fail(413)),
    If(~q.host,                 Fail(400)),
    If(~q.found,                Fail(404)),
    If(q.redirects,             Respond(q.redirect)),
    If(q.method \notin q.allowed, Fail(405)),
    If(IsUpload(q),             HandleUploadRequest(q)),
    If(q.target = "missing",    Fail(404)),
    If(q.target = "dir",        HandleDirectoryResource(q)),
    If(q.method = "DELETE",     HandleDeleteFile(q)),
    If(q.cgi,                   Answer("cgi", 0, "none")),
    If(TRUE,                    HandleStaticFile(q)) >>)

\* ss->server when the answer is chosen: the virtual server, unless the body
\* was refused before the server was resolved or no server matched.
Resolved(q) == ~q.tooBig /\ q.host
=============================================================================
