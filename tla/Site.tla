--------------------------------- MODULE Site ---------------------------------
(***************************************************************************)
(* From the configuration file to the answers: the file is read            *)
(* (ParseFromINI), the servers are set up (HttpServer::Config,             *)
(* AddVirtualServer), and a client asks for targets and follows the links  *)
(* of directory listings and the redirects it gets.  What each request     *)
(* resolves to is decided by URI::Parse, by the virtual servers and routes *)
(* and by HttpDispatch.                                                    *)
(*                                                                         *)
(* Requests are GET requests, one at a time; HttpServer has their          *)
(* transport.  A site is a file, a tree of files and what clients ask for. *)
(* The answers depend on nothing but the request, so each client starts    *)
(* afresh.                                                                 *)
(***************************************************************************)
EXTENDS HttpDispatch, Uri, IniFile, Routes

CONSTANTS
    Char,         \* the characters of targets and paths, and the names
    Sites,        \* a sequence of records [file, tree, asks]: the lines of the
                  \* configuration; the files, dirs and scripts of the disk; requests
    ServerNames   \* the names of servers, in the order of std::map, a sequence

\* What Config makes of the value of a field.
IsValue(name, v) ==
    /\ name \in {"location", "root", "index"} => v \in Seq(Char)
    /\ name = "redirect"                      => v \in [to : Seq(Char), code : Nat]
    /\ name = "allowed_methods"               => v \subseteq Char
    /\ name \in {"listing", "cgi"}            => v \in BOOLEAN
    /\ name \in {"listen", "lvl"}             => v \in Char
    /\ name = "names"                         => v \in Seq(Seq(Char))
    /\ name = "routes"                        => v \in Seq(Char)

IsLine(l) ==
    /\ l \in {Blank, Comment} \/ l.is \in {"header", "field"}
    /\ l.is = "header" =>
           /\ l.path \in Seq(Char)
           /\ Len(l.path) >= 2 /\ l.path[1] = "SERVERS" =>
                  \E i \in DOMAIN ServerNames : ServerNames[i] = l.path[2]
    /\ l.is = "field" => l.name \in Char /\ IsValue(l.name, l.value)

\* An address, a host name and a target that is not empty.
Question == [addr : Char, host : Seq(Char), target : Seq(Char) \ {<<>>}]

IsSite(s) ==
    /\ Len(s.file) \in Nat /\ DOMAIN s.file = 1..Len(s.file)
    /\ \A i \in DOMAIN s.file : IsLine(s.file[i])
    /\ s.tree.files \subseteq Seq(Char) /\ s.tree.dirs \subseteq Seq(Char)
    /\ s.asks \subseteq Question

\* What the code itself puts into a path.
ASSUME CharAssumption == {"/", "a", "A"} \subseteq Char
ASSUME SitesAssumption == \A s \in DOMAIN Sites : IsSite(Sites[s])
ASSUME NamesAssumption ==
    /\ ServerNames \in Seq(Char)
    /\ \A i, j \in DOMAIN ServerNames : ServerNames[i] = ServerNames[j] => i = j

VARIABLES
    site,       \* which of the Sites, fixed
    phase,      \* "load", "configure", "add", "serve", "parse"; "failed", "undefined", "endless"
    ini,        \* what ParseFromINI has built, and its current category
    line,       \* the next line
    todo,       \* names of the servers to add, a set
    listeners,  \* the address of each listener, in the order of creation
    vservers,   \* __vservers_map, in the order of insertion
    req,        \* the request in work: [addr, host, target]
    parser,     \* the state of URI::Parse
    via,        \* how the client came by the target and what it expects there
    resp        \* the answer

File == Sites[site].file
Tree == Sites[site].tree
Asks == Sites[site].asks

setupVars == <<site, ini, line, todo, listeners, vservers>>
vars      == <<setupVars, phase, req, parser, via, resp>>

NoRequest == [addr |-> "none", host |-> <<>>, target |-> <<>>]
\* how: typed in, or by a link or a redirect; file and route: what the client
\* should get there.
Asked     == [how |-> "ask", file |-> <<>>, route |-> 0]
NoAnswer  == [do |-> "none", code |-> 0, server |-> 0, route |-> 0,
              file |-> <<>>, path |-> <<>>, location |-> <<>>]

Init ==
    /\ site \in DOMAIN Sites
    /\ phase = "load" /\ line = 1 /\ ini = NewFile
    /\ todo = {} /\ listeners = <<>> /\ vservers = <<>>
    /\ req = NoRequest /\ parser = NewParser /\ via = Asked /\ resp = NoAnswer

-----------------------------------------------------------------------------
(* Configuration *)

ReadLine ==
    /\ phase = "load" /\ line <= Len(File)
    /\ ini' = ParseLine(ini, File[line]) /\ line' = line + 1
    /\ UNCHANGED <<site, phase, todo, listeners, vservers, req, parser, via, resp>>

EndOfFile ==
    /\ phase = "load" /\ line > Len(File) /\ phase' = "configure"
    /\ UNCHANGED <<setupVars, req, parser, via, resp>>

Names(cat)     == {p[2] : p \in {q \in DOMAIN ini.cats : Len(q) = 2 /\ q[1] = cat}}
Fields(cat, n) == ini.cats[<<cat, n>>]
Has(cat, n, f) == f \in DOMAIN Fields(cat, n)

LogLevel == {"DEBUG", "CRITICAL", "WARNING", "INFO", "ERROR"}

\* Config throws: a required field is missing or has no meaning.
GlobalFails ==
    \/ <<"GLOBAL">> \notin DOMAIN ini.cats
    \/ "logger" \notin DOMAIN ini.cats[<<"GLOBAL">>]
    \/ ini.cats[<<"GLOBAL">>]["logger"] \notin Names("LOGGERS")
    \/ \E n \in Names("LOGGERS") :
           Has("LOGGERS", n, "lvl") /\ Fields("LOGGERS", n)["lvl"] \notin LogLevel
RouteFails(n) ==
    \/ ~Has("ROUTES", n, "location")
    \/ Has("ROUTES", n, "redirect") /\ Fields("ROUTES", n)["redirect"].to = <<>>
    \/ /\ ~Has("ROUTES", n, "redirect")
       /\ \/ ~Has("ROUTES", n, "root")
          \/ ~Has("ROUTES", n, "allowed_methods")
          \/ ~(Fields("ROUTES", n)["allowed_methods"] \subseteq Method)
LoggerFails(n, f) == Has("SERVERS", n, f) /\ Fields("SERVERS", n)[f] \notin Names("LOGGERS")
ServerFails(n) ==
    \/ ~Has("SERVERS", n, "listen") \/ ~Has("SERVERS", n, "names")
    \/ /\ Has("SERVERS", n, "routes")
       /\ \E i \in DOMAIN Fields("SERVERS", n)["routes"] :
              Fields("SERVERS", n)["routes"][i] \notin Names("ROUTES")
    \/ LoggerFails(n, "access_log") \/ LoggerFails(n, "error_log")

FieldOr(fields, f, default) == IF f \in DOMAIN fields THEN fields[f] ELSE default

NoRedirect == [to |-> <<>>, code |-> 0]
Route(n) ==
    LET fs == Fields("ROUTES", n)
        redirected == "redirect" \in DOMAIN fs
        Opt(f, default) == IF redirected THEN default ELSE FieldOr(fs, f, default)
    IN  [ pattern |-> fs["location"], root |-> Opt("root", <<>>),
          redirected |-> redirected, redirect |-> FieldOr(fs, "redirect", NoRedirect),
          allowed_methods |-> Opt("allowed_methods", {}), index |-> Opt("index", <<>>),
          listing |-> Opt("listing", FALSE), cgi |-> Opt("cgi", FALSE) ]

\* Each log is an uninitialised pointer unless its field is there.
VirtualServer(n) ==
    LET fs == Fields("SERVERS", n)
        rs == FieldOr(fs, "routes", <<>>)
    IN  [ name |-> n, hostnames |-> fs["names"], routes |-> [i \in DOMAIN rs |-> Route(rs[i])],
          logs |-> {"access_log", "error_log"} \intersect DOMAIN fs ]

Configure ==
    /\ phase = "configure"
    /\ IF GlobalFails \/ (\E n \in Names("ROUTES") : RouteFails(n)) \/ Names("SERVERS") = {}
       THEN phase' = "failed" /\ todo' = todo
       ELSE /\ phase' = "add"
            /\ todo' = Names("SERVERS")
    /\ UNCHANGED <<site, ini, line, listeners, vservers, req, parser, via, resp>>

\* A listener of the address is found only through a server that uses it.
ListenerOf(addr) == {vservers[i].lfd : i \in {j \in DOMAIN vservers :
                                                 listeners[vservers[j].lfd] = addr}}

\* The address may be in use, by this process or by another one.
CreateListenSocket(addr) ==
    /\ \A i \in DOMAIN listeners : listeners[i] # addr
    /\ listeners' = Append(listeners, addr)

\* Where the iterator over the servers stands.
NextServer == ServerNames[Min({i \in DOMAIN ServerNames : ServerNames[i] \in todo})]

AddVirtualServer ==
    LET n    == NextServer
        addr == Fields("SERVERS", n)["listen"]
        Added(lfd) == vservers' = Append(vservers, [lfd |-> lfd, vs |-> VirtualServer(n)])
        Throws     == phase' = "failed" /\ UNCHANGED <<listeners, vservers>>
    IN  /\ phase = "add" /\ todo # {}
        /\ todo' = todo \ {n}
        /\ \/ ServerFails(n) /\ Throws
           \/ /\ ~ServerFails(n) /\ ListenerOf(addr) # {} /\ phase' = phase
              /\ Added(Min(ListenerOf(addr))) /\ listeners' = listeners
           \/ /\ ~ServerFails(n) /\ ListenerOf(addr) = {}
              /\ \/ CreateListenSocket(addr) /\ Added(Len(listeners')) /\ phase' = phase
                 \/ Throws
        /\ UNCHANGED <<site, ini, line, req, parser, via, resp>>

ServeForever ==
    /\ phase = "add" /\ todo = {} /\ phase' = "serve"
    /\ UNCHANGED <<setupVars, req, parser, via, resp>>

-----------------------------------------------------------------------------
(* The file system *)

Exists(path) ==
    IF EndsWithSlash(path) THEN StripSlashes(path) \in Tree.dirs
    ELSE path \in Tree.files \union Tree.dirs
IsDirectory(path) == StripSlashes(path) \in Tree.dirs

\* The entries of S in the directory dir, whose path ends with a slash.
Entries(dir, S) ==
    {SubSeq(p, Len(dir) + 1, Len(p)) : p \in
        {q \in S : /\ IsPrefixOf(dir, q) /\ Len(q) > Len(dir)
                  /\ \A i \in (Len(dir) + 1)..Len(q) : q[i] # "/"}}

\* The links of its listing: one to a subdirectory ends with a slash.
Links(dir) == Entries(dir, Tree.files) \union {n \o <<"/">> : n \in Entries(dir, Tree.dirs)}

-----------------------------------------------------------------------------
(* Answers *)

\* What the names of a server say of a host: the first answer that is not "no".
Heard(vs, host) ==
    LET said == {k \in DOMAIN vs.hostnames : Match(vs.hostnames[k], host) # "no"}
    IN  IF said = {} THEN "no" ELSE Match(vs.hostnames[Min(said)], host)

\* __GetVirtualServer: the first one of the listener with a name that matches,
\* or that is never done with.
Candidates(lfd, host) ==
    {i \in DOMAIN vservers : vservers[i].lfd = lfd /\ Heard(vservers[i].vs, host) # "no"}
FirstOf(S) == IF S = {} THEN 0 ELSE Min(S)

LastServer(lfd, host) ==                                       \* mutant
    IF Candidates(lfd, host) = {} THEN 0 ELSE Max(Candidates(lfd, host))
GetVirtualServer(lfd, host) == FirstOf(Candidates(lfd, host))

FindWebRoute(path, routes) ==
    FirstOf({i \in DOMAIN routes : MatchPath(routes[i].pattern, path)})

\* What __OnHttpRequest looks at for a GET request.
ScenarioOf(vs, route, file, slashed) ==
    [ method |-> "GET", tooBig |-> FALSE, host |-> TRUE, found |-> TRUE,
      redirects |-> route.redirected, redirect |-> route.redirect.code,
      allowed |-> route.allowed_methods,
      form |-> "no", store |-> "ok",
      target |-> IF ~Exists(file) THEN "missing" ELSE IF IsDirectory(file) THEN "dir" ELSE "file",
      index |-> IF route.index = <<>> THEN "off"
                ELSE IF Exists(slashed) /\ ~IsDirectory(slashed) THEN "present" ELSE "absent",
      slash |-> EndsWithSlash(file), listing |-> IF route.listing THEN "ok" ELSE "off",
      removes |-> FALSE, cgi |-> route.cgi /\ file \in Tree.scripts, 
      opens |-> file \notin Tree.locked, errpage |-> FALSE ]

Resolve(vs, path) ==
    LET r      == FindWebRoute(path, vs.routes)
        route  == vs.routes[r]
        file   == AppendPath(route.root, GetRelativePathFromPattern(route.pattern, path))
        q      == ScenarioOf(vs, route, file, AppendPath(file, route.index))
        a      == OnHttpRequest(q)
    IN  IF r = 0 THEN [NoAnswer EXCEPT !.do = "error", !.code = 404, !.path = path]
        ELSE [ do |-> a.do, code |-> a.code, server |-> 0, route |-> r, file |-> file,
               path |-> path,
               location |-> IF route.redirected THEN route.redirect.to
                            ELSE IF a.code = 302 THEN AppendPath(path, route.index)
                            ELSE <<>> ]

\* A request reaches the listener of its address; without one it is refused.
Listening(addr) == {i \in DOMAIN listeners : listeners[i] = addr}

\* Every request is logged, and a static file that cannot be opened as an error.
LogsUnset(vs, r) == \/ "access_log" \notin vs.logs
                    \/ "error_log" \notin vs.logs /\ r.code = 500

AnswerRequest ==
    LET refused == [NoAnswer EXCEPT !.do = "error", !.code = 400]
        v  == GetVirtualServer(Min(Listening(req.addr)), req.host)
        vs == vservers[v].vs
    IN  /\ phase = "parse" /\ ~parser.run
        /\ \/ /\ parser.err \/ v = 0
              /\ resp' = refused /\ phase' = "serve"
           \/ /\ ~parser.err /\ v # 0 /\ Heard(vs, req.host) = "endless"
              /\ phase' = "endless" /\ resp' = resp
           \/ /\ ~parser.err /\ v # 0 /\ Heard(vs, req.host) = "yes"
              /\ resp' = [Resolve(vs, parser.uri.path) EXCEPT !.server = v]
              /\ \/ phase' = "serve"
                 \/ LogsUnset(vs, resp') /\ phase' = "undefined"
        /\ UNCHANGED <<setupVars, req, parser, via>>

ParseTarget ==
    /\ phase = "parse" /\ parser.run
    /\ parser' = UriStep(req.target, parser)
    /\ UNCHANGED <<setupVars, phase, req, via, resp>>

-----------------------------------------------------------------------------
(* The client *)

Request(target, how) ==
    /\ phase' = "parse" /\ parser' = NewParser
    /\ req' = target /\ via' = how /\ resp' = NoAnswer
    /\ UNCHANGED setupVars

Ask == /\ phase = "serve" /\ req = NoRequest
       /\ \E a \in Asks : Listening(a.addr) # {} /\ Request(a, Asked)

Leave == /\ phase = "serve" /\ req # NoRequest
         /\ req' = NoRequest /\ parser' = NewParser /\ via' = Asked /\ resp' = NoAnswer
         /\ UNCHANGED <<setupVars, phase>>

\* The route that gave the answer.
AnsweringRoute == vservers[resp.server].vs.routes[resp.route]

Listing == resp.code = 200 /\ resp.do = "respond" /\ ~AnsweringRoute.redirected

\* A link whose first segment has a colon is an address with a scheme to the
\* client: it leads away from the server.
StaysHere(link) == \A k \in DOMAIN link : link[k] # ":"

\* Links are resolved against the target, up to its last slash.
Base(target) ==
    LET path == Upto(target, {"?", "#"})
    IN  SubSeq(path, 1, Max({i \in DOMAIN path : path[i] = "/"}))

FollowLink ==
    /\ phase = "serve" /\ Listing /\ req.target[1] = "/"
    /\ \E n \in Links(resp.file) :
          /\ StaysHere(n)
          /\ Request([req EXCEPT !.target = Base(req.target) \o n],
                  [how |-> "link", route |-> resp.route,
                   file |-> IF req.target = resp.path /\ EndsWithSlash(resp.path)
                            THEN resp.file \o n ELSE <<>>])

FollowRedirect ==
    /\ phase = "serve" /\ resp.code \in {301, 302}
    /\ resp.location # <<>> /\ resp.location[1] = "/"
    /\ Request([req EXCEPT !.target = resp.location],
               [how |-> "redirect", route |-> resp.route,
                file |-> IF AnsweringRoute.redirected THEN <<>>
                         ELSE AppendPath(resp.file, AnsweringRoute.index)])

Stopped == phase \in {"failed", "undefined", "endless"} /\ UNCHANGED vars

Next == \/ ReadLine \/ EndOfFile \/ Configure \/ AddVirtualServer \/ ServeForever
        \/ Ask \/ Leave \/ ParseTarget \/ AnswerRequest \/ FollowLink \/ FollowRedirect
        \/ Stopped

Spec == Init /\ [][Next]_vars

-----------------------------------------------------------------------------
(* Properties *)

\* The categories are what the file says, whatever the order of headers,
\* comments, blank lines and repeated assignments.
IniExact == phase = "configure" => ini.cats = CategoriesOf(File)

\* URI::Parse accepts what the grammar allows and finds its components, and
\* an accepted path begins with a slash, as the routes take for granted.
UriExact ==
    phase = "parse" /\ ~parser.run =>
        LET g == Grammar(req.target) IN
        /\ parser.err <=> ~g.ok
        /\ g.ok => parser.uri = g.uri /\ parser.uri.path[1] = "/"

\* A request is served by the first server, in the order of their names,
\* that the file gives this address and a host name that covers the request's,
\* and the search for it ends: if the host has no bracket and the names of the
\* servers of the address have no more than one block each, in which no
\* alternative begins with another.
ServerExact ==
    LET Here(n) == /\ <<"SERVERS", n>> \in DOMAIN ini.cats
                   /\ Fields("SERVERS", n)["listen"] = req.addr
        Serves(n) == Here(n) /\ \E k \in DOMAIN Fields("SERVERS", n)["names"] :
                                    Covers(Fields("SERVERS", n)["names"][k], req.host)
        first == FirstOf({i \in DOMAIN ServerNames : Serves(ServerNames[i])})
        clear == /\ \A k \in DOMAIN req.host : req.host[k] # "["
                 /\ \A i \in DOMAIN ServerNames : Here(ServerNames[i]) =>
                        \A k \in DOMAIN Fields("SERVERS", ServerNames[i])["names"] :
                            Readable(Fields("SERVERS", ServerNames[i])["names"][k])
    IN  phase \in {"serve", "endless"} /\ clear =>
            /\ phase = "serve"
            /\ resp.do # "none" /\ ~parser.err =>
                   IF resp.server = 0 THEN first = 0
                   ELSE first # 0 /\ vservers[resp.server].vs.name = ServerNames[first]

\* The names of the disk, and those of index pages, hold nothing that would have
\* to be escaped in a link, and those of the disk no colon (StaysHere).
Plain == Unreserved \union SubDelim \union {":", "@", "/"}
HasPlainNames(s) ==
    /\ s.tree.files \union s.tree.dirs \subseteq Seq(Plain \ {":"})
    /\ \A i \in DOMAIN s.file :
           s.file[i].is = "field" /\ s.file[i].name = "index" => s.file[i].value \in Seq(Plain)

\* A link of a directory listing leads to the file or directory it names,
\* if the same route serves it and the address of the listing ends with a slash
\* (the listing of a route's root does not, when it is asked for by the pattern
\* without one: its links are resolved in the directory above).  On a disk with
\* plain names that is every link.
LinksLead ==
    phase = "serve" /\ via.how = "link" /\ via.file # <<>> /\ resp.route = via.route =>
        /\ resp.file = via.file /\ Exists(resp.file)
        /\ resp.code # 404 \/ IsDirectory(resp.file)

\* A redirect of a directory, to its index page or to its own name with a
\* slash, leads there and not to another redirect.
RedirectsLead ==
    phase = "serve" /\ via.how = "redirect" /\ via.file # <<>> /\ resp.route = via.route =>
        resp.file = via.file /\ resp.code # 302

\* The comment in SwitchCurrentCategory ("deleting '[' and ']' from the
\* beginning and end of the line", config.cc:156): a category's name is a
\* header of the file.
CategoriesAreHeaders ==
    \A path \in DOMAIN ini.cats : path \in DOMAIN CategoriesOf(File)
=============================================================================
