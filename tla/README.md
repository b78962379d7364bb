# Verification of CEPBEP

CEPBEP is an HTTP/1.1 server in C++98: one thread, one event loop over `poll`,
static files, directory listings, uploads, deletions, redirects and CGI
programs, configured by an INI file. This directory holds TLA+ models of its
parts, the TLC configurations that check them on small instances, and TLAPS
proofs of what matters most for every instance.

Paths below are relative to `src/sources/`; `ws_x` is short for
`netlib/webserver/webserver_x.cc`.

## 1. Inventory

| Component | State it keeps | Operations | Speaks to |
|---|---|---|---|
| Event loop, `netlib/event` | `__q` (priority queue of events), `__hooks`, `__run` | `Run`, `PushEvent`, `AddEventSource`, `Stop` | calls the three hooks of the server and the events they queue |
| Poller, `netlib/io/poller.cc`, `common/fast_vector.h` | `__pfds` (vector of pollfd), `__it` (cursor) | `AddFd`, `RmFd`, `AddEvMask`, `RmEvMask`, `SetEvMask`, `Poll` | the kernel; called by every handler |
| Sessions, `ws_sessions`, `ws_timeout`, `ws_listener_event` | `__sessions_map`, one heap `SessionCtx` per connection | accept, read, write, hang-up, error, timeout, delete | request reader, request dispatch, poller |
| Event dispatch, `ws_poll` | none | turns one poll result into one event of one owner map | the four maps |
| Request dispatch, `ws_http`, `ws_err` | `http_req`, `res_code`, `__link_vs` of the session | choice of virtual server and route, redirect, method check, size check, upload, delete, CGI, directory, file; error pages | static files, CGI, upload, writer |
| Static files, `ws_static` | `__stat_file_read_map`, `__link_stfile` | start, read, end, error, remove | poller, writer |
| CGI, `ws_cgi` | `__cgi_fd_map`, `__cgi_pid_map`, `__link_cgi` | fork and pipes, input, output, hang-up, error, kill, reap | CGI reader, poller, child processes |
| Upload, `ws_upload` | none of its own: the directory on disk | parse multipart, check names, create files | file system |
| Listing, `ws_listing` | none | makes a page | file system |
| Request reader, `http/reader_request.cc`, `http/reader_common.cc` | `__buffer`, `__i`, `__state`, `__chunk_size`, `__req_data` | `Read`, `Process`, `Reset` | fed by the session |
| CGI response reader, `cgi/response_reader.cc` | the same, and `__end_read_i` | `Read`, `EndRead`, `Process`, `Reset` | fed by the CGI events |
| Response reader, `http/reader_response.cc` | the same | the same | nobody: unused |
| Writer, URI, headers, mime, metavars, tokenizer, match, time, logger | local values | conversions | callers |
| Configuration, `config/`, `webserver.cc` | categories; virtual servers and routes | load once, before the loop | sessions read it |

Everything runs in one thread, so the interleavings that matter are between the
loop and its surroundings: clients that send, stop, reset and wait; CGI workers
that write, exit and are killed; the clock; the kernel, which gives the lowest
free descriptor to whoever asks next. Inside the loop an event is *queued* in
one step and *handled* in a later one, and the handlers find the session, its
file and its worker again through maps and raw pointers. That is where the
server is hard to test:

* a descriptor number or a session pointer used after its owner is gone;
* an event handled after a hook has changed what it is about;
* a session that answers a request twice, or never;
* the tables, the poller and the kernel's descriptor table drifting apart;
* a poll result nobody expects, on which a spawner throws and the process ends;
* a message cut into pieces at any byte;
* a blocking read or write inside a handler, during which nothing else runs;
* starvation in the poller's round-robin.

Each such place is listed, with its line, under `hazards` in `PROJECT.json`.

## 2. Modules and code

How the modules build on each other:

```
HttpDispatch <- HttpServer <- MCHttpServer
                HttpServer <- HttpServerProofs
ConnectionService (implemented by) HttpServer, for clients that wait
HttpDispatch <- HttpUpload <- MCHttpUpload          HttpUpload <- HttpUploadProofs
PollSet (implemented by) Poller                     Poller     <- PollerProofs
CgiPipe <- MCCgiPipe                                CgiPipe    <- CgiPipeProofs
HttpDispatch, Uri, IniFile, Routes <- Site <- MCSite     Site       <- SiteProofs
ReaderBuffer <- RequestReader <- RequestFraming <- MCRequestReader
ReaderBuffer <- CgiReader     <- CgiFraming     <- MCCgiReader
ReaderBuffer <- ReaderBufferProofs <- RequestReaderProofs, CgiReaderProofs
```

**HttpDispatch** is the pure decision of `__OnHttpRequest` and the handlers it
tail-calls (`ws_http.cc`, `ws_upload.cc`). Each handler is a decision list in
the order of the code's early returns. A record of `Scenario` gathers what the
decision depends on: the request, the route found, the answers of the file
system. An `Answer` says whether the session gets a finished response, an error
response, a file or a CGI worker.

**HttpServer** is the server: loop, dispatch, sessions, static files, CGI.

| Variable | Code |
|---|---|
| `srv` | up, or why `ServeForever` was left: a spawner's throw, `substr` after a failed write; `"undefined"` after an access through a freed, NULL or erased pointer |
| `phase`, `evq` | `Event::Loop::Run` and `__q`: drain the queue, then the hooks in the order of `__hooks`; `"blocked"` is inside a `read` or `write` of a handler that has to wait |
| `kind` | the kernel's descriptor table; `"leaked"`, `"ended"` and `"dir"` are descriptors that nothing will close any more: a connection `accept` returned and lost, a pipe of a worker that ended, the directory stream of a listing |
| `mask` | the poller, as a map (the variable `watch` of PollSet) |
| `sessions`, `files`, `cgiFds`, `cgiPids` | `__sessions_map`, `__stat_file_read_map`, `__cgi_fd_map`, `__cgi_pid_map` |
| `live`, `ctx` | allocated `SessionCtx` and their contents: `owed` counts the responses due, `buf` those in `res_buff`, `file`/`closed` is `__link_stfile`, `cgi` is `__link_cgi` |
| `backlog`, `inbox`, `peer`, `expired`, `worker`, `pipe` | clients, clock, CGI workers |

Actions: `Handle` is the drain of one event, with the whole handler it runs
(`HandleListener`, `HandleSession`, `HandleFile`, `HandleCgi`). All descriptors
are blocking, and `poll` promises a writer room for something, not for all it has
to write: where the handler's read or write may wait (`MayBlock`), `Block` stops the
loop before it, clients, workers and the clock move on, and `Resume` is the return
of the call and the rest of the handler. Nothing says that it returns.
`EvaluateCgiWorkers`, `EvaluateIoTimeouts` and `EvaluateIoEvents` are the three
hooks; the rest is the environment, which moves where a step that can notice
comes next (its other moves commute with the loop's and are left out). The two ends of a handler that every path
goes through, `OnHttpResponse` and `OnHttpError`, are operators that take the
context and the tables as the handler leaves them. A file that is sent may be a
device, a FIFO or a terminal (`SpecialFiles`), of which `poll` reports a hang-up, and
`__SpawnStaticFileReadEvent` throws on that. Descriptor numbers are given
out lowest first, so a number is reused at once after a close. Uninitialised
values the code reads (the protocol version of a refused request, the address
length given to `accept`) are nondeterministic choices.

`ConnectionService` is what HttpServer promises a client that waits for each
response: requests are taken and answered one at a time, in order. The
refinement maps what a session owes, buffers and has received to one of its
states (`ServiceState`). A listing opens its directory and never closes it
(`ws_listing.cc:123`): `SendDirectoryListing` takes the descriptor away for good.

**CgiPipe** looks at one worker and its two pipes byte by byte: pipes of bounded
capacity, a `write` that blocks the server or the worker while the other pipe
end is full, a `read` that stops at the buffer's size, and a worker whose pipes
are closed before `waitpid` can see it. `pc` is the place of the loop, `queued`
the event `poll` made; `inBuf` is `CgiEntry::in_buf`. Each handler of `ws_cgi.cc`
is an operator, and `Write` is the time the server spends inside `write`. A `Job`
says what a worker is like: what it writes, what it announces, whether it reads
its body before it writes, whether it may die.

**Site** goes from the lines of a configuration file to the answer to a request.
`ReadLine` is one line of `ParseFromINI`, `Configure` and `AddVirtualServer`
set up the servers, `ParseTarget` is one turn of the URI machine and
`AnswerRequest` finds the server, the route and the file and asks HttpDispatch.
The client then follows the links of a listing and the redirects it gets, so
that what the server prints is compared with what it understands; a link with a
colon is an address with a scheme to a client, which does not come back with it
(`StaysHere`). `"undefined"` is where a request reads a log that the file does not
set, `"endless"` where the search for a server does not end. Site is built
from three modules without state: **IniFile** (categories and the current one; a
field carries the brackets of its value, by which `IsCategory` decides),
**Uri** (`URI::Parse`, one operator per state, and the grammar it should
recognise, one operator per component), **Routes** (`Match`, `PathDiffer`,
`AppendPath` and their relatives). Names are sequences of characters here, because
prefixes, slashes and stars are what the code decides by; `Char` is the set of
characters, about which only `CharAssumption` is assumed: it holds the ones that
the code itself puts into a path. `Match` calls itself in the code, and is a
function here that is defined by recursion on the places in pattern and name.
`TryBlock` is one block `[x|y]` of a pattern. After it the code goes on behind the
*first* `]` of the pattern, so that a second block sends it back to the first one,
for ever if nothing of the name was used up: `Match` says "yes", "no" or
"endless".
`todo` holds the names of the servers that are not set up yet; `NextServer` is the
first in the order of `std::map`.

**Poller** is `__pfds` with the swap-erase of `fast_vector.h` and the cursor of
`__FindEventFd`; **PollSet** is the map from descriptors to masks it promises to
be, and HttpServer uses it in that form.

**ReaderBuffer** is what the two readers of HTTP messages share: the buffer, the
index, `Read`, and the two ways a state of the automaton moves on.
**RequestReader** and **CgiReader** have one action per state function, then the
step of `Process` that returns, and the caller's side (a piece arrives, the
worker hangs up). A stream is a sequence of symbols: line ends, the beginnings
of request lines, the headers that frame a body, chunk sizes, other bytes.
**RequestFraming** and **CgiFraming** define the message a stream holds from the
stream alone, without pieces, index or states: the reference the readers are
compared with.

**HttpUpload** is `__HandleUploadRequest` and `__OnUploadEnd` with the parts of
the tokenizer they use. Each system call is a step, because other processes
(CGI workers that run at the same time, whoever else uses the directory) create,
rename and remove files between any two. The directory maps names to inodes, so
that a file keeps its contents when its name moves. `Multipart` says when a body is
one with a given line end, and `PartsExact` what the cut at the boundaries must find
in it, whatever the number of parts.

## 3. Runs

| Run | Checks | Size |
|---|---|---|
| `core_plain` | sessions and their table, the queued event, one response per request, files closed, no freed memory touched, which poll results make a spawner throw, refinement of ConnectionService; files, special ones too, and error pages, clients that wait for their response | 2 sessions, 5 descriptors, 1.4 M states |
| `core_full` | types, poller and tables, armed writes, CGI tables, no throw of a spawner for listeners, connections and workers, idle sessions closed; CGI with a body, HTTP/1.0 listings that keep a descriptor, descriptors lost by `accept`, pipelining | 1 session, 1 worker, 6 descriptors, 0.7 M states |
| `cgi_stale` | finding: a session deleted while its worker runs stays in `__cgi_fd_map` | 1 session, 1 worker |
| `poller` | no duplicates, refinement of PollSet, each operation on the right entry, the sticky cursor, who can starve whom | 3 descriptors, 1 bit |
| `reader` | the framing of requests, no throw of `substr`, the buffer is what was read, `Process` returns | 294 k states |
| `reader_stall` | finding: CR without LF after a chunk stalls | one stream |
| `cgi_reader` | the framing of CGI responses, no throw, the buffer | 226 k states |
| `cgi_status` | finding: a refused `Status` header gives a response without a code | two outputs |
| `upload` | files parsed as sent, only own files written, answer tells what was created | 2 names, 4 inodes, 44 k states |
| `cgi_pipe` | how many answers a request gets and what is missing from them, which workers can block the server, which are reaped | pipes of 2 bytes, portions of 3 |
| `site` | categories, URIs, the choice of a server (patterns with stars and blocks), links and redirects | 98 files, targets of up to 4 symbols, 283 k states |
| `ini_brackets` | finding: a value with brackets becomes a category | one file |

Bounds, and why they are enough:

* Sessions and workers. Handlers touch one session, its file and its worker, and
  meet another session only through a reused descriptor number. Two sessions
  and five descriptors (a listener, two connections, two files) let every number
  be reused by another owner; `core_full` trades the second session for the CGI
  worker's two pipes. `Session` and `Pid` are symmetric; `Fd` is not, since
  numbers are ordered. In `core_full` one client more than there
  are sessions (`Surplus`) may come while no descriptor is free: its `accept` fails,
  the listener stays ready, and the session there is must be closed all the same.
* `Outstanding`, `PipeCap`, `Waiting` bound what the surroundings may pile up.
  One message in flight is a client that waits; two reach every state of a
  pipelining one, since the reader's buffer is dropped after each message.
* `SpecialFiles` is TRUE in `core_plain`, where `poll` may report of an open file
  nothing, data, an error and a hang-up in any mixture, and FALSE elsewhere, where a
  file is always ready to be read.
* `Leaks`: `accept` loses a descriptor only while fewer than that many are gone,
  directory streams included. A listing always loses one, so that in `core_full`
  the descriptors run out and `accept`, `pipe` and `opendir` fail.
* Three descriptors make the vector's last element, its first and one between.
* Readers: every stream of a family of line ends, headers and bodies, cut in
  every way into pieces. Lengths of 0, 1, 2 and 12 are below, at and above what
  the streams hold. `Unset` (what an uninitialised size reads as) is 0 or 1.
* Uploads: two parts are enough for one to fail after another; four inodes
  hold two files of the request and two of others.
* Pipes: a pipe of two bytes is empty, partly full or full; a portion of three
  exceeds it, so that a `write` blocks half way, and bodies and outputs of 0 to 6
  bytes stay below, fill and overflow it.
* Sites: one file is used whole, with every line left out and with a blank line
  at every place, which makes every check of `Config` fail once; another is asked
  for every target up to `MaxTarget` symbols, with and without the scheme; a third
  has names with one block and one with two, for which the search ends with some
  hosts and not with others.

Deadlock is checked in the server, poller and site runs (a stopped server has
the explicit step `Stopped`); the readers end with a message, an upload with its
answer, and `cgi_pipe` where server and worker wait for each other, which
`NoMutualWait` is about.

Fairness. `WF_vars(Loop)`: `poll` returns within 1.5 s (`ws_poll.cc`) and
`waitpid` does not block. The only other waits are the blocking reads and writes of
the handlers, the phase `"blocked"`, in which no step of `Loop` is enabled. `Resume`
has no fairness, since it is a client or a worker that lets it happen; so
`IdleSessionsClosed` is stated under `CallsReturn`, that the server is outside of such
a call again and again. Clients, workers and the clock have no fairness.
`WF_vars(Poll)` in Poller stands for the loop that calls it.
`NoStarvation` assumes that no descriptor is removed from some point on, because
erase moves the last entry behind the cursor; events arrive at any time.
`WF_vars(Process)` of the reader: the loop in `Process` runs until `*run` is false. In CgiPipe the server and the
worker each have weak fairness: the server sleeps only in `poll`, which times
out, and in `write`, where `Write` is not enabled until there is room or no
reader; `WF_vars(Worker)` is the assumption about the program that runs, which
`WorkerReaped` needs because nothing in the server ends a worker that neither
writes nor exits. `WorkerReaped` excludes by `Modest` the workers that stay although they go on.

## 4. Properties that are worth a look

* `QueuedEventFresh`: the event `poll` queues is handled one turn later. It is
  fresh because the hook that queues is the last of the hooks and the queue is
  drained first; swapping two lines of `webserver.cc` breaks it.
* `OneResponsePerRequest`, `FilesExact`: with clients that wait, a session owes
  a response exactly while its file is open. Pipelining breaks both
  (`__link_stfile` is overwritten, `ws_static.cc:11`), so `core_full` does not
  state them.
* `RefinesService`: for clients that wait, what is left of buffers, files and
  counts is one request after another, each answered before the next is taken,
  and no response comes without something received.
* `CgiTableExact` holds, but `CgiTableLive` does not: entries always belong to a
  worker's pipe, yet the session they name may be gone.
* `IdleSessionsClosed` holds if the blocking calls return (`CallsReturn`), and is
  checked where it matters: among others, where a listener stays ready because
  `accept` has no descriptor. Without `CallsReturn` it does not hold: a worker that
  does not read its input keeps the server in `write` (`ws_cgi.cc:233`), and then
  nobody is closed. `NoMutualWait` says which workers can do that for ever, and
  `WorkerReaped` which ones are reaped.
* `OnlyFilesUnsupported`: a spawner throws, and the server exits, only on an event of
  a file it sends, if that file can hang up.
* `NoStarvation` (Poller): a descriptor with events that is never served has exactly
  one cause, another one that has events whenever `Poll` is called and is served
  each time. A file that is sent is such a one, until its end.
* `OneAnswer`, `AnswerExact` (CgiPipe) state exactly when an answer is doubled or
  cut short, and `NoMutualWait` which workers can stop the server: those that
  write more than a pipe holds before they have read a body that the other pipe
  does not hold.
* `NeverOutOfRange`: an exception of `substr` leaves `ServeForever` and ends the
  process; this holds of both readers for all inputs.
* `WritesOwnFiles`: the names are checked in one loop and opened in another;
  `O_EXCL` is what makes the gap harmless.
* `LinksLead`, `RedirectsLead` (Site): the names that a page or a redirect
  prints, parsed again by the URI machine and resolved by the routes, are those of
  the file they were made for. They hold for listings whose address ends with a
  slash only: that of a route's root asked for without one has links that lead
  elsewhere.
* `UriExact`: the states and cuts of `URI::Parse` against a grammar of five lines.

## 5. Findings

* `cgi_stale` (`ws_sessions.cc:35`): `__DeleteSessionCtx` leaves the session's
  entries in `__cgi_fd_map` and its worker running.
* `reader_stall` (`reader_request.cc:153`): the reader waits for ever for an LF
  although the byte after the CR is there and is another.
* `cgi_status` (`response_reader.cc:120`): the error of `ParseCgiStatus` is
  dropped without Content-Length.
* `ini_brackets` (`config.cc:156`): a field with one pair of brackets around a name,
  wherever in the line, becomes a category, so that a pattern with one block, which
  `match.cc` reads, is lost if it stands alone. With two pairs in the line, as in
  `names = [a|b]c d[e|f]`, it is a field.

## 6. Proofs

All proofs hold for every value of the constants that satisfies the `ASSUME`s
next to their declarations; those say that the sets are of the right kind and
that the special values are not in them, nothing about sizes. Three further
hypotheses are written in the theorems that need them: `WaitingClients` (clients
wait for each response and run no CGI worker), `Unbracketed` (no field of the
configuration is taken for a header) and `PlainNames` (the names of files and index
pages hold nothing that a link would have to escape, which the code does not do, and
those of files no colon; MCSite's `PlainAssumption` shows that the sites checked are
such). `ServerExact` itself says for which patterns and hosts it means something:
hosts without `[` and `Readable` patterns, with at most one block in which no
alternative begins with another.

**HttpServerProofs.** `Consistent`: `IInv == TablesInv /\ EnvOK /\ LoopOK /\
QueueOK` is inductive. `PollerMatchesTables` and `SessionTableExact` alone are
not: closing a file needs to know that the descriptor the session links to is a
file of its own, deleting a session that no other map holds its connection, and
handling an event that the queue's one event is about a session still in its
map, which rests on the phase. `TablesInv` relates kinds, masks, maps, contexts
and workers; `LoopOK` and `QueueOK` relate the phase and the queue to them. From it:
`TypeCorrect`, `PollerCorrect`, `SessionsCorrect`, `QueueCorrect`,
`ResponsesArmed`, `WorkersCorrect`, `SpawnersTotal` (which is
`OnlyFilesUnsupported`). A handler that resumes does what it would have done at once,
so `Resume` needs no argument of its own but that the queue's event is still the one it
was (`QueueOK` holds in the phase `"blocked"` too). The proof has a lemma for
each way a handler changes the tables (`ChangeContext` and its siblings), then
one step per action.

The last part is about clients that wait. `WaitingConsistent`: when `Pipelining` is off and no
request runs a CGI worker (`WaitingClients`), `WInv` is inductive relative to
`IInv`. Its heart is `Counted`, a count: on each connection, the messages in
flight, the responses owed and the responses buffered are one in all at most, and
a response is owed exactly while the session's file is open. `FilesOf` says that
each open file is linked by the session it is for; without it the end of one file
could be charged to another. From it: `ResponsesExact`, `FilesClosed`,
`NothingFreedIsUsed`, and `ServiceImplemented`, the refinement, for which each
action of `Next` is shown to be a step of ConnectionService or a stutter. Both
hypotheses are needed: pipelining breaks `FilesExact`, and with a worker the
finding `cgi_stale` leads to freed memory.

**PollerProofs.** `PollerInvariant` (`TypeOK /\ NoDuplicates`, hence
`PollerTypeCorrect` and `OneEntryEach`), `RightEntry` and `PollerImplementsPollSet`: with no duplicates, swap-erase removes one entry of
the map; the scan meets every index modulo the length (`ScanMeets`), so `Poll`
returns nothing only when nothing has events, and at the index it starts from
when that one has some (`CursorStays`).

**RequestReaderProofs, CgiReaderProofs.** `BufferOK /\ ReaderOK` is inductive:
the buffer is a suffix of what was read and the index lies inside it; the states
that cut at the index need the line end they found to be behind it. The lemmas
about cutting and feeding are in ReaderBufferProofs. From it: types, no `substr`
out of range, no byte moved.

`RequestsFramed` and `ResponsesFramed` say that the message found is the one that
the whole stream holds. The definition of that message reads the stream from its
beginning and the reader sees one piece after another, so the invariant `FInv` says
for each state of the automaton what the definition makes of the bytes not consumed
yet (`Outcome`): whatever `x` is read next, the outcome of `buf \o x` is one that
`fed \o x` may have (`Promised`). `Scanned` says what the index has passed by (that
no line end and no blank line lies before it), so that a search from the buffer's
beginning and one from the index find the same; `Stopped` (and `Ended`, after a
hang-up) where `Process` may return. Each action keeps the promise because one step
of the definition is one step of the automaton. Bodies in chunks are a recursive
function of what is left and of the body so far; `Chunks` is shown to have the value
that its equation gives.

**HttpUploadProofs.** `TypeOK /\ Progress`: what has been created after `n`
files, and that the open inode is one the request has created. From it: types,
`WritesOwnFiles`, `CreatedAll`, `AnswersAsDispatched`.

`PartsFound` needs `CInv` besides: of a body that is multipart with some line end,
at every step of the loop (`Cutting`), what is next is a boundary and the files
found so far are those of the parts before it, each in its place. The lemmas before
it say what each `find` of the tokenizer meets inside a part, for either line end
(`PlainChunk`, `CarriageChunk`), and where the next boundary is (`BoundaryAfter`).

**CgiPipeProofs.** `PipeInv`: the counts of bytes on both sides of each pipe
(`Bytes`: what was read and what is in the pipe is what was written), where the
server can be (`Place`: it is inside `write` exactly while some of a portion is
left), and which ends are polled (`Answers`: the output until the first answer, the
input until a 500). From it: types, `OneAnswer`, `AnswerExact`, and
`NoMutualWait`: a server inside `write` at a full pipe has more of the body left
than the pipe holds, a worker inside `write` has more to write than its pipe holds,
and one that reads first would have emptied the other.

**SiteProofs.** Five results, which build on each other.

* `MatchCovers`: for `Readable` patterns and hosts without `[`, `Match` ends and is
  `Covers`. Covers, started at any place of pattern and name, solves the equation
  that defines `Match`, where `TryBlock` finds the one alternative that fits and
  the first `]` is that of the one block; and the equation has one solution only,
  because two would differ at a last place.
* `TargetsParsed`: `ParserOK` gives each state of the URI machine in terms of the
  grammar. In `AUTH`, behind the "@" at `n`, every userinfo up to there was valid;
  in `PATH` the authority was valid and its parts are those of the grammar; and so
  on to `END`. A machine that has refused has done so because the grammar does.
  That each part ends where the grammar ends it is `Parts`: the grammar searches
  in what is left of the part before, the machine from a position.
* `IniRead`: after `n` lines the categories are `CatsTo(File, n)`, what
  `CategoriesOf` says of the first `n` lines, and the current category is that of
  the header the next line stands under (`HeaderOf`), the root behind a blank line.
  A field with one pair of brackets becomes a category, as `ini_brackets` shows; hence
  `Unbracketed`.
* `SiteTypeCorrect` and `FirstServerServes`: `TypeOK` alone is not inductive. A
  server is set up from fields whose checks `Configure` has made, so `PhaseOK` keeps
  that they hold in the later phases; a virtual server names a listener
  (`HaveListeners`); and a request in work has a target, whose parser is in one of
  the states above (`RequestOK`). `ServersOK` says that the servers set up stand in
  the order of their names and before those still to come (`Ordered`), that each is
  as the file describes it (`Described`), that none is missing (`Complete`), that no
  two listeners have one address (`Distinct`), and that a request has come to one of
  them (`Reached`). The first virtual server of the listener whose pattern matches
  is then the first of the file whose pattern covers the host, and the search for
  it ends, where host and patterns are as `ServerExact` wants them.
* `ListingLinksLead` and `DirectoryRedirectsLead`: `LInv == SInv /\ CatsPlain /\
  IndexesOK /\ RespOK /\ ViaOK`. While a link or a redirect is followed (`ViaOK`),
  its target is a rooted path of plain symbols, which its route maps to the file it
  names (`Promised`); an answer is the one its route gives for a clean path
  (`RespOK`). Three lemmas carry the step: `Straight`, a plain target is parsed to
  itself; for links `RelativeLonger`, a route's pattern leaves of the path with a
  name behind it what it left of the path, and the name; for redirects `FileMoved`,
  `AppendPath` before `GetRelativePathFromPattern` is the same as behind it. `CatsPlain` and `IndexesOK` follow the
  name of an index page from its line through the categories to its route.

Induction over numbers, which the prover has no schema for, is done through a
least counterexample (`LeastOf`, from the well-foundedness of `<`); what is defined
by recursion is a recursive function, of which the provers use the equation.

Every safety property, action property and refinement of the passing runs is
stated by a theorem. Model-checked only is what holds under fairness, which the
prover does not reach: `IdleSessionsClosed`, `NoStarvation`,
`ProcessReturns`, `WorkerReaped`.

## 7. Not modelled

* Timed events and `Stop` of the event loop: every event of this program has time
  point 0 and `Stop` is called by nothing. At most one event is queued, so that
  the priority queue is the sequence `evq`.
* The worker between `fork` and `execve`, what its environment holds
  (`cgi/metavars`), and the descriptors it inherits: a connection that the server
  closes is closed in the model, although a worker may still hold it.
* `http/reader_response.cc`: not used by the program; the CGI reader has states
  of its own.
* Page texts, header formatting, the writer, logging, dates, MIME types, address
  conversion: conversions whose results no decision of the server depends on.
* What a pattern with several blocks, or with one alternative that begins with another,
  should match: no document says it. What `Match` makes of it is in the model (it
  may not end), but no property judges it.
* The escaping of names in the links of a listing, which the code does not do either:
  the names in Site need none. A name with a colon gives a link with a scheme
  (`ws_listing.cc:93`); the model's client does not follow it.
* That `open` of a FIFO waits for a writer: in HttpServer `open` returns at once, and
  only the reads of a special file may wait.
* A configuration file that cannot be opened, `chdir`, and the fields that are
  constants of the other modules (MIMES, CGI, ERRORS, timeout, max_body).
* Contents of response bodies: HttpServer counts responses, CgiPipe counts bytes.
  That a failed read yields a buffer of NUL bytes (`file.cc:31`) shows in the model
  only as one more message to parse or send.
* The process's end by an exception is modelled (`Crash`, `"down"`), not excluded:
  a write on a reset connection makes `substr(-1)` throw, and no document says the
  server should survive it.

## 8. Plan

The parts of the program that decide something are modelled. What is left:

1. Two sessions with a worker each in HttpServer, whose state space needs a coarser
   model of the clients. The safety properties are proved for any number of both;
   `IdleSessionsClosed` is checked with one.
2. A request that is pipelined behind a CGI request, byte by byte: RequestReader
   and CgiPipe composed.
