----------------------------- MODULE HttpServer -----------------------------
(***************************************************************************)
(* The server of src/sources/netlib/webserver: one thread that runs the    *)
(* event loop (event/loop.cc), accepts connections, reads requests, sends  *)
(* responses made in memory, from static files or by CGI workers, and      *)
(* closes sessions on hang-up, error and timeout.                          *)
(*                                                                         *)
(* The loop drains its event queue (phase "drain") and then runs the three *)
(* hooks in the order of __hooks: reap CGI workers, close idle sessions    *)
(* (phase "timeout"), wait for one descriptor and queue one event (phase   *)
(* "poll").  The descriptors are blocking: a handler may have to wait in a *)
(* read or a write until the other side goes on (phase "blocked").         *)
(* Clients, CGI workers and the clock move in between, each where a step   *)
(* that looks at what it changes comes next: the clock before the hooks, a *)
(* new client before poll, the others before poll and between poll and the *)
(* end of the event's handler.  Elsewhere their moves commute with those   *)
(* of the loop and are left out.                                           *)
(*                                                                         *)
(* Data are counted, not spelt: inbox, buf and pipe count messages.  The   *)
(* poller is a map from descriptors to event masks; module Poller gives    *)
(* its vector.  An access through a dangling or NULL pointer, or through   *)
(* a closed descriptor, stops the model with srv = "undefined".            *)
(***************************************************************************)
EXTENDS HttpDispatch, Integers, FiniteSets

CONSTANTS
    Fd,          \* descriptors the process may hold (RLIMIT_NOFILE), naturals
    Listeners,   \* the listening descriptors of __listeners_map
    Session,     \* heap blocks that can hold a SessionCtx
    Pid,         \* process ids that can be given to CGI workers
    Nil,         \* NULL, or "no entry" of a map
    Dangling,    \* a pointer to an erased CgiEntry
    Requests,    \* the requests clients send
    Garbage,     \* what an uninitialised protocol version may read as: is it 1.0?
    SpecialFiles, \* may a file sent be a device, FIFO or terminal?
    Pipelining,  \* may a client send before its last response is complete?
    Outstanding, \* bound: messages of one connection not yet answered
    PipeCap,     \* bound: messages a CGI output pipe holds
    Waiting,     \* bound: connections waiting to be accepted
    Surplus,     \* bound: connections beyond the blocks of Session (see Connect)
    Leaks        \* bound: accept loses a descriptor only while fewer are lost

Request == [scenario : Scenario, v10 : BOOLEAN, body : BOOLEAN]
Entry   == [in : Fd, out : Fd, body : BOOLEAN]       \* CgiEntry

ASSUME FdAssumption   == Fd \subseteq Nat /\ Listeners \subseteq Fd
ASSUME NilAssumption  == /\ Nil \notin Session /\ Nil \notin Pid /\ Nil \notin Fd
                         /\ Nil \notin Entry
                         /\ Dangling \notin Pid /\ Dangling # Nil
ASSUME ReqAssumption  == /\ Requests \subseteq Request /\ Pipelining \in BOOLEAN
                         /\ SpecialFiles \in BOOLEAN
                         /\ Garbage \subseteq BOOLEAN
ASSUME BoundsAssumption == {Outstanding, PipeCap, Waiting, Surplus, Leaks} \subseteq Nat

VARIABLES
    srv,      \* "up", or why the server stopped (see Stopped)
    phase,    \* where the event loop is
    evq,      \* the event queue __q
    \* the kernel's view of the process
    kind,     \* what each descriptor is
    mask,     \* the poller: requested events, {} when not registered
    \* the maps of HttpServer
    sessions, files, cgiFds,   \* descriptor -> SessionCtx* (or Nil)
    cgiPids,                   \* pid -> CgiEntry (or Nil)
    \* the heap
    live,     \* allocated SessionCtx
    ctx,      \* their contents
    \* clients, workers, clock
    backlog,  \* connections to accept
    inbox,    \* messages received on a connection and not read
    peer,     \* what the peer did last: "open", "shut" (FIN) or "reset" (RST)
    expired,  \* sessions whose __timeout_ms has passed
    worker,   \* state of each child process
    pipe      \* messages in its output pipe

loopVars  == <<srv, phase, evq>>
tableVars == <<kind, mask, sessions, files, cgiFds, cgiPids>>
heapVars  == <<live, ctx>>
envVars   == <<backlog, inbox, peer, expired, worker, pipe>>
vars      == <<loopVars, tableVars, heapVars, envVars>>

-----------------------------------------------------------------------------
(* Types *)

Kind     == {"free", "listen", "conn", "file", "cgiIn", "cgiOut",
             \* never closed: by accept, by a listing, by a finished worker
             "leaked", "dir", "ended"}
PollBit  == {"READ", "WRITE", "ERROR", "CLOSE", "NOT_OPEN"}
Owner    == {"listener", "session", "file", "cgi", "none"}
Event    == [own : Owner, ev : PollBit \union {"NONE"},
             fd : Fd \union {Nil}, ss : Session \union {Nil}]
Context  == [conn : Fd \union {Nil}, server : BOOLEAN, v10 : BOOLEAN, close : BOOLEAN,
             part : BOOLEAN, buf : Nat, owed : Int,
             file : Fd \union {Nil}, closed : BOOLEAN,
             cgi : Pid \union {Nil, Dangling}]
NoContext == [conn |-> Nil, server |-> FALSE, v10 |-> FALSE, close |-> FALSE,
              part |-> FALSE, buf |-> 0, owed |-> 0, file |-> Nil, closed |-> TRUE, cgi |-> Nil]

Init ==
    /\ srv = "up" /\ phase = "drain" /\ evq = <<>>
    /\ kind = [f \in Fd |-> IF f \in Listeners THEN "listen" ELSE "free"]
    /\ mask = [f \in Fd |-> IF f \in Listeners THEN {"READ"} ELSE {}]
    /\ sessions = [f \in Fd |-> Nil]
    /\ files = [f \in Fd |-> Nil]
    /\ cgiFds = [f \in Fd |-> Nil]
    /\ cgiPids = [p \in Pid |-> Nil]
    /\ live = {} /\ ctx = [s \in Session |-> NoContext]
    /\ backlog = 0
    /\ inbox = [f \in Fd |-> 0]
    /\ peer = [f \in Fd |-> "open"] /\ expired = {}
    /\ worker = [p \in Pid |-> "none"]
    /\ pipe = [p \in Pid |-> 0]

-----------------------------------------------------------------------------
(* Descriptors: open, pipe and accept return the lowest free number *)

FreeFds(k)     == {f \in Fd : k[f] = "free"}
IsLowest(A, k) == /\ A \subseteq FreeFds(k)
                  /\ \A f \in FreeFds(k) \ A, g \in A : g < f

(* A function that is v on S and as before elsewhere *)
Put(fun, S, v) == [x \in DOMAIN fun |-> IF x \in S THEN v ELSE fun[x]]

(***************************************************************************)
(* The ends of the handlers.  c is the session's context as the handler    *)
(* leaves it; k, m and fl are kind, mask and files as it leaves them.      *)
(***************************************************************************)
ForgetToArm(s, c, k, m, fl) ==                                 \* mutant
    /\ ctx' = [ctx EXCEPT ![s] = [c EXCEPT !.close = @ \/ c.v10,
                                           !.buf = @ + 1, !.owed = @ - 1]]
    /\ mask' = m /\ kind' = k /\ files' = fl

OnHttpResponse(s, c, k, m, fl) ==
    /\ ctx' = [ctx EXCEPT ![s] = [c EXCEPT !.close = @ \/ c.v10,
                                           !.buf = @ + 1, !.owed = @ - 1]]
    /\ mask' = [m EXCEPT ![c.conn] = @ \union {"WRITE"}]
    /\ kind' = k /\ files' = fl

ForgetToPoll(s, c, k, m, fl) ==                                \* mutant
    \E f \in Fd :
        /\ IsLowest({f}, k)
        /\ ctx' = [ctx EXCEPT ![s] = [c EXCEPT !.file = f, !.closed = FALSE]]
        /\ files' = [fl EXCEPT ![f] = s]
        /\ kind' = [k EXCEPT ![f] = "file"]
        /\ mask' = m

SendStaticFileResponse(s, c, k, m, fl) ==
    \E f \in Fd :
        /\ IsLowest({f}, k)
        /\ ctx' = [ctx EXCEPT ![s] = [c EXCEPT !.file = f, !.closed = FALSE]]
        /\ files' = [fl EXCEPT ![f] = s]
        /\ kind' = [k EXCEPT ![f] = "file"]
        /\ mask' = [m EXCEPT ![f] = {"READ"}]

\* The response is also made when the page has been sent: no return.
AnswerTwice(s, c, k, m, fl, page) ==                           \* mutant
    IF c.server /\ page /\ FreeFds(k) # {}
    THEN SendStaticFileResponse(s, [c EXCEPT !.buf = @ + 1, !.owed = @ - 1], k,
                                [m EXCEPT ![c.conn] = @ \union {"WRITE"}], fl)
    ELSE OnHttpResponse(s, c, k, m, fl)

\* page: is there a page for the code that opens?
OnHttpError(s, c, k, m, fl, page) ==
    IF c.server /\ page /\ FreeFds(k) # {}
    THEN SendStaticFileResponse(s, c, k, m, fl)
    ELSE OnHttpResponse(s, c, k, m, fl)

\* What RemoveStaticFileCtx closes when the sessions of S are deleted.
NoFile(S)     == {}                                            \* mutant
OpenFiles(S)  == {ctx[s].file : s \in {t \in S : ~ctx[t].closed}}

\* __DeleteSessionCtx of every session of S
DeleteSessionCtx(S) ==
    LET conns  == {ctx[s].conn : s \in S}
        closed == conns \union OpenFiles(S)
    IN  /\ mask' = Put(mask, closed, {})
        /\ kind' = Put(kind, closed, "free")
        /\ sessions' = Put(sessions, conns, Nil)
        /\ files' = Put(files, OpenFiles(S), Nil)
        /\ live' = live \ S
        /\ ctx' = Put(ctx, S, NoContext)
        /\ inbox' = Put(inbox, conns, 0)
        /\ peer' = Put(peer, conns, "open")
        /\ expired' = expired \ S
        /\ UNCHANGED <<cgiFds, cgiPids, backlog, worker, pipe>>

\* An exception, or an access to what does not exist: no more steps.
Crash(why) == srv' = why /\ UNCHANGED <<tableVars, heapVars, envVars>>

-----------------------------------------------------------------------------
(* Listener events *)

\* accept is called with an uninitialised address length: it may refuse the
\* length (the connection is lost) or leave the family unset (the descriptor
\* is returned by no one).  Without a free descriptor it fails and the
\* connection keeps waiting.
OnListenerAccept ==
    /\ srv' = srv
    /\ \/ \E f \in Fd, s \in Session \ live, v \in Garbage :
            /\ backlog > 0
            /\ IsLowest({f}, kind)
            /\ backlog' = backlog - 1
            /\ kind' = [kind EXCEPT ![f] = "conn"]
            /\ mask' = [mask EXCEPT ![f] = {"READ"}]
            /\ sessions' = [sessions EXCEPT ![f] = s]
            /\ live' = live \union {s}
            /\ ctx' = [ctx EXCEPT ![s] = [NoContext EXCEPT !.conn = f, !.v10 = v]]
            /\ UNCHANGED <<files, cgiFds, cgiPids, inbox, peer, expired, worker, pipe>>
       \/ /\ backlog > 0 /\ FreeFds(kind) # {}
          /\ backlog' = backlog - 1
          /\ UNCHANGED <<tableVars, heapVars, inbox, peer, expired, worker, pipe>>
       \/ \E f \in Fd :
            /\ backlog > 0
            /\ IsLowest({f}, kind)
            /\ Cardinality({g \in Fd : kind[g] \in {"leaked", "dir"}}) < Leaks
            /\ backlog' = backlog - 1
            /\ kind' = [kind EXCEPT ![f] = "leaked"]
            /\ UNCHANGED <<mask, sessions, files, cgiFds, cgiPids, heapVars,
                           inbox, peer, expired, worker, pipe>>
       \/ /\ FreeFds(kind) = {}
          /\ UNCHANGED <<tableVars, heapVars, envVars>>

-----------------------------------------------------------------------------
(* Requests *)

\* Four descriptors are needed while both pipes are open; two stay, and are
\* never closed.
HandleCgiRequest(s, c, body, page) ==
    \/ \E a, i, o, z \in FreeFds(kind), p \in Pid :
          /\ a < i /\ i < o /\ o < z /\ IsLowest({a, i, o, z}, kind)
          /\ worker[p] = "none"
          /\ cgiPids' = [cgiPids EXCEPT ![p] = [in |-> i, out |-> o, body |-> body]]
          /\ cgiFds' = [cgiFds EXCEPT ![i] = s, ![o] = s]
          /\ kind' = [kind EXCEPT ![i] = "cgiIn", ![o] = "cgiOut"]
          /\ mask' = [mask EXCEPT ![i] = IF body THEN {"WRITE"} ELSE {},
                                  ![o] = {"READ"}]
          /\ ctx' = [ctx EXCEPT ![s] = [c EXCEPT !.cgi = p]]
          /\ worker' = [worker EXCEPT ![p] = "run"]
          /\ pipe' = [pipe EXCEPT ![p] = 0]
          /\ files' = files
    \/ /\ \/ Cardinality(FreeFds(kind)) < 4
          \/ \A p \in Pid : worker[p] # "none"
       /\ OnHttpError(s, c, kind, mask, files, page)
       /\ UNCHANGED <<cgiFds, cgiPids, worker, pipe>>

\* The directory stays open.  Without a descriptor for it the answer is 500.
SendDirectoryListing(s, c, page) ==
    \/ \E f \in Fd :
          /\ IsLowest({f}, kind)
          /\ OnHttpResponse(s, c, [kind EXCEPT ![f] = "dir"], mask, files)
    \/ /\ FreeFds(kind) = {}
       /\ OnHttpError(s, c, kind, mask, files, page)

HandleRequest(s, c, q) ==
    LET a == OnHttpRequest(q.scenario)
        d == [c EXCEPT !.v10 = q.v10, !.server = Resolved(q.scenario)]
        page == q.scenario.errpage
    IN  \/ /\ a.do = "respond" /\ a.effect # "opendir"
           /\ OnHttpResponse(s, d, kind, mask, files)
           /\ UNCHANGED <<cgiFds, cgiPids, worker, pipe>>
        \/ /\ a.effect = "opendir"
           /\ SendDirectoryListing(s, d, page)
           /\ UNCHANGED <<cgiFds, cgiPids, worker, pipe>>
        \/ /\ a.do = "error" \/ (a.do = "file" /\ FreeFds(kind) = {})
           /\ OnHttpError(s, d, kind, mask, files, page)
           /\ UNCHANGED <<cgiFds, cgiPids, worker, pipe>>
        \/ /\ a.do = "file"
           /\ SendStaticFileResponse(s, d, kind, mask, files)
           /\ UNCHANGED <<cgiFds, cgiPids, worker, pipe>>
        \/ /\ a.do = "cgi"
           /\ HandleCgiRequest(s, d, q.body, page)

-----------------------------------------------------------------------------
(* Session events *)

\* Reading takes some of what has arrived and drops what follows the first
\* complete message (RequestReader::Reset).  Every read forgets the virtual
\* server and the CGI worker of the session.  A read that fails (the peer has
\* reset the connection) gives 10000 NUL bytes, which a fresh reader only
\* buffers and which may complete a message that had begun.
OnSessionRead(s) ==
    LET f == ctx[s].conn
        c == [ctx[s] EXCEPT !.server = FALSE, !.cgi = Nil, !.part = TRUE]
        got == [c EXCEPT !.owed = @ + 1, !.part = FALSE]
    IN  \/ /\ inbox[f] = 0 /\ peer[f] = "shut"
           /\ DeleteSessionCtx({s}) /\ srv' = srv
        \/ /\ \/ \E n \in 1..inbox[f] : inbox' = [inbox EXCEPT ![f] = @ - n]
              \/ inbox[f] = 0 /\ peer[f] = "reset" /\ inbox' = inbox
           /\ expired' = expired \ {s}
           /\ \/ /\ ctx' = [ctx EXCEPT ![s] = c]           \* not complete yet
                 /\ UNCHANGED <<kind, mask, files, cgiFds, cgiPids, worker, pipe>>
              \/ /\ inbox[f] > 0 \/ ctx[s].part
                 /\ \/ /\ OnHttpError(s, got, kind, mask, files, FALSE)   \* 400
                       /\ UNCHANGED <<cgiFds, cgiPids, worker, pipe>>
                    \/ \E q \in Requests : HandleRequest(s, got, q)
           /\ UNCHANGED <<srv, sessions, live, backlog, peer>>

\* How many of the buffered responses a write completes.
CountTwice(buf)  == 0..(buf + 1)                               \* mutant
Transmitted(buf) == 0..buf

\* One write sends all of what is buffered, or part of it.  A failed write
\* makes substr throw, and main exits; one that had to wait may have sent
\* something before the reset.
OnSessionWrite(s) ==
    LET c == ctx[s] IN
    \/ /\ c.buf = 0 /\ ~c.close
       /\ mask' = [mask EXCEPT ![c.conn] = @ \ {"WRITE"}]
       /\ expired' = expired \ {s}
       /\ UNCHANGED <<srv, kind, sessions, files, cgiFds, cgiPids, heapVars,
                      backlog, inbox, peer, worker, pipe>>
    \/ /\ c.buf = 0 /\ c.close
       /\ DeleteSessionCtx({s}) /\ srv' = srv
    \/ /\ c.buf > 0 /\ peer[c.conn] = "reset"
       /\ Crash("write failed")
    \/ /\ c.buf > 0 /\ (peer[c.conn] # "reset" \/ phase = "blocked")
       /\ \E n \in Transmitted(c.buf) : ctx' = [ctx EXCEPT ![s].buf = @ - n]
       /\ expired' = expired \ {s}
       /\ UNCHANGED <<srv, tableVars, live, backlog, inbox, peer, worker, pipe>>

CloseOnly(s) ==                                                \* mutant
    /\ mask' = [mask EXCEPT ![ctx[s].conn] = {}]
    /\ kind' = [kind EXCEPT ![ctx[s].conn] = "free"]
    /\ sessions' = [sessions EXCEPT ![ctx[s].conn] = Nil]
    /\ UNCHANGED <<srv, files, cgiFds, cgiPids, heapVars, envVars>>

OnSessionHup(s) == DeleteSessionCtx({s}) /\ srv' = srv

-----------------------------------------------------------------------------
(* Static file events.  They read the file the session links to now. *)

\* The rest of RemoveStaticFileCtx is in the arguments of the response.
Closed(c, fun, v) == IF c.closed THEN fun ELSE [fun EXCEPT ![c.file] = v]

OnStaticFileReadEnd(s) ==
    LET c == ctx[s] IN
    OnHttpResponse(s, [c EXCEPT !.closed = TRUE],
                   Closed(c, kind, "free"), Closed(c, mask, {}), Closed(c, files, Nil))

OnStaticFileReadError(s) ==
    LET c == ctx[s] IN
    \E page \in BOOLEAN :
        OnHttpError(s, [c EXCEPT !.closed = TRUE], Closed(c, kind, "free"),
                    Closed(c, mask, {}), Closed(c, files, Nil), page)

StaticFileEvent(s, ev) ==
    \/ /\ ctx[s].closed /\ ev = "READ"
       /\ Crash("undefined")
    \/ /\ ~ctx[s].closed /\ ev = "READ"                  \* a part of the file
       /\ UNCHANGED <<srv, tableVars, heapVars, envVars>>
    \/ /\ \/ ~ctx[s].closed /\ ev = "READ" /\ OnStaticFileReadEnd(s)
          \/ ev = "ERROR" /\ OnStaticFileReadError(s)
       /\ UNCHANGED <<srv, sessions, cgiFds, cgiPids, live, envVars>>

-----------------------------------------------------------------------------
(* CGI events.  They work on the worker the session links to now. *)

Stop(fun, f, v) == [fun EXCEPT ![f] = v]
Kill(p) == worker' = [worker EXCEPT ![p] = IF @ = "run" THEN "killed" ELSE @]

OnCgiResponse(s, p) ==
    LET e == cgiPids[p] IN
    /\ OnHttpResponse(s, ctx[s], kind, Stop(mask, e.out, {}), files)
    /\ cgiFds' = Stop(cgiFds, e.out, Nil)
    /\ worker' = worker

OnCgiError(s, p) ==
    LET e == cgiPids[p] IN
    /\ \E page \in BOOLEAN :
          OnHttpError(s, ctx[s], kind, Stop(Stop(mask, e.in, {}), e.out, {}),
                      files, page)
    /\ cgiFds' = Stop(Stop(cgiFds, e.in, Nil), e.out, Nil)
    /\ Kill(p)

\* EndRead, then whatever the output read so far amounts to; what is still
\* in the pipe is never read.
OnCgiHup(s, p) ==
    /\ OnCgiResponse(s, p) \/ OnCgiError(s, p)
    /\ UNCHANGED <<cgiPids, pipe>>

OnCgiOutput(s, p) ==
    /\ \/ \E n \in 1..pipe[p] : pipe' = [pipe EXCEPT ![p] = @ - n]
       \/ pipe[p] = 0 /\ worker[p] = "zombie" /\ pipe' = pipe
    /\ \/ UNCHANGED <<kind, mask, files, cgiFds, ctx, worker>>     \* more to come
       \/ OnCgiResponse(s, p)
       \/ OnCgiError(s, p)
    /\ cgiPids' = cgiPids

\* A write that had to wait may have passed something on before the exit.
OnCgiInput(s, p) ==
    /\ cgiPids[p].body => worker[p] # "zombie" \/ phase = "blocked"
    /\ IF cgiPids[p].body
       THEN /\ \E b \in BOOLEAN : cgiPids' = [cgiPids EXCEPT ![p].body = b]
            /\ UNCHANGED <<mask, cgiFds>>
       ELSE /\ mask' = Stop(mask, cgiPids[p].in, {})
            /\ cgiFds' = Stop(cgiFds, cgiPids[p].in, Nil)
            /\ cgiPids' = cgiPids
    /\ UNCHANGED <<kind, files, ctx, worker, pipe>>

CgiEvent(s, ev) ==
    LET p == ctx[s].cgi IN
    \/ /\ p \notin Pid
       /\ Crash("undefined")
    \/ /\ p \in Pid /\ ev = "WRITE"
       /\ cgiPids[p].body /\ worker[p] = "zombie"
       /\ Crash("write failed")
    \/ /\ p \in Pid
       /\ \/ ev = "READ"  /\ OnCgiOutput(s, p)
          \/ ev = "WRITE" /\ OnCgiInput(s, p)
          \/ ev = "ERROR" /\ OnCgiError(s, p) /\ UNCHANGED <<cgiPids, pipe>>
          \/ ev = "CLOSE" /\ OnCgiHup(s, p)
       /\ UNCHANGED <<srv, sessions, live, backlog, inbox, peer, expired>>

-----------------------------------------------------------------------------
(* Poll: what the kernel may report for a registered descriptor *)

Serves(f) == \E p \in Pid : /\ worker[p] \in {"run", "killed"}
                            /\ cgiPids[p] # Nil
                            /\ f \in {cgiPids[p].in, cgiPids[p].out}
HasOutput(f) == \E p \in Pid : cgiPids[p] # Nil /\ cgiPids[p].out = f /\ pipe[p] > 0

When(cond, S) == IF cond THEN S ELSE {}

\* The sets of events the kernel may report; there may be room to write or
\* not.  A regular file can always be read; a special one may have nothing, an
\* error or a hang-up to report.
Revents(f) ==
    CASE kind[f] = "listen" -> {When(backlog > 0, {"READ"})}
      [] kind[f] = "conn"   ->
            LET must == When(inbox[f] > 0 \/ peer[f] # "open", {"READ"})
                        \union When(peer[f] = "reset", {"ERROR", "CLOSE"})
            IN  {must, must \union {"WRITE"}}
      [] kind[f] = "file"   -> IF SpecialFiles THEN SUBSET {"READ", "ERROR", "CLOSE"}
                               ELSE {{"READ"}}
      [] kind[f] = "cgiIn"  -> IF Serves(f) THEN {{}, {"WRITE"}}
                               ELSE {{"ERROR"}, {"WRITE", "ERROR"}}
      [] kind[f] = "cgiOut" -> {When(HasOutput(f), {"READ"})
                                \union When(~Serves(f), {"CLOSE"})}
      [] OTHER              -> {{"NOT_OPEN"}}

Reported(f) == {r \intersect (mask[f] \union {"ERROR", "CLOSE", "NOT_OPEN"}) :
                    r \in Revents(f)}

IgnoreClose(r) ==                                              \* mutant
    IF "ERROR" \in r THEN "ERROR"
    ELSE IF "WRITE" \in r THEN "WRITE"
    ELSE IF "READ" \in r THEN "READ"
    ELSE "NONE"

OneBitOnly(r) ==                                               \* mutant
    IF r \in {{"ERROR"}, {"CLOSE"}, {"WRITE"}, {"READ"}}
    THEN CHOOSE e \in r : TRUE ELSE "NONE"

MostWantedPollEvent(r) ==
    IF "ERROR" \in r THEN "ERROR"
    ELSE IF "CLOSE" \in r THEN "CLOSE"
    ELSE IF "WRITE" \in r THEN "WRITE"
    ELSE IF "READ" \in r THEN "READ"
    ELSE "NONE"

\* The first map that knows the descriptor makes the event; an event of no
\* owner is a DebugEvent, which does nothing.
SwitchEventSpawners(ev, f) ==
    LET E(own, ss) == [own |-> own, ev |-> ev, fd |-> f, ss |-> ss] IN
    IF f \in Listeners
    THEN E(IF ev = "READ" THEN "listener" ELSE "none", Nil)
    ELSE IF sessions[f] # Nil THEN E("session", sessions[f])
    ELSE IF files[f] # Nil    THEN E("file", files[f])
    ELSE IF cgiFds[f] # Nil   THEN E("cgi", cgiFds[f])
    ELSE E("none", Nil)

\* The spawners throw on an event they do not know.
Supported(e) == /\ e.own \in {"session", "cgi"} => e.ev # "NONE"
                /\ e.own = "file" => e.ev \in {"READ", "ERROR"}

-----------------------------------------------------------------------------
(* The event loop *)

HandleListener == evq[1].own = "listener" /\ OnListenerAccept

HandleSession ==
    LET s == evq[1].ss
        ev == evq[1].ev
    IN  /\ evq[1].own = "session"
        /\ \/ s \notin live /\ Crash("undefined")
           \/ /\ s \in live
              /\ \/ ev = "READ" /\ OnSessionRead(s)
                 \/ ev = "WRITE" /\ OnSessionWrite(s)
                 \/ ev \in {"ERROR", "CLOSE"} /\ OnSessionHup(s)

HandleFile ==
    LET s == evq[1].ss IN
    /\ evq[1].own = "file"
    /\ \/ s \notin live /\ Crash("undefined")
       \/ s \in live /\ StaticFileEvent(s, evq[1].ev)

HandleCgi ==
    LET s == evq[1].ss IN
    /\ evq[1].own = "cgi"
    /\ \/ s \notin live /\ Crash("undefined")
       \/ s \in live /\ CgiEvent(s, evq[1].ev)

HandleDebug == /\ evq[1].own = "none"
               /\ UNCHANGED <<srv, tableVars, heapVars, envVars>>

HandleEvent == /\ evq # <<>> /\ evq' = Tail(evq) /\ phase' = "drain"
               /\ \/ HandleListener
                  \/ HandleSession
                  \/ HandleFile
                  \/ HandleCgi
                  \/ HandleDebug

Handle == srv = "up" /\ phase = "drain" /\ HandleEvent

\* Can the read or write of the event's handler wait?  Poll promises a writer
\* room for something, not for 10000 bytes; and a handler of one worker's pipe
\* works on that of the worker its session links to now.
MayBlock(e) ==
    /\ e.ss \in live
    /\ \/ /\ e.own = "session" /\ e.ev = "WRITE"
          /\ ctx[e.ss].buf > 0 /\ peer[ctx[e.ss].conn] # "reset"
       \/ /\ e.own = "file" /\ e.ev = "READ"
          /\ SpecialFiles /\ ~ctx[e.ss].closed
       \/ /\ e.own = "cgi"
          /\ \E p \in Pid :
                /\ p = ctx[e.ss].cgi /\ worker[p] # "zombie"
                /\ \/ e.ev = "WRITE" /\ cgiPids[p].body
                   \/ e.ev = "READ" /\ pipe[p] = 0

Block == /\ srv = "up" /\ phase = "drain" /\ evq # <<>> /\ MayBlock(evq[1])
         /\ phase' = "blocked"
         /\ UNCHANGED <<srv, evq, tableVars, heapVars, envVars>>

\* What __StopCgiRead and __StopCgiWrite take out of the maps.
OutputOnly(P) == {cgiPids[p].out : p \in P}                    \* mutant
Ends(P)       == {cgiPids[p].in : p \in P} \union {cgiPids[p].out : p \in P}

\* The workers that waitpid finds exited.
Exited == {p \in Pid : cgiPids[p] # Nil /\ worker[p] = "zombie"}

\* Every exited worker is reaped; its descriptors stay open.
EvaluateCgiWorkers ==
    LET dead == Exited
    IN  /\ srv = "up" /\ phase = "drain" /\ evq = <<>>
        /\ phase' = "timeout"
        /\ mask' = Put(mask, Ends(dead), {})
        /\ cgiFds' = Put(cgiFds, Ends(dead), Nil)
        /\ kind' = Put(kind, Ends(dead), "ended")
        /\ cgiPids' = Put(cgiPids, dead, Nil)
        /\ worker' = Put(worker, dead, "none")
        /\ pipe' = Put(pipe, dead, 0)
        /\ ctx' = [s \in Session |-> IF ctx[s].cgi \in dead
                                     THEN [ctx[s] EXCEPT !.cgi = Dangling] ELSE ctx[s]]
        /\ UNCHANGED <<srv, evq, sessions, files, live, backlog, inbox, peer, expired>>

\* The hooks run in the order they were added: the timeout hook after poll.
NotSending == {s \in expired : ctx[s].closed}                  \* mutant
TimedOut   == expired

TimeoutsAfterPoll ==                                           \* mutant
    /\ srv = "up"
    /\ \/ /\ phase = "timeout" /\ phase' = "poll"
          /\ UNCHANGED <<srv, evq, tableVars, heapVars, envVars>>
       \/ /\ phase = "drain" /\ evq # <<>> /\ phase' = phase
          /\ DeleteSessionCtx(TimedOut)
          /\ UNCHANGED <<srv, evq>>

EvaluateIoTimeouts ==
    /\ srv = "up" /\ phase = "timeout" /\ phase' = "poll"
    /\ DeleteSessionCtx(TimedOut)
    /\ UNCHANGED <<srv, evq>>

\* One descriptor with something to report, or the poll times out.
EvaluateIoEvents ==
    /\ srv = "up" /\ phase = "poll"
    /\ \/ \E f \in {g \in Fd : mask[g] # {}} : \E r \in Reported(f) \ {{}} :
            LET e == SwitchEventSpawners(MostWantedPollEvent(r), f) IN
            /\ IF Supported(e)
               THEN evq' = Append(evq, e) /\ phase' = "drain" /\ srv' = srv
               ELSE srv' = "unsupported" /\ UNCHANGED <<evq, phase>>
       \/ /\ \A f \in Fd : mask[f] # {} => {} \in Reported(f)
          /\ evq' = Append(evq, [own |-> "none", ev |-> "NONE", fd |-> Nil, ss |-> Nil])
          /\ phase' = "drain" /\ srv' = srv
    /\ UNCHANGED <<tableVars, heapVars, envVars>>

Loop == Handle \/ Block \/ EvaluateCgiWorkers \/ EvaluateIoTimeouts \/ EvaluateIoEvents

-----------------------------------------------------------------------------
(* Clients, workers and the clock *)

Others == <<srv, phase, evq, tableVars, heapVars>>

\* Bound: no more connections than blocks of Session, but for those that come
\* while accept finds no descriptor.
Connect == /\ phase = "poll"
           /\ backlog < Waiting
           /\ backlog + Cardinality(live) < Cardinality(Session)
                  + (IF FreeFds(kind) = {} THEN Surplus ELSE 0)
           /\ backlog' = backlog + 1
           /\ UNCHANGED <<Others, inbox, peer, expired, worker, pipe>>

Positive(n) == IF n > 0 THEN n ELSE 0

\* Without pipelining a client sends only when nothing is in flight.
Send(s) ==
    LET f == ctx[s].conn
        inFlight == inbox[f] + Positive(ctx[s].owed) + ctx[s].buf
    IN  /\ peer[f] = "open"
        /\ inFlight < Outstanding
        /\ Pipelining \/ inFlight = 0
        /\ inbox' = [inbox EXCEPT ![f] = @ + 1]
        /\ UNCHANGED <<Others, backlog, peer, expired, worker, pipe>>

Shutdown(s) ==
    /\ peer[ctx[s].conn] = "open"
    /\ peer' = [peer EXCEPT ![ctx[s].conn] = "shut"]
    /\ UNCHANGED <<Others, backlog, inbox, expired, worker, pipe>>

Reset(s) ==
    /\ peer[ctx[s].conn] # "reset"
    /\ peer' = [peer EXCEPT ![ctx[s].conn] = "reset"]
    /\ UNCHANGED <<Others, backlog, inbox, expired, worker, pipe>>

Lapse(s) ==
    /\ phase = "drain" /\ s \notin expired
    /\ expired' = expired \union {s}
    /\ UNCHANGED <<Others, backlog, inbox, peer, worker, pipe>>

WorkerWrite(p) ==
    /\ worker[p] = "run" /\ pipe[p] < PipeCap
    /\ pipe' = [pipe EXCEPT ![p] = @ + 1]
    /\ UNCHANGED <<Others, backlog, inbox, peer, expired, worker>>

WorkerExit(p) ==
    /\ worker[p] \in {"run", "killed"}
    /\ worker' = [worker EXCEPT ![p] = "zombie"]
    /\ UNCHANGED <<Others, backlog, inbox, peer, expired, pipe>>

\* Will poll or a handler look at connections and pipes before the hooks do?
Seen == phase = "poll" \/ evq # <<>>

\* The other side lets the handler's read or write return: it is the reader or
\* writer, not the server, that decides when, if ever.
Resume == phase = "blocked" /\ HandleEvent

Environment ==
    /\ srv = "up" /\ phase # "timeout"
    /\ \/ Connect
       \/ Resume
       \/ Seen /\ \E s \in live : Send(s) \/ Shutdown(s) \/ Reset(s)
       \/ \E s \in live : Lapse(s)
       \/ Seen /\ \E p \in Pid : WorkerWrite(p)
       \/ \E p \in Pid : WorkerExit(p)

\* The process is gone: nothing more happens.
Stopped == srv # "up" /\ UNCHANGED vars

Next == Loop \/ Environment \/ Stopped

Spec == Init /\ [][Next]_vars

\* The loop goes on as long as it can: poll returns within 1.5 s, waitpid does
\* not block.  It is not fair that a blocked read or write returns.
FairSpec == Spec /\ WF_vars(Loop)

-----------------------------------------------------------------------------
(* Properties *)

\* Every variable has its type; there is at most one queued event.
TypeOK ==
    /\ srv \in {"up", "unsupported", "write failed", "undefined"}
    /\ phase \in {"drain", "blocked", "timeout", "poll"}
    /\ evq \in Seq(Event) /\ Len(evq) <= 1
    /\ kind \in [Fd -> Kind]
    /\ mask \in [Fd -> SUBSET PollBit]
    /\ sessions \in [Fd -> Session \union {Nil}]
    /\ files \in [Fd -> Session \union {Nil}]
    /\ cgiFds \in [Fd -> Session \union {Nil}]
    /\ cgiPids \in [Pid -> Entry \union {Nil}]
    /\ live \in SUBSET Session
    /\ ctx \in [Session -> Context]
    /\ backlog \in Nat
    /\ inbox \in [Fd -> Nat]
    /\ peer \in [Fd -> {"open", "shut", "reset"}]
    /\ expired \in SUBSET Session
    /\ worker \in [Pid -> {"none", "run", "killed", "zombie"}]
    /\ pipe \in [Pid -> Nat]

\* A descriptor that is polled is served by exactly one of the maps, and
\* served the way its map needs: a session can always be read, a file too.
\* A closed descriptor is neither polled nor in a map, so that AddFd never
\* registers a number twice (webserver_poll.cc looks the maps up in order).
PollerMatchesTables ==
    \A f \in Fd :
        /\ mask[f] # {} => \/ f \in Listeners \/ sessions[f] # Nil
                           \/ files[f] # Nil \/ cgiFds[f] # Nil
        /\ sessions[f] # Nil => kind[f] = "conn" /\ "READ" \in mask[f]
        /\ files[f] # Nil => kind[f] = "file" /\ mask[f] = {"READ"}
        /\ cgiFds[f] # Nil => kind[f] \in {"cgiIn", "cgiOut"}
        /\ f \in Listeners => kind[f] = "listen" /\ mask[f] = {"READ"}

\* __sessions_map is exactly the set of allocated sessions, each under the
\* number of its own connection: none is lost, none is freed but reachable.
SessionTableExact ==
    /\ \A s \in live : sessions[ctx[s].conn] = s
    /\ \A f \in Fd : sessions[f] # Nil =>
           sessions[f] \in live /\ ctx[sessions[f]].conn = f

\* The queued event still means what it meant when poll made it: its
\* descriptor is in the same map with the same session.  Were a hook to free
\* a session between poll and Handle, a session event would touch freed memory.
QueuedEventFresh ==
    \A i \in DOMAIN evq :
        LET e == evq[i] IN
        /\ e.own = "session" => sessions[e.fd] = e.ss /\ e.ss \in live
        /\ e.own = "file"    => files[e.fd] = e.ss
        /\ e.own = "cgi"     => cgiFds[e.fd] = e.ss

\* A session with bytes to send, or due to be closed after a 1.0 response, is
\* polled for writing: otherwise its client would wait for ever.
WriteArmed ==
    \A s \in live : ctx[s].buf > 0 \/ ctx[s].close => "WRITE" \in mask[ctx[s].conn]

\* __cgi_pid_map is the set of children not yet reaped, and every entry of
\* __cgi_fd_map is an end of the pipes of one of them.
CgiTableExact ==
    /\ \A p \in Pid : cgiPids[p] # Nil <=> worker[p] # "none"
    /\ \A f \in Fd : cgiFds[f] # Nil =>
           \E p \in Pid : cgiPids[p] # Nil /\ f \in {cgiPids[p].in, cgiPids[p].out}

\* The spawners throw on an event they do not know (webserver_static.cc:106,
\* webserver_cgi.cc:338), and the server exits.  A poll result brings that about
\* only while a file is being sent that may be special, so that it can hang up:
\* no event of a listener, a connection or a worker does.
OnlyFilesUnsupported ==
    srv = "unsupported" => SpecialFiles /\ \E f \in Fd : files[f] # Nil

\* When clients wait for their responses and no request runs a CGI worker,
\* a session owes a response exactly while its static file is open: each
\* request gets one response, neither none nor two.
OneResponsePerRequest ==
    \A s \in live : ctx[s].owed = IF ctx[s].closed THEN 0 ELSE 1

\* ... and an open static file belongs to a live session that will close it.
FilesExact ==
    \A f \in Fd : kind[f] = "file" =>
        \E s \in live : /\ ctx[s].file = f /\ ~ctx[s].closed
                        /\ files[f] = s

\* ... and the server never touches freed memory or a closed descriptor.
NoUndefined == srv # "undefined"

\* ... and each connection is served as ConnectionService promises: a request
\* is taken only when the one before it has been answered and sent, and each
\* response in the buffer belongs to the request taken last.  What a failed
\* read yields (see OnSessionRead) counts as something received.
ServiceState == [s \in Session |->
    IF s \notin live THEN "none"
    ELSE IF ctx[s].owed > 0 THEN "busy"
    ELSE IF ctx[s].buf > 0 THEN "answering"
    ELSE IF inbox[ctx[s].conn] > 0 \/ ctx[s].part THEN "asked" ELSE "idle"]
Service == INSTANCE ConnectionService WITH state <- ServiceState
RefinesService == Service!Spec

\* The comment on SessionFdMap (webserver.h:128) calls its values session_ctx:
\* the values of __cgi_fd_map should be sessions too.
CgiTableLive == \A f \in Fd : cgiFds[f] # Nil => cgiFds[f] \in live

\* No read or write of a handler waits for ever.
CallsReturn == []<>(phase # "blocked")

\* If the handlers' reads and writes return, a session whose deadline has passed
\* is closed, or has been active again.
IdleSessionsClosed ==
    CallsReturn => \A s \in Session : s \in expired ~> s \notin expired \/ srv # "up"
=============================================================================
