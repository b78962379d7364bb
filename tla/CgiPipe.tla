------------------------------- MODULE CgiPipe -------------------------------
(***************************************************************************)
(* One CGI worker and its two pipes, byte by byte                          *)
(* (src/sources/netlib/webserver/webserver_cgi.cc).  HttpServer has the    *)
(* tables and counts messages; here the pipes are bounded, write blocks    *)
(* both sides, read stops at READ_BUF_SZ, and the kernel closes the pipes  *)
(* of a worker that ends before waitpid can see it.                        *)
(*                                                                         *)
(* The server goes round its loop: it handles the event poll chose, reaps  *)
(* the worker if it has exited, and polls.  The session stays, and its     *)
(* client waits for the answer; HttpServer has the sessions that do not.   *)
(***************************************************************************)
EXTENDS Integers, Sequences

CONSTANTS
    InCap, OutCap,  \* bytes the input pipe and the output pipe hold
    Room,           \* free bytes from which poll reports a pipe writable
    Portion,        \* WRITE_BUFF_SZ and READ_BUF_SZ
    Jobs            \* what is asked of the worker and how it goes about it

\* body: length of the request's body.  The worker writes total bytes: head of
\* headers, then a body that size announces (0: no Content-Length); bad: the
\* headers do not parse.  readsFirst: it writes nothing before it has read the
\* body; crashes: it may end at any moment.
Job == [body : Nat, head : Nat \ {0}, size : Nat, total : Nat, bad : BOOLEAN,
        readsFirst : BOOLEAN, crashes : BOOLEAN]

ASSUME PipeAssumption == /\ {InCap, OutCap, Portion, Room} \subseteq Nat \ {0}
                         /\ Room <= InCap
ASSUME JobAssumption  == Jobs \subseteq Job

VARIABLES
    job,
    pc,        \* the server: handling, in "write", at a hook, or "down"
    queued,    \* the event poll made for this worker
    inBuf,     \* CgiEntry::in_buf
    left,      \* bytes of the portion that write has not taken yet
    inPoll, outPoll,  \* is fd_in, is fd_out registered with the poller?
    read,      \* bytes given to the response reader
    answers,   \* the responses made for the request, in order
    inPipe, outPipe,
    worker,
    wrote, todo       \* written by the worker; bytes of the write it is in

serverVars == <<pc, queued, inBuf, left, inPoll, outPoll, read, answers>>
workerVars == <<worker, wrote, todo>>
vars == <<job, serverVars, inPipe, outPipe, workerVars>>

Least(a, b) == IF a < b THEN a ELSE b

\* __HandleCgiRequest
Init == /\ job \in Jobs
        /\ pc = "poll" /\ queued = "NONE"
        /\ inBuf = job.body /\ left = 0
        /\ inPoll = (job.body > 0) /\ outPoll = TRUE
        /\ read = 0 /\ answers = <<>>
        /\ inPipe = 0 /\ outPipe = 0
        /\ worker = "run" /\ wrote = 0 /\ todo = 0

Readers == worker \in {"run", "killed"}   \* does the worker hold its ends?

-----------------------------------------------------------------------------
(* What the reader has made of the first n bytes (see CgiReader) *)

Sized == job.size > 0

AtOnce(n, ended) ==                                            \* mutant
    CASE n < job.head -> "none"
      [] n >= job.head /\ job.bad -> "error"
      [] n >= job.head /\ ~job.bad -> "message"

Outcome(n, ended) ==
    CASE n < job.head -> "none"
      [] n >= job.head /\ job.bad -> "error"
      [] n >= job.head /\ ~job.bad ->
            IF IF Sized THEN n >= job.head + job.size ELSE ended
            THEN "message" ELSE "none"

Answer(n)   == [code |-> "given",
                body |-> IF Sized THEN Least(job.size, n - job.head) ELSE n - job.head]
ServerError == [code |-> "500",   body |-> 0]

-----------------------------------------------------------------------------
(* The handlers *)

KeepReading(n) ==                                              \* mutant
    answers' = Append(answers, Answer(n)) /\ UNCHANGED <<inPoll, outPoll, worker>>

OnCgiResponse(n) ==
    /\ answers' = Append(answers, Answer(n))
    /\ outPoll' = FALSE
    /\ UNCHANGED <<inPoll, worker>>

WithoutKill ==                                                 \* mutant
    /\ answers' = Append(answers, ServerError)
    /\ inPoll' = FALSE /\ outPoll' = FALSE /\ worker' = worker

OnCgiError ==
    /\ answers' = Append(answers, ServerError)
    /\ inPoll' = FALSE /\ outPoll' = FALSE
    /\ worker' = IF worker = "run" THEN "killed" ELSE worker

\* The pipe is not empty: a pipe without writers is a hang-up, not a read.
OnCgiOutput ==
    LET n == read + Least(outPipe, Portion) IN
    /\ queued = "READ"
    /\ read' = n /\ outPipe' = outPipe - Least(outPipe, Portion)
    /\ \/ Outcome(n, FALSE) = "message" /\ OnCgiResponse(n)
       \/ Outcome(n, FALSE) = "error" /\ OnCgiError
       \/ Outcome(n, FALSE) = "none" /\ UNCHANGED <<answers, inPoll, outPoll, worker>>
    /\ pc' = "reap"
    /\ UNCHANGED <<inBuf, left, inPipe>>

\* EndRead, with what is still in the pipe left there.
OnCgiHup ==
    /\ queued = "CLOSE"
    /\ \/ Outcome(read, TRUE) = "message" /\ OnCgiResponse(read)
       \/ Outcome(read, TRUE) # "message" /\ OnCgiError
    /\ pc' = "reap"
    /\ UNCHANGED <<read, inBuf, left, inPipe, outPipe>>

OnCgiInputError ==
    /\ queued = "ERROR" /\ OnCgiError /\ pc' = "reap"
    /\ UNCHANGED <<read, inBuf, left, inPipe, outPipe>>

CountPortion(bytes) ==                                         \* mutant
    LET n == Least(bytes, InCap - inPipe) IN
    /\ inPipe' = inPipe + n
    /\ left' = bytes - n
    /\ inBuf' = inBuf - bytes
    /\ pc' = IF n = bytes THEN "reap" ELSE "write"

KeepBuffer(bytes) ==                                           \* mutant
    LET n == Least(bytes, InCap - inPipe) IN
    /\ inPipe' = inPipe + n
    /\ left' = bytes - n
    /\ inBuf' = inBuf
    /\ pc' = IF n = bytes THEN "reap" ELSE "write"

\* The write of a portion goes on for as long as the pipe takes something;
\* it returns when all is taken.
Transfer(bytes) ==
    LET n == Least(bytes, InCap - inPipe) IN
    /\ inPipe' = inPipe + n
    /\ left' = bytes - n
    /\ inBuf' = inBuf - n
    /\ pc' = IF n = bytes THEN "reap" ELSE "write"

OnCgiInput ==
    /\ queued = "WRITE"
    /\ \/ inBuf = 0 /\ inPoll' = FALSE /\ pc' = "reap" /\ UNCHANGED <<inBuf, left, inPipe>>
       \/ inBuf > 0 /\ Readers /\ Transfer(Least(inBuf, Portion)) /\ inPoll' = inPoll
       \/ /\ inBuf > 0 /\ ~Readers                \* EPIPE: substr(-1) throws
          /\ pc' = "down" /\ UNCHANGED <<inBuf, left, inPoll, inPipe>>
    /\ UNCHANGED <<outPoll, read, answers, outPipe, worker>>

Handle == /\ pc = "handle" /\ queued' = "NONE"
          /\ OnCgiOutput \/ OnCgiHup \/ OnCgiInputError \/ OnCgiInput
          /\ UNCHANGED <<job, wrote, todo>>

\* In write: there is room again, or no reader is left.  Then write returns
\* what it has taken, which is never nothing.
Write == /\ pc = "write"
         /\ \/ Readers /\ inPipe < InCap /\ Transfer(left)
            \/ /\ ~Readers
               /\ pc' = "reap" /\ left' = 0 /\ UNCHANGED <<inBuf, inPipe>>
         /\ UNCHANGED <<job, queued, inPoll, outPoll, read, answers, outPipe, workerVars>>

\* waitpid: a worker that has exited is forgotten, with what it wrote.
EvaluateCgiWorkers ==
    /\ pc = "reap" /\ pc' = "poll"
    /\ IF worker = "zombie"
       THEN inPoll' = FALSE /\ outPoll' = FALSE /\ worker' = "reaped"
       ELSE UNCHANGED <<inPoll, outPoll, worker>>
    /\ UNCHANGED <<job, queued, inBuf, left, read, answers, inPipe, outPipe, wrote, todo>>

\* The most wanted event of each end; poll chooses an end that has one.
InEvents  == IF ~Readers THEN {"ERROR"}
             ELSE IF InCap - inPipe >= Room THEN {"WRITE"} ELSE {}
OutEvents == IF ~Readers THEN {"CLOSE"} ELSE IF outPipe > 0 THEN {"READ"} ELSE {}

EvaluateIoEvents ==
    LET ready == (IF inPoll THEN InEvents ELSE {}) \union (IF outPoll THEN OutEvents ELSE {})
    IN  /\ pc = "poll"
        /\ \/ ready = {} /\ pc' = "reap" /\ queued' = "NONE"
           \/ \E ev \in ready : queued' = ev /\ pc' = "handle"
        /\ UNCHANGED <<job, inBuf, left, inPoll, outPoll, read, answers,
                       inPipe, outPipe, workerVars>>

Server == Handle \/ Write \/ EvaluateCgiWorkers \/ EvaluateIoEvents

-----------------------------------------------------------------------------
(* The worker *)

Consumed == job.body - inBuf - inPipe

WorkerRead ==
    /\ worker = "run" /\ todo = 0 /\ inPipe > 0
    /\ \E n \in 1..inPipe : inPipe' = inPipe - n
    /\ UNCHANGED <<job, serverVars, outPipe, workerVars>>

WorkerWrites ==
    /\ worker = "run" /\ todo = 0
    /\ job.readsFirst => Consumed = job.body
    /\ \E n \in 1..(job.total - wrote) : todo' = n
    /\ UNCHANGED <<job, serverVars, inPipe, outPipe, worker, wrote>>

\* In write: the output pipe takes what it has room for.
WorkerWrite ==
    LET n == Least(todo, OutCap - outPipe) IN
    /\ worker = "run" /\ n > 0
    /\ outPipe' = outPipe + n /\ wrote' = wrote + n /\ todo' = todo - n
    /\ UNCHANGED <<job, serverVars, inPipe, worker>>

\* The worker ends, by itself or killed: first its descriptors are closed,
\* then waitpid can see it.
WorkerClose ==
    /\ \/ worker = "killed"
       \/ worker = "run" /\ todo = 0 /\ (wrote = job.total \/ job.crashes)
    /\ worker' = "closed"
    /\ UNCHANGED <<job, serverVars, inPipe, outPipe, wrote, todo>>

WorkerExit == /\ worker = "closed" /\ worker' = "zombie"
              /\ UNCHANGED <<job, serverVars, inPipe, outPipe, wrote, todo>>

Worker == WorkerRead \/ WorkerWrites \/ WorkerWrite \/ WorkerClose \/ WorkerExit

Next == Server \/ Worker

Spec == Init /\ [][Next]_vars

\* The server never sleeps but in write and in poll, which times out; a worker
\* that can do something does.
FairSpec == Spec /\ WF_vars(Server) /\ WF_vars(Worker)

-----------------------------------------------------------------------------
TypeOK ==
    /\ job \in Jobs
    /\ pc \in {"handle", "write", "reap", "poll", "down"}
    /\ queued \in {"NONE", "READ", "CLOSE", "WRITE", "ERROR"}
    /\ {inBuf, left, read, inPipe, outPipe, wrote, todo} \subseteq Nat
    /\ inPoll \in BOOLEAN /\ outPoll \in BOOLEAN
    /\ answers \in Seq([code : {"given", "500"}, body : Nat])
    /\ worker \in {"run", "killed", "closed", "zombie", "reaped"}

\* A request gets one answer, or a second, a 500, when the worker ended after
\* its response while the input pipe was still polled (its POLLERR goes to
\* __OnCgiError whatever was answered).  A request without a body, whose input
\* pipe is never polled, gets one answer at most.
OneAnswer ==
    /\ Len(answers) <= IF job.body = 0 THEN 1 ELSE 2
    /\ Len(answers) = 2 => /\ answers[1].code = "given" /\ answers[2].code = "500"
                           /\ ~Readers

\* An answer is what the worker meant, unless the worker ended with some of it
\* unread: all that a Content-Length announced is there, an answer without one
\* misses only what had not been read at the hang-up, a 500 comes for headers
\* that do not parse or from a worker that ended, and a worker that is reaped
\* without an answer had not had its whole answer read or had not announced it.
AnswerExact ==
    /\ \A k \in DOMAIN answers :
         LET a == answers[k] IN
         /\ a.code = "given" =>
               /\ ~job.bad
               /\ \/ a.body = (IF Sized THEN job.size ELSE job.total - job.head)
                  \/ ~Sized /\ a.body + job.head + outPipe = wrote /\ ~Readers
         /\ a.code = "500" => job.bad \/ ~Readers
    /\ worker = "reaped" /\ answers = <<>> =>
           ~Sized \/ outPipe > 0 \/ wrote < job.head + job.size

\* Server and worker wait for each other, each in a write to a full pipe.
MutualWait == /\ pc = "write" /\ inPipe = InCap
              /\ worker = "run" /\ todo > 0 /\ outPipe = OutCap

\* The only workers that can stop the server so are those that write before
\* they have read a body that the input pipe does not hold, and write more
\* than the output pipe holds.
NoMutualWait ==
    MutualWait => /\ ~job.readsFirst
                  /\ job.body > InCap /\ job.total > OutCap

\* A worker that reads its body first, or whose body fits the pipe, and that
\* writes no more than it announced (or announced nothing) ends and is reaped.
\* Another may stay for ever: when the announced bytes are in, nothing reads
\* its output any more, and the output pipe is never closed.
Modest == /\ job.readsFirst \/ job.body <= InCap
          /\ ~Sized \/ job.total <= job.head + job.size

WorkerReaped == Modest ~> worker = "reaped" \/ pc = "down"
=============================================================================
