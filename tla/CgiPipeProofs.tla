---------------------------- MODULE CgiPipeProofs ----------------------------
(* What holds of a CGI worker and its pipes for every capacity and every    *)
(* kind of worker: how many answers its request gets, what is missing from  *)
(* them, and when server and worker wait for each other.                    *)
EXTENDS CgiPipe, TLAPS

\* The bytes: none is lost, and no pipe holds more than it can.
Bytes == /\ inPipe <= InCap /\ outPipe <= OutCap
         /\ inBuf + inPipe <= job.body
         /\ read + outPipe = wrote
         /\ wrote + todo <= job.total
         /\ job.readsFirst /\ todo > 0 => inBuf = 0 /\ inPipe = 0

\* The server: it is inside write while some of a portion is left, and
\* the event it handles is about a pipe that is still polled.
Place == /\ left <= inBuf
         /\ pc = "write" <=> left > 0
         /\ pc = "handle" <=> queued # "NONE"
         /\ queued \in {"READ", "CLOSE"} => outPoll
         /\ queued \in {"WRITE", "ERROR"} => inPoll
         /\ queued \in {"CLOSE", "ERROR"} => ~Readers

\* The answers: the output pipe is polled until the first, the input pipe
\* until a 500.
Answers ==
    /\ inPoll => job.body > 0
    /\ outPoll => answers = <<>>
    /\ inPoll => \/ answers = <<>>
                 \/ Len(answers) = 1 /\ answers[1].code = "given"
    /\ answers = <<>> => Outcome(read, FALSE) = "none"

PipeInv == TypeOK /\ Bytes /\ Place /\ Answers /\ OneAnswer /\ AnswerExact

-----------------------------------------------------------------------------
(* The reader's outcome, and sequences of answers *)

AnswerSet == [code : {"given", "500"}, body : Nat]

LEMMA Outcomes ==
    ASSUME job \in Job, NEW n \in Nat, NEW ended \in BOOLEAN
    PROVE  /\ Outcome(n, ended) \in {"none", "message", "error"}
           /\ Outcome(n, ended) = "message" =>
                /\ n >= job.head /\ ~job.bad
                /\ IF Sized THEN n >= job.head + job.size ELSE ended
           /\ Outcome(n, ended) = "error" => job.bad
           /\ Outcome(n, ended) = "none" => n < job.head + job.size \/ ~Sized
           /\ n = 0 => Outcome(n, ended) = "none"
  BY DEF Job, Outcome, Sized

LEMMA AnswerType ==
    ASSUME job \in Job, NEW n \in Nat, NEW ended \in BOOLEAN, Outcome(n, ended) = "message"
    PROVE  /\ Answer(n) \in AnswerSet /\ Answer(n).code = "given"
           /\ Sized => Answer(n).body = job.size
           /\ ~Sized => Answer(n).body + job.head = n
<1>1. /\ n >= job.head
      /\ Sized => n >= job.head + job.size
  BY Outcomes
<1> QED BY <1>1 DEF Job, Answer, AnswerSet, Least, Sized

LEMMA OneMore ==
    ASSUME NEW q \in Seq(AnswerSet), NEW a \in AnswerSet
    PROVE  /\ Append(q, a) \in Seq(AnswerSet)
           /\ Len(Append(q, a)) = Len(q) + 1
           /\ Append(q, a)[Len(q) + 1] = a
           /\ \A k \in DOMAIN q : Append(q, a)[k] = q[k]
           /\ DOMAIN Append(q, a) = DOMAIN q \union {Len(q) + 1}
           /\ Append(q, a) # <<>>
  OBVIOUS

-----------------------------------------------------------------------------
(* The steps of the server *)

\* The types the steps start from, without the set of answers.
LEMMA PipeTypes ==
    ASSUME TypeOK
    PROVE  /\ job \in Job /\ job.body \in Nat /\ job.head \in Nat \ {0}
           /\ job.size \in Nat /\ job.total \in Nat
           /\ inBuf \in Nat /\ left \in Nat /\ read \in Nat
           /\ inPipe \in Nat /\ outPipe \in Nat /\ wrote \in Nat /\ todo \in Nat
           /\ InCap \in Nat \ {0} /\ OutCap \in Nat \ {0}
           /\ Portion \in Nat \ {0} /\ Room \in Nat \ {0} /\ Room <= InCap
           /\ answers \in Seq(AnswerSet)
  BY JobAssumption, PipeAssumption DEF TypeOK, Job, AnswerSet

LEMMA Facts ==
    ASSUME PipeInv
    PROVE  /\ job \in Job /\ job.body \in Nat /\ job.head \in Nat \ {0}
           /\ job.size \in Nat /\ job.total \in Nat
           /\ inBuf \in Nat /\ left \in Nat /\ read \in Nat
           /\ inPipe \in Nat /\ outPipe \in Nat /\ wrote \in Nat /\ todo \in Nat
           /\ InCap \in Nat \ {0} /\ OutCap \in Nat \ {0}
           /\ Portion \in Nat \ {0} /\ Room \in Nat \ {0} /\ Room <= InCap
           /\ inPipe <= InCap /\ outPipe <= OutCap
           /\ inBuf + inPipe <= job.body
           /\ read + outPipe = wrote
           /\ wrote + todo <= job.total
           /\ job.readsFirst /\ todo > 0 => inBuf = 0 /\ inPipe = 0
           /\ left <= inBuf
  BY PipeTypes DEF PipeInv, Bytes, Place

\* A response: the output pipe is polled no more.
LEMMA ResponseKept ==
    ASSUME PipeInv, outPoll, UNCHANGED <<job, wrote, todo>>,
           NEW n \in Nat, NEW ended \in BOOLEAN, n = read', Outcome(n, ended) = "message",
           OnCgiResponse(n), outPipe' \in Nat, n + outPipe' = wrote,
           ended => ~Readers
    PROVE  /\ answers' \in Seq(AnswerSet) /\ Answers' /\ OneAnswer' /\ AnswerExact'
           /\ UNCHANGED <<inPoll, worker>> /\ outPoll' = FALSE
<1> DEFINE a == Answer(n)
<1>1. /\ answers = <<>> /\ answers' = Append(answers, a) /\ outPoll' = FALSE
      /\ UNCHANGED <<inPoll, worker, job>>
  BY DEF OnCgiResponse, PipeInv, Answers
<1>2. /\ a \in AnswerSet /\ a.code = "given"
      /\ Sized => a.body = job.size
      /\ ~Sized => a.body + job.head = n
  BY PipeTypes, AnswerType DEF PipeInv
<1>3. /\ ~job.bad
      /\ ~Sized => ended
  BY PipeTypes, Outcomes DEF PipeInv
<1> HIDE DEF a
<1>4. answers' = <<a>> /\ answers' \in Seq(AnswerSet)
  BY <1>1, <1>2
<1>5. Answers'
  BY <1>1, <1>2, <1>4 DEF PipeInv, Answers
<1>6. OneAnswer'
  BY <1>1, <1>4, PipeTypes DEF PipeInv, OneAnswer
<1>7. AnswerExact'
  <2>1. Sized' = Sized /\ Readers' = Readers
    BY <1>1 DEF Sized, Readers
  <2>2. ~Sized => a.body + job.head + outPipe' = wrote /\ ~Readers
    BY <1>2, <1>3, PipeTypes DEF PipeInv, AnswerSet
  <2> QED BY <1>1, <1>2, <1>3, <1>4, <2>1, <2>2 DEF AnswerExact
<1> QED BY <1>1, <1>4, <1>5, <1>6, <1>7

\* An error: neither pipe is polled any more, and the worker is killed.
LEMMA ErrorKept ==
    ASSUME PipeInv, inPoll \/ outPoll, UNCHANGED <<job, wrote, todo>>,
           OnCgiError, outPipe' \in Nat, outPoll \/ outPipe' = outPipe,
           (job.bad /\ outPoll) \/ ~Readers
    PROVE  /\ answers' \in Seq(AnswerSet) /\ Answers' /\ OneAnswer' /\ AnswerExact'
           /\ inPoll' = FALSE /\ outPoll' = FALSE
           /\ worker' = IF worker = "run" THEN "killed" ELSE worker
<1>0. /\ answers' = Append(answers, ServerError) /\ inPoll' = FALSE /\ outPoll' = FALSE
      /\ worker' = IF worker = "run" THEN "killed" ELSE worker
      /\ job' = job /\ wrote' = wrote
  BY DEF OnCgiError
<1>1. ServerError \in AnswerSet /\ ServerError.code = "500"
  BY DEF ServerError, AnswerSet
<1> DEFINE a == ServerError
<1> HIDE DEF a
<1>2. /\ answers \in Seq(AnswerSet)
      /\ \/ answers = <<>>
         \/ Len(answers) = 1 /\ answers[1].code = "given" /\ inPoll /\ ~outPoll
  BY PipeTypes DEF PipeInv, Answers
<1>3. /\ answers' \in Seq(AnswerSet) /\ Len(answers') = Len(answers) + 1
      /\ answers'[Len(answers) + 1] = a /\ answers' # <<>>
      /\ \A k \in DOMAIN answers : answers'[k] = answers[k]
      /\ DOMAIN answers' = DOMAIN answers \union {Len(answers) + 1}
  BY <1>0, <1>1, <1>2, OneMore DEF a
<1>4. Answers'
  BY <1>0, <1>3 DEF Answers
<1>5. /\ Sized' = Sized /\ Readers' = Readers
      /\ a.code = "500" /\ (~Readers \/ answers = <<>>)
  BY <1>0, <1>1, <1>2 DEF Sized, Readers, a
<1>6. OneAnswer'
  <2>1. CASE answers = <<>>
    BY <1>0, <1>3, <2>1, PipeTypes DEF PipeInv, OneAnswer
  <2>2. CASE Len(answers) = 1 /\ answers[1].code = "given" /\ inPoll /\ ~outPoll
    <3>1. job.body > 0 /\ ~Readers
      BY <2>2 DEF PipeInv, Answers
    <3>2. Len(answers') = 2 /\ answers'[1] = answers[1] /\ answers'[2] = a
      BY <1>2, <1>3, <2>2
    <3> QED BY <1>0, <1>5, <2>2, <3>1, <3>2, <1>1, PipeTypes DEF PipeInv, OneAnswer, a
  <2> QED BY <1>2, <2>1, <2>2
<1>7. AnswerExact'
  <2>1. ASSUME NEW k \in DOMAIN answers'
        PROVE  /\ answers'[k].code = "given" =>
                    /\ ~job.bad
                    /\ \/ answers'[k].body = (IF Sized THEN job.size ELSE job.total - job.head)
                       \/ ~Sized /\ answers'[k].body + job.head + outPipe' = wrote /\ ~Readers
               /\ answers'[k].code = "500" => job.bad \/ ~Readers
    <3>1. CASE k = Len(answers) + 1
      BY <1>1, <1>3, <3>1 DEF a
    <3>2. CASE k \in DOMAIN answers
      <4>1. outPipe' = outPipe /\ answers'[k] = answers[k]
        BY <1>2, <1>3, <3>2
      <4> QED BY <3>2, <4>1 DEF PipeInv, AnswerExact
    <3> QED BY <1>3, <2>1, <3>1, <3>2
  <2> QED BY <1>0, <1>3, <1>5, <2>1 DEF AnswerExact
<1> QED BY <1>0, <1>3, <1>4, <1>6, <1>7

\* No answer is made, and what an answer is compared with stays.
LEMMA SameAnswers ==
    ASSUME PipeInv, UNCHANGED <<job, answers>>, TypeOK', Bytes',
           inPoll' => inPoll, outPoll' => outPoll, ~Readers => ~Readers',
           answers = <<>> => Outcome(read', FALSE) = "none",
           answers # <<>> /\ ~Readers => UNCHANGED <<wrote, outPipe>>
    PROVE  Answers' /\ OneAnswer' /\ AnswerExact'
<1>1. Answers'
  BY DEF PipeInv, Answers, Outcome, Sized
<1>2. OneAnswer'
  BY DEF PipeInv, OneAnswer
<1>3. AnswerExact'
  <2>1. \A k \in DOMAIN answers : answers # <<>>
    OBVIOUS
  <2>2. ASSUME answers = <<>>, Sized, outPipe' = 0
        PROVE  wrote' < job.head + job.size
    <3>1. read' \in Nat /\ read' + outPipe' = wrote'
      BY DEF TypeOK, Bytes
    <3>2. read' < job.head + job.size
      BY <2>2, <3>1, Outcomes, PipeTypes DEF PipeInv
    <3> QED BY <2>2, <3>1, <3>2
  <2>3. outPipe' \in Nat /\ Sized' = Sized
    BY DEF TypeOK, Sized
  <2> QED BY <2>1, <2>2, <2>3 DEF PipeInv, AnswerExact
<1> QED BY <1>1, <1>2, <1>3

LEMMA OutputKept ==
    ASSUME PipeInv, pc = "handle", queued' = "NONE", OnCgiOutput,
           UNCHANGED <<job, wrote, todo>>
    PROVE  PipeInv'
<1> DEFINE taken == Least(outPipe, Portion)
           n == read + taken
<1>1. /\ outPoll /\ read' = n /\ outPipe' = outPipe - taken /\ pc' = "reap"
      /\ UNCHANGED <<inBuf, left, inPipe>>
      /\ \/ Outcome(n, FALSE) = "message" /\ OnCgiResponse(n)
         \/ Outcome(n, FALSE) = "error" /\ OnCgiError
         \/ Outcome(n, FALSE) = "none" /\ UNCHANGED <<answers, inPoll, outPoll, worker>>
  BY DEF OnCgiOutput, PipeInv, Place
<1>2. taken \in 0..outPipe
  <2>1. outPipe \in Nat /\ Portion \in Nat
    BY Facts
  <2> QED BY <2>1 DEF Least
<1> HIDE DEF taken
<1>3. n \in Nat /\ outPipe' \in Nat /\ outPipe' <= OutCap /\ n + outPipe' = wrote
  <2>1. /\ read \in Nat /\ outPipe \in Nat /\ OutCap \in Nat
        /\ outPipe <= OutCap /\ read + outPipe = wrote
    BY Facts
  <2> QED BY <1>1, <1>2, <2>1
<1> HIDE DEF n
<1>4. Bytes'
  BY <1>1, <1>3 DEF PipeInv, Bytes
<1>5. /\ answers' \in Seq(AnswerSet) /\ inPoll' \in BOOLEAN /\ outPoll' \in BOOLEAN
      /\ worker' \in {"run", "killed", "closed", "zombie", "reaped"}
      /\ Answers' /\ OneAnswer' /\ AnswerExact'
  <2>0. PipeInv /\ inPoll \in BOOLEAN /\ worker \in {"run", "killed", "closed", "zombie", "reaped"}
    BY DEF PipeInv, TypeOK
  <2>1. CASE Outcome(n, FALSE) = "message" /\ OnCgiResponse(n)
    BY <1>1, <1>3, <2>0, <2>1, ResponseKept
  <2>2. CASE Outcome(n, FALSE) = "error" /\ OnCgiError
    <3>1. job.bad
      BY <1>3, <2>2, Outcomes, PipeTypes DEF PipeInv
    <3> QED BY <1>1, <1>3, <2>0, <2>2, <3>1, ErrorKept
  <2>3. CASE Outcome(n, FALSE) = "none" /\ UNCHANGED <<answers, inPoll, outPoll, worker>>
    <3>1. answers = <<>> /\ Readers' = Readers
      BY <1>1, <2>3 DEF PipeInv, Answers, Readers
    <3>2. TypeOK'
      BY <1>1, <1>3, <2>3 DEF PipeInv, TypeOK
    <3>3. Answers' /\ OneAnswer' /\ AnswerExact'
      BY <1>1, <1>4, <2>3, <3>1, <3>2, SameAnswers
    <3> QED BY <3>2, <3>3, <2>3, PipeTypes, <2>0 DEF PipeInv, TypeOK
  <2> QED BY <1>1, <2>1, <2>2, <2>3
<1>6. TypeOK'
  BY <1>1, <1>3, <1>5 DEF PipeInv, TypeOK, AnswerSet
<1>7. Place'
  BY <1>1 DEF PipeInv, Place
<1> QED BY <1>4, <1>5, <1>6, <1>7 DEF PipeInv

LEMMA HupKept ==
    ASSUME PipeInv, pc = "handle", queued' = "NONE", OnCgiHup \/ OnCgiInputError,
           UNCHANGED <<job, wrote, todo>>
    PROVE  PipeInv'
<1>1. /\ pc' = "reap" /\ ~Readers /\ UNCHANGED <<read, inBuf, left, inPipe, outPipe>>
      /\ \/ outPoll /\ Outcome(read, TRUE) = "message" /\ OnCgiResponse(read)
         \/ (inPoll \/ outPoll) /\ OnCgiError
  BY DEF OnCgiHup, OnCgiInputError, PipeInv, Place
<1>2. /\ read \in Nat /\ outPipe' \in Nat /\ read + outPipe' = wrote
      /\ inPoll \in BOOLEAN /\ worker \in {"run", "killed", "closed", "zombie", "reaped"}
  BY <1>1 DEF PipeInv, TypeOK, Bytes
<1>3. /\ answers' \in Seq(AnswerSet) /\ inPoll' \in BOOLEAN /\ outPoll' \in BOOLEAN
      /\ worker' \in {"run", "killed", "closed", "zombie", "reaped"}
      /\ Answers' /\ OneAnswer' /\ AnswerExact'
  <2>1. CASE outPoll /\ Outcome(read, TRUE) = "message" /\ OnCgiResponse(read)
    BY <1>1, <1>2, <2>1, ResponseKept
  <2>2. CASE (inPoll \/ outPoll) /\ OnCgiError
    BY <1>1, <1>2, <2>2, ErrorKept
  <2> QED BY <1>1, <2>1, <2>2
<1>4. TypeOK'
  BY <1>1, <1>2, <1>3 DEF PipeInv, TypeOK, AnswerSet
<1>5. Bytes' /\ Place'
  BY <1>1 DEF PipeInv, Bytes, Place
<1> QED BY <1>3, <1>4, <1>5 DEF PipeInv

\* What a write that begins or goes on leaves.
LEMMA Moved ==
    ASSUME PipeInv, NEW bytes \in Nat \ {0}, bytes <= inBuf, Transfer(bytes)
    PROVE  /\ inPipe' \in Nat /\ left' \in Nat /\ inBuf' \in Nat
           /\ inPipe' <= InCap /\ inBuf' + inPipe' <= job.body
           /\ left' <= inBuf' /\ pc' \in {"reap", "write"}
           /\ pc' = "write" <=> left' > 0
           /\ job.readsFirst => todo = 0
<1> DEFINE n == Least(bytes, InCap - inPipe)
<1>1. n \in 0..bytes /\ n <= InCap - inPipe /\ inPipe \in Nat /\ inBuf \in Nat /\ InCap \in Nat
  BY Facts DEF Least
<1>2. /\ inPipe' = inPipe + n /\ left' = bytes - n /\ inBuf' = inBuf - n
      /\ pc' = IF n = bytes THEN "reap" ELSE "write"
  BY DEF Transfer
<1> HIDE DEF n
<1>3. inBuf + inPipe <= job.body /\ job.body \in Nat /\ todo \in Nat
  BY Facts
<1>4. job.readsFirst => todo = 0
  BY <1>1, <1>3, Facts
<1> QED BY <1>1, <1>2, <1>3, <1>4

\* Steps of the server that make no answer and leave the output pipe alone.
LEMMA QuietKept ==
    ASSUME PipeInv, UNCHANGED <<job, read, answers, outPipe, wrote, todo>>,
           TypeOK', Place', inPoll' => inPoll, outPoll' => outPoll, ~Readers => ~Readers',
           inPipe' <= InCap, inBuf' + inPipe' <= job.body,
           UNCHANGED <<inBuf, inPipe>> \/ (job.readsFirst => todo = 0)
    PROVE  PipeInv'
<1>1. Bytes'
  BY Facts DEF Bytes
<1>2. answers = <<>> => Outcome(read', FALSE) = "none"
  BY DEF PipeInv, Answers
<1>3. Answers' /\ OneAnswer' /\ AnswerExact'
  BY <1>1, <1>2, SameAnswers
<1> QED BY <1>1, <1>3 DEF PipeInv

LEMMA InputKept ==
    ASSUME PipeInv, pc = "handle", queued' = "NONE", OnCgiInput,
           UNCHANGED <<job, wrote, todo>>
    PROVE  PipeInv'
<1>1. /\ inPoll /\ left = 0 /\ Readers' = Readers
      /\ UNCHANGED <<outPoll, read, answers, outPipe, worker>>
  BY PipeTypes DEF OnCgiInput, PipeInv, Place, Readers
<1>2. CASE inBuf = 0 /\ inPoll' = FALSE /\ pc' = "reap" /\ UNCHANGED <<inBuf, left, inPipe>>
  <2>1. TypeOK' /\ Place'
    BY <1>1, <1>2 DEF PipeInv, TypeOK, Place
  <2> QED BY <1>1, <1>2, <2>1, QuietKept DEF PipeInv, Bytes
<1>3. CASE inBuf > 0 /\ Readers /\ Transfer(Least(inBuf, Portion)) /\ inPoll' = inPoll
  <2> DEFINE bytes == Least(inBuf, Portion)
  <2>1. bytes \in Nat \ {0} /\ bytes <= inBuf
    BY <1>3, Facts DEF Least
  <2> HIDE DEF bytes
  <2>2. Transfer(bytes)
    BY <1>3 DEF bytes
  <2>3. /\ inPipe' \in Nat /\ left' \in Nat /\ inBuf' \in Nat
        /\ inPipe' <= InCap /\ inBuf' + inPipe' <= job.body
        /\ left' <= inBuf' /\ pc' \in {"reap", "write"}
        /\ pc' = "write" <=> left' > 0
        /\ job.readsFirst => todo = 0
    BY <2>1, <2>2, Moved
  <2>4. TypeOK'
    BY <1>1, <1>3, <2>3 DEF PipeInv, TypeOK
  <2>5. Place'
    BY <1>1, <1>3, <2>3 DEF PipeInv, Place
  <2> QED BY <1>1, <1>3, <2>3, <2>4, <2>5, QuietKept
<1>4. CASE pc' = "down" /\ UNCHANGED <<inBuf, left, inPoll, inPipe>>
  <2>1. TypeOK' /\ Place'
    BY <1>1, <1>4 DEF PipeInv, TypeOK, Place
  <2> QED BY <1>1, <1>4, <2>1, QuietKept DEF PipeInv, Bytes
<1> QED BY <1>2, <1>3, <1>4 DEF OnCgiInput

LEMMA WriteKept ==
    ASSUME PipeInv, Write
    PROVE  PipeInv'
<1>1. /\ pc = "write" /\ queued = "NONE" /\ queued' = queued
      /\ left \in Nat \ {0} /\ left <= inBuf /\ Readers' = Readers
      /\ UNCHANGED <<job, inPoll, outPoll, read, answers, outPipe, worker, wrote, todo>>
  BY PipeTypes DEF Write, workerVars, PipeInv, Place, Readers
<1>2. CASE Transfer(left)
  <2>1. /\ inPipe' \in Nat /\ left' \in Nat /\ inBuf' \in Nat
        /\ inPipe' <= InCap /\ inBuf' + inPipe' <= job.body
        /\ left' <= inBuf' /\ pc' \in {"reap", "write"}
        /\ pc' = "write" <=> left' > 0
        /\ job.readsFirst => todo = 0
    BY <1>1, <1>2, Moved
  <2>2. TypeOK' /\ Place'
    BY <1>1, <2>1 DEF PipeInv, TypeOK, Place
  <2> QED BY <1>1, <2>1, <2>2, QuietKept
<1>3. CASE pc' = "reap" /\ left' = 0 /\ UNCHANGED <<inBuf, inPipe>>
  <2>1. TypeOK' /\ Place'
    BY <1>1, <1>3, PipeTypes DEF PipeInv, TypeOK, Place
  <2> QED BY <1>1, <1>3, <2>1, QuietKept DEF PipeInv, Bytes
<1> QED BY <1>2, <1>3 DEF Write

LEMMA ReapKept ==
    ASSUME PipeInv, EvaluateCgiWorkers
    PROVE  PipeInv'
<1>1. /\ pc = "reap" /\ pc' = "poll"
      /\ UNCHANGED <<job, queued, inBuf, left, read, answers, inPipe, outPipe, wrote, todo>>
      /\ \/ inPoll' = FALSE /\ outPoll' = FALSE /\ worker' = "reaped"
         \/ UNCHANGED <<inPoll, outPoll, worker>>
  BY DEF EvaluateCgiWorkers
<1>2. ~Readers => ~Readers'
  BY <1>1 DEF Readers
<1>3. TypeOK'
  BY <1>1 DEF PipeInv, TypeOK
<1>4. Place'
  BY <1>1 DEF PipeInv, Place
<1> QED BY <1>1, <1>2, <1>3, <1>4, QuietKept DEF PipeInv, Bytes

LEMMA PollKept ==
    ASSUME PipeInv, EvaluateIoEvents
    PROVE  PipeInv'
<1>1. /\ pc = "poll" /\ Readers' = Readers
      /\ UNCHANGED <<job, inBuf, left, inPoll, outPoll, read, answers,
                     inPipe, outPipe, worker, wrote, todo>>
      /\ \/ pc' = "reap" /\ queued' = "NONE"
         \/ /\ pc' = "handle"
            /\ queued' \in (IF inPoll THEN InEvents ELSE {})
                           \union (IF outPoll THEN OutEvents ELSE {})
  BY DEF EvaluateIoEvents, workerVars, Readers
<1>2. /\ queued' \in {"NONE", "READ", "CLOSE", "WRITE", "ERROR"} /\ pc' \in {"reap", "handle"}
      /\ pc' = "handle" <=> queued' # "NONE"
      /\ queued' \in {"READ", "CLOSE"} => outPoll
      /\ queued' \in {"WRITE", "ERROR"} => inPoll
      /\ queued' \in {"CLOSE", "ERROR"} => ~Readers
  BY <1>1 DEF InEvents, OutEvents
<1>3. TypeOK'
  BY <1>1, <1>2 DEF PipeInv, TypeOK
<1>4. Place'
  BY <1>1, <1>2 DEF PipeInv, Place
<1> QED BY <1>1, <1>3, <1>4, QuietKept DEF PipeInv, Bytes

-----------------------------------------------------------------------------
(* The steps of the worker *)

LEMMA WorkerKept ==
    ASSUME PipeInv, Worker
    PROVE  PipeInv'
<1>1. /\ UNCHANGED <<job, pc, queued, inBuf, left, inPoll, outPoll, read, answers>>
      /\ ~Readers => ~Readers' /\ UNCHANGED <<wrote, outPipe>>
  BY DEF Worker, WorkerRead, WorkerWrites, WorkerWrite, WorkerClose, WorkerExit,
         serverVars, workerVars, Readers
<1>2. Place'
  BY <1>1 DEF PipeInv, Place
<1>3. TypeOK' /\ Bytes'
  <2>0. /\ TypeOK /\ Bytes /\ job.body \in Nat /\ job.total \in Nat /\ inBuf \in Nat
        /\ inPipe \in Nat /\ outPipe \in Nat /\ wrote \in Nat /\ todo \in Nat
        /\ OutCap \in Nat /\ wrote + todo <= job.total /\ outPipe <= OutCap
        /\ inBuf + inPipe <= job.body
    BY Facts DEF PipeInv
  <2>1. CASE WorkerRead
    <3>1. PICK n \in 1..inPipe : inPipe' = inPipe - n
      BY <2>1 DEF WorkerRead
    <3>2. inPipe' \in 0..inPipe
      BY <2>0, <3>1
    <3>3. UNCHANGED <<outPipe, worker, wrote, todo>> /\ todo = 0
      BY <2>1 DEF WorkerRead, workerVars
    <3>4. TypeOK'
      BY <1>1, <2>0, <3>2, <3>3 DEF TypeOK
    <3>5. Bytes'
      BY <1>1, <2>0, <3>2, <3>3, Facts DEF Bytes
    <3> QED BY <3>4, <3>5
  <2>2. CASE WorkerWrites
    <3>1. PICK n \in 1..(job.total - wrote) : todo' = n
      BY <2>2 DEF WorkerWrites
    <3>2. UNCHANGED <<inPipe, outPipe, worker, wrote>>
      BY <2>2 DEF WorkerWrites
    <3>3. job.readsFirst => inBuf = 0 /\ inPipe = 0
      BY <2>0, <2>2 DEF WorkerWrites, Consumed
    <3>4. todo' \in Nat /\ wrote + todo' <= job.total
      BY <2>0, <3>1
    <3>5. TypeOK'
      BY <1>1, <2>0, <3>2, <3>4 DEF TypeOK
    <3>6. Bytes'
      BY <1>1, <2>0, <3>2, <3>3, <3>4 DEF Bytes
    <3> QED BY <3>5, <3>6
  <2>3. CASE WorkerWrite
    <3> DEFINE n == Least(todo, OutCap - outPipe)
    <3>1. /\ n > 0 /\ outPipe' = outPipe + n /\ wrote' = wrote + n /\ todo' = todo - n
          /\ UNCHANGED <<inPipe, worker>>
      BY <2>3 DEF WorkerWrite
    <3>2. n \in 0..todo /\ outPipe + n <= OutCap
      BY <2>0 DEF Least
    <3> HIDE DEF n
    <3>3. /\ outPipe' \in Nat /\ wrote' \in Nat /\ todo' \in Nat /\ outPipe' <= OutCap
          /\ wrote' + todo' = wrote + todo /\ todo' < todo
      BY <2>0, <3>1, <3>2
    <3>4. TypeOK'
      BY <1>1, <2>0, <3>1, <3>3 DEF TypeOK
    <3>5. read + outPipe' = wrote'
      BY <2>0, <3>1, <3>2, Facts
    <3>6. Bytes'
      BY <1>1, <2>0, <3>1, <3>3, <3>5 DEF Bytes
    <3> QED BY <3>4, <3>6
  <2>4. CASE WorkerClose \/ WorkerExit
    <3>1. /\ UNCHANGED <<inPipe, outPipe, wrote, todo>> /\ worker' \in {"closed", "zombie"}
      BY <2>4 DEF WorkerClose, WorkerExit
    <3> QED BY <1>1, <3>1 DEF PipeInv, TypeOK, Bytes
  <2> QED BY <2>1, <2>2, <2>3, <2>4 DEF Worker
<1>4. answers = <<>> => Outcome(read', FALSE) = "none"
  BY <1>1 DEF PipeInv, Answers
<1>5. Answers' /\ OneAnswer' /\ AnswerExact'
  BY <1>1, <1>3, <1>4, SameAnswers
<1> QED BY <1>2, <1>3, <1>5 DEF PipeInv

-----------------------------------------------------------------------------
(* The theorems *)

LEMMA PipeInit == Init => PipeInv
<1> SUFFICES ASSUME Init PROVE PipeInv
  OBVIOUS
<1>1. job \in Job
  BY JobAssumption DEF Init
<1>2. TypeOK
  BY <1>1 DEF Init, TypeOK, Job
<1>3. Bytes /\ Place
  BY <1>1, <1>2, PipeTypes DEF Init, Bytes, Place
<1>4. Answers
  <2>1. Outcome(0, FALSE) = "none"
    BY <1>1, Outcomes
  <2> QED BY <2>1 DEF Init, Answers
<1>5. OneAnswer
  BY <1>1 DEF Init, OneAnswer
<1>6. AnswerExact
  BY DEF Init, AnswerExact
<1> QED BY <1>2, <1>3, <1>4, <1>5, <1>6 DEF PipeInv

LEMMA PipeNext == PipeInv /\ [Next]_vars => PipeInv'
<1> SUFFICES ASSUME PipeInv, [Next]_vars PROVE PipeInv'
  OBVIOUS
<1>1. CASE Handle
  <2>1. pc = "handle" /\ queued' = "NONE" /\ UNCHANGED <<job, wrote, todo>>
    BY <1>1 DEF Handle
  <2> QED BY <1>1, <2>1, OutputKept, HupKept, InputKept DEF Handle
<1>2. CASE Write
  BY <1>2, WriteKept
<1>3. CASE EvaluateCgiWorkers
  BY <1>3, ReapKept
<1>4. CASE EvaluateIoEvents
  BY <1>4, PollKept
<1>5. CASE Worker
  BY <1>5, WorkerKept
<1>6. CASE UNCHANGED vars
  <2>1. UNCHANGED <<job, pc, queued, inBuf, left, inPoll, outPoll, read, answers,
                    inPipe, outPipe, worker, wrote, todo>>
    BY <1>6 DEF vars, serverVars, workerVars
  <2>2. TypeOK' /\ Place' /\ Readers' = Readers
    BY <2>1 DEF PipeInv, TypeOK, Place, Readers
  <2> QED BY <2>1, <2>2, QuietKept DEF PipeInv, Bytes
<1> QED BY <1>1, <1>2, <1>3, <1>4, <1>5, <1>6 DEF Next, Server

\* The inductive invariant: no byte is lost between the two sides, an end is
\* polled only as long as an answer may come from it.
THEOREM PipeInvariant == Spec => []PipeInv
  BY PipeInit, PipeNext, PTL DEF Spec

\* Every variable keeps its type: no count of bytes becomes negative.
THEOREM PipeTypeCorrect == Spec => []TypeOK
<1>1. PipeInv => TypeOK
  BY DEF PipeInv
<1> QED BY <1>1, PipeInvariant, PTL

\* A request gets one answer, or a second only as OneAnswer says.
THEOREM AnswersCounted == Spec => []OneAnswer
<1>1. PipeInv => OneAnswer
  BY DEF PipeInv
<1> QED BY <1>1, PipeInvariant, PTL

\* What an answer holds, and what of it may be missing.
THEOREM AnswersComplete == Spec => []AnswerExact
<1>1. PipeInv => AnswerExact
  BY DEF PipeInv
<1> QED BY <1>1, PipeInvariant, PTL

\* Server and worker wait for each other only with a worker that writes more
\* than one pipe holds before it has read a body that the other does not hold.
THEOREM MutualWaitConditions == Spec => []NoMutualWait
<1>1. PipeInv => NoMutualWait
  <2> SUFFICES ASSUME PipeInv, MutualWait
               PROVE  ~job.readsFirst /\ job.body > InCap /\ job.total > OutCap
    BY DEF NoMutualWait
  <2>1. /\ pc = "write" /\ inPipe = InCap /\ todo > 0 /\ outPipe = OutCap
    BY DEF MutualWait
  <2>2. left > 0 /\ left <= inBuf
    BY <2>1 DEF PipeInv, Place
  <2> QED BY <2>1, <2>2, Facts
<1> QED BY <1>1, PipeInvariant, PTL
=============================================================================
